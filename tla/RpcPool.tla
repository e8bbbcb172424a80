------------------------------- MODULE RpcPool -------------------------------
(***************************************************************************)
(* The RPC hosts of one chain (services/rpc-failover.ts, rpc-health.ts and *)
(* the circuits of provider-rate-limiter.ts): probes, calls with one retry *)
(* on another host, and the block-lag check, all of them suspended between *)
(* their requests and the answers.  Waits are counted down by Tick; of a   *)
(* latency only its use, the choice among the healthy, is kept.            *)
(***************************************************************************)
EXTENDS Integers, FiniteSets, Sequences, FiniteSetsExt

CONSTANTS
    Endpoints,    \* the deduplicated hosts in configuration order
    Threshold,    \* failureThreshold
    BaseBackoff,  \* baseBackoffMs, in ticks
    MaxBackoff,   \* maxBackoffMs, in ticks
    LagAllowed,   \* DEFAULT_LAG_THRESHOLD_BLOCKS
    Heights       \* block heights a host may answer

ASSUME EndpointsAssumption == Endpoints \in Seq(STRING) /\ Endpoints # << >>

VARIABLES
    healthy,      \* hosts whose last word was a valid answer
    circuit,      \* host -> [wait, failures, consecutive] of its CircuitState
    box,          \* host -> ticks its lag quarantine still lasts
    failed,       \* failedUrls
    probe,        \* [on, awaits] of probeLatencies
    lag,          \* [on, awaits, seen] of runBlockLagVerification
    call,         \* [stage, attempt, host, tried] of rpcCallWithFailover
    verified,     \* chainIdVerifiedHosts
    calm          \* every host answers correctly from now on

poolVars == <<healthy, circuit, box, failed, probe, lag, call, verified, calm>>

Host == {Endpoints[i] : i \in DOMAIN Endpoints}
Open(h) == circuit[h].wait > 0

\* The first match of the list, as Array.find returns it, as a set.
FirstOf(P(_)) ==
    {Endpoints[i] : i \in {j \in DOMAIN Endpoints : P(Endpoints[j]) /\ \A k \in 1..(j - 1) : ~P(Endpoints[k])}}

\* Mutant: the fallback ignores what was reported.
ActiveRPCForgetful(well, bad) ==
    LET good == {h \in well : ~Open(h) /\ box[h] = 0}
    IN  IF good # {} THEN good ELSE {Endpoints[1]}

\* getActiveRPC: the healthy, else the first nobody complained about, else the first.
ActiveRPC(well, bad) ==
    LET good == {h \in well : ~Open(h) /\ box[h] = 0}
        spare == FirstOf(LAMBDA h : h \notin bad /\ ~Open(h))
    IN  IF good # {} THEN good ELSE IF spare # {} THEN spare ELSE {Endpoints[1]}

-----------------------------------------------------------------------------
(* Circuits                                                                *)

\* Past MaxBackoff another failure in a row makes no difference.
Backoff(n) == Min({MaxBackoff, BaseBackoff * 2 ^ (n - 1)})

\* recordFailure('429'): the circuit opens at the threshold, for as long as the
\* host asked or an exponential backoff.
Limited(c, asked) ==
    LET n == IF Backoff(c.consecutive + 1) < MaxBackoff THEN c.consecutive + 1 ELSE c.consecutive
    IN  IF c.failures + 1 < Threshold THEN [c EXCEPT !.failures = @ + 1]
        ELSE [failures |-> 0, consecutive |-> n, wait |-> IF asked > 0 THEN asked ELSE Backoff(c.consecutive + 1)]

\* recordSuccess closes the circuit, also one that opened after the request left.
Closed == [wait |-> 0, failures |-> 0, consecutive |-> 0]

-----------------------------------------------------------------------------

PoolInit ==
    /\ healthy = {} /\ failed = {} /\ verified = {} /\ calm = FALSE
    /\ circuit = [h \in Host |-> Closed] /\ box = [h \in Host |-> 0]
    /\ probe = [on |-> FALSE, awaits |-> {}]
    /\ lag = [on |-> FALSE, awaits |-> {}, seen |-> << >>]
    /\ call = [stage |-> "idle", attempt |-> 0, host |-> Endpoints[1], tried |-> {}]

\* probeLatencies asks every host at once, except those with an open circuit.
ProbeBegins ==
    /\ ~probe.on
    /\ probe' = [on |-> TRUE, awaits |-> {h \in Host : ~Open(h)}]
    /\ healthy' = {h \in healthy : ~Open(h)}
    /\ UNCHANGED <<circuit, box, failed, lag, call, verified, calm>>

ProbeAnswers(h, answer, asked) ==
    /\ h \in probe.awaits /\ (calm => answer = "valid")
    /\ probe' = [probe EXCEPT !.awaits = @ \ {h}]
    /\ healthy' = IF answer = "valid" THEN healthy \cup {h} ELSE healthy \ {h}
    /\ circuit' = CASE answer = "limited" -> [circuit EXCEPT ![h] = Limited(@, asked)]
                    [] answer = "dead" -> circuit
                    [] OTHER -> [circuit EXCEPT ![h] = Closed]
    /\ UNCHANGED <<box, failed, lag, call, verified, calm>>

\* The end of the pass forgets the complaints, those made meanwhile included.
ProbeEnds ==
    /\ probe.on /\ probe.awaits = {}
    /\ probe' = [probe EXCEPT !.on = FALSE] /\ failed' = {}
    /\ UNCHANGED <<healthy, circuit, box, lag, call, verified, calm>>

\* reportRPCFailure
Report(h) == healthy' = healthy \ {h} /\ failed' = failed \cup {h}

-----------------------------------------------------------------------------
(* rpcCallWithFailover                                                     *)

Goes(h, n) ==
    call' = [stage |-> IF h \in verified THEN "request" ELSE "chainId", attempt |-> n, host |-> h,
             tried |-> (IF n = 1 THEN {} ELSE call.tried) \cup {h}]

CallBegins ==
    /\ call.stage = "idle"
    /\ \E h \in ActiveRPC(healthy, failed) : Goes(h, 1)
    /\ UNCHANGED <<healthy, circuit, box, failed, probe, lag, verified, calm>>

\* The answer of the chain id check or of the request itself.  A failure demotes
\* the host and moves the one retry to the next.
CallAnswers(good) ==
    /\ call.stage \in {"chainId", "request"} /\ (calm => good)
    /\ IF good
         THEN /\ call' = [call EXCEPT !.stage = IF @ = "chainId" THEN "request" ELSE "idle"]
              /\ verified' = verified \cup (IF call.stage = "chainId" THEN {call.host} ELSE {})
              /\ UNCHANGED <<healthy, failed>>
         ELSE /\ Report(call.host) /\ UNCHANGED verified
              /\ IF call.attempt = 2 THEN call' = [call EXCEPT !.stage = "idle"]
                 ELSE \E h \in ActiveRPC(healthy', failed') : Goes(h, 2)
    /\ UNCHANGED <<circuit, box, probe, lag, calm>>

-----------------------------------------------------------------------------
(* Block lag                                                               *)

LagBegins ==
    /\ ~lag.on /\ Cardinality(healthy) >= 2
    /\ lag' = [on |-> TRUE, awaits |-> healthy, seen |-> << >>]
    /\ UNCHANGED <<healthy, circuit, box, failed, probe, call, verified, calm>>

LagAnswers(h, height) ==
    /\ h \in lag.awaits /\ (calm => height = Max(Heights))
    /\ lag' = [lag EXCEPT !.awaits = @ \ {h},
                          !.seen = [g \in DOMAIN @ \cup {h} |-> IF g = h THEN height ELSE @[g]]]
    /\ UNCHANGED <<healthy, circuit, box, failed, probe, call, verified, calm>>

LagSilent(h) ==
    /\ h \in lag.awaits /\ ~calm
    /\ lag' = [lag EXCEPT !.awaits = @ \ {h}]
    /\ Report(h)
    /\ UNCHANGED <<circuit, box, probe, call, verified, calm>>

\* recordLag for everyone who answered.  The pool passes its own reporter, so a
\* host's failureCount stays 0 and a quarantine is always the shortest one.
LagEnds ==
    /\ lag.on /\ lag.awaits = {}
    /\ lag' = [lag EXCEPT !.on = FALSE, !.seen = << >>]
    /\ box' = [h \in Host |->
                 IF h \in DOMAIN lag.seen
                    /\ Max({lag.seen[g] : g \in DOMAIN lag.seen}) - lag.seen[h] > LagAllowed
                 THEN 1 ELSE box[h]]
    /\ UNCHANGED <<healthy, circuit, failed, probe, call, verified, calm>>

-----------------------------------------------------------------------------

Tick ==
    /\ \E h \in Host : Open(h) \/ box[h] > 0
    /\ circuit' = [h \in Host |-> [circuit[h] EXCEPT !.wait = IF @ > 0 THEN @ - 1 ELSE 0]]
    /\ box' = [h \in Host |-> IF box[h] > 0 THEN box[h] - 1 ELSE 0]
    /\ UNCHANGED <<healthy, failed, probe, lag, call, verified, calm>>

\* The outage is over.
CalmsDown ==
    /\ ~calm /\ calm' = TRUE
    /\ UNCHANGED <<healthy, circuit, box, failed, probe, lag, call, verified>>

Calling == CallBegins \/ \E good \in BOOLEAN : CallAnswers(good)
LagChecking ==
    \/ LagBegins \/ LagEnds
    \/ \E h \in Host : LagSilent(h) \/ \E k \in Heights : LagAnswers(h, k)

PoolNext ==
    \/ ProbeBegins \/ ProbeEnds \/ CalmsDown \/ Tick \/ Calling \/ LagChecking
    \/ \E h \in Host, a \in {"valid", "wrong", "dead", "limited"}, again \in Nat : ProbeAnswers(h, a, again)
PoolSpec == PoolInit /\ [][PoolNext]_poolVars

-----------------------------------------------------------------------------
(* Properties                                                              *)

\* A retry goes to a host the call has not tried, unless every other host was
\* reported or is rate limited (rpc-failover.ts:228-235, 376-415).
RetryMovesOn ==
    [][call'.attempt = 2 /\ call.attempt = 1 /\ call'.host \in call.tried
        => \A h \in Host \ call.tried : h \in failed \/ Open(h)]_poolVars

\* After an outage every host becomes eligible again: no circuit, quarantine,
\* complaint or probe answer from the outage keeps it out for good
\* (rpc-failover.ts:157-217, 274-310).
PoolHeals == calm ~> \A h \in Host : h \in healthy /\ ~Open(h) /\ box[h] = 0

=============================================================================
