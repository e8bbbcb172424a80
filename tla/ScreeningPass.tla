---------------------------- MODULE ScreeningPass ----------------------------
(***************************************************************************)
(* One screening pass of the meme agent (runScreeningPass in               *)
(* robinhood-screening-agent.ts) and the cycle that waits for it           *)
(* (withScreeningTimeout in runtime/screening-runner.ts, and the head of   *)
(* runScreeningCycle in startup/screening-cycle.ts).                       *)
(*                                                                         *)
(* The cycle starts a pass, waits for it or for the deadline, and counts   *)
(* the agent's last funnel.  A pass that missed the deadline goes on in    *)
(* the background until its next abort checkpoint, next to the pass of the *)
(* following cycle; both work on the agent's and the registry's state.     *)
(* Emitters are asked one after the other, each with a deadline of its own;*)
(* a call that missed it goes on too and may still report a failure.       *)
(***************************************************************************)
EXTENDS Discovery, TLC

CONSTANTS
    MaxPass,      \* passes in a behaviour
    MaxResearch   \* maxResearchPerPass

ASSUME ScreeningAssumption == MaxPass \in Nat /\ MaxResearch \in Nat

Passes == 1..MaxPass
NoPass == 0

VARIABLES
    pass,        \* what each pass holds
    late,        \* <<pass, source>>: emitter calls that outlived their deadline
    waiting,     \* the pass the cycle awaits, NoPass between cycles
    delivered,   \* pass -> the reports the cycle received from it
    lastFunnel,  \* the pass whose counts getLastFunnelStats returns
    counted,     \* pass -> how many cycles added its counts to the funnel
    outage,      \* history: passes in which a gate found the oracle's transport down
    leaked       \* history: tokens that are not on chain and an extra brought in

svars == <<pass, late, waiting, delivered, lastFunnel, counted, outage, leaked>>
vars == <<dvars, svars>>

Stages == {"new", "gate", "verify", "ask", "call", "loop", "screen", "done"}

Idle == [stage |-> "new", i |-> 0, rows |-> {}, hints |-> {}, merged |-> [t \in Tokens |-> NoRow],
         overlay |-> {}, obs |-> {}, todo |-> {}, reports |-> {}, admitted |-> 0, aborted |-> FALSE]

\* What is left of a pass that ended: its locals are gone.
Ended(r) == [Idle EXCEPT !.stage = "done", !.aborted = r.aborted, !.reports = r.reports]

TypeOK ==
    /\ DiscoveryTypeOK
    /\ \A p \in Passes :
         /\ pass[p].stage \in Stages /\ pass[p].i \in 0..(Len(Priority) + 1)
         /\ \A f \in {"rows", "hints", "overlay", "todo", "reports"} : pass[p][f] \subseteq Tokens
         /\ pass[p].merged \in [Tokens -> Sources \cup {NoRow, "gmgn"}]
         /\ pass[p].admitted \in 0..MaxResearch /\ pass[p].aborted \in BOOLEAN
    /\ late \subseteq Passes \X Sources
    /\ {waiting, lastFunnel} \subseteq Passes \cup {NoPass}
    /\ delivered \in [Passes -> SUBSET Tokens]
    /\ counted \in [Passes -> 0..MaxPass]
    /\ outage \subseteq Passes /\ leaked \subseteq Tokens

Init ==
    /\ DiscoveryInit
    /\ pass = [p \in Passes |-> Idle]
    /\ late = {} /\ waiting = NoPass /\ lastFunnel = NoPass
    /\ outage = {} /\ leaked = {}
    /\ delivered = [p \in Passes |-> {}] /\ counted = [p \in Passes |-> 0]

Source(p) == Priority[pass[p].i]

\* Rows a source may report when asked: a token that is not on chain comes only
\* from the sources the gate is there for; the others read pairs off the chain.
Rows(s) == {rows \in SUBSET Tokens : s \in RecallOnly \/ rows \subseteq Real}

-----------------------------------------------------------------------------
(* Discovery                                                               *)

\* The cycle starts the next pass; the pass evicts dead fresh pairs and
\* fetches the GMGN rows.
StartPass(p) ==
    /\ waiting = NoPass /\ pass[p].stage = "new" /\ \A q \in 1..(p - 1) : pass[q].stage # "new"
    /\ PruneFresh
    /\ waiting' = p
    /\ \E rows \in SUBSET Tokens : pass' = [pass EXCEPT ![p].stage = "gate", ![p].rows = rows]
    /\ UNCHANGED <<now, cooling, late, delivered, lastFunnel, counted, outage, leaked>>

\* The gate picks the rows the registry does not know and asks the oracle.
AskOracle(p) ==
    /\ pass[p].stage = "gate"
    /\ pass' = [pass EXCEPT ![p].hints = Hints(pass[p].rows), ![p].stage = "verify"]
    /\ UNCHANGED <<dvars, late, waiting, delivered, lastFunnel, counted, outage, leaked>>

Down(answers) == \E h \in DOMAIN answers : answers[h] = "down"

\* A source's rows join the merge and leave one sighting each.
Joined(p, rows) ==
    [pass[p] EXCEPT !.merged = MergeRows(@, Source(p), rows),
                    !.obs = @ \cup [token : rows, source : {Source(p)}, at : {now}],
                    !.rows = {}, !.hints = {}, !.i = @ + 1, !.stage = "ask"]

\* The oracle has answered: the promoted rows are the overlay (GMGN's gate,
\* before the first source) or the source's rows (a gate inside its call).
OracleAnswered(p) ==
    /\ pass[p].stage = "verify"
    /\ \E a \in [pass[p].hints -> {"exists", "absent", "down"}] :
         /\ \A h \in pass[p].hints : a[h] \in OracleAnswers(h)
         /\ LET promoted == Promoted(pass[p].rows, pass[p].hints, a)
            IN  pass' = [pass EXCEPT ![p] =
                           IF @.i = 0
                           THEN [@ EXCEPT !.overlay = promoted, !.rows = {}, !.hints = {},
                                          !.i = 1, !.stage = "ask"]
                           ELSE Joined(p, promoted)]
         /\ outage' = IF Down(a) THEN outage \cup {p} ELSE outage
    /\ UNCHANGED <<dvars, late, waiting, delivered, lastFunnel, counted, leaked>>

\* The next source: left alone while it cools down, asked otherwise.
AskSource(p) ==
    /\ pass[p].stage = "ask" /\ pass[p].i <= Len(Priority) /\ Source(p) \notin Extras
    /\ pass' = IF Source(p) \in CooldownAware /\ IsCooling(Source(p))
               THEN [pass EXCEPT ![p].i = @ + 1]
               ELSE [pass EXCEPT ![p].stage = "call"]
    /\ UNCHANGED <<dvars, late, waiting, delivered, lastFunnel, counted, outage, leaked>>

SourceAnswered(p) ==
    /\ pass[p].stage = "call"
    /\ \E rows \in Rows(Source(p)) :
         IF Source(p) \in RecallOnly
         THEN pass' = [pass EXCEPT ![p].rows = rows, ![p].hints = Hints(rows), ![p].stage = "verify"]
         ELSE pass' = [pass EXCEPT ![p] = Joined(p, rows)]
    /\ UNCHANGED <<dvars, late, waiting, delivered, lastFunnel, counted, outage, leaked>>

\* The rows of an extra are there already and join as they are.  Track rows are
\* GMGN's word on tokens that wallets bought: no gate has seen them.
ExtraJoined(p) ==
    /\ pass[p].stage = "ask" /\ pass[p].i <= Len(Priority) /\ Source(p) \in Extras
    /\ \E rows \in SUBSET Tokens :
         /\ pass' = [pass EXCEPT ![p] = Joined(p, rows)]
         /\ leaked' = leaked \cup (rows \ Real)
    /\ UNCHANGED <<dvars, late, waiting, delivered, lastFunnel, counted, outage>>

SourceFailed(p) ==
    /\ pass[p].stage = "call"
    /\ \E class \in Failures : Backoff(Source(p), class)
    /\ pass' = [pass EXCEPT ![p].i = @ + 1, ![p].stage = "ask"]
    /\ UNCHANGED <<now, life, firstSeen, late, waiting, delivered, lastFunnel, counted, outage, leaked>>

\* Mutant: only the verification of a source's rows has a deadline.
VerificationTimedOut(p) ==
    /\ pass[p].stage = "verify" /\ pass[p].i > 0
    /\ Backoff(Source(p), "transient")
    /\ late' = late \cup {<<p, Source(p)>>}
    /\ pass' = [pass EXCEPT ![p].rows = {}, ![p].hints = {}, ![p].i = @ + 1, ![p].stage = "ask"]
    /\ UNCHANGED <<now, life, firstSeen, waiting, delivered, lastFunnel, counted, outage, leaked>>

\* withTimeout: the source is skipped with a transient cooldown, its call goes on.
SourceTimedOut(p) ==
    /\ pass[p].stage = "call" \/ (pass[p].stage = "verify" /\ pass[p].i > 0)
    /\ Backoff(Source(p), "transient")
    /\ late' = late \cup {<<p, Source(p)>>}
    /\ pass' = [pass EXCEPT ![p].rows = {}, ![p].hints = {}, ![p].i = @ + 1, ![p].stage = "ask"]
    /\ UNCHANGED <<now, life, firstSeen, waiting, delivered, lastFunnel, counted, outage, leaked>>

\* A call that outlived its deadline answers to nobody, or fails and cools its source.
LateAnswer(p, s) ==
    /\ <<p, s>> \in late
    /\ late' = late \ {<<p, s>>}
    /\ \/ UNCHANGED cooling
       \/ \E class \in Failures : Backoff(s, class)
    /\ UNCHANGED <<now, life, firstSeen, pass, waiting, delivered, lastFunnel, counted, outage, leaked>>

\* Every source was asked: the overlay is laid on, the sightings are observed.
Merge(p) ==
    /\ pass[p].stage = "ask" /\ pass[p].i > Len(Priority)
    /\ Observe(pass[p].obs)
    /\ LET merged == Overlay(pass[p].merged, pass[p].overlay)
       IN  pass' = [pass EXCEPT ![p].merged = merged, ![p].todo = Candidates(merged),
                                ![p].obs = {}, ![p].overlay = {}, ![p].stage = "loop"]
    /\ UNCHANGED <<now, cooling, late, waiting, delivered, lastFunnel, counted, outage, leaked>>

-----------------------------------------------------------------------------
(* The candidates, one at a time                                           *)

\* The checkpoint before a candidate: an aborted pass ends with nothing, its
\* counts unpublished.
NextCandidate(p) ==
    /\ pass[p].stage = "loop" /\ pass[p].todo # {}
    /\ pass' = [pass EXCEPT ![p] = IF @.aborted THEN Ended([@ EXCEPT !.reports = {}])
                                   ELSE [@ EXCEPT !.stage = "screen"]]
    /\ UNCHANGED <<dvars, late, waiting, delivered, lastFunnel, counted, outage, leaked>>

\* The research budget of a pass: a refused finalist is reported without research.
Admitted(n) == IF n < MaxResearch THEN n + 1 ELSE n

\* The stage at which the gates of MemeGates stop the candidate: before the
\* audit, at the audit, after it, or not at all.  A report takes a research
\* slot while there is one.
Screened(p, t) ==
    /\ pass[p].stage = "screen" /\ t \in pass[p].todo
    /\ \E verdict \in {"rejected", "audit", "quiet", "report"} :
         /\ life' = IF verdict = "audit" THEN MarkDead(t)
                    ELSE IF verdict = "rejected" THEN life ELSE MarkRevalidated(t)
         /\ LET next == [pass[p] EXCEPT !.todo = @ \ {t}, !.stage = "loop"]
            IN  pass' = [pass EXCEPT ![p] =
                           IF verdict # "report" THEN next
                           ELSE [next EXCEPT !.reports = @ \cup {t}, !.admitted = Admitted(@)]]
    /\ UNCHANGED <<now, cooling, firstSeen, late, waiting, delivered, lastFunnel, counted, outage, leaked>>

\* The funnel counts the last finished pass, whichever the cycle waited for.
Count(last) == counted' = IF last = NoPass THEN counted ELSE [counted EXCEPT ![last] = @ + 1]

\* Mutant: reports go to whichever cycle waits.
FinishForAnyone(p) ==
    /\ pass[p].stage = "loop" /\ pass[p].todo = {}
    /\ pass' = [pass EXCEPT ![p] = Ended(@)]
    /\ lastFunnel' = p
    /\ IF waiting # NoPass
       THEN waiting' = NoPass /\ delivered' = [delivered EXCEPT ![p] = pass[p].reports] /\ Count(p)
       ELSE UNCHANGED <<waiting, delivered, counted>>
    /\ UNCHANGED <<dvars, late, outage, leaked>>

\* The pass publishes its counts and resolves; the cycle that still awaits it
\* gets the reports and counts.
Finish(p) ==
    /\ pass[p].stage = "loop" /\ pass[p].todo = {}
    /\ pass' = [pass EXCEPT ![p] = Ended(@)]
    /\ lastFunnel' = p
    /\ IF waiting = p
       THEN waiting' = NoPass /\ delivered' = [delivered EXCEPT ![p] = pass[p].reports] /\ Count(p)
       ELSE UNCHANGED <<waiting, delivered, counted>>
    /\ UNCHANGED <<dvars, late, outage, leaked>>

\* withScreeningTimeout: abort, resolve with no signals, and the cycle goes on.
Deadline(p) ==
    /\ waiting = p
    /\ pass' = [pass EXCEPT ![p].aborted = TRUE]
    /\ waiting' = NoPass /\ Count(lastFunnel)
    /\ UNCHANGED <<dvars, late, delivered, lastFunnel, outage, leaked>>

-----------------------------------------------------------------------------
(* Specification                                                           *)

Clock == Tick /\ UNCHANGED svars

\* What a pass does whether or not a source answers.
Continues(p) ==
    \/ AskOracle(p) \/ OracleAnswered(p) \/ AskSource(p) \/ ExtraJoined(p) \/ SourceTimedOut(p)
    \/ Merge(p) \/ NextCandidate(p) \/ (\E t \in Tokens : Screened(p, t)) \/ Finish(p)

Next ==
    \/ Clock
    \/ \E p \in Passes : StartPass(p) \/ Continues(p) \/ SourceAnswered(p) \/ SourceFailed(p) \/ Deadline(p)
    \/ \E p \in Passes, s \in Sources : LateAnswer(p, s)

Spec == Init /\ [][Next]_vars

\* What the runtime guarantees: timers fire, ready continuations run, and an
\* oracle call ends, if only by the default time limit of fetch.  No source
\* has to answer, and no cycle has to start.
Fairness == \A p \in Passes : WF_vars(Continues(p)) /\ WF_vars(Deadline(p))

FairSpec == Spec /\ Fairness

-----------------------------------------------------------------------------
(* Properties                                                              *)

\* A token that does not exist on chain becomes a candidate only after a gate
\* met a transport outage or an ungated extra reported that very token: whatever
\* the recall-only sources and GMGN's lists report, and however passes overlap,
\* nothing else introduces it (hint-gate.ts).
PhantomHasACause ==
    outage = {} => /\ \A p \in Passes : Candidates(pass[p].merged) \subseteq Real \cup leaked
                   /\ \A t \in Tokens : life[t] # "absent" => t \in Real \cup leaked

\* A pass that missed its deadline delivers nothing, whatever it still
\* reports, and a cycle gets only what its own pass screened.
DiscardedPassIsSilent ==
    \A p \in Passes : /\ pass[p].aborted => delivered[p] = {}
                      /\ delivered[p] \subseteq pass[p].reports

\* Types, and PhantomHasACause.
CandidatesAreVouched == TypeOK /\ PhantomHasACause

\* A token that failed its audit in one pass is not brought back by another
\* that cleared it, and its record survives every eviction.
DeadStaysDead == [][\A t \in Tokens : life[t] = "dead" => life'[t] = "dead"]_vars

\* No source can stall a pass and no pass can hold the cycle: whoever does not
\* answer, every pass that was started ends and is no longer awaited.
PassesEnd == []<>(waiting = NoPass /\ \A p \in Passes : pass[p].stage \in {"new", "done"})

=============================================================================
