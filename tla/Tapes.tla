-------------------------------- MODULE Tapes -------------------------------
(***************************************************************************)
(* The live tapes a node keeps open: JsonRpcWsTape and PumpDevTape over a  *)
(* WebSocket that opens, fails and closes when it likes, and the HTTP      *)
(* ingress Helius pushes launches to.  A tape is started once at boot and  *)
(* stopped once at shutdown.  A socket's number is free again after it     *)
(* closed.                                                                 *)
(***************************************************************************)
EXTENDS Integers, FiniteSets, Sequences, FiniteSetsExt, SequencesExt

CONSTANTS
    Sockets,         \* sockets of a tape that may be known at once
    MaxBackoffTicks, \* maxReconnectMs in ticks of reconnectBaseMs
    FloodTicks,      \* the flood guard's window, in the same ticks
    FloodCap,        \* maxControlPer10s
    Ring,            \* maxLaunches and maxEvents
    Mint,            \* tokens launched
    Deliveries       \* what Helius delivers: sequences of transactions

\* The server's limit of 40 frames in 10 s is more than reconnects a second apart can send.
ASSUME TapeAssumption ==
    /\ {MaxBackoffTicks, FloodTicks} \subseteq Nat \ {0}
    /\ FloodCap \in Nat /\ FloodCap >= 2 * FloodTicks

VARIABLES
    kind,            \* "rpc" or "pumpdev"
    started, closed, \* start() and stop() were called; this.closed
    current,         \* this.socket, 0 for null
    net,             \* socket -> none, connecting, open or failing
    connected,
    backoff,         \* the next wait: 2 ** reconnectAttempt, up to the maximum
    timer,           \* ticks until reconnectTimer fires, -1 for null
    reachable,       \* the server accepts connections
    greeted,         \* sockets whose subscription was sent
    flood,           \* [left, count] of controlWindow
    events,          \* the ring of launches, newest first
    ingress,         \* request -> [stage, left, dropped]: places of the delivery still to be
                     \* written, and those whose XADD failed
    stream,          \* launches in the Redis stream
    answered         \* [delivery, dropped] of those that were answered 200

tapeVars == <<kind, started, closed, current, net, connected, backoff, timer, reachable, greeted, flood, events>>
ingressVars == <<ingress, stream, answered>>

Socket == 1..Sockets
NoTimer == -1

TapeInit ==
    /\ kind \in {"rpc", "pumpdev"} /\ started = FALSE /\ closed = TRUE /\ current = 0
    /\ net = [s \in Socket |-> "none"] /\ connected = FALSE /\ backoff = 1 /\ timer = NoTimer
    /\ reachable = TRUE /\ greeted = {} /\ flood = [left |-> 0, count |-> 0] /\ events = <<>>

Unused == {s \in Socket : net[s] = "none"}

-----------------------------------------------------------------------------

\* scheduleReconnect: one timer at a time; the wait doubles up to its maximum.
Waits == timer' = backoff /\ backoff' = Min({2 * backoff, MaxBackoffTicks})

ScheduleReconnect(off) ==
    IF off \/ timer # NoTimer THEN UNCHANGED <<backoff, timer>> ELSE Waits

\* open(): a new socket, or none when it cannot be made.
Opens ==
    \/ /\ Unused # {} /\ current' = Min(Unused) /\ net' = [net EXCEPT ![Min(Unused)] = "connecting"]
       /\ timer' = NoTimer /\ UNCHANGED backoff
    \/ /\ Unused # {} /\ ~reachable /\ UNCHANGED <<current, net>>
       /\ Waits

Start ==
    /\ ~started /\ started' = TRUE /\ closed' = FALSE /\ Opens
    /\ UNCHANGED <<kind, connected, reachable, greeted, flood, events>>

\* The timer's callback: it is forgotten first, so a failing open() may set another.
TimerFires ==
    /\ timer = 0 /\ ~closed /\ Opens
    /\ UNCHANGED <<kind, started, closed, connected, reachable, greeted, flood, events>>

Stop ==
    /\ started /\ ~closed /\ closed' = TRUE /\ timer' = NoTimer /\ current' = 0 /\ connected' = FALSE
    /\ net' = [s \in Socket |-> IF s = current THEN "failing" ELSE net[s]]
    /\ UNCHANGED <<kind, started, backoff, reachable, greeted, flood, events>>

\* sendControl: authentication and subscription, dropped without a word when the
\* window is full; JsonRpcWsTape's sendFrame has no guard.
Window == IF flood.left = 0 THEN [left |-> FloodTicks, count |-> 0] ELSE flood
Greets(s) ==
    IF kind = "rpc" THEN greeted' = greeted \cup {s} /\ UNCHANGED flood
    ELSE /\ flood' = [Window EXCEPT !.count = Min({@ + 2, FloodCap})]
         /\ greeted' = IF Window.count + 2 <= FloodCap THEN greeted \cup {s} ELSE greeted

OnOpen(s) ==
    /\ net[s] = "connecting" /\ reachable /\ net' = [net EXCEPT ![s] = "open"]
    /\ IF closed THEN UNCHANGED <<backoff, connected, greeted, flood>>
       ELSE backoff' = 1 /\ connected' = TRUE /\ Greets(s)
    /\ UNCHANGED <<kind, started, closed, current, timer, reachable, events>>

\* onError closes the socket, and so does the network.
Fails(s) ==
    /\ net[s] \in {"connecting", "open"} /\ net' = [net EXCEPT ![s] = "failing"]
    /\ UNCHANGED <<kind, started, closed, current, connected, backoff, timer, reachable, greeted, flood, events>>

\* onClose of whichever socket it is: the one in use is forgotten.
OnClose(s) ==
    /\ net[s] = "failing" /\ net' = [net EXCEPT ![s] = "none"]
    /\ greeted' = greeted \ {s} /\ current' = 0 /\ connected' = FALSE /\ ScheduleReconnect(closed)
    /\ UNCHANGED <<kind, started, closed, reachable, flood, events>>

\* record and handleFrame: newest first, the oldest falls out, and a token may be
\* in the ring more than once.
Recorded(m) == SubSeq(<<m>> \o events, 1, Min({Ring, Len(events) + 1}))

\* A frame is recorded also when the tape was stopped while it was on its way.
OnMessage(s) ==
    /\ net[s] \in {"open", "failing"} /\ s \in greeted
    /\ \E m \in Mint : events' = Recorded(m)
    /\ UNCHANGED <<kind, started, closed, current, net, connected, backoff, timer, reachable, greeted, flood>>

TapeTick ==
    /\ timer > 0 \/ flood.left > 0
    /\ timer' = IF timer > 0 THEN timer - 1 ELSE timer
    /\ flood' = IF flood.left <= 1 THEN [left |-> 0, count |-> 0] ELSE [flood EXCEPT !.left = @ - 1]
    /\ timer # 0
    /\ UNCHANGED <<kind, started, closed, current, net, connected, backoff, reachable, greeted, events>>

Reachability ==
    /\ reachable' = ~reachable
    /\ UNCHANGED <<kind, started, closed, current, net, connected, backoff, timer, greeted, flood, events>>

TapeGoesOn == TimerFires \/ TapeTick \/ \E s \in Socket : OnOpen(s) \/ OnClose(s)
TapeNext == TapeGoesOn \/ Start \/ Stop \/ Reachability \/ \E s \in Socket : Fails(s) \/ OnMessage(s)

\* A started tape whose server is reachable and keeps its connections is connected
\* again, or was stopped (jsonrpc-ws-tape.ts:162-213, 286-294).
TapeReturns ==
    <>[](reachable /\ \A s \in Socket : net[s] # "failing") => <>[](started /\ ~closed => connected)

\* When the tape comes back it is subscribed: the flood guard never drops the
\* frames of a reconnect, however fast the connection flaps; and a stopped tape
\* keeps no socket, timer or connection, also when its events come late
\* (pumpdev-tape.ts:136-188, 241-254, jsonrpc-ws-tape.ts:143-193).
TapeIsAsItSays ==
    /\ connected => current # 0 /\ current \in greeted /\ ~closed
    /\ closed => current = 0 /\ timer = NoTimer

-----------------------------------------------------------------------------
(* The Helius ingress                                                      *)

Request == DOMAIN Deliveries

IngressInit ==
    /\ ingress = [r \in Request |-> [stage |-> "sent", left |-> {}, dropped |-> {}]]
    /\ stream = {} /\ answered = {}

\* Mutant: a failed transaction ends the batch.
LaunchesUpToFailure(txs) == {i \in DOMAIN txs : txs[i] \in Mint /\ \A j \in 1..i : txs[j] # "failed"}

\* Launches of a delivery: of the transactions that succeeded, the launch program's
\* instructions that name a mint and a curve.
Launches(txs) == {i \in DOMAIN txs : txs[i] \in Mint}

\* 405, 401 and 400 before anything is read; a body that is not a list is a 400.
IngressReads(r, ok) ==
    /\ ingress[r].stage = "sent"
    /\ ingress' = [ingress EXCEPT ![r] = IF ok THEN [stage |-> "writing", left |-> Launches(Deliveries[r]), dropped |-> {}]
                                         ELSE [stage |-> "refused", left |-> {}, dropped |-> {}]]
    /\ UNCHANGED <<stream, answered>>

\* One XADD at a time, in the delivery's order; the stream is trimmed only beyond
\* MAXLEN, far above this.  One that fails is dropped, carried out or not.
IngressWrites(r, fails) ==
    LET i == Min(ingress[r].left)
    IN  /\ ingress[r].stage = "writing" /\ ingress[r].left # {}
        /\ stream' = stream \cup {Deliveries[r][i]} \/ (fails /\ UNCHANGED stream)
        /\ ingress' = [ingress EXCEPT ![r].left = @ \ {i}, ![r].dropped = IF fails THEN @ \cup {i} ELSE @]
        /\ UNCHANGED answered

IngressAnswers(r) ==
    /\ ingress[r].stage = "writing" /\ ingress[r].left = {}
    /\ answered' = answered \cup {[delivery |-> r, dropped |-> ingress[r].dropped]}
    /\ ingress' = [ingress EXCEPT ![r].stage = "answered"]
    /\ UNCHANGED stream

\* The sender's retry of a delivery it had no 200 for.
Redelivered(r) ==
    /\ ingress[r].stage \in {"refused", "answered"} /\ ingress' = [ingress EXCEPT ![r].stage = "sent"]
    /\ UNCHANGED <<stream, answered>>

IngressNext ==
    \E r \in Request :
        \/ IngressAnswers(r) \/ Redelivered(r)
        \/ \E yes \in BOOLEAN : IngressReads(r, yes) \/ IngressWrites(r, yes)

\* Of an acknowledged delivery every launch is in the stream, but those whose own
\* XADD failed, which the answer's count leaves out, whatever else was in the batch
\* and however deliveries overlap and are sent again (helius-webhook-server.ts:118-150).
AckedIsStreamed ==
    \A a \in answered : \A i \in DOMAIN Deliveries[a.delivery] :
        Deliveries[a.delivery][i] \in Mint => i \in a.dropped \/ Deliveries[a.delivery][i] \in stream

StreamNext == (TapeNext /\ UNCHANGED ingressVars) \/ (IngressNext /\ UNCHANGED tapeVars)
StreamSpec == TapeInit /\ IngressInit /\ [][StreamNext]_<<tapeVars, ingressVars>>

\* A stream is what it says: TapeIsAsItSays for the connection, AckedIsStreamed
\* for a delivery that was acknowledged.
StreamsAreTrue == TapeIsAsItSays /\ AckedIsStreamed

=============================================================================
