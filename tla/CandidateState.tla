--------------------------- MODULE CandidateState ---------------------------
(***************************************************************************)
(* CandidateStateStore.transition() over the two backends of               *)
(* state/candidate-state.ts, for one candidate, and recordDiscovery() of   *)
(* state/candidate-observer.ts.                                            *)
(*                                                                         *)
(* armed says whether a Redis URL is configured.  Without one every call   *)
(* goes to the process's own map, mirror[p]; with one it goes to the       *)
(* record redis over the process's only connection, and to the mirror when *)
(* a command of the call fails.  watching[p] and dirty[p] are the server's *)
(* state of that connection: it watches the key, and the key was changed   *)
(* since.  A caller is one call of transition() at a time, in the process  *)
(* home[c]; pc is the await it is suspended at.                            *)
(*                                                                         *)
(* rivals and blame are history.  rivals: how often the record changed     *)
(* under the call since it started, or a command of it failed.  blame:     *)
(* what may spoil the compare-and-set the call is in: "shared", another    *)
(* call of its connection is in one; "stale", the record expired since the *)
(* call read it; "failed", the connection failed; "spoiled", the record it *)
(* read was overwritten unseen.                                            *)
(***************************************************************************)
EXTENDS CausalMatrix, Sequences

CONSTANTS
    Caller, Process,
    Deployments,    \* with or without Redis, where the callers run, how many commands fail
    Requests,       \* what callers ask for
    MaxRetries,     \* of transition()
    MaxWatch        \* attempts of the Redis cas(): three in the code, and with one alone a call would
                    \* be refused for a change its connection saw before the call watched

ASSUME CandidateAssumption ==
    /\ Deployments \subseteq [armed : BOOLEAN, home : [Caller -> Process], faults : Nat]
    /\ Requests \subseteq Request
    /\ MaxRetries \in Nat \ {0} /\ MaxWatch \in Nat \ {0, 1}
    /\ NoRecord \notin Record

VARIABLES
    armed, home, redis, mirror, timers, watching, dirty,
    pc, request, observed, cur, attempt, round,
    rivals, blame, faults

deployVars == <<armed, home>>
connVars == <<watching, dirty>>
stores == <<redis, mirror, timers>>
vars == <<armed, home, redis, mirror, timers, watching, dirty, pc, request, observed, cur,
          attempt, round, rivals, blame, faults>>

NoRequest == [event |-> "none", reserve |-> Keep, clear |-> FALSE]
Screen == [event |-> "RESERVE_INJECTED", reserve |-> Keep, clear |-> TRUE]

Init ==
    /\ \E d \in Deployments : armed = d.armed /\ home = d.home /\ faults = d.faults
    /\ redis = NoRecord
    /\ mirror = [p \in Process |-> NoRecord]
    /\ timers = [p \in Process |-> <<>>]
    /\ watching = [p \in Process |-> FALSE]
    /\ dirty = [p \in Process |-> FALSE]
    /\ pc = [c \in Caller |-> "idle"]
    /\ request = [c \in Caller |-> NoRequest]
    /\ observed = [c \in Caller |-> FALSE]
    /\ cur = [c \in Caller |-> NoRecord]
    /\ attempt = [c \in Caller |-> 0]
    /\ round = [c \in Caller |-> 0]
    /\ rivals = [c \in Caller |-> 0]
    /\ blame = [c \in Caller |-> {}]

InCas == {"watch", "get", "exec", "unwatch"}
PastRead == InCas \cup {"cas"}

\* The record the call writes, from the record it read.
Written(c) == Successor(Base(cur[c]), request[c])

\* Mutant: writes whatever the stored version is.
MatchesAnything(r, c) == r.version >= 0 /\ cur[c].version >= 0

\* Both backends compare versions only; an absent record has version 0.
Matches(r, c) == r.version = cur[c].version

\* History of a step, from the other variables' next values: the record changed, and the calls
\* in D get the blame why.
History(changed, D, why) ==
    /\ rivals' = [c \in Caller |->
                    IF attempt'[c] = 0 /\ pc'[c] \notin PastRead THEN 0
                    ELSE IF rivals[c] < MaxRetries /\ (changed \/ (c \in D /\ why = "failed"))
                           THEN rivals[c] + 1 ELSE rivals[c]]
    /\ blame' = [c \in Caller |->
                    IF pc'[c] \notin InCas THEN {}
                    ELSE IF c \in D THEN blame[c] \cup {why} ELSE blame[c]]

Quiet == History(FALSE, {}, "none")
Of(p) == {c \in Caller : home[c] = p}

-----------------------------------------------------------------------------
(* The reducer: transition() and recordDiscovery().                         *)

Call(c, q, o) ==
    /\ pc[c] = "idle"
    /\ o => q.event = "DISCOVERY_EVENT"
    /\ pc' = [pc EXCEPT ![c] = "read"]
    /\ request' = [request EXCEPT ![c] = q]
    /\ observed' = [observed EXCEPT ![c] = o]
    /\ UNCHANGED <<deployVars, stores, connVars, cur, attempt, round, rivals, blame, faults>>

\* transition() returns, with a record or without.  recordDiscovery() goes on with the record of
\* an accepted first transition, and looks the candidate up when the first one returned none.
Answer(c, ok) ==
    /\ cur' = [cur EXCEPT ![c] = NoRecord]
    /\ round' = [round EXCEPT ![c] = 0]
    /\ attempt' = [attempt EXCEPT ![c] = 0]
    /\ observed' = [observed EXCEPT ![c] = FALSE]
    /\ LET screens == observed[c] /\ ok IN
       /\ pc' = [pc EXCEPT ![c] = IF screens THEN "read" ELSE IF observed[c] THEN "lookup" ELSE "idle"]
       /\ request' = [request EXCEPT ![c] = IF screens THEN Screen ELSE NoRequest]

\* cas() returned false: read again, or give up.
Retry(c) ==
    IF attempt[c] + 1 < MaxRetries
      THEN /\ cur' = [cur EXCEPT ![c] = NoRecord]
           /\ round' = [round EXCEPT ![c] = 0]
           /\ attempt' = [attempt EXCEPT ![c] = @ + 1]
           /\ pc' = [pc EXCEPT ![c] = "read"]
           /\ UNCHANGED <<request, observed>>
      ELSE Answer(c, FALSE)

\* A command fails: the connection is re-established without what it watched.
CommandFails(p) ==
    /\ armed
    /\ faults > 0
    /\ faults' = faults - 1
    /\ watching' = [watching EXCEPT ![p] = FALSE]
    /\ dirty' = [dirty EXCEPT ![p] = FALSE]

CommandWorks == UNCHANGED <<faults, connVars>>

\* What the backend's read() answers: the mirror's record without Redis or when it fails.
Reads(p, r) ==
    \/ armed /\ r = redis /\ CommandWorks
    \/ ~armed /\ r = mirror[p] /\ CommandWorks
    \/ r = mirror[p] /\ CommandFails(p)

Broken(p) == IF faults' = faults THEN {} ELSE Of(p)

Read(c) ==
    /\ pc[c] = "read"
    /\ \E r \in {redis, mirror[home[c]]} :
         /\ Reads(home[c], r)
         /\ IF Causal(Base(r), request[c])
              THEN /\ cur' = [cur EXCEPT ![c] = r]
                   /\ pc' = [pc EXCEPT ![c] = IF armed THEN "watch" ELSE "cas"]
                   /\ UNCHANGED <<request, observed, attempt, round>>
              ELSE Answer(c, FALSE)
    /\ History(FALSE, Broken(home[c]), "failed")
    /\ UNCHANGED <<deployVars, stores>>

\* recordDiscovery(): no record came back, so it reads the candidate.
Lookup(c) ==
    /\ pc[c] = "lookup"
    /\ \E r \in {redis, mirror[home[c]]} :
         /\ Reads(home[c], r)
         /\ pc' = [pc EXCEPT ![c] = IF r = NoRecord THEN "idle" ELSE "read"]
         /\ request' = [request EXCEPT ![c] = IF r = NoRecord THEN NoRequest ELSE Screen]
    /\ UNCHANGED <<deployVars, stores, observed, cur, attempt, round>>
    /\ History(FALSE, Broken(home[c]), "failed")

-----------------------------------------------------------------------------
(* The in-memory backend.                                                   *)

\* cas(): compare, write and set the TTL timer in one synchronous piece.
MirrorCas(c) ==
    LET p == home[c] IN
    IF Matches(mirror[p], c)
      THEN /\ mirror' = [mirror EXCEPT ![p] = Written(c)]
           /\ timers' = [timers EXCEPT ![p] = Append(@, Written(c).version)]
           /\ Answer(c, TRUE)
      ELSE Retry(c) /\ UNCHANGED <<mirror, timers>>

Cas(c) ==
    /\ pc[c] = "cas"
    /\ MirrorCas(c)
    /\ History(Matches(mirror[home[c]], c), {}, "none")
    /\ UNCHANGED <<deployVars, redis, connVars, faults>>

\* The oldest timer fires and deletes the record it was set for, if it is still that version.
\* A timer is a macrotask: it never runs between the in-memory read() and its cas().
TimerFires(p) ==
    /\ timers[p] # <<>>
    /\ \A c \in Of(p) : pc[c] # "cas"
    /\ timers' = [timers EXCEPT ![p] = Tail(@)]
    /\ mirror' = [mirror EXCEPT ![p] = IF @.version = Head(timers[p]) THEN NoRecord ELSE @]
    /\ UNCHANGED <<deployVars, redis, connVars, pc, request, observed, cur, attempt, round, rivals,
                   blame, faults>>

-----------------------------------------------------------------------------
(* The Redis backend: cas() is WATCH, GET, and then UNWATCH or MULTI SET EXEC. *)

\* Mutant: reads without WATCH.
WatchesNothing(c) ==
    /\ pc[c] = "watch"
    /\ pc' = [pc EXCEPT ![c] = "get"]
    /\ UNCHANGED <<deployVars, stores, connVars, request, observed, cur, attempt, round, rivals,
                   blame, faults>>

Watch(c) ==
    LET p == home[c]
        beside == {d \in Of(p) \ {c} : pc[d] \in {"get", "exec", "unwatch"}} IN
    /\ pc[c] = "watch"
    /\ pc' = [pc EXCEPT ![c] = "get"]
    /\ watching' = [watching EXCEPT ![p] = TRUE]
    /\ UNCHANGED <<deployVars, stores, dirty, request, observed, cur, attempt, round, faults>>
    /\ History(FALSE, IF beside = {} THEN {} ELSE beside \cup {c}, "shared")

Get(c) ==
    /\ pc[c] = "get"
    /\ pc' = [pc EXCEPT ![c] = IF Matches(redis, c) THEN "exec" ELSE "unwatch"]
    /\ UNCHANGED <<deployVars, stores, connVars, request, observed, cur, attempt, round, rivals,
                   blame, faults>>

\* UNWATCH, and EXEC whatever its outcome, end every watch of the connection.
EndWatch(p) ==
    /\ watching' = [watching EXCEPT ![p] = FALSE]
    /\ dirty' = [dirty EXCEPT ![p] = FALSE]

Unwatch(c) ==
    /\ pc[c] = "unwatch"
    /\ EndWatch(home[c])
    /\ Retry(c)
    /\ Quiet
    /\ UNCHANGED <<deployVars, stores, faults>>

\* EXEC answers null: the key changed since the connection watched it.
Aborts(p) == watching[p] /\ dirty[p]

ExecAborts(c) ==
    /\ pc[c] = "exec"
    /\ Aborts(home[c])
    /\ EndWatch(home[c])
    /\ IF round[c] + 1 < MaxWatch
         THEN /\ round' = [round EXCEPT ![c] = @ + 1]
              /\ pc' = [pc EXCEPT ![c] = "watch"]
              /\ UNCHANGED <<request, observed, cur, attempt>>
         ELSE Retry(c)
    /\ Quiet
    /\ UNCHANGED <<deployVars, stores, faults>>

\* History: the calls in a compare-and-set when c replaces a record it did not read.
Spoiled(c) == IF redis \in {NoRecord, cur[c]} THEN {} ELSE Caller \ {c}

\* EXEC applies the SET, and every other connection that watches the key is dirty.
ExecSets(c) ==
    LET p == home[c] IN
    /\ pc[c] = "exec"
    /\ ~Aborts(p)
    /\ redis' = Written(c)
    /\ watching' = [watching EXCEPT ![p] = FALSE]
    /\ dirty' = [x \in Process |-> x # p /\ watching[x]]
    /\ Answer(c, TRUE)
    /\ History(TRUE, Spoiled(c), "spoiled")
    /\ UNCHANGED <<deployVars, mirror, timers, faults>>

\* A command of cas() fails: the in-memory mirror decides.
Fallback(c) ==
    /\ pc[c] \in InCas
    /\ CommandFails(home[c])
    /\ MirrorCas(c)
    /\ History(FALSE, Of(home[c]), "failed")
    /\ UNCHANGED <<deployVars, redis>>

\* EXEC is applied and its answer is lost: the mirror decides what the caller is told.
ReplyLost(c) ==
    LET p == home[c] IN
    /\ pc[c] = "exec"
    /\ ~Aborts(p)
    /\ armed /\ faults > 0
    /\ faults' = faults - 1
    /\ redis' = Written(c)
    /\ watching' = [watching EXCEPT ![p] = FALSE]
    /\ dirty' = [x \in Process |-> x # p /\ watching[x]]
    /\ MirrorCas(c)
    /\ History(TRUE, Of(p) \cup Spoiled(c), "failed")
    /\ UNCHANGED deployVars

\* The connection drops between two commands and comes back without its watch.
Reconnect(p) ==
    /\ watching[p]
    /\ CommandFails(p)
    /\ UNCHANGED <<deployVars, stores, pc, request, observed, cur, attempt, round>>
    /\ History(FALSE, Of(p), "failed")

\* EX: the server drops the record.
Expire ==
    /\ redis # NoRecord
    /\ redis' = NoRecord
    /\ dirty' = [p \in Process |-> watching[p]]
    /\ UNCHANGED <<deployVars, mirror, timers, watching, pc, request, observed, cur, attempt, round,
                   faults>>
    /\ History(TRUE, Caller, "stale")

-----------------------------------------------------------------------------
Step(c) == Read(c) \/ Lookup(c) \/ Cas(c) \/ Watch(c) \/ Get(c) \/ Unwatch(c)
           \/ ExecAborts(c) \/ ExecSets(c)

Next ==
    \/ \E c \in Caller, q \in Requests, o \in BOOLEAN : Call(c, q, o)
    \/ \E c \in Caller : Step(c) \/ Fallback(c) \/ ReplyLost(c)
    \/ \E p \in Process : TimerFires(p) \/ Reconnect(p)
    \/ Expire

Spec == Init /\ [][Next]_vars

-----------------------------------------------------------------------------
(* Properties.                                                              *)

\* Every variable keeps its type; a connection is dirty only while it watches.
CandidateTypeOK ==
    /\ armed \in BOOLEAN
    /\ home \in [Caller -> Process]
    /\ redis \in Record \cup {NoRecord}
    /\ mirror \in [Process -> Record \cup {NoRecord}]
    /\ timers \in [Process -> Seq(Nat)]
    /\ watching \in [Process -> BOOLEAN] /\ dirty \in [Process -> BOOLEAN]
    /\ \A p \in Process : dirty[p] => watching[p]
    /\ pc \in [Caller -> {"idle", "read", "lookup"} \cup PastRead]
    /\ request \in [Caller -> Request \cup {NoRequest}]
    /\ observed \in [Caller -> BOOLEAN]
    /\ cur \in [Caller -> Record \cup {NoRecord}]
    /\ attempt \in [Caller -> 0 .. MaxRetries - 1]
    /\ round \in [Caller -> 0 .. MaxWatch - 1]
    /\ rivals \in [Caller -> 0 .. MaxRetries]
    /\ blame \in [Caller -> SUBSET {"shared", "stale", "failed", "spoiled"}]
    /\ faults \in Nat

\* The store without Redis is an atomic register: whatever the interleaving of the awaits, the
\* record moves by one causal transition of some request, or is forgotten.
InProcess == [p \in Process |-> IF armed THEN NoRecord ELSE mirror[p]]
Register == INSTANCE CausalRegister WITH reg <- InProcess, Requests <- Requests \cup {Screen}
ImplementsRegister == Register!RSpec

\* A record the store forgets has not been renewed: only the timer of its latest write deletes
\* it, so it is in memory for its whole time to live after that write.
RenewedRecordStays ==
    [][\A p \in Process : mirror[p] # NoRecord /\ mirror'[p] = NoRecord => timers'[p] = <<>>]_vars

\* The step in which the call's cas() writes.
Wins(c) ==
    /\ pc'[c] # pc[c]
    /\ \/ pc[c] = "cas" /\ mirror[home[c]].version = cur[c].version
       \/ pc[c] = "exec" /\ ~(watching[home[c]] /\ dirty[home[c]]) /\ faults' = faults

\* It replaces a record in Redis that the call did not read.
Overwrites(c) == Wins(c) /\ pc[c] = "exec" /\ redis \notin {NoRecord, cur[c]}

\* With Redis an update is overwritten unseen only if two calls shared the connection's
\* transaction, the connection failed, the record expired and was allocated again under the call,
\* or all that happened to the record it read.
LostUpdateHasACause ==
    [][\A c \in Caller : Overwrites(c) => blame[c] # {}]_vars

\* A call answers "contention exceeded" only after the record changed under it as often as it
\* tried: no call is refused on its own account.
ContentionHasRivals ==
    [][\A c \in Caller : pc[c] \in PastRead /\ pc'[c] \in {"idle", "lookup"} /\ ~Wins(c)
          => rivals[c] >= MaxRetries \/ faults' # faults]_vars

\* What happens to a call has happened to it: types, RenewedRecordStays,
\* LostUpdateHasACause and ContentionHasRivals.
CallsAreAccounted ==
    []CandidateTypeOK /\ RenewedRecordStays /\ LostUpdateHasACause /\ ContentionHasRivals
=============================================================================
