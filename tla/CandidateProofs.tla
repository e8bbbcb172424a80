-------------------------- MODULE CandidateProofs --------------------------
(***************************************************************************)
(* Two results about the candidate store, for any number of callers,       *)
(* processes, requests and retries.                                        *)
(*                                                                         *)
(* Without Redis it is an atomic register.  The inductive invariant CInv   *)
(* says of a call between its read() and its cas() that the record it read *)
(* is not newer than the stored one, and is the stored one when their      *)
(* versions agree: versions only grow while the call is there, because no  *)
(* timer fires between a read() and its cas().                             *)
(*                                                                         *)
(* What happens to a call has a cause in its history.  The invariant       *)
(* Accounted adds that a call nothing is to blame for has its connection   *)
(* watching and the record it read, or a mark on the connection; that a    *)
(* call has a rival for every attempt behind it and one more as soon as    *)
(* this attempt is bound to fail; and that the timers of a process are     *)
(* those of its record's latest versions, in their order.                  *)
(***************************************************************************)
EXTENDS CandidateState, SequenceTheorems, TLAPS

Asked == Requests \cup {Screen}
MaybeRecord == Record \cup {NoRecord}
PC == {"idle", "read", "lookup"} \cup PastRead

\* What the call c does between its read() and its write is legal for the record it read.
Justified(c) ==
    /\ request[c] \in Asked
    /\ Causal(Base(cur[c]), request[c])

\* In memory the call's version check means what it says.
Current(c) ==
    /\ cur[c].version <= mirror[home[c]].version
    /\ cur[c].version = mirror[home[c]].version => cur[c] = mirror[home[c]]

Types ==
    /\ armed \in BOOLEAN
    /\ home \in [Caller -> Process]
    /\ mirror \in [Process -> MaybeRecord]
    /\ redis \in MaybeRecord
    /\ cur \in [Caller -> MaybeRecord]
    /\ pc \in [Caller -> PC]
    /\ request \in [Caller -> Asked \cup {NoRequest}]

CInv ==
    /\ Types
    /\ \A c \in Caller : pc[c] = "read" => request[c] \in Asked
    /\ \A c \in Caller : pc[c] \in PastRead => Justified(c)
    /\ \A c \in Caller : pc[c] = "cas" => ~armed /\ Current(c)
    /\ \A c \in Caller : pc[c] \in InCas => armed

-----------------------------------------------------------------------------
\* A successor is a record one version later, because evaluateCausalTransition() answers a state
\* of the matrix only.
LEMMA SuccessorIsRecord ==
    ASSUME NEW r \in MaybeRecord, NEW q \in Asked, Causal(Base(r), q)
    PROVE  /\ Successor(Base(r), q) \in Record
           /\ Successor(Base(r), q).version = r.version + 1
<1>1. q \in Request
  <2>1. CASE q \in Requests
    BY <2>1, CandidateAssumption
  <2>2. CASE q = Screen
    BY <2>2 DEF Screen, Request, Event
  <2>. QED BY <2>1, <2>2 DEF Asked
<1>2. Base(r) \in Record /\ Base(r).version = r.version
  BY DEF Base, MaybeRecord, Record, NoRecord, Fresh, State
<1>3. (CHOOSE s \in Targets(Base(r), q) : TRUE) \in State
  <2>1. Targets(Base(r), q) # {}
    BY DEF Causal
  <2>2. Targets(Base(r), q) \subseteq State
    BY DEF Targets
  <2>. QED BY <2>1, <2>2
<1>4. Prospective(Base(r), q) \in Reserve \cup {0}
  BY <1>1, <1>2 DEF Prospective, Record, Request
<1>5. Base(r).version + 1 \in Nat
  BY <1>2 DEF Record
<1>. QED BY <1>2, <1>3, <1>4, <1>5 DEF Successor, Record

\* A record is never older than the absent one.
LEMMA VersionIsNat ==
    ASSUME NEW r \in MaybeRecord
    PROVE  r.version \in Nat
BY DEF MaybeRecord, Record, NoRecord

-----------------------------------------------------------------------------
\* The call c goes where it has read nothing; the other calls stay where they are.
Leaves(c) ==
    /\ pc' \in [Caller -> PC]
    /\ request' \in [Caller -> Asked \cup {NoRequest}]
    /\ cur' \in [Caller -> MaybeRecord]
    /\ pc'[c] \in {"idle", "read", "lookup"}
    /\ pc'[c] = "read" => request'[c] \in Asked
    /\ \A d \in Caller \ {c} : pc'[d] = pc[d] /\ request'[d] = request[d] /\ cur'[d] = cur[d]

\* Returning from transition() leaves the compare-and-set.
LEMMA AnswerLeaves ==
    ASSUME Types, NEW c \in Caller, NEW ok \in BOOLEAN, Answer(c, ok)
    PROVE  Leaves(c)
BY DEF Types, Answer, Leaves, PC, Asked, MaybeRecord

\* So does a retry, which keeps the request.
LEMMA RetryLeaves ==
    ASSUME Types, NEW c \in Caller, request[c] \in Asked, Retry(c)
    PROVE  Leaves(c)
<1>1. CASE attempt[c] + 1 < MaxRetries
  BY <1>1 DEF Types, Retry, Leaves, PC, MaybeRecord
<1>2. CASE ~(attempt[c] + 1 < MaxRetries)
  BY <1>2, AnswerLeaves DEF Retry
<1>. QED BY <1>1, <1>2

\* A call that leaves disturbs nobody as long as the in-memory records stay.
LEMMA LeavingIsSafe ==
    ASSUME CInv, NEW c \in Caller, Leaves(c), UNCHANGED <<armed, home, mirror>>, redis' \in MaybeRecord
    PROVE  CInv'
<1>1. Types'
  BY DEF CInv, Types, Leaves
<1>2. \A d \in Caller : pc'[d] = "read" => request'[d] \in Asked
  BY DEF CInv, Leaves
<1>3. \A d \in Caller : pc'[d] \in PastRead => d # c
  BY DEF Leaves, PastRead, InCas
<1>4. \A d \in Caller : pc'[d] \in PastRead => Justified(d)'
  BY <1>3 DEF CInv, Leaves, Justified
<1>5. \A d \in Caller : pc'[d] = "cas" => ~armed' /\ Current(d)'
  BY <1>3 DEF CInv, Leaves, Current, PastRead
<1>6. \A d \in Caller : pc'[d] \in InCas => armed'
  BY <1>3 DEF CInv, Leaves, PastRead
<1>. QED BY <1>1, <1>2, <1>4, <1>5, <1>6 DEF CInv

-----------------------------------------------------------------------------
LEMMA CInitInv == Init => CInv
BY CandidateAssumption
   DEF Init, CInv, Types, MaybeRecord, PC, PastRead, InCas

\* Starting a call.
LEMMA CallKeeps ==
    ASSUME CInv, NEW c \in Caller, NEW q \in Requests, NEW o \in BOOLEAN, Call(c, q, o)
    PROVE  CInv'
<1>1. Types'
  BY DEF CInv, Types, Call, deployVars, stores, Asked, PC
<1>2. \A d \in Caller : pc'[d] = "read" => request'[d] \in Asked
  BY DEF CInv, Types, Call, Asked
<1>3. \A d \in Caller : pc'[d] \in PastRead => d # c /\ pc'[d] = pc[d] /\ request'[d] = request[d]
  BY DEF CInv, Types, Call, PastRead, InCas
<1>4. UNCHANGED <<armed, home, mirror, cur>>
  BY DEF Call, deployVars, stores
<1>5. \A d \in Caller : pc'[d] \in PastRead => Justified(d)'
  BY <1>3, <1>4 DEF CInv, Justified
<1>6. \A d \in Caller : pc'[d] = "cas" => ~armed' /\ Current(d)'
  BY <1>3, <1>4 DEF CInv, Current, PastRead
<1>7. \A d \in Caller : pc'[d] \in InCas => armed'
  BY <1>3, <1>4 DEF CInv, PastRead
<1>. QED BY <1>1, <1>2, <1>5, <1>6, <1>7 DEF CInv

\* A step that moves no call past its read and no record of the mirror.
LEMMA WaitingIsSafe ==
    ASSUME CInv, UNCHANGED <<armed, home, mirror, cur, request>>, redis' \in MaybeRecord,
           pc' \in [Caller -> PC],
           \A c \in Caller : \/ pc'[c] = pc[c]
                             \/ pc[c] \in InCas /\ pc'[c] \in InCas
    PROVE  CInv'
<1>1. Types'
  BY DEF CInv, Types
<1>2. \A c \in Caller : pc'[c] = "read" => request'[c] \in Asked
  BY DEF CInv, InCas
<1>3. \A c \in Caller : pc'[c] \in PastRead => Justified(c)'
  BY DEF CInv, PastRead, Justified
<1>4. \A c \in Caller : pc'[c] = "cas" => ~armed' /\ Current(c)'
  BY DEF CInv, InCas, Current
<1>5. \A c \in Caller : pc'[c] \in InCas => armed'
  BY DEF CInv
<1>. QED BY <1>1, <1>2, <1>3, <1>4, <1>5 DEF CInv

\* A read: the request is refused, or the call goes on with the record it read.
LEMMA ReadKeeps ==
    ASSUME CInv, NEW c \in Caller, Read(c)
    PROVE  CInv'
<1>1. PICK r \in {redis, mirror[home[c]]} :
         /\ Reads(home[c], r)
         /\ IF Causal(Base(r), request[c])
              THEN /\ cur' = [cur EXCEPT ![c] = r]
                   /\ pc' = [pc EXCEPT ![c] = IF armed THEN "watch" ELSE "cas"]
                   /\ UNCHANGED <<request, observed, attempt, round>>
              ELSE Answer(c, FALSE)
  BY DEF Read
<1>2. UNCHANGED <<armed, home, mirror, redis>>
  BY DEF Read, deployVars, stores
<1>3. CASE ~Causal(Base(r), request[c])
  <2>1. Leaves(c)
    BY <1>1, <1>3, AnswerLeaves DEF CInv
  <2>. QED BY <2>1, <1>2, LeavingIsSafe DEF CInv, Types
<1>4. CASE Causal(Base(r), request[c])
  <2>1. /\ cur' = [cur EXCEPT ![c] = r]
        /\ pc' = [pc EXCEPT ![c] = IF armed THEN "watch" ELSE "cas"]
        /\ request' = request
    BY <1>1, <1>4
  <2>2. r \in MaybeRecord /\ (~armed => r = mirror[home[c]])
    BY <1>1 DEF CInv, Types, Reads, CommandFails
  <2>3. Types'
    BY <1>2, <2>1, <2>2 DEF CInv, Types, PC, PastRead, InCas
  <2>4. \A d \in Caller \ {c} : pc'[d] = pc[d] /\ cur'[d] = cur[d]
    BY <2>1 DEF CInv, Types
  <2>5. cur'[c] = r /\ pc'[c] = (IF armed THEN "watch" ELSE "cas")
    BY <2>1 DEF CInv, Types
  <2>6. \A d \in Caller : pc'[d] = "read" => request'[d] \in Asked
    BY <2>1, <2>4, <2>5 DEF CInv
  <2>7. request[c] \in Asked
    BY DEF CInv, Read
  <2>8. \A d \in Caller : pc'[d] \in PastRead => Justified(d)'
    BY <1>4, <2>1, <2>4, <2>5, <2>7 DEF CInv, Justified
  <2>9. \A d \in Caller : pc'[d] = "cas" => ~armed' /\ Current(d)'
    <3>1. r.version \in Nat
      BY <2>2, VersionIsNat
    <3>2. ~armed => Current(c)'
      BY <3>1, <2>2, <2>5, <1>2 DEF Current
    <3>. QED BY <3>2, <2>4, <2>5, <1>2 DEF CInv, Current
  <2>10. \A d \in Caller : pc'[d] \in InCas => armed'
    BY <2>4, <2>5, <1>2 DEF CInv, InCas
  <2>. QED BY <2>3, <2>6, <2>8, <2>9, <2>10 DEF CInv
<1>. QED BY <1>3, <1>4

\* The look-up of recordDiscovery().
LEMMA LookupKeeps ==
    ASSUME CInv, NEW c \in Caller, Lookup(c)
    PROVE  CInv'
<1>1. PICK r \in {redis, mirror[home[c]]} :
         /\ pc' = [pc EXCEPT ![c] = IF r = NoRecord THEN "idle" ELSE "read"]
         /\ request' = [request EXCEPT ![c] = IF r = NoRecord THEN NoRequest ELSE Screen]
  BY DEF Lookup
<1>2. Leaves(c)
  BY <1>1 DEF CInv, Types, Lookup, Leaves, PC, Asked
<1>. QED BY <1>2, LeavingIsSafe DEF CInv, Types, Lookup, deployVars, stores

\* The in-memory cas(): a write moves the record one version on, past every call that waits.
LEMMA MirrorCasKeeps ==
    ASSUME CInv, NEW c \in Caller, pc[c] \in PastRead, MirrorCas(c),
           UNCHANGED <<armed, home>>, redis' \in MaybeRecord
    PROVE  CInv'
<1> DEFINE p == home[c]
<1>1. Justified(c) /\ p \in Process /\ mirror[p] \in MaybeRecord /\ cur[c] \in MaybeRecord
  BY DEF CInv, Types
<1>2. CASE ~Matches(mirror[p], c)
  <2>1. Retry(c) /\ mirror' = mirror
    BY <1>2 DEF MirrorCas
  <2>2. Leaves(c)
    BY <2>1, <1>1, RetryLeaves DEF CInv, Justified
  <2>. QED BY <2>1, <2>2, LeavingIsSafe
<1>3. CASE Matches(mirror[p], c)
  <2>1. mirror' = [mirror EXCEPT ![p] = Written(c)] /\ Answer(c, TRUE)
    BY <1>3 DEF MirrorCas
  <2>2. Leaves(c)
    BY <2>1, AnswerLeaves DEF CInv
  <2>3. Written(c) \in Record /\ Written(c).version = mirror[p].version + 1
    BY <1>1, <1>3, SuccessorIsRecord DEF Justified, Written, Matches
  <2>4. Types'
    BY <2>1, <2>2, <2>3 DEF CInv, Types, Leaves, MaybeRecord
  <2>5. \A d \in Caller : pc'[d] = "read" => request'[d] \in Asked
    BY <2>2 DEF CInv, Leaves
  <2>6. \A d \in Caller : pc'[d] \in PastRead => d # c
    BY <2>2 DEF Leaves, PastRead, InCas
  <2>7. \A d \in Caller : pc'[d] \in PastRead => Justified(d)'
    BY <2>2, <2>6 DEF CInv, Leaves, Justified
  <2>8. ASSUME NEW d \in Caller, pc'[d] = "cas"
        PROVE  ~armed' /\ Current(d)'
    <3>1. d # c /\ pc[d] = "cas" /\ cur'[d] = cur[d]
      BY <2>2, <2>6, <2>8 DEF Leaves, PastRead
    <3>2. ~armed /\ Current(d) /\ cur[d] \in MaybeRecord
      BY <3>1 DEF CInv, Types
    <3>3. CASE home[d] = p
      <4>1. mirror'[home[d]] = Written(c)
        BY <2>1, <3>3, <1>1 DEF CInv, Types
      <4>2. cur[d].version \in Nat /\ mirror[p].version \in Nat
        BY <1>1, <3>2, VersionIsNat
      <4>3. cur[d].version < Written(c).version
        BY <2>3, <3>2, <3>3, <4>2 DEF Current
      <4>. QED BY <3>1, <3>2, <4>1, <4>2, <4>3, <2>3 DEF Current
    <3>4. CASE home[d] # p
      <4>1. mirror'[home[d]] = mirror[home[d]]
        BY <2>1, <3>4 DEF CInv, Types
      <4>. QED BY <3>1, <3>2, <4>1 DEF Current
    <3>. QED BY <3>3, <3>4
  <2>9. \A d \in Caller : pc'[d] \in InCas => armed'
    BY <2>2, <2>6 DEF CInv, Leaves, PastRead
  <2>. QED BY <2>4, <2>5, <2>7, <2>8, <2>9 DEF CInv
<1>. QED BY <1>2, <1>3

\* A timer fires while no call of its process is between a read() and its cas().
LEMMA TimerKeeps ==
    ASSUME CInv, NEW p \in Process, TimerFires(p)
    PROVE  CInv'
<1>1. UNCHANGED <<armed, home, redis, pc, cur, request>>
  BY DEF TimerFires, deployVars
<1>2. mirror' \in [Process -> MaybeRecord]
      /\ \A x \in Process \ {p} : mirror'[x] = mirror[x]
  BY DEF CInv, Types, TimerFires, MaybeRecord
<1>3. Types'
  BY <1>1, <1>2 DEF CInv, Types
<1>4. \A c \in Caller : pc'[c] = "cas" => ~armed' /\ Current(c)'
  <2>1. \A c \in Caller : pc[c] = "cas" => home[c] \in Process \ {p}
    BY DEF CInv, Types, TimerFires, Of
  <2>. QED BY <2>1, <1>1, <1>2 DEF CInv, Current
<1>5. \A c \in Caller : pc'[c] \in PastRead => Justified(c)'
  BY <1>1 DEF CInv, Justified
<1>. QED BY <1>1, <1>3, <1>4, <1>5 DEF CInv

\* The steps of the Redis backend keep the mirror, except where a failure asks it.
LEMMA RedisKeeps ==
    ASSUME CInv, NEW c \in Caller,
           Watch(c) \/ Get(c) \/ Unwatch(c) \/ ExecAborts(c) \/ ExecSets(c)
    PROVE  CInv'
<1>1. CASE Watch(c)
  BY <1>1, WaitingIsSafe DEF Watch, CInv, Types, PC, PastRead, InCas, deployVars, stores
<1>2. CASE Get(c)
  BY <1>2, WaitingIsSafe DEF Get, CInv, Types, PC, PastRead, InCas, deployVars, stores
<1>3. pc[c] \in InCas => request[c] \in Asked
  BY DEF CInv, PastRead, Justified
<1>4. CASE Unwatch(c)
  <2>1. Leaves(c)
    BY <1>3, <1>4, RetryLeaves DEF Unwatch, CInv, InCas
  <2>. QED BY <1>4, <2>1, LeavingIsSafe DEF Unwatch, CInv, Types, deployVars, stores
<1>5. CASE ExecAborts(c)
  <2>1. CASE round[c] + 1 < MaxWatch
    BY <1>5, <2>1, WaitingIsSafe DEF ExecAborts, CInv, Types, PC, PastRead, InCas, deployVars, stores
  <2>2. CASE ~(round[c] + 1 < MaxWatch)
    <3>1. Leaves(c)
      BY <1>3, <1>5, <2>2, RetryLeaves DEF ExecAborts, CInv, InCas
    <3>. QED BY <1>5, <3>1, LeavingIsSafe DEF ExecAborts, CInv, Types, deployVars, stores
  <2>. QED BY <2>1, <2>2
<1>6. CASE ExecSets(c)
  <2>1. Leaves(c)
    BY <1>6, AnswerLeaves DEF ExecSets, CInv
  <2>2. Written(c) \in MaybeRecord
    BY <1>6, SuccessorIsRecord DEF ExecSets, CInv, Types, Justified, PastRead, InCas, Written, MaybeRecord
  <2>. QED BY <1>6, <2>1, <2>2, LeavingIsSafe DEF ExecSets, deployVars
<1>. QED BY <1>1, <1>2, <1>4, <1>5, <1>6

\* The steps of the connection and of the server's clock.
LEMMA EnvironmentKeeps ==
    ASSUME CInv, Expire \/ \E p \in Process : Reconnect(p)
    PROVE  CInv'
<1>1. UNCHANGED <<armed, home, mirror, cur, request, pc>> /\ redis' \in MaybeRecord
  BY DEF Expire, Reconnect, deployVars, stores, CInv, Types, MaybeRecord
<1>. QED BY <1>1, WaitingIsSafe DEF CInv, Types

\* Every step keeps the invariant.
LEMMA CNextKeeps == CInv /\ [Next]_vars => CInv'
<1>. SUFFICES ASSUME CInv, [Next]_vars PROVE CInv'
  OBVIOUS
<1>1. ASSUME NEW c \in Caller, NEW q \in Requests, NEW o \in BOOLEAN, Call(c, q, o)
      PROVE  CInv'
  BY <1>1, CallKeeps
<1>2. ASSUME NEW c \in Caller, Step(c)
      PROVE  CInv'
  <2>1. CASE Cas(c)
    BY <2>1, MirrorCasKeeps DEF Cas, PastRead, deployVars, CInv, Types
  <2>. QED BY <1>2, <2>1, ReadKeeps, LookupKeeps, RedisKeeps DEF Step
<1>3. ASSUME NEW c \in Caller, Fallback(c)
      PROVE  CInv'
  BY <1>3, MirrorCasKeeps DEF Fallback, PastRead, deployVars, CInv, Types
<1>4. ASSUME NEW c \in Caller, ReplyLost(c)
      PROVE  CInv'
  <2>1. pc[c] \in PastRead /\ MirrorCas(c) /\ redis' = Written(c) /\ UNCHANGED <<armed, home>>
    BY <1>4 DEF ReplyLost, PastRead, InCas, deployVars
  <2>2. Written(c) \in MaybeRecord
    BY <2>1, SuccessorIsRecord DEF CInv, Types, Justified, Written, MaybeRecord
  <2>. QED BY <2>1, <2>2, MirrorCasKeeps
<1>5. ASSUME NEW p \in Process, TimerFires(p)
      PROVE  CInv'
  BY <1>5, TimerKeeps
<1>6. CASE Expire \/ \E p \in Process : Reconnect(p)
  BY <1>6, EnvironmentKeeps
<1>7. CASE UNCHANGED vars
  BY <1>7, WaitingIsSafe DEF vars, CInv, Types
<1>. QED BY <1>1, <1>2, <1>3, <1>4, <1>5, <1>6, <1>7 DEF Next

\* The invariant holds of the candidate store.
THEOREM CandidateInvariant == Spec => []CInv
<1>. QED BY CInitInv, CNextKeeps, PTL DEF Spec

-----------------------------------------------------------------------------
\* The register evaluates the same matrix.
LEMMA SameMatrix ==
    ASSUME NEW r, NEW q
    PROVE  /\ Register!Causal(Register!Base(r), q) = Causal(Base(r), q)
           /\ Register!Successor(Register!Base(r), q) = Successor(Base(r), q)
           /\ Register!NoRecord = NoRecord
<1>1. Register!Base(r) = Base(r) /\ Register!NoRecord = NoRecord
  BY DEF Register!Base, Base, Register!NoRecord, NoRecord, Register!Fresh, Fresh
<1>2. Register!Targets(Base(r), q) = Targets(Base(r), q)
  BY Zenon DEF Register!Targets, Targets, Register!State, State, Register!Matrix, Matrix, Register!Active,
         Active, Register!Condition, Condition, Register!Prospective, Prospective
<1>3. Register!Prospective(Base(r), q) = Prospective(Base(r), q)
  BY DEF Register!Prospective, Prospective
<1>. QED BY <1>1, <1>2, <1>3 DEF Register!Causal, Causal, Register!Successor, Successor

\* A compare-and-set of the mirror without Redis is one transition of the register.
LEMMA CasIsTransition ==
    ASSUME CInv, NEW c \in Caller, pc[c] = "cas", MirrorCas(c), UNCHANGED <<armed, home>>
    PROVE  [Register!RNext]_InProcess
<1> DEFINE p == home[c]
<1>1. Justified(c) /\ ~armed /\ Current(c) /\ p \in Process
  BY DEF CInv, Types, PastRead
<1>2. CASE ~Matches(mirror[p], c)
  BY <1>2 DEF MirrorCas, InProcess
<1>3. CASE Matches(mirror[p], c)
  <2>1. cur[c] = mirror[p] /\ mirror' = [mirror EXCEPT ![p] = Written(c)]
    BY <1>1, <1>3 DEF MirrorCas, Matches, Current
  <2>2. InProcess = mirror /\ InProcess' = mirror'
    BY <1>1, <2>1 DEF InProcess, CInv, Types
  <2>3. Register!Transition(p, request[c])
    <3>1. Causal(Base(mirror[p]), request[c]) /\ Written(c) = Successor(Base(mirror[p]), request[c])
      BY <1>1, <2>1 DEF Justified, Written
    <3>. QED BY <2>1, <2>2, <3>1, SameMatrix DEF Register!Transition
  <2>. QED BY <1>1, <2>3 DEF Register!RNext, Justified, Asked
<1>. QED BY <1>2, <1>3

\* A timer forgets the record of its process, or does nothing.
LEMMA TimerIsForget ==
    ASSUME CInv, NEW p \in Process, TimerFires(p)
    PROVE  [Register!RNext]_InProcess
<1>1. \/ mirror' = mirror
      \/ mirror' = [mirror EXCEPT ![p] = NoRecord]
  BY DEF TimerFires, CInv, Types
<1>2. armed' = armed
  BY DEF TimerFires, deployVars
<1>3. CASE armed \/ mirror' = mirror
  BY <1>2, <1>3 DEF InProcess
<1>4. CASE ~armed /\ mirror' = [mirror EXCEPT ![p] = NoRecord]
  <2>1. InProcess = mirror /\ InProcess' = mirror'
    BY <1>2, <1>4 DEF InProcess, CInv, Types
  <2>. QED BY <1>4, <2>1, SameMatrix DEF Register!RNext, Register!Forget
<1>. QED BY <1>1, <1>3, <1>4

\* Every step of the store is a step of the register or leaves it alone.
LEMMA StepRefines == CInv /\ [Next]_vars => [Register!RNext]_InProcess
<1>. SUFFICES ASSUME CInv, [Next]_vars PROVE [Register!RNext]_InProcess
  OBVIOUS
<1>1. armed' = armed /\ home' = home
  BY DEF Next, Step, Call, Read, Lookup, Cas, Watch, Get, Unwatch, ExecAborts, ExecSets, Fallback,
         ReplyLost, TimerFires, Reconnect, Expire, deployVars, vars
<1>2. CASE armed
  BY <1>1, <1>2 DEF InProcess
<1>3. CASE ~armed
  <2>1. ASSUME NEW c \in Caller, Cas(c)
        PROVE  [Register!RNext]_InProcess
    BY <1>1, <2>1, CasIsTransition DEF Cas
  <2>2. ASSUME NEW p \in Process, TimerFires(p)
        PROVE  [Register!RNext]_InProcess
    BY <2>2, TimerIsForget
  <2>3. ASSUME NEW c \in Caller, Fallback(c) \/ ReplyLost(c)
        PROVE  FALSE
    BY <1>3, <2>3 DEF Fallback, ReplyLost, CommandFails
  <2>4. CASE \/ \E c \in Caller, q \in Requests, o \in BOOLEAN : Call(c, q, o)
             \/ \E c \in Caller : Read(c) \/ Lookup(c) \/ Watch(c) \/ Get(c) \/ Unwatch(c)
                                  \/ ExecAborts(c) \/ ExecSets(c)
             \/ \E p \in Process : Reconnect(p)
             \/ Expire
             \/ UNCHANGED vars
    <3>1. mirror' = mirror
      BY <2>4 DEF Call, Read, Lookup, Watch, Get, Unwatch, ExecAborts, ExecSets, Reconnect, Expire,
                  stores, vars
    <3>. QED BY <1>1, <3>1 DEF InProcess
  <2>. QED BY <2>1, <2>2, <2>3, <2>4 DEF Next, Step
<1>. QED BY <1>2, <1>3

\* Without Redis the candidate store is an atomic register: no interleaving of its callers loses an
\* update or moves a candidate off the causal matrix.
THEOREM RegisterRefinement == Spec => ImplementsRegister
<1>1. Init => InProcess = [p \in Process |-> Register!NoRecord]
  BY SameMatrix DEF Init, InProcess
<1>. QED BY <1>1, CandidateInvariant, StepRefines, PTL DEF Spec, ImplementsRegister, Register!RSpec

-----------------------------------------------------------------------------
(* What happens to a call.                                                   *)

Blames == {"shared", "stale", "failed", "spoiled"}

Counters ==
    /\ observed \in [Caller -> BOOLEAN]
    /\ attempt \in [Caller -> 0 .. MaxRetries - 1] /\ round \in [Caller -> 0 .. MaxWatch - 1]
    /\ rivals \in [Caller -> 0 .. MaxRetries] /\ blame \in [Caller -> SUBSET Blames]
    /\ faults \in Nat
    /\ watching \in [Process -> BOOLEAN] /\ dirty \in [Process -> BOOLEAN]
    /\ \A p \in Process : dirty[p] => watching[p]
    /\ timers \in [Process -> Seq(Nat)]

\* The timers of a process are those of its record's latest versions, in their order.
Counts(t, v) == Len(t) <= v /\ \A i \in 1 .. Len(t) : t[i] = v - Len(t) + i

Timed(p) ==
    /\ Counts(timers[p], mirror[p].version)
    /\ mirror[p] # NoRecord => timers[p] # <<>>

\* The call is between its WATCH and what ends it.
InTransaction == {"get", "exec", "unwatch"}

\* A call nothing spoiled: the record in Redis is not older than the one it read, its connection
\* watches the key, and before its EXEC the record is the one it read or the connection is dirty.
Unspoiled(c) ==
    blame[c] = {} =>
        /\ pc[c] \in InCas => /\ cur[c].version <= redis.version
                              /\ cur[c].version = redis.version => cur[c] = redis
        /\ pc[c] \in InTransaction => watching[home[c]]
        /\ pc[c] = "exec" => dirty[home[c]] \/ redis = cur[c]

\* Every attempt that failed had a rival, and so has this one once it is bound to fail.
Rivalled(c) ==
    /\ attempt[c] <= rivals[c]
    /\ \/ pc[c] = "cas" /\ mirror[home[c]].version # cur[c].version
       \/ pc[c] \in InCas /\ redis # cur[c]
       \/ pc[c] \in InCas /\ round[c] # 0 /\ dirty[home[c]]
       \/ pc[c] = "unwatch"
       => attempt[c] < rivals[c]
    /\ pc[c] \notin InCas => round[c] = 0

\* Two calls in transactions of one connection are both to blame.
Shared ==
    \A c, d \in Caller :
        c # d /\ home[c] = home[d] /\ pc[c] \in InTransaction /\ pc[d] \in InTransaction => blame[c] # {}

Accounted ==
    /\ Counters /\ Shared
    /\ \A p \in Process : Timed(p)
    /\ \A c \in Caller : Unspoiled(c) /\ Rivalled(c)

LEMMA AccountedInit == Init => Accounted
<1>. SUFFICES ASSUME Init PROVE Accounted
  OBVIOUS
<1>1. Counters
  BY CandidateAssumption DEF Init, Counters, Blames
<1>2. \A p \in Process : Timed(p)
  BY DEF Init, Timed, Counts, NoRecord
<1>3. \A c \in Caller : Unspoiled(c) /\ Rivalled(c)
  BY DEF Init, Unspoiled, Rivalled, InCas, InTransaction
<1>. QED BY <1>1, <1>2, <1>3 DEF Accounted, Shared, Init, InTransaction

\* What a step adds to the history of a call.
LEMMA HistoryFacts ==
    ASSUME Counters, NEW changed \in BOOLEAN, NEW D \in SUBSET Caller, NEW why \in Blames \cup {"none"},
           History(changed, D, why), why = "none" => D = {},
           attempt' \in [Caller -> 0 .. MaxRetries - 1]
    PROVE  /\ rivals' \in [Caller -> 0 .. MaxRetries] /\ blame' \in [Caller -> SUBSET Blames]
           /\ \A c \in Caller :
                /\ rivals[c] <= rivals'[c] \/ (attempt'[c] = 0 /\ pc'[c] \notin PastRead)
                /\ changed \/ (c \in D /\ why = "failed") =>
                     \/ attempt'[c] = 0 /\ pc'[c] \notin PastRead
                     \/ rivals[c] + 1 <= rivals'[c]
                     \/ rivals'[c] = MaxRetries
                /\ pc'[c] \in InCas => blame[c] \subseteq blame'[c] /\ (c \in D => blame'[c] # {})
<1>1. MaxRetries \in Nat
  BY CandidateAssumption
<1>2. \A c \in Caller : rivals[c] \in 0 .. MaxRetries /\ blame[c] \in SUBSET Blames /\ attempt'[c] \in 0 .. MaxRetries - 1
  BY DEF Counters
<1>3. rivals' = [c \in Caller |->
                    IF attempt'[c] = 0 /\ pc'[c] \notin PastRead THEN 0
                    ELSE IF rivals[c] < MaxRetries /\ (changed \/ (c \in D /\ why = "failed"))
                           THEN rivals[c] + 1 ELSE rivals[c]]
  BY DEF History
<1>4. blame' = [c \in Caller |->
                    IF pc'[c] \notin InCas THEN {}
                    ELSE IF c \in D THEN blame[c] \cup {why} ELSE blame[c]]
  BY DEF History
<1>5. \A c \in Caller : rivals'[c] \in 0 .. MaxRetries
  BY <1>1, <1>2, <1>3
<1>6. blame' \in [Caller -> SUBSET Blames]
  BY <1>2, <1>4
<1>7. \A c \in Caller : rivals[c] <= rivals'[c] \/ (attempt'[c] = 0 /\ pc'[c] \notin PastRead)
  BY <1>1, <1>2, <1>3
<1>8. \A c \in Caller : changed \/ (c \in D /\ why = "failed") =>
         \/ attempt'[c] = 0 /\ pc'[c] \notin PastRead
         \/ rivals[c] + 1 <= rivals'[c]
         \/ rivals'[c] = MaxRetries
  BY <1>1, <1>2, <1>3
<1>9. \A c \in Caller : pc'[c] \in InCas => blame[c] \subseteq blame'[c] /\ (c \in D => blame'[c] # {})
  BY <1>4
<1>10. rivals' \in [Caller -> 0 .. MaxRetries]
  BY <1>3, <1>5
<1>. QED BY <1>6, <1>7, <1>8, <1>9, <1>10

\* What a step does to a call it does not move: a changed record is a rival, and an older or the
\* same one only when something is to blame; a connection loses its watch or its mark with blame.
Bystander(c) ==
    /\ pc'[c] = pc[c] /\ cur'[c] = cur[c] /\ attempt'[c] = attempt[c] /\ round'[c] = round[c]
    /\ rivals[c] <= rivals'[c] \/ (attempt[c] = 0 /\ pc[c] \notin PastRead)
    /\ \/ pc[c] \in InCas /\ (redis' # redis \/ (dirty'[home[c]] /\ ~dirty[home[c]]))
       \/ pc[c] = "cas" /\ mirror'[home[c]] # mirror[home[c]]
       => rivals[c] + 1 <= rivals'[c] \/ rivals'[c] = MaxRetries
    /\ pc[c] \in InCas =>
          /\ blame[c] \subseteq blame'[c]
          /\ blame'[c] = {} =>
                /\ redis' = redis \/ redis.version < redis'.version
                /\ pc[c] \in InTransaction /\ watching[home[c]] =>
                     /\ watching'[home[c]]
                     /\ dirty[home[c]] \/ redis' # redis => dirty'[home[c]]

LEMMA BystanderIsSafe ==
    ASSUME CInv, CInv', Accounted, Counters', NEW c \in Caller, Bystander(c), UNCHANGED <<armed, home>>
    PROVE  Unspoiled(c)' /\ Rivalled(c)'
<1>1. /\ attempt[c] \in 0 .. MaxRetries - 1 /\ rivals[c] \in 0 .. MaxRetries /\ rivals'[c] \in 0 .. MaxRetries
      /\ MaxRetries \in Nat
  BY CandidateAssumption DEF Accounted, Counters
<1>2. Unspoiled(c) /\ Rivalled(c)
  BY DEF Accounted
<1>3. cur[c].version \in Nat /\ redis.version \in Nat /\ redis'.version \in Nat
  BY VersionIsNat DEF CInv, Types
<1>4. Unspoiled(c)'
  <2>. SUFFICES ASSUME blame'[c] = {}
                PROVE  /\ pc'[c] \in InCas => /\ cur'[c].version <= redis'.version
                                              /\ cur'[c].version = redis'.version => cur'[c] = redis'
                       /\ pc'[c] \in InTransaction => watching'[home'[c]]
                       /\ pc'[c] = "exec" => dirty'[home'[c]] \/ redis' = cur'[c]
    BY DEF Unspoiled
  <2>1. pc[c] \in InCas => blame[c] = {}
    BY DEF Bystander
  <2>2. InTransaction \subseteq InCas /\ "exec" \in InTransaction
    BY DEF InTransaction, InCas
  <2>3. pc[c] \in InCas => /\ cur[c].version <= redis'.version
                           /\ cur[c].version = redis'.version => cur[c] = redis'
    BY <1>2, <1>3, <2>1 DEF Bystander, Unspoiled
  <2>4. pc[c] \in InTransaction => watching'[home[c]]
    BY <1>2, <2>1, <2>2 DEF Bystander, Unspoiled
  <2>5. pc[c] = "exec" => dirty'[home[c]] \/ redis' = cur[c]
    BY <1>2, <2>1, <2>2 DEF Bystander, Unspoiled
  <2>. QED BY <2>3, <2>4, <2>5 DEF Bystander
<1>5. Rivalled(c)'
  <2>1. attempt'[c] <= rivals'[c]
    BY <1>1, <1>2 DEF Bystander, Rivalled
  <2>2. ASSUME \/ pc[c] = "cas" /\ mirror'[home[c]].version # cur[c].version
               \/ pc[c] \in InCas /\ redis' # cur[c]
               \/ pc[c] \in InCas /\ round[c] # 0 /\ dirty'[home[c]]
               \/ pc[c] = "unwatch"
        PROVE  attempt[c] < rivals'[c]
    <3>1. pc[c] \in PastRead
      BY <2>2 DEF PastRead, InCas
    <3> DEFINE disturbed == \/ pc[c] \in InCas /\ (redis' # redis \/ (dirty'[home[c]] /\ ~dirty[home[c]]))
                            \/ pc[c] = "cas" /\ mirror'[home[c]] # mirror[home[c]]
    <3>2. CASE disturbed
      BY <1>1, <1>2, <3>2 DEF Bystander, Rivalled
    <3>3. CASE ~disturbed
      <4>1. \/ pc[c] = "cas" /\ mirror[home[c]].version # cur[c].version
            \/ pc[c] \in InCas /\ redis # cur[c]
            \/ pc[c] \in InCas /\ round[c] # 0 /\ dirty[home[c]]
            \/ pc[c] = "unwatch"
        BY <2>2, <3>3
      <4>2. attempt[c] < rivals[c]
        BY <1>2, <4>1 DEF Rivalled
      <4>. QED BY <1>1, <3>1, <4>2 DEF Bystander
    <3>. QED BY <3>2, <3>3
  <2>3. pc[c] \notin InCas => round[c] = 0
    BY <1>2 DEF Rivalled
  <2>. QED BY <2>1, <2>2, <2>3 DEF Bystander, Rivalled
<1>. QED BY <1>4, <1>5

\* A step that only disturbs the calls it does not move.
LEMMA NobodyMoves ==
    ASSUME CInv, CInv', Accounted, Counters', UNCHANGED <<armed, home>>,
           \A p \in Process : Timed(p)', \A c \in Caller : Bystander(c)
    PROVE  Accounted'
<1>1. \A c \in Caller : Unspoiled(c)' /\ Rivalled(c)'
  BY BystanderIsSafe
<1>2. Shared'
  BY DEF Shared, Accounted, Bystander, InTransaction, InCas
<1>. QED BY <1>1, <1>2 DEF Accounted

\* A step of one call, which begins no transaction.
LEMMA OneMoves ==
    ASSUME CInv, CInv', Accounted, Counters', UNCHANGED <<armed, home>>,
           \A p \in Process : Timed(p)',
           NEW c \in Caller, Unspoiled(c)', Rivalled(c)', \A d \in Caller \ {c} : Bystander(d),
           pc'[c] \in InTransaction => pc[c] \in InTransaction /\ blame[c] \subseteq blame'[c]
    PROVE  Accounted'
<1>1. \A d \in Caller : Unspoiled(d)' /\ Rivalled(d)'
  BY BystanderIsSafe
<1>2. \A d \in Caller : pc'[d] \in InTransaction => pc[d] \in InTransaction /\ blame[d] \subseteq blame'[d]
  BY DEF Bystander, InTransaction, InCas
<1>3. Shared'
  BY <1>2 DEF Shared, Accounted
<1>. QED BY <1>1, <1>3 DEF Accounted

\* A call leaves its compare-and-set with no more attempts behind it than rivals.
Left(c) ==
    /\ attempt' \in [Caller -> 0 .. MaxRetries - 1] /\ round' \in [Caller -> 0 .. MaxWatch - 1]
    /\ observed' \in [Caller -> BOOLEAN]
    /\ pc'[c] \in {"idle", "read", "lookup"} /\ round'[c] = 0
    /\ \A d \in Caller \ {c} :
         pc'[d] = pc[d] /\ cur'[d] = cur[d] /\ attempt'[d] = attempt[d] /\ round'[d] = round[d]

LEMMA AnswerLeft ==
    ASSUME CInv, Counters, NEW c \in Caller, NEW ok \in BOOLEAN, Answer(c, ok)
    PROVE  Left(c) /\ attempt'[c] = 0
<1>1. 0 \in 0 .. MaxRetries - 1 /\ 0 \in 0 .. MaxWatch - 1
  BY CandidateAssumption
<1>. QED BY <1>1 DEF Answer, Left, Counters, CInv, Types

LEMMA RetryLeft ==
    ASSUME CInv, Counters, NEW c \in Caller, Retry(c)
    PROVE  Left(c) /\ (attempt'[c] = 0 \/ attempt'[c] = attempt[c] + 1)
<1>1. 0 \in 0 .. MaxWatch - 1 /\ MaxRetries \in Nat
  BY CandidateAssumption
<1>2. CASE attempt[c] + 1 < MaxRetries
  <2>1. attempt[c] + 1 \in 0 .. MaxRetries - 1
    BY <1>1, <1>2 DEF Counters
  <2>. QED BY <1>1, <1>2, <2>1, ZenonT(60) DEF Retry, Left, Counters, CInv, Types
<1>3. CASE ~(attempt[c] + 1 < MaxRetries)
  BY <1>3, AnswerLeft DEF Retry
<1>. QED BY <1>2, <1>3

LEMMA LeftIsSafe ==
    ASSUME NEW c \in Caller, Left(c), attempt'[c] <= rivals'[c]
    PROVE  /\ Unspoiled(c)' /\ Rivalled(c)'
           /\ pc'[c] \notin InTransaction /\ pc'[c] \notin PastRead
<1>1. pc'[c] \notin PastRead /\ pc'[c] \notin InCas /\ pc'[c] \notin InTransaction /\ pc'[c] # "exec"
      /\ pc'[c] # "cas" /\ pc'[c] # "unwatch"
  BY DEF Left, PastRead, InCas, InTransaction
<1>2. Unspoiled(c)'
  BY <1>1 DEF Unspoiled
<1>3. Rivalled(c)'
  BY <1>1 DEF Left, Rivalled
<1>. QED BY <1>1, <1>2, <1>3

-----------------------------------------------------------------------------
LEMMA CallAccounts ==
    ASSUME CInv, CInv', Accounted, NEW c \in Caller, NEW q \in Requests, NEW o \in BOOLEAN, Call(c, q, o)
    PROVE  Accounted'
<1>1. UNCHANGED <<armed, home, redis, mirror, timers, watching, dirty, cur, attempt, round, rivals, blame, faults>>
  BY DEF Call, deployVars, stores, connVars
<1>2. Counters'
  BY <1>1 DEF Call, Accounted, Counters
<1>3. \A p \in Process : Timed(p)'
  BY <1>1 DEF Accounted, Timed
<1>4. pc[c] = "idle" /\ pc'[c] = "read" /\ \A d \in Caller \ {c} : pc'[d] = pc[d]
  BY DEF Call, CInv, Types
<1>5. Left(c) /\ attempt'[c] <= rivals'[c]
  BY <1>1, <1>2, <1>4 DEF Left, Counters, Accounted, Rivalled, InCas
<1>6. \A d \in Caller \ {c} : Bystander(d)
  BY <1>1, <1>4 DEF Bystander, Accounted, Counters
<1>. QED BY <1>1, <1>2, <1>3, <1>5, <1>6, LeftIsSafe, OneMoves

\* What the fate of a command of the process p does to the calls it is not a step of.
LEMMA CommandIsSafe ==
    ASSUME CInv, Accounted, NEW p \in Process, CommandFails(p) \/ CommandWorks,
           History(FALSE, Broken(p), "failed"), attempt' \in [Caller -> 0 .. MaxRetries - 1],
           UNCHANGED <<armed, home, redis, mirror>>
    PROVE  /\ watching' \in [Process -> BOOLEAN] /\ dirty' \in [Process -> BOOLEAN] /\ faults' \in Nat
           /\ \A x \in Process : dirty'[x] => watching'[x]
           /\ \A d \in Caller :
                 /\ pc'[d] = pc[d] /\ cur'[d] = cur[d] /\ attempt'[d] = attempt[d] /\ round'[d] = round[d]
                 => Bystander(d)
<1>1. faults \in Nat /\ watching \in [Process -> BOOLEAN] /\ dirty \in [Process -> BOOLEAN] /\ Counters
      /\ \A x \in Process : dirty[x] => watching[x]
  BY DEF Accounted, Counters
<1>2. Broken(p) \in SUBSET Caller
  BY DEF Broken, Of
<1>3. /\ \A d \in Caller : rivals[d] <= rivals'[d] \/ (attempt'[d] = 0 /\ pc'[d] \notin PastRead)
      /\ \A d \in Caller : pc'[d] \in InCas => blame[d] \subseteq blame'[d] /\ (d \in Broken(p) => blame'[d] # {})
  BY <1>1, <1>2, HistoryFacts DEF Blames
<1>4. CASE CommandWorks
  BY <1>1, <1>3, <1>4 DEF CommandWorks, connVars, Bystander
<1>5. CASE CommandFails(p)
  <2>1. faults' = faults - 1 /\ faults > 0
        /\ watching' = [watching EXCEPT ![p] = FALSE] /\ dirty' = [dirty EXCEPT ![p] = FALSE]
    BY <1>5 DEF CommandFails
  <2>2. faults' \in Nat /\ faults' # faults
    BY <1>1, <2>1
  <2>3. Broken(p) = {d \in Caller : home[d] = p}
    BY <2>2 DEF Broken, Of
  <2>4. \A x \in Process : /\ x # p => watching'[x] = watching[x] /\ dirty'[x] = dirty[x]
                           /\ x = p => watching'[x] = FALSE /\ dirty'[x] = FALSE
    BY <1>1, <2>1
  <2>5. \A d \in Caller : home[d] \in Process
    BY DEF CInv, Types
  <2>6. ASSUME NEW d \in Caller,
               pc'[d] = pc[d] /\ cur'[d] = cur[d] /\ attempt'[d] = attempt[d] /\ round'[d] = round[d]
        PROVE  Bystander(d)
    <3>1. CASE home[d] = p
      BY <1>3, <2>3, <2>4, <2>6, <3>1 DEF Bystander
    <3>2. CASE home[d] # p
      BY <1>3, <2>4, <2>5, <2>6, <3>2 DEF Bystander
    <3>. QED BY <3>1, <3>2
  <2>7. watching' \in [Process -> BOOLEAN] /\ dirty' \in [Process -> BOOLEAN]
    BY <1>1, <2>1
  <2>. QED BY <1>1, <2>2, <2>4, <2>6, <2>7
<1>. QED BY <1>4, <1>5

LEMMA ReadAccounts ==
    ASSUME CInv, CInv', Accounted, NEW c \in Caller, Read(c)
    PROVE  Accounted'
<1> DEFINE p == home[c]
<1>0. p \in Process /\ pc[c] = "read" /\ MaxRetries \in Nat
  BY CandidateAssumption DEF Read, CInv, Types
<1>1. UNCHANGED <<armed, home, redis, mirror, timers>> /\ History(FALSE, Broken(p), "failed")
  BY DEF Read, deployVars, stores
<1>2. PICK r \in {redis, mirror[p]} :
         /\ Reads(p, r)
         /\ IF Causal(Base(r), request[c])
              THEN /\ cur' = [cur EXCEPT ![c] = r]
                   /\ pc' = [pc EXCEPT ![c] = IF armed THEN "watch" ELSE "cas"]
                   /\ UNCHANGED <<request, observed, attempt, round>>
              ELSE Answer(c, FALSE)
  BY DEF Read
<1>3. Counters /\ Unspoiled(c) /\ Rivalled(c)
  BY DEF Accounted
<1>4. /\ attempt' \in [Caller -> 0 .. MaxRetries - 1] /\ round' \in [Caller -> 0 .. MaxWatch - 1]
      /\ observed' \in [Caller -> BOOLEAN]
      /\ \A d \in Caller \ {c} :
           pc'[d] = pc[d] /\ cur'[d] = cur[d] /\ attempt'[d] = attempt[d] /\ round'[d] = round[d]
  <2>1. CASE Causal(Base(r), request[c])
    BY <1>2, <1>3, <2>1 DEF CInv, Types, Counters
  <2>2. CASE ~Causal(Base(r), request[c])
    BY <1>2, <1>3, <2>2, AnswerLeft DEF Left
  <2>. QED BY <2>1, <2>2
<1>5. CommandFails(p) \/ CommandWorks
  BY <1>2 DEF Reads
<1>6. Broken(p) \in SUBSET Caller
  BY DEF Broken, Of
<1>7. /\ rivals' \in [Caller -> 0 .. MaxRetries] /\ blame' \in [Caller -> SUBSET Blames]
      /\ rivals[c] <= rivals'[c] \/ (attempt'[c] = 0 /\ pc'[c] \notin PastRead)
      /\ c \in Broken(p) => \/ attempt'[c] = 0 /\ pc'[c] \notin PastRead
                            \/ rivals[c] + 1 <= rivals'[c]
                            \/ rivals'[c] = MaxRetries
      /\ pc'[c] \in InCas => (c \in Broken(p) => blame'[c] # {})
  BY <1>1, <1>3, <1>4, <1>6, HistoryFacts DEF Blames
<1>8. /\ watching' \in [Process -> BOOLEAN] /\ dirty' \in [Process -> BOOLEAN] /\ faults' \in Nat
      /\ \A x \in Process : dirty'[x] => watching'[x]
      /\ \A d \in Caller \ {c} : Bystander(d)
  BY <1>0, <1>1, <1>4, <1>5, CommandIsSafe
<1>9. Counters'
  BY <1>1, <1>3, <1>4, <1>7, <1>8 DEF Counters
<1>10. \A x \in Process : Timed(x)'
  BY <1>1 DEF Accounted, Timed
<1>11. attempt[c] \in 0 .. MaxRetries - 1 /\ rivals[c] \in 0 .. MaxRetries /\ rivals'[c] \in 0 .. MaxRetries
  BY <1>3, <1>7 DEF Counters
<1>12. Unspoiled(c)' /\ Rivalled(c)' /\ pc'[c] \notin InTransaction
  <2>1. CASE ~Causal(Base(r), request[c])
    <3>1. Left(c) /\ attempt'[c] = 0
      BY <1>2, <1>3, <2>1, AnswerLeft
    <3>. QED BY <1>11, <3>1, LeftIsSafe
  <2>2. CASE Causal(Base(r), request[c])
    <3>1. /\ cur'[c] = r /\ pc'[c] = (IF armed THEN "watch" ELSE "cas")
          /\ attempt'[c] = attempt[c] /\ round'[c] = 0
      BY <1>0, <1>2, <1>3, <2>2 DEF CInv, Types, Rivalled, InCas
    <3>2. pc'[c] \in PastRead /\ pc'[c] \notin InTransaction /\ pc'[c] # "exec" /\ pc'[c] # "unwatch"
      BY <3>1 DEF PastRead, InCas, InTransaction
    <3>3. ~armed => r = mirror[p]
      BY <1>2 DEF Reads, CommandFails
    <3>4. armed => r = redis \/ c \in Broken(p)
      <4>1. CASE CommandFails(p)
        BY <4>1, <1>3 DEF CommandFails, Broken, Of, Counters
      <4>. QED BY <1>2, <4>1 DEF Reads
    <3>5. pc'[c] \in InCas <=> armed
      BY <3>1 DEF InCas
    <3>6. redis.version \in Nat
      BY VersionIsNat DEF CInv, Types
    <3>7. Unspoiled(c)'
      BY <1>1, <1>7, <3>1, <3>2, <3>4, <3>5, <3>6 DEF Unspoiled
    <3>8. attempt[c] <= rivals'[c]
      BY <1>3, <1>7, <1>11, <3>2 DEF Rivalled
    <3>9. pc'[c] \in InCas /\ redis # cur'[c] => attempt[c] < rivals'[c]
      BY <1>0, <1>3, <1>7, <1>11, <3>1, <3>2, <3>4, <3>5 DEF Rivalled
    <3>10. pc'[c] = "cas" => mirror[p] = cur'[c]
      BY <3>1, <3>3
    <3>11. Rivalled(c)'
      BY <1>1, <3>1, <3>2, <3>8, <3>9, <3>10 DEF Rivalled
    <3>. QED BY <3>2, <3>7, <3>11
  <2>. QED BY <2>1, <2>2
<1>. QED BY <1>1, <1>8, <1>9, <1>10, <1>12, OneMoves

LEMMA LookupAccounts ==
    ASSUME CInv, CInv', Accounted, NEW c \in Caller, Lookup(c)
    PROVE  Accounted'
<1> DEFINE p == home[c]
<1>0. p \in Process /\ pc[c] = "lookup" /\ MaxRetries \in Nat
  BY CandidateAssumption DEF Lookup, CInv, Types
<1>1. UNCHANGED <<armed, home, redis, mirror, timers, observed, cur, attempt, round>>
      /\ History(FALSE, Broken(p), "failed")
  BY DEF Lookup, deployVars, stores
<1>2. (CommandFails(p) \/ CommandWorks) /\ pc'[c] \in {"idle", "read"}
      /\ \A d \in Caller \ {c} : pc'[d] = pc[d]
  BY DEF Lookup, Reads, CInv, Types
<1>3. Counters /\ Rivalled(c)
  BY DEF Accounted
<1>4. attempt' \in [Caller -> 0 .. MaxRetries - 1] /\ round' \in [Caller -> 0 .. MaxWatch - 1]
      /\ observed' \in [Caller -> BOOLEAN]
  BY <1>1, <1>3 DEF Counters
<1>5. Left(c)
  BY <1>0, <1>1, <1>2, <1>3, <1>4 DEF Left, Rivalled, InCas
<1>6. Broken(p) \in SUBSET Caller
  BY DEF Broken, Of
<1>7. /\ rivals' \in [Caller -> 0 .. MaxRetries] /\ blame' \in [Caller -> SUBSET Blames]
      /\ rivals[c] <= rivals'[c] \/ attempt'[c] = 0
  BY <1>1, <1>3, <1>4, <1>6, HistoryFacts DEF Blames
<1>8. /\ watching' \in [Process -> BOOLEAN] /\ dirty' \in [Process -> BOOLEAN] /\ faults' \in Nat
      /\ \A x \in Process : dirty'[x] => watching'[x]
      /\ \A d \in Caller \ {c} : Bystander(d)
  BY <1>0, <1>1, <1>2, <1>4, CommandIsSafe
<1>9. Counters'
  BY <1>1, <1>3, <1>4, <1>7, <1>8 DEF Counters
<1>10. \A x \in Process : Timed(x)'
  BY <1>1 DEF Accounted, Timed
<1>11. attempt[c] \in 0 .. MaxRetries - 1 /\ rivals[c] \in 0 .. MaxRetries /\ rivals'[c] \in 0 .. MaxRetries
  BY <1>3, <1>7 DEF Counters
<1>12. attempt'[c] <= rivals'[c]
  BY <1>1, <1>3, <1>7, <1>11 DEF Rivalled
<1>. QED BY <1>1, <1>5, <1>8, <1>9, <1>10, <1>12, LeftIsSafe, OneMoves

-----------------------------------------------------------------------------
\* A write adds the timer of the next version.
LEMMA AppendCounts ==
    ASSUME NEW t \in Seq(Nat), NEW v \in Nat, Counts(t, v)
    PROVE  Counts(Append(t, v + 1), v + 1) /\ Append(t, v + 1) # <<>> /\ Append(t, v + 1) \in Seq(Nat)
<1>1. PICK n \in Nat : n = Len(t)
  OBVIOUS
<1>2. PICK u \in Seq(Nat) : u = Append(t, v + 1)
  <2>1. v + 1 \in Nat
    OBVIOUS
  <2>2. Append(t, v + 1) \in Seq(Nat)
    BY <2>1, AppendProperties
  <2>. QED BY <2>2
<1>3. Len(u) = n + 1 /\ \A i \in 1 .. n + 1 : u[i] = IF i <= n THEN t[i] ELSE v + 1
  BY <1>1, <1>2
<1>4. n <= v /\ \A i \in 1 .. n : t[i] = v - n + i
  BY <1>1 DEF Counts
<1>5. ASSUME NEW i \in 1 .. n + 1
      PROVE  u[i] = (v + 1) - (n + 1) + i
  <2>1. CASE i <= n
    <3>1. i \in 1 .. n
      BY <2>1
    <3>2. u[i] = t[i] /\ t[i] = v - n + i
      BY <1>3, <1>4, <2>1, <3>1
    <3>3. v - n + i = (v + 1) - (n + 1) + i
      BY <3>1
    <3>. QED BY <3>2, <3>3
  <2>2. CASE ~(i <= n)
    <3>1. i = n + 1
      BY <2>2
    <3>. QED BY <1>3, <2>2, <3>1
  <2>. QED BY <2>1, <2>2
<1>6. Counts(u, v + 1)
  BY <1>3, <1>4, <1>5 DEF Counts
<1>7. u # <<>>
  BY <1>3
<1>. QED BY <1>2, <1>6, <1>7

\* The timer that fires first is the latest one only when it is the only one.
LEMMA TailCounts ==
    ASSUME NEW t \in Seq(Nat), t # <<>>, NEW v \in Nat, Counts(t, v)
    PROVE  Counts(Tail(t), v) /\ (v = Head(t) <=> Tail(t) = <<>>) /\ Tail(t) \in Seq(Nat)
<1>1. PICK n \in Nat : n = Len(t)
  OBVIOUS
<1>2. PICK u \in Seq(Nat) : u = Tail(t)
  BY HeadTailProperties
<1>3. n >= 1 /\ Head(t) = t[1] /\ Len(u) = n - 1 /\ \A i \in 1 .. n - 1 : u[i] = t[i + 1]
  BY <1>1, <1>2
<1>4. n <= v /\ \A i \in 1 .. n : t[i] = v - n + i
  BY <1>1 DEF Counts
<1>5. \A i \in 1 .. n - 1 : i + 1 \in 1 .. n
  OBVIOUS
<1>6. \A i \in 1 .. n - 1 : u[i] = v - (n - 1) + i
  BY <1>3, <1>4, <1>5
<1>7. Counts(u, v)
  BY <1>3, <1>4, <1>6 DEF Counts
<1>8. v = Head(t) <=> n = 1
  <2>1. 1 \in 1 .. n
    BY <1>3
  <2>2. t[1] = v - n + 1
    BY <1>4, <2>1
  <2>. QED BY <1>3, <2>2
<1>9. u = <<>> <=> n = 1
  BY <1>3, EmptySeq
<1>. QED BY <1>2, <1>7, <1>8, <1>9

\* The in-memory cas() sets the timer of the version it writes.
LEMMA MirrorCasIsTimed ==
    ASSUME CInv, Accounted, NEW c \in Caller, pc[c] \in PastRead, MirrorCas(c)
    PROVE  /\ \A x \in Process : Timed(x)'
           /\ timers' \in [Process -> Seq(Nat)]
           /\ \A x \in Process : x # home[c] \/ ~Matches(mirror[home[c]], c) => mirror'[x] = mirror[x]
           /\ Left(c)
           /\ IF Matches(mirror[home[c]], c) THEN attempt'[c] = 0
              ELSE attempt'[c] = 0 \/ attempt'[c] = attempt[c] + 1
<1>0. PICK p \in Process : p = home[c]
  BY DEF CInv, Types
<1>1. Justified(c) /\ mirror[p] \in MaybeRecord /\ cur[c] \in MaybeRecord /\ Counters
      /\ mirror \in [Process -> MaybeRecord] /\ timers \in [Process -> Seq(Nat)]
  BY DEF CInv, Types, Accounted, Counters
<1>2. CASE ~Matches(mirror[p], c)
  BY <1>0, <1>1, <1>2, RetryLeft DEF MirrorCas, Accounted, Timed
<1>3. CASE Matches(mirror[p], c)
  <2>1. Answer(c, TRUE)
        /\ mirror' = [mirror EXCEPT ![p] = Written(c)]
        /\ timers' = [timers EXCEPT ![p] = Append(@, Written(c).version)]
    BY <1>0, <1>3 DEF MirrorCas
  <2>2. Written(c) \in Record /\ Written(c).version = mirror[p].version + 1
    BY <1>0, <1>1, <1>3, SuccessorIsRecord DEF Justified, Written, Matches
  <2>3. mirror[p].version \in Nat
    BY <1>1, VersionIsNat
  <2>4. /\ mirror'[p] = Written(c) /\ timers'[p] = Append(timers[p], mirror[p].version + 1)
        /\ \A x \in Process \ {p} : mirror'[x] = mirror[x] /\ timers'[x] = timers[x]
    BY <1>1, <2>1, <2>2
  <2>5. Timed(p)'
    <3>1. timers[p] \in Seq(Nat) /\ Counts(timers[p], mirror[p].version)
      BY <1>1 DEF Accounted, Timed
    <3>2. mirror'[p].version = mirror[p].version + 1
      BY <2>2, <2>4
    <3>. QED BY <2>3, <2>4, <3>1, <3>2, AppendCounts DEF Timed
  <2>6. \A x \in Process \ {p} : Timed(x)'
    BY <2>4 DEF Accounted, Timed
  <2>7. timers' \in [Process -> Seq(Nat)]
    <3>1. Append(timers[p], Written(c).version) \in Seq(Nat)
      BY <1>1, <2>2, <2>3
    <3>. QED BY <1>1, <2>1, <3>1
  <2>8. Left(c) /\ attempt'[c] = 0
    BY <1>1, <2>1, AnswerLeft
  <2>9. \A x \in Process : Timed(x)'
    BY <2>5, <2>6
  <2>10. \A x \in Process : x # p => mirror'[x] = mirror[x]
    BY <2>4
  <2>. QED BY <1>0, <1>3, <2>1, <2>7, <2>8, <2>9, <2>10
<1>. QED BY <1>2, <1>3

LEMMA CasAccounts ==
    ASSUME CInv, CInv', Accounted, NEW c \in Caller, Cas(c)
    PROVE  Accounted'
<1> DEFINE p == home[c]
           m == Matches(mirror[p], c)
<1>1. UNCHANGED <<armed, home, redis, watching, dirty, faults>> /\ History(m, {}, "none") /\ MirrorCas(c)
      /\ pc[c] = "cas" /\ pc[c] \in PastRead
  BY DEF Cas, deployVars, connVars, PastRead
<1>2. Counters /\ Rivalled(c) /\ MaxRetries \in Nat /\ m \in BOOLEAN
  BY CandidateAssumption DEF Accounted, Matches
<1>3. /\ \A x \in Process : Timed(x)'
      /\ timers' \in [Process -> Seq(Nat)]
      /\ \A x \in Process : x # p \/ ~m => mirror'[x] = mirror[x]
      /\ Left(c)
      /\ IF m THEN attempt'[c] = 0 ELSE attempt'[c] = 0 \/ attempt'[c] = attempt[c] + 1
  BY <1>1, MirrorCasIsTimed
<1>4. /\ rivals' \in [Caller -> 0 .. MaxRetries] /\ blame' \in [Caller -> SUBSET Blames]
      /\ \A d \in Caller :
           /\ rivals[d] <= rivals'[d] \/ (attempt'[d] = 0 /\ pc'[d] \notin PastRead)
           /\ m => \/ attempt'[d] = 0 /\ pc'[d] \notin PastRead
                   \/ rivals[d] + 1 <= rivals'[d]
                   \/ rivals'[d] = MaxRetries
  BY <1>1, <1>2, <1>3, HistoryFacts DEF Left
<1>5. Counters'
  BY <1>1, <1>2, <1>3, <1>4 DEF Counters, Left
<1>6. attempt[c] \in 0 .. MaxRetries - 1 /\ rivals[c] \in 0 .. MaxRetries /\ rivals'[c] \in 0 .. MaxRetries
  BY <1>2, <1>4 DEF Counters
<1>7. attempt'[c] <= rivals'[c]
  <2>1. CASE m
    BY <1>3, <1>6, <2>1
  <2>2. CASE ~m
    <3>1. attempt[c] < rivals[c]
      BY <1>1, <1>2, <2>2 DEF Matches, Rivalled
    <3>. QED BY <1>3, <1>4, <1>6, <2>2, <3>1
  <2>. QED BY <2>1, <2>2
<1>8. ASSUME NEW d \in Caller \ {c}
      PROVE  Bystander(d)
  <2>1. pc[d] \notin InCas /\ home[d] \in Process
    BY <1>1 DEF CInv, Types
  <2>2. pc'[d] = pc[d] /\ cur'[d] = cur[d] /\ attempt'[d] = attempt[d] /\ round'[d] = round[d]
    BY <1>3 DEF Left
  <2>3. mirror'[home[d]] # mirror[home[d]] => m
    BY <1>3, <2>1
  <2>4. pc[d] = "cas" => pc'[d] \in PastRead
    BY <2>2 DEF PastRead
  <2>. QED BY <1>4, <2>1, <2>2, <2>3, <2>4 DEF Bystander
<1>. QED BY <1>1, <1>3, <1>5, <1>7, <1>8, LeftIsSafe, OneMoves

\* The timer that deletes a record is the last one.
LEMMA TimerFacts ==
    ASSUME CInv, Accounted, NEW p \in Process, TimerFires(p)
    PROVE  /\ Timed(p)' /\ timers' \in [Process -> Seq(Nat)]
           /\ mirror'[p] = mirror[p] \/ (mirror'[p] = NoRecord /\ timers'[p] = <<>>)
           /\ \A x \in Process \ {p} : mirror'[x] = mirror[x] /\ timers'[x] = timers[x]
<1>1. /\ timers \in [Process -> Seq(Nat)] /\ timers[p] # <<>>
      /\ mirror \in [Process -> MaybeRecord] /\ Counts(timers[p], mirror[p].version)
  BY DEF TimerFires, CInv, Types, Accounted, Counters, Timed
<1>2. mirror[p].version \in Nat
  BY <1>1, VersionIsNat
<1>3. /\ timers'[p] = Tail(timers[p])
      /\ mirror'[p] = IF mirror[p].version = Head(timers[p]) THEN NoRecord ELSE mirror[p]
      /\ \A x \in Process \ {p} : mirror'[x] = mirror[x] /\ timers'[x] = timers[x]
  BY <1>1 DEF TimerFires
<1>4. /\ Counts(Tail(timers[p]), mirror[p].version) /\ Tail(timers[p]) \in Seq(Nat)
      /\ mirror[p].version = Head(timers[p]) <=> Tail(timers[p]) = <<>>
  BY <1>1, <1>2, TailCounts
<1>5. timers' \in [Process -> Seq(Nat)]
  BY <1>1, <1>4 DEF TimerFires
<1>6. CASE mirror[p].version = Head(timers[p])
  <2>1. mirror'[p] = NoRecord /\ timers'[p] = <<>>
    BY <1>3, <1>4, <1>6
  <2>2. Timed(p)'
    BY <2>1 DEF Timed, Counts, NoRecord
  <2>. QED BY <1>3, <1>5, <2>1, <2>2
<1>7. CASE mirror[p].version # Head(timers[p])
  <2>1. mirror'[p] = mirror[p] /\ timers'[p] # <<>>
    BY <1>3, <1>4, <1>7
  <2>2. Timed(p)'
    BY <1>3, <1>4, <2>1 DEF Timed
  <2>. QED BY <1>3, <1>5, <2>1, <2>2
<1>. QED BY <1>6, <1>7

LEMMA TimerAccounts ==
    ASSUME CInv, CInv', Accounted, NEW p \in Process, TimerFires(p)
    PROVE  Accounted'
<1>1. UNCHANGED <<armed, home, redis, watching, dirty, pc, request, observed, cur, attempt, round, rivals,
                  blame, faults>>
      /\ \A c \in Caller : home[c] = p => pc[c] # "cas"
  BY DEF TimerFires, deployVars, connVars, Of
<1>2. Counters'
  BY <1>1, TimerFacts DEF Accounted, Counters
<1>3. \A x \in Process : Timed(x)'
  <2>1. \A x \in Process \ {p} : Timed(x)'
    BY TimerFacts DEF Accounted, Timed
  <2>. QED BY <2>1, TimerFacts
<1>4. \A c \in Caller : Bystander(c)
  <2>1. \A c \in Caller : home[c] \in Process /\ rivals[c] \in 0 .. MaxRetries /\ MaxRetries \in Nat
    BY CandidateAssumption DEF CInv, Types, Accounted, Counters
  <2>. QED BY <1>1, <2>1, TimerFacts DEF Bystander
<1>. QED BY <1>1, <1>2, <1>3, <1>4, NobodyMoves

-----------------------------------------------------------------------------
\* Watching the key: the calls already in a transaction of the connection, and this one, may now end
\* each other's.
LEMMA WatchAccounts ==
    ASSUME CInv, CInv', Accounted, NEW c \in Caller, Watch(c)
    PROVE  Accounted'
<1> DEFINE p == home[c]
           beside == {d \in Of(p) \ {c} : pc[d] \in InTransaction}
           D == IF beside = {} THEN {} ELSE beside \cup {c}
<1>1. /\ UNCHANGED <<armed, home, redis, mirror, timers, dirty, request, observed, cur, attempt, round, faults>>
      /\ watching' = [watching EXCEPT ![p] = TRUE] /\ pc' = [pc EXCEPT ![c] = "get"] /\ pc[c] = "watch"
      /\ History(FALSE, D, "shared")
  BY DEF Watch, deployVars, stores, InTransaction
<1>2. Counters /\ Shared /\ Unspoiled(c) /\ Rivalled(c) /\ D \in SUBSET Caller /\ p \in Process
      /\ MaxRetries \in Nat
  BY CandidateAssumption DEF Accounted, Of, CInv, Types
<1>3. attempt' \in [Caller -> 0 .. MaxRetries - 1]
  BY <1>1, <1>2 DEF Counters
<1>4. /\ rivals' \in [Caller -> 0 .. MaxRetries] /\ blame' \in [Caller -> SUBSET Blames]
      /\ \A d \in Caller : rivals[d] <= rivals'[d] \/ (attempt'[d] = 0 /\ pc'[d] \notin PastRead)
      /\ \A d \in Caller : pc'[d] \in InCas => blame[d] \subseteq blame'[d] /\ (d \in D => blame'[d] # {})
  BY <1>1, <1>2, <1>3, HistoryFacts DEF Blames
<1>5. Counters'
  BY <1>1, <1>2, <1>4 DEF Counters
<1>6. \A x \in Process : Timed(x)'
  BY <1>1 DEF Accounted, Timed
<1>7. pc'[c] = "get" /\ \A d \in Caller \ {c} : pc'[d] = pc[d]
  BY <1>1 DEF CInv, Types
<1>8. \A d \in Caller \ {c} : Bystander(d)
  BY <1>1, <1>2, <1>4, <1>7 DEF Bystander, Counters, CInv, Types
<1>9. \A d \in Caller \ {c} : Unspoiled(d)' /\ Rivalled(d)'
  BY <1>1, <1>5, <1>8, BystanderIsSafe
<1>10. watching'[p] = TRUE
  BY <1>1, <1>2 DEF Counters
<1>11. Unspoiled(c)'
  BY <1>1, <1>2, <1>4, <1>7, <1>10 DEF Unspoiled, InCas, InTransaction
<1>12. Rivalled(c)'
  <2>1. rivals[c] <= rivals'[c]
    BY <1>4, <1>7 DEF PastRead, InCas
  <2>2. attempt[c] \in 0 .. MaxRetries - 1 /\ rivals[c] \in 0 .. MaxRetries /\ rivals'[c] \in 0 .. MaxRetries
    BY <1>2, <1>4 DEF Counters
  <2>. QED BY <1>1, <1>2, <1>7, <2>1, <2>2 DEF Rivalled, InCas
<1>13. Shared'
  <2>. SUFFICES ASSUME NEW a \in Caller, NEW b \in Caller, a # b, home[a] = home[b],
                       pc'[a] \in InTransaction, pc'[b] \in InTransaction
                PROVE  blame'[a] # {}
    BY <1>1 DEF Shared
  <2>1. pc'[a] \in InCas
    BY DEF InTransaction, InCas
  <2>2. CASE a = c
    <3>1. b \in beside
      BY <1>7, <2>2 DEF Of
    <3>. QED BY <1>4, <2>1, <2>2, <3>1
  <2>3. CASE b = c
    <3>1. a \in beside
      BY <1>7, <2>3 DEF Of
    <3>. QED BY <1>4, <2>1, <3>1
  <2>4. CASE a # c /\ b # c
    BY <1>2, <1>4, <1>7, <2>1, <2>4 DEF Shared
  <2>. QED BY <2>2, <2>3, <2>4
<1>. QED BY <1>5, <1>6, <1>9, <1>11, <1>12, <1>13 DEF Accounted

LEMMA GetAccounts ==
    ASSUME CInv, CInv', Accounted, NEW c \in Caller, Get(c)
    PROVE  Accounted'
<1>1. /\ UNCHANGED <<armed, home, redis, mirror, timers, watching, dirty, request, observed, cur, attempt, round,
                     rivals, blame, faults>>
      /\ pc[c] = "get" /\ pc' = [pc EXCEPT ![c] = IF Matches(redis, c) THEN "exec" ELSE "unwatch"]
  BY DEF Get, deployVars, stores, connVars
<1>2. Counters /\ Unspoiled(c) /\ Rivalled(c)
  BY DEF Accounted
<1>3. pc'[c] = (IF Matches(redis, c) THEN "exec" ELSE "unwatch") /\ \A d \in Caller \ {c} : pc'[d] = pc[d]
  BY <1>1 DEF CInv, Types
<1>4. Counters'
  BY <1>1, <1>2 DEF Counters
<1>5. \A x \in Process : Timed(x)'
  BY <1>1 DEF Accounted, Timed
<1>6. \A d \in Caller \ {c} : Bystander(d)
  BY <1>1, <1>2, <1>3 DEF Bystander, Counters
<1>7. Unspoiled(c)'
  BY <1>1, <1>2, <1>3 DEF Unspoiled, Matches, InCas, InTransaction
<1>8. Rivalled(c)'
  BY <1>1, <1>2, <1>3 DEF Rivalled, Matches, InCas
<1>9. pc[c] \in InTransaction
  BY <1>1 DEF InTransaction
<1>. QED BY <1>1, <1>4, <1>5, <1>6, <1>7, <1>8, <1>9, OneMoves

\* The end of the connection's watch spoils only what was shared.
LEMMA EndWatchIsSafe ==
    ASSUME CInv, Accounted, NEW c \in Caller, pc[c] \in InTransaction, EndWatch(home[c]), Quiet,
           attempt' \in [Caller -> 0 .. MaxRetries - 1], UNCHANGED <<armed, home, redis, mirror>>
    PROVE  /\ watching' \in [Process -> BOOLEAN] /\ dirty' \in [Process -> BOOLEAN]
           /\ \A x \in Process : dirty'[x] => watching'[x]
           /\ dirty'[home[c]] = FALSE
           /\ rivals' \in [Caller -> 0 .. MaxRetries] /\ blame' \in [Caller -> SUBSET Blames]
           /\ rivals[c] <= rivals'[c] \/ (attempt'[c] = 0 /\ pc'[c] \notin PastRead)
           /\ pc'[c] \in InCas => blame[c] \subseteq blame'[c]
           /\ \A d \in Caller \ {c} :
                 /\ pc'[d] = pc[d] /\ cur'[d] = cur[d] /\ attempt'[d] = attempt[d] /\ round'[d] = round[d]
                 => Bystander(d)
<1> DEFINE p == home[c]
<1>1. Counters /\ Shared /\ p \in Process
  BY DEF Accounted, CInv, Types
<1>2. /\ watching' = [watching EXCEPT ![p] = FALSE] /\ dirty' = [dirty EXCEPT ![p] = FALSE]
      /\ watching \in [Process -> BOOLEAN] /\ dirty \in [Process -> BOOLEAN]
      /\ \A x \in Process : dirty[x] => watching[x]
  BY <1>1 DEF EndWatch, Counters
<1>3. \A x \in Process : /\ x # p => watching'[x] = watching[x] /\ dirty'[x] = dirty[x]
                         /\ x = p => watching'[x] = FALSE /\ dirty'[x] = FALSE
  BY <1>1, <1>2
<1>4. /\ rivals' \in [Caller -> 0 .. MaxRetries] /\ blame' \in [Caller -> SUBSET Blames]
      /\ \A d \in Caller : rivals[d] <= rivals'[d] \/ (attempt'[d] = 0 /\ pc'[d] \notin PastRead)
      /\ \A d \in Caller : pc'[d] \in InCas => blame[d] \subseteq blame'[d]
  BY <1>1, HistoryFacts DEF Quiet
<1>5. ASSUME NEW d \in Caller \ {c},
             pc'[d] = pc[d] /\ cur'[d] = cur[d] /\ attempt'[d] = attempt[d] /\ round'[d] = round[d]
      PROVE  Bystander(d)
  <2>1. home[d] \in Process
    BY DEF CInv, Types
  <2>2. CASE home[d] # p
    BY <1>3, <1>4, <1>5, <2>1, <2>2 DEF Bystander
  <2>3. CASE home[d] = p
    <3>1. pc[d] \in InTransaction => blame[d] # {}
      BY <1>1, <2>3 DEF Shared
    <3>. QED BY <1>3, <1>4, <1>5, <2>1, <2>3, <3>1 DEF Bystander
  <2>. QED BY <2>2, <2>3
<1>. QED BY <1>1, <1>2, <1>3, <1>4, <1>5

LEMMA UnwatchAccounts ==
    ASSUME CInv, CInv', Accounted, NEW c \in Caller, Unwatch(c)
    PROVE  Accounted'
<1>1. UNCHANGED <<armed, home, redis, mirror, timers, faults>> /\ EndWatch(home[c]) /\ Retry(c) /\ Quiet
      /\ pc[c] = "unwatch" /\ pc[c] \in InTransaction
  BY DEF Unwatch, deployVars, stores, InTransaction
<1>2. Counters /\ Rivalled(c) /\ MaxRetries \in Nat
  BY CandidateAssumption DEF Accounted
<1>3. Left(c) /\ (attempt'[c] = 0 \/ attempt'[c] = attempt[c] + 1)
  BY <1>1, <1>2, RetryLeft
<1>4. /\ watching' \in [Process -> BOOLEAN] /\ dirty' \in [Process -> BOOLEAN]
      /\ \A x \in Process : dirty'[x] => watching'[x]
      /\ rivals' \in [Caller -> 0 .. MaxRetries] /\ blame' \in [Caller -> SUBSET Blames]
      /\ rivals[c] <= rivals'[c] \/ attempt'[c] = 0
      /\ \A d \in Caller \ {c} : Bystander(d)
  BY <1>1, <1>3, EndWatchIsSafe DEF Left
<1>5. Counters'
  BY <1>1, <1>2, <1>3, <1>4 DEF Counters, Left
<1>6. \A x \in Process : Timed(x)'
  BY <1>1 DEF Accounted, Timed
<1>7. attempt'[c] <= rivals'[c]
  <2>1. attempt[c] < rivals[c]
    BY <1>1, <1>2 DEF Rivalled
  <2>2. attempt[c] \in 0 .. MaxRetries - 1 /\ rivals[c] \in 0 .. MaxRetries /\ rivals'[c] \in 0 .. MaxRetries
    BY <1>2, <1>4 DEF Counters
  <2>. QED BY <1>3, <1>4, <2>1, <2>2
<1>. QED BY <1>1, <1>3, <1>4, <1>5, <1>6, <1>7, LeftIsSafe, OneMoves

LEMMA ExecAbortsAccounts ==
    ASSUME CInv, CInv', Accounted, NEW c \in Caller, ExecAborts(c)
    PROVE  Accounted'
<1>1. UNCHANGED <<armed, home, redis, mirror, timers, faults>> /\ EndWatch(home[c]) /\ Quiet
      /\ pc[c] = "exec" /\ pc[c] \in InTransaction /\ dirty[home[c]]
  BY DEF ExecAborts, Aborts, deployVars, stores, InTransaction
<1>2. Counters /\ Rivalled(c) /\ Unspoiled(c) /\ MaxRetries \in Nat /\ MaxWatch \in Nat \ {0, 1}
  BY CandidateAssumption DEF Accounted
<1>3. attempt[c] \in 0 .. MaxRetries - 1 /\ rivals[c] \in 0 .. MaxRetries /\ round[c] \in 0 .. MaxWatch - 1
  BY <1>2 DEF Counters
<1>4. \A x \in Process : Timed(x)'
  BY <1>1 DEF Accounted, Timed
<1>5. CASE ~(round[c] + 1 < MaxWatch)
  <2>1. Left(c) /\ (attempt'[c] = 0 \/ attempt'[c] = attempt[c] + 1)
    BY <1>2, <1>5, RetryLeft DEF ExecAborts
  <2>2. /\ watching' \in [Process -> BOOLEAN] /\ dirty' \in [Process -> BOOLEAN]
        /\ \A x \in Process : dirty'[x] => watching'[x]
        /\ rivals' \in [Caller -> 0 .. MaxRetries] /\ blame' \in [Caller -> SUBSET Blames]
        /\ rivals[c] <= rivals'[c] \/ attempt'[c] = 0
        /\ \A d \in Caller \ {c} : Bystander(d)
    BY <1>1, <2>1, EndWatchIsSafe DEF Left
  <2>3. Counters'
    BY <1>1, <1>2, <2>1, <2>2 DEF Counters, Left
  <2>4. attempt[c] < rivals[c]
    <3>1. round[c] # 0
      BY <1>2, <1>3, <1>5
    <3>. QED BY <1>1, <1>2, <3>1 DEF Rivalled, InCas
  <2>5. attempt'[c] <= rivals'[c]
    BY <1>3, <2>1, <2>2, <2>4
  <2>. QED BY <1>1, <1>4, <2>1, <2>2, <2>3, <2>5, LeftIsSafe, OneMoves
<1>6. CASE round[c] + 1 < MaxWatch
  <2>1. /\ round' = [round EXCEPT ![c] = @ + 1] /\ pc' = [pc EXCEPT ![c] = "watch"]
        /\ UNCHANGED <<request, observed, cur, attempt>>
    BY <1>6 DEF ExecAborts
  <2>2. pc'[c] = "watch" /\ pc'[c] \notin InTransaction /\ pc'[c] \in InCas /\ pc'[c] \in PastRead
        /\ \A d \in Caller \ {c} : pc'[d] = pc[d] /\ round'[d] = round[d]
    BY <1>2, <2>1 DEF CInv, Types, Counters, InTransaction, InCas, PastRead
  <2>3. /\ watching' \in [Process -> BOOLEAN] /\ dirty' \in [Process -> BOOLEAN]
        /\ \A x \in Process : dirty'[x] => watching'[x]
        /\ dirty'[home[c]] = FALSE
        /\ rivals' \in [Caller -> 0 .. MaxRetries] /\ blame' \in [Caller -> SUBSET Blames]
        /\ rivals[c] <= rivals'[c] /\ blame[c] \subseteq blame'[c]
        /\ \A d \in Caller \ {c} : Bystander(d)
    BY <1>1, <1>2, <2>1, <2>2, EndWatchIsSafe DEF Counters
  <2>4. round' \in [Caller -> 0 .. MaxWatch - 1]
    <3>1. round[c] + 1 \in 0 .. MaxWatch - 1
      BY <1>2, <1>3, <1>6
    <3>. QED BY <1>2, <2>1, <3>1 DEF Counters
  <2>5. Counters'
    BY <1>1, <1>2, <2>1, <2>3, <2>4 DEF Counters
  <2>6. Unspoiled(c)'
    BY <1>1, <1>2, <2>1, <2>2, <2>3 DEF Unspoiled, InCas
  <2>7. rivals'[c] \in 0 .. MaxRetries
    BY <2>3
  <2>8. Rivalled(c)'
    BY <1>1, <1>2, <1>3, <2>1, <2>2, <2>3, <2>7 DEF Rivalled, InCas
  <2>. QED BY <1>1, <1>4, <2>2, <2>3, <2>5, <2>6, <2>8, OneMoves
<1>. QED BY <1>5, <1>6

\* A SET that EXEC applies marks every other watching connection; a record it did not replace as
\* read is to blame for what it does to the calls of its own.
LEMMA SetIsSafe ==
    ASSUME CInv, Accounted, NEW c \in Caller, pc[c] = "exec", redis' = Written(c),
           watching' = [watching EXCEPT ![home[c]] = FALSE],
           dirty' = [x \in Process |-> x # home[c] /\ watching[x]],
           NEW D \in SUBSET Caller, Spoiled(c) \subseteq D, NEW why \in Blames, History(TRUE, D, why),
           attempt' \in [Caller -> 0 .. MaxRetries - 1], UNCHANGED <<armed, home>>
    PROVE  /\ watching' \in [Process -> BOOLEAN] /\ dirty' \in [Process -> BOOLEAN]
           /\ \A x \in Process : dirty'[x] => watching'[x]
           /\ rivals' \in [Caller -> 0 .. MaxRetries] /\ blame' \in [Caller -> SUBSET Blames]
           /\ \/ attempt'[c] = 0
              \/ rivals[c] + 1 <= rivals'[c]
              \/ rivals'[c] = MaxRetries
           /\ \A d \in Caller \ {c} :
                 /\ pc'[d] = pc[d] /\ cur'[d] = cur[d] /\ attempt'[d] = attempt[d] /\ round'[d] = round[d]
                 => Bystander(d)
<1>1. PICK p \in Process : p = home[c]
  BY DEF CInv, Types
<1>2. Counters /\ Shared /\ watching \in [Process -> BOOLEAN] /\ "none" \notin Blames
  BY DEF Accounted, Counters, Blames
<1>3. /\ rivals' \in [Caller -> 0 .. MaxRetries] /\ blame' \in [Caller -> SUBSET Blames]
      /\ \A d \in Caller :
           /\ rivals[d] <= rivals'[d] \/ (attempt'[d] = 0 /\ pc'[d] \notin PastRead)
           /\ \/ attempt'[d] = 0 /\ pc'[d] \notin PastRead
              \/ rivals[d] + 1 <= rivals'[d]
              \/ rivals'[d] = MaxRetries
           /\ pc'[d] \in InCas => blame[d] \subseteq blame'[d] /\ (d \in D => blame'[d] # {})
  BY <1>2, HistoryFacts
<1>4. /\ watching' \in [Process -> BOOLEAN] /\ dirty' \in [Process -> BOOLEAN]
      /\ \A x \in Process : /\ x # p => watching'[x] = watching[x] /\ dirty'[x] = watching[x]
                            /\ x = p => watching'[x] = FALSE /\ dirty'[x] = FALSE
  BY <1>1, <1>2
<1>5. Justified(c) /\ armed /\ cur[c] \in MaybeRecord /\ redis \in MaybeRecord
  BY DEF CInv, Types, PastRead, InCas
<1>6. cur[c].version \in Nat /\ redis'.version = cur[c].version + 1
  BY <1>5, SuccessorIsRecord, VersionIsNat DEF Justified, Written
<1>7. redis \in {NoRecord, cur[c]} => redis.version < redis'.version
  <2>1. CASE redis = cur[c]
    BY <1>6, <2>1
  <2>2. CASE redis = NoRecord
    BY <1>6, <2>2 DEF NoRecord
  <2>. QED BY <2>1, <2>2
<1>8. ASSUME NEW d \in Caller \ {c},
             pc'[d] = pc[d] /\ cur'[d] = cur[d] /\ attempt'[d] = attempt[d] /\ round'[d] = round[d]
      PROVE  Bystander(d)
  <2>1. home[d] \in Process /\ pc[d] # "cas"
    BY <1>5 DEF CInv, Types
  <2>2. pc[d] \in InCas => pc'[d] \in PastRead
    BY <1>8 DEF PastRead
  <2>3. pc[d] \in InCas /\ blame'[d] = {} => redis.version < redis'.version
    <3>1. CASE d \in Spoiled(c)
      BY <1>3, <1>8, <3>1
    <3>2. CASE d \notin Spoiled(c)
      <4>1. redis \in {NoRecord, cur[c]}
        BY <3>2 DEF Spoiled
      <4>. QED BY <1>7, <4>1
    <3>. QED BY <3>1, <3>2
  <2>4. CASE home[d] # p
    BY <1>3, <1>4, <1>8, <2>1, <2>2, <2>3, <2>4 DEF Bystander
  <2>5. CASE home[d] = p
    <3>1. pc[d] \in InTransaction => blame[d] # {}
      BY <1>1, <1>2, <2>5 DEF Shared, InTransaction
    <3>. QED BY <1>3, <1>4, <1>8, <2>1, <2>2, <2>3, <2>5, <3>1 DEF Bystander
  <2>. QED BY <2>4, <2>5
<1>. QED BY <1>3, <1>4, <1>8

LEMMA ExecSetsAccounts ==
    ASSUME CInv, CInv', Accounted, NEW c \in Caller, ExecSets(c)
    PROVE  Accounted'
<1>1. /\ pc[c] = "exec" /\ redis' = Written(c) /\ Answer(c, TRUE) /\ History(TRUE, Spoiled(c), "spoiled")
      /\ watching' = [watching EXCEPT ![home[c]] = FALSE]
      /\ dirty' = [x \in Process |-> x # home[c] /\ watching[x]]
      /\ UNCHANGED <<armed, home, mirror, timers, faults>>
  BY DEF ExecSets, deployVars
<1>2. Counters /\ Spoiled(c) \in SUBSET Caller /\ "spoiled" \in Blames
  BY DEF Accounted, Spoiled, Blames
<1>3. Left(c) /\ attempt'[c] = 0
  BY <1>1, <1>2, AnswerLeft
<1>4. /\ watching' \in [Process -> BOOLEAN] /\ dirty' \in [Process -> BOOLEAN]
      /\ \A x \in Process : dirty'[x] => watching'[x]
      /\ rivals' \in [Caller -> 0 .. MaxRetries] /\ blame' \in [Caller -> SUBSET Blames]
      /\ \A d \in Caller \ {c} : Bystander(d)
  BY <1>1, <1>2, <1>3, SetIsSafe DEF Left
<1>5. Counters'
  BY <1>1, <1>2, <1>3, <1>4 DEF Counters, Left
<1>6. \A x \in Process : Timed(x)'
  BY <1>1 DEF Accounted, Timed
<1>7. attempt'[c] <= rivals'[c]
  BY <1>3, <1>4
<1>. QED BY <1>1, <1>3, <1>4, <1>5, <1>6, <1>7, LeftIsSafe, OneMoves

\* The mirror decides: a failed command is a rival of every call of its connection.
LEMMA FallbackAccounts ==
    ASSUME CInv, CInv', Accounted, NEW c \in Caller, Fallback(c)
    PROVE  Accounted'
<1>1. PICK p \in Process : p = home[c]
  BY DEF CInv, Types
<1>2. /\ pc[c] \in InCas /\ pc[c] \in PastRead /\ armed /\ faults > 0 /\ faults' = faults - 1 /\ MirrorCas(c)
      /\ watching' = [watching EXCEPT ![p] = FALSE] /\ dirty' = [dirty EXCEPT ![p] = FALSE]
      /\ History(FALSE, Of(p), "failed") /\ UNCHANGED <<armed, home, redis>>
  BY <1>1 DEF Fallback, CommandFails, PastRead, deployVars
<1>3. /\ Counters /\ Rivalled(c) /\ Of(p) = {d \in Caller : home[d] = p} /\ Of(p) \in SUBSET Caller
      /\ "failed" \in Blames /\ MaxRetries \in Nat
  BY CandidateAssumption DEF Accounted, Of, Blames
<1>4. /\ \A x \in Process : Timed(x)'
      /\ timers' \in [Process -> Seq(Nat)]
      /\ Left(c)
      /\ attempt'[c] = 0 \/ attempt'[c] = attempt[c] + 1
  BY <1>2, MirrorCasIsTimed
<1>5. /\ rivals' \in [Caller -> 0 .. MaxRetries] /\ blame' \in [Caller -> SUBSET Blames]
      /\ \A d \in Caller :
           /\ rivals[d] <= rivals'[d] \/ (attempt'[d] = 0 /\ pc'[d] \notin PastRead)
           /\ d \in Of(p) => \/ attempt'[d] = 0 /\ pc'[d] \notin PastRead
                             \/ rivals[d] + 1 <= rivals'[d]
                             \/ rivals'[d] = MaxRetries
           /\ pc'[d] \in InCas => blame[d] \subseteq blame'[d] /\ (d \in Of(p) => blame'[d] # {})
  BY <1>2, <1>3, <1>4, HistoryFacts DEF Left, Blames
<1>6. /\ watching' \in [Process -> BOOLEAN] /\ dirty' \in [Process -> BOOLEAN]
      /\ \A x \in Process : /\ x # p => watching'[x] = watching[x] /\ dirty'[x] = dirty[x]
                            /\ x = p => watching'[x] = FALSE /\ dirty'[x] = FALSE
      /\ \A x \in Process : dirty[x] => watching[x]
  BY <1>2, <1>3 DEF Counters
<1>7. faults' \in Nat
  BY <1>2, <1>3 DEF Counters
<1>8. Counters'
  BY <1>3, <1>4, <1>5, <1>6, <1>7 DEF Counters, Left
<1>9. attempt[c] \in 0 .. MaxRetries - 1 /\ rivals[c] \in 0 .. MaxRetries /\ rivals'[c] \in 0 .. MaxRetries
  BY <1>3, <1>5 DEF Counters
<1>10. attempt'[c] <= rivals'[c]
  BY <1>1, <1>3, <1>4, <1>5, <1>9 DEF Rivalled
<1>11. ASSUME NEW d \in Caller \ {c}
       PROVE  Bystander(d)
  <2>1. home[d] \in Process /\ pc[d] # "cas"
    BY <1>2 DEF CInv, Types
  <2>2. pc'[d] = pc[d] /\ cur'[d] = cur[d] /\ attempt'[d] = attempt[d] /\ round'[d] = round[d]
    BY <1>4 DEF Left
  <2>3. CASE home[d] = p
    BY <1>2, <1>3, <1>5, <1>6, <2>1, <2>2, <2>3 DEF Bystander
  <2>4. CASE home[d] # p
    BY <1>2, <1>5, <1>6, <2>1, <2>2, <2>4 DEF Bystander
  <2>. QED BY <2>3, <2>4
<1>. QED BY <1>2, <1>4, <1>8, <1>10, <1>11, LeftIsSafe, OneMoves

LEMMA ReplyLostAccounts ==
    ASSUME CInv, CInv', Accounted, NEW c \in Caller, ReplyLost(c)
    PROVE  Accounted'
<1> DEFINE D == Of(home[c]) \cup Spoiled(c)
<1>1. /\ pc[c] = "exec" /\ redis' = Written(c) /\ History(TRUE, D, "failed") /\ MirrorCas(c)
      /\ watching' = [watching EXCEPT ![home[c]] = FALSE]
      /\ dirty' = [x \in Process |-> x # home[c] /\ watching[x]]
      /\ faults > 0 /\ faults' = faults - 1 /\ UNCHANGED <<armed, home>>
  BY DEF ReplyLost, deployVars
<1>2. Counters /\ Rivalled(c) /\ D \in SUBSET Caller /\ Spoiled(c) \subseteq D /\ "failed" \in Blames
      /\ MaxRetries \in Nat
  BY CandidateAssumption DEF Accounted, Spoiled, Of, Blames
<1>3. pc[c] \in PastRead
  BY <1>1 DEF PastRead, InCas
<1>4. /\ \A x \in Process : Timed(x)'
      /\ timers' \in [Process -> Seq(Nat)]
      /\ Left(c)
      /\ attempt'[c] = 0 \/ attempt'[c] = attempt[c] + 1
  BY <1>1, <1>3, MirrorCasIsTimed
<1>5. \A d \in Caller \ {c} : 
         pc'[d] = pc[d] /\ cur'[d] = cur[d] /\ attempt'[d] = attempt[d] /\ round'[d] = round[d]
  BY <1>4 DEF Left
<1>6. /\ watching' \in [Process -> BOOLEAN] /\ dirty' \in [Process -> BOOLEAN]
      /\ \A x \in Process : dirty'[x] => watching'[x]
      /\ rivals' \in [Caller -> 0 .. MaxRetries] /\ blame' \in [Caller -> SUBSET Blames]
      /\ attempt'[c] = 0 \/ rivals[c] + 1 <= rivals'[c] \/ rivals'[c] = MaxRetries
      /\ \A d \in Caller \ {c} : Bystander(d)
  <2>1. attempt' \in [Caller -> 0 .. MaxRetries - 1]
    BY <1>4 DEF Left
  <2> HIDE DEF D
  <2>. QED BY <1>1, <1>2, <1>5, <2>1, SetIsSafe
<1>7. faults' \in Nat
  BY <1>1, <1>2 DEF Counters
<1>8. Counters'
  BY <1>2, <1>4, <1>6, <1>7 DEF Counters, Left
<1>9. attempt[c] \in 0 .. MaxRetries - 1 /\ rivals[c] \in 0 .. MaxRetries /\ rivals'[c] \in 0 .. MaxRetries
  BY <1>2, <1>6 DEF Counters
<1>10. attempt'[c] <= rivals'[c]
  BY <1>2, <1>4, <1>6, <1>9 DEF Rivalled
<1>. QED BY <1>1, <1>4, <1>6, <1>8, <1>10, LeftIsSafe, OneMoves

-----------------------------------------------------------------------------
LEMMA ReconnectAccounts ==
    ASSUME CInv, CInv', Accounted, NEW p \in Process, Reconnect(p)
    PROVE  Accounted'
<1>1. /\ UNCHANGED <<armed, home, redis, mirror, timers, pc, observed, cur, attempt, round>>
      /\ CommandFails(p) /\ History(FALSE, Of(p), "failed")
  BY DEF Reconnect, deployVars, stores
<1>2. Counters /\ Of(p) \in SUBSET Caller /\ "failed" \in Blames
  BY DEF Accounted, Of, Blames
<1>3. attempt' \in [Caller -> 0 .. MaxRetries - 1]
  BY <1>1, <1>2 DEF Counters
<1>4. Broken(p) = Of(p)
  BY <1>1, <1>2 DEF Broken, CommandFails, Counters
<1>5. /\ watching' \in [Process -> BOOLEAN] /\ dirty' \in [Process -> BOOLEAN] /\ faults' \in Nat
      /\ \A x \in Process : dirty'[x] => watching'[x]
      /\ \A d \in Caller : Bystander(d)
  BY <1>1, <1>3, <1>4, CommandIsSafe
<1>6. rivals' \in [Caller -> 0 .. MaxRetries] /\ blame' \in [Caller -> SUBSET Blames]
  BY <1>1, <1>2, <1>3, HistoryFacts DEF Blames
<1>7. Counters'
  BY <1>1, <1>2, <1>5, <1>6 DEF Counters
<1>8. \A x \in Process : Timed(x)'
  BY <1>1 DEF Accounted, Timed
<1>. QED BY <1>1, <1>5, <1>7, <1>8, NobodyMoves

LEMMA ExpireAccounts ==
    ASSUME CInv, CInv', Accounted, Expire
    PROVE  Accounted'
<1>1. /\ UNCHANGED <<armed, home, mirror, timers, watching, pc, observed, cur, attempt, round, faults>>
      /\ dirty' = [p \in Process |-> watching[p]] /\ History(TRUE, Caller, "stale")
  BY DEF Expire, deployVars
<1>2. Counters /\ "stale" \in Blames /\ "none" \notin Blames
  BY DEF Accounted, Blames
<1>3. attempt' \in [Caller -> 0 .. MaxRetries - 1]
  BY <1>1, <1>2 DEF Counters
<1>4. /\ rivals' \in [Caller -> 0 .. MaxRetries] /\ blame' \in [Caller -> SUBSET Blames]
      /\ \A d \in Caller :
           /\ rivals[d] <= rivals'[d] \/ (attempt'[d] = 0 /\ pc'[d] \notin PastRead)
           /\ \/ attempt'[d] = 0 /\ pc'[d] \notin PastRead
              \/ rivals[d] + 1 <= rivals'[d]
              \/ rivals'[d] = MaxRetries
           /\ pc'[d] \in InCas => blame[d] \subseteq blame'[d] /\ blame'[d] # {}
  BY <1>1, <1>2, <1>3, HistoryFacts
<1>5. dirty' \in [Process -> BOOLEAN] /\ \A x \in Process : dirty'[x] => watching'[x]
  BY <1>1, <1>2 DEF Counters
<1>6. Counters'
  BY <1>1, <1>2, <1>4, <1>5 DEF Counters
<1>7. \A x \in Process : Timed(x)'
  BY <1>1 DEF Accounted, Timed
<1>8. ASSUME NEW d \in Caller PROVE Bystander(d)
  <2>1. home[d] \in Process /\ mirror'[home[d]] = mirror[home[d]]
    BY <1>1 DEF CInv, Types
  <2>2. pc[d] \in InCas => pc'[d] \in PastRead /\ pc'[d] \in InCas
    BY <1>1 DEF PastRead
  <2>. QED BY <1>1, <1>4, <2>1, <2>2 DEF Bystander
<1>. QED BY <1>1, <1>6, <1>7, <1>8, NobodyMoves

\* Every step keeps the account.
LEMMA AccountedKeeps == CInv /\ CInv' /\ Accounted /\ [Next]_vars => Accounted'
<1>. SUFFICES ASSUME CInv, CInv', Accounted, [Next]_vars PROVE Accounted'
  OBVIOUS
<1>1. ASSUME NEW c \in Caller, Step(c) PROVE Accounted'
  BY <1>1, ReadAccounts, LookupAccounts, CasAccounts, WatchAccounts, GetAccounts, UnwatchAccounts,
     ExecAbortsAccounts, ExecSetsAccounts DEF Step
<1>2. CASE UNCHANGED vars
  BY <1>2 DEF vars, Accounted, Counters, Shared, Timed, Unspoiled, Rivalled
<1>. QED BY <1>1, <1>2, CallAccounts, FallbackAccounts, ReplyLostAccounts, TimerAccounts, ReconnectAccounts,
            ExpireAccounts DEF Next

THEOREM CallsAccounted == Spec => [](CInv /\ Accounted)
<1>1. Spec => []Accounted
  BY CInitInv, AccountedInit, CNextKeeps, AccountedKeeps, CandidateInvariant, PTL DEF Spec
<1>. QED BY <1>1, CandidateInvariant, PTL

-----------------------------------------------------------------------------
LEMMA AccountedTypes == CInv /\ Accounted => CandidateTypeOK
<1>. SUFFICES ASSUME CInv, Accounted PROVE CandidateTypeOK
  OBVIOUS
<1>1. ASSUME NEW q \in Asked
      PROVE  q \in Request
  <2>1. CASE q \in Requests
    BY <2>1, CandidateAssumption
  <2>2. CASE q = Screen
    BY <2>2 DEF Screen, Request, Event
  <2>. QED BY <1>1, <2>1, <2>2 DEF Asked
<1>2. request \in [Caller -> Request \cup {NoRequest}]
  BY <1>1 DEF CInv, Types
<1>. QED BY <1>2 DEF CInv, Types, Accounted, Counters, CandidateTypeOK, MaybeRecord, PC, Blames

\* A record only disappears with its last timer.
LEMMA RecordStays ==
    CInv /\ Accounted /\ [Next]_vars =>
      [\A p \in Process : mirror[p] # NoRecord /\ mirror'[p] = NoRecord => timers'[p] = <<>>]_vars
<1>. SUFFICES ASSUME CInv, Accounted, Next
              PROVE  \A p \in Process : mirror[p] # NoRecord /\ mirror'[p] = NoRecord => timers'[p] = <<>>
  OBVIOUS
<1>1. ASSUME NEW c \in Caller, pc[c] \in PastRead, MirrorCas(c)
      PROVE  \A p \in Process : mirror'[p] = mirror[p] \/ mirror'[p] # NoRecord
  <2>1. CASE ~Matches(mirror[home[c]], c)
    BY <1>1, <2>1 DEF MirrorCas
  <2>2. CASE Matches(mirror[home[c]], c)
    <3>1. Written(c) \in Record
      BY <1>1, SuccessorIsRecord DEF CInv, Types, Justified, Written
    <3>2. mirror' = [mirror EXCEPT ![home[c]] = Written(c)]
      BY <1>1, <2>2 DEF MirrorCas
    <3>. QED BY <3>1, <3>2, CandidateAssumption DEF CInv, Types
  <2>. QED BY <2>1, <2>2
<1>2. ASSUME NEW c \in Caller, Cas(c) \/ Fallback(c) \/ ReplyLost(c)
      PROVE  pc[c] \in PastRead /\ MirrorCas(c)
  BY <1>2 DEF Cas, Fallback, ReplyLost, PastRead, InCas
<1>3. ASSUME NEW x \in Process, TimerFires(x)
      PROVE  \A p \in Process : mirror'[p] = mirror[p] \/ timers'[p] = <<>>
  BY <1>3, TimerFacts
<1>4. CASE \/ \E c \in Caller, q \in Requests, o \in BOOLEAN : Call(c, q, o)
           \/ \E c \in Caller : Read(c) \/ Lookup(c) \/ Watch(c) \/ Get(c) \/ Unwatch(c)
                                \/ ExecAborts(c) \/ ExecSets(c)
           \/ \E p \in Process : Reconnect(p)
           \/ Expire
  <2>1. mirror' = mirror
    BY <1>4 DEF Call, Read, Lookup, Watch, Get, Unwatch, ExecAborts, ExecSets, Reconnect, Expire, stores
  <2>. QED BY <2>1
<1>. QED BY <1>1, <1>2, <1>3, <1>4 DEF Next, Step

\* A call that nothing spoiled replaces the record it read, or none.
LEMMA OverwriteIsBlamed == Accounted => \A c \in Caller : Overwrites(c) => blame[c] # {}
BY DEF Accounted, Unspoiled, Overwrites, Wins, InTransaction

\* A retry that is the last one had a rival in every attempt.
LEMMA LastRetry ==
    ASSUME CInv, Accounted, NEW c \in Caller, Retry(c), pc'[c] \in {"idle", "lookup"}, attempt[c] < rivals[c]
    PROVE  rivals[c] >= MaxRetries
<1>1. attempt[c] \in 0 .. MaxRetries - 1 /\ rivals[c] \in 0 .. MaxRetries /\ MaxRetries \in Nat
  BY CandidateAssumption DEF Accounted, Counters
<1>2. attempt[c] + 1 < MaxRetries => pc'[c] = "read"
  BY DEF Retry, CInv, Types
<1>. QED BY <1>1, <1>2

\* A call is refused after as many rivals as attempts, or because a command failed.
LEMMA RefusalHasRivals ==
    CInv /\ Accounted /\ [Next]_vars =>
      [\A c \in Caller : pc[c] \in PastRead /\ pc'[c] \in {"idle", "lookup"} /\ ~Wins(c)
          => rivals[c] >= MaxRetries \/ faults' # faults]_vars
<1>. SUFFICES ASSUME CInv, Accounted, Next, NEW c \in Caller,
                     pc[c] \in PastRead, pc'[c] \in {"idle", "lookup"}, ~Wins(c), faults' = faults
              PROVE  rivals[c] >= MaxRetries
  OBVIOUS
<1>1. Counters /\ Rivalled(c) /\ faults \in Nat /\ pc'[c] # pc[c]
  BY DEF Accounted, Counters, PastRead, InCas
<1>2. ASSUME NEW d \in Caller, Fallback(d) \/ ReplyLost(d)
      PROVE  FALSE
  <2>1. faults' = faults - 1
    BY <1>2 DEF Fallback, ReplyLost, CommandFails
  <2>. QED BY <1>1, <2>1
<1>3. ASSUME NEW d \in Caller, Step(d) \/ \E q \in Requests, o \in BOOLEAN : Call(d, q, o)
      PROVE  d = c
  <2>1. CASE Read(d)
    BY <1>1, <2>1 DEF Read, Answer, CInv, Types
  <2>2. CASE Cas(d) \/ Unwatch(d)
    BY <1>1, <2>2 DEF Cas, Unwatch, MirrorCas, Retry, Answer, CInv, Types
  <2>3. CASE ExecAborts(d) \/ ExecSets(d)
    BY <1>1, <2>3 DEF ExecAborts, ExecSets, Retry, Answer, CInv, Types
  <2>4. CASE Lookup(d) \/ Watch(d) \/ Get(d) \/ \E q \in Requests, o \in BOOLEAN : Call(d, q, o)
    BY <1>1, <2>4 DEF Lookup, Watch, Get, Call, CInv, Types
  <2>. QED BY <1>3, <2>1, <2>2, <2>3, <2>4 DEF Step
<1>4. CASE \/ \E q \in Requests, o \in BOOLEAN : Call(c, q, o)
           \/ Read(c) \/ Lookup(c) \/ Watch(c) \/ Get(c)
  BY <1>4 DEF Call, Read, Lookup, Watch, Get, PastRead, InCas, CInv, Types
<1>5. CASE Cas(c)
  <2>1. ~Matches(mirror[home[c]], c)
    BY <1>1, <1>5 DEF Cas, Wins, Matches
  <2>2. Retry(c) /\ attempt[c] < rivals[c]
    BY <1>1, <1>5, <2>1 DEF Cas, MirrorCas, Matches, Rivalled
  <2>. QED BY <2>2, LastRetry
<1>6. CASE Unwatch(c)
  <2>1. Retry(c) /\ attempt[c] < rivals[c]
    BY <1>1, <1>6 DEF Unwatch, Rivalled
  <2>. QED BY <2>1, LastRetry
<1>7. CASE ExecAborts(c)
  <2>1. round[c] + 1 < MaxWatch => pc'[c] = "watch"
    BY <1>7 DEF ExecAborts, CInv, Types
  <2>2. Retry(c) /\ ~(round[c] + 1 < MaxWatch)
    BY <1>7, <2>1 DEF ExecAborts
  <2>3. round[c] # 0
    BY <1>1, <2>2, CandidateAssumption DEF Counters
  <2>4. attempt[c] < rivals[c]
    BY <1>1, <1>7, <2>3 DEF ExecAborts, Aborts, Rivalled, InCas
  <2>. QED BY <2>2, <2>4, LastRetry
<1>8. CASE ExecSets(c)
  BY <1>1, <1>8 DEF ExecSets, Aborts, Wins
<1>9. CASE \E p \in Process : TimerFires(p) \/ Reconnect(p)
  BY <1>1, <1>9 DEF TimerFires, Reconnect
<1>10. CASE Expire
  BY <1>1, <1>10 DEF Expire
<1>. QED BY <1>2, <1>3, <1>4, <1>5, <1>6, <1>7, <1>8, <1>9, <1>10 DEF Next, Step

\* Whatever the callers, processes, requests and failures: an update is lost, a record forgotten and a
\* call refused only for a cause.
THEOREM CallsStayAccounted == Spec => CallsAreAccounted
<1>1. Spec => []CandidateTypeOK
  BY CallsAccounted, AccountedTypes, PTL
<1>2. Spec => RenewedRecordStays
  BY CallsAccounted, RecordStays, PTL DEF Spec, RenewedRecordStays
<1>3. Spec => LostUpdateHasACause
  <2>1. Accounted => [\A c \in Caller : Overwrites(c) => blame[c] # {}]_vars
    BY OverwriteIsBlamed
  <2>. QED BY <2>1, CallsAccounted, PTL DEF Spec, LostUpdateHasACause
<1>4. Spec => ContentionHasRivals
  BY CallsAccounted, RefusalHasRivals, PTL DEF Spec, ContentionHasRivals
<1>. QED BY <1>1, <1>2, <1>3, <1>4, PTL DEF CallsAreAccounted
=============================================================================
