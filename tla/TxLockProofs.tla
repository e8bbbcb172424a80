---------------------------- MODULE TxLockProofs ----------------------------
(***************************************************************************)
(* Proofs about the two ways the bot has of doing one thing per token at a *)
(* time, TxLock and SerialExecutor, for any callers, requests and tokens:  *)
(* the inductive invariant of each, mutual exclusion, and that both refine *)
(* TokenMutex.  The step lemmas are about single actions, so that modules  *)
(* that embed the lock in a larger step can cite them.                     *)
(***************************************************************************)
EXTENDS TxLock, SerialExecutor, TLAPS

\* Appending to a queue keeps what was in it and adds one element at the end.
LEMMA AppendFacts ==
    ASSUME NEW S, NEW q \in Seq(S), NEW c \in S
    PROVE  /\ Append(q, c) \in Seq(S)
           /\ Append(q, c) # <<>>
           /\ DOMAIN q = 1..Len(q)
           /\ Len(q) \in Nat
           /\ DOMAIN Append(q, c) = 1..(Len(q) + 1)
           /\ \A i \in 1..Len(q) : Append(q, c)[i] = q[i]
           /\ Append(q, c)[Len(q) + 1] = c
  OBVIOUS

\* Serving the head of a non-empty queue shifts the rest by one.
LEMMA ServeFacts ==
    ASSUME NEW S, NEW q \in Seq(S), q # <<>>
    PROVE  /\ Head(q) \in S
           /\ Head(q) = q[1]
           /\ Tail(q) \in Seq(S)
           /\ DOMAIN q = 1..Len(q)
           /\ Len(q) \in Nat \ {0}
           /\ DOMAIN Tail(q) = 1..(Len(q) - 1)
           /\ \A i \in 1..(Len(q) - 1) : Tail(q)[i] = q[i + 1]
  OBVIOUS
-----------------------------------------------------------------------------
\* The fresh lock is consistent.
LEMMA LockInitInv == LockInit => LockInv
  BY TokenOfType
     DEF LockInit, LockInv, LockTypeOK, MutualExclusion, InflightIsOwned,
         QueueWellFormed

\* acquire() keeps the lock consistent.
LEMMA AcquireKeepsInv ==
    ASSUME LockInv, NEW c \in Caller, Acquire(c)
    PROVE  LockInv'
  <1> DEFINE t == TokenOf[c]
  <1> USE DEF LockInv
  <1>0. t \in Token /\ c \notin granted /\ c \notin Queued(t)
    BY TokenOfType DEF Acquire
  <1>1. CASE ~inflight[t]
    <2>1. /\ inflight' = [inflight EXCEPT ![t] = TRUE]
          /\ granted' = granted \cup {c}
          /\ queues' = queues
      BY <1>1 DEF Acquire
    <2>2. queues[t] = <<>>
      BY <1>0, <1>1 DEF QueueWellFormed
    <2>3. LockTypeOK'
      BY <2>1, <1>0 DEF LockTypeOK
    <2>4. \A d \in granted : TokenOf[d] # t
      BY <1>0, <1>1 DEF InflightIsOwned
    <2>5. MutualExclusion'
      BY <2>1, <2>4 DEF MutualExclusion
    <2>6. InflightIsOwned'
      BY <2>1, <1>0 DEF InflightIsOwned, LockTypeOK
    <2>7. QueueWellFormed'
      <3> SUFFICES ASSUME NEW u \in Token
                   PROVE  /\ queues[u] # <<>> => inflight'[u]
                          /\ \A i \in DOMAIN queues[u] :
                                /\ TokenOf[queues[u][i]] = u
                                /\ queues[u][i] \notin granted'
                          /\ \A i, j \in DOMAIN queues[u] :
                                queues[u][i] = queues[u][j] => i = j
        BY <2>1 DEF QueueWellFormed
      <3>1. \A i \in DOMAIN queues[u] : queues[u][i] # c
        BY <2>2 DEF QueueWellFormed
      <3>2. queues[u] # <<>> => inflight'[u]
        BY <2>1 DEF QueueWellFormed, LockTypeOK
      <3> QED
        BY <2>1, <3>1, <3>2 DEF QueueWellFormed
    <2> QED
      BY <2>3, <2>5, <2>6, <2>7
  <1>2. CASE inflight[t]
    <2>1. /\ queues' = [queues EXCEPT ![t] = Append(queues[t], c)]
          /\ inflight' = inflight
          /\ granted' = granted
      BY <1>2 DEF Acquire
    <2>2. queues[t] \in Seq(Caller)
      BY <1>0 DEF LockTypeOK
    <2>3. LockTypeOK'
      BY <2>1, <2>2, <1>0, AppendFacts DEF LockTypeOK
    <2>4. MutualExclusion' /\ InflightIsOwned'
      BY <2>1 DEF MutualExclusion, InflightIsOwned
    <2>5. QueueWellFormed'
      <3> SUFFICES ASSUME NEW u \in Token
                   PROVE  /\ queues'[u] # <<>> => inflight[u]
                          /\ \A i \in DOMAIN queues'[u] :
                                /\ TokenOf[queues'[u][i]] = u
                                /\ queues'[u][i] \notin granted
                          /\ \A i, j \in DOMAIN queues'[u] :
                                queues'[u][i] = queues'[u][j] => i = j
        BY <2>1 DEF QueueWellFormed
      <3>1. CASE u # t
        BY <2>1, <3>1 DEF QueueWellFormed, LockTypeOK
      <3>2. CASE u = t
        <4>1. queues'[u] = Append(queues[t], c)
          BY <2>1, <3>2, <1>0 DEF LockTypeOK
        <4>2. \A i \in 1..Len(queues[t]) : queues[t][i] # c
          BY <1>0, <2>2, AppendFacts DEF Queued
        <4>3. \A i \in 1..Len(queues[t]) :
                 /\ TokenOf[queues[t][i]] = t
                 /\ queues[t][i] \notin granted
          BY <1>0, <2>2, AppendFacts DEF QueueWellFormed
        <4>4. \A i, j \in 1..Len(queues[t]) :
                 queues[t][i] = queues[t][j] => i = j
          BY <1>0, <2>2, AppendFacts DEF QueueWellFormed
        <4>5. /\ Len(queues[t]) \in Nat
              /\ DOMAIN queues'[u] = 1..(Len(queues[t]) + 1)
              /\ \A i \in 1..Len(queues[t]) : queues'[u][i] = queues[t][i]
              /\ queues'[u][Len(queues[t]) + 1] = c
          BY <4>1, <2>2, AppendFacts
        <4>6. \A i \in DOMAIN queues'[u] :
                 \/ i = Len(queues[t]) + 1
                 \/ i \in 1..Len(queues[t])
          BY <4>5
        <4>7. \A i \in DOMAIN queues'[u] :
                 /\ TokenOf[queues'[u][i]] = u
                 /\ queues'[u][i] \notin granted
          BY <4>3, <4>5, <4>6, <1>0, <3>2
        <4>8. \A i, j \in DOMAIN queues'[u] :
                 queues'[u][i] = queues'[u][j] => i = j
          BY <4>2, <4>4, <4>5, <4>6
        <4> QED
          BY <1>2, <3>2, <4>7, <4>8
      <3> QED
        BY <3>1, <3>2
    <2> QED
      BY <2>3, <2>4, <2>5
  <1> QED
    BY <1>0, <1>1, <1>2 DEF LockTypeOK

\* A release keeps the lock consistent, whether it hands over or frees.
LEMMA ReleaseKeepsInv ==
    ASSUME LockInv, NEW c \in Caller, Release(c)
    PROVE  LockInv'
  <1> DEFINE t == TokenOf[c]
  <1> DEFINE d == Head(queues[t])
  <1> USE DEF LockInv
  <1>0. t \in Token /\ c \in granted /\ queues[t] \in Seq(Caller)
    BY TokenOfType DEF Release, LockTypeOK
  <1>1. CASE queues[t] # <<>>
    <2>1. /\ granted' = (granted \ {c}) \cup {d}
          /\ queues' = [queues EXCEPT ![t] = Tail(queues[t])]
          /\ inflight' = inflight
      BY <1>1 DEF Release
    <2>2. /\ d \in Caller
          /\ d = queues[t][1]
          /\ 1 \in DOMAIN queues[t]
      BY <1>0, <1>1, ServeFacts
    <2>3. TokenOf[d] = t /\ d \notin granted
      BY <1>0, <2>2 DEF QueueWellFormed
    <2>4. LockTypeOK'
      BY <2>1, <2>2, <1>0, <1>1, ServeFacts DEF LockTypeOK
    <2>5. MutualExclusion'
      BY <2>1, <2>3, <1>0 DEF MutualExclusion
    <2>6. InflightIsOwned'
      BY <2>1, <2>3, <1>0 DEF InflightIsOwned, MutualExclusion
    <2>7. QueueWellFormed'
      <3> SUFFICES ASSUME NEW u \in Token
                   PROVE  /\ queues'[u] # <<>> => inflight[u]
                          /\ \A i \in DOMAIN queues'[u] :
                                /\ TokenOf[queues'[u][i]] = u
                                /\ queues'[u][i] \notin granted'
                          /\ \A i, j \in DOMAIN queues'[u] :
                                queues'[u][i] = queues'[u][j] => i = j
        BY <2>1 DEF QueueWellFormed
      <3>1. CASE u # t
        <4>1. queues'[u] = queues[u]
          BY <2>1, <3>1 DEF LockTypeOK
        <4>2. \A i \in DOMAIN queues[u] : queues[u][i] # d
          <5> HIDE DEF d
          <5> QED
            BY <2>3, <3>1 DEF QueueWellFormed
        <4>3. /\ queues[u] # <<>> => inflight[u]
              /\ \A i \in DOMAIN queues[u] :
                    /\ TokenOf[queues[u][i]] = u
                    /\ queues[u][i] \notin granted
              /\ \A i, j \in DOMAIN queues[u] :
                    queues[u][i] = queues[u][j] => i = j
          BY DEF QueueWellFormed
        <4>4. granted' \subseteq granted \cup {d}
          BY <2>1
        <4> HIDE DEF d, LockInv
        <4>5. \A i \in DOMAIN queues'[u] : queues'[u][i] \notin granted'
          BY <4>1, <4>2, <4>3, <4>4
        <4> QED
          BY <4>1, <4>3, <4>5
      <3>2. CASE u = t
        <4>1. queues'[u] = Tail(queues[t])
          BY <2>1, <3>2, <1>0 DEF LockTypeOK
        <4>2. inflight[t]
          BY <1>0, <1>1 DEF QueueWellFormed
        <4>3. \A i \in 1..Len(queues[t]) :
                 /\ TokenOf[queues[t][i]] = t
                 /\ queues[t][i] \notin granted
          BY <1>0, <1>1, ServeFacts DEF QueueWellFormed
        <4>4. \A i, j \in 1..Len(queues[t]) :
                 queues[t][i] = queues[t][j] => i = j
          BY <1>0, <1>1, ServeFacts DEF QueueWellFormed
        <4>5. /\ Len(queues[t]) \in Nat \ {0}
              /\ DOMAIN queues'[u] = 1..(Len(queues[t]) - 1)
              /\ \A i \in DOMAIN queues'[u] :
                    /\ i \in Nat \ {0}
                    /\ i + 1 \in 1..Len(queues[t])
                    /\ queues'[u][i] = queues[t][i + 1]
          BY <4>1, <1>0, <1>1, ServeFacts
        <4>6. \A i \in DOMAIN queues'[u] : queues'[u][i] # d
          <5> SUFFICES ASSUME NEW i \in DOMAIN queues'[u],
                              queues[t][i + 1] = queues[t][1]
                       PROVE  FALSE
            BY <4>5, <2>2
          <5>1. i + 1 = 1
            BY <4>4, <4>5
          <5> QED
            BY <5>1, <4>5
        <4>7. \A i \in DOMAIN queues'[u] :
                 /\ TokenOf[queues'[u][i]] = u
                 /\ queues'[u][i] \notin granted'
          BY <4>3, <4>5, <4>6, <2>1, <3>2
        <4>8. \A i, j \in DOMAIN queues'[u] :
                 queues'[u][i] = queues'[u][j] => i = j
          <5> SUFFICES ASSUME NEW i \in DOMAIN queues'[u],
                              NEW j \in DOMAIN queues'[u],
                              queues'[u][i] = queues'[u][j]
                       PROVE  i = j
            OBVIOUS
          <5>1. i + 1 = j + 1
            BY <4>4, <4>5
          <5> QED
            BY <5>1, <4>5
        <4> QED
          BY <4>2, <3>2, <4>7, <4>8
      <3> QED
        BY <3>1, <3>2
    <2> QED
      BY <2>4, <2>5, <2>6, <2>7
  <1>2. CASE queues[t] = <<>>
    <2>1. /\ granted' = granted \ {c}
          /\ inflight' = [inflight EXCEPT ![t] = FALSE]
          /\ queues' = queues
      BY <1>2 DEF Release
    <2>2. LockTypeOK' /\ MutualExclusion'
      BY <2>1 DEF LockTypeOK, MutualExclusion
    <2>3. InflightIsOwned'
      <3> SUFFICES ASSUME NEW u \in Token
                   PROVE  inflight'[u] <=> \E e \in granted' : TokenOf[e] = u
        BY DEF InflightIsOwned
      <3>1. CASE u = t
        BY <3>1, <2>1, <1>0 DEF MutualExclusion, LockTypeOK
      <3>2. CASE u # t
        BY <3>2, <2>1, <1>0 DEF InflightIsOwned, LockTypeOK
      <3> QED
        BY <3>1, <3>2
    <2>4. QueueWellFormed'
      BY <2>1, <1>0, <1>2 DEF QueueWellFormed, LockTypeOK
    <2> QED
      BY <2>2, <2>3, <2>4
  <1> QED
    BY <1>1, <1>2
-----------------------------------------------------------------------------
\* LockInv is an invariant of the lock for every set of callers and tokens.
THEOREM LockSafety == LockSpec => []LockInv
  <1>1. LockInv /\ [LockNext]_lockVars => LockInv'
    <2> SUFFICES ASSUME LockInv, [LockNext]_lockVars PROVE LockInv'
      OBVIOUS
    <2>1. CASE LockNext
      BY <2>1, AcquireKeepsInv, ReleaseKeepsInv DEF LockNext
    <2>2. CASE UNCHANGED lockVars
      BY <2>2 DEF lockVars, LockInv, LockTypeOK, MutualExclusion,
                  InflightIsOwned, QueueWellFormed
    <2> QED
      BY <2>1, <2>2
  <1> QED
    BY LockInitInv, <1>1, PTL DEF LockSpec

\* No two executions ever own the lock of one token.
THEOREM LockMutualExclusion == LockSpec => []MutualExclusion
  BY LockSafety, PTL DEF LockInv
-----------------------------------------------------------------------------
\* A caller waits in the queue of its own token or nowhere.
LEMMA WaitingInOwnQueue ==
    ASSUME LockInv, NEW c \in Caller
    PROVE  c \in Waiting <=> c \in Queued(TokenOf[c])
  BY TokenOfType DEF LockInv, QueueWellFormed, Waiting, Queued

\* acquire() is an acquire, or a step on an equal set of waiters and owners,
\* of the abstract lock.
LEMMA AcquireRefines ==
    ASSUME LockInv, NEW c \in Caller, Acquire(c)
    PROVE  Abstract!MAcquire(c)
  <1> DEFINE t == TokenOf[c]
  <1>0. /\ t \in Token /\ c \notin granted /\ c \notin Queued(t)
        /\ c \notin Waiting /\ queues[t] \in Seq(Caller)
    BY TokenOfType, WaitingInOwnQueue DEF Acquire, LockInv, LockTypeOK
  <1>1. inflight[t] <=> Abstract!Holders(t) # {}
    BY <1>0 DEF LockInv, InflightIsOwned, Abstract!Holders
  <1>2. CASE ~inflight[t]
    <2>1. granted' = granted \cup {c} /\ queues' = queues
      BY <1>2 DEF Acquire
    <2>2. Waiting' = Waiting
      BY <2>1 DEF Waiting, Queued
    <2> QED
      BY <1>0, <1>1, <1>2, <2>1, <2>2 DEF Abstract!MAcquire
  <1>3. CASE inflight[t]
    <2>1. /\ queues' = [queues EXCEPT ![t] = Append(queues[t], c)]
          /\ granted' = granted
      BY <1>3 DEF Acquire
    <2>2. Queued(t)' = Queued(t) \cup {c}
      <3>1. queues'[t] = Append(queues[t], c)
        BY <2>1, <1>0 DEF LockInv, LockTypeOK
      <3>2. /\ DOMAIN queues[t] = 1..Len(queues[t])
            /\ Len(queues[t]) \in Nat
            /\ DOMAIN queues'[t] = 1..(Len(queues[t]) + 1)
            /\ \A i \in 1..Len(queues[t]) : queues'[t][i] = queues[t][i]
            /\ queues'[t][Len(queues[t]) + 1] = c
        BY <1>0, <3>1, AppendFacts
      <3>3. \A i \in DOMAIN queues'[t] :
               i \in DOMAIN queues[t] \/ i = Len(queues[t]) + 1
        BY <3>2
      <3>4. Queued(t)' \subseteq Queued(t) \cup {c}
        BY <3>2, <3>3 DEF Queued
      <3>5. Queued(t) \subseteq Queued(t)' /\ c \in Queued(t)'
        BY <3>2, SMTT(30) DEF Queued
      <3> QED
        BY <3>4, <3>5
    <2>3. \A u \in Token \ {t} : Queued(u)' = Queued(u)
      BY <2>1 DEF Queued, LockInv, LockTypeOK
    <2>4. Waiting' = Waiting \cup {c}
      BY <1>0, <2>2, <2>3 DEF Waiting
    <2> QED
      BY <1>0, <1>1, <1>3, <2>1, <2>4 DEF Abstract!MAcquire
  <1> QED
    BY <1>0, <1>2, <1>3 DEF LockInv, LockTypeOK

\* A release is a release of the abstract lock: the head of the queue is one
\* of the waiters, and an empty queue means there is none.
LEMMA ReleaseRefines ==
    ASSUME LockInv, NEW c \in Caller, Release(c)
    PROVE  Abstract!MRelease(c)
  <1> DEFINE t == TokenOf[c]
  <1> DEFINE d == Head(queues[t])
  <1>0. t \in Token /\ c \in granted /\ queues[t] \in Seq(Caller)
    BY TokenOfType DEF Release, LockInv, LockTypeOK
  <1>1. Abstract!Waiters(t) = Queued(t)
    BY <1>0 DEF LockInv, QueueWellFormed, Waiting, Queued, Abstract!Waiters
  <1>2. CASE queues[t] # <<>>
    <2>1. /\ granted' = (granted \ {c}) \cup {d}
          /\ queues' = [queues EXCEPT ![t] = Tail(queues[t])]
      BY <1>2 DEF Release
    <2>2. /\ DOMAIN queues[t] = 1..Len(queues[t])
          /\ Len(queues[t]) \in Nat \ {0}
          /\ d = queues[t][1]
          /\ DOMAIN Tail(queues[t]) = 1..(Len(queues[t]) - 1)
          /\ \A i \in 1..(Len(queues[t]) - 1) :
                Tail(queues[t])[i] = queues[t][i + 1]
      BY <1>0, <1>2, ServeFacts
    <2>3. queues'[t] = Tail(queues[t])
      BY <2>1, <1>0 DEF LockInv, LockTypeOK
    <2>4. d \in Queued(t)
      BY <2>2 DEF Queued
    <2>5. Queued(t)' = Queued(t) \ {d}
      <3> HIDE DEF d
      <3>1. \A i, j \in 1..Len(queues[t]) :
               queues[t][i] = queues[t][j] => i = j
        BY <1>0, <2>2 DEF LockInv, QueueWellFormed
      <3>2. ASSUME NEW i \in DOMAIN queues'[t]
            PROVE  queues'[t][i] \in Queued(t) \ {d}
        <4>1. /\ i \in Nat \ {0}
              /\ i + 1 \in 1..Len(queues[t])
              /\ i + 1 # 1
              /\ 1 \in 1..Len(queues[t])
              /\ queues'[t][i] = queues[t][i + 1]
          BY <2>2, <2>3
        <4>2. queues[t][i + 1] # queues[t][1]
          BY <3>1, <4>1
        <4> QED
          BY <2>2, <4>1, <4>2 DEF Queued
      <3>3. ASSUME NEW i \in DOMAIN queues[t], queues[t][i] # d
            PROVE  queues[t][i] \in Queued(t)'
        <4>1. i - 1 \in 1..(Len(queues[t]) - 1) /\ (i - 1) + 1 = i
          BY <2>2, <3>3
        <4>2. queues'[t][i - 1] = queues[t][i]
          BY <2>2, <2>3, <4>1
        <4> QED
          BY <2>2, <2>3, <4>1, <4>2 DEF Queued
      <3> QED
        BY <3>2, <3>3 DEF Queued
    <2>6. \A u \in Token \ {t} : Queued(u)' = Queued(u) /\ d \notin Queued(u)
      <3>1. TokenOf[d] = t
        BY <1>0, <2>2 DEF LockInv, QueueWellFormed
      <3> HIDE DEF d
      <3>2. \A u \in Token \ {t} : Queued(u)' = Queued(u)
        BY <2>1 DEF Queued, LockInv, LockTypeOK
      <3>3. \A u \in Token \ {t} : \A i \in DOMAIN queues[u] :
               TokenOf[queues[u][i]] = u
        BY DEF LockInv, QueueWellFormed
      <3> QED
        BY <3>1, <3>2, <3>3 DEF Queued
    <2>7. Waiting' = Waiting \ {d}
      <3> HIDE DEF d
      <3> QED
        BY <1>0, <2>5, <2>6 DEF Waiting
    <2> QED
      BY <1>0, <1>1, <2>1, <2>4, <2>7 DEF Abstract!MRelease
  <1>3. CASE queues[t] = <<>>
    <2>1. granted' = granted \ {c} /\ queues' = queues
      BY <1>3 DEF Release
    <2>2. Queued(t) = {} /\ Waiting' = Waiting
      BY <1>3, <2>1 DEF Queued, Waiting
    <2> QED
      BY <1>0, <1>1, <2>1, <2>2 DEF Abstract!MRelease
  <1> QED
    BY <1>2, <1>3

\* The FIFO lock implements the abstract per-token lock: every acquire() and
\* every release is one of its steps.
THEOREM LockRefinement == LockSpec => ImplementsMutex
  <1>1. LockInit => Abstract!MInit
    BY DEF LockInit, Abstract!MInit, Waiting, Queued
  <1>2. LockInv /\ [LockNext]_lockVars => [Abstract!MNext]_Abstract!mvars
    <2> SUFFICES ASSUME LockInv, [LockNext]_lockVars
                 PROVE  [Abstract!MNext]_Abstract!mvars
      OBVIOUS
    <2>1. CASE LockNext
      BY <2>1, AcquireRefines, ReleaseRefines DEF LockNext, Abstract!MNext
    <2>2. CASE UNCHANGED lockVars
      BY <2>2 DEF lockVars, Abstract!mvars, Waiting, Queued
    <2> QED
      BY <2>1, <2>2
  <1> QED
    BY <1>1, <1>2, LockSafety, PTL DEF LockSpec, ImplementsMutex, Abstract!MSpec
-----------------------------------------------------------------------------
(* The serialized executor                                                 *)

Unsettled == {"waiting", "veto", "submitted"}

SerialTypeOK ==
    /\ tails \in [Lane -> Seq(Request)]
    /\ stage \in [Request -> {"new", "done"} \cup Unsettled]

\* A token's chain holds requests of that token, each once and none that has
\* settled, and only its first may be past waiting.
ChainWellFormed(t) ==
    /\ \A i \in DOMAIN tails[t] :
          /\ LaneOf[tails[t][i]] = t
          /\ stage[tails[t][i]] \in Unsettled
          /\ i # 1 => stage[tails[t][i]] = "waiting"
    /\ \A i, j \in DOMAIN tails[t] : tails[t][i] = tails[t][j] => i = j

\* Whoever has not settled is in its token's chain.
Chained == \A r \in Request : stage[r] \in Unsettled => \E i \in DOMAIN tails[LaneOf[r]] : tails[LaneOf[r]][i] = r

SerialInv == SerialTypeOK /\ Chained /\ \A t \in Lane : ChainWellFormed(t)

Runners == {r \in Request : First(r)}
Behind == {r \in Request : stage[r] = "waiting" /\ ~First(r)}

\* The runner of a token is the first of its chain, and everybody else in the
\* chain is behind it.
LEMMA ChainFacts ==
    ASSUME SerialInv, NEW t \in Lane
    PROVE  /\ tails[t] \in Seq(Request) /\ DOMAIN tails[t] = 1..Len(tails[t]) /\ Len(tails[t]) \in Nat
           /\ tails[t] = <<>> => \A r \in Request : LaneOf[r] = t => ~First(r) /\ stage[r] \notin Unsettled
           /\ tails[t] # <<>> =>
                 /\ Len(tails[t]) >= 1 /\ 1 \in DOMAIN tails[t] /\ Head(tails[t]) = tails[t][1]
                 /\ \A r \in Request : LaneOf[r] = t => (First(r) <=> r = tails[t][1])
  <1>1. tails[t] \in Seq(Request) /\ DOMAIN tails[t] = 1..Len(tails[t]) /\ Len(tails[t]) \in Nat
    BY DEF SerialInv, SerialTypeOK
  <1>2. CASE tails[t] = <<>>
    BY <1>1, <1>2 DEF SerialInv, Chained, First
  <1>3. CASE tails[t] # <<>>
    <2>1. Len(tails[t]) \in Nat \ {0} /\ Head(tails[t]) = tails[t][1]
      BY <1>1, <1>3, ServeFacts
    <2> QED BY <1>1, <1>3, <2>1 DEF First
  <1> QED BY <1>1, <1>2, <1>3

LEMMA SerialInitInv == ExecInit => SerialInv
  BY ExecutorAssumption DEF ExecInit, SerialInv, SerialTypeOK, Chained, ChainWellFormed, Unsettled

\* execute() joins the end of its token's chain.
LEMMA ExecuteKeepsInv ==
    ASSUME SerialInv, NEW r \in Request, Execute(r)
    PROVE  SerialInv' /\ Serial!MAcquire(r)
  <1> DEFINE t == LaneOf[r]
  <1> DEFINE q == tails[t]
  <1>1. /\ t \in Lane /\ stage[r] = "new"
        /\ tails' = [tails EXCEPT ![t] = Append(q, r)]
        /\ stage' = [stage EXCEPT ![r] = "waiting"]
    BY ExecutorAssumption DEF Execute
  <1>2. /\ q \in Seq(Request) /\ DOMAIN q = 1..Len(q) /\ Len(q) \in Nat
    BY <1>1, ChainFacts
  <1>3. /\ Append(q, r) \in Seq(Request) /\ Append(q, r) # <<>>
        /\ DOMAIN Append(q, r) = 1..(Len(q) + 1)
        /\ \A i \in 1..Len(q) : Append(q, r)[i] = q[i]
        /\ Append(q, r)[Len(q) + 1] = r
    BY <1>2, AppendFacts
  <1>4. tails'[t] = Append(q, r) /\ \A u \in Lane \ {t} : tails'[u] = tails[u]
    BY <1>1 DEF SerialInv, SerialTypeOK
  <1>5. SerialTypeOK'
    BY <1>1, <1>3 DEF SerialInv, SerialTypeOK, Unsettled
  <1>6. \A u \in Lane : \A i \in DOMAIN tails[u] : tails[u][i] # r
    BY <1>1 DEF SerialInv, ChainWellFormed, Unsettled
  <1>7. Chained'
    <2> SUFFICES ASSUME NEW s \in Request, stage'[s] \in Unsettled
                 PROVE  \E i \in DOMAIN tails'[LaneOf[s]] : tails'[LaneOf[s]][i] = s
      BY DEF Chained
    <2>1. CASE s = r
      BY <2>1, <1>2, <1>3, <1>4
    <2>2. CASE s # r
      <3>1. PICK i \in DOMAIN tails[LaneOf[s]] : tails[LaneOf[s]][i] = s
        BY <2>2, <1>1 DEF SerialInv, SerialTypeOK, Chained
      <3>2. LaneOf[s] \in Lane
        BY ExecutorAssumption
      <3>3. CASE LaneOf[s] = t
        <4>1. i \in 1..Len(q) /\ i \in DOMAIN Append(q, r) /\ Append(q, r)[i] = s
          BY <3>1, <3>3, <1>2, <1>3
        <4> QED BY <4>1, <3>3, <1>4
      <3> QED BY <3>1, <3>2, <3>3, <1>4
    <2> QED BY <2>1, <2>2
  <1>8. \A u \in Lane : ChainWellFormed(u)'
    <2> SUFFICES ASSUME NEW u \in Lane PROVE ChainWellFormed(u)'
      OBVIOUS
    <2>1. \A s \in Request : s # r => stage'[s] = stage[s]
      BY <1>1 DEF SerialInv, SerialTypeOK
    <2>2. stage'[r] = "waiting"
      BY <1>1 DEF SerialInv, SerialTypeOK
    <2>3. CASE u # t
      <3>1. tails[u] \in Seq(Request) /\ \A i \in DOMAIN tails[u] : tails[u][i] \in Request
        BY DEF SerialInv, SerialTypeOK
      <3>2. ChainWellFormed(u)
        BY DEF SerialInv
      <3> QED BY <2>1, <2>3, <1>4, <1>6, <3>1, <3>2 DEF ChainWellFormed
    <2>4. CASE u = t
      <3>1. ChainWellFormed(t)
        BY <1>1 DEF SerialInv
      <3>2. \A i \in 1..Len(q) : q[i] \in Request /\ q[i] # r
        BY <1>1, <1>2, <1>6
      <3>3. \A i \in 1..Len(q) : /\ LaneOf[q[i]] = t /\ stage'[q[i]] \in Unsettled
                                 /\ i # 1 => stage'[q[i]] = "waiting"
        BY <1>2, <3>1, <3>2, <2>1 DEF ChainWellFormed
      <3>4. \A i \in 1..(Len(q) + 1) : i \in 1..Len(q) \/ i = Len(q) + 1
        BY <1>2
      <3>5. \A i \in DOMAIN tails'[t] :
               /\ LaneOf[tails'[t][i]] = t /\ stage'[tails'[t][i]] \in Unsettled
               /\ i # 1 => stage'[tails'[t][i]] = "waiting"
        BY <1>3, <1>4, <2>2, <3>3, <3>4 DEF Unsettled
      <3>6. \A i, j \in 1..Len(q) : q[i] = q[j] => i = j
        BY <1>2, <3>1 DEF ChainWellFormed
      <3>7. \A i, j \in DOMAIN tails'[t] : tails'[t][i] = tails'[t][j] => i = j
        BY <1>3, <1>4, <3>2, <3>4, <3>6
      <3> QED BY <2>4, <3>5, <3>7 DEF ChainWellFormed
    <2> QED BY <2>3, <2>4
  <1>9. Serial!MAcquire(r)
    <2>1. \A s \in Request : LaneOf[s] # t => (First(s)' <=> First(s)) /\ stage'[s] = stage[s]
      BY <1>1, <1>4, ExecutorAssumption DEF First, SerialInv, SerialTypeOK
    <2>2. r \notin Runners /\ r \notin Behind
      BY <1>1, <1>2, <1>6, ChainFacts DEF Runners, Behind
    <2>3. Head(Append(q, r)) = IF q = <<>> THEN r ELSE Head(q)
      BY <1>2
    <2>4. CASE q = <<>>
      <3>1. \A s \in Request : LaneOf[s] = t => ~First(s) /\ stage[s] \notin Unsettled
        BY <1>1, <2>4, ChainFacts
      <3>2. \A s \in Request : LaneOf[s] = t => (First(s)' <=> s = r)
        BY <1>3, <1>4, <2>3, <2>4 DEF First
      <3>3. \A s \in Request : s # r => stage'[s] = stage[s]
        BY <1>1 DEF SerialInv, SerialTypeOK
      <3>4. Runners' = Runners \cup {r}
        BY <2>1, <3>1, <3>2 DEF Runners
      <3>5. Behind' = Behind
        BY <2>1, <3>1, <3>2, <3>3 DEF Behind, Unsettled
      <3>6. \A c \in Runners : LaneOf[c] # t
        BY <3>1 DEF Runners
      <3> QED BY <2>2, <3>4, <3>5, <3>6 DEF Serial!MAcquire, Serial!Holders, Runners, Behind
    <2>5. CASE q # <<>>
      <3>1. \A s \in Request : LaneOf[s] = t => (First(s)' <=> First(s))
        BY <1>3, <1>4, <2>3, <2>5 DEF First
      <3>2. \A s \in Request : stage'[s] = IF s = r THEN "waiting" ELSE stage[s]
        BY <1>1 DEF SerialInv, SerialTypeOK
      <3>3. Runners' = Runners
        BY <2>1, <3>1 DEF Runners
      <3>4. Behind' = Behind \cup {r}
        BY <2>1, <2>2, <3>1, <3>2 DEF Behind, Runners
      <3>5. q[1] \in Runners /\ LaneOf[q[1]] = t
        <4>1. 1 \in DOMAIN q /\ q[1] \in Request
          BY <1>1, <1>2, <2>5, ChainFacts
        <4>2. LaneOf[q[1]] = t
          BY <1>1, <4>1 DEF SerialInv, ChainWellFormed
        <4> QED BY <1>1, <2>5, <4>1, <4>2, ChainFacts DEF Runners
      <3> QED BY <2>2, <3>3, <3>4, <3>5 DEF Serial!MAcquire, Serial!Holders, Runners, Behind
    <2> QED BY <2>4, <2>5
  <1> QED BY <1>5, <1>7, <1>8, <1>9 DEF SerialInv

\* The first of a chain settles: the chain moves on, and whoever is first then
\* takes over the token.
LEMMA ResolveKeepsInv ==
    ASSUME SerialInv, NEW r \in Request, First(r), stage[r] \in Unsettled, NEW a, Resolve(r, a)
    PROVE  SerialInv' /\ Serial!MRelease(r)
  <1> DEFINE t == LaneOf[r]
  <1> DEFINE q == tails[t]
  <1>1. /\ t \in Lane
        /\ tails' = [tails EXCEPT ![t] = Tail(q)]
        /\ stage' = [stage EXCEPT ![r] = "done"]
    BY ExecutorAssumption DEF Resolve
  <1>2. /\ q # <<>> /\ q \in Seq(Request) /\ r = q[1]
        /\ Tail(q) \in Seq(Request)
        /\ DOMAIN q = 1..Len(q) /\ Len(q) \in Nat \ {0}
        /\ DOMAIN Tail(q) = 1..(Len(q) - 1)
        /\ \A i \in 1..(Len(q) - 1) : Tail(q)[i] = q[i + 1]
    BY <1>1, ChainFacts, ServeFacts DEF First
  <1>3. tails'[t] = Tail(q) /\ \A u \in Lane \ {t} : tails'[u] = tails[u]
    BY <1>1 DEF SerialInv, SerialTypeOK
  <1>4. \A s \in Request : stage'[s] = IF s = r THEN "done" ELSE stage[s]
    BY <1>1 DEF SerialInv, SerialTypeOK
  <1>5. /\ \A i \in 1..Len(q) : /\ q[i] \in Request /\ LaneOf[q[i]] = t /\ stage[q[i]] \in Unsettled
                                /\ i # 1 => stage[q[i]] = "waiting"
        /\ \A i, j \in 1..Len(q) : q[i] = q[j] => i = j
    BY <1>1, <1>2 DEF SerialInv, ChainWellFormed
  <1>6. \A i \in 1..(Len(q) - 1) : i + 1 \in 1..Len(q) /\ i + 1 # 1 /\ q[i + 1] # r
    BY <1>2, <1>5
  <1>7. SerialTypeOK'
    BY <1>1, <1>2 DEF SerialInv, SerialTypeOK, Unsettled
  <1>8. Chained'
    <2> SUFFICES ASSUME NEW s \in Request, stage'[s] \in Unsettled
                 PROVE  \E i \in DOMAIN tails'[LaneOf[s]] : tails'[LaneOf[s]][i] = s
      BY DEF Chained
    <2>1. s # r /\ LaneOf[s] \in Lane
      BY <1>4, ExecutorAssumption DEF Unsettled
    <2>2. PICK i \in DOMAIN tails[LaneOf[s]] : tails[LaneOf[s]][i] = s
      BY <2>1, <1>4 DEF SerialInv, Chained
    <2>3. CASE LaneOf[s] = t
      <3>1. i - 1 \in 1..(Len(q) - 1) /\ (i - 1) + 1 = i
        BY <2>1, <2>2, <2>3, <1>2
      <3>2. Tail(q)[i - 1] = s
        BY <3>1, <2>2, <2>3, <1>2
      <3> QED BY <3>1, <3>2, <2>3, <1>2, <1>3
    <2> QED BY <2>1, <2>2, <2>3, <1>3
  <1>9. \A u \in Lane : ChainWellFormed(u)'
    <2> SUFFICES ASSUME NEW u \in Lane PROVE ChainWellFormed(u)'
      OBVIOUS
    <2>1. CASE u # t
      <3>1. tails[u] \in Seq(Request) /\ \A i \in DOMAIN tails[u] : tails[u][i] \in Request
        BY DEF SerialInv, SerialTypeOK
      <3>2. ChainWellFormed(u)
        BY DEF SerialInv
      <3>3. \A i \in DOMAIN tails[u] : tails[u][i] # r
        BY <2>1, <3>2 DEF ChainWellFormed
      <3> QED BY <1>3, <1>4, <2>1, <3>1, <3>2, <3>3 DEF ChainWellFormed
    <2>2. CASE u = t
      <3>1. \A i \in DOMAIN tails'[t] :
               /\ LaneOf[tails'[t][i]] = t /\ stage'[tails'[t][i]] \in Unsettled
               /\ stage'[tails'[t][i]] = "waiting"
        BY <1>2, <1>3, <1>4, <1>5, <1>6
      <3>2. \A i, j \in DOMAIN tails'[t] : tails'[t][i] = tails'[t][j] => i = j
        <4> SUFFICES ASSUME NEW i \in 1..(Len(q) - 1), NEW j \in 1..(Len(q) - 1), q[i + 1] = q[j + 1]
                     PROVE  i = j
          BY <1>2, <1>3, SMTT(30)
        <4>1. i + 1 = j + 1
          BY <1>5, <1>6
        <4> QED BY <4>1, <1>2
      <3> QED BY <2>2, <3>1, <3>2 DEF ChainWellFormed
    <2> QED BY <2>1, <2>2
  <1>10. Serial!MRelease(r)
    <2>1. \A s \in Request : LaneOf[s] # t => (First(s)' <=> First(s)) /\ stage'[s] = stage[s]
      BY <1>3, <1>4, ExecutorAssumption DEF First
    <2>2. \A s \in Request : LaneOf[s] = t => (First(s) <=> s = r)
      BY <1>1, <1>2, ChainFacts
    <2>3. r \in Runners
      BY DEF Runners
    <2>4. CASE Len(q) = 1
      <3>1. Tail(q) = <<>>
        BY <1>2, <2>4
      <3>2. \A s \in Request : LaneOf[s] = t => ~First(s)'
        BY <1>3, <3>1 DEF First
      <3>3. \A s \in Request : LaneOf[s] = t /\ stage[s] \in Unsettled => s = r
        <4> SUFFICES ASSUME NEW s \in Request, LaneOf[s] = t, stage[s] \in Unsettled PROVE s = r
          OBVIOUS
        <4>1. PICK i \in DOMAIN q : q[i] = s
          BY DEF SerialInv, Chained
        <4> QED BY <4>1, <1>2, <2>4
      <3>4. Runners' = Runners \ {r}
        BY <2>1, <2>2, <3>2 DEF Runners
      <3>5. Behind' = Behind
        BY <1>4, <2>1, <2>2, <3>2, <3>3 DEF Behind, Unsettled
      <3>6. {s \in Behind : LaneOf[s] = t} = {}
        BY <2>2, <3>3 DEF Behind, Unsettled
      <3> QED BY <2>3, <3>4, <3>5, <3>6 DEF Serial!MRelease, Serial!Waiters, Runners, Behind
    <2>5. CASE Len(q) # 1
      <3>1. 2 \in 1..Len(q) /\ 1 \in 1..(Len(q) - 1) /\ 1 + 1 = 2 /\ 1 \in DOMAIN Tail(q)
        <4>1. \A n \in Nat \ {0} : n # 1 => 2 \in 1..n /\ 1 \in 1..(n - 1) /\ 1 + 1 = 2
          OBVIOUS
        <4>2. 2 \in 1..Len(q) /\ 1 \in 1..(Len(q) - 1) /\ 1 + 1 = 2
          BY <4>1, <1>2, <2>5
        <4> QED BY <4>2, <1>2
      <3>2. PICK d \in Request : d = q[2] /\ d # r /\ LaneOf[d] = t /\ stage[d] = "waiting"
        BY <3>1, <1>5, <1>6
      <3>3. Tail(q) # <<>> /\ Head(Tail(q)) = d
        <4>1. Tail(q) # <<>>
          <5>1. DOMAIN <<>> = {}
            OBVIOUS
          <5> QED BY <3>1, <5>1
        <4>2. Head(Tail(q)) = Tail(q)[1]
          BY <4>1, <1>2, ServeFacts
        <4> QED BY <4>1, <4>2, <1>2, <3>1, <3>2
      <3>4. \A s \in Request : LaneOf[s] = t => (First(s)' <=> s = d)
        BY <1>3, <3>3 DEF First
      <3>5. Runners' = (Runners \ {r}) \cup {d}
        BY <2>1, <2>2, <3>2, <3>4 DEF Runners
      <3>6. Behind' = Behind \ {d}
        BY <1>4, <2>1, <2>2, <3>2, <3>4 DEF Behind
      <3>7. d \in Behind
        BY <2>2, <3>2 DEF Behind
      <3> QED BY <2>3, <3>2, <3>5, <3>6, <3>7 DEF Serial!MRelease, Serial!Waiters, Runners, Behind
    <2> QED BY <2>4, <2>5
  <1> QED BY <1>7, <1>8, <1>9, <1>10 DEF SerialInv

\* The first of a chain moves between its veto and its answer: the serializer
\* sees nothing.
LEMMA RunnerMovesOn ==
    ASSUME SerialInv, NEW r \in Request, First(r), stage[r] \in Unsettled, NEW s \in Unsettled,
           stage' = [stage EXCEPT ![r] = s], UNCHANGED tails
    PROVE  SerialInv' /\ Runners' = Runners /\ Behind' = Behind
  <1>1. \A q \in Request : stage'[q] = IF q = r THEN s ELSE stage[q]
    BY DEF SerialInv, SerialTypeOK
  <1>2. \A q \in Request : First(q)' <=> First(q)
    BY DEF First
  <1>3. SerialTypeOK' /\ Chained'
    BY <1>1 DEF SerialInv, SerialTypeOK, Chained
  <1>4. \A u \in Lane : ChainWellFormed(u)'
    <2> SUFFICES ASSUME NEW u \in Lane PROVE ChainWellFormed(u)'
      OBVIOUS
    <2>1. ChainWellFormed(u) /\ \A i \in DOMAIN tails[u] : tails[u][i] \in Request
      BY DEF SerialInv, SerialTypeOK
    <2>2. ASSUME NEW i \in DOMAIN tails[u], tails[u][i] = r PROVE i = 1
      <3>1. LaneOf[r] = u
        BY <2>1, <2>2 DEF ChainWellFormed
      <3>2. tails[u][1] = r /\ 1 \in DOMAIN tails[u]
        BY <3>1, ChainFacts DEF First
      <3> QED BY <2>1, <2>2, <3>2 DEF ChainWellFormed
    <2> QED BY <1>1, <2>1, <2>2 DEF ChainWellFormed
  <1> QED BY <1>1, <1>2, <1>3, <1>4 DEF SerialInv, Runners, Behind

\* Only the first of a chain is past waiting.
LEMMA PastWaitingIsFirst ==
    ASSUME SerialInv, NEW r \in Request, stage[r] \in {"veto", "submitted"}
    PROVE  First(r)
  <1>1. PICK i \in DOMAIN tails[LaneOf[r]] : tails[LaneOf[r]][i] = r
    BY DEF SerialInv, Chained, Unsettled
  <1>2. LaneOf[r] \in Lane /\ i = 1
    BY <1>1, ExecutorAssumption DEF SerialInv, ChainWellFormed
  <1> QED BY <1>1, <1>2, ChainFacts DEF First

\* Every step keeps the invariant and is a step of the serializer or a stutter.
LEMMA SerialStep ==
    ASSUME SerialInv, [ExecNext]_execVars
    PROVE  SerialInv' /\ [Serial!MNext]_Serial!mvars
  <1> DEFINE Stutters == SerialInv' /\ Runners' = Runners /\ Behind' = Behind
  <1>1. Stutters => [Serial!MNext]_Serial!mvars
    BY DEF Serial!mvars, Runners, Behind
  <1>2. ASSUME NEW r \in Request, Execute(r) PROVE SerialInv' /\ Serial!MNext
    BY <1>2, ExecuteKeepsInv DEF Serial!MNext
  <1>3. ASSUME NEW r \in Request, First(r), stage[r] \in Unsettled, NEW a, Resolve(r, a)
        PROVE  SerialInv' /\ Serial!MNext
    BY <1>3, ResolveKeepsInv DEF Serial!MNext
  <1>4. ASSUME NEW r \in Request, Start(r) PROVE Stutters \/ (SerialInv' /\ Serial!MNext)
    <2>1. First(r) /\ stage[r] \in Unsettled /\ "veto" \in Unsettled
      BY <1>4 DEF Start, Unsettled
    <2> QED BY <1>3, <1>4, <2>1, RunnerMovesOn DEF Start
  <1>5. ASSUME NEW r \in Request, NEW a, VetoAnswers(r, a) PROVE Stutters \/ (SerialInv' /\ Serial!MNext)
    <2>1. First(r) /\ stage[r] \in Unsettled /\ "submitted" \in Unsettled
      BY <1>5, PastWaitingIsFirst DEF VetoAnswers, Unsettled
    <2> QED BY <1>3, <1>5, <2>1, RunnerMovesOn DEF VetoAnswers
  <1>6. ASSUME NEW r \in Request, NEW a, DelegateAnswers(r, a) PROVE SerialInv' /\ Serial!MNext
    <2>1. First(r) /\ stage[r] \in Unsettled
      BY <1>6, PastWaitingIsFirst DEF DelegateAnswers, Unsettled
    <2> QED BY <1>3, <1>6, <2>1 DEF DelegateAnswers
  <1>7. ASSUME UNCHANGED <<tails, stage>> PROVE Stutters
    BY <1>7 DEF SerialInv, SerialTypeOK, Chained, ChainWellFormed, Runners, Behind, First
  <1> QED BY <1>1, <1>2, <1>4, <1>5, <1>6, <1>7 DEF ExecNext, Proceeds, TimerFires, execVars

\* A chain is what the serializer needs of it throughout: one runner per token,
\* the others behind it, nobody in it who has settled.
THEOREM ChainsAreWellFormed == ExecSpec => []SerialInv
  BY SerialInitInv, SerialStep, PTL DEF ExecSpec

\* The serialized executor implements the abstract per-token lock too, whatever
\* vetoes and delegates answer and however late (executor.ts:41-55, 104-126).
THEOREM ExecutorRefinement == ExecSpec => ImplementsSerial
  <1>1. ExecInit => Serial!MInit
    BY ExecutorAssumption DEF ExecInit, Serial!MInit, First
  <1>2. SerialInv /\ [ExecNext]_execVars => [Serial!MNext]_Serial!mvars
    BY SerialStep
  <1> QED
    BY <1>1, <1>2, ChainsAreWellFormed, PTL DEF ExecSpec, ImplementsSerial, Serial!MSpec
=============================================================================
