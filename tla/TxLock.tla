------------------------------- MODULE TxLock -------------------------------
(***************************************************************************)
(* The per-token transaction serializer of services/rh-execution-core.ts.  *)
(*                                                                         *)
(* inflight and queues are the two maps of the class (a missing key is     *)
(* FALSE, respectively the empty queue).  granted is the set of callers    *)
(* whose acquire() promise has resolved and whose release closure still    *)
(* has released = false.  A caller asks for one token, TokenOf[c], and is  *)
(* named by the execution it stands for.                                   *)
(***************************************************************************)
EXTENDS Sequences, Naturals

CONSTANTS Caller, Token, TokenOf

ASSUME TokenOfType == TokenOf \in [Caller -> Token]

VARIABLES inflight, queues, granted

lockVars == <<inflight, queues, granted>>

LockInit ==
    /\ inflight = [t \in Token |-> FALSE]
    /\ queues = [t \in Token |-> <<>>]
    /\ granted = {}

Queued(t) == {queues[t][i] : i \in DOMAIN queues[t]}

\* acquire(): take a free lock synchronously, otherwise join the queue.
Acquire(c) ==
    LET t == TokenOf[c] IN
    /\ c \notin granted
    /\ c \notin Queued(t)
    /\ IF ~inflight[t]
         THEN /\ inflight' = [inflight EXCEPT ![t] = TRUE]
              /\ granted' = granted \cup {c}
              /\ UNCHANGED queues
         ELSE /\ queues' = [queues EXCEPT ![t] = Append(@, c)]
              /\ UNCHANGED <<inflight, granted>>

\* Mutant: frees the lock's flag although the head of the queue now owns it.
ReleaseForgetsFlag(c) ==
    LET t == TokenOf[c] IN
    /\ c \in granted
    /\ inflight' = [inflight EXCEPT ![t] = FALSE]
    /\ IF queues[t] # <<>>
         THEN /\ granted' = (granted \ {c}) \cup {Head(queues[t])}
              /\ queues' = [queues EXCEPT ![t] = Tail(@)]
         ELSE granted' = granted \ {c} /\ UNCHANGED queues

\* Mutant: frees the lock without waking anybody.
ReleaseWakesNobody(c) ==
    /\ c \in granted
    /\ granted' = granted \ {c}
    /\ inflight' = [inflight EXCEPT ![TokenOf[c]] = FALSE]
    /\ UNCHANGED queues

\* Mutant: serves the latest waiter first.
ReleaseServesLast(c) ==
    LET t == TokenOf[c] IN
    /\ c \in granted
    /\ IF queues[t] # <<>>
         THEN /\ granted' = (granted \ {c}) \cup {queues[t][Len(queues[t])]}
              /\ queues' = [queues EXCEPT ![t] = SubSeq(@, 1, Len(@) - 1)]
              /\ UNCHANGED inflight
         ELSE /\ granted' = granted \ {c}
              /\ inflight' = [inflight EXCEPT ![t] = FALSE]
              /\ UNCHANGED queues

\* The release closure, whose released flag makes a second call a no-op: the
\* lock goes to the head of the queue while inflight stays TRUE, or is freed.
Release(c) ==
    LET t == TokenOf[c] IN
    /\ c \in granted
    /\ IF queues[t] # <<>>
         THEN /\ granted' = (granted \ {c}) \cup {Head(queues[t])}
              /\ queues' = [queues EXCEPT ![t] = Tail(@)]
              /\ UNCHANGED inflight
         ELSE /\ granted' = granted \ {c}
              /\ inflight' = [inflight EXCEPT ![t] = FALSE]
              /\ UNCHANGED queues

LockNext == \E c \in Caller : Acquire(c) \/ Release(c)

LockSpec == LockInit /\ [][LockNext]_lockVars

\* Both users of the lock release it in a finally block around awaits that end
\* by an answer or a timeout, so an owner always releases.
FairLockSpec == LockSpec /\ \A c \in Caller : WF_lockVars(Release(c))
-----------------------------------------------------------------------------
LockTypeOK ==
    /\ inflight \in [Token -> BOOLEAN]
    /\ queues \in [Token -> Seq(Caller)]
    /\ granted \in SUBSET Caller

\* No two executions ever own the lock of one token ("a lock is only ever
\* granted to one caller at a time per token").
MutualExclusion ==
    \A c, d \in granted : TokenOf[c] = TokenOf[d] => c = d

\* inflight is TRUE exactly while somebody owns the lock, also across a hand
\* over: a lost flag would let a new caller overtake or share the lock.
InflightIsOwned ==
    \A t \in Token : inflight[t] <=> \E c \in granted : TokenOf[c] = t

\* A queue holds waiters of its own token, each once, none of them an owner,
\* and only while the lock is taken: nobody waits for a free lock.
QueueWellFormed ==
    \A t \in Token :
        /\ queues[t] # <<>> => inflight[t]
        /\ \A i \in DOMAIN queues[t] :
              /\ TokenOf[queues[t][i]] = t
              /\ queues[t][i] \notin granted
        /\ \A i, j \in DOMAIN queues[t] : queues[t][i] = queues[t][j] => i = j

LockInv == LockTypeOK /\ MutualExclusion /\ InflightIsOwned /\ QueueWellFormed

\* The callers waiting in any queue: the abstract lock's set of waiters.
Waiting == UNION {Queued(t) : t \in Token}

Abstract == INSTANCE TokenMutex WITH waiting <- Waiting

\* TxLock implements the abstract per-token lock (promise of the class comment
\* and of approval-execution.ts: per-token tx serialization).
ImplementsMutex == Abstract!MSpec

\* Whoever waits is served, however many others keep coming: the queue is FIFO.
WaiterIsServed == \A c \in Caller : c \in Waiting ~> c \in granted
=============================================================================
