----------------------------- MODULE TokenMutex -----------------------------
(***************************************************************************)
(* What the per-token transaction serializer promises to its callers: a    *)
(* caller holds its token's lock or waits for it, no two callers hold the  *)
(* lock of one token, and a token somebody waits for is never left free.   *)
(* Nothing is said about which waiter comes next: TxLock chooses FIFO.     *)
(***************************************************************************)
CONSTANTS
    Caller,     \* the executions that may ask for a lock
    TokenOf     \* the token each of them trades

VARIABLES
    waiting,    \* callers whose acquire() has not resolved yet
    granted     \* callers that own the release function of their lock

mvars == <<waiting, granted>>

Holders(t) == {c \in granted : TokenOf[c] = t}
Waiters(t) == {c \in waiting : TokenOf[c] = t}

MInit == waiting = {} /\ granted = {}

\* acquire() on a free token resolves at once, on a busy one it waits.
MAcquire(c) ==
    /\ c \notin waiting \cup granted
    /\ IF Holders(TokenOf[c]) = {}
         THEN granted' = granted \cup {c} /\ UNCHANGED waiting
         ELSE waiting' = waiting \cup {c} /\ UNCHANGED granted

\* A release passes the lock to one of the waiters of the token, if any.
MRelease(c) ==
    /\ c \in granted
    /\ \/ /\ Waiters(TokenOf[c]) = {}
          /\ granted' = granted \ {c}
          /\ UNCHANGED waiting
       \/ \E d \in Waiters(TokenOf[c]) :
            /\ granted' = (granted \ {c}) \cup {d}
            /\ waiting' = waiting \ {d}

MNext == \E c \in Caller : MAcquire(c) \/ MRelease(c)

MSpec == MInit /\ [][MNext]_mvars
=============================================================================
