------------------------------ MODULE MCTxLock ------------------------------
(* The two ways the bot has of doing one thing per token at a time.         *)
(* "lock": six callers of the transaction lock, four for one token and two  *)
(* for another.  "executor": four requests to the serialized executor,      *)
(* three for one token.                                                     *)
EXTENDS TxLock, SerialExecutor

CONSTANTS c1, c2, c3, c4, c5, c6, t1, t2

VARIABLE scope

mcvars == <<lockVars, execVars, scope>>

MCTokenOf == [c \in {c1, c2, c3, c4, c5, c6} |-> IF c \in {c1, c2, c3, c4} THEN t1 ELSE t2]
MCLaneOf == [r \in Request |-> IF r = 4 THEN t2 ELSE t1]

MCInit == LockInit /\ ExecInit /\ scope \in {"lock", "executor"}

InLock == scope = "lock" /\ UNCHANGED <<execVars, scope>>
InExecutor == scope = "executor" /\ UNCHANGED <<lockVars, scope>>

MCNext == (InLock /\ LockNext) \/ (InExecutor /\ ExecNext)

\* As in FairLockSpec and ExecFairness: owners release, vetoes and delegates answer.
MCFairness ==
    /\ \A c \in Caller : WF_mcvars(InLock /\ Release(c))
    /\ \A r \in Request : WF_mcvars(InExecutor /\ Proceeds(r))

MCSpec == MCInit /\ [][MCNext]_mcvars /\ MCFairness

\* Whoever waits gets its turn: WaiterIsServed for the lock, QueueDrains for the
\* executor (rh-execution-core.ts, position/executor.ts).
EveryoneIsServed == WaiterIsServed /\ QueueDrains
=============================================================================
