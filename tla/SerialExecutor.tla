---------------------------- MODULE SerialExecutor ----------------------------
(***************************************************************************)
(* The serialized executor facade (src/position/executor.ts): one chain of *)
(* requests per token, a veto before every submission, a gate after        *)
(* MaxFails failures in a row, and withTimeout around the delegate, whose  *)
(* timer only relabels what the delegate answers.                          *)
(***************************************************************************)
EXTENDS Naturals, Sequences

CONSTANTS
    Request,     \* calls of execute
    Lane,        \* the tokens, one chain of requests each
    LaneOf,      \* the token each request trades
    MaxFails     \* maxConsecutiveFailures

ASSUME ExecutorAssumption == LaneOf \in [Request -> Lane] /\ MaxFails \in Nat \ {0}

VARIABLES
    tails,       \* token -> requests not finished yet, the running one first
    stage,       \* request -> new, waiting, veto, submitted or done
    outcome,     \* request -> what its promise settled with
    fails,       \* token -> TokenSlot.consecutiveFailures
    late         \* requests whose timer fired while they were submitted

execVars == <<tails, stage, outcome, fails, late>>

First(r) == tails[LaneOf[r]] # << >> /\ Head(tails[LaneOf[r]]) = r

ExecInit ==
    /\ tails = [t \in Lane |-> << >>]
    /\ stage = [r \in Request |-> "new"] /\ outcome = [r \in Request |-> "none"]
    /\ fails = [t \in Lane |-> 0] /\ late = {}

\* Mutant: a new request takes the head of its token's chain.
ExecuteFirst(r) ==
    /\ stage[r] = "new"
    /\ tails' = [tails EXCEPT ![LaneOf[r]] = <<r>> \o @]
    /\ stage' = [stage EXCEPT ![r] = "waiting"]
    /\ UNCHANGED <<outcome, fails, late>>

Execute(r) ==
    /\ stage[r] = "new"
    /\ tails' = [tails EXCEPT ![LaneOf[r]] = Append(@, r)]
    /\ stage' = [stage EXCEPT ![r] = "waiting"]
    /\ UNCHANGED <<outcome, fails, late>>

\* The promise settles and the chain moves on, resolved or rejected.
Resolve(r, answer) ==
    /\ tails' = [tails EXCEPT ![LaneOf[r]] = Tail(@)]
    /\ stage' = [stage EXCEPT ![r] = "done"]
    /\ outcome' = [outcome EXCEPT ![r] = answer]

\* submitSerialized begins when the tail before it has settled.
Start(r) ==
    /\ First(r) /\ stage[r] = "waiting"
    /\ IF fails[LaneOf[r]] >= MaxFails THEN Resolve(r, "gated")
       ELSE stage' = [stage EXCEPT ![r] = "veto"] /\ UNCHANGED <<tails, outcome>>
    /\ UNCHANGED <<fails, late>>

\* A veto is no failure of the token; one that throws rejects the promise.
VetoAnswers(r, answer) ==
    /\ stage[r] = "veto"
    /\ IF answer = "clear" THEN stage' = [stage EXCEPT ![r] = "submitted"] /\ UNCHANGED <<tails, outcome>>
       ELSE Resolve(r, answer)
    /\ UNCHANGED <<fails, late>>

TimerFires(r) ==
    /\ stage[r] = "submitted" /\ r \notin late
    /\ late' = late \cup {r}
    /\ UNCHANGED <<tails, stage, outcome, fails>>

\* The delegate answers; a late answer is relabelled, a throw is a failure.
DelegateAnswers(r, answer) ==
    LET label == IF answer = "threw" THEN "failed" ELSE IF r \in late THEN "timed_out" ELSE answer
    IN  /\ stage[r] = "submitted"
        /\ Resolve(r, label)
        /\ fails' = [fails EXCEPT ![LaneOf[r]] = IF label = "confirmed" THEN 0 ELSE @ + 1]
        /\ UNCHANGED late

Proceeds(r) ==
    \/ Start(r)
    \/ \E a \in {"clear", "vetoed", "threw"} : VetoAnswers(r, a)
    \/ \E a \in {"confirmed", "failed", "threw"} : DelegateAnswers(r, a)

ExecNext == \E r \in Request : Execute(r) \/ Proceeds(r) \/ TimerFires(r)

\* The veto and the delegate settle; nothing makes the timer settle anything.
ExecFairness == \A r \in Request : WF_execVars(Proceeds(r))

ExecSpec == ExecInit /\ [][ExecNext]_execVars /\ ExecFairness

-----------------------------------------------------------------------------

\* The facade serializes like the per-token transaction lock: the running
\* request owns its token, the ones behind it wait (executor.ts:41-55, 104-107).
Serial == INSTANCE TokenMutex WITH Caller <- Request, TokenOf <- LaneOf,
              granted <- {r \in Request : First(r)},
              waiting <- {r \in Request : stage[r] = "waiting" /\ ~First(r)}

\* Every step of the facade is a step of the abstract serializer or a stutter:
\* one request per token between its veto and its answer, nobody left waiting
\* on a token without a runner.
ImplementsSerial == Serial!MSpec

\* Every request settles, behind whatever failed, was vetoed, was gated or threw
\* before it, provided the veto and the delegate answer (executor.ts:45-54).
QueueDrains == \A r \in Request : stage[r] # "new" ~> stage[r] = "done"

=============================================================================
