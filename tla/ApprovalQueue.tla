--------------------------- MODULE ApprovalQueue ---------------------------
(***************************************************************************)
(* The approval ladder of services/approval-queue-service.ts: the orders   *)
(* an operator decides on, and the count of fills that opens the AUTO      *)
(* phase.  The operators below are the service's methods; each is one      *)
(* synchronous call.  status[o] is "none" before the order exists and      *)
(* "lost" when a restart did not find it in the saved state.               *)
(***************************************************************************)
EXTENDS FiniteSets, Naturals

CONSTANTS
    Order,
    MinFills    \* minApprovedFills: confirmed fills that unlock AUTO

ASSUME MinFillsType == MinFills \in Nat

VARIABLE status

OrderState == {"PENDING", "APPROVED", "CONFIRMED_FILL", "REJECTED", "FAILED"}

approvalOrderTransitions ==
    [PENDING        |-> {"APPROVED", "REJECTED"},
     APPROVED       |-> {"CONFIRMED_FILL", "FAILED"},
     CONFIRMED_FILL |-> {},
     REJECTED       |-> {},
     FAILED         |-> {}]

\* A state the store does not know has no edges: getApprovalOrder finds nothing.
CanTransition(s, t) == s \in OrderState /\ t \in approvalOrderTransitions[s]

QueueInit == status = [o \in Order |-> "none"]

Enqueue(o) ==
    /\ status[o] = "none"
    /\ status' = [status EXCEPT ![o] = "PENDING"]

\* Mutants: a button that does not look at the order's state.
ApproveUnchecked(o) ==
    /\ status[o] \in OrderState
    /\ status' = [status EXCEPT ![o] = "APPROVED"]

RejectUnchecked(o) ==
    /\ status[o] \in OrderState
    /\ status' = [status EXCEPT ![o] = "REJECTED"]

Approve(o) ==
    /\ CanTransition(status[o], "APPROVED")
    /\ status' = [status EXCEPT ![o] = "APPROVED"]

Reject(o) ==
    /\ CanTransition(status[o], "REJECTED")
    /\ status' = [status EXCEPT ![o] = "REJECTED"]

\* recordExecuted and recordFailed move an APPROVED order only, and are
\* otherwise silent: a terminal state is never downgraded.
RecordExecuted(o) ==
    status' = IF status[o] = "APPROVED"
                THEN [status EXCEPT ![o] = "CONFIRMED_FILL"] ELSE status

RecordFailed(o) ==
    status' = IF status[o] = "APPROVED"
                THEN [status EXCEPT ![o] = "FAILED"] ELSE status

\* Mutant: orders approved but not (yet) bought count as fills.
ApprovedFillsAndApproved == {o \in Order : status[o] \in {"APPROVED", "CONFIRMED_FILL"}}

ApprovedFills == {o \in Order : status[o] = "CONFIRMED_FILL"}

\* The part of canAutoExecute that the queue itself decides; the scorecard and
\* paper-regime conjuncts come from outside.
FillFloorMet == Cardinality(ApprovedFills) >= MinFills
=============================================================================
