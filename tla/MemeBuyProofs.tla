--------------------------- MODULE MemeBuyProofs ---------------------------
(***************************************************************************)
(* Proofs about MemeBuy for any orders, tokens, sizes and cap.  BuyInv is  *)
(* the inductive invariant: the properties themselves, the lock's          *)
(* invariant, and OrderInv, which ties an order's history to its state.    *)
(***************************************************************************)
EXTENDS MemeBuy, TxLockProofs, FiniteSetTheorems

Unstarted == {"idle", "deferring", "checking", "locking", "submitting"}

OrderInv ==
    \A o \in Order :
        /\ status[o] = "none" =>
              /\ o \notin posted
              /\ pc[AutoRun(o)] = "idle"
              /\ journal[AutoRun(o)] = "none"
              /\ \A d \in Saved : d.status[o] = "none" /\ d.journal[AutoRun(o)] = "none"
              /\ fate[AutoRun(o)] = "none"
        /\ journal[OpRun(o)] = "confirmed" => status[o] = "CONFIRMED_FILL"
        /\ \A d \in Saved : d.journal[OpRun(o)] = "confirmed" => d.status[o] = "CONFIRMED_FILL"
        /\ pc[AutoRun(o)] \in Busy => journal[AutoRun(o)] = "none"
        /\ pc[OpRun(o)] \in Unstarted => sent[OpRun(o)] = 0
        /\ pc[AutoRun(o)] \in {"checking", "locking", "submitting"} =>
              fate[AutoRun(o)] = "none"
        /\ pc[AutoRun(o)] \in Submitting => audit[o] = "submitted"

\* The parts of the invariant that speak of orders and their records.
RecordInv ==
    /\ OneActorPerOrder
    /\ OrderInv
    /\ FillIsBacked
    /\ SavedIsRemembered
    /\ ApprovalBuysOnce
    /\ AuditBeforeMoney

BuyInv == TypeOK /\ LockInv /\ LockOwnedByRuns /\ RecordInv
-----------------------------------------------------------------------------
\* A run is the operator's or the AUTO run of exactly one order.
LEMMA Runs ==
    /\ \A o \in Order : /\ OpRun(o) \in Caller /\ AutoRun(o) \in Caller
                        /\ OpRun(o)[1] = o /\ OpRun(o)[2] = "operator"
                        /\ AutoRun(o)[1] = o /\ AutoRun(o)[2] = "auto"
    /\ \A o, p \in Order : /\ OpRun(o) # AutoRun(p)
                           /\ OpRun(o) = OpRun(p) => o = p
                           /\ AutoRun(o) = AutoRun(p) => o = p
    /\ \A r \in Caller : r[1] \in Order /\ (r = OpRun(r[1]) \/ r = AutoRun(r[1]))
  BY BuyConstants DEF OpRun, AutoRun, Path

\* The sizer returns whole, non-negative amounts.
LEMMA SizesAreNat ==
    ASSUME NEW w \in Nat
    PROVE  Sizes(w) \subseteq Nat
  <1>1. (w + 2) \div 4 \in Nat
    OBVIOUS
  <1> QED
    BY <1>1, BuyConstants DEF Sizes

\* A step that leaves file and tools alone leaves the saved states alone.
LEMMA SavedUntouched == UNCHANGED <<disk, copies>> => Saved' = Saved
  BY DEF Saved

\* Deciding an order that was not final contradicts no saved state.
LEMMA DecidingRemembers ==
    ASSUME SavedIsRemembered, UNCHANGED <<disk, copies, journal>>,
           \A p \in Order : status'[p] = status[p] \/ status[p] \in {"none", "PENDING", "APPROVED"},
           \A r \in Caller : r[1] \in Order
    PROVE  SavedIsRemembered'
  <1>1. Saved' = Saved
    BY SavedUntouched
  <1>2. ASSUME NEW s \in Saved, NEW p \in Order, s.status[p] \in Final
        PROVE  status'[p] \in {s.status[p], "lost"}
    <2>1. status[p] \in {s.status[p], "lost"}
      BY <1>2 DEF SavedIsRemembered
    <2> QED BY <1>2, <2>1 DEF Final
  <1>3. ASSUME NEW s \in Saved, NEW r \in Caller, s.journal[r] = "confirmed"
        PROVE  journal'[r] = "confirmed" \/ status'[r[1]] = "lost"
    <2>1. journal[r] = "confirmed" \/ status[r[1]] = "lost"
      BY <1>3 DEF SavedIsRemembered
    <2> QED BY <2>1
  <1> QED BY <1>1, <1>2, <1>3 DEF SavedIsRemembered

\* A step that leaves the lock alone leaves its invariant and waiters alone.
LEMMA LockUntouched ==
    ASSUME LockInv, UNCHANGED lockVars
    PROVE  LockInv' /\ Waiting' = Waiting /\ granted' = granted
  BY DEF lockVars, LockInv, LockTypeOK, MutualExclusion, InflightIsOwned,
         QueueWellFormed, Waiting, Queued

\* acquire() makes the caller an owner or a waiter and disturbs nobody else.
LEMMA AcquireAdds ==
    ASSUME LockInv, NEW r \in Caller, Acquire(r)
    PROVE  /\ LockInv'
           /\ r \notin granted \cup Waiting
           /\ \/ granted' = granted \cup {r} /\ Waiting' = Waiting
              \/ granted' = granted /\ Waiting' = Waiting \cup {r}
  BY AcquireKeepsInv, AcquireRefines, WaitingInOwnQueue DEF Acquire,
                                                            Abstract!MAcquire

\* A release makes at most one waiter an owner and disturbs nobody else.
LEMMA ReleasePasses ==
    ASSUME LockInv, NEW r \in Caller, Release(r)
    PROVE  /\ LockInv'
           /\ r \in granted
           /\ \/ granted' = granted \ {r} /\ Waiting' = Waiting
              \/ \E d \in Waiting : /\ granted' = (granted \ {r}) \cup {d}
                                    /\ Waiting' = Waiting \ {d}
  BY ReleaseKeepsInv, ReleaseRefines DEF Release, Abstract!MRelease,
                                         Abstract!Waiters

\* A new order is PENDING, has no card and no operator's run.
LEMMA SignalKeeps ==
    ASSUME BuyInv, NEW o \in Order, Signal(o)
    PROVE  BuyInv'
  <1> USE SavedUntouched DEF BuyInv
  <1>1. PICK s \in {"posting", "done", "checking"} :
           /\ pc' = [pc EXCEPT ![AutoRun(o)] = s]
           /\ audit' \in {audit, [audit EXCEPT ![o] = "planned"]}
    BY DEF Signal
  <1>2. /\ status[o] = "none"
        /\ status' = [status EXCEPT ![o] = "PENDING"]
        /\ UNCHANGED <<lockVars, usd, sent, sentUsd, fate, spent, journal, posted,
                       disk, copies, dryRun, crashes>>
    BY DEF Signal, Enqueue
  <1>3. pc[AutoRun(o)] = "idle"
    BY <1>2 DEF RecordInv, OrderInv
  <1>4. LockInv' /\ Waiting' = Waiting /\ granted' = granted
    BY <1>2, LockUntouched
  <1>5. TypeOK'
    BY <1>1, <1>2, <1>4, Runs DEF TypeOK, OrderState, PC, Lifecycle, LockInv
  <1>6. LockOwnedByRuns'
    BY <1>1, <1>3, <1>4, Runs DEF TypeOK, LockOwnedByRuns, Submitting
  <1>7. RecordInv'
    <2>1. /\ status' \in [Order -> OrderState \cup {"none", "lost"}]
          /\ status'[o] = "PENDING" /\ \A p \in Order \ {o} : status'[p] = status[p]
          /\ pc'[AutoRun(o)] = s
          /\ \A q \in Caller \ {AutoRun(o)} : pc'[q] = pc[q]
          /\ audit'[o] \in {audit[o], "planned"}
          /\ \A p \in Order \ {o} : audit'[p] = audit[p]
      BY <1>1, <1>2, <1>5, Runs DEF TypeOK
    <2>2. /\ o \notin posted /\ fate[AutoRun(o)] = "none" /\ journal[AutoRun(o)] = "none"
          /\ \A d \in Saved : d.status[o] = "none" /\ d.journal[AutoRun(o)] = "none"
      BY <1>2 DEF RecordInv, OrderInv
    <2>3. OneActorPerOrder'
      BY <1>2, <2>1, <2>2, Runs DEF RecordInv, OneActorPerOrder
    <2>4. OrderInv'
      BY <1>2, <2>1, Runs DEF RecordInv, OrderInv, Submitting
    <2>5. FillIsBacked' /\ SavedIsRemembered' /\ ApprovalBuysOnce'
      BY <1>2, <2>1 DEF RecordInv, FillIsBacked, SavedIsRemembered, Final,
                        ApprovalBuysOnce
    <2>6. AuditBeforeMoney'
      BY <1>2, <2>1, <2>2 DEF RecordInv, AuditBeforeMoney
    <2> QED
      BY <2>3, <2>4, <2>5, <2>6 DEF RecordInv
  <1> QED
    BY <1>4, <1>5, <1>6, <1>7

\* A re-fed order is like a new one whose AUTO run is over.
LEMMA RefeedKeeps ==
    ASSUME BuyInv, NEW o \in Order, Refeed(o)
    PROVE  BuyInv'
  <1> USE SavedUntouched DEF BuyInv
  <1>1. LockInv'
    BY LockUntouched DEF Refeed, Enqueue, runVars
  <1>2. TypeOK'
    BY <1>1 DEF Refeed, Enqueue, TypeOK, OrderState, PC, LockInv
  <1>3. LockOwnedByRuns'
    <2>1. Waiting' = Waiting /\ granted' = granted
      BY LockUntouched DEF Refeed
    <2>2. /\ pc[AutoRun(o)] = "idle"
          /\ pc' = [pc EXCEPT ![AutoRun(o)] = "done"]
      BY DEF Refeed, Enqueue, RecordInv, OrderInv
    <2> QED
      BY <2>1, <2>2, Runs DEF LockOwnedByRuns, TypeOK, Submitting
  <1>4. OneActorPerOrder'
    BY Runs DEF Refeed, Enqueue, RecordInv, OneActorPerOrder, OrderInv, TypeOK
  <1>5. OrderInv'
    BY Runs DEF Refeed, Enqueue, RecordInv, OrderInv, Submitting, TypeOK
  <1>6. FillIsBacked'
    BY Runs DEF Refeed, Enqueue, RecordInv, FillIsBacked
  <1>7. SavedIsRemembered'
    BY Runs DEF Refeed, Enqueue, RecordInv, SavedIsRemembered, Final, TypeOK
  <1>8. ApprovalBuysOnce' /\ AuditBeforeMoney'
    BY DEF Refeed, RecordInv, ApprovalBuysOnce, AuditBeforeMoney
  <1> QED
    BY <1>1, <1>2, <1>3, <1>4, <1>5, <1>6, <1>7, <1>8 DEF RecordInv

\* The card goes out when the AUTO run has ended.
LEMMA PostCardKeeps ==
    ASSUME BuyInv, NEW o \in Order, PostCard(o)
    PROVE  BuyInv'
  <1> USE SavedUntouched DEF BuyInv
  <1>1. LockInv'
    BY LockUntouched DEF PostCard, runVars
  <1>2. TypeOK'
    BY <1>1, Runs DEF PostCard, TypeOK, PC, LockInv
  <1>3. LockOwnedByRuns'
    BY LockUntouched DEF PostCard, LockOwnedByRuns, Submitting
  <1>4. OneActorPerOrder'
    BY Runs DEF PostCard, RecordInv, OneActorPerOrder, Busy, Submitting, TypeOK
  <1>5. OrderInv'
    BY Runs DEF PostCard, RecordInv, OrderInv, Busy, Submitting
  <1>6. /\ FillIsBacked' /\ SavedIsRemembered'
        /\ ApprovalBuysOnce' /\ AuditBeforeMoney'
    BY DEF PostCard, RecordInv, FillIsBacked, SavedIsRemembered,
           ApprovalBuysOnce, AuditBeforeMoney
  <1> QED
    BY <1>1, <1>2, <1>3, <1>4, <1>5, <1>6 DEF RecordInv

\* Only a PENDING order is approved, so its operator run is a new one.
LEMMA ApproveClickKeeps ==
    ASSUME BuyInv, NEW o \in Order, ApproveClick(o)
    PROVE  BuyInv'
  <1> USE SavedUntouched DEF BuyInv
  <1>1. LockInv'
    BY LockUntouched DEF ApproveClick
  <1>2. TypeOK'
    BY <1>1 DEF ApproveClick, Approve, OrderState, TypeOK, PC, LockInv
  <1>3. LockOwnedByRuns'
    <2>1. Waiting' = Waiting /\ granted' = granted
      BY LockUntouched DEF ApproveClick
    <2>2. /\ pc[OpRun(o)] = "idle"
          /\ pc' = [pc EXCEPT ![OpRun(o)] = "deferring"]
      BY Runs DEF ApproveClick, Approve, CanTransition, OrderState,
                  approvalOrderTransitions, RecordInv, OneActorPerOrder
    <2> QED
      BY <2>1, <2>2, Runs DEF LockOwnedByRuns, TypeOK, Submitting
  <1>4. OneActorPerOrder'
    BY Runs DEF ApproveClick, Approve, RecordInv, OneActorPerOrder, TypeOK
  <1>5. OrderInv'
    BY Runs DEF ApproveClick, Approve, CanTransition, approvalOrderTransitions,
                OrderState, RecordInv, OneActorPerOrder, OrderInv, Unstarted
  <1>6. FillIsBacked'
    BY Runs DEF ApproveClick, Approve, RecordInv, FillIsBacked
  <1>7. SavedIsRemembered'
    <2>1. \A p \in Order : status'[p] = status[p] \/ status[p] = "PENDING"
      BY DEF ApproveClick, Approve, CanTransition, approvalOrderTransitions, TypeOK, OrderState
    <2> QED BY <2>1, Runs, DecidingRemembers DEF ApproveClick, RecordInv
  <1>8. ApprovalBuysOnce' /\ AuditBeforeMoney'
    BY DEF ApproveClick, RecordInv, ApprovalBuysOnce, AuditBeforeMoney
  <1> QED
    BY <1>1, <1>2, <1>3, <1>4, <1>5, <1>6, <1>7, <1>8 DEF RecordInv

\* Only a PENDING order is rejected, so no run loses its order.
LEMMA CancelClickKeeps ==
    ASSUME BuyInv, NEW o \in Order, CancelClick(o)
    PROVE  BuyInv'
  <1> USE SavedUntouched DEF BuyInv
  <1>1. LockInv'
    BY LockUntouched DEF CancelClick
  <1>2. TypeOK'
    BY <1>1 DEF CancelClick, Reject, OrderState, runVars, TypeOK, LockInv
  <1>3. LockOwnedByRuns'
    BY LockUntouched DEF CancelClick, runVars, LockOwnedByRuns
  <1>4. OneActorPerOrder'
    BY Runs DEF CancelClick, Reject, CanTransition, approvalOrderTransitions,
                runVars, RecordInv, OneActorPerOrder
  <1>5. OrderInv'
    BY Runs DEF CancelClick, Reject, CanTransition, approvalOrderTransitions,
                runVars, RecordInv, OrderInv
  <1>6. FillIsBacked'
    BY Runs DEF CancelClick, Reject, RecordInv, FillIsBacked
  <1>7. SavedIsRemembered'
    <2>1. \A p \in Order : status'[p] = status[p] \/ status[p] \in {"PENDING", "APPROVED"}
      BY DEF CancelClick, Reject, CanTransition, approvalOrderTransitions, TypeOK, OrderState
    <2> QED BY <2>1, Runs, DecidingRemembers DEF CancelClick, RecordInv
  <1>8. ApprovalBuysOnce' /\ AuditBeforeMoney'
    BY DEF CancelClick, runVars, RecordInv, ApprovalBuysOnce, AuditBeforeMoney
  <1> QED
    BY <1>1, <1>2, <1>3, <1>4, <1>5, <1>6, <1>7, <1>8 DEF RecordInv

\* After the deferred reply the run goes to the gates or ends.
LEMMA DeferredKeeps ==
    ASSUME BuyInv, NEW o \in Order, Deferred(o)
    PROVE  BuyInv'
  <1> USE SavedUntouched DEF BuyInv
  <1>1. LockInv'
    BY LockUntouched DEF Deferred, runVars
  <1>2. TypeOK'
    <2>1. pc' \in [Caller -> PC]
      BY Runs DEF Deferred, TypeOK, PC
    <2> QED
      BY <1>1, <2>1 DEF Deferred, TypeOK, LockInv
  <1>3. LockOwnedByRuns'
    BY LockUntouched DEF Deferred, TypeOK, LockOwnedByRuns, Submitting
  <1>4. OneActorPerOrder'
    BY Runs DEF Deferred, RecordInv, OneActorPerOrder, TypeOK
  <1>5. OrderInv'
    BY Runs DEF Deferred, RecordInv, OrderInv, Unstarted, TypeOK
  <1>6. /\ FillIsBacked' /\ SavedIsRemembered'
        /\ ApprovalBuysOnce' /\ AuditBeforeMoney'
    BY DEF Deferred, RecordInv, FillIsBacked, SavedIsRemembered,
           ApprovalBuysOnce, AuditBeforeMoney
  <1> QED
    BY <1>1, <1>2, <1>3, <1>4, <1>5, <1>6 DEF RecordInv

\* A refused run records the refusal, tells its caller and owns no lock.
LEMMA RefusalKeeps ==
    ASSUME BuyInv, NEW r \in Caller,
           pc[r] = "checking", Record(r, "rejected"), Settle(r, FALSE), spent' \in Nat,
           UNCHANGED <<lockVars, usd, sent, sentUsd, fate, journal, posted, disk, copies,
                       dryRun, crashes>>
    PROVE  BuyInv'
  <1> USE SavedUntouched DEF BuyInv
  <1>1. LockInv'
    BY LockUntouched
  <1>2. TypeOK'
    BY <1>1, Runs DEF Settle, Record, RecordFailed, TypeOK, OrderState, PC,
                      Lifecycle, LockInv
  <1>3. LockOwnedByRuns'
    BY LockUntouched DEF Settle, LockOwnedByRuns, Submitting
  <1>4. OneActorPerOrder'
    BY Runs DEF Settle, RecordFailed, RecordInv, OneActorPerOrder, OrderInv,
                Unstarted, Busy, Submitting, TypeOK, PC, Lifecycle
  <1>5. OrderInv'
    BY Runs DEF Settle, Record, RecordFailed, RecordInv, OrderInv, Unstarted,
                Busy, Submitting, TypeOK
  <1>6. FillIsBacked'
    BY Runs DEF Settle, RecordFailed, RecordInv, FillIsBacked, TypeOK
  <1>7. SavedIsRemembered'
    BY Runs DEF Settle, RecordFailed, RecordInv, SavedIsRemembered, Final, TypeOK
  <1>8. AuditBeforeMoney'
    BY Runs DEF Record, RecordInv, OrderInv, AuditBeforeMoney, TypeOK
  <1>9. ApprovalBuysOnce'
    BY DEF RecordInv, ApprovalBuysOnce
  <1> QED
    BY <1>1, <1>2, <1>3, <1>4, <1>5, <1>6, <1>7, <1>8, <1>9 DEF RecordInv

\* A gate before the cost gate says no.
LEMMA RefuseKeeps ==
    ASSUME BuyInv, NEW r \in Caller, Refuse(r)
    PROVE  BuyInv'
  BY RefusalKeeps DEF Refuse, BuyInv, TypeOK

\* Governance says no after the charge.
LEMMA RefuseChargedKeeps ==
    ASSUME BuyInv, NEW r \in Caller, RefuseCharged(r)
    PROVE  BuyInv'
  <1>1. PICK u \in Sizes(Want[r[1]]) : spent' = spent + u
    BY DEF RefuseCharged, TrySpend
  <1>2. spent' \in Nat
    BY <1>1, BuyConstants, Runs, SizesAreNat DEF BuyInv, TypeOK
  <1> QED
    BY <1>2, RefusalKeeps DEF RefuseCharged

\* The run that owns the lock announces its submission.
LEMMA ResumeKeeps ==
    ASSUME BuyInv, NEW r \in Caller, Resume(r)
    PROVE  BuyInv'
  <1> USE SavedUntouched DEF BuyInv
  <1>1. LockInv'
    BY LockUntouched DEF Resume, Record
  <1>2. TypeOK'
    BY <1>1 DEF Resume, Record, TypeOK, PC, Lifecycle, LockInv
  <1>3. LockOwnedByRuns'
    <2>1. Waiting' = Waiting /\ granted' = granted
      BY LockUntouched DEF Resume
    <2>2. /\ pc[r] = "locking" /\ r \in granted
          /\ pc' = [pc EXCEPT ![r] = "submitting"]
      BY DEF Resume
    <2>3. r \notin Waiting
      BY <2>2 DEF LockInv, QueueWellFormed, Waiting, Queued
    <2>4. pc'[r] = "submitting" /\ \A q \in Caller \ {r} : pc'[q] = pc[q]
      BY <2>2 DEF TypeOK
    <2> QED
      BY <2>1, <2>2, <2>3, <2>4 DEF LockOwnedByRuns, Submitting
  <1>4. OneActorPerOrder'
    BY Runs DEF Resume, RecordInv, OneActorPerOrder, Busy
  <1>5. OrderInv'
    BY Runs DEF Resume, Record, RecordInv, OrderInv, Unstarted, Busy, TypeOK
  <1>6. AuditBeforeMoney'
    BY Runs DEF Resume, Record, RecordInv, AuditBeforeMoney
  <1>7. FillIsBacked' /\ SavedIsRemembered' /\ ApprovalBuysOnce'
    BY DEF Resume, RecordInv, FillIsBacked, SavedIsRemembered,
           ApprovalBuysOnce
  <1> QED
    BY <1>1, <1>2, <1>3, <1>4, <1>5, <1>6, <1>7 DEF RecordInv

\* The first and only transaction of a run, announced before.
LEMMA BroadcastKeeps ==
    ASSUME BuyInv, NEW r \in Caller, Broadcast(r)
    PROVE  BuyInv'
  <1> USE SavedUntouched DEF BuyInv
  <1>1. LockInv'
    BY LockUntouched DEF Broadcast
  <1>2. TypeOK'
    BY <1>1 DEF Broadcast, TypeOK, PC, LockInv
  <1>3. LockOwnedByRuns'
    BY LockUntouched DEF Broadcast, LockOwnedByRuns, Submitting
  <1>4. OneActorPerOrder'
    BY Runs DEF Broadcast, RecordInv, OneActorPerOrder, Busy, Submitting
  <1>5. OrderInv'
    BY Runs DEF Broadcast, RecordInv, OrderInv, Unstarted, Busy, Submitting,
                TypeOK
  <1>6. ApprovalBuysOnce'
    BY Runs DEF Broadcast, RecordInv, OrderInv, ApprovalBuysOnce, Unstarted
  <1>7. AuditBeforeMoney'
    BY Runs DEF Broadcast, RecordInv, OrderInv, AuditBeforeMoney, Submitting
  <1>8. FillIsBacked' /\ SavedIsRemembered'
    BY DEF Broadcast, RecordInv, FillIsBacked, SavedIsRemembered
  <1> QED
    BY <1>1, <1>2, <1>3, <1>4, <1>5, <1>6, <1>7, <1>8 DEF RecordInv

\* A run that passed the gates owns the lock or waits for it.
LEMMA PassGatesKeeps ==
    ASSUME BuyInv, NEW r \in Caller, PassGates(r)
    PROVE  BuyInv'
  <1> USE SavedUntouched DEF BuyInv
  <1>1. LockInv'
    BY AcquireAdds DEF PassGates, TrySpend, Record
  <1>2. TypeOK'
    <2>1. PICK u \in Sizes(Want[r[1]]) :
             spent' = spent + u /\ usd' = [usd EXCEPT ![r] = u]
      BY DEF PassGates, TrySpend
    <2>2. u \in Nat
      BY <2>1, BuyConstants, Runs, SizesAreNat
    <2> QED
      BY <1>1, <2>1, <2>2, Runs DEF PassGates, Record, TypeOK, PC, Lifecycle,
                                    LockInv
  <1>3. LockOwnedByRuns'
    BY AcquireAdds DEF PassGates, TypeOK, LockOwnedByRuns, Submitting
  <1>4. OneActorPerOrder'
    BY Runs DEF PassGates, RecordInv, OneActorPerOrder, Busy
  <1>5. OrderInv'
    BY Runs DEF PassGates, Record, RecordInv, OrderInv, Unstarted, Busy,
                Submitting
  <1>6. AuditBeforeMoney'
    BY Runs DEF PassGates, Record, RecordInv, OrderInv, AuditBeforeMoney
  <1>7. FillIsBacked' /\ SavedIsRemembered' /\ ApprovalBuysOnce'
    BY DEF PassGates, RecordInv, FillIsBacked, SavedIsRemembered,
           ApprovalBuysOnce
  <1> QED
    BY <1>1, <1>2, <1>3, <1>4, <1>5, <1>6, <1>7 DEF RecordInv

\* submit() returns, whatever it says and whatever the chain did.
LEMMA ReturnKeeps ==
    ASSUME BuyInv, NEW r \in Caller, NEW ok \in BOOLEAN,
           pc[r] \in Submitting, Return(r, ok),
           \/ fate' = fate
           \/ pc[r] = "sent" /\ fate' = [fate EXCEPT ![r] = "landed"]
    PROVE  BuyInv'
  <1> USE SavedUntouched DEF BuyInv
  <1>1. LockInv'
    BY ReleasePasses DEF Return
  <1>2. TypeOK'
    <2>1. /\ status' \in [Order -> OrderState \cup {"none", "lost"}]
          /\ pc' \in [Caller -> PC]
      BY Runs DEF Return, Settle, RecordExecuted, RecordFailed, TypeOK,
                  OrderState, PC
    <2>2. /\ journal' \in [Caller -> Lifecycle \cup {"none"}]
          /\ audit' \in [Order -> Lifecycle \cup {"none"}]
      BY Runs DEF Return, Record, TypeOK, Lifecycle
    <2>3. fate' \in [Caller -> {"none", "broadcast", "landed"}]
      BY DEF TypeOK
    <2> QED
      BY <1>1, <2>1, <2>2, <2>3 DEF Return, TypeOK, LockInv
  <1>3. LockOwnedByRuns'
    BY ReleasePasses DEF Return, Settle, TypeOK, LockOwnedByRuns, Submitting
  <1>4. OneActorPerOrder'
    BY Runs DEF Return, Settle, RecordExecuted, RecordFailed, RecordInv,
                OneActorPerOrder, Busy, Submitting, TypeOK
  <1>5. OrderInv'
    BY Runs DEF Return, Settle, Record, RecordExecuted, RecordFailed, RecordInv,
                OneActorPerOrder, OrderInv, Unstarted, Busy, Submitting, TypeOK
  <1>6. FillIsBacked'
    BY Runs DEF Return, Settle, RecordExecuted, RecordFailed, RecordInv,
                OneActorPerOrder, FillIsBacked, Busy, TypeOK
  <1>7. SavedIsRemembered'
    <2>1. /\ status[r[1]] = "APPROVED" \/ r = AutoRun(r[1])
          /\ status[r[1]] \in {"PENDING", "APPROVED"} /\ journal[r] # "confirmed"
      BY Runs DEF RecordInv, OneActorPerOrder, OrderInv, Busy
    <2>2. \A s \in Saved : s.journal[r] # "confirmed"
      BY <2>1 DEF RecordInv, SavedIsRemembered
    <2>4. \A o \in Order : status[o] # "APPROVED" => status'[o] = status[o]
      BY DEF Return, Settle, RecordExecuted, RecordFailed, TypeOK
    <2>3. \A q \in Caller \ {r} : journal'[q] = journal[q]
      BY DEF Return, Record, TypeOK
    <2>5. Saved' = Saved
      BY DEF Return
    <2>6. ASSUME NEW s \in Saved, NEW q \in Caller, s.journal[q] = "confirmed"
          PROVE  journal'[q] = "confirmed" \/ status'[q[1]] = "lost"
      <3>1. q # r /\ (journal[q] = "confirmed" \/ status[q[1]] = "lost")
        BY <2>2, <2>6 DEF RecordInv, SavedIsRemembered
      <3> QED BY <2>3, <2>4, <3>1, Runs
    <2>7. ASSUME NEW s \in Saved, NEW o \in Order, s.status[o] \in Final
          PROVE  status'[o] \in {s.status[o], "lost"}
      <3>1. status[o] \in {s.status[o], "lost"}
        BY <2>7 DEF RecordInv, SavedIsRemembered
      <3> QED BY <2>4, <2>7, <3>1 DEF Final
    <2> QED
      BY <2>5, <2>6, <2>7 DEF SavedIsRemembered
  <1>8. AuditBeforeMoney'
    BY Runs DEF Return, Record, RecordInv, AuditBeforeMoney, TypeOK
  <1>9. ApprovalBuysOnce'
    BY DEF Return, RecordInv, ApprovalBuysOnce
  <1> QED
    BY <1>1, <1>2, <1>3, <1>4, <1>5, <1>6, <1>7, <1>8, <1>9 DEF RecordInv

\* submit() returns without a transaction.
LEMMA ReturnUnsentKeeps ==
    ASSUME BuyInv, NEW r \in Caller, ReturnUnsent(r)
    PROVE  BuyInv'
  BY ReturnKeeps DEF ReturnUnsent, BuyInv, TypeOK, Submitting

\* submit() returns after a transaction.
LEMMA ReturnSentKeeps ==
    ASSUME BuyInv, NEW r \in Caller, ReturnSent(r)
    PROVE  BuyInv'
  BY ReturnKeeps DEF ReturnSent, Submitting

\* Memory, the file, what tools hold and what a failed load gives are saved states;
\* a save of one of them adds no other.
LEMMA SaveAnyKeeps ==
    ASSUME BuyInv, disk' \in SavedState, copies' \in SUBSET (ConfigCall \X SavedState),
           Saved' \subseteq Saved \cup {Empty, [status |-> status, journal |-> journal]},
           UNCHANGED <<lockVars, status, runVars, spent, journal, posted, dryRun, crashes>>
    PROVE  BuyInv'
  <1> USE DEF BuyInv
  <1>1. LockInv'
    BY LockUntouched
  <1>2. TypeOK'
    BY <1>1 DEF runVars, TypeOK, LockInv
  <1>3. LockOwnedByRuns'
    BY LockUntouched DEF runVars, LockOwnedByRuns
  <1> DEFINE memory == [status |-> status, journal |-> journal]
  <1>4. memory.status = status /\ memory.journal = journal
    OBVIOUS
  <1> HIDE DEF memory
  <1>5. \A d \in Saved' : d \in Saved \/ d = memory \/ d = Empty
    BY DEF memory
  <1>10. /\ \A o \in Order : Empty.status[o] = "none"
         /\ \A r \in Caller : Empty.journal[r] = "none"
    BY DEF Empty
  <1>6. OrderInv'
    BY <1>4, <1>5, <1>10, Runs DEF runVars, RecordInv, OrderInv
  <1>7. FillIsBacked'
    BY <1>4, <1>5, <1>10, Runs DEF RecordInv, FillIsBacked
  <1>8. SavedIsRemembered'
    BY <1>4, <1>5, <1>10, Runs DEF RecordInv, SavedIsRemembered, Final
  <1>9. OneActorPerOrder' /\ ApprovalBuysOnce' /\ AuditBeforeMoney'
    BY DEF runVars, RecordInv, OneActorPerOrder, ApprovalBuysOnce,
           AuditBeforeMoney
  <1> QED
    BY <1>1, <1>2, <1>3, <1>6, <1>7, <1>8, <1>9 DEF RecordInv

\* The state file takes over what memory holds, orders and journal together.
LEMMA SaveKeeps ==
    ASSUME BuyInv, Save
    PROVE  BuyInv'
  <1>1. disk' \in SavedState
    BY DEF Save, SavedState, BuyInv, TypeOK
  <1>2. Saved' \subseteq Saved \cup {Empty, [status |-> status, journal |-> journal]}
    BY DEF Save, Saved
  <1> QED
    BY <1>1, <1>2, SaveAnyKeeps DEF Save, BuyInv, TypeOK

\* A configuration tool's store loads the file and writes it back later.
LEMMA ConfigKeeps ==
    ASSUME BuyInv, NEW k \in ConfigCall, ConfigLoads(k) \/ ConfigSaves(k)
    PROVE  BuyInv'
  <1>1. LoadFromDisk \subseteq SavedState
    BY DEF LoadFromDisk, Empty, SavedState, BuyInv, TypeOK
  <1>2. /\ disk' \in SavedState /\ copies' \in SUBSET (ConfigCall \X SavedState)
        /\ Saved' \subseteq Saved \cup {Empty}
    <2>1. CASE ConfigLoads(k)
      <3>1. PICK d \in LoadFromDisk : copies' = copies \cup {<<k, d>>} /\ disk' = disk
        BY <2>1 DEF ConfigLoads
      <3>2. d \in SavedState /\ (d = disk \/ d = Empty)
        BY <1>1 DEF LoadFromDisk
      <3> QED BY <3>1, <3>2 DEF Saved, BuyInv, TypeOK
    <2>2. CASE ConfigSaves(k)
      BY <2>2 DEF ConfigSaves, Saved, BuyInv, TypeOK
    <2> QED BY <2>1, <2>2
  <1> QED
    BY <1>2, SaveAnyKeeps DEF ConfigLoads, ConfigSaves

\* After a restart no run lives, the lock is free and memory is the state file, or empty.
LEMMA RestartKeeps ==
    ASSUME BuyInv, Restart
    PROVE  BuyInv'
  <1> USE DEF BuyInv
  <1>1. LockInit'
    BY DEF Restart, LockInit
  <1>2. LockInv' /\ Waiting' = {} /\ granted' = {}
    BY <1>1 DEF LockInit, LockInv, LockTypeOK, MutualExclusion, InflightIsOwned,
                QueueWellFormed, Waiting, Queued
  <1> PICK d \in LoadFromDisk :
          /\ status' = [o \in Order |-> IF status[o] # "none" /\ d.status[o] = "none" THEN "lost" ELSE d.status[o]]
          /\ journal' = d.journal
    BY DEF Restart
  <1>7. d \in SavedState
    BY DEF LoadFromDisk, Empty, SavedState, TypeOK
  <1>3. TypeOK'
    <2>1. status' \in [Order -> OrderState \cup {"none", "lost"}] /\ journal' \in [Caller -> Lifecycle \cup {"none"}]
      BY <1>7 DEF SavedState
    <2> QED BY <1>2, <2>1, BuyConstants DEF Restart, TypeOK, PC, LockInv
  <1>4. LockOwnedByRuns'
    BY <1>2 DEF Restart, LockOwnedByRuns, Submitting
  <1>5. /\ pc' = [r \in Caller |-> "idle"] /\ sent' = [r \in Caller |-> 0]
        /\ UNCHANGED <<disk, fate, audit, posted>> /\ Saved' = {disk} /\ disk \in Saved
        /\ \A o \in Order : status'[o] = IF status[o] # "none" /\ d.status[o] = "none"
                                         THEN "lost" ELSE d.status[o]
    BY DEF Restart, Saved
  <1>8. \/ d = disk
        \/ (\A o \in Order : d.status[o] = "none") /\ (\A r \in Caller : d.journal[r] = "none")
    BY DEF LoadFromDisk, Empty
  <1>6. RecordInv'
    BY <1>5, <1>8, Runs DEF RecordInv, OneActorPerOrder, OrderInv, FillIsBacked,
                      SavedIsRemembered, ApprovalBuysOnce, AuditBeforeMoney,
                      Busy, Submitting, Final
  <1> QED
    BY <1>2, <1>3, <1>4, <1>6

\* The invariant holds when the program starts.
LEMMA InitInv == Init => BuyInv
  <1> SUFFICES ASSUME Init PROVE BuyInv
    OBVIOUS
  <1>1. LockInv /\ Waiting = {} /\ granted = {}
    BY DEF Init, LockInit, LockInv, LockTypeOK, MutualExclusion,
           InflightIsOwned, QueueWellFormed, Waiting, Queued
  <1>2. TypeOK
    BY <1>1, BuyConstants DEF Init, QueueInit, TypeOK, SavedState, PC, LockInv
  <1>3. LockOwnedByRuns
    BY <1>1 DEF Init, LockOwnedByRuns, Submitting
  <1>4. RecordInv
    BY Runs DEF Init, Saved, QueueInit, RecordInv, OneActorPerOrder, OrderInv,
                FillIsBacked, SavedIsRemembered, ApprovalBuysOnce,
                AuditBeforeMoney, Busy, Submitting
  <1> QED
    BY <1>1, <1>2, <1>3, <1>4 DEF BuyInv

\* A step that changes nothing keeps the invariant.
LEMMA StutterKeeps ==
    ASSUME BuyInv, UNCHANGED vars
    PROVE  BuyInv'
  <1> USE SavedUntouched DEF BuyInv, vars, runVars
  <1>1. LockInv' /\ Waiting' = Waiting /\ granted' = granted
    BY LockUntouched
  <1>2. TypeOK'
    BY <1>1 DEF TypeOK, LockInv
  <1>3. LockOwnedByRuns'
    BY <1>1 DEF LockOwnedByRuns
  <1>4. RecordInv'
    BY DEF RecordInv, OneActorPerOrder, OrderInv, FillIsBacked,
           SavedIsRemembered, ApprovalBuysOnce, AuditBeforeMoney
  <1> QED
    BY <1>1, <1>2, <1>3, <1>4

\* Every step keeps the invariant: one case per action.
LEMMA NextKeeps == BuyInv /\ [Next]_vars => BuyInv'
  <1> SUFFICES ASSUME BuyInv, [Next]_vars PROVE BuyInv'
    OBVIOUS
  <1>1. ASSUME NEW o \in Order, Signal(o) PROVE BuyInv'
    BY <1>1, SignalKeeps
  <1>2. ASSUME NEW o \in Order, Refeed(o) PROVE BuyInv'
    BY <1>2, RefeedKeeps
  <1>3. ASSUME NEW o \in Order, PostCard(o) PROVE BuyInv'
    BY <1>3, PostCardKeeps
  <1>4. ASSUME NEW o \in Order, ApproveClick(o) PROVE BuyInv'
    BY <1>4, ApproveClickKeeps
  <1>5. ASSUME NEW o \in Order, CancelClick(o) PROVE BuyInv'
    BY <1>5, CancelClickKeeps
  <1>6. ASSUME NEW o \in Order, Deferred(o) PROVE BuyInv'
    BY <1>6, DeferredKeeps
  <1>7. ASSUME NEW r \in Caller, RunStep(r) PROVE BuyInv'
    BY <1>7, RefuseKeeps, PassGatesKeeps, RefuseChargedKeeps, ResumeKeeps,
       BroadcastKeeps, ReturnUnsentKeeps, ReturnSentKeeps DEF RunStep
  <1>8. CASE Save
    BY <1>8, SaveKeeps
  <1>9. ASSUME NEW k \in ConfigCall, ConfigLoads(k) \/ ConfigSaves(k) PROVE BuyInv'
    BY <1>9, ConfigKeeps
  <1>10. CASE Restart
    BY <1>10, RestartKeeps
  <1>11. CASE UNCHANGED vars
    BY <1>11, StutterKeeps
  <1> QED
    BY <1>1, <1>2, <1>3, <1>4, <1>5, <1>6, <1>7, <1>8, <1>9, <1>10, <1>11 DEF Next

\* The invariant of everything that can buy, whatever the constants.
THEOREM BuyInvariant == Spec => []BuyInv
  BY InitInv, NextKeeps, PTL DEF Spec
-----------------------------------------------------------------------------
(* What the properties gain from it *)

\* Every variable keeps its type, whatever the interleaving.
THEOREM BuyTypes == Spec => []TypeOK
  <1>1. BuyInv => TypeOK
    BY DEF BuyInv
  <1> QED
    BY BuyInvariant, <1>1, PTL

\* The lock's owners and waiters are the runs that acquired and have not yet
\* released it, for any number of orders, tokens and restarts.
THEOREM LockIsNeverLeaked == Spec => []LockOwnedByRuns
  <1>1. BuyInv => LockOwnedByRuns
    BY DEF BuyInv
  <1> QED
    BY BuyInvariant, <1>1, PTL

\* executeMemeBuy never has two transactions of one token in flight: a
\* submitting run owns the lock, and the lock has one owner per token.
THEOREM SerialPerToken == Spec => []OneSubmissionPerToken
  <1>1. BuyInv => OneSubmissionPerToken
    BY DEF BuyInv, LockInv, MutualExclusion, LockOwnedByRuns,
           OneSubmissionPerToken
  <1> QED
    BY BuyInvariant, <1>1, PTL

\* Who may act on an order, whatever the interleaving of cycle and buttons.
THEOREM ActorsAreSeparate == Spec => []OneActorPerOrder
  <1>1. BuyInv => OneActorPerOrder
    BY DEF BuyInv, RecordInv
  <1> QED
    BY BuyInvariant, <1>1, PTL

\* A confirmed fill always has its journal entry, in memory and on disk.
THEOREM FillsAreBacked == Spec => []FillIsBacked
  <1>1. BuyInv => FillIsBacked
    BY DEF BuyInv, RecordInv
  <1> QED
    BY BuyInvariant, <1>1, PTL

\* What the file says, and what a tool may still write there, memory never
\* contradicts, across any number of crashes.
THEOREM SavedStays == Spec => []SavedIsRemembered
  <1>1. BuyInv => SavedIsRemembered
    BY DEF BuyInv, RecordInv
  <1> QED
    BY BuyInvariant, <1>1, PTL

\* A final decision in the file is kept by every step, restarts included, unless a
\* boot could not read the file, or a configuration tool's store, which had loaded no
\* such decision, writes its copy; and then memory still holds it.
THEOREM DecisionsAreFinal == Spec => SavedDecisionIsFinal
  <1> USE DEF KeptInFile, Forgotten
  <1>1. ASSUME BuyInv, BuyInv', [Next]_vars, NEW o \in Order, disk.status[o] \in Final
        PROVE  (status'[o] = disk.status[o] /\ KeptInFile(o)) \/ Forgotten(o)
    <2>1. /\ \A d \in Saved : d.status[o] \in Final => status[o] \in {d.status[o], "lost"}
          /\ \A d \in Saved' : d.status[o] \in Final => status'[o] \in {d.status[o], "lost"}
      BY <1>1 DEF BuyInv, RecordInv, SavedIsRemembered
    <2>2. disk \in Saved /\ disk' \in Saved' /\ status[o] \in {disk.status[o], "lost"}
      BY <1>1, <2>1 DEF Saved
    <2>3. ASSUME disk' = disk, ~Restart PROVE (status'[o] = disk.status[o] /\ KeptInFile(o)) \/ Forgotten(o)
      <3>1. status'[o] \in {disk.status[o], "lost"}
        BY <1>1, <2>1, <2>2, <2>3
      <3>2. status'[o] = "lost" => status[o] = "lost"
        BY <1>1, <2>2, <2>3 DEF Next, RunStep, Signal, Refeed, PostCard, ApproveClick, CancelClick, Deferred, Refuse,
              PassGates, RefuseCharged, Resume, Broadcast, ReturnUnsent, ReturnSent, Return, Save, ConfigLoads,
              ConfigSaves, vars, Enqueue, Approve, Reject, Settle, RecordExecuted, RecordFailed, BuyInv, TypeOK, runVars
      <3> QED BY <2>3, <3>1, <3>2
    <2>4. ASSUME Restart PROVE (status'[o] = disk.status[o] /\ KeptInFile(o)) \/ Forgotten(o)
      <3>1. PICK d \in LoadFromDisk : journal' = d.journal /\ status'[o] =
                IF status[o] # "none" /\ d.status[o] = "none" THEN "lost" ELSE d.status[o]
        BY <2>4 DEF Restart
      <3>2. CASE d = disk
        BY <1>1, <2>4, <3>1, <3>2 DEF Restart, Final
      <3>3. CASE d = Empty
        <4>1. d.status[o] = "none" /\ status[o] # "none"
          BY <1>1, <2>2, <3>3 DEF Empty, Final
        <4>2. crashes' > crashes
          BY <1>1, <2>4 DEF Restart, BuyInv, TypeOK
        <4> QED BY <3>1, <3>3, <4>1, <4>2 DEF BootReadsNothing
      <3> QED BY <3>2, <3>3 DEF LoadFromDisk
    <2>5. ASSUME Save PROVE (status'[o] = disk.status[o] /\ KeptInFile(o)) \/ Forgotten(o)
      BY <2>2, <2>5 DEF Save
    <2>6. ASSUME NEW k \in ConfigCall, ConfigSaves(k)
          PROVE  (status'[o] = disk.status[o] /\ KeptInFile(o)) \/ Forgotten(o)
      <3>1. PICK c \in copies : disk' = c[2] /\ copies' = copies \ {c} /\ status' = status
        BY <2>6 DEF ConfigSaves
      <3>2. c[2] \in Saved
        BY <3>1 DEF Saved
      <3>3. CASE status[o] = "lost"
        BY <3>1, <3>3
      <3>4. CASE status[o] = disk.status[o]
        <4>1. c[2].status[o] \in Final => c[2].status[o] = disk.status[o]
          BY <1>1, <2>1, <3>2, <3>4 DEF Final
        <4> QED BY <3>1, <3>4, <4>1
      <3> QED BY <2>2, <3>3, <3>4
    <2>7. Restart \/ disk' = disk \/ Save \/ \E k \in ConfigCall : ConfigSaves(k)
      BY <1>1 DEF Next, RunStep, Signal, Refeed, PostCard, ApproveClick, CancelClick, Deferred, Refuse, PassGates,
                  RefuseCharged, Resume, Broadcast, ReturnUnsent, ReturnSent, Return, ConfigLoads, vars
    <2> QED BY <2>3, <2>4, <2>5, <2>6, <2>7
  <1>2. BuyInv /\ BuyInv' /\ [Next]_vars =>
           [\A o \in Order : disk.status[o] \in Final => (status'[o] = disk.status[o] /\ KeptInFile(o)) \/ Forgotten(o)]_vars
    BY <1>1
  <1> QED BY BuyInvariant, <1>2, PTL DEF Spec, SavedDecisionIsFinal

\* An approved order is bought at most once in a life of the process.
THEOREM BuysOnce == Spec => []ApprovalBuysOnce
  <1>1. BuyInv => ApprovalBuysOnce
    BY DEF BuyInv, RecordInv
  <1> QED
    BY BuyInvariant, <1>1, PTL

\* The ledger file knows every AUTO transaction that reached the chain.
THEOREM AuditKnows == Spec => []AuditBeforeMoney
  <1>1. BuyInv => AuditBeforeMoney
    BY DEF BuyInv, RecordInv
  <1> QED
    BY BuyInvariant, <1>1, PTL
-----------------------------------------------------------------------------
(* The two properties the run checks, from the parts above *)

\* Types, the lock's bookkeeping and the separation of actors hold together, for
\* any number of orders, tokens and restarts.
THEOREM BuyingIsSound == Spec => []RunsAreSound
  <1>1. TypeOK /\ LockOwnedByRuns /\ OneActorPerOrder => RunsAreSound
    BY DEF RunsAreSound
  <1> QED
    BY BuyTypes, LockIsNeverLeaked, ActorsAreSeparate, <1>1, PTL

\* A recorded fill has its journal entry, and an AUTO transaction its audit row,
\* across any number of crashes.
THEOREM MoneyIsAccounted == Spec => []MoneyIsBacked
  <1>1. FillIsBacked /\ AuditBeforeMoney /\ SavedIsRemembered => MoneyIsBacked
    BY DEF MoneyIsBacked
  <1> QED
    BY FillsAreBacked, AuditKnows, SavedStays, <1>1, PTL
-----------------------------------------------------------------------------
(* The bounds of AUTO                                                      *)

\* Runs whose charge is taken and whose transaction is not out yet.
Charged == {r \in Caller : pc[r] \in {"locking", "submitting"}}

\* The budget as a strip from 0 to spent: what was sent lies at its beginning, and
\* every charged run has a place of its own, as wide as its size, behind that.
Placed(place) ==
    \A r \in Charged :
        /\ usd[r] > 0 /\ sentUsd <= place[r] /\ place[r] + usd[r] <= spent
        /\ \A q \in Charged \ {r} : place[r] + usd[r] <= place[q] \/ place[q] + usd[q] <= place[r]

CapInv ==
    /\ sentUsd <= spent /\ spent <= Cap
    /\ \E place \in [Caller -> Nat] : Placed(place)

\* A step that charges nobody and sends nothing keeps every place.
LEMMA PlacesStay ==
    ASSUME CapInv, TypeOK, TypeOK', Charged' \subseteq Charged, sentUsd' = sentUsd,
           spent <= spent', spent' <= Cap, \A r \in Charged' : usd'[r] = usd[r]
    PROVE  CapInv'
  <1>1. PICK place \in [Caller -> Nat] : Placed(place)
    BY DEF CapInv
  <1>2. Charged' \subseteq Caller
    BY DEF Charged
  <1>3. ASSUME NEW r \in Charged'
        PROVE  /\ usd'[r] > 0 /\ sentUsd' <= place[r] /\ place[r] + usd'[r] <= spent'
               /\ \A q \in Charged' \ {r} : place[r] + usd'[r] <= place[q] \/ place[q] + usd'[q] <= place[r]
    BY <1>1, <1>2, <1>3, BuyConstants DEF Placed, TypeOK
  <1>4. Placed(place)'
    BY <1>3 DEF Placed
  <1>5. sentUsd' <= spent'
    BY BuyConstants DEF CapInv, TypeOK
  <1> QED BY <1>4, <1>5 DEF CapInv

\* The charge of a run that passes the gates is placed at the end of the strip.
LEMMA PassGatesFits ==
    ASSUME CapInv, BuyInv, BuyInv', NEW r \in Caller, PassGates(r)
    PROVE  CapInv'
  <1>1. PICK u \in Sizes(Want[r[1]]) : spent + u <= Cap /\ spent' = spent + u /\ usd' = [usd EXCEPT ![r] = u]
    BY DEF PassGates, TrySpend
  <1>2. u \in Nat /\ u > 0
    BY <1>1, BuyConstants, Runs, SizesAreNat DEF Sizes
  <1>3. PICK place \in [Caller -> Nat] : Placed(place)
    BY DEF CapInv
  <1>4. spent \in Nat /\ sentUsd \in Nat /\ usd \in [Caller -> Nat] /\ pc \in [Caller -> PC]
    BY DEF BuyInv, TypeOK
  <1>5. r \notin Charged /\ Charged' = Charged \cup {r} /\ sentUsd' = sentUsd
    BY <1>4 DEF PassGates, Charged
  <1>6. PICK moved \in [Caller -> Nat] : moved[r] = spent /\ \A q \in Charged : moved[q] = place[q]
    <2> DEFINE m == [place EXCEPT ![r] = spent]
    <2>1. m \in [Caller -> Nat] /\ m[r] = spent /\ \A q \in Charged : m[q] = place[q]
      BY <1>4, <1>5 DEF Charged
    <2> QED BY <2>1
  <1>7. usd'[r] = u /\ \A q \in Charged : usd'[q] = usd[q]
    BY <1>1, <1>4, <1>5 DEF Charged
  <1>8. ASSUME NEW q \in Charged
        PROVE  /\ place[q] \in Nat /\ usd[q] \in Nat
               /\ usd[q] > 0 /\ sentUsd <= place[q] /\ place[q] + usd[q] <= spent
               /\ \A p \in Charged \ {q} : place[q] + usd[q] <= place[p] \/ place[p] + usd[p] <= place[q]
    BY <1>3, <1>4, <1>8 DEF Placed, Charged
  <1>9. ASSUME NEW q \in Charged'
        PROVE  /\ usd'[q] > 0 /\ sentUsd' <= moved[q] /\ moved[q] + usd'[q] <= spent'
               /\ \A p \in Charged' \ {q} : moved[q] + usd'[q] <= moved[p] \/ moved[p] + usd'[p] <= moved[q]
    <2>1. CASE q = r
      BY <1>1, <1>2, <1>4, <1>5, <1>6, <1>7, <1>8, <2>1 DEF CapInv
    <2>2. CASE q # r
      BY <1>1, <1>2, <1>4, <1>5, <1>6, <1>7, <1>8, <2>2
    <2> QED BY <2>1, <2>2
  <1>10. Placed(moved)'
    BY <1>9 DEF Placed
  <1>11. sentUsd' <= spent' /\ spent' <= Cap
    BY <1>1, <1>2, <1>4, <1>5, BuyConstants DEF CapInv
  <1> QED BY <1>6, <1>10, <1>11 DEF CapInv

\* A broadcast takes its own place to the beginning, and moves those that were
\* before it up by its width.
LEMMA BroadcastFits ==
    ASSUME CapInv, BuyInv, NEW r \in Caller, Broadcast(r)
    PROVE  CapInv'
  <1>1. PICK place \in [Caller -> Nat] : Placed(place)
    BY DEF CapInv
  <1>2. spent \in Nat /\ sentUsd \in Nat /\ usd \in [Caller -> Nat] /\ pc \in [Caller -> PC]
    BY DEF BuyInv, TypeOK
  <1>3. r \in Charged /\ Charged' = Charged \ {r} /\ sentUsd' = sentUsd + usd[r] /\ UNCHANGED <<usd, spent>>
    BY <1>2 DEF Broadcast, Charged
  <1>4. PICK moved \in [Caller -> Nat] :
           \A q \in Caller : moved[q] = IF place[q] < place[r] THEN place[q] + usd[r] ELSE place[q]
    <2> DEFINE m == [q \in Caller |-> IF place[q] < place[r] THEN place[q] + usd[r] ELSE place[q]]
    <2>1. m \in [Caller -> Nat]
      BY <1>2
    <2> QED BY <2>1
  <1>5. \A q \in Charged : q \in Caller /\ moved[q] = IF place[q] < place[r] THEN place[q] + usd[r] ELSE place[q]
    BY <1>4 DEF Charged
  <1>6. ASSUME NEW q \in Charged
        PROVE  /\ place[q] \in Nat /\ usd[q] \in Nat
               /\ usd[q] > 0 /\ sentUsd <= place[q] /\ place[q] + usd[q] <= spent
               /\ \A p \in Charged \ {q} : place[q] + usd[q] <= place[p] \/ place[p] + usd[p] <= place[q]
    BY <1>1, <1>2, <1>6 DEF Placed, Charged
  <1>7. ASSUME NEW q \in Charged'
        PROVE  /\ usd'[q] > 0 /\ sentUsd' <= moved[q] /\ moved[q] + usd'[q] <= spent'
               /\ \A p \in Charged' \ {q} : moved[q] + usd'[q] <= moved[p] \/ moved[p] + usd'[p] <= moved[q]
    <2>1. /\ place[r] + usd[r] <= place[q] \/ place[q] + usd[q] <= place[r]
          /\ q \in Charged /\ sentUsd <= place[r] /\ place[r] + usd[r] <= spent
      BY <1>3, <1>6, <1>7
    <2>2. usd'[q] > 0 /\ sentUsd' <= moved[q] /\ moved[q] + usd'[q] <= spent'
      BY <1>2, <1>3, <1>5, <1>6, <2>1
    <2>3. ASSUME NEW p \in Charged' \ {q}
          PROVE  moved[q] + usd'[q] <= moved[p] \/ moved[p] + usd'[p] <= moved[q]
      <3>1. /\ p \in Charged
            /\ place[r] + usd[r] <= place[p] \/ place[p] + usd[p] <= place[r]
            /\ place[q] + usd[q] <= place[p] \/ place[p] + usd[p] <= place[q]
        BY <1>3, <1>6, <1>7, <2>3
      <3> QED BY <1>2, <1>3, <1>5, <1>6, <2>1, <3>1
    <2> QED BY <2>2, <2>3
  <1>8. Placed(moved)'
    BY <1>7 DEF Placed
  <1>9. sentUsd' <= spent' /\ spent' <= Cap
    BY <1>2, <1>3, <1>6 DEF CapInv
  <1> QED BY <1>4, <1>8, <1>9 DEF CapInv

LEMMA CapNextInv ==
    ASSUME CapInv, BuyInv, BuyInv', [Next]_vars
    PROVE  CapInv'
  <1>1. spent \in Nat /\ sentUsd \in Nat /\ usd \in [Caller -> Nat] /\ pc \in [Caller -> PC] /\ spent <= Cap
    BY DEF BuyInv, TypeOK, CapInv
  <1>2. TypeOK /\ TypeOK'
    BY DEF BuyInv
  <1> DEFINE Same == Charged' \subseteq Charged /\ UNCHANGED <<usd, spent, sentUsd>>
  <1>3. ASSUME Same PROVE CapInv'
    BY <1>1, <1>2, <1>3, PlacesStay
  <1>4. ASSUME NEW o \in Order,
               Signal(o) \/ Refeed(o) \/ PostCard(o) \/ ApproveClick(o) \/ CancelClick(o) \/ Deferred(o)
        PROVE  Same
    BY <1>1, <1>4, Runs
       DEF Signal, Refeed, PostCard, ApproveClick, CancelClick, Deferred, Charged, runVars
  <1>5. ASSUME NEW r \in Caller, Refuse(r) \/ Resume(r) \/ ReturnUnsent(r) \/ ReturnSent(r) PROVE Same
    BY <1>1, <1>5 DEF Refuse, Resume, ReturnUnsent, ReturnSent, Return, Settle, Charged
  <1>6. ASSUME NEW r \in Caller, RefuseCharged(r) PROVE CapInv'
    <2>1. PICK u \in Sizes(Want[r[1]]) : spent + u <= Cap /\ spent' = spent + u
      BY <1>6 DEF RefuseCharged, TrySpend
    <2>2. u \in Nat
      BY <2>1, BuyConstants, Runs, SizesAreNat
    <2>3. Charged' \subseteq Charged /\ UNCHANGED <<usd, sentUsd>>
      BY <1>1, <1>6 DEF RefuseCharged, Settle, Charged
    <2> QED BY <1>1, <1>2, <2>1, <2>2, <2>3, PlacesStay
  <1>7. ASSUME Restart PROVE CapInv'
    <2>1. Charged' = {} /\ sentUsd' = 0 /\ spent' = 0
      BY <1>7 DEF Restart, Charged
    <2>2. [r \in Caller |-> 0] \in [Caller -> Nat] /\ Placed([r \in Caller |-> 0])'
      BY <2>1 DEF Placed
    <2> QED BY <2>1, <2>2, BuyConstants DEF CapInv
  <1>8. ASSUME Save \/ (\E k \in ConfigCall : ConfigLoads(k) \/ ConfigSaves(k)) \/ UNCHANGED vars
        PROVE  Same
    BY <1>8 DEF Save, ConfigLoads, ConfigSaves, vars, runVars, Charged
  <1> QED BY <1>3, <1>4, <1>5, <1>6, <1>7, <1>8, PassGatesFits, BroadcastFits DEF Next, RunStep

\* The orders whose operator's buy is in the journal as confirmed.
Confirmed == {p \in Order : journal[OpRun(p)] = "confirmed"}

\* No step but a restart takes a confirmed buy out of the journal: its order is
\* final, and no run acts on it.
LEMMA ConfirmedStays ==
    ASSUME BuyInv, [Next]_vars, ~Restart
    PROVE  Confirmed \subseteq Confirmed'
  <1>1. ASSUME NEW p \in Confirmed PROVE status[p] = "CONFIRMED_FILL" /\ pc[OpRun(p)] \notin Busy
    BY <1>1 DEF BuyInv, RecordInv, OrderInv, OneActorPerOrder, Confirmed
  <1>2. ASSUME NEW r \in Caller, ReturnUnsent(r) \/ ReturnSent(r)
        PROVE  \A p \in Confirmed : journal'[OpRun(p)] = journal[OpRun(p)]
    <2>1. pc[r] \in Busy
      BY <1>2 DEF ReturnUnsent, ReturnSent, Busy, Submitting
    <2>2. \E l : journal' = [journal EXCEPT ![r] = l]
      BY <1>2 DEF ReturnUnsent, ReturnSent, Return
    <2>3. \A p \in Confirmed : OpRun(p) \in Caller /\ OpRun(p) # r
      BY <1>1, <2>1, Runs DEF Confirmed
    <2> QED BY <2>2, <2>3 DEF BuyInv, TypeOK
  <1>3. (\E r \in Caller : ReturnUnsent(r) \/ ReturnSent(r)) \/ journal' = journal
    BY DEF Next, RunStep, Signal, Refeed, PostCard, ApproveClick, CancelClick, Deferred, Refuse, PassGates,
           RefuseCharged, Resume, Broadcast, Save, ConfigLoads, ConfigSaves, vars
  <1> QED BY <1>2, <1>3 DEF Confirmed

\* AUTO starts on the fills in memory, which the journal backs, and keeps them.
LEMMA EarnedNextInv ==
    ASSUME AutoIsEarned, BuyInv, BuyInv', [Next]_vars
    PROVE  AutoIsEarned'
  <1>1. /\ IsFiniteSet(Confirmed) /\ IsFiniteSet(Confirmed') /\ IsFiniteSet(ApprovedFills)
        /\ Cardinality(Confirmed) \in Nat /\ Cardinality(Confirmed') \in Nat /\ Cardinality(ApprovedFills) \in Nat
    BY FS_Subset, FS_CardinalityType, BuyConstants DEF Confirmed, ApprovedFills
  <1>2. ASSUME FillFloorMet PROVE Cardinality(Confirmed) >= MinFills
    <2>1. ApprovedFills \subseteq Confirmed
      BY DEF BuyInv, RecordInv, FillIsBacked, ApprovedFills, Confirmed
    <2>2. Cardinality(ApprovedFills) <= Cardinality(Confirmed)
      BY <1>1, <2>1, FS_Subset
    <2> QED BY <1>1, <1>2, <2>2, MinFillsType DEF FillFloorMet
  <1>3. ASSUME NEW o \in Order, pc'[AutoRun(o)] \in Busy
        PROVE  ~Restart /\ (pc[AutoRun(o)] \in Busy \/ FillFloorMet)
    <2>1. pc \in [Caller -> PC] /\ AutoRun(o) \in Caller
      BY Runs DEF BuyInv, TypeOK
    <2>2. ~Restart
      BY <1>3, <2>1 DEF Restart, Busy, Submitting
    <2>3. ASSUME NEW p \in Order, Signal(p) PROVE pc[AutoRun(o)] \in Busy \/ FillFloorMet
      BY <1>3, <2>1, <2>3, Runs DEF Signal, Busy, Submitting
    <2>4. ASSUME NEW p \in Order, Refeed(p) \/ PostCard(p) \/ ApproveClick(p) \/ CancelClick(p) \/ Deferred(p)
          PROVE  pc[AutoRun(o)] \in Busy
      BY <1>3, <2>1, <2>4, Runs
         DEF Refeed, PostCard, ApproveClick, CancelClick, Deferred, Busy, Submitting, runVars
    <2>5. ASSUME NEW r \in Caller, RunStep(r) PROVE pc[AutoRun(o)] \in Busy
      BY <1>3, <2>1, <2>5
         DEF RunStep, Refuse, PassGates, RefuseCharged, Resume, Broadcast, ReturnUnsent, ReturnSent, Return, Settle,
             Busy, Submitting
    <2>6. ASSUME Save \/ (\E k \in ConfigCall : ConfigLoads(k) \/ ConfigSaves(k)) \/ UNCHANGED vars
          PROVE  pc[AutoRun(o)] \in Busy
      BY <1>3, <2>6 DEF Save, ConfigLoads, ConfigSaves, vars, runVars
    <2> QED BY <2>2, <2>3, <2>4, <2>5, <2>6 DEF Next
  <1>4. ASSUME NEW o \in Order, pc'[AutoRun(o)] \in Busy PROVE Cardinality(Confirmed') >= MinFills
    <2>1. Cardinality(Confirmed) >= MinFills
      BY <1>2, <1>3, <1>4 DEF AutoIsEarned, Confirmed
    <2>2. Cardinality(Confirmed) <= Cardinality(Confirmed')
      BY <1>1, <1>3, <1>4, ConfirmedStays, FS_Subset
    <2> QED BY <1>1, <2>1, <2>2, MinFillsType
  <1> QED BY <1>4 DEF AutoIsEarned, Confirmed

\* AUTO buys nothing before enough operator buys have really succeeded, and what
\* all runs broadcast in one life of the process never exceeds the cost cap,
\* however many of them pass the gate together and wait for their locks.
THEOREM AutoStaysWithinBounds == Spec => []AutoWithinBounds
  <1>1. Init => CapInv /\ AutoIsEarned
    <2> SUFFICES ASSUME Init PROVE CapInv /\ AutoIsEarned
      OBVIOUS
    <2>1. Charged = {} /\ sentUsd = 0 /\ spent = 0
      BY DEF Init, Charged
    <2>2. [r \in Caller |-> 0] \in [Caller -> Nat] /\ Placed([r \in Caller |-> 0])
      BY <2>1 DEF Placed
    <2>3. CapInv
      <3>1. sentUsd <= spent /\ spent <= Cap
        BY <2>1, BuyConstants
      <3> QED BY <2>2, <3>1 DEF CapInv
    <2>4. AutoIsEarned
      BY Runs DEF Init, AutoIsEarned, Busy, Submitting
    <2> QED BY <2>3, <2>4
  <1>2. CapInv /\ AutoIsEarned /\ BuyInv /\ BuyInv' /\ [Next]_vars => (CapInv /\ AutoIsEarned)'
    BY CapNextInv, EarnedNextInv
  <1>3. CapInv /\ AutoIsEarned => AutoWithinBounds
    BY DEF CapInv, BroadcastWithinCap, AutoWithinBounds
  <1> QED BY <1>1, <1>2, <1>3, BuyInvariant, PTL DEF Spec
=============================================================================
