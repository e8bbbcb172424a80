------------------------------ MODULE MemeBuy ------------------------------
(***************************************************************************)
(* Every way Memeland buys a token: the screening cycle's AUTO path and an *)
(* operator's APPROVE button, both of which run executeMemeBuy behind the  *)
(* same gates, cost cap and per-token lock, over one state store that is   *)
(* saved as a whole and restored at boot.                                  *)
(*                                                                         *)
(* A caller of the lock is a run of executeMemeBuy, <<order, path>>.  Each *)
(* action is the code between two awaits of a run, which Node executes     *)
(* without interruption; a process crash may fall between any two actions. *)
(***************************************************************************)
EXTENDS TxLock, ApprovalQueue

CONSTANTS
    Want,           \* the notional an order asks for, in USD
    MaxNotional,    \* MAX_NOTIONAL_USD
    Cap,            \* COST_CAP_USD
    Modes,          \* the values of DRY_RUN a boot may find
    ConfigCall,     \* bound: calls of set_screening_config under way at once
    MaxCrash        \* bound: crashes explored

Path == {"operator", "auto"}
OpRun(o) == <<o, "operator">>
AutoRun(o) == <<o, "auto">>

ASSUME BuyConstants ==
    /\ IsFiniteSet(Order)
    /\ Caller = Order \X Path
    /\ Want \in [Order -> Nat \ {0}]
    /\ MaxNotional \in Nat \ {0}
    /\ Cap \in Nat
    /\ Modes \in SUBSET BOOLEAN
    /\ MaxCrash \in Nat

VARIABLES
    pc,         \* where each run is
    usd,        \* effectiveUsd of a run that passed the cost gate since boot
    spent,      \* CostGate.spent
    sent,       \* history: transactions a run broadcast since boot
    sentUsd,    \* history: notional broadcast since boot
    fate,       \* history: what became of a run's transaction on the chain
    journal,    \* lifecycle of the run's trade-journal entry
    audit,      \* last lifecycle of the AUTO run's nonce in the ledger file
    posted,     \* orders whose card, with its buttons, is in the channel
    disk,       \* the state file: orders and journal as last saved
    copies,     \* what the stores of set_screening_config loaded and will save
    dryRun,     \* the executor's mode, read at boot
    crashes

runVars == <<pc, usd, sent, sentUsd, fate, audit>>
vars == <<lockVars, status, runVars, spent, journal, posted, disk, copies, dryRun, crashes>>

PC == {"idle", "deferring", "checking", "locking", "submitting", "sent",
       "posting", "done"}
\* "failed" stands for the labels failed and timed_out.
Lifecycle == {"planned", "rejected", "simulated", "submitted", "confirmed", "failed"}
Submitting == {"submitting", "sent"}
Busy == {"checking", "locking"} \cup Submitting

Init ==
    /\ LockInit
    /\ QueueInit
    /\ pc = [r \in Caller |-> "idle"]
    /\ usd = [r \in Caller |-> 0]
    /\ spent = 0
    /\ sent = [r \in Caller |-> 0]
    /\ sentUsd = 0
    /\ fate = [r \in Caller |-> "none"]
    /\ journal = [r \in Caller |-> "none"]
    /\ audit = [o \in Order |-> "none"]
    /\ posted = {}
    /\ disk = [status |-> status, journal |-> journal]
    /\ copies = {}
    /\ dryRun \in Modes
    /\ crashes = 0
-----------------------------------------------------------------------------
(* The screening cycle *)

\* Cycles do not overlap (the scheduler skips a tick while one runs) and a
\* cycle awaits each signal before the next.
CycleFree == \A o \in Order : pc[AutoRun(o)] \in {"idle", "done"}

\* Mutant: the card is posted as soon as the order is queued.
SignalPostsFirst(o) ==
    /\ CycleFree
    /\ Enqueue(o)
    /\ posted' = posted \cup {o}
    /\ \/ /\ pc' = [pc EXCEPT ![AutoRun(o)] = "posting"]
          /\ UNCHANGED audit
       \/ /\ FillFloorMet
          /\ pc' = [pc EXCEPT ![AutoRun(o)] = "checking"]
          /\ audit' = [audit EXCEPT ![o] = "planned"]
    /\ UNCHANGED <<lockVars, usd, sent, sentUsd, fate, spent, journal, disk, copies,
                   dryRun, crashes>>

\* A signal is queued and then: handled by the AUTO path; dropped by the risk
\* gate, which leaves the signal before its card is posted; or, when AUTO is
\* locked, off for the domain or has no adapter for the chain, only posted.
Signal(o) ==
    /\ CycleFree
    /\ Enqueue(o)
    /\ \/ /\ pc' = [pc EXCEPT ![AutoRun(o)] = "posting"]
          /\ UNCHANGED audit
       \/ /\ FillFloorMet
          /\ pc' = [pc EXCEPT ![AutoRun(o)] = "done"]
          /\ UNCHANGED audit
       \/ /\ FillFloorMet
          /\ pc' = [pc EXCEPT ![AutoRun(o)] = "checking"]
          /\ audit' = [audit EXCEPT ![o] = "planned"]
    /\ UNCHANGED <<lockVars, usd, sent, sentUsd, fate, spent, journal, posted,
                   disk, copies, dryRun, crashes>>

\* The strategist re-feeds an opportunity as an order of its own: no AUTO
\* attempt and no card.
Refeed(o) ==
    /\ CycleFree
    /\ Enqueue(o)
    /\ pc' = [pc EXCEPT ![AutoRun(o)] = "done"]
    /\ UNCHANGED <<lockVars, usd, sent, sentUsd, fate, audit, spent, journal,
                   posted, disk, copies, dryRun, crashes>>

\* The card goes out after the AUTO attempt, unless there is no channel or the
\* send fails.
PostCard(o) ==
    /\ pc[AutoRun(o)] = "posting"
    /\ pc' = [pc EXCEPT ![AutoRun(o)] = "done"]
    /\ posted' \in {posted, posted \cup {o}}
    /\ UNCHANGED <<lockVars, status, usd, sent, sentUsd, fate, audit, spent,
                   journal, disk, copies, dryRun, crashes>>
-----------------------------------------------------------------------------
(* The operator's buttons *)

ApproveClick(o) ==
    /\ o \in posted
    /\ Approve(o)
    /\ pc' = [pc EXCEPT ![OpRun(o)] = "deferring"]
    /\ UNCHANGED <<lockVars, usd, sent, sentUsd, fate, audit, spent, journal,
                   posted, disk, copies, dryRun, crashes>>

CancelClick(o) ==
    /\ o \in posted
    /\ Reject(o)
    /\ UNCHANGED <<lockVars, runVars, spent, journal, posted, disk, copies, dryRun, crashes>>

\* deferReply() settles.  When it fails, or when the risk gate or kill switch
\* says no, the handler returns and the order stays APPROVED.
Deferred(o) ==
    /\ pc[OpRun(o)] = "deferring"
    /\ pc' \in {[pc EXCEPT ![OpRun(o)] = s] : s \in {"done", "checking"}}
    /\ UNCHANGED <<lockVars, status, usd, sent, sentUsd, fate, audit, spent,
                   journal, posted, disk, copies, dryRun, crashes>>
-----------------------------------------------------------------------------
(* executeMemeBuy *)

\* Only the AUTO path passes a ledger.
Record(r, s) ==
    audit' = IF r[2] = "auto" THEN [audit EXCEPT ![r[1]] = s] ELSE audit

\* What both callers do with the result, in the same turn of the event loop.
Settle(r, ok) ==
    /\ IF ok THEN RecordExecuted(r[1]) ELSE RecordFailed(r[1])
    /\ pc' = [pc EXCEPT ![r] = IF r[2] = "auto" THEN "posting" ELSE "done"]

\* The chain, safety, sellability, sizing, fill-simulation or cost gate says no.
Refuse(r) ==
    /\ pc[r] = "checking"
    /\ Record(r, "rejected")
    /\ Settle(r, FALSE)
    /\ UNCHANGED <<lockVars, usd, sent, sentUsd, fate, spent, journal, posted,
                   disk, copies, dryRun, crashes>>

\* gateSizer scales the wish down, to a quarter at least, rounds it and clamps
\* it; a size that rounds to zero is refused (sizePosition).
Sizes(w) ==
    {IF s < MaxNotional THEN s ELSE MaxNotional : s \in ((w + 2) \div 4)..w} \ {0}

\* CostGate.trySpend: check and charge in one synchronous call.
TrySpend(u) == spent + u <= Cap /\ spent' = spent + u

\* The governance nonce is token, symbol and millisecond: another run of the
\* token may have reserved it with another amount.
NonceClash(r, u) ==
    \E q \in Caller \ {r} : TokenOf[q] = TokenOf[r] /\ usd[q] \notin {0, u}

\* The gates after the quoter's answer, up to the wait for the token's lock.
PassGates(r) ==
    /\ pc[r] = "checking"
    /\ \E u \in Sizes(Want[r[1]]) :
          /\ TrySpend(u)
          /\ usd' = [usd EXCEPT ![r] = u]
    /\ Acquire(r)
    /\ pc' = [pc EXCEPT ![r] = "locking"]
    /\ Record(r, "simulated")
    /\ UNCHANGED <<status, sent, sentUsd, fate, journal, posted, disk, copies, dryRun, crashes>>

\* Governance refuses after the cost gate has already charged.
RefuseCharged(r) ==
    /\ pc[r] = "checking"
    /\ \E u \in Sizes(Want[r[1]]) : TrySpend(u) /\ NonceClash(r, u)
    /\ Record(r, "rejected")
    /\ Settle(r, FALSE)
    /\ UNCHANGED <<lockVars, usd, sent, sentUsd, fate, journal, posted, disk, copies,
                   dryRun, crashes>>

\* Mutant: the submission is not announced to the ledger.
ResumeUnrecorded(r) ==
    /\ pc[r] = "locking"
    /\ r \in granted
    /\ pc' = [pc EXCEPT ![r] = "submitting"]
    /\ UNCHANGED <<lockVars, status, usd, sent, sentUsd, fate, audit, spent,
                   journal, posted, disk, copies, dryRun, crashes>>

\* acquire() resolves: the run owns the lock and calls the executor.
Resume(r) ==
    /\ pc[r] = "locking"
    /\ r \in granted
    /\ pc' = [pc EXCEPT ![r] = "submitting"]
    /\ Record(r, "submitted")
    /\ UNCHANGED <<lockVars, status, usd, sent, sentUsd, fate, spent, journal,
                   posted, disk, copies, dryRun, crashes>>

\* The executor hands the transaction to the chain, except in a dry run.
Broadcast(r) ==
    /\ pc[r] = "submitting"
    /\ ~dryRun
    /\ pc' = [pc EXCEPT ![r] = "sent"]
    /\ sent' = [sent EXCEPT ![r] = @ + 1]
    /\ sentUsd' = sentUsd + usd[r]
    /\ fate' = [fate EXCEPT ![r] = "broadcast"]
    /\ UNCHANGED <<lockVars, status, usd, audit, spent, journal, posted, disk, copies,
                   dryRun, crashes>>

\* submit() returns: lifecycle and journal entry, settlement, lock release.
\* ok stands for the outcomes confirmed and simulated.
Return(r, ok) ==
    LET label == IF ok THEN "confirmed" ELSE "failed" IN
    /\ journal' = [journal EXCEPT ![r] = label]
    /\ Record(r, label)
    /\ Settle(r, ok)
    /\ Release(r)
    /\ UNCHANGED <<usd, sent, sentUsd, spent, posted, disk, copies, dryRun, crashes>>

\* Nothing was broadcast: a dry run's simulated fill, or an early failure.
ReturnUnsent(r) ==
    /\ pc[r] = "submitting"
    /\ \E ok \in {FALSE, dryRun} : Return(r, ok)
    /\ UNCHANGED fate

\* The executor reports on what it broadcast.  A confirmation means the
\* transaction landed; anything else leaves that open.
ReturnSent(r) ==
    /\ pc[r] = "sent"
    /\ \E ok, landed \in BOOLEAN :
          /\ ok => landed
          /\ Return(r, ok)
          /\ fate' = IF landed THEN [fate EXCEPT ![r] = "landed"] ELSE fate
-----------------------------------------------------------------------------
(* The state store and the process *)

\* The debounced save, or the flush at shutdown, writes the whole state.
Save ==
    /\ disk' = [status |-> status, journal |-> journal]
    /\ disk' # disk
    /\ UNCHANGED <<lockVars, status, runVars, spent, journal, posted, copies, dryRun,
                   crashes>>

Empty == [status |-> [o \in Order |-> "none"], journal |-> [r \in Caller |-> "none"]]

\* A store takes the whole file, or nothing when it cannot be read or parsed.
LoadFromDisk == {disk, Empty}

\* set_screening_config opens a store of its own, which loads the file.
ConfigLoads(k) ==
    /\ \A c \in copies : c[1] # k
    /\ \E d \in LoadFromDisk : copies' = copies \cup {<<k, d>>}
    /\ UNCHANGED <<lockVars, status, runVars, spent, journal, posted, disk, dryRun,
                   crashes>>

\* A second later that store writes back what it loaded, with the new setting.
ConfigSaves(k) ==
    \E c \in copies :
        /\ c[1] = k
        /\ disk' = c[2]
        /\ copies' = copies \ {c}
        /\ UNCHANGED <<lockVars, status, runVars, spent, journal, posted, dryRun,
                       crashes>>

\* The process dies and is started again: only the state file, the ledger
\* file, the chain and the posted cards survive.
Restart ==
    /\ crashes < MaxCrash
    /\ crashes' = crashes + 1
    /\ inflight' = [t \in Token |-> FALSE]
    /\ queues' = [t \in Token |-> <<>>]
    /\ granted' = {}
    /\ \E d \in LoadFromDisk :
          /\ status' = [o \in Order |-> IF status[o] # "none" /\ d.status[o] = "none"
                                          THEN "lost" ELSE d.status[o]]
          /\ journal' = d.journal
    /\ pc' = [r \in Caller |-> "idle"]
    /\ usd' = [r \in Caller |-> 0]
    /\ spent' = 0
    /\ sent' = [r \in Caller |-> 0]
    /\ sentUsd' = 0
    /\ copies' = {}
    /\ dryRun' \in Modes
    /\ UNCHANGED <<fate, audit, posted, disk>>

RunStep(r) ==
    \/ Refuse(r) \/ PassGates(r) \/ RefuseCharged(r) \/ Resume(r)
    \/ Broadcast(r) \/ ReturnUnsent(r) \/ ReturnSent(r)

Next ==
    \/ \E o \in Order : \/ Signal(o) \/ Refeed(o) \/ PostCard(o)
                        \/ ApproveClick(o) \/ CancelClick(o) \/ Deferred(o)
    \/ \E r \in Caller : RunStep(r)
    \/ Save
    \/ \E k \in ConfigCall : ConfigLoads(k) \/ ConfigSaves(k)
    \/ Restart

Spec == Init /\ [][Next]_vars
-----------------------------------------------------------------------------
(* Properties *)

SavedState == [status : [Order -> OrderState \cup {"none", "lost"}],
               journal : [Caller -> Lifecycle \cup {"none"}]]

\* Every state that is in the file, or that a late save may put there.
Saved == {disk} \cup {c[2] : c \in copies}

TypeOK ==
    /\ LockTypeOK
    /\ status \in [Order -> OrderState \cup {"none", "lost"}]
    /\ pc \in [Caller -> PC]
    /\ usd \in [Caller -> Nat]
    /\ spent \in Nat
    /\ sent \in [Caller -> Nat]
    /\ sentUsd \in Nat
    /\ fate \in [Caller -> {"none", "broadcast", "landed"}]
    /\ journal \in [Caller -> Lifecycle \cup {"none"}]
    /\ audit \in [Order -> Lifecycle \cup {"none"}]
    /\ posted \in SUBSET Order
    /\ disk \in SavedState
    /\ copies \in SUBSET (ConfigCall \X SavedState)
    /\ dryRun \in BOOLEAN
    /\ crashes \in Nat

\* Two runs, of whatever orders and paths, never have a transaction of one
\* token in the executor at the same time (TxLock around submit).
OneSubmissionPerToken ==
    \A r, q \in Caller :
        pc[r] \in Submitting /\ pc[q] \in Submitting /\ TokenOf[r] = TokenOf[q]
            => r = q

\* Runs that pass the cost gate together and then wait for locks still cannot
\* put more than the cap on the chain in one life of the process.
BroadcastWithinCap == sentUsd <= spent /\ spent <= Cap

\* A CONFIRMED_FILL order, in memory and in the state file, has the journal
\* entry of the successful buy that earned it (audit fix #10).
FillIsBacked ==
    \A o \in Order :
        /\ status[o] = "CONFIRMED_FILL" => journal[OpRun(o)] = "confirmed"
        /\ \A d \in Saved : d.status[o] = "CONFIRMED_FILL" => d.journal[OpRun(o)] = "confirmed"

\* One click buys once: however the clicks, cards and runs interleave, an
\* order's operator run broadcasts at most one transaction per process life.
ApprovalBuysOnce == \A o \in Order : sent[OpRun(o)] <= 1

\* AUTO buys nothing before MinFills operator buys have really succeeded.
AutoIsEarned ==
    \A o \in Order :
        pc[AutoRun(o)] \in Busy =>
            Cardinality({p \in Order : journal[OpRun(p)] = "confirmed"}) >= MinFills

\* The ledger file knows of every AUTO transaction on the chain, also when the
\* process died right after the broadcast.
AuditBeforeMoney ==
    \A o \in Order : fate[AutoRun(o)] # "none" =>
        audit[o] \in {"submitted", "confirmed", "failed"}

Final == {"REJECTED", "CONFIRMED_FILL", "FAILED"}

\* What a saved state says was finally decided or bought, memory never
\* contradicts: neither the state in the file nor one on its way there.  At most
\* it does not know the order, after a boot that lost it.
SavedIsRemembered ==
    \A d \in Saved :
        /\ \A o \in Order : d.status[o] \in Final => status[o] \in {d.status[o], "lost"}
        /\ \A r \in Caller : d.journal[r] = "confirmed" => journal[r] = "confirmed" \/ status[r[1]] = "lost"

BootReadsNothing == crashes' > crashes /\ journal' = Empty.journal
Forgotten(o) == status'[o] = "lost" /\ (status[o] = "lost" \/ BootReadsNothing)
KeptInFile(o) ==
    \/ disk'.status[o] = disk.status[o]
    \/ \E c \in copies \ copies' : c[2] = disk' /\ c[2].status[o] \notin Final

\* A final decision in the state file holds after every step, restarts included,
\* in memory, unless a boot could not read the file; and the file itself gives it
\* up only to a configuration tool's store, which had not loaded it.  (Memory
\* still has it then, and the next save brings it back; a crash before loses it.)
SavedDecisionIsFinal ==
    [][\A o \in Order : disk.status[o] \in Final =>
          (status'[o] = disk.status[o] /\ KeptInFile(o)) \/ Forgotten(o)]_vars

\* The lock's owners and waiters are exactly the runs between acquire() and
\* the finally block: no outcome, refusal or restart leaves a token locked.
LockOwnedByRuns ==
    \A r \in Caller :
        /\ pc[r] \in Submitting => r \in granted
        /\ pc[r] = "locking" => r \in granted \cup Waiting
        /\ r \in granted => pc[r] \in Submitting \cup {"locking"}
        /\ r \in Waiting => pc[r] = "locking"

\* Who may act on an order.  While the AUTO path has it, it is PENDING and no
\* operator can see it; while an operator's run has it, it is APPROVED; and an
\* order still undecided has never been in an operator's run of this process.
OneActorPerOrder ==
    \A o \in Order :
        /\ pc[AutoRun(o)] \in Busy \cup {"posting"} =>
              status[o] = "PENDING" /\ o \notin posted
        /\ pc[OpRun(o)] \in Busy \cup {"deferring"} => status[o] = "APPROVED"
        /\ status[o] \in {"none", "PENDING"} => pc[OpRun(o)] = "idle"

\* Every run is where its locks and orders say it is: types, LockOwnedByRuns and
\* OneActorPerOrder.
RunsAreSound == TypeOK /\ LockOwnedByRuns /\ OneActorPerOrder

\* Money and records tell the same story: FillIsBacked from the record's side,
\* AuditBeforeMoney from the money's, SavedIsRemembered from the file's.
MoneyIsBacked == FillIsBacked /\ AuditBeforeMoney /\ SavedIsRemembered

\* AUTO acts only once it is unlocked and within the cap: AutoIsEarned and
\* BroadcastWithinCap.
AutoWithinBounds == AutoIsEarned /\ BroadcastWithinCap
-----------------------------------------------------------------------------
(* What the repository says of the program, and the program does not do *)

\* "an auto-executed order must NOT linger as human-pending"
\* (startup/screening-cycle.ts:555).
AutoExecutedNotPending ==
    \A o \in Order :
        pc[AutoRun(o)] = "done" /\ audit[o] \in {"confirmed", "failed"}
            => status[o] # "PENDING"
=============================================================================
