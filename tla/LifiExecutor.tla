---------------------------- MODULE LifiExecutor ----------------------------
(***************************************************************************)
(* The LI.FI executor of adapters/lifi-executor.ts: submit() and swap()    *)
(* from the quote to the reported outcome, with the broadcast-nonce store  *)
(* that is to keep an execution from reaching the chain twice, also across *)
(* a restart.  A request is one call of submit or swap.  The chain and     *)
(* LI.FI's status service are external.                                    *)
(***************************************************************************)
EXTENDS Naturals

CONSTANTS
    Request,
    Alike,          \* the sets of requests whose nonces can differ in the time only
    Swap,           \* the /swap requests, whose nonce carries no time
    Solana,         \* the requests for the Solana chain
    MaxSec,         \* bound: seconds of the clock
    MaxCrash        \* bound: crashes

ASSUME LifiConstants ==
    /\ UNION Alike = Request /\ \A k, l \in Alike : k = l \/ k \cap l = {}
    /\ Swap \subseteq Request /\ Solana \subseteq Request
    /\ \A k \in Alike : k \cap Swap \in {{}, k} /\ k \cap Solana \in {{}, k}
    /\ MaxSec \in Nat \ {0} /\ MaxCrash \in Nat

VARIABLES
    pc,         \* where each request is: "idle" until its transaction is built
    nonce,      \* the nonce a request computed
    outcome,    \* what the call returned
    records,    \* broadcastRecords and broadcastNonces (they have equal keys)
    store,      \* the nonce file
    sec,        \* the clock, in seconds
    claims,     \* history: requests that passed the idempotency guard
    unsaved,    \* history: nonces whose save failed when they were claimed
    unread,     \* history: nonces on file at a boot that could not read the file
    accepted,   \* transactions a chain host accepted under a nonce
    fate,       \* the chain's verdict on a request's latest transaction
    crashes

vars == <<pc, nonce, outcome, records, store, sec, claims, unsaved, unread, accepted,
          fate, crashes>>

Nonce == Alike \X (0..MaxSec)
NoNonce == <<>>
Final == {"confirmed", "failed", "timed_out"}
\* "open": the nonce is known, its outcome is not.
Record == {"absent", "open"} \cup Final
PC == {"idle", "sending", "retrying", "polling", "done", "lost"}
Outcome == {"none", "confirmed", "failed", "failed_on_chain", "timed_out", "swapped"}

Init ==
    /\ pc = [r \in Request |-> "idle"]
    /\ nonce = [r \in Request |-> NoNonce]
    /\ outcome = [r \in Request |-> "none"]
    /\ records = [n \in Nonce |-> "absent"]
    /\ store = records
    /\ sec = 1
    /\ claims = [n \in Nonce |-> 0]
    /\ unsaved = {}
    /\ unread = {}
    /\ accepted = [n \in Nonce |-> 0]
    /\ fate = [r \in Request |-> "none"]
    /\ crashes = 0

Finish(r, o) ==
    /\ pc' = [pc EXCEPT ![r] = "done"]
    /\ outcome' = [outcome EXCEPT ![r] = o]

\* recordBroadcast: merge into the record (a hash alone leaves the outcome as
\* it is) and rewrite the file.  A failed write is logged and ignored.
RecordBroadcast(n, o, saved) ==
    /\ records' = [records EXCEPT ![n] = IF o = "open" /\ @ # "absent" THEN @ ELSE o]
    /\ store' = IF saved THEN records' ELSE store
-----------------------------------------------------------------------------
\* Validation, the Token-2022 guard, the quote or the build fails, or a dry run
\* stops with its simulated outcome: up to here a call changes nothing.
Refuse(r) ==
    /\ pc[r] = "idle"
    /\ Finish(r, "failed")
    /\ UNCHANGED <<nonce, records, store, sec, claims, unsaved, unread, accepted, fate, crashes>>

NonceNow(r) == <<CHOOSE k \in Alike : r \in k, IF r \in Swap THEN 0 ELSE sec>>

\* The transaction is built: compute the nonce, pass the guard, record the
\* nonce and start to send, in one turn.  When the key is missing the nonce is
\* used up and nothing is sent.
Claim(r) ==
    LET n == NonceNow(r) IN
    /\ pc[r] = "idle"
    /\ records[n] = "absent"
    /\ nonce' = [nonce EXCEPT ![r] = n]
    /\ claims' = [claims EXCEPT ![n] = @ + 1]
    /\ \E saved \in BOOLEAN :
          /\ RecordBroadcast(n, "open", saved)
          /\ unsaved' = IF saved THEN unsaved ELSE unsaved \cup {n}
    /\ \/ pc' = [pc EXCEPT ![r] = "sending"] /\ UNCHANGED outcome
       \/ Finish(r, "failed")
    /\ UNCHANGED <<sec, unread, accepted, fate, crashes>>

Duplicate(r) ==
    /\ pc[r] = "idle"
    /\ records[NonceNow(r)] # "absent"
    /\ Finish(r, "failed")
    /\ UNCHANGED <<nonce, records, store, sec, claims, unsaved, unread, accepted, fate, crashes>>

Accept(r, f) ==
    /\ accepted' = [accepted EXCEPT ![nonce[r]] = @ + 1]
    /\ fate' = [fate EXCEPT ![r] = f]

\* The hash is back: the record gets it, a swap returns, a submit polls.
Hashed(r) ==
    /\ \E saved \in BOOLEAN : RecordBroadcast(nonce[r], "open", saved)
    /\ IF r \in Swap
         THEN Finish(r, "swapped")
         ELSE pc' = [pc EXCEPT ![r] = "polling"] /\ UNCHANGED outcome

\* A host answers the send with the hash.  Solana's send also waits until the
\* transaction is confirmed.
SendOK(r) ==
    /\ pc[r] \in {"sending", "retrying"}
    /\ Accept(r, IF r \in Solana THEN "success" ELSE "pending")
    /\ Hashed(r)
    /\ UNCHANGED <<nonce, sec, claims, unsaved, unread, crashes>>

\* The send fails, whether or not the host took the transaction first.  An EVM
\* send is tried once more when the pool has another host.
SendFails(r) ==
    /\ pc[r] \in {"sending", "retrying"}
    /\ Accept(r, "pending") \/ UNCHANGED <<accepted, fate>>
    /\ \/ /\ pc[r] = "sending" /\ r \notin Solana
          /\ pc' = [pc EXCEPT ![r] = "retrying"]
          /\ UNCHANGED outcome
       \/ Finish(r, "failed")
    /\ UNCHANGED <<nonce, records, store, sec, claims, unsaved, unread, crashes>>

\* What LI.FI's status, or a receipt, says of a transaction once there is
\* something to say (external: both tell the truth).
Reported(r) ==
    {o \in {"confirmed", "failed"} :
        fate[r] = IF o = "confirmed" THEN "success" ELSE "reverted"}

\* Mutant: a receipt that is not there yet is taken for a failure.
ReconciledStrictly(r) == IF fate[r] = "success" THEN {"confirmed"} ELSE {"failed"}

\* reconcileOnChain: what one look at the receipt says.  A receipt that is not
\* there, or cannot be read, is no failure.
Reconciled(r) == Reported(r) \cup {"timed_out"}

\* The poll ends with LI.FI's word, or at its deadline with one reconciliation.
Poll(r) ==
    /\ pc[r] = "polling"
    /\ \E o \in Reported(r) \cup Reconciled(r), saved \in BOOLEAN :
          /\ RecordBroadcast(nonce[r], o, saved)
          /\ Finish(r, IF o = "failed" THEN "failed_on_chain" ELSE o)
    /\ UNCHANGED <<nonce, sec, claims, unsaved, unread, accepted, fate, crashes>>
-----------------------------------------------------------------------------
\* External: a pending transaction succeeds or reverts.
Mine(r) ==
    /\ fate[r] = "pending"
    /\ \E v \in {"success", "reverted"} : fate' = [fate EXCEPT ![r] = v]
    /\ UNCHANGED <<pc, nonce, outcome, records, store, sec, claims, unsaved, unread,
                   accepted, crashes>>

Tick ==
    /\ sec < MaxSec
    /\ sec' = sec + 1
    /\ UNCHANGED <<pc, nonce, outcome, records, store, claims, unsaved, unread, accepted,
                   fate, crashes>>

\* Mutant: only settled records are read back.
RestartSettled ==
    /\ crashes < MaxCrash
    /\ crashes' = crashes + 1
    /\ pc' = [r \in Request |-> IF pc[r] \in {"idle", "done"} THEN pc[r] ELSE "lost"]
    /\ records' = [n \in Nonce |-> IF store[n] = "open" THEN "absent" ELSE store[n]]
    /\ UNCHANGED <<nonce, outcome, store, sec, claims, unsaved, unread, accepted, fate>>

\* The process dies and restarts: calls in flight are gone and the store is read
\* back; when the file cannot be read or parsed, the program goes on without it,
\* and the next record overwrites it.
Restart ==
    /\ crashes < MaxCrash
    /\ crashes' = crashes + 1
    /\ pc' = [r \in Request |-> IF pc[r] \in {"idle", "done"} THEN pc[r] ELSE "lost"]
    /\ \/ records' = store /\ UNCHANGED unread
       \/ /\ records' = [n \in Nonce |-> "absent"]
          /\ unread' = unread \cup {n \in Nonce : store[n] # "absent"}
    /\ UNCHANGED <<nonce, outcome, store, sec, claims, unsaved, accepted, fate>>

Step(r) ==
    \/ Refuse(r) \/ Claim(r) \/ Duplicate(r)
    \/ SendOK(r) \/ SendFails(r) \/ Poll(r)

Next ==
    \/ \E r \in Request : Step(r) \/ Mine(r)
    \/ Tick
    \/ Restart

Spec == Init /\ [][Next]_vars
-----------------------------------------------------------------------------
TypeOK ==
    /\ pc \in [Request -> PC]
    /\ nonce \in [Request -> Nonce \cup {NoNonce}]
    /\ outcome \in [Request -> Outcome]
    /\ records \in [Nonce -> Record] /\ store \in [Nonce -> Record]
    /\ sec \in 1..MaxSec
    /\ claims \in [Nonce -> Nat]
    /\ unsaved \in SUBSET Nonce /\ unread \in SUBSET Nonce
    /\ accepted \in [Nonce -> Nat]
    /\ fate \in [Request -> {"none", "pending", "success", "reverted"}]
    /\ crashes \in 0..MaxCrash

\* At most one call ever passes the guard with a nonce, also across restarts,
\* unless the disk refused the nonce or a boot could not read the file that held
\* it ("refuses to double-broadcast", R3).
ClaimedOnce == \A n \in Nonce : claims[n] <= 1 \/ n \in unsaved \cup unread

\* Whatever is on the chain is in the nonce file ("persist before broadcast"),
\* unless the disk refused it or a boot gave the file up: otherwise a crash at any
\* point leaves the evidence.
BroadcastWasSaved ==
    \A n \in Nonce : accepted[n] > 0 => store[n] # "absent" \/ n \in unsaved \cup unread

\* A confirmation, returned or on file, is of a transaction that succeeded; a
\* failure reported after the hash is of one that reverted, never of one whose
\* receipt was merely late (P0-1, P0-3).
ReportIsTrue ==
    /\ \A r \in Request :
          /\ outcome[r] = "confirmed" => fate[r] = "success"
          /\ outcome[r] = "failed_on_chain" => fate[r] = "reverted"
    /\ \A n \in Nonce : store[n] \in {"confirmed", "failed"} =>
          \E r \in Request : nonce[r] = n
              /\ fate[r] = IF store[n] = "confirmed" THEN "success" ELSE "reverted"

\* A nonce is spent once and leaves its evidence: types, ClaimedOnce and
\* BroadcastWasSaved.
NonceIsSpent == TypeOK /\ ClaimedOnce /\ BroadcastWasSaved

-----------------------------------------------------------------------------
\* "the same execution nonce is never broadcast twice" (lifi-executor.ts:17):
\* what the file says of itself, and the retry on a second host breaks.
NonceBroadcastOnce == \A n \in Nonce : accepted[n] <= 1
=============================================================================
