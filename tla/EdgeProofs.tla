----------------------------- MODULE EdgeProofs -----------------------------
(***************************************************************************)
(* Proofs about the edges of the program: LifiExecutor, which hands        *)
(* transactions to the chain, and the front office (FrontDesk with         *)
(* Operations), which takes requests and answers them.  For any requests,  *)
(* nonces, clocks, alerts and updates.  LifiInv joins the types, what the  *)
(* claim of a nonce leaves behind (Evidenced) and what a reported outcome  *)
(* rests on (Truthful); FrontInv joins one invariant each of the desk, the *)
(* alerts and the Telegram poll.                                           *)
(***************************************************************************)
EXTENDS LifiExecutor, Operations, FiniteSetTheorems, TLAPS

-----------------------------------------------------------------------------
(* The LI.FI executor                                                      *)

\* There is evidence of a nonce in the file, or the disk refused it, or a boot
\* could not read it.
Evidence(n) == store[n] # "absent" \/ n \in unsaved \cup unread

Active == {"sending", "retrying", "polling"}

\* A nonce that was claimed left its evidence; the file holds nothing the
\* memory does not, but for what a boot could not read of it; a call that sends or polls has claimed its nonce.
Evidenced ==
    /\ \A n \in Nonce : claims[n] > 0 => Evidence(n)
    /\ \A n \in Nonce : store[n] # "absent" => records[n] # "absent" \/ n \in unread
    /\ \A n \in Nonce : claims[n] <= 1 \/ n \in unsaved \cup unread
    /\ \A n \in Nonce : accepted[n] > 0 => Evidence(n)
    /\ \A r \in Request : pc[r] \in Active => nonce[r] \in Nonce /\ Evidence(nonce[r])

\* The verdict a record states of its nonce is the chain's on a request that
\* is over: nothing changes it any more.
Verdict(o) == IF o = "confirmed" THEN "success" ELSE "reverted"
Backed(book) ==
    \A n \in Nonce : book[n] \in {"confirmed", "failed"} =>
        \E r \in Request : pc[r] = "done" /\ nonce[r] = n /\ fate[r] = Verdict(book[n])

\* A call answers when it is done, and with the chain's verdict.
Truthful ==
    /\ \A r \in Request : pc[r] # "done" => outcome[r] = "none"
    /\ \A r \in Request : outcome[r] = "confirmed" => fate[r] = "success"
    /\ \A r \in Request : outcome[r] = "failed_on_chain" => fate[r] = "reverted"
    /\ Backed(records) /\ Backed(store)

LifiInv == TypeOK /\ Evidenced /\ Truthful
-----------------------------------------------------------------------------
\* The nonce a call computes is one.
LEMMA NonceNowType ==
    ASSUME TypeOK, NEW r \in Request
    PROVE  NonceNow(r) \in Nonce
  BY LifiConstants DEF TypeOK, NonceNow, Nonce

\* recordBroadcast never forgets a nonce, and the file it may write is the memory.
LEMMA RecordFacts ==
    ASSUME TypeOK, NEW n \in Nonce, NEW o \in Record \ {"absent"}, NEW saved \in BOOLEAN,
           RecordBroadcast(n, o, saved)
    PROVE  /\ records' \in [Nonce -> Record] /\ store' \in [Nonce -> Record]
           /\ \A m \in Nonce : records[m] # "absent" => records'[m] # "absent"
           /\ records'[n] # "absent"
           /\ \A m \in Nonce : m # n => records'[m] = records[m]
           /\ records'[n] = IF o = "open" /\ records[n] # "absent" THEN records[n] ELSE o
           /\ store' = IF saved THEN records' ELSE store
  BY DEF TypeOK, RecordBroadcast, Record, Final

\* The memory knows what the file knows and a boot could read, and writing only adds to the evidence.
LEMMA RecordKeepsEvidence ==
    ASSUME TypeOK, Evidenced,
           NEW n \in Nonce, NEW o \in Record \ {"absent"}, NEW saved \in BOOLEAN,
           RecordBroadcast(n, o, saved), unsaved \subseteq unsaved', unread' = unread
    PROVE  /\ \A m \in Nonce : Evidence(m) => Evidence(m)'
           /\ \A m \in Nonce : store'[m] # "absent" => records'[m] # "absent" \/ m \in unread'
           /\ saved => Evidence(n)'
  BY RecordFacts DEF Evidenced, Evidence
-----------------------------------------------------------------------------
\* The executor starts with nothing claimed and nothing told.
LEMMA LifiInitInv == Init => LifiInv
  <1> SUFFICES ASSUME Init PROVE LifiInv
    OBVIOUS
  <1>1. TypeOK
    BY LifiConstants DEF Init, TypeOK, PC, Outcome, Record, Final, NoNonce
  <1>2. Evidenced
    BY DEF Init, Evidenced, Active
  <1>3. Truthful
    BY DEF Init, Truthful, Backed
  <1> QED BY <1>1, <1>2, <1>3 DEF LifiInv
-----------------------------------------------------------------------------
\* A call that stops before its nonce is claimed changes nothing but its answer.
LEMMA StopKeepsInv ==
    ASSUME LifiInv, NEW r \in Request, pc[r] = "idle", Finish(r, "failed"),
           UNCHANGED <<nonce, records, store, sec, claims, unsaved, unread, accepted, fate, crashes>>
    PROVE  LifiInv'
  <1> USE DEF LifiInv, Finish
  <1>1. TypeOK'
    BY DEF TypeOK, PC, Outcome
  <1>2. Evidenced'
    BY DEF Evidenced, Evidence, Active, TypeOK
  <1>3. Truthful'
    BY DEF Truthful, Backed, Verdict, TypeOK
  <1> QED BY <1>1, <1>2, <1>3

\* Claim: the guard makes the first claim of a nonce the only one, unless the
\* file never got it.
LEMMA ClaimKeepsInv ==
    ASSUME LifiInv, NEW r \in Request, Claim(r)
    PROVE  LifiInv'
  <1> USE DEF LifiInv
  <1>1. PICK n \in Nonce : n = NonceNow(r)
    BY NonceNowType
  <1>2. PICK saved \in BOOLEAN :
          /\ RecordBroadcast(n, "open", saved)
          /\ unsaved' = IF saved THEN unsaved ELSE unsaved \cup {n}
    BY <1>1 DEF Claim
  <1>3. /\ pc[r] = "idle" /\ records[n] = "absent"
        /\ nonce' = [nonce EXCEPT ![r] = n]
        /\ claims' = [claims EXCEPT ![n] = @ + 1]
        /\ \/ pc' = [pc EXCEPT ![r] = "sending"] /\ UNCHANGED outcome
           \/ Finish(r, "failed")
        /\ UNCHANGED <<sec, unread, accepted, fate, crashes>>
    BY <1>1 DEF Claim
  <1>4. "open" \in Record \ {"absent"}
    BY DEF Record
  <1>5. TypeOK'
    <2>1. records' \in [Nonce -> Record] /\ store' \in [Nonce -> Record]
      BY <1>1, <1>2, <1>4, RecordFacts
    <2>2. unsaved' \in SUBSET Nonce
      BY <1>1, <1>2 DEF TypeOK
    <2>3. pc' \in [Request -> PC] /\ outcome' \in [Request -> Outcome]
      BY <1>3 DEF TypeOK, Finish, PC, Outcome
    <2>4. nonce' \in [Request -> Nonce \cup {NoNonce}] /\ claims' \in [Nonce -> Nat]
      BY <1>1, <1>3 DEF TypeOK
    <2> QED BY <1>3, <2>1, <2>2, <2>3, <2>4 DEF TypeOK
  <1>6. /\ \A m \in Nonce : Evidence(m) => Evidence(m)'
        /\ \A m \in Nonce : store'[m] # "absent" => records'[m] # "absent" \/ m \in unread'
        /\ saved => Evidence(n)'
    <2>1. unsaved \subseteq unsaved' /\ unread' = unread
      BY <1>2, <1>3
    <2> QED BY <2>1, <1>2, <1>4, RecordKeepsEvidence
  <1>7. Evidence(n)'
    BY <1>2, <1>6 DEF Evidence
  <1>8. claims[n] = 0 \/ n \in unsaved \cup unread
    BY <1>1, <1>3 DEF Evidenced, Evidence, TypeOK
  <1>9. Evidenced'
    <2>1. \A m \in Nonce : claims'[m] > 0 => Evidence(m)'
      BY <1>3, <1>6, <1>7 DEF Evidenced, TypeOK
    <2>2. \A m \in Nonce : claims'[m] <= 1 \/ m \in (unsaved \cup unread)'
      BY <1>1, <1>2, <1>3, <1>8 DEF Evidenced, TypeOK
    <2>3. \A m \in Nonce : accepted'[m] > 0 => Evidence(m)'
      BY <1>3, <1>6 DEF Evidenced
    <2>4. \A q \in Request : pc'[q] \in Active => nonce'[q] \in Nonce /\ Evidence(nonce[q])'
      BY <1>3, <1>6, <1>7 DEF Evidenced, TypeOK, Active, Finish
    <2> QED BY <1>6, <2>1, <2>2, <2>3, <2>4 DEF Evidenced
  <1>10. Truthful'
    <2>1. /\ \A q \in Request : pc[q] = "done" => pc'[q] = "done" /\ nonce'[q] = nonce[q]
          /\ \A q \in Request : pc'[q] # "done" => outcome'[q] = "none"
      BY <1>3 DEF Truthful, TypeOK, Finish
    <2>2. /\ \A q \in Request : outcome'[q] = "confirmed" => fate'[q] = "success"
          /\ \A q \in Request : outcome'[q] = "failed_on_chain" => fate'[q] = "reverted"
      BY <1>3 DEF Truthful, TypeOK, Finish
    <2>3. Backed(records)' /\ Backed(store)'
      BY <1>1, <1>2, <1>3, <1>4, <2>1, RecordFacts DEF Truthful, Backed, Verdict
    <2> QED BY <2>1, <2>2, <2>3 DEF Truthful
  <1> QED BY <1>5, <1>9, <1>10

\* SendOK: what a host accepted has its evidence already.
LEMMA SendOKKeepsInv ==
    ASSUME LifiInv, NEW r \in Request, SendOK(r)
    PROVE  LifiInv'
  <1> USE DEF LifiInv
  <1>1. /\ pc[r] \in Active /\ pc[r] # "done" /\ pc[r] \in {"sending", "retrying"}
        /\ outcome[r] = "none"
    BY DEF SendOK, Active, Truthful
  <1>2. PICK n \in Nonce : n = nonce[r] /\ Evidence(n)
    BY <1>1 DEF Evidenced
  <1>3. PICK saved \in BOOLEAN : RecordBroadcast(n, "open", saved)
    BY <1>2 DEF SendOK, Hashed
  <1>4. PICK f \in {"success", "pending"} :
          /\ accepted' = [accepted EXCEPT ![n] = @ + 1]
          /\ fate' = [fate EXCEPT ![r] = f]
    BY <1>2 DEF SendOK, Accept
  <1>5. /\ \/ Finish(r, "swapped")
           \/ pc' = [pc EXCEPT ![r] = "polling"] /\ UNCHANGED outcome
        /\ UNCHANGED <<nonce, sec, claims, unsaved, unread, crashes>>
    BY DEF SendOK, Hashed
  <1>6. "open" \in Record \ {"absent"}
    BY DEF Record
  <1>7. TypeOK'
    BY <1>3, <1>4, <1>5, <1>6, RecordFacts, SMTT(30) DEF TypeOK, Finish, PC, Outcome
  <1>8. /\ \A m \in Nonce : Evidence(m) => Evidence(m)'
        /\ \A m \in Nonce : store'[m] # "absent" => records'[m] # "absent" \/ m \in unread'
    BY <1>3, <1>5, <1>6, RecordKeepsEvidence
  <1>9. Evidenced'
    <2>1. \A m \in Nonce : accepted'[m] > 0 => Evidence(m)'
      BY <1>2, <1>4, <1>8 DEF Evidenced, TypeOK
    <2>2. \A m \in Nonce : claims'[m] > 0 => Evidence(m)'
      BY <1>5, <1>8 DEF Evidenced
    <2>3. \A m \in Nonce : claims'[m] <= 1 \/ m \in (unsaved \cup unread)'
      BY <1>5 DEF Evidenced
    <2>4. \A q \in Request : pc'[q] \in Active => nonce'[q] \in Nonce /\ Evidence(nonce[q])'
      BY <1>1, <1>5, <1>8 DEF Evidenced, TypeOK, Finish
    <2> QED BY <1>8, <2>1, <2>2, <2>3, <2>4 DEF Evidenced
  <1>10. Truthful'
    <2>1. \A q \in Request : pc[q] = "done" => pc'[q] = "done" /\ nonce'[q] = nonce[q] /\ fate'[q] = fate[q]
      BY <1>1, <1>4, <1>5 DEF TypeOK, Finish
    <2>2. /\ \A q \in Request : pc'[q] # "done" => outcome'[q] = "none"
          /\ \A q \in Request : outcome'[q] = "confirmed" => fate'[q] = "success"
          /\ \A q \in Request : outcome'[q] = "failed_on_chain" => fate'[q] = "reverted"
      BY <1>1, <1>4, <1>5 DEF Truthful, TypeOK, Finish
    <2>3. \A m \in Nonce : records'[m] \in {records[m], "open"} /\ store'[m] \in {store[m], records'[m]}
      BY <1>3, <1>6, RecordFacts
    <2>4. Backed(records)' /\ Backed(store)'
      BY <2>1, <2>3 DEF Truthful, Backed, Verdict
    <2> QED BY <2>2, <2>4 DEF Truthful
  <1> QED BY <1>7, <1>9, <1>10

\* SendFails: the host may have taken the transaction all the same.
LEMMA SendFailsKeepsInv ==
    ASSUME LifiInv, NEW r \in Request, SendFails(r)
    PROVE  LifiInv'
  <1> USE DEF LifiInv
  <1>1. /\ pc[r] \in Active /\ pc[r] # "done" /\ outcome[r] = "none"
        /\ pc[r] \in {"sending", "retrying"}
    BY DEF SendFails, Active, Truthful
  <1>2. PICK n \in Nonce : n = nonce[r] /\ Evidence(n)
    BY <1>1 DEF Evidenced
  <1>3. /\ \/ accepted' = [accepted EXCEPT ![n] = @ + 1] /\ fate' = [fate EXCEPT ![r] = "pending"]
           \/ UNCHANGED <<accepted, fate>>
        /\ \/ pc' = [pc EXCEPT ![r] = "retrying"] /\ UNCHANGED outcome
           \/ Finish(r, "failed")
        /\ UNCHANGED <<nonce, records, store, sec, claims, unsaved, unread, crashes>>
    BY <1>2 DEF SendFails, Accept
  <1>4. TypeOK'
    BY <1>3 DEF TypeOK, Finish, PC, Outcome
  <1>5. Evidenced'
    BY <1>1, <1>2, <1>3 DEF Evidenced, Evidence, TypeOK, Finish
  <1>6. Truthful'
    <2>1. \A q \in Request : pc[q] = "done" => pc'[q] = "done" /\ nonce'[q] = nonce[q] /\ fate'[q] = fate[q]
      BY <1>1, <1>3 DEF TypeOK, Finish
    <2>2. /\ \A q \in Request : pc'[q] # "done" => outcome'[q] = "none"
          /\ \A q \in Request : outcome'[q] = "confirmed" => fate'[q] = "success"
          /\ \A q \in Request : outcome'[q] = "failed_on_chain" => fate'[q] = "reverted"
      BY <1>1, <1>3 DEF Truthful, TypeOK, Finish
    <2>3. Backed(records)' /\ Backed(store)'
      BY <1>3, <2>1 DEF Truthful, Backed, Verdict
    <2> QED BY <2>2, <2>3 DEF Truthful
  <1> QED BY <1>4, <1>5, <1>6

\* Poll: the answer and the record say what the chain said, or that nothing
\* was to be seen yet.
LEMMA PollKeepsInv ==
    ASSUME LifiInv, NEW r \in Request, Poll(r)
    PROVE  LifiInv'
  <1> USE DEF LifiInv
  <1>1. pc[r] = "polling" /\ pc[r] \in Active
    BY DEF Poll, Active
  <1>2. PICK n \in Nonce : n = nonce[r]
    BY <1>1 DEF Evidenced
  <1>3. PICK o \in Final, saved \in BOOLEAN :
          /\ RecordBroadcast(n, o, saved)
          /\ Finish(r, IF o = "failed" THEN "failed_on_chain" ELSE o)
          /\ o # "timed_out" => fate[r] = Verdict(o)
    BY <1>2 DEF Poll, Reported, Reconciled, Final, Verdict
  <1>4. UNCHANGED <<nonce, sec, claims, unsaved, unread, accepted, fate, crashes>>
    BY DEF Poll
  <1>5. o \in Record \ {"absent"} /\ o \in {"confirmed", "failed", "timed_out"}
    BY DEF Record, Final
  <1>6. TypeOK'
    BY <1>3, <1>4, <1>5, RecordFacts DEF TypeOK, Finish, PC, Outcome
  <1>7. /\ \A m \in Nonce : Evidence(m) => Evidence(m)'
        /\ \A m \in Nonce : store'[m] # "absent" => records'[m] # "absent" \/ m \in unread'
    BY <1>3, <1>4, <1>5, RecordKeepsEvidence
  <1>8. Evidenced'
    BY <1>3, <1>4, <1>7 DEF Evidenced, TypeOK, Finish, Active
  <1>9. Truthful'
    <2>1. /\ pc'[r] = "done" /\ nonce'[r] = n /\ fate'[r] = fate[r]
          /\ \A q \in Request : pc[q] = "done" => pc'[q] = "done" /\ nonce'[q] = nonce[q] /\ fate'[q] = fate[q]
      BY <1>2, <1>3, <1>4 DEF TypeOK, Finish
    <2>2. /\ \A q \in Request : pc'[q] # "done" => outcome'[q] = "none"
          /\ \A q \in Request : outcome'[q] = "confirmed" => fate'[q] = "success"
          /\ \A q \in Request : outcome'[q] = "failed_on_chain" => fate'[q] = "reverted"
      BY <1>3, <1>4, <1>5 DEF Truthful, TypeOK, Finish, Verdict
    <2>3. records'[n] = o /\ (\A m \in Nonce : m # n => records'[m] = records[m])
      BY <1>3, <1>5, RecordFacts
    <2>4. Backed(records)'
      BY <1>3, <2>1, <2>3 DEF Truthful, Backed, Verdict
    <2>5. Backed(store)'
      BY <1>3, <2>1, <2>4 DEF Truthful, Backed, Verdict, RecordBroadcast
    <2> QED BY <2>2, <2>4, <2>5 DEF Truthful
  <1> QED BY <1>6, <1>8, <1>9

\* Mine: the chain decides only what it had not decided.
LEMMA MineKeepsInv ==
    ASSUME LifiInv, NEW r \in Request, Mine(r)
    PROVE  LifiInv'
  <1> USE DEF LifiInv, Mine
  <1>1. TypeOK'
    BY DEF TypeOK
  <1>2. Evidenced'
    BY DEF Evidenced, Evidence
  <1>3. Truthful'
    <2>1. \A q \in Request : fate[q] \in {"success", "reverted"} => fate'[q] = fate[q]
      BY DEF TypeOK
    <2> QED BY <2>1 DEF Truthful, Backed, Verdict
  <1> QED BY <1>1, <1>2, <1>3

\* Restart: the memory holds what the file held, or nothing.
LEMMA RestartKeepsInv ==
    ASSUME LifiInv, Restart
    PROVE  LifiInv'
  <1> USE DEF LifiInv, Restart
  <1>1. TypeOK'
    <2>1. records' \in [Nonce -> Record] /\ unread' \in SUBSET Nonce
      BY DEF TypeOK, Record
    <2>2. pc' \in [Request -> PC] /\ crashes' \in 0..MaxCrash
      BY LifiConstants DEF TypeOK, PC
    <2> QED BY <2>1, <2>2 DEF TypeOK
  <1>2. Evidenced'
    BY DEF Evidenced, Evidence, Active
  <1>3. Truthful'
    BY DEF Truthful, Backed
  <1> QED BY <1>1, <1>2, <1>3

\* Every step keeps the invariant.
LEMMA LifiStep == LifiInv /\ [Next]_vars => LifiInv'
  <1> SUFFICES ASSUME LifiInv, [Next]_vars PROVE LifiInv'
    OBVIOUS
  <1>1. ASSUME NEW r \in Request, Refuse(r) \/ Duplicate(r) PROVE LifiInv'
    BY <1>1, StopKeepsInv DEF Refuse, Duplicate
  <1>2. ASSUME NEW r \in Request, Claim(r) PROVE LifiInv'
    BY <1>2, ClaimKeepsInv
  <1>3. ASSUME NEW r \in Request, SendOK(r) PROVE LifiInv'
    BY <1>3, SendOKKeepsInv
  <1>4. ASSUME NEW r \in Request, SendFails(r) PROVE LifiInv'
    BY <1>4, SendFailsKeepsInv
  <1>5. ASSUME NEW r \in Request, Poll(r) PROVE LifiInv'
    BY <1>5, PollKeepsInv
  <1>6. ASSUME NEW r \in Request, Mine(r) PROVE LifiInv'
    BY <1>6, MineKeepsInv
  <1>7. CASE Tick
    BY <1>7, LifiConstants
       DEF Tick, LifiInv, TypeOK, Evidenced, Evidence, Truthful, Backed, Verdict
  <1>8. CASE Restart
    BY <1>8, RestartKeepsInv
  <1>9. CASE UNCHANGED vars
    BY <1>9 DEF vars, LifiInv, TypeOK, Evidenced, Evidence, Truthful, Backed, Verdict
  <1> QED BY <1>1, <1>2, <1>3, <1>4, <1>5, <1>6, <1>7, <1>8, <1>9 DEF Next, Step

\* LifiInv holds throughout, whatever requests, clocks and crashes there are.
THEOREM LifiInvariant == Spec => []LifiInv
  BY LifiInitInv, LifiStep, PTL DEF Spec
-----------------------------------------------------------------------------
\* A nonce passes the guard once and whatever reached the chain under it is in
\* the file, also across crashes, unless the disk refused it or a boot could not
\* read it (lifi-executor.ts, submit and swap with the broadcast-nonce store).
THEOREM NoncesAreSpent == Spec => []NonceIsSpent
  <1>1. LifiInv => NonceIsSpent
    BY DEF LifiInv, NonceIsSpent, Evidenced, Evidence, ClaimedOnce, BroadcastWasSaved
  <1> QED BY <1>1, LifiInvariant, PTL

\* What the executor answers, and what it left on file, is what the chain said
\* of a transaction of that nonce (the poll and its reconciliation).
THEOREM ReportsAreTrue == Spec => []ReportIsTrue
  <1>1. LifiInv => ReportIsTrue
    BY DEF LifiInv, Truthful, Backed, Verdict, ReportIsTrue
  <1> QED BY <1>1, LifiInvariant, PTL

-----------------------------------------------------------------------------
(* The front desk                                                          *)

DeskText == {"nothing", "done", "simulated", "refused", "failed", "silence"}
Over == {"answering", "apologising", "closed"}
Free == {"looking", "screening", "auditing", "commanding", "thinking", "tooling", "summing"}
DeskStage == {"idle", "asked", "paying"} \cup Free \cup Over

DeskRecord ==
    [ask : {NoAsk} \cup UNION {Asked[r] : r \in Req}, stage : DeskStage, late : BOOLEAN, deferred : BOOLEAN,
     text : DeskText, said : DeskText, round : Int, tries : Int, todo : Int]

\* Of a request and what it paid: only a request that spends pays, in one go, and is
\* then as good as over; what spends does nothing else; what was said is the text.
Sound(d, p) ==
    /\ d \in DeskRecord /\ p \in {0, 1, 2} /\ (p = 2 => d.ask.name = "swap")
    /\ d.stage = "idle" => d.ask = NoAsk
    /\ d.stage = "paying" => Spends(d.ask)
    /\ d.stage \in Free => ~Spends(d.ask)
    /\ p # 0 => Spends(d.ask) /\ d.stage \in Over /\ d.text \in {"done", "simulated", "failed"}
    /\ d.text = "done" /\ Spends(d.ask) => p # 0
    /\ d.said # "nothing" => d.stage = "closed" /\ d.said \in {d.text, "failed"}

DeskInv ==
    /\ desk = [r \in Req |-> desk[r]] /\ paid = [r \in Req |-> paid[r]]
    /\ \A r \in Req : Sound(desk[r], paid[r])

\* What changes one request soundly is sound.
LEMMA OneRequest ==
    ASSUME DeskInv, NEW r \in Req, NEW d, NEW p, Sound(d, p),
           desk' = [desk EXCEPT ![r] = d], paid' = [paid EXCEPT ![r] = p]
    PROVE  DeskInv'
  <1>1. \A q \in Req : desk'[q] = (IF q = r THEN d ELSE desk[q]) /\ paid'[q] = (IF q = r THEN p ELSE paid[q])
    BY DEF DeskInv
  <1>2. \A q \in Req : Sound(desk'[q], paid'[q])
    BY <1>1 DEF DeskInv
  <1>3. desk' = [q \in Req |-> desk'[q]] /\ paid' = [q \in Req |-> paid'[q]]
    BY DEF DeskInv
  <1> QED BY <1>2, <1>3 DEF DeskInv

\* The same, when nothing was paid.
LEMMA OneUnpaid ==
    ASSUME DeskInv, NEW r \in Req, NEW d, Sound(d, paid[r]), desk' = [desk EXCEPT ![r] = d], paid' = paid
    PROVE  DeskInv'
  <1>1. paid' = [paid EXCEPT ![r] = paid[r]]
    BY DEF DeskInv
  <1> QED BY <1>1, OneRequest

\* A request that is answered without a payment.
LEMMA AnswersInv ==
    ASSUME DeskInv, NEW r \in Req, NEW text \in DeskText, NEW w, Answers(r, text, w),
           desk[r].stage \notin Over, text = "done" => ~Spends(desk[r].ask)
    PROVE  DeskInv'
  <1> DEFINE d == [desk[r] EXCEPT !.stage = "answering", !.text = text]
  <1>1. Sound(desk[r], paid[r])
    BY DEF DeskInv
  <1>2. Sound(d, paid[r])
    BY <1>1 DEF Sound, DeskRecord, DeskStage, Over, Free
  <1>3. desk' = [desk EXCEPT ![r] = d] /\ paid' = paid
    BY DEF Answers, DeskInv
  <1> HIDE DEF d
  <1> QED BY <1>2, <1>3, OneUnpaid

\* One that goes on working.
LEMMA GoesInv ==
    ASSUME DeskInv, NEW r \in Req, NEW stage \in Free \cup {"paying"},
           desk' = [desk EXCEPT ![r].stage = stage] \/ desk' = [desk EXCEPT ![r].deferred = TRUE, ![r].stage = stage],
           paid' = paid, desk[r].stage \notin Over, (stage = "paying") <=> Spends(desk[r].ask)
    PROVE  DeskInv'
  <1>1. Sound(desk[r], paid[r])
    BY DEF DeskInv
  <1>2. PICK d : /\ d \in {[desk[r] EXCEPT !.stage = stage], [desk[r] EXCEPT !.deferred = TRUE, !.stage = stage]}
                 /\ desk' = [desk EXCEPT ![r] = d]
    BY DEF DeskInv
  <1>3. d \in DeskRecord /\ d.stage = stage /\ d.ask = desk[r].ask /\ d.said = desk[r].said /\ d.text = desk[r].text
    BY <1>1, <1>2 DEF Sound, DeskRecord, DeskStage
  <1>4. stage \notin Over /\ stage # "idle" /\ desk[r].said = "nothing" /\ paid[r] = 0
    BY <1>1 DEF Sound, Over, Free
  <1>5. Sound(d, paid[r])
    BY <1>1, <1>3, <1>4 DEF Sound, Free
  <1> QED BY <1>2, <1>5, OneUnpaid

\* One whose handler threw.
LEMMA ThrowsInv ==
    ASSUME DeskInv, NEW r \in Req, Throws(r), desk[r].stage # "closed"
    PROVE  DeskInv'
  <1> DEFINE d == [desk[r] EXCEPT !.stage = IF Interactive(r) THEN "apologising" ELSE "closed", !.text = "failed"]
  <1>1. Sound(desk[r], paid[r])
    BY DEF DeskInv
  <1>2. /\ d \in DeskRecord /\ d.stage \in {"apologising", "closed"} /\ d.ask = desk[r].ask
        /\ d.said = desk[r].said /\ d.text = "failed"
    BY <1>1 DEF Sound, DeskRecord, DeskStage, Over, DeskText
  <1>3. desk' = [desk EXCEPT ![r] = d] /\ paid' = paid
    BY DEF Throws, DeskInv
  <1> HIDE DEF d
  <1>4. desk[r].said = "nothing"
    BY <1>1 DEF Sound
  <1>5. Sound(d, paid[r])
    BY <1>1, <1>2, <1>4 DEF Sound, Over, Free
  <1> QED BY <1>3, <1>5, OneUnpaid

\* A request is turned down.
LEMMA RefusedInv ==
    ASSUME DeskInv, NEW r \in Req, At(r, "asked"), NEW w, Answers(r, "refused", w)
    PROVE  DeskInv'
  BY AnswersInv DEF At, Over, DeskText

\* What a command asks for is said by its name.
LEMMA NameSays ==
    ASSUME NEW r, NEW door, NEW names, Asks(r, door, names), door # "chat"
    PROVE  At(r, "asked") /\ (Spends(desk[r].ask) <=> desk[r].ask.name \in {"swap", "send", "wallet withdraw", "/withdraw"})
  BY DEF Asks, Spends

\* The ways in which a handler begins that does not spend.
LEMMA FreeInv ==
    ASSUME DeskInv, NEW r \in Req, At(r, "asked"), ~Spends(desk[r].ask),
           \/ Reads(r)
           \/ \E o, v : Changes(r, o, v)
           \/ \E text \in {"done", "refused"} : \E w : Answers(r, text, w)
           \/ \E stage \in Free : Goes(r, stage) \/ Defers(r, stage)
           \/ \E stage \in Free : desk' = [desk EXCEPT ![r].stage = stage] /\ paid' = paid
    PROVE  DeskInv'
  <1>1. desk[r].stage \notin Over /\ desk[r].stage # "closed"
    BY DEF At, Over
  <1>2. ASSUME NEW text \in {"done", "refused"}, NEW w, Answers(r, text, w) PROVE DeskInv'
    BY <1>1, <1>2, AnswersInv DEF DeskText
  <1>3. CASE Reads(r)
    BY <1>2, <1>3 DEF Reads
  <1>4. CASE \E o, v : Changes(r, o, v)
    BY <1>2, <1>4 DEF Changes
  <1>5. ASSUME NEW stage \in Free, Goes(r, stage) PROVE DeskInv'
    <2>1. stage # "paying"
      BY DEF Free
    <2> QED BY <1>1, <1>5, <2>1, GoesInv DEF Goes
  <1>6. ASSUME NEW stage \in Free, Defers(r, stage) PROVE DeskInv'
    <2>1. stage # "paying"
      BY DEF Free
    <2> QED BY <1>1, <1>6, <2>1, GoesInv, ThrowsInv DEF Defers
  <1>7. ASSUME NEW stage \in Free, desk' = [desk EXCEPT ![r].stage = stage] /\ paid' = paid PROVE DeskInv'
    <2>1. stage # "paying"
      BY DEF Free
    <2> QED BY <1>1, <1>7, <2>1, GoesInv
  <1> QED BY <1>2, <1>3, <1>4, <1>5, <1>6, <1>7

\* And in which one begins that does.
LEMMA SpendInv ==
    ASSUME DeskInv, NEW r \in Req, At(r, "asked"), Spends(desk[r].ask), Goes(r, "paying") \/ Defers(r, "paying")
    PROVE  DeskInv'
  <1>1. desk[r].stage \notin Over /\ desk[r].stage # "closed"
    BY DEF At, Over
  <1> QED BY <1>1, GoesInv, ThrowsInv DEF Goes, Defers

\* Every slash command: what it does in its first step.
LEMMA SlashInv == ASSUME DeskInv, NEW r \in Req, SlashCommand(r) PROVE DeskInv'
  <1> USE NameSays, FreeInv, RefusedInv, SpendInv DEF Guarded, Free
  <1>1. CASE WalletCommand(r)
    BY <1>1 DEF WalletCommand, Asks
  <1>2. CASE AnalyzeCommand(r)
    BY <1>2 DEF AnalyzeCommand, Asks
  <1>3. CASE ScreeningCommand(r)
    BY <1>3 DEF ScreeningCommand, Asks
  <1>4. CASE CancelCommand(r) \/ ConfigCommand(r) \/ HealthCommand(r) \/ JournalCommand(r) \/ UpdateCommand(r)
    BY <1>4 DEF CancelCommand, ConfigCommand, HealthCommand, JournalCommand, UpdateCommand, Asks
  <1>5. CASE StrategyCommand(r)
    BY <1>5 DEF StrategyCommand, Asks
  <1>6. CASE ChannelCommand(r) \/ LookupCommand(r) \/ MenuCommand(r)
    BY <1>6 DEF ChannelCommand, LookupCommand, MenuCommand, Asks
  <1>7. CASE AlertCommand(r)
    BY <1>7 DEF AlertCommand, Asks
  <1>8. CASE SwapCommand(r) \/ SendCommand(r)
    BY <1>8 DEF SwapCommand, SendCommand, Asks
  <1> QED BY <1>1, <1>2, <1>3, <1>4, <1>5, <1>6, <1>7, <1>8 DEF SlashCommand

\* Buttons, menus and modals never spend.
LEMMA PressInv ==
    ASSUME DeskInv, NEW r \in Req, ModalSubmit(r) \/ SelectMenu(r) \/ ButtonPress(r)
    PROVE  DeskInv'
  <1> USE NameSays, FreeInv, RefusedInv DEF Guarded, Free
  <1>1. CASE ModalSubmit(r)
    BY <1>1 DEF ModalSubmit, Asks
  <1>2. CASE SelectMenu(r)
    BY <1>2 DEF SelectMenu, Asks
  <1>3. CASE ButtonPress(r)
    BY <1>3 DEF ButtonPress, Asks
  <1> QED BY <1>1, <1>2, <1>3

\* A message asks for no payment by its name, and none is made for its words.
LEMMA ChatInv == ASSUME DeskInv, NEW r \in Req, ChatMessage(r) PROVE DeskInv'
  <1>1. At(r, "asked") /\ desk[r].ask.door = "chat"
    BY DEF ChatMessage
  <1>2. desk[r].ask \in {NoAsk} \cup UNION {Asked[q] : q \in Req}
    BY DEF DeskInv, Sound, DeskRecord
  <1>3. desk[r].ask.name = "message"
    BY <1>1, <1>2, DeskAssumption DEF NoAsk
  <1>4. ~Spends(desk[r].ask)
    BY <1>3 DEF Spends
  <1> QED BY <1>1, <1>4, FreeInv, RefusedInv DEF ChatMessage, AuditIntent, Free

\* Telegram and the API.
LEMMA UpdateInv ==
    ASSUME DeskInv, NEW r \in Req, TelegramUpdate(r) \/ ApiRequest(r)
    PROVE  DeskInv'
  <1> USE NameSays, FreeInv, RefusedInv, SpendInv DEF Guarded, Free
  <1>1. CASE TelegramUpdate(r)
    BY <1>1 DEF TelegramUpdate, Asks
  <1>2. CASE ApiRequest(r)
    BY <1>2 DEF ApiRequest, Asks
  <1> QED BY <1>1, <1>2

\* Work that does not spend ends with an answer or an error, or goes on.
LEMMA WorkInv ==
    ASSUME DeskInv, NEW r \in Req,
           \/ ScreeningWorks(r) \/ AuditEnds(r)
           \/ \E b \in BOOLEAN : LookupEnds(r, b)
           \/ \E t \in Tools : ApiCommands(r, t)
    PROVE  DeskInv'
  <1>1. ASSUME NEW stage \in Free, At(r, stage)
        PROVE  ~Spends(desk[r].ask) /\ desk[r].stage \notin Over /\ desk[r].stage # "closed"
    BY <1>1 DEF At, DeskInv, Sound, Over, Free
  <1>2. ASSUME NEW text \in {"done", "refused"}, NEW w, Answers(r, text, w), NEW stage \in Free, At(r, stage) PROVE DeskInv'
    BY <1>1, <1>2, AnswersInv DEF DeskText
  <1>3. CASE ScreeningWorks(r)
    <2>1. At(r, "screening") /\ "screening" \in Free
      BY <1>3 DEF ScreeningWorks, Free
    <2>2. ASSUME Goes(r, "looking") PROVE DeskInv'
      <3>1. ~Spends(desk[r].ask) /\ desk[r].stage \notin Over
        BY <1>1, <2>1
      <3>2. "looking" \in Free \cup {"paying"} /\ "looking" # "paying"
        BY DEF Free
      <3>3. desk' = [desk EXCEPT ![r].stage = "looking"] /\ paid' = paid
        BY <2>2 DEF Goes
      <3> QED BY <3>1, <3>2, <3>3, GoesInv
    <2> QED BY <1>2, <1>3, <2>1, <2>2 DEF ScreeningWorks, Changes, Reads
  <1>4. CASE AuditEnds(r)
    BY <1>2, <1>4 DEF AuditEnds, Changes, Free
  <1>5. CASE \E b \in BOOLEAN : LookupEnds(r, b)
    BY <1>1, <1>2, <1>5, ThrowsInv DEF LookupEnds, Reads, Free
  <1>6. CASE \E t \in Tools : ApiCommands(r, t)
    BY <1>2, <1>6 DEF ApiCommands, Free
  <1> QED BY <1>3, <1>4, <1>5, <1>6

\* A request that goes on to other work.
LEMMA Restaged ==
    ASSUME NEW d \in DeskRecord, NEW stage \in Free
    PROVE  LET e == [d EXCEPT !.stage = stage, !.tries = 0]
           IN  e \in DeskRecord /\ e.stage \in Free /\ e.ask = d.ask /\ e.said = d.said /\ e.text = d.text
  <1>1. stage \in DeskStage
    BY DEF DeskStage
  <1> DEFINE e == [d EXCEPT !.stage = stage, !.tries = 0]
  <1>2. e \in DeskRecord
    <2>1. [d EXCEPT !.stage = stage] \in DeskRecord
      BY <1>1 DEF DeskRecord
    <2>2. ASSUME NEW f \in DeskRecord PROVE [f EXCEPT !.tries = 0] \in DeskRecord
      BY DEF DeskRecord
    <2>3. e = [[d EXCEPT !.stage = stage] EXCEPT !.tries = 0]
      OBVIOUS
    <2> QED BY <2>1, <2>2, <2>3
  <1>3. e.stage = stage /\ e.ask = d.ask /\ e.said = d.said /\ e.text = d.text
    BY DEF DeskRecord
  <1> HIDE DEF e
  <1> QED BY <1>2, <1>3 DEF e

\* The model and its tools: none of them pays.
LEMMA ModelInv ==
    ASSUME DeskInv, NEW r \in Req,
           \/ \E t \in Tools : ToolRuns(r, t)
           \/ KeyFails(r) \/ ModelTalks(r) \/ \E n \in 1..MaxTools : ModelCallsTools(r, n)
    PROVE  DeskInv'
  <1>1. Sound(desk[r], paid[r])
    BY DEF DeskInv
  <1>2. desk[r].stage \in Free
    BY DEF ToolRuns, KeyFails, ModelTalks, ModelCallsTools, At, Free
  <1>3. paid' = paid
    BY DEF ToolRuns, KeyFails, ModelTalks, ModelCallsTools
  <1>4. ASSUME NEW d \in DeskRecord, desk' = [desk EXCEPT ![r] = d], d.stage \in Free \cup {"answering"},
               d.ask = desk[r].ask, d.said = desk[r].said, d.text \in {desk[r].text, "done", "silence"}
        PROVE  DeskInv'
    <2>1. Sound(d, paid[r])
      BY <1>1, <1>2, <1>4 DEF Sound, Over, Free
    <2> QED BY <1>3, <1>4, <2>1, OneUnpaid
  <1>5. desk[r] \in DeskRecord
    BY <1>1 DEF Sound
  <1>6. CASE \E t \in Tools : ToolRuns(r, t)
    <2> DEFINE D == [desk[r] EXCEPT !.todo = @ - 1]
               E == [D EXCEPT !.stage = NextRound(D), !.tries = 0]
               d == IF D.todo > 0 THEN D ELSE E
    <2>1. NextRound(D) \in {"summing", "thinking"}
      BY DEF NextRound
    <2>2. D \in DeskRecord
      BY <1>5 DEF DeskRecord
    <2>3. desk' = [desk EXCEPT ![r] = d]
      BY <1>6 DEF ToolRuns
    <2>4. /\ d \in DeskRecord /\ d.stage \in Free
          /\ d.ask = desk[r].ask /\ d.said = desk[r].said /\ d.text = desk[r].text
      <3>1. E \in DeskRecord /\ E.stage \in Free /\ E.ask = D.ask /\ E.said = D.said /\ E.text = D.text
        <4>1. NextRound(D) \in Free
          BY <2>1 DEF Free
        <4> HIDE DEF D
        <4> QED BY <2>2, <4>1, Restaged
      <3>2. D.stage = desk[r].stage /\ D.ask = desk[r].ask /\ D.said = desk[r].said /\ D.text = desk[r].text
        BY <1>5 DEF DeskRecord
      <3> HIDE DEF D, E
      <3> QED BY <1>2, <2>2, <3>1, <3>2
    <2> HIDE DEF d
    <2> QED BY <1>4, <2>3, <2>4
  <1>7. CASE KeyFails(r)
    <2> DEFINE D == [desk[r] EXCEPT !.tries = @ + 1]
               E == [D EXCEPT !.stage = "answering", !.text = "silence"]
               d == IF D.tries = AiKeys THEN E ELSE D
    <2>1. desk' = [desk EXCEPT ![r] = d]
      BY <1>7 DEF KeyFails
    <2>2. /\ d \in DeskRecord /\ d.stage \in Free \cup {"answering"}
          /\ d.ask = desk[r].ask /\ d.said = desk[r].said /\ d.text \in {desk[r].text, "silence"}
      <3>1. D \in DeskRecord
        BY <1>5 DEF DeskRecord
      <3>2. E \in DeskRecord /\ E.stage = "answering" /\ E.ask = D.ask /\ E.said = D.said /\ E.text = "silence"
        BY <3>1 DEF DeskRecord, DeskStage, DeskText, Over
      <3>3. D.stage = desk[r].stage /\ D.ask = desk[r].ask /\ D.said = desk[r].said /\ D.text = desk[r].text
        BY <1>5 DEF DeskRecord
      <3> HIDE DEF D, E
      <3> QED BY <1>2, <3>1, <3>2, <3>3
    <2> HIDE DEF d
    <2> QED BY <1>4, <2>1, <2>2
  <1>8. CASE ModelTalks(r)
    <2> DEFINE d == [desk[r] EXCEPT !.stage = "answering", !.text = "done"]
    <2>1. desk' = [desk EXCEPT ![r] = d]
      BY <1>8 DEF ModelTalks, DeskInv
    <2>2. /\ d \in DeskRecord /\ d.stage = "answering"
          /\ d.ask = desk[r].ask /\ d.said = desk[r].said /\ d.text = "done"
      BY <1>5 DEF DeskRecord, DeskStage, DeskText, Over
    <2> HIDE DEF d
    <2> QED BY <1>4, <2>1, <2>2
  <1>9. ASSUME NEW n \in 1..MaxTools, ModelCallsTools(r, n) PROVE DeskInv'
    <2> DEFINE round == IF desk[r].round < MaxRounds THEN desk[r].round + 1 ELSE desk[r].round
               d == [desk[r] EXCEPT !.stage = "tooling", !.todo = n, !.round = round]
    <2>1. desk' = [desk EXCEPT ![r] = d]
      BY <1>9 DEF ModelCallsTools, DeskInv
    <2>2. n \in Int /\ round \in Int
      BY <1>5 DEF DeskRecord
    <2>3. /\ d \in DeskRecord /\ d.stage = "tooling"
          /\ d.ask = desk[r].ask /\ d.said = desk[r].said /\ d.text = desk[r].text
      <3> HIDE DEF round
      <3> QED BY <1>5, <2>2 DEF DeskRecord, DeskStage, Free
    <2> HIDE DEF d
    <2> QED BY <1>4, <2>1, <2>3 DEF Free
  <1> QED BY <1>6, <1>7, <1>8, <1>9

\* A payment is made by a request that spends and had not paid.
LEMMA PaymentInv == ASSUME DeskInv, NEW r \in Req, PaymentEnds(r) PROVE DeskInv'
  <1>1. Sound(desk[r], paid[r]) /\ desk[r].stage = "paying" /\ paid[r] = 0 /\ Spends(desk[r].ask)
    BY DEF DeskInv, Sound, PaymentEnds, At, Over
  <1>2. ASSUME NEW result \in PaymentResults(desk[r].ask.name),
               paid' = [paid EXCEPT ![r] = IF @ + result.sent < PaidBound THEN @ + result.sent ELSE PaidBound],
               desk' = [desk EXCEPT ![r].stage = "answering", ![r].text = result.told]
        PROVE  DeskInv'
    <2> DEFINE d == [desk[r] EXCEPT !.stage = "answering", !.text = result.told]
    <2>1. /\ result.sent \in 0..2 /\ (desk[r].ask.name # "swap" => result.sent # 2)
          /\ result.told \in {"done", "simulated", "failed"} /\ (result.told = "done" => result.sent # 0)
      BY DEF PaymentResults
    <2>2. result.sent \in {0, 1, 2} /\ (result.sent = 2 => desk[r].ask.name = "swap")
      BY <2>1
    <2>3. desk' = [desk EXCEPT ![r] = d] /\ paid' = [paid EXCEPT ![r] = result.sent]
      <3>1. desk' = [desk EXCEPT ![r] = d]
        BY <1>2 DEF DeskInv
      <3>2. paid[r] + result.sent = result.sent /\ result.sent < PaidBound
        BY <1>1, <2>1 DEF PaidBound
      <3> QED BY <1>2, <3>1, <3>2
    <2>4. d \in DeskRecord /\ d.stage = "answering" /\ d.ask = desk[r].ask /\ d.said = desk[r].said /\ d.text = result.told
      BY <1>1, <2>1 DEF Sound, DeskRecord, DeskStage, Over, DeskText
    <2>5. desk[r].said = "nothing"
      BY <1>1 DEF Sound
    <2> HIDE DEF d
    <2>6. Sound(d, result.sent)
      BY <1>1, <2>1, <2>2, <2>4, <2>5 DEF Sound, Over, Free
    <2> QED BY <2>3, <2>6, OneRequest
  <1>3. CASE Throws(r)
    BY <1>1, <1>3, ThrowsInv
  <1> QED BY <1>2, <1>3 DEF PaymentEnds

\* An answer, or the apology for it, changes what was said and closes the request.
LEMMA AnswerInv ==
    ASSUME DeskInv, NEW r \in Req, NEW arrives \in BOOLEAN, AnswerArrives(r, arrives) \/ Apologises(r, arrives)
    PROVE  DeskInv'
  <1>1. Sound(desk[r], paid[r])
    BY DEF DeskInv
  <1>2. CASE Throws(r) /\ At(r, "answering")
    BY <1>2, ThrowsInv DEF At
  <1>3. ASSUME NEW said \in {desk[r].text, "failed", desk[r].said}, desk[r].stage \in {"answering", "apologising"},
               desk' = [desk EXCEPT ![r].stage = "closed", ![r].said = said], paid' = paid
        PROVE  DeskInv'
    <2> DEFINE d == [desk[r] EXCEPT !.stage = "closed", !.said = said]
    <2>1. desk[r].said = "nothing" /\ said \in {desk[r].text, "failed", "nothing"} /\ said \in DeskText
      BY <1>1, <1>3 DEF Sound, DeskRecord, DeskText
    <2>2. desk' = [desk EXCEPT ![r] = d]
      BY <1>3 DEF DeskInv
    <2>3. d \in DeskRecord /\ d.stage = "closed" /\ d.ask = desk[r].ask /\ d.said = said /\ d.text = desk[r].text
      BY <1>1, <2>1 DEF Sound, DeskRecord, DeskStage, Over
    <2> HIDE DEF d
    <2>4. Sound(d, paid[r])
      BY <1>1, <1>3, <2>1, <2>3 DEF Sound, Over, Free
    <2> QED BY <1>3, <2>2, <2>4, OneUnpaid
  <1>4. CASE AnswerArrives(r, arrives)
    BY <1>2, <1>3, <1>4 DEF AnswerArrives, At
  <1>5. CASE Apologises(r, arrives)
    BY <1>3, <1>5 DEF Apologises, At
  <1> QED BY <1>4, <1>5

\* A request arrives, or its time for a first answer runs out.
LEMMA ArriveInv ==
    ASSUME DeskInv, NEW r \in Req, RunsLate(r) \/ \E ask \in Asked[r] : Arrive(r, ask)
    PROVE  DeskInv'
  <1>1. Sound(desk[r], paid[r])
    BY DEF DeskInv
  <1>2. CASE RunsLate(r)
    <2> DEFINE d == [desk[r] EXCEPT !.late = TRUE]
    <2>1. Sound(d, paid[r])
      BY <1>1 DEF Sound, DeskRecord, DeskStage, Over, Free
    <2>2. desk' = [desk EXCEPT ![r] = d] /\ paid' = paid
      BY <1>2 DEF RunsLate, DeskInv
    <2> HIDE DEF d
    <2> QED BY <2>1, <2>2, OneUnpaid
  <1>3. ASSUME NEW ask \in Asked[r], Arrive(r, ask) PROVE DeskInv'
    <2> DEFINE d == [Fresh EXCEPT !.ask = ask, !.stage = "asked"]
    <2>1. paid[r] = 0
      BY <1>1, <1>3 DEF Arrive, At, Sound, Over
    <2>2. d \in DeskRecord
      <3>1. ask \in {NoAsk} \cup UNION {Asked[q] : q \in Req}
        OBVIOUS
      <3>2. Fresh \in DeskRecord
        BY DEF Fresh, DeskRecord, DeskStage, DeskText
      <3> QED BY <3>1, <3>2 DEF DeskRecord, DeskStage
    <2>3. Sound(d, paid[r])
      BY <2>1, <2>2 DEF Sound, Fresh, Over, Free
    <2>4. desk' = [desk EXCEPT ![r] = d] /\ paid' = paid
      BY <1>3 DEF Arrive, DeskInv
    <2> HIDE DEF d
    <2> QED BY <2>3, <2>4, OneUnpaid
  <1> QED BY <1>2, <1>3

\* Every step of the desk is sound.
LEMMA DeskStep == ASSUME DeskInv, [DeskNext]_deskVars PROVE DeskInv'
  <1>1. CASE UNCHANGED deskVars
    BY <1>1 DEF deskVars, DeskInv
  <1>2. ASSUME NEW r \in Req, Handlers(r) PROVE DeskInv'
    <2>1. CASE Misplaced(r)
      BY <2>1, RefusedInv DEF Misplaced
    <2>2. CASE SlashCommand(r) \/ ModalSubmit(r) \/ SelectMenu(r) \/ ButtonPress(r)
      BY <2>2, SlashInv, PressInv
    <2>3. CASE ChatMessage(r) \/ TelegramUpdate(r) \/ ApiRequest(r)
      BY <2>3, ChatInv, UpdateInv
    <2>4. ASSUME NEW b \in BOOLEAN, LookupEnds(r, b) \/ AnswerArrives(r, b) \/ Apologises(r, b)
          PROVE  DeskInv'
      BY <2>4, WorkInv, AnswerInv
    <2>5. CASE ScreeningWorks(r) \/ AuditEnds(r) \/ PaymentEnds(r) \/ \E t \in Tools : ApiCommands(r, t) \/ ToolRuns(r, t)
      BY <2>5, WorkInv, PaymentInv, ModelInv
    <2>6. CASE KeyFails(r) \/ ModelTalks(r) \/ \E n \in 1..MaxTools : ModelCallsTools(r, n)
      BY <2>6, ModelInv
    <2> QED BY <1>2, <2>1, <2>2, <2>3, <2>4, <2>5, <2>6 DEF Handlers
  <1> QED BY <1>1, <1>2, ArriveInv DEF DeskNext

LEMMA DeskInitInv == DeskInit => DeskInv
  <1> SUFFICES ASSUME DeskInit PROVE DeskInv
    OBVIOUS
  <1>1. Fresh \in DeskRecord /\ Fresh.said = "nothing" /\ Fresh.text = "nothing" /\ Fresh.stage = "idle" /\ Fresh.ask = NoAsk
    BY DEF Fresh, DeskRecord, DeskStage, DeskText
  <1>2. Sound(Fresh, 0)
    BY <1>1 DEF Sound, Over, Free
  <1> QED BY <1>2 DEF DeskInit, DeskInv

\* What is sound follows the request.
LEMMA DeskIsTrue == DeskInv => MoneyFollowsRequest
  <1> SUFFICES ASSUME DeskInv, NEW r \in Req
               PROVE  /\ desk[r].said = "refused" \/ ~Spends(desk[r].ask) => paid[r] = 0
                      /\ paid[r] <= IF desk[r].ask.name = "swap" THEN 2 ELSE 1
                      /\ desk[r].said = "done" /\ Spends(desk[r].ask) => paid[r] > 0
    BY DEF MoneyFollowsRequest
  <1>1. Sound(desk[r], paid[r])
    BY DEF DeskInv
  <1> QED BY <1>1 DEF Sound

-----------------------------------------------------------------------------
(* The services beside the desk                                            *)

AlertState == {"none", "active", "triggered"}

\* An alert that is gone is active neither in memory nor in the store's copy, nor,
\* once a shutdown has flushed it, in the file, but for a configuration tool's store.
AlertTypes ==
    /\ alerts \in [Alert -> AlertState] /\ kept \in [Alert -> AlertState] /\ disk \in [Alert -> AlertState]
    /\ loaded \in [Alert -> AlertState] \cup {Nothing} /\ gone \subseteq Alert
Watching ==
    /\ checking = [c \in Checker |-> checking[c]]
    /\ \A c \in Checker : checking[c] = [todo |-> checking[c].todo, hit |-> checking[c].hit] /\ checking[c].todo \in Seq(Alert)
Spent == \A a \in gone : alerts[a] # "active" /\ kept[a] # "active" /\ (stopping => disk[a] # "active" \/ a \in revived)
AlertInv == AlertTypes /\ Watching /\ Spent

\* A check watches alerts that were active.
LEMMA ActiveInTurn == SetToSeq(ActiveAlerts) \in Seq(Alert)
  <1> DEFINE n == Cardinality(ActiveAlerts)
  <1>1. IsFiniteSet(ActiveAlerts)
    BY OpsAssumption, FS_Subset DEF ActiveAlerts
  <1>2. n \in Nat /\ ExistsBijection(1..n, ActiveAlerts)
    BY <1>1, FS_CardinalityType
  <1>3. \E f \in [1..n -> ActiveAlerts] : IsInjective(f)
    BY <1>2 DEF ExistsBijection, Bijection, Injection
  <1>4. SetToSeq(ActiveAlerts) \in [1..n -> ActiveAlerts]
    BY <1>3 DEF SetToSeq
  <1>5. SetToSeq(ActiveAlerts) \in [1..n -> Alert]
    BY <1>4 DEF ActiveAlerts
  <1> HIDE DEF n
  <1> QED BY <1>2, <1>5

LEMMA AlertStep ==
    ASSUME AlertInv, [((AlertSteps /\ UNCHANGED boots) \/ Reboots)]_alertVars
    PROVE  AlertInv' /\ \A a \in gone \ revived : alerts'[a] # "active"
  <1> USE DEF AlertInv
  <1>1. ASSUME UNCHANGED checking PROVE Watching'
    BY <1>1 DEF Watching
  <1>2. ASSUME NEW a \in Alert, AddAlert(a) PROVE AlertInv'
    <2>1. AlertTypes'
      BY <1>2 DEF AddAlert, AlertTypes, AlertState
    <2>2. a \notin gone /\ \A b \in Alert \ {a} : alerts'[b] = alerts[b] /\ kept'[b] = kept[b]
      BY <1>2 DEF AddAlert, AlertTypes
    <2> QED BY <1>1, <1>2, <2>1, <2>2 DEF AddAlert, AlertTypes, Spent
  <1>3. ASSUME NEW a \in Alert, RemoveAlert(a) PROVE AlertInv'
    <2>1. AlertTypes'
      BY <1>3 DEF RemoveAlert, AlertTypes, AlertState
    <2>2. /\ alerts'[a] = "none" /\ kept'[a] = "none" /\ (stopping => gone' = gone)
          /\ \A b \in Alert \ {a} : alerts'[b] = alerts[b] /\ kept'[b] = kept[b]
      BY <1>3 DEF RemoveAlert, AlertTypes
    <2> QED BY <1>1, <1>3, <2>1, <2>2 DEF RemoveAlert, AlertTypes, Spent
  <1>4. ASSUME NEW c \in Checker, CheckBegins(c) PROVE AlertInv'
    <2>1. Watching'
      BY <1>4, ActiveInTurn DEF CheckBegins, Watching
    <2> QED BY <1>4, <2>1 DEF CheckBegins, AlertTypes, Spent
  <1>5. ASSUME NEW c \in Checker, NEW reached \in BOOLEAN, PriceAnswers(c, reached) PROVE AlertInv'
    <2> DEFINE a == Head(checking[c].todo)
    <2>1. a \in Alert /\ Tail(checking[c].todo) \in Seq(Alert)
      BY <1>5 DEF PriceAnswers, Watching
    <2>2. Watching'
      BY <1>5, <2>1 DEF PriceAnswers, Watching
    <2>3. CASE reached
      <3>1. /\ alerts' = [alerts EXCEPT ![a] = IF @ = "none" THEN @ ELSE "triggered"]
            /\ kept' = [kept EXCEPT ![a] = "triggered"]
            /\ gone' = IF stopping THEN gone ELSE gone \cup {a}
            /\ UNCHANGED <<disk, stopping, loaded, revived>>
        BY <1>5, <2>3 DEF PriceAnswers, TriggerSaved
      <3> HIDE DEF a
      <3>2. AlertTypes'
        BY <2>1, <3>1 DEF AlertTypes, AlertState
      <3>3. /\ alerts'[a] # "active" /\ kept'[a] # "active"
            /\ \A b \in Alert \ {a} : alerts'[b] = alerts[b] /\ kept'[b] = kept[b]
        BY <2>1, <3>1 DEF AlertTypes
      <3> QED BY <2>1, <2>2, <3>1, <3>2, <3>3 DEF AlertTypes, Spent
    <2>4. CASE ~reached
      BY <1>5, <2>2, <2>4 DEF PriceAnswers, AlertTypes, Spent
    <2> QED BY <2>3, <2>4
  <1>6. ASSUME NEW c \in Checker, NEW sent \in BOOLEAN, Announces(c, sent) PROVE AlertInv'
    <2>1. Watching'
      <3>1. PICK h : checking' = [checking EXCEPT ![c].hit = h]
        BY <1>6 DEF Announces
      <3>2. \A k \in Checker : checking'[k] = IF k = c THEN [checking[k] EXCEPT !.hit = h] ELSE checking[k]
        BY <3>1 DEF Watching
      <3>3. checking' = [k \in Checker |-> checking'[k]]
        BY <3>1 DEF Watching
      <3>4. ASSUME NEW k \in Checker
            PROVE  /\ checking'[k] = [todo |-> checking'[k].todo, hit |-> checking'[k].hit]
                   /\ checking'[k].todo \in Seq(Alert)
        BY <3>2 DEF Watching
      <3> QED BY <3>3, <3>4 DEF Watching
    <2> QED BY <1>6, <2>1 DEF Announces, AlertTypes, Spent
  <1>7. CASE SaveTimer \/ ShutdownBegins
    BY <1>1, <1>7 DEF SaveTimer, ShutdownBegins, AlertTypes, Spent
  <1>12. CASE ConfigLoads \/ ConfigSaves
    BY <1>1, <1>12 DEF ConfigLoads, ConfigSaves, AlertTypes, Spent
  <1>8. CASE Reboots
    <2>1. Watching'
      <3>1. checking' = [c \in Checker |-> Off] /\ Off = [todo |-> <<>>, hit |-> <<>>]
        BY <1>8 DEF Reboots, Off
      <3>2. <<>> \in Seq(Alert)
        OBVIOUS
      <3> QED BY <3>1, <3>2 DEF Watching
    <2> QED BY <1>8, <2>1 DEF Reboots, AlertTypes, Spent
  <1>9. CASE UNCHANGED alertVars
    BY <1>1, <1>9 DEF alertVars, AlertTypes, Spent
  <1>10. AlertInv'
    BY <1>2, <1>3, <1>4, <1>5, <1>6, <1>7, <1>8, <1>9, <1>12 DEF AlertSteps
  <1>11. gone \ revived \subseteq gone'
    BY DEF AlertSteps, AddAlert, RemoveAlert, CheckBegins, PriceAnswers, Announces, SaveTimer, ConfigLoads, ConfigSaves,
           ShutdownBegins, Reboots, alertVars
  <1> QED BY <1>10, <1>11 DEF Spent

\* Nothing was handled more often than the restarts explain, and what the offset
\* has passed once more; the batch goes on where the offset stands.
PollInv ==
    /\ boots \in Nat /\ offset \in Nat /\ confirmed \in Nat
    /\ handled \in [1..Updates -> Nat]
    /\ batch \in Seq(Nat)
    /\ \A i \in 1..Len(batch) : batch[i] = batch[1] + i - 1 /\ offset <= batch[i]
    /\ \A u \in 1..Updates : handled[u] <= boots + (IF u < offset THEN 1 ELSE 0)

\* The numbers after c.
LEMMA Onwards ==
    ASSUME NEW c \in Nat, NEW k \in Int
    PROVE  LET s == [i \in 1..k |-> c + i] IN s \in Seq(Nat) /\ \A i \in 1..Len(s) : s[i] = c + i
  <1> DEFINE n == IF k >= 0 THEN k ELSE 0
             s == [i \in 1..n |-> c + i]
  <1>1. n \in Nat /\ 1..k = 1..n
    OBVIOUS
  <1> HIDE DEF n
  <1>2. s \in [1..n -> Nat] /\ \A i \in 1..n : s[i] = c + i
    BY <1>1
  <1> HIDE DEF s
  <1>3. s \in Seq(Nat) /\ Len(s) = n
    BY <1>1, <1>2
  <1>4. s = [i \in 1..k |-> c + i]
    BY <1>1 DEF s
  <1> QED BY <1>2, <1>3, <1>4

LEMMA PollStep ==
    ASSUME PollInv, [((PollSteps /\ UNCHANGED boots) \/ PollReboots)]_<<pollVars, boots>>
    PROVE  PollInv'
  <1>1. CASE GetUpdates(Updates) /\ UNCHANGED boots
    <2>1. confirmed' \in Nat /\ offset \in Nat /\ offset <= confirmed' + 1
      BY <1>1 DEF GetUpdates, PollInv
    <2>2. Updates - confirmed' \in Int
      BY <2>1, OpsAssumption
    <2>3. batch' \in Seq(Nat) /\ \A i \in 1..Len(batch') : batch'[i] = confirmed' + i
      BY <1>1, <2>1, <2>2, Onwards DEF GetUpdates
    <2>4. ASSUME NEW i \in 1..Len(batch') PROVE batch'[i] = batch'[1] + i - 1 /\ offset <= batch'[i]
      <3>1. Len(batch') \in Nat
        BY <2>3
      <3>2. i \in Nat /\ i >= 1 /\ 1 \in 1..Len(batch')
        BY <3>1
      <3>3. batch'[i] = confirmed' + i /\ batch'[1] = confirmed' + 1
        BY <2>3, <3>2
      <3> DEFINE c == confirmed'
                 x == batch'[i]
      <3>4. c \in Nat /\ offset \in Nat /\ offset <= c + 1 /\ x = c + i
        BY <2>1, <3>3
      <3> HIDE DEF c
      <3>5. offset <= x
        BY <3>2, <3>4
      <3>6. batch'[1] = c + 1 /\ x = c + 1 + i - 1
        BY <3>2, <3>3, <3>4 DEF c
      <3> QED BY <3>5, <3>6
    <2> QED BY <1>1, <2>1, <2>3, <2>4 DEF GetUpdates, PollInv
  <1>2. ASSUME NEW throws \in BOOLEAN, HandleUpdate(throws), UNCHANGED boots PROVE PollInv'
    <2> DEFINE u == batch[1]
    <2>1. Head(batch) = u /\ Len(batch) \in Nat /\ Len(batch) >= 1
      BY <1>2 DEF HandleUpdate, PollInv
    <2>2. u \in Nat /\ offset \in Nat /\ offset <= u
      BY <2>1 DEF PollInv
    <2>3. /\ offset' = u + 1
          /\ handled' = [handled EXCEPT ![u] = IF @ < MaxBoots + 2 THEN @ + 1 ELSE @]
          /\ batch' = IF throws THEN <<>> ELSE Tail(batch)
      BY <1>2, <2>1 DEF HandleUpdate, OffsetMoves
    <2> HIDE DEF u
    <2>4. batch' \in Seq(Nat) /\ \A i \in 1..Len(batch') : batch'[i] = batch'[1] + i - 1 /\ offset' <= batch'[i]
      <3>1. CASE throws
        BY <2>3, <3>1
      <3>2. CASE ~throws
        <4>1. batch' = Tail(batch) /\ batch \in Seq(Nat)
          BY <2>3, <3>2 DEF PollInv
        <4>2. batch' \in Seq(Nat) /\ Len(batch') = Len(batch) - 1 /\ \A i \in 1..Len(batch') : batch'[i] = batch[i + 1]
          BY <2>1, <4>1
        <4>3. \A i \in 1..Len(batch) : batch[i] = u + i - 1
          BY DEF PollInv, u
        <4>4. ASSUME NEW i \in 1..Len(batch') PROVE batch'[i] = batch'[1] + i - 1 /\ offset' <= batch'[i]
          <5>1. i \in Nat /\ i >= 1 /\ i + 1 \in 1..Len(batch) /\ 2 \in 1..Len(batch) /\ 1 \in 1..Len(batch')
            BY <2>1, <4>2
          <5>2. batch'[i] = u + (i + 1) - 1 /\ batch'[1] = u + 2 - 1
            BY <4>2, <4>3, <5>1
          <5> QED BY <2>2, <2>3, <5>1, <5>2, SMTT(30)
        <4> QED BY <4>2, <4>4
      <3> QED BY <3>1, <3>2
    <2>5. ASSUME NEW v \in 1..Updates PROVE handled'[v] \in Nat /\ handled'[v] <= boots + (IF v < offset' THEN 1 ELSE 0)
      <3>1. handled[v] \in Nat /\ handled[v] <= boots + (IF v < offset THEN 1 ELSE 0) /\ boots \in Nat /\ v \in Int
        BY OpsAssumption DEF PollInv
      <3>2. handled'[v] = handled[v] \/ (v = u /\ handled'[v] = handled[v] + 1)
        BY <2>3 DEF PollInv
      <3>3. CASE v = u
        BY <2>2, <2>3, <3>1, <3>2, <3>3
      <3>4. CASE v # u
        BY <2>2, <2>3, <3>1, <3>2, <3>4
      <3> QED BY <3>3, <3>4
    <2>6. handled' \in [1..Updates -> Nat]
      <3>1. handled' = [v \in 1..Updates |-> handled'[v]]
        BY <2>3 DEF PollInv
      <3> QED BY <2>5, <3>1
    <2>7. boots' = boots /\ confirmed' = confirmed /\ offset' \in Nat
      BY <1>2, <2>2, <2>3 DEF HandleUpdate
    <2>8. \A v \in 1..Updates : handled'[v] <= boots' + (IF v < offset' THEN 1 ELSE 0)
      BY <2>5, <2>7
    <2> QED BY <2>4, <2>6, <2>7, <2>8 DEF PollInv
  <1>3. CASE PollReboots
    BY <1>3, OpsAssumption DEF PollReboots, PollInv
  <1>4. CASE UNCHANGED <<pollVars, boots>>
    BY <1>4 DEF pollVars, PollInv
  <1> QED BY <1>1, <1>2, <1>3, <1>4 DEF PollSteps

-----------------------------------------------------------------------------
FrontInv == DeskInv /\ AlertInv /\ PollInv

LEMMA FrontInitInv == DeskInit /\ OpsInit => FrontInv
  <1> SUFFICES ASSUME DeskInit, OpsInit PROVE FrontInv
    OBVIOUS
  <1>1. AlertInv
    <2>1. Off = [todo |-> <<>>, hit |-> <<>>] /\ <<>> \in Seq(Alert)
      BY DEF Off
    <2> QED BY <2>1 DEF OpsInit, AlertInv, AlertTypes, AlertState, Watching, Spent
  <1>2. PollInv
    BY OpsAssumption DEF OpsInit, PollInv
  <1> QED BY <1>1, <1>2, DeskInitInv DEF FrontInv

\* Each of the three is disturbed by its own steps only; a restart of another
\* service counts for the poll as well.
LEMMA FrontStep ==
    ASSUME FrontInv, [FrontNext]_frontVars
    PROVE  FrontInv' /\ \A a \in gone \ revived : alerts'[a] # "active"
  <1> USE DEF FrontInv
  <1>1. [DeskNext]_deskVars
    BY DEF FrontNext, frontVars
  <1>2. [((AlertSteps /\ UNCHANGED boots) \/ Reboots)]_alertVars
    BY DEF FrontNext, frontVars
  <1>3. PollInv'
    <2>1. CASE UNCHANGED pollVars /\ boots' \in {boots, boots + 1}
      <3>1. boots \in Nat /\ boots' \in Nat /\ boots <= boots'
        BY <2>1 DEF PollInv
      <3>2. \A u \in 1..Updates : handled[u] <= boots' + (IF u < offset THEN 1 ELSE 0)
        BY <3>1, SMTT(30) DEF PollInv
      <3> QED BY <2>1, <3>1, <3>2 DEF PollInv, pollVars
    <2>2. CASE (PollSteps /\ UNCHANGED boots) \/ PollReboots
      BY <2>2, PollStep
    <2> QED BY <2>1, <2>2 DEF FrontNext, frontVars, Reboots, CronReboots
  <1> QED BY <1>1, <1>2, <1>3, DeskStep, AlertStep

\* No request moves money twice, or without having asked for it, and what is said to
\* be done was; only a restart repeats what Telegram asked for.
THEOREM WorkStaysDoneOnce == FrontSpec => []WorkIsDoneOnce
  <1>1. FrontInv => WorkIsDoneOnce
    <2>1. PollInv => RepeatNeedsRestart
      <3> SUFFICES ASSUME PollInv, NEW u \in 1..Updates PROVE handled[u] <= 1 + boots
        BY DEF RepeatNeedsRestart
      <3> QED BY DEF PollInv
    <2> QED BY <2>1, DeskIsTrue DEF FrontInv, WorkIsDoneOnce
  <1> QED BY <1>1, FrontInitInv, FrontStep, PTL DEF FrontSpec

\* An alert that fired or was removed before a shutdown began never watches again.
THEOREM SpentIsSpent == FrontSpec => SpentStaysSpent
  <1>1. FrontInv /\ [FrontNext]_frontVars => [\A a \in gone \ revived : alerts'[a] # "active"]_alertVars
    BY FrontStep
  <1> QED BY <1>1, FrontInitInv, FrontStep, PTL DEF FrontSpec, SpentStaysSpent

=============================================================================
