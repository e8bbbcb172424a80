--------------------------- MODULE ServicesProofs ---------------------------
(***************************************************************************)
(* Proofs about what the bot asks of other services, each part for its own *)
(* specification and any values of its constants.                          *)
(***************************************************************************)
EXTENDS RpcPool, Providers, ChainFeeds, TokenIntel, Tapes, FiniteSetTheorems,
        SequenceTheorems, WellFoundedInduction, NaturalsInduction, TLAPS

-----------------------------------------------------------------------------
(* Numbers                                                                 *)

\* The order of the naturals as a set of pairs.
Below == {ss \in Nat \X Nat : ss[1] < ss[2]}

\* A non-empty set of naturals has a least element.
LEMMA LeastElement ==
    ASSUME NEW S \in SUBSET Nat, S # {}
    PROVE  \E x \in S : \A y \in S : x <= y
  <1>1. IsWellFoundedOn(Below, Nat)
    BY NatLessThanWellFounded, Zenon DEF OpToRel, Below
  <1>2. PICK x \in S : \A y \in S : ~(<<y, x>> \in Below)
    BY <1>1, WFMin
  <1>3. ASSUME NEW y \in S PROVE x <= y
    <2>1. y \in Nat /\ x \in Nat /\ ~(<<y, x>> \in Below)
      BY <1>2, <1>3
    <2> QED BY <2>1 DEF Below
  <1> QED BY <1>3

-----------------------------------------------------------------------------
(* The retry on another host                                               *)

CallInv ==
    /\ call = [stage |-> call.stage, attempt |-> call.attempt, host |-> call.host, tried |-> call.tried]
    /\ call.attempt \in {0, 1, 2}
    /\ call.attempt = 1 => call.tried = {call.host}

\* A retry that finds only the host it came from was left no other.
LEMMA RetryFindsAnother ==
    ASSUME NEW h, NEW well, NEW bad, h \notin well, h \in bad, h \in ActiveRPC(well, bad)
    PROVE  \A g \in Host : g \in bad \/ Open(g)
  <1>1. h \notin {g \in well : ~Open(g) /\ box[g] = 0}
    OBVIOUS
  <1>2. h \notin FirstOf(LAMBDA g : g \notin bad /\ ~Open(g))
    BY DEF FirstOf
  <1>3. FirstOf(LAMBDA g : g \notin bad /\ ~Open(g)) = {}
    BY <1>1, <1>2 DEF ActiveRPC
  <1> DEFINE hits == {i \in DOMAIN Endpoints : Endpoints[i] \notin bad /\ ~Open(Endpoints[i])}
  <1>4. hits \subseteq Nat
    BY EndpointsAssumption
  <1>5. ASSUME hits # {} PROVE FALSE
    <2>1. PICK i \in hits : \A j \in hits : i <= j
      BY <1>4, <1>5, LeastElement
    <2>2. i \in Nat /\ i \in DOMAIN Endpoints /\ DOMAIN Endpoints = 1 .. Len(Endpoints) /\ Len(Endpoints) \in Nat
      BY <1>4, EndpointsAssumption
    <2>3. \A k \in 1..(i - 1) : k \in DOMAIN Endpoints /\ ~(i <= k)
      BY <2>2
    <2>4. \A k \in 1..(i - 1) : ~(Endpoints[k] \notin bad /\ ~Open(Endpoints[k]))
      BY <2>1, <2>3
    <2>5. Endpoints[i] \in FirstOf(LAMBDA g : g \notin bad /\ ~Open(g))
      BY <2>1, <2>2, <2>4 DEF FirstOf
    <2> QED BY <1>3, <2>5
  <1> QED BY <1>5 DEF Host

LEMMA CallStep ==
    ASSUME CallInv, [PoolNext]_poolVars
    PROVE  /\ CallInv'
           /\ call'.attempt = 2 /\ call.attempt = 1 /\ call'.host \in call.tried
                => \A h \in Host \ call.tried : h \in failed \/ Open(h)
  <1>1. CASE CallBegins
    BY <1>1 DEF CallBegins, Goes, CallInv
  <1>2. ASSUME NEW good \in BOOLEAN, CallAnswers(good)
        PROVE  /\ CallInv'
               /\ call'.attempt = 2 /\ call.attempt = 1 /\ call'.host \in call.tried
                    => \A h \in Host \ call.tried : h \in failed \/ Open(h)
    <2>1. CASE good \/ call.attempt = 2
      <3>1. PICK s : call' = [call EXCEPT !.stage = s]
        BY <1>2, <2>1 DEF CallAnswers
      <3> QED BY <3>1 DEF CallInv
    <2>2. CASE ~good /\ call.attempt # 2
      <3>1. PICK h \in ActiveRPC(healthy', failed') : Goes(h, 2)
        BY <1>2, <2>2 DEF CallAnswers
      <3>2. call'.host = h /\ call'.attempt = 2
        BY <3>1 DEF Goes
      <3>3. healthy' = healthy \ {call.host} /\ failed' = failed \cup {call.host}
        BY <1>2, <2>2 DEF CallAnswers, Report
      <3>4. ASSUME call.attempt = 1, h \in call.tried
            PROVE  \A g \in Host \ call.tried : g \in failed \/ Open(g)
        <4>1. call.tried = {call.host} /\ h = call.host
          BY <3>4 DEF CallInv
        <4>2. \A g \in Host : g \in failed' \/ Open(g)
          BY <3>1, <3>3, <4>1, RetryFindsAnother
        <4> QED BY <3>3, <4>1, <4>2
      <3>5. CallInv'
        BY <3>1 DEF Goes, CallInv
      <3> QED BY <3>2, <3>4, <3>5
    <2> QED BY <2>1, <2>2
  <1>3. CASE UNCHANGED call
    BY <1>3 DEF CallInv
  <1>4. CallBegins \/ (\E good \in BOOLEAN : CallAnswers(good)) \/ UNCHANGED call
    BY DEF PoolNext, poolVars, Calling, LagChecking, ProbeBegins, ProbeEnds, CalmsDown, Tick, ProbeAnswers,
           LagBegins, LagEnds, LagSilent, LagAnswers
  <1> QED BY <1>1, <1>2, <1>3, <1>4

\* The one retry of a call goes to a host it has not tried, unless every other host
\* was reported or is rate limited when it leaves.
THEOREM RetriesMoveOn == PoolSpec => RetryMovesOn
  <1>1. PoolInit => CallInv
    BY DEF PoolInit, CallInv
  <1>2. CallInv /\ [PoolNext]_poolVars => CallInv'
    BY CallStep
  <1>3. CallInv /\ [PoolNext]_poolVars =>
          [call'.attempt = 2 /\ call.attempt = 1 /\ call'.host \in call.tried
             => \A h \in Host \ call.tried : h \in failed \/ Open(h)]_poolVars
    BY CallStep
  <1> QED BY <1>1, <1>2, <1>3, PTL DEF PoolSpec, RetryMovesOn

-----------------------------------------------------------------------------
(* Budgets                                                                 *)

BudgetInv ==
    /\ spend \in Nat /\ spend <= DailyCap
    /\ minute \in [left : Nat, count : 0..Rpm]

LEMMA Floor == ASSUME NEW n \in Int PROVE Max({0, n}) = IF n > 0 THEN n ELSE 0
  BY DEF Max

LEMMA BudgetStep ==
    ASSUME BudgetInv, GovNext
    PROVE  BudgetInv'
  <1> USE ProviderAssumption
  <1>1. CASE GovTick
    BY <1>1 DEF GovTick, BudgetInv
  <1>2. ASSUME NEW c \in Caller, RunStarts(c) PROVE BudgetInv'
    <2>1. CASE Available /\ cache = 0
      <3>1. Charge(1)
        BY <1>2, <2>1 DEF RunStarts
      <3>2. spend' \in Nat /\ spend' <= DailyCap
        BY <3>1 DEF Charge, BudgetInv
      <3>3. minute' = IF minute.left = 0 THEN [left |-> Minute, count |-> 1] ELSE [minute EXCEPT !.count = @ + 1]
        BY <1>2, <2>1 DEF RunStarts
      <3>4. minute' \in [left : Nat, count : 0..Rpm]
        <4>1. CASE minute.left = 0
          BY <3>3, <4>1
        <4>2. CASE minute.left # 0
          <5>1. minute.count + 1 \in 0..Rpm
            BY <2>1, <4>2 DEF BudgetInv, Available, RpmAllows
          <5> QED BY <3>3, <4>2, <5>1 DEF BudgetInv
        <4> QED BY <4>1, <4>2
      <3> QED BY <3>2, <3>4 DEF BudgetInv
    <2>2. CASE ~(Available /\ cache = 0)
      BY <1>2, <2>2 DEF RunStarts, BudgetInv
    <2> QED BY <2>1, <2>2
  <1>3. ASSUME NEW c \in Caller, AnswerTransient(c) PROVE BudgetInv'
    <2>1. spend' = Max({0, spend - 1}) /\ spend - 1 \in Int
      BY <1>3 DEF AnswerTransient, BudgetInv
    <2>2. spend' \in Nat /\ spend' <= DailyCap
      BY <2>1, Floor DEF BudgetInv
    <2> QED BY <1>3, <2>2 DEF AnswerTransient, BudgetInv
  <1>4. ASSUME NEW c \in Caller, AnswerExhausted(c) PROVE BudgetInv'
    BY <1>4 DEF AnswerExhausted, BudgetInv
  <1>5. ASSUME NEW c \in Caller, NEW b \in Bills, AnswerOk(c, b) PROVE BudgetInv'
    <2>1. IF b = 1 THEN UNCHANGED <<spend, frozen, fails>> ELSE Charge(b - 1)
      BY <1>5 DEF AnswerOk
    <2>2. spend' \in Nat /\ spend' <= DailyCap
      BY <2>1 DEF Charge, BudgetInv
    <2> QED BY <1>5, <2>2 DEF AnswerOk, BudgetInv
  <1> QED BY <1>1, <1>2, <1>3, <1>4, <1>5 DEF GovNext, GovAnswers

-----------------------------------------------------------------------------
(* Keys                                                                    *)

Slots == 0..(Keys - 1)

\* The slots a request has been to that is at slot after n more attempts.
Visited(slot, n) == {k \in Slots : (slot - n <= k /\ k <= slot) \/ Keys + slot - n <= k}

KeysTyped ==
    /\ pool = [index |-> pool.index, failed |-> 0..(pool.index - 1)] /\ pool.index \in Slots
    /\ DOMAIN req = Caller
    /\ \A c \in Caller :
         /\ req[c] = [stage |-> req[c].stage, slot |-> req[c].slot, attempts |-> req[c].attempts,
                      asked |-> req[c].asked, alone |-> req[c].alone]
         /\ req[c].stage = "out" => req[c].attempts \in Slots

\* A request nobody overlapped is at the active key and alone.
Lone(c) ==
    req[c].stage = "out" /\ req[c].alone =>
        /\ req[c].slot = pool.index
        /\ req[c].asked = {KeyOf[k] : k \in Visited(req[c].slot, req[c].attempts)}
        /\ \A d \in Caller \ {c} : req[d].stage # "out"

KeyInv == KeysTyped /\ LoneRequestTriesAll /\ \A c \in Caller : Lone(c)

\* Keys are marked from the first to the last, whoever was refused, and then
\* all of them are free again.
LEMMA MarkedInTurn ==
    ASSUME KeysTyped, Keys > 1
    PROVE  MarkFailed(pool) = IF pool.index + 1 = Keys THEN [index |-> 0, failed |-> {}]
                              ELSE [index |-> pool.index + 1, failed |-> 0..pool.index]
  <1> DEFINE marked == pool.failed \cup {pool.index}
  <1> DEFINE i == pool.index
  <1>1. Keys \in Nat /\ i \in Nat /\ i < Keys /\ pool.failed = 0..(i - 1)
    BY ProviderAssumption DEF KeysTyped, Slots
  <1>2. marked = 0..i
    BY <1>1
  <1>3. Cardinality(marked) = i + 1
    <2>1. Cardinality(0..i) = i + 1
      BY <1>1, FS_Interval
    <2> QED BY <1>2, <2>1, Zenon
  <1> HIDE DEF marked
  <1> DEFINE out == IF Cardinality(marked) >= Keys THEN {} ELSE marked
  <1>4. out = IF i + 1 = Keys THEN {} ELSE 0..i
    BY <1>1, <1>2, <1>3
  <1> DEFINE steps == {k \in 1..Keys : (i + k) % Keys \notin out \/ k = Keys}
  <1>5. 1 \in steps
    <2>1. i + 1 # Keys => (i + 1) % Keys = i + 1
      BY <1>1
    <2> QED BY <1>1, <1>4, <2>1
  <1>6. Min(steps) = 1
    BY <1>1, <1>5 DEF Min
  <1>7. NextKey(i, out) = (i + 1) % Keys
    BY <1>6 DEF NextKey
  <1>8. (i + 1) % Keys = IF i + 1 = Keys THEN 0 ELSE i + 1
    BY <1>1
  <1> HIDE DEF out
  <1>9. MarkFailed(pool) = [index |-> NextKey(i, out), failed |-> out]
    BY <1>1 DEF MarkFailed, out, marked
  <1> QED BY <1>4, <1>7, <1>8, <1>9

\* A request that moves on to the next slot has been to that one too.
LEMMA VisitsNext ==
    ASSUME NEW s \in Slots, NEW n \in Slots, n + 1 < Keys
    PROVE  LET next == IF s + 1 = Keys THEN 0 ELSE s + 1
           IN  next \in Slots /\ Visited(next, n + 1) = Visited(s, n) \cup {next}
  BY ProviderAssumption DEF Slots, Visited

\* The first slot, and all of them.
LEMMA VisitsOneAndAll ==
    ASSUME NEW s \in Slots
    PROVE  Visited(s, 0) = {s} /\ Visited(s, Keys - 1) = Slots
  BY ProviderAssumption DEF Slots, Visited

LEMMA KeyInitInv == KeyInit => KeyInv
  <1> SUFFICES ASSUME KeyInit PROVE KeyInv
    OBVIOUS
  <1>1. 0..(0 - 1) = {} /\ 0 \in Slots
    BY ProviderAssumption DEF Slots
  <1>2. KeysTyped
    BY <1>1 DEF KeyInit, KeysTyped, Fresh
  <1> QED BY <1>2 DEF KeyInit, KeyInv, LoneRequestTriesAll, Lone, Fresh

\* What a request knows when it leaves is of the same kind as before.
LEMMA LeavesTyped ==
    ASSUME KeysTyped, NEW c \in Caller, NEW slot, NEW n \in Slots, NEW been, req' = Leaves(c, slot, n, been),
           pool' = [index |-> pool'.index, failed |-> 0..(pool'.index - 1)], pool'.index \in Slots
    PROVE  KeysTyped'
  <1>1. ASSUME NEW d \in Caller
        PROVE  /\ req'[d] = [stage |-> req'[d].stage, slot |-> req'[d].slot, attempts |-> req'[d].attempts,
                             asked |-> req'[d].asked, alone |-> req'[d].alone]
               /\ req'[d].stage = "out" => req'[d].attempts \in Slots
    <2>1. CASE d = c
      <3> DEFINE lone == ~Overlaps(c) /\ (n = 0 \/ req[c].alone)
      <3>1. req'[d] = [stage |-> "out", slot |-> slot, attempts |-> n, asked |-> been \cup {KeyOf[slot]}, alone |-> lone]
        BY <2>1 DEF Leaves
      <3> HIDE DEF lone
      <3> QED BY <3>1
    <2>2. CASE d # c
      <3>1. PICK l : req'[d] = [req[d] EXCEPT !.alone = l]
        BY <2>2 DEF Leaves
      <3>2. req'[d] = [stage |-> req[d].stage, slot |-> req[d].slot, attempts |-> req[d].attempts,
                       asked |-> req[d].asked, alone |-> l]
        BY <3>1 DEF KeysTyped
      <3>3. req[d].stage = "out" => req[d].attempts \in Slots
        BY DEF KeysTyped
      <3> QED BY <3>2, <3>3
    <2> QED BY <2>1, <2>2
  <1>2. DOMAIN req' = Caller
    BY DEF Leaves
  <1> QED BY <1>1, <1>2 DEF KeysTyped

\* A request that leaves for the active key.  It is on its own if it was so far,
\* and nobody else is any more.
LEMMA LeavesInv ==
    ASSUME KeysTyped', LoneRequestTriesAll, NEW c \in Caller, NEW n \in Slots, NEW been,
           req' = Leaves(c, pool'.index, n, been),
           KeysTyped, \A d \in Caller : Lone(d),
           ~Overlaps(c) /\ (n = 0 \/ req[c].alone) =>
             been \cup {KeyOf[pool'.index]} = {KeyOf[k] : k \in Visited(pool'.index, n)}
    PROVE  LoneRequestTriesAll' /\ \A d \in Caller : Lone(d)'
  <1> DEFINE lone == ~Overlaps(c) /\ (n = 0 \/ req[c].alone)
  <1>1. req'[c] = [stage |-> "out", slot |-> pool'.index, attempts |-> n, asked |-> been \cup {KeyOf[pool'.index]},
                   alone |-> lone]
    BY DEF Leaves
  <1> HIDE DEF lone
  <1>2. ASSUME NEW d \in Caller, d # c
        PROVE  req'[d] = [req[d] EXCEPT !.alone = @ /\ req[d].stage # "out"]
    BY <1>2 DEF Leaves
  <1>3. ASSUME NEW d \in Caller, d # c
        PROVE  /\ req'[d].stage = req[d].stage /\ req'[d].asked = req[d].asked
               /\ req'[d].alone <=> req[d].alone /\ req[d].stage # "out"
    BY <1>2, <1>3 DEF KeysTyped
  <1>4. LoneRequestTriesAll'
    BY <1>1, <1>3 DEF LoneRequestTriesAll
  <1>5. ASSUME NEW d \in Caller, d # c PROVE Lone(d)'
    BY <1>3, <1>5 DEF Lone
  <1>6. Lone(c)'
    <2>1. ~Overlaps(c) => \A d \in Caller \ {c} : req'[d].stage # "out"
      BY <1>3 DEF Overlaps
    <2>2. /\ req'[c].slot = pool'.index /\ req'[c].attempts = n /\ req'[c].asked = been \cup {KeyOf[pool'.index]}
          /\ req'[c].alone = lone
      BY <1>1
    <2>3. lone => req'[c].asked = {KeyOf[k] : k \in Visited(req'[c].slot, req'[c].attempts)}
      BY <2>2 DEF lone
    <2> QED BY <2>1, <2>2, <2>3 DEF Lone, lone
  <1> QED BY <1>4, <1>5, <1>6

LEMMA KeyStep ==
    ASSUME KeyInv, KeyNext
    PROVE  KeyInv'
  <1> USE ProviderAssumption
  <1>1. ASSUME NEW c \in Caller, FetchBegins(c) PROVE KeyInv'
    <2>1. pool' = pool /\ req' = Leaves(c, pool'.index, 0, {})
      BY <1>1 DEF FetchBegins
    <2>2. KeysTyped'
      <3>1. 0 \in Slots
        BY DEF Slots
      <3> QED BY <2>1, <3>1, LeavesTyped DEF KeyInv, KeysTyped
    <2>3. 0 \in Slots /\ Visited(pool'.index, 0) = {pool'.index}
      BY <2>2, VisitsOneAndAll DEF KeysTyped, Slots
    <2>4. {} \cup {KeyOf[pool'.index]} = {KeyOf[k] : k \in Visited(pool'.index, 0)}
      BY <2>3
    <2> QED BY <2>1, <2>2, <2>3, <2>4, LeavesInv DEF KeyInv
  <1>2. ASSUME NEW c \in Caller, NEW s, s # "out", req[c].stage = "out", req' = [req EXCEPT ![c].stage = s], pool' = pool,
               s = "exhausted" /\ req[c].alone => req[c].asked = {KeyOf[k] : k \in Slots}
        PROVE  KeyInv'
    <2>1. KeysTyped'
      BY <1>2 DEF KeyInv, KeysTyped
    <2>2. req'[c].stage = s /\ req'[c].alone = req[c].alone /\ req'[c].asked = req[c].asked
      BY <1>2 DEF KeyInv, KeysTyped
    <2>3. \A d \in Caller : d # c => req'[d] = req[d]
      BY <1>2 DEF KeyInv, KeysTyped
    <2>4. LoneRequestTriesAll'
      BY <1>2, <2>2, <2>3 DEF KeyInv, LoneRequestTriesAll, Slots
    <2>5. \A d \in Caller : Lone(d)'
      BY <1>2, <2>2, <2>3 DEF KeyInv, Lone
    <2> QED BY <2>1, <2>4, <2>5 DEF KeyInv
  <1>3. ASSUME NEW c \in Caller, FetchAnswers(c), KeyOf[req[c].slot] \in Refused /\ Keys > 1 PROVE KeyInv'
    <2>1. pool' = IF pool.index + 1 = Keys THEN [index |-> 0, failed |-> {}]
                  ELSE [index |-> pool.index + 1, failed |-> 0..pool.index]
      BY <1>3, MarkedInTurn DEF FetchAnswers, KeyInv
    <2>2. /\ pool' = [index |-> pool'.index, failed |-> 0..(pool'.index - 1)] /\ pool'.index \in Slots
          /\ pool'.index = IF pool.index + 1 = Keys THEN 0 ELSE pool.index + 1
      <3>1. CASE pool.index + 1 = Keys
        BY <2>1, <3>1 DEF KeyInv, KeysTyped, Slots
      <3>2. CASE pool.index + 1 # Keys
        BY <2>1, <3>2 DEF KeyInv, KeysTyped, Slots
      <3> QED BY <3>1, <3>2
    <2>3. req[c].stage = "out" /\ Lone(c)
      BY <1>3 DEF FetchAnswers, KeyInv
    <2>4. CASE req[c].attempts + 1 >= MaxAttempts
      <3>1. req' = [req EXCEPT ![c].stage = "exhausted"]
        BY <1>3, <2>4 DEF FetchAnswers
      <3>2. req[c].alone => req[c].asked = {KeyOf[k] : k \in Slots}
        <4>1. ASSUME req[c].alone PROVE Visited(req[c].slot, req[c].attempts) = Slots
          <5>1. req[c].attempts = Keys - 1 /\ req[c].slot \in Slots
            BY <2>3, <2>4, <4>1 DEF Lone, MaxAttempts, KeyInv, KeysTyped, Slots
          <5> QED BY <5>1, VisitsOneAndAll
        <4> QED BY <2>3, <4>1 DEF Lone
      <3>3. KeysTyped'
        BY <2>2, <3>1 DEF KeyInv, KeysTyped
      <3>4. req'[c].stage = "exhausted" /\ req'[c].alone = req[c].alone /\ req'[c].asked = req[c].asked
        BY <3>1 DEF KeyInv, KeysTyped
      <3>5. \A d \in Caller : d # c => req'[d] = req[d]
        BY <3>1 DEF KeyInv, KeysTyped
      <3>6. LoneRequestTriesAll'
        BY <3>2, <3>4, <3>5 DEF KeyInv, LoneRequestTriesAll, Slots
      <3>7. ASSUME NEW d \in Caller PROVE Lone(d)'
        BY <2>3, <3>4, <3>5 DEF KeyInv, Lone
      <3> QED BY <3>3, <3>6, <3>7 DEF KeyInv
    <2>5. CASE ~(req[c].attempts + 1 >= MaxAttempts)
      <3>1. req' = Leaves(c, pool'.index, req[c].attempts + 1, req[c].asked)
        BY <1>3, <2>5 DEF FetchAnswers
      <3> DEFINE n == req[c].attempts + 1
      <3>2. n \in Slots /\ n # 0 /\ req[c].attempts \in Slots /\ n < Keys
        BY <2>3, <2>5 DEF MaxAttempts, KeyInv, KeysTyped, Slots
      <3>3. KeysTyped'
        BY <2>2, <3>1, <3>2, LeavesTyped DEF KeyInv
      <3>4. ASSUME req[c].alone
            PROVE  req[c].asked \cup {KeyOf[pool'.index]} = {KeyOf[k] : k \in Visited(pool'.index, n)}
        <4>1. pool.index \in Slots /\ req[c].slot = pool.index
          BY <2>3, <3>4 DEF Lone, KeyInv, KeysTyped
        <4>2. Visited(pool'.index, n) = Visited(pool.index, req[c].attempts) \cup {pool'.index}
          BY <2>2, <3>2, <4>1, VisitsNext
        <4>3. req[c].asked = {KeyOf[k] : k \in Visited(pool.index, req[c].attempts)}
          BY <2>3, <3>4, <4>1 DEF Lone
        <4> QED BY <4>2, <4>3
      <3> HIDE DEF n
      <3> QED BY <2>3, <3>1, <3>2, <3>3, <3>4, LeavesInv DEF KeyInv, n
    <2> QED BY <2>4, <2>5
  <1>4. ASSUME NEW c \in Caller, FetchAnswers(c), ~(KeyOf[req[c].slot] \in Refused /\ Keys > 1) PROVE KeyInv'
    BY <1>2, <1>4 DEF FetchAnswers
  <1>5. ASSUME NEW c \in Caller, FetchFails(c) PROVE KeyInv'
    BY <1>2, <1>5 DEF FetchFails
  <1> QED BY <1>1, <1>3, <1>4, <1>5 DEF KeyNext

\* The recorded spend stays within the daily cap and every minute within its rate,
\* and a request nobody overlapped gives up only after it tried every key.
THEOREM LimitsAlwaysHold == LimitSpec => []LimitsHold
  <1>1. GovInit /\ KeyInit => BudgetInv /\ KeyInv
    BY KeyInitInv, ProviderAssumption DEF GovInit, BudgetInv
  <1>2. BudgetInv /\ KeyInv /\ [LimitNext]_<<govVars, keyVars>> => BudgetInv' /\ KeyInv'
    <2> SUFFICES ASSUME BudgetInv, KeyInv, [LimitNext]_<<govVars, keyVars>> PROVE BudgetInv' /\ KeyInv'
      OBVIOUS
    <2>1. ASSUME UNCHANGED govVars PROVE BudgetInv'
      BY <2>1 DEF govVars, BudgetInv
    <2>2. ASSUME UNCHANGED keyVars PROVE KeyInv'
      BY <2>2 DEF keyVars, KeyInv, KeysTyped, Lone, LoneRequestTriesAll
    <2> QED BY <2>1, <2>2, BudgetStep, KeyStep DEF LimitNext
  <1>3. BudgetInv /\ KeyInv => LimitsHold
    BY ProviderAssumption DEF BudgetInv, KeyInv, LimitsHold, BudgetHolds
  <1> QED BY <1>1, <1>2, <1>3, PTL DEF LimitSpec

-----------------------------------------------------------------------------
(* Tapes                                                                   *)

Used == {s \in Socket : net[s] # "none"}

\* A tape that is open waits for its timer or has the one socket in use.
InUse ==
    \/ current = 0 /\ Used = {} /\ timer # NoTimer
    \/ current # 0 /\ Used = {current} /\ timer = NoTimer

\* A subscription may be sent before the next tick.
MayGreet == ~started \/ timer = 0 \/ \E s \in Socket : net[s] = "connecting"

\* A subscription takes a tick at least, so the window has room for the next.
FloodHasRoom ==
    /\ flood.left = 0 => flood.count = 0
    /\ flood.count <= 2 * (FloodTicks - flood.left + 1)
    /\ MayGreet /\ ~closed => flood.count <= 2 * (FloodTicks - flood.left)

TapeTyped ==
    /\ net \in [Socket -> {"none", "connecting", "open", "failing"}]
    /\ {started, closed, connected, reachable} \subseteq BOOLEAN
    /\ current \in Socket \cup {0}
    /\ backoff \in Nat \ {0} /\ timer \in Nat \cup {NoTimer}
    /\ flood \in [left : 0..FloodTicks, count : Nat]

TapeInv ==
    /\ TapeTyped /\ FloodHasRoom
    /\ ~started => closed /\ Used = {} /\ flood.count = 0
    /\ ~closed => InUse
    /\ TapeIsAsItSays

LEMMA TapeInitInv == TapeInit => TapeInv
  <1> SUFFICES ASSUME TapeInit PROVE TapeInv
    OBVIOUS
  <1> USE TapeAssumption DEF TapeInit
  <1>0. FloodTicks \in Nat \ {0}
    OBVIOUS
  <1>1. TapeTyped
    <2>1. flood \in [left : 0..FloodTicks, count : Nat]
      BY <1>0
    <2>2. {started, closed, connected, reachable} \subseteq BOOLEAN
      OBVIOUS
    <2>3. net \in [Socket -> {"none", "connecting", "open", "failing"}]
      OBVIOUS
    <2> QED BY <2>1, <2>2, <2>3 DEF TapeTyped
  <1>2. FloodHasRoom
    BY <1>0 DEF FloodHasRoom
  <1>3. Used = {}
    BY DEF Used
  <1> QED BY <1>1, <1>2, <1>3 DEF TapeInv, TapeIsAsItSays

\* A socket that is not in use.
LEMMA UnusedSocket ==
    ASSUME Unused # {}
    PROVE  Min(Unused) \in Socket /\ net[Min(Unused)] = "none"
  <1>1. Unused \subseteq Nat
    BY DEF Unused, Socket
  <1>2. PICK x \in Unused : \A y \in Unused : x <= y
    BY <1>1, LeastElement
  <1>3. Min(Unused) \in Unused
    BY <1>2 DEF Min
  <1> QED BY <1>3 DEF Unused

\* The wait doubles, but is never less than a tick.
LEMMA Doubled ==
    ASSUME backoff \in Nat \ {0}
    PROVE  Min({2 * backoff, MaxBackoffTicks}) \in Nat \ {0}
  BY TapeAssumption DEF Min

LEMMA OpensInv ==
    ASSUME TapeInv, Used = {}, current = 0, ~connected, flood.count <= 2 * (FloodTicks - flood.left),
           Opens, started' = TRUE, closed' = FALSE, UNCHANGED <<connected, reachable, greeted, flood>>
    PROVE  TapeInv'
  <1>1. backoff' \in Nat \ {0}
    BY Doubled DEF Opens, Waits, TapeInv, TapeTyped
  <1>2. CASE Unused # {} /\ current' = Min(Unused) /\ net' = [net EXCEPT ![Min(Unused)] = "connecting"] /\ timer' = NoTimer
    <2>1. current' \in Socket /\ current' # 0 /\ net' = [net EXCEPT ![current'] = "connecting"]
      BY <1>2, UnusedSocket DEF Socket
    <2>2. Used' = {current'}
      BY <2>1 DEF Used, TapeInv, TapeTyped
    <2>3. TapeTyped'
      BY <1>1, <1>2, <2>1 DEF TapeInv, TapeTyped
    <2>4. FloodHasRoom'
      BY DEF TapeInv, FloodHasRoom
    <2> QED BY <1>2, <2>1, <2>2, <2>3, <2>4 DEF TapeInv, InUse, TapeIsAsItSays
  <1>3. CASE Waits /\ UNCHANGED <<current, net>>
    <2>1. timer' \in Nat
      BY <1>3 DEF Waits, TapeInv, TapeTyped
    <2>2. TapeTyped'
      BY <1>1, <1>3, <2>1 DEF TapeInv, TapeTyped
    <2>3. Used' = {}
      BY <1>3 DEF Used
    <2>4. FloodHasRoom'
      BY DEF TapeInv, FloodHasRoom
    <2> QED BY <1>3, <2>1, <2>2, <2>3, <2>4 DEF TapeInv, InUse, TapeIsAsItSays, NoTimer
  <1> QED BY <1>2, <1>3 DEF Opens

\* While a tape is open a socket that is not forgotten is the one in use.
LEMMA OnlySocket ==
    ASSUME TapeInv, ~closed, NEW s \in Socket, net[s] # "none"
    PROVE  s = current /\ current # 0 /\ Used = {current} /\ timer = NoTimer
  BY DEF TapeInv, InUse, Used

\* The window takes both frames of a subscription.
LEMMA RoomForTwo ==
    ASSUME TapeInv, ~closed, MayGreet
    PROVE  /\ Window.left \in 1..FloodTicks /\ Window.count \in Nat
           /\ Window.count + 2 <= FloodCap /\ Window.count + 2 <= 2 * (FloodTicks - Window.left + 1)
           /\ Window = [left |-> Window.left, count |-> Window.count]
  <1>1. FloodTicks \in Nat \ {0} /\ FloodCap \in Nat /\ FloodCap >= 2 * FloodTicks
    BY TapeAssumption
  <1>2. flood \in [left : 0..FloodTicks, count : Nat] /\ flood.count <= 2 * (FloodTicks - flood.left)
    BY DEF TapeInv, TapeTyped, FloodHasRoom
  <1>3. CASE flood.left = 0
    BY <1>1, <1>3 DEF Window
  <1>4. CASE flood.left # 0
    BY <1>1, <1>2, <1>4 DEF Window
  <1> QED BY <1>3, <1>4

LEMMA TapeStep ==
    ASSUME TapeInv, [TapeNext]_tapeVars
    PROVE  TapeInv'
  <1> USE DEF NoTimer
  <1>0. FloodTicks \in Nat \ {0} /\ FloodCap \in Nat /\ FloodCap >= 2 * FloodTicks
    BY TapeAssumption
  <1>1. CASE Start
    <2>1. Used = {} /\ current = 0 /\ ~connected /\ closed /\ flood.count = 0
      BY <1>1 DEF Start, TapeInv, TapeIsAsItSays
    <2>2. flood.count <= 2 * (FloodTicks - flood.left)
      BY <1>0, <2>1 DEF TapeInv, TapeTyped
    <2> QED BY <1>1, <2>1, <2>2, OpensInv DEF Start
  <1>2. CASE TimerFires
    <2>1. Used = {} /\ current = 0 /\ ~connected /\ started
      BY <1>2 DEF TimerFires, TapeInv, InUse, TapeIsAsItSays
    <2>2. flood.count <= 2 * (FloodTicks - flood.left)
      BY <1>2 DEF TimerFires, TapeInv, FloodHasRoom, MayGreet
    <2>3. started' = TRUE /\ closed' = FALSE
      BY <1>2, <2>1 DEF TimerFires, TapeInv, TapeTyped
    <2> QED BY <1>2, <2>1, <2>2, <2>3, OpensInv DEF TimerFires
  <1>3. CASE Stop
    <2>1. TapeTyped'
      BY <1>3 DEF Stop, TapeInv, TapeTyped
    <2>2. FloodHasRoom'
      BY <1>3 DEF Stop, TapeInv, FloodHasRoom
    <2> QED BY <1>3, <2>1, <2>2 DEF Stop, TapeInv, TapeIsAsItSays
  <1>4. ASSUME NEW s \in Socket, OnOpen(s) PROVE TapeInv'
    <2>1. CASE closed
      <3>1. TapeTyped'
        BY <1>4, <2>1 DEF OnOpen, TapeInv, TapeTyped
      <3>2. FloodHasRoom'
        BY <1>4, <2>1 DEF OnOpen, TapeInv, FloodHasRoom
      <3>3. started
        BY <1>4 DEF OnOpen, TapeInv, Used
      <3> QED BY <1>4, <2>1, <3>1, <3>2, <3>3 DEF OnOpen, TapeInv, TapeIsAsItSays
    <2>2. CASE ~closed
      <3>1. s = current /\ current # 0 /\ Used = {current} /\ timer = NoTimer /\ MayGreet
        BY <1>4, <2>2, OnlySocket DEF OnOpen, MayGreet
      <3>2. Used' = {current}
        BY <1>4, <3>1 DEF OnOpen, Used, TapeInv, TapeTyped
      <3>3. /\ s \in greeted' /\ flood' \in [left : 0..FloodTicks, count : Nat]
            /\ flood'.left = 0 => flood'.count = 0
            /\ flood'.count <= 2 * (FloodTicks - flood'.left + 1)
        <4>1. CASE kind = "rpc"
          BY <1>4, <2>2, <4>1 DEF OnOpen, Greets, TapeInv, TapeTyped, FloodHasRoom
        <4>2. CASE kind # "rpc"
          <5>1. flood' = [Window EXCEPT !.count = Min({@ + 2, FloodCap})] /\ s \in greeted'
            BY <1>4, <2>2, <3>1, <4>2, RoomForTwo DEF OnOpen, Greets
          <5>2. Min({Window.count + 2, FloodCap}) = Window.count + 2
            BY <1>0, <2>2, <3>1, RoomForTwo DEF Min
          <5>3. flood' = [left |-> Window.left, count |-> Window.count + 2]
            BY <2>2, <3>1, <5>1, <5>2, RoomForTwo
          <5> QED BY <1>0, <2>2, <3>1, <5>1, <5>3, RoomForTwo
        <4> QED BY <4>1, <4>2
      <3>4. ~MayGreet'
        BY <1>4, <3>1, <3>2 DEF OnOpen, MayGreet, TapeInv, TapeTyped, Used
      <3>5. TapeTyped'
        BY <1>4, <2>2, <3>3 DEF OnOpen, TapeInv, TapeTyped
      <3>6. FloodHasRoom'
        BY <3>3, <3>4 DEF FloodHasRoom
      <3> QED BY <1>4, <2>2, <3>1, <3>2, <3>3, <3>5, <3>6 DEF OnOpen, TapeInv, InUse, TapeIsAsItSays
    <2> QED BY <2>1, <2>2
  <1>5. ASSUME NEW s \in Socket, Fails(s) PROVE TapeInv'
    <2>1. TapeTyped'
      BY <1>5 DEF Fails, TapeInv, TapeTyped
    <2>2. Used' = Used /\ s \in Used
      BY <1>5 DEF Fails, Used, TapeInv, TapeTyped
    <2>3. MayGreet' => MayGreet
      BY <1>5 DEF Fails, MayGreet, TapeInv, TapeTyped
    <2>4. FloodHasRoom'
      BY <1>5, <2>3 DEF Fails, TapeInv, FloodHasRoom
    <2> QED BY <1>5, <2>1, <2>2, <2>4 DEF Fails, TapeInv, InUse, TapeIsAsItSays
  <1>6. ASSUME NEW s \in Socket, OnClose(s) PROVE TapeInv'
    <2>1. CASE closed
      <3>1. TapeTyped'
        BY <1>6, <2>1 DEF OnClose, ScheduleReconnect, TapeInv, TapeTyped
      <3>2. FloodHasRoom'
        BY <1>6, <2>1 DEF OnClose, TapeInv, FloodHasRoom
      <3>3. started
        BY <1>6 DEF OnClose, TapeInv, Used
      <3> QED BY <1>6, <2>1, <3>1, <3>2, <3>3 DEF OnClose, ScheduleReconnect, TapeInv, TapeIsAsItSays
    <2>2. CASE ~closed
      <3>1. s = current /\ Used = {current} /\ timer = NoTimer
        BY <1>6, <2>2, OnlySocket DEF OnClose
      <3>2. timer' = backoff /\ backoff' \in Nat \ {0} /\ backoff \in Nat \ {0}
        BY <1>6, <2>2, <3>1, Doubled DEF OnClose, ScheduleReconnect, Waits, TapeInv, TapeTyped
      <3>3. Used' = {} /\ current' = 0
        BY <1>6, <3>1 DEF OnClose, Used, TapeInv, TapeTyped
      <3>4. TapeTyped'
        BY <1>6, <3>2 DEF OnClose, TapeInv, TapeTyped
      <3>5. ~MayGreet'
        BY <1>6, <2>2, <3>2, <3>3 DEF OnClose, MayGreet, Used, TapeInv
      <3>6. FloodHasRoom'
        BY <1>6, <3>5 DEF OnClose, TapeInv, FloodHasRoom
      <3> QED BY <1>6, <2>2, <3>2, <3>3, <3>4, <3>6 DEF OnClose, TapeInv, InUse, TapeIsAsItSays
    <2> QED BY <2>1, <2>2
  <1>7. CASE TapeTick
    <2>1. /\ flood' \in [left : 0..FloodTicks, count : Nat]
          /\ flood'.left = 0 => flood'.count = 0
          /\ flood'.count <= 2 * (FloodTicks - flood'.left)
      <3>1. CASE flood.left <= 1
        BY <1>0, <1>7, <3>1 DEF TapeTick
      <3>2. CASE ~(flood.left <= 1)
        <4>1. flood \in [left : 0..FloodTicks, count : Nat] /\ flood' = [flood EXCEPT !.left = @ - 1]
          BY <1>7, <3>2 DEF TapeTick, TapeInv, TapeTyped
        <4>2. flood'.left = flood.left - 1 /\ flood'.count = flood.count
          BY <4>1
        <4>3. flood.count <= 2 * (FloodTicks - flood.left + 1)
          BY DEF TapeInv, FloodHasRoom
        <4> QED BY <1>0, <3>2, <4>1, <4>2, <4>3
      <3> QED BY <3>1, <3>2
    <2>2. timer' \in Nat \cup {NoTimer} /\ (timer' = NoTimer <=> timer = NoTimer)
      BY <1>7 DEF TapeTick, TapeInv, TapeTyped
    <2>3. TapeTyped'
      BY <1>7, <2>1, <2>2 DEF TapeTick, TapeInv, TapeTyped
    <2>4. FloodHasRoom'
      BY <1>0, <2>1 DEF FloodHasRoom
    <2>5. ~started => flood'.count = 0
      BY <1>7 DEF TapeTick, TapeInv, TapeTyped
    <2>6. Used' = Used
      BY <1>7 DEF TapeTick, Used
    <2> QED BY <1>7, <2>2, <2>3, <2>4, <2>5, <2>6 DEF TapeTick, TapeInv, InUse, TapeIsAsItSays
  <1>8. CASE UNCHANGED <<started, closed, current, net, connected, backoff, timer, greeted, flood>> /\ reachable' \in BOOLEAN
    <2>1. Used' = Used /\ (MayGreet' <=> MayGreet) /\ TapeTyped'
      BY <1>8 DEF Used, MayGreet, TapeInv, TapeTyped
    <2> QED BY <1>8, <2>1 DEF TapeInv, InUse, TapeIsAsItSays, FloodHasRoom
  <1>9. ASSUME (\E s \in Socket : OnMessage(s)) \/ Reachability \/ UNCHANGED tapeVars
        PROVE  UNCHANGED <<started, closed, current, net, connected, backoff, timer, greeted, flood>> /\ reachable' \in BOOLEAN
    BY <1>9 DEF OnMessage, Reachability, tapeVars, TapeInv, TapeTyped
  <1> QED BY <1>1, <1>2, <1>3, <1>4, <1>5, <1>6, <1>7, <1>8, <1>9 DEF TapeNext, TapeGoesOn

-----------------------------------------------------------------------------
(* The ingress                                                             *)

\* A launch of a delivery that is being written is in the stream, was dropped or is
\* still to be written, and once it was answered one of the first two.
IngressInv ==
    /\ \A r \in Request :
         /\ ingress[r] = [stage |-> ingress[r].stage, left |-> ingress[r].left, dropped |-> ingress[r].dropped]
         /\ ingress[r].stage = "writing" =>
              \A i \in Launches(Deliveries[r]) : i \in ingress[r].left \cup ingress[r].dropped \/ Deliveries[r][i] \in stream
    /\ DOMAIN ingress = Request
    /\ AckedIsStreamed

LEMMA IngressStep ==
    ASSUME IngressInv, [IngressNext]_ingressVars
    PROVE  IngressInv'
  <1>1. ASSUME NEW r \in Request, NEW yes \in BOOLEAN, IngressReads(r, yes) PROVE IngressInv'
    BY <1>1 DEF IngressReads, IngressInv, AckedIsStreamed
  <1>2. ASSUME NEW r \in Request, NEW yes \in BOOLEAN, IngressWrites(r, yes) PROVE IngressInv'
    <2> DEFINE i == Min(ingress[r].left)
    <2>1. /\ stream' = stream \cup {Deliveries[r][i]} \/ (yes /\ stream' = stream)
          /\ ingress' = [ingress EXCEPT ![r].left = @ \ {i}, ![r].dropped = IF yes THEN @ \cup {i} ELSE @]
          /\ answered' = answered
      BY <1>2 DEF IngressWrites
    <2> HIDE DEF i
    <2>2. /\ ingress'[r] = [stage |-> ingress[r].stage, left |-> ingress[r].left \ {i},
                            dropped |-> IF yes THEN ingress[r].dropped \cup {i} ELSE ingress[r].dropped]
          /\ \A q \in Request : q # r => ingress'[q] = ingress[q]
          /\ DOMAIN ingress' = Request
      <3>1. ingress[r] = [stage |-> ingress[r].stage, left |-> ingress[r].left, dropped |-> ingress[r].dropped] /\ DOMAIN ingress = Request
        BY DEF IngressInv
      <3>2. /\ ingress'[r] = [ingress[r] EXCEPT !.left = @ \ {i}, !.dropped = IF yes THEN @ \cup {i} ELSE @]
            /\ \A q \in Request : q # r => ingress'[q] = ingress[q]
        BY <2>1, <3>1
      <3> QED BY <2>1, <3>1, <3>2
    <2>3. stream \subseteq stream' /\ (Deliveries[r][i] \in stream' \/ yes)
      BY <2>1
    <2>4. ASSUME NEW q \in Request
          PROVE  /\ ingress'[q] = [stage |-> ingress'[q].stage, left |-> ingress'[q].left, dropped |-> ingress'[q].dropped]
                 /\ ingress'[q].stage = "writing" =>
                      \A j \in Launches(Deliveries[q]) : j \in ingress'[q].left \cup ingress'[q].dropped \/ Deliveries[q][j] \in stream'
      <3>1. CASE q = r
        BY <2>2, <2>3, <3>1 DEF IngressInv
      <3>2. CASE q # r
        BY <2>2, <2>3, <3>2 DEF IngressInv
      <3> QED BY <3>1, <3>2
    <2>5. AckedIsStreamed'
      BY <2>1, <2>3 DEF IngressInv, AckedIsStreamed
    <2> QED BY <2>2, <2>4, <2>5 DEF IngressInv
  <1>3. ASSUME NEW r \in Request, IngressAnswers(r) PROVE IngressInv'
    <2>1. \A i \in DOMAIN Deliveries[r] : Deliveries[r][i] \in Mint => i \in ingress[r].dropped \/ Deliveries[r][i] \in stream
      BY <1>3 DEF IngressAnswers, IngressInv, Launches
    <2>2. AckedIsStreamed'
      BY <1>3, <2>1 DEF IngressAnswers, IngressInv, AckedIsStreamed
    <2> QED BY <1>3, <2>2 DEF IngressAnswers, IngressInv
  <1>4. ASSUME NEW r \in Request, Redelivered(r) PROVE IngressInv'
    BY <1>4 DEF Redelivered, IngressInv, AckedIsStreamed
  <1>5. CASE UNCHANGED ingressVars
    BY <1>5 DEF ingressVars, IngressInv, AckedIsStreamed
  <1> QED BY <1>1, <1>2, <1>3, <1>4, <1>5 DEF IngressNext

\* A tape that says it is connected is subscribed, a stopped one keeps nothing, and
\* an acknowledged delivery is in the stream, but what Redis refused.
THEOREM StreamsStayTrue == StreamSpec => []StreamsAreTrue
  <1>1. TapeInit /\ IngressInit => TapeInv /\ IngressInv
    BY TapeInitInv DEF IngressInit, IngressInv, AckedIsStreamed
  <1>2. TapeInv /\ IngressInv /\ [StreamNext]_<<tapeVars, ingressVars>> => TapeInv' /\ IngressInv'
    BY TapeStep, IngressStep DEF StreamNext
  <1>3. TapeInv /\ IngressInv => StreamsAreTrue
    BY DEF TapeInv, IngressInv, StreamsAreTrue
  <1> QED BY <1>1, <1>2, <1>3, PTL DEF StreamSpec

-----------------------------------------------------------------------------
(* The signature walk                                                      *)

WalkState == [stage : {"idle", "page", "mint"}, todo : Seq(Nat), last : Nat, tries : Nat]

\* Every transaction from this one to the start of the first page was asked for.
AskedFrom(first) == \A tx \in Nat : first <= tx /\ tx <= opening => tx \in asked

\* A page counts down to the transaction the cursor is to stand at.
Descends(todo, last) ==
    /\ todo # <<>> /\ last = todo[Len(todo)]
    /\ \A i \in 1..Len(todo) : todo[i] = todo[1] + 1 - i

\* What a walk has behind it: all that is newer than the cursor it read, and then
\* all that is newer than the transaction it is to ask for.
Behind(r) ==
    /\ r.stage = "page" /\ r.last # 0 => AskedFrom(r.last) /\ opening # 0
    /\ r.stage = "mint" => Descends(r.todo, r.last) /\ AskedFrom(r.todo[1] + 1) /\ opening # 0

WalkInv ==
    /\ walk \in [Walker -> WalkState]
    /\ {tip, cursor, opening} \subseteq Nat /\ opening <= tip
    /\ cursor # 0 => AskedFrom(cursor) /\ opening # 0
    /\ \A w \in Walker : Behind(walk[w])

LEMMA WalkInitInv == WalkInit => WalkInv
  <1>1. Resting \in WalkState
    BY DEF Resting, WalkState
  <1> QED BY <1>1 DEF WalkInit, WalkInv, Behind, Resting

\* The rest of a page counts down too.
LEMMA RestDescends ==
    ASSUME NEW todo \in Seq(Nat), NEW last, Descends(todo, last)
    PROVE  /\ Head(todo) = todo[1] /\ todo[1] \in Nat /\ Tail(todo) \in Seq(Nat)
           /\ Tail(todo) = <<>> => last = todo[1]
           /\ Tail(todo) # <<>> => Descends(Tail(todo), last) /\ Tail(todo)[1] + 1 = todo[1]
  <1>1. PICK n \in Nat : n = Len(todo)
    OBVIOUS
  <1>2. PICK rest \in Seq(Nat) : rest = Tail(todo)
    BY HeadTailProperties DEF Descends
  <1>3. n >= 1 /\ Head(todo) = todo[1] /\ Len(rest) = n - 1 /\ \A i \in 1..(n - 1) : rest[i] = todo[i + 1]
    BY <1>1, <1>2 DEF Descends
  <1>4. last = todo[n] /\ \A i \in 1..n : todo[i] = todo[1] + 1 - i
    BY <1>1 DEF Descends
  <1>5. PICK first \in Nat : first = todo[1]
    BY <1>1, <1>3
  <1>6. \A i \in 1..n : todo[i] = first + 1 - i
    BY <1>4, <1>5
  <1>7. ASSUME NEW i \in 1..(n - 1) PROVE rest[i] = first - i
    <2>1. i + 1 \in 1..n /\ first + 1 - (i + 1) = first - i
      OBVIOUS
    <2>2. rest[i] = todo[i + 1]
      BY <1>3
    <2> QED BY <1>6, <2>1, <2>2
  <1>8. rest = <<>> <=> n = 1
    BY <1>3
  <1>9. ASSUME n # 1 PROVE Descends(rest, last) /\ rest[1] + 1 = first
    <2>1. 1 \in 1..(n - 1) /\ n - 1 \in 1..(n - 1)
      BY <1>3, <1>9
    <2>2. rest[1] = first - 1 /\ rest[n - 1] = todo[n]
      BY <1>3, <1>7, <2>1
    <2>3. \A i \in 1..(n - 1) : rest[i] = rest[1] + 1 - i
      BY <1>7, <2>2
    <2> QED BY <1>3, <1>4, <1>8, <1>9, <2>2, <2>3 DEF Descends
  <1> QED BY <1>2, <1>3, <1>4, <1>5, <1>8, <1>9

\* The transaction is dealt with, and the walk moves on to the next or moves the cursor.
LEMMA OnwardInv ==
    ASSUME WalkInv, NEW w \in Walker, walk[w].stage = "mint",
           asked' = asked \cup {Head(walk[w].todo)}, Onward(w, Tail(walk[w].todo)), UNCHANGED <<tip, opening>>
    PROVE  WalkInv'
  <1>1. PICK todo \in Seq(Nat), last \in Nat : todo = walk[w].todo /\ last = walk[w].last
    BY DEF WalkInv, WalkState
  <1>2. Descends(todo, last) /\ AskedFrom(todo[1] + 1) /\ opening # 0 /\ opening \in Nat
    BY <1>1 DEF WalkInv, Behind
  <1>3. /\ Head(todo) = todo[1] /\ todo[1] \in Nat /\ Tail(todo) \in Seq(Nat)
        /\ Tail(todo) = <<>> => last = todo[1]
        /\ Tail(todo) # <<>> => Descends(Tail(todo), last) /\ Tail(todo)[1] + 1 = todo[1]
    BY <1>2, RestDescends
  <1>4. asked' = asked \cup {todo[1]} /\ asked \subseteq asked'
    BY <1>1, <1>3
  <1>5. PICK first \in Nat : first = todo[1]
    BY <1>3
  <1>6. AskedFrom(first)'
    <2>1. ASSUME NEW tx \in Nat, first <= tx, tx <= opening PROVE tx \in asked'
      <3>1. tx = first \/ first + 1 <= tx
        BY <2>1
      <3> QED BY <1>2, <1>4, <1>5, <2>1, <3>1 DEF AskedFrom
    <2> QED BY <2>1 DEF AskedFrom
  <1>7. ASSUME NEW v \in Walker, walk'[v] = walk[v] PROVE Behind(walk[v])'
    <2>1. Behind(walk[v])
      BY DEF WalkInv
    <2> QED BY <1>4, <1>7, <2>1 DEF Behind, AskedFrom
  <1>8. ASSUME cursor # 0 PROVE AskedFrom(cursor) /\ opening # 0
    BY <1>8 DEF WalkInv
  <1>9. CASE Tail(todo) = <<>>
    <2>1. walk' = [walk EXCEPT ![w] = Resting] /\ cursor' = first
      BY <1>1, <1>3, <1>5, <1>9 DEF Onward, CursorSet
    <2>2. walk' \in [Walker -> WalkState] /\ walk'[w].stage = "idle" /\ \A v \in Walker : v # w => walk'[v] = walk[v]
      BY <2>1 DEF WalkInv, WalkState, Resting
    <2>3. Behind(walk[w])'
      BY <2>2 DEF Behind
    <2>4. AskedFrom(cursor)'
      BY <1>6, <2>1 DEF AskedFrom
    <2> QED BY <1>2, <1>7, <2>1, <2>2, <2>3, <2>4 DEF WalkInv
  <1>10. CASE Tail(todo) # <<>>
    <2>1. walk' = [walk EXCEPT ![w].todo = Tail(todo), ![w].tries = 0] /\ cursor' = cursor
      BY <1>1, <1>10 DEF Onward
    <2>2. walk[w] \in WalkState /\ walk \in [Walker -> WalkState]
      BY DEF WalkInv
    <2>3. walk'[w] = [stage |-> "mint", todo |-> Tail(todo), last |-> last, tries |-> 0]
      BY <1>1, <2>1, <2>2 DEF WalkState
    <2>4. walk' \in [Walker -> WalkState] /\ \A v \in Walker : v # w => walk'[v] = walk[v]
      BY <1>3, <2>1, <2>2, <2>3 DEF WalkState
    <2>5. Behind(walk[w])'
      BY <1>2, <1>3, <1>5, <1>6, <1>10, <2>3 DEF Behind
    <2>6. cursor' # 0 => AskedFrom(cursor)' /\ opening' # 0
      BY <1>4, <1>8, <2>1 DEF AskedFrom
    <2> QED BY <1>7, <2>1, <2>4, <2>5, <2>6 DEF WalkInv
  <1> QED BY <1>9, <1>10

\* A page counts down from the tip, or from just before the cursor.
LEMMA PageDescends ==
    ASSUME tip \in Nat, NEW before \in Nat, Page(before) # <<>>
    PROVE  /\ Page(before) \in Seq(Nat) /\ Last(Page(before)) \in Nat
           /\ Descends(Page(before), Last(Page(before)))
           /\ Head(Page(before)) = Page(before)[1]
           /\ Page(before)[1] = IF before = 0 THEN tip ELSE before - 1
           /\ Page(before)[1] >= 1
  <1>1. PICK top \in Int : top = IF before = 0 THEN tip ELSE before - 1
    OBVIOUS
  <1>2. top \in Nat
    BY <1>1
  <1>3. PICK n \in Nat : n = Min({PageSize, top}) /\ n <= top
    BY <1>2, ChainAssumption DEF Min
  <1>4. PICK p : p = Page(before)
    OBVIOUS
  <1>5. p = [i \in 1..n |-> top + 1 - i]
    BY <1>1, <1>3, <1>4 DEF Page
  <1>6. \A i \in 1..n : top + 1 - i \in Nat
    BY <1>2, <1>3
  <1>7. p \in Seq(Nat) /\ Len(p) = n
    BY <1>5, <1>6
  <1>8. n >= 1 /\ top >= 1
    BY <1>3, <1>4, <1>7
  <1>9. p[1] = top /\ Head(p) = p[1] /\ Last(p) = p[n] /\ p[n] \in Nat
    BY <1>5, <1>6, <1>7, <1>8 DEF Last
  <1>10. Descends(p, Last(p))
    BY <1>4, <1>5, <1>7, <1>9 DEF Descends
  <1> QED BY <1>1, <1>4, <1>7, <1>8, <1>9, <1>10

LEMMA WalkStep ==
    ASSUME WalkInv, [WalkNext]_walkVars
    PROVE  WalkInv'
  <1>1. CASE Transact
    <2>1. tip' \in Nat /\ tip <= tip' /\ UNCHANGED <<cursor, walk, asked, opening>>
      BY <1>1 DEF Transact, WalkInv
    <2>2. ASSUME NEW w \in Walker PROVE Behind(walk[w])'
      BY <2>1 DEF WalkInv, Behind, AskedFrom
    <2> QED BY <2>1, <2>2 DEF WalkInv, AskedFrom
  <1>2. ASSUME NEW w \in Walker, WalkBegins(w) PROVE WalkInv'
    <2>1. UNCHANGED <<tip, cursor, asked, opening>>
      BY <1>2 DEF WalkBegins
    <2>2. /\ walk'[w] = [stage |-> "page", todo |-> <<>>, last |-> cursor, tries |-> 0]
          /\ \A v \in Walker : v # w => walk'[v] = walk[v]
          /\ walk' \in [Walker -> WalkState]
      BY <1>2 DEF WalkBegins, WalkInv, WalkState
    <2>3. ASSUME NEW v \in Walker PROVE Behind(walk[v])'
      <3>1. CASE v = w
        <4>1. walk'[v].stage = "page" /\ walk'[v].last = cursor
          BY <2>2, <3>1
        <4>2. cursor # 0 => AskedFrom(cursor)' /\ opening' # 0
          BY <2>1 DEF WalkInv, AskedFrom
        <4> QED BY <2>1, <4>1, <4>2 DEF Behind, AskedFrom
      <3>2. CASE v # w
        <4>1. Behind(walk[v]) /\ walk'[v] = walk[v]
          BY <2>2, <3>2 DEF WalkInv
        <4> QED BY <2>1, <4>1 DEF Behind, AskedFrom
      <3> QED BY <3>1, <3>2
    <2> QED BY <2>1, <2>2, <2>3 DEF WalkInv, AskedFrom
  <1>3. ASSUME NEW w \in Walker, Signatures(w) PROVE WalkInv'
    <2>1. UNCHANGED <<tip, cursor, asked>> /\ walk[w] \in WalkState /\ walk[w].stage = "page" /\ Behind(walk[w])
      BY <1>3 DEF Signatures, WalkInv
    <2>2. PICK before \in Nat : before = walk[w].last
      BY <2>1 DEF WalkState
    <2> DEFINE sigs == Page(before)
    <2>3. CASE sigs = <<>>
      <3>1. walk' = [walk EXCEPT ![w] = Resting] /\ opening' = opening
        BY <1>3, <2>2, <2>3 DEF Signatures
      <3>2. walk' \in [Walker -> WalkState] /\ walk'[w].stage = "idle" /\ \A v \in Walker : v # w => walk'[v] = walk[v]
        BY <3>1 DEF WalkInv, WalkState, Resting
      <3>3. ASSUME NEW v \in Walker PROVE Behind(walk[v])'
        <4>1. Behind(walk[v])
          BY DEF WalkInv
        <4> QED BY <2>1, <3>1, <3>2, <4>1 DEF Behind, AskedFrom
      <3> QED BY <2>1, <3>1, <3>2, <3>3 DEF WalkInv, AskedFrom
    <2>4. CASE sigs # <<>>
      <3>1. /\ sigs \in Seq(Nat) /\ Last(sigs) \in Nat /\ Descends(sigs, Last(sigs)) /\ Head(sigs) = sigs[1]
            /\ sigs[1] = IF before = 0 THEN tip ELSE before - 1
            /\ sigs[1] >= 1
        BY <2>2, <2>4, PageDescends DEF WalkInv
      <3>2. /\ walk' = [walk EXCEPT ![w] = [stage |-> "mint", todo |-> sigs, last |-> Last(sigs), tries |-> 0]]
            /\ opening' = IF opening = 0 THEN sigs[1] ELSE opening
        BY <1>3, <2>2, <2>4, <3>1 DEF Signatures
      <3>3. PICK first \in Nat : first = sigs[1]
        BY <2>2, <3>1 DEF WalkInv
      <3> DEFINE row == [stage |-> "mint", todo |-> sigs, last |-> Last(sigs), tries |-> 0]
      <3>4. row \in WalkState
        BY <3>1 DEF WalkState
      <3>5. walk' \in [Walker -> WalkState] /\ walk'[w] = row /\ \A v \in Walker : v # w => walk'[v] = walk[v]
        BY <3>2, <3>4 DEF WalkInv
      <3>6. /\ tip \in Nat /\ opening \in Nat /\ opening <= tip
            /\ before # 0 => AskedFrom(before) /\ opening # 0
            /\ first = IF before = 0 THEN tip ELSE before - 1
            /\ opening' = IF opening = 0 THEN first ELSE opening
        BY <2>1, <2>2, <3>1, <3>2, <3>3 DEF WalkInv, Behind
      <3>7. opening' # 0 /\ opening' \in Nat /\ opening' <= tip' /\ (opening # 0 => opening' = opening)
        BY <2>1, <3>1, <3>3, <3>6
      <3>8. AskedFrom(first + 1)'
        <4>1. ASSUME NEW tx \in Nat, first + 1 <= tx, tx <= opening' PROVE before # 0 /\ before <= tx /\ opening' = opening
          BY <3>6, <3>7, <4>1
        <4>2. ASSUME NEW tx \in Nat, first + 1 <= tx, tx <= opening' PROVE tx \in asked'
          BY <2>1, <3>6, <4>1, <4>2 DEF AskedFrom
        <4> QED BY <4>2 DEF AskedFrom
      <3>9. ASSUME NEW v \in Walker PROVE Behind(walk[v])'
        <4>1. CASE v = w
          <5>1. walk'[v].stage = "mint" /\ walk'[v].todo = sigs /\ walk'[v].last = Last(sigs)
            BY <3>5, <4>1
          <5>2. walk'[v].todo[1] + 1 = first + 1
            BY <3>3, <5>1
          <5> HIDE DEF sigs
          <5>3. AskedFrom(walk[v].todo[1] + 1)'
            BY <3>8, <5>2 DEF AskedFrom
          <5> QED BY <3>1, <3>7, <5>1, <5>3 DEF Behind
        <4>2. CASE v # w
          <5>1. Behind(walk[v]) /\ walk'[v] = walk[v]
            BY <3>5, <4>2 DEF WalkInv
          <5> QED BY <2>1, <3>7, <5>1 DEF Behind, AskedFrom
        <4> QED BY <4>1, <4>2
      <3>10. cursor' # 0 => AskedFrom(cursor)' /\ opening' # 0
        BY <2>1, <3>7 DEF WalkInv, AskedFrom
      <3> QED BY <2>1, <3>5, <3>7, <3>9, <3>10 DEF WalkInv
    <2> QED BY <2>3, <2>4
  <1>4. ASSUME NEW w \in Walker, MintFromSignature(w) PROVE WalkInv'
    BY <1>4, OnwardInv DEF MintFromSignature
  <1>5. ASSUME NEW w \in Walker, RpcFails(w) PROVE WalkInv'
    <2>1. CASE walk[w].tries + 1 = Attempts /\ walk[w].stage = "mint" /\ asked' = asked \cup {Head(walk[w].todo)} /\ Onward(w, Tail(walk[w].todo))
      BY <1>5, <2>1, OnwardInv DEF RpcFails
    <2>2. CASE UNCHANGED <<cursor, asked>> /\ (walk' = [walk EXCEPT ![w].tries = @ + 1] \/ walk' = [walk EXCEPT ![w] = Resting])
      <3>1. UNCHANGED <<tip, cursor, asked, opening>>
        BY <1>5, <2>2 DEF RpcFails
      <3>2. walk[w] \in WalkState /\ walk \in [Walker -> WalkState]
        BY DEF WalkInv
      <3>3. walk' \in [Walker -> WalkState] /\ \A v \in Walker : v # w => walk'[v] = walk[v]
        <4>1. Resting \in WalkState
          BY DEF Resting, WalkState
        <4>2. [walk[w] EXCEPT !.tries = @ + 1] \in WalkState
          <5>1. [walk[w] EXCEPT !.tries = @ + 1] =
                  [stage |-> walk[w].stage, todo |-> walk[w].todo, last |-> walk[w].last, tries |-> walk[w].tries + 1]
            BY <3>2 DEF WalkState
          <5>2. walk[w].tries + 1 \in Nat
            BY <3>2 DEF WalkState
          <5> QED BY <3>2, <5>1, <5>2 DEF WalkState
        <4>3. PICK r \in WalkState : walk' = [walk EXCEPT ![w] = r]
          BY <2>2, <4>1, <4>2
        <4> QED BY <3>2, <4>3
      <3>4. \/ walk'[w].stage = "idle"
            \/ walk'[w].stage = walk[w].stage /\ walk'[w].todo = walk[w].todo /\ walk'[w].last = walk[w].last
        BY <2>2, <3>2 DEF WalkState, Resting
      <3>5. ASSUME NEW v \in Walker PROVE Behind(walk[v])'
        <4>1. Behind(walk[v])
          BY DEF WalkInv
        <4> QED BY <3>1, <3>3, <3>4, <4>1 DEF Behind, AskedFrom
      <3> QED BY <3>1, <3>3, <3>5 DEF WalkInv, AskedFrom
    <2> QED BY <1>5, <2>1, <2>2 DEF RpcFails
  <1>6. CASE UNCHANGED walkVars
    <2>1. UNCHANGED <<tip, cursor, walk, asked, opening>>
      BY <1>6 DEF walkVars
    <2> QED BY <2>1 DEF WalkInv, Behind, AskedFrom
  <1> QED BY <1>1, <1>2, <1>3, <1>4, <1>5, <1>6 DEF WalkNext, Walks

-----------------------------------------------------------------------------
(* The log scan                                                            *)

\* Up to where it is, the scan has read its window, unless it has not begun.
ScanInv ==
    /\ scan \in [stage : {"idle", "ranges", "cut", "complete"}, from : Int, to : Int, start : Int, chunk : Nat, ranges : Int]
    /\ scan.stage = "ranges" =>
         /\ scan.start < scan.to /\ scan.start <= scan.from /\ scan.from <= scan.to
         /\ scan.from # scan.start => scan.start..scan.from \subseteq scanned
    /\ CompleteMeansScanned

LEMMA ScanStepInv ==
    ASSUME ScanInv, [ScanNext]_scanVars
    PROVE  ScanInv'
  <1> DEFINE ScanState ==
        [stage : {"idle", "ranges", "cut", "complete"}, from : Int, to : Int, start : Int, chunk : Nat, ranges : Int]
  <1>0. {Confirmations} \subseteq Nat /\ {Lookback, StartChunk, MinChunk} \subseteq Nat \ {0}
    BY ChainAssumption
  <1>1. ASSUME NEW head \in Heads, ScanBegins(head) PROVE ScanInv'
    <2> DEFINE to == head - Confirmations
    <2>1. to \in Int /\ to >= 2
      BY <1>1, ChainAssumption DEF ScanBegins
    <2>2. PICK from \in Int : from = Max({1, to - Lookback}) /\ from < to
      BY <1>0, <2>1 DEF Max
    <2>3. scan' = [stage |-> "ranges", from |-> from, to |-> to, start |-> from, chunk |-> StartChunk, ranges |-> 0]
      BY <1>1, <2>2 DEF ScanBegins
    <2> HIDE DEF to
    <2> QED BY <1>0, <2>1, <2>2, <2>3 DEF ScanInv, CompleteMeansScanned
  <1>2. CASE RangeRead
    <2>1. PICK e \in Int : e = RangeEnd /\ scan.from <= e /\ e <= scan.to
      BY <1>2 DEF RangeRead, RangeEnd, ScanInv, Min
    <2>2. scan' = [scan EXCEPT !.from = e, !.ranges = 1 - @]
      BY <1>2, <2>1 DEF RangeRead, RangeAsked
    <2>3. scanned' = scanned \cup (scan.from..e)
      BY <1>2, <2>1 DEF RangeRead, FetchPairCreated
    <2>4. /\ scan \in ScanState /\ scan.stage = "ranges"
          /\ scan.start < scan.to /\ scan.start <= scan.from /\ scan.from <= scan.to
          /\ scan.from # scan.start => scan.start..scan.from \subseteq scanned
      BY <1>2 DEF RangeRead, ScanInv
    <2>5. scan' = [stage |-> scan.stage, from |-> e, to |-> scan.to, start |-> scan.start, chunk |-> scan.chunk,
                   ranges |-> 1 - scan.ranges]
      BY <2>2, <2>4
    <2>6. scan.start..e \subseteq scanned'
      <3>1. ASSUME NEW b \in scan.start..e, b \notin scan.from..e
            PROVE  b \in scan.start..scan.from /\ scan.from # scan.start
        BY <2>1, <2>4, <3>1
      <3> QED BY <2>3, <2>4, <3>1
    <2>7. scan' \in ScanState
      BY <2>4, <2>5
    <2> QED BY <2>1, <2>4, <2>5, <2>6, <2>7 DEF ScanInv, CompleteMeansScanned
  <1>3. CASE RangeRefused
    <2>1. /\ scan \in ScanState /\ scan.stage = "ranges" /\ scanned' = scanned
          /\ scan' = RangeAsked(IF scan.chunk > MinChunk THEN [scan EXCEPT !.chunk = Max({MinChunk, @ \div 2})]
                               ELSE [scan EXCEPT !.stage = "cut"])
      BY <1>3 DEF RangeRefused, ScanInv
    <2>2. Max({MinChunk, scan.chunk \div 2}) \in Nat
      BY <1>0, <2>1 DEF Max
    <2>3. PICK c \in Nat, s \in {"ranges", "cut"} :
            scan' = [stage |-> s, from |-> scan.from, to |-> scan.to, start |-> scan.start, chunk |-> c,
                     ranges |-> 1 - scan.ranges]
      <3>1. CASE scan.chunk > MinChunk
        BY <2>1, <2>2, <3>1 DEF RangeAsked
      <3>2. CASE ~(scan.chunk > MinChunk)
        BY <2>1, <3>2 DEF RangeAsked
      <3> QED BY <3>1, <3>2
    <2>4. scan' \in ScanState
      BY <2>1, <2>3
    <2> QED BY <2>1, <2>3, <2>4 DEF ScanInv, CompleteMeansScanned
  <1>4. CASE ScanEnds
    BY <1>4 DEF ScanEnds, ScanInv, CompleteMeansScanned
  <1>5. CASE NoHead
    BY <1>5 DEF NoHead, NoScan, ScanInv, CompleteMeansScanned
  <1>6. CASE UNCHANGED scanVars
    BY <1>6 DEF scanVars, ScanInv, CompleteMeansScanned
  <1> QED BY <1>1, <1>2, <1>3, <1>4, <1>5, <1>6 DEF ScanNext, ScanStep

\* Behind the cursor of the signature walk nothing was passed over unasked, however
\* the walks overlap, and a log scan that calls itself complete read its window.
THEOREM ScansStayComplete == ChainSpec => []ScansAreComplete
  <1>1. WalkInit /\ ScanInit => WalkInv /\ ScanInv
    BY WalkInitInv DEF ScanInit, NoScan, ScanInv, CompleteMeansScanned
  <1>2. WalkInv /\ ScanInv /\ [ChainNext]_<<walkVars, scanVars>> => WalkInv' /\ ScanInv'
    BY WalkStep, ScanStepInv DEF ChainNext
  <1>3. WalkInv /\ ScanInv => ScansAreComplete
    BY DEF WalkInv, AskedFrom, ScanInv, ScansAreComplete, NoHoleBehind
  <1> QED BY <1>1, <1>2, <1>3, PTL DEF ChainSpec

-----------------------------------------------------------------------------
(* Security audits                                                         *)

Passes(said) == SecurityAuditGate({said})

\* An answer that still clears a token was given before the token turned.
AuditInv ==
    /\ DOMAIN audits = Addr /\ DOMAIN turned = Addr /\ cleared \subseteq Addr
    /\ \A a \in Addr :
         /\ audits[a] = [said |-> audits[a].said, left |-> audits[a].left] /\ audits[a].left \in 0..AuditTtl
         /\ turned[a] \in Nat \cup {-1}
         /\ audits[a].left > 0 /\ Passes(audits[a].said) => turned[a] + audits[a].left <= AuditTtl
    /\ ClearanceLapses

\* Whichever danger is reported, the gate refuses.
LEMMA DangerRefused ==
    ASSUME NEW danger \in {"honeypot", "blacklist", "locked", "taxed"}
    PROVE  ~Passes({danger})
  <1> DEFINE x == Audit({danger})
  <1>1. Passes({danger}) <=> ~x.honeypot /\ ~x.blacklist /\ ~x.locked /\ x.tax <= MaxTax
    BY DEF Passes, SecurityAuditGate
  <1>2. /\ x.honeypot = (danger = "honeypot") /\ x.blacklist = (danger = "blacklist") /\ x.locked = (danger = "locked")
        /\ x.tax = IF danger = "taxed" THEN 99 ELSE 0
    BY DEF Audit
  <1>3. ~(99 <= MaxTax)
    BY IntelAssumption
  <1> HIDE DEF x
  <1> QED BY <1>1, <1>2, <1>3

LEMMA AuditStep ==
    ASSUME AuditInv, [AuditNext]_auditVars
    PROVE  AuditInv'
  <1>1. CASE AuditTick
    <2>1. DOMAIN audits' = Addr /\ DOMAIN turned' = Addr /\ cleared' = {}
      BY <1>1 DEF AuditTick
    <2>2. ASSUME NEW a \in Addr
          PROVE  /\ audits'[a] = [said |-> audits'[a].said, left |-> audits'[a].left] /\ audits'[a].left \in 0..AuditTtl
                 /\ turned'[a] \in Nat \cup {-1}
                 /\ audits'[a].left > 0 /\ Passes(audits'[a].said) => turned'[a] + audits'[a].left <= AuditTtl
      <3>1. PICK l \in 0..AuditTtl : audits[a] = [said |-> audits[a].said, left |-> l]
        BY DEF AuditInv
      <3>2. audits'[a] = IF l <= 1 THEN [said |-> {}, left |-> 0] ELSE [said |-> audits[a].said, left |-> l - 1]
        BY <1>1, <3>1 DEF AuditTick
      <3>3. turned'[a] = IF turned[a] < 0 THEN -1 ELSE Min({turned[a] + 1, AuditTtl + 1})
        BY <1>1 DEF AuditTick
      <3>4. ASSUME NEW n \in Int PROVE Min({n, AuditTtl + 1}) = IF n <= AuditTtl THEN n ELSE AuditTtl + 1
        BY IntelAssumption DEF Min
      <3>5. turned[a] \in Nat \cup {-1} /\ (l > 0 /\ Passes(audits[a].said) => turned[a] + l <= AuditTtl)
        BY <3>1 DEF AuditInv
      <3>6. turned'[a] \in Nat \cup {-1} /\ turned'[a] <= turned[a] + 1
        <4>1. PICK n \in Nat \cup {-1} : n = turned[a]
          BY <3>5
        <4>2. Min({n + 1, AuditTtl + 1}) = IF n + 1 <= AuditTtl THEN n + 1 ELSE AuditTtl + 1
          BY <3>4
        <4>3. turned'[a] = IF n < 0 THEN -1 ELSE Min({n + 1, AuditTtl + 1})
          BY <3>3, <4>1
        <4> QED BY <4>1, <4>2, <4>3, IntelAssumption
      <3>7. CASE l <= 1
        BY <3>2, <3>6, <3>7, IntelAssumption
      <3>8. CASE l > 1
        <4>1. audits'[a].said = audits[a].said /\ audits'[a].left = l - 1
          BY <3>2, <3>8
        <4> QED BY <3>2, <3>5, <3>6, <3>8, <4>1, IntelAssumption
      <3> QED BY <3>7, <3>8, IntelAssumption
    <2> QED BY <2>1, <2>2 DEF AuditInv, ClearanceLapses
  <1>2. ASSUME NEW a \in Addr, Turns(a) PROVE AuditInv'
    BY <1>2, IntelAssumption DEF Turns, AuditInv, ClearanceLapses
  <1>3. ASSUME NEW a \in Addr, AuditAsked(a) PROVE AuditInv'
    <2>1. PICK danger \in {"honeypot", "blacklist", "locked", "taxed"} :
             FetchTokenSecurity(a, IF turned[a] >= 0 THEN {danger} ELSE {})
      BY <1>3 DEF AuditAsked
    <2> DEFINE answer == IF turned[a] >= 0 THEN {danger} ELSE {}
    <2>2. turned' = turned /\ audits' = [audits EXCEPT ![a] = KeptAudit(a, answer)]
      BY <1>3, <2>1 DEF AuditAsked, FetchTokenSecurity
    <2>3. turned[a] >= 0 => ~Passes(answer)
      BY DangerRefused
    <2> HIDE DEF answer
    <2>4. ASSUME NEW d \in Addr
          PROVE  /\ audits'[d] = [said |-> audits'[d].said, left |-> audits'[d].left] /\ audits'[d].left \in 0..AuditTtl
                 /\ audits'[d].left > 0 /\ Passes(audits'[d].said) => turned[d] + audits'[d].left <= AuditTtl
      <3>1. CASE audits'[d] = audits[d]
        BY <3>1 DEF AuditInv
      <3>2. CASE d = a /\ audits'[a] = [said |-> answer, left |-> AuditTtl]
        <4>1. audits'[a].said = answer /\ audits'[a].left = AuditTtl
          BY <3>2
        <4>2. turned[a] \in Nat \cup {-1}
          BY DEF AuditInv
        <4>3. Passes(audits'[a].said) => turned[a] = -1
          BY <2>3, <4>1, <4>2
        <4>4. turned[a] = -1 => turned[a] + audits'[a].left <= AuditTtl
          BY <4>1, IntelAssumption
        <4>5. audits'[a] = [said |-> audits'[a].said, left |-> audits'[a].left]
          BY <3>2, <4>1
        <4>6. audits'[a].left \in 0..AuditTtl
          BY <4>1, IntelAssumption
        <4> QED BY <3>2, <4>3, <4>4, <4>5, <4>6
      <3> QED BY <2>2, <3>1, <3>2 DEF AuditInv, KeptAudit
    <2>5. DOMAIN audits' = Addr /\ DOMAIN turned' = Addr
      BY <2>2 DEF AuditInv
    <2>6. SecurityAuditGate({}) = FALSE
      BY DEF SecurityAuditGate
    <2>7. cleared' = IF audits'[a].left > 0 /\ Passes(audits'[a].said) THEN cleared \cup {a} ELSE cleared \ {a}
      BY <2>1, <2>6 DEF FetchTokenSecurity, Passes
    <2>8. audits'[a].left > 0 /\ Passes(audits'[a].said) => turned[a] < AuditTtl
      <3>1. turned[a] \in Nat \cup {-1}
        BY DEF AuditInv
      <3>2. /\ audits'[a].left \in 0..AuditTtl
            /\ audits'[a].left > 0 /\ Passes(audits'[a].said) => turned[a] + audits'[a].left <= AuditTtl
        BY <2>4
      <3> HIDE DEF Passes
      <3> QED BY <3>1, <3>2, IntelAssumption
    <2>9. cleared' \subseteq Addr /\ ClearanceLapses'
      BY <2>2, <2>7, <2>8 DEF AuditInv, ClearanceLapses
    <2>10. \A d \in Addr : turned'[d] \in Nat \cup {-1}
      BY <2>2 DEF AuditInv
    <2> QED BY <2>2, <2>4, <2>5, <2>9, <2>10 DEF AuditInv
  <1>4. CASE UNCHANGED auditVars
    BY <1>4 DEF auditVars, AuditInv, ClearanceLapses
  <1> QED BY <1>1, <1>2, <1>3, <1>4 DEF AuditNext, auditVars

-----------------------------------------------------------------------------
(* Listings                                                                *)

Genuine(t) ==
    t = [addr |-> t.addr, chain |-> t.chain, h1 |-> t.h1, h24 |-> t.h24, away |-> t.away, again |-> t.again, lane |-> t.lane]

\* A listed row vouches for a token's chain and for its volumes.
Backs(r, t) ==
    /\ Lists(r, t)
    /\ t.h24 <= Truth[r.pool].h24 /\ t.h1 <= Max({Truth[r.pool].h1, Truth[r.pool].h24 \div 24})
Honest(t) == Genuine(t) /\ \E r \in Listed : Backs(r, t)

\* A token of the enriched listing, with no figures until it is read.
Profiled(t) == Honest(t) /\ \E r \in Listed : t.addr = r.addr /\ r.chain = t.chain
Blank(t) == t.h1 = 0 /\ t.h24 = 0

Places(todo) == {todo[i] : i \in 1..Len(todo)}

LEMMA LargerOfTwo ==
    ASSUME NEW m \in Nat, NEW n \in Nat
    PROVE  Max({m, n}) \in Nat /\ m <= Max({m, n}) /\ n <= Max({m, n})
  <1>1. Max({m, n}) = IF m >= n THEN m ELSE n
    BY DEF Max
  <1> QED BY <1>1

\* The volumes of a row are naturals, and the bound on an hour is one.
LEMMA Volume ==
    ASSUME NEW r \in Listed
    PROVE  /\ Truth[r.pool].h1 \in Nat /\ Truth[r.pool].h6 \in Nat /\ Truth[r.pool].h24 \in Nat
           /\ Truth[r.pool].h6 <= Truth[r.pool].h24 /\ Truth[r.pool].h24 \div 24 \in Nat
           /\ LET m == Max({Truth[r.pool].h1, Truth[r.pool].h24 \div 24})
              IN  m \in Nat /\ Truth[r.pool].h1 <= m /\ Truth[r.pool].h24 \div 24 <= m
  <1>1. Truth[r.pool].h1 \in Nat /\ Truth[r.pool].h6 \in Nat /\ Truth[r.pool].h24 \in Nat
    BY MarketAssumption DEF Interval
  <1>2. Truth[r.pool].h24 \div 24 \in Nat
    BY <1>1
  <1> QED BY <1>1, <1>2, LargerOfTwo, MarketAssumption

\* What GMGN says of a row of some interval, and whatever parts of it are there.
LEMMA NormalizedBacked ==
    ASSUME NEW r \in Listed, NEW interval \in Interval, NEW shown,
           NEW t, t = Normalized(Ranked(r, interval, shown), VolumeWindow(interval), r.chain)
    PROVE  Genuine(t) /\ Backs(r, t)
  <1> DEFINE row == Ranked(r, interval, shown)
             window == VolumeWindow(interval)
             day == IF "h24" \in row.shown THEN Truth[row.pool].h24 ELSE IF window = "h24" THEN row.bare ELSE 0
             hour == IF "h1" \in row.shown THEN Truth[row.pool].h1
                     ELSE IF window = "h1" THEN row.bare
                     ELSE IF row.bare = 0 /\ day > 0 THEN day \div 24 ELSE 0
             h1 == Truth[r.pool].h1
             h24 == Truth[r.pool].h24
  <1>1. row.addr = r.addr /\ row.pool = r.pool /\ row.bare = IF "bare" \in shown THEN Truth[r.pool][interval] ELSE 0
    BY DEF Ranked
  <1>2. window = "h24" => row.bare \in Nat /\ row.bare <= h24
    <2>1. window = "h24" => interval \in {"h6", "h24"}
      BY DEF VolumeWindow
    <2>2. row.bare \in {0, Truth[r.pool][interval]}
      BY <1>1
    <2>3. /\ interval = "h1" => Truth[r.pool][interval] = Truth[r.pool].h1
          /\ interval = "h6" => Truth[r.pool][interval] = Truth[r.pool].h6
          /\ interval = "h24" => Truth[r.pool][interval] = Truth[r.pool].h24
      OBVIOUS
    <2>4. /\ Truth[r.pool].h1 \in Nat /\ Truth[r.pool].h6 \in Nat /\ Truth[r.pool].h24 \in Nat
          /\ Truth[r.pool].h6 <= Truth[r.pool].h24
      BY Volume
    <2> HIDE DEF row, window
    <2> QED BY <2>1, <2>2, <2>3, <2>4
  <1>3. window = "h1" => row.bare \in Nat /\ row.bare <= h1
    <2>1. window = "h1" => interval = "h1"
      BY DEF VolumeWindow, Interval
    <2>2. row.bare \in {0, Truth[r.pool][interval]}
      BY <1>1
    <2>3. /\ interval = "h1" => Truth[r.pool][interval] = Truth[r.pool].h1
          /\ interval = "h6" => Truth[r.pool][interval] = Truth[r.pool].h6
          /\ interval = "h24" => Truth[r.pool][interval] = Truth[r.pool].h24
      OBVIOUS
    <2>4. /\ Truth[r.pool].h1 \in Nat /\ Truth[r.pool].h6 \in Nat /\ Truth[r.pool].h24 \in Nat
          /\ Truth[r.pool].h6 <= Truth[r.pool].h24
      BY Volume
    <2> HIDE DEF row, window
    <2> QED BY <2>1, <2>2, <2>3, <2>4
  <1>4. window \in {"h1", "h24"}
    BY DEF VolumeWindow
  <1>5. t = [addr |-> r.addr, chain |-> r.chain, h1 |-> hour, h24 |-> day, away |-> FALSE, again |-> FALSE, lane |-> FALSE]
    BY <1>1 DEF Normalized, Token
  <1>6. h1 \in Nat /\ h24 \in Nat
    BY Volume
  <1> HIDE DEF row, window, h1, h24
  <1>7. day \in Nat /\ day <= h24
    BY <1>1, <1>2, <1>6 DEF h24
  <1> HIDE DEF day
  <1>8. day \div 24 \in Nat /\ day \div 24 <= h24 \div 24
    BY <1>6, <1>7
  <1>9. hour <= Max({h1, h24 \div 24})
    <2>1. Max({h1, h24 \div 24}) \in Nat /\ h1 <= Max({h1, h24 \div 24}) /\ h24 \div 24 <= Max({h1, h24 \div 24})
      BY Volume DEF h1, h24
    <2>2. hour \in {h1, 0} \/ (window = "h1" /\ hour = row.bare) \/ hour = day \div 24
      BY <1>1 DEF h1
    <2> HIDE DEF hour
    <2> QED BY <1>3, <1>6, <1>8, <2>1, <2>2
  <1> HIDE DEF hour
  <1> QED BY <1>5, <1>7, <1>9 DEF Genuine, Backs, Lists, h1, h24

LEMMA GmgnHonest ==
    ASSUME NEW c \in Chains, NEW interval \in Interval, NEW shown,
           NEW t \in FetchRank(c, interval, shown) \cup FetchHotSearches(c, shown) \cup FetchTrenches(c, shown)
    PROVE  Honest(t) /\ t.chain = c
  <1>1. \E r \in On(c), i \in Interval : \E parts : t = Normalized(Ranked(r, i, parts), VolumeWindow(i), c)
    <2>1. CASE t \in FetchRank(c, interval, shown)
      BY <2>1 DEF FetchRank
    <2>2. CASE t \in FetchHotSearches(c, shown)
      BY <2>2 DEF FetchHotSearches, Interval
    <2>3. CASE t \in FetchTrenches(c, shown)
      <3>1. VolumeWindow("h24") = "h24"
        BY DEF VolumeWindow
      <3> QED BY <2>3, <3>1 DEF FetchTrenches, Interval
    <2> QED BY <2>1, <2>2, <2>3
  <1>2. PICK r \in On(c), i \in Interval : \E parts : t = Normalized(Ranked(r, i, parts), VolumeWindow(i), c)
    BY <1>1
  <1>3. PICK parts : t = Normalized(Ranked(r, i, parts), VolumeWindow(i), r.chain)
    BY <1>2 DEF On
  <1>4. r \in Listed /\ r.chain = c
    BY DEF On
  <1>5. Genuine(t) /\ Backs(r, t)
    BY <1>3, <1>4, NormalizedBacked
  <1> QED BY <1>4, <1>5 DEF Honest, Backs, Lists

LEMMA PoolsHonest ==
    ASSUME NEW t, (\E r \in Listed : t \in NormalizePool(r) \cup NormalizeRow(r) \cup NormalizeProfile(r))
    PROVE  Honest(t)
  <1>1. PICK r \in Listed : t \in NormalizePool(r) \cup NormalizeRow(r) \cup NormalizeProfile(r)
    OBVIOUS
  <1>2. PICK l \in BOOLEAN, n \in {0, Truth[r.pool].h24}, a \in {r.addr, r.pool} :
          t = [addr |-> a, chain |-> r.chain, h1 |-> 0, h24 |-> n, away |-> FALSE, again |-> FALSE, lane |-> l]
    <2>1. CASE t \in NormalizePool(r)
      <3>1. PICK a \in {r.addr, r.pool} : t = [Token(a, r.chain) EXCEPT !.h24 = Truth[r.pool].h24]
        BY <2>1 DEF NormalizePool
      <3>2. t = [addr |-> a, chain |-> r.chain, h1 |-> 0, h24 |-> Truth[r.pool].h24, away |-> FALSE, again |-> FALSE, lane |-> FALSE]
        BY <3>1 DEF Token
      <3> QED BY <3>2
    <2>2. CASE t \in NormalizeRow(r)
      <3>1. t = [Token(r.addr, r.chain) EXCEPT !.h24 = Truth[r.pool].h24, !.lane = TRUE]
        BY <2>2 DEF NormalizeRow
      <3>2. t = [addr |-> r.addr, chain |-> r.chain, h1 |-> 0, h24 |-> Truth[r.pool].h24, away |-> FALSE, again |-> FALSE, lane |-> TRUE]
        BY <3>1 DEF Token
      <3> QED BY <3>2
    <2>3. CASE t \in NormalizeProfile(r)
      <3>1. t = [addr |-> r.addr, chain |-> r.chain, h1 |-> 0, h24 |-> 0, away |-> FALSE, again |-> FALSE, lane |-> FALSE]
        BY <2>3 DEF NormalizeProfile, Token
      <3> QED BY <3>1
    <2> QED BY <1>1, <2>1, <2>2, <2>3
  <1>3. t.addr = a /\ t.chain = r.chain /\ t.h1 = 0 /\ t.h24 = n /\ Genuine(t)
    BY <1>2 DEF Genuine
  <1>4. Backs(r, t)
    BY <1>3, Volume DEF Backs, Lists
  <1> QED BY <1>3, <1>4 DEF Honest

\* A profile, whether or not another of its address was listed after it.
LEMMA ProfileIs ==
    ASSUME NEW last, NEW t \in Profiles(last)
    PROVE  Profiled(t) /\ Blank(t) /\ BatchOf[t.addr] \in Batches
  <1>1. PICK r \in Listed : \E o \in NormalizeProfile(r) : t = [o EXCEPT !.again = r \notin last]
    BY DEF Profiles
  <1>2. PICK o \in NormalizeProfile(r) : t = [o EXCEPT !.again = r \notin last]
    BY <1>1
  <1>3. o = [addr |-> r.addr, chain |-> r.chain, h1 |-> 0, h24 |-> 0, away |-> FALSE, again |-> FALSE, lane |-> FALSE]
    BY <1>2 DEF NormalizeProfile, Token
  <1>4. t = [addr |-> r.addr, chain |-> r.chain, h1 |-> 0, h24 |-> 0, away |-> FALSE, again |-> r \notin last, lane |-> FALSE]
    BY <1>2, <1>3
  <1>5. t.addr = r.addr /\ t.chain = r.chain /\ t.h1 = 0 /\ t.h24 = 0 /\ Genuine(t)
    BY <1>4 DEF Genuine
  <1>6. Backs(r, t)
    BY <1>5, Volume DEF Backs, Lists
  <1> QED BY <1>5, <1>6 DEF Profiled, Honest, Blank, Batches

LEMMA BatchRead ==
    ASSUME NEW tokens, NEW b, NEW rest, NEW priced \in SUBSET Listed,
           \A t \in tokens : Profiled(t) /\ (((BatchOf[t.addr] = b \/ BatchOf[t.addr] \in rest) /\ Blank(t)) \/ ReadOrMarked(t)),
           NEW u \in MarkBatchUnavailable(tokens, b) \cup Enriched(tokens, b, priced)
    PROVE  Profiled(u) /\ ((BatchOf[u.addr] \in rest /\ Blank(u)) \/ ReadOrMarked(u))
  <1>1. ASSUME NEW some, some \subseteq tokens, u \in MarkBatchUnavailable(some, b)
        PROVE  Profiled(u) /\ ((BatchOf[u.addr] \in rest /\ Blank(u)) \/ ReadOrMarked(u))
    <2>1. PICK t \in tokens : u = IF BatchOf[t.addr] = b /\ ~t.again THEN [t EXCEPT !.away = TRUE] ELSE t
      BY <1>1 DEF MarkBatchUnavailable
    <2>2. CASE ~(BatchOf[t.addr] = b /\ ~t.again)
      <3>1. u = t
        BY <2>1, <2>2
      <3>2. Blank(t) /\ t.again => ReadOrMarked(t)
        BY DEF Blank, ReadOrMarked
      <3> QED BY <2>2, <3>1, <3>2
    <2>3. CASE BatchOf[t.addr] = b /\ ~t.again
      <3>1. Profiled(t) /\ Genuine(t)
        BY DEF Profiled, Honest
      <3>2. u = [addr |-> t.addr, chain |-> t.chain, h1 |-> t.h1, h24 |-> t.h24, away |-> TRUE, again |-> t.again, lane |-> t.lane]
        BY <2>1, <2>3, <3>1 DEF Genuine
      <3>3. Genuine(u) /\ u.addr = t.addr /\ u.chain = t.chain /\ u.h1 = t.h1 /\ u.h24 = t.h24 /\ u.away = TRUE
        BY <3>2 DEF Genuine
      <3>4. PICK r \in Listed : Backs(r, t)
        BY <3>1 DEF Profiled, Honest
      <3>5. Backs(r, u)
        BY <3>3, <3>4 DEF Backs, Lists
      <3>6. ReadOrMarked(u)
        BY <3>3 DEF ReadOrMarked, Blank, Lists
      <3> QED BY <3>1, <3>3, <3>5, <3>6 DEF Profiled, Honest
    <2> QED BY <2>2, <2>3
  <1>2. ASSUME NEW t \in tokens, NEW r \in priced, r.addr = t.addr, u = Priced(t, r)
        PROVE  Profiled(u) /\ ReadOrMarked(u)
    <2>1. u = [addr |-> t.addr, chain |-> r.chain, h1 |-> Truth[r.pool].h1, h24 |-> Truth[r.pool].h24,
               away |-> FALSE, again |-> t.again, lane |-> t.lane]
      <3>1. Genuine(t)
        BY DEF Profiled, Honest
      <3> QED BY <1>2, <3>1 DEF Genuine, Priced
    <2>2. /\ Genuine(u) /\ u.addr = r.addr /\ u.chain = r.chain
          /\ u.h1 = Truth[r.pool].h1 /\ u.h24 = Truth[r.pool].h24
      BY <1>2, <2>1 DEF Genuine
    <2>3. Lists(r, u)
      BY <2>2 DEF Lists
    <2>4. Backs(r, u)
      BY <2>2, <2>3, Volume DEF Backs
    <2> QED BY <2>2, <2>3, <2>4 DEF Profiled, Honest, ReadOrMarked
  <1>3. CASE u \in MarkBatchUnavailable(tokens, b)
    BY <1>1, <1>3
  <1>4. CASE u \in Enriched(tokens, b, priced)
    <2>1. CASE u \in MarkBatchUnavailable(Unread(tokens, priced), b)
      <3>1. Unread(tokens, priced) \subseteq tokens
        BY DEF Unread
      <3> QED BY <1>1, <2>1, <3>1
    <2>2. CASE u \in Read(tokens, priced)
      <3>1. \E t \in tokens : \E r \in {x \in priced : x.addr = t.addr} : u = Priced(t, r)
        BY <2>2 DEF Read
      <3> QED BY <1>2, <3>1
    <2> QED BY <1>4, <2>1, <2>2 DEF Enriched
  <1> QED BY <1>3, <1>4

\* The batches asked for are all there are.
LEMMA BatchesInTurn == SetToSeq(Batches) \in Seq(Batches) /\ Places(SetToSeq(Batches)) = Batches
  <1> DEFINE n == Cardinality(Batches)
             batch == [r \in Listed |-> BatchOf[r.addr]]
  <1>1. batch \in Surjection(Listed, Batches)
    BY DEF Surjection, Batches
  <1>2. IsFiniteSet(Batches)
    BY <1>1, MarketAssumption, FS_Surjection
  <1>3. n \in Nat /\ ExistsBijection(1..n, Batches)
    BY <1>2, FS_CardinalityType
  <1>4. \E f \in [1..n -> Batches] : IsInjective(f)
    BY <1>3 DEF ExistsBijection, Bijection, Injection
  <1>5. SetToSeq(Batches) \in [1..n -> Batches] /\ IsInjective(SetToSeq(Batches))
    BY <1>4 DEF SetToSeq
  <1>6. IsFiniteSet(1..n) /\ Cardinality(1..n) = n
    BY <1>3, FS_Interval
  <1>7. SetToSeq(Batches) \in Surjection(1..n, Batches)
    BY <1>2, <1>5, <1>6, FS_Injection DEF Injection
  <1> HIDE DEF n
  <1>8. SetToSeq(Batches) \in Seq(Batches) /\ Len(SetToSeq(Batches)) = n
    BY <1>3, <1>5
  <1> QED BY <1>7, <1>8 DEF Surjection, Places

\* What is asked for after the first is what was behind it.
LEMMA NextPlace ==
    ASSUME NEW S, NEW todo \in Seq(S), todo # <<>>
    PROVE  /\ Head(todo) \in S /\ Tail(todo) \in Seq(S)
           /\ Places(todo) \subseteq {Head(todo)} \cup Places(Tail(todo))
           /\ Tail(todo) = <<>> => Places(Tail(todo)) = {}
  <1>1. /\ Head(todo) = todo[1] /\ todo[1] \in S /\ Tail(todo) \in Seq(S) /\ Len(Tail(todo)) = Len(todo) - 1
        /\ \A i \in 1..Len(Tail(todo)) : Tail(todo)[i] = todo[i + 1]
        /\ Len(todo) \in Nat \ {0}
    BY HeadTailProperties, LenProperties, ElementOfSeq
  <1>2. PICK n \in Nat \ {0} : n = Len(todo)
    BY <1>1
  <1>3. ASSUME NEW i \in 1..Len(todo) PROVE todo[i] \in {Head(todo)} \cup Places(Tail(todo))
    <2>1. CASE i = 1
      BY <1>1, <2>1
    <2>2. CASE i # 1
      <3>1. i - 1 \in 1..Len(Tail(todo)) /\ (i - 1) + 1 = i
        BY <1>1, <1>2, <2>2
      <3> QED BY <1>1, <3>1 DEF Places
    <2> QED BY <2>1, <2>2
  <1>4. Places(<<>>) = {}
    BY DEF Places
  <1> QED BY <1>1, <1>3, <1>4, ZenonT(60) DEF Places

\* What a cache may hold for a source.
Fits(source, tokens) ==
    /\ \A t \in tokens : Honest(t)
    /\ source \in Chains => \A t \in tokens : t.chain = source
    /\ source = "profiles" => \A t \in tokens : ReadOrMarked(t)

ShelfInv ==
    /\ DOMAIN shelf = Source
    /\ \A s \in Source : shelf[s] = [tokens |-> shelf[s].tokens, left |-> shelf[s].left] /\ Fits(s, shelf[s].tokens)

\* Of the enriched listing every token is read or marked, or its batch is still to come.
Enriching ==
    \/ visit.todo = <<"profiles">> \o SetToSeq(Batches) /\ visit.got = {}
    \/ /\ visit.todo \in Seq(Batches)
       /\ \A t \in visit.got : Profiled(t) /\ ((BatchOf[t.addr] \in Places(visit.todo) /\ Blank(t)) \/ ReadOrMarked(t))

VisitInv ==
    /\ visit = [feed |-> visit.feed, chain |-> visit.chain, todo |-> visit.todo, got |-> visit.got]
    /\ \A t \in visit.got : Honest(t)
    /\ visit.feed = "gmgn" => visit.todo \in {<<>>, <<visit.chain>>} /\ \A t \in visit.got : t.chain = visit.chain
    /\ visit.feed = "dexscreener" => Enriching

HandedInv ==
    \A t \in handed.tokens :
        Honest(t) /\ t.chain = handed.chain /\ (handed.feed = "dexscreener" => ReadOrMarked(t))

FeedsInv == ShelfInv /\ VisitInv /\ HandedInv

LEMMA ShelvedFits ==
    ASSUME ShelfInv, NEW s \in Source, NEW tokens, Fits(s, tokens), Shelved(s, tokens)
    PROVE  ShelfInv'
  <1>1. DOMAIN shelf' = Source
    BY DEF Shelved, ShelfInv
  <1>2. ASSUME NEW d \in Source
        PROVE  shelf'[d] = [tokens |-> shelf'[d].tokens, left |-> shelf'[d].left] /\ Fits(d, shelf'[d].tokens)
    <2>1. CASE d = s
      <3>1. shelf'[d] = [tokens |-> tokens, left |-> Ttl]
        BY <2>1 DEF Shelved, ShelfInv
      <3>2. shelf'[d].tokens = tokens /\ shelf'[d].left = Ttl
        BY <3>1
      <3> QED BY <2>1, <3>1, <3>2
    <2>2. CASE d # s
      BY <2>2 DEF Shelved, ShelfInv
    <2> QED BY <2>1, <2>2
  <1> QED BY <1>1, <1>2 DEF ShelfInv

LEMMA HandedOver ==
    ASSUME NEW tokens, HandOn(tokens),
           \A t \in tokens : Honest(t) /\ t.chain = visit.chain /\ (visit.feed = "dexscreener" => ReadOrMarked(t))
    PROVE  VisitInv' /\ HandedInv'
  <1>1. /\ handed'.feed = visit.feed /\ handed'.chain = visit.chain /\ handed'.tokens = tokens
        /\ visit' = [feed |-> "none", chain |-> "none", todo |-> <<>>, got |-> {}]
    BY DEF HandOn, None
  <1>2. VisitInv'
    BY <1>1 DEF VisitInv
  <1> QED BY <1>1, <1>2 DEF HandedInv

LEMMA ProfilesStep ==
    ASSUME FeedsInv, ProfilesAnswer
    PROVE  FeedsInv'
  <1>1. ShelfInv'
    BY DEF FeedsInv, ProfilesAnswer, ShelfInv
  <1>2. CASE "profiles" \in down
    <2>1. HandOn({})
      BY <1>2 DEF ProfilesAnswer
    <2> QED BY <1>1, <2>1, HandedOver DEF FeedsInv
  <1>3. CASE "profiles" \notin down
    <2>1. /\ visit.feed = "dexscreener" /\ visit.todo # <<>> /\ Head(visit.todo) = "profiles" /\ UNCHANGED handed
      BY <1>3 DEF ProfilesAnswer
    <2>9. PICK last \in Lasts : visit' = [visit EXCEPT !.got = Profiles(last), !.todo = Tail(@)]
      BY <1>3 DEF ProfilesAnswer
    <2>2. visit' = [feed |-> visit.feed, chain |-> visit.chain, todo |-> Tail(visit.todo), got |-> Profiles(last)]
      BY <2>9 DEF FeedsInv, VisitInv
    <2>3. visit.todo = <<"profiles">> \o SetToSeq(Batches)
      <3>1. visit.todo \in Seq(Batches) => Head(visit.todo) \in Batches
        BY <2>1, NextPlace
      <3> QED BY <2>1, <3>1, MarketAssumption DEF FeedsInv, VisitInv, Enriching
    <2>4. Tail(visit.todo) = SetToSeq(Batches)
      BY <2>3, BatchesInTurn
    <2>5. \A t \in Profiles(last) : Profiled(t) /\ Blank(t) /\ BatchOf[t.addr] \in Batches
      BY ProfileIs
    <2>6. Enriching'
      BY <2>2, <2>4, <2>5, BatchesInTurn DEF Enriching
    <2>7. VisitInv'
      BY <2>1, <2>2, <2>5, <2>6 DEF VisitInv, Profiled
    <2>8. HandedInv'
      BY <2>1 DEF FeedsInv, HandedInv
    <2> QED BY <1>1, <2>7, <2>8 DEF FeedsInv
  <1> QED BY <1>2, <1>3

LEMMA BatchStep ==
    ASSUME FeedsInv, NEW priced \in SUBSET Listed, BatchAnswers(priced)
    PROVE  FeedsInv'
  <1> DEFINE b == Head(visit.todo)
             rest == Places(Tail(visit.todo))
  <1>1. PICK tokens :
          /\ tokens = IF "pairs" \in down THEN MarkBatchUnavailable(visit.got, b) ELSE Enriched(visit.got, b, priced)
          /\ IF Tail(visit.todo) = <<>>
               THEN Shelved("profiles", tokens) /\ HandOn(ApplyOptions(tokens, visit.chain))
               ELSE visit' = [visit EXCEPT !.got = tokens, !.todo = Tail(@)] /\ UNCHANGED <<shelf, handed>>
    BY DEF BatchAnswers
  <1>2. /\ visit.feed = "dexscreener" /\ visit.todo # <<>> /\ b \in Batches
    BY DEF BatchAnswers
  <1>3. /\ visit.todo \in Seq(Batches)
        /\ \A t \in visit.got : Profiled(t) /\ ((BatchOf[t.addr] \in Places(visit.todo) /\ Blank(t)) \/ ReadOrMarked(t))
    <2>1. visit.todo = <<"profiles">> \o SetToSeq(Batches) => b = "profiles"
      BY BatchesInTurn
    <2> QED BY <1>2, <2>1, MarketAssumption DEF FeedsInv, VisitInv, Enriching
  <1>4. /\ Tail(visit.todo) \in Seq(Batches) /\ Places(visit.todo) \subseteq {b} \cup rest
        /\ Tail(visit.todo) = <<>> => rest = {}
    BY <1>2, <1>3, NextPlace
  <1> HIDE DEF b, rest
  <1>5. ASSUME NEW u \in tokens PROVE Profiled(u) /\ ((BatchOf[u.addr] \in rest /\ Blank(u)) \/ ReadOrMarked(u))
    <2>1. \A t \in visit.got : Profiled(t) /\ (((BatchOf[t.addr] = b \/ BatchOf[t.addr] \in rest) /\ Blank(t)) \/ ReadOrMarked(t))
      BY <1>3, <1>4
    <2>2. u \in MarkBatchUnavailable(visit.got, b) \cup Enriched(visit.got, b, priced)
      BY <1>1
    <2> QED BY <1>2, <2>1, <2>2, BatchRead
  <1>6. CASE Tail(visit.todo) = <<>>
    <2>1. Fits("profiles", tokens)
      BY <1>4, <1>5, <1>6, MarketAssumption DEF Fits, Profiled
    <2>2. ShelfInv'
      BY <1>1, <1>6, <2>1, ShelvedFits DEF FeedsInv, Source
    <2>3. HandOn(ApplyOptions(tokens, visit.chain))
      BY <1>1, <1>6
    <2>4. \A t \in ApplyOptions(tokens, visit.chain) : Honest(t) /\ t.chain = visit.chain /\ ReadOrMarked(t)
      BY <1>4, <1>5, <1>6 DEF ApplyOptions, Profiled
    <2> QED BY <2>2, <2>3, <2>4, HandedOver DEF FeedsInv
  <1>7. CASE Tail(visit.todo) # <<>>
    <2>1. visit' = [feed |-> visit.feed, chain |-> visit.chain, todo |-> Tail(visit.todo), got |-> tokens]
      BY <1>1, <1>7 DEF FeedsInv, VisitInv
    <2>2. Enriching'
      BY <1>4, <1>5, <2>1 DEF Enriching, rest
    <2>3. VisitInv'
      BY <1>2, <1>5, <2>1, <2>2 DEF VisitInv, Profiled
    <2> QED BY <1>1, <1>7, <2>3 DEF FeedsInv, ShelfInv, HandedInv
  <1> QED BY <1>6, <1>7

LEMMA PoolsStep ==
    ASSUME FeedsInv, NEW s \in {"new", "trending"}, PoolsAnswer(s)
    PROVE  FeedsInv'
  <1>1. PICK tokens :
          /\ tokens = IF Cached(s) THEN shelf[s].tokens ELSE PoolRows(s)
          /\ visit' = [visit EXCEPT !.got = @ \cup tokens, !.todo = Tail(@)]
          /\ IF Cached(s) THEN UNCHANGED shelf ELSE Shelved(s, tokens)
    BY DEF PoolsAnswer
  <1>2. visit.feed = "gecko" /\ UNCHANGED handed
    BY DEF PoolsAnswer
  <1>3. s \in Source /\ s \notin Chains /\ s # "profiles"
    BY MarketAssumption DEF Source
  <1>4. ASSUME NEW t \in PoolRows(s) PROVE Honest(t)
    <2>1. \E r \in Listed : t \in NormalizePool(r)
      BY DEF PoolRows, NetworkPools
    <2> QED BY <2>1, PoolsHonest
  <1>5. \A t \in tokens : Honest(t)
    BY <1>1, <1>3, <1>4 DEF FeedsInv, ShelfInv, Fits
  <1>6. ShelfInv'
    <2>1. CASE Cached(s)
      BY <1>1, <2>1 DEF FeedsInv, ShelfInv
    <2>2. CASE ~Cached(s)
      <3>1. Fits(s, tokens)
        BY <1>3, <1>5 DEF Fits
      <3> QED BY <1>1, <1>3, <2>2, <3>1, ShelvedFits DEF FeedsInv
    <2> QED BY <2>1, <2>2
  <1>7. visit' = [feed |-> visit.feed, chain |-> visit.chain, todo |-> Tail(visit.todo), got |-> visit.got \cup tokens]
    BY <1>1 DEF FeedsInv, VisitInv
  <1>8. VisitInv'
    BY <1>2, <1>5, <1>7 DEF FeedsInv, VisitInv
  <1> QED BY <1>2, <1>6, <1>8 DEF FeedsInv, HandedInv

LEMMA SearchStep ==
    ASSUME FeedsInv, SearchAnswers
    PROVE  FeedsInv'
  <1>1. CASE "search" \in down
    <2>1. HandOn({}) /\ UNCHANGED shelf
      BY <1>1 DEF SearchAnswers
    <2> QED BY <2>1, HandedOver DEF FeedsInv, ShelfInv
  <1>2. CASE "search" \notin down
    <2>1. Shelved("search", SearchAll) /\ HandOn(ApplyOptions(SearchAll, visit.chain)) /\ visit.feed = "dexpaprika"
      BY <1>2 DEF SearchAnswers
    <2>2. \A t \in SearchAll : Honest(t)
      BY PoolsHonest DEF SearchAll
    <2>3. Fits("search", SearchAll)
      BY <2>2, MarketAssumption DEF Fits
    <2>4. ShelfInv'
      BY <2>1, <2>3, ShelvedFits DEF FeedsInv, Source
    <2>5. \A t \in ApplyOptions(SearchAll, visit.chain) : Honest(t) /\ t.chain = visit.chain
      BY <2>2 DEF ApplyOptions
    <2> QED BY <2>1, <2>4, <2>5, HandedOver DEF FeedsInv
  <1> QED BY <1>1, <1>2

LEMMA RankStep ==
    ASSUME FeedsInv, NEW c \in Chains, RankTokens(c)
    PROVE  FeedsInv'
  <1>0. PICK shown \in SUBSET {"h24", "h1", "bare"} : \E tokens :
          /\ tokens = IF Cached(c) THEN shelf[c].tokens ELSE FetchRank(c, "h24", shown)
          /\ visit' = [visit EXCEPT !.got = @ \cup tokens, !.todo = Tail(@)]
          /\ IF Cached(c) THEN UNCHANGED shelf ELSE Shelved(c, tokens)
    BY DEF RankTokens
  <1>1. PICK tokens :
          /\ tokens = IF Cached(c) THEN shelf[c].tokens ELSE FetchRank(c, "h24", shown)
          /\ visit' = [visit EXCEPT !.got = @ \cup tokens, !.todo = Tail(@)]
          /\ IF Cached(c) THEN UNCHANGED shelf ELSE Shelved(c, tokens)
    BY <1>0
  <1>2. visit.feed = "gmgn" /\ visit.todo # <<>> /\ Head(visit.todo) = c /\ UNCHANGED handed
    BY DEF RankTokens
  <1>3. visit.todo = <<visit.chain>> /\ visit.chain = c /\ Tail(visit.todo) = <<>>
    <2>1. visit.todo = <<visit.chain>>
      BY <1>2 DEF FeedsInv, VisitInv
    <2>2. Head(<<visit.chain>>) = visit.chain /\ Tail(<<visit.chain>>) = <<>>
      OBVIOUS
    <2> QED BY <1>2, <2>1, <2>2
  <1>4. c \in Source /\ c # "profiles"
    BY MarketAssumption DEF Source
  <1>5. Fits(c, FetchRank(c, "h24", shown))
    <2>1. \A t \in FetchRank(c, "h24", shown) : Honest(t) /\ t.chain = c
      BY GmgnHonest DEF Interval
    <2> QED BY <1>4, <2>1 DEF Fits
  <1>6. Fits(c, tokens)
    BY <1>1, <1>4, <1>5 DEF FeedsInv, ShelfInv
  <1>7. ShelfInv'
    <2>1. CASE Cached(c)
      BY <1>1, <2>1 DEF FeedsInv, ShelfInv
    <2>2. CASE ~Cached(c)
      BY <1>1, <1>4, <1>6, <2>2, ShelvedFits DEF FeedsInv
    <2> QED BY <2>1, <2>2
  <1>8. visit' = [feed |-> visit.feed, chain |-> visit.chain, todo |-> <<>>, got |-> visit.got \cup tokens]
    BY <1>1, <1>3 DEF FeedsInv, VisitInv
  <1>9. VisitInv'
    BY <1>2, <1>3, <1>6, <1>8 DEF FeedsInv, VisitInv, Fits
  <1> QED BY <1>2, <1>7, <1>9 DEF FeedsInv, HandedInv

LEMMA DiscoverStep ==
    ASSUME FeedsInv, NEW f \in Feed, NEW c \in Chains, Discover(f, c)
    PROVE  FeedsInv'
  <1>1. ShelfInv'
    BY DEF Discover, FeedsInv, ShelfInv
  <1>2. CASE f \in {"dexscreener", "dexpaprika"} /\ Cached(Shelf(f))
    <2>1. /\ handed' = [feed |-> f, chain |-> c, tokens |-> ApplyOptions(shelf[Shelf(f)].tokens, c)]
          /\ UNCHANGED visit
      BY <1>2 DEF Discover
    <2>2. Shelf(f) \in Source /\ (f = "dexscreener" => Shelf(f) = "profiles")
      BY DEF Shelf, Source
    <2>3. \A t \in shelf[Shelf(f)].tokens : Honest(t) /\ (f = "dexscreener" => ReadOrMarked(t))
      BY <2>2 DEF FeedsInv, ShelfInv, Fits
    <2>4. handed'.feed = f /\ handed'.chain = c /\ handed'.tokens = ApplyOptions(shelf[Shelf(f)].tokens, c)
      BY <2>1
    <2>5. HandedInv'
      BY <2>3, <2>4 DEF HandedInv, ApplyOptions
    <2>6. VisitInv'
      BY <2>1 DEF FeedsInv, VisitInv, Enriching
    <2> QED BY <1>1, <2>5, <2>6 DEF FeedsInv
  <1>3. CASE ~(f \in {"dexscreener", "dexpaprika"} /\ Cached(Shelf(f)))
    <2>1. visit' = [feed |-> f, chain |-> c, todo |-> Asks(f, c), got |-> {}] /\ UNCHANGED handed
      BY <1>3 DEF Discover
    <2>2. visit'.feed = f /\ visit'.chain = c /\ visit'.todo = Asks(f, c) /\ visit'.got = {}
      BY <2>1
    <2>3. f = "gmgn" => Asks(f, c) = <<c>>
      BY DEF Asks
    <2>4. f = "dexscreener" => Asks(f, c) = <<"profiles">> \o SetToSeq(Batches)
      BY DEF Asks
    <2>5. VisitInv'
      BY <2>1, <2>2, <2>3, <2>4 DEF VisitInv, Enriching
    <2> QED BY <1>1, <2>1, <2>5 DEF FeedsInv, HandedInv
  <1> QED BY <1>2, <1>3

LEMMA ExpiresStep ==
    ASSUME FeedsInv, Expires
    PROVE  FeedsInv'
  <1>1. UNCHANGED <<visit, handed>> /\ DOMAIN shelf' = Source
    BY DEF Expires
  <1>2. ASSUME NEW s \in Source
        PROVE  shelf'[s] = [tokens |-> shelf'[s].tokens, left |-> shelf'[s].left] /\ Fits(s, shelf'[s].tokens)
    <2>1. shelf'[s] = IF shelf[s].left <= 1 THEN [tokens |-> {}, left |-> 0] ELSE [shelf[s] EXCEPT !.left = @ - 1]
      BY DEF Expires
    <2>2. shelf[s] = [tokens |-> shelf[s].tokens, left |-> shelf[s].left] /\ Fits(s, shelf[s].tokens)
      BY DEF FeedsInv, ShelfInv
    <2>3. PICK n : shelf'[s] = [tokens |-> {}, left |-> n] \/ shelf'[s] = [tokens |-> shelf[s].tokens, left |-> n]
      BY <2>1, <2>2
    <2>4. shelf'[s].tokens \in {{}, shelf[s].tokens} /\ shelf'[s].left = n
      BY <2>3
    <2>5. Fits(s, {})
      BY DEF Fits
    <2> QED BY <2>2, <2>3, <2>4, <2>5
  <1> QED BY <1>1, <1>2 DEF FeedsInv, ShelfInv, VisitInv, Enriching, HandedInv

LEMMA FeedsStayTrue == (FeedsInit => FeedsInv) /\ (FeedsInv /\ [FeedsNext]_feedVars => FeedsInv') /\ (FeedsInv => ListingsAreHonest)
  <1>1. FeedsInit => FeedsInv
    <2> SUFFICES ASSUME FeedsInit PROVE FeedsInv
      OBVIOUS
    <2>1. ShelfInv
      BY DEF FeedsInit, ShelfInv, Fits
    <2> QED BY <2>1 DEF FeedsInit, FeedsInv, VisitInv, None, HandedInv
  <1>2. FeedsInv /\ [FeedsNext]_feedVars => FeedsInv'
    <2> SUFFICES ASSUME FeedsInv, [FeedsNext]_feedVars PROVE FeedsInv'
      OBVIOUS
    <2>1. ASSUME UNCHANGED <<shelf, visit, handed>> PROVE FeedsInv'
      BY <2>1 DEF FeedsInv, ShelfInv, VisitInv, Enriching, HandedInv
    <2>2. CASE Repair \/ (\E s \in Source \cup {"pairs"} : Outage(s)) \/ UNCHANGED feedVars
      BY <2>1, <2>2 DEF Repair, Outage, feedVars
    <2>3. CASE GeckoDiscovers \/ GmgnDiscovers
      <3>1. PICK tokens : /\ HandOn(tokens) /\ UNCHANGED shelf
                          /\ \A t \in tokens : t \in visit.got /\ t.chain = visit.chain
                          /\ visit.feed # "dexscreener"
        BY <2>3 DEF GeckoDiscovers, GmgnDiscovers, Merged, ApplyOptions, FeedsInv, VisitInv
      <3>2. \A t \in tokens : Honest(t)
        BY <3>1 DEF FeedsInv, VisitInv
      <3> QED BY <3>1, <3>2, HandedOver DEF FeedsInv, ShelfInv
    <2>4. CASE Expires
      BY <2>4, ExpiresStep
    <2>5. CASE \E f \in Feed, c \in Chains : Discover(f, c)
      BY <2>5, DiscoverStep
    <2>6. CASE ProfilesAnswer \/ SearchAnswers
      BY <2>6, ProfilesStep, SearchStep
    <2>7. CASE \E priced \in SUBSET Listed : BatchAnswers(priced)
      BY <2>7, BatchStep
    <2>8. CASE (\E s \in {"new", "trending"} : PoolsAnswer(s)) \/ \E c \in Chains : RankTokens(c)
      BY <2>8, PoolsStep, RankStep
    <2> QED BY <2>2, <2>3, <2>4, <2>5, <2>6, <2>7, <2>8 DEF FeedsNext, FeedGoesOn
  <1>3. FeedsInv => ListingsAreHonest
    <2> SUFFICES ASSUME FeedsInv PROVE ListingsAreHonest
      OBVIOUS
    <2>1. NeverRelabelled
      <3>1. ASSUME NEW t \in handed.tokens
            PROVE  t.chain = handed.chain /\ \E r \in Listed : Lists(r, t)
        <4>1. t.chain = handed.chain /\ Honest(t)
          BY DEF FeedsInv, HandedInv
        <4>2. PICK r \in Listed : Backs(r, t)
          BY <4>1 DEF Honest
        <4> QED BY <4>1, <4>2 DEF Backs
      <3> QED BY <3>1 DEF NeverRelabelled
    <2>2. ASSUME NEW tokens, \A t \in tokens : Honest(t) PROVE Volumes(tokens)
      BY <2>2 DEF Volumes, Honest, Backs
    <2>3. Volumes(handed.tokens)
      BY <2>2 DEF FeedsInv, HandedInv
    <2>4. ASSUME NEW c \in Chains, NEW i \in Interval, NEW shown
          PROVE  Volumes(FetchRank(c, i, shown) \cup FetchHotSearches(c, shown) \cup FetchTrenches(c, shown))
      BY <2>2, GmgnHonest
    <2>5. handed.feed = "dexscreener" => \A t \in handed.tokens : ReadOrMarked(t)
      BY DEF FeedsInv, HandedInv
    <2> QED BY <2>1, <2>3, <2>4, <2>5 DEF ListingsAreHonest, FiguresAreHonest
  <1> QED BY <1>1, <1>2, <1>3

-----------------------------------------------------------------------------
(* The trade feed                                                          *)

\* What the feed kept was traded by now.
TrackInv ==
    /\ now \in 1..Horizon
    /\ DOMAIN feed = Kinds
    /\ \A k \in Kinds :
         /\ feed[k] = [list |-> feed[k].list, left |-> feed[k].left]
         /\ \A t \in feed[k].list : t.at \in Nat /\ t.at <= now
    /\ TrackIsBacked

\* A bounded set of naturals has a greatest element.
LEMMA GreatestElement ==
    ASSUME NEW n \in Nat, NEW S, S # {}, \A x \in S : x \in Nat /\ x <= n
    PROVE  Max(S) \in S /\ \A x \in S : x <= Max(S)
  <1> DEFINE gaps == {n - x : x \in S}
  <1>1. gaps \subseteq Nat /\ gaps # {}
    OBVIOUS
  <1>2. PICK g \in gaps : \A h \in gaps : g <= h
    BY <1>1, LeastElement
  <1>3. PICK m \in S : g = n - m
    OBVIOUS
  <1>4. \A x \in S : m >= x
    <2>1. ASSUME NEW x \in S PROVE m >= x
      <3>1. n - m <= n - x
        BY <1>2, <1>3
      <3> QED BY <3>1
    <2> QED BY <2>1
  <1>5. \E x \in S : \A y \in S : x >= y
    BY <1>4
  <1>6. Max(S) \in S /\ \A x \in S : Max(S) >= x
    BY <1>5 DEF Max
  <1> QED BY <1>6

LEMMA CandidatesBacked ==
    ASSUME now \in Nat, NEW list, \A t \in list : t.at \in Nat /\ t.at <= now,
           NEW a \in TrackCandidates(list)
    PROVE  LET buys == {t \in list : t.token = a /\ t.side = "buy"}
           IN  /\ Cardinality({t.maker : t \in buys}) >= MinWallets
               /\ \E t \in buys : now - t.at <= TrackFresh
  <1> DEFINE buys == {t \in list : t.token = a /\ t.side = "buy"}
             makers == {t.maker : t \in buys}
             times == {0} \cup {t.at : t \in buys}
  <1>1. Cardinality(makers) >= MinWallets /\ now - Max(times) <= TrackFresh
    BY DEF TrackCandidates, Accumulated
  <1>2. buys # {}
    <2>1. Cardinality({}) = 0
      BY FS_EmptySet
    <2>2. buys = {} => makers = {}
      OBVIOUS
    <2>3. MinWallets \in Nat /\ MinWallets > 0 /\ Cardinality(makers) >= MinWallets
      BY <1>1, IntelAssumption
    <2> HIDE DEF buys, makers
    <2> QED BY <2>1, <2>2, <2>3
  <1>3. times # {} /\ \A x \in times : x \in Nat /\ x <= now
    OBVIOUS
  <1>4. Max(times) \in times /\ \A x \in times : x <= Max(times)
    <2> HIDE DEF times
    <2> QED BY <1>3, GreatestElement
  <1>5. PICK t \in buys : t.at = Max(times)
    <2>1. CASE Max(times) = 0
      <3>1. PICK t \in buys : t.at \in times
        BY <1>2
      <3>2. t.at \in Nat /\ t.at <= Max(times)
        BY <1>3, <1>4, <3>1
      <3> HIDE DEF times
      <3>3. t.at = 0
        BY <2>1, <3>2
      <3> QED BY <2>1, <3>3
    <2>2. CASE Max(times) # 0
      BY <1>4, <2>2
    <2> QED BY <2>1, <2>2
  <1> QED BY <1>1, <1>5

LEMMA TrackStep ==
    ASSUME TrackInv, [IntelNext]_<<trackVars, gmgn>>
    PROVE  TrackInv'
  <1>1. CASE CollectTrack
    <2>1. PICK sm \in TradeLists["smartmoney"], kol \in TradeLists["kol"] :
            LET list == FetchTrackTrades("smartmoney", sm) \cup FetchTrackTrades("kol", kol)
            IN  /\ \A t \in sm \cup kol : t.at <= now
                /\ feed' = [k \in Kinds |-> KeptTrades(k, IF k = "kol" THEN kol ELSE sm)]
                /\ watched' = TrackCandidates(list) /\ trades' = list
      BY <1>1 DEF CollectTrack
    <2> DEFINE list == FetchTrackTrades("smartmoney", sm) \cup FetchTrackTrades("kol", kol)
    <2>2. now' = now /\ now \in Nat
      BY <1>1 DEF CollectTrack, TrackInv
    <2>3. \A t \in sm \cup kol : t.at \in Nat /\ t.at <= now
      BY <2>1, IntelAssumption DEF Kinds
    <2>4. ASSUME NEW k \in Kinds
          PROVE  /\ feed'[k] = [list |-> feed'[k].list, left |-> feed'[k].left]
                 /\ \A t \in feed'[k].list : t.at \in Nat /\ t.at <= now
      <3>1. PICK l \in {sm, kol} : feed'[k] = KeptTrades(k, l)
        BY <2>1
      <3>2. CASE feed'[k] = feed[k]
        BY <3>2 DEF TrackInv
      <3>3. CASE feed'[k] = [list |-> NamedTrades(l), left |-> TrackTtl]
        <4>1. feed'[k].list = NamedTrades(l) /\ feed'[k].left = TrackTtl
          BY <3>3
        <4> QED BY <2>3, <3>3, <4>1 DEF NamedTrades
      <3> QED BY <3>1, <3>2, <3>3 DEF KeptTrades
    <2>5. \A t \in list : t.at \in Nat /\ t.at <= now
      BY <2>3 DEF FetchTrackTrades, NamedTrades, TrackInv, Kinds
    <2>6. TrackIsBacked'
      <3>1. watched' = TrackCandidates(list) /\ trades' = list
        BY <2>1
      <3> HIDE DEF list
      <3>2. ASSUME NEW a \in TrackCandidates(list)
            PROVE  LET buys == {t \in list : t.token = a /\ t.side = "buy"}
                   IN  /\ Cardinality({t.maker : t \in buys}) >= MinWallets
                       /\ \E t \in buys : now - t.at <= TrackFresh
        BY <2>2, <2>5, CandidatesBacked
      <3> QED BY <2>2, <3>1, <3>2 DEF TrackIsBacked
    <2>7. DOMAIN feed' = Kinds
      BY <2>1
    <2> QED BY <2>2, <2>4, <2>6, <2>7 DEF TrackInv
  <1>2. CASE IntelTick
    <2>1. PICK m \in Nat : m = now /\ m <= Horizon /\ m >= 1
      BY IntelAssumption DEF TrackInv
    <2>2. Min({m + 1, Horizon}) = IF m + 1 <= Horizon THEN m + 1 ELSE Horizon
      BY IntelAssumption DEF Min
    <2>3. now' \in 1..Horizon /\ now <= now'
      BY <1>2, <2>1, <2>2, IntelAssumption DEF IntelTick
    <2>4. ASSUME NEW k \in Kinds
          PROVE  /\ feed'[k] = [list |-> feed'[k].list, left |-> feed'[k].left]
                 /\ \A t \in feed'[k].list : t.at \in Nat /\ t.at <= now
      <3>1. feed'[k] = IF feed[k].left <= 1 THEN Empty ELSE [feed[k] EXCEPT !.left = @ - 1]
        BY <1>2 DEF IntelTick
      <3>2. PICK n : feed'[k] = [list |-> {}, left |-> n] \/ feed'[k] = [list |-> feed[k].list, left |-> n]
        BY <3>1 DEF Empty, TrackInv
      <3>3. feed'[k].list \in {{}, feed[k].list} /\ feed'[k].left = n
        BY <3>2
      <3> QED BY <3>2, <3>3 DEF TrackInv
    <2>5. ASSUME NEW k \in Kinds, NEW t \in feed'[k].list PROVE t.at \in Nat /\ t.at <= now'
      <3>1. t.at \in Nat /\ t.at <= m
        BY <2>1, <2>4
      <3>2. PICK n \in Nat : n = now' /\ m <= n
        BY <2>1, <2>3
      <3> QED BY <3>1, <3>2
    <2>6. watched' = {} /\ DOMAIN feed' = Kinds
      BY <1>2 DEF IntelTick
    <2> QED BY <2>3, <2>4, <2>5, <2>6 DEF TrackInv, TrackIsBacked
  <1>3. CASE UNCHANGED <<now, feed, watched, trades>>
    BY <1>3 DEF TrackInv, TrackIsBacked
  <1>4. CASE CollectCandidates \/ GmgnTurns \/ UNCHANGED <<trackVars, gmgn>>
    BY <1>3, <1>4 DEF CollectCandidates, GmgnTurns, trackVars
  <1> QED BY <1>1, <1>2, <1>4 DEF IntelNext

\* No feed tells a pass of a token on another chain, or of more than was traded, a
\* track candidate was bought as it says, and a token that turned dangerous is
\* refused once the answers from before it turned are too old, whatever the caches
\* kept and which service fails in between.
THEOREM MarketStaysTrue == MarketSpec => []MarketIsTrue
  <1> DEFINE Inv == FeedsInv /\ TrackInv /\ AuditInv
  <1>1. FeedsInit /\ IntelInit /\ AuditInit => Inv
    <2>1. AuditInit => AuditInv
      BY IntelAssumption DEF AuditInit, AuditInv, ClearanceLapses
    <2>2. IntelInit => TrackInv
      BY IntelAssumption DEF IntelInit, Empty, TrackInv, TrackIsBacked
    <2> QED BY <2>1, <2>2, FeedsStayTrue
  <1>2. Inv /\ [MarketNext]_<<feedVars, intelVars>> => Inv'
    <2> SUFFICES ASSUME FeedsInv, TrackInv, AuditInv, [MarketNext]_<<feedVars, intelVars>> PROVE Inv'
      OBVIOUS
    <2>1. \/ [FeedsNext]_feedVars /\ [IntelNext]_<<trackVars, gmgn>> /\ [AuditNext]_auditVars
          \/ UNCHANGED <<feedVars, trackVars>> /\ [AuditNext]_auditVars
      BY DEF MarketNext, intelVars
    <2>2. CASE [FeedsNext]_feedVars /\ [IntelNext]_<<trackVars, gmgn>> /\ [AuditNext]_auditVars
      BY <2>2, FeedsStayTrue, TrackStep, AuditStep
    <2>3. CASE UNCHANGED <<feedVars, trackVars>> /\ [AuditNext]_auditVars
      <3>1. TrackInv'
        BY <2>3 DEF trackVars, TrackInv, TrackIsBacked
      <3> QED BY <2>3, <3>1, FeedsStayTrue, AuditStep
    <2> QED BY <2>1, <2>2, <2>3
  <1>3. Inv => MarketIsTrue
    BY FeedsStayTrue DEF TrackInv, AuditInv, MarketIsTrue
  <1> QED BY <1>1, <1>2, <1>3, PTL DEF MarketSpec

=============================================================================
