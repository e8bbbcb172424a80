-------------------------- MODULE ScreeningProofs --------------------------
(***************************************************************************)
(* Proofs about ScreeningPass for any tokens, sources, deadlines and       *)
(* number of overlapping passes.  ScreeningInv is the inductive invariant: *)
(* the types of a pass's locals, where they stand in the list of sources   *)
(* (Placed), what vouches for a candidate (Vouched), who is listened to    *)
(* (Heard) and how many cycles counted a pass (Tallied).                   *)
(***************************************************************************)
EXTENDS ScreeningPass, WellFoundedInduction, NaturalsInduction, TLAPS

Sighting == [token : Tokens, source : Sources, at : 0..MaxNow]

PassState ==
    [stage : Stages, i : 0..(Len(Priority) + 1), rows : SUBSET Tokens, hints : SUBSET Tokens,
     merged : [Tokens -> Sources \cup {NoRow, "gmgn"}], overlay : SUBSET Tokens,
     obs : SUBSET Sighting, todo : SUBSET Tokens, reports : SUBSET Tokens,
     admitted : 0..MaxResearch, aborted : BOOLEAN]

Typed ==
    /\ DiscoveryTypeOK
    /\ pass \in [Passes -> PassState]
    /\ late \subseteq Passes \X Sources
    /\ {waiting, lastFunnel} \subseteq Passes \cup {NoPass}
    /\ delivered \in [Passes -> SUBSET Tokens]
    /\ counted \in [Passes -> Nat] /\ outage \subseteq Passes /\ leaked \subseteq Tokens

\* A pass that waits for a source, or for the oracle's word on its rows, is at one.
PlacedAt(r) ==
    /\ r.stage \in {"new", "gate"} => r.i = 0
    /\ r.stage \in {"ask", "call"} => r.i >= 1
    /\ r.stage \in {"call", "verify"} => r.i <= Len(Priority)

Placed == \A p \in Passes : PlacedAt(pass[p])

\* What a pass has merged and is about to observe exists on chain, or came with
\* the rows of an extra.
Excused == Real \cup leaked

Genuine(r) == Candidates(r.merged) \subseteq Excused /\ \A o \in r.obs : o.token \in Excused

Known == \A t \in Tokens : life[t] # "absent" => t \in Excused

\* Without an outage nothing but excused tokens is merged, observed or known.
Vouched == outage = {} => Known /\ \A p \in Passes : Genuine(pass[p])

\* An aborted pass is not awaited; whoever is awaited is under way; nothing is
\* delivered before a pass has ended.
Heard ==
    \A p \in Passes :
        /\ pass[p].aborted => delivered[p] = {} /\ waiting # p
        /\ delivered[p] \subseteq pass[p].reports
        /\ waiting = p => pass[p].stage \notin {"new", "done"}
        /\ pass[p].stage # "done" => delivered[p] = {}
        /\ pass[p].stage = "new" => ~pass[p].aborted

\* Passes start in order, and every cycle that is over counted one pass.
Tallied ==
    \E k \in 0..MaxPass :
        /\ \A p \in Passes : pass[p].stage # "new" <=> p <= k
        /\ \A p \in Passes : counted[p] <= IF waiting = NoPass THEN k ELSE k - 1

ScreeningInv == Typed /\ Placed /\ Vouched /\ Heard /\ Tallied
-----------------------------------------------------------------------------
\* The order of the naturals as a set of pairs.
Below == {ss \in Nat \X Nat : ss[1] < ss[2]}

\* A non-empty set of naturals has a least element, which CHOOSE finds.
LEMMA LeastExists ==
    ASSUME NEW S \in SUBSET Nat, S # {}
    PROVE  (CHOOSE n \in S : \A m \in S : n <= m) \in S
  <1>1. IsWellFoundedOn(Below, Nat)
    BY NatLessThanWellFounded, Zenon DEF OpToRel, Below
  <1>2. PICK x \in S : \A y \in S : ~(<<y, x>> \in Below)
    BY <1>1, WFMin
  <1>3. ASSUME NEW y \in S PROVE x <= y
    <2>1. y \in Nat /\ x \in Nat /\ ~(<<y, x>> \in Below)
      BY <1>2, <1>3
    <2> QED BY <2>1 DEF Below
  <1> QED BY <1>3

LEMMA Idles == Idle \in PassState
  BY ScreeningAssumption DEF Idle, PassState, Stages

LEMMA Ends ==
    ASSUME NEW r \in PassState
    PROVE  /\ Ended(r) \in PassState
           /\ Ended(r).stage = "done" /\ Ended(r).aborted = r.aborted /\ Ended(r).reports = r.reports
           /\ Ended(r).merged = Idle.merged /\ Ended(r).obs = {}
  BY Idles DEF Ended, Idle, PassState, Stages

\* Where a pass waits for a source there is one.
LEMMA SourceType ==
    ASSUME Typed, NEW p \in Passes, pass[p].i >= 1, pass[p].i <= Len(Priority)
    PROVE  Source(p) \in Sources
  <1>1. Priority \in Seq(Sources) /\ pass[p].i \in 1..Len(Priority)
    BY DiscoveryAssumption DEF Typed, PassState
  <1> QED BY <1>1 DEF Source

\* Giving a pass new locals leaves the others alone.
LEMMA PassUpdate ==
    ASSUME Typed, NEW p \in Passes, NEW x \in PassState, pass' = [pass EXCEPT ![p] = x]
    PROVE  /\ pass' \in [Passes -> PassState]
           /\ pass'[p] = x
           /\ \A q \in Passes : q # p => pass'[q] = pass[q]
  BY DEF Typed
\* What the invariant says of one pass.
LEMMA PassTyped ==
    ASSUME ScreeningInv, NEW p \in Passes
    PROVE  /\ pass \in [Passes -> PassState] /\ pass[p] \in PassState
           /\ PlacedAt(pass[p])
           /\ pass[p].i \in Nat /\ Len(Priority) \in Nat
           /\ pass[p].rows \subseteq Tokens /\ pass[p].hints \subseteq Tokens
  <1>1. pass \in [Passes -> PassState] /\ pass[p] \in PassState /\ PlacedAt(pass[p])
    BY DEF ScreeningInv, Typed, Placed
  <1>2. Len(Priority) \in Nat
    BY DiscoveryAssumption
  <1> QED BY <1>1, <1>2 DEF PassState
-----------------------------------------------------------------------------
LEMMA ScreeningInitInv == Init => ScreeningInv
  <1> SUFFICES ASSUME Init PROVE ScreeningInv
    OBVIOUS
  <1>1. Typed
    BY Idles, ScreeningAssumption, DiscoveryAssumption
       DEF Init, DiscoveryInit, DiscoveryTypeOK, Typed, Never, NoPass
  <1>2. Placed /\ Heard
    BY ScreeningAssumption DEF Init, Idle, Placed, PlacedAt, Heard, Passes, NoPass
  <1>3. Vouched
    BY DEF Init, DiscoveryInit, Idle, Vouched, Genuine, Known, Candidates, NoRow, Excused
  <1>4. /\ \A p \in Passes : pass[p].stage # "new" <=> p <= 0
        /\ \A p \in Passes : counted[p] <= IF waiting = NoPass THEN 0 ELSE 0 - 1
    BY ScreeningAssumption DEF Init, Idle, Passes, NoPass
  <1>5. Tallied
    <2>1. 0 \in 0..MaxPass
      BY ScreeningAssumption
    <2> QED BY <1>4, <2>1 DEF Tallied
  <1> QED BY <1>1, <1>2, <1>3, <1>5 DEF ScreeningInv
-----------------------------------------------------------------------------
(* Steps of one pass                                                       *)

\* A step in which a pass that is under way takes new locals and no cycle is
\* concerned keeps the invariant, when the new locals are typed, placed and
\* genuine.
LEMMA PassStepLeaking ==
    ASSUME ScreeningInv, NEW p \in Passes, NEW x \in PassState, pass' = [pass EXCEPT ![p] = x],
           DiscoveryTypeOK', late' \subseteq Passes \X Sources,
           outage \subseteq outage', outage' \subseteq Passes,
           UNCHANGED <<waiting, delivered, lastFunnel, counted>>, leaked \subseteq leaked', leaked' \subseteq Tokens,
           pass[p].stage \notin {"new", "done"}, x.stage # "new",
           x.stage = "done" => pass[p].aborted /\ waiting # p,
           x.aborted = pass[p].aborted, PlacedAt(x),
           outage' = {} => Known' /\ Candidates(x.merged) \subseteq Excused' /\ \A o \in x.obs : o.token \in Excused'
    PROVE  ScreeningInv'
  <1>1. /\ pass' \in [Passes -> PassState]
        /\ pass'[p] = x
        /\ \A q \in Passes : q # p => pass'[q] = pass[q]
    BY PassUpdate DEF ScreeningInv
  <1>2. Typed'
    BY <1>1 DEF ScreeningInv, Typed
  <1>3. Placed'
    BY <1>1 DEF ScreeningInv, Placed, PlacedAt
  <1>4. Vouched'
    BY <1>1 DEF ScreeningInv, Vouched, Genuine, Excused
  <1>5. Heard'
    BY <1>1 DEF ScreeningInv, Heard
  <1>6. Tallied'
    <2>1. PICK k \in 0..MaxPass :
              /\ \A q \in Passes : pass[q].stage # "new" <=> q <= k
              /\ \A q \in Passes : counted[q] <= IF waiting = NoPass THEN k ELSE k - 1
      BY DEF ScreeningInv, Tallied
    <2>2. \A q \in Passes : pass'[q].stage # "new" <=> q <= k
      BY <1>1, <2>1
    <2>3. \A q \in Passes : counted'[q] <= IF waiting' = NoPass THEN k ELSE k - 1
      BY <2>1
    <2> QED BY <2>2, <2>3 DEF Tallied
  <1> QED BY <1>2, <1>3, <1>4, <1>5, <1>6 DEF ScreeningInv

\* The same for a step that lets in no row of an extra.
LEMMA PassStep ==
    ASSUME ScreeningInv, NEW p \in Passes, NEW x \in PassState, pass' = [pass EXCEPT ![p] = x],
           DiscoveryTypeOK', late' \subseteq Passes \X Sources,
           outage \subseteq outage', outage' \subseteq Passes,
           UNCHANGED <<waiting, delivered, lastFunnel, counted, leaked>>,
           pass[p].stage \notin {"new", "done"}, x.stage # "new",
           x.stage = "done" => pass[p].aborted /\ waiting # p,
           x.aborted = pass[p].aborted, PlacedAt(x),
           outage' = {} => Known' /\ Genuine(x)
    PROVE  ScreeningInv'
  <1>1. leaked' \subseteq Tokens
    BY DEF ScreeningInv, Typed
  <1>2. outage' = {} => Known' /\ Candidates(x.merged) \subseteq Excused' /\ \A o \in x.obs : o.token \in Excused'
    BY DEF Genuine, Excused
  <1> QED BY <1>1, <1>2, PassStepLeaking

LEMMA AskOracleStep == ASSUME ScreeningInv, NEW p \in Passes, AskOracle(p) PROVE ScreeningInv'
  <1> DEFINE x == [pass[p] EXCEPT !.hints = Hints(pass[p].rows), !.stage = "verify"]
  <1>1. pass[p] \in PassState /\ Hints(pass[p].rows) \subseteq Tokens
    BY DEF ScreeningInv, Typed, PassState, Hints
  <1>2. x \in PassState /\ pass' = [pass EXCEPT ![p] = x]
    BY <1>1 DEF PassState, Stages, AskOracle
  <1>3. /\ x.stage = "verify" /\ x.i = pass[p].i /\ x.aborted = pass[p].aborted
        /\ x.merged = pass[p].merged /\ x.obs = pass[p].obs
    BY <1>1 DEF PassState
  <1> HIDE DEF x
  <1>4. PlacedAt(x)
    BY <1>3, DiscoveryAssumption DEF AskOracle, ScreeningInv, Placed, PlacedAt
  <1>5. outage = {} => Known' /\ Genuine(x)
    BY <1>3 DEF AskOracle, ScreeningInv, Vouched, Genuine, Known, dvars, Excused
  <1>6. DiscoveryTypeOK'
    BY DEF AskOracle, ScreeningInv, Typed, DiscoveryTypeOK, dvars
  <1> QED BY <1>2, <1>3, <1>4, <1>5, <1>6, PassStep DEF AskOracle, ScreeningInv, Typed

\* With the transport up, only tokens that exist pass the gate.
LEMMA PromotedExist ==
    ASSUME Known, NEW rows \in SUBSET Tokens, NEW hints,
           NEW a \in [hints -> {"exists", "absent", "down"}],
           \A h \in hints : a[h] \in OracleAnswers(h), ~Down(a)
    PROVE  Promoted(rows, hints, a) \subseteq Excused
  <1> SUFFICES ASSUME NEW t \in rows,
                      \/ \E h \in hints : a[h] = "down"
                      \/ t \in hints /\ a[t] = "exists"
                      \/ Canonical(t)
               PROVE  t \in Excused
    BY DEF Promoted
  <1>1. ~\E h \in hints : a[h] = "down"
    BY DEF Down
  <1>2. CASE t \in hints /\ a[t] = "exists"
    BY <1>2 DEF OracleAnswers, Excused
  <1>3. CASE Canonical(t)
    BY <1>3 DEF Canonical, Known, Excused
  <1> QED BY <1>1, <1>2, <1>3

\* What joining a source's rows makes of a pass.
LEMMA JoinedLocals ==
    ASSUME ScreeningInv, NEW p \in Passes, pass[p].i >= 1, pass[p].i <= Len(Priority),
           NEW rows \in SUBSET Tokens
    PROVE  /\ Joined(p, rows) \in PassState
           /\ Joined(p, rows).stage = "ask" /\ Joined(p, rows).i = pass[p].i + 1
           /\ Joined(p, rows).aborted = pass[p].aborted
           /\ Candidates(Joined(p, rows).merged) \subseteq Candidates(pass[p].merged) \cup rows
           /\ \A o \in Joined(p, rows).obs : o \in pass[p].obs \/ o.token \in rows
           /\ Genuine(pass[p]) /\ rows \subseteq Excused => Genuine(Joined(p, rows))
  <1>1. pass[p] \in PassState /\ Source(p) \in Sources /\ now \in 0..MaxNow
    BY SourceType DEF ScreeningInv, Typed, DiscoveryTypeOK
  <1>2. pass[p].i + 1 \in 0..(Len(Priority) + 1)
    BY <1>1, DiscoveryAssumption DEF PassState
  <1>3. MergeRows(pass[p].merged, Source(p), rows) \in [Tokens -> Sources \cup {NoRow, "gmgn"}]
    BY <1>1 DEF MergeRows, PassState
  <1>4. pass[p].obs \cup [token : rows, source : {Source(p)}, at : {now}] \subseteq Sighting
    BY <1>1 DEF Sighting, PassState
  <1>5. Joined(p, rows) \in PassState
    BY <1>1, <1>2, <1>3, <1>4 DEF Joined, PassState, Stages
  <1>6. /\ Joined(p, rows).stage = "ask" /\ Joined(p, rows).i = pass[p].i + 1
        /\ Joined(p, rows).aborted = pass[p].aborted
        /\ Joined(p, rows).merged = MergeRows(pass[p].merged, Source(p), rows)
        /\ Joined(p, rows).obs = pass[p].obs \cup [token : rows, source : {Source(p)}, at : {now}]
    BY <1>1 DEF Joined, PassState
  <1>7. /\ Candidates(Joined(p, rows).merged) \subseteq Candidates(pass[p].merged) \cup rows
        /\ \A o \in Joined(p, rows).obs : o \in pass[p].obs \/ o.token \in rows
    BY <1>6 DEF Candidates, MergeRows
  <1>8. ASSUME Genuine(pass[p]), rows \subseteq Excused PROVE Genuine(Joined(p, rows))
    BY <1>7, <1>8 DEF Genuine
  <1> QED BY <1>5, <1>6, <1>7, <1>8

LEMMA OracleAnsweredStep == ASSUME ScreeningInv, NEW p \in Passes, OracleAnswered(p) PROVE ScreeningInv'
  <1>1. PICK a \in [pass[p].hints -> {"exists", "absent", "down"}] :
            /\ \A h \in pass[p].hints : a[h] \in OracleAnswers(h)
            /\ LET promoted == Promoted(pass[p].rows, pass[p].hints, a)
               IN  pass' = [pass EXCEPT ![p] =
                              IF @.i = 0
                              THEN [@ EXCEPT !.overlay = promoted, !.rows = {}, !.hints = {},
                                             !.i = 1, !.stage = "ask"]
                              ELSE Joined(p, promoted)]
            /\ outage' = IF Down(a) THEN outage \cup {p} ELSE outage
    BY DEF OracleAnswered
  <1> DEFINE promoted == Promoted(pass[p].rows, pass[p].hints, a)
             overlaid == [pass[p] EXCEPT !.overlay = promoted, !.rows = {}, !.hints = {},
                                         !.i = 1, !.stage = "ask"]
  <1>2. /\ pass[p] \in PassState /\ promoted \subseteq Tokens /\ Len(Priority) \in Nat
        /\ pass[p].stage = "verify" /\ pass[p].i \in Nat /\ pass[p].i <= Len(Priority)
        /\ pass \in [Passes -> PassState]
    BY PassTyped DEF Promoted, PlacedAt, OracleAnswered
  <1>3. /\ DiscoveryTypeOK' /\ (Known' <=> Known)
        /\ UNCHANGED <<late, waiting, delivered, lastFunnel, counted, leaked>>
        /\ outage \subseteq outage' /\ outage' \subseteq Passes /\ late \subseteq Passes \X Sources
    BY <1>1 DEF OracleAnswered, ScreeningInv, Typed, DiscoveryTypeOK, Known, dvars, Excused
  <1>4. ASSUME outage' = {} PROVE Known' /\ Genuine(pass[p]) /\ promoted \subseteq Excused
    <2>1. ~Down(a) /\ outage = {}
      BY <1>1, <1>4
    <2>2. Known /\ Genuine(pass[p])
      BY <2>1 DEF ScreeningInv, Vouched
    <2>3. pass[p].rows \in SUBSET Tokens
      BY <1>2 DEF PassState
    <2> QED BY <1>1, <1>3, <2>1, <2>2, <2>3, PromotedExist
  <1>5. CASE pass[p].i = 0
    <2>1. overlaid \in PassState
      <3>1. 1 \in 0..(Len(Priority) + 1)
        BY <1>2
      <3> HIDE DEF promoted
      <3> QED BY <1>2, <3>1 DEF PassState, Stages
    <2>2. pass' = [pass EXCEPT ![p] = overlaid]
      BY <1>1, <1>2, <1>5
    <2>3. /\ overlaid.stage = "ask" /\ overlaid.i = 1 /\ overlaid.aborted = pass[p].aborted
          /\ overlaid.merged = pass[p].merged /\ overlaid.obs = pass[p].obs
      BY <1>2 DEF PassState
    <2>4. PlacedAt(overlaid)
      BY <2>3 DEF PlacedAt
    <2>5. outage' = {} => Known' /\ Genuine(overlaid)
      BY <1>4, <2>3 DEF Genuine, Excused
    <2> HIDE DEF overlaid
    <2> QED BY <1>2, <1>3, <2>1, <2>2, <2>3, <2>4, <2>5, PassStep
  <1>6. CASE pass[p].i # 0
    <2>1. pass[p].i >= 1
      BY <1>2, <1>6 DEF PassState
    <2>2. pass' = [pass EXCEPT ![p] = Joined(p, promoted)]
      BY <1>1, <1>2, <1>6
    <2> HIDE DEF promoted
    <2>3. /\ Joined(p, promoted) \in PassState
          /\ Joined(p, promoted).stage = "ask" /\ Joined(p, promoted).i = pass[p].i + 1
          /\ Joined(p, promoted).aborted = pass[p].aborted
          /\ Genuine(pass[p]) /\ promoted \subseteq Excused => Genuine(Joined(p, promoted))
      BY <1>2, <2>1, JoinedLocals
    <2>4. PlacedAt(Joined(p, promoted))
      BY <1>2, <2>1, <2>3 DEF PlacedAt, PassState
    <2> QED BY <1>2, <1>3, <1>4, <2>2, <2>3, <2>4, PassStep
  <1> QED BY <1>5, <1>6

\* Passing over a source: the source's rows are gone, the pass asks the next one.
LEMMA SkippedLocals ==
    ASSUME ScreeningInv, NEW p \in Passes, pass[p].i >= 1, pass[p].i <= Len(Priority)
    PROVE  LET x == [pass[p] EXCEPT !.rows = {}, !.hints = {}, !.i = @ + 1, !.stage = "ask"]
               y == [pass[p] EXCEPT !.i = @ + 1, !.stage = "ask"]
           IN  /\ {x, y} \subseteq PassState
               /\ \A z \in {x, y} : /\ z.stage = "ask" /\ z.aborted = pass[p].aborted /\ PlacedAt(z)
                                    /\ Genuine(pass[p]) => Genuine(z)
  <1> DEFINE x == [pass[p] EXCEPT !.rows = {}, !.hints = {}, !.i = @ + 1, !.stage = "ask"]
             y == [pass[p] EXCEPT !.i = @ + 1, !.stage = "ask"]
  <1>1. pass[p] \in PassState /\ pass[p].i \in Nat /\ Len(Priority) \in Nat
    BY PassTyped
  <1>0. pass[p].i + 1 \in 0..(Len(Priority) + 1)
    BY <1>1
  <1>2. x \in PassState /\ y \in PassState
    BY <1>1, <1>0 DEF PassState, Stages
  <1>3. /\ x.stage = "ask" /\ x.i = pass[p].i + 1 /\ x.aborted = pass[p].aborted
        /\ x.merged = pass[p].merged /\ x.obs = pass[p].obs
        /\ y.stage = "ask" /\ y.i = pass[p].i + 1 /\ y.aborted = pass[p].aborted
        /\ y.merged = pass[p].merged /\ y.obs = pass[p].obs
    BY <1>1 DEF PassState
  <1>4. pass[p].i \in Nat
    BY <1>1 DEF PassState
  <1>5. PlacedAt(x) /\ PlacedAt(y)
    BY <1>3, <1>4 DEF PlacedAt
  <1>6. Genuine(pass[p]) => Genuine(x) /\ Genuine(y)
    BY <1>3 DEF Genuine, Excused
  <1> QED BY <1>2, <1>3, <1>5, <1>6

LEMMA BackoffType ==
    ASSUME DiscoveryTypeOK, NEW s \in Sources, NEW class, Backoff(s, class), UNCHANGED <<now, life, firstSeen>>
    PROVE  DiscoveryTypeOK'
  <1>1. now \in 0..MaxNow /\ QuotaTicks \in Nat /\ MaxNow \in Nat
    BY DiscoveryAssumption DEF DiscoveryTypeOK
  <1>2. QuotaTicks \div 4 \in 0..QuotaTicks
    BY <1>1
  <1>3. now + (IF class = "quota" THEN QuotaTicks ELSE QuotaTicks \div 4) \in 0..(MaxNow + QuotaTicks)
    BY <1>1, <1>2
  <1> QED BY <1>3 DEF Backoff, DiscoveryTypeOK

LEMMA AskSourceStep == ASSUME ScreeningInv, NEW p \in Passes, AskSource(p) PROVE ScreeningInv'
  <1> DEFINE x == IF Source(p) \in CooldownAware /\ IsCooling(Source(p))
                  THEN [pass[p] EXCEPT !.i = @ + 1]
                  ELSE [pass[p] EXCEPT !.stage = "call"]
  <1>1. /\ pass[p] \in PassState /\ pass \in [Passes -> PassState] /\ Len(Priority) \in Nat
        /\ pass[p].stage = "ask" /\ pass[p].i >= 1 /\ pass[p].i <= Len(Priority)
    BY PassTyped DEF PlacedAt, AskSource
  <1>0. pass[p].i + 1 \in 0..(Len(Priority) + 1)
    BY <1>1, PassTyped
  <1>2. x \in PassState
    BY <1>1, <1>0 DEF PassState, Stages
  <1>3. pass' = [pass EXCEPT ![p] = x]
    BY <1>1 DEF AskSource
  <1>4. /\ x.stage \in {"ask", "call"} /\ x.i >= 1 /\ (x.stage = "call" => x.i <= Len(Priority))
        /\ x.aborted = pass[p].aborted /\ x.merged = pass[p].merged /\ x.obs = pass[p].obs
    BY <1>1 DEF PassState
  <1> HIDE DEF x
  <1>5. PlacedAt(x)
    BY <1>4 DEF PlacedAt
  <1>6. outage = {} => Known' /\ Genuine(x)
    BY <1>4 DEF AskSource, ScreeningInv, Vouched, Genuine, Known, dvars, Excused
  <1>7. DiscoveryTypeOK'
    BY DEF AskSource, ScreeningInv, Typed, DiscoveryTypeOK, dvars
  <1> QED BY <1>1, <1>2, <1>3, <1>4, <1>5, <1>6, <1>7, PassStep DEF AskSource, ScreeningInv, Typed

LEMMA SourceAnsweredStep == ASSUME ScreeningInv, NEW p \in Passes, SourceAnswered(p) PROVE ScreeningInv'
  <1>1. PICK rows \in Rows(Source(p)) :
            IF Source(p) \in RecallOnly
            THEN pass' = [pass EXCEPT ![p].rows = rows, ![p].hints = Hints(rows), ![p].stage = "verify"]
            ELSE pass' = [pass EXCEPT ![p] = Joined(p, rows)]
    BY DEF SourceAnswered
  <1>2. /\ pass[p] \in PassState /\ pass \in [Passes -> PassState] /\ Len(Priority) \in Nat
        /\ pass[p].stage = "call" /\ pass[p].i >= 1 /\ pass[p].i <= Len(Priority)
        /\ rows \subseteq Tokens /\ Hints(rows) \subseteq Tokens
        /\ Source(p) \notin RecallOnly => rows \subseteq Excused
    BY PassTyped DEF PlacedAt, SourceAnswered, Rows, Hints, Excused
  <1>3. /\ DiscoveryTypeOK' /\ (Known' <=> Known)
        /\ UNCHANGED <<late, waiting, delivered, lastFunnel, counted, outage, leaked>>
    BY DEF SourceAnswered, ScreeningInv, Typed, DiscoveryTypeOK, Known, dvars, Excused
  <1>4. outage = {} => Known /\ Genuine(pass[p])
    BY DEF ScreeningInv, Vouched
  <1>5. CASE Source(p) \in RecallOnly
    <2> DEFINE x == [pass[p] EXCEPT !.rows = rows, !.hints = Hints(rows), !.stage = "verify"]
    <2>1. x \in PassState
      BY <1>2 DEF PassState, Stages
    <2>2. pass' = [pass EXCEPT ![p] = x]
      BY <1>1, <1>2, <1>5
    <2>3. /\ x.stage = "verify" /\ x.i = pass[p].i /\ x.aborted = pass[p].aborted
          /\ x.merged = pass[p].merged /\ x.obs = pass[p].obs
      BY <1>2 DEF PassState
    <2> HIDE DEF x
    <2>4. PlacedAt(x) /\ (outage = {} => Genuine(x))
      BY <1>2, <1>4, <2>3 DEF PlacedAt, Genuine, Excused
    <2> QED BY <1>2, <1>3, <1>4, <2>1, <2>2, <2>3, <2>4, PassStep DEF ScreeningInv, Typed
  <1>6. CASE Source(p) \notin RecallOnly
    <2>1. pass' = [pass EXCEPT ![p] = Joined(p, rows)]
      BY <1>1, <1>6
    <2>2. /\ Joined(p, rows) \in PassState
          /\ Joined(p, rows).stage = "ask" /\ Joined(p, rows).i = pass[p].i + 1
          /\ Joined(p, rows).aborted = pass[p].aborted
          /\ Genuine(pass[p]) /\ rows \subseteq Excused => Genuine(Joined(p, rows))
      BY <1>2, JoinedLocals
    <2>3. PlacedAt(Joined(p, rows))
      BY <1>2, <2>2 DEF PlacedAt, PassState
    <2> QED BY <1>2, <1>3, <1>4, <1>6, <2>1, <2>2, <2>3, PassStep DEF ScreeningInv, Typed
  <1> QED BY <1>5, <1>6

\* The rows of an extra are excused from the moment they join.
LEMMA ExtraJoinedStep == ASSUME ScreeningInv, NEW p \in Passes, ExtraJoined(p) PROVE ScreeningInv'
  <1>1. PICK rows \in SUBSET Tokens :
            pass' = [pass EXCEPT ![p] = Joined(p, rows)] /\ leaked' = leaked \cup (rows \ Real)
    BY DEF ExtraJoined
  <1>2. /\ pass[p].stage = "ask" /\ pass[p].i >= 1 /\ pass[p].i <= Len(Priority)
        /\ pass[p].i \in Nat /\ Len(Priority) \in Nat
        /\ UNCHANGED <<dvars, late, waiting, delivered, lastFunnel, counted, outage>>
    BY PassTyped DEF PlacedAt, ExtraJoined
  <1>3. /\ Joined(p, rows) \in PassState
        /\ Joined(p, rows).stage = "ask" /\ Joined(p, rows).i = pass[p].i + 1
        /\ Joined(p, rows).aborted = pass[p].aborted
        /\ Candidates(Joined(p, rows).merged) \subseteq Candidates(pass[p].merged) \cup rows
        /\ \A o \in Joined(p, rows).obs : o \in pass[p].obs \/ o.token \in rows
    BY <1>2, JoinedLocals
  <1>4. PlacedAt(Joined(p, rows))
    BY <1>2, <1>3 DEF PlacedAt
  <1>5. /\ leaked \subseteq leaked' /\ leaked' \subseteq Tokens /\ Excused \subseteq Excused'
        /\ rows \subseteq Excused'
    BY <1>1 DEF ScreeningInv, Typed, Excused
  <1>6. outage = {} => Known /\ Genuine(pass[p])
    BY DEF ScreeningInv, Vouched
  <1>7. Known => Known'
    BY <1>2, <1>5 DEF Known, dvars
  <1>8. outage' = {} => /\ Known' /\ Candidates(Joined(p, rows).merged) \subseteq Excused'
                        /\ \A o \in Joined(p, rows).obs : o.token \in Excused'
    BY <1>2, <1>3, <1>5, <1>6, <1>7 DEF Genuine
  <1>9. DiscoveryTypeOK'
    BY <1>2 DEF ScreeningInv, Typed, DiscoveryTypeOK, dvars
  <1> QED BY <1>1, <1>2, <1>3, <1>4, <1>5, <1>8, <1>9, PassStepLeaking DEF ScreeningInv, Typed

LEMMA SourceFailedStep == ASSUME ScreeningInv, NEW p \in Passes, SourceFailed(p) PROVE ScreeningInv'
  <1> DEFINE x == [pass[p] EXCEPT !.i = @ + 1, !.stage = "ask"]
  <1>1. /\ pass[p] \in PassState /\ pass \in [Passes -> PassState]
        /\ pass[p].stage = "call" /\ pass[p].i >= 1 /\ pass[p].i <= Len(Priority)
    BY DEF ScreeningInv, Typed, Placed, PlacedAt, SourceFailed
  <1>2. /\ x \in PassState /\ x.stage = "ask" /\ x.aborted = pass[p].aborted /\ PlacedAt(x)
        /\ Genuine(pass[p]) => Genuine(x)
    BY <1>1, SkippedLocals
  <1>3. pass' = [pass EXCEPT ![p] = x]
    BY <1>1 DEF SourceFailed
  <1> HIDE DEF x
  <1>4. DiscoveryTypeOK'
    BY <1>1, SourceType, BackoffType DEF SourceFailed, ScreeningInv, Typed
  <1>5. outage = {} => Known' /\ Genuine(pass[p])
    BY DEF SourceFailed, ScreeningInv, Vouched, Known, Excused
  <1> QED BY <1>1, <1>2, <1>3, <1>4, <1>5, PassStep DEF SourceFailed, ScreeningInv, Typed

LEMMA SourceTimedOutStep == ASSUME ScreeningInv, NEW p \in Passes, SourceTimedOut(p) PROVE ScreeningInv'
  <1> DEFINE x == [pass[p] EXCEPT !.rows = {}, !.hints = {}, !.i = @ + 1, !.stage = "ask"]
  <1>1. /\ pass[p] \in PassState /\ pass \in [Passes -> PassState]
        /\ pass[p].stage \in {"call", "verify"} /\ pass[p].i >= 1 /\ pass[p].i <= Len(Priority)
    BY DEF ScreeningInv, Typed, Placed, PlacedAt, SourceTimedOut, PassState
  <1>2. /\ x \in PassState /\ x.stage = "ask" /\ x.aborted = pass[p].aborted /\ PlacedAt(x)
        /\ Genuine(pass[p]) => Genuine(x)
    BY <1>1, SkippedLocals
  <1>3. pass' = [pass EXCEPT ![p] = x]
    BY <1>1 DEF SourceTimedOut
  <1> HIDE DEF x
  <1>4. DiscoveryTypeOK' /\ late' \subseteq Passes \X Sources
    BY <1>1, SourceType, BackoffType DEF SourceTimedOut, ScreeningInv, Typed
  <1>5. outage = {} => Known' /\ Genuine(pass[p])
    BY DEF SourceTimedOut, ScreeningInv, Vouched, Known, Excused
  <1> QED BY <1>1, <1>2, <1>3, <1>4, <1>5, PassStep DEF SourceTimedOut, ScreeningInv, Typed

\* Observing typed sightings keeps the registry's types, and introduces only
\* the tokens that were sighted.
LEMMA ObserveType ==
    ASSUME DiscoveryTypeOK, NEW obs \in SUBSET Sighting, Observe(obs), UNCHANGED <<now, cooling, leaked>>
    PROVE  /\ DiscoveryTypeOK'
           /\ Known /\ (\A o \in obs : o.token \in Excused) => Known'
  <1>1. life' \in [Tokens -> {"absent", "fresh", "eligible", "dead"}]
    BY DEF Observe, DiscoveryTypeOK
  <1>2. ASSUME NEW t \in Tokens, NEW s \in Sources
        PROVE  LET ats == {o.at : o \in {q \in obs : q.token = t /\ q.source = s}} \cup {firstSeen[t][s]}
               IN  (CHOOSE n \in ats : \A m \in ats : n <= m) \in 0..Never
    <2> DEFINE ats == {o.at : o \in {q \in obs : q.token = t /\ q.source = s}} \cup {firstSeen[t][s]}
    <2>1. Never \in Nat /\ 0..MaxNow \subseteq 0..Never /\ firstSeen[t][s] \in 0..Never
      BY DiscoveryAssumption DEF Never, DiscoveryTypeOK
    <2>2. \A o \in obs : o.at \in 0..Never
      BY <2>1 DEF Sighting
    <2>3. ats \subseteq 0..Never /\ ats # {}
      BY <2>1, <2>2
    <2> HIDE DEF ats
    <2>4. ats \in SUBSET Nat
      BY <2>1, <2>3
    <2>5. (CHOOSE n \in ats : \A m \in ats : n <= m) \in ats
      BY <2>3, <2>4, LeastExists
    <2>6. (CHOOSE n \in ats : \A m \in ats : n <= m) \in 0..Never
      BY <2>3, <2>5
    <2> QED BY <2>6 DEF ats
  <1>3. firstSeen' \in [Tokens -> [Sources -> 0..Never]]
    BY <1>2 DEF Observe
  <1>4. ASSUME Known, \A o \in obs : o.token \in Excused PROVE Known'
    BY <1>4 DEF Known, Observe, Excused
  <1> QED BY <1>1, <1>3, <1>4 DEF DiscoveryTypeOK, Never

LEMMA MergeStep == ASSUME ScreeningInv, NEW p \in Passes, Merge(p) PROVE ScreeningInv'
  <1> DEFINE merged == Overlay(pass[p].merged, pass[p].overlay)
             x == [pass[p] EXCEPT !.merged = merged, !.todo = Candidates(merged),
                                  !.obs = {}, !.overlay = {}, !.stage = "loop"]
  <1>1. pass[p] \in PassState /\ pass \in [Passes -> PassState]
    BY PassTyped
  <1>2. /\ merged \in [Tokens -> Sources \cup {NoRow, "gmgn"}]
        /\ Candidates(merged) \subseteq Candidates(pass[p].merged)
        /\ Candidates(merged) \subseteq Tokens
    BY <1>1 DEF Overlay, Candidates, PassState, NoRow
  <1>3. pass' = [pass EXCEPT ![p] = x]
    BY <1>1 DEF Merge
  <1> HIDE DEF merged
  <1>4. x \in PassState
    BY <1>1, <1>2 DEF PassState, Stages
  <1>5. /\ x.stage = "loop" /\ x.aborted = pass[p].aborted /\ x.merged = merged /\ x.obs = {}
        /\ pass[p].obs \in SUBSET Sighting
    BY <1>1 DEF PassState
  <1> HIDE DEF x
  <1>6. /\ DiscoveryTypeOK'
        /\ Known /\ Genuine(pass[p]) => Known'
    BY <1>5, ObserveType DEF Merge, ScreeningInv, Typed, Genuine, Excused
  <1>7. PlacedAt(x)
    BY <1>5 DEF PlacedAt
  <1>8. outage' = {} => Known' /\ Genuine(x)
    BY <1>2, <1>5, <1>6 DEF Merge, ScreeningInv, Vouched, Genuine, Excused
  <1> QED BY <1>1, <1>3, <1>4, <1>5, <1>6, <1>7, <1>8, PassStep DEF Merge, ScreeningInv, Typed

LEMMA NextCandidateStep == ASSUME ScreeningInv, NEW p \in Passes, NextCandidate(p) PROVE ScreeningInv'
  <1> DEFINE cleared == [pass[p] EXCEPT !.reports = {}]
             x == IF pass[p].aborted THEN Ended(cleared) ELSE [pass[p] EXCEPT !.stage = "screen"]
  <1>1. pass[p] \in PassState /\ pass \in [Passes -> PassState] /\ pass[p].stage = "loop"
    BY PassTyped DEF NextCandidate
  <1>2. cleared \in PassState /\ cleared.aborted = pass[p].aborted
    BY <1>1 DEF PassState
  <1>3. pass' = [pass EXCEPT ![p] = x]
    BY <1>1 DEF NextCandidate
  <1> HIDE DEF cleared
  <1>4. /\ x \in PassState /\ x.aborted = pass[p].aborted /\ PlacedAt(x)
        /\ x.stage \in {"screen", "done"} /\ (x.stage = "done" => pass[p].aborted)
        /\ Genuine(pass[p]) => Genuine(x)
    <2>1. CASE pass[p].aborted
      <3>1. x = Ended(cleared)
        BY <2>1
      <3>2. /\ x \in PassState /\ x.stage = "done" /\ x.aborted = pass[p].aborted
            /\ x.merged = Idle.merged /\ x.obs = {}
        BY <1>2, <3>1, Ends
      <3>3. Genuine(x)
        BY <3>2 DEF Genuine, Candidates, Idle, Excused
      <3> QED BY <2>1, <3>2, <3>3 DEF PlacedAt
    <2>2. CASE ~pass[p].aborted
      <3>1. x = [pass[p] EXCEPT !.stage = "screen"]
        BY <2>2
      <3>2. /\ x \in PassState /\ x.stage = "screen" /\ x.aborted = pass[p].aborted
            /\ x.merged = pass[p].merged /\ x.obs = pass[p].obs
        BY <1>1, <3>1 DEF PassState, Stages
      <3> QED BY <3>2 DEF PlacedAt, Genuine, Excused
    <2> QED BY <2>1, <2>2
  <1> HIDE DEF x
  <1>5. pass[p].aborted => waiting # p
    BY DEF ScreeningInv, Heard
  <1>6. DiscoveryTypeOK' /\ (outage = {} => Known' /\ Genuine(x))
    BY <1>4 DEF NextCandidate, ScreeningInv, Typed, DiscoveryTypeOK, Vouched, Known, dvars, Excused
  <1> QED BY <1>1, <1>3, <1>4, <1>5, <1>6, PassStep DEF NextCandidate, ScreeningInv, Typed

LEMMA ScreenedStep ==
    ASSUME ScreeningInv, NEW p \in Passes, NEW t \in Tokens, Screened(p, t)
    PROVE  ScreeningInv'
  <1>1. PICK verdict \in {"rejected", "audit", "quiet", "report"} :
            /\ life' = IF verdict = "audit" THEN MarkDead(t)
                       ELSE IF verdict = "rejected" THEN life ELSE MarkRevalidated(t)
            /\ LET next == [pass[p] EXCEPT !.todo = @ \ {t}, !.stage = "loop"]
               IN  pass' = [pass EXCEPT ![p] =
                              IF verdict # "report" THEN next
                              ELSE [next EXCEPT !.reports = @ \cup {t}, !.admitted = Admitted(@)]]
    BY DEF Screened
  <1> DEFINE next == [pass[p] EXCEPT !.todo = @ \ {t}, !.stage = "loop"]
             x == IF verdict # "report" THEN next
                  ELSE [next EXCEPT !.reports = @ \cup {t}, !.admitted = Admitted(@)]
  <1>2. pass[p] \in PassState /\ pass \in [Passes -> PassState]
    BY PassTyped
  <1>3. next \in PassState
    BY <1>2 DEF PassState, Stages
  <1>5. pass' = [pass EXCEPT ![p] = x]
    BY <1>1
  <1>6. /\ next.stage = "loop" /\ next.aborted = pass[p].aborted
        /\ next.merged = pass[p].merged /\ next.obs = pass[p].obs
    BY <1>2 DEF PassState
  <1> HIDE DEF next
  <1>4. next.reports \cup {t} \subseteq Tokens /\ Admitted(next.admitted) \in 0..MaxResearch
    BY <1>3, ScreeningAssumption DEF PassState, Admitted
  <1>7. x \in PassState
    BY <1>3, <1>4 DEF PassState
  <1>8. x.stage = "loop" /\ x.aborted = pass[p].aborted /\ x.merged = pass[p].merged /\ x.obs = pass[p].obs
    BY <1>3, <1>6 DEF PassState
  <1> HIDE DEF x
  <1>9. PlacedAt(x)
    BY <1>8 DEF PlacedAt
  <1>10. DiscoveryTypeOK' /\ (Known => Known')
    BY <1>1 DEF Screened, ScreeningInv, Typed, DiscoveryTypeOK, MarkDead, MarkRevalidated, Known, Excused
  <1>11. outage = {} => Known' /\ Genuine(x)
    BY <1>8, <1>10 DEF ScreeningInv, Vouched, Genuine, Excused
  <1> QED BY <1>2, <1>5, <1>7, <1>8, <1>9, <1>10, <1>11, PassStep DEF Screened, ScreeningInv, Typed
-----------------------------------------------------------------------------
(* Steps that concern the cycle                                            *)

LEMMA PruneType ==
    ASSUME DiscoveryTypeOK, PruneFresh, UNCHANGED <<now, cooling, leaked>>
    PROVE  DiscoveryTypeOK' /\ (Known => Known')
  <1>1. Never \in 0..Never
    BY DiscoveryAssumption DEF Never
  <1>2. firstSeen' \in [Tokens -> [Sources -> 0..Never]]
    BY <1>1 DEF PruneFresh, DiscoveryTypeOK
  <1>3. life' \in [Tokens -> {"absent", "fresh", "eligible", "dead"}]
    BY DEF PruneFresh, DiscoveryTypeOK
  <1>4. Known => Known'
    BY DEF PruneFresh, Known, Excused
  <1> QED BY <1>2, <1>3, <1>4 DEF DiscoveryTypeOK, Never

LEMMA StartPassStep == ASSUME ScreeningInv, NEW p \in Passes, StartPass(p) PROVE ScreeningInv'
  <1>1. PICK rows \in SUBSET Tokens : pass' = [pass EXCEPT ![p].stage = "gate", ![p].rows = rows]
    BY DEF StartPass
  <1> DEFINE x == [pass[p] EXCEPT !.stage = "gate", !.rows = rows]
  <1>2. /\ pass[p] \in PassState /\ pass \in [Passes -> PassState]
        /\ pass[p].stage = "new" /\ waiting = NoPass /\ waiting' = p
        /\ UNCHANGED <<late, delivered, lastFunnel, counted, outage, leaked>>
    BY PassTyped DEF StartPass
  <1>3. x \in PassState
    BY <1>2 DEF PassState, Stages
  <1>4. /\ x.stage = "gate" /\ x.i = pass[p].i /\ x.aborted = pass[p].aborted
        /\ x.merged = pass[p].merged /\ x.obs = pass[p].obs /\ x.reports = pass[p].reports
    BY <1>2 DEF PassState
  <1>5. pass' = [pass EXCEPT ![p] = x]
    BY <1>1, <1>2
  <1> HIDE DEF x
  <1>6. /\ pass' \in [Passes -> PassState]
        /\ pass'[p] = x
        /\ \A q \in Passes : q # p => pass'[q] = pass[q]
    BY <1>3, <1>5, PassUpdate DEF ScreeningInv
  <1>7. DiscoveryTypeOK' /\ (Known => Known')
    BY PruneType DEF StartPass, ScreeningInv, Typed
  <1>8. Typed'
    BY <1>2, <1>6, <1>7 DEF ScreeningInv, Typed
  <1>9. Placed'
    BY <1>2, <1>4, <1>6 DEF ScreeningInv, Placed, PlacedAt
  <1>10. Vouched'
    BY <1>2, <1>4, <1>6, <1>7 DEF ScreeningInv, Vouched, Genuine, Excused
  <1>11. Heard'
    BY <1>2, <1>4, <1>6 DEF ScreeningInv, Heard
  <1>12. Tallied'
    <2>1. PICK k \in 0..MaxPass :
              /\ \A q \in Passes : pass[q].stage # "new" <=> q <= k
              /\ \A q \in Passes : counted[q] <= IF waiting = NoPass THEN k ELSE k - 1
      BY DEF ScreeningInv, Tallied
    <2>2. p = k + 1 /\ k + 1 \in 0..MaxPass /\ p # NoPass
      <3>1. p > k
        BY <1>2, <2>1 DEF Passes
      <3>2. \A q \in 1..(p - 1) : pass[q].stage # "new" /\ q \in Passes
        BY ScreeningAssumption DEF StartPass, Passes
      <3>3. p - 1 <= k
        BY <2>1, <3>1, <3>2 DEF Passes
      <3> QED BY <3>1, <3>3 DEF Passes, NoPass
    <2>3. \A q \in Passes : pass'[q].stage # "new" <=> q <= k + 1
      BY <1>2, <1>4, <1>6, <2>1, <2>2 DEF Passes
    <2>4. \A q \in Passes : counted'[q] <= IF waiting' = NoPass THEN k + 1 ELSE (k + 1) - 1
      BY <1>2, <2>1, <2>2
    <2> QED BY <2>2, <2>3, <2>4 DEF Tallied
  <1> QED BY <1>8, <1>9, <1>10, <1>11, <1>12 DEF ScreeningInv

LEMMA FinishStep == ASSUME ScreeningInv, NEW p \in Passes, Finish(p) PROVE ScreeningInv'
  <1> DEFINE x == Ended(pass[p])
  <1>1. /\ pass[p] \in PassState /\ pass \in [Passes -> PassState] /\ pass[p].stage = "loop"
        /\ pass' = [pass EXCEPT ![p] = x] /\ lastFunnel' = p
        /\ DiscoveryTypeOK' /\ (Known' <=> Known) /\ UNCHANGED <<late, outage, leaked>>
    BY PassTyped DEF Finish, ScreeningInv, Typed, DiscoveryTypeOK, Known, dvars, Excused
  <1>2. /\ x \in PassState /\ x.stage = "done" /\ x.aborted = pass[p].aborted
        /\ x.reports = pass[p].reports /\ x.merged = Idle.merged /\ x.obs = {}
    BY <1>1, Ends
  <1>3. Genuine(x)
    BY <1>2 DEF Genuine, Candidates, Idle, Excused
  <1> HIDE DEF x
  <1>4. /\ pass' \in [Passes -> PassState]
        /\ pass'[p] = x
        /\ \A q \in Passes : q # p => pass'[q] = pass[q]
    BY <1>1, <1>2, PassUpdate DEF ScreeningInv
  <1>5. IF waiting = p
        THEN /\ waiting' = NoPass /\ counted' = [counted EXCEPT ![p] = @ + 1]
             /\ delivered' = [delivered EXCEPT ![p] = pass[p].reports]
        ELSE UNCHANGED <<waiting, delivered, counted>>
    BY DEF Finish, Count, Passes, NoPass
  <1>6. /\ delivered \in [Passes -> SUBSET Tokens] /\ counted \in [Passes -> Nat]
        /\ pass[p].reports \subseteq Tokens
    BY <1>1 DEF ScreeningInv, Typed, PassState
  <1>7. Typed'
    BY <1>1, <1>4, <1>5, <1>6 DEF ScreeningInv, Typed
  <1>8. Placed'
    BY <1>2, <1>4 DEF ScreeningInv, Placed, PlacedAt
  <1>9. Vouched'
    BY <1>1, <1>3, <1>4 DEF ScreeningInv, Vouched, Genuine, Excused
  <1>10. Heard'
    <2>1. \A q \in Passes : waiting' = q => waiting = q
      BY <1>5 DEF Passes, NoPass
    <2>0. \A q \in Passes : q # p => delivered'[q] = delivered[q]
      BY <1>5, <1>6
    <2>2. waiting' # p
      BY <1>5 DEF Passes, NoPass
    <2>3. /\ pass[p].aborted => delivered'[p] = {}
          /\ delivered'[p] \subseteq pass[p].reports
      BY <1>1, <1>5, <1>6 DEF ScreeningInv, Heard
    <2> QED BY <1>1, <1>2, <1>4, <2>0, <2>1, <2>2, <2>3 DEF ScreeningInv, Heard
  <1>11. Tallied'
    <2>1. PICK k \in 0..MaxPass :
              /\ \A q \in Passes : pass[q].stage # "new" <=> q <= k
              /\ \A q \in Passes : counted[q] <= IF waiting = NoPass THEN k ELSE k - 1
      BY DEF ScreeningInv, Tallied
    <2>2. \A q \in Passes : pass'[q].stage # "new" <=> q <= k
      BY <1>1, <1>2, <1>4, <2>1
    <2>3. CASE waiting = p
      <3>1. waiting # NoPass /\ waiting' = NoPass
        BY <1>5, <2>3 DEF Passes, NoPass
      <3>2. ASSUME NEW q \in Passes PROVE counted'[q] <= k
        <4>1. counted[q] \in Nat /\ counted[q] <= k - 1
          BY <1>6, <2>1, <3>1
        <4>2. counted'[q] \in {counted[q], counted[q] + 1}
          BY <1>5, <1>6, <2>3
        <4> QED BY <4>1, <4>2
      <3> QED BY <2>2, <3>1, <3>2 DEF Tallied
    <2>4. CASE waiting # p
      BY <1>5, <2>1, <2>2, <2>4 DEF Tallied
    <2> QED BY <2>3, <2>4
  <1> QED BY <1>7, <1>8, <1>9, <1>10, <1>11 DEF ScreeningInv

LEMMA DeadlineStep == ASSUME ScreeningInv, NEW p \in Passes, Deadline(p) PROVE ScreeningInv'
  <1> DEFINE x == [pass[p] EXCEPT !.aborted = TRUE]
  <1>1. /\ pass[p] \in PassState /\ pass \in [Passes -> PassState]
        /\ waiting = p /\ waiting' = NoPass
        /\ DiscoveryTypeOK' /\ (Known' <=> Known) /\ UNCHANGED <<late, delivered, lastFunnel, outage, leaked>>
    BY PassTyped DEF Deadline, ScreeningInv, Typed, DiscoveryTypeOK, Known, dvars, Excused
  <1>2. x \in PassState /\ pass' = [pass EXCEPT ![p] = x]
    BY <1>1 DEF PassState, Deadline
  <1>3. /\ x.stage = pass[p].stage /\ x.i = pass[p].i /\ x.aborted
        /\ x.merged = pass[p].merged /\ x.obs = pass[p].obs /\ x.reports = pass[p].reports
    BY <1>1 DEF PassState
  <1> HIDE DEF x
  <1>4. /\ pass' \in [Passes -> PassState]
        /\ pass'[p] = x
        /\ \A q \in Passes : q # p => pass'[q] = pass[q]
    BY <1>2, PassUpdate DEF ScreeningInv
  <1>5. /\ counted \in [Passes -> Nat] /\ lastFunnel \in Passes \cup {NoPass}
        /\ counted' = IF lastFunnel = NoPass THEN counted ELSE [counted EXCEPT ![lastFunnel] = @ + 1]
    BY DEF Deadline, Count, ScreeningInv, Typed
  <1>6. Typed'
    BY <1>1, <1>4, <1>5 DEF ScreeningInv, Typed
  <1>7. Placed'
    BY <1>3, <1>4 DEF ScreeningInv, Placed, PlacedAt
  <1>8. Vouched'
    BY <1>1, <1>3, <1>4 DEF ScreeningInv, Vouched, Genuine, Excused
  <1>9. Heard'
    <2>1. delivered[p] = {} /\ pass[p].stage \notin {"new", "done"}
      BY <1>1 DEF ScreeningInv, Heard
    <2> QED BY <1>1, <1>3, <1>4, <2>1 DEF ScreeningInv, Heard, Passes, NoPass
  <1>10. Tallied'
    <2>1. PICK k \in 0..MaxPass :
              /\ \A q \in Passes : pass[q].stage # "new" <=> q <= k
              /\ \A q \in Passes : counted[q] <= IF waiting = NoPass THEN k ELSE k - 1
      BY DEF ScreeningInv, Tallied
    <2>2. \A q \in Passes : pass'[q].stage # "new" <=> q <= k
      BY <1>3, <1>4, <2>1
    <2>3. \A q \in Passes : counted'[q] <= IF waiting' = NoPass THEN k ELSE k - 1
      BY <1>1, <1>5, <2>1 DEF Passes, NoPass
    <2> QED BY <2>2, <2>3 DEF Tallied
  <1> QED BY <1>6, <1>7, <1>8, <1>9, <1>10 DEF ScreeningInv

\* A step that leaves every pass and every cycle alone.
LEMMA AsideStep ==
    ASSUME ScreeningInv, DiscoveryTypeOK', late' \subseteq Passes \X Sources,
           UNCHANGED <<life, pass, waiting, delivered, lastFunnel, counted, outage, leaked>>
    PROVE  ScreeningInv'
  <1>1. Typed' /\ Placed' /\ Vouched' /\ Heard'
    BY DEF ScreeningInv, Typed, Placed, PlacedAt, Vouched, Known, Genuine, Heard, Excused
  <1>2. Tallied'
    BY DEF ScreeningInv, Tallied
  <1> QED BY <1>1, <1>2 DEF ScreeningInv

LEMMA LateAnswerStep ==
    ASSUME ScreeningInv, NEW p \in Passes, NEW s \in Sources, LateAnswer(p, s)
    PROVE  ScreeningInv'
  <1>1. DiscoveryTypeOK
    BY DEF ScreeningInv, Typed
  <1>2. DiscoveryTypeOK'
    <2>1. CASE UNCHANGED cooling
      BY <1>1, <2>1 DEF LateAnswer, DiscoveryTypeOK
    <2>2. CASE \E class \in Failures : Backoff(s, class)
      BY <1>1, <2>2, BackoffType DEF LateAnswer
    <2> QED BY <2>1, <2>2 DEF LateAnswer
  <1> QED BY <1>2, AsideStep DEF LateAnswer, ScreeningInv, Typed

LEMMA ClockStep == ASSUME ScreeningInv, Clock PROVE ScreeningInv'
  <1>1. DiscoveryTypeOK'
    BY DiscoveryAssumption DEF Clock, Tick, ScreeningInv, Typed, DiscoveryTypeOK
  <1> QED BY <1>1, AsideStep DEF Clock, Tick, svars, ScreeningInv, Typed

LEMMA ScreeningNextInv == ScreeningInv /\ [Next]_vars => ScreeningInv'
  <1> SUFFICES ASSUME ScreeningInv, [Next]_vars PROVE ScreeningInv'
    OBVIOUS
  <1>1. CASE Clock
    BY <1>1, ClockStep
  <1>2. CASE \E p \in Passes : StartPass(p) \/ Continues(p) \/ SourceAnswered(p) \/ SourceFailed(p) \/ Deadline(p)
    BY <1>2, StartPassStep, AskOracleStep, OracleAnsweredStep, AskSourceStep, SourceTimedOutStep,
       MergeStep, NextCandidateStep, ScreenedStep, FinishStep, ExtraJoinedStep, SourceAnsweredStep, SourceFailedStep,
       DeadlineStep DEF Continues
  <1>3. CASE \E p \in Passes, s \in Sources : LateAnswer(p, s)
    BY <1>3, LateAnswerStep
  <1>4. CASE UNCHANGED vars
    <2>1. DiscoveryTypeOK'
      BY <1>4 DEF vars, dvars, ScreeningInv, Typed, DiscoveryTypeOK
    <2> QED BY <1>4, <2>1, AsideStep DEF vars, dvars, svars, ScreeningInv, Typed
  <1> QED BY <1>1, <1>2, <1>3, <1>4 DEF Next
-----------------------------------------------------------------------------
(* Theorems                                                                *)

\* In every behaviour the locals of a pass keep their types and places,
\* candidates are vouched for, a pass that missed its deadline is not listened
\* to, and each cycle counts one pass.
THEOREM ScreeningInvariant == Spec => []ScreeningInv
  <1> QED BY ScreeningInitInv, ScreeningNextInv, PTL DEF Spec

\* A token that does not exist on chain becomes a candidate, or known to the
\* registry, only after a gate met a transport outage or an ungated extra brought
\* it in, however many passes overlap and whatever the sources report.
THEOREM NoPhantomWithoutCause == Spec => []CandidatesAreVouched
  <1>1. ScreeningInv => CandidatesAreVouched
    <2> SUFFICES ASSUME ScreeningInv PROVE TypeOK /\ PhantomHasACause
      BY DEF CandidatesAreVouched
    <2>1. counted \in [Passes -> 0..MaxPass]
      BY ScreeningAssumption DEF ScreeningInv, Typed, Tallied
    <2>2. ASSUME NEW p \in Passes
          PROVE  /\ pass[p].stage \in Stages /\ pass[p].i \in 0..(Len(Priority) + 1)
                 /\ \A f \in {"rows", "hints", "overlay", "todo", "reports"} : pass[p][f] \subseteq Tokens
                 /\ pass[p].merged \in [Tokens -> Sources \cup {NoRow, "gmgn"}]
                 /\ pass[p].admitted \in 0..MaxResearch /\ pass[p].aborted \in BOOLEAN
      <3>1. pass[p] \in PassState
        BY PassTyped
      <3>2. \A f \in {"rows", "hints", "overlay", "todo", "reports"} : pass[p][f] \subseteq Tokens
        BY <3>1 DEF PassState
      <3> QED BY <3>1, <3>2 DEF PassState
    <2>3. TypeOK
      BY <2>1, <2>2 DEF TypeOK, ScreeningInv, Typed
    <2>4. PhantomHasACause
      BY DEF PhantomHasACause, ScreeningInv, Vouched, Genuine, Known, Excused
    <2> QED BY <2>3, <2>4
  <1> QED BY <1>1, ScreeningInvariant, PTL

\* A pass that missed its deadline delivers nothing, and a cycle is handed
\* only what its own pass screened.
THEOREM NothingAfterTheDeadline == Spec => []DiscardedPassIsSilent
  <1>1. ScreeningInv => DiscardedPassIsSilent
    BY DEF ScreeningInv, Heard, DiscardedPassIsSilent
  <1> QED BY <1>1, ScreeningInvariant, PTL

\* No step of any pass brings a token back that failed its audit.
THEOREM TheDeadStayDead == Spec => DeadStaysDead
  <1>1. ASSUME ScreeningInv, [Next]_vars, NEW t \in Tokens, life[t] = "dead"
        PROVE  life'[t] = "dead"
    <2>1. life \in [Tokens -> {"absent", "fresh", "eligible", "dead"}]
      BY <1>1 DEF ScreeningInv, Typed, DiscoveryTypeOK
    <2>2. ASSUME NEW p \in Passes, StartPass(p) PROVE life'[t] = "dead"
      BY <1>1, <2>2 DEF StartPass, PruneFresh, Pruned
    <2>3. ASSUME NEW p \in Passes, Merge(p) PROVE life'[t] = "dead"
      BY <1>1, <2>3 DEF Merge, Observe
    <2>4. ASSUME NEW p \in Passes, NEW u \in Tokens, Screened(p, u) PROVE life'[t] = "dead"
      BY <1>1, <2>1, <2>4 DEF Screened, MarkDead, MarkRevalidated
    <2>5. ASSUME UNCHANGED life PROVE life'[t] = "dead"
      BY <1>1, <2>5
    <2> QED BY <1>1, <2>2, <2>3, <2>4, <2>5
            DEF Next, Clock, Tick, Continues, AskOracle, OracleAnswered, AskSource, ExtraJoined, SourceTimedOut,
                NextCandidate, Finish, SourceAnswered, SourceFailed, Deadline, LateAnswer, vars, dvars
  <1>2. ScreeningInv /\ [Next]_vars => [\A t \in Tokens : life[t] = "dead" => life'[t] = "dead"]_vars
    BY <1>1
  <1> QED BY <1>2, ScreeningInvariant, PTL DEF Spec, DeadStaysDead

=============================================================================
