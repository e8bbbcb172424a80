-------------------------- MODULE PortfolioProofs --------------------------
(***************************************************************************)
(* Theorems about the portfolio, for any tokens, prices, signals,          *)
(* deployments and crashes.  Each concern has an inductive invariant of    *)
(* its own over the few variables it is about; Signals is the one they     *)
(* share.                                                                  *)
(***************************************************************************)
EXTENDS Portfolio, FiniteSetTheorems, SequenceTheorems, TLAPS

Posting == {"posting", "broadcasting"}

\* Which signals there are, and when one is being posted.
Signals ==
    /\ signals \in Seq([token : Token, price : Price])
    /\ Len(signals) <= MaxSignals
    /\ current \in DOMAIN signals \cup {NoSignal}
    /\ pc \in PC
    /\ pc \in Posting <=> current # NoSignal

LEMMA SignalsInit == Init => Signals
BY PortfolioConstants DEF Init, Signals, Posting, PC, NoSignal

LEMMA SignalsStep == Signals /\ [Next]_vars => Signals'
<1> SUFFICES ASSUME Signals, [Next]_vars PROVE Signals'
  OBVIOUS
<1> USE PortfolioConstants DEF Signals, Posting, PC, NoSignal
<1>1. CASE Fire
  <2>1. PICK t \in Token, p \in Price :
            /\ signals' = Append(signals, [token |-> t, price |-> p])
            /\ \/ pc' = "posting" /\ current' = Len(signals) + 1
               \/ UNCHANGED <<pc, current>>
    BY <1>1 DEF Fire
  <2> QED BY <1>1, <2>1 DEF Fire
<1>2. CASE Buy
  BY <1>2 DEF Buy, cycleVars
<1>3. CASE PostCard
  BY <1>3 DEF PostCard
<1>4. CASE Track
  BY <1>4 DEF Track
<1>5. CASE PostFails
  BY <1>5 DEF PostFails
<1>6. CASE Review
  BY <1>6 DEF Review
<1>7. CASE ReadBalance
  BY <1>7 DEF ReadBalance, cycleVars
<1>8. CASE ScanEnds
  BY <1>8 DEF ScanEnds
<1>9. CASE PriceHolding
  BY <1>9 DEF PriceHolding, cycleVars
<1>10. CASE CloseGone
  BY <1>10 DEF CloseGone
<1>11. CASE CheckExits
  BY <1>11 DEF CheckExits
<1>12. CASE Mark
  BY <1>12 DEF Mark, cycleVars
<1>13. CASE CycleEnds
  BY <1>13 DEF CycleEnds
<1>14. CASE Sell
  BY <1>14 DEF Sell, cycleVars
<1>15. CASE Save
  BY <1>15 DEF Save, cycleVars
<1>16. CASE Restart
  BY <1>16 DEF Restart
<1>17. CASE UNCHANGED vars
  BY <1>17 DEF vars, cycleVars
<1> QED
  BY <1>1, <1>2, <1>3, <1>4, <1>5, <1>6, <1>7, <1>8, <1>9, <1>10, <1>11, <1>12,
     <1>13, <1>14, <1>15, <1>16, <1>17 DEF Next, Cycle
-----------------------------------------------------------------------------
(* What was bought is watched. *)

\* The wallet tracker knows the token of s, or the cycle that would tell it
\* has not come to it, or never will.
Covered(s) == s = current \/ s \in untracked \/ Contains(tracked, TokenOf(s))

Watched ==
    /\ tracked \in Seq(Token)
    /\ stateFile.tracked \in Seq(Token)
    /\ carded \cup bought \subseteq DOMAIN signals
    /\ \A s \in carded \cup bought : Covered(s)

LEMMA WatchedInit == Init => Watched
BY DEF Init, Watched

\* Appending to the tracked tokens forgets none and adds the new one.
LEMMA AppendContains ==
    ASSUME NEW seq \in Seq(Token), NEW t \in Token
    PROVE  /\ Contains(Append(seq, t), t)
           /\ \A u : Contains(seq, u) => Contains(Append(seq, t), u)
<1>1. Contains(Append(seq, t), t)
  BY Append(seq, t)[Len(seq) + 1] = t, Len(Append(seq, t)) = Len(seq) + 1 DEF Contains
<1>2. ASSUME NEW u, Contains(seq, u) PROVE Contains(Append(seq, t), u)
  <2>1. PICK i \in 1..Len(seq) : seq[i] = u
    BY <1>2 DEF Contains
  <2> QED BY <2>1, Append(seq, t)[i] = u, Len(Append(seq, t)) = Len(seq) + 1 DEF Contains
<1> QED BY <1>1, <1>2

LEMMA WatchedStep == Signals /\ Watched /\ [Next]_vars => Watched'
<1> SUFFICES ASSUME Signals, Watched, [Next]_vars PROVE Watched'
  OBVIOUS
<1> USE DEF Watched, Covered, TokenOf
<1>1. CASE Fire
  <2>1. PICK t \in Token, p \in Price :
            signals' = Append(signals, [token |-> t, price |-> p])
    BY <1>1 DEF Fire
  <2>2. DOMAIN signals \subseteq DOMAIN signals'
        /\ \A s \in DOMAIN signals : signals'[s] = signals[s]
    BY <2>1 DEF Signals
  <2>3. current = NoSignal /\ NoSignal \notin DOMAIN signals
    BY <1>1 DEF Fire, Signals, Posting, NoSignal
  <2>4. UNCHANGED <<tracked, stateFile, carded, bought, untracked>>
    BY <1>1 DEF Fire, diskVars, tradeVars
  <2> QED BY <2>2, <2>3, <2>4
<1>2. CASE Buy
  <2>1. PICK s \in carded \cup (IF pc = "posting" /\ deployment.auto THEN {current} ELSE {}) :
            bought' = bought \cup {s}
    BY <1>2 DEF Buy
  <2>2. s \in DOMAIN signals /\ Covered(s)
    BY <2>1 DEF Signals, Posting
  <2>3. UNCHANGED <<tracked, stateFile, carded, signals, untracked, current>>
    BY <1>2 DEF Buy, diskVars, cycleVars
  <2> QED BY <2>1, <2>2, <2>3
<1>3. CASE PostCard
  BY <1>3 DEF PostCard, Signals, Posting, tradeVars, diskVars
<1>4. CASE Track
  <2>1. TokenOf(current) \in Token
    <3>1. current \in DOMAIN signals
      BY <1>4 DEF Track, Signals, Posting
    <3>2. /\ signals \in Seq([token : Token, price : Price])
          /\ current \in 1..Len(signals)
      BY <3>1 DEF Signals
    <3>3. signals[current] \in [token : Token, price : Price]
      BY <3>2, ElementOfSeq
    <3> QED BY <3>3
  <2>2. /\ Contains(tracked', TokenOf(current))
        /\ \A u : Contains(tracked, u) => Contains(tracked', u)
        /\ tracked' \in Seq(Token)
    BY <1>4, <2>1, AppendContains DEF Track
  <2>3. UNCHANGED <<stateFile, carded, bought, signals, untracked>>
    BY <1>4 DEF Track, diskVars, tradeVars
  <2> QED BY <2>2, <2>3
<1>5. CASE PostFails
  BY <1>5 DEF PostFails, tradeVars, diskVars
<1>6. CASE Save
  <2>1. stateFile' = stateFile \/ stateFile'.tracked = tracked
    BY <1>6 DEF Save, Current
  <2> QED BY <1>6, <2>1 DEF Save, cycleVars, tradeVars
<1>7. CASE Restart
  BY <1>7 DEF Restart
<1>8. CASE \/ Review \/ ReadBalance \/ ScanEnds \/ PriceHolding \/ CloseGone
           \/ CheckExits \/ Mark \/ CycleEnds \/ Sell \/ UNCHANGED vars
  <2>1. UNCHANGED <<current, tracked, stateFile, carded, bought, signals, untracked>>
    BY <1>8 DEF Review, ReadBalance, ScanEnds, PriceHolding, CloseGone, CheckExits, Mark,
                CycleEnds, Sell, vars, cycleVars, tradeVars, diskVars
  <2> QED BY <2>1
<1> QED
  BY <1>1, <1>2, <1>3, <1>4, <1>5, <1>6, <1>7, <1>8 DEF Next, Cycle

\* Whatever was bought is watched once the cycle is done with it.
THEOREM BoughtIsTracked == Spec => []BuyIsTracked
<1>1. Watched => BuyIsTracked
  BY DEF Watched, Covered, BuyIsTracked
<1> QED
  BY SignalsInit, SignalsStep, WatchedInit, WatchedStep, <1>1, PTL DEF Spec
-----------------------------------------------------------------------------
(* The learned weights. *)

Calls(verdict) == {s \in Signal : call[s] = verdict}

\* Only a signal that fired and is no longer being posted has a call.
Learned ==
    /\ call \in [Signal -> Verdict]
    /\ weights \in [success : Nat, loss : Nat]
    /\ \A s \in Signal : call[s] # "none" => s \in DOMAIN signals \ {current}
    /\ CallsLearnOnce

LEMMA LearnedInit == Init => Learned
<1> SUFFICES ASSUME Init PROVE Learned
  OBVIOUS
<1>1. {s \in Signal : call[s] = "TP"} = {} /\ {s \in Signal : call[s] = "SL"} = {}
  BY DEF Init
<1>2. CallsLearnOnce
  BY <1>1, FS_EmptySet DEF Init, CallsLearnOnce
<1> QED BY <1>2 DEF Init, Learned, Verdict

\* A call that leaves OPEN for a verdict adds one to the calls of that verdict
\* and nothing to the others.
LEMMA VerdictCounts ==
    ASSUME call \in [Signal -> Verdict], NEW s \in Signal, call[s] = "OPEN",
           NEW v \in {"TP", "SL"}, call' = [call EXCEPT ![s] = v]
    PROVE  /\ Cardinality(Calls(v)') = Cardinality(Calls(v)) + 1
           /\ \A w \in {"TP", "SL"} \ {v} : Calls(w)' = Calls(w)
<1>1. Calls(v)' = Calls(v) \cup {s} /\ s \notin Calls(v)
  BY DEF Calls
<1>2. IsFiniteSet(Calls(v))
  <2>1. IsFiniteSet(Signal)
    BY PortfolioConstants, FS_Interval DEF Signal
  <2> QED BY <2>1, FS_Subset DEF Calls
<1>3. \A w \in {"TP", "SL"} \ {v} : Calls(w)' = Calls(w)
  BY DEF Calls
<1> QED BY <1>1, <1>2, <1>3, FS_AddElement

LEMMA LearnKeeps ==
    ASSUME Learned, NEW t, NEW p, Learn(t, p), UNCHANGED <<signals, current>>
    PROVE  Learned'
<1>1. CASE UNCHANGED learnVars
  BY <1>1 DEF Learned, CallsLearnOnce, learnVars
<1>2. ASSUME NEW s \in OpenCalls(t), call' = [call EXCEPT ![s] = "TP"],
             weights' = [weights EXCEPT !.success = @ + 1]
      PROVE  Learned'
  <2>1. Cardinality(Calls("TP")') = Cardinality(Calls("TP")) + 1 /\ Calls("SL")' = Calls("SL")
    BY <1>2, VerdictCounts DEF Learned, OpenCalls
  <2>2. CallsLearnOnce'
    BY <1>2, <2>1 DEF Learned, CallsLearnOnce, Calls
  <2> QED BY <1>2, <2>2 DEF Learned, OpenCalls, Verdict
<1>3. ASSUME NEW s \in OpenCalls(t), call' = [call EXCEPT ![s] = "SL"],
             weights' = [weights EXCEPT !.loss = @ + 1]
      PROVE  Learned'
  <2>1. Cardinality(Calls("SL")') = Cardinality(Calls("SL")) + 1 /\ Calls("TP")' = Calls("TP")
    BY <1>3, VerdictCounts DEF Learned, OpenCalls
  <2>2. CallsLearnOnce'
    BY <1>3, <2>1 DEF Learned, CallsLearnOnce, Calls
  <2> QED BY <1>3, <2>2 DEF Learned, OpenCalls, Verdict
<1> QED BY <1>1, <1>2, <1>3 DEF Learn

LEMMA LearnedStep == Signals /\ Learned /\ [Next]_vars => Learned'
<1> SUFFICES ASSUME Signals, Learned, [Next]_vars PROVE Learned'
  OBVIOUS
<1>1. CASE Fire
  <2>1. PICK t \in Token, p \in Price :
            /\ signals' = Append(signals, [token |-> t, price |-> p])
            /\ current' \in {current, Len(signals) + 1}
    BY <1>1 DEF Fire
  <2>2. DOMAIN signals \subseteq DOMAIN signals' /\ Len(signals) + 1 \notin DOMAIN signals
    BY <2>1 DEF Signals
  <2>3. UNCHANGED <<call, weights>>
    BY <1>1 DEF Fire, learnVars
  <2> QED BY <2>1, <2>2, <2>3 DEF Learned, CallsLearnOnce
<1>2. CASE Track
  <2>1. current \in Signal /\ current \in DOMAIN signals /\ call[current] = "none"
    BY <1>2, PortfolioConstants DEF Track, Signals, Posting, Signal, Learned, NoSignal
  <2>2. call' = [call EXCEPT ![current] = "OPEN"] /\ UNCHANGED <<weights, signals>>
        /\ current' = NoSignal
    BY <1>2 DEF Track
  <2>3. Calls("TP")' = Calls("TP") /\ Calls("SL")' = Calls("SL")
    BY <2>1, <2>2 DEF Calls, Learned
  <2>4. NoSignal \notin DOMAIN signals
    BY DEF Signals, NoSignal
  <2> QED BY <2>1, <2>2, <2>3, <2>4 DEF Learned, CallsLearnOnce, Calls, Verdict
<1>3. CASE PriceHolding
  <2>1. UNCHANGED <<signals, current>>
    BY <1>3 DEF PriceHolding, cycleVars
  <2>2. UNCHANGED learnVars \/ \E p \in Price : Learn(Head(toPrice), p)
    BY <1>3 DEF PriceHolding
  <2>3. CASE UNCHANGED learnVars
    BY <2>1, <2>3 DEF Learned, CallsLearnOnce, learnVars
  <2> QED BY <2>1, <2>2, <2>3, LearnKeeps
<1>4. CASE PostFails \/ Restart
  <2>1. current' = NoSignal /\ UNCHANGED <<call, weights, signals>>
    BY <1>4 DEF PostFails, Restart, learnVars
  <2>2. NoSignal \notin DOMAIN signals
    BY DEF Signals, NoSignal
  <2> QED BY <2>1, <2>2 DEF Learned, CallsLearnOnce
<1>5. CASE \/ Buy \/ PostCard \/ Review \/ ReadBalance \/ ScanEnds \/ CloseGone
           \/ CheckExits \/ Mark \/ CycleEnds \/ Sell \/ Save \/ UNCHANGED vars
  <2>1. UNCHANGED <<call, weights, signals, current>>
    BY <1>5 DEF Buy, PostCard, Review, ReadBalance, ScanEnds, CloseGone, CheckExits, Mark,
                CycleEnds, Sell, Save, vars, cycleVars, learnVars
  <2> QED BY <2>1 DEF Learned, CallsLearnOnce
<1> QED
  BY <1>1, <1>2, <1>3, <1>4, <1>5 DEF Next, Cycle

\* The weights move exactly once for every call with a verdict.
THEOREM LearnedOnce == Spec => []CallsLearnOnce
<1>1. Learned => CallsLearnOnce
  BY DEF Learned
<1> QED
  BY SignalsInit, SignalsStep, LearnedInit, LearnedStep, <1>1, PTL DEF Spec
-----------------------------------------------------------------------------
(* Paper trades. *)

\* Only fired signals have a scorecard entry or a paper trade, and the cycle
\* marks only entries that are still OPEN.
Mirrored ==
    /\ card \in [Signal -> Verdict]
    /\ paper \in [Signal -> Verdict]
    /\ paperDb \in [Signal -> Verdict]
    /\ stateFile.card \in [Signal -> Verdict]
    /\ \A s \in Signal \ DOMAIN signals :
          /\ card[s] = "none" /\ stateFile.card[s] = "none"
          /\ paper[s] = "none" /\ paperDb[s] = "none"
    /\ toMark \subseteq {s \in DOMAIN signals \cap Signal : card[s] = "OPEN"}
    /\ PaperFollowsCard

LEMMA MirroredInit == Init => Mirrored
BY DEF Init, Mirrored, PaperFollowsCard, Verdict

LEMMA MirroredStep == Signals /\ Mirrored /\ [Next]_vars => Mirrored'
<1> SUFFICES ASSUME Signals, Mirrored, [Next]_vars PROVE Mirrored'
  OBVIOUS
<1> USE DEF Mirrored, PaperFollowsCard
<1>1. CASE Fire
  <2>1. PICK t \in Token, p \in Price, s \in {Len(signals) + 1} :
            /\ signals' = Append(signals, [token |-> t, price |-> p])
            /\ card' = [card EXCEPT ![s] = IF p > 0 THEN "OPEN" ELSE "none"]
            /\ \/ paper' = paper
               \/ p > 0 /\ paper' = [paper EXCEPT ![s] = "OPEN"]
    BY <1>1 DEF Fire, OpenTrade
  <2>2. s \in Signal /\ s \notin DOMAIN signals
    BY <1>1, <2>1, PortfolioConstants DEF Fire, OpenTrade, Signals, Signal
  <2>3. DOMAIN signals' = DOMAIN signals \cup {s}
    BY <2>1 DEF Signals
  <2>4. UNCHANGED <<paperDb, stateFile, torn, toMark>>
    BY <1>1 DEF Fire, OpenTrade, diskVars
  <2>5. card' \in [Signal -> Verdict] /\ paper' \in [Signal -> Verdict]
    BY <2>1, <2>2 DEF Verdict
  <2>6. \A u \in Signal \ {s} : card'[u] = card[u] /\ paper'[u] = paper[u]
    BY <2>1
  <2>7. paper'[s] \in {"none", card'[s]}
    BY <2>1, <2>2
  <2> QED BY <2>2, <2>3, <2>4, <2>5, <2>6, <2>7
<1>2. CASE CheckExits
  <2>1. /\ UNCHANGED <<card, paper, paperDb, stateFile, torn, signals>>
        /\ toMark' = {s \in Signal : card[s] = "OPEN"}
    BY <1>2 DEF CheckExits, diskVars
  <2> QED BY <2>1
<1>3. CASE Mark
  <2>1. PICK s \in toMark :
            /\ toMark' = toMark \ {s}
            /\ \/ UNCHANGED <<card, paper>>
               \/ \E p \in Price \ {0} :
                     /\ card' = [card EXCEPT ![s] = Marked(s, p)]
                     /\ paper' = [paper EXCEPT ![s] = ClosedPaper(s)]
    BY <1>3 DEF Mark
  <2>2. UNCHANGED <<paperDb, stateFile, torn, signals>>
    BY <1>3 DEF Mark, diskVars
  <2>3. CASE UNCHANGED <<card, paper>>
    BY <2>1, <2>2, <2>3
  <2>4. ASSUME NEW p \in Price, card' = [card EXCEPT ![s] = Marked(s, p)],
               paper' = [paper EXCEPT ![s] = ClosedPaper(s)]
        PROVE  Mirrored'
    <3>1. Marked(s, p) \in {"OPEN", "TP", "SL"}
      BY DEF Marked
    <3>2. card'[s] = Marked(s, p) /\ card[s] = "OPEN" /\ s \in Signal \cap DOMAIN signals
      BY <2>4
    <3>3. paper'[s] = IF paper[s] = "OPEN" THEN card'[s] ELSE paper[s]
      BY <2>4, <3>2 DEF ClosedPaper
    <3>4. card' \in [Signal -> Verdict] /\ paper' \in [Signal -> Verdict]
      BY <2>4, <3>1, <3>2 DEF ClosedPaper, Verdict
    <3>5. \A u \in Signal \ {s} : card'[u] = card[u] /\ paper'[u] = paper[u]
      BY <2>4
    <3> QED BY <2>1, <2>2, <3>2, <3>3, <3>4, <3>5
  <2> QED BY <2>1, <2>3, <2>4
<1>4. CASE Save
  <2>1. UNCHANGED <<card, paper, toMark, torn, signals>>
    BY <1>4 DEF Save, bookVars
  <2>2. stateFile' = stateFile \/ stateFile'.card = card
    BY <1>4 DEF Save, Current
  <2>3. paperDb' = paperDb \/ \E s \in Signal : paperDb' = [paperDb EXCEPT ![s] = paper[s]]
    BY <1>4 DEF Save
  <2>4. /\ paperDb' \in [Signal -> Verdict]
        /\ \A s \in Signal : paperDb'[s] # "none" => s \in DOMAIN signals
    BY <2>3
  <2> QED BY <2>1, <2>2, <2>4
<1>5. CASE Restart
  <2>1. paper' = IF deployment.db THEN paperDb ELSE [s \in Signal |-> "none"]
    BY <1>5 DEF Restart
  <2>2. /\ paper' \in [Signal -> Verdict]
        /\ \A s \in Signal : paper'[s] # "none" => s \in DOMAIN signals
    BY <2>1 DEF Verdict
  <2>3. /\ card' = stateFile.card
        /\ toMark' = {}
        /\ torn' = {s \in Signal : paper'[s] # card'[s]}
        /\ UNCHANGED <<paperDb, stateFile, signals>>
    BY <1>5 DEF Restart
  <2> QED BY <2>2, <2>3
<1>6. CASE \/ Buy \/ PostCard \/ Track \/ PostFails \/ Review \/ ReadBalance \/ ScanEnds
           \/ PriceHolding \/ CloseGone \/ CycleEnds \/ Sell \/ UNCHANGED vars
  <2>1. UNCHANGED <<card, paper, toMark, paperDb, stateFile, torn, signals>>
    BY <1>6 DEF Buy, PostCard, Track, PostFails, Review, ReadBalance, ScanEnds,
                PriceHolding, CloseGone, CycleEnds, Sell, vars, bookVars, diskVars
  <2> QED BY <2>1
<1> QED
  BY <1>1, <1>2, <1>3, <1>4, <1>5, <1>6 DEF Next, Cycle

\* A paper trade has the verdict of its scorecard entry, but for a crash.
THEOREM PaperIsMirrored == Spec => []PaperFollowsCard
<1>1. Mirrored => PaperFollowsCard
  BY DEF Mirrored
<1> QED
  BY SignalsInit, SignalsStep, MirroredInit, MirroredStep, <1>1, PTL DEF Spec
-----------------------------------------------------------------------------
(* The wallet sync. *)

\* No token twice.
Distinct(seq) == \A i, j \in 1..Len(seq) : seq[i] = seq[j] => i = j

\* The sync walks the tracked tokens once: what it has found held, and what it
\* has still to read, are different tokens; what it is about to price and was no
\* position when the scan ended still is none.
Synced ==
    /\ crashes \in Nat
    /\ position \in [Token -> Position \cup {None}]
    /\ stateFile.position \in [Token -> Position \cup {None}]
    /\ tracked \in Seq(Token) /\ Distinct(tracked)
    /\ stateFile.tracked \in Seq(Token) /\ Distinct(stateFile.tracked)
    /\ toRead \in Seq(Token) /\ Distinct(toRead)
    /\ holdings \in Seq(Token) /\ Distinct(holdings)
    /\ toPrice \in Seq(Token) /\ Distinct(toPrice)
    /\ \A i \in 1..Len(toRead), j \in 1..Len(holdings) : toRead[i] # holdings[j]
    /\ \A i \in 1..Len(toPrice) : toPrice[i] \in active \/ position[toPrice[i]] = None
    /\ pc # "scanning" => toRead = <<>>
    /\ pc # "pricing" => toPrice = <<>>
    /\ pc \notin {"scanning", "pricing"} => holdings = <<>>
    /\ pc = "pricing" => active \subseteq Positions

LEMMA SyncedInit == Init => Synced
BY DEF Init, Synced, Distinct, Positions

\* An update keeps a position one, with its entry, and takes nothing back.
LEMMA UpdateAdvances ==
    ASSUME NEW pos \in Position, NEW p
    PROVE  /\ Updated(pos, p) \in Position
           /\ Updated(pos, p).entry = pos.entry
           /\ Updated(pos, p).tight = pos.tight
           /\ pos.tp100 => Updated(pos, p).tp100
           /\ pos.tp200 => Updated(pos, p).tp200
<1> DEFINE high == Rises(p, pos.entry, 3, 1) /\ ~pos.tp200
           low == Rises(p, pos.entry, 2, 1) /\ ~pos.tp100
<1>1. CASE high
  BY <1>1 DEF Updated, Position
<1>2. CASE ~high /\ low
  BY <1>2 DEF Updated, Position
<1>3. CASE ~high /\ ~low
  BY <1>3 DEF Updated
<1> QED BY <1>1, <1>2, <1>3

\* What is left of a distinct sequence is distinct and without its head.
LEMMA TailDistinct ==
    ASSUME NEW S, NEW seq \in Seq(S), seq # <<>>, Distinct(seq)
    PROVE  /\ Head(seq) \in S /\ Head(seq) = seq[1]
           /\ Tail(seq) \in Seq(S) /\ Len(Tail(seq)) = Len(seq) - 1
           /\ \A i \in 1..Len(Tail(seq)) : Tail(seq)[i] = seq[i + 1] /\ i + 1 \in 1..Len(seq)
           /\ Distinct(Tail(seq))
           /\ \A i \in 1..Len(Tail(seq)) : Tail(seq)[i] # Head(seq)
<1>1. /\ Head(seq) \in S /\ Head(seq) = seq[1] /\ 1 \in 1..Len(seq)
      /\ Tail(seq) \in Seq(S) /\ Len(Tail(seq)) = Len(seq) - 1
      /\ \A i \in 1..Len(Tail(seq)) : Tail(seq)[i] = seq[i + 1] /\ i + 1 \in 1..Len(seq)
  BY HeadTailProperties, ElementOfSeq, EmptySeq
<1> QED BY <1>1 DEF Distinct

\* A distinct sequence stays distinct when something it lacks is appended.
LEMMA AppendDistinct ==
    ASSUME NEW S, NEW seq \in Seq(S), Distinct(seq), NEW e \in S,
           \A i \in 1..Len(seq) : seq[i] # e
    PROVE  /\ Append(seq, e) \in Seq(S) /\ Distinct(Append(seq, e))
           /\ Len(Append(seq, e)) = Len(seq) + 1
           /\ \A i \in 1..Len(seq) : Append(seq, e)[i] = seq[i]
           /\ Append(seq, e)[Len(seq) + 1] = e
BY AppendProperties DEF Distinct

LEMMA SyncedStep == Signals /\ Synced /\ [Next]_vars => Synced'
<1> SUFFICES ASSUME Signals, Synced, [Next]_vars PROVE Synced'
  OBVIOUS
<1>1. CASE Track
  <2>1. TokenOf(current) \in Token
    <3>1. signals \in Seq([token : Token, price : Price]) /\ current \in 1..Len(signals)
      BY <1>1 DEF Track, Signals, Posting
    <3>2. signals[current] \in [token : Token, price : Price]
      BY <3>1, ElementOfSeq
    <3> QED BY <3>2 DEF TokenOf
  <2>2. tracked' \in Seq(Token) /\ Distinct(tracked')
    <3>1. CASE Contains(tracked, TokenOf(current))
      BY <1>1, <3>1 DEF Track, Synced
    <3>2. CASE ~Contains(tracked, TokenOf(current))
      <4>1. \A i \in 1..Len(tracked) : tracked[i] # TokenOf(current)
        BY <3>2 DEF Contains
      <4>2. tracked' = Append(tracked, TokenOf(current))
        BY <1>1, <3>2 DEF Track
      <4> QED BY <2>1, <4>1, <4>2, AppendDistinct DEF Synced
    <3> QED BY <3>1, <3>2
  <2>3. /\ UNCHANGED <<crashes, position, stateFile, toRead, holdings, toPrice, active>>
        /\ pc = "broadcasting" /\ pc' = "signals"
    BY <1>1 DEF Track, diskVars, scanVars
  <2> QED BY <2>2, <2>3 DEF Synced
<1>2. CASE Review
  <2>1. /\ UNCHANGED <<crashes, position, stateFile, holdings, toPrice, active, tracked>>
        /\ pc = "signals" /\ pc' = "scanning" /\ toRead' = tracked
    BY <1>2 DEF Review
  <2>2. holdings = <<>> /\ toPrice = <<>>
    BY <2>1 DEF Synced
  <2> QED BY <2>1, <2>2 DEF Synced
<1>3. CASE ReadBalance
  <2>1. /\ UNCHANGED <<crashes, position, stateFile, toPrice, active, tracked, pc>>
        /\ pc = "scanning" /\ toRead # <<>> /\ toRead' = Tail(toRead)
        /\ holdings' = holdings \/ holdings' = Append(holdings, Head(toRead))
    BY <1>3 DEF ReadBalance, diskVars, cycleVars
  <2>2. toRead \in Seq(Token) /\ Distinct(toRead)
    BY DEF Synced
  <2>3. /\ Head(toRead) \in Token /\ Head(toRead) = toRead[1] /\ 1 \in 1..Len(toRead)
        /\ toRead' \in Seq(Token) /\ Distinct(toRead')
        /\ \A i \in 1..Len(toRead') : toRead'[i] = toRead[i + 1] /\ i + 1 \in 1..Len(toRead)
        /\ \A i \in 1..Len(toRead') : toRead'[i] # Head(toRead)
    BY <2>1, <2>2, TailDistinct, EmptySeq
  <2>4. CASE holdings' = holdings
    <3>1. \A i \in 1..Len(toRead'), j \in 1..Len(holdings') : toRead'[i] # holdings'[j]
      <4> SUFFICES ASSUME NEW i \in 1..Len(toRead'), NEW j \in 1..Len(holdings)
                   PROVE  toRead'[i] # holdings[j]
        BY <2>4, Zenon
      <4>1. toRead'[i] = toRead[i + 1] /\ i + 1 \in 1..Len(toRead)
        BY <2>3, Zenon
      <4>2. toRead[i + 1] # holdings[j]
        BY <4>1, Zenon DEF Synced
      <4> QED BY <4>1, <4>2, Zenon
    <3> QED BY <2>1, <2>3, <2>4, <3>1 DEF Synced
  <2>5. CASE holdings' = Append(holdings, Head(toRead))
    <3>1. \A i \in 1..Len(holdings) : holdings[i] # Head(toRead)
      BY <2>3 DEF Synced
    <3>2. holdings \in Seq(Token) /\ Distinct(holdings)
      BY DEF Synced
    <3>3. /\ holdings' \in Seq(Token) /\ Distinct(holdings')
          /\ Len(holdings') = Len(holdings) + 1
          /\ \A i \in 1..Len(holdings) : holdings'[i] = holdings[i]
          /\ holdings'[Len(holdings) + 1] = Head(toRead)
      BY <2>3, <2>5, <3>1, <3>2, AppendDistinct
    <3>4. \A i \in 1..Len(toRead'), j \in 1..Len(holdings') : toRead'[i] # holdings'[j]
      <4> SUFFICES ASSUME NEW i \in 1..Len(toRead'), NEW j \in 1..Len(holdings')
                   PROVE  toRead'[i] # holdings'[j]
        OBVIOUS
      <4>1. CASE j = Len(holdings) + 1
        BY <2>3, <3>3, <4>1
      <4>2. CASE j \in 1..Len(holdings)
        <5>1. toRead'[i] = toRead[i + 1] /\ i + 1 \in 1..Len(toRead)
          BY <2>3, Zenon
        <5>2. toRead[i + 1] # holdings[j]
          BY <4>2, <5>1, Zenon DEF Synced
        <5>3. holdings'[j] = holdings[j]
          BY <3>3, <4>2, Zenon
        <5> QED BY <5>1, <5>2, <5>3, Zenon
      <4> QED BY <3>2, <3>3, <4>1, <4>2, LenProperties
    <3> QED BY <2>1, <2>3, <3>3, <3>4 DEF Synced
  <2> QED BY <2>1, <2>4, <2>5
<1>4. CASE ScanEnds
  <2>1. /\ UNCHANGED <<crashes, position, stateFile, toRead, holdings, tracked>>
        /\ pc = "scanning" /\ pc' = "pricing" /\ toRead = <<>>
        /\ toPrice' = holdings /\ active' = Positions
    BY <1>4 DEF ScanEnds, diskVars
  <2>2. \A i \in 1..Len(holdings) : holdings[i] \in Positions \/ position[holdings[i]] = None
    BY ElementOfSeq DEF Synced, Positions
  <2>3. Positions' = Positions
    BY <2>1 DEF Positions
  <2> QED BY <2>1, <2>2, <2>3 DEF Synced
<1>5. CASE PriceHolding
  <2> DEFINE t == Head(toPrice)
  <2>1. /\ UNCHANGED <<crashes, stateFile, toRead, holdings, active, tracked, pc>>
        /\ pc = "pricing" /\ toPrice # <<>> /\ toPrice' = Tail(toPrice)
    BY <1>5 DEF PriceHolding, diskVars, cycleVars
  <2>2. toPrice \in Seq(Token) /\ Distinct(toPrice)
    BY DEF Synced
  <2>3. /\ t \in Token
        /\ toPrice' \in Seq(Token) /\ Distinct(toPrice')
        /\ \A i \in 1..Len(toPrice') : toPrice'[i] = toPrice[i + 1] /\ i + 1 \in 1..Len(toPrice)
        /\ \A i \in 1..Len(toPrice') : toPrice'[i] # t
    BY <2>1, <2>2, TailDistinct
  <2>4. /\ position' \in [Token -> Position \cup {None}]
        /\ \A u \in Token \ {t} : position'[u] = position[u]
        /\ t \in active => position'[t] # None
    <3>1. CASE position' = position
      BY <2>1, <3>1 DEF Synced, Positions
    <3>2. ASSUME NEW p \in Price,
                 position' = [position EXCEPT ![t] = [entry |-> p, tp100 |-> FALSE,
                                  tp200 |-> FALSE, tight |-> FALSE]]
          PROVE  <2>4!:
      <4>1. [entry |-> p, tp100 |-> FALSE, tp200 |-> FALSE, tight |-> FALSE] \in Position
            /\ None \notin Position
        BY PortfolioConstants DEF Position
      <4> QED BY <2>3, <3>2, <4>1 DEF Synced
    <3>3. ASSUME NEW p \in Price, t \in active,
                 position' = [position EXCEPT ![t] = Updated(@, p)]
          PROVE  <2>4!:
      <4>1. position[t] \in Position
        BY <2>1, <3>3 DEF Synced, Positions
      <4>2. Updated(position[t], p) \in Position /\ None \notin Position
        BY <4>1, UpdateAdvances, PortfolioConstants DEF Position
      <4> QED BY <2>3, <3>3, <4>2 DEF Synced
    <3> QED BY <1>5, <3>1, <3>2, <3>3 DEF PriceHolding
  <2>5. \A i \in 1..Len(toPrice') : toPrice'[i] \in active \/ position'[toPrice'[i]] = None
    <3> SUFFICES ASSUME NEW i \in 1..Len(toPrice')
                 PROVE  toPrice'[i] \in active \/ position'[toPrice'[i]] = None
      OBVIOUS
    <3>1. toPrice'[i] \in Token \ {t}
      BY <2>3, ElementOfSeq
    <3>2. toPrice[i + 1] \in active \/ position[toPrice[i + 1]] = None
      BY <2>3 DEF Synced
    <3>3. toPrice'[i] = toPrice[i + 1]
      BY <2>3
    <3> QED BY <2>4, <3>1, <3>2, <3>3
  <2>6. active \subseteq Positions'
    BY <2>1, <2>4 DEF Synced, Positions
  <2> QED BY <2>1, <2>3, <2>4, <2>5, <2>6 DEF Synced
<1>6. CASE CloseGone
  <2>1. /\ UNCHANGED <<crashes, stateFile, toRead, toPrice, active, tracked>>
        /\ pc = "pricing" /\ pc' = "exits" /\ toPrice = <<>> /\ holdings' = <<>>
        /\ position' = [t \in Token |-> IF t \in Gone THEN None ELSE position[t]]
    BY <1>6 DEF CloseGone, diskVars
  <2>2. position' \in [Token -> Position \cup {None}]
    BY <2>1 DEF Synced
  <2> QED BY <2>1, <2>2, EmptySeq DEF Synced, Distinct
<1>7. CASE CheckExits
  <2>1. /\ UNCHANGED <<crashes, stateFile, toRead, toPrice, holdings, tracked>>
        /\ pc = "exits" /\ pc' = "marking"
        /\ position' = [t \in Token |->
              IF t \in exitAlerts' \cap Positions THEN [position[t] EXCEPT !.tight = TRUE]
              ELSE position[t]]
    BY <1>7 DEF CheckExits, diskVars
  <2>2. position' \in [Token -> Position \cup {None}]
    <3> SUFFICES ASSUME NEW t \in Token, t \in Positions
                 PROVE  [position[t] EXCEPT !.tight = TRUE] \in Position
      BY <2>1 DEF Synced
    <3>1. position[t] \in Position
      BY DEF Synced, Positions
    <3> QED BY <3>1 DEF Position
  <2>3. toPrice = <<>>
    BY <2>1 DEF Synced
  <2> QED BY <2>1, <2>2, <2>3 DEF Synced
<1>8. CASE Save
  <2>1. UNCHANGED <<crashes, position, toRead, holdings, toPrice, active, tracked, pc>>
    BY <1>8 DEF Save, scanVars, cycleVars
  <2>2. \/ stateFile' = stateFile
        \/ stateFile'.position = position /\ stateFile'.tracked = tracked
    BY <1>8 DEF Save, Current
  <2> QED BY <2>1, <2>2 DEF Synced, Positions
<1>9. CASE Restart
  BY <1>9, EmptySeq DEF Restart, Synced, Distinct
<1>10. CASE \/ Fire \/ Buy \/ PostCard \/ PostFails \/ Mark \/ CycleEnds \/ Sell
            \/ UNCHANGED vars
  <2>1. /\ UNCHANGED <<crashes, position, stateFile, toRead, holdings, toPrice, active, tracked>>
        /\ pc' = pc \/ {pc, pc'} \subseteq PC \ {"scanning", "pricing"}
    BY <1>10 DEF Fire, Buy, PostCard, PostFails, Mark, CycleEnds, Sell, vars, diskVars,
                 scanVars, cycleVars, PC
  <2> QED BY <2>1 DEF Synced, Positions
<1> QED
  BY <1>1, <1>2, <1>3, <1>4, <1>5, <1>6, <1>7, <1>8, <1>9, <1>10 DEF Next, Cycle

\* No step of the process takes anything back from a position that lives.
LEMMA AdvanceStep ==
    ASSUME Synced, [Next]_vars, crashes' = crashes, NEW t \in Token,
           position[t] # None, position'[t] # None
    PROVE  /\ position'[t].entry = position[t].entry
           /\ position[t].tp100 => position'[t].tp100
           /\ position[t].tp200 => position'[t].tp200
           /\ position[t].tight => position'[t].tight
<1>1. position[t] \in Position
  BY DEF Synced
<1>2. CASE PriceHolding
  <2> DEFINE h == Head(toPrice)
  <2>1. pc = "pricing" /\ toPrice # <<>>
    BY <1>2 DEF PriceHolding
  <2>2. h = toPrice[1] /\ 1 \in 1..Len(toPrice)
    BY <2>1, HeadTailProperties, EmptySeq DEF Synced
  <2>3. h \in active \/ position[h] = None
    BY <2>2 DEF Synced
  <2>4. CASE t # h
    BY <1>1, <1>2, <2>4 DEF PriceHolding, Synced
  <2>5. CASE t = h
    <3>1. \/ position' = position
          \/ \E p \in Price : position' = [position EXCEPT ![h] = Updated(@, p)]
      BY <1>2, <2>3, <2>5 DEF PriceHolding
    <3>2. ASSUME NEW p \in Price, position' = [position EXCEPT ![h] = Updated(@, p)]
          PROVE  position'[t] = Updated(position[t], p)
      BY <2>5, <3>2 DEF Synced
    <3> QED BY <1>1, <3>1, <3>2, UpdateAdvances
  <2> QED BY <2>4, <2>5
<1>3. CASE CloseGone
  BY <1>3 DEF CloseGone
<1>4. CASE CheckExits
  BY <1>1, <1>4 DEF CheckExits, Position
<1>5. CASE Restart
  BY <1>5 DEF Restart, Synced
<1>6. CASE \/ Fire \/ Buy \/ PostCard \/ Track \/ PostFails \/ Review \/ ReadBalance
           \/ ScanEnds \/ Mark \/ CycleEnds \/ Sell \/ Save \/ UNCHANGED vars
  BY <1>6 DEF Fire, Buy, PostCard, Track, PostFails, Review, ReadBalance, ScanEnds, Mark,
              CycleEnds, Sell, Save, vars
<1> QED BY <1>2, <1>3, <1>4, <1>5, <1>6 DEF Next, Cycle

\* A position that lives keeps its entry, its milestones and its tightened stop.
THEOREM PositionAdvances == Spec => PositionOnlyAdvances
<1>1. Synced /\ [Next]_vars =>
        \A t \in Token :
          position[t] # None /\ position'[t] # None /\ crashes' = crashes =>
              /\ position'[t].entry = position[t].entry
              /\ position[t].tp100 => position'[t].tp100
              /\ position[t].tp200 => position'[t].tp200
              /\ position[t].tight => position'[t].tight
  BY AdvanceStep
<1> QED
  BY SignalsInit, SignalsStep, SyncedInit, SyncedStep, <1>1, PTL
     DEF Spec, PositionOnlyAdvances
-----------------------------------------------------------------------------
(* The close of a position. *)

\* What the sync has read as zero has been bought since if it is held now.
ZeroIsCurrent == zero \cap held \subseteq boughtSince

LEMMA ZeroInit == Init => ZeroIsCurrent
BY DEF Init, ZeroIsCurrent

LEMMA ZeroStep == ZeroIsCurrent /\ [Next]_vars => ZeroIsCurrent'
<1> SUFFICES ASSUME ZeroIsCurrent, [Next]_vars PROVE ZeroIsCurrent'
  OBVIOUS
<1> USE DEF ZeroIsCurrent
<1>1. CASE Buy
  BY <1>1 DEF Buy, scanVars
<1>2. CASE ReadBalance
  BY <1>2 DEF ReadBalance, tradeVars
<1>3. CASE CloseGone \/ Restart
  BY <1>3 DEF CloseGone, Restart
<1>4. CASE Sell
  BY <1>4 DEF Sell, scanVars
<1>5. CASE \/ Fire \/ PostCard \/ Track \/ PostFails \/ Review \/ ScanEnds \/ PriceHolding
           \/ CheckExits \/ Mark \/ CycleEnds \/ Save \/ UNCHANGED vars
  <2>1. UNCHANGED <<zero, held, boughtSince>>
    BY <1>5 DEF Fire, PostCard, Track, PostFails, Review, ScanEnds, PriceHolding, CheckExits,
                Mark, CycleEnds, Save, vars, scanVars, tradeVars
  <2> QED BY <2>1
<1> QED BY <1>1, <1>2, <1>3, <1>4, <1>5 DEF Next, Cycle

LEMMA CloseStep ==
    ASSUME Synced, ZeroIsCurrent, [Next]_vars, crashes' = crashes, NEW t \in Token,
           \/ position[t] # None /\ position'[t] = None
           \/ t \in openEntry \ openEntry'
    PROVE  t \notin held \/ t \in boughtSince
<1>1. CASE PriceHolding
  <2>1. openEntry' = openEntry
    BY <1>1 DEF PriceHolding, tradeVars
  <2> DEFINE h == Head(toPrice)
  <2>2. PICK p \in Price :
            \/ position' = position
            \/ position' = [position EXCEPT ![h] = [entry |-> p, tp100 |-> FALSE,
                                                    tp200 |-> FALSE, tight |-> FALSE]]
            \/ position' = [position EXCEPT ![h] = Updated(@, p)]
    BY <1>1, <2>1 DEF PriceHolding
  <2>3. position[t] \in Position /\ None \notin Position
    BY <2>1, PortfolioConstants DEF Synced, Position
  <2>4. [entry |-> p, tp100 |-> FALSE, tp200 |-> FALSE, tight |-> FALSE] \in Position
        /\ Updated(position[t], p) \in Position
    BY <2>3, UpdateAdvances DEF Position
  <2> QED BY <2>1, <2>2, <2>3, <2>4 DEF Synced
<1>2. CASE CloseGone
  <2>1. t \in Gone
    BY <1>2 DEF CloseGone
  <2> QED BY <2>1 DEF Gone, ZeroIsCurrent
<1>3. CASE CheckExits
  <2>1. t \notin openEntry \ openEntry' /\ position[t] \in Position /\ None \notin Position
    BY <1>3, PortfolioConstants DEF CheckExits, tradeVars, Synced, Position
  <2>2. [position[t] EXCEPT !.tight = TRUE] \in Position
    BY <2>1 DEF Position
  <2> QED BY <1>3, <2>1, <2>2 DEF CheckExits
<1>4. CASE Restart
  BY <1>4 DEF Restart, Synced
<1>5. CASE \/ Fire \/ Buy \/ PostCard \/ Track \/ PostFails \/ Review \/ ReadBalance
           \/ ScanEnds \/ Mark \/ CycleEnds \/ Sell \/ Save \/ UNCHANGED vars
  BY <1>5 DEF Fire, Buy, PostCard, Track, PostFails, Review, ReadBalance, ScanEnds, Mark,
              CycleEnds, Sell, Save, vars, tradeVars
<1> QED BY <1>1, <1>2, <1>3, <1>4, <1>5 DEF Next, Cycle

\* Nothing is closed on a balance that was not read as zero.
THEOREM ClosedWasSold == Spec => CloseIsBacked
<1>1. Synced /\ ZeroIsCurrent /\ [Next]_vars =>
        \A t \in Token :
          /\ crashes' = crashes
          /\ \/ position[t] # None /\ position'[t] = None
             \/ t \in openEntry \ openEntry'
          => t \notin held \/ t \in boughtSince
  BY CloseStep
<1> QED
  BY SignalsInit, SignalsStep, SyncedInit, SyncedStep, ZeroInit, ZeroStep, <1>1, PTL
     DEF Spec, CloseIsBacked
-----------------------------------------------------------------------------
(* The end of an opportunity. *)

\* The fields of an opportunity; its state is whatever the walks leave.
Record(o) == [state |-> o.state, seen |-> o.seen, outcome |-> o.outcome]

Shaped ==
    /\ crashes \in Nat
    /\ opportunity = [t \in Token |-> Record(opportunity[t])]
    /\ ledgerFile = [t \in Token |-> Record(ledgerFile[t])]

LEMMA ShapedInit == Init => Shaped
BY DEF Init, Shaped, Record

\* The dispatch, the review and a position event leave what has ended.
LEMMA EndedStays ==
    ASSUME NEW state \in TERMINAL_STATES, NEW seen, NEW admits, NEW acts
    PROVE  /\ Dispatched(state) = state
           /\ Reviewed(state, seen, admits, acts) = state
           /\ PositionOpened(state) = state
           /\ PositionExited(state) = state
<1>1. Dispatched(state) = state
  BY DEF Dispatched, JoinsAt, TERMINAL_STATES
<1>2. Reviewed(state, seen, admits, acts) = state
  BY DEF Reviewed, TERMINAL_STATES
<1>3. PositionOpened(state) = state /\ PositionExited(state) = state
  BY DEF PositionOpened, PositionExited, CanMove
<1> QED BY <1>1, <1>2, <1>3

\* What the review makes of an opportunity.
ReviewOf(o, afterDispatch, acting) ==
    PostMortem([o EXCEPT !.state = Reviewed(afterDispatch, o.seen, FALSE, acting)])

\* Writing the state of an opportunity keeps its shape, its label and its
\* observation; the post-mortem keeps its state and a label it has.
LEMMA WithState ==
    ASSUME NEW o, o = Record(o), NEW x, NEW o2, o2 = [o EXCEPT !.state = x]
    PROVE  o2 = Record(o2) /\ o2.state = x /\ o2.outcome = o.outcome
BY DEF Record

LEMMA WithBoth ==
    ASSUME NEW o, o = Record(o), NEW x, NEW y
    PROVE  [[o EXCEPT !.state = x] EXCEPT !.seen = y]
               = [state |-> x, seen |-> y, outcome |-> o.outcome]
<1>1. [o EXCEPT !.state = x] = [state |-> x, seen |-> o.seen, outcome |-> o.outcome]
  <2>1. [[state |-> o.state, seen |-> o.seen, outcome |-> o.outcome] EXCEPT !.state = x]
            = [state |-> x, seen |-> o.seen, outcome |-> o.outcome]
    OBVIOUS
  <2> QED BY <2>1 DEF Record
<1>2. [[state |-> x, seen |-> o.seen, outcome |-> o.outcome] EXCEPT !.seen = y]
          = [state |-> x, seen |-> y, outcome |-> o.outcome]
  OBVIOUS
<1> QED BY <1>1, <1>2

LEMMA PostMortemKeeps ==
    ASSUME NEW o, o = Record(o)
    PROVE  /\ PostMortem(o) = Record(PostMortem(o))
           /\ PostMortem(o).state = o.state
           /\ o.outcome # "none" => PostMortem(o).outcome = o.outcome
BY DEF Record, PostMortem

\* One step for the opportunity of a token: its shape, and its end.
Ends(o, o2) ==
    /\ o2 = Record(o2)
    /\ o.state \in TERMINAL_STATES =>
           o2.state = o.state /\ (o.outcome # "none" => o2.outcome = o.outcome)

LEMMA EndsWithState ==
    ASSUME NEW o, o = Record(o), NEW x, o.state \in TERMINAL_STATES => x = o.state,
           NEW o2, o2 = o \/ o2 = [o EXCEPT !.state = x]
    PROVE  Ends(o, o2)
<1>1. CASE o2 = o
  BY <1>1 DEF Ends
<1>2. CASE o2 = [o EXCEPT !.state = x]
  BY <1>2, WithState DEF Ends
<1> QED BY <1>1, <1>2

LEMMA OpportunityStep ==
    ASSUME Shaped, [Next]_vars, crashes' = crashes
    PROVE  /\ opportunity' = [t \in Token |-> opportunity'[t]]
           /\ \A t \in Token : Ends(opportunity[t], opportunity'[t])
<1>0. \A t \in Token : opportunity[t] = Record(opportunity[t])
  BY DEF Shaped
<1>1. CASE Fire
  <2>1. PICK t \in Token, liquid \in BOOLEAN : Ingest(t, liquid)
    BY <1>1 DEF Fire
  <2> DEFINE x == IF opportunity[t].state = "unknown" THEN "FIRST_SEEN" ELSE opportunity[t].state
             y == opportunity[t].seen \/ liquid
  <2>2. opportunity' = [opportunity EXCEPT ![t].state = x, ![t].seen = y]
    BY <2>1 DEF Ingest
  <2>3. opportunity[t] = Record(opportunity[t])
    BY <1>0
  <2>4. opportunity' = [u \in Token |->
            IF u = t THEN [state |-> x, seen |-> y, outcome |-> opportunity[t].outcome]
            ELSE opportunity[u]]
    <3> DEFINE o == opportunity[t]
               o2 == [[o EXCEPT !.state = x] EXCEPT !.seen = y]
    <3>1. opportunity' = [opportunity EXCEPT ![t] = o2]
      BY <2>2 DEF Shaped
    <3>2. o2 = [state |-> x, seen |-> y, outcome |-> o.outcome]
      <4>1. o = Record(o)
        BY <2>3
      <4> HIDE DEF o, x, y
      <4> QED BY <4>1, WithBoth
    <3> HIDE DEF o2, x, y
    <3> QED BY <3>1, <3>2 DEF Shaped
  <2> QED BY <1>0, <2>4 DEF Ends, Record, TERMINAL_STATES
<1>2. CASE Review
  <2>1. PICK dispatched \in SUBSET batch, acting \in SUBSET Token :
          LET afterDispatch(t) == IF \E s \in dispatched : TokenOf(s) = t
                                  THEN Dispatched(opportunity[t].state)
                                  ELSE opportunity[t].state
          IN  opportunity' = [t \in Token |->
                  ReviewOf(opportunity[t], afterDispatch(t), t \in acting)]
    BY <1>2 DEF Review, ReviewOf
  <2>2. ASSUME NEW t \in Token
        PROVE  Ends(opportunity[t], opportunity'[t])
    <3> DEFINE o == opportunity[t]
               d == IF \E s \in dispatched : TokenOf(s) = t
                    THEN Dispatched(o.state) ELSE o.state
               r == Reviewed(d, o.seen, FALSE, t \in acting)
               o1 == [o EXCEPT !.state = r]
    <3>1. opportunity'[t] = PostMortem(o1)
      BY <2>1 DEF ReviewOf
    <3>2. /\ o1 = Record(o1) /\ o1.state = r /\ o1.outcome = o.outcome
      <4>1. o = Record(o)
        BY <1>0
      <4> HIDE DEF o, r
      <4> QED BY <4>1, WithState
    <3>3. /\ PostMortem(o1) = Record(PostMortem(o1))
          /\ PostMortem(o1).state = r
          /\ o.outcome # "none" => PostMortem(o1).outcome = o.outcome
      <4> HIDE DEF o1
      <4> QED BY <3>2, PostMortemKeeps
    <3>4. ASSUME o.state \in TERMINAL_STATES PROVE r = o.state
      <4>1. d = o.state
        BY <3>4, EndedStays
      <4> HIDE DEF d
      <4> QED BY <3>4, <4>1 DEF Reviewed, TERMINAL_STATES
    <3> QED BY <3>1, <3>3, <3>4 DEF Ends
  <2>3. opportunity' = [t \in Token |-> opportunity'[t]]
    BY <2>1
  <2> QED BY <2>2, <2>3
<1>3. CASE PriceHolding
  <2> DEFINE h == Head(toPrice)
  <2>1. \/ opportunity' = opportunity
        \/ opportunity' = [opportunity EXCEPT ![h].state = PositionOpened(@)]
    BY <1>3 DEF PriceHolding
  <2>2. CASE opportunity' = opportunity
    BY <1>0, <2>2 DEF Ends, Shaped
  <2>3. CASE opportunity' = [opportunity EXCEPT ![h].state = PositionOpened(@)]
    <3>1. opportunity' = [u \in Token |->
              IF u = h THEN [opportunity[u] EXCEPT !.state = PositionOpened(opportunity[u].state)]
              ELSE opportunity[u]]
      BY <2>3 DEF Shaped
    <3>2. ASSUME NEW u \in Token
          PROVE  Ends(opportunity[u], opportunity'[u])
      <4> DEFINE o == opportunity[u]
                 o2 == opportunity'[u]
                 x == PositionOpened(o.state)
      <4>1. o.state \in TERMINAL_STATES => x = o.state
        BY EndedStays
      <4>2. o2 = o \/ o2 = [o EXCEPT !.state = x]
        BY <3>1
      <4>3. o = Record(o)
        BY <1>0
      <4> HIDE DEF o, o2, x
      <4>4. Ends(o, o2)
        BY <4>1, <4>2, <4>3, EndsWithState
      <4> QED BY <4>4 DEF o, o2
    <3> QED BY <3>1, <3>2
  <2> QED BY <2>1, <2>2, <2>3
<1>4. CASE CloseGone
  <2>1. opportunity' = [t \in Token |->
            IF t \in Gone
            THEN [opportunity[t] EXCEPT !.state = PositionExited(opportunity[t].state)]
            ELSE opportunity[t]]
    BY <1>4 DEF CloseGone
  <2>2. ASSUME NEW u \in Token
        PROVE  Ends(opportunity[u], opportunity'[u])
    <3> DEFINE o == opportunity[u]
               o2 == opportunity'[u]
               x == PositionExited(o.state)
    <3>1. o.state \in TERMINAL_STATES => x = o.state
      BY EndedStays
    <3>2. o2 = o \/ o2 = [o EXCEPT !.state = x]
      BY <2>1
    <3>3. o = Record(o)
      BY <1>0
    <3> HIDE DEF o, o2, x
    <3>4. Ends(o, o2)
      BY <3>1, <3>2, <3>3, EndsWithState
    <3> QED BY <3>4 DEF o, o2
  <2> QED BY <2>1, <2>2
<1>5. CASE Restart
  BY <1>5 DEF Restart, Shaped
<1>6. CASE \/ Buy \/ PostCard \/ Track \/ PostFails \/ ReadBalance \/ ScanEnds \/ CheckExits
           \/ Mark \/ CycleEnds \/ Sell \/ Save \/ UNCHANGED vars
  <2>1. opportunity' = opportunity
    BY <1>6 DEF Buy, PostCard, Track, PostFails, ReadBalance, ScanEnds, CheckExits, Mark,
                CycleEnds, Sell, Save, vars
  <2> QED BY <1>0, <2>1 DEF Ends, Shaped
<1> QED BY <1>1, <1>2, <1>3, <1>4, <1>5, <1>6 DEF Next, Cycle

LEMMA ShapedStep == Shaped /\ [Next]_vars => Shaped'
<1> SUFFICES ASSUME Shaped, [Next]_vars PROVE Shaped'
  OBVIOUS
<1>1. CASE Restart
  BY <1>1 DEF Restart, Shaped
<1>2. CASE ~Restart
  <2>1. crashes' = crashes
    BY <1>2 DEF Next, Cycle, Fire, Buy, PostCard, Track, PostFails, Review, ReadBalance,
                ScanEnds, PriceHolding, CloseGone, CheckExits, Mark, CycleEnds, Sell, Save,
                vars, diskVars
  <2>2. opportunity' = [t \in Token |-> Record(opportunity'[t])]
    BY <2>1, OpportunityStep DEF Ends
  <2>3. ledgerFile' \in {ledgerFile, opportunity, opportunity'}
    BY <1>2 DEF Next, Cycle, Fire, Buy, PostCard, Track, PostFails, Review, ReadBalance,
                ScanEnds, PriceHolding, CloseGone, CheckExits, Mark, CycleEnds, Sell, Save,
                vars, diskVars
  <2> QED BY <2>1, <2>2, <2>3 DEF Shaped
<1> QED BY <1>1, <1>2

\* What has ended stays ended, and its label is written once.
THEOREM EndedIsFinal == Spec => EndIsFinal
<1>1. Shaped /\ [Next]_vars =>
        \A t \in Token :
          opportunity[t].state \in TERMINAL_STATES /\ crashes' = crashes =>
              /\ opportunity'[t].state = opportunity[t].state
              /\ opportunity[t].outcome # "none" =>
                     opportunity'[t].outcome = opportunity[t].outcome
  BY OpportunityStep DEF Ends
<1> QED
  BY ShapedInit, ShapedStep, <1>1, PTL DEF Spec, EndIsFinal
-----------------------------------------------------------------------------
(* What an opportunity becomes, and its exit. *)

\* A walk ends where it began or at a state of its path.
LEMMA WalkStays ==
    ASSUME NEW S, NEW from \in S, NEW path \in Seq(S), Len(path) <= 6
    PROVE  Walk(from, path) \in {from} \cup {path[i] : i \in 1..Len(path)}
<1> DEFINE full == <<from>> \o path
           reached == {n \in 1..Len(full) :
                         \A i \in 1..(n - 1) : CanMove(full[i], full[i + 1])}
<1>1. /\ Len(full) = Len(path) + 1 /\ full[1] = from
      /\ \A n \in 2..Len(full) : full[n] = path[n - 1] /\ n - 1 \in 1..Len(path)
  OBVIOUS
<1>2. reached \subseteq 1..7 /\ 1 \in reached /\ reached \subseteq 1..Len(full)
  BY <1>1
<1>3. Max(reached) \in reached
  <2> HIDE DEF reached
  <2>1. \E m \in reached : \A n \in reached : m >= n
    BY <1>2
  <2> QED BY <2>1 DEF Max
<1>4. Walk(from, path) = full[Max(reached)]
  BY DEF Walk
<1>5. Max(reached) = 1 \/ Max(reached) \in 2..Len(full)
  <2>1. Len(full) \in Nat
    BY <1>1
  <2> HIDE DEF full, reached
  <2>2. Max(reached) \in 1..Len(full)
    BY <1>2, <1>3
  <2> QED BY <2>1, <2>2
<1> HIDE DEF full, reached
<1> QED BY <1>1, <1>4, <1>5

\* The states the ledger's writers leave an opportunity in; none but the position
\* manager's close reaches EXITED.
LEMMA DispatchStays ==
    ASSUME NEW state
    PROVE  Dispatched(state) \in {state} \cup (OppState \ {"EXITED"})
<1> SUFFICES ASSUME state \in DOMAIN JoinsAt
             PROVE  Dispatched(state) \in OppState \ {"EXITED"}
  BY DEF Dispatched
<1> DEFINE S == OppState \ {"EXITED"}
           path == SubSeq(DispatchWalk, JoinsAt[state], Len(DispatchWalk))
<1>1. DispatchWalk \in Seq(S) /\ Len(DispatchWalk) = 6
  BY DEF DispatchWalk, OppState
<1>2. state \in S /\ JoinsAt[state] \in 1..6
  BY DEF JoinsAt, OppState
<1>3. path \in Seq(S) /\ Len(path) <= 6
  <2>1. ASSUME NEW m \in 1..6
        PROVE  SubSeq(DispatchWalk, m, 6) \in Seq(S) /\ Len(SubSeq(DispatchWalk, m, 6)) <= 6
    <3> HIDE DEF S
    <3>1. \A i \in m..6 : DispatchWalk[i] \in S
      <4>1. \A i \in 1..6 : DispatchWalk[i] \in S
        BY <1>1, ElementOfSeq
      <4> QED BY <4>1
    <3>2. /\ SubSeq(DispatchWalk, m, 6) \in Seq(S)
          /\ Len(SubSeq(DispatchWalk, m, 6)) = IF m <= 6 THEN 6 - m + 1 ELSE 0
      BY <3>1, SubSeqProperties
    <3> QED BY <3>2
  <2> QED BY <1>1, <1>2, <2>1
<1>4. Walk(state, path) \in S
  <2> HIDE DEF path, S
  <2>1. Walk(state, path) \in {state} \cup {path[i] : i \in 1..Len(path)}
    BY <1>2, <1>3, WalkStays
  <2> QED BY <1>2, <1>3, <2>1, ElementOfSeq
<1> QED BY <1>4 DEF Dispatched

LEMMA StepStays ==
    ASSUME NEW from \in OppState, NEW to \in OppState
    PROVE  Walk(from, <<to>>) \in {from, to}
<1>1. <<to>> \in Seq(OppState) /\ Len(<<to>>) = 1 /\ <<to>>[1] = to
  OBVIOUS
<1> DEFINE path == <<to>>
<1> HIDE DEF path
<1>2. Walk(from, path) \in {from} \cup {path[i] : i \in 1..Len(path)}
  <2>1. path \in Seq(OppState) /\ Len(path) <= 6
    BY <1>1 DEF path
  <2> QED BY <2>1, WalkStays
<1>3. \A i \in 1..Len(path) : path[i] = to
  BY <1>1 DEF path
<1> QED BY <1>2, <1>3 DEF path

LEMMA ReviewStays ==
    ASSUME NEW state, NEW seen, NEW acts
    PROVE  Reviewed(state, seen, FALSE, acts) \in {state} \cup (OppState \ {"EXITED"})
<1>1. \A from, to \in OppState : Walk(from, <<to>>) \in {from, to}
  BY StepStays
<1>2. {"FIRST_SEEN", "RISK_REJECTED", "WATCHING", "ACCELERATING", "WATCH_TRIGGER", "EXPIRED"}
          \subseteq OppState \ {"EXITED"}
  BY DEF OppState
<1>3. \/ Reviewed(state, seen, FALSE, acts) = state
      \/ state = "FIRST_SEEN" /\ Reviewed(state, seen, FALSE, acts) = Walk("FIRST_SEEN", <<"RISK_REJECTED">>)
      \/ state = "WATCHING" /\ Reviewed(state, seen, FALSE, acts) = Walk("WATCHING", <<"ACCELERATING">>)
      \/ state = "ACCELERATING" /\ Reviewed(state, seen, FALSE, acts) = Walk("ACCELERATING", <<"WATCH_TRIGGER">>)
      \/ state = "RISK_REJECTED" /\ Reviewed(state, seen, FALSE, acts) = Walk("RISK_REJECTED", <<"EXPIRED">>)
  BY DEF Reviewed
<1> QED BY <1>1, <1>2, <1>3

OppStates == OppState \cup {"unknown"}

\* One step for the opportunity of a token whose position does, or does not,
\* close in it: its type, and its exit.
Exits(o, o2, closes) ==
    /\ o \in Opportunity => o2 \in Opportunity
    /\ o.state # "EXITED" /\ o2.state = "EXITED" => closes

LEMMA ExitsWithState ==
    ASSUME NEW o, o = Record(o), NEW x, NEW closes \in BOOLEAN,
           x \in {o.state} \cup (OppStates \ {"EXITED"}) \/ (x = "EXITED" /\ closes),
           NEW o2, o2 = o \/ o2 = [o EXCEPT !.state = x]
    PROVE  Exits(o, o2, closes)
<1>1. CASE o2 = o
  BY <1>1 DEF Exits
<1>2. CASE o2 = [o EXCEPT !.state = x]
  <2>1. o2.state = x
    BY <1>2, WithState
  <2>2. ASSUME o \in Opportunity PROVE o2 \in Opportunity
    <3>1. x \in OppStates
      BY <2>2 DEF OppStates, Opportunity, OppState
    <3> QED BY <1>2, <2>2, <3>1 DEF OppStates, Opportunity
  <2>3. o.state # "EXITED" /\ x = "EXITED" => closes
    OBVIOUS
  <2> QED BY <2>1, <2>2, <2>3 DEF Exits
<1> QED BY <1>1, <1>2

\* The post-mortem writes a label and leaves the state.
LEMMA PostMortemTyped ==
    ASSUME NEW o \in Opportunity
    PROVE  PostMortem(o) \in Opportunity
BY DEF PostMortem, Opportunity, Outcome

Closes(t) == position[t] # None /\ position'[t] = None

LEMMA ExitStep ==
    ASSUME Synced, Shaped, [Next]_vars, crashes' = crashes
    PROVE  \A t \in Token : Exits(opportunity[t], opportunity'[t], Closes(t))
<1>0. /\ \A t \in Token : opportunity[t] = Record(opportunity[t])
      /\ OppState \ {"EXITED"} \subseteq OppStates \ {"EXITED"}
      /\ \A t \in Token : Closes(t) \in BOOLEAN
  BY DEF Shaped, OppStates, Closes
<1>1. CASE Fire
  <2>1. PICK t \in Token, liquid \in BOOLEAN : Ingest(t, liquid)
    BY <1>1 DEF Fire
  <2> DEFINE x == IF opportunity[t].state = "unknown" THEN "FIRST_SEEN" ELSE opportunity[t].state
             y == opportunity[t].seen \/ liquid
             o == opportunity[t]
             o2 == [[o EXCEPT !.state = x] EXCEPT !.seen = y]
  <2>2. opportunity' = [opportunity EXCEPT ![t] = o2]
    BY <2>1 DEF Ingest, Shaped
  <2>3. o2 = [state |-> x, seen |-> y, outcome |-> o.outcome]
    <3>1. o = Record(o)
      BY <1>0
    <3> HIDE DEF o, x, y
    <3> QED BY <3>1, WithBoth
  <2>4. Exits(o, o2, Closes(t))
    <3>1. o \in Opportunity => x \in OppStates /\ y \in BOOLEAN /\ o.outcome \in Outcome
      BY DEF Opportunity, OppStates, OppState
    <3>2. o.state # "EXITED" => x # "EXITED"
      OBVIOUS
    <3> HIDE DEF o, x, y
    <3> QED BY <2>3, <3>1, <3>2 DEF Exits, Opportunity, OppStates
  <2>5. ASSUME NEW u \in Token, u # t PROVE Exits(opportunity[u], opportunity'[u], Closes(u))
    BY <2>2, <2>5 DEF Exits, Shaped
  <2>6. opportunity'[t] = o2
    <3> HIDE DEF o2
    <3> QED BY <2>2 DEF Shaped
  <2> QED BY <2>4, <2>5, <2>6
<1>2. CASE Review
  <2>1. PICK dispatched \in SUBSET batch, acting \in SUBSET Token :
          LET afterDispatch(t) == IF \E s \in dispatched : TokenOf(s) = t
                                  THEN Dispatched(opportunity[t].state)
                                  ELSE opportunity[t].state
          IN  opportunity' = [t \in Token |->
                  ReviewOf(opportunity[t], afterDispatch(t), t \in acting)]
    BY <1>2 DEF Review, ReviewOf
  <2> SUFFICES ASSUME NEW t \in Token
               PROVE  Exits(opportunity[t], opportunity'[t], Closes(t))
    OBVIOUS
  <2> DEFINE o == opportunity[t]
             d == IF \E s \in dispatched : TokenOf(s) = t
                  THEN Dispatched(o.state) ELSE o.state
             r == Reviewed(d, o.seen, FALSE, t \in acting)
             o1 == [o EXCEPT !.state = r]
  <2>2. opportunity'[t] = PostMortem(o1)
    BY <2>1 DEF ReviewOf
  <2>3. o = Record(o)
    BY <1>0
  <2>4. r \in {o.state} \cup (OppState \ {"EXITED"})
    <3>1. d \in {o.state} \cup (OppState \ {"EXITED"})
      BY DispatchStays
    <3>2. r \in {d} \cup (OppState \ {"EXITED"})
      <4> HIDE DEF d
      <4> QED BY ReviewStays
    <3> HIDE DEF d, r
    <3> QED BY <3>1, <3>2
  <2>5. Exits(o, o1, Closes(t)) /\ o1 = Record(o1)
    <3> HIDE DEF o, r
    <3> QED BY <1>0, <2>3, <2>4, ExitsWithState, WithState
  <2>6. PostMortem(o1).state = o1.state /\ (o1 \in Opportunity => PostMortem(o1) \in Opportunity)
    <3> HIDE DEF o1
    <3> QED BY <2>5, PostMortemKeeps, PostMortemTyped
  <2> HIDE DEF o, o1
  <2>7. Exits(o, PostMortem(o1), Closes(t))
    BY <2>5, <2>6 DEF Exits
  <2> QED BY <2>2, <2>7 DEF o
<1>3. CASE PriceHolding
  <2> DEFINE h == Head(toPrice)
  <2>1. \/ opportunity' = opportunity
        \/ opportunity' = [opportunity EXCEPT ![h].state = PositionOpened(@)]
    BY <1>3 DEF PriceHolding
  <2>2. CASE opportunity' = opportunity
    BY <2>2 DEF Exits
  <2>3. CASE opportunity' = [opportunity EXCEPT ![h].state = PositionOpened(@)]
    <3>1. opportunity' = [u \in Token |->
              IF u = h THEN [opportunity[u] EXCEPT !.state = PositionOpened(opportunity[u].state)]
              ELSE opportunity[u]]
      BY <2>3 DEF Shaped
    <3> SUFFICES ASSUME NEW u \in Token
                 PROVE  Exits(opportunity[u], opportunity'[u], Closes(u))
      OBVIOUS
    <3> DEFINE o == opportunity[u]
               o2 == opportunity'[u]
               x == PositionOpened(o.state)
    <3>2. x \in {o.state} \cup (OppStates \ {"EXITED"})
      BY DEF PositionOpened, OppStates, OppState
    <3>3. o2 = o \/ o2 = [o EXCEPT !.state = x]
      BY <3>1
    <3>4. o = Record(o)
      BY <1>0
    <3> HIDE DEF o, o2, x
    <3>5. Exits(o, o2, Closes(u))
      BY <1>0, <3>2, <3>3, <3>4, ExitsWithState
    <3> QED BY <3>5 DEF o, o2
  <2> QED BY <2>1, <2>2, <2>3
<1>4. CASE CloseGone
  <2>1. /\ opportunity' = [t \in Token |->
               IF t \in Gone
               THEN [opportunity[t] EXCEPT !.state = PositionExited(opportunity[t].state)]
               ELSE opportunity[t]]
        /\ position' = [t \in Token |-> IF t \in Gone THEN None ELSE position[t]]
        /\ pc = "pricing"
    BY <1>4 DEF CloseGone
  <2> SUFFICES ASSUME NEW u \in Token
               PROVE  Exits(opportunity[u], opportunity'[u], Closes(u))
    OBVIOUS
  <2>2. u \in Gone => Closes(u)
    BY <2>1 DEF Closes, Gone, Synced, Positions
  <2> DEFINE o == opportunity[u]
             o2 == opportunity'[u]
             x == IF u \in Gone THEN PositionExited(o.state) ELSE o.state
  <2>3. x \in {o.state} \cup (OppStates \ {"EXITED"}) \/ (x = "EXITED" /\ Closes(u))
    BY <2>2 DEF PositionExited
  <2>4. o2 = o \/ o2 = [o EXCEPT !.state = x]
    BY <2>1
  <2>5. o = Record(o)
    BY <1>0
  <2> HIDE DEF o, o2, x
  <2>6. Exits(o, o2, Closes(u))
    BY <1>0, <2>3, <2>4, <2>5, ExitsWithState
  <2> QED BY <2>6 DEF o, o2
<1>5. CASE Restart
  BY <1>5 DEF Restart, Shaped, Synced
<1>6. CASE \/ Buy \/ PostCard \/ Track \/ PostFails \/ ReadBalance \/ ScanEnds \/ CheckExits
           \/ Mark \/ CycleEnds \/ Sell \/ Save \/ UNCHANGED vars
  <2>1. opportunity' = opportunity
    BY <1>6 DEF Buy, PostCard, Track, PostFails, ReadBalance, ScanEnds, CheckExits, Mark,
                CycleEnds, Sell, Save, vars
  <2> QED BY <2>1 DEF Exits
<1> QED BY <1>1, <1>2, <1>3, <1>4, <1>5, <1>6 DEF Next, Cycle

\* What the other invariants leave open of the types, in memory and on disk.
Typed ==
    /\ deployment \in Deployment
    /\ batch \cup untracked \subseteq DOMAIN signals
    /\ zero \cup active \cup held \cup openEntry \cup exitAlerts \cup boughtSince
       \cup stateFile.openEntry \subseteq Token
    /\ opportunity \in [Token -> Opportunity]
    /\ ledgerFile \in [Token -> Opportunity]
    /\ torn \subseteq Signal
    /\ crashes \in 0..MaxCrash

LEMMA TypedInit == Init => Typed
BY PortfolioConstants DEF Init, Typed, Opportunity, Outcome

LEMMA TypedStep == Signals /\ Watched /\ Synced /\ Shaped /\ Typed /\ [Next]_vars => Typed'
<1> SUFFICES ASSUME Signals, Watched, Synced, Shaped, Typed, [Next]_vars PROVE Typed'
  OBVIOUS
<1>1. deployment' \in Deployment
  BY DEF Next, Cycle, Fire, Buy, PostCard, Track, PostFails, Review, ReadBalance, ScanEnds,
         PriceHolding, CloseGone, CheckExits, Mark, CycleEnds, Sell, Save, Restart, vars, Typed
<1>2. /\ opportunity' \in [Token -> Opportunity]
      /\ ledgerFile' \in [Token -> Opportunity]
  <2>1. CASE Restart
    BY <2>1 DEF Restart, Typed
  <2>2. CASE ~Restart
    <3>1. crashes' = crashes
      BY <2>2 DEF Next, Cycle, Fire, Buy, PostCard, Track, PostFails, Review, ReadBalance,
                  ScanEnds, PriceHolding, CloseGone, CheckExits, Mark, CycleEnds, Sell, Save,
                  vars, diskVars
    <3>2. /\ opportunity' = [t \in Token |-> opportunity'[t]]
          /\ \A t \in Token : opportunity'[t] \in Opportunity
      BY <3>1, OpportunityStep, ExitStep DEF Exits, Typed
    <3>3. ledgerFile' \in {ledgerFile, opportunity, opportunity'}
      BY <2>2 DEF Next, Cycle, Fire, Buy, PostCard, Track, PostFails, Review, ReadBalance,
                  ScanEnds, PriceHolding, CloseGone, CheckExits, Mark, CycleEnds, Sell, Save,
                  vars, diskVars
    <3> QED BY <3>2, <3>3 DEF Typed
  <2> QED BY <2>1, <2>2
<1>3. DOMAIN signals \subseteq DOMAIN signals' /\ batch' \cup untracked' \subseteq DOMAIN signals'
  <2>1. CASE Fire
    <3>1. PICK t \in Token, p \in Price :
              /\ signals' = Append(signals, [token |-> t, price |-> p])
              /\ batch' = batch \cup {Len(signals) + 1}
      BY <2>1 DEF Fire
    <3>2. DOMAIN signals' = DOMAIN signals \cup {Len(signals) + 1}
      BY <3>1 DEF Signals
    <3>3. untracked' = untracked
      BY <2>1 DEF Fire
    <3> QED BY <3>1, <3>2, <3>3 DEF Typed
  <2>2. CASE ~Fire
    <3>1. signals' = signals /\ batch' \subseteq batch
      BY <2>2 DEF Next, Cycle, Buy, PostCard, Track, PostFails, Review, ReadBalance, ScanEnds,
                  PriceHolding, CloseGone, CheckExits, Mark, CycleEnds, Sell, Save, Restart,
                  vars, cycleVars
    <3>2. untracked' \subseteq untracked \cup (IF pc \in Posting THEN {current} ELSE {}) \cup DOMAIN signals
      BY <2>2 DEF Next, Cycle, Buy, PostCard, Track, PostFails, Review, ReadBalance, ScanEnds,
                  PriceHolding, CloseGone, CheckExits, Mark, CycleEnds, Sell, Save, Restart,
                  vars, Posting
    <3> QED BY <3>1, <3>2 DEF Signals, Typed
  <2> QED BY <2>1, <2>2
<1>4. torn' \subseteq Signal /\ crashes' \in 0..MaxCrash
  <2>1. CASE Restart
    BY <2>1, PortfolioConstants DEF Restart, Typed
  <2>2. CASE ~Restart
    <3>1. UNCHANGED <<torn, crashes>>
      BY <2>2 DEF Next, Cycle, Fire, Buy, PostCard, Track, PostFails, Review, ReadBalance,
                  ScanEnds, PriceHolding, CloseGone, CheckExits, Mark, CycleEnds, Sell, Save,
                  vars, diskVars
    <3> QED BY <3>1 DEF Typed
  <2> QED BY <2>1, <2>2
<1>5. /\ zero' \cup active' \cup held' \cup openEntry' \cup exitAlerts' \cup boughtSince'
         \cup stateFile'.openEntry \subseteq Token
  <2> USE DEF Typed
  <2>1. CASE Buy
    <3>1. PICK s \in carded \cup (IF pc = "posting" /\ deployment.auto THEN {current} ELSE {}) :
              /\ openEntry' = openEntry \cup {TokenOf(s)}
              /\ \/ /\ held' = held \cup {TokenOf(s)}
                    /\ boughtSince' = boughtSince \cup ({TokenOf(s)} \cap zero)
                 \/ UNCHANGED <<held, boughtSince>>
      BY <2>1 DEF Buy
    <3>2. s \in DOMAIN signals
      BY <3>1 DEF Signals, Posting, Watched
    <3>3. TokenOf(s) \in Token
      <4>1. signals \in Seq([token : Token, price : Price]) /\ s \in 1..Len(signals)
        BY <3>2 DEF Signals
      <4>2. signals[s] \in [token : Token, price : Price]
        BY <4>1, ElementOfSeq
      <4> QED BY <4>2 DEF TokenOf
    <3>4. UNCHANGED <<zero, active, exitAlerts, stateFile>>
      BY <2>1 DEF Buy, scanVars, diskVars
    <3> QED BY <3>1, <3>3, <3>4
  <2>2. CASE ReadBalance
    <3>1. Head(toRead) \in Token
      BY <2>2, TailDistinct DEF ReadBalance, Synced
    <3>2. UNCHANGED <<active, held, openEntry, exitAlerts, boughtSince, stateFile>>
      BY <2>2 DEF ReadBalance, tradeVars, diskVars
    <3>3. zero' \subseteq zero \cup {Head(toRead)}
      BY <2>2 DEF ReadBalance
    <3> QED BY <3>1, <3>2, <3>3
  <2>3. CASE Save
    <3>1. UNCHANGED <<zero, active, held, openEntry, exitAlerts, boughtSince>>
      BY <2>3 DEF Save, scanVars, tradeVars
    <3>2. stateFile' = stateFile \/ stateFile'.openEntry = openEntry
      BY <2>3 DEF Save, Current
    <3> QED BY <3>1, <3>2
  <2>4. CASE Restart
    BY <2>4 DEF Restart
  <2>5. CASE ScanEnds \/ CloseGone \/ CheckExits
    <3>1. /\ zero' \subseteq zero /\ active' \subseteq active \cup Positions
          /\ held' = held /\ openEntry' \subseteq openEntry
          /\ exitAlerts' \subseteq exitAlerts \cup active
          /\ boughtSince' \subseteq boughtSince /\ stateFile' = stateFile
      BY <2>5 DEF ScanEnds, CloseGone, CheckExits, diskVars, tradeVars
    <3> QED BY <3>1 DEF Positions
  <2>6. CASE Review \/ Sell
    <3>1. /\ UNCHANGED <<zero, active, openEntry, boughtSince, stateFile>>
          /\ held' \subseteq held /\ exitAlerts' \subseteq exitAlerts
      BY <2>6 DEF Review, Sell, scanVars, tradeVars, diskVars
    <3> QED BY <3>1
  <2>7. CASE \/ Fire \/ PostCard \/ Track \/ PostFails \/ PriceHolding \/ Mark \/ CycleEnds
             \/ UNCHANGED vars
    <3>1. UNCHANGED <<zero, active, held, openEntry, exitAlerts, boughtSince, stateFile>>
      BY <2>7 DEF Fire, PostCard, Track, PostFails, PriceHolding, Mark, CycleEnds, vars,
                  scanVars, tradeVars, diskVars
    <3> QED BY <3>1
  <2> QED BY <2>1, <2>2, <2>3, <2>4, <2>5, <2>6, <2>7 DEF Next, Cycle
<1> QED BY <1>1, <1>2, <1>3, <1>4, <1>5 DEF Typed

\* An opportunity is EXITED only by the close of a position of its token, whatever
\* was dispatched, reviewed, opened or expired before; and every variable keeps
\* its type.
THEOREM ExitsAreCloses == Spec => ExitIsAClose
<1>1. Signals /\ Watched /\ Learned /\ Mirrored /\ Synced /\ Shaped /\ Typed => TypeOK
  BY DEF Signals, Watched, Learned, Mirrored, Synced, Typed, TypeOK
<1>2. Synced /\ Shaped /\ [Next]_vars =>
        \A t \in Token :
          /\ opportunity[t].state # "EXITED"
          /\ opportunity'[t].state = "EXITED"
          /\ crashes' = crashes
          => position[t] # None /\ position'[t] = None
  BY ExitStep DEF Exits, Closes
<1> QED
  BY SignalsInit, SignalsStep, WatchedInit, WatchedStep, LearnedInit, LearnedStep,
     MirroredInit, MirroredStep, SyncedInit, SyncedStep, ShapedInit, ShapedStep,
     TypedInit, TypedStep, <1>1, <1>2, PTL DEF Spec, ExitIsAClose, ExitedMeansClosed
-----------------------------------------------------------------------------
(* Two of the properties the run checks, from the parts above *)

\* Signals, positions, paper trades and the learned weights agree after every
\* step of any number of cycles, trades and restarts.
THEOREM BooksAlwaysAgree == Spec => []BooksAgree
<1>1. CallsLearnOnce /\ BuyIsTracked /\ PaperFollowsCard => BooksAgree
  BY DEF BooksAgree
<1> QED
  BY LearnedOnce, BoughtIsTracked, PaperIsMirrored, <1>1, PTL

\* No step takes back a recorded close, an ended opportunity or an advanced
\* position.
THEOREM HistoryNeverReturns == Spec => HistoryIsFinal
  BY ClosedWasSold, EndedIsFinal, PositionAdvances DEF HistoryIsFinal
=============================================================================
