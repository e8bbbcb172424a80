------------------------------- MODULE Evidence -------------------------------
(***************************************************************************)
(* What a decision of the screening agent is recorded to rest on.  Fresh   *)
(* pairs arrive without market data: one batch asks DexScreener for them,  *)
(* slice by slice, and DEXPaprika for what it left out.  A finalist's card *)
(* and its feature snapshot are then built from the token, and the odds    *)
(* come from a calibration model seeded, at boot, from the closed paper    *)
(* trades on disk.                                                         *)
(*                                                                         *)
(* A figure is abstracted to who reported it: Unknown when nobody did,        *)
(* Estimate when the code computes it from another figure.                 *)
(***************************************************************************)
EXTENDS Integers, SequencesExt

CONSTANTS
    Pairs,              \* the candidates of a pass, in order
    SliceSize,          \* candidates per DexScreener call
    MaxDetailCalls,     \* DEXPaprika calls of a pass
    Trades,             \* the paper trades
    BucketOf,           \* the score bucket of a paper trade
    MinSamples,         \* labels before any odds are told
    MinPerBucket        \* labels of a bucket before its odds are told

ASSUME EvidenceAssumption ==
    /\ SliceSize \in Nat \ {0}
    /\ MaxDetailCalls \in Nat
    /\ MinSamples \in Nat /\ MinPerBucket \in Nat \ {0}
    /\ IsFiniteSet(Trades)

Unknown == "none"
Estimate == "estimate"
Market == {"price", "liquidity", "volume24h"}
Flow == {"buy", "sell"}
Figure == Market \cup Flow \cup {"volume1h"}
Blank == [f \in Figure |-> Unknown]

VARIABLES
    progress,   \* "idle", "batch" while figures are asked for, "ready" to decide
    next,       \* the first pair of the next slice
    token,      \* the figures of each candidate
    fresh,      \* the batch's figures of the candidates it resolved
    record,     \* the card and the snapshot of the last finalist
    reported,   \* history: the figures a service reported, per candidate
    tradeFile,  \* the last state on disk of each paper trade
    book,       \* the paper trades in memory
    seeded,     \* whether the calibration model has read the disk
    labels,     \* the trades it has ingested, with their outcome
    odds        \* the last odds told, with the bucket they are for

evidenceVars == <<progress, next, token, fresh, record, reported>>
oddsVars == <<tradeFile, book, seeded, labels, odds>>

NoRecord == [card |-> Blank, snapshot |-> {}, quality |-> 0, sellable |-> FALSE, clean |-> FALSE, checked |-> FALSE, of |-> Unknown]
NoOdds == [bucket |-> Unknown, wins |-> 0, total |-> 0]

-----------------------------------------------------------------------------
(* The odds. *)

OddsInit ==
    /\ tradeFile = [t \in Trades |-> "none"]
    /\ book = tradeFile
    /\ seeded = FALSE
    /\ labels = {}
    /\ odds = NoOdds

\* A paper trade opens or closes; the append that keeps it on disk may fail.
PaperMoves(t) ==
    /\ \/ book[t] = "none" /\ book' = [book EXCEPT ![t] = "open"]
       \/ book[t] = "open" /\ \E end \in {"won", "lost"} : book' = [book EXCEPT ![t] = end]
    /\ tradeFile' \in {tradeFile, [tradeFile EXCEPT ![t] = book'[t]]}
    /\ UNCHANGED <<seeded, labels, odds>>

\* A restart: the book is what the disk has, the model is empty.
Reboots ==
    /\ book' = tradeFile
    /\ seeded' = FALSE
    /\ labels' = {}
    /\ odds' = NoOdds
    /\ UNCHANGED tradeFile

\* The model reads the disk once, some time after the boot: closed trades are its
\* labels.
SeedFromPaperTrades ==
    /\ ~seeded
    /\ seeded' = TRUE
    /\ labels' = {[trade |-> t, won |-> tradeFile[t] = "won"] : t \in {u \in Trades : tradeFile[u] \in {"won", "lost"}}}
    /\ UNCHANGED <<tradeFile, book, odds>>

\* Laplace-smoothed wins of the bucket.
Share(of, bucket) ==
    [bucket |-> bucket, wins |-> Cardinality({l \in of : l.won}) + 1, total |-> Cardinality(of) + 2]

\* No odds below the floor of all labels or of the bucket's.
Probability(bucket) ==
    LET of == {l \in labels : BucketOf[l.trade] = bucket}
    IN  IF Cardinality(labels) < MinSamples \/ Cardinality(of) < MinPerBucket THEN NoOdds ELSE Share(of, bucket)

\* The odds recorded beside the raw score of a decision.
CalibratedDecision(bucket) ==
    /\ odds' = Probability(bucket)
    /\ UNCHANGED <<tradeFile, book, seeded, labels>>

OddsNext == (\E t \in Trades : PaperMoves(t)) \/ Reboots \/ SeedFromPaperTrades

-----------------------------------------------------------------------------
(* The fresh batch. *)

EvidenceInit ==
    /\ progress = "idle"
    /\ next = 1
    /\ token = [p \in ToSet(Pairs) |-> Blank]
    /\ fresh = <<>>
    /\ record = NoRecord
    /\ reported = {}

\* A pass begins: the feeds brought some candidates with their figures, and the
\* others as fresh pairs.
DueForSnapshot ==
    /\ progress = "idle"
    /\ \E known \in SUBSET ToSet(Pairs) :
         /\ token' = [p \in ToSet(Pairs) |-> IF p \in known THEN [f \in Figure |-> "feed"] ELSE Blank]
         /\ reported' = known \X Figure
    /\ progress' = "batch"
    /\ next' = 1
    /\ fresh' = <<>>
    /\ record' = NoRecord

FreshZero == SelectSeq(Pairs, LAMBDA p : token[p] = Blank)

\* The figures the batch knows, with those of found added.
Learned(found) == [p \in DOMAIN fresh \cup DOMAIN found |-> IF p \in DOMAIN found THEN found[p] ELSE fresh[p]]

Told(found) == {pf \in (DOMAIN found) \X Figure : found[pf[1]][pf[2]] # Unknown}

\* What DexScreener says of a pair: the price, and the rest once it is traded.
PairRow == {[Blank EXCEPT !["price"] = "dexscreener"],
            [f \in Figure |-> IF f \in Market THEN "dexscreener" ELSE Unknown]}

\* One slice: the rows of the pairs it knows.  A failing call leaves them out.
BatchFreshMarketData ==
    /\ progress = "batch"
    /\ next <= Len(FreshZero)
    /\ LET last == IF next + SliceSize > Len(FreshZero) THEN Len(FreshZero) ELSE next + SliceSize - 1
           slice == ToSet(SubSeq(FreshZero, next, last))
       IN  \E known \in SUBSET slice : \E found \in [known -> PairRow] :
             /\ fresh' = Learned(found)
             /\ reported' = reported \cup Told(found)
    /\ next' = next + SliceSize
    /\ UNCHANGED <<progress, token, record>>

\* What DEXPaprika says: nothing, the real volume of the hour, or its sides too.
TokenDetail == {Blank, [Blank EXCEPT !["volume1h"] = "dexpaprika"],
                [f \in Figure |-> IF f \in Market THEN Unknown ELSE "dexpaprika"]}

\* DEXPaprika is asked for the pairs the batch did not resolve, up to the cap.
OverlayDexpaprikaVolume ==
    /\ progress = "batch"
    /\ next > Len(FreshZero)
    /\ LET left == SelectSeq(FreshZero, LAMBDA p : p \notin DOMAIN fresh)
           asked == {left[i] : i \in 1..Len(left) \cap 1..MaxDetailCalls}
       IN  \E known \in SUBSET asked : \E found \in [known -> TokenDetail] :
             /\ fresh' = Learned(found)
             /\ reported' = reported \cup Told(found)
    /\ progress' = "ready"
    /\ UNCHANGED <<next, token, record>>

\* A fresh figure replaces the token's own.  The day is taken from the batch even
\* when it does not know it, and the hour is estimated from a known day.
Hydrated(p) ==
    LET t == token[p]
        f == fresh[p]
        Either(x) == IF f[x] # Unknown THEN f[x] ELSE t[x]
    IN  IF p \notin DOMAIN fresh \/ t # Blank THEN t
        ELSE [x \in Figure |->
                CASE x = "volume24h" -> f[x]
                  [] x = "volume1h" /\ f[x] = Unknown /\ f["volume24h"] # Unknown -> Estimate
                  [] OTHER -> Either(x)]

\* volume24hOf: the day, else twenty-four times the hour.
Volume24hOf(t) ==
    IF t["volume24h"] # Unknown THEN t["volume24h"]
    ELSE IF t["volume1h"] # Unknown THEN Estimate
    ELSE Unknown

\* The figures of the call card; the hour is estimated when it is unknown.
BuildPayload(t) ==
    [f \in Figure \ Flow |->
        CASE f = "volume24h" -> Volume24hOf(t)
          [] f = "volume1h" /\ t[f] = Unknown /\ Volume24hOf(t) # Unknown -> Estimate
          [] OTHER -> t[f]]

\* Mutant: a missing side of the flow is half the volume of the hour.
SnapshotInputHalved(t) ==
    [f \in Market \cup Flow |-> CASE f = "volume24h" -> Volume24hOf(t)
                                 [] f \in Flow /\ t[f] = Unknown -> t["volume1h"]
                                 [] OTHER -> t[f]]

\* What the agent hands to the snapshot: the market figures, the sides of the flow
\* that were observed.
SnapshotInput(t) ==
    [f \in Market \cup Flow |-> IF f = "volume24h" THEN Volume24hOf(t) ELSE t[f]]

\* The snapshot keeps the fields that have a value (a market figure nobody
\* reported is the number zero), frozen.
BuildFeatureSnapshot(input) == {f \in DOMAIN input : f \in Market \/ input[f] # Unknown}

\* The share of the expected fields in percent, averaged over the groups that have
\* a field: the market and the security always do, the flow has two sides.
DataQuality(fields) ==
    LET sides == Cardinality(fields \cap Flow)
    IN  IF sides = 0 THEN 100 ELSE (200 + 50 * sides) \div 3

\* A finalist: its card, then the security evidence when the voter swarm is on,
\* then the snapshot and the odds of its score.  A token that cannot be sold is a
\* penalty; a finalist nobody checked has none.
Finalist(p, bucket, swarm, sellable, penalised) ==
    /\ progress = "ready"
    /\ LET t == Hydrated(p)
       IN  /\ token' = [token EXCEPT ![p] = t]
           /\ record' = [of |-> p, card |-> BuildPayload(t), snapshot |-> BuildFeatureSnapshot(SnapshotInput(t)),
                         quality |-> DataQuality(BuildFeatureSnapshot(SnapshotInput(t))),
                         sellable |-> swarm /\ sellable, clean |-> ~swarm \/ (sellable /\ ~penalised), checked |-> swarm]
    /\ CalibratedDecision(bucket)
    /\ progress' = "idle"
    /\ UNCHANGED <<next, fresh, reported>>

EvidenceNext ==
    \/ (DueForSnapshot \/ BatchFreshMarketData \/ OverlayDexpaprikaVolume) /\ UNCHANGED oddsVars
    \/ \E p \in ToSet(Pairs), bucket \in Range(BucketOf), swarm, sellable, penalised \in BOOLEAN :
         Finalist(p, bucket, swarm, sellable, penalised)

\* The paper trades move while a pass asks for its figures.
EvidenceSpec ==
    /\ EvidenceInit /\ OddsInit
    /\ [][EvidenceNext \/ (OddsNext /\ UNCHANGED evidenceVars)]_<<evidenceVars, oddsVars>>

-----------------------------------------------------------------------------
(* Properties. *)

\* A side of the flow in the record was reported by a service, never made up of
\* the volume (robinhood-screening-agent.ts:1653-1657); a token is recorded as
\* sellable only when the check ran, and as clean after one only when it is
\* sellable (:1486-1489, 1532, 1662-1667); and what the card does not estimate was
\* reported of this very token (:962).
RecordIsObserved ==
    record # NoRecord =>
      /\ \A f \in Flow \cap record.snapshot : <<record.of, f>> \in reported
      /\ record.sellable => record.checked
      /\ record.clean /\ record.checked => record.sellable
      /\ \A f \in DOMAIN record.card :
           record.card[f] \notin {Unknown, Estimate} => <<record.of, f>> \in reported

\* Odds are told only of a bucket with closed paper trades behind them, and never
\* claim more wins than the disk remembers (calibration.ts:9, :71-73).
OddsAreEarned ==
    odds # NoOdds =>
      LET closed == {t \in Trades : tradeFile[t] \in {"won", "lost"}}
          of == {t \in closed : BucketOf[t] = odds.bucket}
      IN  /\ Cardinality(closed) >= MinSamples
          /\ Cardinality(of) >= MinPerBucket
          /\ odds.wins <= Cardinality({t \in of : tradeFile[t] = "won"}) + 1

\* What is written down about a finalist was observed, and the odds told for it
\* were earned: RecordIsObserved and OddsAreEarned (feature-snapshot.ts,
\* calibration.ts).
EvidenceIsTrue == RecordIsObserved /\ OddsAreEarned

=============================================================================
