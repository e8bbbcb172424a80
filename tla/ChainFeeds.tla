----------------------------- MODULE ChainFeeds -----------------------------
(***************************************************************************)
(* The two feeds that read new tokens off a chain: the Solana signature    *)
(* walk (SolanaRpcDiscoveryFeed) and the PairCreated log scan              *)
(* (AnkrDiscoveryFeed).  A pass that timed out goes on beside the next     *)
(* one, so the walk has several Walkers; a scan keeps nothing between its  *)
(* passes.                                                                 *)
(***************************************************************************)
EXTENDS Integers, FiniteSets, Sequences, FiniteSetsExt, SequencesExt

CONSTANTS
    Walker,       \* discovery passes that may be walking at once
    MaxTx,        \* bound on the program's transactions
    PageSize,     \* maxSignaturesPerProgram
    Creates,      \* transactions that create a token
    Attempts,     \* tries of one Solana call, each on the host active then
    Lookback, StartChunk, MinChunk,
    Confirmations,
    Heads         \* heads a scan may be told

\* No head leaves the first block alone to be scanned: a range ends where it
\* begins only there.
ASSUME ChainAssumption ==
    /\ {MaxTx, Confirmations} \subseteq Nat
    /\ {PageSize, Lookback, StartChunk, MinChunk} \subseteq Nat \ {0}
    /\ Heads \subseteq Nat /\ \A h \in Heads : h # Confirmations + 1

VARIABLES
    tip,          \* number of the program's newest transaction
    unseen,       \* transactions since a walk was last given a page
    cursor,       \* the persisted signature; 0 for none
    walk,         \* walker -> [stage, todo, last, tries]
    asked,        \* transactions a walk has asked for
    mints,        \* tokens the walks announced
    opening,      \* newest transaction of the first page that moved the cursor
    scan,         \* [stage, from, to, start, chunk, ranges]; ranges asked, modulo 2
    scanned,      \* blocks whose logs the scan has read
    pairs         \* blocks whose pairs it announced, in order

walkVars == <<tip, unseen, cursor, walk, asked, mints, opening>>
scanVars == <<scan, scanned, pairs>>

-----------------------------------------------------------------------------
(* The signature walk                                                      *)

Resting == [stage |-> "idle", todo |-> <<>>, last |-> 0, tries |-> 0]

WalkInit ==
    /\ tip = 0 /\ unseen = 0 /\ cursor = 0 /\ asked = {} /\ mints = {} /\ opening = 0
    /\ walk = [w \in Walker |-> Resting]

\* The environment: a program quiet enough for a page to hold what is new.
Transact ==
    /\ tip < MaxTx /\ unseen < PageSize /\ tip' = tip + 1 /\ unseen' = unseen + 1
    /\ UNCHANGED <<cursor, walk, asked, mints, opening>>

\* getSignaturesForAddress: newest first, from the tip or from just before "before".
Page(before) ==
    LET top == IF before = 0 THEN tip ELSE before - 1
    IN  [i \in 1..Min({PageSize, top}) |-> top + 1 - i]

\* extractCreateMint: a transaction without a well-formed create names no token.
ExtractCreateMint(tx) == {tx} \cap Creates

\* cursorGet is called before the page is asked for: the walk keeps what it read.
WalkBegins(w) ==
    /\ walk[w].stage = "idle"
    /\ walk' = [walk EXCEPT ![w] = [stage |-> "page", todo |-> <<>>, last |-> cursor, tries |-> 0]]
    /\ UNCHANGED <<tip, unseen, cursor, asked, mints, opening>>

CursorSet(to) == cursor' = to

\* The next signature; after the last one the cursor is the oldest of the page.
Onward(w, rest) ==
    IF rest = <<>>
      THEN walk' = [walk EXCEPT ![w] = Resting] /\ CursorSet(walk[w].last)
      ELSE walk' = [walk EXCEPT ![w].todo = rest, ![w].tries = 0] /\ UNCHANGED cursor

Signatures(w) ==
    LET sigs == Page(walk[w].last)
    IN  /\ walk[w].stage = "page"
        /\ walk' = [walk EXCEPT ![w] = IF sigs = <<>> THEN Resting
                                       ELSE [stage |-> "mint", todo |-> sigs, last |-> Last(sigs), tries |-> 0]]
        /\ unseen' = 0 /\ opening' = IF opening = 0 /\ sigs # <<>> THEN Head(sigs) ELSE opening
        /\ UNCHANGED <<tip, cursor, asked, mints>>

MintFromSignature(w) ==
    LET tx == Head(walk[w].todo)
    IN  /\ walk[w].stage = "mint"
        /\ asked' = asked \cup {tx} /\ mints' = mints \cup ExtractCreateMint(tx)
        /\ Onward(w, Tail(walk[w].todo))
        /\ UNCHANGED <<tip, unseen, opening>>

\* rpc(): a failed try goes to the next host; when the tries are used up a page
\* ends the walk and a transaction is passed over like one that creates nothing.
RpcFails(w) ==
    /\ walk[w].stage # "idle"
    /\ \/ /\ walk[w].tries + 1 < Attempts
          /\ walk' = [walk EXCEPT ![w].tries = @ + 1] /\ UNCHANGED <<cursor, asked>>
       \/ /\ walk[w].tries + 1 = Attempts /\ walk[w].stage = "page"
          /\ walk' = [walk EXCEPT ![w] = Resting] /\ UNCHANGED <<cursor, asked>>
       \/ /\ walk[w].tries + 1 = Attempts /\ walk[w].stage = "mint"
          /\ asked' = asked \cup {Head(walk[w].todo)} /\ Onward(w, Tail(walk[w].todo))
    /\ UNCHANGED <<tip, unseen, mints, opening>>

Walks(w) == WalkBegins(w) \/ Signatures(w) \/ MintFromSignature(w)
WalkNext == Transact \/ \E w \in Walker : Walks(w) \/ RpcFails(w)

\* No transaction between the cursor and the start of the first page is passed
\* over unasked, whichever of the overlapping walks moved the cursor last
\* (solana-rpc-discovery-feed.ts:122-148, 155).
NoHoleBehind == \A tx \in 1..MaxTx : cursor # 0 /\ cursor <= tx /\ tx <= opening => tx \in asked

-----------------------------------------------------------------------------
(* The log scan                                                            *)

NoScan == [stage |-> "idle", from |-> 0, to |-> 0, start |-> 0, chunk |-> 0, ranges |-> 0]
ScanInit == scan = NoScan /\ scanned = {} /\ pairs = <<>>

\* No head, or one that is all unconfirmed, ends the pass for this chain.
ScanBegins(head) ==
    LET to == head - Confirmations
        from == Max({1, to - Lookback})
    IN  /\ scan.stage # "ranges" /\ to >= 1
        /\ scan' = [stage |-> "ranges", from |-> from, to |-> to, start |-> from, chunk |-> StartChunk, ranges |-> 0]
        /\ scanned' = {} /\ pairs' = <<>>

NoHead == scan.stage # "ranges" /\ scan' = NoScan /\ scanned' = {} /\ pairs' = <<>>

RangeAsked(sc) == [sc EXCEPT !.ranges = 1 - @]
RangeEnd == Min({scan.from + scan.chunk, scan.to})

\* decodePairCreated announces both sides of every pair of a block; a range is
\* read with both its ends, so the block two ranges share is announced twice.
FetchPairCreated == scan.from..RangeEnd
Announced(seen) == seen \o SetToSortSeq(FetchPairCreated, LAMBDA a, b : a < b)

RangeRead ==
    /\ scan.stage = "ranges" /\ scan.from < scan.to
    /\ scan' = RangeAsked([scan EXCEPT !.from = RangeEnd])
    /\ scanned' = scanned \cup FetchPairCreated /\ pairs' = Announced(pairs)

\* Mutant: a range that cannot be made smaller is skipped.
RangeSkipped ==
    /\ scan.stage = "ranges" /\ scan.from < scan.to
    /\ scan' = RangeAsked(IF scan.chunk > MinChunk THEN [scan EXCEPT !.chunk = Max({MinChunk, @ \div 2})]
                     ELSE [scan EXCEPT !.from = RangeEnd])
    /\ UNCHANGED <<scanned, pairs>>

\* Mutant: a refused range is asked for again as it is.
RangeRetried ==
    /\ scan.stage = "ranges" /\ scan.from < scan.to
    /\ scan' = RangeAsked(IF scan.chunk >= MinChunk THEN scan ELSE [scan EXCEPT !.stage = "cut"])
    /\ UNCHANGED <<scanned, pairs>>

\* A refused range is halved down to MinChunk; refused there, the scan is cut.
RangeRefused ==
    /\ scan.stage = "ranges" /\ scan.from < scan.to
    /\ scan' = RangeAsked(IF scan.chunk > MinChunk THEN [scan EXCEPT !.chunk = Max({MinChunk, @ \div 2})]
                     ELSE [scan EXCEPT !.stage = "cut"])
    /\ UNCHANGED <<scanned, pairs>>

ScanEnds ==
    /\ scan.stage = "ranges" /\ scan.from >= scan.to
    /\ scan' = [scan EXCEPT !.stage = "complete"]
    /\ UNCHANGED <<scanned, pairs>>

ScanStep == RangeRead \/ RangeRefused \/ ScanEnds
ScanNext == ScanStep \/ NoHead \/ \E h \in Heads : ScanBegins(h)

\* A scan that calls itself complete has read every block of its window
\* (ankr-discovery-feed.ts:142-170).
CompleteMeansScanned == scan.stage = "complete" => scan.start..scan.to \subseteq scanned

\* Every scan comes to an end, however often its ranges are refused
\* (ankr-discovery-feed.ts:142-169).
ScansEnd == scan.stage = "ranges" ~> scan.stage # "ranges"

ChainNext == (WalkNext /\ UNCHANGED scanVars) \/ (ScanNext /\ UNCHANGED walkVars)
ChainSpec == WalkInit /\ ScanInit /\ [][ChainNext]_<<walkVars, scanVars>>

\* Nothing a chain feed passed over is taken for read: NoHoleBehind for the
\* cursor, CompleteMeansScanned for the log scan.
ScansAreComplete == NoHoleBehind /\ CompleteMeansScanned

=============================================================================
