----------------------------- MODULE MarketFeeds ----------------------------
(***************************************************************************)
(* The market-data feeds a screening pass asks for tokens: DexScreenerFeed,*)
(* GeckoDiscoveryFeed, DexpaprikaFeed and GMGNAdapter, each with its cache.*)
(* One discover() at a time: a pass asks each feed once.  A row of a       *)
(* listing says which of its parts are there; a volume that is not is 0.   *)
(***************************************************************************)
EXTENDS Integers, FiniteSets, Sequences, FiniteSetsExt, SequencesExt, Functions

CONSTANTS
    Listed,       \* [addr, pool, chain, base, net, named] rows the services list, one a pool
    Chains,       \* the chains the bot trades
    Truth,        \* pool -> [h1, h6, h24] what traded there, 0 if the services give none
    BatchOf,      \* address -> the enrichment request it goes in
    Ttl           \* ticks an answer stays in a cache

Interval == {"h1", "h6", "h24"}
Batches == {BatchOf[r.addr] : r \in Listed}
Source == {"profiles", "new", "trending", "search"} \cup Chains

\* No chain or batch has the name of a listing, and a day is not less than six hours.
ASSUME MarketAssumption ==
    /\ IsFiniteSet(Listed) /\ Chains \cap {"profiles", "new", "trending", "search"} = {} /\ "profiles" \notin Batches
    /\ \A r \in Listed : (\A i \in Interval : Truth[r.pool][i] \in Nat) /\ Truth[r.pool].h6 <= Truth[r.pool].h24

VARIABLES
    down,         \* services that do not answer
    shelf,        \* source -> [tokens, left]: cached answer, ticks left
    visit,        \* [feed, chain, todo, got] of the discover() under way
    handed        \* [feed, chain, tokens] of the last one that returned

feedVars == <<down, shelf, visit, handed>>

Feed == {"dexscreener", "gecko", "dexpaprika", "gmgn"}

None == [feed |-> "none", chain |-> "none", todo |-> <<>>, got |-> {}]

FeedsInit ==
    /\ down = {} /\ visit = None
    /\ shelf = [s \in Source |-> [tokens |-> {}, left |-> 0]]
    /\ handed = [feed |-> "none", chain |-> "none", tokens |-> {}]

Cached(s) == shelf[s].left > 0
Shelved(s, tokens) == shelf' = [shelf EXCEPT ![s] = [tokens |-> tokens, left |-> Ttl]]

Token(a, c) == [addr |-> a, chain |-> c, h1 |-> 0, h24 |-> 0, away |-> FALSE, again |-> FALSE, lane |-> FALSE]

\* applyOptions with the options a pass gives: the chain; no floor, sort or limit.
ApplyOptions(tokens, chain) == {t \in tokens : t.chain = chain}
HandOn(tokens) ==
    /\ handed' = [feed |-> visit.feed, chain |-> visit.chain, tokens |-> tokens]
    /\ visit' = None

-----------------------------------------------------------------------------
(* DexScreener                                                             *)

NormalizeProfile(r) == IF r.chain \in Chains /\ r.named THEN {Token(r.addr, r.chain)} ELSE {}

\* Of the profiles of one address byAddress keeps the last; the others (again)
\* stay as they came.
Profiles(last) == UNION {{[t EXCEPT !.again = r \notin last] : t \in NormalizeProfile(r)} : r \in Listed}
Lasts ==
    LET listed == {r \in Listed : NormalizeProfile(r) # {}}
    IN  {last \in SUBSET listed : \A r \in listed : \E x \in last : {y \in last : y.addr = r.addr} = {x}}

MarkBatchUnavailable(tokens, b) ==
    {IF BatchOf[t.addr] = b /\ ~t.again THEN [t EXCEPT !.away = TRUE] ELSE t : t \in tokens}

\* enrichProfiles for one batch: a token takes the chain and the figures of the last
\* pair the answer has for its address; those without a pair are marked.
Priced(t, r) == [t EXCEPT !.chain = r.chain, !.h1 = Truth[r.pool].h1, !.h24 = Truth[r.pool].h24, !.away = FALSE]
Read(tokens, pairs) == UNION {{Priced(t, r) : r \in {x \in pairs : x.addr = t.addr}} : t \in {x \in tokens : ~x.again}}
Unread(tokens, pairs) == {t \in tokens : t.again \/ \A r \in pairs : r.addr # t.addr}
Enriched(tokens, b, pairs) == Read(tokens, pairs) \cup MarkBatchUnavailable(Unread(tokens, pairs), b)

\* A failed profile request throws: nothing is cached and the pass gets nothing.
ProfilesAnswer ==
    /\ visit.feed = "dexscreener" /\ visit.todo # <<>> /\ Head(visit.todo) = "profiles"
    /\ IF "profiles" \in down THEN HandOn({})
       ELSE (\E last \in Lasts : visit' = [visit EXCEPT !.got = Profiles(last), !.todo = Tail(@)]) /\ UNCHANGED handed
    /\ UNCHANGED <<down, shelf>>

\* pairs: the last one of each address that is answered for, on a chain the bot knows.
BatchAnswers(pairs) ==
    LET b == Head(visit.todo)
        tokens == IF "pairs" \in down THEN MarkBatchUnavailable(visit.got, b) ELSE Enriched(visit.got, b, pairs)
    IN  /\ visit.feed = "dexscreener" /\ visit.todo # <<>> /\ b \in Batches
        /\ \A r \in pairs : BatchOf[r.addr] = b /\ r.chain \in Chains /\ r.base # "none"
        /\ \A r, x \in pairs : r.addr = x.addr => r = x
        /\ IF Tail(visit.todo) = <<>>
             THEN Shelved("profiles", tokens) /\ HandOn(ApplyOptions(tokens, visit.chain))
             ELSE visit' = [visit EXCEPT !.got = tokens, !.todo = Tail(@)] /\ UNCHANGED <<shelf, handed>>
        /\ UNCHANGED down

-----------------------------------------------------------------------------
(* GeckoTerminal and DexPaprika                                            *)

\* normalizePool: the base token's own address, else the pool's; the network the
\* row names, else the one the token id is prefixed with.
NormalizePool(r) ==
    IF ~r.net /\ r.base # "prefixed" THEN {}
    ELSE {[Token(IF r.base = "none" THEN r.pool ELSE r.addr, r.chain) EXCEPT !.h24 = Truth[r.pool].h24]}
NetworkPools == {t \in UNION {NormalizePool(r) : r \in Listed} : t.chain \in Chains}

\* pacedGetPoolRows answers [] when it fails, and that is what is kept.
PoolRows(s) == IF s \in down THEN {} ELSE NetworkPools

\* Mutant: the trending pools are taken as the pass's own chain.
MergedUnfiltered == HandOn(visit.got)
Merged == HandOn(ApplyOptions(visit.got, visit.chain))

\* freshPools, trendingPools: from the cache or from the service, one after the other.
PoolsAnswer(s) ==
    LET tokens == IF Cached(s) THEN shelf[s].tokens ELSE PoolRows(s)
    IN  /\ visit.feed = "gecko" /\ visit.todo # <<>> /\ Head(visit.todo) = s
        /\ visit' = [visit EXCEPT !.got = @ \cup tokens, !.todo = Tail(@)]
        /\ IF Cached(s) THEN UNCHANGED shelf ELSE Shelved(s, tokens)
        /\ UNCHANGED <<down, handed>>

GeckoDiscovers == visit.feed = "gecko" /\ visit.todo = <<>> /\ Merged /\ UNCHANGED <<down, shelf>>

\* normalizeRow: the pool's base token on a traded chain, in the fresh lane.
NormalizeRow(r) ==
    IF r.chain \notin Chains \/ r.base = "none" THEN {}
    ELSE {[Token(r.addr, r.chain) EXCEPT !.h24 = Truth[r.pool].h24, !.lane = TRUE]}
SearchAll == UNION {NormalizeRow(r) : r \in Listed}

\* A failed search throws and is not kept.
SearchAnswers ==
    /\ visit.feed = "dexpaprika"
    /\ IF "search" \in down THEN HandOn({}) /\ UNCHANGED shelf
       ELSE Shelved("search", SearchAll) /\ HandOn(ApplyOptions(SearchAll, visit.chain))
    /\ UNCHANGED down

-----------------------------------------------------------------------------
(* GMGN                                                                    *)

VolumeWindow(interval) == IF interval \in {"h6", "h24"} THEN "h24" ELSE "h1"

\* normalizeToken: a bare volume is that of its window; an hour nobody gave is a
\* 24th of the day, unless the row had a bare volume.
Normalized(row, window, chain) ==
    LET day == IF "h24" \in row.shown THEN Truth[row.pool].h24 ELSE IF window = "h24" THEN row.bare ELSE 0
        hour == IF "h1" \in row.shown THEN Truth[row.pool].h1
                ELSE IF window = "h1" THEN row.bare
                ELSE IF row.bare = 0 /\ day > 0 THEN day \div 24 ELSE 0
    IN  [Token(row.addr, chain) EXCEPT !.h1 = hour, !.h24 = day]

\* A rank or hot-search row of one interval: its bare volume is the interval's.
Ranked(r, interval, shown) ==
    [addr |-> r.addr, pool |-> r.pool, shown |-> shown \ {"bare"}, bare |-> IF "bare" \in shown THEN Truth[r.pool][interval] ELSE 0]
On(chain) == {r \in Listed : r.chain = chain}

\* fetchRank and fetchHotSearches: [] when the request fails.
FetchRank(chain, interval, shown) ==
    IF chain \in down THEN {}
    ELSE {Normalized(Ranked(r, interval, shown), VolumeWindow(interval), chain) : r \in On(chain)}
FetchHotSearches(chain, shown) ==
    IF chain \in down THEN {}
    ELSE {Normalized(Ranked(r, "h1", shown), VolumeWindow("h1"), chain) : r \in {x \in On(chain) : x.named}}

\* fetchTrenches: rows that name their volumes.
FetchTrenches(chain, shown) ==
    IF chain \in down THEN {}
    ELSE {Normalized(Ranked(r, "h24", shown \ {"bare"}), "h24", chain) : r \in On(chain)}

\* rankTokens keeps what fetchRank gave, also when that is the [] of a failure.
RankTokens(c) ==
    /\ visit.feed = "gmgn" /\ visit.todo # <<>> /\ Head(visit.todo) = c
    /\ \E shown \in SUBSET {"h24", "h1", "bare"} :
          LET tokens == IF Cached(c) THEN shelf[c].tokens ELSE FetchRank(c, "h24", shown)
          IN  /\ visit' = [visit EXCEPT !.got = @ \cup tokens, !.todo = Tail(@)]
              /\ IF Cached(c) THEN UNCHANGED shelf ELSE Shelved(c, tokens)
    /\ UNCHANGED <<down, handed>>

\* Its options have no chain filter: chainsFor asked only for the chain wanted.
GmgnDiscovers == visit.feed = "gmgn" /\ visit.todo = <<>> /\ HandOn(visit.got) /\ UNCHANGED <<down, shelf>>

-----------------------------------------------------------------------------

\* What each feed's discover() asks for, in order; a feed with one cached list
\* returns from it at once.
Asks(f, chain) ==
    CASE f = "dexscreener" -> <<"profiles">> \o SetToSeq(Batches)
      [] f = "gecko" -> <<"new", "trending">>
      [] f = "dexpaprika" -> <<"search">>
      [] f = "gmgn" -> <<chain>>
Shelf(f) == IF f = "dexscreener" THEN "profiles" ELSE "search"

Discover(f, chain) ==
    /\ visit = None
    /\ IF f \in {"dexscreener", "dexpaprika"} /\ Cached(Shelf(f))
         THEN /\ handed' = [feed |-> f, chain |-> chain, tokens |-> ApplyOptions(shelf[Shelf(f)].tokens, chain)]
              /\ UNCHANGED visit
         ELSE visit' = [feed |-> f, chain |-> chain, todo |-> Asks(f, chain), got |-> {}] /\ UNCHANGED handed
    /\ UNCHANGED <<down, shelf>>

\* TtlCache: an entry is dead when its time is up, however often it was read.
Expires ==
    /\ \E s \in Source : Cached(s)
    /\ shelf' = [s \in Source |-> IF shelf[s].left <= 1 THEN [tokens |-> {}, left |-> 0]
                                  ELSE [shelf[s] EXCEPT !.left = @ - 1]]
    /\ UNCHANGED <<down, visit, handed>>

Outage(s) == s \notin down /\ down' = down \cup {s} /\ UNCHANGED <<shelf, visit, handed>>
Repair == down # {} /\ down' = {} /\ UNCHANGED <<shelf, visit, handed>>

FeedGoesOn ==
    \/ ProfilesAnswer \/ SearchAnswers \/ GeckoDiscovers \/ GmgnDiscovers
    \/ \E pairs \in SUBSET Listed : BatchAnswers(pairs)
    \/ \E s \in {"new", "trending"} : PoolsAnswer(s)
    \/ \E c \in Chains : RankTokens(c)

FeedsNext ==
    \/ FeedGoesOn \/ Expires \/ Repair
    \/ \E f \in Feed, c \in Chains : Discover(f, c)
    \/ \E s \in Source \cup {"pairs"} : Outage(s)

\* The row is of the token, on the chain the token is said to be of.
Lists(r, t) == t.addr \in {r.addr, r.pool} /\ r.chain = t.chain

\* A feed hands on no token for a chain on which no service lists it: a pass labels
\* all of them with its own chain, and a DexScreener profile takes that of the pair
\* it is priced from (gecko-discovery-feed.ts:104-107, dexscreener-feed.ts:131-138,
\* gmgn-adapter.ts:625, robinhood-discovery.ts:56).
NeverRelabelled == \A t \in handed.tokens : t.chain = handed.chain /\ \E r \in Listed : Lists(r, t)

\* No feed reports more volume than was traded on the chain it names (an hour not
\* given may be taken as the day's average), for whichever window a row's bare
\* volume was.  And a token of the enriched listing has the figures of one pair of
\* that chain, not of one chain under the name of another, or it has none and says
\* so, unless its address was listed again; also from the cache
\* (gmgn-adapter.ts:214-244, dexscreener-feed.ts:106-156).
Volumes(tokens) ==
    \A t \in tokens : \E r \in Listed :
        Lists(r, t) /\ t.h24 <= Truth[r.pool].h24 /\ t.h1 <= Max({Truth[r.pool].h1, Truth[r.pool].h24 \div 24})
ReadOrMarked(t) ==
    \/ (t.away \/ t.again) /\ t.h1 = 0 /\ t.h24 = 0
    \/ \E r \in Listed : Lists(r, t) /\ t.h1 = Truth[r.pool].h1 /\ t.h24 = Truth[r.pool].h24
FiguresAreHonest ==
    /\ Volumes(handed.tokens)
    /\ handed.feed = "dexscreener" => \A t \in handed.tokens : ReadOrMarked(t)
    /\ visit.feed = "gmgn" => \A c \in Chains, i \in Interval, shown \in SUBSET {"h24", "h1", "bare"} :
          Volumes(FetchRank(c, i, shown) \cup FetchHotSearches(c, shown) \cup FetchTrenches(c, shown))

\* What the listings hand on is what was traded where they say: NeverRelabelled
\* and FiguresAreHonest.
ListingsAreHonest == NeverRelabelled /\ FiguresAreHonest

\* Once the services answer again a feed that keeps being asked hands tokens on
\* again: an outage is kept for one TTL at most (gecko-discovery-feed.ts:119-136,
\* gmgn-adapter.ts:644-652, ttl-cache.ts:44-60).
FeedsRecover == <>[](down = {}) => <>[](handed.feed # "none" => handed.tokens # {})

=============================================================================
