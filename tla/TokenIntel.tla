----------------------------- MODULE TokenIntel -----------------------------
(***************************************************************************)
(* What a screening pass learns about tokens it already heard of: GMGN's   *)
(* security audit and trade feed, the smart-money accumulation built from  *)
(* it, and the dedupe of GMGN's own candidates.  A trade is a record with  *)
(* a row number of its own.                                                *)
(***************************************************************************)
EXTENDS MarketFeeds

CONSTANTS
    Addr,                    \* tokens GMGN lists
    Cool, Forget,            \* dedupe: suppressed for Cool ticks, dropped after Forget
    TradeLists,              \* per kind, what the trade feed may answer
    MinWallets, MinBuy,      \* minTrackWallets, minTrackBuyUsd
    TrackFresh,              \* trackFreshMinutes in ticks
    TrackTtl,                \* ticks the trade feed is cached
    Horizon,                 \* bound on the clock
    AuditTtl, MaxTax         \* ticks an audit is cached; the tax the gate allows

Kinds == {"smartmoney", "kol"}

\* A wallet at least is asked for, and a tax that is high is more than the gate allows.
ASSUME IntelAssumption ==
    /\ MinWallets \in Nat \ {0} /\ {TrackFresh, Horizon} \subseteq Nat /\ Horizon > 0
    /\ \A k \in Kinds : \A list \in TradeLists[k] : \A t \in list : t.at \in Nat
    /\ AuditTtl \in Nat \ {0} /\ MaxTax \in 0..98

VARIABLES
    now,                     \* the clock, for the trade feed; stops at Horizon
    gmgn,                    \* the API answers
    seen,                    \* dedupe: address -> ticks since it was offered, -1 for never
    offered,                 \* what the last collectCandidates returned
    feed,                    \* kind -> [list, left]: the cached trade feed
    watched,                 \* the last track candidates
    trades,                  \* the trades they were taken from
    audits,                  \* address -> [said, left]: the cached security answer
    turned,                  \* address -> ticks since it turned dangerous, -1 for never
    cleared                  \* tokens whose last audit in this tick passed

trackVars == <<now, seen, offered, feed, watched, trades>>
auditVars == <<audits, turned, cleared>>
intelVars == <<trackVars, auditVars, gmgn>>

Empty == [list |-> {}, left |-> 0]

IntelInit ==
    /\ now = 1 /\ gmgn \in BOOLEAN /\ seen = [a \in Addr |-> -1] /\ offered = {}
    /\ feed = [k \in Kinds |-> Empty] /\ watched = {} /\ trades = {}

-----------------------------------------------------------------------------
(* Candidates of the pass                                                  *)

Suppressed(a) == seen[a] >= 0 /\ seen[a] < Cool

\* dedupe: only the tokens it lets through are noted.
Dedupe(tokens) ==
    /\ offered' = {a \in tokens : ~Suppressed(a)}
    /\ seen' = [a \in Addr |-> IF a \in offered' THEN 0 ELSE seen[a]]

\* collectCandidates: rank, finished trenches and hot searches, each [] on failure.
CollectCandidates ==
    /\ Dedupe(IF gmgn THEN Addr ELSE {})
    /\ UNCHANGED <<now, gmgn, feed, watched, trades>>

-----------------------------------------------------------------------------
(* The trade feed                                                          *)

\* fetchTrackTrades keeps the rows that name a token, newest first; their order
\* matters only to the count of sellers, which nothing reads.
NamedTrades(list) == {t \in list : t.token # "none"}
FetchTrackTrades(k, list) == IF feed[k].left > 0 THEN feed[k].list ELSE IF gmgn THEN NamedTrades(list) ELSE {}
KeptTrades(k, list) ==
    IF feed[k].left = 0 /\ gmgn THEN [list |-> NamedTrades(list), left |-> TrackTtl] ELSE feed[k]

\* buildTrackAccumulation for one token, as far as a candidate depends on it: buyers
\* are counted once each.
Accumulated(list, token) ==
    LET buys == {t \in list : t.token = token /\ t.side = "buy"}
    IN  [buyWallets |-> Cardinality({t.maker : t \in buys}), buyUsd |-> MapThenSumSet(LAMBDA t : t.usd, buys),
         lastBuy |-> Max({0} \cup {t.at : t \in buys})]

\* collectTrackCandidates: enough wallets, enough money, and lately; fetchTokenInfo
\* gives null for all of them when GMGN does not answer.
TrackCandidates(list) ==
    {a \in Addr :
        LET acc == Accumulated(list, a)
        IN  /\ gmgn /\ acc.buyWallets >= MinWallets /\ acc.buyUsd >= MinBuy
            /\ now - acc.lastBuy <= TrackFresh}

\* collectTrackAccumulation, then the candidates of it.
CollectTrack ==
    /\ \E sm \in TradeLists["smartmoney"], kol \in TradeLists["kol"] :
          LET list == FetchTrackTrades("smartmoney", sm) \cup FetchTrackTrades("kol", kol)
          IN  /\ \A t \in sm \cup kol : t.at <= now
              /\ feed' = [k \in Kinds |-> KeptTrades(k, IF k = "kol" THEN kol ELSE sm)]
              /\ watched' = TrackCandidates(list) /\ trades' = list
    /\ UNCHANGED <<now, gmgn, seen, offered>>

\* A minute passes: caches age, the dedupe forgets; what a pass found is spent.
IntelTick ==
    /\ now' = Min({now + 1, Horizon})
    /\ feed' = [k \in Kinds |-> IF feed[k].left <= 1 THEN Empty ELSE [feed[k] EXCEPT !.left = @ - 1]]
    /\ seen' = [a \in Addr |-> IF seen[a] < 0 \/ seen[a] >= Forget THEN -1 ELSE seen[a] + 1]
    /\ offered' = {} /\ watched' = {} /\ trades' = {}
    /\ UNCHANGED gmgn

GmgnTurns ==
    /\ gmgn' = ~gmgn /\ UNCHANGED <<now, seen, offered, feed, watched, trades>>

IntelNext == CollectCandidates \/ CollectTrack \/ IntelTick \/ GmgnTurns

\* However often passes run, a token GMGN keeps listing is offered again and again
\* while GMGN answers: the dedupe never locks it out (gmgn-meme-helpers.ts:60-81).
ListedComesBack == <>[]gmgn => \A a \in Addr : []<>(a \in offered)

\* A track candidate was bought by as many different wallets as configured, and
\* by one of them within the window, also when the feed came from the cache
\* (robinhood-screening-agent.ts:802-843, gmgn-meme-helpers.ts:291-335).
TrackIsBacked ==
    \A a \in watched :
        LET buys == {t \in trades : t.token = a /\ t.side = "buy"}
        IN  /\ Cardinality({t.maker : t \in buys}) >= MinWallets
            /\ \E t \in buys : now - t.at <= TrackFresh

-----------------------------------------------------------------------------
(* Security audits                                                         *)

\* What fetchTokenSecurity reads out of an answer: what is not said is harmless.
Audit(d) ==
    [honeypot |-> "honeypot" \in d, blacklist |-> "blacklist" \in d, locked |-> "locked" \in d,
     tax |-> IF "taxed" \in d THEN 99 ELSE 0]

\* securityAuditGate: no audit is a refusal.
SecurityAuditGate(answers) ==
    \E x \in {Audit(d) : d \in answers} : ~x.honeypot /\ ~x.blacklist /\ ~x.locked /\ x.tax <= MaxTax

KeptAudit(a, answer) == IF audits[a].left = 0 /\ gmgn THEN [said |-> answer, left |-> AuditTtl] ELSE audits[a]

\* The cache is shared by every caller; a failure is null and is not kept.
FetchTokenSecurity(a, answer) ==
    /\ audits' = [audits EXCEPT ![a] = KeptAudit(a, answer)]
    /\ cleared' = IF SecurityAuditGate(IF audits'[a].left > 0 THEN {audits'[a].said} ELSE {})
                   THEN cleared \cup {a} ELSE cleared \ {a}

AuditInit ==
    /\ gmgn \in BOOLEAN /\ turned = [a \in Addr |-> -1] /\ cleared = {}
    /\ audits = [a \in Addr |-> [said |-> {}, left |-> 0]]

\* The environment: a token turns dangerous, and from then on GMGN says so.
Turns(a) == turned[a] = -1 /\ turned' = [turned EXCEPT ![a] = 0] /\ UNCHANGED <<gmgn, audits, cleared>>

AuditAsked(a) ==
    /\ \E danger \in {"honeypot", "blacklist", "locked", "taxed"} :
          FetchTokenSecurity(a, IF turned[a] >= 0 THEN {danger} ELSE {})
    /\ UNCHANGED <<gmgn, turned>>

AuditTick ==
    /\ audits' = [a \in Addr |-> IF audits[a].left <= 1 THEN [said |-> {}, left |-> 0]
                                 ELSE [audits[a] EXCEPT !.left = @ - 1]]
    /\ turned' = [a \in Addr |-> IF turned[a] < 0 THEN -1 ELSE Min({turned[a] + 1, AuditTtl + 1})]
    /\ cleared' = {} /\ UNCHANGED gmgn

AuditNext ==
    \/ AuditTick
    \/ gmgn' = ~gmgn /\ UNCHANGED <<turned, audits, cleared>>
    \/ \E a \in Addr : Turns(a) \/ AuditAsked(a)

\* A token is cleared on an answer at most AuditTtl old: one that turned
\* dangerous, and was reported so, is refused from then on, whoever asked for its
\* audit in between and whether or not GMGN answers
\* (gmgn-adapter.ts:420-449, gmgn-meme-helpers.ts:208-226).
ClearanceLapses == \A a \in cleared : turned[a] < AuditTtl

-----------------------------------------------------------------------------

MarketNext ==
    \/ FeedsNext /\ UNCHANGED intelVars
    \/ IntelNext /\ UNCHANGED <<feedVars, auditVars>>
    \/ AuditNext /\ UNCHANGED <<feedVars, trackVars>>
MarketSpec == FeedsInit /\ IntelInit /\ AuditInit /\ [][MarketNext]_<<feedVars, intelVars>>

\* What is told of a market is true: ListingsAreHonest for the listings,
\* TrackIsBacked and ClearanceLapses for what GMGN says of tokens, also from a cache.
MarketIsTrue == ListingsAreHonest /\ TrackIsBacked /\ ClearanceLapses

=============================================================================
