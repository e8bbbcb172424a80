------------------------------ MODULE MCServices ------------------------------
(* What the bot asks other services for, on small instances, one at a time.    *)
(* "probe" and "lag": the RPC hosts; "budget": the governor; "keys" and        *)
(* "queue": the key pool and GMGN's queue; "walk" and "scan": the chain feeds; *)
(* "market" in the form of a feed's name: the listings; "track" and "audit":   *)
(* what GMGN says of tokens; "tape" and "ingress": the streams.                *)
EXTENDS RpcPool, Providers, ChainFeeds, MarketFeeds, TokenIntel, Tapes

VARIABLE scope

providerVars == <<poolVars, govVars, keyVars>>
chainVars == <<walkVars, scanVars>>
marketVars == <<feedVars, intelVars>>
streamVars == <<tapeVars, ingressVars>>
mcvars == <<providerVars, chainVars, marketVars, streamVars, scope>>

MCEndpoints == <<"a", "b">>
MCKeyOf == [k \in 0..2 |-> IF k = 0 THEN "spent" ELSE IF k = 1 THEN "blocked" ELSE "good"]

\* Five listed pools: one whose token's address GeckoTerminal prefixes, one without
\* a base token, one on a chain the bot does not trade, and one token on two
\* chains; they need two enrichments.
Row(addr, onPool, chain, base, known, named) ==
    [addr |-> addr, pool |-> onPool, chain |-> chain, base |-> base, net |-> known, named |-> named]
MCListed ==
    {Row("a", "pa", "sol", "prefixed", FALSE, TRUE), Row("b", "pb", "base", "raw", TRUE, TRUE),
     Row("b", "pe", "sol", "raw", TRUE, TRUE),
     Row("c", "pc", "base", "none", TRUE, TRUE), Row("d", "pd", "tron", "raw", TRUE, FALSE)}
MCTruth == [x \in {"pa", "pb", "pc", "pd", "pe"} |->
               IF x = "pe" THEN [h1 |-> 1, h6 |-> 2, h24 |-> 24] ELSE [h1 |-> IF x = "pb" THEN 0 ELSE 4, h6 |-> 12, h24 |-> 48]]
MCBatchOf == [a \in {"a", "b", "c", "d"} |-> IF a = "a" THEN "batch 1" ELSE "batch 2"]
MCAsks(f) ==
    CASE f = "dexscreener" -> {"profiles", "pairs"} [] f = "gecko" -> {"new", "trending"}
      [] f = "gmgn" -> Chains [] OTHER -> {"search"}

Trade(row, addr, maker, side, at) == [row |-> row, token |-> addr, maker |-> maker, side |-> side, at |-> at, usd |-> 2]
MCTradeLists ==
    [k \in Kinds |->
        IF k = "kol" THEN {{}, {Trade(1, "a", "w2", "buy", 2), Trade(2, "b", "w1", "sell", 1)}}
        ELSE {{Trade(3, "a", "w1", "buy", 1), Trade(4, "a", "w1", "buy", 1), Trade(5, "none", "w1", "buy", 1)},
              {Trade(3, "a", "w1", "sell", 1), Trade(4, "a", "w1", "buy", 2), Trade(5, "b", "w3", "buy", 3)}}]

\* Two deliveries, one with a failed transaction and one with no launch in it.
MCDeliveries == [r \in {1, 2} |-> IF r = 1 THEN <<"m1", "failed", "m2">> ELSE <<"other", "m2", "m3">>]

-----------------------------------------------------------------------------

MCInit ==
    /\ PoolInit /\ GovInit /\ KeyInit /\ WalkInit /\ ScanInit /\ FeedsInit /\ IntelInit /\ AuditInit
    /\ TapeInit /\ IngressInit
    /\ scope \in {"probe", "lag", "budget", "keys", "queue", "walk", "scan", "track", "audit", "tape", "ingress"} \cup Feed
    /\ scope \notin {"track", "audit"} => gmgn
    /\ scope # "tape" => kind = "pumpdev"

InProviders == UNCHANGED <<chainVars, marketVars, streamVars, scope>>
InChains == UNCHANGED <<providerVars, marketVars, streamVars, scope>>
InMarket == UNCHANGED <<providerVars, chainVars, streamVars, scope>>
InStreams == UNCHANGED <<providerVars, chainVars, marketVars, scope>>

InPool == scope \in {"probe", "lag"} /\ UNCHANGED <<govVars, keyVars>> /\ InProviders
PoolSteps ==
    \/ ProbeBegins \/ ProbeEnds \/ CalmsDown \/ Tick
    \/ \E h \in Host, a \in {"valid", "wrong", "dead"} : ProbeAnswers(h, a, 0)
    \/ scope = "probe" /\ \E h \in Host, again \in {0, 1} : ProbeAnswers(h, "limited", again)
    \/ scope = "probe" /\ Calling
    \/ scope = "lag" /\ LagChecking

InWalk == scope = "walk" /\ UNCHANGED scanVars /\ InChains

InFeeds == scope \in Feed /\ UNCHANGED intelVars /\ InMarket
FeedSteps ==
    \/ \E c \in Chains : Discover(scope, c)
    \/ FeedGoesOn \/ Expires \/ Repair
    \/ \E s \in MCAsks(scope) : Outage(s)

InTrack == scope = "track" /\ UNCHANGED <<feedVars, auditVars>> /\ InMarket

MCNext ==
    \/ InPool /\ PoolSteps
    \/ scope = "budget" /\ GovNext /\ UNCHANGED <<poolVars, keyVars>> /\ InProviders
    \/ scope = "keys" /\ KeyNext /\ UNCHANGED <<poolVars, govVars>> /\ InProviders
    \/ scope = "queue" /\ GmgnNext /\ UNCHANGED <<poolVars, govVars>> /\ InProviders
    \/ InWalk /\ WalkNext
    \/ scope = "scan" /\ ScanNext /\ UNCHANGED walkVars /\ InChains
    \/ InFeeds /\ FeedSteps
    \/ InTrack /\ IntelNext
    \/ scope = "audit" /\ AuditNext /\ UNCHANGED <<feedVars, trackVars>> /\ InMarket
    \/ scope = "tape" /\ TapeNext /\ UNCHANGED ingressVars /\ InStreams
    \/ scope = "ingress" /\ IngressNext /\ UNCHANGED tapeVars /\ InStreams

-----------------------------------------------------------------------------

\* What no part can put off: a fetch answers, time passes, a scan or a tape goes
\* on; passes and probes come round again; what is cached or under way ends.  A
\* part is alone in its scope, so fairness of a disjunction is fairness of each.
GoesOn ==
    \/ scope = "queue" /\ GmgnAnswer /\ UNCHANGED <<poolVars, govVars>> /\ InProviders
    \/ scope = "scan" /\ ScanStep /\ UNCHANGED walkVars /\ InChains
    \/ scope = "tape" /\ TapeGoesOn /\ UNCHANGED ingressVars /\ InStreams
    \/ InPool /\ Tick
    \/ InFeeds /\ FeedGoesOn
    \/ InTrack /\ IntelTick
ComesRound ==
    \/ InPool /\ ProbeBegins
    \/ InFeeds /\ \E c \in Chains : Discover(scope, c)
    \/ InTrack /\ CollectCandidates
Ends == (InPool /\ ProbeEnds) \/ (InFeeds /\ Expires)

\* Nothing forces a new call, a stop or the end of an outage.
MCFairness ==
    /\ WF_mcvars(GoesOn) /\ WF_mcvars(ComesRound) /\ WF_mcvars(Ends)
    /\ \A h \in Host : WF_mcvars(InPool /\ ProbeAnswers(h, "valid", 0))

MCSpec == MCInit /\ [][MCNext]_mcvars /\ MCFairness

-----------------------------------------------------------------------------

\* After an outage providers are used again: the RPC hosts by PoolHeals, GMGN's
\* queue by GmgnDrains (rpc-failover.ts, gmgn-rest-client.ts).
ProvidersRecover == PoolHeals /\ GmgnDrains

\* What discovers tokens recovers too: the listings by FeedsRecover, the log scan
\* by ScansEnd, a reconnecting tape by TapeReturns and a token GMGN keeps listing
\* by ListedComesBack.
DiscoveryRecovers ==
    /\ FeedsRecover /\ ScansEnd
    /\ scope = "tape" => TapeReturns
    /\ scope = "track" => ListedComesBack

\* What failed is used again: ProvidersRecover and DiscoveryRecovers.
ServicesRecover == ProvidersRecover /\ DiscoveryRecovers

=============================================================================
