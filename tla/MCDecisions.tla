------------------------------ MODULE MCDecisions ------------------------------
(* The decision chain on bounded inputs, one scope per behaviour.             *)
(* "gate": the consensus engine over a few candidates of two symbols.          *)
(* "finalist": the evidence about a finalist gets worse one field at a time,   *)
(* and the verdict before and after a change is compared; "row": the same for  *)
(* a token row in front of the meme agent's gates, with floors that may be     *)
(* raised too.  What limits a trade: "risk", the latch, the kill switch and    *)
(* the sentinel; "operator", the operator's switches; "proposal", a proposed   *)
(* entry against the portfolio checks and the shadow evaluation; "quote", an   *)
(* order as the execution gates size and simulate it.  What decisions are      *)
(* learnt from: "strategy", the strategy files and the engine; "record" and    *)
(* "odds", a finalist's card and snapshot and what is learnt from paper        *)
(* trades; "traders", identities and leaderboards; "schema" and "history",     *)
(* Postgres.                                                                   *)
EXTENDS Swarm, RiskControls, StrategyEngine, Evidence, TraderGraph, DurableHistory, TLC

VARIABLE scope

-----------------------------------------------------------------------------
(* What limits a trade                                                     *)

controlVars == <<riskVars, proposed, quoted>>

ControlScope == {"risk", "operator", "proposal", "quote"}

MCLimits == {50, 150}
MCDrops == {-10, 30, 60}
MCAmounts == {100, 500}
MCNames == {"meme", "alpha"}

-----------------------------------------------------------------------------
(* Proposed entries                                                        *)

Position(id, asset, chain, usd, tag) ==
    [id |-> id, asset |-> asset, chain |-> chain, usd |-> usd, tags |-> tag, deployer |-> id]

Books ==
    {{}, {Position(1, "cat", "sol", 90, {"cats"})},
     {Position(1, "dog", "sol", 300, {}), Position(2, "cat", "sol", 5, {"cats"})},
     {Position(i, "dog", "base", 20, {"cats"}) : i \in 1..3}}

Profile(conf, dayLoss, kelly) ==
    [conf |-> conf, dayLimit |-> IF dayLoss = Nothing THEN Nothing ELSE 50, dayLoss |-> dayLoss, cap |-> Nothing,
     bankroll |-> IF kelly = Nothing THEN Nothing ELSE 1000,
     kelly |-> [p |-> kelly, ratio |-> 2, fraction |-> 25]]

Proposals ==
    {[asset |-> "cat", chain |-> "sol", usd |-> usd, tags |-> tags, atr |-> atr, profile |-> Profile(conf, loss, kelly)] :
        usd \in {10, 100, 120}, tags \in {{}, {"cats"}}, atr \in {0, 1, 20}, conf \in {Nothing, 70, 80, 100},
        loss \in {Nothing, 0}, kelly \in {Nothing, 30, 60}}

\* An entry and the same under tighter profiles, in portfolios of two values.
Entries(p, positions) ==
    {[p |-> [p EXCEPT !.profile.dayLoss = l, !.profile.cap = c], book |-> positions, total |-> t] :
        l \in IF p.profile.dayLoss = Nothing THEN {Nothing} ELSE {0, 45, 50}, c \in {Nothing, 0, 60}, t \in {1, 1000}}

\* Around the depths where the scale bends, and a pool at the limit of its order
\* next to one ten dollars deeper.
Quotes(wish) ==
    [wish : {wish}, conf : {0, 80, 84, 90, 95, 100},
     liq : {400, 500, 501, 508, 509, 600, 2000, 4500, 4999, 5000, 6000}]
Wishes == {50, 100, 400, 508, 1900, 2300}

-----------------------------------------------------------------------------

ControlsInit ==
    /\ RiskInit
    /\ \/ scope \notin {"proposal", "quote"} /\ proposed = {} /\ quoted = {}
       \/ scope = "proposal" /\ \E p \in Proposals, b \in Books : proposed = Entries(p, b) /\ quoted = {}
       \/ scope = "quote" /\ \E w \in Wishes : quoted = Quotes(w) /\ proposed = {}

ControlsNext ==
    /\ \/ scope = "risk" /\ (Controls \/ EmergencyCloseAll \/ Restart)
       \/ scope = "operator" /\ Operator
    /\ UNCHANGED <<proposed, quoted>>

-----------------------------------------------------------------------------
(* What decisions are learnt from                                          *)

recordVars == <<strategyVars, evidenceVars, oddsVars, traderVars, schemaVars, historyVars>>

RecordScope == {"strategy", "record", "odds", "traders", "schema", "history"}

MCBehaviour ==
    [c \in Code |-> CASE c = "loops" -> "loops" [] c = "throws" -> "throws" [] c = "torn" -> "shapeless" [] OTHER -> "fine"]
MCPairs == <<"a", "b">>
MCBucketOf == [t \in Trades |-> IF t = "t3" THEN "high" ELSE "low"]
Listing(h, ws, v) == [handle |-> h, wallets |-> ws, volume |-> v]
MCAnswers ==
    {<<Listing("ann", <<"s1", "e1">>, 2)>>,
     <<Listing("ann", <<"s1">>, 1), Listing("bob", <<"s2", "e1">>, 1)>>,
     <<Listing("bob", <<>>, 1), Listing("cat", <<>>, 1), Listing("", <<"e1">>, 1)>>}
MCFreshFor == [w \in Window |-> IF w = "24h" THEN 1 ELSE 2]
MCMigrations == <<"observations", "decisions", "paper", "traders", "ledger">>

RecordsInit ==
    /\ StrategyInit /\ EvidenceInit /\ OddsInit /\ TraderInit /\ SchemaInit /\ HistoryInit
    /\ scope # "history" => store = "graph"
    /\ scope # "strategy" => booting = "done"

RecordsNext ==
    \/ /\ scope = "strategy" /\ StrategyNext
       /\ UNCHANGED <<evidenceVars, oddsVars, traderVars, schemaVars, historyVars>>
    \/ /\ scope = "record" /\ EvidenceNext
       /\ UNCHANGED <<strategyVars, traderVars, schemaVars, historyVars>>
    \/ /\ scope = "odds" /\ (OddsNext \/ \E b \in {"low", "high"} : CalibratedDecision(b))
       /\ UNCHANGED <<strategyVars, evidenceVars, traderVars, schemaVars, historyVars>>
    \/ /\ scope = "traders" /\ TraderNext
       /\ UNCHANGED <<strategyVars, evidenceVars, oddsVars, schemaVars, historyVars>>
    \/ /\ scope = "schema" /\ SchemaNext
       /\ UNCHANGED <<strategyVars, evidenceVars, oddsVars, traderVars, historyVars>>
    \/ /\ scope = "history" /\ HistoryNext
       /\ UNCHANGED <<strategyVars, evidenceVars, oddsVars, traderVars, schemaVars>>

-----------------------------------------------------------------------------
(* The consensus gate                                                      *)

mcvars == <<vars, controlVars, recordVars, study, row, scope>>

Slate(m, f, sec, sent, crit) ==
    [momentum |-> m, flow |-> f, security |-> sec, sentiment |-> sent, critic |-> crit]

NoSlate == Slate(None, None, None, None, None)

Candidate(symbol, slots, conf) ==
    [symbol |-> symbol, slots |-> slots, conf |-> conf, liq |-> 30, vol |-> 20, social |-> 90,
     audited |-> TRUE, calibrated |-> None, noise |-> 0, dir |-> "BUY", buy |-> 0, sell |-> 0, strategy |-> None]

Strong == Candidate("aaa", Slate(95, 90, 100, 80, 90), 95)

MCCandidates ==
    LET strong == Strong
        weak == Candidate("aaa", Slate(40, 50, 90, None, None), 60)
    IN  {strong, weak,
         [strong EXCEPT !.slots.security = 50],
         [strong EXCEPT !.slots = Slate(95, None, 90, None, None), !.symbol = "bbb"],
         [weak EXCEPT !.slots = NoSlate, !.conf = 0, !.social = 0, !.symbol = "bbb"],
         [weak EXCEPT !.slots = NoSlate, !.conf = 0, !.social = 100, !.liq = 10, !.strategy = 80, !.symbol = "bbb"],
         [strong EXCEPT !.calibrated = 85, !.noise = 80, !.buy = 1, !.symbol = "bbb"],
         [strong EXCEPT !.buy = 1, !.sell = 2, !.symbol = "bbb"],
         Candidate("bbb", Slate(91, 69, 74, None, None), 95)}

\* The defaults, at which one success lifts the last candidate over the floor,
\* and eight successes without a loss, at which security weighs least.
MCLearned == {Default, [smart |-> 43, liq |-> 33, dev |-> 20]}

-----------------------------------------------------------------------------
(* The finalist under study                                                *)

Social(visits, mentions, paid) ==
    [visits |-> visits, square |-> 0, farm |-> FALSE, mentions |-> mentions, paid |-> paid, flow |-> FALSE]

Clean ==
    [age |-> 20, bundler |-> 0, rats |-> 0, dev |-> 0, wash |-> FALSE, top10 |-> 10, rug |-> 0, closed |-> FALSE,
     liq |-> 60, holders |-> 400, visits |-> 50, square |-> 0, evm |-> TRUE, coinstats |-> 0,
     code |-> "absent", rpcCode |-> "clean", pinned |-> TRUE, roundTrip |-> TRUE, slips |-> FALSE,
     mint |-> FALSE, freeze |-> FALSE, deployer |-> "good",
     bought |-> 0, sold |-> 0, closes |-> 0, wallet |-> {}, buys |-> {}, gmgn |-> {}, pools |-> {}, candles |-> {},
     social |-> {}, critic |-> None, rubric |-> {}]

Finalists ==
    {[Clean EXCEPT !.age = age, !.bought = f[1], !.sold = f[2], !.closes = f[3], !.pools = {"deepest"}, !.candles = k, !.social = s,
                   !.critic = c, !.deployer = IF k = {} THEN "absent" ELSE "good",
                   !.buys = IF f[1] > 0 THEN {[wallet |-> w, usd |-> 5] : w \in 1..3} ELSE {},
                   !.wallet = IF f[2] > 0 THEN {[net |-> 90, top10 |-> 10, makers |-> 6, bundler |-> 0]} ELSE {},
                   !.rubric = IF c # None
                              THEN {[concentration |-> 90, liquidity |-> 100, spike |-> None, volatility |-> 80]}
                              ELSE {}] :
        age \in {5, 60}, f \in {<<0, 0, 0>>, <<10, 0, 0>>, <<10, 5, 1>>},
        k \in {{}, {[closes |-> 20, score |-> 92]}}, s \in {{}, {Social(100, 4, 1)}},
        c \in {None, 90}}

\* One sign short of a certain bot.
Suspect == [Clean EXCEPT !.bundler = 40, !.dev = 15, !.wash = TRUE, !.deployer = "absent"]

\* The next worse value of each field the security slot is built from.
Worse ==
    [age |-> (60 :> 5), bundler |-> (0 :> 27 @@ 27 :> 40), rats |-> (0 :> 15), dev |-> (0 :> 15),
     wash |-> (FALSE :> TRUE), top10 |-> (10 :> 25 @@ 25 :> 40), rug |-> (0 :> 20), closed |-> (FALSE :> TRUE),
     liq |-> (60 :> 20), holders |-> (400 :> 100), coinstats |-> (0 :> 1),
     code |-> ("absent" :> "denied"), rpcCode |-> ("clean" :> "denied"), roundTrip |-> (TRUE :> FALSE),
     mint |-> (FALSE :> TRUE), freeze |-> (FALSE :> TRUE), deployer |-> ("good" :> "rugged")]

MaxWorse == 2

Study(e, quant, n) == [e |-> e, quant |-> quant, n |-> n]

NoStudy == Study(Clean, 75, 0)

Worsen ==
    \E f \in DOMAIN Worse :
        /\ study.n < MaxWorse /\ study.e[f] \in DOMAIN Worse[f]
        /\ study' = Study([study.e EXCEPT ![f] = Worse[f][@]], study.quant, study.n + 1)
        /\ WorseEvidence(study.e, study'.e)

-----------------------------------------------------------------------------
(* The row under study; fees are in USD.                                   *)

MCFloors ==
    {[minVol |-> ActiveFloor(50, f[1], f[2]), minFreshVol |-> 3, minLiq |-> 10, minMcap |-> 100, minFee |-> fee,
      minAge |-> 0, maxRug |-> 30, maxRat |-> 30, maxTop10 |-> 40, pass |-> 70] :
        f \in {<<None, None>>, <<90, 15>>}, fee \in {0, 500}}

\* What the operator may set, and a stricter value of each: one is out of range,
\* and the fresh floor is not on the list.
Settable ==
    [minVol |-> [min |-> 1, max |-> 100000], minLiq |-> [min |-> 1, max |-> 100000],
     minMcap |-> [min |-> 1, max |-> 1000000], minFee |-> [min |-> 0, max |-> 1000000],
     minAge |-> [min |-> 0, max |-> 168], maxRug |-> [min |-> 1, max |-> 100], maxRat |-> [min |-> 1, max |-> 100],
     maxTop10 |-> [min |-> 1, max |-> 100], pass |-> [min |-> 50, max |-> 99]]
Stricter ==
    [minVol |-> 200, minFreshVol |-> 9, minLiq |-> 30, minMcap |-> 500, minFee |-> 9000, minAge |-> 1,
     maxRug |-> 0, maxRat |-> 5, maxTop10 |-> 5, pass |-> 95]

Figures(vol, liq, mcap) == [vol |-> vol, liq |-> liq, mcap |-> mcap]
NoFigures == Figures(0, 0, 0)

Rows ==
    {[source |-> src, exchange |-> "dex", fresh |-> new, vol |-> m.vol, liq |-> m.liq, mcap |-> m.mcap, vol24 |-> 0,
      wash |-> FALSE, honeypot |-> FALSE, tax |-> 0, rug |-> 0, insider |-> 0, top10 |-> 10, fee |-> 10, age |-> 0,
      unavailable |-> m = NoFigures /\ ~new, price |-> 0, smart |-> smart, cto |-> smart = 1, kol |-> 0, closed |-> smart = 1,
      dev |-> 0, up5m |-> 1, up1h |-> 40, buyPct |-> 70, visits |-> 0] :
        src \in {"gmgn", "dexscreener"}, new \in BOOLEAN,
        m \in {NoFigures, Figures(20, 5, 50), Figures(20, 40, 200), Figures(60, 40, 200)},
        smart \in {0, 1, 2}}

\* What the batch says of a fresh pair: a price alone, a thin pool, a deep one,
\* and for a pair it does not list the volume of another source.
Batches ==
    {{}, {[price |-> 1, liq |-> None, vol |-> None, vol24 |-> None]},
     {[price |-> 1, liq |-> 5, vol |-> None, vol24 |-> 0]}, {[price |-> 1, liq |-> 40, vol |-> None, vol24 |-> 192]},
     {[price |-> None, liq |-> None, vol |-> 1, vol24 |-> None]}}

Served(data, audits, params, view, n) ==
    [data |-> data, evm |-> audits.evm, goplus |-> audits.goplus, gmgn |-> audits.gmgn, params |-> params,
     verdict |-> view, minsAgo |-> IF n = 0 THEN None ELSE 20, wallets |-> n, native |-> 100]

Audits ==
    {[evm |-> TRUE, goplus |-> {{}}, gmgn |-> {}], [evm |-> FALSE, goplus |-> {}, gmgn |-> {{}}]}

RowStudy(t, cfg, in, n) == [t |-> t, cfg |-> cfg, in |-> in, n |-> n]

\* No strategy; one that lowers a floor and doubts a backed token; a doubted cluster.
Views ==
    {[params |-> << >>, conf |-> None, n |-> 0], [params |-> [minVol |-> 10], conf |-> 40, n |-> 0],
     [params |-> << >>, conf |-> 0, n |-> 3]}

RowStudies ==
    {RowStudy(r[1], cfg, Served(r[2], audits, v.params, [skip |-> FALSE, conf |-> v.conf], v.n), 0) :
        r \in {r \in Rows \X Batches : FreshAtBirth(r[1]) \/ r[2] = {}}, cfg \in MCFloors, audits \in Audits, v \in Views}

\* The next worse value of each field of a row.
RowWorse ==
    [wash |-> (FALSE :> TRUE), honeypot |-> (FALSE :> TRUE), tax |-> (0 :> 20), rug |-> (0 :> 35),
     insider |-> (0 :> 35), top10 |-> (10 :> 45), fee |-> (10 :> 0), vol |-> (60 :> 20), liq |-> (40 :> 5),
     mcap |-> (200 :> 50)]

\* A fresh pair without any figure skips the floors, so worse figures are
\* compared for the others only.
RowWorsens ==
    \E f \in DOMAIN RowWorse :
        /\ f \in {"vol", "liq", "mcap"} => ~row.t.fresh
        /\ row.t[f] \in DOMAIN RowWorse[f]
        /\ row' = RowStudy([row.t EXCEPT ![f] = RowWorse[f][@]], row.cfg, row.in, row.n + 1)

FloorRises ==
    \E k \in DOMAIN Stricter :
        row' = RowStudy(row.t, UpdatedFloor(row.cfg, k, Stricter[k], Settable), row.in, row.n + 1)

AuditWorsens ==
    \E a \in {"goplus", "gmgn"} :
        /\ row.in[a] = {{}}
        /\ row' = RowStudy(row.t, row.cfg, [row.in EXCEPT ![a] = {{"honeypot"}}], row.n + 1)

NoRowStudy == CHOOSE r \in RowStudies : TRUE

-----------------------------------------------------------------------------

MCInit ==
    /\ scope \in {"gate", "finalist", "row"} \cup ControlScope \cup RecordScope
    /\ Init /\ ControlsInit /\ RecordsInit
    /\ \/ study = NoStudy /\ scope # "finalist"
       \/ /\ scope = "finalist"
          /\ \E e \in Finalists \cup {Suspect}, q \in {75, 100} :
                study = Study(e, q, 0) /\ (q = 100 \/ learned # Default => e.social = {} /\ (q = 75 \/ learned = Default))
    /\ scope # "finalist" => learned = Default
    /\ row \in IF scope = "row" THEN RowStudies ELSE {NoRowStudy}

InRow == scope = "row" /\ row.n = 0 /\ UNCHANGED study

MCNext ==
    \/ scope = "gate" /\ Next /\ UNCHANGED <<controlVars, recordVars, study, row, scope>>
    \/ scope = "finalist" /\ Worsen /\ UNCHANGED <<vars, controlVars, recordVars, row, scope>>
    \/ scope = "finalist" /\ study.n = 0 /\ Evaluate(Strong) /\ UNCHANGED <<controlVars, recordVars, study, row, scope>>
    \/ InRow /\ RowWorsens /\ Worsened(row, row') /\ UNCHANGED <<vars, controlVars, recordVars, scope>>
    \/ InRow /\ FloorRises /\ Worsened(row, row') /\ UNCHANGED <<vars, controlVars, recordVars, scope>>
    \/ InRow /\ AuditWorsens /\ Worsened(row, row') /\ UNCHANGED <<vars, controlVars, recordVars, scope>>
    \/ ControlsNext /\ UNCHANGED <<vars, recordVars, study, row, scope>>
    \/ RecordsNext /\ UNCHANGED <<vars, controlVars, study, row, scope>>

\* The slice explored of the gate: outcomes are registered before the first
\* candidate, one intent is registered at most, for the symbol of the strong
\* candidate and not next to a failing engine; one call closes, next to neither and
\* where only the other symbol is looked at.
Slice ==
    /\ learned' # learned => learned = Default
    /\ scope = "gate" /\ learned' # Default
         => /\ circuit' = [fails |-> 0, trippedAt |-> None] /\ \A s \in Symbols : intents'[s].at = None
            /\ held'[Strong.symbol] = NotHeld
    /\ circuit' # circuit => \A s \in Symbols : held[s] = NotHeld /\ intents[s].at = None
    /\ intents' # intents => circuit.trippedAt = None /\ \A s \in Symbols : intents[s].at = None /\ (s # Strong.symbol => intents'[s] = intents[s])

MCSpec == MCInit /\ [][MCNext]_mcvars

=============================================================================
