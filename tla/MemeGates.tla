------------------------------ MODULE MemeGates ------------------------------
(***************************************************************************)
(* The deterministic gates a token row meets in the meme agent's pass      *)
(* (src/agents/meme-robinhood/robinhood-screening-agent.ts and             *)
(* src/agents/shared/gmgn-meme-helpers.ts): configuration floors,          *)
(* graduation, prefilter, fresh-pair hydration and re-check, audits,       *)
(* signal detection, boosts, the evidence cap and the strategy blend.      *)
(*                                                                         *)
(* A row is a record of small integers: USD amounts in thousands, rates in *)
(* per cent, times in minutes, None for a field the source did not report. *)
(***************************************************************************)
EXTENDS Integers, FiniteSets

VARIABLE row   \* under examination: a token row, the floors in force, what the services answered

None == -1

Clamp100(x) == IF x < 0 THEN 0 ELSE IF x > 100 THEN 100 ELSE x
At(b, n) == IF b THEN n ELSE 0

-----------------------------------------------------------------------------
(* Configuration                                                           *)

\* An environment value is honoured only when it is a finite number >= 0.
EnvFloor(env, compiled) == IF env \in Nat THEN env ELSE compiled

\* Persisted runtime state wins over the environment, which wins over the default.
ActiveFloor(compiled, env, persisted) ==
    IF persisted # None THEN persisted ELSE EnvFloor(env, compiled)

\* set_screening_config: an unknown key or an out-of-range value leaves it as it was.
UpdatedFloor(cfg, key, value, spec) ==
    IF key \in DOMAIN spec /\ value \in spec[key].min .. spec[key].max
    THEN [cfg EXCEPT ![key] = value]
    ELSE cfg

\* The active strategy's prefilter parameters replace the floors they set.
StrategyConfig(cfg, params) ==
    [k \in DOMAIN cfg |-> IF k \in DOMAIN params /\ params[k] > 0 THEN params[k] ELSE cfg[k]]

\* The security thresholds of a caller that passes none.
GateDefaults(cfg) == [cfg EXCEPT !.maxRug = 30, !.maxRat = 30, !.maxTop10 = 40]

-----------------------------------------------------------------------------
(* Graduation and prefilter                                                *)

Volume24(t) == IF t.vol24 > 0 THEN t.vol24 ELSE IF t.vol > 0 THEN t.vol * 24 ELSE 0

Graduated(t) == t.source \in {"dexscreener", "dexpaprika"} \/ t.exchange = "dex"

FreshAtBirth(t) == t.fresh /\ t.vol = 0 /\ t.liq = 0 /\ t.mcap = 0

\* GMGN fields that fail the security gate; a field not reported is skipped.
SecurityFailures(t, cfg) ==
    {f \in {"wash", "honeypot", "tax", "rug", "insider", "top10"} :
        CASE f = "wash"     -> t.wash
          [] f = "honeypot" -> t.honeypot
          [] f = "tax"      -> t.tax # None /\ t.tax > 10
          [] f = "rug"      -> t.rug # None /\ t.rug >= cfg.maxRug
          [] f = "insider"  -> t.insider # None /\ t.insider >= cfg.maxRat
          [] OTHER          -> t.top10 # None /\ t.top10 >= cfg.maxTop10}

\* The market floors in the order the code tries them; "ok" when none binds.
MarketFloor(t, cfg) ==
    LET floor == IF t.fresh THEN cfg.minFreshVol ELSE cfg.minVol
    IN  IF t.vol < floor THEN "volume-floor"
        ELSE IF t.liq < cfg.minLiq THEN "liquidity-floor"
        ELSE IF t.source # "dexscreener" /\ t.mcap < cfg.minMcap THEN "marketcap-floor"
        ELSE "ok"

\* The fee gate; a missing native price is reported as "unavailable", so the
\* rejection is counted with the dead feeds.
FeeGate(t, cfg, native) ==
    IF cfg.minFee = 0 THEN "ok"
    ELSE IF t.fee = None THEN "fee-floor"
    ELSE IF native <= 0 THEN "feed-down"
    ELSE IF t.fee * native < cfg.minFee THEN "fee-floor"
    ELSE "ok"

AgeGate(t, cfg) ==
    IF cfg.minAge = 0 THEN "ok"
    ELSE IF t.age = None \/ t.age < cfg.minAge THEN "age-gate" ELSE "ok"

\* The bucket a row is rejected into, or "ok" (preFilterToken with the bucket
\* prefilterRejectionBucket reads off its reason).
PreFilter(t, cfg, native) ==
    LET steps == << IF t.unavailable /\ t.vol = 0 THEN "feed-down" ELSE "ok",
                    IF t.source = "dexscreener" THEN MarketFloor(t, cfg) ELSE "ok",
                    IF t.source = "dexscreener" THEN "ok" ELSE AgeGate(t, cfg),
                    IF t.source = "dexscreener" \/ FreshAtBirth(t) THEN "ok" ELSE MarketFloor(t, cfg),
                    IF t.source # "dexscreener" /\ SecurityFailures(t, cfg) # {} THEN "security" ELSE "ok",
                    IF t.source = "dexscreener" THEN "ok" ELSE FeeGate(t, cfg, native) >>
        bad == {i \in DOMAIN steps : steps[i] # "ok"}
    IN  IF bad = {} THEN "ok" ELSE steps[CHOOSE i \in bad : \A j \in bad : i <= j]

-----------------------------------------------------------------------------
(* Fresh pairs                                                             *)

\* The batch answer replaces what it carries; the market cap is never part of it.
Hydrate(t, data) ==
    IF ~t.fresh \/ data = {} THEN t
    ELSE LET d == CHOOSE x \in data : TRUE
         IN  [t EXCEPT !.price = IF d.price > 0 THEN d.price ELSE @,
                       !.liq = IF d.liq # None THEN d.liq ELSE @,
                       !.vol24 = IF d.vol24 # None THEN d.vol24 ELSE 0,
                       !.vol = IF d.vol # None THEN d.vol
                               ELSE IF d.vol24 > 0 THEN d.vol24 \div 24 ELSE @]

\* Mutant: only a pair with a known volume is tried again.
RevalidateOnVolume(t, cfg, native) ==
    IF t.fresh /\ t.vol > 0 THEN PreFilter(t, GateDefaults(cfg), native) ELSE "ok"

\* A hydrated fresh pair meets preFilterToken again, still with its fresh flag
\* and without the strategy's parameters.
Revalidate(t, cfg, native) ==
    IF t.fresh /\ (t.price > 0 \/ t.liq > 0 \/ t.vol24 > 0)
    THEN PreFilter(t, GateDefaults(cfg), native) ELSE "ok"

-----------------------------------------------------------------------------
(* Audits: {F} for an answer with the failures F, {} for no answer.         *)

\* GoPlus first on EVM, GMGN when GoPlus has no answer, GMGN alone on Solana;
\* with no answer from the last one asked the token is rejected.
AuditPasses(evm, goplus, gmgn) ==
    IF evm /\ goplus # {} THEN goplus = {{}} ELSE gmgn = {{}}

-----------------------------------------------------------------------------
(* Signal detection                                                        *)

Readouts(t) == At(t.smart >= 1, 1) + At(t.cto, 1) + At(t.kol >= 1, 1)

CtoScore(t) ==
    40 + At(t.closed \/ (t.dev # None /\ t.dev <= 500), 20) + At(t.smart >= 2, 15)
       + At(t.kol >= 1, 10) + At(Volume24(t) >= 100, 15) + At(t.age # None /\ t.age < 2, 10)

RevivalScore(t) ==
    45 + At(Volume24(t) >= 100, 15) + At(t.smart >= 2, 20) + At(t.closed, 20)

MomentumScore(t) ==
    At(t.up5m > 0, 15) + At(t.up1h > 30, 25) + At(t.buyPct > 60, 20)
    + At(Volume24(t) >= 100, 15) + At(t.smart >= 1, 15)
    + At(t.age # None /\ t.age < 2 /\ t.smart >= 1, 10)
    + At(t.top10 # None /\ t.top10 < 30, 10) + At(t.visits >= 200, 5)

Signal(type, score) == [type |-> type, conf |-> Clamp100(score)]
NoSignal == Signal("NONE", 0)

Detect(t) ==
    LET flowing == t.fresh /\ (t.vol > 0 \/ t.vol24 > 0 \/ t.liq > 0)
    IN  IF Readouts(t) = 0 /\ ~flowing THEN NoSignal
        ELSE IF t.cto /\ t.source = "gmgn" THEN Signal("CTO", CtoScore(t))
        ELSE IF t.age # None /\ t.age >= 4 /\ t.up1h > 50 THEN Signal("REVIVAL", RevivalScore(t))
        ELSE IF MomentumScore(t) > 0 THEN Signal("MOMENTUM", MomentumScore(t))
        ELSE NoSignal

\* minsAgo = None: the token has no GMGN signal event.
SignalBonus(minsAgo) ==
    IF minsAgo = None \/ minsAgo > 240 THEN 0
    ELSE IF minsAgo <= 30 THEN 15 ELSE IF minsAgo <= 120 THEN 10 ELSE 5

Boosted(sig, minsAgo) ==
    IF sig.type = "NONE" THEN sig ELSE Signal(sig.type, sig.conf + SignalBonus(minsAgo))

Clustered(sig, wallets) ==
    IF wallets >= 3 /\ sig.type # "NONE" THEN Signal(sig.type, sig.conf + 20) ELSE sig

\* capSignalConfidence: four points for every further readout of the same flow.
EvidenceCap(conf, readouts) ==
    IF conf <= 0 \/ readouts <= 1 THEN conf
    ELSE LET haircut == (readouts - 1) * 4
         IN  Clamp100(conf - (IF haircut > 25 THEN 25 ELSE haircut))

\* Detection, signal overlay, cluster boost and evidence cap, in this order.
Confidence(t, minsAgo, wallets) ==
    LET s == Clustered(Boosted(Detect(t), minsAgo), wallets)
        n == Readouts(t) + At(minsAgo # None, 1) + At(wallets >= 3, 1)
    IN  [s EXCEPT !.conf = EvidenceCap(s.conf, n)]

\* Strategy verdict: [skip, conf], conf None without an opinion.
Blend(conf, verdict) ==
    IF verdict.conf = None THEN conf ELSE (7 * conf + 3 * Clamp100(verdict.conf) + 5) \div 10

-----------------------------------------------------------------------------
(* One candidate, from the graduation check to the report. "in" holds what *)
(* the services answered: hydration data, audits, overlay age, cluster     *)
(* size, strategy verdict, native price and the chain family.              *)

Stage(t, cfg, in) ==
    LET h == Hydrate(t, in.data)
        s == Confidence(h, in.minsAgo, in.wallets)
    IN  IF ~Graduated(t) THEN "not-graduated"
        ELSE IF PreFilter(t, StrategyConfig(cfg, in.params), in.native) # "ok" THEN "prefilter"
        ELSE IF Revalidate(h, cfg, in.native) # "ok" THEN "revalidate"
        ELSE IF ~AuditPasses(in.evm, in.goplus, in.gmgn) THEN "audit"
        ELSE IF s.type = "NONE" \/ s.conf < cfg.pass THEN "signal"
        ELSE IF in.verdict.skip THEN "strategy"
        ELSE IF Blend(s.conf, in.verdict) < cfg.pass THEN "blend"
        ELSE "report"

Reported(r) == Stage(r.t, r.cfg, r.in) = "report"

-----------------------------------------------------------------------------
(* What a report says                                                      *)

MarketFigure == {"price", "vol", "vol24", "liq", "mcap"}
Floor == {"minVol", "minFreshVol", "minLiq", "minMcap", "minFee", "minAge", "maxRug", "maxRat", "maxTop10", "pass"}

\* The floors a strategy may replace; the fresh and the market cap floor are not among them.
Tunable == {"minVol", "minLiq", "minFee", "maxRug", "maxRat", "maxTop10"}

Flag == {"fresh", "wash", "honeypot", "cto", "closed", "unavailable"}
Fraction == {"tax", "rug", "insider", "top10", "fee", "age"}
Count == {"smart", "kol", "dev", "up5m", "up1h", "buyPct", "visits"}

\* Only a pair born without any figure is looked up in the batch.
RowTyped ==
    /\ MarketFigure \cup Flag \cup Fraction \cup Count \cup {"source", "exchange"} \subseteq DOMAIN row.t
    /\ \A f \in MarketFigure : row.t[f] \in Nat
    /\ \A f \in Flag : row.t[f] \in BOOLEAN
    /\ \A f \in Fraction : row.t[f] \in Nat \cup {None}
    /\ \A f \in Count : row.t[f] \in Int
    /\ row.cfg \in [Floor -> Nat]
    /\ DOMAIN row.in.params \subseteq Tunable
    /\ \A k \in DOMAIN row.in.params : row.in.params[k] \in Int
    /\ {row.in.native, row.in.minsAgo, row.in.wallets, row.in.verdict.conf} \subseteq Int
    /\ row.in.data # {} => FreshAtBirth(row.t)
    /\ \A d \in row.in.data : {d.price, d.liq, d.vol, d.vol24} \subseteq Nat \cup {None}

-----------------------------------------------------------------------------
(* What makes a row worse                                                  *)

\* More danger in one of the shares the security gate reads, or less money; the
\* figures of a fresh pair stay, because one without any meets fewer gates.
WorseRow(t, u) ==
    /\ \A f \in Count \cup {"source", "exchange", "fresh", "cto", "closed", "unavailable", "age", "price", "vol24"} :
          u[f] = t[f]
    /\ \A f \in {"wash", "honeypot"} : t[f] => u[f]
    /\ \A f \in {"tax", "rug", "insider", "top10"} : IF t[f] = None THEN u[f] = None ELSE u[f] >= t[f]
    /\ u.fee <= t.fee
    /\ \A f \in {"vol", "liq", "mcap"} : u[f] \in IF t.fresh THEN {t[f]} ELSE 0..t[f]

StricterFloors(c, d) ==
    /\ \A k \in {"maxRug", "maxRat", "maxTop10"} : d[k] <= c[k]
    /\ \A k \in Floor \ {"maxRug", "maxRat", "maxTop10"} : d[k] >= c[k]

\* An audit that cleared the token finds something.
WorseAudits(i, j) ==
    /\ \A a \in {"goplus", "gmgn"} : IF i[a] = {{}} THEN j[a] # {} ELSE j[a] = i[a]
    /\ \A f \in {"data", "evm", "params", "verdict", "minsAgo", "wallets", "native"} : j[f] = i[f]

Worsened(r, q) == WorseRow(r.t, q.t) /\ StricterFloors(r.cfg, q.cfg) /\ WorseAudits(r.in, q.in)

-----------------------------------------------------------------------------
(* What a report says                                                      *)

\* The floors a reported row must have met: the strategy's own replace those of
\* the configuration, except that a fresh pair meets the configuration's again.
MetFloors(r) ==
    LET t == Hydrate(r.t, r.in.data)
        floors == IF t.fresh THEN r.cfg ELSE StrategyConfig(r.cfg, r.in.params)
    IN  /\ t.vol >= IF t.fresh THEN floors.minFreshVol ELSE floors.minVol
        /\ t.liq >= floors.minLiq
        /\ t.source # "dexscreener" => t.mcap >= floors.minMcap

\* A fresh pair with no pool and no cap that either has no volume or has nothing
\* but a volume: the first is let through at birth, the second is not tried again.
Unseen(t) == t.fresh /\ t.liq = 0 /\ t.mcap = 0 /\ (t.vol = 0 \/ (t.price = 0 /\ t.vol24 = 0))

\* A reported row was cleared by an audit that answered and met the market
\* floors with the figures it is reported with, unless it is a fresh pair
\* nobody has more than a volume of (robinhood-screening-agent.ts:1256-1347).
ReportIsEarned ==
    Reported(row) =>
        /\ row.in.gmgn = {{}} \/ (row.in.evm /\ row.in.goplus = {{}})
        /\ Unseen(Hydrate(row.t, row.in.data)) \/ MetFloors(row)

=============================================================================
