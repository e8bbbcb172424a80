----------------------------- MODULE RiskControls -----------------------------
(***************************************************************************)
(* What may stop or shrink a trade: the limits and the drawdown latch of   *)
(* RiskManager, the kill switch of RiskEngineV2, the MarketSentinel that   *)
(* trips it, and the operator's switches in OpenCatzHub                    *)
(* (src/orchestrator/risk-manager.ts, risk-engine-v2.ts, hub.ts,           *)
(* src/services/market-sentinel.ts, src/startup/screening-scheduler.ts).   *)
(*                                                                         *)
(* Time is counted in sentinel cooldowns (15 minutes); a field *Age is the *)
(* time since an event, capped where nothing reads further.                *)
(*                                                                         *)
(* The sizes and caps of a proposed entry stand at the end, as operators:  *)
(* the portfolio checks and the shadow evaluation of risk-engine-v2.ts,    *)
(* the caps of position-sizing.ts and the correlation guard.  There        *)
(* amounts are whole dollars, depths of a pool tens of them, rates per      *)
(* cent, ratios per thousand; Nothing is a field the caller did not give.   *)
(***************************************************************************)
EXTENDS Integers, FiniteSetsExt

CONSTANTS
    KillCooldown,   \* killSwitchCooldownMinutes (60), in sentinel cooldowns (15)
    Required,       \* requireConsecutive
    MaxLosses,      \* maxConsecutiveLossesBeforeKill
    Limits,         \* drawdown limits the operator may set, per cent of a fraction
    Drops,          \* equity changes between two cycles, per cent lost
    Amounts,        \* trade amounts
    Names           \* domain names the operator may use

ASSUME RiskAssumption ==
    /\ {KillCooldown, Required, MaxLosses} \subseteq Nat \ {0} /\ KillCooldown > 1
    /\ Limits \subseteq Nat /\ Drops \subseteq Int /\ Amounts \subseteq Nat

VARIABLES
    manager,    \* RiskManager: limit, cap, drawdown, paused
    engine,     \* RiskEngineV2: active, age since activation, losses in a row
    sentinel,   \* MarketSentinel: qualifying passes in a row, age since its trip, due
    running,    \* OpenCatzHub.agentStates
    saved,      \* the agent states the store holds
    auto,       \* OpenCatzHub.autoExecuteStates
    gate,       \* the last execution check: allowed, and a flip per check
    history,    \* age since the last activation, whether the limit was breached
    proposed,   \* entries put to the portfolio checks: [p, book, total]
    quoted      \* orders put to the sizer and the fill simulation: [wish, conf, liq]

riskVars == <<manager, engine, sentinel, running, saved, auto, gate, history>>

Never == -1
Domain == "meme-robinhood"
Normal(name) == IF name \in {"meme", "robinhood", "meme-sol"} THEN Domain ELSE name

Greater(a, b) == IF a > b THEN a ELSE b
Older(age, cap) == IF age = Never \/ age = cap THEN age ELSE age + 1

FreshManager == [limit |-> 50, cap |-> 500, drawdown |-> 0, paused |-> FALSE]
IdleEngine == [active |-> FALSE, age |-> Never, losses |-> 0]

-----------------------------------------------------------------------------
(* The drawdown latch                                                      *)

\* updateDrawdown: the worst change seen, latched once it reaches the limit.
UpdateDrawdown(drop) ==
    LET worst == Greater(manager.drawdown, drop)
    IN  /\ manager' = [manager EXCEPT !.drawdown = worst, !.paused = @ \/ worst >= manager.limit]
        /\ history' = [history EXCEPT !.breached = @ \/ worst >= manager.limit]
        /\ UNCHANGED <<engine, sentinel, running, saved, auto, gate>>

\* setRiskParameters divides by 100, setDrawdownLimit multiplies again unless
\* the fraction is above one: 150 % becomes 1.5 %, in whole per cents 1.
LimitOf(pct) == IF pct > 100 THEN pct \div 100 ELSE pct

SetRiskParameters(pct, cap) ==
    /\ manager' = [manager EXCEPT !.limit = LimitOf(pct), !.cap = cap]
    /\ UNCHANGED <<engine, sentinel, running, saved, auto, gate, history>>

ResetDailyDrawdown ==
    /\ manager' = [manager EXCEPT !.drawdown = 0, !.paused = FALSE]
    /\ history' = [history EXCEPT !.breached = FALSE]
    /\ UNCHANGED <<engine, sentinel, running, saved, auto, gate>>

\* isTradeAllowed; a check that finds the limit reached latches too.
TradeAllowed(amount) == ~manager.paused /\ amount <= manager.cap /\ manager.drawdown < manager.limit

LatchOnCheck(amount) ==
    manager' = [manager EXCEPT !.paused = @ \/ (amount <= manager.cap /\ manager.drawdown >= manager.limit)]

-----------------------------------------------------------------------------
(* The kill switch                                                         *)

Activated == [engine EXCEPT !.active = TRUE, !.age = 0]

Expired == engine.active /\ engine.age >= KillCooldown

\* checkKillSwitchStatus: a read past the cooldown resets the switch.
AfterCheck == IF Expired THEN IdleEngine ELSE engine

ActivateKillSwitch ==
    /\ engine' = Activated
    /\ history' = [history EXCEPT !.stopAge = 0]

\* checkExecutionAllowed: limits first, the switch only when they pass.
CheckExecution(amount) ==
    /\ LatchOnCheck(amount)
    /\ engine' = IF TradeAllowed(amount) THEN AfterCheck ELSE engine
    /\ gate' = [ok |-> TradeAllowed(amount) /\ ~AfterCheck.active, flip |-> ~gate.flip]
    /\ UNCHANGED <<sentinel, running, saved, auto, history>>

\* The dashboards read the status, which may reset it.
ReadStatus ==
    /\ Expired /\ engine' = AfterCheck
    /\ UNCHANGED <<manager, sentinel, running, saved, auto, gate, history>>

RecordTradeOutcome(profit) ==
    LET losses == IF profit THEN 0 ELSE engine.losses + 1
        kill == losses >= MaxLosses
    IN  /\ losses <= MaxLosses
        /\ engine' = [engine EXCEPT !.losses = losses, !.active = @ \/ kill, !.age = IF kill THEN 0 ELSE @]
        /\ history' = [history EXCEPT !.stopAge = IF kill THEN 0 ELSE @]
        /\ UNCHANGED <<manager, sentinel, running, saved, auto, gate>>

\* evaluateTradeRisk up to its caps: the switch, then the portfolio drawdown.
EvaluateTradeRisk(drawdown) ==
    /\ IF AfterCheck.active \/ drawdown < 50
       THEN engine' = AfterCheck /\ UNCHANGED history
       ELSE /\ engine' = [AfterCheck EXCEPT !.active = TRUE, !.age = 0]
            /\ history' = [history EXCEPT !.stopAge = 0]
    /\ UNCHANGED <<manager, sentinel, running, saved, auto, gate>>

-----------------------------------------------------------------------------
(* The sentinel                                                            *)

\* Mutant: a trip waits for the switch to have cooled down.
TrippingOnceCold(consecutive) == consecutive >= Required /\ sentinel.tripAge # 0 /\ ~engine.active

\* The last trip counts from the epoch, so a first trip is never held back.
Tripping(consecutive) == consecutive >= Required /\ sentinel.tripAge # 0

\* checkAndReact: a pass that qualifies counts; calm and a failing probe reset.
SentinelPass(sample) ==
    LET consecutive == IF sample # "risky" THEN 0
                       ELSE IF sentinel.passes = Required THEN Required ELSE sentinel.passes + 1
    IN  /\ IF sample = "risky" /\ Tripping(consecutive)
           THEN ActivateKillSwitch /\ sentinel' = [passes |-> consecutive, tripAge |-> 0, due |-> FALSE]
           ELSE /\ sentinel' = [sentinel EXCEPT !.passes = consecutive, !.due = FALSE]
                /\ UNCHANGED <<engine, history>>
        /\ UNCHANGED <<manager, running, saved, auto, gate>>

\* The sentinel runs every minute: at least once in every cooldown.
ControlsTick ==
    /\ ~sentinel.due
    /\ sentinel' = [sentinel EXCEPT !.due = TRUE, !.tripAge = IF @ = 0 THEN 1 ELSE @]
    /\ engine' = [engine EXCEPT !.age = Older(@, KillCooldown)]
    /\ history' = [history EXCEPT !.stopAge = Older(@, KillCooldown)]
    /\ UNCHANGED <<manager, running, saved, auto, gate>>

-----------------------------------------------------------------------------
(* The operator                                                            *)

\* setAgentActive, by the name's normal form; an unknown one adds a domain.
SetAgentActive(name, on) ==
    /\ running' = [running EXCEPT ![Normal(name)] = IF on THEN "on" ELSE "off"]
    /\ saved' = [saved EXCEPT ![Normal(name)] = IF on THEN "on" ELSE "off"]
    /\ UNCHANGED <<manager, engine, sentinel, auto, gate, history>>

\* Every domain the hub knows, in memory only.
AllSet(on) == [n \in DOMAIN running |-> IF running[n] = "absent" THEN "absent" ELSE IF on THEN "on" ELSE "off"]

SetAllAgentsActive(on) ==
    /\ running' = AllSet(on)
    /\ UNCHANGED <<manager, engine, sentinel, saved, auto, gate, history>>

SetAutoExecute(name, on) ==
    /\ auto' = [auto EXCEPT ![Normal(name)] = IF on THEN "on" ELSE "off"]
    /\ UNCHANGED <<manager, engine, sentinel, running, saved, gate, history>>

\* executeEmergencyCloseAll.
EmergencyCloseAll ==
    /\ running' = AllSet(FALSE)
    /\ auto' = [n \in DOMAIN auto |-> IF auto[n] = "absent" THEN "absent" ELSE "off"]
    /\ ActivateKillSwitch
    /\ UNCHANGED <<manager, sentinel, saved, gate>>

\* A restart keeps only what the store holds of the registered domains.
Restart ==
    /\ running' = [n \in DOMAIN running |->
                     IF n # Domain THEN "absent" ELSE IF saved[n] = "absent" THEN "on" ELSE saved[n]]
    /\ auto' = [n \in DOMAIN auto |-> IF n = Domain THEN "off" ELSE "absent"]
    /\ manager' = FreshManager /\ engine' = IdleEngine
    /\ sentinel' = [passes |-> 0, tripAge |-> Never, due |-> TRUE]
    /\ history' = [stopAge |-> Never, breached |-> FALSE]
    /\ UNCHANGED <<saved, gate>>

-----------------------------------------------------------------------------

Known == {Normal(n) : n \in Names} \cup {Domain}

RiskInit ==
    /\ manager = FreshManager /\ engine = IdleEngine
    /\ sentinel = [passes |-> 0, tripAge |-> Never, due |-> TRUE]
    /\ running = [n \in Known |-> IF n = Domain THEN "on" ELSE "absent"]
    /\ saved = [n \in Known |-> "absent"]
    /\ auto = [n \in Known |-> IF n = Domain THEN "off" ELSE "absent"]
    /\ gate = [ok |-> FALSE, flip |-> FALSE]
    /\ history = [stopAge |-> Never, breached |-> FALSE]

\* What the program does by itself, and what its operator does to it.
Controls ==
    \/ \E d \in Drops : UpdateDrawdown(d) \/ EvaluateTradeRisk(d)
    \/ \E p \in Limits, a \in Amounts : SetRiskParameters(p, a)
    \/ ResetDailyDrawdown
    \/ \E a \in Amounts : CheckExecution(a)
    \/ ReadStatus
    \/ \E b \in BOOLEAN : RecordTradeOutcome(b)
    \/ \E s \in {"risky", "calm", "fails"} : SentinelPass(s)
    \/ ControlsTick

Operator ==
    \/ \E b \in BOOLEAN : SetAllAgentsActive(b)
    \/ \E n \in Names, b \in BOOLEAN : SetAgentActive(n, b) \/ SetAutoExecute(n, b)
    \/ EmergencyCloseAll
    \/ Restart

RiskNext == Controls \/ Operator

RiskSpec == RiskInit /\ [][RiskNext]_riskVars

-----------------------------------------------------------------------------
(* Sizes of a proposed entry                                               *)

Nothing == -1

Least(a, b) == IF a < b THEN a ELSE b
AtLeast0(x) == IF x < 0 THEN 0 ELSE x
Rounded(a, b) == (2 * a + b) \div (2 * b)

-----------------------------------------------------------------------------
(* Caps                                                                    *)

\* sizePosition: the tightest given bound, or a refusal (0).
SizePosition(desired, c) ==
    LET notional == IF c.notional = Nothing THEN 2000 ELSE c.notional
        bounds == {notional, c.cap, c.headroom} \ {Nothing}
        size == Min(bounds \cup {desired})
    IN  IF desired <= 0 \/ c.headroom = 0 \/ size < c.floor THEN 0 ELSE size

\* Edge per thousand of the bankroll; p and f in per cent, ratio = win : loss.
FractionalKelly(p, ratio, f) ==
    LET full == 10 * p - (10 * (100 - p)) \div ratio
    IN  IF ratio <= 0 \/ p \notin 0..100 \/ f \notin 0..100 THEN 0
        ELSE Least(1000, AtLeast0((full * f) \div 100))

KellySize(bankroll, k) ==
    IF bankroll <= 0 THEN 0 ELSE Rounded(bankroll * FractionalKelly(k.p, k.ratio, k.fraction), 1000)

DailyLossCap(desired, limit, lost) ==
    IF desired <= 0 \/ limit <= 0 \/ lost >= limit THEN 0 ELSE Least(desired, limit - lost)

PositionCap(desired, cap) == IF desired <= 0 \/ cap <= 0 THEN 0 ELSE Least(desired, cap)

\* Linear in the confidence between half and one and a half of the base.
ConfidenceSize(base, conf) == IF base <= 0 THEN 0 ELSE Rounded(base * (50 + conf), 100)

\* gateSizer: conviction and depth scale the wish down, in fiftieths and in nine
\* thousandths; a pool of 5 thousand dollars or less halves it, one of 50 takes it
\* whole.
ConfScale(conf) == Max({25, Min({50, 2 * (conf - 70)})})

\* Mutant: a thin pool shrinks the order far below the linear scale.
LiqScaleSteep(liq) == IF liq >= 5000 THEN 9000 ELSE IF liq <= 500 THEN 450 ELSE 4000 + liq

LiqScale(liq) == IF liq >= 5000 THEN 9000 ELSE IF liq <= 500 THEN 4500 ELSE 4000 + liq

GateSize(wish, conf, liq, floor) ==
    SizePosition(Rounded(wish * ConfScale(conf) * LiqScale(liq), 450000),
                 [notional |-> Nothing, cap |-> Nothing, headroom |-> Nothing, floor |-> floor])

\* simulateFill behind gateFillSim: the impact is the share of the pool.
FillAllowed(usd, liq, impact) == usd > 0 /\ liq > 0 /\ 10 * usd <= impact * liq

-----------------------------------------------------------------------------
(* Portfolio checks                                                        *)

Exposure(positions) == MapThenSumSet(LAMBDA q : q.usd, positions)

\* evaluateLegacyRisk once the switch and the drawdown let it through:
\* asset, chain and narrative caps, then the volatility scale.
Legacy(p, total, positions) ==
    LET base == IF total > 1 THEN total ELSE 1
        asset == Exposure({q \in positions : q.asset = p.asset})
        chain == Exposure({q \in positions : q.chain = p.chain})
        kin == {q \in positions : q.tags \cap p.tags # {}}
        scale == IF p.atr = 0 THEN 100 ELSE Min({200, Max({25, 500 \div p.atr})})
    IN  IF 100 * (asset + p.usd) > 10 * base
        THEN [allowed |-> FALSE, size |-> AtLeast0((10 * total) \div 100 - asset)]
        ELSE IF 100 * (chain + p.usd) > 40 * base \/ (p.tags # {} /\ Cardinality(kin) >= 3)
        THEN [allowed |-> FALSE, size |-> Nothing]
        ELSE [allowed |-> TRUE, size |-> Rounded(p.usd * scale, 100)]

\* The caps a risk profile names, each with the size it leaves; a cap of 0 is a
\* veto, and so is a confidence below the minimum.
ShadowCaps(p) ==
    LET f == p.profile
    IN  (IF f.conf = Nothing THEN {} ELSE {IF f.conf < 80 THEN 0 ELSE ConfidenceSize(p.usd, f.conf)})
        \cup (IF f.dayLimit = Nothing THEN {} ELSE {DailyLossCap(p.usd, f.dayLimit, f.dayLoss)})
        \cup (IF f.cap = Nothing THEN {} ELSE {PositionCap(p.usd, f.cap)})
        \cup (IF f.bankroll = Nothing THEN {} ELSE {KellySize(f.bankroll, f.kelly)})

\* evaluateShadowRisk next to the current answer: never looser, never larger.
\* A confidence scale always caps, the other caps only below the proposed size.
Shadow(p, current) ==
    LET size == IF current.size = Nothing THEN p.usd ELSE current.size
        confident == IF p.profile.conf >= 80 THEN {ConfidenceSize(p.usd, p.profile.conf)} ELSE {}
        binding == {c \in ShadowCaps(p) : c > 0 /\ c < p.usd} \cup confident
    IN  [allowed |-> current.allowed /\ 0 \notin ShadowCaps(p), size |-> Min(binding \cup {size})]

\* checkCorrelationRisk of the risk manager.
Correlated(symbol, usd, positions, total) ==
    LET same == {q \in positions : q.asset = symbol}
    IN  Cardinality(same) < 3 /\ (total > 0 => 100 * (Exposure(same) + usd) <= 30 * total)

-----------------------------------------------------------------------------

RiskTypeOK ==
    /\ manager.drawdown \in Nat /\ manager.limit \in Nat /\ manager.cap \in Amounts \cup {500}
    /\ engine.active => engine.age \in 0..KillCooldown
    /\ engine.losses \in 0..MaxLosses
    /\ sentinel.passes \in 0..Required /\ sentinel.tripAge \in {Never, 0, 1}
    /\ \A n \in Known : {running[n], saved[n], auto[n]} \subseteq {"on", "off", "absent"}

\* An execution check lets nothing through within the cooldown of the last
\* activation, whoever activated the switch and whatever was read or reset in
\* between, nor after a drawdown that reached the limit then in force, even when
\* the operator has raised the limit since (risk-engine-v2.ts:155-165, 338-349,
\* risk-manager.ts:36-57, 178-189).
StopsAreHonoured ==
    [][gate'.flip # gate.flip /\ gate'.ok =>
         history.stopAge \notin 0 .. KillCooldown - 1 /\ ~history.breached]_riskVars

\* The switch never lapses while the sentinel still counts a risky market: it
\* renews its trip more often than the switch cools down
\* (market-sentinel.ts:41-46, 95-105, risk-engine-v2.ts:341-347).
LapseMeansCalm ==
    [][engine.active /\ ~engine'.active => sentinel'.passes < Required]_riskVars

\* A stop holds until something the code names lifts it: StopsAreHonoured for
\* trades, LapseMeansCalm for the kill switch (risk-manager.ts, risk-engine-v2.ts).
StopsHold == []RiskTypeOK /\ StopsAreHonoured /\ LapseMeansCalm

-----------------------------------------------------------------------------
(* What holds of the sizes                                                 *)

Optional == Nat \cup {Nothing}

\* A proposed entry, the book it is checked against and the portfolio's value.
EntryTyped(e) ==
    /\ e.total \in Nat /\ e.p.usd \in Nat /\ e.p.atr \in Nat
    /\ {e.p.profile.conf, e.p.profile.dayLimit, e.p.profile.dayLoss, e.p.profile.cap, e.p.profile.bankroll} \subseteq Optional
    /\ {e.p.profile.kelly.p, e.p.profile.kelly.ratio, e.p.profile.kelly.fraction} \subseteq Int
    /\ IsFiniteSet(e.book) /\ \A q \in e.book : q.usd \in Nat

SizesTyped ==
    /\ \A e \in proposed : EntryTyped(e)
    /\ \A q \in quoted : q.wish \in Nat /\ q.conf \in Nat /\ q.liq \in Nat

\* Any entry may be proposed and any order quoted, whatever was before.
SizesSpec == SizesTyped /\ [][SizesTyped']_<<proposed, quoted>>

Current(e) == Legacy(e.p, e.total, e.book)
Sized(e) == IF Current(e).size = Nothing THEN e.p.usd ELSE Current(e).size

\* The same entry under a tighter profile: more lost today, a lower cap.
Tighter(f, e) ==
    LET x == e.p.profile
        y == f.p.profile
    IN  /\ f.book = e.book /\ f.total = e.total
        /\ \A k \in {"asset", "chain", "tags", "usd", "atr"} : f.p[k] = e.p[k]
        /\ \A k \in {"conf", "dayLimit", "bankroll", "kelly"} : y[k] = x[k]
        /\ y.dayLoss >= x.dayLoss
        /\ x.cap = Nothing \/ y.cap \in 0..x.cap

\* The shadow evaluation is never looser and never larger than the decision it
\* shadows, whatever profile, book and volatility come with the proposal, and a
\* tighter profile never lets more through (risk-engine-v2.ts:184-298).
ShadowNeverLoosens ==
    \A e \in proposed :
        LET shadow == Shadow(e.p, Current(e))
        IN  /\ shadow.allowed => Current(e).allowed
            /\ shadow.size <= Sized(e)
            /\ \A f \in proposed :
                  LET s == Shadow(f.p, Current(f))
                  IN  Tighter(f, e) /\ s.allowed => shadow.allowed /\ s.size <= shadow.size

\* The engine scales an allowed size by the volatility after its own caps; the
\* scaled size still respects the sector cap of the risk manager
\* (risk-engine-v2.ts:374-429, risk-manager.ts:66-114).
ScaledStaysInSector ==
    \A e \in proposed :
        Current(e).allowed /\ Cardinality({q \in e.book : q.asset = e.p.asset}) < 3
            => Correlated(e.p.asset, Current(e).size, e.book, e.total)

SizeOf(q) == GateSize(q.wish, q.conf, q.liq, 0)
Fills(q, usd) == FillAllowed(usd, q.liq, 5)

\* Sizing and fill simulation agree about depth: an order the simulation accepts
\* in a pool is accepted in every deeper one, although the sizer makes it larger
\* there, but for a dollar that rounding may add; and no better conviction or depth
\* ever sizes it smaller or above the ceiling
\* (execution-gates.ts:200-238, fill-simulation.ts:37-54).
DeeperPoolNeverRefuses ==
    \A q, r \in quoted :
        r.wish = q.wish /\ r.conf >= q.conf /\ r.liq >= q.liq =>
            /\ r.conf = q.conf /\ Fills(q, SizeOf(q)) => Fills(r, SizeOf(r)) \/ Fills(r, SizeOf(r) - 1)
            /\ SizeOf(r) >= SizeOf(q)
            /\ SizeOf(r) <= 2000

\* What is traded is sized within its caps, whichever sizer is asked:
\* ShadowNeverLoosens, ScaledStaysInSector and DeeperPoolNeverRefuses.
SizesStaySane == ShadowNeverLoosens /\ ScaledStaysInSector /\ DeeperPoolNeverRefuses

=============================================================================
