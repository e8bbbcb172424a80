--------------------------- MODULE DecisionProofs ---------------------------
(***************************************************************************)
(* Proofs about the parts of the decision chain, each for its own          *)
(* specification and any values of its constants.                          *)
(***************************************************************************)
EXTENDS Swarm, RiskControls, StrategyEngine, Evidence, TraderGraph, DurableHistory,
        SequenceTheorems, FiniteSetTheorems, NaturalsInduction, WellFoundedInduction, TLAPS

-----------------------------------------------------------------------------
(* What may stop a trade                                                   *)

Switch == {"on", "off", "absent"}
Ages == 0..KillCooldown \cup {Never}
ManagerState == [limit : Nat, cap : Amounts \cup {500}, drawdown : Nat, paused : BOOLEAN]
EngineState == [active : BOOLEAN, age : Ages, losses : 0..MaxLosses]
SentinelState == [passes : 0..Required, tripAge : {Never, 0, 1}, due : BOOLEAN]
HistoryState == [stopAge : Ages, breached : BOOLEAN]

RiskTyped ==
    /\ manager \in ManagerState /\ engine \in EngineState
    /\ sentinel \in SentinelState /\ history \in HistoryState
    /\ {running, saved, auto} \subseteq [Known -> Switch]
    /\ gate \in [ok : BOOLEAN, flip : BOOLEAN]
    /\ engine.active => engine.age # Never

\* A breach of the limit then in force is latched, and an activation that is not
\* a cooldown old has the switch on, at the same age.
StopsAreKept ==
    /\ history.breached => manager.paused
    /\ history.stopAge \in 0..(KillCooldown - 1) => engine.active /\ engine.age = history.stopAge

\* While the sentinel counts a risky market the switch is on: it tripped since
\* the last tick, or one tick ago and is about to pass again.
WatchIsKept ==
    /\ sentinel.tripAge = 0 => engine.active /\ engine.age = 0
    /\ sentinel.passes = Required =>
         \/ sentinel.tripAge = 0
         \/ sentinel.tripAge = 1 /\ sentinel.due /\ engine.active /\ engine.age \in {0, 1}

RiskInv == RiskTyped /\ StopsAreKept /\ WatchIsKept

LEMMA AgeFacts ==
    /\ {0, 1, KillCooldown, Never} \subseteq Ages /\ 0 \in 0..MaxLosses
    /\ \A a \in Ages : a # Never => a \in 0..KillCooldown
    /\ Never \notin 0..KillCooldown /\ Never # 0 /\ Never # 1
  BY RiskAssumption DEF Ages, Never

LEMMA RiskInitInv == RiskInit => RiskInv
  BY RiskAssumption, AgeFacts
     DEF RiskInit, RiskInv, RiskTyped, StopsAreKept, WatchIsKept, FreshManager, IdleEngine, Switch, Known,
         ManagerState, EngineState, SentinelState, HistoryState

\* A read of the switch resets it only when it has cooled down.
LEMMA AfterCheckLapses ==
    ASSUME RiskInv
    PROVE  /\ AfterCheck \in EngineState
           /\ AfterCheck.active => AfterCheck.age # Never
           /\ \/ AfterCheck = engine
              \/ engine.active /\ engine.age = KillCooldown /\ ~AfterCheck.active
  <1>1. CASE Expired
    <2>1. AfterCheck = IdleEngine
      BY <1>1 DEF AfterCheck
    <2>2. engine.active /\ engine.age = KillCooldown
      BY <1>1, AgeFacts, RiskAssumption DEF Expired, RiskInv, RiskTyped, EngineState
    <2>3. IdleEngine \in EngineState /\ ~IdleEngine.active
      BY AgeFacts DEF IdleEngine, EngineState
    <2> QED BY <2>1, <2>2, <2>3
  <1>2. CASE ~Expired
    <2>1. AfterCheck = engine
      BY <1>2 DEF AfterCheck
    <2> QED BY <2>1 DEF RiskInv, RiskTyped
  <1> QED BY <1>1, <1>2

\* The invariant when the engine is only read.
LEMMA ReadKeepsInv ==
    ASSUME RiskInv, engine' \in {engine, AfterCheck}, manager' \in ManagerState,
           manager.paused => manager'.paused, gate' \in [ok : BOOLEAN, flip : BOOLEAN],
           UNCHANGED <<sentinel, running, saved, auto, history>>
    PROVE  RiskInv'
  <1>1. RiskTyped'
    BY AfterCheckLapses DEF RiskInv, RiskTyped
  <1>0. AfterCheck = engine \/ (engine.active /\ engine.age = KillCooldown)
    BY AfterCheckLapses
  <1>2. engine' = engine \/ (engine.active /\ engine.age = KillCooldown)
    BY <1>0
  <1>3. StopsAreKept'
    BY <1>2, RiskAssumption DEF RiskInv, RiskTyped, StopsAreKept
  <1>4. WatchIsKept'
    BY <1>2, RiskAssumption DEF RiskInv, RiskTyped, WatchIsKept
  <1> QED BY <1>1, <1>3, <1>4 DEF RiskInv

\* What a step that activates the switch leaves behind.
LEMMA ActivationKeepsInv ==
    ASSUME RiskInv, engine' \in EngineState, engine'.active, engine'.age = 0,
           history' = [history EXCEPT !.stopAge = 0],
           sentinel' \in SentinelState, sentinel' = sentinel \/ sentinel'.tripAge = 0,
           {running', saved', auto'} \subseteq [Known -> Switch],
           UNCHANGED <<manager, gate>>
    PROVE  RiskInv'
  <1>1. /\ history'.stopAge = 0 /\ history'.breached = history.breached /\ history' \in HistoryState
    BY AgeFacts DEF RiskInv, RiskTyped, HistoryState
  <1>2. RiskTyped'
    BY <1>1, AgeFacts DEF RiskInv, RiskTyped
  <1>3. StopsAreKept'
    BY <1>1 DEF RiskInv, StopsAreKept
  <1>4. WatchIsKept'
    BY DEF RiskInv, WatchIsKept
  <1> QED BY <1>2, <1>3, <1>4 DEF RiskInv

LEMMA ManagerSteps ==
    ASSUME RiskInv,
           \/ \E d \in Drops : UpdateDrawdown(d)
           \/ \E p \in Limits, a \in Amounts : SetRiskParameters(p, a)
           \/ ResetDailyDrawdown
    PROVE  RiskInv'
  <1> DEFINE Goal ==
               /\ manager' \in ManagerState /\ history' \in HistoryState
               /\ history'.stopAge = history.stopAge
               /\ history'.breached => manager'.paused
               /\ UNCHANGED <<engine, sentinel, running, saved, auto, gate>>
  <1>0. manager \in ManagerState /\ history \in HistoryState
    BY DEF RiskInv, RiskTyped
  <1>1. ASSUME NEW d \in Drops, UpdateDrawdown(d) PROVE Goal
    <2> DEFINE worst == Greater(manager.drawdown, d)
               latched == manager.paused \/ worst >= manager.limit
               breach == history.breached \/ worst >= manager.limit
    <2>1. worst \in Nat
      BY <1>0, RiskAssumption DEF Greater, ManagerState
    <2>2. latched \in BOOLEAN /\ breach \in BOOLEAN /\ (breach => latched)
      BY DEF RiskInv, StopsAreKept
    <2>3. /\ manager' = [manager EXCEPT !.drawdown = worst, !.paused = latched]
          /\ history' = [history EXCEPT !.breached = breach]
      BY <1>1 DEF UpdateDrawdown
    <2> HIDE DEF worst, latched, breach
    <2>4. manager' \in ManagerState /\ manager'.paused = latched
      BY <1>0, <2>1, <2>2, <2>3, ZenonT(60) DEF ManagerState
    <2>5. history' \in HistoryState /\ history'.breached = breach /\ history'.stopAge = history.stopAge
      BY <1>0, <2>2, <2>3 DEF HistoryState
    <2> QED BY <1>1, <2>2, <2>4, <2>5 DEF UpdateDrawdown
  <1>2. ASSUME NEW p \in Limits, NEW a \in Amounts, SetRiskParameters(p, a) PROVE Goal
    <2>1. LimitOf(p) \in Nat
      BY RiskAssumption DEF LimitOf
    <2>2. manager' \in ManagerState /\ manager'.paused = manager.paused
      BY <1>0, <1>2, <2>1, ZenonT(60) DEF SetRiskParameters, ManagerState
    <2>3. /\ history' = history
          /\ UNCHANGED <<engine, sentinel, running, saved, auto, gate>>
      BY <1>2 DEF SetRiskParameters
    <2>4. history.breached => manager.paused
      BY DEF RiskInv, StopsAreKept
    <2> QED BY <1>0, <2>2, <2>3, <2>4
  <1>3. ASSUME ResetDailyDrawdown PROVE Goal
    <2>1. manager' \in ManagerState
      BY <1>0, <1>3, ZenonT(60) DEF ResetDailyDrawdown, ManagerState
    <2>2. history' \in HistoryState /\ history'.stopAge = history.stopAge /\ ~history'.breached
      BY <1>0, <1>3 DEF ResetDailyDrawdown, HistoryState
    <2> QED BY <1>3, <2>1, <2>2 DEF ResetDailyDrawdown
  <1>4. Goal
    BY <1>1, <1>2, <1>3
  <1> QED BY <1>4 DEF RiskInv, RiskTyped, StopsAreKept, WatchIsKept

LEMMA CheckSteps ==
    ASSUME RiskInv, ReadStatus \/ \E a \in Amounts : CheckExecution(a)
    PROVE  RiskInv'
  <1>1. CASE ReadStatus
    BY <1>1, ReadKeepsInv DEF ReadStatus, RiskInv, RiskTyped
  <1>2. ASSUME NEW a \in Amounts, CheckExecution(a) PROVE RiskInv'
    <2> DEFINE latched == manager.paused \/ (a <= manager.cap /\ manager.drawdown >= manager.limit)
    <2>1. latched \in BOOLEAN /\ (manager.paused => latched) /\ manager' = [manager EXCEPT !.paused = latched]
      BY <1>2 DEF CheckExecution, LatchOnCheck
    <2> HIDE DEF latched
    <2>2. manager' \in ManagerState /\ (manager.paused => manager'.paused)
      BY <2>1 DEF RiskInv, RiskTyped, ManagerState
    <2>3. gate' \in [ok : BOOLEAN, flip : BOOLEAN]
      BY <1>2 DEF CheckExecution
    <2>4. engine' \in {engine, AfterCheck}
      BY <1>2 DEF CheckExecution
    <2> QED BY <1>2, <2>2, <2>3, <2>4, ReadKeepsInv DEF CheckExecution
  <1> QED BY <1>1, <1>2

LEMMA OutcomeStep == ASSUME RiskInv, NEW b \in BOOLEAN, RecordTradeOutcome(b) PROVE RiskInv'
  <1> DEFINE losses == IF b THEN 0 ELSE engine.losses + 1
  <1>1. engine \in EngineState
    BY DEF RiskInv, RiskTyped
  <1>2. losses \in 0..MaxLosses
    BY <1>1, RiskAssumption DEF RecordTradeOutcome, EngineState
  <1>3. CASE losses >= MaxLosses
    <2>1. engine' = [engine EXCEPT !.losses = losses, !.active = TRUE, !.age = 0]
      BY <1>3 DEF RecordTradeOutcome
    <2>2. history' = [history EXCEPT !.stopAge = 0]
      BY <1>3 DEF RecordTradeOutcome
    <2> HIDE DEF losses
    <2>3. engine' \in EngineState /\ engine'.active /\ engine'.age = 0
      BY <1>1, <1>2, <2>1, AgeFacts DEF EngineState
    <2> QED BY <2>2, <2>3, ActivationKeepsInv DEF RecordTradeOutcome, RiskInv, RiskTyped
  <1>4. CASE ~(losses >= MaxLosses)
    <2>0. (engine.active \/ losses >= MaxLosses) = engine.active
      BY <1>1, <1>4 DEF EngineState
    <2>1. engine' = [engine EXCEPT !.losses = losses, !.active = engine.active, !.age = engine.age]
      BY <1>4, <2>0 DEF RecordTradeOutcome
    <2>2. history' = [history EXCEPT !.stopAge = history.stopAge]
      BY <1>4 DEF RecordTradeOutcome
    <2> HIDE DEF losses
    <2>3. engine' \in EngineState /\ engine'.active = engine.active /\ engine'.age = engine.age
      BY <1>1, <1>2, <2>1 DEF EngineState
    <2>4. history' = history
      BY <2>2 DEF RiskInv, RiskTyped, HistoryState
    <2> QED BY <2>3, <2>4 DEF RecordTradeOutcome, RiskInv, RiskTyped, StopsAreKept, WatchIsKept
  <1> QED BY <1>3, <1>4

LEMMA EvaluateStep == ASSUME RiskInv, NEW d \in Drops, EvaluateTradeRisk(d) PROVE RiskInv'
  <1>1. CASE AfterCheck.active \/ d < 50
    BY <1>1, ReadKeepsInv DEF EvaluateTradeRisk, RiskInv, RiskTyped
  <1>2. CASE ~(AfterCheck.active \/ d < 50)
    <2>1. engine' = [AfterCheck EXCEPT !.active = TRUE, !.age = 0] /\ history' = [history EXCEPT !.stopAge = 0]
      BY <1>2 DEF EvaluateTradeRisk
    <2>2. engine' \in EngineState /\ engine'.active /\ engine'.age = 0
      BY <2>1, AfterCheckLapses, AgeFacts DEF EngineState
    <2> QED BY <2>1, <2>2, ActivationKeepsInv DEF EvaluateTradeRisk, RiskInv, RiskTyped
  <1> QED BY <1>1, <1>2

LEMMA SentinelStep ==
    ASSUME RiskInv, NEW sample \in {"risky", "calm", "fails"}, SentinelPass(sample)
    PROVE  RiskInv'
  <1> DEFINE consecutive == IF sample # "risky" THEN 0
                            ELSE IF sentinel.passes = Required THEN Required ELSE sentinel.passes + 1
  <1>1. sentinel \in SentinelState /\ engine \in EngineState
    BY DEF RiskInv, RiskTyped
  <1>2. consecutive \in 0..Required
    BY <1>1, RiskAssumption DEF SentinelState
  <1>3. CASE sample = "risky" /\ Tripping(consecutive)
    <2>1. /\ sentinel' = [passes |-> consecutive, tripAge |-> 0, due |-> FALSE]
          /\ engine' = [engine EXCEPT !.active = TRUE, !.age = 0]
          /\ history' = [history EXCEPT !.stopAge = 0]
      BY <1>3 DEF SentinelPass, ActivateKillSwitch, Activated
    <2> HIDE DEF consecutive
    <2>2. sentinel' \in SentinelState /\ sentinel'.tripAge = 0
      BY <1>2, <2>1 DEF SentinelState
    <2>3. engine' \in EngineState /\ engine'.active /\ engine'.age = 0
      BY <1>1, <2>1, AgeFacts DEF EngineState
    <2> QED BY <2>1, <2>2, <2>3, ActivationKeepsInv DEF SentinelPass, RiskInv, RiskTyped
  <1>4. CASE ~(sample = "risky" /\ Tripping(consecutive))
    <2>1. /\ sentinel' = [sentinel EXCEPT !.passes = consecutive, !.due = FALSE]
          /\ UNCHANGED <<engine, history>>
      BY <1>4 DEF SentinelPass
    <2>2. consecutive = Required => sentinel.tripAge = 0
      BY <1>4, RiskAssumption DEF Tripping
    <2> HIDE DEF consecutive
    <2>3. /\ sentinel' \in SentinelState /\ sentinel'.tripAge = sentinel.tripAge
          /\ sentinel'.passes = consecutive
      BY <1>1, <1>2, <2>1 DEF SentinelState
    <2>4. RiskTyped' /\ StopsAreKept'
      BY <2>1, <2>3 DEF SentinelPass, RiskInv, RiskTyped, StopsAreKept
    <2>5. WatchIsKept'
      BY <2>1, <2>2, <2>3 DEF RiskInv, WatchIsKept
    <2> QED BY <2>4, <2>5 DEF RiskInv
  <1> QED BY <1>3, <1>4

LEMMA OlderAge ==
    ASSUME NEW a \in Ages
    PROVE  /\ Older(a, KillCooldown) \in Ages
           /\ Older(a, KillCooldown) = Never <=> a = Never
           /\ a \in 0..(KillCooldown - 1) => Older(a, KillCooldown) = a + 1
           /\ Older(a, KillCooldown) \in 0..(KillCooldown - 1) => a \in 0..(KillCooldown - 1)
  BY RiskAssumption DEF Ages, Older, Never

LEMMA TickStep == ASSUME RiskInv, ControlsTick PROVE RiskInv'
  <1>1. sentinel \in SentinelState /\ engine \in EngineState /\ history \in HistoryState /\ ~sentinel.due
    BY DEF RiskInv, RiskTyped, ControlsTick
  <1>2. engine.age \in Ages /\ history.stopAge \in Ages /\ sentinel.tripAge \in {Never, 0, 1}
    BY <1>1 DEF EngineState, HistoryState, SentinelState
  <1>3. /\ sentinel' \in SentinelState /\ sentinel'.passes = sentinel.passes /\ sentinel'.due
        /\ sentinel'.tripAge = IF sentinel.tripAge = 0 THEN 1 ELSE sentinel.tripAge
    BY <1>1, <1>2 DEF ControlsTick, SentinelState
  <1>4. /\ engine' \in EngineState /\ engine'.active = engine.active
        /\ engine'.age = Older(engine.age, KillCooldown)
    BY <1>1, <1>2, OlderAge DEF ControlsTick, EngineState
  <1>5. /\ history' \in HistoryState /\ history'.breached = history.breached
        /\ history'.stopAge = Older(history.stopAge, KillCooldown)
    BY <1>1, <1>2, OlderAge DEF ControlsTick, HistoryState
  <1>6. RiskTyped'
    BY <1>2, <1>3, <1>4, <1>5, OlderAge DEF ControlsTick, RiskInv, RiskTyped
  <1>7. StopsAreKept'
    BY <1>2, <1>4, <1>5, OlderAge DEF ControlsTick, RiskInv, StopsAreKept
  <1>8. WatchIsKept'
    <2>1. sentinel'.tripAge # 0
      BY <1>3
    <2>2. ASSUME sentinel.passes = Required
          PROVE  sentinel'.tripAge = 1 /\ engine'.active /\ engine'.age = 1
      <3>1. sentinel.tripAge = 0 /\ engine.active /\ engine.age = 0
        BY <1>1, <2>2 DEF RiskInv, WatchIsKept
      <3> QED BY <1>2, <1>3, <1>4, <3>1, OlderAge, RiskAssumption
    <2> QED BY <1>3, <2>1, <2>2 DEF WatchIsKept
  <1> QED BY <1>6, <1>7, <1>8 DEF RiskInv

\* The domain a name stands for is one the hub knows.
LEMMA NormalIsKnown == ASSUME NEW n \in Names PROVE Normal(n) \in Known
  BY DEF Known

LEMMA SwitchSteps ==
    ASSUME RiskInv,
           \/ \E b \in BOOLEAN : SetAllAgentsActive(b)
           \/ \E n \in Names, b \in BOOLEAN : SetAgentActive(n, b) \/ SetAutoExecute(n, b)
    PROVE  RiskInv'
  <1>1. /\ running \in [Known -> Switch] /\ saved \in [Known -> Switch] /\ auto \in [Known -> Switch]
        /\ {"on", "off", "absent"} \subseteq Switch
    BY DEF RiskInv, RiskTyped, Switch
  <1>2. {running', saved', auto'} \subseteq [Known -> Switch]
    BY <1>1, NormalIsKnown DEF SetAllAgentsActive, SetAgentActive, SetAutoExecute, AllSet
  <1>3. UNCHANGED <<manager, engine, sentinel, gate, history>>
    BY DEF SetAllAgentsActive, SetAgentActive, SetAutoExecute
  <1> QED BY <1>2, <1>3 DEF RiskInv, RiskTyped, StopsAreKept, WatchIsKept

LEMMA EmergencyStep == ASSUME RiskInv, EmergencyCloseAll PROVE RiskInv'
  <1>1. /\ running \in [Known -> Switch] /\ saved \in [Known -> Switch] /\ auto \in [Known -> Switch]
        /\ {"on", "off", "absent"} \subseteq Switch /\ engine \in EngineState /\ sentinel \in SentinelState
    BY DEF RiskInv, RiskTyped, Switch
  <1>2. {running', saved', auto'} \subseteq [Known -> Switch]
    BY <1>1 DEF EmergencyCloseAll, AllSet
  <1>3. engine' = [engine EXCEPT !.active = TRUE, !.age = 0]
    BY DEF EmergencyCloseAll, ActivateKillSwitch, Activated
  <1>4. engine' \in EngineState /\ engine'.active /\ engine'.age = 0
    BY <1>1, <1>3, AgeFacts DEF EngineState
  <1> QED BY <1>1, <1>2, <1>4, ActivationKeepsInv DEF EmergencyCloseAll, ActivateKillSwitch

LEMMA RiskRestartStep == ASSUME RiskInv, Restart PROVE RiskInv'
  <1>1. {running', saved', auto'} \subseteq [Known -> Switch]
    BY DEF Restart, RiskInv, RiskTyped, Switch
  <1>2. /\ manager' \in ManagerState /\ engine' \in EngineState /\ ~engine'.active
        /\ sentinel' \in SentinelState /\ sentinel'.passes = 0 /\ sentinel'.tripAge = Never
        /\ history' \in HistoryState /\ history'.stopAge = Never /\ ~history'.breached
        /\ gate' \in [ok : BOOLEAN, flip : BOOLEAN]
    BY AgeFacts, RiskAssumption
       DEF Restart, FreshManager, IdleEngine, ManagerState, EngineState, SentinelState, HistoryState,
           RiskInv, RiskTyped
  <1> QED BY <1>1, <1>2, AgeFacts, RiskAssumption DEF RiskInv, RiskTyped, StopsAreKept, WatchIsKept

LEMMA RiskNextInv == RiskInv /\ [RiskNext]_riskVars => RiskInv'
  <1> SUFFICES ASSUME RiskInv, [RiskNext]_riskVars PROVE RiskInv'
    OBVIOUS
  <1>1. CASE Controls
    BY <1>1, ManagerSteps, CheckSteps, OutcomeStep, EvaluateStep, SentinelStep, TickStep DEF Controls
  <1>2. CASE Operator
    BY <1>2, SwitchSteps, EmergencyStep, RiskRestartStep DEF Operator
  <1>3. CASE UNCHANGED riskVars
    BY <1>3 DEF riskVars, RiskInv, RiskTyped, StopsAreKept, WatchIsKept
  <1> QED BY <1>1, <1>2, <1>3 DEF RiskNext

LEMMA RiskInvariant == RiskSpec => []RiskInv
  <1> QED BY RiskInitInv, RiskNextInv, PTL DEF RiskSpec

\* Only an execution check turns the gate, and it passes nothing within the
\* cooldown of an activation or after a breach.
LEMMA GateHonoursStops ==
    ASSUME RiskInv, [RiskNext]_riskVars, gate'.flip # gate.flip, gate'.ok
    PROVE  history.stopAge \notin 0..(KillCooldown - 1) /\ ~history.breached
  <1>1. PICK a \in Amounts : CheckExecution(a)
    BY DEF RiskNext, Controls, Operator, UpdateDrawdown, EvaluateTradeRisk, SetRiskParameters, ResetDailyDrawdown,
           ReadStatus, RecordTradeOutcome, SentinelPass, ControlsTick, SetAllAgentsActive, SetAgentActive,
           SetAutoExecute, EmergencyCloseAll, Restart, riskVars
  <1>2. TradeAllowed(a) /\ ~AfterCheck.active
    BY <1>1 DEF CheckExecution
  <1>3. ~history.breached
    BY <1>2 DEF TradeAllowed, RiskInv, StopsAreKept
  <1>4. ASSUME history.stopAge \in 0..(KillCooldown - 1) PROVE FALSE
    <2>1. engine.active /\ engine.age = history.stopAge
      BY <1>4 DEF RiskInv, StopsAreKept
    <2>2. ~Expired
      BY <1>4, <2>1, RiskAssumption DEF Expired
    <2> QED BY <1>2, <2>1, <2>2 DEF AfterCheck
  <1> QED BY <1>3, <1>4

\* The switch goes off when it has cooled down, which the sentinel's own
\* activations prevent while the market is risky, or at a restart.
LEMMA LapsesWhenCalm ==
    ASSUME RiskInv, [RiskNext]_riskVars, engine.active, ~engine'.active
    PROVE  sentinel'.passes < Required
  <1>1. CASE Restart
    BY <1>1, RiskAssumption DEF Restart
  <1>2. CASE engine' = AfterCheck /\ sentinel' = sentinel
    <2>1. engine.age = KillCooldown
      BY <1>2, AfterCheckLapses
    <2>2. sentinel.passes # Required
      BY <2>1, RiskAssumption DEF RiskInv, WatchIsKept
    <2> QED BY <1>2, <2>2, RiskAssumption DEF RiskInv, RiskTyped, SentinelState
  <1>3. Restart \/ (engine' = AfterCheck /\ sentinel' = sentinel)
    <2>1. ASSUME NEW a \in Amounts, CheckExecution(a) PROVE engine' = AfterCheck /\ sentinel' = sentinel
      BY <2>1 DEF CheckExecution
    <2>2. ASSUME NEW d \in Drops, EvaluateTradeRisk(d) PROVE engine' = AfterCheck /\ sentinel' = sentinel
      <3>1. CASE AfterCheck.active \/ d < 50
        BY <2>2, <3>1 DEF EvaluateTradeRisk
      <3>2. CASE ~(AfterCheck.active \/ d < 50)
        <4>1. engine' = [AfterCheck EXCEPT !.active = TRUE, !.age = 0]
          BY <2>2, <3>2 DEF EvaluateTradeRisk
        <4>2. engine'.active
          BY <4>1, AfterCheckLapses DEF EngineState
        <4> QED BY <4>2
      <3> QED BY <3>1, <3>2
    <2>3. ASSUME ReadStatus PROVE engine' = AfterCheck /\ sentinel' = sentinel
      BY <2>3 DEF ReadStatus
    <2>4. engine \in EngineState
      BY DEF RiskInv, RiskTyped
    <2>5. ASSUME NEW b \in BOOLEAN, RecordTradeOutcome(b) PROVE FALSE
      BY <2>4, <2>5 DEF RecordTradeOutcome, EngineState
    <2>6. ASSUME NEW s \in {"risky", "calm", "fails"}, SentinelPass(s) PROVE FALSE
      BY <2>4, <2>6 DEF SentinelPass, ActivateKillSwitch, Activated, EngineState
    <2>7. ASSUME ControlsTick PROVE FALSE
      BY <2>4, <2>7 DEF ControlsTick, EngineState
    <2>8. ASSUME EmergencyCloseAll PROVE FALSE
      BY <2>4, <2>8 DEF EmergencyCloseAll, ActivateKillSwitch, Activated, EngineState
    <2>9. ASSUME UNCHANGED engine PROVE FALSE
      BY <2>9
    <2> QED BY <2>1, <2>2, <2>3, <2>5, <2>6, <2>7, <2>8, <2>9
            DEF RiskNext, Controls, Operator, UpdateDrawdown, SetRiskParameters, ResetDailyDrawdown,
                SetAllAgentsActive, SetAgentActive, SetAutoExecute, riskVars
  <1> QED BY <1>1, <1>2, <1>3

\* A stop holds until something the code names lifts it, for every limit,
\* cooldown and count of losses: no check lets a trade through within the
\* cooldown of an activation or after a breach of the limit then in force, and
\* the switch never lapses while the sentinel counts a risky market.
THEOREM StopsAreObeyed == RiskSpec => StopsHold
  <1>1. RiskInv => RiskTypeOK
    BY RiskAssumption, AgeFacts
       DEF RiskInv, RiskTyped, RiskTypeOK, ManagerState, EngineState, SentinelState, Switch
  <1>2. RiskInv /\ [RiskNext]_riskVars =>
          [gate'.flip # gate.flip /\ gate'.ok =>
             history.stopAge \notin 0 .. KillCooldown - 1 /\ ~history.breached]_riskVars
    BY GateHonoursStops
  <1>3. RiskInv /\ [RiskNext]_riskVars =>
          [engine.active /\ ~engine'.active => sentinel'.passes < Required]_riskVars
    BY LapsesWhenCalm
  <1> QED BY <1>1, <1>2, <1>3, RiskInvariant, PTL DEF RiskSpec, StopsHold, StopsAreHonoured, LapseMeansCalm
-----------------------------------------------------------------------------
(* The strategy files                                                      *)

\* A version that is not there or that the validator accepts.
Sound(code) == code = "none" \/ WellShaped(code)

\* Before the first fault only the version being validated may be unsound, and a
\* version there was before it has its backup.
FilesAreSound ==
    faults = 0 =>
        \A n \in Name : /\ Sound(backups[n])
                        /\ Sound(files[n]) \/ (writing # NoWrite /\ writing.name = n /\ files[n] = writing.code)

StrategyInv ==
    /\ files \in [Name -> Code \cup {"none"}] /\ backups \in [Name -> Code \cup {"none"}]
    /\ imported \in [Name -> Code \cup {"none"}] /\ \A n \in Name : Sound(imported[n])
    /\ active \in Name \cup {"none"}
    /\ faults \in Nat /\ booting \in {"generate", "validate", "smoke", "done"}
    /\ booting = "validate" => writing # NoWrite
    /\ writing # NoWrite =>
         writing \in [name : Name, code : Code, existed : BOOLEAN] /\ files[writing.name] = writing.code
    /\ FilesAreSound

LEMMA StrategyInitInv == StrategyInit => StrategyInv
  BY StrategyAssumption
     DEF StrategyInit, StrategyInv, FilesAreSound, Sound, WellShaped, NoFiles, NoWrite, Name

\* A write in progress leaves the other parts of the invariant alone.
LEMMA WriteBeginsInv ==
    ASSUME StrategyInv, NEW n \in Name, NEW c \in Code, WriteBegins(n, c), writing = NoWrite,
           booting' \in {"validate", booting}, UNCHANGED <<active, usable, imported, decided, hung, faults>>
    PROVE  StrategyInv'
  <1>1. /\ files' \in [Name -> Code \cup {"none"}] /\ files'[n] = c
        /\ \A m \in Name : m # n => files'[m] = files[m]
    BY DEF StrategyInv, WriteBegins
  <1>2. /\ backups' \in [Name -> Code \cup {"none"}]
        /\ \A m \in Name : backups'[m] \in {backups[m], files[m]}
    BY DEF StrategyInv, WriteBegins
  <1>3. /\ writing' \in [name : Name, code : Code, existed : BOOLEAN]
        /\ writing'.name = n /\ writing'.code = c /\ writing' # NoWrite
    BY DEF WriteBegins, NoWrite, Name
  <1>4. FilesAreSound'
    BY <1>1, <1>2, <1>3 DEF StrategyInv, FilesAreSound, Sound, WellShaped
  <1> QED BY <1>1, <1>2, <1>3, <1>4 DEF StrategyInv, Sound, WellShaped

\* What the validator leaves is sound wherever it was before the write.
LEMMA ValidatedSound ==
    ASSUME StrategyInv, writing # NoWrite
    PROVE  \A answered \in BOOLEAN :
             /\ Validated(answered) \in [Name -> Code \cup {"none"}]
             /\ faults = 0 => \A n \in Name : Sound(Validated(answered)[n])
  <1> SUFFICES ASSUME NEW answered \in BOOLEAN
               PROVE  /\ Validated(answered) \in [Name -> Code \cup {"none"}]
                      /\ faults = 0 => \A n \in Name : Sound(Validated(answered)[n])
    OBVIOUS
  <1>1. /\ writing.name \in Name /\ writing.code \in Code /\ files[writing.name] = writing.code
        /\ files \in [Name -> Code \cup {"none"}] /\ backups \in [Name -> Code \cup {"none"}]
    BY DEF StrategyInv
  <1>2. Validated(answered) \in [Name -> Code \cup {"none"}]
    BY <1>1 DEF Validated
  <1>3. ASSUME faults = 0, NEW n \in Name PROVE Sound(Validated(answered)[n])
    <2>1. Sound(backups[n]) /\ (Sound(files[n]) \/ writing.name = n)
      BY <1>3 DEF StrategyInv, FilesAreSound
    <2>2. CASE answered /\ WellShaped(writing.code)
      BY <1>1, <2>1, <2>2 DEF Validated, Sound
    <2>3. CASE ~(answered /\ WellShaped(writing.code))
      BY <1>1, <2>1, <2>3 DEF Validated, Sound
    <2> QED BY <2>2, <2>3
  <1> QED BY <1>2, <1>3

LEMMA EvaluateStrategiesInv ==
    ASSUME StrategyInv, NEW starts \in BOOLEAN, NEW answered \in SUBSET Name, EvaluateStrategies(starts, answered)
    PROVE  StrategyInv'
  <1> DEFINE run == GetActiveStrategy(usable, imported, answered)
  <1>1. /\ imported \in [Name -> Code \cup {"none"}] /\ \A n \in Name : Sound(imported[n])
        /\ files \in [Name -> Code \cup {"none"}] /\ active \in Name \cup {"none"}
    BY DEF StrategyInv
  <1>2. run.name \in Name /\ files[run.name] # "none" /\ (imported[run.name] = "none" => WellShaped(files[run.name]))
    <2>1. \A n \in Name : LoadModule(n, usable, imported, answered) # "none" =>
             files[n] # "none" /\ (imported[n] = "none" => WellShaped(files[n]))
      BY DEF LoadModule
    <2>2. "default" \in Name
      BY DEF Name
    <2>3. run # NoRun
      BY DEF EvaluateStrategies
    <2> QED BY <1>1, <2>1, <2>2, <2>3 DEF GetActiveStrategy, NoRun
  <1>3. imported' \in {imported, [imported EXCEPT ![run.name] = Imported(run.name)]}
    BY DEF EvaluateStrategies, RunInWorker, RunInProcess
  <1> HIDE DEF run
  <1>4. Imported(run.name) \in Code \cup {"none"} /\ Sound(Imported(run.name))
    BY <1>1, <1>2 DEF Imported, Sound
  <1>5. imported' \in [Name -> Code \cup {"none"}] /\ \A n \in Name : Sound(imported'[n])
    BY <1>1, <1>2, <1>3, <1>4
  <1> QED BY <1>5 DEF EvaluateStrategies, StrategyInv, FilesAreSound, Sound, WellShaped

LEMMA StrategyNextInv == StrategyInv /\ [StrategyNext]_strategyVars => StrategyInv'
  <1> SUFFICES ASSUME StrategyInv, [StrategyNext]_strategyVars PROVE StrategyInv'
    OBVIOUS
  <1>1. ASSUME NEW n \in Name, NEW c \in Code, WriteStrategy(n, c) PROVE StrategyInv'
    BY <1>1, WriteBeginsInv DEF WriteStrategy, Idle, Awake, agentVars
  <1>2. ASSUME NEW n \in Name, WriteTorn(n) PROVE StrategyInv'
    <2>1. files' \in [Name -> Code \cup {"none"}] /\ backups' \in [Name -> Code \cup {"none"}]
      BY <1>2, StrategyAssumption DEF WriteTorn, StrategyInv
    <2> QED BY <1>2, <2>1 DEF WriteTorn, Idle, Awake, agentVars, StrategyInv, FilesAreSound, Sound, WellShaped
  <1>3. ASSUME NEW answered \in BOOLEAN, WriteEnds(answered) PROVE StrategyInv'
    BY <1>3, ValidatedSound DEF WriteEnds, agentVars, StrategyInv, FilesAreSound, Sound, WellShaped
  <1>4. ASSUME NEW n \in Name, RollbackFile(n) PROVE StrategyInv'
    <2>1. files' \in [Name -> Code \cup {"none"}] /\ \A m \in Name : files'[m] \in {files[m], backups[m]}
      BY <1>4 DEF RollbackFile, StrategyInv
    <2> QED BY <1>4, <2>1 DEF RollbackFile, Idle, Awake, agentVars, StrategyInv, FilesAreSound, Sound, WellShaped
  <1>5. ASSUME NEW n \in Name, SetActiveStrategy(n) PROVE StrategyInv'
    BY <1>5 DEF SetActiveStrategy, agentVars, StrategyInv, FilesAreSound, Sound, WellShaped
  <1>6. ASSUME BootSkips PROVE StrategyInv'
    BY <1>6 DEF BootSkips, agentVars, StrategyInv, FilesAreSound, Sound, WellShaped
  <1>7. ASSUME NEW c \in Code, BootGenerates(c) PROVE StrategyInv'
    <2>1. "custom" \in Name
      BY DEF Name
    <2> QED BY <1>7, <2>1, WriteBeginsInv DEF BootGenerates, Awake, agentVars
  <1>8. ASSUME NEW answered \in BOOLEAN, BootValidates(answered) PROVE StrategyInv'
    <2>1. writing # NoWrite /\ active' \in Name \cup {"none"} /\ booting' \in {"done", "smoke"}
      BY <1>8 DEF BootValidates, StrategyInv, Name
    <2> QED BY <1>8, <2>1, ValidatedSound
            DEF BootValidates, agentVars, StrategyInv, FilesAreSound, Sound, WellShaped
  <1>9. ASSUME NEW answered \in SUBSET Name, BootSmokes(answered) PROVE StrategyInv'
    <2>1. /\ files' \in [Name -> Code \cup {"none"}] /\ \A m \in Name : files'[m] \in {files[m], "none"}
          /\ booting' \in {"smoke", "done"}
      BY <1>9 DEF BootSmokes, StrategyInv
    <2>2. /\ UNCHANGED <<backups, active, writing, usable, imported, decided, faults>>
          /\ writing = NoWrite /\ hung' \in BOOLEAN
      BY <1>9 DEF BootSmokes, Awake
    <2>3. FilesAreSound'
      BY <2>1, <2>2 DEF StrategyInv, FilesAreSound, Sound
    <2> QED BY <2>1, <2>2, <2>3 DEF StrategyInv, Sound, WellShaped
  <1>10. ASSUME StrategyRestart PROVE StrategyInv'
    BY <1>10 DEF StrategyRestart, StrategyInv, FilesAreSound, Sound, WellShaped, NoFiles
  <1>11. CASE UNCHANGED strategyVars
    BY <1>11 DEF strategyVars, StrategyInv, FilesAreSound, Sound, WellShaped
  <1> QED BY <1>1, <1>2, <1>3, <1>4, <1>5, <1>6, <1>7, <1>8, <1>9, <1>10, <1>11, EvaluateStrategiesInv
          DEF StrategyNext

\* Code that was refused does not stay behind, and a domain whose default is
\* sound has a strategy to run, however often the process dies or a disk
\* fails on the way to it.
THEOREM StrategiesStaySound == StrategySpec => []StrategiesAreSound
  <1>1. StrategyInv => RefusedCodeIsGone
    BY DEF StrategyInv, FilesAreSound, RefusedCodeIsGone, Sound
  <1>2. StrategyInv => DefaultBacksUp
    <2> SUFFICES ASSUME StrategyInv, NEW answered \in SUBSET Name
                 PROVE  LET run == GetActiveStrategy(usable, imported, answered)
                        IN  /\ run # NoRun => WellShaped(run.code) /\ files[run.name] # "none"
                            /\ WellShaped(files["default"]) /\ (usable => "default" \in answered) => run # NoRun
      BY DEF DefaultBacksUp
    <2>1. "default" \in Name
      BY DEF Name
    <2>2. \A n \in Name : LoadModule(n, usable, imported, answered) # "none" =>
             files[n] # "none" /\ WellShaped(LoadModule(n, usable, imported, answered))
      BY DEF LoadModule
    <2>3. ASSUME WellShaped(files["default"]), usable => "default" \in answered
          PROVE  LoadModule("default", usable, imported, answered) # "none"
      BY <2>1, <2>3 DEF LoadModule, StrategyInv, Sound, WellShaped
    <2> QED BY <2>1, <2>2, <2>3 DEF GetActiveStrategy, StrategyInv, NoRun
  <1>3. StrategySpec => []StrategyInv
    BY StrategyInitInv, StrategyNextInv, PTL DEF StrategySpec
  <1>4. RefusedCodeIsGone /\ DefaultBacksUp => StrategiesAreSound
    BY DEF StrategiesAreSound
  <1> QED BY <1>1, <1>2, <1>3, <1>4, PTL

-----------------------------------------------------------------------------
(* The schema                                                              *)

\* The runner has connection c to itself, with t open on it.
Alone(c, t) ==
    /\ conns = [busy |-> [d \in Conn |-> IF d = c THEN "runner" ELSE "closed"], idle |-> <<>>, queue |-> <<>>]
    /\ tx = [d \in Conn |-> IF d = c THEN t ELSE NoTx]

\* The transaction the runner's statements have built by the time it waits for
\* the answer to this one; what a refused one holds does not matter.
Built ==
    [open |-> runner.at # "read" /\ runner.at # "begin", failed |-> FALSE,
     tables |-> IF runner.at \in {"record", "commit"} THEN {runner.version} ELSE {},
     recorded |-> IF runner.at = "commit" THEN {runner.version} ELSE {}]

Waiting == {"read", "begin", "body", "record", "commit", "rollback"}
Ended == {"done", "failed"}

\* As long as no sighting was mixed in, the runner has one connection to itself
\* until it ends, and what is committed is whole.
SchemaInv ==
    /\ ready \in BOOLEAN /\ mixed \in BOOLEAN
    /\ ~ready => conns = NoPool /\ tx = [c \in Conn |-> NoTx] /\ runner = NotRunning
    /\ ready => runner.at \in Waiting \cup Ended
    /\ runner = [at |-> runner.at, version |-> runner.version, applied |-> runner.applied]
    /\ ~mixed =>
         /\ db = [tables |-> db.recorded, recorded |-> db.recorded]
         /\ runner.at \in Ended => tx = [c \in Conn |-> NoTx]
         /\ runner.at \in Waiting =>
              \E c \in Conn : Alone(c, IF runner.at = "rollback" THEN tx[c] ELSE Built)

LEMMA SchemaInitInv == SchemaInit => SchemaInv
  <1> SUFFICES ASSUME SchemaInit PROVE SchemaInv
    OBVIOUS
  <1>1. runner = NotRunning /\ runner.at = "none" /\ ready = FALSE /\ mixed = FALSE
    BY DEF SchemaInit, NotRunning
  <1>2. db = [tables |-> {}, recorded |-> {}] /\ db.recorded = {}
    BY DEF SchemaInit
  <1>3. NotRunning = [at |-> NotRunning.at, version |-> NotRunning.version, applied |-> NotRunning.applied]
    BY DEF NotRunning
  <1>4. db = [tables |-> db.recorded, recorded |-> db.recorded]
    BY <1>2
  <1> QED BY <1>1, <1>3, <1>4 DEF SchemaInit, SchemaInv, Waiting, Ended

\* The pool as Alone has it.
Only(c) == [busy |-> [d \in Conn |-> IF d = c THEN "runner" ELSE "closed"], idle |-> <<>>, queue |-> <<>>]

\* A connection given back to a pool nobody else uses is the one got next.
LEMMA SameConnection == ASSUME NEW c \in Conn PROVE Ask(Give(Only(c), c), "runner") = Only(c)
  <1> DEFINE given == Give(Only(c), c)
  <1>1. given = [busy |-> [d \in Conn |-> IF d = c THEN "idle" ELSE "closed"], idle |-> <<c>>, queue |-> <<>>]
    <2>1. given = [Only(c) EXCEPT !.busy[c] = "idle", !.idle = Append(<<>>, c)]
      BY DEF Give, Only
    <2>2. Append(<<>>, c) = <<c>>
      OBVIOUS
    <2> HIDE DEF given
    <2> QED BY <2>1, <2>2 DEF Only
  <1> HIDE DEF given
  <1>2. given.idle # <<>> /\ Last(given.idle) = c /\ Front(given.idle) = <<>>
    BY <1>1 DEF Last, Front
  <1>3. Ask(given, "runner") = [given EXCEPT !.busy[c] = "runner", !.idle = <<>>]
    BY <1>2 DEF Ask
  <1>4. Ask(given, "runner") = Only(c)
    BY <1>1, <1>3, ZenonT(60) DEF Only
  <1> QED BY <1>4 DEF given

LEMMA OpensOne == \E c \in Conn : Ask(NoPool, "runner") = Only(c)
  <1> DEFINE c == CHOOSE d \in {d \in Conn : NoPool.busy[d] = "closed"} : TRUE
  <1>1. 1 \in {d \in Conn : NoPool.busy[d] = "closed"}
    BY DEF NoPool, Conn
  <1>2. c \in Conn
    BY <1>1
  <1>3. Ask(NoPool, "runner") = [NoPool EXCEPT !.busy[c] = "runner"]
    BY <1>1 DEF Ask, NoPool
  <1> HIDE DEF c
  <1>4. [NoPool EXCEPT !.busy[c] = "runner"] = Only(c)
    BY <1>2 DEF NoPool, Only
  <1> QED BY <1>2, <1>3, <1>4

LEMMA FollowingEnds ==
    ASSUME NEW applied, NEW version
    PROVE  LET goal == Following(applied, version)
           IN  goal.at \in {"done", "begin"} /\ goal = [at |-> goal.at, version |-> goal.version, applied |-> goal.applied]
  BY DEF Following, FirstStatement

\* The one connection the runner has, when it waits for an answer on c.
LEMMA RunnersOwn ==
    ASSUME SchemaInv, ~mixed, runner.at \in Waiting, NEW c \in Conn, conns.busy[c] # "closed"
    PROVE  Alone(c, IF runner.at = "rollback" THEN tx[c] ELSE Built) /\ conns = Only(c) /\ conns.busy[c] = "runner"
  BY DEF SchemaInv, Alone, Only

\* A step of the runner on its connection, before any sighting was mixed in.
LEMMA SchemaStatementInv == ASSUME SchemaInv, NEW c \in Conn, StatementAnswers(c) PROVE SchemaInv'
  <1>1. runner.at \in {"begin", "body", "record"} /\ conns.busy[c] = "runner" /\ runner.at \in Waiting
    BY DEF StatementAnswers, Waiting
  <1>2. /\ runner' = [runner EXCEPT !.at = runner'.at]
        /\ runner'.at \in {"body", "record", "commit", "rollback"} /\ ready
    BY <1>1 DEF StatementAnswers, SchemaInv, AfterStatement, NotRunning
  <1>3. ASSUME ~mixed 
        PROVE  /\ db' = db /\ conns' = Only(c)
               /\ tx' = [d \in Conn |-> IF d = c THEN tx'[c] ELSE NoTx]
               /\ runner'.at # "rollback" => tx'[c] = Built'
    <2>1. Alone(c, Built) /\ conns = Only(c)
      BY <1>1, <1>3, RunnersOwn
    <2>2. tx[c] = Built /\ tx = [d \in Conn |-> IF d = c THEN tx[c] ELSE NoTx]
      BY <2>1 DEF Alone
    <2>3. conns' = Only(c)
      BY <2>1, SameConnection DEF StatementAnswers
    <2>10. ~tx[c].failed /\ tx[c].open = (runner.at # "begin")
      BY <1>1, <2>2 DEF Built
    <2> DEFINE ok == runner.at = "begin" \/ (~tx[c].failed /\ ~(runner.at = "body" /\ runner.version \in Unparsable))
    <2>11. ok <=> runner'.at # "rollback"
      BY <1>1, <1>2, <2>10 DEF StatementAnswers, AfterStatement, SchemaInv
    <2>4. tx'[c] = (IF runner.at = "begin" THEN [Built EXCEPT !.open = TRUE]
                    ELSE IF runner'.at # "rollback" THEN Adds(runner.at, runner.version, Built)
                    ELSE [Built EXCEPT !.failed = TRUE])
      BY <1>1, <2>2, <2>10, <2>11 DEF StatementAnswers
    <2>5. tx' = [d \in Conn |-> IF d = c THEN tx'[c] ELSE NoTx]
      BY <2>2 DEF StatementAnswers
    <2>6. db' = db
      BY <1>1, <2>10 DEF StatementAnswers, Adds
    <2>7. runner'.at # "rollback" => tx'[c] = Built'
      <3>1. ASSUME runner'.at # "rollback" PROVE runner'.at = AfterStatement(runner.at) /\ runner'.version = runner.version
        BY <1>1, <2>10, <2>11, <3>1 DEF StatementAnswers, SchemaInv
      <3>2. CASE runner.at = "begin"
        BY <2>4, <3>1, <3>2 DEF Built, AfterStatement
      <3>3. CASE runner.at = "body"
        <4>1. Built = [open |-> TRUE, failed |-> FALSE, tables |-> {}, recorded |-> {}]
          BY <3>3 DEF Built
        <4>2. Adds("body", runner.version, Built)
                = [open |-> TRUE, failed |-> FALSE, tables |-> {runner.version}, recorded |-> {}]
          BY <4>1 DEF Adds
        <4>3. runner'.at # "rollback"
                => Built' = [open |-> TRUE, failed |-> FALSE, tables |-> {runner.version}, recorded |-> {}]
          BY <3>1, <3>3 DEF Built, AfterStatement
        <4> QED BY <2>4, <3>3, <4>2, <4>3
      <3>4. CASE runner.at = "record"
        BY <2>4, <3>1, <3>4, ZenonT(60) DEF Built, Adds, AfterStatement
      <3> QED BY <1>1, <3>2, <3>3, <3>4
    <2> QED BY <2>3, <2>5, <2>6, <2>7
  <1>4. ready' = ready /\ mixed' = mixed
    BY DEF StatementAnswers
  <1>5. runner' = [at |-> runner'.at, version |-> runner'.version, applied |-> runner'.applied]
    BY <1>2 DEF SchemaInv
  <1>6. ASSUME ~mixed, runner'.at = "rollback" PROVE Alone(c, tx[c])'
    BY <1>3, <1>6 DEF Alone, Only
  <1>7. ASSUME ~mixed, runner'.at # "rollback" PROVE Alone(c, Built)'
    <2>1. tx' = [d \in Conn |-> IF d = c THEN Built' ELSE NoTx]
      BY <1>3, <1>7
    <2> QED BY <1>3, <1>7, <2>1 DEF Alone, Only
  <1>8. ~mixed => Alone(c, IF runner.at = "rollback" THEN tx[c] ELSE Built)'
    <2>1. CASE runner'.at = "rollback"
      BY <1>6, <2>1
    <2>2. CASE runner'.at # "rollback"
      BY <1>7, <2>2
    <2> QED BY <2>1, <2>2
  <1> QED BY <1>2, <1>3, <1>4, <1>5, <1>8 DEF SchemaInv, Waiting, Ended

\* The runner goes on to its next version or ends.
LEMMA SchemaGoesOn ==
    ASSUME SchemaInv, NEW c \in Conn, conns.busy[c] = "runner", runner.at \in Waiting, ready' = ready, mixed' = mixed,
           NEW applied, NEW version, runner' = Following(applied, version),
           conns' = IF runner'.at = "done" THEN Give(conns, c) ELSE Ask(Give(conns, c), "runner"),
           ~mixed => tx' = [d \in Conn |-> NoTx] /\ db' = [tables |-> db'.recorded, recorded |-> db'.recorded]
    PROVE  SchemaInv'
  <1>1. runner'.at \in {"done", "begin"} /\ runner' = [at |-> runner'.at, version |-> runner'.version, applied |-> runner'.applied]
    BY FollowingEnds
  <1>2. ASSUME ~mixed, runner'.at = "begin" PROVE Alone(c, Built)'
    <2>1. conns' = Only(c)
      BY <1>2, RunnersOwn, SameConnection
    <2>2. Built' = NoTx
      BY <1>2 DEF Built, NoTx
    <2> QED BY <1>2, <2>1, <2>2 DEF Alone, Only
  <1>3. ready
    BY DEF SchemaInv, NotRunning, Waiting
  <1> QED BY <1>1, <1>2, <1>3 DEF SchemaInv, Waiting, Ended

LEMMA SchemaNextInv == SchemaInv /\ [SchemaNext]_schemaVars => SchemaInv'
  <1> SUFFICES ASSUME SchemaInv, [SchemaNext]_schemaVars PROVE SchemaInv'
    OBVIOUS
  <1>1. ASSUME EnsurePool PROVE SchemaInv'
    <2>1. PICK c \in Conn : conns' = Only(c)
      BY <1>1, OpensOne DEF EnsurePool
    <2>2. runner' = [NotRunning EXCEPT !.at = "read"] /\ tx' = [d \in Conn |-> NoTx]
      BY <1>1 DEF EnsurePool, SchemaInv
    <2>3. Built' = NoTx
      BY <2>2 DEF Built, NoTx, NotRunning
    <2>4. Alone(c, Built)'
      BY <2>1, <2>2, <2>3 DEF Alone, Only
    <2> QED BY <1>1, <2>2, <2>4 DEF EnsurePool, SchemaInv, NotRunning, Waiting, Ended
  <1>2. ASSUME NEW c \in Conn, ReadsApplied(c) PROVE SchemaInv'
    <2>1. ~mixed => Alone(c, Built)
      BY <1>2, RunnersOwn DEF ReadsApplied, Waiting
    <2>2. ~mixed => tx = [d \in Conn |-> NoTx]
      BY <1>2, <2>1 DEF ReadsApplied, Alone, Built, NoTx
    <2> QED BY <1>2, <2>2, SchemaGoesOn DEF ReadsApplied, Waiting, SchemaInv
  <1>3. ASSUME NEW c \in Conn, CommitAnswers(c) PROVE SchemaInv'
    <2>1. ASSUME ~mixed
          PROVE  tx' = [d \in Conn |-> NoTx] /\ db' = [tables |-> db'.recorded, recorded |-> db'.recorded]
      <3>1. Alone(c, Built) /\ db = [tables |-> db.recorded, recorded |-> db.recorded]
        BY <1>3, <2>1, RunnersOwn DEF CommitAnswers, Waiting, SchemaInv
      <3>2. tx[c] = Built /\ Built.tables = Built.recorded
        BY <1>3, <3>1 DEF CommitAnswers, Alone, Built
      <3>3. tx' = [d \in Conn |-> NoTx]
        BY <1>3, <3>1 DEF CommitAnswers, Alone
      <3>4. CASE tx[c].failed
        BY <1>3, <3>1, <3>3, <3>4 DEF CommitAnswers
      <3>5. CASE ~tx[c].failed
        <4>1. db.tables = db.recorded
          BY <3>1
        <4>2. db' = [tables |-> db.tables \cup tx[c].tables, recorded |-> db.recorded \cup tx[c].recorded]
          BY <1>3, <3>5 DEF CommitAnswers
        <4> QED BY <3>2, <3>3, <4>1, <4>2
      <3> QED BY <3>4, <3>5
    <2> QED BY <1>3, <2>1, SchemaGoesOn DEF CommitAnswers, Waiting
  <1>4. ASSUME NEW c \in Conn, RollbackAnswers(c) PROVE SchemaInv'
    <2>1. ASSUME ~mixed PROVE tx' = [d \in Conn |-> NoTx]
      <3>1. Alone(c, tx[c])
        BY <1>4, <2>1, RunnersOwn DEF RollbackAnswers, Waiting
      <3> QED BY <1>4, <3>1 DEF RollbackAnswers, Alone
    <2>2. runner' = [runner EXCEPT !.at = "failed"] /\ ready /\ UNCHANGED <<ready, db, mixed>>
      BY <1>4 DEF RollbackAnswers, SchemaInv, NotRunning
    <2> QED BY <2>1, <2>2 DEF SchemaInv, Waiting, Ended
  <1>5. ASSUME AppendObservations PROVE SchemaInv'
    <2>1. ~mixed' => ~mixed /\ runner.at \in Ended
      BY <1>5 DEF AppendObservations, Ended
    <2> QED BY <1>5, <2>1 DEF AppendObservations, SchemaInv, Waiting, Ended
  <1>6. ASSUME NEW c \in Conn, ObservationAnswers(c) PROVE SchemaInv'
    <2>1. ~mixed => runner.at \notin Waiting
      BY <1>6, RunnersOwn DEF ObservationAnswers
    <2>2. ready
      BY <1>6 DEF ObservationAnswers, SchemaInv, NoPool
    <2>3. ASSUME ~mixed PROVE tx' = tx
      BY <1>6, <2>1, <2>2, <2>3 DEF ObservationAnswers, SchemaInv, NoTx
    <2> QED BY <1>6, <2>1, <2>2, <2>3 DEF ObservationAnswers, SchemaInv
  <1>7. ASSUME SchemaRestart PROVE SchemaInv'
    <2>1. runner' = NotRunning /\ conns' = NoPool /\ tx' = [c \in Conn |-> NoTx] /\ ready' = FALSE /\ UNCHANGED <<db, mixed>>
      BY <1>7 DEF SchemaRestart
    <2> QED BY <2>1 DEF SchemaInv, NotRunning, Waiting, Ended
  <1>8. CASE UNCHANGED schemaVars
    BY <1>8 DEF schemaVars, SchemaInv, Alone, Built
  <1> QED BY <1>1, <1>2, <1>3, <1>4, <1>5, <1>6, <1>7, <1>8, SchemaStatementInv DEF SchemaNext

\* For every list of migrations, refused ones and deaths of the process: unless
\* a sighting was written while the runner ran, a version is recorded exactly
\* when its tables are there.
THEOREM SchemaIsAsRecorded == SchemaSpec => []SchemaAsRecorded
  <1>1. SchemaInv => SchemaAsRecorded
    BY DEF SchemaInv, SchemaAsRecorded
  <1> QED BY <1>1, SchemaInitInv, SchemaNextInv, PTL DEF SchemaSpec

-----------------------------------------------------------------------------
(* The histories                                                           *)

Map(f) == f = [i \in Ids |-> f[i]]

\* What a file holds, the process knows; and only the ledger has a file.
HistoryInv ==
    /\ Map(memory) /\ Map(file) /\ hydration.answer = NoRows /\ deaths \in Nat
    /\ store \in Store /\ (hydration.at = "asked" => Loads(store))
    /\ \A i \in Ids : file[i] # "none" => memory[i] # "none" /\ store = "ledger"

HistoryKept ==
    \A i \in Ids :
        memory[i] # "none" \/ file[i] # "none"
        => memory'[i] # "none" \/ (deaths' < deaths /\ file[i] = "none")

LEMMA HistoryInitInv == HistoryInit => HistoryInv
  BY HistoryAssumption DEF HistoryInit, HistoryInv, Map, NoRows, Store, Loads

\* Nothing is forgotten by what sets one row to something.
LEMMA LearningKeeps ==
    ASSUME HistoryInv, NEW id \in Ids, NEW state, state # "none",
           memory' = [memory EXCEPT ![id] = state], UNCHANGED <<store, file, hydration, deaths>>
    PROVE  HistoryInv' /\ HistoryKept
  BY DEF HistoryInv, HistoryKept, Map

LEMMA LearnsKeeps ==
    ASSUME HistoryInv, NEW id \in Ids, NEW state, state # "none", Learns(id, state)
    PROVE  HistoryInv' /\ HistoryKept
  BY LearningKeeps DEF Learns

\* Steps that leave memory, file and load alone.
LEMMA QuietKeeps ==
    ASSUME HistoryInv, UNCHANGED <<store, memory, file, hydration, deaths>>
    PROVE  HistoryInv' /\ HistoryKept
  BY DEF HistoryInv, HistoryKept, Map

LEMMA HistoryStep == HistoryInv /\ [HistoryNext]_historyVars => HistoryInv' /\ (HistoryKept \/ UNCHANGED historyVars)
  <1> SUFFICES ASSUME HistoryInv, [HistoryNext]_historyVars
               PROVE  HistoryInv' /\ (HistoryKept \/ UNCHANGED historyVars)
    OBVIOUS
  <1>1. CASE LoadAnswers
    <2>1. store \in Store /\ store # "receipts"
      BY <1>1 DEF LoadAnswers, HistoryInv, Loads
    <2>2. Answer = NoRows
      BY <2>1 DEF Store, Answer, LoadDecisionEvents, LoadPaperTrades, LoadGraphEvents, LoadTraderRows,
                  LoadSnapshot, Parsed, Handed
    <2>3. hydration'.at = "read" /\ hydration'.answer = NoRows /\ UNCHANGED <<store, memory, file, deaths>>
      BY <1>1, <2>2 DEF LoadAnswers
    <2> QED BY <2>3 DEF HistoryInv, HistoryKept, Map
  <1>2. CASE Hydrates
    <2>1. hydration'.answer = NoRows /\ hydration'.at # "asked" /\ UNCHANGED <<store, file, deaths>>
      BY <1>2 DEF Hydrates, HistoryInv
    <2>2. memory' = [i \in Ids |-> memory[i]]
      BY <1>2 DEF Hydrates, HistoryInv, FillsMissing, FillsEmpty, NoRows, Map
    <2> QED BY <2>1, <2>2 DEF HistoryInv, HistoryKept, Map
  <1>3. CASE Starts
    BY <1>3, QuietKeeps DEF Starts
  <1>4. ASSUME NEW i \in Ids, NEW o \in {"confirmed", "failed"}, RecordSend(i, o) PROVE HistoryInv' /\ HistoryKept
    BY <1>4, LearnsKeeps DEF RecordSend
  <1>5. ASSUME NEW i \in Ids, RecordPaper(i) PROVE HistoryInv' /\ HistoryKept
    BY <1>5, LearnsKeeps DEF RecordPaper
  <1>6. ASSUME NEW i \in Ids, RegisterHandle(i) \/ RecordReceipt(i) PROVE HistoryInv' /\ HistoryKept
    BY <1>6, LearnsKeeps DEF RegisterHandle, RecordReceipt
  <1>7. ASSUME NEW i \in Ids, Sees(i) PROVE HistoryInv' /\ HistoryKept
    BY <1>7, LearningKeeps DEF Sees
  <1>8. ASSUME NEW i \in Ids, NEW r \in {"early", "late"}, Ingest(i, r) PROVE HistoryInv' /\ HistoryKept
    BY <1>8, LearnsKeeps DEF Ingest
  <1>9. CASE SaveLedger
    BY <1>9 DEF SaveLedger, HistoryInv, HistoryKept, Map
  <1>10. ASSUME NEW w \in flight, Lands(w) PROVE HistoryInv' /\ HistoryKept
    BY <1>10, QuietKeeps DEF Lands
  <1>11. CASE PostgresTurns
    BY <1>11, QuietKeeps DEF PostgresTurns
  <1>12. CASE HistoryRestart
    <2>1. /\ memory' = (IF store = "ledger" THEN file ELSE NoRows) /\ hydration'.answer = NoRows
          /\ hydration'.at = "asked" => Loads(store)
          /\ UNCHANGED <<store, file>> /\ deaths > 0 /\ deaths' = deaths - 1
      BY <1>12 DEF HistoryRestart, Boots
    <2>2. HistoryInv'
      BY <2>1 DEF HistoryInv, Map, NoRows
    <2>3. HistoryKept
      BY <2>1 DEF HistoryInv, HistoryKept, NoRows
    <2> QED BY <2>2, <2>3
  <1>13. CASE UNCHANGED historyVars
    BY <1>13, QuietKeeps DEF historyVars
  <1> QED BY <1>1, <1>2, <1>3, <1>4, <1>5, <1>6, <1>7, <1>8, <1>9, <1>10, <1>11, <1>12, <1>13 DEF HistoryNext

\* A load that comes late takes nothing away from what the process has learnt
\* meanwhile, and a restart forgets only what no file holds.
THEOREM LoadsAreHarmless == HistorySpec => LoadsLoseNothing
  <1>1. HistoryInv /\ [HistoryNext]_historyVars => [HistoryKept]_historyVars
    BY HistoryStep
  <1> QED BY <1>1, HistoryInitInv, HistoryStep, PTL DEF HistorySpec, LoadsLoseNothing, HistoryKept

-----------------------------------------------------------------------------
(* What a finalist's record rests on                                       *)

Source == {Unknown, Estimate, "feed", "dexscreener", "dexpaprika"}

\* The figures of p, of which only the market's may be estimated, were reported.
Observed(p, figures) ==
    /\ figures \in [Figure -> Source]
    /\ \A f \in Flow : figures[f] # Estimate
    /\ \A f \in Figure : figures[f] \notin {Unknown, Estimate} => <<p, f>> \in reported

RecordInv ==
    /\ token \in [ToSet(Pairs) -> [Figure -> Source]]
    /\ \A p \in ToSet(Pairs) : Observed(p, token[p])
    /\ \A p \in DOMAIN fresh : Observed(p, fresh[p])
    /\ RecordIsObserved

LEMMA BlankIsObserved == ASSUME NEW p PROVE Observed(p, Blank)
  BY DEF Observed, Blank, Source, Unknown, Estimate, Figure, Flow

LEMMA HydratedIsObserved ==
    ASSUME RecordInv, NEW p \in ToSet(Pairs)
    PROVE  Observed(p, Hydrated(p))
  <1>1. Observed(p, token[p])
    BY DEF RecordInv
  <1>2. CASE p \notin DOMAIN fresh \/ token[p] # Blank
    BY <1>1, <1>2 DEF Hydrated
  <1>3. CASE p \in DOMAIN fresh /\ token[p] = Blank
    <2>1. Observed(p, fresh[p])
      BY <1>3 DEF RecordInv
    <2> DEFINE h == Hydrated(p)
    <2>2. h = [x \in Figure |->
                CASE x = "volume24h" -> fresh[p][x]
                  [] x = "volume1h" /\ fresh[p][x] = Unknown /\ fresh[p]["volume24h"] # Unknown -> Estimate
                  [] OTHER -> IF fresh[p][x] # Unknown THEN fresh[p][x] ELSE token[p][x]]
      BY <1>3 DEF Hydrated
    <2>3. \A x \in Figure : h[x] \in {fresh[p][x], token[p][x]} \/ (x \notin Flow /\ h[x] = Estimate)
      BY <2>2 DEF Figure, Market, Flow
    <2>4. h \in [Figure -> Source]
      BY <1>1, <2>1, <2>2, <2>3 DEF Observed, Source
    <2> HIDE DEF h
    <2>5. Observed(p, h)
      BY <1>1, <2>1, <2>3, <2>4 DEF Observed, Flow, Figure
    <2> QED BY <2>5 DEF h
  <1> QED BY <1>2, <1>3

\* What a service told of some pairs, once it counts as reported.
LEMMA LearnedIsObserved ==
    ASSUME RecordInv, NEW known, NEW found, DOMAIN found = known,
           \A p \in known : found[p] \in [Figure -> Source] /\ \A f \in Figure : found[p][f] # Estimate,
           fresh' = Learned(found), reported' = reported \cup Told(found), UNCHANGED <<token, record>>
    PROVE  RecordInv'
  <1>1. \A p \in known, f \in Figure : found[p][f] # Unknown => <<p, f>> \in reported'
    BY DEF Told
  <1>2. \A p \in DOMAIN fresh' : fresh'[p] = IF p \in known THEN found[p] ELSE fresh[p]
    BY DEF Learned
  <1>3. \A p \in DOMAIN fresh' : p \notin known => p \in DOMAIN fresh
    BY DEF Learned
  <1>4. \A p \in DOMAIN fresh' : Observed(p, fresh[p])'
    <2> SUFFICES ASSUME NEW p \in DOMAIN fresh' PROVE Observed(p, fresh[p])'
      OBVIOUS
    <2>1. Flow \subseteq Figure
      BY DEF Flow, Figure
    <2>2. CASE p \in known
      BY <1>1, <1>2, <2>1, <2>2 DEF Observed
    <2>3. CASE p \notin known
      BY <1>2, <1>3, <2>3 DEF RecordInv, Observed
    <2> QED BY <2>2, <2>3
  <1>5. \A p \in ToSet(Pairs) : Observed(p, token[p])'
    BY DEF RecordInv, Observed
  <1>6. RecordIsObserved'
    BY DEF RecordInv, RecordIsObserved
  <1> QED BY <1>4, <1>5, <1>6 DEF RecordInv

LEMMA FinalistIsObserved ==
    ASSUME RecordInv, NEW p \in ToSet(Pairs), NEW bucket, NEW swarm \in BOOLEAN, NEW sellable \in BOOLEAN, NEW penalised \in BOOLEAN,
           Finalist(p, bucket, swarm, sellable, penalised)
    PROVE  RecordInv'
  <1> DEFINE t == Hydrated(p)
  <1>1. Observed(p, t)
    BY HydratedIsObserved
  <1>2. /\ token' = [token EXCEPT ![p] = t] /\ UNCHANGED <<fresh, reported>>
        /\ record' = [of |-> p, card |-> BuildPayload(t), snapshot |-> BuildFeatureSnapshot(SnapshotInput(t)),
                      quality |-> DataQuality(BuildFeatureSnapshot(SnapshotInput(t))),
                      sellable |-> swarm /\ sellable, clean |-> ~swarm \/ (sellable /\ ~penalised), checked |-> swarm]
    BY DEF Finalist
  <1> HIDE DEF t
  <1>3. \A f \in Flow \cap BuildFeatureSnapshot(SnapshotInput(t)) : <<p, f>> \in reported
    <2>1. \A f \in Flow : f \in Figure /\ SnapshotInput(t)[f] = t[f] /\ f \notin Market
      BY DEF SnapshotInput, Flow, Market, Figure
    <2>2. \A f \in Flow \cap BuildFeatureSnapshot(SnapshotInput(t)) : t[f] \notin {Unknown, Estimate}
      BY <1>1, <2>1 DEF BuildFeatureSnapshot, Observed
    <2> QED BY <1>1, <2>1, <2>2 DEF Observed
  <1>4. \A f \in DOMAIN BuildPayload(t) :
          BuildPayload(t)[f] \notin {Unknown, Estimate} => <<p, f>> \in reported
    <2>1. DOMAIN BuildPayload(t) = Figure \ Flow
      BY DEF BuildPayload
    <2>2. \A f \in Figure \ Flow : BuildPayload(t)[f] \in {t[f], Unknown, Estimate}
      BY DEF BuildPayload, Volume24hOf
    <2> QED BY <1>1, <2>1, <2>2 DEF Observed
  <1>9. (record'.sellable => record'.checked) /\ (record'.clean /\ record'.checked => record'.sellable)
    BY <1>2
  <1>5. RecordIsObserved'
    BY <1>2, <1>3, <1>4, <1>9 DEF RecordIsObserved
  <1>6. token' \in [ToSet(Pairs) -> [Figure -> Source]] /\ \A q \in ToSet(Pairs) : Observed(q, token'[q])
    BY <1>1, <1>2 DEF RecordInv, Observed
  <1>7. \A q \in ToSet(Pairs) : Observed(q, token[q])'
    BY <1>2, <1>6 DEF Observed
  <1>8. \A q \in DOMAIN fresh' : Observed(q, fresh[q])'
    BY <1>2 DEF RecordInv, Observed
  <1> QED BY <1>5, <1>6, <1>7, <1>8 DEF RecordInv

LEMMA RecordNextInv == RecordInv /\ [EvidenceNext]_evidenceVars => RecordInv'
  <1> SUFFICES ASSUME RecordInv, [EvidenceNext]_evidenceVars PROVE RecordInv'
    OBVIOUS
  <1>1. ASSUME DueForSnapshot PROVE RecordInv'
    <2>1. PICK known \in SUBSET ToSet(Pairs) :
             /\ token' = [p \in ToSet(Pairs) |-> IF p \in known THEN [f \in Figure |-> "feed"] ELSE Blank]
             /\ reported' = known \X Figure
      BY <1>1 DEF DueForSnapshot
    <2>2. token' \in [ToSet(Pairs) -> [Figure -> Source]] /\ \A p \in ToSet(Pairs) : Observed(p, token[p])'
      BY <2>1 DEF Observed, Blank, Source, Flow, Figure, Unknown, Estimate
    <2>3. DOMAIN fresh' = {} /\ record' = NoRecord
      BY <1>1 DEF DueForSnapshot
    <2> QED BY <2>2, <2>3 DEF RecordInv, RecordIsObserved
  <1>2. ASSUME BatchFreshMarketData PROVE RecordInv'
    <2>1. PICK known : \E found \in [known -> PairRow] :
             fresh' = Learned(found) /\ reported' = reported \cup Told(found)
      BY <1>2 DEF BatchFreshMarketData
    <2>2. PICK found \in [known -> PairRow] :
             fresh' = Learned(found) /\ reported' = reported \cup Told(found)
      BY <2>1
    <2>3. \A r \in PairRow : r \in [Figure -> Source] /\ \A f \in Figure : r[f] # Estimate
      BY DEF PairRow, Blank, Source, Unknown, Estimate
    <2> QED BY <1>2, <2>2, <2>3, LearnedIsObserved DEF BatchFreshMarketData
  <1>3. ASSUME OverlayDexpaprikaVolume PROVE RecordInv'
    <2>1. PICK known : \E found \in [known -> TokenDetail] :
             fresh' = Learned(found) /\ reported' = reported \cup Told(found)
      BY <1>3 DEF OverlayDexpaprikaVolume
    <2>2. PICK found \in [known -> TokenDetail] :
             fresh' = Learned(found) /\ reported' = reported \cup Told(found)
      BY <2>1
    <2>3. \A r \in TokenDetail : r \in [Figure -> Source] /\ \A f \in Figure : r[f] # Estimate
      BY DEF TokenDetail, Blank, Source, Unknown, Estimate
    <2> QED BY <1>3, <2>2, <2>3, LearnedIsObserved DEF OverlayDexpaprikaVolume
  <1>4. CASE UNCHANGED evidenceVars
    BY <1>4 DEF evidenceVars, RecordInv, RecordIsObserved, Observed
  <1> QED BY <1>1, <1>2, <1>3, <1>4, FinalistIsObserved DEF EvidenceNext

-----------------------------------------------------------------------------
(* The odds                                                                *)

Closed == {"won", "lost"}
ClosedTrades == {t \in Trades : tradeFile[t] \in Closed}
Label(t) == [trade |-> t, won |-> tradeFile[t] = "won"]

OddsInv ==
    /\ tradeFile \in [Trades -> {"none", "open"} \cup Closed] /\ book \in [Trades -> {"none", "open"} \cup Closed]
    /\ \A t \in ClosedTrades : book[t] = tradeFile[t]
    /\ labels \subseteq {Label(t) : t \in ClosedTrades}
    /\ odds.wins \in Nat /\ OddsAreEarned

\* There are no more labels of a kind than closed trades of that kind.
LEMMA LabelsCount ==
    ASSUME NEW S \in SUBSET Trades, NEW L, L \subseteq {Label(t) : t \in S}
    PROVE  /\ Cardinality(L) \in Nat /\ Cardinality(S) \in Nat /\ Cardinality(L) <= Cardinality(S)
  <1> DEFINE f == [l \in L |-> l.trade]
  <1>1. IsFiniteSet(S)
    BY FS_Subset, EvidenceAssumption
  <1>2. f \in Injection(L, S)
    <2>1. ASSUME NEW l \in L PROVE l = Label(l.trade) /\ l.trade \in S
      <3>1. PICK t \in S : l = Label(t)
        OBVIOUS
      <3> QED BY <3>1 DEF Label
    <2> QED BY <2>1 DEF Injection, IsInjective
  <1>3. IsFiniteSet(L) /\ Cardinality(L) <= Cardinality(S)
    BY <1>1, <1>2, FS_Injection
  <1> QED BY <1>1, <1>3, FS_CardinalityType

\* Odds stay earned as long as no closed trade of the file changes.
LEMMA EarnedStays ==
    ASSUME OddsInv, odds' = odds, \A t \in ClosedTrades : tradeFile'[t] = tradeFile[t]
    PROVE  OddsAreEarned'
  <1> SUFFICES ASSUME odds # NoOdds PROVE OddsAreEarned'
    BY DEF OddsAreEarned
  <1> DEFINE closed == {t \in Trades : tradeFile[t] \in {"won", "lost"}}
             of == {t \in closed : BucketOf[t] = odds.bucket}
             won == {t \in of : tradeFile[t] = "won"}
  <1>1. closed \subseteq closed' /\ of \subseteq of' /\ won \subseteq won'
    BY DEF ClosedTrades, Closed
  <1>2. IsFiniteSet(closed') /\ IsFiniteSet(of') /\ IsFiniteSet(won')
    BY FS_Subset, EvidenceAssumption
  <1>3. /\ Cardinality(closed) <= Cardinality(closed') /\ Cardinality(of) <= Cardinality(of')
        /\ Cardinality(won) <= Cardinality(won')
        /\ IsFiniteSet(closed) /\ IsFiniteSet(of) /\ IsFiniteSet(won)
    BY <1>1, <1>2, FS_Subset
  <1>4. /\ {Cardinality(closed), Cardinality(of), Cardinality(won)} \subseteq Nat
        /\ {Cardinality(closed'), Cardinality(of'), Cardinality(won')} \subseteq Nat
    BY <1>2, <1>3, FS_CardinalityType
  <1>5. /\ Cardinality(closed) >= MinSamples /\ Cardinality(of) >= MinPerBucket
        /\ odds.wins <= Cardinality(won) + 1
    BY DEF OddsInv, OddsAreEarned
  <1> HIDE DEF closed, of, won
  <1>6. odds.wins \in Nat /\ MinSamples \in Nat /\ MinPerBucket \in Nat
    BY EvidenceAssumption DEF OddsInv
  <1>7. /\ Cardinality(closed') >= MinSamples /\ Cardinality(of') >= MinPerBucket
        /\ odds.wins <= Cardinality(won') + 1
    BY <1>3, <1>4, <1>5, <1>6
  <1> QED BY <1>7 DEF OddsAreEarned, closed, of, won

\* Odds are told of a bucket only over both floors, from labels of closed trades.
LEMMA ToldIsEarned ==
    ASSUME OddsInv, NEW bucket, CalibratedDecision(bucket)
    PROVE  OddsInv'
  <1> DEFINE closed == {t \in Trades : tradeFile[t] \in {"won", "lost"}}
             of == {t \in closed : BucketOf[t] = bucket}
             won == {t \in of : tradeFile[t] = "won"}
             ofLabels == {l \in labels : BucketOf[l.trade] = bucket}
             wonLabels == {l \in ofLabels : l.won}
  <1>1. odds' = Probability(bucket) /\ UNCHANGED <<tradeFile, book, seeded, labels>>
    BY DEF CalibratedDecision
  <1>2. labels \subseteq {Label(t) : t \in closed}
    BY DEF OddsInv, ClosedTrades, Closed
  <1>3. ofLabels \subseteq {Label(t) : t \in of} /\ wonLabels \subseteq {Label(t) : t \in won}
    <2>1. ASSUME NEW l \in labels PROVE l = Label(l.trade) /\ l.trade \in closed /\ l.won = (tradeFile[l.trade] = "won")
      <3>1. PICK t \in closed : l = Label(t)
        BY <1>2
      <3>2. l.trade = t /\ l.won = (tradeFile[t] = "won")
        BY <3>1 DEF Label
      <3> QED BY <3>1, <3>2
    <2> HIDE DEF closed
    <2> QED BY <2>1
  <1>4. closed \in SUBSET Trades /\ of \in SUBSET Trades /\ won \in SUBSET Trades
    OBVIOUS
  <1> HIDE DEF closed, of, won
  <1>5. /\ Cardinality(labels) \in Nat /\ Cardinality(closed) \in Nat
        /\ Cardinality(labels) <= Cardinality(closed)
    BY <1>2, <1>4, LabelsCount
  <1>6. /\ Cardinality(ofLabels) \in Nat /\ Cardinality(of) \in Nat
        /\ Cardinality(ofLabels) <= Cardinality(of)
    BY <1>3, <1>4, LabelsCount
  <1>7. /\ Cardinality(wonLabels) \in Nat /\ Cardinality(won) \in Nat
        /\ Cardinality(wonLabels) <= Cardinality(won)
    BY <1>3, <1>4, LabelsCount
  <1>8. CASE odds' = NoOdds
    BY <1>1, <1>8 DEF OddsInv, OddsAreEarned, NoOdds, ClosedTrades, Closed, Label
  <1>9. CASE odds' # NoOdds
    <2>1. /\ ~(Cardinality(labels) < MinSamples) /\ ~(Cardinality(ofLabels) < MinPerBucket)
          /\ odds' = [bucket |-> bucket, wins |-> Cardinality(wonLabels) + 1, total |-> Cardinality(ofLabels) + 2]
      BY <1>1, <1>9 DEF Probability, Share
    <2> HIDE DEF ofLabels, wonLabels
    <2>2. odds'.bucket = bucket /\ odds'.wins = Cardinality(wonLabels) + 1
      BY <2>1
    <2>3. /\ odds'.wins \in Nat /\ odds'.wins <= Cardinality(won) + 1
          /\ Cardinality(closed) >= MinSamples /\ Cardinality(of) >= MinPerBucket
      BY <1>5, <1>6, <1>7, <2>1, <2>2, EvidenceAssumption
    <2>4. OddsAreEarned'
      BY <1>1, <2>2, <2>3 DEF OddsAreEarned, closed, of, won
    <2> QED BY <1>1, <2>3, <2>4 DEF OddsInv, ClosedTrades, Closed, Label
  <1> QED BY <1>8, <1>9

LEMMA OddsNextInv == ASSUME OddsInv, OddsNext PROVE OddsInv'
  <1>1. ASSUME NEW t \in Trades, PaperMoves(t) PROVE OddsInv'
    <2>1. book[t] \in {"none", "open"} /\ t \notin ClosedTrades
      BY <1>1 DEF PaperMoves, OddsInv, ClosedTrades, Closed
    <2>2. /\ book' \in [Trades -> {"none", "open"} \cup Closed]
          /\ tradeFile' \in [Trades -> {"none", "open"} \cup Closed]
          /\ tradeFile'[t] \in {tradeFile[t], book'[t]}
          /\ \A u \in Trades : u # t => book'[u] = book[u] /\ tradeFile'[u] = tradeFile[u]
          /\ UNCHANGED <<seeded, labels, odds>>
      BY <1>1 DEF PaperMoves, OddsInv, Closed
    <2>3. \A u \in ClosedTrades : tradeFile'[u] = tradeFile[u]
      BY <2>1, <2>2 DEF ClosedTrades
    <2>4. \A u \in ClosedTrades' : book'[u] = tradeFile'[u]
      <3>1. tradeFile[t] \notin Closed
        BY <2>1 DEF ClosedTrades
      <3> QED BY <2>2, <3>1 DEF OddsInv, ClosedTrades
    <2>5. {Label(u) : u \in ClosedTrades} \subseteq {Label(u) : u \in ClosedTrades}'
      BY <2>3 DEF Label, ClosedTrades
    <2>6. OddsAreEarned'
      BY <2>2, <2>3, EarnedStays
    <2> QED BY <2>2, <2>4, <2>5, <2>6 DEF OddsInv
  <1>2. ASSUME Reboots PROVE OddsInv'
    <2>1. odds'.wins \in Nat /\ OddsAreEarned'
      BY <1>2 DEF Reboots, NoOdds, OddsAreEarned
    <2> QED BY <1>2, <2>1 DEF Reboots, OddsInv, ClosedTrades
  <1>3. ASSUME SeedFromPaperTrades PROVE OddsInv'
    <2>1. labels' = {Label(t) : t \in ClosedTrades}
      BY <1>3 DEF SeedFromPaperTrades, Label, ClosedTrades, Closed
    <2>2. OddsAreEarned'
      BY <1>3, EarnedStays DEF SeedFromPaperTrades
    <2> QED BY <1>3, <2>1, <2>2 DEF SeedFromPaperTrades, OddsInv, ClosedTrades, Label
  <1> QED BY <1>1, <1>2, <1>3 DEF OddsNext

LEMMA EvidenceNextInv ==
    ASSUME RecordInv, OddsInv,
           [EvidenceNext \/ (OddsNext /\ UNCHANGED evidenceVars)]_<<evidenceVars, oddsVars>>
    PROVE  RecordInv' /\ OddsInv'
  <1>1. [EvidenceNext]_evidenceVars
    OBVIOUS
  <1>2. UNCHANGED oddsVars => OddsInv'
    BY DEF oddsVars, OddsInv, OddsAreEarned, ClosedTrades, Label
  <1>3. ASSUME EvidenceNext PROVE OddsInv'
    BY <1>2, <1>3, ToldIsEarned DEF EvidenceNext, Finalist
  <1>4. OddsInv'
    BY <1>2, <1>3, OddsNextInv
  <1> QED BY <1>1, <1>4, RecordNextInv

\* For every pass and every set of paper trades, whatever the services leave out,
\* fail to answer or the disk loses: what is written down about a finalist was
\* reported of it, and odds are told only over both floors of closed trades.
THEOREM EvidenceStaysTrue == EvidenceSpec => []EvidenceIsTrue
  <1>1. EvidenceInit /\ OddsInit => RecordInv /\ OddsInv
    <2> SUFFICES ASSUME EvidenceInit, OddsInit PROVE RecordInv /\ OddsInv
      OBVIOUS
    <2>1. token \in [ToSet(Pairs) -> [Figure -> Source]] /\ DOMAIN fresh = {}
      BY DEF EvidenceInit, Blank, Source
    <2>2. RecordInv
      BY <2>1, BlankIsObserved DEF EvidenceInit, RecordInv, RecordIsObserved
    <2>3. OddsInv
      BY DEF OddsInit, OddsInv, OddsAreEarned, NoOdds, ClosedTrades, Closed
    <2> QED BY <2>2, <2>3
  <1>2. RecordInv /\ OddsInv => EvidenceIsTrue
    BY DEF RecordInv, OddsInv, EvidenceIsTrue
  <1> QED BY <1>1, <1>2, EvidenceNextInv, PTL DEF EvidenceSpec

-----------------------------------------------------------------------------
(* What passes a gate                                                      *)

\* The first check that fails decides, so a row that passes failed none of the six.
LEMMA PreFilterIs ==
    ASSUME NEW t, NEW cfg, NEW native
    PROVE  PreFilter(t, cfg, native) = "ok" <=>
             /\ ~(t.unavailable /\ t.vol = 0)
             /\ t.source = "dexscreener" => MarketFloor(t, cfg) = "ok"
             /\ t.source # "dexscreener" => AgeGate(t, cfg) = "ok"
             /\ ~(t.source = "dexscreener" \/ FreshAtBirth(t)) => MarketFloor(t, cfg) = "ok"
             /\ ~(t.source # "dexscreener" /\ SecurityFailures(t, cfg) # {})
             /\ t.source # "dexscreener" => FeeGate(t, cfg, native) = "ok"
  <1> DEFINE steps == << IF t.unavailable /\ t.vol = 0 THEN "feed-down" ELSE "ok",
                    IF t.source = "dexscreener" THEN MarketFloor(t, cfg) ELSE "ok",
                    IF t.source = "dexscreener" THEN "ok" ELSE AgeGate(t, cfg),
                    IF t.source = "dexscreener" \/ FreshAtBirth(t) THEN "ok" ELSE MarketFloor(t, cfg),
                    IF t.source # "dexscreener" /\ SecurityFailures(t, cfg) # {} THEN "security" ELSE "ok",
                    IF t.source = "dexscreener" THEN "ok" ELSE FeeGate(t, cfg, native) >>
             bad == {i \in DOMAIN steps : steps[i] # "ok"}
  <1>1. DOMAIN steps = 1..6 /\ bad \subseteq 1..6
    OBVIOUS
  <1>2. /\ steps[1] = IF t.unavailable /\ t.vol = 0 THEN "feed-down" ELSE "ok"
        /\ steps[2] = IF t.source = "dexscreener" THEN MarketFloor(t, cfg) ELSE "ok"
        /\ steps[3] = IF t.source = "dexscreener" THEN "ok" ELSE AgeGate(t, cfg)
    OBVIOUS
  <1>3. /\ steps[4] = IF t.source = "dexscreener" \/ FreshAtBirth(t) THEN "ok" ELSE MarketFloor(t, cfg)
        /\ steps[5] = IF t.source # "dexscreener" /\ SecurityFailures(t, cfg) # {} THEN "security" ELSE "ok"
        /\ steps[6] = IF t.source = "dexscreener" THEN "ok" ELSE FeeGate(t, cfg, native)
    OBVIOUS
  <1>4. PreFilter(t, cfg, native) = IF bad = {} THEN "ok" ELSE steps[CHOOSE i \in bad : \A j \in bad : i <= j]
    BY DEF PreFilter
  <1> HIDE DEF steps
  <1>5. PreFilter(t, cfg, native) = "ok" <=> bad = {}
    <2> SUFFICES ASSUME bad # {} PROVE PreFilter(t, cfg, native) # "ok"
      BY <1>4
    <2>1. \E i \in bad : \A j \in bad : i <= j
      BY <1>1, SMTT(30)
    <2>2. (CHOOSE i \in bad : \A j \in bad : i <= j) \in bad
      BY <2>1
    <2> QED
      BY <2>2, <1>4
  <1>6. bad = {} <=> \A i \in {1, 2, 3, 4, 5, 6} : steps[i] = "ok"
    <2>1. 1..6 = {1, 2, 3, 4, 5, 6}
      OBVIOUS
    <2> QED BY <1>1, <2>1
  <1> QED
    BY <1>2, <1>3, <1>5, <1>6

LEMMA PrefilterNeedsFloors ==
    ASSUME NEW t, NEW cfg, NEW native, PreFilter(t, cfg, native) = "ok"
    PROVE  \/ t.source # "dexscreener" /\ FreshAtBirth(t)
           \/ MarketFloor(t, cfg) = "ok"
  BY PreFilterIs

\* The floors a row that passes has met.
LEMMA FloorsAreMet ==
    ASSUME NEW t, NEW cfg, MarketFloor(t, cfg) = "ok",
           {t.vol, t.liq, t.mcap} \subseteq Nat, cfg \in [Floor -> Nat], t.fresh \in BOOLEAN
    PROVE  /\ t.vol >= IF t.fresh THEN cfg.minFreshVol ELSE cfg.minVol
           /\ t.liq >= cfg.minLiq
           /\ t.source # "dexscreener" => t.mcap >= cfg.minMcap
  <1>1. {cfg.minFreshVol, cfg.minVol, cfg.minLiq, cfg.minMcap} \subseteq Nat
    BY DEF Floor
  <1> QED
    BY <1>1 DEF MarketFloor

\* A strategy replaces floors by positive ones, and never the fresh or the cap floor.
LEMMA StrategyFloors ==
    ASSUME NEW cfg \in [Floor -> Nat], NEW params, DOMAIN params \subseteq Tunable,
           \A k \in DOMAIN params : params[k] \in Int
    PROVE  /\ StrategyConfig(cfg, params) \in [Floor -> Nat]
           /\ StrategyConfig(cfg, params).minFreshVol = cfg.minFreshVol
           /\ StrategyConfig(cfg, params).minMcap = cfg.minMcap
           /\ \/ StrategyConfig(cfg, params).minLiq = cfg.minLiq
              \/ StrategyConfig(cfg, params).minLiq > 0
  <1>1. \A k \in Floor : StrategyConfig(cfg, params)[k] =
            IF k \in DOMAIN params /\ params[k] > 0 THEN params[k] ELSE cfg[k]
    BY DEF StrategyConfig
  <1>2. StrategyConfig(cfg, params) \in [Floor -> Nat]
    BY DEF StrategyConfig
  <1>3. {"minFreshVol", "minMcap", "minLiq"} \subseteq Floor /\ "minFreshVol" \notin Tunable /\ "minMcap" \notin Tunable
    BY DEF Floor, Tunable
  <1> QED
    BY <1>1, <1>2, <1>3

\* The second try uses the configuration's own floors.
LEMMA DefaultFloors ==
    ASSUME NEW cfg \in [Floor -> Nat]
    PROVE  /\ GateDefaults(cfg) \in [Floor -> Nat]
           /\ GateDefaults(cfg).minFreshVol = cfg.minFreshVol
           /\ GateDefaults(cfg).minLiq = cfg.minLiq
           /\ GateDefaults(cfg).minMcap = cfg.minMcap
  BY DEF GateDefaults, Floor

\* What the batch adds to a pair born without any figure, and what it leaves.
LEMMA HydratedRow ==
    ASSUME RowTyped
    PROVE  LET h == Hydrate(row.t, row.in.data)
           IN  /\ {h.price, h.vol, h.vol24, h.liq, h.mcap} \subseteq Nat
               /\ h.fresh = row.t.fresh /\ h.source = row.t.source /\ h.mcap = row.t.mcap
               /\ h = row.t \/ FreshAtBirth(row.t)
  <1> DEFINE t == row.t
             data == row.in.data
             d == CHOOSE x \in data : TRUE
             h == Hydrate(t, data)
             keys == MarketFigure \cup {"fresh", "source"}
  <1>1. keys \subseteq DOMAIN t /\ \A f \in MarketFigure : t[f] \in Nat
    BY DEF RowTyped, Flag
  <1>2. {t.price, t.vol, t.vol24, t.liq, t.mcap} \subseteq Nat
    BY <1>1 DEF MarketFigure
  <1>3. CASE ~t.fresh \/ data = {}
    BY <1>2, <1>3 DEF Hydrate
  <1>4. CASE t.fresh /\ data # {}
    <2>1. d \in data
      BY <1>4
    <2>2. {d.price, d.liq, d.vol, d.vol24} \subseteq Nat \cup {None}
      BY <2>1 DEF RowTyped
    <2>3. h = [t EXCEPT !.price = IF d.price > 0 THEN d.price ELSE @,
                       !.liq = IF d.liq # None THEN d.liq ELSE @,
                       !.vol24 = IF d.vol24 # None THEN d.vol24 ELSE 0,
                       !.vol = IF d.vol # None THEN d.vol
                               ELSE IF d.vol24 > 0 THEN d.vol24 \div 24 ELSE @]
      BY <1>4 DEF Hydrate
    <2> HIDE DEF h, d
    <2>4. /\ h.price = (IF d.price > 0 THEN d.price ELSE t.price)
          /\ h.liq = (IF d.liq # None THEN d.liq ELSE t.liq)
          /\ h.vol24 = (IF d.vol24 # None THEN d.vol24 ELSE 0)
          /\ h.vol = (IF d.vol # None THEN d.vol ELSE IF d.vol24 > 0 THEN d.vol24 \div 24 ELSE t.vol)
          /\ h.mcap = t.mcap /\ h.fresh = t.fresh /\ h.source = t.source
      BY <2>3, <1>1 DEF MarketFigure
    <2>5. d.vol24 \in Nat => d.vol24 \div 24 \in Nat
      OBVIOUS
    <2>6. {h.price, h.vol, h.vol24, h.liq, h.mcap} \subseteq Nat
      BY <1>2, <2>2, <2>4, <2>5 DEF None
    <2>7. FreshAtBirth(t)
      BY <1>4 DEF RowTyped
    <2> QED
      BY <2>4, <2>6, <2>7 DEF h
  <1> QED
    BY <1>3, <1>4 DEF RowTyped

LEMMA ReportsAreEarned == ASSUME RowTyped PROVE ReportIsEarned
  <1> DEFINE t == row.t
             h == Hydrate(row.t, row.in.data)
             own == StrategyConfig(row.cfg, row.in.params)
  <1> SUFFICES ASSUME Reported(row)
               PROVE  /\ row.in.gmgn = {{}} \/ (row.in.evm /\ row.in.goplus = {{}})
                      /\ Unseen(h) \/ MetFloors(row)
    BY DEF ReportIsEarned
  <1>1. /\ PreFilter(t, own, row.in.native) = "ok"
        /\ Revalidate(h, row.cfg, row.in.native) = "ok"
        /\ AuditPasses(row.in.evm, row.in.goplus, row.in.gmgn)
    BY Zenon DEF Reported, Stage
  <1>2. row.in.gmgn = {{}} \/ (row.in.evm /\ row.in.goplus = {{}})
    BY <1>1 DEF AuditPasses
  <1>3. /\ {h.price, h.vol, h.vol24, h.liq, h.mcap} \subseteq Nat
        /\ h.fresh = t.fresh /\ h.source = t.source /\ h.mcap = t.mcap
        /\ h = t \/ FreshAtBirth(t)
    BY HydratedRow
  <1>4. /\ t.fresh \in BOOLEAN /\ row.cfg \in [Floor -> Nat]
        /\ own \in [Floor -> Nat]
        /\ own.minFreshVol = row.cfg.minFreshVol /\ own.minMcap = row.cfg.minMcap
        /\ own.minLiq = row.cfg.minLiq \/ own.minLiq > 0
    BY StrategyFloors DEF RowTyped, Flag
  <1>5. {row.cfg.minLiq, own.minLiq} \subseteq Nat
    BY <1>4 DEF Floor
  <1> HIDE DEF h, own
  <1>6. ~FreshAtBirth(t) \/ t.source = "dexscreener" => MarketFloor(t, own) = "ok"
    BY <1>1, PrefilterNeedsFloors
  <1>7. CASE ~t.fresh
    <2>1. h = t /\ ~FreshAtBirth(t)
      BY <1>3, <1>7 DEF FreshAtBirth
    <2> QED
      BY <1>2, <1>3, <1>4, <1>6, <1>7, <2>1, FloorsAreMet DEF MetFloors, h, own
  <1>8. CASE t.fresh /\ (h.price > 0 \/ h.liq > 0 \/ h.vol24 > 0)
    <2>1. PreFilter(h, GateDefaults(row.cfg), row.in.native) = "ok"
      BY <1>1, <1>3, <1>8 DEF Revalidate
    <2>2. CASE FreshAtBirth(h)
      BY <1>2, <2>2 DEF Unseen, FreshAtBirth, h
    <2>3. CASE MarketFloor(h, GateDefaults(row.cfg)) = "ok"
      <3>1. /\ GateDefaults(row.cfg) \in [Floor -> Nat]
            /\ GateDefaults(row.cfg).minFreshVol = row.cfg.minFreshVol
            /\ GateDefaults(row.cfg).minLiq = row.cfg.minLiq
            /\ GateDefaults(row.cfg).minMcap = row.cfg.minMcap
        BY <1>4, DefaultFloors
      <3>2. /\ h.vol >= row.cfg.minFreshVol /\ h.liq >= row.cfg.minLiq
            /\ h.source # "dexscreener" => h.mcap >= row.cfg.minMcap
        BY <1>3, <1>4, <1>8, <2>3, <3>1, FloorsAreMet
      <3>3. MetFloors(row)
        BY <1>3, <1>8, <3>2 DEF MetFloors, h
      <3> QED
        BY <1>2, <3>3
    <2> QED
      BY <2>1, <2>2, <2>3, PrefilterNeedsFloors
  <1>9. CASE t.fresh /\ h.price = 0 /\ h.liq = 0 /\ h.vol24 = 0
    <2>1. CASE FreshAtBirth(t) /\ t.source # "dexscreener"
      BY <1>2, <1>3, <1>9, <2>1 DEF Unseen, FreshAtBirth, h
    <2>2. CASE h = t /\ MarketFloor(t, own) = "ok"
      <3>1. /\ t.vol >= own.minFreshVol /\ t.liq >= own.minLiq
            /\ t.source # "dexscreener" => t.mcap >= own.minMcap
        BY <1>3, <1>4, <1>9, <2>2, FloorsAreMet
      <3>2. t.liq >= row.cfg.minLiq
        BY <3>1, <1>4, <1>5, <1>9, <2>2
      <3>3. MetFloors(row)
        BY <3>1, <3>2, <1>4, <1>9, <2>2 DEF MetFloors, h
      <3> QED
        BY <1>2, <3>3
    <2>3. CASE FreshAtBirth(t) /\ t.source = "dexscreener"
      BY <1>2, <1>3, <1>9, <2>3 DEF Unseen, FreshAtBirth, h
    <2> QED
      BY <1>3, <1>6, <2>1, <2>2, <2>3
  <1> QED
    BY <1>3, <1>4, <1>7, <1>8, <1>9

-----------------------------------------------------------------------------
(* The consensus gate                                                      *)

\* A conviction that is held was measured for some candidate of its symbol.
HeldIsMeasured ==
    \A s \in Symbols : held[s].at # None =>
        \E d \in Candidates : d.symbol = s /\ held[s].value = Trusted(d, held[s].under)

Measured == [value : Nat \cup {None}, at : Int, since : Int, under : Emphases]

GateTyped ==
    /\ held \in [Symbols -> Measured]
    /\ intents \in [Symbols -> [dir : {"SHORT", "BUY"}, at : Int]]
    /\ circuit \in [fails : Int, trippedAt : Int]
    /\ verdict.on \subseteq Candidates

GateInv == TypeOK /\ GateTyped /\ HeldIsMeasured /\ AllowIsBacked

LEMMA RoundDivNat == ASSUME NEW a \in Nat, NEW b \in Nat \ {0} PROVE RoundDiv(a, b) \in Nat
  <1>1. 2 * a + b \in Nat /\ 2 * b \in Nat /\ 2 * b > 0
    OBVIOUS
  <1> QED
    BY <1>1 DEF RoundDiv

LEMMA ClampBounds == ASSUME NEW x \in Int PROVE Clamp100(x) \in 0..100
  BY DEF Clamp100

LEMMA CandidateTyped ==
    ASSUME NEW c \in Candidates
    PROVE  /\ c.symbol \in Symbols
           /\ c.audited \in BOOLEAN /\ {c.conf, c.social, c.noise} \subseteq Nat
           /\ {c.calibrated, c.strategy} \subseteq Nat \cup {None}
           /\ \A v \in Slots : c.slots[v] \in None..100
  BY SwarmAssumption DEF Symbols

\* The weights that move, and the table they make with the two that never do.
MomentumWeight(l) == Stretched(168 * l.liq, 4200)
FlowWeight(l) == Stretched(80 * l.smart, 2800)
SecurityWeight(l) == Stretched(175 * l.dev, 3500)

\* What closed calls can teach bounds the weights of flow and security, and keeps the
\* momentum below what the flow outweighs.
LEMMA WeightBounds ==
    ASSUME NEW l \in Emphases
    PROVE  /\ MomentumWeight(l) \in Nat /\ FlowWeight(l) \in Nat /\ SecurityWeight(l) \in Nat
           /\ FlowWeight(l) <= 3640 /\ SecurityWeight(l) >= 3500
           /\ 41 * MomentumWeight(l) + 77000 < 91 * FlowWeight(l)
  <1>1. l.smart \in 35..50 /\ l.liq \in 25..35 /\ l.dev \in 20..40 /\ l.liq + 10 <= l.smart
    BY DEF Emphases
  <1>2. /\ MomentumWeight(l) = IF 168 * l.liq > 5460 THEN 5460 ELSE 168 * l.liq
        /\ FlowWeight(l) = IF 80 * l.smart > 3640 THEN 3640 ELSE 80 * l.smart
        /\ SecurityWeight(l) = IF 175 * l.dev > 4550 THEN 4550 ELSE 175 * l.dev
    BY <1>1 DEF Stretched, MomentumWeight, FlowWeight, SecurityWeight
  <1> QED BY <1>1, <1>2

LEMMA WeightsAre ==
    ASSUME NEW l
    PROVE  Weights(l) = [momentum |-> MomentumWeight(l), flow |-> FlowWeight(l), security |-> SecurityWeight(l),
                         sentiment |-> 2100, critic |-> 1400]
  BY DEF Weights, MomentumWeight, FlowWeight, SecurityWeight

\* Five shares, none of them negative, over a sum of weights that is not zero.
LEMMA AggregateNat ==
    ASSUME NEW c \in Candidates, NEW l \in Emphases PROVE Aggregate(c.slots, Weights(l)) \in Nat
  <1> DEFINE share(v) == At(v \in Rendered(c.slots) /\ Weights(l)[v] > 0, Weights(l)[v])
             part(v) == Clamp100(c.slots[v]) * share(v)
             weight == OverSlots(share)
             sum == OverSlots(part)
  <1>1. \A v \in Slots : Weights(l)[v] \in Nat
    <2> DEFINE m == MomentumWeight(l)
               f == FlowWeight(l)
               r == SecurityWeight(l)
    <2>1. m \in Nat /\ f \in Nat /\ r \in Nat
      BY WeightBounds
    <2>2. Weights(l) = [momentum |-> m, flow |-> f, security |-> r, sentiment |-> 2100, critic |-> 1400]
      BY WeightsAre
    <2> HIDE DEF m, f, r
    <2> QED
      BY <2>1, <2>2 DEF Slots
  <1>2. \A v \in Slots : share(v) \in Nat /\ part(v) \in Nat
    <2> SUFFICES ASSUME NEW v \in Slots PROVE share(v) \in Nat /\ part(v) \in Nat
      OBVIOUS
    <2>1. share(v) \in Nat
      BY <1>1 DEF At
    <2>2. Clamp100(c.slots[v]) \in Nat
      <3>1. c.slots[v] \in Int
        BY CandidateTyped DEF None
      <3> QED
        BY <3>1, ClampBounds
    <2> HIDE DEF share
    <2> QED
      BY <2>1, <2>2
  <1>3. {"momentum", "flow", "security", "sentiment", "critic"} \subseteq Slots
    BY DEF Slots
  <1>4. Aggregate(c.slots, Weights(l)) = IF weight = 0 THEN 0 ELSE RoundDiv(sum, weight)
    BY DEF Aggregate
  <1> HIDE DEF share, part
  <1>5. weight \in Nat /\ sum \in Nat
    BY <1>2, <1>3 DEF OverSlots
  <1> QED
    BY <1>4, <1>5, RoundDivNat

LEMMA TrustedNat == ASSUME NEW c \in Candidates, NEW l \in Emphases PROVE Trusted(c, l) \in Nat
  <1>1. LegacyMean(c) \in Nat
    <2>1. 35 * (At(c.liq >= 25, 50) + At(c.vol >= 10, 50)) + 35 * c.social + 30 * At(c.audited, 100) \in Nat
      BY CandidateTyped DEF At
    <2> QED
      BY <2>1, RoundDivNat DEF LegacyMean
  <1>2. Base(c, l) \in Nat
    BY <1>1, AggregateNat, CandidateTyped DEF Base
  <1>3. c.noise >= 60 => RoundDiv(30 * c.noise, 100) \in Nat
    BY CandidateTyped, RoundDivNat
  <1> QED
    BY <1>2, <1>3, CandidateTyped DEF Trusted, None

\* What is decided on is either the candidate's own measurement or the one held,
\* and it is kept with the emphases it was measured under.
LEMMA ConvictionIsMeasured ==
    ASSUME GateInv, NEW c \in Candidates
    PROVE  /\ Convinced(c) \in Nat
           /\ Measurement(c) \in Measured /\ Measurement(c).value = Convinced(c)
           /\ Measurement(c).at = now /\ Measurement(c).since \in {held[c.symbol].since, now}
           /\ \E d \in Candidates : d.symbol = c.symbol /\ Convinced(c) = Trusted(d, Measurement(c).under)
           /\ held[c.symbol].at # None /\ now - held[c.symbol].at <= ConvictionTTL =>
                 Convinced(c) >= held[c.symbol].value
  <1>1. c.symbol \in Symbols /\ learned \in Emphases /\ Trusted(c, learned) \in Nat /\ now \in Int
    BY CandidateTyped, TrustedNat DEF GateInv, TypeOK
  <1>2. held[c.symbol].value \in Nat \cup {None} /\ held[c.symbol] \in Measured
    BY <1>1 DEF GateInv, TypeOK, GateTyped
  <1>3. held[c.symbol].at # None =>
            \E d \in Candidates : d.symbol = c.symbol /\ held[c.symbol].value = Trusted(d, held[c.symbol].under)
    BY <1>1 DEF GateInv, HeldIsMeasured
  <1>4. Conviction(c.symbol) = None \/ (held[c.symbol].at # None /\ Conviction(c.symbol) = held[c.symbol].value)
    BY DEF Conviction
  <1>5. Conviction(c.symbol) \in Nat \cup {None}
    BY <1>2, <1>4
  <1>6. held[c.symbol].at # None /\ now - held[c.symbol].at <= ConvictionTTL =>
            Conviction(c.symbol) = held[c.symbol].value
    <2>1. now \in Int /\ held[c.symbol].at \in Int /\ ConvictionTTL \in Nat
      BY <1>1, SwarmAssumption DEF GateInv, TypeOK, GateTyped
    <2> QED
      BY <2>1 DEF Conviction
  <1>7. CASE Conviction(c.symbol) > Trusted(c, learned)
    <2>1. Convinced(c) = Conviction(c.symbol) /\ Conviction(c.symbol) # None
      BY <1>1, <1>7 DEF Convinced, None
    <2>2. Measurement(c) = [held[c.symbol] EXCEPT !.at = now]
      BY <1>7 DEF Measurement, Stuck
    <2>3. /\ Measurement(c) \in Measured /\ Measurement(c).value = held[c.symbol].value
          /\ Measurement(c).at = now /\ Measurement(c).since = held[c.symbol].since
          /\ Measurement(c).under = held[c.symbol].under
      BY <1>1, <1>2, <2>2 DEF Measured
    <2> QED
      BY <1>1, <1>3, <1>4, <1>5, <1>6, <1>7, <2>1, <2>3
  <1>8. CASE ~(Conviction(c.symbol) > Trusted(c, learned))
    <2>1. Convinced(c) = Trusted(c, learned)
      BY <1>8 DEF Convinced
    <2>2. Measurement(c) = [value |-> Trusted(c, learned), at |-> now, since |-> now, under |-> learned]
      BY <1>8 DEF Measurement, Stuck
    <2>3. Measurement(c) \in Measured
      BY <1>1, <2>2 DEF Measured
    <2>4. Convinced(c) = Trusted(c, Measurement(c).under)
      BY <2>1, <2>2
    <2> QED
      BY <1>1, <1>5, <1>6, <1>8, <2>1, <2>2, <2>3, <2>4 DEF None
  <1> QED
    BY <1>7, <1>8

\* The score without a strategy's opinion, and what a strategy makes of it.
LEMMA ScoreFacts ==
    ASSUME GateInv, NEW c \in Candidates
    PROVE  /\ Score(c) \in 0..100
           /\ c.conf > 0 \/ c.strategy = None => Score(c) >= 100 \/ Score(c) >= Convinced(c)
           /\ Score(c) >= 80 /\ ~Lifted(c) =>
                 IF c.conf > 0 \/ c.strategy = None THEN Convinced(c) >= 80
                 ELSE Convinced(c) + Clamp100(c.strategy) >= 159
  <1> DEFINE x == IF Rendered(c.slots) = {} /\ c.conf <= 0 /\ FastLane(c) /\ Convinced(c) < 88
                  THEN 88 ELSE IF Convinced(c) > 100 THEN 100 ELSE Convinced(c)
  <1>1. Convinced(c) \in Nat
    BY ConvictionIsMeasured
  <1>2. x \in 0..100 /\ (x >= 100 \/ x >= Convinced(c)) /\ (~Lifted(c) => x <= Convinced(c))
    BY <1>1 DEF Lifted
  <1>3. Score(c) = IF c.conf > 0 \/ c.strategy = None THEN x ELSE RoundDiv(x + Clamp100(c.strategy), 2)
    BY DEF Score
  <1>4. c.strategy # None => Clamp100(c.strategy) \in 0..100
    BY CandidateTyped, ClampBounds
  <1> HIDE DEF x
  <1>5. CASE c.conf > 0 \/ c.strategy = None
    BY <1>1, <1>2, <1>3, <1>5
  <1>6. CASE ~(c.conf > 0 \/ c.strategy = None)
    <2> DEFINE y == Clamp100(c.strategy)
    <2>1. y \in 0..100
      BY <1>4, <1>6
    <2>2. Score(c) = (2 * (x + y) + 2) \div 4
      BY <1>3, <1>6 DEF RoundDiv
    <2> HIDE DEF y
    <2>3. Score(c) \in 0..100 /\ (Score(c) >= 80 => x + y >= 159)
      BY <1>2, <2>1, <2>2
    <2> QED
      BY <1>1, <1>2, <1>6, <2>1, <2>3 DEF y
  <1> QED
    BY <1>5, <1>6

LEMMA GateInitInv == Init /\ RowTyped /\ StudyTyped => GateInv
  <1> SUFFICES ASSUME Init, RowTyped, StudyTyped PROVE GateInv
    OBVIOUS
  <1>1. TypeOK
    BY SwarmAssumption DEF Init, TypeOK, NoVerdict, NotHeld, None
  <1>2. GateTyped
    <2>1. Default \in Emphases
      BY DEF Default, Emphases
    <2> QED
      BY <2>1 DEF Init, GateTyped, Measured, NoVerdict, NotHeld, None
  <1>3. HeldIsMeasured /\ AllowIsBacked
    BY DEF Init, HeldIsMeasured, AllowIsBacked, NoVerdict, NotHeld
  <1> QED
    BY <1>1, <1>2, <1>3 DEF GateInv

\* What the answer to a candidate is, when nothing stops it before the average.
LEMMA CandidateStep ==
    ASSUME GateInv, RowTyped', StudyTyped', NEW c \in Candidates, Evaluate(c)
    PROVE  GateInv'
  <1>1. /\ c.symbol \in Symbols /\ now \in Nat
        /\ now' = now /\ circuit' = circuit /\ intents' = intents /\ learned' = learned
    BY CandidateTyped DEF GateInv, TypeOK, Evaluate, Refuse
  <1>2. CASE held' = held /\ \E code \in {"CIRCUIT_OPEN", "VETO", "ASYMMETRIC_CONFLICT"} :
               verdict' = [on |-> {c}, refusal |-> code, conf |-> 0, under |-> learned]
    <2>1. verdict'.on = {c} /\ verdict'.conf = 0 /\ verdict'.refusal # "none"
      BY <1>2
    <2>2. TypeOK'
      BY <1>1, <1>2, <2>1 DEF GateInv, TypeOK, None
    <2>3. GateTyped'
      BY <1>1, <1>2, <2>1 DEF GateInv, GateTyped
    <2>4. HeldIsMeasured'
      BY <1>2 DEF GateInv, HeldIsMeasured
    <2>5. AllowIsBacked'
      BY <2>1 DEF AllowIsBacked
    <2> QED
      BY <2>2, <2>3, <2>4, <2>5 DEF GateInv
  <1>3. CASE /\ held' = [held EXCEPT ![c.symbol] = Measurement(c)]
             /\ verdict' = [on |-> {c}, refusal |-> Refusal(c), under |-> Measurement(c).under,
                            conf |-> IF Refusal(c) = "SECURITY" THEN SecurityScore(c) ELSE Score(c)]
    <2>1. /\ verdict'.on = {c} /\ verdict'.refusal = Refusal(c) /\ verdict'.under = Measurement(c).under
          /\ verdict'.conf = IF Refusal(c) = "SECURITY" THEN SecurityScore(c) ELSE Score(c)
      BY <1>3
    <2>2. /\ Convinced(c) \in Nat /\ Measurement(c) \in Measured /\ Measurement(c).value = Convinced(c)
          /\ Measurement(c).at = now /\ Measurement(c).since \in {held[c.symbol].since, now}
          /\ \E d \in Candidates : d.symbol = c.symbol /\ Convinced(c) = Trusted(d, Measurement(c).under)
      BY ConvictionIsMeasured
    <2>3. held'[c.symbol] = Measurement(c) /\ \A s \in Symbols \ {c.symbol} : held'[s] = held[s]
      BY <1>1, <1>3 DEF GateInv, GateTyped
    <2>4. SecurityScore(c) \in None..100 /\ Score(c) \in 0..100
      <3>1. c.slots.security \in None..100
        BY CandidateTyped DEF Slots
      <3> QED
        BY <3>1, ScoreFacts DEF SecurityScore, At, None
    <2>5. TypeOK'
      <3>1. \A s \in Symbols : held'[s].value \in Nat \cup {None} /\ {held'[s].at, held'[s].since} \subseteq None..now'
        BY <1>1, <2>2, <2>3 DEF GateInv, TypeOK, None
      <3>2. verdict'.conf \in None..100
        BY <2>1, <2>4 DEF None
      <3> QED
        BY <1>1, <3>1, <3>2 DEF GateInv, TypeOK
    <2>6. GateTyped'
      <3>1. held' \in [Symbols -> Measured]
        BY <1>1, <1>3, <2>2 DEF GateInv, GateTyped
      <3> QED
        BY <1>1, <2>1, <3>1 DEF GateInv, GateTyped
    <2>7. HeldIsMeasured'
      <3> SUFFICES ASSUME NEW s \in Symbols, held'[s].at # None
                   PROVE  \E d \in Candidates : d.symbol = s /\ held'[s].value = Trusted(d, held'[s].under)
        BY DEF HeldIsMeasured
      <3>1. CASE s = c.symbol
        BY <2>2, <2>3, <3>1
      <3>2. CASE s # c.symbol
        BY <2>3, <3>2 DEF GateInv, HeldIsMeasured
      <3> QED
        BY <3>1, <3>2
    <2>8. AllowIsBacked'
      <3> SUFFICES ASSUME Refusal(c) = "none"
                   PROVE  /\ c.audited
                          /\ Rendered(c.slots) # {} => c.slots.security >= 70 /\ Cardinality(Rendered(c.slots)) >= 3
                          /\ Lifted(c) \/ \E d \in Candidates :
                               /\ d.symbol = c.symbol
                               /\ IF c.conf > 0 \/ c.strategy = None THEN Trusted(d, Measurement(c).under) >= 80
                                  ELSE Trusted(d, Measurement(c).under) + Clamp100(c.strategy) >= 159
        BY <2>1 DEF AllowIsBacked
      <3>1. /\ ~(SecurityScore(c) < 70) /\ ~(Score(c) < 80) /\ c.audited
            /\ ~(Rendered(c.slots) # {} /\ Cardinality(Rendered(c.slots)) < 3)
        BY DEF Refusal
      <3>2. Cardinality(Rendered(c.slots)) \in Nat
        <4>1. IsFiniteSet(Slots)
          <5>1. IsFiniteSet({"momentum"}) /\ IsFiniteSet({"flow"}) /\ IsFiniteSet({"security"})
                /\ IsFiniteSet({"sentiment"}) /\ IsFiniteSet({"critic"})
            BY FS_Singleton
          <5>2. Slots = {"momentum"} \cup ({"flow"} \cup ({"security"} \cup ({"sentiment"} \cup {"critic"})))
            BY DEF Slots
          <5> QED
            BY <5>1, <5>2, FS_Union
        <4>2. IsFiniteSet(Rendered(c.slots))
          BY <4>1, FS_Subset DEF Rendered
        <4> QED
          BY <4>2, FS_CardinalityType
      <3>3. Rendered(c.slots) # {} => c.slots.security >= 70 /\ Cardinality(Rendered(c.slots)) >= 3
        <4>1. c.slots.security \in None..100
          BY CandidateTyped DEF Slots
        <4> QED
          BY <3>1, <3>2, <4>1 DEF SecurityScore, None
      <3>4. ~Lifted(c) => IF c.conf > 0 \/ c.strategy = None THEN Convinced(c) >= 80
                          ELSE Convinced(c) + Clamp100(c.strategy) >= 159
        BY <2>4, <3>1, ScoreFacts
      <3> QED
        BY <2>2, <3>1, <3>3, <3>4
    <2> QED
      BY <2>5, <2>6, <2>7, <2>8 DEF GateInv
  <1> QED
    BY <1>2, <1>3 DEF Evaluate, Refuse

\* Everything else leaves the convictions and the answer as they are.
LEMMA GuardStep ==
    ASSUME GateInv, RowTyped', StudyTyped',
           \/ \E s \in Symbols, dir \in {"SHORT", "BUY"} : RegisterIntent(s, dir)
           \/ \E failed \in BOOLEAN : RegisterOutcome(failed)
           \/ \E won \in BOOLEAN : CallClosed(won)
           \/ ResetCircuit \/ Tick \/ UNCHANGED vars
    PROVE  GateInv'
  <1>1. held' = held /\ verdict' = verdict /\ now' \in now..MaxNow /\ now \in Nat
    BY SwarmAssumption DEF GateInv, TypeOK, RegisterIntent, RegisterOutcome, ResetCircuit, CallClosed, Tick, vars
  <1>2. /\ intents' \in [Symbols -> [dir : {"SHORT", "BUY"}, at : Int]]
        /\ \A s \in Symbols : intents'[s].at \in None..now'
    <2>1. CASE intents' = intents
      BY <1>1, <2>1 DEF GateInv, TypeOK, GateTyped, None
    <2>2. ASSUME NEW s \in Symbols, NEW dir \in {"SHORT", "BUY"}, RegisterIntent(s, dir)
          PROVE  /\ intents' \in [Symbols -> [dir : {"SHORT", "BUY"}, at : Int]]
                 /\ \A r \in Symbols : intents'[r].at \in None..now'
      BY <1>1, <2>2 DEF GateInv, TypeOK, GateTyped, None, RegisterIntent
    <2> QED
      BY <2>1, <2>2 DEF RegisterOutcome, ResetCircuit, CallClosed, Tick, vars
  <1>3. circuit' \in [fails : Int, trippedAt : Int] /\ circuit'.fails \in 0..2 /\ circuit'.trippedAt \in None..now'
    <2>1. CASE circuit' = circuit
      BY <1>1, <2>1 DEF GateInv, TypeOK, GateTyped, None
    <2>2. CASE ResetCircuit
      BY <1>1, <2>2 DEF ResetCircuit, None
    <2>3. ASSUME NEW failed \in BOOLEAN, RegisterOutcome(failed)
          PROVE  circuit' \in [fails : Int, trippedAt : Int] /\ circuit'.fails \in 0..2 /\ circuit'.trippedAt \in None..now'
      BY <1>1, <2>3 DEF GateInv, TypeOK, GateTyped, None, RegisterOutcome
    <2> QED
      BY <2>1, <2>2, <2>3 DEF RegisterIntent, CallClosed, Tick, vars
  <1>l. learned' \in Emphases
    <2>1. ASSUME NEW won \in BOOLEAN, CallClosed(won) PROVE learned' \in Emphases
      <3>1. learned \in Emphases
        BY DEF GateInv, TypeOK
      <3> DEFINE box == [smart : 35..50, liq : 25..35, dev : 20..40]
      <3>2. /\ learned.smart \in 35..50 /\ learned.liq \in 25..35 /\ learned.dev \in 20..40
            /\ learned.liq + 10 <= learned.smart /\ learned \in box
        BY <3>1 DEF Emphases
      <3>3. \/ learned' = [learned EXCEPT !.smart = AtMost(learned.smart + 1, 50), !.liq = AtMost(learned.liq + 1, 35)]
            \/ learned' = [learned EXCEPT !.dev = AtMost(learned.dev + 1, 40)]
        BY <2>1, Zenon DEF CallClosed
      <3>4. /\ AtMost(learned.smart + 1, 50) \in 35..50 /\ AtMost(learned.liq + 1, 35) \in 25..35
            /\ AtMost(learned.dev + 1, 40) \in 20..40
            /\ AtMost(learned.liq + 1, 35) + 10 <= AtMost(learned.smart + 1, 50)
        BY <3>2 DEF AtMost
      <3>5. ASSUME NEW a \in 35..50, NEW b \in 25..35, learned' = [learned EXCEPT !.smart = a, !.liq = b], b + 10 <= a
            PROVE  learned' \in Emphases
        <4>1. learned' \in box /\ learned'.smart = a /\ learned'.liq = b
          BY <3>2, <3>5
        <4> QED BY <3>5, <4>1, Zenon DEF Emphases
      <3>6. ASSUME NEW a \in 20..40, learned' = [learned EXCEPT !.dev = a] PROVE learned' \in Emphases
        <4>1. learned' \in box /\ learned'.smart = learned.smart /\ learned'.liq = learned.liq
          BY <3>2, <3>6
        <4> QED BY <3>2, <4>1, Zenon DEF Emphases
      <3> QED BY <3>3, <3>4, <3>5, <3>6, Zenon
    <2>2. CASE learned' = learned
      BY <2>2 DEF GateInv, TypeOK
    <2> QED
      BY <2>1, <2>2 DEF RegisterIntent, RegisterOutcome, ResetCircuit, Tick, vars
  <1>4. TypeOK'
    BY <1>1, <1>2, <1>3, <1>l DEF GateInv, TypeOK, None
  <1>5. GateTyped'
    BY <1>1, <1>2, <1>3 DEF GateInv, GateTyped
  <1>6. HeldIsMeasured' /\ AllowIsBacked'
    BY <1>1 DEF GateInv, HeldIsMeasured, AllowIsBacked
  <1> QED
    BY <1>4, <1>5, <1>6 DEF GateInv

\* A step of the gate, or a look at another row or another finalist.
PassNext == (Next /\ UNCHANGED <<row, study>>) \/ (RowTyped' /\ StudyTyped' /\ UNCHANGED vars)

LEMMA PassNextInv == GateInv /\ [PassNext]_<<vars, row, study>> => GateInv'
  <1> SUFFICES ASSUME GateInv, [PassNext]_<<vars, row, study>>
               PROVE  GateInv'
    OBVIOUS
  <1>1. RowTyped' /\ StudyTyped' /\ (Next \/ UNCHANGED vars)
    <2>1. RowTyped /\ StudyTyped
      BY DEF GateInv, TypeOK
    <2>2. UNCHANGED <<row, study>> => RowTyped' /\ StudyTyped'
      BY <2>1 DEF RowTyped, StudyTyped
    <2> QED
      BY <2>2 DEF PassNext
  <1>2. CASE \E c \in Candidates : Evaluate(c)
    BY <1>1, <1>2, CandidateStep
  <1> QED
    BY <1>1, <1>2, GuardStep DEF Next

\* Whatever passes a gate has earned it, for any candidates, rows, floors and
\* answers: PassIsEarned.
THEOREM PassesAreEarned == PassSpec => []PassIsEarned
  <1>1. GateInv => PassIsEarned
    BY ReportsAreEarned DEF GateInv, TypeOK, PassIsEarned
  <1> QED
    BY <1>1, GateInitInv, PassNextInv, PTL DEF PassSpec, PassNext

\* A conviction within its lifetime is a lower bound of the next score:
\* RecheckNeverErodes.
THEOREM RechecksNeverErode == PassSpec => RecheckNeverErodes
  <1>1. GateInv /\ [PassNext]_<<vars, row, study>> =>
        [\A c \in Candidates :
         verdict' # verdict /\ verdict'.on = {c} /\ verdict'.refusal \in {"none", "CONSENSUS"}
         /\ held[c.symbol].at # None /\ now - held[c.symbol].at <= ConvictionTTL
         /\ (c.conf > 0 \/ c.strategy = None)
         => verdict'.conf >= 100 \/ verdict'.conf >= held[c.symbol].value]_vars
    <2> SUFFICES ASSUME GateInv, Next, NEW c \in Candidates,
                        verdict' # verdict, verdict'.on = {c}, verdict'.refusal \in {"none", "CONSENSUS"},
                        held[c.symbol].at # None, now - held[c.symbol].at <= ConvictionTTL,
                        c.conf > 0 \/ c.strategy = None
                 PROVE  verdict'.conf >= 100 \/ verdict'.conf >= held[c.symbol].value
      BY DEF PassNext
    <2>1. PICK d \in Candidates : Evaluate(d)
      BY DEF Next, RegisterIntent, RegisterOutcome, ResetCircuit, CallClosed, Tick
    <2>2. /\ verdict'.on = {d} /\ verdict'.refusal = Refusal(d)
          /\ verdict'.conf = IF Refusal(d) = "SECURITY" THEN SecurityScore(d) ELSE Score(d)
      BY <2>1 DEF Evaluate, Refuse
    <2>3. d = c /\ verdict'.conf = Score(c)
      BY <2>2
    <2>4. Convinced(c) \in Nat /\ Convinced(c) >= held[c.symbol].value
      BY ConvictionIsMeasured
    <2>5. Score(c) \in 0..100 /\ (Score(c) >= 100 \/ Score(c) >= Convinced(c))
      BY ScoreFacts
    <2>6. held[c.symbol].value \in Nat \cup {None}
      BY CandidateTyped DEF GateInv, TypeOK
    <2> QED
      BY <2>3, <2>4, <2>5, <2>6 DEF None
  <1>2. PassSpec => []GateInv
    BY GateInitInv, PassNextInv, PTL DEF PassSpec, PassNext
  <1> QED
    BY <1>1, <1>2, PTL DEF PassSpec, PassNext, RecheckNeverErodes

-----------------------------------------------------------------------------
(* The sizes of what is traded                                             *)

\* The order of the naturals: every set of them has a least element.
Below == OpToRel(<, Nat)
LEMMA LeastElement ==
    ASSUME NEW S \in SUBSET Nat, S # {}
    PROVE  \E x \in S : \A y \in S : x <= y
  <1>1. IsWellFoundedOn(Below, Nat)
    BY NatLessThanWellFounded, Zenon DEF OpToRel, Below
  <1>2. PICK x \in S : \A y \in S : ~(<<y, x>> \in Below)
    BY <1>1, WFMin
  <1>3. ASSUME NEW y \in S PROVE x <= y
    <2>1. y \in Nat /\ x \in Nat /\ ~(<<y, x>> \in Below)
      BY <1>2, <1>3
    <2> QED BY <2>1 DEF Below, OpToRel
  <1> QED BY <1>3

\* The least of some naturals, and the lesser and the greater of two numbers.
LEMMA MinOf ==
    ASSUME NEW S \in SUBSET Nat, S # {}
    PROVE  Min(S) \in S /\ \A y \in S : Min(S) <= y
  <1>1. \E x \in S : \A y \in S : x <= y
    BY LeastElement
  <1> QED BY <1>1 DEF Min

LEMMA PairOf ==
    ASSUME NEW a \in Int, NEW b \in Int
    PROVE  /\ Min({a, b}) = IF a < b THEN a ELSE b
           /\ Max({a, b}) = IF a < b THEN b ELSE a
  <1>1. (\E x \in {a, b} : \A y \in {a, b} : x <= y) /\ (\E x \in {a, b} : \A y \in {a, b} : x >= y)
    OBVIOUS
  <1>2. Min({a, b}) \in {a, b} /\ \A y \in {a, b} : Min({a, b}) <= y
    BY <1>1 DEF Min
  <1>3. Max({a, b}) \in {a, b} /\ \A y \in {a, b} : Max({a, b}) >= y
    BY <1>1 DEF Max
  <1> QED BY <1>2, <1>3

\* The step of the recursion that adds up the dollars of a set of positions.
Dollars(S, g) ==
    [s \in SUBSET S |-> IF s = {} THEN 0 ELSE (CHOOSE q \in s : TRUE).usd + g[s \ {CHOOSE q \in s : TRUE}]]

\* That recursion has a solution, whatever the set: by induction on its size.
LEMMA SumExists ==
    ASSUME NEW S, IsFiniteSet(S)
    PROVE  \E g : g = Dollars(S, g)
  <1> DEFINE pick(s) == CHOOSE q \in s : TRUE
             dom(n) == {s \in SUBSET S : Cardinality(s) <= n}
             sums(n, g) == g = [s \in dom(n) |-> IF s = {} THEN 0 ELSE pick(s).usd + g[s \ {pick(s)}]]
  <1>1. \A s \in SUBSET S : IsFiniteSet(s) /\ Cardinality(s) \in Nat
    BY FS_Subset, FS_CardinalityType
  <1>2. \A s \in SUBSET S : s # {} => /\ pick(s) \in s /\ s \ {pick(s)} \in SUBSET S
                                      /\ Cardinality(s \ {pick(s)}) = Cardinality(s) - 1
    <2> SUFFICES ASSUME NEW s \in SUBSET S, s # {}
                 PROVE  /\ pick(s) \in s /\ s \ {pick(s)} \in SUBSET S
                        /\ Cardinality(s \ {pick(s)}) = Cardinality(s) - 1
      OBVIOUS
    <2>1. pick(s) \in s
      OBVIOUS
    <2> QED BY <1>1, <2>1, FS_RemoveElement
  <1>3. \E g : sums(0, g)
    <2>1. dom(0) = {{}}
      <3>1. \A s \in SUBSET S : Cardinality(s) <= 0 <=> s = {}
        BY <1>1, FS_EmptySet
      <3> QED BY <3>1
    <2> DEFINE g0 == [s \in dom(0) |-> 0]
    <2>2. g0 = [s \in dom(0) |-> IF s = {} THEN 0 ELSE pick(s).usd + g0[s \ {pick(s)}]]
      BY <2>1
    <2> QED BY <2>2
  <1>4. ASSUME NEW n \in Nat, \E g : sums(n, g)
        PROVE  \E g : sums(n + 1, g)
    <2>1. PICK g : sums(n, g)
      BY <1>4
    <2> DEFINE h == [s \in dom(n + 1) |-> IF s = {} THEN 0 ELSE pick(s).usd + g[s \ {pick(s)}]]
    <2>2. dom(n) \subseteq dom(n + 1)
      BY <1>1
    <2>3. \A s \in dom(n) : h[s] = g[s]
      BY <2>1, <2>2
    <2>4. \A s \in dom(n + 1) : s # {} => s \ {pick(s)} \in dom(n)
      BY <1>1, <1>2
    <2> HIDE DEF pick
    <2>5. \A s \in dom(n + 1) : h[s] = IF s = {} THEN 0 ELSE pick(s).usd + h[s \ {pick(s)}]
      BY <2>3, <2>4
    <2>6. h = [s \in dom(n + 1) |-> IF s = {} THEN 0 ELSE pick(s).usd + h[s \ {pick(s)}]]
      BY <2>5
    <2> QED BY <2>6
  <1>5. \A n \in Nat : \E g : sums(n, g)
    <2> DEFINE bad == {n \in Nat : ~\E g : sums(n, g)}
    <2> HIDE DEF sums
    <2> SUFFICES ASSUME bad # {} PROVE FALSE
      OBVIOUS
    <2>1. PICK n \in bad : \A m \in bad : n <= m
      BY LeastElement
    <2>2. n # 0 /\ n \in Nat
      BY <1>3, <2>1
    <2>3. n - 1 \in Nat /\ n - 1 \notin bad
      BY <2>1, <2>2
    <2> QED BY <1>4, <2>1, <2>2, <2>3
  <1>6. PICK g : sums(Cardinality(S), g)
    BY <1>1, <1>5
  <1>7. dom(Cardinality(S)) = SUBSET S
    BY FS_Subset
  <1> QED BY <1>6, <1>7 DEF Dollars

\* So the exposure of a book is a number of dollars.
LEMMA ExposureIsNat ==
    ASSUME NEW S, IsFiniteSet(S), \A q \in S : q.usd \in Nat
    PROVE  Exposure(S) \in Nat
  <1> DEFINE iter == CHOOSE g : g = Dollars(S, g)
  <1>1. Exposure(S) = iter[S]
    BY DEF Exposure, MapThenSumSet, MapThenFoldSet, Dollars
  <1>2. iter = Dollars(S, iter)
    BY SumExists
  <1> HIDE DEF iter
  <1> DEFINE pick(s) == CHOOSE q \in s : TRUE
  <1>3. \A s \in SUBSET S : iter[s] = IF s = {} THEN 0 ELSE pick(s).usd + iter[s \ {pick(s)}]
    BY <1>2 DEF Dollars
  <1>4. \A s \in SUBSET S : /\ Cardinality(s) \in Nat
                            /\ s # {} => pick(s) \in s /\ Cardinality(s \ {pick(s)}) = Cardinality(s) - 1
    <2> SUFFICES ASSUME NEW s \in SUBSET S
                 PROVE  /\ Cardinality(s) \in Nat
                        /\ s # {} => pick(s) \in s /\ Cardinality(s \ {pick(s)}) = Cardinality(s) - 1
      OBVIOUS
    <2>1. IsFiniteSet(s) /\ Cardinality(s) \in Nat
      BY FS_Subset, FS_CardinalityType
    <2>2. s # {} => pick(s) \in s
      OBVIOUS
    <2> QED BY <2>1, <2>2, FS_RemoveElement
  <1> HIDE DEF pick
  <1> DEFINE bad == {n \in Nat : \E s \in SUBSET S : Cardinality(s) = n /\ iter[s] \notin Nat}
  <1>5. bad = {}
    <2> SUFFICES ASSUME bad # {} PROVE FALSE
      OBVIOUS
    <2>1. PICK n \in bad : \A m \in bad : n <= m
      BY LeastElement
    <2>2. PICK s \in SUBSET S : Cardinality(s) = n /\ iter[s] \notin Nat
      BY <2>1
    <2>3. s # {}
      BY <1>3, <2>2
    <2>4. s \ {pick(s)} \in SUBSET S /\ Cardinality(s \ {pick(s)}) = n - 1 /\ n - 1 \in Nat
      <3>1. Cardinality(s \ {pick(s)}) \in Nat
        BY <1>4
      <3> QED BY <1>4, <2>2, <2>3, <3>1
    <2>5. iter[s \ {pick(s)}] \in Nat
      BY <2>1, <2>4
    <2>6. pick(s).usd \in Nat
      BY <1>4, <2>3
    <2> QED BY <1>3, <2>2, <2>3, <2>5, <2>6
  <1> QED BY <1>1, <1>4, <1>5

\* Rounded to whole units: at most half a unit away, and monotonic.
LEMMA RoundedIs ==
    ASSUME NEW a \in Nat, NEW b \in Nat \ {0}
    PROVE  /\ Rounded(a, b) \in Nat
           /\ 2 * b * Rounded(a, b) <= 2 * a + b
           /\ 2 * a + b < 2 * b * Rounded(a, b) + 2 * b
  <1> DEFINE n == 2 * a + b
             d == 2 * b
  <1>1. n \in Nat /\ d \in Nat /\ d > 0
    BY SMT
  <1>2. (n \div d) \in Nat /\ d * (n \div d) <= n /\ n < d * (n \div d) + d
    <2> HIDE DEF n, d
    <2> QED BY SMT, <1>1
  <1> QED BY SMT, <1>2 DEF Rounded

LEMMA RoundedGrows ==
    ASSUME NEW a \in Nat, NEW c \in Nat, a <= c, NEW b \in Nat \ {0}
    PROVE  Rounded(a, b) <= Rounded(c, b)
  <1> DEFINE x == Rounded(a, b)
             y == Rounded(c, b)
  <1>1. x \in Nat /\ 2 * b * x <= 2 * a + b
    BY SMT, RoundedIs
  <1>2. y \in Nat /\ 2 * c + b < 2 * b * y + 2 * b
    BY SMT, RoundedIs
  <1> HIDE DEF x, y
  <1>3. x < y + 1
    <2>1. 2 * b * x < 2 * b * (y + 1)
      BY SMT, <1>1, <1>2
    <2> QED BY SMT, <1>1, <1>2, <2>1
  <1> QED BY SMT, <1>1, <1>2, <1>3 DEF x, y

\* The scales of the gate's sizer.
LEMMA ScalesAre ==
    ASSUME NEW c \in Nat, NEW l \in Nat
    PROVE  /\ ConfScale(c) = IF c >= 95 THEN 50 ELSE IF 2 * (c - 70) < 25 THEN 25 ELSE 2 * (c - 70)
           /\ ConfScale(c) \in Nat
           /\ LiqScale(l) \in Nat
           /\ l < 5000 => LiqScale(l) >= l + 1
  <1>1. Min({50, 2 * (c - 70)}) = IF 50 < 2 * (c - 70) THEN 50 ELSE 2 * (c - 70)
    BY SMT, PairOf
  <1>2. ConfScale(c) = IF 25 < Min({50, 2 * (c - 70)}) THEN Min({50, 2 * (c - 70)}) ELSE 25
    BY SMT, <1>1, PairOf DEF ConfScale
  <1> QED BY SMT, <1>1, <1>2 DEF LiqScale

\* What the sizer would trade, but for the ceiling.
Wish(q) == Rounded(q.wish * ConfScale(q.conf) * LiqScale(q.liq), 450000)

LEMMA SizeIs ==
    ASSUME NEW q, q.wish \in Nat, q.conf \in Nat, q.liq \in Nat
    PROVE  /\ Wish(q) \in Nat
           /\ SizeOf(q) = IF Wish(q) < 2000 THEN Wish(q) ELSE 2000
  <1>1. q.wish * ConfScale(q.conf) * LiqScale(q.liq) \in Nat
    <2>1. ConfScale(q.conf) \in Nat /\ LiqScale(q.liq) \in Nat
      BY SMT, ScalesAre
    <2> QED BY SMT, <2>1
  <1>2. Wish(q) \in Nat
    BY SMT, <1>1, RoundedIs DEF Wish
  <1>3. {2000, Nothing, Nothing} \ {Nothing} = {2000}
    BY SMT DEF Nothing
  <1>4. SizeOf(q) = IF Wish(q) <= 0 THEN 0 ELSE IF Min({2000} \cup {Wish(q)}) < 0 THEN 0 ELSE Min({2000} \cup {Wish(q)})
    BY SMT, <1>3 DEF SizeOf, GateSize, SizePosition, Wish, Nothing
  <1>5. Min({2000} \cup {Wish(q)}) = IF 2000 < Wish(q) THEN 2000 ELSE Wish(q)
    <2>1. {2000} \cup {Wish(q)} = {2000, Wish(q)}
      BY SMT
    <2> QED BY SMT, <1>2, <2>1, PairOf
  <1> QED BY SMT, <1>2, <1>4, <1>5

\* Factors that grow make a product that grows.
LEMMA ProductGrows ==
    ASSUME NEW a \in Nat, NEW b \in Nat, NEW c \in Nat, NEW d \in Nat, a <= b, c <= d
    PROVE  a * c <= b * d
  <1>1. a * c <= b * c
    <2>1. (b - a) * c >= 0
      BY SMT
    <2> QED BY SMT, <2>1
  <1>2. b * c <= b * d
    <2>1. b * (d - c) >= 0
      BY SMT
    <2> QED BY SMT, <2>1
  <1> QED BY SMT, <1>1, <1>2

\* Better conviction and depth never ask for less.
LEMMA SizeGrows ==
    ASSUME NEW q, q.wish \in Nat, q.conf \in Nat, q.liq \in Nat,
           NEW r, r.wish = q.wish, r.conf \in Nat, r.liq \in Nat, r.conf >= q.conf, r.liq >= q.liq
    PROVE  Wish(q) <= Wish(r)
  <1> DEFINE cq == ConfScale(q.conf)
             cr == ConfScale(r.conf)
             lq == LiqScale(q.liq)
             lr == LiqScale(r.liq)
             w == q.wish
  <1>1. cq \in Nat /\ cr \in Nat /\ lq \in Nat /\ lr \in Nat /\ cq <= cr /\ lq <= lr
    <2>1. /\ cq = IF q.conf >= 95 THEN 50 ELSE IF 2 * (q.conf - 70) < 25 THEN 25 ELSE 2 * (q.conf - 70)
          /\ cr = IF r.conf >= 95 THEN 50 ELSE IF 2 * (r.conf - 70) < 25 THEN 25 ELSE 2 * (r.conf - 70)
      BY SMT, ScalesAre
    <2>2. lq \in Nat /\ lr \in Nat /\ lq <= lr
      BY SMT DEF LiqScale
    <2> HIDE DEF cq, cr, lq, lr
    <2> QED BY SMT, <2>1, <2>2
  <1> HIDE DEF cq, cr, lq, lr
  <1>2. w * cq \in Nat /\ w * cr \in Nat /\ w * cq <= w * cr
    BY SMT, <1>1, ProductGrows
  <1>3. w * cq * lq \in Nat /\ w * cr * lr \in Nat /\ w * cq * lq <= w * cr * lr
    BY SMT, <1>1, <1>2, ProductGrows
  <1> QED BY SMT, <1>3, RoundedGrows DEF Wish, cq, cr, lq, lr

\* The rounding of the gate's sizer, for a product.
LEMMA InGateUnits ==
    ASSUME NEW k \in Nat, NEW x \in Nat
    PROVE  /\ Rounded(k * x, 450000) \in Nat
           /\ 2 * (k * x) < 900000 * Rounded(k * x, 450000) + 450000
           /\ 900000 * Rounded(k * x, 450000) <= 2 * (k * x) + 450000
  <1> DEFINE n == k * x
  <1>1. n \in Nat
    OBVIOUS
  <1> HIDE DEF n
  <1>2. /\ Rounded(n, 450000) \in Nat
        /\ 2 * n < 900000 * Rounded(n, 450000) + 450000
        /\ 900000 * Rounded(n, 450000) <= 2 * n + 450000
    BY SMT, <1>1 DEF Rounded
  <1> QED BY SMT, <1>2 DEF n

\* A pool that takes an order takes it with the growth of a deeper one, up to the
\* dollar of rounding.
LEMMA DeeperTakes ==
    ASSUME NEW q, q.wish \in Nat, q.conf \in Nat, q.liq \in Nat,
           NEW r, r.wish = q.wish, r.conf = q.conf, r.liq \in Nat, r.liq >= q.liq, 2 * Wish(q) <= q.liq
    PROVE  2 * Wish(r) <= r.liq + 2
  <1>1. PICK k \in Nat, la \in Nat, lb \in Nat, l \in Nat, m \in Nat :
           /\ k = q.wish * ConfScale(q.conf) /\ la = LiqScale(q.liq) /\ lb = LiqScale(r.liq)
           /\ l = q.liq /\ m = r.liq
    <2>1. ConfScale(q.conf) \in Nat /\ LiqScale(q.liq) \in Nat /\ LiqScale(r.liq) \in Nat
      BY SMT, ScalesAre
    <2>2. q.wish * ConfScale(q.conf) \in Nat
      BY SMT, <2>1
    <2> QED BY <2>1, <2>2
  <1> DEFINE s == Rounded(k * la, 450000)
             t == Rounded(k * lb, 450000)
  <1>2. Wish(q) = s /\ Wish(r) = t
    BY <1>1 DEF Wish
  <1>3. /\ l <= m /\ la <= lb /\ lb - la <= m - l
        /\ (l < 5000 => la >= l + 1) /\ (l >= 5000 => la = lb)
    BY SMT, <1>1 DEF LiqScale
  <1>4. k * la \in Nat /\ k * lb \in Nat
    BY SMT
  <1>5. s \in Nat /\ t \in Nat /\ 2 * (k * la) < 900000 * s + 450000 /\ 900000 * t <= 2 * (k * lb) + 450000
    BY SMT, InGateUnits
  <1>6. 2 * s <= l
    BY SMT, <1>2, <1>1
  <1> HIDE DEF s, t
  <1>7. 2 * (k * la) < 450000 * l + 450000
    BY SMT, <1>3, <1>4, <1>5, <1>6
  <1>8. ASSUME l >= 5000 PROVE 2 * t <= m + 2
    <2>1. k * la = k * lb
      BY <1>8, <1>3
    <2> QED BY SMT, <1>3, <1>4, <1>5, <1>7, <1>8, <2>1
  <1>9. ASSUME l < 5000 PROVE 2 * t <= m + 2
    <2>1. 2 * k <= 450000
      <3>1. SUFFICES ASSUME 2 * k > 450000 PROVE FALSE
        BY SMT, <1>3
      <3>2. (2 * k - 450000) * la >= 0
        BY SMT, <1>3, <3>1
      <3> QED BY SMT, <1>3, <1>4, <1>7, <1>9, <3>2
    <2>2. 2 * (k * (lb - la)) <= 450000 * (m - l)
      <3>1. k * (lb - la) <= k * (m - l)
        BY SMT, <1>3, ProductGrows
      <3>2. (450000 - 2 * k) * (m - l) >= 0
        BY SMT, <1>3, <2>1
      <3> QED BY SMT, <1>3, <3>1, <3>2
    <2>3. k * lb = k * la + k * (lb - la)
      BY SMT, <1>3
    <2>4. k * (lb - la) \in Int
      BY SMT, <1>3
    <2>5. 2 * t <= m + 2
      BY SMT, <1>3, <1>4, <1>5, <1>7, <2>2, <2>3, <2>4
    <2> QED BY SMT, <2>5
  <1> QED BY SMT, <1>2, <1>1, <1>8, <1>9

\* The three parts of SizesStaySane hold of typed entries and quotes.
LEMMA DeeperHolds == SizesTyped => DeeperPoolNeverRefuses
  <1> SUFFICES ASSUME NEW q \in quoted, NEW r \in quoted,
                      q.wish \in Nat, q.conf \in Nat, q.liq \in Nat, r.conf \in Nat, r.liq \in Nat,
                      r.wish = q.wish, r.conf >= q.conf, r.liq >= q.liq
               PROVE  /\ r.conf = q.conf /\ Fills(q, SizeOf(q)) => Fills(r, SizeOf(r)) \/ Fills(r, SizeOf(r) - 1)
                      /\ SizeOf(r) >= SizeOf(q)
                      /\ SizeOf(r) <= 2000
    BY DEF SizesTyped, DeeperPoolNeverRefuses
  <1>1. /\ Wish(q) \in Nat /\ SizeOf(q) = IF Wish(q) < 2000 THEN Wish(q) ELSE 2000
        /\ Wish(r) \in Nat /\ SizeOf(r) = IF Wish(r) < 2000 THEN Wish(r) ELSE 2000
    BY SMT, SizeIs
  <1>2. Wish(q) <= Wish(r)
    BY SMT, SizeGrows
  <1>3. ASSUME r.conf = q.conf, Fills(q, SizeOf(q))
        PROVE  Fills(r, SizeOf(r)) \/ Fills(r, SizeOf(r) - 1)
    <2>1. SizeOf(q) > 0 /\ q.liq > 0 /\ 2 * SizeOf(q) <= q.liq
      BY SMT, <1>1, <1>3 DEF Fills, FillAllowed
    <2>2. ASSUME Wish(q) < 2000
          PROVE  2 * Wish(r) <= r.liq + 2
      <3>1. 2 * Wish(q) <= q.liq
        BY SMT, <1>1, <2>1, <2>2
      <3> QED BY <1>3, <3>1, DeeperTakes
    <2>3. SizeOf(r) \in Nat /\ SizeOf(r) >= SizeOf(q) /\ 2 * SizeOf(r) <= r.liq + 2
      BY SMT, <1>1, <1>2, <2>1, <2>2
    <2>4. SizeOf(r) > 1 \/ 2 * SizeOf(r) <= r.liq
      BY SMT, <1>1, <2>1, <2>3
    <2>5. r.liq > 0
      BY SMT, <2>1
    <2>6. CASE SizeOf(r) > 1
      <3>1. SizeOf(r) - 1 > 0 /\ 10 * (SizeOf(r) - 1) <= 5 * r.liq
        BY SMT, <2>3, <2>6
      <3> QED BY <2>5, <3>1 DEF Fills, FillAllowed
    <2>7. CASE 2 * SizeOf(r) <= r.liq
      <3>1. SizeOf(r) > 0 /\ 10 * SizeOf(r) <= 5 * r.liq
        BY SMT, <2>1, <2>3, <2>7, <1>1
      <3> QED BY <2>5, <3>1 DEF Fills, FillAllowed
    <2> QED BY <2>4, <2>6, <2>7
  <1> QED BY SMT, <1>1, <1>2, <1>3

\* A scale of at most 200 per cent at most doubles.
LEMMA RoundsUp ==
    ASSUME NEW u \in Nat, NEW x \in Nat, x <= 200
    PROVE  Rounded(u * x, 100) \in Nat /\ Rounded(u * x, 100) <= 2 * u
  <1> DEFINE n == u * x
  <1>1. n \in Nat /\ n <= 200 * u
    <2>1. u * (200 - x) >= 0
      BY SMT
    <2> QED BY SMT, <2>1
  <1> HIDE DEF n
  <1>2. Rounded(n, 100) \in Nat /\ Rounded(n, 100) <= 2 * u
    BY SMT, <1>1 DEF Rounded
  <1> QED BY <1>2 DEF n

\* The scale that the volatility gives.
LEMMA VolatilityScales ==
    ASSUME NEW a \in Nat, a # 0
    PROVE  Min({200, Max({25, 500 \div a})}) \in Nat /\ Min({200, Max({25, 500 \div a})}) <= 200
  <1>1. 500 \div a \in Nat
    BY SMT
  <1>2. Max({25, 500 \div a}) = IF 25 < 500 \div a THEN 500 \div a ELSE 25
    BY SMT, <1>1, PairOf
  <1>3. PICK x \in Nat : x = Max({25, 500 \div a})
    BY SMT, <1>1, <1>2
  <1>4. Min({200, x}) = IF 200 < x THEN 200 ELSE x
    BY SMT, PairOf
  <1> QED BY SMT, <1>3, <1>4

\* What the portfolio checks answer: a size, or none; an entry they let through
\* fits its asset's cap, and the volatility at most doubles it.
LEMMA CurrentIs ==
    ASSUME NEW e, EntryTyped(e)
    PROVE  /\ Current(e).size \in Nat \cup {Nothing}
           /\ Current(e).allowed =>
                 /\ Current(e).size \in Nat /\ Current(e).size <= 2 * e.p.usd
                 /\ LET asset == Exposure({q \in e.book : q.asset = e.p.asset})
                    IN  asset \in Nat /\ 100 * (asset + e.p.usd) <= 10 * (IF e.total > 1 THEN e.total ELSE 1)
  <1> DEFINE same == {q \in e.book : q.asset = e.p.asset}
             asset == Exposure(same)
             chain == Exposure({q \in e.book : q.chain = e.p.chain})
             base == IF e.total > 1 THEN e.total ELSE 1
             scale == IF e.p.atr = 0 THEN 100 ELSE Min({200, Max({25, 500 \div e.p.atr})})
             left == (10 * e.total) \div 100 - asset
  <1>1. asset \in Nat
    <2>1. IsFiniteSet(same)
      BY FS_Subset DEF EntryTyped
    <2> QED BY <2>1, ExposureIsNat DEF EntryTyped
  <1>2. scale \in Nat /\ scale <= 200
    <2>1. CASE e.p.atr = 0
      BY SMT, <2>1
    <2>2. CASE e.p.atr # 0
      BY SMT, <2>2, VolatilityScales DEF EntryTyped
    <2> QED BY <2>1, <2>2
  <1>3. e.p.usd \in Nat /\ e.total \in Nat
    BY DEF EntryTyped
  <1> HIDE DEF scale
  <1>4. Rounded(e.p.usd * scale, 100) \in Nat /\ Rounded(e.p.usd * scale, 100) <= 2 * e.p.usd
    BY SMT, <1>2, <1>3, RoundsUp
  <1>5. AtLeast0(left) \in Nat
    <2>1. left \in Int
      BY SMT, <1>1, <1>3
    <2> HIDE DEF left
    <2> QED BY SMT, <2>1 DEF AtLeast0
  <1> HIDE DEF left, asset
  <1>6. \/ Current(e) = [allowed |-> FALSE, size |-> AtLeast0(left)]
        \/ Current(e) = [allowed |-> FALSE, size |-> Nothing]
        \/ /\ Current(e) = [allowed |-> TRUE, size |-> Rounded(e.p.usd * scale, 100)]
           /\ ~(100 * (asset + e.p.usd) > 10 * base)
    BY DEF Current, Legacy, scale, asset, left
  <1>7. ~(100 * (asset + e.p.usd) > 10 * base) => 100 * (asset + e.p.usd) <= 10 * base
    BY SMT, <1>1, <1>3
  <1> QED BY <1>1, <1>4, <1>5, <1>6, <1>7 DEF asset

LEMMA SectorHolds == SizesTyped => ScaledStaysInSector
  <1> SUFFICES ASSUME NEW e \in proposed, EntryTyped(e), Current(e).allowed,
                      Cardinality({q \in e.book : q.asset = e.p.asset}) < 3
               PROVE  Correlated(e.p.asset, Current(e).size, e.book, e.total)
    BY DEF SizesTyped, ScaledStaysInSector
  <1> DEFINE asset == Exposure({q \in e.book : q.asset = e.p.asset})
             size == Current(e).size
  <1>1. /\ size \in Nat /\ size <= 2 * e.p.usd /\ asset \in Nat
        /\ 100 * (asset + e.p.usd) <= 10 * (IF e.total > 1 THEN e.total ELSE 1)
    BY CurrentIs
  <1>2. e.p.usd \in Nat /\ e.total \in Nat
    BY DEF EntryTyped
  <1> HIDE DEF asset, size
  <1>3. e.total > 0 => 100 * (asset + size) <= 30 * e.total
    BY SMT, <1>1, <1>2
  <1> QED BY <1>3 DEF Correlated, asset, size

\* What each cap of a profile leaves of an order: nothing, or part of it.
DayCap(e) == DailyLossCap(e.p.usd, e.p.profile.dayLimit, e.p.profile.dayLoss)
TokenCap(e) == PositionCap(e.p.usd, e.p.profile.cap)

LEMMA CapsAre ==
    ASSUME NEW e, EntryTyped(e)
    PROVE  /\ ShadowCaps(e.p) \subseteq Nat
           /\ DayCap(e) \in Int /\ TokenCap(e) \in Int
           /\ e.p.profile.conf >= 80 => ConfidenceSize(e.p.usd, e.p.profile.conf) \in Nat
  <1> DEFINE x == e.p.profile
  <1>1. /\ e.p.usd \in Nat /\ x.conf \in Optional /\ x.dayLimit \in Optional /\ x.dayLoss \in Optional
        /\ x.cap \in Optional /\ x.bankroll \in Optional
        /\ x.kelly.p \in Int /\ x.kelly.ratio \in Int /\ x.kelly.fraction \in Int
    BY DEF EntryTyped
  <1>2. x.conf >= 80 => ConfidenceSize(e.p.usd, x.conf) \in Nat
    <2> SUFFICES ASSUME x.conf >= 80 PROVE ConfidenceSize(e.p.usd, x.conf) \in Nat
      OBVIOUS
    <2> DEFINE n == e.p.usd * (50 + x.conf)
    <2>1. n \in Nat
      <3>1. x.conf \in Nat
        BY SMT, <1>1 DEF Optional, Nothing
      <3> QED BY SMT, <1>1, <3>1
    <2> HIDE DEF n
    <2>2. Rounded(n, 100) \in Nat
      BY SMT, <2>1 DEF Rounded
    <2> QED BY <2>2 DEF ConfidenceSize, n
  <1>3. DayCap(e) \in Nat
    BY SMT, <1>1 DEF DayCap, DailyLossCap, Least, Optional, Nothing
  <1>4. TokenCap(e) \in Nat
    BY SMT, <1>1 DEF TokenCap, PositionCap, Least, Optional, Nothing
  <1>5. x.bankroll # Nothing => KellySize(x.bankroll, x.kelly) \in Nat
    <2> DEFINE k == FractionalKelly(x.kelly.p, x.kelly.ratio, x.kelly.fraction)
    <2>1. k \in Nat
      <3> DEFINE full == 10 * x.kelly.p - (10 * (100 - x.kelly.p)) \div x.kelly.ratio
      <3>1. CASE x.kelly.ratio <= 0 \/ x.kelly.p \notin 0..100 \/ x.kelly.fraction \notin 0..100
        <4>1. k = 0
          BY <3>1, Zenon DEF FractionalKelly
        <4> HIDE DEF k
        <4> QED BY <4>1
      <3>2. CASE x.kelly.ratio > 0
        <4>1. full \in Int
          BY SMT, <1>1, <3>2
        <4> HIDE DEF full
        <4>2. (full * x.kelly.fraction) \in Int
          BY SMT, <1>1, <4>1
        <4>3. (full * x.kelly.fraction) \div 100 \in Int
          BY SMT, <4>2
        <4>4. Least(1000, AtLeast0((full * x.kelly.fraction) \div 100)) \in Nat
          BY SMT, <4>3 DEF Least, AtLeast0
        <4> QED BY <4>4 DEF FractionalKelly, full
      <3>3. x.kelly.ratio <= 0 \/ x.kelly.ratio > 0
        <4>1. x.kelly.ratio \in Int
          BY SMT, <1>1
        <4> QED BY SMT, <4>1
      <3> HIDE DEF k
      <3> QED BY <3>1, <3>2, <3>3, Zenon
    <2> HIDE DEF k
    <2>2. x.bankroll * k \in Nat \/ x.bankroll <= 0
      BY SMT, <1>1, <2>1 DEF Optional, Nothing
    <2> DEFINE n == x.bankroll * k
    <2>3. n \in Nat => Rounded(n, 1000) \in Nat
      <3> HIDE DEF n
      <3> QED BY SMT DEF Rounded
    <2> QED BY <2>2, <2>3 DEF KellySize, k
  <1>6. ConfidenceSize(e.p.usd, x.conf) \in Nat \/ x.conf < 80 \/ x.conf = Nothing
    BY SMT, <1>1, <1>2 DEF Optional
  <1> QED BY <1>2, <1>3, <1>4, <1>5, <1>6 DEF ShadowCaps, DayCap, TokenCap

\* The caps that bind an entry; the shadow's size is the least of them and of the
\* decision it shadows.
Binding(e) ==
    {c \in ShadowCaps(e.p) : c > 0 /\ c < e.p.usd}
    \cup (IF e.p.profile.conf >= 80 THEN {ConfidenceSize(e.p.usd, e.p.profile.conf)} ELSE {})

LEMMA ShadowIs ==
    ASSUME NEW e, EntryTyped(e)
    PROVE  /\ Sized(e) \in Nat /\ Binding(e) \subseteq Nat
           /\ Shadow(e.p, Current(e)).allowed <=> Current(e).allowed /\ 0 \notin ShadowCaps(e.p)
           /\ Shadow(e.p, Current(e)).size \in Binding(e) \cup {Sized(e)}
           /\ \A c \in Binding(e) \cup {Sized(e)} : Shadow(e.p, Current(e)).size <= c
  <1>1. Sized(e) \in Nat
    BY CurrentIs DEF Sized, EntryTyped
  <1>2. Binding(e) \subseteq Nat
    BY CapsAre DEF Binding
  <1> DEFINE allowed == Current(e).allowed /\ 0 \notin ShadowCaps(e.p)
             size == Min(Binding(e) \cup {Sized(e)})
  <1>3. Shadow(e.p, Current(e)) = [allowed |-> allowed, size |-> size]
    BY DEF Shadow, Binding, Sized
  <1> HIDE DEF size
  <1>4. Shadow(e.p, Current(e)).allowed <=> allowed
    <2>1. allowed \in BOOLEAN
      OBVIOUS
    <2> HIDE DEF allowed
    <2> QED BY <1>3, <2>1
  <1>5. Shadow(e.p, Current(e)).size = Min(Binding(e) \cup {Sized(e)})
    <2> HIDE DEF allowed
    <2> QED BY <1>3 DEF size
  <1>6. Binding(e) \cup {Sized(e)} \subseteq Nat /\ Binding(e) \cup {Sized(e)} # {}
    BY <1>1, <1>2
  <1> QED BY <1>1, <1>2, <1>4, <1>5, <1>6, MinOf

\* A tighter profile still lets an order through only where the looser one did,
\* and every cap that bound it there binds it as tightly.
LEMMA TighterCaps ==
    ASSUME NEW e, EntryTyped(e), NEW f, EntryTyped(f), Tighter(f, e), 0 \notin ShadowCaps(f.p)
    PROVE  /\ 0 \notin ShadowCaps(e.p)
           /\ \A c \in Binding(e) : \E d \in Binding(f) : d <= c
  <1> DEFINE x == e.p.profile
             y == f.p.profile
             u == e.p.usd
  <1>1. /\ f.p.usd = u /\ y.conf = x.conf /\ y.dayLimit = x.dayLimit /\ y.bankroll = x.bankroll
        /\ y.kelly = x.kelly /\ y.dayLoss >= x.dayLoss /\ (x.cap = Nothing \/ y.cap \in 0..x.cap)
    BY DEF Tighter
  <1>2. /\ u \in Nat /\ x.dayLimit \in Optional /\ x.dayLoss \in Optional /\ y.dayLoss \in Optional
        /\ x.cap \in Optional /\ y.cap \in Optional
    BY DEF EntryTyped
  <1> DEFINE conf(e1) == IF e1.p.profile.conf = Nothing THEN {} ELSE {IF e1.p.profile.conf < 80 THEN 0 ELSE ConfidenceSize(e1.p.usd, e1.p.profile.conf)}
             edge(e1) == IF e1.p.profile.bankroll = Nothing THEN {} ELSE {KellySize(e1.p.profile.bankroll, e1.p.profile.kelly)}
             day(e1) == IF e1.p.profile.dayLimit = Nothing THEN {} ELSE {DayCap(e1)}
             cap(e1) == IF e1.p.profile.cap = Nothing THEN {} ELSE {TokenCap(e1)}
  <1>3. /\ ShadowCaps(e.p) = conf(e) \cup day(e) \cup cap(e) \cup edge(e)
        /\ ShadowCaps(f.p) = conf(f) \cup day(f) \cup cap(f) \cup edge(f)
    BY DEF ShadowCaps, DayCap, TokenCap
  <1>4. conf(f) = conf(e) /\ edge(f) = edge(e)
    BY <1>1
  <1>5. ASSUME x.dayLimit # Nothing
        PROVE  /\ DayCap(f) \in ShadowCaps(f.p) /\ DayCap(e) > 0 /\ DayCap(f) > 0 /\ DayCap(f) <= DayCap(e)
    <2>1. DayCap(f) \in ShadowCaps(f.p)
      BY <1>1, <1>3, <1>5
    <2>2. DayCap(f) # 0
      BY <2>1
    <2>3. /\ DayCap(e) = DailyLossCap(u, x.dayLimit, x.dayLoss)
          /\ DayCap(f) = DailyLossCap(u, x.dayLimit, y.dayLoss)
      BY <1>1 DEF DayCap
    <2> QED BY SMT, <1>1, <1>2, <2>1, <2>2, <2>3 DEF DailyLossCap, Least, Optional, Nothing
  <1>6. ASSUME x.cap # Nothing
        PROVE  /\ TokenCap(f) \in ShadowCaps(f.p) /\ TokenCap(e) > 0 /\ TokenCap(f) > 0 /\ TokenCap(f) <= TokenCap(e)
    <2>1. y.cap # Nothing /\ x.cap \in Nat /\ y.cap \in Nat /\ y.cap <= x.cap
      BY SMT, <1>1, <1>2, <1>6 DEF Optional, Nothing
    <2>2. TokenCap(f) \in ShadowCaps(f.p)
      BY <1>3, <2>1
    <2>3. TokenCap(f) # 0
      BY <2>2
    <2>4. TokenCap(e) = PositionCap(u, x.cap) /\ TokenCap(f) = PositionCap(u, y.cap)
      BY <1>1 DEF TokenCap
    <2> QED BY SMT, <1>2, <2>1, <2>2, <2>3, <2>4 DEF PositionCap, Least
  <1>7. 0 \notin ShadowCaps(e.p)
    <2>1. 0 \notin conf(e) \cup edge(e)
      BY <1>3, <1>4
    <2>2. x.dayLimit # Nothing => DayCap(e) # 0
      BY <1>5
    <2>3. x.cap # Nothing => TokenCap(e) # 0
      BY <1>6
    <2> QED BY <1>3, <2>1, <2>2, <2>3
  <1>8. ASSUME NEW c \in ShadowCaps(e.p), c > 0, c < u
        PROVE  \E d \in Binding(f) : d <= c
    <2>1. c \in Nat
      BY CapsAre
    <2>2. CASE c \in conf(e) \cup edge(e)
      <3>1. c \in ShadowCaps(f.p)
        BY <1>3, <1>4, <2>2
      <3>2. c \in Binding(f)
        BY <1>1, <1>8, <3>1 DEF Binding
      <3>3. c <= c
        BY <2>1
      <3> QED BY <3>2, <3>3
    <2>3. CASE c \in day(e)
      <3>1. x.dayLimit # Nothing /\ c = DayCap(e)
        BY <2>3
      <3>2. DayCap(f) \in Nat /\ DayCap(f) \in ShadowCaps(f.p) /\ DayCap(f) > 0 /\ DayCap(f) <= c
        BY <1>5, <3>1, CapsAre
      <3>3. DayCap(f) < u
        BY SMT, <1>2, <1>8, <2>1, <3>2
      <3>4. DayCap(f) \in Binding(f)
        BY <1>1, <3>2, <3>3 DEF Binding
      <3> QED BY <3>2, <3>4
    <2>4. CASE c \in cap(e)
      <3>1. x.cap # Nothing /\ c = TokenCap(e)
        BY <2>4
      <3>2. TokenCap(f) \in Nat /\ TokenCap(f) \in ShadowCaps(f.p) /\ TokenCap(f) > 0 /\ TokenCap(f) <= c
        BY <1>6, <3>1, CapsAre
      <3>3. TokenCap(f) < u
        BY SMT, <1>2, <1>8, <2>1, <3>2
      <3>4. TokenCap(f) \in Binding(f)
        BY <1>1, <3>2, <3>3 DEF Binding
      <3> QED BY <3>2, <3>4
    <2> QED BY <1>3, <2>2, <2>3, <2>4
  <1>9. ASSUME x.conf >= 80
        PROVE  \E d \in Binding(f) : d <= ConfidenceSize(u, x.conf)
    <2>1. ConfidenceSize(u, x.conf) \in Binding(f)
      BY <1>1, <1>9 DEF Binding
    <2>2. ConfidenceSize(u, x.conf) \in Nat
      BY <1>9, CapsAre
    <2>3. ConfidenceSize(u, x.conf) <= ConfidenceSize(u, x.conf)
      BY <2>2
    <2> QED BY <2>1, <2>3
  <1> QED BY <1>7, <1>8, <1>9 DEF Binding

LEMMA ShadowHolds == SizesTyped => ShadowNeverLoosens
  <1> SUFFICES ASSUME SizesTyped PROVE ShadowNeverLoosens
    OBVIOUS
  <1>1. ASSUME NEW e \in proposed
        PROVE  /\ Shadow(e.p, Current(e)).allowed => Current(e).allowed
               /\ Shadow(e.p, Current(e)).size <= Sized(e)
    <2>1. EntryTyped(e)
      BY DEF SizesTyped
    <2> QED BY <2>1, ShadowIs
  <1>2. ASSUME NEW e \in proposed, NEW f \in proposed, Tighter(f, e), Shadow(f.p, Current(f)).allowed
        PROVE  /\ Shadow(e.p, Current(e)).allowed
               /\ Shadow(f.p, Current(f)).size <= Shadow(e.p, Current(e)).size
    <2>1. EntryTyped(e) /\ EntryTyped(f)
      BY DEF SizesTyped
    <2>2. Current(f) = Current(e) /\ Sized(f) = Sized(e)
      <3>1. /\ f.p.asset = e.p.asset /\ f.p.chain = e.p.chain /\ f.p.tags = e.p.tags
            /\ f.p.usd = e.p.usd /\ f.p.atr = e.p.atr /\ f.book = e.book /\ f.total = e.total
        BY <1>2 DEF Tighter
      <3>2. Current(f) = Current(e)
        <4>1. /\ {q \in f.book : q.asset = f.p.asset} = {q \in e.book : q.asset = e.p.asset}
              /\ {q \in f.book : q.chain = f.p.chain} = {q \in e.book : q.chain = e.p.chain}
              /\ {q \in f.book : q.tags \cap f.p.tags # {}} = {q \in e.book : q.tags \cap e.p.tags # {}}
          BY <3>1
        <4> QED BY <3>1, <4>1 DEF Current, Legacy
      <3> QED BY <3>1, <3>2 DEF Sized
    <2>3. 0 \notin ShadowCaps(f.p) /\ Current(f).allowed
      BY <1>2, <2>1, ShadowIs
    <2>4. 0 \notin ShadowCaps(e.p) /\ \A c \in Binding(e) : \E d \in Binding(f) : d <= c
      BY <1>2, <2>1, <2>3, TighterCaps
    <2>5. Shadow(e.p, Current(e)).allowed
      BY <2>1, <2>2, <2>3, <2>4, ShadowIs
    <2> DEFINE se == Shadow(e.p, Current(e)).size
               sf == Shadow(f.p, Current(f)).size
    <2>6. /\ se \in Binding(e) \cup {Sized(e)} /\ Binding(e) \subseteq Nat /\ Sized(e) \in Nat
          /\ sf \in Binding(f) \cup {Sized(f)} /\ Binding(f) \subseteq Nat
          /\ \A d \in Binding(f) \cup {Sized(f)} : sf <= d
      BY <2>1, <2>2, ShadowIs
    <2> HIDE DEF se, sf
    <2>7. CASE se \in Binding(e)
      <3>1. PICK d \in Binding(f) : d <= se
        BY <2>4, <2>7
      <3>2. sf \in Nat /\ d \in Nat /\ se \in Nat /\ sf <= d
        BY <2>2, <2>6
      <3> QED BY <2>5, <3>1, <3>2 DEF se, sf
    <2>8. CASE se = Sized(e)
      BY <2>2, <2>5, <2>6, <2>8 DEF se, sf
    <2> QED BY <2>6, <2>7, <2>8
  <1> QED BY <1>1, <1>2 DEF ShadowNeverLoosens

\* Whatever entry is proposed to the risk engine and whatever order is put to the
\* execution gates, the size that comes out respects the caps: SizesStaySane
\* (risk-engine-v2.ts:184-298, 374-429, execution-gates.ts:200-238,
\* fill-simulation.ts:37-54).
THEOREM SizesAreSane == SizesSpec => []SizesStaySane
  <1>1. SizesTyped => SizesStaySane
    BY DeeperHolds, SectorHolds, ShadowHolds DEF SizesStaySane
  <1>2. SizesSpec => []SizesTyped
    <2>1. SizesTyped /\ [SizesTyped']_<<proposed, quoted>> => SizesTyped'
      BY DEF SizesTyped
    <2> QED BY <2>1, PTL DEF SizesSpec
  <1> QED BY <1>1, <1>2, PTL

-----------------------------------------------------------------------------
(* Recursions along a sequence *)

\* A function on 0..n whose steps go from one of the sets D[i] to the next stays
\* in them.
LEMMA StaysIn ==
    ASSUME NEW n \in Nat, NEW f, NEW D, f[0] \in D[0],
           \A i \in 1..n : f[i - 1] \in D[i - 1] => f[i] \in D[i]
    PROVE  \A i \in 0..n : f[i] \in D[i]
  <1> DEFINE bad == {i \in 0..n : f[i] \notin D[i]}
  <1> SUFFICES ASSUME bad # {} PROVE FALSE
    OBVIOUS
  <1>0. bad \in SUBSET Nat
    OBVIOUS
  <1>1. PICK i \in bad : \A j \in bad : i <= j
    <2> HIDE DEF bad
    <2> QED BY <1>0, LeastElement
  <1>2. i \in 1..n
    BY <1>1
  <1>3. i - 1 \in 0..n /\ i - 1 \notin bad
    BY <1>1, <1>2
  <1> QED BY <1>1, <1>2, <1>3

Follows(f, n, base, G) ==
    f = [i \in 0..n |-> f[i]] /\ f[0] = base /\ \A i \in 1..n : f[i] = G[<<i, f[i - 1]>>]

\* The recursion along 0..n with the steps G has a solution.
LEMMA Recursion ==
    ASSUME NEW n \in Nat, NEW base, NEW G
    PROVE  \E f : Follows(f, n, base, G)
  <1> DEFINE runs(m, f) == f = [i \in 0..m |-> IF i = 0 THEN base ELSE G[<<i, f[i - 1]>>]]
  <1>1. \E f : runs(0, f)
    <2> DEFINE f == [i \in 0..0 |-> base]
    <2>1. f = [i \in 0..0 |-> IF i = 0 THEN base ELSE G[<<i, f[i - 1]>>]]
      OBVIOUS
    <2> QED BY <2>1
  <1>2. ASSUME NEW m \in Nat, NEW f, runs(m, f)
        PROVE  \E h : runs(m + 1, h)
    <2> DEFINE h == [i \in 0..(m + 1) |-> IF i = 0 THEN base ELSE G[<<i, f[i - 1]>>]]
    <2>1. \A i \in 0..m : h[i] = f[i]
      BY <1>2
    <2>2. \A i \in 0..(m + 1) : h[i] = IF i = 0 THEN base ELSE G[<<i, h[i - 1]>>]
      <3> SUFFICES ASSUME NEW i \in 0..(m + 1)
                   PROVE  h[i] = IF i = 0 THEN base ELSE G[<<i, h[i - 1]>>]
        OBVIOUS
      <3>1. CASE i = 0
        BY <3>1
      <3>2. CASE i # 0
        <4>1. i - 1 \in 0..m /\ i # 0
          BY <3>2
        <4>2. h[i] = G[<<i, f[i - 1]>>] /\ h[i - 1] = f[i - 1]
          BY <2>1, <4>1
        <4> QED BY <4>1, <4>2
      <3> QED BY <3>1, <3>2
    <2>3. h = [i \in 0..(m + 1) |-> IF i = 0 THEN base ELSE G[<<i, h[i - 1]>>]]
      BY <2>2
    <2> QED BY <2>3
  <1> DEFINE bad == {m \in Nat : ~\E f : runs(m, f)}
  <1>3. bad = {}
    <2> HIDE DEF runs
    <2> SUFFICES ASSUME bad # {} PROVE FALSE
      OBVIOUS
    <2>1. PICK m \in bad : \A j \in bad : m <= j
      BY LeastElement
    <2>2. m # 0 /\ m \in Nat
      BY <1>1, <2>1
    <2>3. m - 1 \in Nat /\ m - 1 \notin bad
      BY <2>1, <2>2
    <2> QED BY <1>2, <2>1, <2>2, <2>3
  <1>4. PICK f : runs(n, f)
    BY <1>3
  <1>5. f[0] = base /\ \A i \in 1..n : f[i] = G[<<i, f[i - 1]>>]
    BY <1>4
  <1>6. f = [i \in 0..n |-> f[i]]
    BY <1>4
  <1> QED BY <1>5, <1>6 DEF Follows

\* A recursion whose steps stay in the sets D[i] has a solution that does.
LEMMA Guided ==
    ASSUME NEW n \in Nat, NEW base, NEW G, NEW D, base \in D[0],
           \A i \in 1..n : \A v \in D[i - 1] : G[<<i, v>>] \in D[i]
    PROVE  \E f : Follows(f, n, base, G) /\ \A i \in 0..n : f[i] \in D[i]
  <1>1. PICK f : Follows(f, n, base, G)
    BY Recursion
  <1>2. f[0] \in D[0] /\ \A i \in 1..n : f[i - 1] \in D[i - 1] => f[i] \in D[i]
    BY <1>1 DEF Follows
  <1>3. \A i \in 0..n : f[i] \in D[i]
    BY <1>2, StaysIn
  <1> QED BY <1>1, <1>3

-----------------------------------------------------------------------------
(* The graph of the traders *)

\* The first i elements of a sequence.
Elements(s, i) == {s[j] : j \in 1..i}

LEMMA ElementsFacts ==
    ASSUME NEW T, NEW s \in Seq(T)
    PROVE  /\ Elements(s, 0) = {} /\ Elements(s, Len(s)) = ToSet(s)
           /\ \A i \in 1..Len(s) : Elements(s, i) = Elements(s, i - 1) \cup {s[i]}
  BY DEF Elements, ToSet

LEMMA AppendElements ==
    ASSUME NEW T, NEW v \in Seq(T), NEW e \in T
    PROVE  ToSet(Append(v, e)) = ToSet(v) \cup {e}
  <1>1. /\ Append(v, e) \in Seq(T) /\ DOMAIN Append(v, e) = 1..(Len(v) + 1) /\ DOMAIN v = 1..Len(v)
        /\ \A i \in 1..Len(v) : Append(v, e)[i] = v[i]
        /\ Append(v, e)[Len(v) + 1] = e
    BY AppendProperties
  <1>2. \A i \in 1..(Len(v) + 1) : i \in 1..Len(v) \/ i = Len(v) + 1
    OBVIOUS
  <1>3. \A i \in 1..Len(v) : i \in 1..(Len(v) + 1)
    OBVIOUS
  <1>4. Len(v) + 1 \in 1..(Len(v) + 1)
    OBVIOUS
  <1>5. \A x : x \in ToSet(Append(v, e)) => x \in ToSet(v) \cup {e}
    BY <1>1, <1>2 DEF ToSet
  <1>6. \A x : x \in ToSet(v) \cup {e} => x \in ToSet(Append(v, e))
    BY <1>1, <1>3, <1>4 DEF ToSet
  <1> QED BY <1>5, <1>6

\* What a set in insertion order holds after its additions.
LEMMA AddedIs ==
    ASSUME NEW T, NEW old \in Seq(T), NEW s \in Seq(T), NEW except
    PROVE  /\ AddedBut(old, s, except) \in Seq(T)
           /\ ToSet(AddedBut(old, s, except)) = ToSet(old) \cup (ToSet(s) \ except)
  <1> DEFINE n == Len(s)
             step(i, v) == IF s[i] \in except \/ Contains(v, s[i]) THEN v ELSE Append(v, s[i])
             G == [p \in (1..n) \X Seq(T) |-> step(p[1], p[2])]
             D == [i \in 0..n |-> {v \in Seq(T) : ToSet(v) = ToSet(old) \cup (Elements(s, i) \ except)}]
             eqn(f) == f = [i \in 0..n |-> IF i = 0 THEN old ELSE step(i, f[i - 1])]
  <1>1. n \in Nat /\ (\A i \in 1..n : s[i] \in T) /\ (\A i \in 1..n : i - 1 \in 0..n /\ i # 0) 
    OBVIOUS
  <1>2. ASSUME NEW i \in 1..n, NEW v \in D[i - 1]
        PROVE  step(i, v) \in D[i] /\ G[<<i, v>>] = step(i, v)
    <2>0. i \in 1..n /\ v \in D[i - 1] /\ D[i] = {x \in Seq(T) : ToSet(x) = ToSet(old) \cup (Elements(s, i) \ except)}
      BY <1>1, <1>2
    <2>1. v \in Seq(T) /\ ToSet(v) = ToSet(old) \cup (Elements(s, i - 1) \ except)
      BY <1>2
    <2>2. Elements(s, i) = Elements(s, i - 1) \cup {s[i]}
      BY ElementsFacts
    <2>3. CASE s[i] \in except \/ Contains(v, s[i])
      <3>1. Contains(v, s[i]) => s[i] \in ToSet(v)
        BY <2>1 DEF Contains, ToSet
      <3>2. ToSet(v) = ToSet(old) \cup (Elements(s, i) \ except)
        BY <2>1, <2>2, <2>3, <3>1
      <3> QED BY <2>1, <2>3, <3>2
    <2>4. CASE ~(s[i] \in except \/ Contains(v, s[i]))
      <3>1. Append(v, s[i]) \in Seq(T)
        BY <1>1, <2>1
      <3>2. ToSet(Append(v, s[i])) = ToSet(v) \cup {s[i]}
        BY <1>1, <2>1, AppendElements
      <3>3. ToSet(Append(v, s[i])) = ToSet(old) \cup (Elements(s, i) \ except)
        BY <2>1, <2>2, <2>4, <3>2
      <3>4. step(i, v) = Append(v, s[i])
        BY <2>4
      <3> HIDE DEF step, D
      <3> QED BY <2>0, <3>1, <3>3, <3>4
    <2>5. G[<<i, v>>] = step(i, v)
      <3> HIDE DEF step
      <3> QED BY <2>1
    <2> HIDE DEF step
    <2> QED BY <2>3, <2>4, <2>5
  <1>3. old \in D[0]
    BY <1>1, ElementsFacts
  <1>4. \E f : eqn(f)
    <2>1. \A i \in 1..n : \A v \in D[i - 1] : G[<<i, v>>] \in D[i]
      <3> HIDE DEF n, D, G, step
      <3> QED BY <1>2
    <2>2. PICK f : Follows(f, n, old, G) /\ \A i \in 0..n : f[i] \in D[i]
      <3> HIDE DEF n, D, G
      <3> QED BY <1>1, <1>3, <2>1, Guided
    <2>3. \A i \in 1..n : f[i] = step(i, f[i - 1])
      <3> HIDE DEF n, D, G, step
      <3> QED BY <1>1, <1>2, <2>2 DEF Follows
    <2> HIDE DEF n, D, G, step
    <2> QED BY <1>1, <2>2, <2>3, SMTT(60) DEF Follows
  <1> DEFINE f == CHOOSE f : eqn(f)
  <1>5. eqn(f)
    BY <1>4
  <1>6. AddedBut(old, s, except) = f[n]
    BY DEF AddedBut
  <1>7. f[0] = old /\ \A i \in 1..n : f[i] = step(i, f[i - 1])
    <2> HIDE DEF f, step
    <2> QED BY <1>1, <1>5
  <1>8. f[n] \in D[n]
    <2>1. \A i \in 1..n : f[i - 1] \in D[i - 1] => f[i] \in D[i]
      <3> HIDE DEF n, D, G, step, f
      <3> QED BY <1>2, <1>7
    <2>2. f[0] \in D[0]
      <3> HIDE DEF n, D, step, f
      <3> QED BY <1>3, <1>7
    <2>3. \A i \in 0..n : f[i] \in D[i]
      <3> HIDE DEF D, n, f, step
      <3> QED BY <1>1, <2>1, <2>2, StaysIn
    <2> HIDE DEF D, n, f, step
    <2> QED BY <1>1, <2>3
  <1> HIDE DEF f
  <1> QED BY <1>1, <1>6, <1>8, ElementsFacts

LEMMA AddIs ==
    ASSUME NEW T, NEW old \in Seq(T), NEW s \in Seq(T)
    PROVE  /\ Added(old, s) \in Seq(T) /\ ToSet(Added(old, s)) = ToSet(old) \cup ToSet(s)
           /\ Once(s) \in Seq(T) /\ ToSet(Once(s)) = ToSet(s)
  <1>1. /\ AddedBut(old, s, {}) \in Seq(T) /\ ToSet(AddedBut(old, s, {})) = ToSet(old) \cup ToSet(s)
    BY AddedIs
  <1>2. <<>> \in Seq(T) /\ ToSet(<<>>) = {}
    BY DEF ToSet
  <1>3. AddedBut(<<>>, s, {}) \in Seq(T) /\ ToSet(AddedBut(<<>>, s, {})) = ToSet(<<>>) \cup (ToSet(s) \ {})
    <2>1. PICK e : e = <<>>
      OBVIOUS
    <2>2. e \in Seq(T)
      BY <1>2, <2>1
    <2>3. AddedBut(e, s, {}) \in Seq(T) /\ ToSet(AddedBut(e, s, {})) = ToSet(e) \cup (ToSet(s) \ {})
      BY <2>2, AddedIs
    <2> QED BY <2>1, <2>3
  <1> QED BY <1>1, <1>2, <1>3 DEF Added, Once

LEMMA ConcatElements ==
    ASSUME NEW T, NEW s \in Seq(T), NEW t \in Seq(T)
    PROVE  ToSet(s \o t) = ToSet(s) \cup ToSet(t)
  <1>1. s \o t \in Seq(T) /\ Len(s \o t) = Len(s) + Len(t)
    BY ConcatProperties
  <1>2. \A i \in 1..Len(s) : (s \o t)[i] = s[i]
    BY ConcatProperties
  <1>3. \A i \in 1..Len(t) : (s \o t)[i + Len(s)] = t[i]
    OBVIOUS
  <1>4. DOMAIN (s \o t) = 1..(Len(s) + Len(t)) /\ DOMAIN s = 1..Len(s) /\ DOMAIN t = 1..Len(t)
    BY <1>1
  <1>5. \A i \in DOMAIN (s \o t) : i \in DOMAIN s \/ i - Len(s) \in DOMAIN t
    BY <1>4
  <1>6. ASSUME NEW i \in DOMAIN (s \o t) PROVE (s \o t)[i] \in ToSet(s) \cup ToSet(t)
    <2>1. CASE i \in DOMAIN s
      BY <1>2, <1>4, <2>1 DEF ToSet
    <2>2. CASE i - Len(s) \in DOMAIN t
      <3>1. PICK j \in DOMAIN t : i = j + Len(s)
        BY <1>4, <2>2
      <3> QED BY <1>3, <1>4, <3>1 DEF ToSet
    <2> QED BY <1>5, <2>1, <2>2
  <1>7. \A i \in DOMAIN s : s[i] \in ToSet(s \o t)
    <2>1. \A i \in DOMAIN s : i \in DOMAIN (s \o t)
      BY <1>4
    <2> QED BY <1>2, <1>4, <2>1 DEF ToSet
  <1>8. \A i \in DOMAIN t : t[i] \in ToSet(s \o t)
    <2>1. \A i \in DOMAIN t : i + Len(s) \in DOMAIN (s \o t)
      BY <1>4
    <2> QED BY <1>3, <1>4, <2>1 DEF ToSet
  <1>9. \A x \in ToSet(s \o t) : x \in ToSet(s) \cup ToSet(t)
    <2>1. \A x \in ToSet(s \o t) : \E i \in DOMAIN (s \o t) : x = (s \o t)[i]
      BY DEF ToSet
    <2> QED BY <1>6, <2>1
  <1>10. \A x \in ToSet(s) \cup ToSet(t) : x \in ToSet(s \o t)
    <2>1. \A x \in ToSet(s) : \E i \in DOMAIN s : x = s[i]
      BY DEF ToSet
    <2>2. \A x \in ToSet(t) : \E i \in DOMAIN t : x = t[i]
      BY DEF ToSet
    <2> QED BY <1>7, <1>8, <2>1, <2>2
  <1> QED BY <1>9, <1>10

\* A flattened sequence has the elements of its parts.
LEMMA FlattenIs ==
    ASSUME NEW T, NEW seqs \in Seq(Seq(T))
    PROVE  /\ FlattenSeq(seqs) \in Seq(T)
           /\ ToSet(FlattenSeq(seqs)) = UNION {ToSet(seqs[i]) : i \in 1..Len(seqs)}
  <1> DEFINE n == Len(seqs)
             upto(i) == UNION {ToSet(seqs[j]) : j \in 1..i}
             D == [i \in 0..n |-> {v \in Seq(T) : ToSet(v) = upto(i)}]
             G == [p \in (1..n) \X Seq(T) |-> p[2] \o seqs[p[1]]]
             eqn(f) == f = [i \in 1..n |-> IF i = 1 THEN seqs[i] ELSE f[i - 1] \o seqs[i]]
  <1>1. n \in Nat /\ (\A i \in 1..n : seqs[i] \in Seq(T)) /\ (\A i \in 1..n : i - 1 \in 0..n /\ i # 0 /\ i \in 0..n)
    OBVIOUS
  <1>2. ASSUME NEW i \in 1..n, NEW v \in D[i - 1]
        PROVE  v \o seqs[i] \in D[i] /\ G[<<i, v>>] = v \o seqs[i]
    <2>1. v \in Seq(T) /\ ToSet(v) = upto(i - 1) /\ i \in 0..n /\ seqs[i] \in Seq(T)
      BY <1>1, <1>2
    <2>2. upto(i) = upto(i - 1) \cup ToSet(seqs[i])
      <3>1. 1..i = (1..(i - 1)) \cup {i}
        BY <2>1
      <3> QED BY <3>1
    <2>3. v \o seqs[i] \in Seq(T)
      BY <2>1
    <2>4. ToSet(v \o seqs[i]) = ToSet(v) \cup ToSet(seqs[i])
      BY <2>1, ConcatElements
    <2>5. G[<<i, v>>] = v \o seqs[i]
      BY <2>1
    <2> HIDE DEF upto
    <2> QED BY <2>1, <2>2, <2>3, <2>4, <2>5
  <1>3. <<>> \in D[0]
    BY DEF ToSet
  <1>4. \E f : eqn(f)
    <2>1. \A i \in 1..n : \A v \in D[i - 1] : G[<<i, v>>] \in D[i]
      <3> HIDE DEF n, D, G
      <3> QED BY <1>2
    <2>2. PICK f : Follows(f, n, <<>>, G) /\ \A i \in 0..n : f[i] \in D[i]
      <3> HIDE DEF n, D, G
      <3> QED BY <1>1, <1>3, <2>1, Guided
    <2>3. f[0] = <<>> /\ \A i \in 1..n : f[i] = f[i - 1] \o seqs[i]
      <3> HIDE DEF n, D, G
      <3> QED BY <1>1, <1>2, <2>2 DEF Follows
    <2>4. ASSUME n >= 1 PROVE f[1] = seqs[1]
      <3>1. 1 \in 1..n /\ 1 - 1 = 0
        BY <2>4
      <3>2. f[1] = <<>> \o seqs[1] /\ seqs[1] \in Seq(T)
        <4> HIDE DEF n, D, G
        <4> QED BY <1>1, <2>3, <3>1
      <3> QED BY <3>2, ConcatEmptySeq
    <2> DEFINE h == [i \in 1..n |-> f[i]]
    <2>5. h = [i \in 1..n |-> IF i = 1 THEN seqs[i] ELSE h[i - 1] \o seqs[i]]
      <3>1. \A i \in 1..n : h[i] = IF i = 1 THEN seqs[i] ELSE h[i - 1] \o seqs[i]
        <4> SUFFICES ASSUME NEW i \in 1..n PROVE h[i] = IF i = 1 THEN seqs[i] ELSE h[i - 1] \o seqs[i]
          OBVIOUS
        <4>1. CASE i = 1
          <5> HIDE DEF n, D, G
          <5> QED BY <1>1, <2>4, <4>1
        <4>2. CASE i # 1
          <5>1. i - 1 \in 1..n /\ h[i - 1] = f[i - 1]
            BY <4>2
          <5>2. h[i] = f[i]
            OBVIOUS
          <5> HIDE DEF n, D, G, h
          <5> QED BY <2>3, <4>2, <5>1, <5>2
        <4> QED BY <4>1, <4>2
      <3> QED BY <3>1
    <2> QED BY <2>5
  <1> DEFINE f == CHOOSE f : eqn(f)
  <1>5. eqn(f)
    BY <1>4
  <1>6. n # 0 => FlattenSeq(seqs) = f[n]
    BY DEF FlattenSeq
  <1>7. n = 0 => FlattenSeq(seqs) = <<>>
    BY DEF FlattenSeq
  <1> DEFINE h == [i \in 0..n |-> IF i = 0 THEN <<>> ELSE f[i]]
  <1>8. h[0] = <<>> /\ \A i \in 1..n : h[i] = h[i - 1] \o seqs[i]
    <2>1. \A i \in 1..n : f[i] = IF i = 1 THEN seqs[i] ELSE f[i - 1] \o seqs[i]
      <3> HIDE DEF f
      <3> QED BY <1>5
    <2>0. h[0] = <<>>
      <3> HIDE DEF f
      <3> QED BY <1>1
    <2> SUFFICES ASSUME NEW i \in 1..n PROVE h[i] = h[i - 1] \o seqs[i]
      BY <2>0
    <2>2. h[i] = f[i]
      <3> HIDE DEF f
      <3> QED OBVIOUS
    <2>3. CASE i = 1
      <3>1. h[i - 1] = <<>> /\ seqs[i] \in Seq(T) /\ f[i] = seqs[i]
        <4> HIDE DEF f, h, n
        <4> QED BY <1>1, <2>0, <2>1, <2>3
      <3> QED BY <2>2, <3>1, ConcatEmptySeq
    <2>4. CASE i # 1
      <3>1. i - 1 \in 1..n
        BY <2>4
      <3>2. h[i - 1] = f[i - 1]
        <4> HIDE DEF f
        <4> QED BY <3>1
      <3> HIDE DEF f, h, n
      <3> QED BY <2>1, <2>2, <2>4, <3>2
    <2> QED BY <2>3, <2>4
  <1>9. h[n] \in D[n]
    <2> HIDE DEF D, h, f, G
    <2>1. \A i \in 1..n : h[i - 1] \in D[i - 1] => h[i] \in D[i]
      <3> HIDE DEF n
      <3> QED BY <1>2, <1>8
    <2>2. h[0] \in D[0]
      BY <1>3, <1>8
    <2>3. \A i \in 0..n : h[i] \in D[i]
      <3> HIDE DEF n
      <3> QED BY <1>1, <2>1, <2>2, StaysIn
    <2> QED BY <1>1, <2>3
  <1>10. FlattenSeq(seqs) = h[n]
    <2> HIDE DEF f
    <2> QED BY <1>1, <1>6, <1>7
  <1> HIDE DEF h, f, G
  <1> QED BY <1>1, <1>9, <1>10


\* A row of a board that names its trader.
Found == [handle : Handle, wallets : Seq(Wallet), volume : Nat]

LEMMA LeaderboardIs ==
    ASSUME NEW board, board.rows \in Seq(BoardRow)
    PROVE  Leaderboard(board) \in Seq(Found)
  <1> DEFINE r == board.rows
             n == Len(r)
             step(i, v) == IF r[i].handle = "" THEN v ELSE Append(v, r[i])
             G == [p \in (1..n) \X Seq(Found) |-> step(p[1], p[2])]
             D == [i \in 0..n |-> Seq(Found)]
             eqn(f) == f = [i \in 0..n |-> IF i = 0 THEN <<>> ELSE step(i, f[i - 1])]
  <1>1. n \in Nat /\ (\A i \in 1..n : r[i] \in BoardRow) /\ (\A i \in 1..n : i - 1 \in 0..n /\ i # 0 /\ i \in 0..n)
    OBVIOUS
  <1>2. ASSUME NEW i \in 1..n, NEW v \in D[i - 1]
        PROVE  step(i, v) \in D[i] /\ G[<<i, v>>] = step(i, v)
    <2>1. v \in Seq(Found) /\ r[i] \in BoardRow /\ i \in 0..n /\ D[i] = Seq(Found)
      BY <1>1, <1>2
    <2>2. CASE r[i].handle = ""
      BY <2>1, <2>2
    <2>3. CASE r[i].handle # ""
      <3>1. r[i] \in Found
        BY <2>1, <2>3 DEF BoardRow, Found
      <3>2. Append(v, r[i]) \in Seq(Found)
        BY <2>1, <3>1
      <3> HIDE DEF r, n, D
      <3> QED BY <2>1, <2>3, <3>2
    <2> QED BY <2>2, <2>3
  <1>3. <<>> \in D[0]
    BY <1>1
  <1>4. \E f : eqn(f)
    <2>1. \A i \in 1..n : \A v \in D[i - 1] : G[<<i, v>>] \in D[i]
      <3> HIDE DEF n, D, G, step
      <3> QED BY <1>2
    <2>2. PICK f : Follows(f, n, <<>>, G) /\ \A i \in 0..n : f[i] \in D[i]
      <3> HIDE DEF n, D, G
      <3> QED BY <1>1, <1>3, <2>1, Guided
    <2>3. \A i \in 1..n : f[i] = step(i, f[i - 1])
      <3> HIDE DEF n, D, G, step
      <3> QED BY <1>1, <1>2, <2>2 DEF Follows
    <2>4. \A i \in 0..n : f[i] = IF i = 0 THEN <<>> ELSE step(i, f[i - 1])
      <3>1. \A i \in 0..n : i = 0 \/ i \in 1..n
        OBVIOUS
      <3> HIDE DEF n, D, G, step
      <3> QED BY <2>2, <2>3, <3>1 DEF Follows
    <2>5. f = [i \in 0..n |-> f[i]]
      BY <2>2 DEF Follows
    <2>6. f = [i \in 0..n |-> IF i = 0 THEN <<>> ELSE step(i, f[i - 1])]
      <3> HIDE DEF n, D, G, step
      <3> QED BY <2>4, <2>5
    <2> HIDE DEF n, D, G, step
    <2> QED BY <2>6
  <1> DEFINE f == CHOOSE f : eqn(f)
  <1>5. eqn(f)
    BY <1>4
  <1>6. Leaderboard(board) = f[n]
    BY DEF Leaderboard
  <1>7. f[0] = <<>> /\ \A i \in 1..n : f[i] = step(i, f[i - 1])
    <2> HIDE DEF f, step
    <2> QED BY <1>1, <1>5, SMTT(60)
  <1>8. f[n] \in D[n]
    <2>1. \A i \in 1..n : f[i - 1] \in D[i - 1] => f[i] \in D[i]
      <3> HIDE DEF n, D, G, step, f
      <3> QED BY <1>2, <1>7
    <2>2. f[0] \in D[0]
      <3> HIDE DEF n, D, step, f
      <3> QED BY <1>3, <1>7
    <2>3. \A i \in 0..n : f[i] \in D[i]
      <3> HIDE DEF D, n, f, step
      <3> QED BY <1>1, <2>1, <2>2, StaysIn
    <2> HIDE DEF D, n, f, step
    <2> QED BY <1>1, <2>3
  <1> HIDE DEF f, n
  <1> QED BY <1>1, <1>6, <1>8

\* The walk over the wallets stays in every set closed under the edges.
LEMMA ClusterIs ==
    ASSUME adj \in [Wallet -> Seq(Wallet)], NEW start \in Wallet, NEW S \in SUBSET Wallet, start \in S,
           \A x \in S : ToSet(adj[x]) \subseteq S
    PROVE  ConnectedCluster(start) \in Seq(Wallet) /\ ToSet(ConnectedCluster(start)) \subseteq S
  <1> DEFINE n == Cardinality(Wallet)
             V == {v \in Seq(Wallet) : ToSet(v) \subseteq S}
             step(i, v) == IF i > Len(v) THEN v ELSE Added(v, adj[v[i]])
             G == [p \in (1..n) \X V |-> step(p[1], p[2])]
             D == [i \in 0..n |-> V]
             eqn(f) == f = [i \in 0..n |-> IF i = 0 THEN <<start>> ELSE step(i, f[i - 1])]
  <1>0. n \in Nat
    BY TraderAssumption, FS_CardinalityType
  <1>1. n \in Nat /\ \A i \in 1..n : i - 1 \in 0..n /\ i # 0 /\ i \in 0..n
    <2> HIDE DEF n
    <2> QED BY <1>0
  <1>2. ASSUME NEW i \in 1..n, NEW v \in D[i - 1]
        PROVE  step(i, v) \in D[i] /\ G[<<i, v>>] = step(i, v)
    <2>1. v \in V /\ i \in 1..n /\ D[i] = V /\ i \in Nat /\ i >= 1
      <3> HIDE DEF n, V
      <3> QED BY <1>1, <1>2
    <2>2. ASSUME i <= Len(v) PROVE Added(v, adj[v[i]]) \in V
      <3>1. v[i] \in S /\ v \in Seq(Wallet) /\ ToSet(v) \subseteq S
        <4> HIDE DEF n, D, G
        <4> QED BY <2>1, <2>2 DEF ToSet
      <3>2. adj[v[i]] \in Seq(Wallet) /\ ToSet(adj[v[i]]) \subseteq S
        BY <3>1
      <3>3. /\ Added(v, adj[v[i]]) \in Seq(Wallet)
            /\ ToSet(Added(v, adj[v[i]])) = ToSet(v) \cup ToSet(adj[v[i]])
        <4>1. PICK a \in Seq(Wallet) : a = adj[v[i]]
          BY <3>2
        <4> QED BY <3>1, <4>1, AddIs
      <3> QED BY <3>1, <3>2, <3>3
    <2>3. step(i, v) \in V
      <3> HIDE DEF n, V, D, G
      <3> QED BY <2>1, <2>2
    <2>4. G[<<i, v>>] = step(i, v)
      <3> HIDE DEF n, V, step
      <3> QED BY <2>1
    <2> HIDE DEF n, V, D, G, step
    <2> QED BY <2>1, <2>3, <2>4
  <1>3. <<start>> \in D[0]
    <2>1. <<start>> \in V
      BY DEF ToSet
    <2> HIDE DEF n, V
    <2> QED BY <1>1, <2>1
  <1>4. \E f : eqn(f)
    <2>1. \A i \in 1..n : \A v \in D[i - 1] : G[<<i, v>>] \in D[i]
      <3> HIDE DEF n, D, G, step
      <3> QED BY <1>2
    <2>2. PICK f : Follows(f, n, <<start>>, G) /\ \A i \in 0..n : f[i] \in D[i]
      <3> HIDE DEF n, D, G
      <3> QED BY <1>1, <1>3, <2>1, Guided
    <2>3. \A i \in 1..n : f[i] = step(i, f[i - 1])
      <3> HIDE DEF n, D, G, step
      <3> QED BY <1>1, <1>2, <2>2 DEF Follows
    <2>4. \A i \in 0..n : f[i] = IF i = 0 THEN <<start>> ELSE step(i, f[i - 1])
      <3>1. \A i \in 0..n : i = 0 \/ i \in 1..n
        OBVIOUS
      <3> HIDE DEF n, D, G, step
      <3> QED BY <2>2, <2>3, <3>1 DEF Follows
    <2>5. f = [i \in 0..n |-> f[i]]
      BY <2>2 DEF Follows
    <2>6. f = [i \in 0..n |-> IF i = 0 THEN <<start>> ELSE step(i, f[i - 1])]
      <3> HIDE DEF n, D, G, step
      <3> QED BY <2>4, <2>5
    <2> HIDE DEF n, D, G, step
    <2> QED BY <2>6
  <1> DEFINE f == CHOOSE f : eqn(f)
  <1>5. eqn(f)
    BY <1>4
  <1>6. ConnectedCluster(start) = f[n]
    BY DEF ConnectedCluster
  <1>7. f[0] = <<start>> /\ \A i \in 1..n : f[i] = step(i, f[i - 1])
    <2> HIDE DEF f, step
    <2> QED BY <1>1, <1>5
  <1>8. f[n] \in D[n]
    <2>1. \A i \in 1..n : f[i - 1] \in D[i - 1] => f[i] \in D[i]
      <3> HIDE DEF n, D, G, step, f
      <3> QED BY <1>2, <1>7
    <2>2. f[0] \in D[0]
      <3> HIDE DEF n, D, step, f
      <3> QED BY <1>3, <1>7
    <2>3. \A i \in 0..n : f[i] \in D[i]
      <3> HIDE DEF D, n, f, step
      <3> QED BY <1>1, <2>1, <2>2, StaysIn
    <2> HIDE DEF D, n, f, step
    <2> QED BY <1>1, <2>3
  <1>9. f[n] \in V
    <2> HIDE DEF f, n, V
    <2> QED BY <1>1, <1>8
  <1> HIDE DEF f, n
  <1> QED BY <1>6, <1>9


\* What a pass knows of the traders: their rows and the identity graph.
KeptRow == [volume : Nat, age : (-1)..MaxAge]

Knowledge == [rows : [Handle -> [Window -> KeptRow]], wallets : [Handle -> Seq(Wallet)],
              adj : [Wallet -> Seq(Wallet)], handles : [Wallet -> Seq(Handle)]]

\* A handle is listed with its wallets as these are with it, and an edge joins
\* two wallets some handle was seen with.
Mutual(g) == \A h \in Handle, x \in Wallet : h \in ToSet(g.handles[x]) <=> x \in ToSet(g.wallets[h])

Joined(g) == \A x \in Wallet : \A y \in ToSet(g.adj[x]) :
               \E h \in Handle : x \in ToSet(g.wallets[h]) /\ y \in ToSet(g.wallets[h])

LEMMA ContainsIs ==
    ASSUME NEW T, NEW s \in Seq(T), NEW e
    PROVE  Contains(s, e) <=> e \in ToSet(s)
  BY DEF Contains, ToSet

LEMMA SingleIs ==
    ASSUME NEW T, NEW e \in T
    PROVE  <<e>> \in Seq(T) /\ ToSet(<<e>>) = {e}
  BY DEF ToSet

\* Registering a row keeps the graph consistent.
LEMMA RegisteredIs ==
    ASSUME NEW g \in Knowledge, Mutual(g), Joined(g), NEW listing \in Found
    PROVE  LET r == Registered(g, listing)
           IN  r \in Knowledge /\ Mutual(r) /\ Joined(r) /\ r.rows = g.rows
  <1> DEFINE h == listing.handle
             mine == Added(g.wallets[h], listing.wallets)
             r == Registered(g, listing)
  <1>1. h \in Handle /\ listing.wallets \in Seq(Wallet)
    BY DEF Found
  <1>2. /\ g.rows \in [Handle -> [Window -> KeptRow]] /\ g.wallets \in [Handle -> Seq(Wallet)]
        /\ g.adj \in [Wallet -> Seq(Wallet)] /\ g.handles \in [Wallet -> Seq(Handle)]
    BY DEF Knowledge
  <1>3. CASE listing.wallets = <<>>
    BY <1>3 DEF Registered
  <1>4. CASE listing.wallets # <<>>
    <2>1. r = [g EXCEPT !.wallets[h] = mine,
                        !.adj = Linked(@, mine),
                        !.handles = [x \in Wallet |-> IF Contains(listing.wallets, x) THEN Added(@[x], <<h>>) ELSE @[x]]]
      BY <1>4 DEF Registered
    <2>2. mine \in Seq(Wallet) /\ ToSet(mine) = ToSet(g.wallets[h]) \cup ToSet(listing.wallets)
      <3>1. PICK a \in Seq(Wallet) : a = g.wallets[h]
        BY <1>1, <1>2
      <3>2. Added(a, listing.wallets) \in Seq(Wallet) /\ ToSet(Added(a, listing.wallets)) = ToSet(a) \cup ToSet(listing.wallets)
        BY <1>1, AddIs
      <3> QED BY <3>1, <3>2
    <2> HIDE DEF mine
    <2>3. /\ r.rows = g.rows
          /\ r.wallets = [g.wallets EXCEPT ![h] = mine]
          /\ r.adj = Linked(g.adj, mine)
          /\ r.handles = [x \in Wallet |-> IF Contains(listing.wallets, x) THEN Added(g.handles[x], <<h>>) ELSE g.handles[x]]
          /\ r = [rows |-> r.rows, wallets |-> r.wallets, adj |-> r.adj, handles |-> r.handles]
      <3> HIDE DEF h
      <3> QED BY <2>1 DEF Knowledge
    <2> HIDE DEF r
    <2>4. /\ r.wallets \in [Handle -> Seq(Wallet)]
          /\ ToSet(r.wallets[h]) = ToSet(g.wallets[h]) \cup ToSet(listing.wallets)
          /\ \A k \in Handle : k # h => r.wallets[k] = g.wallets[k]
      <3> HIDE DEF h
      <3> QED BY <1>1, <1>2, <2>2, <2>3
    <2>5. ASSUME NEW x \in Wallet
          PROVE  /\ r.handles[x] \in Seq(Handle)
                 /\ ToSet(r.handles[x]) = ToSet(g.handles[x]) \cup (IF x \in ToSet(listing.wallets) THEN {h} ELSE {})
      <3>1. r.handles[x] = IF x \in ToSet(listing.wallets) THEN Added(g.handles[x], <<h>>) ELSE g.handles[x]
        BY <1>1, <2>3, ContainsIs
      <3>2. PICK a \in Seq(Handle) : a = g.handles[x]
        BY <1>2
      <3>3. PICK b \in Seq(Handle) : b = <<h>> /\ ToSet(b) = {h}
        <4> HIDE DEF h
        <4> QED BY <1>1, SingleIs
      <3>4. Added(a, b) \in Seq(Handle) /\ ToSet(Added(a, b)) = ToSet(a) \cup ToSet(b)
        BY AddIs
      <3> HIDE DEF h
      <3> QED BY <3>1, <3>2, <3>3, <3>4
    <2>6. ASSUME NEW x \in Wallet
          PROVE  /\ r.adj[x] \in Seq(Wallet)
                 /\ ToSet(r.adj[x]) \subseteq ToSet(g.adj[x]) \cup ToSet(mine)
                 /\ x \notin ToSet(mine) => r.adj[x] = g.adj[x]
      <3>1. r.adj[x] = IF x \in ToSet(mine) THEN AddedBut(g.adj[x], mine, {x}) ELSE g.adj[x]
        BY <2>2, <2>3, ContainsIs DEF Linked
      <3>2. PICK a \in Seq(Wallet) : a = g.adj[x]
        BY <1>2
      <3>3. /\ AddedBut(a, mine, {x}) \in Seq(Wallet)
            /\ ToSet(AddedBut(a, mine, {x})) = ToSet(a) \cup (ToSet(mine) \ {x})
        BY <2>2, AddedIs
      <3> QED BY <3>1, <3>2, <3>3
    <2> HIDE DEF h
    <2>7. r \in Knowledge
      <3>1. r.adj \in [Wallet -> Seq(Wallet)] /\ r.handles \in [Wallet -> Seq(Handle)]
        <4>1. r.adj = [x \in Wallet |-> r.adj[x]]
          BY <2>3 DEF Linked
        <4>2. r.handles = [x \in Wallet |-> r.handles[x]]
          BY <2>3
        <4> QED BY <2>5, <2>6, <4>1, <4>2
      <3> QED BY <1>2, <2>3, <2>4, <3>1 DEF Knowledge
    <2>8. Mutual(r)
      <3> SUFFICES ASSUME NEW k \in Handle, NEW x \in Wallet
                   PROVE  k \in ToSet(r.handles[x]) <=> x \in ToSet(r.wallets[k])
        BY DEF Mutual
      <3>1. k \in ToSet(g.handles[x]) <=> x \in ToSet(g.wallets[k])
        BY DEF Mutual
      <3>2. CASE k = h
        BY <2>4, <2>5, <3>1, <3>2
      <3>3. CASE k # h
        BY <2>4, <2>5, <3>1, <3>3
      <3> QED BY <3>2, <3>3
    <2>9. Joined(r)
      <3> SUFFICES ASSUME NEW x \in Wallet, NEW y \in ToSet(r.adj[x])
                   PROVE  \E k \in Handle : x \in ToSet(r.wallets[k]) /\ y \in ToSet(r.wallets[k])
        BY DEF Joined
      <3>1. \A k \in Handle : ToSet(g.wallets[k]) \subseteq ToSet(r.wallets[k])
        BY <2>4
      <3>2. ToSet(r.wallets[h]) = ToSet(mine)
        BY <2>2, <2>4
      <3>3. CASE y \in ToSet(g.adj[x])
        BY <3>1, <3>3 DEF Joined
      <3>4. CASE y \notin ToSet(g.adj[x])
        BY <1>1, <2>6, <3>2, <3>4
      <3> QED BY <3>3, <3>4
    <2> QED BY <2>3, <2>7, <2>8, <2>9 DEF r
  <1> QED BY <1>3, <1>4


Consistent(g) == g \in Knowledge /\ Mutual(g) /\ Joined(g)

Memory == [rows |-> rows, wallets |-> handleToWallets, adj |-> adj, handles |-> walletToHandles]

LEMMA BoundFacts == MaxAge \in Nat /\ BoardTtl \in Nat /\ 0 \in (-1)..MaxAge /\ -1 \in (-1)..MaxAge
  <1>1. MaxAge \in Nat /\ BoardTtl \in Nat
    BY TraderAssumption
  <1> QED BY <1>1

LEMMA IngestedIs ==
    ASSUME NEW kept \in KeptRow, NEW volume \in Nat
    PROVE  Ingested(kept, volume) \in KeptRow /\ Ingested(kept, volume).age = 0
  <1>1. [volume |-> volume, age |-> 0] \in KeptRow
    BY BoundFacts DEF KeptRow
  <1>2. CASE ~HasRow(kept) \/ volume > kept.volume \/ kept.age > 0
    BY <1>1, <1>2 DEF Ingested
  <1>3. CASE ~(~HasRow(kept) \/ volume > kept.volume \/ kept.age > 0)
    <2>1. Ingested(kept, volume) = kept
      BY <1>3 DEF Ingested
    <2>2. kept.age = 0
      BY <1>3, BoundFacts DEF HasRow, KeptRow
    <2> QED BY <2>1, <2>2
  <1> QED BY <1>2, <1>3

LEMMA ReplacedIs ==
    ASSUME NEW v \in Knowledge, NEW k \in Handle, NEW w \in Window, NEW kept \in KeptRow
    PROVE  LET x == [v EXCEPT !.rows[k][w] = kept]
           IN  /\ x.wallets = v.wallets /\ x.adj = v.adj /\ x.handles = v.handles
               /\ x \in Knowledge /\ x.rows[k][w] = kept
               /\ \A h \in Handle, u \in Window : h # k \/ u # w => x.rows[h][u] = v.rows[h][u]
  <1> DEFINE x == [v EXCEPT !.rows[k][w] = kept]
  <1>1. /\ v.rows \in [Handle -> [Window -> KeptRow]] /\ v.wallets \in [Handle -> Seq(Wallet)]
        /\ v.adj \in [Wallet -> Seq(Wallet)] /\ v.handles \in [Wallet -> Seq(Handle)]
        /\ v = [rows |-> v.rows, wallets |-> v.wallets, adj |-> v.adj, handles |-> v.handles]
    BY DEF Knowledge
  <1>2. x.wallets = v.wallets /\ x.adj = v.adj /\ x.handles = v.handles /\ x.rows = [v.rows EXCEPT ![k][w] = kept]
    BY <1>1
  <1>3. x = [rows |-> x.rows, wallets |-> v.wallets, adj |-> v.adj, handles |-> v.handles]
    <2>1. x = [v EXCEPT !.rows = [v.rows EXCEPT ![k][w] = kept]]
      OBVIOUS
    <2>2. PICK R : R = [v.rows EXCEPT ![k][w] = kept]
      OBVIOUS
    <2>3. [v EXCEPT !.rows = R] = [rows |-> R, wallets |-> v.wallets, adj |-> v.adj, handles |-> v.handles]
      <3>1. PICK a, b, c, d : v = [rows |-> a, wallets |-> b, adj |-> c, handles |-> d]
        BY <1>1
      <3>2. [v EXCEPT !.rows = R] = [rows |-> R, wallets |-> b, adj |-> c, handles |-> d]
        BY <3>1
      <3> QED BY <3>1, <3>2
    <2> HIDE DEF x
    <2> QED BY <1>2, <2>1, <2>2, <2>3
  <1> HIDE DEF x
  <1>4. /\ x.rows \in [Handle -> [Window -> KeptRow]] /\ x.rows[k][w] = kept
        /\ \A h \in Handle, u \in Window : h # k \/ u # w => x.rows[h][u] = v.rows[h][u]
    <2>1. v.rows[k] \in [Window -> KeptRow]
      BY <1>1
    <2> QED BY <1>1, <1>2, <2>1
  <1>5. x \in Knowledge
    BY <1>1, <1>3, <1>4 DEF Knowledge
  <1> QED BY <1>2, <1>4, <1>5 DEF x

\* Collecting a board stamps the rows of the handles on it, and no others.
LEMMA CollectedIs ==
    ASSUME Consistent(Memory), NEW found \in Seq(Found), NEW w \in Window
    PROVE  LET g == Collected(found, w)
           IN  /\ Consistent(g)
               /\ \A h \in Handle, u \in Window :
                    IF u = w /\ h \in {found[j].handle : j \in 1..Len(found)}
                    THEN g.rows[h][u].age = 0 ELSE g.rows[h][u] = rows[h][u]
  <1> DEFINE n == Len(found)
             stamped(g, i) ==
               \A h \in Handle, u \in Window :
                 IF u = w /\ h \in {found[j].handle : j \in 1..i}
                 THEN g.rows[h][u].age = 0 ELSE g.rows[h][u] = rows[h][u]
             V == {g \in Knowledge : Mutual(g) /\ Joined(g)}
             ingest(i, v) == [v EXCEPT !.rows[found[i].handle][w] = Ingested(@, found[i].volume)]
             step(i, v) == Registered(ingest(i, v), found[i])
             G == [p \in (1..n) \X V |-> step(p[1], p[2])]
             D == [i \in 0..n |-> {g \in V : stamped(g, i)}]
             eqn(f) == f = [i \in 0..n |-> IF i = 0 THEN Memory ELSE step(i, f[i - 1])]
  <1>1. n \in Nat /\ (\A i \in 1..n : found[i] \in Found) /\ (\A i \in 1..n : i - 1 \in 0..n /\ i # 0 /\ i \in 0..n)
    OBVIOUS
  <1>2. ASSUME NEW i \in 1..n, NEW v \in D[i - 1]
        PROVE  step(i, v) \in D[i] /\ G[<<i, v>>] = step(i, v)
    <2>1. v \in V /\ stamped(v, i - 1) /\ i \in 0..n
      <3> HIDE DEF n, V, stamped
      <3> QED BY <1>1, <1>2
    <2> DEFINE k == found[i].handle
               x == ingest(i, v)
    <2>2. k \in Handle /\ found[i] \in Found /\ found[i].volume \in Nat
      BY <1>1 DEF Found
    <2>3. Ingested(v.rows[k][w], found[i].volume) \in KeptRow /\ Ingested(v.rows[k][w], found[i].volume).age = 0
      <3>1. v.rows[k][w] \in KeptRow
        <4> HIDE DEF k
        <4> QED BY <2>1, <2>2 DEF Knowledge
      <3>2. PICK r \in KeptRow, volume \in Nat : r = v.rows[k][w] /\ volume = found[i].volume
        BY <2>2, <3>1
      <3>3. Ingested(r, volume) \in KeptRow /\ Ingested(r, volume).age = 0
        BY IngestedIs
      <3> HIDE DEF k
      <3> QED BY <3>2, <3>3
    <2>4. /\ x.wallets = v.wallets /\ x.adj = v.adj /\ x.handles = v.handles
          /\ x \in Knowledge /\ x.rows[k][w].age = 0
          /\ \A h \in Handle, u \in Window : h # k \/ u # w => x.rows[h][u] = v.rows[h][u]
      <3>1. v \in Knowledge
        BY <2>1
      <3> DEFINE e == Ingested(v.rows[k][w], found[i].volume)
      <3>2. x = [v EXCEPT !.rows[k][w] = e]
        OBVIOUS
      <3> HIDE DEF k, V, x, e
      <3>3. PICK kept \in KeptRow : kept = e /\ kept.age = 0
        BY <2>3 DEF e
      <3>4. x = [v EXCEPT !.rows[k][w] = kept]
        BY <3>2, <3>3
      <3> QED BY <2>2, <3>1, <3>3, <3>4, ReplacedIs
    <2>6. x \in Knowledge /\ Mutual(x) /\ Joined(x)
      <3> HIDE DEF x, k
      <3> QED BY <2>1, <2>4 DEF Mutual, Joined
    <2>7. Registered(x, found[i]) \in V /\ Registered(x, found[i]).rows = x.rows
      <3> HIDE DEF x, k
      <3> QED BY <2>2, <2>6, RegisteredIs
    <2>8. stamped(Registered(x, found[i]), i)
      <3>1. {found[j].handle : j \in 1..i} = {found[j].handle : j \in 1..(i - 1)} \cup {k}
        <4>1. 1..i = (1..(i - 1)) \cup {i}
          BY <1>2
        <4> QED BY <4>1
      <3> SUFFICES ASSUME NEW h \in Handle, NEW u \in Window
                   PROVE  IF u = w /\ h \in {found[j].handle : j \in 1..i}
                          THEN x.rows[h][u].age = 0 ELSE x.rows[h][u] = rows[h][u]
        <4> HIDE DEF x, k
        <4> QED BY <2>7
      <3>2. IF u = w /\ h \in {found[j].handle : j \in 1..(i - 1)}
            THEN v.rows[h][u].age = 0 ELSE v.rows[h][u] = rows[h][u]
        BY <2>1
      <3>3. CASE h = k /\ u = w
        <4> HIDE DEF x, k
        <4> QED BY <2>4, <3>1, <3>3
      <3>4. CASE h # k \/ u # w
        <4> HIDE DEF x, k
        <4> QED BY <2>4, <3>1, <3>2, <3>4
      <3> QED BY <3>3, <3>4
    <2>9. G[<<i, v>>] = step(i, v)
      <3> HIDE DEF n, V, step
      <3> QED BY <1>2, <2>1
    <2>10. step(i, v) \in D[i]
      <3>1. step(i, v) = Registered(x, found[i])
        OBVIOUS
      <3> HIDE DEF n, V, stamped, step, x
      <3> QED BY <2>1, <2>7, <2>8, <3>1
    <2> QED BY <2>9, <2>10
  <1>3. Memory \in D[0]
    <2>1. stamped(Memory, 0)
      BY DEF Memory
    <2>2. Memory \in V
      BY DEF Consistent
    <2> HIDE DEF n, V, stamped
    <2> QED BY <1>1, <2>1, <2>2
  <1>4. \E f : eqn(f)
    <2>1. \A i \in 1..n : \A v \in D[i - 1] : G[<<i, v>>] \in D[i]
      <3> HIDE DEF n, D, G, step
      <3> QED BY <1>2
    <2>2. PICK f : Follows(f, n, Memory, G) /\ \A i \in 0..n : f[i] \in D[i]
      <3> HIDE DEF n, D, G
      <3> QED BY <1>1, <1>3, <2>1, Guided
    <2>3. \A i \in 1..n : f[i] = step(i, f[i - 1])
      <3> HIDE DEF n, D, G, step
      <3> QED BY <1>1, <1>2, <2>2 DEF Follows
    <2>4. \A i \in 0..n : f[i] = IF i = 0 THEN Memory ELSE step(i, f[i - 1])
      <3>1. \A i \in 0..n : i = 0 \/ i \in 1..n
        OBVIOUS
      <3> HIDE DEF n, D, G, step
      <3> QED BY <2>2, <2>3, <3>1 DEF Follows
    <2>5. f = [i \in 0..n |-> f[i]]
      BY <2>2 DEF Follows
    <2>6. f = [i \in 0..n |-> IF i = 0 THEN Memory ELSE step(i, f[i - 1])]
      <3> HIDE DEF n, D, G, step
      <3> QED BY <2>4, <2>5
    <2> HIDE DEF n, D, G, step
    <2> QED BY <2>6
  <1> DEFINE f == CHOOSE f : eqn(f)
  <1>5. eqn(f)
    BY <1>4
  <1>6. Collected(found, w) = f[n]
    BY DEF Collected, Memory
  <1>7. f[0] = Memory /\ \A i \in 1..n : f[i] = step(i, f[i - 1])
    <2> HIDE DEF f, step
    <2> QED BY <1>1, <1>5
  <1>8. f[n] \in D[n]
    <2>1. \A i \in 1..n : f[i - 1] \in D[i - 1] => f[i] \in D[i]
      <3> HIDE DEF n, D, G, step, f
      <3> QED BY <1>2, <1>7
    <2>2. f[0] \in D[0]
      <3> HIDE DEF n, D, step, f
      <3> QED BY <1>3, <1>7
    <2>3. \A i \in 0..n : f[i] \in D[i]
      <3> HIDE DEF D, n, f, step
      <3> QED BY <1>1, <2>1, <2>2, StaysIn
    <2> HIDE DEF D, n, f, step
    <2> QED BY <1>1, <2>3
  <1>9. f[n] \in V /\ stamped(f[n], n)
    <2> HIDE DEF n, f, V, stamped
    <2> QED BY <1>1, <1>8
  <1> HIDE DEF f
  <1> QED BY <1>6, <1>9 DEF Consistent


Board == [rows : Seq(BoardRow), age : (-1)..BoardTtl]

\* The row kept is as old as the answer that last listed the handle, but for the
\* time this answer had spent in the governor's cache.
RowsAreDated ==
    \A h \in Handle, w \in Window :
      /\ listed[h][w] = -1 <=> rows[h][w].age = -1
      /\ rows[h][w].age <= listed[h][w] /\ listed[h][w] <= rows[h][w].age + BoardTtl

TraderInv ==
    /\ Consistent(Memory)
    /\ boards \in [Window -> Board]
    /\ listed \in [Handle -> [Window -> (-1)..MaxAge]]
    /\ RowsAreDated

LEMMA TraderInitInv == TraderInit => TraderInv
  <1> SUFFICES ASSUME TraderInit PROVE TraderInv
    OBVIOUS
  <1>1. NoRow \in KeptRow /\ NoBoard \in Board /\ NoRow.age = -1
    BY BoundFacts DEF NoRow, NoBoard, KeptRow, Board
  <1>2. ToSet(<<>>) = {}
    BY DEF ToSet
  <1>3. Memory \in Knowledge
    BY <1>1 DEF TraderInit, Memory, Knowledge
  <1>4. Mutual(Memory) /\ Joined(Memory)
    BY <1>2 DEF TraderInit, Memory, Mutual, Joined
  <1>5. boards \in [Window -> Board]
    BY <1>1 DEF TraderInit
  <1>6. listed \in [Handle -> [Window -> (-1)..MaxAge]]
    BY BoundFacts DEF TraderInit
  <1>7. RowsAreDated
    BY <1>1, BoundFacts DEF TraderInit, RowsAreDated
  <1> QED BY <1>3, <1>4, <1>5, <1>6, <1>7 DEF TraderInv, Consistent

LEMMA CollectInv ==
    ASSUME TraderInv, NEW w \in Window, CollectFomoTraderIntel(w)
    PROVE  TraderInv'
  <1>1. PICK board \in {boards[w]} \cup {[rows |-> a, age |-> 0] : a \in Answers} :
          /\ Get(w, board)
          /\ LET found == Leaderboard(board)
                 known == Collected(found, w)
             IN  /\ rows' = known.rows /\ handleToWallets' = known.wallets
                 /\ walletToHandles' = known.handles /\ adj' = known.adj
                 /\ boards' = [boards EXCEPT ![w] = board]
                 /\ listed' = [h \in Handle |-> IF \E i \in 1..Len(found) : found[i].handle = h
                                                THEN [listed[h] EXCEPT ![w] = board.age]
                                                ELSE listed[h]]
    BY DEF CollectFomoTraderIntel
  <1> DEFINE found == Leaderboard(board)
             known == Collected(found, w)
             seen == {found[j].handle : j \in 1..Len(found)}
  <1>2. board \in Board /\ board.age \in 0..BoardTtl
    <2>1. boards[w] \in Board
      BY DEF TraderInv
    <2>2. \A a \in Answers : [rows |-> a, age |-> 0] \in Board
      <3>1. Answers \subseteq Seq(BoardRow)
        BY TraderAssumption
      <3>2. 0 \in (-1)..BoardTtl
        BY BoundFacts
      <3> QED BY <3>1, <3>2 DEF Board
    <2>3. CASE HasRow(boards[w]) /\ boards[w].age < BoardTtl
      BY <1>1, <2>1, <2>3, BoundFacts DEF Get, HasRow, Board
    <2>4. CASE ~(HasRow(boards[w]) /\ boards[w].age < BoardTtl)
      BY <1>1, <2>2, <2>4, BoundFacts DEF Get
    <2> QED BY <2>3, <2>4
  <1>3. found \in Seq(Found)
    BY <1>2, LeaderboardIs DEF Board
  <1>4. /\ Consistent(known)
        /\ \A h \in Handle, u \in Window :
             IF u = w /\ h \in seen THEN known.rows[h][u].age = 0 ELSE known.rows[h][u] = rows[h][u]
    <2> HIDE DEF found
    <2> QED BY <1>3, CollectedIs DEF TraderInv
  <1>5. /\ rows' = known.rows /\ handleToWallets' = known.wallets /\ walletToHandles' = known.handles
        /\ adj' = known.adj /\ boards' = [boards EXCEPT ![w] = board]
        /\ listed' = [h \in Handle |-> IF h \in seen THEN [listed[h] EXCEPT ![w] = board.age] ELSE listed[h]]
    BY <1>1
  <1> HIDE DEF known, seen
  <1>6. Consistent(Memory)'
    <2>1. known = [rows |-> known.rows, wallets |-> known.wallets, adj |-> known.adj, handles |-> known.handles]
      BY <1>4 DEF Consistent, Knowledge
    <2>2. Memory' = known
      BY <1>5, <2>1 DEF Memory
    <2> QED BY <1>4, <2>2 DEF Consistent, Mutual, Joined
  <1>7. boards' \in [Window -> Board]
    BY <1>2, <1>5 DEF TraderInv
  <1>8. board.age \in (-1)..MaxAge /\ BoardTtl \in Nat
    <2>1. FreshFor[w] \in Nat /\ FreshFor[w] + BoardTtl < MaxAge
      BY TraderAssumption
    <2> QED BY <1>2, <2>1, BoundFacts
  <1>9. listed' \in [Handle -> [Window -> (-1)..MaxAge]]
    <2>1. ASSUME NEW h \in Handle PROVE [listed[h] EXCEPT ![w] = board.age] \in [Window -> (-1)..MaxAge]
      <3>1. listed[h] \in [Window -> (-1)..MaxAge]
        BY DEF TraderInv
      <3> QED BY <1>8, <3>1
    <2> QED BY <1>5, <2>1 DEF TraderInv
  <1>10. RowsAreDated'
    <2> SUFFICES ASSUME NEW h \in Handle, NEW u \in Window
                 PROVE  /\ listed'[h][u] = -1 <=> rows'[h][u].age = -1
                        /\ rows'[h][u].age <= listed'[h][u] /\ listed'[h][u] <= rows'[h][u].age + BoardTtl
      BY DEF RowsAreDated
    <2>1. listed[h] \in [Window -> (-1)..MaxAge]
      BY DEF TraderInv
    <2>2. CASE u = w /\ h \in seen
      <3>1. rows'[h][u].age = 0 /\ listed'[h][u] = board.age
        BY <1>4, <1>5, <2>1, <2>2
      <3> QED BY <1>2, <1>8, <3>1
    <2>3. CASE ~(u = w /\ h \in seen)
      <3>1. rows'[h][u] = rows[h][u]
        BY <1>4, <1>5, <2>3
      <3>2. listed'[h][u] = listed[h][u]
        BY <1>5, <2>1, <2>3
      <3> QED BY <3>1, <3>2 DEF TraderInv, RowsAreDated
    <2> QED BY <2>2, <2>3
  <1> QED BY <1>6, <1>7, <1>9, <1>10 DEF TraderInv

LEMMA OlderRow ==
    ASSUME NEW x \in KeptRow
    PROVE  /\ OneTickOlder(x) \in KeptRow
           /\ OneTickOlder(x).age = IF x.age \in 0..(MaxAge - 1) THEN x.age + 1 ELSE x.age
  <1>1. x.volume \in Nat /\ x.age \in (-1)..MaxAge /\ x = [volume |-> x.volume, age |-> x.age]
    BY DEF KeptRow
  <1>2. [x EXCEPT !.age = x.age + 1] = [volume |-> x.volume, age |-> x.age + 1]
    BY <1>1
  <1>3. CASE x.age \in 0..(MaxAge - 1)
    <2>1. OneTickOlder(x) = [volume |-> x.volume, age |-> x.age + 1]
      BY <1>1, <1>2, <1>3, BoundFacts DEF OneTickOlder, HasRow
    <2> QED BY <1>1, <1>3, <2>1, BoundFacts DEF KeptRow
  <1>4. CASE x.age \notin 0..(MaxAge - 1)
    <2>1. OneTickOlder(x) = x
      BY <1>1, <1>4, BoundFacts DEF OneTickOlder, HasRow
    <2> QED BY <1>4, <2>1
  <1> QED BY <1>3, <1>4

LEMMA OlderBoard ==
    ASSUME NEW x \in Board
    PROVE  (IF x.age < BoardTtl THEN OneTickOlder(x) ELSE NoBoard) \in Board
  <1>1. x.age \in (-1)..BoardTtl /\ x.rows \in Seq(BoardRow) /\ x = [rows |-> x.rows, age |-> x.age]
    BY DEF Board
  <1>2. [x EXCEPT !.age = x.age + 1] = [rows |-> x.rows, age |-> x.age + 1]
    BY <1>1
  <1>3. NoBoard \in Board
    BY BoundFacts DEF NoBoard, Board
  <1>4. CASE x.age < BoardTtl /\ HasRow(x) /\ x.age < MaxAge
    <2>1. OneTickOlder(x) = [rows |-> x.rows, age |-> x.age + 1] /\ x.age + 1 \in (-1)..BoardTtl
      BY <1>1, <1>2, <1>4, BoundFacts DEF OneTickOlder, HasRow
    <2>2. [rows |-> x.rows, age |-> x.age + 1] \in Board
      BY <1>1, <2>1 DEF Board
    <2> QED BY <1>4, <2>1, <2>2
  <1>5. CASE ~(HasRow(x) /\ x.age < MaxAge)
    BY <1>3, <1>5 DEF OneTickOlder
  <1> QED BY <1>3, <1>4, <1>5

LEMMA TickInv ==
    ASSUME TraderInv, TraderTick
    PROVE  TraderInv'
  <1>1. rows \in [Handle -> [Window -> KeptRow]]
    BY DEF TraderInv, Consistent, Memory, Knowledge
  <1>2. rows' = [h \in Handle |-> [w \in Window |-> OneTickOlder(rows[h][w])]]
    BY DEF TraderTick
  <1>3. rows' \in [Handle -> [Window -> KeptRow]]
    BY <1>1, <1>2, OlderRow
  <1>4. Consistent(Memory)'
    BY <1>3 DEF TraderInv, TraderTick, Consistent, Memory, Knowledge, Mutual, Joined
  <1>5. boards' \in [Window -> Board]
    <2>1. \A w \in Window : boards[w] \in Board
      BY DEF TraderInv
    <2>2. \A w \in Window : (IF boards[w].age < BoardTtl THEN OneTickOlder(boards[w]) ELSE NoBoard) \in Board
      BY <2>1, OlderBoard
    <2> QED BY <2>2 DEF TraderTick
  <1>6. ASSUME NEW h \in Handle, NEW w \in Window
        PROVE  /\ listed'[h][w] = IF listed[h][w] \in 0..(MaxAge - 1) THEN listed[h][w] + 1 ELSE listed[h][w]
               /\ listed[h][w] \in (-1)..MaxAge /\ listed'[h][w] \in (-1)..MaxAge
    <2>1. listed'[h][w] = IF listed[h][w] \in 0..(MaxAge - 1) THEN listed[h][w] + 1 ELSE listed[h][w]
      BY DEF TraderTick
    <2>2. listed[h][w] \in (-1)..MaxAge
      BY DEF TraderInv
    <2> QED BY <2>1, <2>2, BoundFacts
  <1>7. listed' \in [Handle -> [Window -> (-1)..MaxAge]]
    <2>1. listed' = [h \in Handle |-> [w \in Window |-> listed'[h][w]]]
      BY DEF TraderTick
    <2> QED BY <1>6, <2>1
  <1>8. RowsAreDated'
    <2> SUFFICES ASSUME NEW h \in Handle, NEW w \in Window
                 PROVE  /\ listed'[h][w] = -1 <=> rows'[h][w].age = -1
                        /\ rows'[h][w].age <= listed'[h][w] /\ listed'[h][w] <= rows'[h][w].age + BoardTtl
      BY DEF RowsAreDated
    <2>1. PICK x \in KeptRow : x = rows[h][w]
      BY <1>1
    <2>2. rows'[h][w] = OneTickOlder(x)
      BY <1>2, <2>1
    <2>3. rows'[h][w].age = IF x.age \in 0..(MaxAge - 1) THEN x.age + 1 ELSE x.age
      BY <2>2, OlderRow
    <2>4. x.age \in (-1)..MaxAge
      BY DEF KeptRow
    <2>5. /\ listed[h][w] = -1 <=> x.age = -1
          /\ x.age <= listed[h][w] /\ listed[h][w] <= x.age + BoardTtl
      BY <2>1 DEF TraderInv, RowsAreDated
    <2> QED BY <1>6, <2>3, <2>4, <2>5, BoundFacts
  <1> QED BY <1>4, <1>5, <1>7, <1>8 DEF TraderInv

LEMMA TraderSafe == TraderSpec => []TraderInv
  <1>1. TraderInv /\ [TraderNext]_traderVars => TraderInv'
    <2> SUFFICES ASSUME TraderInv, [TraderNext]_traderVars PROVE TraderInv'
      OBVIOUS
    <2>1. ASSUME NEW w \in Window, CollectFomoTraderIntel(w) PROVE TraderInv'
      BY <2>1, CollectInv
    <2>2. CASE TraderTick
      BY <2>2, TickInv
    <2>3. CASE UNCHANGED traderVars
      BY <2>3 DEF traderVars, TraderInv, Consistent, Memory, Mutual, Joined, RowsAreDated
    <2> QED BY <2>1, <2>2, <2>3 DEF TraderNext
  <1> QED BY <1>1, TraderInitInv, PTL DEF TraderSpec


-----------------------------------------------------------------------------
(* Cohorts. *)

Owned(S) == {x \in Wallet : \E h \in S : x \in ToSet(handleToWallets[h])}

\* The key of a trader names a handle of every closed set the trader is in.
LEMMA CohortIsKin ==
    ASSUME TraderInv, NEW S \in ClosedUnderSharing, NEW h \in S
    PROVE  CohortOf(h) \in S
  <1>1. /\ handleToWallets \in [Handle -> Seq(Wallet)] /\ walletToHandles \in [Wallet -> Seq(Handle)]
        /\ adj \in [Wallet -> Seq(Wallet)]
    BY DEF TraderInv, Consistent, Memory, Knowledge
  <1>2. \A k \in Handle, x \in Wallet : k \in ToSet(walletToHandles[x]) <=> x \in ToSet(handleToWallets[k])
    BY DEF TraderInv, Consistent, Memory, Mutual
  <1>3. \A x \in Wallet : \A y \in ToSet(adj[x]) :
          \E k \in Handle : x \in ToSet(handleToWallets[k]) /\ y \in ToSet(handleToWallets[k])
    BY DEF TraderInv, Consistent, Memory, Joined
  <1>4. S \subseteq Handle /\ h \in Handle /\ \A j \in S, k \in Handle : SharesWallet(j, k) => k \in S
    BY DEF ClosedUnderSharing
  <1>5. \A j, k \in Handle : \A x : x \in ToSet(handleToWallets[j]) /\ x \in ToSet(handleToWallets[k]) => SharesWallet(j, k)
    BY DEF SharesWallet
  <1>6. \A x \in Owned(S) : ToSet(adj[x]) \subseteq Owned(S)
    <2> SUFFICES ASSUME NEW x \in Owned(S), NEW y \in ToSet(adj[x]) PROVE y \in Owned(S)
      OBVIOUS
    <2>1. PICK j \in S : x \in ToSet(handleToWallets[j]) /\ x \in Wallet
      BY DEF Owned
    <2>2. PICK k \in Handle : x \in ToSet(handleToWallets[k]) /\ y \in ToSet(handleToWallets[k])
      BY <1>3, <2>1
    <2>3. k \in S
      BY <1>4, <1>5, <2>1, <2>2
    <2>4. y \in Wallet
      BY <1>1, <2>2 DEF ToSet
    <2> QED BY <2>2, <2>3, <2>4 DEF Owned
  <1> DEFINE mine == handleToWallets[h]
             clusters == [i \in DOMAIN mine |-> ConnectedCluster(mine[i])]
             wallets == Once(FlattenSeq(clusters))
             owners == [i \in DOMAIN wallets |-> walletToHandles[wallets[i]]]
             handles == Once(FlattenSeq(owners))
  <1>7. mine \in Seq(Wallet) /\ DOMAIN mine = 1..Len(mine)
    BY <1>1, <1>4
  <1>8. ASSUME NEW i \in DOMAIN mine
        PROVE  ConnectedCluster(mine[i]) \in Seq(Wallet) /\ ToSet(ConnectedCluster(mine[i])) \subseteq Owned(S)
    <2>1. PICK x \in Wallet : x = mine[i]
      BY <1>7
    <2>2. x \in Owned(S)
      BY <1>4, <2>1 DEF Owned, ToSet
    <2>3. Owned(S) \in SUBSET Wallet
      BY DEF Owned
    <2>4. ConnectedCluster(x) \in Seq(Wallet) /\ ToSet(ConnectedCluster(x)) \subseteq Owned(S)
      BY <1>1, <1>6, <2>2, <2>3, ClusterIs
    <2> QED BY <2>1, <2>4
  <1>9. clusters \in Seq(Seq(Wallet)) /\ Len(clusters) = Len(mine) /\ \A i \in DOMAIN mine : clusters[i] = ConnectedCluster(mine[i])
    <2> HIDE DEF mine
    <2> QED BY <1>7, <1>8
  <1>10. wallets \in Seq(Wallet) /\ ToSet(wallets) \subseteq Owned(S)
    <2>1. PICK c \in Seq(Seq(Wallet)) : c = clusters
      BY <1>9
    <2>2. PICK f \in Seq(Wallet) : f = FlattenSeq(clusters) /\ ToSet(f) = UNION {ToSet(c[i]) : i \in 1..Len(c)}
      <3> HIDE DEF clusters
      <3> QED BY <2>1, FlattenIs
    <2>3. Once(f) \in Seq(Wallet) /\ ToSet(Once(f)) = ToSet(f)
      BY AddIs
    <2>4. \A i \in 1..Len(c) : ToSet(c[i]) \subseteq Owned(S)
      <3> HIDE DEF clusters, mine
      <3> QED BY <1>7, <1>8, <1>9, <2>1
    <2>5. ToSet(f) \subseteq Owned(S)
      BY <2>2, <2>4
    <2> HIDE DEF clusters
    <2> QED BY <2>2, <2>3, <2>5
  <1> HIDE DEF mine, clusters
  <1>11. CASE wallets = <<>>
    BY <1>11 DEF CohortOf, ResolveTrader, clusters, mine
  <1>12. CASE wallets # <<>>
    <2>1. CohortOf(h) = Head(handles)
      BY <1>12 DEF CohortOf, ResolveTrader, clusters, mine
    <2> HIDE DEF wallets
    <2>2. 1 \in DOMAIN wallets /\ DOMAIN wallets = 1..Len(wallets) /\ \A i \in DOMAIN wallets : wallets[i] \in Owned(S)
      BY <1>10, <1>12 DEF ToSet
    <2>3. ASSUME NEW x \in Owned(S)
          PROVE  /\ walletToHandles[x] \in Seq(Handle) /\ ToSet(walletToHandles[x]) \subseteq S
                 /\ ToSet(walletToHandles[x]) # {}
      <3>1. PICK j \in S : x \in ToSet(handleToWallets[j]) /\ x \in Wallet
        BY DEF Owned
      <3>2. walletToHandles[x] \in Seq(Handle)
        BY <1>1, <3>1
      <3>3. j \in ToSet(walletToHandles[x])
        BY <1>2, <1>4, <3>1
      <3>4. ASSUME NEW k \in ToSet(walletToHandles[x]) PROVE k \in S
        <4>1. k \in Handle
          BY <3>2 DEF ToSet
        <4>2. x \in ToSet(handleToWallets[k])
          BY <1>2, <3>1, <4>1
        <4> QED BY <1>4, <1>5, <3>1, <4>1, <4>2
      <3> QED BY <3>2, <3>3, <3>4
    <2>4. owners \in Seq(Seq(Handle)) /\ Len(owners) = Len(wallets) /\ \A i \in DOMAIN wallets : owners[i] = walletToHandles[wallets[i]]
      BY <1>10, <2>2, <2>3
    <2>5. PICK c \in Seq(Seq(Handle)) : c = owners
      BY <2>4
    <2>6. PICK f \in Seq(Handle) : f = FlattenSeq(owners) /\ ToSet(f) = UNION {ToSet(c[i]) : i \in 1..Len(c)}
      <3> HIDE DEF owners
      <3> QED BY <2>5, FlattenIs
    <2>7. Once(f) \in Seq(Handle) /\ ToSet(Once(f)) = ToSet(f)
      BY AddIs
    <2>8. \A i \in 1..Len(c) : ToSet(c[i]) \subseteq S /\ ToSet(c[i]) # {}
      <3> HIDE DEF owners
      <3> QED BY <2>2, <2>3, <2>4, <2>5
    <2>9. 1 \in 1..Len(c)
      <3> HIDE DEF owners
      <3> QED BY <2>2, <2>4, <2>5
    <2>10. ToSet(handles) \subseteq S /\ ToSet(handles) # {} /\ handles \in Seq(Handle)
      <3>1. ToSet(f) \subseteq S /\ ToSet(f) # {}
        BY <2>6, <2>8, <2>9
      <3> HIDE DEF owners
      <3> QED BY <2>6, <2>7, <3>1
    <2> HIDE DEF handles
    <2>11. handles # <<>> /\ Head(handles) = handles[1] /\ 1 \in DOMAIN handles
      BY <2>10 DEF ToSet
    <2> QED BY <2>1, <2>10, <2>11 DEF ToSet
  <1> QED BY <1>11, <1>12

\* The rest of a closed set is closed.
LEMMA RestIsClosed ==
    ASSUME NEW S \in ClosedUnderSharing
    PROVE  Handle \ S \in ClosedUnderSharing
  <1>1. \A h, k \in Handle : SharesWallet(h, k) => SharesWallet(k, h)
    BY DEF SharesWallet
  <1> QED BY <1>1 DEF ClosedUnderSharing

\* Two traders with one key are one actor: a closed set that tells them apart, and
\* its rest, would both have the key.
LEMMA SameKeyOneActor ==
    ASSUME TraderInv, NEW h \in Handle, NEW k \in Handle, CohortOf(h) = CohortOf(k)
    PROVE  OneActor(h, k)
  <1> SUFFICES ASSUME NEW S \in ClosedUnderSharing, h \in S, k \notin S PROVE FALSE
    BY DEF OneActor
  <1>1. CohortOf(h) \in S
    BY CohortIsKin
  <1>2. CohortOf(k) \in Handle \ S
    <2>1. PICK R \in ClosedUnderSharing : R = Handle \ S
      BY RestIsClosed
    <2>2. CohortOf(k) \in R
      BY <2>1, CohortIsKin
    <2> QED BY <2>1, <2>2
  <1> QED BY <1>1, <1>2

LEMMA TradersInvCurrent == TraderInv => TradersAreCurrent
  <1> SUFFICES ASSUME TraderInv PROVE TradersAreCurrent
    OBVIOUS
  <1>1. StrictIsCurrent
    <2> SUFFICES ASSUME NEW h \in Handle
                 PROVE  /\ Strict(h) => \A w \in Window : listed[h][w] \in 0..(FreshFor[w] + BoardTtl)
                        /\ (\A w \in Window : listed[h][w] \in 0..FreshFor[w]) => Strict(h)
      BY DEF StrictIsCurrent
    <2>1. ASSUME NEW w \in Window
          PROVE  /\ rows[h][w].age \in Int /\ listed[h][w] \in (-1)..MaxAge /\ FreshFor[w] \in Nat /\ rows[h][w].age >= -1
                 /\ listed[h][w] = -1 <=> rows[h][w].age = -1
                 /\ rows[h][w].age <= listed[h][w] /\ listed[h][w] <= rows[h][w].age + BoardTtl
      <3>1. rows[h][w] \in KeptRow
        BY DEF TraderInv, Consistent, Memory, Knowledge
      <3>2. FreshFor[w] \in Nat
        BY TraderAssumption
      <3>3. rows[h][w].age \in (-1)..MaxAge
        BY <3>1 DEF KeptRow
      <3> QED BY <3>2, <3>3 DEF TraderInv, RowsAreDated
    <2>2. ASSUME NEW w \in Window
          PROVE  /\ IsFresh(h, w) => listed[h][w] \in 0..(FreshFor[w] + BoardTtl)
                 /\ listed[h][w] \in 0..FreshFor[w] => IsFresh(h, w)
      BY <2>1, BoundFacts DEF IsFresh, HasRow
    <2> QED BY <2>2 DEF Strict
  <1>2. CohortsKeepActorsApart
    <2> DEFINE cohort == [h \in PersistentTraders |-> CohortOf(h)]
               cohorts == {{h \in PersistentTraders : cohort[h] = c} : c \in Range(cohort)}
    <2>1. WalletNativeCohorts \in {{}, cohorts}
      BY DEF WalletNativeCohorts
    <2>2. PersistentTraders \subseteq Handle
      BY DEF PersistentTraders
    <2>3. ASSUME NEW g \in cohorts, NEW h \in g, NEW k \in g PROVE OneActor(h, k)
      <3>1. CohortOf(h) = CohortOf(k) /\ h \in Handle /\ k \in Handle
        <4> HIDE DEF CohortOf, PersistentTraders
        <4> QED BY <2>2, <2>3
      <3> QED BY <3>1, SameKeyOneActor
    <2>4. UNION cohorts = PersistentTraders
      <3>1. \A h \in PersistentTraders : cohort[h] \in Range(cohort)
        BY DEF Range
      <3> HIDE DEF cohort
      <3> QED BY <3>1
    <2> HIDE DEF cohorts
    <2> QED BY <2>1, <2>3, <2>4 DEF CohortsKeepActorsApart
  <1> QED BY <1>1, <1>2 DEF TradersAreCurrent

\* The strict board shows traders the boards list, and a cohort mixes no two
\* actors, whatever the boards answer and however often they are read:
\* TradersAreCurrent (trader-persistence.ts:103-107, :137-141, :339-344).
THEOREM TradersStayCurrent == TraderSpec => []TradersAreCurrent
  BY TraderSafe, TradersInvCurrent, PTL


-----------------------------------------------------------------------------
(* Worse evidence                                                          *)

LEMMA EvidenceFields ==
    ASSUME NEW e, EvidenceTyped(e)
    PROVE  /\ {e.bundler, e.rats, e.dev, e.top10, e.rug, e.coinstats} \subseteq Nat
           /\ {e.liq, e.holders, e.visits, e.square, e.bought, e.sold, e.closes} \subseteq Nat
           /\ {e.wash, e.closed, e.mint, e.freeze, e.slips, e.pinned, e.roundTrip, e.evm} \subseteq BOOLEAN
           /\ e.age \in Nat \cup {None}
  <1>1. \A f \in Rate \cup Crowd \cup Trade : e[f] \in Nat
    BY DEF EvidenceTyped
  <1>2. \A f \in Alarm \cup Comfort \cup {"evm"} : e[f] \in BOOLEAN
    BY DEF EvidenceTyped
  <1>3. e.age \in Nat \cup {None}
    BY DEF EvidenceTyped
  <1> QED
    BY <1>1, <1>2, <1>3 DEF Rate, Crowd, Trade, Alarm, Comfort

LEMMA WorseFields ==
    ASSUME NEW d, NEW e, WorseEvidence(d, e)
    PROVE  /\ e.bundler >= d.bundler /\ e.rats >= d.rats /\ e.dev >= d.dev
           /\ e.top10 >= d.top10 /\ e.rug >= d.rug /\ e.coinstats >= d.coinstats
           /\ (d.wash => e.wash) /\ (d.closed => e.closed) /\ (d.mint => e.mint)
           /\ (d.freeze => e.freeze) /\ (d.slips => e.slips)
           /\ (e.pinned => d.pinned) /\ (e.roundTrip => d.roundTrip)
           /\ e.visits <= d.visits /\ e.square <= d.square
           /\ e.liq \in {d.liq} \cup 1..d.liq /\ e.holders \in {d.holders} \cup 1..d.holders
           /\ e.age \in {d.age} \cup (IF d.age = None THEN Nat ELSE 0..d.age)
           /\ e.code \in {d.code, "denied"} /\ e.rpcCode \in {d.rpcCode, "denied"}
           /\ e.deployer \in {d.deployer, "rugged"}
           /\ e.bought = d.bought /\ e.sold = d.sold /\ e.closes = d.closes /\ e.evm = d.evm
           /\ e.wallet = d.wallet /\ e.buys = d.buys /\ e.gmgn = d.gmgn /\ e.pools = d.pools
           /\ e.candles = d.candles /\ e.social = d.social /\ e.critic = d.critic /\ e.rubric = d.rubric
  <1>1. /\ \A f \in Rate : e[f] >= d[f]
        /\ \A f \in Alarm : d[f] => e[f]
        /\ \A f \in Comfort : e[f] => d[f]
        /\ \A f \in {"visits", "square"} : e[f] <= d[f]
        /\ \A f \in {"liq", "holders"} : e[f] \in {d[f]} \cup 1..d[f]
        /\ \A f \in {"code", "rpcCode"} : e[f] \in {d[f], "denied"}
    BY DEF WorseEvidence
  <1>2. \A f \in Trade \cup {"evm", "wallet", "buys", "gmgn", "pools", "candles", "social", "critic", "rubric"} :
          e[f] = d[f]
    BY DEF WorseEvidence
  <1>3. /\ e.age \in {d.age} \cup (IF d.age = None THEN Nat ELSE 0..d.age)
        /\ e.deployer \in {d.deployer, "rugged"}
    BY DEF WorseEvidence
  <1> QED
    BY <1>1, <1>2, <1>3 DEF Rate, Trade, Alarm, Comfort

\* Rounded quotients keep their order.
LEMMA RoundDivOrder ==
    ASSUME NEW a \in Int, NEW b \in Int, NEW n \in Nat \ {0}, a <= b
    PROVE  RoundDiv(a, n) \in Int /\ RoundDiv(a, n) <= RoundDiv(b, n)
  <1> DEFINE x == (2 * a + n) \div (2 * n)
             y == (2 * b + n) \div (2 * n)
  <1>1. x \in Int /\ y \in Int /\ x * (2 * n) <= 2 * a + n /\ 2 * b + n < (y + 1) * (2 * n)
    OBVIOUS
  <1>2. ~(x > y)
    <2> SUFFICES ASSUME x >= y + 1 PROVE FALSE
      BY <1>1
    <2> HIDE DEF x, y
    <2>1. x * (2 * n) >= (y + 1) * (2 * n)
      BY <1>1
    <2> QED BY <1>1, <2>1
  <1> QED BY <1>1, <1>2 DEF RoundDiv

\* The bot risk is a score, and worse evidence does not lower it.
LEMMA BotRiskOrder ==
    ASSUME NEW d, NEW e, EvidenceTyped(d), EvidenceTyped(e), WorseEvidence(d, e)
    PROVE  /\ BotRisk(d) \in 0..100 /\ BotRisk(e) \in 0..100
           /\ BotRisk(d) <= BotRisk(e)
  <1> DEFINE points(s) == At(s.bundle, 30) + At(s.sniper, 25) + At(s.gradual, 15) + At(s.wash, 15)
                          + At(s.concentration, 10) + At(s.dev, 5)
             ratios(x) == x.bundler + x.top10 + x.rats
             total(x) == 5 * points(BotSignals(x)) + (IF ratios(x) > 150 THEN 150 ELSE ratios(x))
             sd == BotSignals(d)
             se == BotSignals(e)
  <1>1. /\ {d.bundler, d.top10, d.rats, d.dev} \subseteq Nat /\ {e.bundler, e.top10, e.rats, e.dev} \subseteq Nat
        /\ d.wash \in BOOLEAN /\ e.wash \in BOOLEAN
        /\ d.age \in Nat \cup {None} /\ e.age \in Nat \cup {None}
    BY EvidenceFields
  <1>2. /\ e.bundler >= d.bundler /\ e.rats >= d.rats /\ e.dev >= d.dev /\ e.top10 >= d.top10
        /\ (d.wash => e.wash)
        /\ e.age \in {d.age} \cup (IF d.age = None THEN Nat ELSE 0..d.age)
    BY WorseFields
  <1>3. /\ (sd.bundle => se.bundle) /\ (sd.sniper => se.sniper) /\ (sd.gradual => se.gradual)
        /\ (sd.wash => se.wash) /\ (sd.concentration => se.concentration) /\ (sd.dev => se.dev)
    BY <1>1, <1>2 DEF BotSignals, None
  <1> HIDE DEF sd, se
  <1>4. points(sd) \in Int /\ points(se) \in Int /\ points(sd) <= points(se)
    BY <1>3 DEF At
  <1>5. ratios(d) \in Int /\ ratios(e) \in Int /\ ratios(d) <= ratios(e)
    BY <1>1, <1>2
  <1>6. total(d) \in Int /\ total(e) \in Int /\ total(d) <= total(e)
    BY <1>4, <1>5 DEF sd, se
  <1> HIDE DEF total
  <1>7. /\ RoundDiv(total(d), 5) \in Int /\ RoundDiv(total(e), 5) \in Int
        /\ RoundDiv(total(d), 5) <= RoundDiv(total(e), 5)
    BY <1>6, RoundDivOrder
  <1>8. BotRisk(d) = Clamp100(RoundDiv(total(d), 5)) /\ BotRisk(e) = Clamp100(RoundDiv(total(e), 5))
    BY DEF BotRisk, total
  <1> QED
    BY <1>7, <1>8 DEF Clamp100

\* Nor does it shorten the list of penalties; a bot risk of 40 is one of them.
LEMMA PenaltiesOrder ==
    ASSUME NEW d, NEW e, EvidenceTyped(d), EvidenceTyped(e), WorseEvidence(d, e)
    PROVE  /\ Penalties(d) \in Nat /\ Penalties(e) \in Nat
           /\ Penalties(d) <= Penalties(e)
           /\ BotRisk(e) >= 40 /\ BotRisk(d) < 40 => Penalties(d) < Penalties(e)
           /\ BotRisk(e) >= 40 => Penalties(e) >= 1
  <1>1. /\ BotRisk(d) \in 0..100 /\ BotRisk(e) \in 0..100 /\ BotRisk(d) <= BotRisk(e)
    BY BotRiskOrder
  <1>2. /\ {d.rug, d.top10, d.bundler, d.coinstats, d.liq, d.holders, d.visits, d.square} \subseteq Nat
        /\ {e.rug, e.top10, e.bundler, e.coinstats, e.liq, e.holders, e.visits, e.square} \subseteq Nat
        /\ d.age \in Nat \cup {None} /\ e.age \in Nat \cup {None}
        /\ {d.closed, d.evm, d.pinned, d.roundTrip, d.slips} \subseteq BOOLEAN
        /\ {e.closed, e.evm, e.pinned, e.roundTrip, e.slips} \subseteq BOOLEAN
    BY EvidenceFields
  <1>3. /\ e.rug >= d.rug /\ e.top10 >= d.top10 /\ e.bundler >= d.bundler /\ e.coinstats >= d.coinstats
        /\ (d.closed => e.closed) /\ (d.slips => e.slips)
        /\ (e.pinned => d.pinned) /\ (e.roundTrip => d.roundTrip)
        /\ e.visits <= d.visits /\ e.square <= d.square
        /\ e.liq \in {d.liq} \cup 1..d.liq /\ e.holders \in {d.holders} \cup 1..d.holders
        /\ e.age \in {d.age} \cup (IF d.age = None THEN Nat ELSE 0..d.age)
        /\ e.code \in {d.code, "denied"} /\ e.rpcCode \in {d.rpcCode, "denied"}
        /\ e.evm = d.evm
    BY WorseFields
  <1>4. /\ RugPenalties(d) \in Nat /\ RugPenalties(e) \in Nat
        /\ RugPenalties(d) <= RugPenalties(e)
    <2>1. CASE d.age = None \/ d.age > 30
      <3>1. RugPenalties(d) = 0
        BY <2>1 DEF RugPenalties
      <3>2. RugPenalties(e) \in Nat
        BY DEF RugPenalties, At
      <3> QED BY <3>1, <3>2
    <2>2. CASE ~(d.age = None \/ d.age > 30)
      <3>1. ~(e.age = None \/ e.age > 30)
        BY <1>2, <1>3, <2>2 DEF None
      <3>2. /\ (d.liq > 0 /\ d.liq < 25 => e.liq > 0 /\ e.liq < 25)
            /\ (d.holders > 0 /\ d.holders < 200 => e.holders > 0 /\ e.holders < 200)
            /\ (d.visits + 10 * d.square < 15 => e.visits + 10 * e.square < 15)
        BY <1>2, <1>3
      <3> QED BY <2>2, <3>1, <3>2 DEF RugPenalties, At
    <2> QED BY <2>1, <2>2
  <1>5. /\ CodeFindings(d) \in Nat /\ CodeFindings(e) \in Nat
        /\ CodeFindings(d) <= CodeFindings(e)
    BY <1>3 DEF CodeFindings, At
  <1>6. (Sellable(e) => Sellable(d)) /\ (Fooled(d) => Fooled(e))
    BY <1>2, <1>3 DEF Sellable, Fooled
  <1>7. (d.rug > 15 => e.rug > 15) /\ (d.top10 > 30 => e.top10 > 30)
    BY <1>2, <1>3
  <1> DEFINE c(x) == IF x.evm THEN x.coinstats ELSE 0
  <1>8. c(d) \in Nat /\ c(e) \in Nat /\ c(d) <= c(e)
    BY <1>2, <1>3
  <1>9. /\ Penalties(d) = At(d.rug > 15, 1) + At(d.top10 > 30, 1) + At(d.closed, 1) + At(BotRisk(d) >= 40, 1)
                          + RugPenalties(d) + c(d) + CodeFindings(d) + At(~Sellable(d), 1) + At(Fooled(d), 1)
        /\ Penalties(e) = At(e.rug > 15, 1) + At(e.top10 > 30, 1) + At(e.closed, 1) + At(BotRisk(e) >= 40, 1)
                          + RugPenalties(e) + c(e) + CodeFindings(e) + At(~Sellable(e), 1) + At(Fooled(e), 1)
    BY DEF Penalties
  <1> HIDE DEF c
  <1> QED
    BY <1>1, <1>3, <1>4, <1>5, <1>6, <1>7, <1>8, <1>9 DEF At

LEMMA AegisOrder ==
    ASSUME NEW d, NEW e, EvidenceTyped(d), EvidenceTyped(e), WorseEvidence(d, e)
    PROVE  /\ Aegis(d) \in 0..100 /\ Aegis(e) \in 0..100
           /\ Aegis(e) <= Aegis(d)
  <1>1. /\ {d.top10, d.bundler} \subseteq Nat /\ {e.top10, e.bundler} \subseteq Nat
    BY EvidenceFields
  <1>2. /\ e.top10 >= d.top10 /\ e.bundler >= d.bundler
        /\ (d.closed => e.closed) /\ (d.mint => e.mint) /\ (d.freeze => e.freeze)
        /\ e.deployer \in {d.deployer, "rugged"}
    BY WorseFields
  <1>3. /\ (d.top10 > 20 => e.top10 > 20) /\ (d.bundler >= 30 => e.bundler >= 30)
    BY <1>1, <1>2
  <1> QED
    BY <1>2, <1>3 DEF Aegis, Clamp100, At

\* The security slot does not rise; and where the bot risk crosses the mark at
\* which it is heard in the flow too, it falls by ten at least, to 70 at most.
LEMMA SecurityOrder ==
    ASSUME NEW d, NEW e, EvidenceTyped(d), EvidenceTyped(e), WorseEvidence(d, e)
    PROVE  /\ SecurityOpinion(d) \in 0..100 /\ SecurityOpinion(e) \in 0..100
           /\ SecurityOpinion(e) <= SecurityOpinion(d)
           /\ BotRisk(e) >= 60 => SecurityOpinion(e) <= 70
           /\ BotRisk(e) >= 60 /\ BotRisk(d) < 60 /\ SecurityOpinion(e) = 70 => SecurityOpinion(d) >= 80
           /\ SecurityOpinion(e) > 0 /\ e.deployer # "absent" =>
                e.deployer # "rugged" /\ e.deployer = d.deployer /\ Aegis(e) >= 60
  <1>1. /\ BotRisk(d) \in 0..100 /\ BotRisk(e) \in 0..100 /\ BotRisk(d) <= BotRisk(e)
    BY BotRiskOrder
  <1>2. /\ Penalties(d) \in Nat /\ Penalties(e) \in Nat
        /\ Penalties(d) <= Penalties(e)
        /\ BotRisk(e) >= 40 => Penalties(e) >= 1
    BY PenaltiesOrder
  <1>3. /\ Aegis(d) \in 0..100 /\ Aegis(e) \in 0..100 /\ Aegis(e) <= Aegis(d)
    BY AegisOrder
  <1>4. e.deployer \in {d.deployer, "rugged"}
    BY WorseFields
  <1> DEFINE vote(x) == SecurityVote(TRUE, Penalties(x), BotRisk(x))
  <1>5. /\ vote(d) \in 0..100 /\ vote(e) \in 0..100
        /\ vote(e) <= vote(d)
        /\ BotRisk(e) >= 60 => vote(e) <= 70
        /\ BotRisk(e) >= 60 /\ BotRisk(d) < 60 /\ vote(e) = 70 => vote(d) >= 80
    BY <1>1, <1>2 DEF SecurityVote
  <1> DEFINE nought(x) == x.deployer # "absent" /\ (x.deployer = "rugged" \/ Aegis(x) < 60)
  <1>6. /\ SecurityOpinion(d) = (IF nought(d) THEN 0 ELSE vote(d))
        /\ SecurityOpinion(e) = (IF nought(e) THEN 0 ELSE vote(e))
    BY DEF SecurityOpinion
  <1>7. nought(d) => nought(e)
    BY <1>3, <1>4
  <1> HIDE DEF vote
  <1> QED
    BY <1>3, <1>4, <1>5, <1>6, <1>7

\* A rounded quotient of a natural number is one.
LEMMA RoundDivNatural == ASSUME NEW a \in Int, NEW n \in Nat \ {0} PROVE RoundDiv(a, n) \in Int /\ (a >= 0 => RoundDiv(a, n) \in Nat)
  <1>1. 2 * a + n \in Int /\ 2 * n \in Nat \ {0}
    OBVIOUS
  <1>2. (2 * a + n) \div (2 * n) \in Int
    BY <1>1
  <1>3. a >= 0 => RoundDiv(a, n) \in Nat
    BY RoundDivNat
  <1> QED BY <1>2, <1>3 DEF RoundDiv

\* What is opined is a score or an abstention.
Opinion == Nat \cup {None}

LEMMA WhaleOrder ==
    ASSUME NEW d, NEW e, EvidenceTyped(d), EvidenceTyped(e), WorseEvidence(d, e)
    PROVE  /\ WhaleVote(d) \in Opinion /\ WhaleVote(e) \in Opinion
           /\ \/ WhaleVote(d) = None /\ WhaleVote(e) = None
              \/ WhaleVote(d) = None /\ WhaleVote(e) = 40 /\ BotRisk(d) < 60 /\ BotRisk(e) >= 60
              \/ WhaleVote(d) # None /\ WhaleVote(e) # None /\ WhaleVote(e) <= WhaleVote(d)
  <1>1. /\ BotRisk(d) \in 0..100 /\ BotRisk(e) \in 0..100 /\ BotRisk(d) <= BotRisk(e)
    BY BotRiskOrder
  <1>2. /\ {d.bought, d.sold, d.closes} \subseteq Nat
        /\ e.bought = d.bought /\ e.sold = d.sold /\ e.closes = d.closes
    BY EvidenceFields, WorseFields
  <1> DEFINE total == d.bought + d.sold
             raw == RoundDiv(50 * total + 40 * (d.bought - d.sold), total) - At(d.closes > 0, 10)
             cap(r) == IF r >= 60 THEN 40 ELSE IF r >= 40 THEN 55 ELSE 100
             score == Clamp100(raw)
             vote(r) == IF total = 0 THEN (IF r >= 60 THEN 40 ELSE None)
                        ELSE IF score < cap(r) THEN score ELSE cap(r)
  <1>3. WhaleVote(d) = vote(BotRisk(d)) /\ WhaleVote(e) = vote(BotRisk(e))
    BY <1>2 DEF WhaleVote
  <1>4. CASE total = 0
    BY <1>1, <1>3, <1>4 DEF None, Opinion
  <1>5. CASE total # 0
    <2>1. total \in Nat \ {0} /\ 50 * total + 40 * (d.bought - d.sold) \in Int
      BY <1>2, <1>5
    <2> HIDE DEF total
    <2>2. RoundDiv(50 * total + 40 * (d.bought - d.sold), total) \in Int
      BY <2>1, RoundDivNatural
    <2>3. score \in 0..100
      BY <2>2 DEF Clamp100, At
    <2> HIDE DEF score
    <2> QED
      BY <1>1, <1>3, <1>5, <2>3 DEF None, Opinion
  <1> QED BY <1>4, <1>5

LEMMA BlendOrder ==
    ASSUME NEW w \in 0..100, NEW p \in 0..100, NEW q \in 0..100, p <= q
    PROVE  /\ RoundDiv(6 * w + 4 * p, 10) \in Nat /\ RoundDiv(6 * w + 4 * q, 10) \in Nat
           /\ RoundDiv(6 * w + 4 * p, 10) <= RoundDiv(6 * w + 4 * q, 10)
  <1>1. 6 * w + 4 * p \in Nat /\ 6 * w + 4 * q \in Nat /\ 6 * w + 4 * p <= 6 * w + 4 * q
    OBVIOUS
  <1> QED BY <1>1, RoundDivNat, RoundDivOrder

LEMMA WalletScoreType ==
    ASSUME NEW m, {m.net, m.top10, m.makers, m.bundler} \subseteq Nat \cup {None}
    PROVE  WalletScore(m) \in 0..100
  <1> DEFINE net == IF m.net = None THEN 0 ELSE RoundDiv(2 * m.net, 5) - 20
  <1>1. net \in Int
    <2>1. m.net # None => RoundDiv(2 * m.net, 5) \in Int
      BY RoundDivNatural
    <2> QED BY <2>1
  <1> HIDE DEF net
  <1>2. 50 + net
             + (IF m.top10 = None THEN 0 ELSE IF m.top10 > 70 THEN -15 ELSE At(m.top10 < 20, 5))
             + (IF m.makers >= 5 THEN 10 ELSE IF m.makers = 0 THEN -5 ELSE 0)
             - At(m.bundler > 25, 20) \in Int
    BY <1>1 DEF At
  <1>3. \A x \in Int : Clamp100(x) \in 0..100
    BY ClampBounds
  <1>4. WalletScore(m) = Clamp100(50 + net
             + (IF m.top10 = None THEN 0 ELSE IF m.top10 > 70 THEN -15 ELSE At(m.top10 < 20, 5))
             + (IF m.makers >= 5 THEN 10 ELSE IF m.makers = 0 THEN -5 ELSE 0)
             - At(m.bundler > 25, 20))
    BY DEF WalletScore, net
  <1> QED BY <1>2, <1>3, <1>4

LEMMA WalletType == ASSUME NEW e, EvidenceTyped(e) PROVE WalletVote(e) \in Opinion
  <1> DEFINE m == CHOOSE x \in e.wallet : TRUE
  <1>1. CASE e.wallet = {}
    BY <1>1 DEF WalletVote, Opinion, None
  <1>2. CASE e.wallet # {}
    <2>1. m \in e.wallet
      BY <1>2
    <2>2. {m.net, m.top10, m.makers, m.bundler} \subseteq Nat \cup {None}
      BY <2>1 DEF EvidenceTyped
    <2>3. WalletScore(m) \in 0..100 /\ Aegis(e) \in 0..100
      <3>1. Aegis(e) \in 0..100
        BY DEF Aegis, Clamp100, At
      <3> QED BY <2>2, <3>1, WalletScoreType
    <2>4. WalletVote(e) \in {50, WalletScore(m), RoundDiv(6 * WalletScore(m) + 4 * Aegis(e), 10)}
      BY <1>2 DEF WalletVote
    <2> HIDE DEF m
    <2>5. RoundDiv(6 * WalletScore(m) + 4 * Aegis(e), 10) \in Nat
      <3>1. \A a, b \in 0..100 : 6 * a + 4 * b \in Nat
        OBVIOUS
      <3>2. 6 * WalletScore(m) + 4 * Aegis(e) \in Nat
        BY <2>3, <3>1
      <3> QED BY <3>2, RoundDivNat
    <2> QED BY <2>3, <2>4, <2>5 DEF Opinion
  <1> QED BY <1>1, <1>2

\* The wallet vote is heard in the same cases, and as long as the security slot
\* is not at its floor no higher.
LEMMA WalletOrder ==
    ASSUME NEW d, NEW e, EvidenceTyped(d), EvidenceTyped(e), WorseEvidence(d, e), SecurityOpinion(e) > 0
    PROVE  /\ WalletVote(d) \in Opinion /\ WalletVote(e) \in Opinion
           /\ WalletVote(d) = None <=> WalletVote(e) = None
           /\ WalletVote(e) <= WalletVote(d)
  <1> DEFINE m == CHOOSE x \in d.wallet : TRUE
  <1>1. e.wallet = d.wallet
    BY WorseFields
  <1>2. /\ Aegis(d) \in 0..100 /\ Aegis(e) \in 0..100 /\ Aegis(e) <= Aegis(d)
    BY AegisOrder
  <1>3. /\ e.deployer \in {d.deployer, "rugged"}
        /\ e.deployer # "absent" => e.deployer # "rugged" /\ e.deployer = d.deployer /\ Aegis(e) >= 60
    BY SecurityOrder, WorseFields
  <1>4. e.deployer = d.deployer
    BY <1>3
  <1>5. CASE d.wallet = {}
    BY <1>1, <1>5 DEF WalletVote, Opinion, None
  <1>6. CASE d.wallet # {}
    <2>1. m \in d.wallet
      BY <1>6
    <2>2. {m.net, m.top10, m.makers, m.bundler} \subseteq Nat \cup {None}
      BY <2>1 DEF EvidenceTyped
    <2>3. WalletScore(m) \in 0..100
      BY <2>2, WalletScoreType
    <2>4. /\ WalletVote(d) = (IF WalletDegraded(m) \/ (d.deployer # "absent" /\ (Aegis(d) < 60 \/ d.deployer = "rugged")) THEN 50
                              ELSE IF d.deployer # "absent" THEN RoundDiv(6 * WalletScore(m) + 4 * Aegis(d), 10)
                              ELSE WalletScore(m))
          /\ WalletVote(e) = (IF WalletDegraded(m) \/ (e.deployer # "absent" /\ (Aegis(e) < 60 \/ e.deployer = "rugged")) THEN 50
                              ELSE IF e.deployer # "absent" THEN RoundDiv(6 * WalletScore(m) + 4 * Aegis(e), 10)
                              ELSE WalletScore(m))
      BY <1>1, <1>6 DEF WalletVote
    <2> HIDE DEF m
    <2>5. /\ RoundDiv(6 * WalletScore(m) + 4 * Aegis(e), 10) \in Nat
          /\ RoundDiv(6 * WalletScore(m) + 4 * Aegis(d), 10) \in Nat
          /\ RoundDiv(6 * WalletScore(m) + 4 * Aegis(e), 10) <= RoundDiv(6 * WalletScore(m) + 4 * Aegis(d), 10)
      BY <1>2, <2>3, BlendOrder
    <2>6. ~(d.deployer # "absent" /\ (Aegis(d) < 60 \/ d.deployer = "rugged"))
      BY <1>2, <1>3, <1>4
    <2>7. ~(e.deployer # "absent" /\ (Aegis(e) < 60 \/ e.deployer = "rugged"))
      BY <1>2, <1>3
    <2> QED
      BY <1>4, <2>3, <2>4, <2>5, <2>6, <2>7 DEF Opinion, None
  <1> QED BY <1>5, <1>6

LEMMA ConvergenceType ==
    ASSUME NEW buys, IsFiniteSet(buys), \A b \in buys : b.usd \in Nat
    PROVE  ConvergenceVote(buys) \in Opinion
  <1> DEFINE makers == {b \in buys : b.usd > 0}
             total == MapThenSumSet(LAMBDA b : b.usd, makers)
             share(n, full) == IF n >= full THEN 1000 ELSE (1000 * n) \div full
             sum == 90 * (6 * share(Cardinality(makers), 8) + 4 * share(total, 50))
  <1>1. IsFiniteSet(makers) /\ Cardinality(makers) \in Nat
    BY FS_Subset, FS_CardinalityType
  <1>2. total \in Nat
    BY <1>1, ExposureIsNat DEF Exposure
  <1> HIDE DEF total
  <1>3. share(Cardinality(makers), 8) \in Nat /\ share(total, 50) \in Nat
    BY <1>1, <1>2
  <1>4. sum \in Nat
    BY <1>3
  <1>5. RoundDiv(sum, 10000) \in Nat
    BY <1>4, RoundDivNat
  <1>6. ConvergenceVote(buys) \in {None, 50, RoundDiv(sum, 10000)}
    BY DEF ConvergenceVote, total
  <1> QED BY <1>5, <1>6 DEF Opinion

\* The other slots do not depend on what got worse.
LEMMA MomentumType ==
    ASSUME NEW e, EvidenceTyped(e), NEW quant \in Nat
    PROVE  Pick(quant, MlVote(Klines(e.gmgn, e.pools, e.candles)), None) \in Nat
  <1> DEFINE candles == Klines(e.gmgn, e.pools, e.candles)
             ml == MlVote(candles)
  <1>1. candles \subseteq e.gmgn \cup e.candles
    BY DEF Klines
  <1>2. \A k \in candles : {k.closes, k.score} \subseteq Nat
    BY <1>1 DEF EvidenceTyped
  <1> HIDE DEF candles
  <1>3. ml \in Opinion
    BY <1>2 DEF MlVote, Opinion
  <1> HIDE DEF ml
  <1>4. RoundDiv(quant, 1) \in Nat /\ (ml # None => RoundDiv(quant + ml, 2) \in Nat)
    BY <1>3, RoundDivNat DEF Opinion
  <1>5. quant # None
    BY DEF None
  <1> QED
    BY <1>3, <1>4, <1>5 DEF Pick, At, Opinion, ml, candles

LEMMA CriticType ==
    ASSUME NEW e, EvidenceTyped(e)
    PROVE  Pick(CriticVote(e.critic), RubricVote(e.rubric), None) \in Opinion
  <1> DEFINE a == CriticVote(e.critic)
             b == RubricVote(e.rubric)
  <1>1. a \in Opinion
    BY DEF CriticVote, EvidenceTyped, Opinion, Clamp100
  <1>2. b \in Opinion
    <2> DEFINE f == CHOOSE x \in e.rubric : TRUE
               part(v, w) == IF v = None THEN 0 ELSE w * v
               sum == part(f.concentration, 3) + part(f.liquidity, 3) + part(f.spike, 2) + part(f.volatility, 2)
    <2>1. CASE e.rubric = {}
      BY <2>1 DEF RubricVote, Opinion
    <2>2. CASE e.rubric # {}
      <3>1. f \in e.rubric
        BY <2>2
      <3>2. {f.concentration, f.liquidity, f.spike, f.volatility} \subseteq Nat \cup {None}
        BY <3>1 DEF EvidenceTyped
      <3>3. b \in {None, RoundDiv(sum, 10)}
        BY <2>2 DEF RubricVote
      <3> HIDE DEF f, b
      <3>4. sum \in Nat
        BY <3>2
      <3> QED BY <3>3, <3>4, RoundDivNat DEF Opinion, b
    <2> QED BY <2>1, <2>2
  <1> HIDE DEF a, b
  <1>3. /\ a # None => RoundDiv(a, 1) \in Nat
        /\ b # None => RoundDiv(b, 1) \in Nat
        /\ a # None /\ b # None => RoundDiv(a + b, 2) \in Nat
    BY <1>1, <1>2, RoundDivNat DEF Opinion
  <1>4. Pick(a, b, None) \in Opinion
    BY <1>1, <1>2, <1>3 DEF Pick, At, Opinion
  <1> QED BY <1>4 DEF a, b

LEMMA SentimentType ==
    ASSUME NEW s, {s.visits, s.square, s.mentions, s.paid} \subseteq Nat, {s.farm, s.flow} \subseteq BOOLEAN
    PROVE  SentimentVote(s) \in Opinion
  <1> DEFINE capped(n, m) == IF n > m THEN m ELSE n
             organic == 50 + capped(RoundDiv(s.visits, 50), 15) + capped(2 * s.square, 10)
                           - At(s.farm, 10) + capped(3 * s.mentions, 15)
             scored == capped(organic + At(s.paid > 0, 5), 100)
             fooled == IF scored - 20 < 30 THEN 30 ELSE scored - 20
  <1>1. RoundDiv(s.visits, 50) \in Nat
    BY RoundDivNat
  <1>2. scored \in Int
    BY <1>1 DEF At
  <1>3. SentimentVote(s) \in {None, Clamp100(fooled - 30), Clamp100(scored)}
    BY DEF SentimentVote
  <1> HIDE DEF scored
  <1>4. Clamp100(fooled - 30) \in 0..100 /\ Clamp100(scored) \in 0..100
    BY <1>2, ClampBounds
  <1> QED BY <1>3, <1>4 DEF Opinion

-----------------------------------------------------------------------------
(* The mean of the flow                                                    *)

LEMMA PickType ==
    ASSUME NEW a \in Opinion, NEW b \in Opinion, NEW c \in Opinion
    PROVE  Pick(a, b, c) \in Opinion
  <1> DEFINE n == At(a # None, 1) + At(b # None, 1) + At(c # None, 1)
             t == At(a # None, a) + At(b # None, b) + At(c # None, c)
  <1>1. n \in 0..3 /\ t \in Nat
    BY DEF At, Opinion
  <1>2. Pick(a, b, c) = IF n = 0 THEN None ELSE RoundDiv(t, n)
    BY DEF Pick
  <1> HIDE DEF n, t
  <1>3. n # 0 => RoundDiv(t, n) \in Nat
    BY <1>1, RoundDivNat
  <1> QED BY <1>2, <1>3 DEF Opinion

\* Against the same company, no lower opinion makes the mean lower; an opinion
\* of 40 that speaks up raises a mean only if it was below, by half the way, to 34 or by 6 at most.
LEMMA PickOrder ==
    ASSUME NEW a \in Opinion, NEW x \in Opinion, NEW b \in Opinion, NEW y \in Opinion, NEW c \in Opinion,
           b = None <=> y = None, y <= b
    PROVE  /\ Pick(a, b, c) \in Opinion /\ Pick(x, y, c) \in Opinion
           /\ (a = None <=> x = None) /\ x <= a =>
                (Pick(a, b, c) = None <=> Pick(x, y, c) = None) /\ Pick(x, y, c) <= Pick(a, b, c)
           /\ a = None /\ x = 40 =>
                \/ Pick(a, b, c) = None /\ Pick(x, y, c) = 40
                \/ /\ Pick(a, b, c) # None /\ Pick(x, y, c) # None
                   /\ \/ Pick(x, y, c) <= Pick(a, b, c)
                      \/ Pick(x, y, c) <= 34
                      \/ Pick(x, y, c) <= 40 /\ Pick(x, y, c) <= Pick(a, b, c) + 6
  <1> USE DEF Opinion, None
  <1> DEFINE n(p, q, r) == At(p # None, 1) + At(q # None, 1) + At(r # None, 1)
             t(p, q, r) == At(p # None, p) + At(q # None, q) + At(r # None, r)
  <1>1. \A p, q, r \in Nat \cup {None} : n(p, q, r) \in 0..3 /\ t(p, q, r) \in Nat
    BY DEF At
  <1>n. /\ n(a, b, c) \in 0..3 /\ n(x, y, c) \in 0..3
        /\ t(a, b, c) \in Nat /\ t(x, y, c) \in Nat
    BY <1>1
  <1>p. /\ Pick(a, b, c) = IF n(a, b, c) = 0 THEN None ELSE RoundDiv(t(a, b, c), n(a, b, c))
        /\ Pick(x, y, c) = IF n(x, y, c) = 0 THEN None ELSE RoundDiv(t(x, y, c), n(x, y, c))
    BY DEF Pick
  <1>4. Pick(a, b, c) \in Nat \cup {None} /\ Pick(x, y, c) \in Nat \cup {None}
    <2> HIDE DEF n, t
    <2>1. /\ n(a, b, c) # 0 => RoundDiv(t(a, b, c), n(a, b, c)) \in Nat
          /\ n(x, y, c) # 0 => RoundDiv(t(x, y, c), n(x, y, c)) \in Nat
      BY <1>n, RoundDivNat
    <2> QED BY <1>p, <2>1
  <1>5. ASSUME a = None <=> x = None, x <= a
        PROVE  (Pick(a, b, c) = None <=> Pick(x, y, c) = None) /\ Pick(x, y, c) <= Pick(a, b, c)
    <2>1. n(a, b, c) = n(x, y, c) /\ t(x, y, c) <= t(a, b, c)
      BY <1>5 DEF At
    <2> HIDE DEF n, t
    <2>2. n(a, b, c) # 0 => RoundDiv(t(x, y, c), n(a, b, c)) <= RoundDiv(t(a, b, c), n(a, b, c))
      BY <1>n, <2>1, RoundDivOrder
    <2>3. CASE n(a, b, c) = 0
      BY <1>p, <2>1, <2>3
    <2>4. CASE n(a, b, c) # 0
      <3>1. /\ Pick(a, b, c) = RoundDiv(t(a, b, c), n(a, b, c)) /\ Pick(x, y, c) = RoundDiv(t(x, y, c), n(a, b, c))
        BY <1>p, <2>1, <2>4
      <3>2. Pick(a, b, c) \in Nat /\ Pick(x, y, c) \in Nat
        BY <1>n, <2>1, <2>4, <3>1, RoundDivNat
      <3> QED BY <2>2, <2>4, <3>1, <3>2
    <2> QED BY <2>3, <2>4
  <1>6. ASSUME a = None, x = 40
        PROVE  \/ Pick(a, b, c) = None /\ Pick(x, y, c) = 40
               \/ /\ Pick(a, b, c) # None /\ Pick(x, y, c) # None
                  /\ \/ Pick(x, y, c) <= Pick(a, b, c)
                     \/ Pick(x, y, c) <= 34
                     \/ Pick(x, y, c) <= 40 /\ Pick(x, y, c) <= Pick(a, b, c) + 6
    <2>1. CASE b = None /\ c = None
      BY <1>6, <2>1 DEF Pick, RoundDiv, At
    <2>2. CASE b # None /\ c = None
      <3>1. Pick(a, b, c) = (2 * b + 1) \div 2 /\ Pick(x, y, c) = (2 * (40 + y) + 2) \div 4
        BY <1>6, <2>2 DEF Pick, RoundDiv, At
      <3> QED BY <2>2, <3>1
    <2>3. CASE b = None /\ c # None
      <3>1. Pick(a, b, c) = (2 * c + 1) \div 2 /\ Pick(x, y, c) = (2 * (40 + c) + 2) \div 4
        BY <1>6, <2>3 DEF Pick, RoundDiv, At
      <3> QED BY <2>3, <3>1
    <2>4. CASE b # None /\ c # None
      <3>1. Pick(a, b, c) = (2 * (b + c) + 2) \div 4 /\ Pick(x, y, c) = (2 * (40 + y + c) + 3) \div 6
        BY <1>6, <2>4 DEF Pick, RoundDiv, At
      <3> QED BY <2>4, <3>1
    <2> QED BY <2>1, <2>2, <2>3, <2>4
  <1> QED BY <1>4, <1>5, <1>6

-----------------------------------------------------------------------------
(* The average                                                             *)

Weigh(s, w) == At(s # None, w * Clamp100(s))

\* What the slots other than flow weigh and bring, and the whole.
Company(s) == At(s.sentiment # None, 2100) + At(s.critic # None, 1400)
Others(s, l) == MomentumWeight(l) * Clamp100(s.momentum) + Weigh(s.sentiment, 2100) + Weigh(s.critic, 1400)

Weight(s, l) == MomentumWeight(l) + SecurityWeight(l) + Company(s) + At(s.flow # None, FlowWeight(l))
Points(s, l) == Others(s, l) + SecurityWeight(l) * Clamp100(s.security) + Weigh(s.flow, FlowWeight(l))

SlotsTyped(s) ==
    /\ {s.momentum, s.security} \subseteq Nat
    /\ {s.flow, s.sentiment, s.critic} \subseteq Opinion

LEMMA Scaled == ASSUME NEW a \in Nat, NEW b \in Int, NEW c \in Int, b <= c PROVE a * b \in Int /\ a * b <= a * c
  <1>1. a * (c - b) >= 0 /\ a * c = a * b + a * (c - b)
    OBVIOUS
  <1> QED BY <1>1

LEMMA WeighIs ==
    ASSUME NEW v \in Opinion, NEW w \in Nat
    PROVE  /\ Clamp100(v) * At(v # None, w) = Weigh(v, w)
           /\ Weigh(v, w) \in Nat /\ Weigh(v, w) <= 100 * At(v # None, w)
  <1>1. Clamp100(v) \in 0..100
    BY ClampBounds DEF Opinion, None
  <1>2. CASE v = None
    BY <1>1, <1>2 DEF Weigh, At
  <1>3. CASE v # None
    <2>1. At(v # None, w) = w /\ Weigh(v, w) = w * Clamp100(v)
      BY <1>3 DEF Weigh, At
    <2> QED BY <1>1, <2>1, Scaled
  <1> QED BY <1>2, <1>3

\* The parts of the average, each a natural number.
LEMMA PartsAre ==
    ASSUME NEW s, SlotsTyped(s), NEW l \in Emphases
    PROVE  /\ Others(s, l) \in Nat /\ Others(s, l) <= 100 * MomentumWeight(l) + 100 * Company(s)
           /\ Company(s) \in 0..3500
           /\ Points(s, l) \in Nat /\ Weight(s, l) \in Nat \ {0}
           /\ SecurityWeight(l) * Clamp100(s.security) \in Nat /\ Weigh(s.flow, FlowWeight(l)) \in Nat
  <1> DEFINE m == MomentumWeight(l)
             r == SecurityWeight(l)
             f == FlowWeight(l)
             a == m * Clamp100(s.momentum)
             b == Weigh(s.sentiment, 2100)
             c == Weigh(s.critic, 1400)
             d == r * Clamp100(s.security)
             e == Weigh(s.flow, f)
             x == At(s.sentiment # None, 2100)
             y == At(s.critic # None, 1400)
             z == At(s.flow # None, f)
  <1>1. m \in Nat /\ r \in Nat /\ f \in Nat /\ r >= 3500
    BY WeightBounds
  <1>2. Clamp100(s.momentum) \in 0..100 /\ Clamp100(s.security) \in 0..100
    BY ClampBounds DEF SlotsTyped
  <1>3. a \in Nat /\ a <= 100 * m /\ d \in Nat
    <2> HIDE DEF m, r
    <2>1. m * Clamp100(s.momentum) \in Nat /\ r * Clamp100(s.security) \in Nat
      BY <1>1, <1>2
    <2>2. m * Clamp100(s.momentum) <= m * 100
      BY <1>1, <1>2, Scaled
    <2> QED BY <1>1, <2>1, <2>2
  <1>4. /\ b \in Nat /\ b <= 100 * x
        /\ c \in Nat /\ c <= 100 * y /\ e \in Nat
    BY <1>1, WeighIs DEF SlotsTyped
  <1>5. x \in {0, 2100} /\ y \in {0, 1400}
    BY DEF At
  <1>6. z \in Nat
    BY <1>1 DEF At
  <1>7. /\ Others(s, l) = a + b + c /\ Points(s, l) = Others(s, l) + d + e
        /\ Weight(s, l) = m + r + Company(s) + z
    BY DEF Others, Points, Weight
  <1>8. /\ Company(s) = x + y
    BY DEF Company
  <1> HIDE DEF m, r, f, a, b, c, d, e, x, y, z
  <1>9. d \in Nat /\ e \in Nat
    BY <1>3, <1>4
  <1>10. Company(s) \in 0..3500
    BY <1>5, <1>8
  <1>11. Others(s, l) \in Nat /\ Others(s, l) <= 100 * m + 100 * Company(s)
    BY <1>1, <1>3, <1>4, <1>5, <1>7, <1>8
  <1>12. Points(s, l) \in Nat
    BY <1>7, <1>9, <1>11
  <1>13. Weight(s, l) \in Nat \ {0}
    <2>1. Weight(s, l) = m + r + Company(s) + z
      BY <1>7
    <2>2. Company(s) \in Nat
      BY <1>5, <1>8
    <2> QED BY <1>1, <1>6, <2>1, <2>2
  <1> QED BY <1>9, <1>10, <1>11, <1>12, <1>13 DEF d, e, m, r, f

LEMMA AggregateIs ==
    ASSUME NEW s, SlotsTyped(s), NEW l \in Emphases
    PROVE  Aggregate(s, Weights(l)) = RoundDiv(Points(s, l), Weight(s, l)) /\ Aggregate(s, Weights(l)) \in Nat
  <1>0. /\ s.momentum \in Nat /\ s.security \in Nat
        /\ s.flow \in Opinion /\ s.sentiment \in Opinion /\ s.critic \in Opinion
    BY DEF SlotsTyped
  <1> DEFINE m == MomentumWeight(l)
             f == FlowWeight(l)
             r == SecurityWeight(l)
             W == Weights(l)
             share(v) == At(v \in Rendered(s) /\ W[v] > 0, W[v])
  <1>w. /\ m \in Nat /\ f \in Nat /\ r \in Nat
        /\ W = [momentum |-> m, flow |-> f, security |-> r, sentiment |-> 2100, critic |-> 1400]
    BY WeightBounds, WeightsAre
  <1> HIDE DEF W, m, f, r
  <1>1. /\ share("momentum") = m /\ share("security") = r
        /\ share("flow") = At(s.flow # None, f)
        /\ share("sentiment") = At(s.sentiment # None, 2100)
        /\ share("critic") = At(s.critic # None, 1400)
    BY <1>0, <1>w DEF Rendered, Slots, At, None
  <1>2. Aggregate(s, W) =
          (LET w == share("momentum") + share("flow") + share("security") + share("sentiment") + share("critic")
           IN  IF w = 0 THEN 0
               ELSE RoundDiv(Clamp100(s["momentum"]) * share("momentum") + Clamp100(s["flow"]) * share("flow")
                             + Clamp100(s["security"]) * share("security") + Clamp100(s["sentiment"]) * share("sentiment")
                             + Clamp100(s["critic"]) * share("critic"), w))
    BY DEF Aggregate, OverSlots
  <1> HIDE DEF share
  <1>3. /\ Clamp100(s.momentum) \in Nat /\ Clamp100(s.security) \in Nat
    BY <1>0, ClampBounds
  <1>p. /\ Points(s, l) \in Nat /\ Weight(s, l) \in Nat \ {0}
    BY PartsAre
  <1>4. share("momentum") + share("flow") + share("security") + share("sentiment") + share("critic") = Weight(s, l)
    <2> DEFINE a == At(s.flow # None, f)
               b == At(s.sentiment # None, 2100)
               c == At(s.critic # None, 1400)
    <2>1. a \in Nat /\ b \in Nat /\ c \in Nat
      BY <1>w DEF At
    <2>2. Weight(s, l) = m + r + (b + c) + a
      BY DEF Weight, Company, m, r, f
    <2> HIDE DEF a, b, c
    <2>3. /\ share("momentum") = m /\ share("flow") = a /\ share("security") = r
          /\ share("sentiment") = b /\ share("critic") = c
      BY <1>1 DEF a, b, c
    <2> QED BY <1>w, <2>1, <2>2, <2>3
  <1>5. Clamp100(s["momentum"]) * share("momentum") + Clamp100(s["flow"]) * share("flow")
                             + Clamp100(s["security"]) * share("security") + Clamp100(s["sentiment"]) * share("sentiment")
                             + Clamp100(s["critic"]) * share("critic") = Points(s, l)
    <2> DEFINE a == m * Clamp100(s.momentum)
               b == Weigh(s.sentiment, 2100)
               c == Weigh(s.critic, 1400)
               d == r * Clamp100(s.security)
               e == Weigh(s.flow, f)
    <2>1. /\ Clamp100(s["flow"]) * share("flow") = e
          /\ Clamp100(s["sentiment"]) * share("sentiment") = b
          /\ Clamp100(s["critic"]) * share("critic") = c
      BY <1>0, <1>1, <1>w, WeighIs
    <2>2. /\ Clamp100(s["momentum"]) * share("momentum") = a
          /\ Clamp100(s["security"]) * share("security") = d
      BY <1>1, <1>3, <1>w
    <2>3. b \in Nat /\ c \in Nat /\ e \in Nat
      BY <1>0, <1>w, WeighIs
    <2>4. a \in Nat /\ d \in Nat
      BY <1>3, <1>w
    <2>5. Points(s, l) = (a + b + c) + d + e
      BY DEF Points, Others, m, r, f
    <2> HIDE DEF a, b, c, d, e
    <2> QED BY <2>1, <2>2, <2>3, <2>4, <2>5
  <1>6. Aggregate(s, W) = RoundDiv(Points(s, l), Weight(s, l))
    BY <1>2, <1>4, <1>5, <1>p
  <1>7. RoundDiv(Points(s, l), Weight(s, l)) \in Nat
    BY <1>p, RoundDivNat
  <1> QED BY <1>6, <1>7 DEF W

\* Rounding compares as the exact quotients do.
LEMMA RoundsTo ==
    ASSUME NEW p \in Nat, NEW w \in Nat \ {0}, NEW q \in Int
    PROVE  RoundDiv(p, w) >= q <=> 2 * p + w >= (2 * w) * q
  <1> DEFINE x == (2 * p + w) \div (2 * w)
  <1>1. x \in Int /\ (2 * w) * x <= 2 * p + w /\ 2 * p + w < (2 * w) * (x + 1)
    OBVIOUS
  <1> HIDE DEF x
  <1>2. 2 * w \in Nat
    OBVIOUS
  <1>3. x >= q => (2 * w) * q <= (2 * w) * x
    BY <1>1, <1>2, Scaled
  <1>4. ~(x >= q) => (2 * w) * (x + 1) <= (2 * w) * q
    BY <1>1, <1>2, Scaled
  <1>5. (2 * w) * q \in Int /\ (2 * w) * x \in Int /\ (2 * w) * (x + 1) \in Int
    BY <1>1, <1>2
  <1>6. x >= q <=> 2 * p + w >= (2 * w) * q
    BY <1>1, <1>3, <1>4, <1>5
  <1> QED BY <1>6 DEF RoundDiv, x

\* How the flow of y may stand to that of x: no higher, or an opinion of 40
\* that speaks up in it.
FlowRaised(v, u) ==
    \/ v = None /\ u = 40
    \/ v # None /\ u # None /\ (u <= 34 \/ (u <= 40 /\ u <= v + 6))

-----------------------------------------------------------------------------
(* Averages of o points over the weight k, with security r and flow f      *)

\* An opinion of 40 that speaks up lowers what has to reach 80.
LEMMA SpeakingUp ==
    ASSUME NEW o \in Nat, NEW k \in Nat, NEW f \in Nat, NEW r \in Nat, NEW c \in Nat, NEW q \in Nat,
           c >= 80, q >= 80, 2 * (o + r * 70 + f * 40) + (k + f) >= (2 * (k + f)) * q
    PROVE  2 * (o + r * c) + k >= (2 * k) * q
  <1>1. r * 80 <= r * c /\ f * 80 <= f * q
    BY Scaled
  <1>2. (2 * (k + f)) * q = (2 * k) * q + 2 * (f * q)
    OBVIOUS
  <1>3. r * c \in Int /\ f * q \in Int /\ (2 * k) * q \in Int
    OBVIOUS
  <1> DEFINE a == r * c
             b == f * q
             d == (2 * k) * q
  <1>4. /\ a \in Int /\ b \in Int /\ d \in Int /\ r * 80 <= a /\ f * 80 <= b
        /\ 2 * (o + r * 70 + f * 40) + (k + f) >= d + 2 * b
    BY <1>1, <1>2, <1>3
  <1> HIDE DEF a, b, d
  <1>5. 2 * (o + a) + k >= d
    BY <1>4
  <1> QED BY <1>5 DEF a, d

\* What the weights and the other slots let the sums be.
Bounds(o, m, t, f, r, q) ==
    /\ {o, m, f, r, q} \subseteq Nat /\ t \in 0..3500
    /\ q >= 80 /\ o <= 100 * m + 100 * t
    /\ f <= 3640 /\ r >= 3500 /\ 41 * m + 77000 < 91 * f

\* The average of a security of 70 and a flow of u reaches q.
Reaches(o, m, t, f, r, u, q) ==
    2 * (o + r * 70 + f * u) + (m + r + t + f) >= (2 * (m + r + t + f)) * q

\* Below 80 however high the others are: a security of 70 and a flow that is low,
\* or one of 40 in no other company than the momentum's.
LEMMA TooLow ==
    ASSUME NEW o, NEW m, NEW t, NEW f, NEW r, NEW u \in Nat, NEW q, Bounds(o, m, t, f, r, q),
           u <= 34 \/ (u = 40 /\ t = 0)
    PROVE  ~Reaches(o, m, t, f, r, u, q)
  <1>0. /\ o \in Nat /\ m \in Nat /\ f \in Nat /\ r \in Nat /\ q \in Nat /\ t \in Nat /\ t <= 3500
        /\ q >= 80 /\ o <= 100 * m + 100 * t /\ f <= 3640 /\ r >= 3500 /\ 41 * m + 77000 < 91 * f
    BY DEF Bounds
  <1> USE <1>0 DEF Reaches
  <1>1. (2 * (m + r + t + f)) * 80 <= (2 * (m + r + t + f)) * q
    <2>1. 2 * (m + r + t + f) \in Nat
      OBVIOUS
    <2> QED BY <2>1, Scaled
  <1>2. CASE u <= 34
    <2>1. f * u <= f * 34 /\ f * u \in Int
      BY <1>2, Scaled
    <2>2. 2 * (o + r * 70 + f * u) + (m + r + t + f) < (2 * (m + r + t + f)) * 80
      BY <2>1
    <2> QED BY <1>1, <2>1, <2>2
  <1>3. CASE u = 40 /\ t = 0
    <2>1. 2 * (o + r * 70 + f * 40) + (m + r + t + f) < (2 * (m + r + t + f)) * 80
      BY <1>3
    <2> QED BY <1>1, <1>3, <2>1
  <1> QED BY <1>2, <1>3

\* Ten points of security outweigh six of flow.
LEMMA SixForTen ==
    ASSUME NEW f \in Nat, NEW r \in Nat, NEW c \in Nat, NEW u \in Nat, NEW v \in Nat,
           f <= 3640, r >= 3500, c >= 80, u <= v + 6
    PROVE  r * 70 + f * u <= r * c + f * v
  <1>1. r * 80 <= r * c /\ f * u <= f * (v + 6)
    BY Scaled
  <1>2. f * (v + 6) = f * v + 6 * f /\ f * u \in Int /\ f * v \in Int /\ r * c \in Int
    OBVIOUS
  <1> DEFINE a == r * c
             b == f * u
             d == f * v
  <1>3. a \in Int /\ b \in Int /\ d \in Int /\ r * 80 <= a /\ b <= d + 6 * f
    BY <1>1, <1>2
  <1> HIDE DEF a, b, d
  <1>4. r * 70 + b <= a + d
    BY <1>3
  <1> QED BY <1>4 DEF a, b, d

\* A security slot that falls from 80 to the floor outweighs what such an
\* opinion can bring, as soon as the average has to reach 80.
LEMMA AverageOrder ==
    ASSUME NEW x, NEW y, SlotsTyped(x), SlotsTyped(y), NEW l \in Emphases,
           y.momentum = x.momentum, y.sentiment = x.sentiment, y.critic = x.critic, y.security <= x.security,
           \/ (x.flow = None <=> y.flow = None) /\ y.flow <= x.flow
           \/ FlowRaised(x.flow, y.flow) /\ y.security = 70 /\ x.security >= 80,
           Aggregate(y, Weights(l)) >= 80
    PROVE  /\ Aggregate(x, Weights(l)) >= Aggregate(y, Weights(l))
           /\ x.flow = None /\ y.flow # None => x.sentiment # None \/ x.critic # None
  <1> DEFINE q == Aggregate(y, Weights(l))
             m == MomentumWeight(l)
             f == FlowWeight(l)
             r == SecurityWeight(l)
             o == Others(x, l)
             t == Company(x)
             c == Clamp100(x.security)
             d == Clamp100(y.security)
             g == Weigh(x.flow, f)
             h == Weigh(y.flow, f)
             j == At(x.flow # None, f)
             k == At(y.flow # None, f)
  <1>1. /\ m \in Nat /\ f \in Nat /\ r \in Nat /\ f <= 3640 /\ r >= 3500 /\ 41 * m + 77000 < 91 * f
    BY WeightBounds
  <1>2. /\ Others(y, l) = o /\ Company(y) = t
    BY DEF Others, Company
  <1>3. /\ Points(x, l) = o + r * c + g /\ Points(y, l) = o + r * d + h
        /\ Weight(x, l) = m + r + t + j /\ Weight(y, l) = m + r + t + k
    BY <1>2 DEF Points, Weight
  <1>4. /\ o \in Nat /\ o <= 100 * m + 100 * t /\ t \in 0..3500 /\ g \in Nat /\ h \in Nat
        /\ Points(x, l) \in Nat /\ Points(y, l) \in Nat /\ Weight(x, l) \in Nat \ {0} /\ Weight(y, l) \in Nat \ {0}
    BY PartsAre
  <1>5. /\ q \in Nat /\ q >= 80 /\ q = RoundDiv(Points(y, l), Weight(y, l))
        /\ Aggregate(x, Weights(l)) = RoundDiv(Points(x, l), Weight(x, l))
    BY AggregateIs
  <1>6. j \in Nat /\ k \in Nat
    BY <1>1 DEF At
  <1>7. /\ c \in 0..100 /\ d \in 0..100 /\ d <= c
        /\ y.security = 70 /\ x.security >= 80 => d = 70 /\ c >= 80
    BY DEF SlotsTyped, Clamp100
  <1>8. x.flow \in Opinion /\ y.flow \in Opinion
    BY DEF SlotsTyped
  <1> HIDE DEF q
  <1>9. 2 * Points(y, l) + Weight(y, l) >= (2 * Weight(y, l)) * q
    <2>1. RoundDiv(Points(y, l), Weight(y, l)) >= q
      BY <1>5
    <2> QED BY <1>4, <1>5, <2>1, RoundsTo
  <1>10. SUFFICES /\ 2 * Points(x, l) + Weight(x, l) >= (2 * Weight(x, l)) * q
                  /\ x.flow = None /\ y.flow # None => x.sentiment # None \/ x.critic # None
    BY <1>4, <1>5, RoundsTo DEF q
  <1> HIDE DEF m, f, r, o, t, c, d, g, h, j, k
  <1>14. Bounds(o, m, t, f, r, q)
    BY <1>1, <1>4, <1>5 DEF Bounds
  <1>11. CASE (x.flow = None <=> y.flow = None) /\ y.flow <= x.flow
    <2>1. j = k
      BY <1>11 DEF j, k
    <2>2. h <= g
      <3>1. CASE y.flow = None
        BY <1>4, <1>11, <3>1 DEF g, h, Weigh, At
      <3>2. CASE y.flow # None
        <4>1. h = f * Clamp100(y.flow) /\ g = f * Clamp100(x.flow)
          BY <1>11, <3>2 DEF g, h, Weigh, At
        <4>2. Clamp100(y.flow) \in Int /\ Clamp100(x.flow) \in Int /\ Clamp100(y.flow) <= Clamp100(x.flow)
          BY <1>8, <1>11 DEF Clamp100, Opinion, None
        <4> QED BY <1>1, <4>1, <4>2, Scaled
      <3> QED BY <3>1, <3>2
    <2>3. r * d <= r * c /\ r * d \in Int /\ r * c \in Int
      BY <1>1, <1>7, Scaled
    <2>4. Points(y, l) <= Points(x, l)
      BY <1>3, <1>4, <2>2, <2>3
    <2>5. Weight(x, l) = Weight(y, l)
      BY <1>3, <2>1
    <2>6. (2 * Weight(y, l)) * q \in Int
      BY <1>4, <1>5
    <2>7. 2 * Points(x, l) + Weight(x, l) >= (2 * Weight(x, l)) * q
      BY <1>4, <1>9, <2>4, <2>5, <2>6
    <2> QED BY <1>11, <2>7
  <1>12. CASE x.flow = None /\ y.flow = 40 /\ y.security = 70 /\ x.security >= 80
    <2>1. /\ j = 0 /\ k = f /\ g = 0 /\ h = f * 40 /\ d = 70 /\ c >= 80
      BY <1>1, <1>7, <1>12 DEF j, k, g, h, At, Weigh, Clamp100, None
    <2>2. /\ Points(y, l) = o + r * 70 + f * 40 /\ Weight(y, l) = m + r + t + f
          /\ Points(x, l) = o + r * c /\ Weight(x, l) = m + r + t
      <3>1. r * c \in Int
        BY <1>1, <1>7
      <3> QED BY <1>1, <1>3, <1>4, <2>1, <3>1
    <2>3. m + r + t \in Nat /\ c \in Nat
      BY <1>1, <1>4, <1>7
    <2>4. 2 * Points(x, l) + Weight(x, l) >= (2 * Weight(x, l)) * q
      <3> DEFINE w == m + r + t
      <3>1. 2 * (o + r * 70 + f * 40) + (w + f) >= (2 * (w + f)) * q
        BY <1>9, <2>2
      <3>2. w \in Nat
        BY <2>3
      <3> HIDE DEF w
      <3>3. 2 * (o + r * c) + w >= (2 * w) * q
        BY <1>1, <1>4, <1>5, <2>1, <2>3, <3>1, <3>2, SpeakingUp
      <3> QED BY <2>2, <3>3 DEF w
    <2>5. t # 0
      <3>1. SUFFICES ASSUME t = 0 PROVE FALSE
        OBVIOUS
      <3>2. 40 \in Nat /\ (40 <= 34 \/ (40 = 40 /\ t = 0))
        BY <3>1
      <3>3. ~Reaches(o, m, t, f, r, 40, q)
        BY <1>14, <3>2, TooLow
      <3>4. Reaches(o, m, t, f, r, 40, q)
        BY <1>9, <2>2 DEF Reaches
      <3> QED BY <3>3, <3>4
    <2>6. x.sentiment # None \/ x.critic # None
      BY <2>5 DEF t, Company, At
    <2> QED BY <2>4, <2>6
  <1>13. CASE x.flow # None /\ y.flow # None /\ (y.flow <= 34 \/ (y.flow <= 40 /\ y.flow <= x.flow + 6))
              /\ y.security = 70 /\ x.security >= 80
    <2> DEFINE v == Clamp100(x.flow)
               u == Clamp100(y.flow)
    <2>1. /\ j = f /\ k = f /\ g = f * v /\ h = f * u /\ d = 70 /\ c >= 80
      BY <1>7, <1>13 DEF j, k, g, h, At, Weigh
    <2>2. u \in Nat /\ v \in Nat /\ (u <= 34 \/ u <= v + 6)
      BY <1>8, <1>13 DEF Clamp100, Opinion, None
    <2> HIDE DEF u, v
    <2>3. Points(y, l) = o + r * 70 + f * u /\ Weight(y, l) = m + r + t + f
      BY <1>3, <2>1
    <2>4. ~(u <= 34)
      <3>1. SUFFICES ASSUME u <= 34 PROVE FALSE
        OBVIOUS
      <3>2. ~Reaches(o, m, t, f, r, u, q)
        BY <1>14, <2>2, <3>1, TooLow
      <3>3. Reaches(o, m, t, f, r, u, q)
        BY <1>9, <2>3 DEF Reaches
      <3> QED BY <3>2, <3>3
    <2>5. r * 70 + f * u <= r * c + f * v
      BY <1>1, <1>7, <2>1, <2>2, <2>4, SixForTen
    <2>6. r * c \in Int /\ f * u \in Int /\ f * v \in Int
      BY <1>1, <1>7, <2>2
    <2>7. Points(y, l) <= Points(x, l) /\ Weight(x, l) = Weight(y, l)
      BY <1>1, <1>3, <1>4, <2>1, <2>3, <2>5, <2>6
    <2>8. (2 * Weight(y, l)) * q \in Int
      BY <1>4, <1>5
    <2> QED BY <1>4, <1>9, <1>13, <2>7, <2>8
  <1> QED BY <1>11, <1>12, <1>13 DEF FlowRaised

-----------------------------------------------------------------------------
(* The finalist                                                            *)

\* What worse evidence does to the slots.
LEMMA SlotsOrder ==
    ASSUME NEW d, NEW e, EvidenceTyped(d), EvidenceTyped(e), WorseEvidence(d, e), NEW quant \in Nat
    PROVE  LET x == Consolidate(d, quant)
               y == Consolidate(e, quant)
           IN  /\ SlotsTyped(x) /\ SlotsTyped(y)
               /\ y.momentum = x.momentum /\ y.sentiment = x.sentiment /\ y.critic = x.critic
               /\ y.security <= x.security
               /\ y.security >= 70 =>
                    \/ (x.flow = None <=> y.flow = None) /\ y.flow <= x.flow
                    \/ FlowRaised(x.flow, y.flow) /\ y.security = 70 /\ x.security >= 80
  <1> DEFINE x == Consolidate(d, quant)
             y == Consolidate(e, quant)
  <1>1. /\ x.momentum = Pick(quant, MlVote(Klines(d.gmgn, d.pools, d.candles)), None)
        /\ x.flow = Pick(WhaleVote(d), WalletVote(d), ConvergenceVote(d.buys))
        /\ x.security = SecurityOpinion(d)
        /\ x.sentiment = IF d.social = {} THEN None ELSE SentimentVote(CHOOSE s \in d.social : TRUE)
        /\ x.critic = Pick(CriticVote(d.critic), RubricVote(d.rubric), None)
    BY DEF Consolidate
  <1>2. /\ y.momentum = Pick(quant, MlVote(Klines(e.gmgn, e.pools, e.candles)), None)
        /\ y.flow = Pick(WhaleVote(e), WalletVote(e), ConvergenceVote(e.buys))
        /\ y.security = SecurityOpinion(e)
        /\ y.sentiment = IF e.social = {} THEN None ELSE SentimentVote(CHOOSE s \in e.social : TRUE)
        /\ y.critic = Pick(CriticVote(e.critic), RubricVote(e.rubric), None)
    BY DEF Consolidate
  <1> HIDE DEF x, y
  <1>3. /\ e.buys = d.buys /\ e.gmgn = d.gmgn /\ e.pools = d.pools /\ e.candles = d.candles
        /\ e.social = d.social /\ e.critic = d.critic /\ e.rubric = d.rubric
    BY WorseFields
  <1>4. y.momentum = x.momentum /\ y.sentiment = x.sentiment /\ y.critic = x.critic
    BY <1>1, <1>2, <1>3
  <1>5. x.security \in 0..100 /\ y.security \in 0..100 /\ y.security <= x.security
    BY <1>1, <1>2, SecurityOrder
  <1>6. x.momentum \in Nat /\ x.critic \in Opinion
    BY <1>1, MomentumType, CriticType
  <1>7. x.sentiment \in Opinion
    <2>1. CASE d.social = {}
      BY <1>1, <2>1 DEF Opinion
    <2>2. CASE d.social # {}
      <3> DEFINE s == CHOOSE s \in d.social : TRUE
      <3>1. s \in d.social
        BY <2>2
      <3>2. {s.visits, s.square, s.mentions, s.paid} \subseteq Nat /\ {s.farm, s.flow} \subseteq BOOLEAN
        BY <3>1 DEF EvidenceTyped
      <3> HIDE DEF s
      <3>3. SentimentVote(s) \in Opinion
        BY <3>2, SentimentType
      <3> QED BY <1>1, <2>2, <3>3 DEF s
    <2> QED BY <2>1, <2>2
  <1>8. /\ WhaleVote(d) \in Opinion /\ WhaleVote(e) \in Opinion
        /\ \/ WhaleVote(d) = None /\ WhaleVote(e) = None
           \/ WhaleVote(d) = None /\ WhaleVote(e) = 40 /\ BotRisk(d) < 60 /\ BotRisk(e) >= 60
           \/ WhaleVote(d) # None /\ WhaleVote(e) # None /\ WhaleVote(e) <= WhaleVote(d)
    BY WhaleOrder
  <1>9. /\ WalletVote(d) \in Opinion /\ WalletVote(e) \in Opinion
        /\ SecurityOpinion(e) > 0 => (WalletVote(d) = None <=> WalletVote(e) = None) /\ WalletVote(e) <= WalletVote(d)
    BY WalletType, WalletOrder
  <1>10. ConvergenceVote(d.buys) \in Opinion
    BY ConvergenceType DEF EvidenceTyped
  <1>f. /\ x.flow = Pick(WhaleVote(d), WalletVote(d), ConvergenceVote(d.buys))
        /\ y.flow = Pick(WhaleVote(e), WalletVote(e), ConvergenceVote(d.buys))
    BY <1>1, <1>2, <1>3
  <1>11. x.flow \in Opinion /\ y.flow \in Opinion
    BY <1>1, <1>2, <1>3, <1>8, <1>9, <1>10, PickType
  <1>12. SlotsTyped(x) /\ SlotsTyped(y)
    BY <1>4, <1>5, <1>6, <1>7, <1>11 DEF SlotsTyped
  <1>13. ASSUME y.security >= 70
         PROVE  \/ (x.flow = None <=> y.flow = None) /\ y.flow <= x.flow
                \/ FlowRaised(x.flow, y.flow) /\ y.security = 70 /\ x.security >= 80
    <2>1. (WalletVote(d) = None <=> WalletVote(e) = None) /\ WalletVote(e) <= WalletVote(d)
      BY <1>2, <1>5, <1>9, <1>13
    <2> DEFINE a == WhaleVote(d)
               b == WalletVote(d)
               u == WhaleVote(e)
               v == WalletVote(e)
               c == ConvergenceVote(d.buys)
    <2>o. /\ (a = None <=> u = None) /\ u <= a =>
                (Pick(a, b, c) = None <=> Pick(u, v, c) = None) /\ Pick(u, v, c) <= Pick(a, b, c)
          /\ a = None /\ u = 40 =>
                \/ Pick(a, b, c) = None /\ Pick(u, v, c) = 40
                \/ /\ Pick(a, b, c) # None /\ Pick(u, v, c) # None
                   /\ \/ Pick(u, v, c) <= Pick(a, b, c)
                      \/ Pick(u, v, c) <= 34
                      \/ Pick(u, v, c) <= 40 /\ Pick(u, v, c) <= Pick(a, b, c) + 6
      <3>1. {a, b, u, v, c} \subseteq Opinion
        BY <1>8, <1>9, <1>10
      <3>2. (b = None <=> v = None) /\ v <= b
        BY <2>1
      <3> HIDE DEF a, b, c, u, v
      <3> QED BY <3>1, <3>2, PickOrder
    <2>2. CASE WhaleVote(d) = None /\ WhaleVote(e) = 40 /\ BotRisk(d) < 60 /\ BotRisk(e) >= 60
      <3>1. y.security = 70 /\ x.security >= 80
        BY <1>1, <1>2, <1>5, <1>13, <2>2, SecurityOrder
      <3>2. \/ x.flow = None /\ y.flow = 40
            \/ /\ x.flow # None /\ y.flow # None
               /\ \/ y.flow <= x.flow
                  \/ y.flow <= 34
                  \/ y.flow <= 40 /\ y.flow <= x.flow + 6
        BY <1>f, <2>2, <2>o
      <3> QED BY <3>1, <3>2 DEF FlowRaised
    <2>3. CASE (WhaleVote(d) = None <=> WhaleVote(e) = None) /\ WhaleVote(e) <= WhaleVote(d)
      BY <1>f, <2>3, <2>o
    <2> QED BY <1>8, <2>2, <2>3 DEF None
  <1> QED BY <1>4, <1>5, <1>12, <1>13 DEF x, y

LEMMA RenderedFinite ==
    ASSUME NEW slots
    PROVE  IsFiniteSet(Rendered(slots)) /\ Cardinality(Rendered(slots)) \in Nat
  <1>1. IsFiniteSet(Slots)
    <2>1. IsFiniteSet({"momentum"}) /\ IsFiniteSet({"flow"}) /\ IsFiniteSet({"security"})
          /\ IsFiniteSet({"sentiment"}) /\ IsFiniteSet({"critic"})
      BY FS_Singleton
    <2>2. Slots = {"momentum"} \cup ({"flow"} \cup ({"security"} \cup ({"sentiment"} \cup {"critic"})))
      BY DEF Slots
    <2> QED BY <2>1, <2>2, FS_Union
  <1>2. IsFiniteSet(Rendered(slots))
    BY <1>1, FS_Subset DEF Rendered
  <1> QED BY <1>2, FS_CardinalityType

LEMMA ThreeRendered ==
    ASSUME NEW slots, NEW u \in Rendered(slots), NEW v \in Rendered(slots), NEW w \in Rendered(slots),
           u # v, u # w, v # w
    PROVE  Cardinality(Rendered(slots)) >= 3
  <1>1. IsFiniteSet({u}) /\ Cardinality({u}) = 1
    BY FS_Singleton
  <1>2. IsFiniteSet({u} \cup {v}) /\ Cardinality({u} \cup {v}) = 2
    BY <1>1, FS_AddElement
  <1>3. IsFiniteSet(({u} \cup {v}) \cup {w}) /\ Cardinality(({u} \cup {v}) \cup {w}) = 3
    BY <1>2, FS_AddElement
  <1>4. ({u} \cup {v}) \cup {w} \subseteq Rendered(slots)
    OBVIOUS
  <1> QED BY <1>3, <1>4, RenderedFinite, FS_Subset

\* What calibration and demerit leave of an average.
Rest(c, base) ==
    LET x == IF c.calibrated # None /\ c.calibrated < base THEN c.calibrated ELSE base
        demerit == IF c.noise >= 60 THEN RoundDiv(30 * c.noise, 100) ELSE 0
    IN  IF x < demerit THEN 0 ELSE x - demerit

LEMMA RestOrder ==
    ASSUME NEW c \in Candidates, NEW p \in Nat, NEW q \in Nat
    PROVE  /\ Rest(c, p) \in Nat /\ Rest(c, q) \in Nat /\ Rest(c, p) <= p
           /\ p <= q => Rest(c, p) <= Rest(c, q)
  <1> DEFINE demerit == IF c.noise >= 60 THEN RoundDiv(30 * c.noise, 100) ELSE 0
  <1>1. c.noise \in Nat /\ c.calibrated \in Nat \cup {None}
    BY CandidateTyped
  <1>2. demerit \in Nat
    <2>1. RoundDiv(30 * c.noise, 100) \in Nat
      BY <1>1, RoundDivNat
    <2> QED BY <2>1
  <1> HIDE DEF demerit
  <1>3. \A base : Rest(c, base) = LET x == IF c.calibrated # None /\ c.calibrated < base THEN c.calibrated ELSE base
                                  IN  IF x < demerit THEN 0 ELSE x - demerit
    BY DEF Rest, demerit
  <1> QED BY <1>1, <1>2, <1>3

\* What the gate asks of a finalist with evidence of its own.
LEMMA AllowsIs ==
    ASSUME GateInv, NEW c \in Candidates, NEW slots, SlotsTyped(slots), NEW quant \in Nat \ {0}
    PROVE  Allows(c, slots, quant) <=>
              /\ slots.security >= 70 /\ ~(Cardinality(Rendered(slots)) < 3) /\ c.audited
              /\ Conviction(c.symbol) >= 80 \/ Rest(c, Aggregate(slots, Weights(learned))) >= 80
  <1> DEFINE f == [c EXCEPT !.slots = slots, !.conf = quant]
  <1>1. /\ f.slots = slots /\ f.conf = quant /\ f.symbol = c.symbol /\ f.audited = c.audited
        /\ f.calibrated = c.calibrated /\ f.noise = c.noise
    <2>1. {"symbol", "slots", "conf", "audited", "calibrated", "noise"} \subseteq DOMAIN c
      BY SwarmAssumption
    <2> QED BY <2>1
  <1> HIDE DEF f
  <1>2. Rendered(f.slots) # {} /\ Rendered(f.slots) = Rendered(slots)
    <2>1. slots["momentum"] # None
      BY DEF SlotsTyped, None
    <2> QED BY <1>1, <2>1 DEF Rendered, Slots
  <1>3. learned \in Emphases /\ Aggregate(slots, Weights(learned)) \in Nat
    <2>1. learned \in Emphases
      BY DEF GateInv, TypeOK
    <2> QED BY <2>1, AggregateIs
  <1>4. Trusted(f, learned) = Rest(c, Aggregate(slots, Weights(learned)))
    BY <1>1, <1>2 DEF Trusted, Base, Rest
  <1>5. Conviction(c.symbol) \in Nat \cup {None}
    <2>1. c.symbol \in Symbols
      BY CandidateTyped
    <2>2. held[c.symbol].value \in Nat \cup {None}
      BY <2>1 DEF GateInv, TypeOK
    <2> QED BY <2>2 DEF Conviction
  <1>6. Rest(c, Aggregate(slots, Weights(learned))) \in Nat
    BY <1>3, RestOrder
  <1> DEFINE y == Convinced(f)
  <1>7. /\ y = IF Conviction(c.symbol) > Trusted(f, learned) THEN Conviction(c.symbol) ELSE Trusted(f, learned)
        /\ y \in Nat
    BY <1>1, <1>4, <1>5, <1>6 DEF Convinced, None
  <1>8. Score(f) = IF y > 100 THEN 100 ELSE y
    BY <1>1, <1>2 DEF Score
  <1>9. SecurityScore(f) = slots.security
    BY <1>1, <1>2 DEF SecurityScore
  <1> HIDE DEF y
  <1>10. ~(Score(f) < 80) <=> Conviction(c.symbol) >= 80 \/ Trusted(f, learned) >= 80
    BY <1>4, <1>5, <1>6, <1>7, <1>8 DEF None
  <1>11. Allows(c, slots, quant) <=>
             ~(SecurityScore(f) < 70) /\ ~(Cardinality(Rendered(slots)) < 3) /\ ~(Score(f) < 80) /\ c.audited
    <2>1. Allows(c, slots, quant) <=> Refusal(f) = "none"
      BY DEF Allows, f
    <2>2. Refusal(f) = IF SecurityScore(f) < 70 THEN "SECURITY"
                       ELSE IF Cardinality(Rendered(slots)) < 3 THEN "INSUFFICIENT_EVIDENCE"
                       ELSE IF Score(f) < 80 \/ ~c.audited THEN "CONSENSUS"
                       ELSE "none"
      BY <1>1, <1>2 DEF Refusal
    <2> QED BY <2>1, <2>2
  <1>12. slots.security \in Nat
    BY DEF SlotsTyped
  <1> QED BY <1>4, <1>9, <1>10, <1>11, <1>12

\* Worse evidence about a finalist: the first half of RiskNeverHelps.
LEMMA WorseEvidenceNeverHelps ==
    ASSUME GateInv, NEW c \in Candidates, NEW quant \in Nat \ {0},
           NEW d, NEW e, EvidenceTyped(d), EvidenceTyped(e), WorseEvidence(d, e)
    PROVE  LET before == Consolidate(d, quant)
               after == Consolidate(e, quant)
           IN  /\ after.security <= before.security
               /\ Allows(c, after, quant) => Allows(c, before, quant) \/ Carried(c, before)
  <1> DEFINE x == Consolidate(d, quant)
             y == Consolidate(e, quant)
  <1>1. /\ SlotsTyped(x) /\ SlotsTyped(y)
        /\ y.momentum = x.momentum /\ y.sentiment = x.sentiment /\ y.critic = x.critic
        /\ y.security <= x.security
        /\ y.security >= 70 =>
             \/ (x.flow = None <=> y.flow = None) /\ y.flow <= x.flow
             \/ FlowRaised(x.flow, y.flow) /\ y.security = 70 /\ x.security >= 80
    BY SlotsOrder
  <1> HIDE DEF x, y
  <1>l. learned \in Emphases
    BY DEF GateInv, TypeOK
  <1>2. ASSUME Allows(c, y, quant), ~Carried(c, x) PROVE Allows(c, x, quant)
    <2>1. /\ y.security >= 70 /\ ~(Cardinality(Rendered(y)) < 3) /\ c.audited
          /\ Conviction(c.symbol) >= 80 \/ Rest(c, Aggregate(y, Weights(learned))) >= 80
      BY <1>1, <1>2, AllowsIs
    <2>2. x.security >= 70
      BY <1>1, <2>1 DEF SlotsTyped
    <2>3. Aggregate(x, Weights(learned)) \in Nat /\ Aggregate(y, Weights(learned)) \in Nat
      BY <1>1, <1>l, AggregateIs
    <2>4. ASSUME Rest(c, Aggregate(y, Weights(learned))) >= 80
          PROVE  /\ Rest(c, Aggregate(x, Weights(learned))) >= 80
                 /\ x.flow = None /\ y.flow # None => x.sentiment # None \/ x.critic # None
      <3>1. Aggregate(y, Weights(learned)) >= 80
        BY <2>3, <2>4, RestOrder
      <3>2. /\ Aggregate(x, Weights(learned)) >= Aggregate(y, Weights(learned))
            /\ x.flow = None /\ y.flow # None => x.sentiment # None \/ x.critic # None
        BY <1>1, <1>l, <2>1, <3>1, AverageOrder
      <3>3. /\ Rest(c, Aggregate(y, Weights(learned))) \in Nat /\ Rest(c, Aggregate(x, Weights(learned))) \in Nat
            /\ Rest(c, Aggregate(y, Weights(learned))) <= Rest(c, Aggregate(x, Weights(learned)))
        BY <2>3, <3>2, RestOrder
      <3> QED BY <2>4, <3>2, <3>3
    <2>5. ~(Cardinality(Rendered(x)) < 3)
      <3>1. CASE Conviction(c.symbol) >= 80
        BY <1>2, <3>1 DEF Carried
      <3>2. CASE ~(Conviction(c.symbol) >= 80)
        <4>1. x.flow = None /\ y.flow # None => x.sentiment # None \/ x.critic # None
          BY <2>1, <2>4, <3>2
        <4>2. CASE x.flow = None /\ y.flow # None
          <5>1. "momentum" \in Rendered(x) /\ "security" \in Rendered(x)
            <6>1. x["momentum"] # None /\ x["security"] # None
              BY <1>1 DEF SlotsTyped, None
            <6> QED BY <6>1 DEF Rendered, Slots
          <5>2. "sentiment" \in Rendered(x) \/ "critic" \in Rendered(x)
            BY <4>1, <4>2 DEF Rendered, Slots
          <5>3. Cardinality(Rendered(x)) >= 3
            BY <5>1, <5>2, ThreeRendered
          <5> QED BY <5>3, RenderedFinite
        <4>3. CASE x.flow = None <=> y.flow = None
          <5>1. \A v \in Slots : x[v] = None <=> y[v] = None
            <6>1. /\ x["momentum"] = None <=> y["momentum"] = None
                  /\ x["flow"] = None <=> y["flow"] = None
                  /\ x["security"] = None <=> y["security"] = None
                  /\ x["sentiment"] = None <=> y["sentiment"] = None
                  /\ x["critic"] = None <=> y["critic"] = None
              BY <1>1, <4>3 DEF SlotsTyped, None
            <6> QED BY <6>1 DEF Slots
          <5>2. Rendered(x) = Rendered(y)
            BY <5>1 DEF Rendered
          <5> QED BY <2>1, <5>2
        <4> QED BY <1>1, <2>1, <4>2, <4>3 DEF FlowRaised, None
      <3> QED BY <3>1, <3>2
    <2> QED BY <1>1, <2>1, <2>2, <2>4, <2>5, AllowsIs
  <1> QED BY <1>1, <1>2 DEF x, y

-----------------------------------------------------------------------------
(* The row                                                                 *)

\* The fields of a row the gates read.
FieldsTyped(t) ==
    /\ MarketFigure \cup Flag \cup Fraction \cup Count \cup {"source", "exchange"} \subseteq DOMAIN t
    /\ \A f \in MarketFigure : t[f] \in Nat
    /\ \A f \in Flag : t[f] \in BOOLEAN
    /\ \A f \in Fraction : t[f] \in Nat \cup {None}
    /\ \A f \in Count : t[f] \in Int

LEMMA RowFields ==
    ASSUME NEW t, FieldsTyped(t)
    PROVE  /\ {t.price, t.vol, t.vol24, t.liq, t.mcap} \subseteq Nat
           /\ {t.fresh, t.wash, t.honeypot, t.cto, t.closed, t.unavailable} \subseteq BOOLEAN
           /\ {t.tax, t.rug, t.insider, t.top10, t.fee, t.age} \subseteq Nat \cup {None}
           /\ {t.smart, t.kol, t.dev, t.up5m, t.up1h, t.buyPct, t.visits} \subseteq Int
  <1>1. /\ \A f \in MarketFigure : t[f] \in Nat
        /\ \A f \in Flag : t[f] \in BOOLEAN
    BY DEF FieldsTyped
  <1>2. /\ \A f \in Fraction : t[f] \in Nat \cup {None}
        /\ \A f \in Count : t[f] \in Int
    BY DEF FieldsTyped
  <1>3. {t.price, t.vol, t.vol24, t.liq, t.mcap} \subseteq Nat
    BY <1>1 DEF MarketFigure
  <1>4. {t.fresh, t.wash, t.honeypot, t.cto, t.closed, t.unavailable} \subseteq BOOLEAN
    BY <1>1 DEF Flag
  <1>5. {t.tax, t.rug, t.insider, t.top10, t.fee, t.age} \subseteq Nat \cup {None}
    BY <1>2 DEF Fraction
  <1>6. {t.smart, t.kol, t.dev, t.up5m, t.up1h, t.buyPct, t.visits} \subseteq Int
    BY <1>2 DEF Count
  <1> QED BY <1>3, <1>4, <1>5, <1>6

LEMMA KeptFields ==
    ASSUME NEW t, NEW u, WorseRow(t, u)
    PROVE  /\ u.source = t.source /\ u.exchange = t.exchange /\ u.fresh = t.fresh /\ u.cto = t.cto
           /\ u.closed = t.closed /\ u.unavailable = t.unavailable /\ u.age = t.age /\ u.price = t.price
           /\ u.vol24 = t.vol24 /\ u.smart = t.smart /\ u.kol = t.kol /\ u.dev = t.dev /\ u.up5m = t.up5m
           /\ u.up1h = t.up1h /\ u.buyPct = t.buyPct /\ u.visits = t.visits
  BY DEF WorseRow, Count

LEMMA WorseRowFields ==
    ASSUME NEW t, NEW u, WorseRow(t, u)
    PROVE  /\ (t.wash => u.wash) /\ (t.honeypot => u.honeypot)
           /\ IF t.tax = None THEN u.tax = None ELSE u.tax >= t.tax
           /\ IF t.rug = None THEN u.rug = None ELSE u.rug >= t.rug
           /\ IF t.insider = None THEN u.insider = None ELSE u.insider >= t.insider
           /\ IF t.top10 = None THEN u.top10 = None ELSE u.top10 >= t.top10
           /\ u.fee <= t.fee
           /\ u.vol \in IF t.fresh THEN {t.vol} ELSE 0..t.vol
           /\ u.liq \in IF t.fresh THEN {t.liq} ELSE 0..t.liq
           /\ u.mcap \in IF t.fresh THEN {t.mcap} ELSE 0..t.mcap
  <1>1. /\ \A f \in {"wash", "honeypot"} : t[f] => u[f]
        /\ \A f \in {"tax", "rug", "insider", "top10"} : IF t[f] = None THEN u[f] = None ELSE u[f] >= t[f]
        /\ u.fee <= t.fee
        /\ \A f \in {"vol", "liq", "mcap"} : u[f] \in IF t.fresh THEN {t[f]} ELSE 0..t[f]
    BY DEF WorseRow
  <1> QED BY <1>1

LEMMA StricterFields ==
    ASSUME NEW c \in [Floor -> Nat], NEW d \in [Floor -> Nat], StricterFloors(c, d)
    PROVE  /\ d.minVol >= c.minVol /\ d.minFreshVol >= c.minFreshVol /\ d.minLiq >= c.minLiq
           /\ d.minMcap >= c.minMcap /\ d.minFee >= c.minFee /\ d.minAge >= c.minAge /\ d.pass >= c.pass
           /\ d.maxRug <= c.maxRug /\ d.maxRat <= c.maxRat /\ d.maxTop10 <= c.maxTop10
           /\ {c.minVol, c.minFreshVol, c.minLiq, c.minMcap, c.minFee, c.minAge, c.pass, c.maxRug, c.maxRat, c.maxTop10} \subseteq Nat
           /\ {d.minVol, d.minFreshVol, d.minLiq, d.minMcap, d.minFee, d.minAge, d.pass, d.maxRug, d.maxRat, d.maxTop10} \subseteq Nat
  <1>1. /\ \A k \in {"minVol", "minFreshVol", "minLiq", "minMcap", "minFee", "minAge", "pass"} : d[k] >= c[k]
        /\ \A k \in {"maxRug", "maxRat", "maxTop10"} : d[k] <= c[k]
    BY DEF StricterFloors, Floor
  <1>2. \A k \in {"minVol", "minFreshVol", "minLiq", "minMcap", "minFee", "minAge", "maxRug", "maxRat", "maxTop10", "pass"} :
          c[k] \in Nat /\ d[k] \in Nat
    BY DEF Floor
  <1> QED BY <1>1, <1>2

\* A product of naturals keeps the order of its first factor.
LEMMA FeeOrder ==
    ASSUME NEW a \in Nat, NEW b \in Nat, a <= b, NEW n \in Int, n > 0
    PROVE  a * n \in Int /\ b * n \in Int /\ a * n <= b * n
  OBVIOUS

\* What a worse row passes, a better one does, at floors no stricter.
LEMMA PreFilterOrder ==
    ASSUME NEW t, NEW u, FieldsTyped(t), FieldsTyped(u), WorseRow(t, u),
           NEW c \in [Floor -> Nat], NEW d \in [Floor -> Nat], StricterFloors(c, d),
           NEW native \in Int, PreFilter(u, d, native) = "ok"
    PROVE  PreFilter(t, c, native) = "ok"
  <1>1. /\ {t.price, t.vol, t.vol24, t.liq, t.mcap, u.price, u.vol, u.vol24, u.liq, u.mcap} \subseteq Nat
        /\ {t.fresh, t.wash, t.honeypot, t.unavailable, u.fresh, u.wash, u.honeypot, u.unavailable} \subseteq BOOLEAN
        /\ {t.tax, t.rug, t.insider, t.top10, t.fee, t.age} \subseteq Nat \cup {None}
        /\ {u.tax, u.rug, u.insider, u.top10, u.fee, u.age} \subseteq Nat \cup {None}
    BY RowFields
  <1>2. /\ u.source = t.source /\ u.fresh = t.fresh /\ u.unavailable = t.unavailable /\ u.age = t.age
        /\ u.vol \in IF t.fresh THEN {t.vol} ELSE 0..t.vol
        /\ u.liq \in IF t.fresh THEN {t.liq} ELSE 0..t.liq
        /\ u.mcap \in IF t.fresh THEN {t.mcap} ELSE 0..t.mcap
    <2>1. u.source = t.source /\ u.fresh = t.fresh /\ u.unavailable = t.unavailable /\ u.age = t.age
      BY KeptFields
    <2>2. /\ u.vol \in IF t.fresh THEN {t.vol} ELSE 0..t.vol
          /\ u.liq \in IF t.fresh THEN {t.liq} ELSE 0..t.liq
          /\ u.mcap \in IF t.fresh THEN {t.mcap} ELSE 0..t.mcap
      BY WorseRowFields
    <2> QED BY <2>1, <2>2
  <1>3. /\ (t.wash => u.wash) /\ (t.honeypot => u.honeypot)
        /\ IF t.tax = None THEN u.tax = None ELSE u.tax >= t.tax
        /\ IF t.rug = None THEN u.rug = None ELSE u.rug >= t.rug
        /\ IF t.insider = None THEN u.insider = None ELSE u.insider >= t.insider
        /\ IF t.top10 = None THEN u.top10 = None ELSE u.top10 >= t.top10
        /\ u.fee <= t.fee
    BY WorseRowFields
  <1>4. /\ d.minVol >= c.minVol /\ d.minFreshVol >= c.minFreshVol /\ d.minLiq >= c.minLiq
        /\ d.minMcap >= c.minMcap /\ d.minFee >= c.minFee /\ d.minAge >= c.minAge
        /\ d.maxRug <= c.maxRug /\ d.maxRat <= c.maxRat /\ d.maxTop10 <= c.maxTop10
        /\ {c.minVol, c.minFreshVol, c.minLiq, c.minMcap, c.minFee, c.minAge, c.maxRug, c.maxRat, c.maxTop10} \subseteq Nat
        /\ {d.minVol, d.minFreshVol, d.minLiq, d.minMcap, d.minFee, d.minAge, d.maxRug, d.maxRat, d.maxTop10} \subseteq Nat
    BY StricterFields
  <1>5. /\ ~(u.unavailable /\ u.vol = 0)
        /\ u.source = "dexscreener" => MarketFloor(u, d) = "ok"
        /\ u.source # "dexscreener" => AgeGate(u, d) = "ok"
        /\ ~(u.source = "dexscreener" \/ FreshAtBirth(u)) => MarketFloor(u, d) = "ok"
        /\ ~(u.source # "dexscreener" /\ SecurityFailures(u, d) # {})
        /\ u.source # "dexscreener" => FeeGate(u, d, native) = "ok"
    BY PreFilterIs
  <1>6. /\ u.vol <= t.vol /\ u.liq <= t.liq /\ u.mcap <= t.mcap
        /\ u.vol \in Nat /\ t.vol \in Nat /\ u.liq \in Nat /\ t.liq \in Nat /\ u.mcap \in Nat /\ t.mcap \in Nat
    <2>1. u.vol \in Nat /\ t.vol \in Nat /\ u.liq \in Nat /\ t.liq \in Nat /\ u.mcap \in Nat /\ t.mcap \in Nat
      BY <1>1
    <2>2. \A n, m \in Nat : m \in (IF t.fresh THEN {n} ELSE 0..n) => m <= n
      OBVIOUS
    <2> QED BY <1>2, <2>1, <2>2
  <1>f. /\ c.minVol \in Nat /\ c.minFreshVol \in Nat /\ c.minLiq \in Nat /\ c.minMcap \in Nat /\ c.minAge \in Nat
        /\ d.minVol \in Nat /\ d.minFreshVol \in Nat /\ d.minLiq \in Nat /\ d.minMcap \in Nat /\ d.minAge \in Nat
        /\ d.minVol >= c.minVol /\ d.minFreshVol >= c.minFreshVol /\ d.minLiq >= c.minLiq
        /\ d.minMcap >= c.minMcap /\ d.minAge >= c.minAge
    BY <1>4
  <1>7. FreshAtBirth(u) <=> FreshAtBirth(t)
    BY <1>1, <1>2 DEF FreshAtBirth
  <1>8. ~(t.unavailable /\ t.vol = 0)
    BY <1>1, <1>2, <1>5, <1>6
  <1>9. MarketFloor(u, d) = "ok" => MarketFloor(t, c) = "ok"
    <2> SUFFICES ASSUME MarketFloor(u, d) = "ok" PROVE MarketFloor(t, c) = "ok"
      OBVIOUS
    <2>1. /\ ~(u.vol < IF u.fresh THEN d.minFreshVol ELSE d.minVol)
          /\ ~(u.liq < d.minLiq) /\ ~(u.source # "dexscreener" /\ u.mcap < d.minMcap)
      BY DEF MarketFloor
    <2>2. /\ ~(t.vol < IF t.fresh THEN c.minFreshVol ELSE c.minVol)
          /\ ~(t.liq < c.minLiq) /\ ~(t.source # "dexscreener" /\ t.mcap < c.minMcap)
      <3>1. u.fresh = t.fresh /\ u.source = t.source
        BY <1>2
      <3> QED BY <1>f, <1>6, <2>1, <3>1
    <2> QED BY <2>2 DEF MarketFloor
  <1>10. AgeGate(u, d) = "ok" => AgeGate(t, c) = "ok"
    <2> SUFFICES ASSUME AgeGate(u, d) = "ok", c.minAge # 0 PROVE AgeGate(t, c) = "ok"
      BY DEF AgeGate
    <2>1. u.age # None /\ ~(u.age < d.minAge)
      BY <1>4 DEF AgeGate
    <2>2. t.age # None /\ ~(t.age < c.minAge)
      <3>1. u.age = t.age /\ t.age \in Nat \cup {None}
        BY <1>1, <1>2
      <3> QED BY <1>f, <2>1, <3>1
    <2> QED BY <2>2 DEF AgeGate
  <1>11. SecurityFailures(u, d) = {} => SecurityFailures(t, c) = {}
    <2> SUFFICES ASSUME SecurityFailures(u, d) = {} PROVE SecurityFailures(t, c) = {}
      OBVIOUS
    <2>1. /\ ~u.wash /\ ~u.honeypot
          /\ ~(u.tax # None /\ u.tax > 10) /\ ~(u.rug # None /\ u.rug >= d.maxRug)
          /\ ~(u.insider # None /\ u.insider >= d.maxRat) /\ ~(u.top10 # None /\ u.top10 >= d.maxTop10)
      BY DEF SecurityFailures
    <2>2. /\ ~t.wash /\ ~t.honeypot
          /\ ~(t.tax # None /\ t.tax > 10) /\ ~(t.rug # None /\ t.rug >= c.maxRug)
          /\ ~(t.insider # None /\ t.insider >= c.maxRat) /\ ~(t.top10 # None /\ t.top10 >= c.maxTop10)
      BY <1>1, <1>3, <1>4, <2>1 DEF None
    <2> QED BY <2>2 DEF SecurityFailures
  <1>12. FeeGate(u, d, native) = "ok" => FeeGate(t, c, native) = "ok"
    <2> SUFFICES ASSUME FeeGate(u, d, native) = "ok", c.minFee # 0 PROVE FeeGate(t, c, native) = "ok"
      BY DEF FeeGate
    <2>1. d.minFee # 0
      BY <1>4
    <2>2. u.fee # None /\ native > 0 /\ ~(u.fee * native < d.minFee)
      BY <2>1 DEF FeeGate
    <2>3. u.fee \in Nat /\ t.fee \in Nat /\ u.fee <= t.fee
      BY <1>1, <1>3, <2>2 DEF None
    <2>4. u.fee * native \in Int /\ t.fee * native \in Int /\ u.fee * native <= t.fee * native
      BY <2>2, <2>3, FeeOrder
    <2> DEFINE p == t.fee * native
               q == u.fee * native
    <2>5. ~(p < c.minFee)
      <3> HIDE DEF p, q
      <3> QED BY <1>4, <2>2, <2>4 DEF p, q
    <2> QED BY <2>2, <2>3, <2>5 DEF FeeGate, None
  <1> QED
    BY <1>2, <1>5, <1>7, <1>8, <1>9, <1>10, <1>11, <1>12, PreFilterIs

\* Floors that stay in order: the strategy replaces the same ones of both, the
\* second try resets the same three of both.
LEMMA StrategyOrder ==
    ASSUME NEW c \in [Floor -> Nat], NEW d \in [Floor -> Nat], StricterFloors(c, d),
           NEW params, \A k \in DOMAIN params : params[k] \in Int
    PROVE  StricterFloors(StrategyConfig(c, params), StrategyConfig(d, params))
  <1>1. \A k \in Floor : /\ StrategyConfig(c, params)[k] = IF k \in DOMAIN params /\ params[k] > 0 THEN params[k] ELSE c[k]
                         /\ StrategyConfig(d, params)[k] = IF k \in DOMAIN params /\ params[k] > 0 THEN params[k] ELSE d[k]
    BY DEF StrategyConfig
  <1>2. \A k \in Floor : c[k] \in Nat /\ d[k] \in Nat
    OBVIOUS
  <1> QED BY <1>1, <1>2 DEF StricterFloors, Floor

LEMMA DefaultsOrder ==
    ASSUME NEW c \in [Floor -> Nat], NEW d \in [Floor -> Nat], StricterFloors(c, d)
    PROVE  StricterFloors(GateDefaults(c), GateDefaults(d))
  <1>1. \A k \in Floor : /\ GateDefaults(c)[k] = IF k = "maxRug" \/ k = "maxRat" THEN 30 ELSE IF k = "maxTop10" THEN 40 ELSE c[k]
                         /\ GateDefaults(d)[k] = IF k = "maxRug" \/ k = "maxRat" THEN 30 ELSE IF k = "maxTop10" THEN 40 ELSE d[k]
    BY DEF GateDefaults
  <1> QED BY <1>1 DEF StricterFloors, Floor

\* What a batch answer puts in the place of a fresh pair's figures.
LEMMA HydratedFields ==
    ASSUME NEW t, FieldsTyped(t), NEW data, \A x \in data : {x.price, x.liq, x.vol, x.vol24} \subseteq Nat \cup {None}
    PROVE  LET h == Hydrate(t, data)
               d == CHOOSE x \in data : TRUE
           IN  /\ FieldsTyped(h)
               /\ ~t.fresh \/ data = {} => h = t
               /\ t.fresh /\ data # {} =>
                    /\ h.price = (IF d.price > 0 THEN d.price ELSE t.price)
                    /\ h.liq = (IF d.liq # None THEN d.liq ELSE t.liq)
                    /\ h.vol24 = (IF d.vol24 # None THEN d.vol24 ELSE 0)
                    /\ h.vol = (IF d.vol # None THEN d.vol ELSE IF d.vol24 > 0 THEN d.vol24 \div 24 ELSE t.vol)
               /\ \A f \in Flag \cup Fraction \cup Count \cup {"source", "exchange", "mcap"} : h[f] = t[f]
  <1> DEFINE d == CHOOSE x \in data : TRUE
             h == Hydrate(t, data)
             kept == Flag \cup Fraction \cup Count \cup {"source", "exchange", "mcap"}
  <1>1. CASE ~t.fresh \/ data = {}
    <2>1. h = t
      BY <1>1 DEF Hydrate
    <2> HIDE DEF h
    <2> QED BY <1>1, <2>1 DEF h
  <1>2. CASE t.fresh /\ data # {}
    <2>1. d \in data
      BY <1>2
    <2>2. d.price \in Nat \cup {None} /\ d.liq \in Nat \cup {None} /\ d.vol \in Nat \cup {None} /\ d.vol24 \in Nat \cup {None}
      BY <2>1
    <2>3. h = [t EXCEPT !.price = IF d.price > 0 THEN d.price ELSE @,
                       !.liq = IF d.liq # None THEN d.liq ELSE @,
                       !.vol24 = IF d.vol24 # None THEN d.vol24 ELSE 0,
                       !.vol = IF d.vol # None THEN d.vol
                               ELSE IF d.vol24 > 0 THEN d.vol24 \div 24 ELSE @]
      BY <1>2 DEF Hydrate
    <2> HIDE DEF h, d
    <2>4. DOMAIN h = DOMAIN t
      BY <2>3
    <2>5. MarketFigure \cup kept \subseteq DOMAIN t
      BY DEF FieldsTyped, MarketFigure
    <2>6. {"price", "liq", "vol24", "vol"} \subseteq DOMAIN t
      BY <2>5 DEF MarketFigure
    <2>7. /\ h.price = (IF d.price > 0 THEN d.price ELSE t.price)
          /\ h.liq = (IF d.liq # None THEN d.liq ELSE t.liq)
          /\ h.vol24 = (IF d.vol24 # None THEN d.vol24 ELSE 0)
          /\ h.vol = (IF d.vol # None THEN d.vol ELSE IF d.vol24 > 0 THEN d.vol24 \div 24 ELSE t.vol)
      BY <2>3, <2>6
    <2>8. \A f \in kept : f \notin {"price", "liq", "vol24", "vol"}
      BY DEF Flag, Fraction, Count
    <2>9. \A f \in kept : h[f] = t[f]
      BY <2>3, <2>5, <2>8
    <2>10. FieldsTyped(h)
      <3>1. t.price \in Nat /\ t.liq \in Nat /\ t.vol \in Nat /\ t.mcap \in Nat
        BY RowFields
      <3>2. h.mcap = t.mcap
        BY <2>9
      <3>3. d.vol24 > 0 => d.vol24 \div 24 \in Nat
        BY <2>2 DEF None
      <3>4. h.price \in Nat /\ h.liq \in Nat /\ h.vol24 \in Nat /\ h.vol \in Nat /\ h.mcap \in Nat
        BY <2>2, <2>7, <3>1, <3>2, <3>3 DEF None
      <3>5. \A f \in MarketFigure : h[f] \in Nat
        BY <3>4 DEF MarketFigure
      <3>6. /\ \A f \in Flag : h[f] \in BOOLEAN
            /\ \A f \in Fraction : h[f] \in Nat \cup {None}
            /\ \A f \in Count : h[f] \in Int
        BY <2>9 DEF FieldsTyped
      <3> QED BY <2>4, <2>5, <3>5, <3>6 DEF FieldsTyped
    <2> QED BY <1>2, <2>7, <2>9, <2>10 DEF h, d
  <1> QED BY <1>1, <1>2

LEMMA HydrateOrder ==
    ASSUME NEW t, NEW u, FieldsTyped(t), FieldsTyped(u), WorseRow(t, u),
           NEW data, \A x \in data : {x.price, x.liq, x.vol, x.vol24} \subseteq Nat \cup {None}
    PROVE  /\ FieldsTyped(Hydrate(t, data)) /\ FieldsTyped(Hydrate(u, data))
           /\ WorseRow(Hydrate(t, data), Hydrate(u, data))
           /\ Hydrate(t, data).fresh = t.fresh
  <1> DEFINE g == Hydrate(t, data)
             h == Hydrate(u, data)
             d == CHOOSE x \in data : TRUE
  <1>1. /\ FieldsTyped(g)
        /\ ~t.fresh \/ data = {} => g = t
        /\ t.fresh /\ data # {} =>
             /\ g.price = (IF d.price > 0 THEN d.price ELSE t.price)
             /\ g.liq = (IF d.liq # None THEN d.liq ELSE t.liq)
             /\ g.vol24 = (IF d.vol24 # None THEN d.vol24 ELSE 0)
             /\ g.vol = (IF d.vol # None THEN d.vol ELSE IF d.vol24 > 0 THEN d.vol24 \div 24 ELSE t.vol)
        /\ \A f \in Flag \cup Fraction \cup Count \cup {"source", "exchange", "mcap"} : g[f] = t[f]
    BY HydratedFields
  <1>2. /\ FieldsTyped(h)
        /\ ~u.fresh \/ data = {} => h = u
        /\ u.fresh /\ data # {} =>
             /\ h.price = (IF d.price > 0 THEN d.price ELSE u.price)
             /\ h.liq = (IF d.liq # None THEN d.liq ELSE u.liq)
             /\ h.vol24 = (IF d.vol24 # None THEN d.vol24 ELSE 0)
             /\ h.vol = (IF d.vol # None THEN d.vol ELSE IF d.vol24 > 0 THEN d.vol24 \div 24 ELSE u.vol)
        /\ \A f \in Flag \cup Fraction \cup Count \cup {"source", "exchange", "mcap"} : h[f] = u[f]
    BY HydratedFields
  <1>3. /\ u.fresh = t.fresh /\ u.price = t.price
        /\ t.fresh => u.liq = t.liq /\ u.vol = t.vol /\ u.mcap = t.mcap
    <2>1. /\ u.fresh = t.fresh /\ u.price = t.price
          /\ u.vol \in IF t.fresh THEN {t.vol} ELSE 0..t.vol
          /\ u.liq \in IF t.fresh THEN {t.liq} ELSE 0..t.liq
          /\ u.mcap \in IF t.fresh THEN {t.mcap} ELSE 0..t.mcap
      <3>1. u.fresh = t.fresh /\ u.price = t.price
        BY KeptFields
      <3>2. /\ u.vol \in IF t.fresh THEN {t.vol} ELSE 0..t.vol
            /\ u.liq \in IF t.fresh THEN {t.liq} ELSE 0..t.liq
            /\ u.mcap \in IF t.fresh THEN {t.mcap} ELSE 0..t.mcap
        BY WorseRowFields
      <3> QED BY <3>1, <3>2
    <2> QED BY <2>1
  <1> HIDE DEF g, h, d
  <1>4. g.fresh = t.fresh
    BY <1>1 DEF Flag
  <1>5. CASE ~t.fresh \/ data = {}
    BY <1>1, <1>2, <1>3, <1>4, <1>5 DEF g, h
  <1>6. CASE t.fresh /\ data # {}
    <2>1. h.price = g.price /\ h.liq = g.liq /\ h.vol24 = g.vol24 /\ h.vol = g.vol /\ h.mcap = g.mcap
      BY <1>1, <1>2, <1>3, <1>6
    <2>2. \A f \in Count \cup {"source", "exchange", "fresh", "cto", "closed", "unavailable", "age"} : h[f] = g[f]
      <3>1. \A f \in Count \cup {"source", "exchange", "fresh", "cto", "closed", "unavailable", "age"} :
               u[f] = t[f] /\ f \in Flag \cup Fraction \cup Count \cup {"source", "exchange", "mcap"}
        BY DEF WorseRow, Flag, Fraction
      <3> QED BY <1>1, <1>2, <3>1
    <2>3. \A f \in Count \cup {"source", "exchange", "fresh", "cto", "closed", "unavailable", "age", "price", "vol24"} :
             h[f] = g[f]
      BY <2>1, <2>2
    <2>4. \A f \in {"wash", "honeypot", "tax", "rug", "insider", "top10", "fee"} : h[f] = u[f] /\ g[f] = t[f]
      BY <1>1, <1>2 DEF Flag, Fraction
    <2>5. /\ \A f \in {"wash", "honeypot"} : g[f] => h[f]
          /\ \A f \in {"tax", "rug", "insider", "top10"} : IF g[f] = None THEN h[f] = None ELSE h[f] >= g[f]
          /\ h.fee <= g.fee
      BY <2>4 DEF WorseRow
    <2>6. \A f \in {"vol", "liq", "mcap"} : h[f] \in IF g.fresh THEN {g[f]} ELSE 0..g[f]
      BY <1>4, <1>6, <2>1
    <2>7. WorseRow(g, h)
      BY <2>3, <2>5, <2>6 DEF WorseRow
    <2> QED BY <1>1, <1>2, <1>4, <2>7 DEF g, h
  <1> QED BY <1>5, <1>6

SignalKind == {"NONE", "CTO", "REVIVAL", "MOMENTUM"}

\* A signal at least as strong: of the same type, wherever the other is one.
Stronger(s, r) ==
    /\ s \in [type : SignalKind, conf : 0..100] /\ r \in [type : SignalKind, conf : 0..100]
    /\ r.type # "NONE" => s.type = r.type /\ r.conf <= s.conf

LEMMA SignalOrder ==
    ASSUME NEW type \in SignalKind, NEW p \in Int, NEW q \in Int, q <= p
    PROVE  Stronger(Signal(type, p), Signal(type, q))
  <1>1. Clamp100(p) \in 0..100 /\ Clamp100(q) \in 0..100 /\ Clamp100(q) <= Clamp100(p)
    BY DEF Clamp100
  <1> QED BY <1>1 DEF Stronger, Signal

LEMMA DetectOrder ==
    ASSUME NEW t, NEW u, FieldsTyped(t), FieldsTyped(u), WorseRow(t, u)
    PROVE  Stronger(Detect(t), Detect(u)) /\ Readouts(u) = Readouts(t) /\ Readouts(t) \in 0..3
  <1>1. /\ t.vol \in Nat /\ u.vol \in Nat /\ t.vol24 \in Nat /\ t.liq \in Nat
        /\ t.top10 \in Nat \cup {None} /\ u.top10 \in Nat \cup {None}
        /\ t.fresh \in BOOLEAN /\ t.age \in Nat \cup {None}
    BY RowFields
  <1>2. /\ t.smart \in Int /\ t.kol \in Int /\ t.dev \in Int /\ t.up5m \in Int
        /\ t.up1h \in Int /\ t.buyPct \in Int /\ t.visits \in Int
    BY RowFields
  <1>3. /\ u.source = t.source /\ u.fresh = t.fresh /\ u.cto = t.cto /\ u.closed = t.closed
        /\ u.age = t.age /\ u.vol24 = t.vol24 /\ u.smart = t.smart /\ u.kol = t.kol /\ u.dev = t.dev
        /\ u.up5m = t.up5m /\ u.up1h = t.up1h /\ u.buyPct = t.buyPct /\ u.visits = t.visits
    BY KeptFields
  <1>4. /\ IF t.top10 = None THEN u.top10 = None ELSE u.top10 >= t.top10
        /\ u.vol \in IF t.fresh THEN {t.vol} ELSE 0..t.vol
        /\ u.liq \in IF t.fresh THEN {t.liq} ELSE 0..t.liq
    BY WorseRowFields
  <1>5. u.vol <= t.vol /\ (t.fresh => u.vol = t.vol /\ u.liq = t.liq)
    <2>1. \A n, m \in Nat : m \in (IF t.fresh THEN {n} ELSE 0..n) => m <= n
      OBVIOUS
    <2> QED BY <1>1, <1>4, <2>1
  <1>6. Readouts(u) = Readouts(t) /\ Readouts(t) \in 0..3
    BY <1>2, <1>3 DEF Readouts, At
  <1>7. Volume24(t) \in Nat /\ Volume24(u) \in Nat /\ Volume24(u) <= Volume24(t)
    BY <1>1, <1>3, <1>5 DEF Volume24
  <1>8. Volume24(u) >= 100 => Volume24(t) >= 100
    BY <1>7
  <1>9. CtoScore(t) \in Int /\ CtoScore(u) \in Int /\ CtoScore(u) <= CtoScore(t)
    BY <1>3, <1>8 DEF CtoScore, At
  <1>10. RevivalScore(t) \in Int /\ RevivalScore(u) \in Int /\ RevivalScore(u) <= RevivalScore(t)
    BY <1>3, <1>8 DEF RevivalScore, At
  <1>11. MomentumScore(t) \in Int /\ MomentumScore(u) \in Int /\ MomentumScore(u) <= MomentumScore(t)
    <2>1. u.top10 # None /\ u.top10 < 30 => t.top10 # None /\ t.top10 < 30
      BY <1>1, <1>4
    <2> QED BY <1>3, <1>8, <2>1 DEF MomentumScore, At
  <1>12. /\ Stronger(Signal("CTO", CtoScore(t)), Signal("CTO", CtoScore(u)))
         /\ Stronger(Signal("REVIVAL", RevivalScore(t)), Signal("REVIVAL", RevivalScore(u)))
         /\ Stronger(Signal("MOMENTUM", MomentumScore(t)), Signal("MOMENTUM", MomentumScore(u)))
    <2>0. "CTO" \in SignalKind /\ "REVIVAL" \in SignalKind /\ "MOMENTUM" \in SignalKind
      BY DEF SignalKind
    <2>1. Stronger(Signal("CTO", CtoScore(t)), Signal("CTO", CtoScore(u)))
      BY <1>9, <2>0, SignalOrder, Zenon
    <2>2. Stronger(Signal("REVIVAL", RevivalScore(t)), Signal("REVIVAL", RevivalScore(u)))
      BY <1>10, <2>0, SignalOrder, Zenon
    <2>3. Stronger(Signal("MOMENTUM", MomentumScore(t)), Signal("MOMENTUM", MomentumScore(u)))
      BY <1>11, <2>0, SignalOrder, Zenon
    <2> QED BY <2>1, <2>2, <2>3
  <1>13. Stronger(NoSignal, NoSignal) /\ Stronger(Signal("MOMENTUM", MomentumScore(t)), NoSignal)
    <2>1. Clamp100(MomentumScore(t)) \in 0..100 /\ Clamp100(0) = 0
      BY <1>11 DEF Clamp100
    <2>2. NoSignal = [type |-> "NONE", conf |-> 0]
      BY <2>1 DEF NoSignal, Signal
    <2>3. Signal("MOMENTUM", MomentumScore(t)) \in [type : SignalKind, conf : 0..100] /\ NoSignal \in [type : SignalKind, conf : 0..100]
      BY <2>1, <2>2 DEF Signal, SignalKind
    <2> QED BY <2>2, <2>3 DEF Stronger
  <1> DEFINE idle(x) == Readouts(x) = 0 /\ ~(x.fresh /\ (x.vol > 0 \/ x.vol24 > 0 \/ x.liq > 0))
             cto(x) == x.cto /\ x.source = "gmgn"
             rev(x) == x.age # None /\ x.age >= 4 /\ x.up1h > 50
  <1>14. (idle(u) <=> idle(t)) /\ (cto(u) <=> cto(t)) /\ (rev(u) <=> rev(t))
    BY <1>1, <1>3, <1>5, <1>6
  <1>15. /\ Detect(t) = (IF idle(t) THEN NoSignal ELSE IF cto(t) THEN Signal("CTO", CtoScore(t))
                         ELSE IF rev(t) THEN Signal("REVIVAL", RevivalScore(t))
                         ELSE IF MomentumScore(t) > 0 THEN Signal("MOMENTUM", MomentumScore(t)) ELSE NoSignal)
         /\ Detect(u) = (IF idle(u) THEN NoSignal ELSE IF cto(u) THEN Signal("CTO", CtoScore(u))
                         ELSE IF rev(u) THEN Signal("REVIVAL", RevivalScore(u))
                         ELSE IF MomentumScore(u) > 0 THEN Signal("MOMENTUM", MomentumScore(u)) ELSE NoSignal)
    BY DEF Detect
  <1> HIDE DEF idle, cto, rev
  <1> QED BY <1>6, <1>11, <1>12, <1>13, <1>14, <1>15

LEMMA BoostedOrder ==
    ASSUME NEW s, NEW r, Stronger(s, r), NEW minsAgo \in Int
    PROVE  Stronger(Boosted(s, minsAgo), Boosted(r, minsAgo))
  <1>1. SignalBonus(minsAgo) \in 0..15
    BY DEF SignalBonus
  <1>2. s.type \in SignalKind /\ r.type \in SignalKind /\ s.conf \in 0..100 /\ r.conf \in 0..100
    BY DEF Stronger
  <1>n. s.conf \in Int /\ r.conf \in Int
    BY <1>2
  <1>3. CASE r.type = "NONE"
    <2>1. Boosted(r, minsAgo) = r
      BY <1>3 DEF Boosted
    <2>2. Clamp100(s.conf + SignalBonus(minsAgo)) \in 0..100
      <3>1. s.conf + SignalBonus(minsAgo) \in Int
        BY <1>1, <1>n
      <3> QED BY <3>1, ClampBounds
    <2> QED BY <1>2, <1>3, <2>1, <2>2 DEF Stronger, Boosted, Signal
  <1>4. CASE r.type # "NONE"
    <2>1. s.type = r.type /\ r.conf <= s.conf
      BY <1>4 DEF Stronger
    <2>2. Boosted(r, minsAgo) = Signal(s.type, r.conf + SignalBonus(minsAgo))
          /\ Boosted(s, minsAgo) = Signal(s.type, s.conf + SignalBonus(minsAgo))
      BY <1>4, <2>1 DEF Boosted
    <2>3. /\ r.conf + SignalBonus(minsAgo) \in Int /\ s.conf + SignalBonus(minsAgo) \in Int
          /\ r.conf + SignalBonus(minsAgo) <= s.conf + SignalBonus(minsAgo)
      BY <1>1, <1>n, <2>1
    <2> QED BY <1>2, <2>2, <2>3, SignalOrder
  <1> QED BY <1>3, <1>4

LEMMA ClusteredOrder ==
    ASSUME NEW s, NEW r, Stronger(s, r), NEW wallets \in Int
    PROVE  Stronger(Clustered(s, wallets), Clustered(r, wallets))
  <1>1. s.type \in SignalKind /\ r.type \in SignalKind /\ s.conf \in 0..100 /\ r.conf \in 0..100
    BY DEF Stronger
  <1>n. s.conf \in Int /\ r.conf \in Int
    BY <1>1
  <1>2. CASE ~(wallets >= 3)
    BY <1>2 DEF Clustered
  <1>3. CASE wallets >= 3 /\ r.type = "NONE"
    <2>1. Clustered(r, wallets) = r
      BY <1>3 DEF Clustered
    <2>2. Clamp100(s.conf + 20) \in 0..100
      BY <1>n, ClampBounds
    <2> QED BY <1>1, <1>3, <2>1, <2>2 DEF Stronger, Clustered, Signal
  <1>4. CASE wallets >= 3 /\ r.type # "NONE"
    <2>1. s.type = r.type /\ r.conf <= s.conf
      BY <1>4 DEF Stronger
    <2>2. Clustered(r, wallets) = Signal(s.type, r.conf + 20) /\ Clustered(s, wallets) = Signal(s.type, s.conf + 20)
      BY <1>4, <2>1 DEF Clustered
    <2>3. r.conf + 20 \in Int /\ s.conf + 20 \in Int /\ r.conf + 20 <= s.conf + 20
      BY <1>n, <2>1
    <2> QED BY <1>1, <2>2, <2>3, SignalOrder
  <1> QED BY <1>2, <1>3, <1>4

LEMMA EvidenceCapOrder ==
    ASSUME NEW k \in 0..5, NEW p \in 0..100, NEW q \in 0..100
    PROVE  /\ EvidenceCap(p, k) \in 0..100 /\ EvidenceCap(q, k) \in 0..100
           /\ q <= p => EvidenceCap(q, k) <= EvidenceCap(p, k)
  BY DEF EvidenceCap, Clamp100

LEMMA ConfidenceOrder ==
    ASSUME NEW t, NEW u, FieldsTyped(t), FieldsTyped(u), WorseRow(t, u), NEW minsAgo \in Int, NEW wallets \in Int
    PROVE  Stronger(Confidence(t, minsAgo, wallets), Confidence(u, minsAgo, wallets))
  <1> DEFINE s(x) == Clustered(Boosted(Detect(x), minsAgo), wallets)
             n(x) == Readouts(x) + At(minsAgo # None, 1) + At(wallets >= 3, 1)
  <1>1. Stronger(s(t), s(u)) /\ n(u) = n(t) /\ n(t) \in 0..5
    <2>1. Stronger(Detect(t), Detect(u)) /\ Readouts(u) = Readouts(t) /\ Readouts(t) \in 0..3
      BY DetectOrder
    <2>2. Stronger(Boosted(Detect(t), minsAgo), Boosted(Detect(u), minsAgo))
      BY <2>1, BoostedOrder
    <2>3. Stronger(s(t), s(u))
      BY <2>2, ClusteredOrder
    <2> QED BY <2>1, <2>3 DEF At
  <1>2. /\ Confidence(t, minsAgo, wallets) = [s(t) EXCEPT !.conf = EvidenceCap(s(t).conf, n(t))]
        /\ Confidence(u, minsAgo, wallets) = [s(u) EXCEPT !.conf = EvidenceCap(s(u).conf, n(t))]
    BY <1>1 DEF Confidence
  <1> HIDE DEF s, n
  <1> DEFINE p == s(t)
             q == s(u)
             k == n(t)
  <1>4. /\ p \in [type : SignalKind, conf : 0..100] /\ q \in [type : SignalKind, conf : 0..100]
        /\ q.type # "NONE" => p.type = q.type /\ q.conf <= p.conf
    BY <1>1 DEF Stronger
  <1>5. k \in 0..5
    BY <1>1
  <1> HIDE DEF p, q, k
  <1>6. p.conf \in 0..100 /\ q.conf \in 0..100
    BY <1>4
  <1>7. /\ EvidenceCap(p.conf, k) \in 0..100 /\ EvidenceCap(q.conf, k) \in 0..100
        /\ q.conf <= p.conf => EvidenceCap(q.conf, k) <= EvidenceCap(p.conf, k)
    BY <1>5, <1>6, EvidenceCapOrder
  <1>8. Stronger([p EXCEPT !.conf = EvidenceCap(p.conf, k)], [q EXCEPT !.conf = EvidenceCap(q.conf, k)])
    BY <1>4, <1>7 DEF Stronger
  <1> QED BY <1>2, <1>8 DEF p, q, k

LEMMA StrategyBlendOrder ==
    ASSUME NEW p \in 0..100, NEW q \in 0..100, q <= p, NEW view, view.conf \in Int
    PROVE  Blend(p, view) \in Int /\ Blend(q, view) \in Int /\ Blend(q, view) <= Blend(p, view)
  <1>1. Clamp100(view.conf) \in 0..100
    BY ClampBounds
  <1> QED BY <1>1 DEF Blend

\* What a reported row has passed.
LEMMA ReportedIs ==
    ASSUME NEW r
    PROVE  LET h == Hydrate(r.t, r.in.data)
               s == Confidence(h, r.in.minsAgo, r.in.wallets)
           IN  Reported(r) <=>
                 /\ Graduated(r.t)
                 /\ PreFilter(r.t, StrategyConfig(r.cfg, r.in.params), r.in.native) = "ok"
                 /\ Revalidate(h, r.cfg, r.in.native) = "ok"
                 /\ AuditPasses(r.in.evm, r.in.goplus, r.in.gmgn)
                 /\ ~(s.type = "NONE" \/ s.conf < r.cfg.pass)
                 /\ ~r.in.verdict.skip
                 /\ ~(Blend(s.conf, r.in.verdict) < r.cfg.pass)
  BY Zenon DEF Reported, Stage

LEMMA AuditOrder ==
    ASSUME NEW i, NEW j, WorseAudits(i, j), AuditPasses(j.evm, j.goplus, j.gmgn)
    PROVE  AuditPasses(i.evm, i.goplus, i.gmgn)
  <1>1. /\ IF i.goplus = {{}} THEN j.goplus # {} ELSE j.goplus = i.goplus
        /\ IF i.gmgn = {{}} THEN j.gmgn # {} ELSE j.gmgn = i.gmgn
        /\ j.evm = i.evm
    BY DEF WorseAudits
  <1>2. {{}} # {}
    OBVIOUS
  <1> QED BY <1>1, <1>2 DEF AuditPasses

\* A worse row, a failed audit or a stricter floor: the second half of
\* RiskNeverHelps.
LEMMA WorseRowNeverHelps ==
    ASSUME RowTyped, RowTyped', Worsened(row, row'), Reported(row')
    PROVE  Reported(row)
  <1> DEFINE t == row.t
             u == row'.t
             c == row.cfg
             d == row'.cfg
             i == row.in
             j == row'.in
             g == Hydrate(t, i.data)
             h == Hydrate(u, i.data)
             s == Confidence(g, i.minsAgo, i.wallets)
             r == Confidence(h, i.minsAgo, i.wallets)
  <1>1. FieldsTyped(t) /\ FieldsTyped(u)
    BY DEF RowTyped, FieldsTyped
  <1>2. /\ c \in [Floor -> Nat] /\ d \in [Floor -> Nat]
        /\ DOMAIN i.params \subseteq Tunable /\ \A k \in DOMAIN i.params : i.params[k] \in Int
        /\ i.native \in Int /\ i.minsAgo \in Int /\ i.wallets \in Int /\ i.verdict.conf \in Int
        /\ \A x \in i.data : {x.price, x.liq, x.vol, x.vol24} \subseteq Nat \cup {None}
    BY DEF RowTyped
  <1>3. /\ WorseRow(t, u) /\ StricterFloors(c, d) /\ WorseAudits(i, j)
        /\ j.data = i.data /\ j.params = i.params /\ j.verdict = i.verdict /\ j.minsAgo = i.minsAgo
        /\ j.wallets = i.wallets /\ j.native = i.native
    BY DEF Worsened, WorseAudits
  <1>4. /\ Graduated(u)
        /\ PreFilter(u, StrategyConfig(d, i.params), i.native) = "ok"
        /\ Revalidate(h, d, i.native) = "ok"
        /\ AuditPasses(j.evm, j.goplus, j.gmgn)
        /\ ~(r.type = "NONE" \/ r.conf < d.pass)
        /\ ~i.verdict.skip
        /\ ~(Blend(r.conf, i.verdict) < d.pass)
    <2> HIDE DEF t, c, i
    <2>1. LET hh == Hydrate(u, j.data)
              rr == Confidence(hh, j.minsAgo, j.wallets)
          IN  /\ Graduated(u)
              /\ PreFilter(u, StrategyConfig(d, j.params), j.native) = "ok"
              /\ Revalidate(hh, d, j.native) = "ok"
              /\ AuditPasses(j.evm, j.goplus, j.gmgn)
              /\ ~(rr.type = "NONE" \/ rr.conf < d.pass)
              /\ ~j.verdict.skip
              /\ ~(Blend(rr.conf, j.verdict) < d.pass)
      BY ReportedIs
    <2> HIDE DEF u, d, j
    <2> QED BY <1>3, <2>1
  <1> HIDE DEF t, u, c, d, i, j
  <1>5. /\ FieldsTyped(g) /\ FieldsTyped(h) /\ WorseRow(g, h) /\ g.fresh = t.fresh
    BY <1>1, <1>2, <1>3, HydrateOrder
  <1>6. Graduated(t)
    BY <1>3, <1>4, KeptFields DEF Graduated
  <1>7. PreFilter(t, StrategyConfig(c, i.params), i.native) = "ok"
    <2>1. /\ StrategyConfig(c, i.params) \in [Floor -> Nat] /\ StrategyConfig(d, i.params) \in [Floor -> Nat]
      BY <1>2, StrategyFloors
    <2>2. StricterFloors(StrategyConfig(c, i.params), StrategyConfig(d, i.params))
      BY <1>2, <1>3, StrategyOrder
    <2> QED BY <1>1, <1>2, <1>3, <1>4, <2>1, <2>2, PreFilterOrder
  <1>8. AuditPasses(i.evm, i.goplus, i.gmgn)
    BY <1>3, <1>4, AuditOrder
  <1>9. Stronger(s, r)
    BY <1>2, <1>5, ConfidenceOrder
  <1> HIDE DEF g, h
  <1>10. Revalidate(g, c, i.native) = "ok"
    <2>1. /\ h.fresh = g.fresh /\ h.price = g.price /\ h.vol24 = g.vol24
      BY <1>5, KeptFields
    <2>2. g.fresh => h.liq = g.liq
      <3>1. h.liq \in IF g.fresh THEN {g.liq} ELSE 0..g.liq
        BY <1>5, WorseRowFields
      <3> QED BY <3>1
    <2>3. CASE g.fresh /\ (g.price > 0 \/ g.liq > 0 \/ g.vol24 > 0)
      <3>1. PreFilter(h, GateDefaults(d), i.native) = "ok"
        BY <1>4, <2>1, <2>2, <2>3 DEF Revalidate
      <3>2. GateDefaults(c) \in [Floor -> Nat] /\ GateDefaults(d) \in [Floor -> Nat]
        BY <1>2, DefaultFloors
      <3>3. StricterFloors(GateDefaults(c), GateDefaults(d))
        BY <1>2, <1>3, DefaultsOrder
      <3>4. PreFilter(g, GateDefaults(c), i.native) = "ok"
        BY <1>2, <1>5, <3>1, <3>2, <3>3, PreFilterOrder
      <3> QED BY <3>4 DEF Revalidate
    <2>4. CASE ~(g.fresh /\ (g.price > 0 \/ g.liq > 0 \/ g.vol24 > 0))
      BY <2>4 DEF Revalidate
    <2> QED BY <2>3, <2>4
  <1> HIDE DEF s, r
  <1>11. /\ s.conf \in 0..100 /\ r.conf \in 0..100
         /\ s.type = r.type /\ r.type # "NONE" /\ r.conf <= s.conf
    BY <1>4, <1>9 DEF Stronger
  <1>12. c.pass \in Nat /\ d.pass \in Nat /\ c.pass <= d.pass
    BY <1>2, <1>3, StricterFields
  <1>13. ~(s.type = "NONE" \/ s.conf < c.pass)
    BY <1>4, <1>11, <1>12
  <1>14. ~(Blend(s.conf, i.verdict) < c.pass)
    <2>1. /\ Blend(s.conf, i.verdict) \in Int /\ Blend(r.conf, i.verdict) \in Int
          /\ Blend(r.conf, i.verdict) <= Blend(s.conf, i.verdict)
      BY <1>2, <1>11, StrategyBlendOrder
    <2> QED BY <1>4, <1>12, <2>1
  <1> QED
    BY <1>4, <1>6, <1>7, <1>8, <1>10, <1>13, <1>14, ReportedIs DEF t, c, i, g, s

\* Whatever the finalist and the row, the candidates, the floors and the answers
\* are, and whatever the gate remembers: RiskNeverHelps.
THEOREM RiskNeverPays == PassSpec => RiskNeverHelps
  <1> DEFINE Study ==
               study' # study /\ study'.quant = study.quant /\ WorseEvidence(study.e, study'.e) =>
                 LET before == Consolidate(study.e, study.quant)
                     after == Consolidate(study'.e, study.quant)
                 IN  /\ after.security <= before.security
                     /\ \A c \in Candidates :
                          Allows(c, after, study.quant) => Allows(c, before, study.quant) \/ Carried(c, before)
             Row == row' # row /\ Worsened(row, row') /\ Reported(row') => Reported(row)
  <1>1. GateInv /\ GateInv' => Study /\ Row
    <2> SUFFICES ASSUME GateInv, GateInv' PROVE Study /\ Row
      OBVIOUS
    <2>1. RowTyped /\ RowTyped' /\ StudyTyped /\ StudyTyped'
      BY DEF GateInv, TypeOK
    <2>2. Row
      BY <2>1, WorseRowNeverHelps
    <2>3. Study
      <3> SUFFICES ASSUME study'.quant = study.quant, WorseEvidence(study.e, study'.e) PROVE Study
        OBVIOUS
      <3>1. EvidenceTyped(study.e) /\ EvidenceTyped(study'.e) /\ study.quant \in Nat \ {0}
        BY <2>1 DEF StudyTyped
      <3>2. LET before == Consolidate(study.e, study.quant)
                after == Consolidate(study'.e, study.quant)
            IN  /\ after.security <= before.security
                /\ \A c \in Candidates :
                     Allows(c, after, study.quant) => Allows(c, before, study.quant) \/ Carried(c, before)
        BY <3>1, WorseEvidenceNeverHelps, SlotsOrder
      <3> QED BY <3>2
    <2> QED BY <2>2, <2>3
  <1>2. PassSpec => []GateInv
    BY GateInitInv, PassNextInv, PTL DEF PassSpec, PassNext
  <1>3. PassSpec => [][Study /\ Row]_<<study, row>>
    BY <1>1, <1>2, PTL
  <1> QED BY <1>3, PTL DEF RiskNeverHelps

=============================================================================
