-------------------------------- MODULE Swarm --------------------------------
(***************************************************************************)
(* The consensus gate (src/orchestrator/swarm-consensus.ts with            *)
(* swarm-guards.ts, and gateSignal in src/index.ts): the weighted average  *)
(* of the slots that rendered, the guards in front of it and behind it,    *)
(* and what the engine remembers between two candidates: the circuit, the  *)
(* direction intents and the conviction held for a symbol.  The weights of *)
(* the average are learned (swarm-learning.ts) and move with every call    *)
(* that closes.                                                            *)
(*                                                                         *)
(* The clock counts minutes.  A candidate names its token only for the     *)
(* reader: the gate keys what it remembers by the symbol.                  *)
(***************************************************************************)
EXTENDS Voters

CONSTANTS
    Candidates,      \* candidates the agent may hand to the gate
    ConvictionTTL,   \* StickyConviction's ttl, in minutes
    Cooldown,        \* the circuit's cooldown and the life of an intent
    LearnedAtStart,  \* the emphases the learning file may hold at start
    MaxNow           \* bound on the clock

\* The emphases outcomes can have taught, in per cent.  A success raises two of
\* them, a loss the third; nothing lowers one, and the fourth never moves.
Emphases == {l \in [smart : 35..50, liq : 25..35, dev : 20..40] : l.liq + 10 <= l.smart}

ASSUME SwarmAssumption ==
    /\ LearnedAtStart \subseteq Emphases
    /\ ConvictionTTL \in Nat /\ Cooldown \in Nat \ {0} /\ MaxNow \in Nat
    /\ \A c \in Candidates :
          /\ {"symbol", "slots", "conf", "audited", "calibrated", "noise"} \subseteq DOMAIN c
          /\ c.slots \in [Slots -> None..100] /\ c.audited \in BOOLEAN
          /\ {c.conf, c.social, c.noise} \subseteq Nat /\ {c.calibrated, c.strategy} \subseteq Nat \cup {None}

VARIABLES
    now,       \* minutes
    held,      \* symbol -> conviction held for it, its minute, the minute it was measured
               \* and the emphases in force then
    circuit,   \* failures in a row and the minute of the last trip
    intents,   \* symbol -> direction registered for it, [dir, at]
    learned,   \* the emphases that closed calls have taught
    verdict,   \* what the last evaluation answered, and the emphases its conviction was measured under
    study      \* under examination: the evidence about a finalist and its confidence

vars == <<now, held, circuit, intents, learned, verdict>>

Default == [smart |-> 35, liq |-> 25, dev |-> 20]
NotHeld == [value |-> None, at |-> None, since |-> None, under |-> Default]
Symbols == {c.symbol : c \in Candidates}

-----------------------------------------------------------------------------
(* The average                                                             *)

\* getVoterWeights: the weight of a slot is stretched as far as its emphasis is
\* from the default, by 30 % at most.  In units of 1/140 of a per cent; the
\* normalization cancels in the average.
Stretched(weight, base) ==
    IF 10 * weight > 13 * base THEN (13 * base) \div 10
    ELSE IF 10 * weight < 7 * base THEN (7 * base) \div 10
    ELSE weight

Weights(l) ==
    [momentum |-> Stretched(168 * l.liq, 4200), flow |-> Stretched(80 * l.smart, 2800),
     security |-> Stretched(175 * l.dev, 3500), sentiment |-> 2100, critic |-> 1400]

Rendered(slots) == {v \in Slots : slots[v] # None}

OverSlots(f(_)) == f("momentum") + f("flow") + f("security") + f("sentiment") + f("critic")

\* aggregateVoterScores: only what rendered counts, over the weight of what rendered.
Aggregate(slots, weights) ==
    LET share(v) == At(v \in Rendered(slots) /\ weights[v] > 0, weights[v])
        weight == OverSlots(share)
    IN  IF weight = 0 THEN 0
        ELSE RoundDiv(OverSlots(LAMBDA v : Clamp100(slots[v]) * share(v)), weight)

\* The path of a candidate that carries neither slots nor a confidence.
LegacyMean(c) ==
    LET quant == At(c.liq >= 25, 50) + At(c.vol >= 10, 50)
    IN  RoundDiv(35 * quant + 35 * c.social + 30 * At(c.audited, 100), 100)

FastLane(c) == c.liq >= 25 /\ c.vol >= 10 /\ c.audited

Base(c, l) ==
    IF Rendered(c.slots) # {} THEN Aggregate(c.slots, Weights(l))
    ELSE IF c.conf > 0 THEN c.conf ELSE LegacyMean(c)

\* Downgrade-only calibration, then the demerit of a known cohort.
Trusted(c, l) ==
    LET base == Base(c, l)
        x == IF c.calibrated # None /\ c.calibrated < base THEN c.calibrated ELSE base
        demerit == IF c.noise >= 60 THEN RoundDiv(30 * c.noise, 100) ELSE 0
    IN  IF x < demerit THEN 0 ELSE x - demerit

-----------------------------------------------------------------------------
(* The guards                                                              *)

CircuitOpen == circuit.trippedAt # None /\ now - circuit.trippedAt < Cooldown

Opposed(c) ==
    LET i == intents[c.symbol]
    IN  i.at # None /\ now - i.at < Cooldown
        /\ (IF i.dir \in {"SHORT", "SELL"} THEN c.dir \in {"BUY", "LONG"} ELSE c.dir \in {"SELL", "SHORT"})

\* resolveConflict: buyers and sellers disagree and the sellers weigh double.
Conflicted(c) == c.buy > 0 /\ c.sell > 0 /\ c.sell >= 2 * c.buy

\* The conviction read for a symbol; one older than the TTL is treated as absent.
Conviction(s) == IF held[s].at = None \/ now - held[s].at > ConvictionTTL THEN None ELSE held[s].value

\* Mutant: the held conviction is not consulted.
ConvincedAfresh(c) == Trusted(c, learned)

Convinced(c) ==
    LET measured == Trusted(c, learned)
        sticky == Conviction(c.symbol)
    IN  IF sticky > measured THEN sticky ELSE measured

\* A strategy speaks only for candidates without a confidence of their own.
Score(c) ==
    LET y == Convinced(c)
        x == IF Rendered(c.slots) = {} /\ c.conf <= 0 /\ FastLane(c) /\ y < 88 THEN 88 ELSE IF y > 100 THEN 100 ELSE y
    IN  IF c.conf > 0 \/ c.strategy = None THEN x ELSE RoundDiv(x + Clamp100(c.strategy), 2)

\* With slots, an absent security slot is below every floor; without, the audit flag decides.
SecurityScore(c) ==
    IF Rendered(c.slots) # {} THEN c.slots.security ELSE At(c.audited, 100)

\* The floors: security before the average, coverage after it.
Refusal(c) ==
    IF SecurityScore(c) < 70 THEN "SECURITY"
    ELSE IF Rendered(c.slots) # {} /\ Cardinality(Rendered(c.slots)) < 3 THEN "INSUFFICIENT_EVIDENCE"
    ELSE IF Score(c) < 80 \/ ~c.audited THEN "CONSENSUS"
    ELSE "none"

-----------------------------------------------------------------------------
(* The engine                                                              *)

NoVerdict == [on |-> {}, refusal |-> "none", conf |-> 0, under |-> Default]

Refuse(c, code) ==
    /\ verdict' = [on |-> {c}, refusal |-> code, conf |-> 0, under |-> learned]
    /\ UNCHANGED <<now, held, circuit, intents, learned>>

\* The conviction held for the candidate's symbol is the one decided on.
Stuck(c) == Conviction(c.symbol) > Trusted(c, learned)

\* What is decided on, with the minute and the emphases it was measured at.
Measurement(c) ==
    IF Stuck(c) THEN [held[c.symbol] EXCEPT !.at = now]
    ELSE [value |-> Trusted(c, learned), at |-> now, since |-> now, under |-> learned]

\* evaluateSignal.  The conviction is stored before the floors are tried, so a
\* refused candidate leaves one too, and its minute is renewed with it.
Evaluate(c) ==
    IF CircuitOpen THEN Refuse(c, "CIRCUIT_OPEN")
    ELSE IF Opposed(c) THEN Refuse(c, "VETO")
    ELSE IF Conflicted(c) THEN Refuse(c, "ASYMMETRIC_CONFLICT")
    ELSE LET m == Measurement(c)
             code == Refusal(c)
         IN  /\ held' = [held EXCEPT ![c.symbol] = m]
             /\ verdict' = [on |-> {c}, refusal |-> code, under |-> m.under,
                            conf |-> IF code = "SECURITY" THEN SecurityScore(c) ELSE Score(c)]
             /\ UNCHANGED <<now, circuit, intents, learned>>

RegisterIntent(s, dir) ==
    /\ intents' = [intents EXCEPT ![s] = [dir |-> dir, at |-> now]]
    /\ UNCHANGED <<now, held, circuit, learned, verdict>>

\* registerConsensusOutcome: a success forgets the failures, never a trip.
RegisterOutcome(failed) ==
    /\ circuit' = IF ~failed THEN [circuit EXCEPT !.fails = 0]
                  ELSE IF circuit.fails + 1 >= 3 THEN [fails |-> 0, trippedAt |-> now]
                  ELSE [circuit EXCEPT !.fails = @ + 1]
    /\ UNCHANGED <<now, held, intents, learned, verdict>>

ResetCircuit ==
    /\ circuit' = [fails |-> 0, trippedAt |-> None]
    /\ UNCHANGED <<now, held, intents, learned, verdict>>

AtMost(n, most) == IF n > most THEN most ELSE n

\* A tracked call reaches its target or its stop, or the post-mortem attributes
\* an outcome: recalibrateWeights.
CallClosed(won) ==
    /\ learned' = IF won THEN [learned EXCEPT !.smart = AtMost(@ + 1, 50), !.liq = AtMost(@ + 1, 35)]
                  ELSE [learned EXCEPT !.dev = AtMost(@ + 1, 40)]
    /\ UNCHANGED <<now, held, circuit, intents, verdict>>

Tick ==
    /\ now < MaxNow /\ now' = now + 1
    /\ UNCHANGED <<held, circuit, intents, learned, verdict>>

Init ==
    /\ now = 0 /\ verdict = NoVerdict /\ learned \in LearnedAtStart
    /\ held = [s \in Symbols |-> NotHeld]
    /\ intents = [s \in Symbols |-> [dir |-> "BUY", at |-> None]]
    /\ circuit = [fails |-> 0, trippedAt |-> None]

Next ==
    \/ \E c \in Candidates : Evaluate(c)
    \/ \E s \in Symbols, dir \in {"SHORT", "BUY"} : RegisterIntent(s, dir)
    \/ \E failed \in BOOLEAN : RegisterOutcome(failed)
    \/ ResetCircuit
    \/ \E won \in BOOLEAN : CallClosed(won)
    \/ Tick

-----------------------------------------------------------------------------
(* What makes the evidence about a finalist worse                          *)

Rate == {"bundler", "rats", "dev", "top10", "rug", "coinstats"}
Alarm == {"wash", "closed", "mint", "freeze", "slips"}
Comfort == {"pinned", "roundTrip"}
Crowd == {"liq", "holders", "visits", "square"}
Trade == {"bought", "sold", "closes"}

EvidenceTyped(e) ==
    /\ \A f \in Rate \cup Crowd \cup Trade : e[f] \in Nat
    /\ \A f \in Alarm \cup Comfort \cup {"evm"} : e[f] \in BOOLEAN
    /\ {e.age, e.critic} \subseteq Nat \cup {None}
    /\ \A m \in e.wallet : {m.net, m.top10, m.makers, m.bundler} \subseteq Nat \cup {None}
    /\ IsFiniteSet(e.buys) /\ \A b \in e.buys : b.usd \in Nat
    /\ \A k \in e.gmgn \cup e.candles : {k.closes, k.score} \subseteq Nat
    /\ \A s \in e.social : {s.visits, s.square, s.mentions, s.paid} \subseteq Nat /\ {s.farm, s.flow} \subseteq BOOLEAN
    /\ \A f \in e.rubric : {f.concentration, f.liquidity, f.spike, f.volatility} \subseteq Nat \cup {None}

\* The confidence of a finalist has passed the agent's floor, which is not 0.
StudyTyped == EvidenceTyped(study.e) /\ study.quant \in Nat \ {0}

\* Nothing about the finalist is safer and what does not concern its safety is
\* the same.  A pool or a holder count of 0 is one nobody knows, not a small one.
WorseEvidence(d, e) ==
    /\ \A f \in Rate : e[f] >= d[f]
    /\ \A f \in Alarm : d[f] => e[f]
    /\ \A f \in Comfort : e[f] => d[f]
    /\ \A f \in {"visits", "square"} : e[f] <= d[f]
    /\ \A f \in {"liq", "holders"} : e[f] \in {d[f]} \cup 1..d[f]
    /\ e.age \in {d.age} \cup (IF d.age = None THEN Nat ELSE 0..d.age)
    /\ \A f \in {"code", "rpcCode"} : e[f] \in {d[f], "denied"}
    /\ e.deployer \in {d.deployer, "rugged"}
    /\ \A f \in Trade \cup {"evm", "wallet", "buys", "gmgn", "pools", "candles", "social", "critic", "rubric"} :
          e[f] = d[f]

\* The gate's answer about a candidate with these slots and this confidence.
Allows(c, slots, quant) == Refusal([c EXCEPT !.slots = slots, !.conf = quant]) = "none"

\* Too few voters spoke, and what is held for the symbol would pass without them.
Carried(c, slots) == Conviction(c.symbol) >= 80 /\ Cardinality(Rendered(slots)) < 3

-----------------------------------------------------------------------------

\* The agent looks at one row and one finalist after another, whatever their
\* figures, the floors and the answers are; they share no state with the gate.
PassSpec ==
    /\ Init /\ RowTyped /\ StudyTyped
    /\ [][(Next /\ UNCHANGED <<row, study>>) \/ (RowTyped' /\ StudyTyped' /\ UNCHANGED vars)]_<<vars, row, study>>

-----------------------------------------------------------------------------

TypeOK ==
    /\ now \in 0..MaxNow
    /\ \A s \in Symbols : held[s].value \in Nat \cup {None} /\ {held[s].at, held[s].since} \subseteq None..now
    /\ circuit.fails \in 0..2 /\ circuit.trippedAt \in None..now
    /\ \A s \in Symbols : intents[s].at \in None..now
    /\ verdict.conf \in None..100
    /\ learned \in Emphases
    /\ RowTyped /\ StudyTyped

\* A re-check of a symbol within the TTL never scores below the conviction held
\* for it, so long as nothing in front of the average refuses it
\* (swarm-consensus.ts:238-244).
RecheckNeverErodes ==
    [][\A c \in Candidates :
         verdict' # verdict /\ verdict'.on = {c} /\ verdict'.refusal \in {"none", "CONSENSUS"}
         /\ held[c.symbol].at # None /\ now - held[c.symbol].at <= ConvictionTTL
         /\ (c.conf > 0 \/ c.strategy = None)
         => verdict'.conf >= 100 \/ verdict'.conf >= held[c.symbol].value]_vars

\* Pool, volume and audit alone, without a slot or a confidence: scored 88 at least.
Lifted(c) == Rendered(c.slots) = {} /\ c.conf <= 0 /\ FastLane(c)

\* A candidate goes through only with its own security evidence, on at least
\* three slots when it was voted on, and with a score that it or a candidate of
\* the same symbol was measured at under weights that were in force at the time;
\* a strategy's opinion adds to a measurement and never stands for one
\* (swarm-consensus.ts:304-365).
AllowIsBacked ==
    \A c \in verdict.on :
        verdict.refusal = "none" =>
            /\ c.audited
            /\ Rendered(c.slots) # {} => c.slots.security >= 70 /\ Cardinality(Rendered(c.slots)) >= 3
            /\ Lifted(c) \/ \E d \in Candidates :
                 /\ d.symbol = c.symbol
                 /\ IF c.conf > 0 \/ c.strategy = None THEN Trusted(d, verdict.under) >= 80
                    ELSE Trusted(d, verdict.under) + Clamp100(c.strategy) >= 159

\* Worse evidence about a finalist's safety never raises its security slot and
\* never turns a refusal into a pass, although a worse read can make another
\* voter speak: that lifts the coverage, and only a conviction held from before
\* can make a pass of it, whatever weights the closed calls have taught.  And a
\* worse row, a failed audit or a stricter floor never brings a token to a report,
\* although gates are skipped, replaced and tried twice on the way (voters.ts:190-200, the penalties of
\* robinhood-screening-agent.ts:1495-1549, swarm-consensus.ts; the gates of
\* gmgn-meme-helpers.ts:128-189 and validateMemeConfigUpdate).
RiskNeverHelps ==
    [][/\ study' # study /\ study'.quant = study.quant /\ WorseEvidence(study.e, study'.e) =>
            LET before == Consolidate(study.e, study.quant)
                after == Consolidate(study'.e, study.quant)
            IN  /\ after.security <= before.security
                /\ \A c \in Candidates :
                     Allows(c, after, study.quant) => Allows(c, before, study.quant) \/ Carried(c, before)
       /\ row' # row /\ Worsened(row, row') /\ Reported(row') => Reported(row)]_<<study, row>>

\* What passes a gate has earned it: AllowIsBacked at the consensus gate,
\* ReportIsEarned at the agent's.
PassIsEarned == TypeOK /\ AllowIsBacked /\ ReportIsEarned

=============================================================================
