-------------------------------- MODULE Voters --------------------------------
(***************************************************************************)
(* The voter swarm of a finalist: what the safety services read off its    *)
(* token row, the nine opinions and the five gate slots they consolidate   *)
(* into (src/orchestrator/voters.ts, sentiment-voter.ts, critic-voter.ts,  *)
(* services/bot-detection.ts, rug-scoring.ts, anti-fooling.ts,             *)
(* wallet-scoring.ts, flow-convergence.ts, risk-rubric.ts,                 *)
(* reputation-memory.ts, and the assembly in robinhood-screening-agent.ts).*)
(*                                                                         *)
(* Evidence is a record of small integers: rates in per cent, USD amounts  *)
(* in thousands, ages in minutes; None is a field nobody reported and a    *)
(* score of None an opinion that abstains.                                 *)
(***************************************************************************)
EXTENDS MemeGates, FiniteSetsExt

\* Math.round of a quotient, b > 0.
RoundDiv(a, b) == (2 * a + b) \div (2 * b)

-----------------------------------------------------------------------------
(* Risk indicators                                                         *)

BotSignals(e) ==
    LET bundle == e.bundler > 25
    IN  [bundle |-> bundle,
         sniper |-> e.age # None /\ e.age <= 9 /\ (e.bundler > 30 \/ e.wash),
         gradual |-> bundle /\ (e.rats > 10 \/ e.dev > 10),
         wash |-> e.wash,
         concentration |-> e.top10 > 35,
         dev |-> e.dev > 10]

BotRisk(e) ==
    LET s == BotSignals(e)
        points == At(s.bundle, 30) + At(s.sniper, 25) + At(s.gradual, 15) + At(s.wash, 15)
                  + At(s.concentration, 10) + At(s.dev, 5)
        ratios == e.bundler + e.top10 + e.rats
    IN  Clamp100(RoundDiv(5 * points + (IF ratios > 150 THEN 150 ELSE ratios), 5))

\* Early-window flags of a launch at most 30 minutes old, counted; an undated
\* token is treated as a survivor.
RugPenalties(e) ==
    IF e.age = None \/ e.age > 30 THEN 0
    ELSE At(e.liq > 0 /\ e.liq < 25, 1) + At(e.holders > 0 /\ e.holders < 200, 1)
         + At(e.visits + 10 * e.square < 15, 1)

\* Launch-bundle forensics or a deny-listed selector; the other contradictions
\* only add to a score nothing reads.
Fooled(e) == (e.bundler >= 30 /\ e.top10 >= 30) \/ e.code = "denied"

\* The bytecode leg: the row's own code, on EVM the chain's; no code, no finding.
CodeFindings(e) ==
    IF e.code # "absent" THEN At(e.code = "denied", 1)
    ELSE At(e.evm /\ e.rpcCode = "denied", 1)

\* A sell that is not proven is one reason, whatever is missing.
Sellable(e) == e.pinned /\ e.roundTrip /\ e.liq > 0 /\ ~e.slips

\* The penalty list handed to the security voter, counted.
Penalties(e) ==
    At(e.rug > 15, 1) + At(e.top10 > 30, 1) + At(e.closed, 1) + At(BotRisk(e) >= 40, 1)
    + RugPenalties(e) + (IF e.evm THEN e.coinstats ELSE 0) + CodeFindings(e)
    + At(~Sellable(e), 1) + At(Fooled(e), 1)

-----------------------------------------------------------------------------
(* Security                                                                *)

\* Mutant: the certain bot falls through to the smallest demerit.
SecurityVoteCapped(audited, penalties, risk) ==
    LET demerit == IF risk = 0 THEN 0 ELSE IF risk >= 80 THEN 5
                   ELSE IF risk >= 60 THEN 20 ELSE IF risk >= 40 THEN 10 ELSE 5
        score == 100 - 10 * penalties - demerit
    IN  IF ~audited \/ score < 0 THEN 0 ELSE score

SecurityVote(audited, penalties, risk) ==
    LET demerit == IF risk = 0 THEN 0 ELSE IF risk >= 80 THEN 30
                   ELSE IF risk >= 60 THEN 20 ELSE IF risk >= 40 THEN 10 ELSE 5
        score == 100 - 10 * penalties - demerit
    IN  IF ~audited \/ score < 0 THEN 0 ELSE score

\* The six weighted checks of the deployer, with the known-deployer adjustment;
\* the LP status and the metadata flag are both read off creatorClose.
Aegis(e) ==
    Clamp100(100 - At(e.mint, 20) - At(e.freeze, 15) - At(e.top10 > 20, 20) - At(e.bundler >= 30, 20)
             - At(e.closed, 15) - At(e.closed, 10)
             + At(e.deployer = "good", 25) - At(e.deployer = "rugged", 25))

\* Without a deployer address the plain vote; a known rugger or a reputation
\* below the floor is an unconditional zero.
SecurityOpinion(e) ==
    IF e.deployer # "absent" /\ (e.deployer = "rugged" \/ Aegis(e) < 60) THEN 0
    ELSE SecurityVote(TRUE, Penalties(e), BotRisk(e))

-----------------------------------------------------------------------------
(* Flow: whale, wallet and convergence                                     *)

\* e.bought, e.sold, e.closes: smart-money flow of the pass, the closes a part
\* of what was sold.  The agent passes no enrichment.
WhaleVote(e) ==
    LET risk == BotRisk(e)
        total == e.bought + e.sold
        raw == RoundDiv(50 * total + 40 * (e.bought - e.sold), total) - At(e.closes > 0, 10)
        score == Clamp100(raw)
        cap == IF risk >= 60 THEN 40 ELSE IF risk >= 40 THEN 55 ELSE 100
    IN  IF total = 0 THEN (IF risk >= 60 THEN 40 ELSE None)
        ELSE IF score < cap THEN score ELSE cap

\* m = {} when the metrics are missing, else one record; a required field that
\* is missing degrades the score.
WalletDegraded(m) == m.net = None \/ m.top10 = None \/ m.makers = None

WalletScore(m) ==
    Clamp100(50 + (IF m.net = None THEN 0 ELSE RoundDiv(2 * m.net, 5) - 20)
             + (IF m.top10 = None THEN 0 ELSE IF m.top10 > 70 THEN -15 ELSE At(m.top10 < 20, 5))
             + (IF m.makers >= 5 THEN 10 ELSE IF m.makers = 0 THEN -5 ELSE 0)
             - At(m.bundler > 25, 20))

\* Degraded metrics and a rugged deployer are a rendered neutral, missing
\* metrics an abstention.
WalletVote(e) ==
    LET known == e.deployer # "absent"
        m == CHOOSE x \in e.wallet : TRUE
    IN  IF e.wallet = {} THEN None
        ELSE IF WalletDegraded(m) \/ (known /\ (Aegis(e) < 60 \/ e.deployer = "rugged")) THEN 50
        ELSE IF known THEN RoundDiv(6 * WalletScore(m) + 4 * Aegis(e), 10)
        ELSE WalletScore(m)

\* buys: the in-window buys, one per wallet, after the owner dedup, which keeps
\* the first buy of every owner.
ConvergenceVote(buys) ==
    LET makers == {b \in buys : b.usd > 0}
        total == MapThenSumSet(LAMBDA b : b.usd, makers)
        share(n, full) == IF n >= full THEN 1000 ELSE (1000 * n) \div full
    IN  IF buys = {} THEN None
        ELSE IF Cardinality(makers) < 3 \/ (\E b \in makers : 2 * b.usd > total) THEN 50
        ELSE RoundDiv(90 * (6 * share(Cardinality(makers), 8) + 4 * share(total, 50)), 10000)

-----------------------------------------------------------------------------
(* Momentum, sentiment, critic                                             *)

\* GMGN candles, else those of the deepest Gecko pool; {} when nobody has any.
Klines(gmgn, pools, gecko) == IF gmgn # {} THEN gmgn ELSE IF pools = {} THEN {} ELSE gecko

\* candles: number of closes and the score the logistic model gives them.
MlVote(candles) ==
    IF candles = {} THEN None
    ELSE LET k == CHOOSE x \in candles : TRUE
         IN  IF k.closes < 10 THEN 50 ELSE k.score

Contradiction(s) ==
    /\ s.mentions >= 3 \/ s.paid > 0
    /\ ~s.flow
    /\ ~(s.visits > 0 \/ s.square > 0 \/ s.mentions > 0)

\* No reason, no opinion; a contradicted one loses 20 here and 30 in the agent.
SentimentVote(s) ==
    LET capped(n, m) == IF n > m THEN m ELSE n
        organic == 50 + capped(RoundDiv(s.visits, 50), 15) + capped(2 * s.square, 10)
                      - At(s.farm, 10) + capped(3 * s.mentions, 15)
        scored == capped(organic + At(s.paid > 0, 5), 100)
        fooled == IF scored - 20 < 30 THEN 30 ELSE scored - 20
    IN  IF s.visits = 0 /\ s.square = 0 /\ ~s.farm /\ s.mentions = 0 /\ s.paid = 0 THEN None
        ELSE IF Contradiction(s) THEN Clamp100(fooled - 30) ELSE Clamp100(scored)

\* answer: the SCORE an LLM gave, None when it is absent, fails or is unparsable.
CriticVote(answer) == IF answer = None THEN None ELSE Clamp100(answer)

\* Concentration and liquidity are required; without one there is no opinion.
RubricVote(m) ==
    LET part(v, w) == IF v = None THEN 0 ELSE w * v
    IN  IF m = {} THEN None
        ELSE LET f == CHOOSE x \in m : TRUE
             IN  IF f.concentration = None \/ f.liquidity = None THEN None
                 ELSE RoundDiv(part(f.concentration, 3) + part(f.liquidity, 3)
                               + part(f.spike, 2) + part(f.volatility, 2), 10)

-----------------------------------------------------------------------------
(* Slots                                                                   *)

Slots == {"momentum", "flow", "security", "sentiment", "critic"}

\* The rounded mean of the opinions that rendered, None when none did.
Pick(a, b, c) ==
    LET voices == At(a # None, 1) + At(b # None, 1) + At(c # None, 1)
    IN  IF voices = 0 THEN None ELSE RoundDiv(At(a # None, a) + At(b # None, b) + At(c # None, c), voices)

\* consolidateOpinions over what the agent assembled; quant is the sticky one.
Consolidate(e, quant) ==
    [momentum  |-> Pick(quant, MlVote(Klines(e.gmgn, e.pools, e.candles)), None),
     flow      |-> Pick(WhaleVote(e), WalletVote(e), ConvergenceVote(e.buys)),
     security  |-> SecurityOpinion(e),
     sentiment |-> IF e.social = {} THEN None ELSE SentimentVote(CHOOSE s \in e.social : TRUE),
     critic    |-> Pick(CriticVote(e.critic), RubricVote(e.rubric), None)]

=============================================================================
