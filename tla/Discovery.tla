------------------------------ MODULE Discovery ------------------------------
(***************************************************************************)
(* Candidate discovery: per-source cooldowns (services/source-quota.ts),   *)
(* the hint gate that lets a recall-only source introduce a token only     *)
(* after an on-chain existence check (discovery/hint-gate.ts,              *)
(* candidate-hints.ts, services/onchain/rpc-verify.ts), the candidate      *)
(* registry (discovery-registry.ts) and the merge of the sources' rows     *)
(* (candidate-emitter.ts).  Time is counted in ticks of a quarter minute.  *)
(***************************************************************************)
EXTENDS Integers, Sequences, FiniteSets, SequencesExt

CONSTANTS
    Tokens,         \* token addresses of one chain
    Real,           \* the tokens that exist on chain
    Priority,       \* DISCOVERY_PRIORITY, the sources in the order they are asked
    RecallOnly,     \* the sources that go through the hint gate
    Extras,         \* the sources whose rows were collected before: tape and track
    CooldownAware,  \* the sources whose collector asks isCooling first
    QuotaTicks,     \* cooldown after a quota refusal; a transient failure cools a quarter
    FreshTTL,       \* age at which a fresh candidate is evicted
    MaxNow          \* bound on the clock

Sources == ToSet(Priority)

ASSUME DiscoveryAssumption ==
    /\ Real \subseteq Tokens
    /\ Priority \in Seq(Sources)
    /\ RecallOnly \subseteq Sources /\ CooldownAware \subseteq Sources
    /\ Extras \subseteq Sources \ (RecallOnly \cup CooldownAware)
    /\ {QuotaTicks, FreshTTL, MaxNow} \subseteq Nat

VARIABLES
    now,       \* the clock
    cooling,   \* coolingUntil: source -> the tick until which it is left alone
    life,      \* lifecycle of a token's record, "absent" without one
    firstSeen  \* token -> source -> tick of the source's first sighting, Never without one

dvars == <<now, cooling, life, firstSeen>>

Never == MaxNow + 1
Failures == {"quota", "transient"}

DiscoveryTypeOK ==
    /\ now \in 0..MaxNow
    /\ cooling \in [Sources -> 0..(MaxNow + QuotaTicks)]
    /\ life \in [Tokens -> {"absent", "fresh", "eligible", "dead"}]
    /\ firstSeen \in [Tokens -> [Sources -> 0..Never]]

DiscoveryInit ==
    /\ now = 0
    /\ cooling = [s \in Sources |-> 0]
    /\ life = [t \in Tokens |-> "absent"]
    /\ firstSeen = [t \in Tokens |-> [s \in Sources |-> Never]]

Tick == now < MaxNow /\ now' = now + 1 /\ UNCHANGED <<cooling, life, firstSeen>>

-----------------------------------------------------------------------------
(* Source quota                                                            *)

IsCooling(s) == cooling[s] > now

\* The newest failure decides, also when it shortens a longer cooldown.
Backoff(s, class) ==
    cooling' = [cooling EXCEPT ![s] = now + (IF class = "quota" THEN QuotaTicks ELSE QuotaTicks \div 4)]

-----------------------------------------------------------------------------
(* Candidate registry                                                      *)

Earliest(t) == CHOOSE n \in {firstSeen[t][s] : s \in Sources} :
                  \A s \in Sources : n <= firstSeen[t][s]

\* A token some source has been first to see needs no existence check.
Canonical(t) == life[t] # "absent" /\ Earliest(t) # Never

\* obs: sightings [token, source, at], one per source and row, in the order they are applied.
Observe(obs) ==
    /\ life' = [t \in Tokens |->
                  IF life[t] = "absent" /\ (\E o \in obs : o.token = t) THEN "fresh" ELSE life[t]]
    /\ firstSeen' = [t \in Tokens |-> [s \in Sources |->
            LET ats == {o.at : o \in {q \in obs : q.token = t /\ q.source = s}} \cup {firstSeen[t][s]}
            IN  CHOOSE n \in ats : \A m \in ats : n <= m]]

Pruned(t) == life[t] = "fresh" /\ Earliest(t) # Never /\ now - Earliest(t) > FreshTTL

\* The records a new pass finds after the eviction of dead fresh pairs.
PruneFresh ==
    /\ life' = [t \in Tokens |-> IF Pruned(t) THEN "absent" ELSE life[t]]
    /\ firstSeen' = [t \in Tokens |->
                       IF Pruned(t) THEN [s \in Sources |-> Never] ELSE firstSeen[t]]

\* Mutant: the state is not looked at.
RevalidatedAlways(t) == IF life[t] # "absent" THEN [life EXCEPT ![t] = "eligible"] ELSE life

MarkRevalidated(t) ==
    IF life[t] \notin {"absent", "dead"} THEN [life EXCEPT ![t] = "eligible"] ELSE life

MarkDead(t) == IF life[t] = "absent" THEN life ELSE [life EXCEPT ![t] = "dead"]

-----------------------------------------------------------------------------
(* Hint gate                                                               *)

\* What the existence oracle may answer about a token.  A JSON-RPC error on
\* Solana reads as "absent", also for a token that exists.
OracleAnswers(t) == IF t \in Real THEN {"exists", "absent", "down"} ELSE {"absent", "down"}

\* The rows sent to the oracle: those the registry does not know yet.
Hints(rows) == {t \in rows : ~Canonical(t)}

\* Mutant: one token that exists vouches for the batch.
PromotedTogether(rows, hints, answers) ==
    {t \in rows : (\E h \in hints : answers[h] # "absent") \/ Canonical(t)}

\* answers: the oracle's answer to each hint.  With the transport down the
\* gate fails open and every row passes.
Promoted(rows, hints, answers) ==
    {t \in rows : \/ \E h \in hints : answers[h] = "down"
                  \/ t \in hints /\ answers[t] = "exists"
                  \/ Canonical(t)}

-----------------------------------------------------------------------------
(* Merge of the sources' rows by address: merged maps a token to the       *)
(* source whose row it carries, NoRow when no source reported it.          *)

NoRow == "none"

\* A later source's row replaces an earlier one's.
MergeRows(merged, s, rows) == [t \in Tokens |-> IF t \in rows THEN s ELSE merged[t]]

\* GMGN rows upgrade rows that are there and add none.
Overlay(merged, promoted) ==
    [t \in Tokens |-> IF t \in promoted /\ merged[t] # NoRow THEN "gmgn" ELSE merged[t]]

Candidates(merged) == {t \in Tokens : merged[t] # NoRow}

=============================================================================
