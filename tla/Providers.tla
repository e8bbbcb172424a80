------------------------------ MODULE Providers ------------------------------
(***************************************************************************)
(* What paces and feeds the third-party providers: ProviderGovernor (spend *)
(* per day, requests per minute, freezes, cache), the API key pool shared  *)
(* by concurrent requests (fetchWithKeyPool and GmgnRestClient), and       *)
(* SourceQuota with the call policies.  Waits are counted down by Tick.    *)
(***************************************************************************)
EXTENDS Integers, FiniteSets, Sequences, FiniteSetsExt

CONSTANTS
    Caller,       \* concurrent calls
    DailyCap,     \* dailyCap
    Rpm,          \* rpm
    Day, Minute,  \* their lengths in ticks
    MaxFreeze,    \* MAX_BACKOFF_MS in ticks
    Bills,        \* credits an answer may say it used; 1 is the assumed cost
    Keys,         \* number of keys in the pool
    KeyOf,        \* the key in each slot; the loader may put one in two slots
    Refused       \* keys the provider refuses

\* A cap or a rate of 0 would be none at all.
ASSUME ProviderAssumption ==
    /\ {DailyCap, Rpm, Keys} \subseteq Nat \ {0} /\ Minute \in Nat
    /\ Bills \subseteq Nat \ {0}

VARIABLES
    spend,        \* credits recorded for the provider
    dayLeft,      \* ticks until the day the governor was built in is over
    minute,       \* [left, count] of the rpm bucket
    frozen,       \* ticks until frozenUntil
    fails,        \* consecutiveFailures
    cache,        \* ticks the cached answer is still fresh
    gov,          \* caller -> idle, out or what its run() returned
    pool,         \* [index, failed] of the API key pool: active slot, marked slots
    req,          \* caller -> [stage, slot, attempts, asked, alone] of its request
    line,         \* GMGN's requestQueue, the request that owns the pace first
    left          \* attemptsLeft of that request

govVars == <<spend, dayLeft, minute, frozen, fails, cache, gov>>
keyVars == <<pool, req, line, left>>

-----------------------------------------------------------------------------
(* ProviderGovernor                                                        *)

GovInit ==
    /\ spend = 0 /\ dayLeft = Day /\ minute = [left |-> 0, count |-> 0]
    /\ frozen = 0 /\ fails = 0 /\ cache = 0
    /\ gov = [c \in Caller |-> "idle"]

RpmAllows == minute.left = 0 \/ minute.count < Rpm
Available == frozen = 0 /\ spend < DailyCap /\ RpmAllows

\* charge: at the cap it freezes until the day the governor was built in ends,
\* which is the past on every later day; otherwise the failure streak is over.
Charge(cost) ==
    IF spend + cost > DailyCap
      THEN frozen' = dayLeft /\ UNCHANGED <<spend, fails>>
      ELSE spend' = spend + cost /\ fails' = 0 /\ UNCHANGED frozen

\* run() up to its await: cache, gate, one tick of the bucket, the assumed cost.
RunStarts(c) ==
    /\ gov[c] # "out"
    /\ \/ /\ cache > 0 /\ gov' = [gov EXCEPT ![c] = "cached"]
          /\ UNCHANGED <<spend, frozen, minute, fails>>
       \/ /\ cache = 0 /\ ~Available
          /\ gov' = [gov EXCEPT ![c] = IF frozen > 0 THEN "frozen" ELSE IF spend >= DailyCap THEN "capped" ELSE "limited"]
          /\ frozen' = IF frozen = 0 /\ spend >= DailyCap THEN dayLeft ELSE frozen
          /\ UNCHANGED <<spend, minute, fails>>
       \/ /\ cache = 0 /\ Available
          /\ minute' = IF minute.left = 0 THEN [left |-> Minute, count |-> 1] ELSE [minute EXCEPT !.count = @ + 1]
          /\ Charge(1) /\ gov' = [gov EXCEPT ![c] = "out"]
    /\ UNCHANGED <<dayLeft, cache>>

\* 5xx and network errors give the assumed cost back.
AnswerTransient(c) ==
    /\ gov[c] = "out" /\ gov' = [gov EXCEPT ![c] = "http"]
    /\ spend' = Max({0, spend - 1})
    /\ UNCHANGED <<dayLeft, minute, frozen, fails, cache>>

\* 402 and 429: backoff replaces whatever freeze there is.
AnswerExhausted(c) ==
    /\ gov[c] = "out" /\ gov' = [gov EXCEPT ![c] = "limited"]
    /\ fails' = Min({fails + 1, MaxFreeze}) /\ frozen' = Min({2 ^ fails, MaxFreeze})
    /\ UNCHANGED <<spend, dayLeft, minute, cache>>

\* Only what a call cost above the assumption is charged when it answers.
AnswerOk(c, bill) ==
    LET fits == bill = 1 \/ spend + (bill - 1) <= DailyCap
    IN  /\ gov[c] = "out" /\ gov' = [gov EXCEPT ![c] = IF fits THEN "ok" ELSE "capped"]
        /\ IF bill = 1 THEN UNCHANGED <<spend, frozen, fails>> ELSE Charge(bill - 1)
        /\ cache' = IF fits THEN Minute ELSE cache
        /\ UNCHANGED <<dayLeft, minute>>

Down(n) == IF n > 0 THEN n - 1 ELSE 0

\* Time passes; nothing resets spend or starts another day.
GovTick ==
    /\ frozen + cache + minute.left + dayLeft > 0
    /\ dayLeft' = Down(dayLeft) /\ frozen' = Down(frozen) /\ cache' = Down(cache)
    /\ minute' = IF minute.left <= 1 THEN [left |-> 0, count |-> 0] ELSE [minute EXCEPT !.left = @ - 1]
    /\ UNCHANGED <<spend, fails, gov>>

GovAnswers(c) == AnswerTransient(c) \/ AnswerExhausted(c) \/ \E b \in Bills : AnswerOk(c, b)
GovNext == GovTick \/ \E c \in Caller : RunStarts(c) \/ GovAnswers(c)

\* The recorded spend never passes the daily cap and no minute sees more calls
\* than its rate, whatever calls are out, refunded or dearer than assumed
\* (provider-governor.ts:95-150, 178-221).
BudgetHolds == spend <= DailyCap /\ minute.count <= Rpm

-----------------------------------------------------------------------------
(* API keys                                                                *)

Fresh == [stage |-> "idle", slot |-> 0, attempts |-> 0, asked |-> {}, alone |-> FALSE]

KeyInit ==
    /\ pool = [index |-> 0, failed |-> {}]
    /\ req = [c \in Caller |-> Fresh] /\ line = << >> /\ left = 0

\* The next key that is not marked, or simply the next one when none is.
NextKey(i, out) == (i + Min({k \in 1..Keys : (i + k) % Keys \notin out \/ k = Keys})) % Keys

\* markFailed marks the active key, whichever key the caller was refused with;
\* when all are marked the memory starts over.
MarkFailed(p) ==
    LET marked == p.failed \cup {p.index}
        out == IF Cardinality(marked) >= Keys THEN {} ELSE marked
    IN  IF Keys <= 1 THEN p ELSE [index |-> NextKey(p.index, out), failed |-> out]

Overlaps(c) == \E d \in Caller \ {c} : req[d].stage = "out"
Leaves(c, slot, attempts, asked) ==
    [d \in Caller |->
        IF d = c THEN [stage |-> "out", slot |-> slot, attempts |-> attempts, asked |-> asked \cup {KeyOf[slot]},
                       alone |-> ~Overlaps(c) /\ (attempts = 0 \/ req[c].alone)]
        ELSE [req[d] EXCEPT !.alone = @ /\ req[d].stage # "out"]]

FetchBegins(c) ==
    /\ req[c].stage # "out"
    /\ req' = Leaves(c, pool.index, 0, {})
    /\ UNCHANGED <<pool, line, left>>

\* Mutant: the first try is not counted as an attempt.
MaxRetries == Keys - 1

MaxAttempts == Keys

\* fetchWithKeyPool's loop: a refused key rotates the pool and tries again until
\* there were as many attempts as keys; anything else is the caller's business.
FetchAnswers(c) ==
    /\ req[c].stage = "out"
    /\ IF KeyOf[req[c].slot] \in Refused /\ Keys > 1
         THEN /\ pool' = MarkFailed(pool)
              /\ req' = IF req[c].attempts + 1 >= MaxAttempts THEN [req EXCEPT ![c].stage = "exhausted"]
                        ELSE Leaves(c, pool'.index, req[c].attempts + 1, req[c].asked)
         ELSE /\ req' = [req EXCEPT ![c].stage = IF KeyOf[req[c].slot] \in Refused THEN "refused" ELSE "ok"]
              /\ UNCHANGED pool
    /\ UNCHANGED <<line, left>>

\* A network error ends the request without touching the pool.
FetchFails(c) ==
    /\ req[c].stage = "out" /\ req' = [req EXCEPT ![c].stage = "error"]
    /\ UNCHANGED <<pool, line, left>>

KeyNext == \E c \in Caller : FetchBegins(c) \/ FetchAnswers(c) \/ FetchFails(c)

LimitNext == (GovNext /\ UNCHANGED keyVars) \/ (KeyNext /\ UNCHANGED govVars)
LimitSpec == GovInit /\ KeyInit /\ [][LimitNext]_<<govVars, keyVars>>

\* gmgnRequest: every request waits for the ones before it (paced).
GmgnAsks(c) ==
    /\ \A i \in DOMAIN line : line[i] # c
    /\ line' = Append(line, c)
    /\ left' = IF line = << >> THEN 1 ELSE left
    /\ UNCHANGED <<pool, req>>

Released == line' = Tail(line) /\ left' = 1

Again == left' = left - 1 /\ UNCHANGED line

\* The answer to the first in the line.  A limit or a refusal rotates the pool and
\* tries another key at once; a short limit is waited for when there is none; a
\* ban marks the key; everything else hands the pace on.
GmgnAnswers(answer) ==
    LET rotates == answer \in {"limited", "long", "banned", "refused"} /\ Keys > 1 /\ left > 0
        rotated == IF rotates THEN MarkFailed(pool) ELSE pool
        another == KeyOf[rotated.index] # KeyOf[pool.index]
    IN  /\ line # << >>
        /\ pool' = IF answer = "banned" /\ ~another THEN MarkFailed(rotated) ELSE rotated
        /\ IF another \/ (answer = "limited" /\ left > 0) THEN Again ELSE Released
        /\ UNCHANGED req

GmgnAnswer == \E a \in {"limited", "long", "banned", "refused", "ok", "error"} : GmgnAnswers(a)
GmgnNext == GmgnAnswer \/ \E c \in Caller : GmgnAsks(c)

\* Every GMGN request gets its turn and settles, however often the ones before it
\* were limited, refused or banned, as long as each fetch answers
\* (gmgn-rest-client.ts:86-99, 114-206).
GmgnDrains == \A c \in Caller : (\E i \in DOMAIN line : line[i] = c) ~> \A i \in DOMAIN line : line[i] # c

\* A request nobody overlapped gives up only after it tried every key, whatever
\* requests rotated the pool before it (api-key-pool.ts:65-89, 109-123).
LoneRequestTriesAll ==
    \A c \in Caller : req[c].stage = "exhausted" /\ req[c].alone => req[c].asked = {KeyOf[k] : k \in 0..(Keys - 1)}

\* What is asked for within limits is within them: see BudgetHolds and
\* LoneRequestTriesAll (provider-governor.ts, api-key-pool.ts).
LimitsHold == BudgetHolds /\ LoneRequestTriesAll

=============================================================================
