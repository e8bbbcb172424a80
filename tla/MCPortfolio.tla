---------------------------- MODULE MCPortfolio ----------------------------
(* Two tokens, two signals and the prices that tell every verdict apart: no   *)
(* price, the entry, and a rise to three times.  The deployments divide the   *)
(* questions: in AUTO positions come and go, with a database paper trades     *)
(* follow the scorecard through crashes, and without either one signal meets  *)
(* everything.                                                                *)
EXTENDS Portfolio, TLC

CONSTANTS t1, t2

Auto == [auto |-> TRUE, db |-> FALSE]
Paper == [auto |-> FALSE, db |-> TRUE]
File == [auto |-> FALSE, db |-> FALSE]
MCDeployment == {Auto, Paper, File}
MCSymmetry == Permutations({t1, t2})

\* Bound: a save that no restart can read any more is not explored.
LedgerSaveInReview == ledgerFile' # ledgerFile => pc' # pc
SaveIsRead ==
    crashes = MaxCrash => LedgerSaveInReview /\ UNCHANGED <<stateFile, paperDb>>

\* Bound: outside File every price is known when a signal fires and when a
\* position is entered.
PricesAreKnown ==
    /\ signals' # signals => Last(signals').price > 0
    /\ \A t \in Token : position'[t] # None => position'[t].entry > 0

\* Bound, AUTO: nothing crashes, no send fails, the market has no observations,
\* exits or verdicts of the scorecard.
Trades ==
    /\ PricesAreKnown
    /\ crashes' = 0
    /\ LedgerSaveInReview /\ UNCHANGED <<stateFile, paperDb>>
    /\ untracked' = {}
    /\ exitAlerts' = {}
    /\ \A t \in Token : ~opportunity'[t].seen
    /\ pc = "posting" => current \in carded'
    /\ pc = "marking" => card' = card

\* Bound, database: no card has buttons, nothing is bought or sold, no balance
\* is read, and no send fails.
Books ==
    /\ PricesAreKnown
    /\ LedgerSaveInReview
    /\ carded' \cup held' \cup openEntry' \cup zero' = {}
    /\ untracked' # untracked => crashes' # crashes

\* Bound, File: one signal.
Boots == Len(signals') <= 1

Slice ==
    CASE deployment.auto -> Trades
      [] deployment.db -> Books
      [] OTHER -> Boots
=============================================================================
