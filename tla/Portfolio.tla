----------------------------- MODULE Portfolio -----------------------------
(***************************************************************************)
(* What becomes of a signal after it fired.  A screening cycle posts the   *)
(* call and starts tracking its token, reviews the opportunities, mirrors  *)
(* the wallet into positions, and marks the scorecard to market, which     *)
(* closes paper trades.  Meanwhile orders are bought, the owner sells, and *)
(* the process may die.                                                    *)
(*                                                                         *)
(* Cycles do not overlap: the scheduler skips a tick while one runs.  Each *)
(* action is the code of a cycle between two awaits; buys, sales and saves *)
(* fall between any two of them.                                           *)
(***************************************************************************)
EXTENDS OpportunityLedger, SequencesExt

CONSTANTS
    Token,          \* tokens of the chain the wallet tracker scans
    Price,          \* what a price feed may answer; 0 when it has no price
    MaxSignals,     \* bound: signals fired
    Deployment,     \* [auto: AUTO_EXECUTE_ENABLED, db: a database URL is set]
    None,           \* no position
    MaxCrash        \* bound: crashes explored

ASSUME PortfolioConstants ==
    /\ IsFiniteSet(Token)
    /\ Price \subseteq Nat
    /\ MaxSignals \in Nat
    /\ Deployment \subseteq [auto : BOOLEAN, db : BOOLEAN]
    /\ None \notin [entry : Price, tp100 : BOOLEAN, tp200 : BOOLEAN, tight : BOOLEAN]
    /\ MaxCrash \in Nat

Signal == 1..MaxSignals
NoSignal == 0

VARIABLES
    deployment,
    pc,             \* the await the cycle is suspended at
    current,        \* the signal being posted
    batch,          \* signals fired in this cycle: firedOpportunities
    toRead,         \* tracked tokens whose balance is still to be read
    zero,           \* tokens whose balance was read as zero: in scannedOk, not held
    holdings,       \* tokens whose balance was read as positive
    toPrice,        \* holdings whose price is still to be fetched
    active,         \* the positions when the scan ended
    toMark,         \* OPEN scorecard entries not marked in this cycle
    held,           \* the wallet
    signals,        \* the fired signals: token and price
    carded,         \* signals whose card, with its buttons, is in the channel
    bought,         \* signals whose order was executed
    tracked,        \* trackedTokens of the state store
    position,       \* activePositions
    openEntry,      \* tokens with an OPEN journal entry of a fill
    card,           \* scorecard entry of each signal
    paper,          \* paper trade of each signal
    call,           \* swarm-learning outcome of each signal, saved at once
    weights,        \* recalibrations of the learned weights, saved with them
    opportunity,    \* the opportunity ledger
    exitAlerts,     \* smart-money exit alerts of the last sync
    stateFile,      \* the state file: what the restart of a process finds
    ledgerFile,     \* the ledger file
    paperDb,        \* the paper trades in the database
    crashes,
    boughtSince,    \* history: tokens bought after their balance was read as zero
    untracked,      \* history: signals whose cycle failed or was lost before a save
    torn            \* history: signals whose card and paper trade a crash separated

cycleVars == <<pc, current, batch>>
scanVars == <<toRead, zero, holdings, toPrice, active>>
bookVars == <<card, paper, toMark>>
learnVars == <<call, weights>>
tradeVars == <<held, bought, openEntry, boughtSince>>
diskVars == <<stateFile, ledgerFile, paperDb, crashes, torn>>
vars == <<deployment, cycleVars, scanVars, bookVars, learnVars, tradeVars, diskVars,
          signals, carded, tracked, position, opportunity, exitAlerts, untracked>>

PC == {"signals", "posting", "broadcasting", "scanning", "pricing", "exits", "marking"}
Verdict == {"none", "OPEN", "TP", "SL"}
Position == [entry : Price, tp100 : BOOLEAN, tp200 : BOOLEAN, tight : BOOLEAN]
Outcome == {"none", "REALIZED", "CORRECT_REJECTION"}
Opportunity == [state : OppState \cup {"unknown"}, seen : BOOLEAN, outcome : Outcome]

TokenOf(s) == signals[s].token

\* A price of 0 makes every ratio infinite or undefined: a rise from 0 reaches
\* any multiple, and nothing falls below a fraction of 0.
Rises(p, entry, num, den) == p > 0 /\ p * den >= entry * num
Falls(p, entry, num, den) == entry > 0 /\ p * den <= entry * num
-----------------------------------------------------------------------------
Init ==
    /\ deployment \in Deployment
    /\ pc = "signals"
    /\ current = NoSignal
    /\ batch = {}
    /\ toRead = <<>>
    /\ zero = {}
    /\ holdings = <<>>
    /\ toPrice = <<>>
    /\ active = {}
    /\ toMark = {}
    /\ held = {}
    /\ signals = <<>>
    /\ carded = {}
    /\ bought = {}
    /\ tracked = <<>>
    /\ position = [t \in Token |-> None]
    /\ openEntry = {}
    /\ card = [s \in Signal |-> "none"]
    /\ paper = card
    /\ call = card
    /\ weights = [success |-> 0, loss |-> 0]
    /\ opportunity = [t \in Token |-> [state |-> "unknown", seen |-> FALSE,
                                       outcome |-> "none"]]
    /\ exitAlerts = {}
    /\ stateFile = [tracked |-> tracked, position |-> position,
                    openEntry |-> openEntry, card |-> card]
    /\ ledgerFile = opportunity
    /\ paperDb = paper
    /\ crashes = 0
    /\ boughtSince = {}
    /\ untracked = {}
    /\ torn = {}
-----------------------------------------------------------------------------
(* Signals *)

\* ingest: an opportunity is created once, and observed when the card carries
\* the pool's liquidity.
Ingest(t, liquid) ==
    opportunity' = [opportunity EXCEPT
        ![t].state = IF @ = "unknown" THEN "FIRST_SEEN" ELSE @,
        ![t].seen = @ \/ liquid]

\* openTrade, unless AUTO: it needs a price, liquidity and a fill simulation that
\* agrees.
OpenTrade(s, p, liquid) ==
    \/ paper' = paper
    \/ /\ p > 0 /\ liquid /\ ~deployment.auto
       /\ paper' = [paper EXCEPT ![s] = "OPEN"]

\* Everything up to the first await of a signal: ledger, scorecard, paper trade
\* and order.  Without a price there is no card in the scorecard.  In AUTO
\* the risk gate may drop the signal before it is posted.
Fire ==
    /\ pc = "signals"
    /\ Len(signals) < MaxSignals
    /\ \E t \in Token, p \in Price, liquid \in BOOLEAN, s \in {Len(signals) + 1} :
          /\ signals' = Append(signals, [token |-> t, price |-> p])
          /\ batch' = batch \cup {s}
          /\ Ingest(t, liquid)
          /\ card' = [card EXCEPT ![s] = IF p > 0 THEN "OPEN" ELSE "none"]
          /\ OpenTrade(s, p, liquid)
          /\ \/ /\ pc' = "posting"
                /\ current' = s
             \/ /\ deployment.auto
                /\ UNCHANGED <<pc, current>>
    /\ UNCHANGED <<deployment, scanVars, toMark, learnVars, tradeVars, diskVars,
                   carded, tracked, position, exitAlerts, untracked>>

\* executeMemeBuy, by the cycle itself before it posts the card or by a click
\* on the card.  A buy that fails is journaled OPEN all the same.
Buy ==
    /\ \E s \in (carded \cup (IF pc = "posting" /\ deployment.auto THEN {current} ELSE {}))
                 \ bought :
          /\ bought' = bought \cup {s}
          /\ openEntry' = openEntry \cup {TokenOf(s)}
          /\ \/ /\ held' = held \cup {TokenOf(s)}
                /\ boughtSince' = boughtSince \cup ({TokenOf(s)} \cap zero)
             \/ UNCHANGED <<held, boughtSince>>
    /\ UNCHANGED <<deployment, cycleVars, scanVars, bookVars, learnVars, diskVars,
                   signals, carded, tracked, position, opportunity, exitAlerts,
                   untracked>>

\* The card goes to Discord, if there is a channel for it.
PostCard ==
    /\ pc = "posting"
    /\ carded' \in {carded, carded \cup {current}}
    /\ pc' = "broadcasting"
    /\ UNCHANGED <<deployment, current, batch, scanVars, bookVars, learnVars, tradeVars,
                   diskVars, signals, tracked, position, opportunity, exitAlerts,
                   untracked>>

\* After the Telegram broadcast the token is tracked and the call recorded.
Track ==
    /\ pc = "broadcasting"
    /\ tracked' = IF Contains(tracked, TokenOf(current)) THEN tracked
                  ELSE Append(tracked, TokenOf(current))
    /\ call' = [call EXCEPT ![current] = "OPEN"]
    /\ pc' = "signals"
    /\ current' = NoSignal
    /\ UNCHANGED <<deployment, batch, scanVars, bookVars, weights, tradeVars, diskVars,
                   signals, carded, position, opportunity, exitAlerts, untracked>>

\* A send that throws ends the whole cycle.
PostFails ==
    /\ pc \in {"posting", "broadcasting"}
    /\ pc' = "signals"
    /\ current' = NoSignal
    /\ batch' = {}
    /\ untracked' = untracked \cup {current}
    /\ UNCHANGED <<deployment, scanVars, bookVars, learnVars, tradeVars, diskVars,
                   signals, carded, tracked, position, opportunity, exitAlerts>>
-----------------------------------------------------------------------------
(* The opportunity review *)

\* setFinalOutcome by the post-mortem: what the position manager closed is
\* REALIZED and feeds nothing.  What expired was parked and never admitted to
\* the evaluation window, hence no trajectory to judge and nothing to feed.
PostMortem(o) ==
    IF o.state \in TERMINAL_STATES /\ o.outcome = "none"
    THEN [o EXCEPT !.outcome =
              IF o.state = "EXITED" THEN "REALIZED" ELSE "CORRECT_REJECTION"]
    ELSE o

\* The batch's dispatch, the strategist's review of every opportunity and the
\* post-mortem, with the ledger flushed; then the balance scan starts.  A signal
\* is dispatched when its agent's own confidence is at least 80.  The sighting
\* of a card carries no volume, so the review admits nothing.
Review ==
    /\ pc = "signals"
    /\ \E dispatched \in SUBSET batch, acting \in SUBSET Token :
         LET afterDispatch(t) == IF \E s \in dispatched : TokenOf(s) = t
                                 THEN Dispatched(opportunity[t].state)
                                 ELSE opportunity[t].state
         IN  opportunity' = [t \in Token |->
                 PostMortem([opportunity[t] EXCEPT
                     !.state = Reviewed(afterDispatch(t), opportunity[t].seen, FALSE,
                                        t \in acting)])]
    /\ ledgerFile' = opportunity'
    /\ batch' = {}
    /\ toRead' = tracked
    /\ exitAlerts' = {}
    /\ pc' = "scanning"
    /\ UNCHANGED <<deployment, current, zero, holdings, toPrice, active, bookVars,
                   learnVars, tradeVars, stateFile, paperDb, crashes, torn, signals,
                   carded, tracked, position, untracked>>
-----------------------------------------------------------------------------
(* The wallet sync *)

\* One balanceOf; an unreadable balance leaves the token out of scannedOk.
ReadBalance ==
    /\ pc = "scanning" /\ toRead # <<>>
    /\ toRead' = Tail(toRead)
    /\ LET t == Head(toRead)
       IN  \/ /\ t \in held
              /\ holdings' = Append(holdings, t)
              /\ UNCHANGED zero
           \/ /\ t \notin held
              /\ zero' = zero \cup {t}
              /\ UNCHANGED holdings
           \/ UNCHANGED <<zero, holdings>>
    /\ UNCHANGED <<deployment, cycleVars, toPrice, active, bookVars, learnVars,
                   tradeVars, diskVars, signals, carded, tracked, position,
                   opportunity, exitAlerts, untracked>>

Positions == {t \in Token : position[t] # None}

\* getActivePositions: a copy, used until the sync ends.
ScanEnds ==
    /\ pc = "scanning" /\ toRead = <<>>
    /\ active' = Positions
    /\ toPrice' = holdings
    /\ pc' = "pricing"
    /\ UNCHANGED <<deployment, current, batch, toRead, zero, holdings, bookVars,
                   learnVars, tradeVars, diskVars, signals, carded, tracked, position,
                   opportunity, exitAlerts, untracked>>

\* updateMemePosition: one milestone at a time, the higher one first.
Updated(pos, p) ==
    CASE Rises(p, pos.entry, 3, 1) /\ ~pos.tp200 -> [pos EXCEPT !.tp200 = TRUE]
      [] ~(Rises(p, pos.entry, 3, 1) /\ ~pos.tp200)
         /\ Rises(p, pos.entry, 2, 1) /\ ~pos.tp100 -> [pos EXCEPT !.tp100 = TRUE]
      [] OTHER -> pos

\* Mutant: without the terminal-state guard a closed call is fed again.
AnyCalls(t) == {s \in Signal : call[s] # "none" /\ TokenOf(s) = t}

\* updateSignalPrice: the newest open call of the token is closed by a rise to
\* 1.5 times or a fall to 0.8 times its price, and closing recalibrates.  The
\* extremes the code keeps cannot decide more than the current price does: a
\* price that reached a threshold earlier has closed the call.
OpenCalls(t) == {s \in Signal : call[s] = "OPEN" /\ TokenOf(s) = t}

Learn(t, p) ==
    IF OpenCalls(t) = {} THEN UNCHANGED learnVars
    ELSE \E s \in OpenCalls(t) :
            /\ \A other \in OpenCalls(t) : other <= s
            /\ CASE Rises(p, signals[s].price, 3, 2) ->
                      /\ call' = [call EXCEPT ![s] = "TP"]
                      /\ weights' = [weights EXCEPT !.success = @ + 1]
                 [] Falls(p, signals[s].price, 4, 5) ->
                      /\ call' = [call EXCEPT ![s] = "SL"]
                      /\ weights' = [weights EXCEPT !.loss = @ + 1]
                 [] OTHER -> UNCHANGED learnVars

\* Mutant: does not find the position, as if addresses differed in case.
PriceHoldingAddsAgain ==
    /\ pc = "pricing" /\ toPrice # <<>>
    /\ toPrice' = Tail(toPrice)
    /\ LET t == Head(toPrice)
       IN  \/ UNCHANGED <<position, opportunity, learnVars>>
           \/ \E p \in Price :
                 /\ position' = [position EXCEPT
                        ![t] = [entry |-> p, tp100 |-> FALSE, tp200 |-> FALSE,
                                tight |-> FALSE]]
                 /\ opportunity' = [opportunity EXCEPT ![t].state = PositionOpened(@)]
                 /\ UNCHANGED learnVars
    /\ UNCHANGED <<deployment, cycleVars, toRead, zero, holdings, active, bookVars,
                   tradeVars, diskVars, signals, carded, tracked, exitAlerts, untracked>>

\* fetchTokenInfo of a holding: no answer skips it; otherwise its position is
\* added, or updated and its call learns.
PriceHolding ==
    /\ pc = "pricing" /\ toPrice # <<>>
    /\ toPrice' = Tail(toPrice)
    /\ LET t == Head(toPrice)
       IN  \/ UNCHANGED <<position, opportunity, learnVars>>
           \/ \E p \in Price :
                 \/ /\ t \notin active
                    /\ position' = [position EXCEPT
                           ![t] = [entry |-> p, tp100 |-> FALSE, tp200 |-> FALSE,
                                   tight |-> FALSE]]
                    /\ opportunity' = [opportunity EXCEPT
                           ![t].state = PositionOpened(@)]
                    /\ UNCHANGED learnVars
                 \/ /\ t \in active
                    /\ position' = [position EXCEPT ![t] = Updated(@, p)]
                    /\ Learn(t, p)
                    /\ UNCHANGED opportunity
    /\ UNCHANGED <<deployment, cycleVars, toRead, zero, holdings, active, bookVars,
                   tradeVars, diskVars, signals, carded, tracked, exitAlerts, untracked>>

\* Mutant: every token read as zero is closed, a position or not.
GoneIfZero == {t \in zero : ~Contains(holdings, t)}

\* Positions that were read and are not held are closed, and with them every
\* OPEN journal entry of the contract.
Gone == {t \in active : ~Contains(holdings, t) /\ t \in zero}

CloseGone ==
    /\ pc = "pricing" /\ toPrice = <<>>
    /\ position' = [t \in Token |-> IF t \in Gone THEN None ELSE position[t]]
    /\ openEntry' = openEntry \ Gone
    /\ opportunity' = [t \in Token |->
           IF t \in Gone THEN [opportunity[t] EXCEPT !.state = PositionExited(@)]
           ELSE opportunity[t]]
    /\ zero' = {}
    /\ holdings' = <<>>
    /\ boughtSince' = {}
    /\ pc' = "exits"
    /\ UNCHANGED <<deployment, current, batch, toRead, toPrice, active, bookVars,
                   learnVars, held, bought, diskVars, signals, carded, tracked,
                   exitAlerts, untracked>>

\* checkSmartMoneyExit over the copy taken when the scan ended; an alert also
\* tightens the stop of a position that still exists.
CheckExits ==
    /\ pc = "exits"
    /\ exitAlerts' \in SUBSET active
    /\ position' = [t \in Token |->
           IF t \in exitAlerts' \cap Positions THEN [position[t] EXCEPT !.tight = TRUE]
           ELSE position[t]]
    /\ active' = {}
    /\ toMark' = {s \in Signal : card[s] = "OPEN"}
    /\ pc' = "marking"
    /\ UNCHANGED <<deployment, current, batch, toRead, zero, holdings, toPrice, card,
                   paper, learnVars, tradeVars, diskVars, signals, carded, tracked,
                   opportunity, untracked>>
-----------------------------------------------------------------------------
(* The scorecard *)

\* updateScorecardPrice: +100 % is a TP, -50 % an SL.
Marked(s, p) ==
    CASE Rises(p, signals[s].price, 2, 1) -> "TP"
      [] Falls(p, signals[s].price, 1, 2) -> "SL"
      [] OTHER -> "OPEN"

\* closeByScorecard, after the entry was marked.
ClosedPaper(s) == IF paper[s] = "OPEN" THEN card'[s] ELSE paper[s]

\* One entry: a price that is missing or 0 leaves it alone.
Mark ==
    /\ pc = "marking"
    /\ \E s \in toMark :
          /\ \A other \in toMark : s <= other
          /\ toMark' = toMark \ {s}
          /\ \/ UNCHANGED <<card, paper>>
             \/ \E p \in Price \ {0} :
                   /\ card' = [card EXCEPT ![s] = Marked(s, p)]
                   /\ paper' = [paper EXCEPT ![s] = ClosedPaper(s)]
    /\ UNCHANGED <<deployment, cycleVars, scanVars, learnVars, tradeVars, diskVars,
                   signals, carded, tracked, position, opportunity, exitAlerts,
                   untracked>>

CycleEnds ==
    /\ pc = "marking" /\ toMark = {}
    /\ pc' = "signals"
    /\ UNCHANGED <<deployment, current, batch, scanVars, bookVars, learnVars, tradeVars,
                   diskVars, signals, carded, tracked, position, opportunity,
                   exitAlerts, untracked>>
-----------------------------------------------------------------------------
(* The owner, the disk and the process *)

Sell ==
    /\ \E t \in held : held' = held \ {t}
    /\ UNCHANGED <<deployment, cycleVars, scanVars, bookVars, learnVars, bought,
                   openEntry, boughtSince, diskVars, signals, carded, tracked, position,
                   opportunity, exitAlerts, untracked>>

Current == [tracked |-> tracked, position |-> position, openEntry |-> openEntry,
            card |-> card]

\* The debounced save of the state store, the one of the ledger, and the
\* database write of one paper trade; each may come at any time.
Save ==
    /\ \/ /\ stateFile' = Current
          /\ UNCHANGED <<ledgerFile, paperDb>>
       \/ /\ ledgerFile' = opportunity
          /\ UNCHANGED <<stateFile, paperDb>>
       \/ /\ deployment.db
          /\ \E s \in Signal : paperDb' = [paperDb EXCEPT ![s] = paper[s]]
          /\ UNCHANGED <<stateFile, ledgerFile>>
    /\ UNCHANGED <<deployment, cycleVars, scanVars, bookVars, learnVars, tradeVars,
                   crashes, torn, signals, carded, tracked, position, opportunity,
                   exitAlerts, untracked>>

\* The process dies and boots.  Without a database nothing reads the file the
\* paper trades were appended to.
Restart ==
    /\ crashes < MaxCrash
    /\ crashes' = crashes + 1
    /\ pc' = "signals"
    /\ current' = NoSignal
    /\ batch' = {}
    /\ toRead' = <<>>
    /\ zero' = {}
    /\ holdings' = <<>>
    /\ toPrice' = <<>>
    /\ active' = {}
    /\ toMark' = {}
    /\ exitAlerts' = {}
    /\ boughtSince' = {}
    /\ tracked' = stateFile.tracked
    /\ position' = stateFile.position
    /\ openEntry' = stateFile.openEntry
    /\ card' = stateFile.card
    /\ opportunity' = ledgerFile
    /\ paper' = IF deployment.db THEN paperDb ELSE [s \in Signal |-> "none"]
    /\ untracked' = {s \in DOMAIN signals : ~Contains(stateFile.tracked, TokenOf(s))}
    /\ torn' = {s \in Signal : paper'[s] # card'[s]}
    /\ UNCHANGED <<deployment, learnVars, held, bought, stateFile, ledgerFile, paperDb,
                   signals, carded>>

Cycle ==
    \/ PostCard \/ Track \/ PostFails \/ Review \/ ReadBalance \/ ScanEnds
    \/ PriceHolding \/ CloseGone \/ CheckExits \/ Mark \/ CycleEnds

Next == Fire \/ Buy \/ Cycle \/ Sell \/ Save \/ Restart

Spec == Init /\ [][Next]_vars
-----------------------------------------------------------------------------
TypeOK ==
    /\ deployment \in Deployment
    /\ pc \in PC
    /\ signals \in Seq([token : Token, price : Price]) /\ Len(signals) <= MaxSignals
    /\ current \in DOMAIN signals \cup {NoSignal}
    /\ toMark \cup batch \cup carded \cup bought \cup untracked \subseteq DOMAIN signals
    /\ {toRead, toPrice, tracked, holdings} \subseteq Seq(Token)
    /\ zero \cup active \cup held \cup openEntry \cup exitAlerts
       \cup boughtSince \subseteq Token
    /\ position \in [Token -> Position \cup {None}]
    /\ card \in [Signal -> Verdict] /\ paper \in [Signal -> Verdict]
    /\ call \in [Signal -> Verdict]
    /\ weights \in [success : Nat, loss : Nat]
    /\ opportunity \in [Token -> Opportunity]
    /\ torn \subseteq Signal
    /\ crashes \in 0..MaxCrash

\* A position is closed, and the OPEN journal entries of its contract with it,
\* only if the wallet was empty of the token when this sync read it: a balance
\* that could not be read never looks like a sale (scannedOk).  A token bought
\* again after the read is closed with the old position.
CloseIsBacked ==
    [][\A t \in Token :
          /\ crashes' = crashes
          /\ \/ position[t] # None /\ position'[t] = None
             \/ t \in openEntry \ openEntry'
          => t \notin held \/ t \in boughtSince]_vars

\* The learned weights move once for every posted call that reached its target
\* or its stop, whatever prices come later, however often its token is called
\* again, and across restarts: updateSignalPrice's terminal-state guard.
CallsLearnOnce ==
    /\ weights.success = Cardinality({s \in Signal : call[s] = "TP"})
    /\ weights.loss = Cardinality({s \in Signal : call[s] = "SL"})

\* Whatever was bought is watched: once the cycle is done with a signal whose
\* order was executed, by itself or by a click on the card, the wallet tracker
\* knows the token; only a post that failed or a crash takes it away.
BuyIsTracked ==
    \A s \in bought :
        s = current \/ s \in untracked \/ Contains(tracked, TokenOf(s))

\* A paper trade has the verdict of its scorecard entry at every moment, so no
\* trade is left open that the scorecard will never look at again; only a crash
\* between the two saves separates them.
PaperFollowsCard ==
    \A s \in Signal \ torn : paper[s] # "none" => paper[s] = card[s]

\* What has ended stays ended, whatever fires, is dispatched, reviewed, bought
\* or sold for the token afterwards, and its label is written once.
EndIsFinal ==
    [][\A t \in Token :
          opportunity[t].state \in TERMINAL_STATES /\ crashes' = crashes =>
              /\ opportunity'[t].state = opportunity[t].state
              /\ opportunity[t].outcome # "none" =>
                     opportunity'[t].outcome = opportunity[t].outcome]_vars

\* An opportunity is EXITED only by the close of a position of its token.
ExitedMeansClosed ==
    [][\A t \in Token :
          /\ opportunity[t].state # "EXITED"
          /\ opportunity'[t].state = "EXITED"
          /\ crashes' = crashes
          => position[t] # None /\ position'[t] = None]_vars

\* As long as a position lives it keeps the price it was entered at, the
\* milestones it reached and the tightened stop: no sync adds it a second time,
\* which would announce every milestone again from a new entry.
PositionOnlyAdvances ==
    [][\A t \in Token :
          position[t] # None /\ position'[t] # None /\ crashes' = crashes =>
              /\ position'[t].entry = position[t].entry
              /\ position[t].tp100 => position'[t].tp100
              /\ position[t].tp200 => position'[t].tp200
              /\ position[t].tight => position'[t].tight]_vars

\* The books agree with each other: weights with calls (CallsLearnOnce), orders
\* with the tracker (BuyIsTracked), paper trades with the scorecard
\* (PaperFollowsCard).
BooksAgree == CallsLearnOnce /\ BuyIsTracked /\ PaperFollowsCard

\* What was recorded of a position or an opportunity is not taken back:
\* CloseIsBacked, EndIsFinal and PositionOnlyAdvances.
HistoryIsFinal == CloseIsBacked /\ EndIsFinal /\ PositionOnlyAdvances

\* Types, and ExitedMeansClosed.
ExitIsAClose == []TypeOK /\ ExitedMeansClosed
=============================================================================
