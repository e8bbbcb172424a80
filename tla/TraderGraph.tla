----------------------------- MODULE TraderGraph -----------------------------
(***************************************************************************)
(* The trader intelligence of the screening agent.  Every pass reads the   *)
(* leaderboard of each window, remembers the rows of each handle           *)
(* (TraderPersistence) and links the handle to its wallets (WalletGraph).  *)
(* A trader fresh on every window is persistent; handles whose wallets     *)
(* form one cluster are meant to be one cohort.                            *)
(*                                                                         *)
(* The JavaScript sets are sequences here: the order in which wallets and  *)
(* handles were first seen decides which handle names a cluster.  Time is  *)
(* kept as ages, in ticks, capped at MaxAge.                               *)
(***************************************************************************)
EXTENDS Integers, SequencesExt

CONSTANTS
    Handle, Wallet, Window,
    Answers,      \* the rows a board can answer with, in rank order
    FreshFor,     \* the age up to which a row of a window is current
    BoardTtl,     \* the life of a board in the governor's cache
    MaxAge        \* bound: ages are not told apart beyond this one

\* A row of a board as the adapter hands it on; a missing handle is "".
BoardRow == [handle : Handle \cup {""}, wallets : Seq(Wallet), volume : Nat]

ASSUME TraderAssumption ==
    /\ FreshFor \in [Window -> Nat]
    /\ BoardTtl \in Nat /\ MaxAge \in Nat
    /\ \A w \in Window : FreshFor[w] + BoardTtl < MaxAge
    /\ Answers \subseteq Seq(BoardRow) /\ "" \notin Handle
    /\ IsFiniteSet(Wallet)

VARIABLES
    rows,              \* per handle and window, the row TraderPersistence keeps
    handleToWallets,   \* the wallets of a handle
    walletToHandles,   \* the handles of a wallet
    adj,               \* the neighbours of a wallet
    boards,            \* per window, the answer in the governor's cache
    listed             \* history: the age of the answer that last listed a handle

traderVars == <<rows, handleToWallets, walletToHandles, adj, boards, listed>>

NoRow == [volume |-> 0, age |-> -1]

NoBoard == [rows |-> <<>>, age |-> -1]

HasRow(x) == x.age >= 0

OneTickOlder(x) == IF HasRow(x) /\ x.age < MaxAge THEN [x EXCEPT !.age = @ + 1] ELSE x

\* A JavaScript Set, in the order of insertion, after add() of each element of s
\* but those in except.
AddedBut(old, s, except) ==
    LET after[i \in 0..Len(s)] ==
          IF i = 0 THEN old
          ELSE IF s[i] \in except \/ Contains(after[i - 1], s[i]) THEN after[i - 1]
          ELSE Append(after[i - 1], s[i])
    IN  after[Len(s)]

Added(old, s) == AddedBut(old, s, {})
Once(s) == Added(<<>>, s)

-----------------------------------------------------------------------------
(* Persistence. *)

\* A row replaces the one kept when it is richer or newer.
Ingested(kept, volume) ==
    IF ~HasRow(kept) \/ volume > kept.volume \/ kept.age > 0
    THEN [volume |-> volume, age |-> 0]
    ELSE kept

IsFresh(h, w) == HasRow(rows[h][w]) /\ rows[h][w].age <= FreshFor[w]

Strict(h) == \A w \in Window : IsFresh(h, w)

\* persistentTraders(false): every handle seen, with the windows still current.
PersistentTraders == {h \in Handle : \E w \in Window : HasRow(rows[h][w])}

-----------------------------------------------------------------------------
(* The identity graph. *)

\* An edge between every two of the wallets.
Linked(edges, wallets) ==
    [x \in Wallet |-> IF Contains(wallets, x) THEN AddedBut(edges[x], wallets, {x}) ELSE edges[x]]

\* The row's wallets join those of the handle, and all of these are linked.
Registered(g, row) ==
    LET h == row.handle
        mine == Added(g.wallets[h], row.wallets)
    IN  IF row.wallets = <<>> THEN g
        ELSE [g EXCEPT !.wallets[h] = mine,
                       !.adj = Linked(@, mine),
                       !.handles = [x \in Wallet |-> IF Contains(row.wallets, x) THEN Added(@[x], <<h>>) ELSE @[x]]]

\* Breadth first: the queue is the tail of the wallets seen so far.
ConnectedCluster(start) ==
    LET seen[i \in 0..Cardinality(Wallet)] ==
          IF i = 0 THEN <<start>>
          ELSE LET queue == seen[i - 1]
               IN  IF i > Len(queue) THEN queue ELSE Added(queue, adj[queue[i]])
    IN  seen[Cardinality(Wallet)]

\* The wallets of the identity, then the handles of those wallets.
ResolveTrader(h) ==
    LET wallets == Once(FlattenSeq([i \in DOMAIN handleToWallets[h] |->
                                      ConnectedCluster(handleToWallets[h][i])]))
    IN  [wallets |-> wallets,
         handles |-> Once(FlattenSeq([i \in DOMAIN wallets |-> walletToHandles[wallets[i]]]))]

\* Mutant: traders whose wallets are not known share one key.
CohortOrUnknown(h) ==
    LET resolved == ResolveTrader(h)
    IN  IF resolved.wallets = <<>> THEN "unknown" ELSE Head(resolved.handles)

\* The key under which a trader is counted: the first handle of its cluster,
\* its own when no wallet of it is known.
CohortOf(h) ==
    LET resolved == ResolveTrader(h)
    IN  IF resolved.wallets = <<>> THEN h ELSE Head(resolved.handles)

\* The cohorts are told only once some trader is persistent.
WalletNativeCohorts ==
    LET cohort == [h \in PersistentTraders |-> CohortOf(h)]
    IN  IF \E h \in PersistentTraders : Strict(h)
        THEN {{h \in PersistentTraders : cohort[h] = c} : c \in Range(cohort)}
        ELSE {}

-----------------------------------------------------------------------------
TraderInit ==
    /\ rows = [h \in Handle |-> [w \in Window |-> NoRow]]
    /\ handleToWallets = [h \in Handle |-> <<>>]
    /\ walletToHandles = [x \in Wallet |-> <<>>]
    /\ adj = [x \in Wallet |-> <<>>]
    /\ boards = [w \in Window |-> NoBoard]
    /\ listed = [h \in Handle |-> [w \in Window |-> -1]]

\* The governor answers from its cache within the ttl, else the service does.
Get(w, board) ==
    IF HasRow(boards[w]) /\ boards[w].age < BoardTtl
    THEN board = boards[w]
    ELSE board \in {[rows |-> a, age |-> 0] : a \in Answers}

\* A row without a handle is dropped.
Leaderboard(board) ==
    LET kept[i \in 0..Len(board.rows)] ==
          IF i = 0 THEN <<>>
          ELSE IF board.rows[i].handle = "" THEN kept[i - 1]
          ELSE Append(kept[i - 1], board.rows[i])
    IN  kept[Len(board.rows)]

\* Each row found is ingested, stamped now, and registered.
Collected(found, w) ==
    LET after[i \in 0..Len(found)] ==
          IF i = 0 THEN [rows |-> rows, wallets |-> handleToWallets, adj |-> adj, handles |-> walletToHandles]
          ELSE LET row == found[i]
               IN  Registered([after[i - 1] EXCEPT !.rows[row.handle][w] = Ingested(@, row.volume)], row)
    IN  after[Len(found)]

\* One window of a pass.  A failing request leaves everything as it was.
CollectFomoTraderIntel(w) ==
    \E board \in {boards[w]} \cup {[rows |-> a, age |-> 0] : a \in Answers} :
      /\ Get(w, board)
      /\ LET found == Leaderboard(board)
             known == Collected(found, w)
         IN  /\ rows' = known.rows /\ handleToWallets' = known.wallets
             /\ walletToHandles' = known.handles /\ adj' = known.adj
             /\ boards' = [boards EXCEPT ![w] = board]
             /\ listed' = [h \in Handle |-> IF \E i \in 1..Len(found) : found[i].handle = h
                                            THEN [listed[h] EXCEPT ![w] = board.age]
                                            ELSE listed[h]]

\* Time passes for the rows and the cached boards alike.
TraderTick ==
    /\ rows' = [h \in Handle |-> [w \in Window |-> OneTickOlder(rows[h][w])]]
    /\ boards' = [w \in Window |-> IF boards[w].age < BoardTtl THEN OneTickOlder(boards[w]) ELSE NoBoard]
    /\ listed' = [h \in Handle |-> [w \in Window |->
                    IF listed[h][w] \in 0..(MaxAge - 1) THEN listed[h][w] + 1 ELSE listed[h][w]]]
    /\ UNCHANGED <<handleToWallets, walletToHandles, adj>>

TraderNext == (\E w \in Window : CollectFomoTraderIntel(w)) \/ TraderTick

TraderSpec == TraderInit /\ [][TraderNext]_traderVars

-----------------------------------------------------------------------------
(* Properties. *)

\* Two handles are one actor when a chain of shared wallets joins them: no set
\* that holds one and is closed under sharing a wallet leaves out the other.
SharesWallet(h, k) == ToSet(handleToWallets[h]) \cap ToSet(handleToWallets[k]) # {}

ClosedUnderSharing == {S \in SUBSET Handle : \A h \in S, k \in Handle : SharesWallet(h, k) => k \in S}

OneActor(h, k) == \A S \in ClosedUnderSharing : h \in S => k \in S

\* A persistent trader was on the board of every window within that window's
\* budget (and the life of a cached board), and a trader on every board within
\* the budget is persistent, however his volume moved since
\* (trader-persistence.ts:103-107, :137-141).
StrictIsCurrent ==
    \A h \in Handle :
      /\ Strict(h) => \A w \in Window : listed[h][w] \in 0..(FreshFor[w] + BoardTtl)
      /\ (\A w \in Window : listed[h][w] \in 0..FreshFor[w]) => Strict(h)

\* No cohort mixes two actors, and no trader is left out of the cohorts
\* (trader-persistence.ts:339-344).
CohortsKeepActorsApart ==
    LET cohorts == WalletNativeCohorts
    IN  /\ \A c \in cohorts : \A h, k \in c : OneActor(h, k)
        /\ cohorts # {} => UNION cohorts = PersistentTraders

\* The strict board shows current traders, and strangers share no cohort:
\* StrictIsCurrent and CohortsKeepActorsApart (trader-persistence.ts).
TradersAreCurrent == StrictIsCurrent /\ CohortsKeepActorsApart

=============================================================================
