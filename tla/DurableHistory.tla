--------------------------- MODULE DurableHistory ---------------------------
(***************************************************************************)
(* What the bot keeps in Postgres.  First the schema: ensurePool and       *)
(* runMigrations, whose statements share one pg pool with the sightings    *)
(* that are written meanwhile.  Then the histories of five stores, each    *)
(* with its memory, its fire-and-forget writes and what it reads back at   *)
(* boot: the decision, paper and opportunity ledgers, the identity graph   *)
(* and the trader rows.  The stores are alike, so one is looked at a time. *)
(***************************************************************************)
EXTENDS Integers, Sequences, FiniteSets, SequencesExt

CONSTANTS
    Migrations,   \* the versions, in filename order
    Unparsable,   \* versions whose SQL Postgres does not accept
    MaxLives,     \* bound on deaths of the process
    Ids           \* nonces, trades, edges, trader windows, opportunities

ASSUME HistoryAssumption == Migrations \in Seq(STRING) /\ MaxLives \in Nat

VARIABLES
    ready,        \* ensurePool has set this.pool
    conns,        \* the pg pool: [busy, idle, queue]
    tx,           \* connection -> its transaction
    db,           \* [tables, recorded]: what is committed
    runner,       \* runMigrations: [at, version, applied]
    lives,        \* lives of the process left
    mixed         \* observations were written while the migrations ran

schemaVars == <<ready, conns, tx, db, runner, lives, mixed>>

Conn == 1..2
NoTx == [open |-> FALSE, failed |-> FALSE, tables |-> {}, recorded |-> {}]
NoPool == [busy |-> [c \in Conn |-> "closed"], idle |-> <<>>, queue |-> <<>>]
NotRunning == [at |-> "none", version |-> "none", applied |-> {}]

SchemaInit ==
    /\ ready = FALSE /\ conns = NoPool /\ tx = [c \in Conn |-> NoTx]
    /\ db = [tables |-> {}, recorded |-> {}] /\ runner = NotRunning
    /\ lives = MaxLives /\ mixed = FALSE

-----------------------------------------------------------------------------
(* The pool: the connection returned last, else a new one, else a queue    *)

Ask(p, who) ==
    LET unopened == {c \in Conn : p.busy[c] = "closed"}
        top == Last(p.idle)
        new == CHOOSE c \in unopened : TRUE
    IN  IF p.idle # <<>> THEN [p EXCEPT !.busy[top] = who, !.idle = Front(@)]
        ELSE IF unopened # {} THEN [p EXCEPT !.busy[new] = who]
        ELSE [p EXCEPT !.queue = Append(@, who)]

Give(p, c) ==
    IF p.queue # <<>> THEN [p EXCEPT !.busy[c] = Head(p.queue), !.queue = Tail(@)]
    ELSE [p EXCEPT !.busy[c] = "idle", !.idle = Append(@, c)]

-----------------------------------------------------------------------------
(* runMigrations                                                           *)

LeftAfter(applied, version) ==
    LET done == IF version = "none" THEN 0 ELSE CHOOSE i \in 1..Len(Migrations) : Migrations[i] = version
    IN  {i \in (done + 1)..Len(Migrations) : Migrations[i] \notin applied}
NextVersion(applied, version) ==
    LET left == LeftAfter(applied, version) IN Migrations[CHOOSE i \in left : \A j \in left : i <= j]

\* Mutant: the versions are applied without a transaction.
FirstStatementBare == "body"

FirstStatement == "begin"

AfterStatement(s) == CASE s = "begin" -> "body" [] s = "body" -> "record" [] s = "record" -> "commit"

\* The runner goes on to its next version, or is done.
Following(applied, version) ==
    IF LeftAfter(applied, version) = {} THEN [at |-> "done", version |-> version, applied |-> applied]
    ELSE [at |-> FirstStatement, version |-> NextVersion(applied, version), applied |-> applied]

\* The first caller sets this.pool and then migrates; later callers find it set.
EnsurePool ==
    /\ ~ready /\ ready' = TRUE
    /\ runner' = [NotRunning EXCEPT !.at = "read"] /\ conns' = Ask(NoPool, "runner")
    /\ UNCHANGED <<tx, db, lives, mixed>>

\* The versions schema_migrations has; each statement waits for the one before.
ReadsApplied(c) ==
    LET next == Following(db.recorded, "none")
    IN  /\ runner.at = "read" /\ conns.busy[c] = "runner"
        /\ runner' = next
        /\ conns' = IF next.at = "done" THEN Give(conns, c) ELSE Ask(Give(conns, c), "runner")
        /\ UNCHANGED <<ready, tx, db, lives, mixed>>

\* What the SQL of a version, or its row, adds to a [tables, recorded] record.
Adds(s, v, to) == IF s = "body" THEN [to EXCEPT !.tables = @ \cup {v}]
                  ELSE IF s = "record" THEN [to EXCEPT !.recorded = @ \cup {v}] ELSE to

\* BEGIN, the version's SQL and its row, each on the connection the pool gave.
StatementAnswers(c) ==
    LET s == runner.at
        ok == s = "begin" \/ (~tx[c].failed /\ ~(s = "body" /\ runner.version \in Unparsable))
    IN  /\ s \in {"begin", "body", "record"} /\ conns.busy[c] = "runner"
        /\ runner' = [runner EXCEPT !.at = IF ok THEN AfterStatement(s) ELSE "rollback"]
        /\ tx' = [tx EXCEPT ![c] = IF s = "begin" THEN [@ EXCEPT !.open = TRUE]
                                   ELSE IF ~@.open THEN @
                                   ELSE IF ok THEN Adds(s, runner.version, @) ELSE [@ EXCEPT !.failed = TRUE]]
        /\ db' = IF ok /\ ~tx[c].open THEN Adds(s, runner.version, db) ELSE db
        /\ conns' = Ask(Give(conns, c), "runner")
        /\ UNCHANGED <<ready, lives, mixed>>

\* COMMIT publishes what its own connection holds, nothing when that has failed.
CommitAnswers(c) ==
    LET next == Following(runner.applied, runner.version)
    IN  /\ runner.at = "commit" /\ conns.busy[c] = "runner"
        /\ runner' = next
        /\ db' = IF tx[c].failed THEN db
                 ELSE [tables |-> db.tables \cup tx[c].tables, recorded |-> db.recorded \cup tx[c].recorded]
        /\ tx' = [tx EXCEPT ![c] = NoTx]
        /\ conns' = IF next.at = "done" THEN Give(conns, c) ELSE Ask(Give(conns, c), "runner")
        /\ UNCHANGED <<ready, lives, mixed>>

\* A refused version is rolled back and those after it are not tried; the pool stays
\* set, so nobody migrates again in this life of the process.
RollbackAnswers(c) ==
    /\ runner.at = "rollback" /\ conns.busy[c] = "runner"
    /\ runner' = [runner EXCEPT !.at = "failed"]
    /\ tx' = [tx EXCEPT ![c] = NoTx] /\ conns' = Give(conns, c)
    /\ UNCHANGED <<ready, db, lives, mixed>>

-----------------------------------------------------------------------------
(* PostgresObservationStore.append: a pass's sightings, all at once        *)

AppendObservations ==
    /\ ready /\ \A c \in Conn : conns.busy[c] # "sighting"
    /\ conns' = Ask(Ask(conns, "sighting"), "sighting")
    /\ mixed' = (mixed \/ runner.at \notin {"done", "failed"})
    /\ UNCHANGED <<ready, tx, db, runner, lives>>

\* A row the table is not there for fails the transaction it got into; a good one
\* stays in it, and neither is tried again.
ObservationAnswers(c) ==
    LET seen == Migrations[1] \in db.tables \cup tx[c].tables
    IN  /\ conns.busy[c] = "sighting" /\ conns' = Give(conns, c)
        /\ tx' = IF tx[c].open /\ ~seen THEN [tx EXCEPT ![c].failed = TRUE] ELSE tx
        /\ UNCHANGED <<ready, db, runner, lives, mixed>>

\* The process dies: its connections close, and what they had open is gone.
SchemaRestart ==
    /\ ready /\ lives > 0 /\ lives' = lives - 1
    /\ ready' = FALSE /\ conns' = NoPool /\ tx' = [c \in Conn |-> NoTx] /\ runner' = NotRunning
    /\ UNCHANGED <<db, mixed>>

SchemaNext ==
    \/ EnsurePool
    \/ \E c \in Conn : ReadsApplied(c) \/ StatementAnswers(c) \/ CommitAnswers(c) \/ RollbackAnswers(c)
    \/ AppendObservations
    \/ \E c \in Conn : ObservationAnswers(c)
    \/ SchemaRestart

SchemaSpec == SchemaInit /\ [][SchemaNext]_schemaVars

-----------------------------------------------------------------------------
(* The histories                                                           *)

VARIABLES
    store,        \* the store looked at
    memory,       \* id -> what the process knows of it
    table,        \* id -> what its Postgres table holds
    flight,       \* <<id, state>> writes that have not landed
    file,         \* id -> what the store's file holds
    hydration,    \* [at, answer, known]: the boot-time load
    scheduled,    \* the scheduler runs: index.ts is past its awaits
    outage,       \* Postgres does not answer
    deaths        \* lives of the process left

historyVars == <<store, memory, table, flight, file, hydration, scheduled, outage, deaths>>

Store == {"decisions", "paper", "graph", "traders", "ledger", "receipts"}
NoRows == [i \in Ids |-> "none"]
Loads(s) == s # "receipts"
\* index.ts waits for these two before it starts the scheduler.
Awaited(s) == s \in {"paper", "ledger"}

\* The ledger reads its file in its constructor; the others, with a database, do not.
Boots == [memory |-> IF store = "ledger" THEN file ELSE NoRows,
          hydration |-> [at |-> IF Loads(store) THEN "asked" ELSE "done", answer |-> NoRows, known |-> NoRows]]

HistoryInit ==
    /\ store \in Store /\ memory = NoRows /\ table = NoRows /\ flight = {} /\ file = NoRows
    /\ hydration = [at |-> IF Loads(store) THEN "asked" ELSE "done", answer |-> NoRows, known |-> NoRows]
    /\ scheduled = FALSE /\ outage = FALSE /\ deaths = MaxLives

\* pg hands a JSONB column over as the object it holds, and JSON.parse of an object
\* throws: each loader skips the row as malformed, the ledger gives up.
Handed(r) == [form |-> "object", rows |-> r]
Parsed(h) == IF h.form = "text" THEN h.rows ELSE NoRows

LoadDecisionEvents == Parsed(Handed(table))
LoadPaperTrades == Parsed(Handed(table))
LoadGraphEvents == Parsed(Handed(table))
LoadTraderRows == Parsed(Handed(table))
LoadSnapshot == Parsed(Handed(table))

Answer == CASE store = "decisions" -> LoadDecisionEvents [] store = "paper" -> LoadPaperTrades
            [] store = "graph" -> LoadGraphEvents [] store = "traders" -> LoadTraderRows
            [] store = "ledger" -> LoadSnapshot

\* The table is read, or the load fails.  None has a timeout: one that is never
\* answered stays "asked", and startup with it if it is awaited.
LoadAnswers ==
    /\ hydration.at = "asked"
    /\ hydration' = [at |-> "read", answer |-> IF outage THEN NoRows ELSE Answer,
                     known |-> IF outage THEN NoRows ELSE table]
    /\ UNCHANGED <<store, memory, table, flight, file, scheduled, outage, deaths>>

\* Paper trades fill in what is missing; the other histories only an empty memory.
FillsMissing == [i \in Ids |-> IF memory[i] = "none" THEN hydration.answer[i] ELSE memory[i]]
FillsEmpty == IF memory = NoRows THEN hydration.answer ELSE memory

\* Mutant: what was loaded takes the place of what was learnt meanwhile.
HydratesOver ==
    /\ hydration.at = "read"
    /\ hydration' = [hydration EXCEPT !.at = "done"]
    /\ memory' = hydration.answer
    /\ UNCHANGED <<store, table, flight, file, scheduled, outage, deaths>>

Hydrates ==
    /\ hydration.at = "read"
    /\ hydration' = [hydration EXCEPT !.at = "done"]
    /\ memory' = IF store = "paper" THEN FillsMissing ELSE FillsEmpty
    /\ UNCHANGED <<store, table, flight, file, scheduled, outage, deaths>>

Starts ==
    /\ ~scheduled /\ scheduled' = TRUE
    /\ Awaited(store) => hydration.at = "done"
    /\ UNCHANGED <<store, memory, table, flight, file, hydration, outage, deaths>>

-----------------------------------------------------------------------------
(* Recording                                                               *)

Learns(id, state) ==
    /\ scheduled /\ memory' = [memory EXCEPT ![id] = state] /\ flight' = flight \cup {<<id, state>>}
    /\ UNCHANGED <<store, table, file, hydration, scheduled, outage, deaths>>

\* recordSend: a second, different outcome turns the first into "replaced".
RecordSend(id, outcome) ==
    /\ store = "decisions" /\ outcome \in {"confirmed", "failed"} /\ memory[id] # outcome
    /\ Learns(id, IF memory[id] = "none" THEN outcome ELSE "replaced")

RecordPaper(id) ==
    /\ store = "paper" /\ memory[id] \in {"none", "OPEN"}
    /\ Learns(id, IF memory[id] = "none" THEN "OPEN" ELSE "CLOSED")

\* registerHandle links all wallets of a handle and writes one event, known or not.
RegisterHandle(id) == store = "graph" /\ Learns(id, "linked")

\* ingest: a row with more volume, or fetched later, replaces the one before.
Ingest(id, row) ==
    /\ store = "traders" /\ row \in {"early", "late"}
    /\ memory[id] = "none" \/ (memory[id] = "early" /\ row = "late")
    /\ Learns(id, row)

RecordReceipt(id) == store = "receipts" /\ memory[id] = "none" /\ Learns(id, "passed")

Sees(id) ==
    /\ store = "ledger" /\ scheduled /\ memory[id] = "none"
    /\ memory' = [memory EXCEPT ![id] = "seen"]
    /\ UNCHANGED <<store, table, flight, file, hydration, scheduled, outage, deaths>>

\* The debounced save: the whole ledger to its file, then to its one row.
SaveLedger ==
    /\ store = "ledger" /\ file # memory /\ file' = memory
    /\ flight' = flight \cup {<<"snapshot", memory>>}
    /\ UNCHANGED <<store, memory, table, hydration, scheduled, outage, deaths>>

\* Tables of versions after a refused one are never made.
Missing == {Migrations[i] : i \in {j \in 1..Len(Migrations) : \E k \in 1..j : Migrations[k] \in Unparsable}}

Upserted(write) == [table EXCEPT ![write[1]] = write[2]]

\* Fire and forget: writes land in any order, and not at all in an outage or when
\* runMigrations never came to the store's table.
Lands(write) ==
    /\ write \in flight /\ flight' = flight \ {write}
    /\ table' = IF outage \/ store \in Missing THEN table
               ELSE IF write[1] = "snapshot" THEN write[2] ELSE Upserted(write)
    /\ UNCHANGED <<store, memory, file, hydration, scheduled, outage, deaths>>

PostgresTurns ==
    /\ outage' = ~outage
    /\ UNCHANGED <<store, memory, table, flight, file, hydration, scheduled, deaths>>

HistoryRestart ==
    /\ deaths > 0 /\ deaths' = deaths - 1
    /\ memory' = Boots.memory /\ hydration' = Boots.hydration /\ scheduled' = FALSE /\ flight' = {}
    /\ UNCHANGED <<store, table, file, outage>>

HistoryNext ==
    \/ LoadAnswers \/ Hydrates \/ Starts
    \/ \E i \in Ids, o \in {"confirmed", "failed"} : RecordSend(i, o)
    \/ \E i \in Ids : RecordPaper(i) \/ RegisterHandle(i) \/ RecordReceipt(i) \/ Sees(i)
    \/ \E i \in Ids, r \in {"early", "late"} : Ingest(i, r)
    \/ SaveLedger \/ \E w \in flight : Lands(w)
    \/ PostgresTurns \/ HistoryRestart

HistorySpec == HistoryInit /\ [][HistoryNext]_historyVars

-----------------------------------------------------------------------------
(* Properties                                                              *)

\* As long as no observation was written while the migrations ran, a version is
\* recorded exactly when its tables are there, however often the process died between
\* two statements or Postgres refused one (runMigrations, migration-runner.ts:60-95).
SchemaAsRecorded ==
    ~mixed /\ runner.at \in {"none", "read", "done", "failed"} => db.tables = db.recorded

\* A load that comes late, or finds nothing, takes nothing away from what the process
\* has learnt meanwhile, and a restart forgets only what no file holds ("ignored once
\* live", opportunity-ledger.ts:487-498; wallet-graph.ts:145-151, paper-trading.ts:251-276).
LoadsLoseNothing ==
    [][\A i \in Ids :
         memory[i] # "none" \/ file[i] # "none"
         => memory'[i] # "none" \/ (deaths' < deaths /\ file[i] = "none")]_historyVars

\* What was in the table when the process booted is known to it again once the load is
\* through: "Replays send/replaced outcomes ... so reconcileByNonce is correct across
\* restarts" (decision-ledger.ts:231-232), "so the LATEST state (open or closed) wins on
\* reload" (paper-trading.ts:145-146).
RestartRemembers ==
    hydration.at = "done" => \A i \in Ids : hydration.known[i] # "none" => memory[i] # "none"

=============================================================================
