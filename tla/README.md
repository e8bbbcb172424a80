# Memeland in TLA+

Memeland (package `opencatz`, TypeScript on Node) screens new tokens on several chains, asks an
operator on Discord to approve a buy, or buys by itself once it has earned that right, and then
manages what it bought. These modules model the part of it that moves money and the state that
part relies on. They are translated from the code under `src/src`; a comment or a document of the
repository is used only where the code disagrees with it, as a run shows or section 5 tells. Paths
below are relative to `src/src`.

TLC model-checks small instances (`tlc -config X.cfg M`), TLAPS checks the theorems
(`tlapm M.tla`).

## 1. Inventory

Node runs one piece of JavaScript at a time. Concurrency comes from `await`: everything between
two awaits is one atomic step, and any other handler may run in between. So the unit of an action
in all modules is *the code between two awaits*, and a crash may come between any two of them.

| component | code | state | operations | hard behaviour | what makes it correct |
|---|---|---|---|---|---|
| token lock | `services/rh-execution-core.ts` | `inflight`, `queues` | acquire, release | hand-over against a new acquire | one owner per token, FIFO, no lost waiter |
| serialized executor | `position/executor.ts` (imported by nothing that runs) | a promise chain and a failure count per token | execute | vetoes, failures and deadlines in a chain | the same mutex, and every chain drains |
| approval ladder | `services/approval-queue-service.ts`, `lifecycle/state-machine.ts` | orders | enqueue, approve, reject, recordExecuted, recordFailed, canAutoExecute | double clicks, two paths to one order | an order is decided once, bought once, counted once |
| buy execution | `services/approval-execution.ts`, `execution-gates.ts`, `exec-governance.ts`, `cost-gating.ts` | cost spent, nonce reservations | the gates in order, submit, settle | runs suspended between check and use | cap, serialization, release on every path |
| buttons | `discord/handlers/interaction-buttons.ts` | none of its own | APPROVE_, CANCEL_, toggles | handlers interleave with the cycle and each other | as above |
| screening cycle | `startup/screening-cycle.ts`, `runtime/*` | the batch | queue, AUTO buy, card, re-feed | overlap of cycles, awaits per signal | AUTO only when earned; no card during AUTO |
| screening pass | `agents/meme-robinhood/*`, `runtime/screening-runner.ts` | funnel counts, the agent's and the registry's state | collect, verify, merge, screen, report | a timed-out pass goes on beside the next one | late results are silent, every pass ends |
| discovery | `discovery/*`, `services/source-quota.ts` | registry, cooldowns, hints | observe, gate, promote, evict, markDead | overlapping passes, unanswered existence checks | no token nobody verified, dead stays dead |
| gates | `agents/shared/gmgn-meme-helpers.ts` | configuration floors | pre-filter, audits, detection, boosts | the filter runs twice with other floors | what passes has earned it |
| swarm | `orchestrator/swarm-*.ts`, `voters.ts`, ten safety services | circuit, held conviction, intents | evaluate, register, vote | abstentions change the coverage | worse evidence never helps, unless a conviction is held |
| risk | `orchestrator/risk-manager.ts`, `risk-engine-v2.ts`, `hub.ts`, `market-sentinel.ts` | limits, drawdown latch, kill switch, switches | check, trip, latch, set, stop | latch, cool-down and check in any order | a stop holds until something lifts it |
| sizing | `position-sizing.ts`, `execution-gates.ts`, `fill-simulation.ts`, `risk-engine-v2.ts` | none | size, simulate, shadow | caps applied in different places | never larger or looser than allowed |
| LI.FI executor | `adapters/lifi-executor.ts` | broadcast nonces, nonce file | submit, swap | lost answers, retries, late receipts, restart | nothing sent twice, truthful outcome |
| state store | `services/state-store.ts`, `storage/atomic-file-store.ts` | one JSON state per store object; two objects may have one file | every setter, debounced save, flush, load | crash before the save, a second store on the file, a file nobody can read | what was saved stays true, or its loss has a cause |
| decision ledger | `services/decision-ledger.ts` | append-only file | recordProposed, recordLifecycle, recordSend, hydrate | crash, reading back | no transaction the ledger does not know |
| candidate state | `state/candidate-state.ts` | state per candidate, in memory or in Redis | ensure, transition (compare and set), TTL expiry | concurrent transitions, timer against transition | matrix respected, no lost update |
| opportunity ledger, strategist, post-mortem | `services/opportunity-*.ts` | lifecycle of each opportunity | ensure, transition, outcome, dispatch | several writers, repeated cycles | terminal means terminal, no double dispatch |
| positions | `position/position-manager.ts` | positions | open, update, exit | a sync over an old copy | stop only tightens |
| wallet tracker | `services/wallet-tracker.ts` | tracked tokens (in the state store) | registerTrackedToken, syncPositions | snapshots used after awaits, unreadable balances | a close means a sale |
| learning | `orchestrator/swarm-learning.ts`, `features/calibration.ts` | calls, weights, odds | recordSignalCall, updateSignalPrice, seed | repeated prices and calls, restarts | a call is learned from once, odds are earned |
| paper trading | `services/paper-trading.ts` | paper trades | open, close, unlockStatus | two closers | a trade counts once |
| strategies | `orchestrator/strategy-engine.ts`, `strategy-bootstrap.ts` | files, backups, active choice, import cache | write, validate, roll back, load, run | a write cut in two, a version that hangs | refused code is gone, a default remains |
| evidence | `robinhood-screening-agent.ts`, `features/feature-snapshot.ts` | card, snapshot | hydrate, overlay, record | figures fetched, estimated and defaulted | recorded means observed |
| traders | `services/onchain/trader-persistence.ts`, `wallet-graph.ts`, `adapters/fomo-api.ts` | rows per window, links | ingest, link, rank, cohort | boards of different age | current traders, actors kept apart |
| Postgres | `storage/*`, the five histories | tables, version records | migrate, upsert, read back | a pool, a crash between statements | recorded means there, and known again |
| providers | `services/rpc-failover.ts`, `rpc-health.ts`, `provider-*.ts`, `api-key-pool.ts`, `gmgn-rest-client.ts` | health, circuits, quarantine, spend, keys, queue | probe, pick, report, charge, rotate | recovery, shared rotation, overlapping calls | within limits, a retry moves on, used again |
| chain feeds and tapes | `adapters/*-discovery-feed.ts`, `*-tape.ts`, `ingress/*` | cursor, ranges, sockets, rings | walk, scan, reconnect, deliver | refusals, reconnection races | complete means read, connected means subscribed |
| market feeds | `adapters/{dexscreener,gecko,dexpaprika}*`, `gmgn-adapter.ts` | caches | discover, rank, audit | failures that are cached | figures of the right token, chain and window |
| front desk | `discord/handlers/*`, `telegram/*`, `api/server.ts`, `orchestrator/tool-registry.ts` | rotation of model keys, polling offset | commands, intents, buttons, updates, tools | answers that fail after the work | done once, answered truthfully |
| operations | `price-alert-service.ts`, `cron-scheduler.ts`, watchers, `startup/shutdown.ts` | alerts, schedules, heartbeats | check, fire, remove, flush | overlapping checks, a flush that is not the last | what is spent stays spent |

Presentation, command-line tools and stateless clients are listed as not modelled in
`PROJECT.json`, each with its reason.

### How the components interact

```
screening cycle --enqueue--> approval ladder <--approve/reject-- Discord buttons
      |                            ^   |                              |
      | AUTO (canAutoExecute)      |   | state store (debounced save) |
      v                            |   v                              v
   executeMemeBuy: gates -> cost cap -> governance -> token lock -> LI.FI executor -> chain
      |                                                               |
      +--> decision ledger (append)   journal (state store)           +--> nonce file

language model's config tool --new StateStore(file)--> loads the whole file, saves it whole 1 s later

screening cycle --per signal--> opportunity ledger, scorecard, paper trade, tracked token, call
      |
      +--per cycle--> strategist and post-mortem --> opportunity ledger
      +--per cycle--> wallet tracker --> position manager --> opportunity ledger
      |                    +--> journal (closes)   +--> swarm learning (prices)
      +--per cycle--> scorecard (mark to market) --> paper trades (close)
```

```
tapes, webhook, chain feeds --hints--> hint gate (on-chain check) --+
market feeds (cached) --rows----------------------------------------+--> pass: merge
      pass: pre-filter -> hydrate -> pre-filter -> audits -> strategy -> voters -> consensus gate
              |               |                                  |            |
        token registry   snapshot, card                  strategy files   risk controls
                              |
        paper trades --boot--> calibration          decision, paper, graph, trader, opportunity
                                                    histories <--upsert / boot--> Postgres
every request --> key pool, daily budget, RPC rotation, GMGN queue
operator, Telegram, API, model tools --> front desk --> switches, schedules, alerts, wallet
```

## 2. Modules

| module | models |
|---|---|
| `TokenMutex` | what a per-token serializer promises: the abstract specification |
| `TxLock` | class `TxLock`: the boolean flag, the FIFO queues, the release closure |
| `SerialExecutor` | the promise chains of `position/executor.ts`, a second implementation of `TokenMutex`; the running program does not import the class |
| `TxLockProofs` | the theorems of both implementations |
| `ApprovalQueue` | the methods of `ApprovalQueueService` and its state machine, as operators on `status` |
| `MemeBuy`, `MemeBuyProofs` | composes lock and queue with `executeMemeBuy`, its gates, both of its callers, the state store, the ledger and restarts; its theorems |
| `LifiExecutor` | `submit` and `swap` with the nonce store, seen from inside the executor |
| `CausalMatrix` | the transition matrix and `evaluateCausalTransition`, as pure operators |
| `CausalRegister` | what the candidate store promises: one record, moved by causal transitions only |
| `CandidateState`, `CandidateProofs` | `transition()` over the in-memory and the Redis backend, and `recordDiscovery()`; its theorems |
| `OpportunityLedger` | the transition table of the opportunity ledger and its writers, as operators on a state |
| `Portfolio`, `PortfolioProofs` | what becomes of a fired signal: tracking, wallet sync, positions, scorecard, paper trades, learning, ledger, restarts; its theorems |
| `Discovery` | quotas, hint gate, registry and merge, as operators and as the registry's actions |
| `ScreeningPass`, `ScreeningProofs` | composes `Discovery` with a pass, the cycle that waits for it and the passes it gave up on; its theorems |
| `MemeGates` | the agent's gates, signal detection and confidence, as operators on a row |
| `Voters` | the readings of ten safety services, nine opinions and the five slots, as operators |
| `Swarm` | the consensus engine over the slots, with circuit, intents and held conviction |
| `RiskControls` | risk manager, kill switch, sentinel, and the operator's switches in the hub; sizes, caps, fill simulation, correlation and shadow evaluation, as operators on an entry or an order |
| `StrategyEngine` | strategy files, backups, sandbox, loader, runner and bootstrap |
| `Evidence` | hydration, card, snapshot and calibration of a finalist |
| `TraderGraph` | trader rows, wallet links, persistent traders and cohorts |
| `DurableHistory` | the migration runner over a pool, and five histories with their reading back |
| `RpcPool` | failover manager, lag monitor and rate-limit circuits of one chain |
| `Providers` | daily budget and cache, shared key pool, GMGN's request queue |
| `ChainFeeds` | the Solana signature walk and the `PairCreated` log scan |
| `Tapes` | two reconnecting WebSocket tapes and the webhook ingress |
| `MarketFeeds` | the four token listings with their caches |
| `TokenIntel` | GMGN's candidates, track trades and security answers |
| `FrontDesk` | commands, messages, buttons, updates, endpoints and the model's tools |
| `Operations` | alerts, schedules, heartbeats, watchlist, notifier, Telegram's poll, shutdown |
| `EdgeProofs` | the theorems of `LifiExecutor`, `FrontDesk` and `Operations` |
| `DecisionProofs` | the theorems of `MemeGates`, `Swarm`, `RiskControls`, `StrategyEngine`, `Evidence`, `TraderGraph` and `DurableHistory` |
| `ServicesProofs` | the theorems of `RpcPool`, `Providers`, `ChainFeeds`, `MarketFeeds`, `TokenIntel` and `Tapes` |
| `MC*` | instances for TLC; the `lifi` run checks `LifiExecutor` itself |

**TxLock.** `inflight` and `queues` are the two maps (a missing key is `FALSE` or the empty queue),
`granted` the callers whose `acquire` promise has resolved and whose `released` flag is not set.
`acquire` and the release closure are synchronous, hence one action each. A release while somebody
waits leaves the flag set and makes the head of the queue the owner.

**MemeBuy.** A caller of the lock is a run of `executeMemeBuy`, `<<order, "operator">>` or
`<<order, "auto">>`. `pc` says at which await it is:

| `pc` | the run awaits |
|---|---|
| `deferring` | `deferReply()` after the order was approved |
| `checking` | the sellability check |
| `locking` | `txLock.acquire` |
| `submitting`, `sent` | `executor.submit`, before and after the transaction is on the chain |
| `posting` | an AUTO run that ended; its card is not out yet |

What cannot be seen from outside the gates is a nondeterministic refusal (safety, sellability, fill
simulation). What changes state is explicit: the size `gateSizer` can produce (`Sizes`), the charge
of the cost gate, the nonce reservation (`NonceClash`), the journal entry, the order's state, the
ledger's lifecycle. The simulated fills of a dry run are `ReturnUnsent` with `ok = dryRun`. The
scorecard and paper-regime conjuncts of `canAutoExecute` come from outside: they may say yes
whenever the fill floor is met, and no at any time. `Save` may happen at any time and `Restart`
restores the last one, because a debounced save has no upper bound: every mutation restarts its
timer. A boot whose read of the file fails starts with nothing (`LoadFromDisk` is the file or `Empty`;
`state-store.ts:260-263` catches the error). The language model's tool `set_screening_config` opens a second store on
the same file (`tool-registry.ts:639-641`): `ConfigLoads` takes a copy of the whole file, or `Empty`, into
`copies`, and `ConfigSaves` writes that copy over whatever the main store has saved since. `fate`, `sent` and
`sentUsd` are history variables; an order's status is `lost` when a boot that could not read the file forgot it. `journal` holds the lifecycle of a run's
entry; the code writes one for failed buys as well. Only the AUTO path passes a ledger, so `audit`
is indexed by order.

**LifiExecutor.** The same executor from inside, for one process and its successor. A nonce is its
key and the second it was made in (`submit`), or the key alone (`swap`). `records` and `store` are
the nonce map and its file; a failed write is ignored, as in the code, and a boot that cannot read the
file goes on with an empty map (`lifi-executor.ts:224-226`; `unread` names the nonces this forgot). The host may accept a
transaction and its answer may still be lost. The chain and LI.FI's status are external and tell the
truth.

**CandidateState.** One candidate, and callers of `transition()` in one or more processes. `pc` is the
await a call is suspended at: `read` (the backend's read), `cas` (the in-memory compare-and-set),
`watch`, `get`, `exec`, `unwatch` (the commands of the Redis one) and `lookup` (`recordDiscovery` asks
for the record that a refused first transition did not return). `cur` is the record the call read,
`attempt` its retries, `round` the WATCH rounds of one compare-and-set. The matrix is a set of edges and
`evaluateCausalTransition` the set of states it may answer (`Targets`), empty when it refuses; the
reserve gate and the fields that decide it are in the request. The Redis server is external: a watch
belongs to a connection, every connection of a process is the same one, EXEC and UNWATCH end all its
watches, expiry makes a watched key dirty, and a connection that is re-established has no watch. A
command that fails sends the call to the in-memory mirror. `rivals` and `blame` are history variables:
what happened to the record under the call, and what may have spoiled its compare-and-set.

**Portfolio.** `pc` is the await the screening cycle is suspended at; cycles do not overlap, so one `pc`
is enough, and buys, sales, saves and crashes fall between any two of its actions:

| `pc` | the cycle awaits |
|---|---|
| `signals` | nothing of a signal: the next signal, or the review when there is none |
| `posting`, `broadcasting` | the AUTO buy and Discord's `send`; Telegram's broadcast |
| `scanning` | `balanceOf` of the next tracked token |
| `pricing` | `fetchTokenInfo` of the next holding |
| `exits` | the track feed of `checkSmartMoneyExit` |
| `marking` | `fetchTokenInfo` of the next OPEN scorecard entry |

The wallet (`held`), prices and balances are external: a balance is read truly or not at all, a price is
any of `Price`, 0 being a feed that has none. `active` is the copy of the positions of
`wallet-tracker.ts:175`; `zero` holds the tokens in `scannedOk` whose balance was 0. `stateFile` is the
state store's file, `ledgerFile` the opportunity ledger's, `paperDb` the database's table; learning writes
its own file at once, so `call` and `weights` survive a restart unchanged. `MemeBuy` models a buy in
detail; here it is one step, at the moment it ends. Tokens of chains the tracker does not scan meet none
of these actions and are left out. The sighting of a card carries no volume, so the prefilter of the
strategist admits nothing (`Reviewed(..., FALSE, ...)`), and nothing in the wired program reaches
READY_SMALL_BET outside a dispatch, which goes straight on to APPROVAL_PENDING. `boughtSince`,
`untracked` and `torn` are history variables: the exceptions that `CloseIsBacked`, `BuyIsTracked` and
`PaperFollowsCard` name.

**SerialExecutor.** A token's slot is a promise chain: `tails` holds the requests not finished, the
running one first. `Start` asks the veto, `DelegateAnswers` and the timer settle the request and hand
the chain over. `withTimeout` does not stop the delegate, it only changes the label of what it answers,
so a request that timed out still holds its chain.

**Discovery, ScreeningPass.** `Promoted` and `Overlay` are what the on-chain gate and GMGN may do to
the merged rows. A pass walks `gate -> verify -> ask -> call -> loop -> screen -> done` (`Stages`); an
emitter's call that missed its own deadline moves to `late` and may still report a failure and cool its
source. A pass that missed the cycle's deadline is `aborted` and goes on to its next checkpoint; agent
and registry state belong to all passes alike. Rows collected before the merge (`Extras`: the tape's and the
`track` rows of GMGN, `robinhood-screening-agent.ts:802-843`) are not asked for but join as they are
(`ExtraJoined`), without the on-chain gate; `leaked` remembers what they brought in that is not on chain.

**MemeGates, Voters, Swarm.** Rows and evidence are records of small integers with the code's
units scaled; every comparison, early return and default of the code is kept, so abstaining (`None`) and
reporting zero are different. Thresholds are the defaults of the code. `row` is a row in front of the
agent's gates with what the services answer about it and the floors in force, and `study` the evidence about a
finalist with the confidence it reached; `PassSpec` puts the consensus engine next to any such row and any such
finalist. The weights of the average are learned (`swarm-learning.ts:241-260`): `learned` holds the emphases
of the file, in steps of 0.01, `CallClosed` moves them as a closed call does, and `Weights` renormalizes them
as the consensus engine reads them. `WorseRow`, `StricterFloors`, `WorseAudits` and `WorseEvidence` say what makes them worse, in the
code's own reading: a pool or a holder count of 0 is one nobody knows, not a small one.

**RiskControls.** Time is counted in cool-downs of the sentinel. `StopsAreHonoured` relates a check to
the latch, the switch and the limits behind it; the operator's actions go through the hub's methods as
commands reach them. Sizes and caps keep no state: `proposed` are entries put to the portfolio checks (the
profile, the book, its value) and `quoted` orders put to the sizer and the fill simulation, several at once
because the properties compare them; `SizesSpec` is about any such sets.

**StrategyEngine.** A write is `WriteBegins` (backup and file), then the validating child process and
`WriteEnds` or the rollback; a death or a disk error in between leaves a torn file. Writer and agent are
engines of their own over one directory, with their own import cache. The child process that reads a
version's metadata may fail to start or exceed its ten seconds on a sound file (`strategy-engine.ts:159-169`):
`answered` holds the versions whose child answered.

**Evidence, TraderGraph.** A figure is the name of the service that reported it, `Estimate` or `Unknown`;
the snapshot is built from them as the code does. Boards carry ages instead of times. The order in which
handles and wallets were first seen is kept, because it names the clusters: a JavaScript set is a sequence
to which `AddedBut` adds what it does not hold. What two rows must not share to be two actors is said with
sets closed under links (`OneActor`: no closed set tells them apart), not with the search the code runs.

**DurableHistory.** `conns`, `tx` and `db` are the pool's connections, their transactions and what is
committed; statements of the runner go to whatever connection is idle. The five stores are alike but for
what they wait for at boot, so a behaviour looks at one (`store`). `Unparsable` holds migration 006, which
names a column `window`, a reserved word in Postgres. Lock waits inside Postgres are left out.

**RpcPool, Providers, ChainFeeds, Tapes, MarketFeeds, TokenIntel.** Other services are external: they
answer truly, wrongly, with a refusal or not at all. A request is two actions, what is sent and what comes
back, with everything else between. Of the profiles DexScreener lists for one address the last one is
enriched (`again` marks the others, which keep their zeros), and an enriched one takes the chain of the pair
that answered, the last of several. Times are ticks that a `Tick` counts down; latency is reduced to the
choice it makes. Trades are a set: the order GMGN lists them in decides only the count of sellers and of
full closes, which a track candidate does not depend on.

**FrontDesk, Operations.** A request carries its door, its name and the words the handler looks for (of the
intents of a chat message, in the order of `Ladder`, the first that fits); its
handler is `asked`, then deferring, working or paying, answering and closed, and each of Discord's calls
may fail. The guarded intents of the chat refuse everybody (`RefusedInChat`, section 5). `PaymentResults` says
how a payment may end: `swap()` and `send()` report an error, also one after a broadcast, as a simulation that
did not succeed, no caller looks, and a swap may be broadcast twice by the executor's own resend. `world` is what
requests changed elsewhere, one value per owner; `said` is what the requester was last told, `done`,
`simulated`, `failed` or `refused`. The second store of `MemeBuy` may also hold alerts: `loaded` is its copy,
`revived` the alerts it brought back into the file. Background services run on ticks; a restart restores what each of them saves.

## 3. Runs

| run | instance | distinct states | shows |
|---|---|---|---|
| `tx_lock` | four callers on one token, two on another; four requests on two chains | 13,569 | the lock's invariant, two refinements of `TokenMutex`, and that everyone is served |
| `meme_buy` | three orders of one token, six runs, dry and live boots, one crash, a readable file or not, cap of 1.5 orders, floor of one fill | 1,264,080 | serialization, single purchase, audit, restarts, a second store, AUTO's bounds |
| `lifi` | two equal EVM buys, a swap on Solana, two seconds, one crash, a readable file or not | 2,848,258 | the nonce guard, file and outcomes |
| `candidate` | two callers: in one process without Redis, in one with it, in two with it and a command that fails | 2,362,810 | the register refinement, and what may and may not spoil an update |
| `portfolio` | two signals of two tokens, prices 0, 1 and 3, one crash; three deployments: AUTO, with a database, with neither | 1,135,454 | tracking, closes, learning, paper trades and the end of opportunities |
| `screening` | two passes, a real and a phantom token, a source, a recall-only one and an ungated extra | 1,533,070 | late passes, what vouches for a candidate, dead tokens, progress |
| `decisions` | thirteen parts, one at a time (below) | 321,909 | gates, votes, sizes, stops, strategies, evidence, traders, Postgres |
| `services` | fourteen parts, one at a time (below) | 139,271 | limits, complete scans, true figures and streams, recovery |
| `front_office` | two requests at the desk of some sixty kinds, and four background parts | 288,040 | work done once, spent alerts, progress |
| `auto_not_pending` | as `meme_buy` | | *violated*: an executed AUTO order stays PENDING |
| `nonce_twice` | as `lifi` | | *violated*: the retry may broadcast again |
| `history_forgotten` | as `decisions` | | *violated*: a restart forgets what Postgres holds |

Most properties are conjunctions of named parts, one per concern of the module that defines them; the
comment above each says what it is about.

| property | parts |
|---|---|
| `EveryoneIsServed` | `WaiterIsServed` (lock), `QueueDrains` (executor) |
| `RunsAreSound` | `TypeOK`, `LockOwnedByRuns`, `OneActorPerOrder` |
| `MoneyIsBacked` | `FillIsBacked`, `AuditBeforeMoney`, `SavedIsRemembered` |
| `AutoWithinBounds` | `AutoIsEarned`, `BroadcastWithinCap` |
| `NonceIsSpent` | `TypeOK`, `ClaimedOnce`, `BroadcastWasSaved` |
| `CallsAreAccounted` | `CandidateTypeOK`, `RenewedRecordStays`, `LostUpdateHasACause`, `ContentionHasRivals` |
| `BooksAgree` | `CallsLearnOnce`, `BuyIsTracked`, `PaperFollowsCard` |
| `HistoryIsFinal` | `CloseIsBacked`, `EndIsFinal`, `PositionOnlyAdvances` |
| `ExitIsAClose` | `TypeOK`, `ExitedMeansClosed` |
| `CandidatesAreVouched` | `TypeOK`, `PhantomHasACause` |
| `PassIsEarned` | `TypeOK`, `AllowIsBacked` (consensus), `ReportIsEarned` (agent) |
| `SizesStaySane` | `ShadowNeverLoosens`, `ScaledStaysInSector`, `DeeperPoolNeverRefuses` |
| `StrategiesAreSound` | `RefusedCodeIsGone`, `DefaultBacksUp` |
| `EvidenceIsTrue` | `RecordIsObserved`, `OddsAreEarned` |
| `TradersAreCurrent` | `StrictIsCurrent`, `CohortsKeepActorsApart` |
| `StopsHold` | `RiskTypeOK`, `StopsAreHonoured`, `LapseMeansCalm` |
| `LimitsHold` | `BudgetHolds`, `LoneRequestTriesAll` |
| `ScansAreComplete` | `NoHoleBehind`, `CompleteMeansScanned` |
| `MarketIsTrue` | `ListingsAreHonest` (`NeverRelabelled`, `FiguresAreHonest`), `TrackIsBacked`, `ClearanceLapses` |
| `StreamsAreTrue` | `TapeIsAsItSays`, `AckedIsStreamed` |
| `ServicesRecover` | `PoolHeals`, `GmgnDrains`, `FeedsRecover`, `ScansEnd`, `TapeReturns`, `ListedComesBack` |
| `WorkIsDoneOnce` | `MoneyFollowsRequest`, `RepeatNeedsRestart` |
| `RequestsAreHandled` | `DeskSettles`, `EveryUpdateHandled` |

### Bounds

* *Parts.* `tx_lock`, `decisions`, `services` and `front_office` hold modules that share no state in the
  code. A constant variable `scope` says which of them moves in a behaviour; the others keep their
  initial states. Nothing is lost: their product would only repeat each part's behaviours.
* *Orders.* Three of one token is the smallest number with an operator's fill that unlocks AUTO, a
  second run that owns the lock and a third that waits for it. One token is the crowded case; the
  theorems hold for any number of both.
* *Cap.* 3 with orders of 2: two full-sized runs do not fit, a full and a scaled one do, and the
  charge, not the fill, decides.
* *Crashes.* One crash puts every saved state under every later behaviour; the theorems have no bound.
  `SaveIsRead`, an action constraint, leaves out saves after the last crash, which nothing can read, and the
  second store's loads that would prepare one. In `meme_buy` the second store is opened only while the file
  holds a final decision, in the alerts of `front_office` only while it holds an active alert (`LoadMatters`):
  a copy of any other file has nothing to undo. The theorems open it at any time.
* *Symmetry* of orders and tokens is sound because the parts and properties treat them alike and no
  liveness property is checked there.
* *Clock.* Two seconds in `lifi`: two equal buys meet in one second or fall into two. Elsewhere times are
  ticks, and a duration is the smallest number that keeps it apart from the other durations of its part.
* *Candidate.* Two callers reach every pair of awaits, and as each may call again the rival of a
  compare-and-set may also act before and after it. `MaxRetries` is 2, a value of the store's option of
  that name (its default is 3): the first and the last attempt. `MaxWatch` is the code's 3; the theorems
  hold from 2 on, because with a single round a call would be refused for a change its connection saw
  before the call watched anything. One failing command meets every await. The requests allocate the record from both ends of the race of discovery and
  enrichment, screen it above and below the gate, and drop it.
* *Portfolio.* A price of 3 is above every threshold of an entry at 1, and 1 below every one of an entry
  at 3. The state space is divided by deployment, each part with the bounds that leave its own questions
  intact (`Slice` in `MCPortfolio`). In AUTO, where positions come and go, nothing crashes, every send
  succeeds, and the market has no observations and exits. With a database, where paper trades follow the
  scorecard through a crash, nothing is bought, sold or read. With neither, one signal meets everything:
  failed sends, missing prices, sales during a scan, a crash anywhere. What falls between the parts (a
  crash under two signals with positions, for example) is covered by the theorems, which have none of
  these bounds.
* *Screening.* Two passes are all that can overlap: the cycle starts one at a time and a pass stops at its
  first checkpoint after the deadline. One real and one phantom token, one source that is asked for its
  cooldown, one that goes through the hint gate and one extra that does not, are one of each kind. `Slice` in `MCScreening` says
  which interleavings of the two passes are left out.
* *Decisions.* `gate`: eight candidates of two symbols, with a held conviction, a weak second reading, one
  lifted by the fast lane, one vouched for by its strategy, an opposed direction and a failing engine; the
  weights start as the defaults or as calls have taught them (`LearnedAtStart`), and one call closes between two
  readings.
  `finalist`: combinations of what voters may see, from which up to two fields get worse, with and without a
  conviction of 95 held for its symbol; a certain bot one sign short is among them. `row`: rows on both sides
  of every floor, with and without figures, under three strategies, and for a fresh pair what the batch adds: a price
  alone, a thin or a deep pool, or only the volume of another source. `proposal`: an entry with all tighter
  profiles, in portfolios of two values. `quote`: one wish at all confidences and depths at once, among them
  the depths where the scale bends. `risk`, `operator`: the two live domains, drops below and above either limit. `strategy`: a
  version of each behaviour and one fault. `record`, `odds`: two pairs and a slice of one, three trades in
  two buckets. `traders`: three handles, two chains of wallets that meet, two windows. `schema`,
  `history`: the third version but one is refused, one death between any two statements, an outage.
* *Services.* Two hosts, a threshold of two failures. Two callers, a day of three credits. Three slots of
  two refused keys and a good one. Five transactions in pages of two; blocks up to 9 in chunks that halve
  twice. Five pools: an address with a chain prefix, one address with pools on two chains (a profile listed twice, a
  pair that answers for another chain), a row without a base token, a chain the bot does
  not trade, and two enrichment requests. Two sockets known at once. Two deliveries with a failed
  transaction in the middle.
* *Front office.* The first request is any of those listed in `MCAsked`, one of each way a handler
  answers, with and without the right; the second is a chat message that uses the model's keys meanwhile. Two
  alerts under two overlapping checks, three updates, one restart.
* Deadlock is checked in `candidate` only. The callers, requests, orders, passes and scans of the other
  instances end: they really may stop, and so deadlock is not checked there.

### Fairness

* `tx_lock`: weak fairness of each caller's `Release`, because both users of the lock release it in a
  `finally` block (`approval-execution.ts:271`, `rh-execution-core.ts:289-291`) around awaits that end by
  an answer or a timeout; and of a request's own progress in the executor, where the veto and the delegate
  are assumed to settle. Acquiring is not fair.
* `screening`: a pass goes on when it can, and deadlines fire. No source has to answer.
* `services`: a request that is sent ends, time passes, probes and passes come round again, and what is
  cached expires: each is a timer or a periodic task of the program. `PoolHeals` and `FeedsRecover` are
  about what happens after the outage of the other side is over; nothing forces it to end.
* `front_office`: a handler that is running goes on, and the poll comes round again. Nobody has to ask.

### What the violated runs show

1. `screening-cycle.ts:555` wants an auto-executed order not to "linger as human-pending" and calls
   `recordExecuted`/`recordFailed`. Both change APPROVED orders only, the order is PENDING, and it
   stays so; its card goes out afterwards and the operator can buy the token again.
2. `lifi-executor.ts:17`: "the same execution nonce is never broadcast twice". After any error
   `broadcastEVM` sends again on another host, below the guard and without a fixed account nonce.
3. `decision-ledger.ts:231-232` replays the sends "so reconcileByNonce is correct across restarts". The
   payload columns are JSONB, the driver hands them over parsed, and `JSON.parse` throws on an object; the
   catch skips every row, here and in four more histories (`paper-trading.ts:195`,
   `onchain/wallet-graph.ts:341`, `onchain/trader-persistence.ts:284`, `opportunity-ledger.ts:495`).

## 4. What is proved

For any constants that satisfy the named assumptions, which TLC evaluates in the passing runs:
`TokenOfType`, `BuyConstants`, `MinFillsType`, `PortfolioConstants`, `LifiConstants`,
`ExecutorAssumption`, `DiscoveryAssumption`, `ScreeningAssumption`, `StrategyAssumption`,
`HistoryAssumption`, `EndpointsAssumption`, `ProviderAssumption`, `SwarmAssumption` and `OpsAssumption` say what
sort of thing each constant is (a cap or a rate of 0 means none in the code, and is not one here). Nine say
more. `RiskAssumption` wants the
kill switch's cool-down longer than the sentinel's (60 and 15 minutes in the code); `EvidenceAssumption`
wants finitely many trades, because the calibration counts them; `CandidateAssumption` wants at least two
WATCH rounds (the code has three); `TapeAssumption` wants a flood cap of two frames a tick (the code allows
40 in ten seconds and reconnects a second apart at the soonest); `ChainAssumption` excludes a head of which
only the chain's first block is confirmed, since a range that ends where it begins is taken for refused;
`MarketAssumption` wants finitely many listed rows, a day's volume no less than six hours', and no chain or
batch that has the name of a listing (they are keys of one map in the model, of several in the code);
`IntelAssumption` wants the tax the gate allows below the one called high (10 % and 99 %), and a track
candidate to need at least one wallet (`gmgn-meme-helpers.ts:566` allows 1 to 50); `DeskAssumption` says that
what comes through the chat is a message, whatever its text; `TraderAssumption` wants finitely many wallets and
ages told apart beyond the longest window and the life of a board.

*TxLockProofs.* `LockInv` is inductive. It joins mutual exclusion with what makes it so: the flag is
set exactly while the token has an owner, and a queue holds distinct non-owners of its own token.
From it follows the refinement of `TokenMutex`, with `Waiting` (the union of the queues) as the
abstract set of waiters. `ChainsAreWellFormed` is the same for the promise chains: a chain holds distinct
requests of its own token, none of them finished, and only its head has started. `ExecutorRefinement`
follows with the head that has started as the owner; a request that timed out keeps its place.

*MemeBuyProofs.* `BuyInv` is inductive. The properties are not by themselves: that an order is bought
once needs to know that a run which has not submitted has sent nothing, and that `PENDING` orders
have never been in an operator's run (`OneActorPerOrder`); that the ledger knows every AUTO
transaction needs `audit = "submitted"` throughout the submission. `OrderInv` holds these links, and
the converse of `FillIsBacked`: a confirmed journal entry belongs to a confirmed order, in memory and
on disk and in the copies of the second store. Orders and journal come back together at a restart, so what is
saved once is final in memory as long as boots can read the file (`SavedIsRemembered`): a boot that cannot makes
its orders `lost`, and what decides an order leaves that so (`DecidingRemembers`). The file
itself may go back, because the second store writes an old copy. `SavedDecisionIsFinal` says when: a decision
leaves the file only by such a copy or by a save after a boot that read nothing, and leaves memory only by
a boot that read one of the two or nothing. `BuyInv` also contains `LockInv`: the lemmas `AcquireAdds` and `ReleasePasses` carry
the lock's own theorems into the composition, and one lemma per action does the rest. From `BuyInv` follow, for any
number of orders, tokens and crashes, `RunsAreSound`, `OneSubmissionPerToken`, `MoneyIsBacked`,
`ApprovalBuysOnce` and `SavedDecisionIsFinal`. In `AutoWithinBounds`, `AutoIsEarned`
compares cardinalities: confirmed orders only become more until a restart, and no AUTO run survives one.
`BroadcastWithinCap` would need the sum of what is charged and not yet sent. The invariant says the same
without a sum: the budget is a strip from 0 to what governance has charged, what was sent lies at its
beginning, and every charged run has a place of its own behind that, as wide as its size (`Placed`). A run
that passes the gates is placed at the end; one that broadcasts moves the places before its own along. All
of `meme_buy`'s properties are thus proved.

*EdgeProofs.* For the executor `LifiInv` joins two concerns. `Evidenced`: a nonce that was claimed has its
record in the file, or the disk refused it, or a boot could not read it; so a second claim, in this process or
the next, needs a refused write or a failed read; whoever sends or polls has claimed. `Truthful`: a verdict in memory or in the file is the chain's on a
call that is over, and nothing changes it any more. `NonceIsSpent` and `ReportIsTrue` follow. At the front desk
the invariant is one sentence about one request (`Sound`): only a request whose command, intent or button
spends is ever at the stage where money moves, no transaction was sent before that stage and none is sent after it,
a swap sends at most two and any other payment one, and "done" is said of a
spending request only if it did. Requests share nothing but their payments, so a lemma says that a step which
leaves one request sound leaves all of them sound, and one lemma per door does the rest; the tools of the model
never reach the payment. Of the alerts `Spent` says that one that is gone is active nowhere it could come back
from: not in memory, not in the copy a save would write, and after a shutdown's flush not in the file, unless a
second store wrote back what it had loaded before (`revived`). Of
Telegram's updates `PollInv` says that each was handled at most once per restart, and once more if the offset
has passed it; a batch continues where the offset stands. `FrontSpec`, of which this is proved, lets each
service restart by itself, which is more than a process can do.

*CandidateProofs.* Without Redis the store implements `CausalRegister`, for any number of callers,
processes, requests and retries: between awaits the record moves by one causal transition of a request
somebody made, or is forgotten. `CInv` is the inductive invariant. What has to be said is that comparing
versions is enough: a call about to write has read a record no newer than the stored one, and the same
one if the versions agree. This holds because versions only grow while a call is between its read and its
write, which in turn holds because no expiry timer, a macrotask, runs between two microtasks.

For the Redis backend, timers and failures, `Accounted` is the invariant behind `CallsStayAccounted`. A call
that may still write, and that nothing spoiled, has its connection watching and either the record it read is
still the stored one or the connection carries the mark of a change; a spoiled one has its cause in
`blame`. Every failed attempt had a rival, and an attempt bound to fail has one more already. The timers of a process
are those of its record's latest versions, in their order, so none is left over for a record allocated anew.

*ScreeningProofs.* `ScreeningInv` says where a pass stands in the list of sources (`Placed`), what vouches
for what it has merged and observed (`Vouched`: the chain, an outage, or an extra nobody asked the chain about), who is listened to (`Heard`: an aborted pass is not awaited,
and nothing is delivered before a pass has ended) and that every finished cycle counted one pass
(`Tallied`). `CandidatesAreVouched`, `DiscardedPassIsSilent` and `DeadStaysDead` follow for any tokens, sources,
deadlines and number of passes.

*DecisionProofs.* One invariant for each of its modules, which share nothing. `StopsHold` needs that a breach
of the limit then in force is latched, that an activation younger than the cool-down still has the switch on,
and that the switch is on while the sentinel counts a risky market. `StrategiesAreSound`: before the first
fault only the version being validated may be unsound, and what was there before it has its backup; a default on
disk leaves the agent without a strategy only when the child that reads its metadata does not answer.
`SchemaAsRecorded`: as long as no observation slipped in, the runner has one connection to itself, with the
transaction its statements have built so far; that the pool hands the same connection back each time is the
lemma `SameConnection`. `LoadsLoseNothing`: what a file holds the process knows, so neither rows that come late
nor a restart take anything else away. `EvidenceIsTrue`: figures were reported, and there are no more labels of a kind than
closed trades of that kind, which an injection shows.

`PassIsEarned` has two halves. At the consensus gate (`GateInv`) a conviction that is held was measured: some
candidate of the symbol once scored it, and a re-check raises the held value to its own measurement and to
nothing else (`HeldIsMeasured`); what went through therefore rests on a measurement and not on a conviction
that grew by being looked up. `RecheckNeverErodes` is a step of the same invariant. At the agent's gates no
invariant over time is needed, because a row is judged in one piece, but the floors are tried twice and with
different numbers: `PrefilterNeedsFloors` says what the pre-filter has seen, `StrategyFloors` which of the
floors a strategy may replace, and `HydratedRow` what the batch may change between the two.

`SizesStaySane`: the exposure of a book is a natural number by induction over the size of a finite set; what
the code rounds (a scale in per cent, an order in dollars) loses less than one unit, which is the slack of a
dollar in `DeeperPoolNeverRefuses`; a tighter profile is compared cap by cap.

`TradersAreCurrent`: `Consistent` ties the link maps of the wallet graph to each other. A handle has a wallet
exactly when the wallet has the handle (`Mutual`), and wallets are neighbours only if one handle has both
(`Joined`). The rows
of a window are as old as the board they came from (`RowsAreDated`), so that what a strict ranking lets in was
listed recently enough. That a cohort has only rows of one actor goes through closed sets: every set of handles
that is closed under shared wallets, and holds one handle of a cluster, holds all that the search has reached
from it (`CohortIsKin`, `RestIsClosed`). The recursions of the module run along a sequence; `StaysIn` and
`Guided` say once what such a recursion preserves.

`RiskNeverHelps` compares two pieces of evidence, or two rows, and needs no invariant over time. Bot risk,
penalties and Aegis findings only grow with the evidence, so the security slot only falls (`SecurityOrder`).
What does not follow from that is the pass, for any weights that closed calls may have taught (`Emphases`): a worse read can make the whale voter speak, with 40, and more
voices lift the coverage. What makes it speak also takes the security slot from at least 80 to at most 70
(`SlotsOrder`), and `AverageOrder` shows that an average that then still reaches 80 was not lower before, and
that three voters had spoken. But a conviction of 80 held for the symbol stands in for the average, and then
the coverage alone decides. That is the one way in which worse
evidence makes a pass of a refusal; the property names it (`Carried`) and allows nothing else. It came to
light in the proof, and TLC shows it in the instance with a held conviction. For a row the proof follows the
agent: pre-filter (`PreFilterOrder`), strategy floors, hydration, detection, confidence and its cap, audit; each
is shown monotone, the boosts included, and `WorseRowNeverHelps` chains them.

*ServicesProofs.* Six modules that share nothing. `RetriesMoveOn` needs only the step of the call: what
`ActiveRPC` falls back on is the least index of an eligible host, and if it is one already tried there is no
other. For `LoneRequestTriesAll` the invariant says what the pool looks like: slots are marked from the first
to the last, whoever was refused, so those marked are the ones below the active slot; a request that was
overlapped by nobody stands at the active slot and has been to the slots it has counted (`Visited`, which
wraps around). `BudgetHolds` needs the spend and the count to be naturals within their limits, since refunds
are cut off at zero. `TapeIsAsItSays`: while a tape is open it either waits for its timer or has exactly one
socket, never both (`InUse`); and the flood window has room for a subscription whenever one may be sent
(`FloodHasRoom`), because each costs a tick of waiting. `AckedIsStreamed` follows launch by launch: it is in
the stream, still to be written, or its own write failed. `NoHoleBehind` needs for each walk, not only for the one that moves the
cursor last, that everything newer than what it is about to ask for was asked for (`Behind`), and that a page
counts down without a gap; what was asked for only grows, so no overlapping walk can spoil it.
`CompleteMeansScanned`: up to where it is, the scan has read its window. `MarketIsTrue` has an invariant for
each of its parts. `ListingsAreHonest` needs that every
token in a cache or in a visit under way, not only what was handed on, is vouched for by a listed row
(`Honest`), that a cache of one chain holds that chain's tokens alone (GMGN's list is handed on unfiltered),
that an enriched token has the chain and the figures of one and the same pair,
and that a token of the enriched listing has been read, is marked, was listed again, or is in a batch still to be
asked for (`Enriching`); that the batches asked for are all there are is the lemma `BatchesInTurn`. `ClearanceLapses`:
an answer that still clears a token was given before the token turned, so their ages add up to one lifetime.
`TrackIsBacked`: no trade in a cache is newer than the clock, and the last buy of a candidate is a trade,
since a finite set of times that is not empty has a greatest element (`GreatestElement`).

*PortfolioProofs.* One small inductive invariant per concern instead of a large one, because the concerns
touch different variables and each property follows from its own. `BuyIsTracked` needs that a card is in
the channel only for a signal that is being posted, is tracked, or was lost (`Watched`). `CallsLearnOnce`
needs that a call exists only for a signal whose posting is over, so that recording the current one never
reopens a closed one, and that closing moves one signal between two finite sets and one counter by one
(`Learned`). `PaperFollowsCard` needs that what has not fired has no entry anywhere, on disk and in the
database neither, and that what is to be marked is still OPEN (`Mirrored`). `PositionOnlyAdvances` needs
that a token still to be priced is in the copy of the positions or has none, and that no token is priced
twice in a sync; this goes back to the tracked tokens, which are distinct in memory and on disk
(`Synced`). `CloseIsBacked` needs that a token read as zero is not held unless it was bought since
(`ZeroIsCurrent`). `EndIsFinal` needs the shape of the ledger's records, in memory and in the file
(`Shaped`), and that no edge leaves a terminal state. Together they are `BooksAgree` and
`HistoryIsFinal`. `ExitIsAClose` needs no more than the way a dispatch walks: it stops at the first edge that
is refused, so it ends at a state on its path, and EXITED is on the path of a close alone.

*Model-checked only.* Liveness (`EveryoneIsServed`, `PassesEnd`, `ServicesRecover`, `RequestsAreHandled`) is out of the prover's reach. Every other property of a passing run is a
theorem.

## 5. Limits of what is shown

*Stated weaker than a reader may expect*

* `ApprovalBuysOnce` counts within one life of the process. A crash between an approval and the save
  (at least a second later) makes the order PENDING again, and it can be approved again. Every mutation
  restarts the save's timer, so no upper bound on it exists.
* `BroadcastWithinCap` is about a configured `COST_CAP_USD`; without it the gate is open. The cap
  starts from zero at every boot, and a run that governance refuses is charged all the same.
* `ClaimedOnce` and `BroadcastWasSaved` except nonces whose save the disk refused and those on a file that a boot
  could not read (`lifi-executor.ts:224-226` starts with an empty store). After either the nonce passes again.
* `SavedDecisionIsFinal` excepts a state file that a boot cannot read, and the copy of a second store. `Portfolio` and
  `Operations` leave the unreadable state file out and `Portfolio` the second store: both would add to what a crash undoes there.
* `LoadsLoseNothing` says nothing of a load that does not end. `index.ts:359` awaits two histories whose queries have
  no time limit (`paper-trading.ts:188-193`, `opportunity-ledger.ts:488-493`): a database that accepts the connection
  and never answers, the "paused" one of `decision-ledger.ts:341-343`, keeps the bot from starting.
* `SchemaAsRecorded` meets a lost connection only as the death of the process.
* `NoHoleBehind` counts what was asked for. A transaction whose `getTransaction` failed was asked for, is skipped
  (`solana-rpc-discovery-feed.ts:129-130`) and is behind the cursor for good.
* `AckedIsStreamed` excepts a launch whose own write to Redis failed: `helius-webhook-server.ts:144-146` drops it and
  the delivery is acknowledged.
* `DefaultBacksUp` needs the child that reads the default's metadata to answer. When it cannot start or takes ten
  seconds (`strategy-engine.ts:159-169`) no strategy is active, though the file is sound.
* `GmgnDrains` assumes that a fetch ends (the runtime's own time limits), `EveryUpdateHandled` that handlers return.
* `Portfolio`'s properties except what a crash undoes, and `BuyIsTracked` signals whose cycle failed in a
  send: a restart restores files saved at different times, and that loss is in the code.
* `ReportIsEarned` excepts fresh pairs without a pool and a market cap (`Unseen`) that either have no volume,
  and pass at birth, or have only the volume of an overlay, which is no reason for the code to try the floors
  again. `AllowIsBacked` excepts what the fast lane lifts: without a slot and a confidence, a pool, a volume
  and an audit are scored 88.
* `DeeperPoolNeverRefuses` allows a dollar. A wish of 508 at confidence 95 is scaled to 254 in a pool of 5,080
  and accepted, and to 255 in one of 5,090 and refused.
* `PhantomHasACause` excepts passes after a transport outage of the oracle and tokens of the ungated extras.
* `SchemaAsRecorded` excepts observations written while the migrations run (they share
  the runner's pool and may land in its transaction).
* `RefusedCodeIsGone` excepts a death or a disk error between the write and its validation.

*Where the code departs from its own words, and the model follows the code*

* `approval-execution.ts:216` counts a simulated fill as executed (`approval-queue-service.ts:108-111`:
  "actually-executed"), also towards live AUTO later. A result that is no success is recorded FAILED, also
  when its transaction may land (`interaction-buttons.ts:183`, `approval-queue-service.ts:182`).
* `candidate-state.ts:299`: all calls of a process share one Redis connection, hence one WATCH, and an
  update can be lost (`:10-12`). `LostUpdateHasACause` shows that this, a failed connection and an expiry
  are all that can lose one.
* `wallet-tracker.ts:240` checks exits over the copy taken before closes, so an alert may name a token no
  longer held (`:236-237`). `paper-trading.ts:221`: without a database the paper history is written and
  never read (`index.ts:305-308`).
* `solana-rpc-discovery-feed.ts:147` moves the cursor to the oldest signature read, so launches between two
  first pages are not found (`:11-12`, `:41-42`). `NoHoleBehind` says what is true: behind the cursor
  nothing of the walked pages was passed over.
* `trader-persistence.ts:340-341` wants one cohort per actor; wallets linked after both handles were known
  by other wallets do not merge (`wallet-graph.ts:202-203`), so one actor may count twice.
  `CohortsKeepActorsApart` is the converse.
* `robinhood-screening-agent.ts:1282-1285` re-runs a fresh pair against the "MATURE" floor; the row still
  says `freshLane`, so the fresh volume floor and the default security thresholds decide.
* Migration 006 does not parse, later versions are never applied, and a failed `runMigrations` is not
  tried again (`durable-observation-store.ts:275-284`).
* `swap()` and `send()` report every error as a result with `success: false` and `simulated: true`, also one that comes
  after a broadcast (`lifi-executor.ts:595-699`); no caller looks at `success`, and the card says "DRY_RUN (Simulated
  Direct On-Chain Swap)" of a failed or a broadcast one alike (`command-handlers.ts:520-583`,
  `message-handler.ts:275-342`). One swap may be two transactions (`NonceBroadcastOnce`), and an answer that fails after
  the work is reported as a failing withdrawal. `MoneyFollowsRequest` therefore constrains only "done", "refused" and the count.
* `require-operator.ts:53-54` looks for `user`, which a Discord message does not have (its sender is `author`): every
  guarded intent of the chat refuses everybody, an operator too.
* The hint gate wants only a canonical introducer or an on-chain check to promote an address
  (`hint-gate.ts:1-7`). GMGN's `track` rows join as "already gated" (`candidate-emitter.ts:165-169`), and nothing gates
  them (`robinhood-screening-agent.ts:802-843`, `1105`, `1118`).
* `tool-registry.ts:638` saves a configuration "so [it] survive[s] restarts", through a store of its own. The main
  store's next save, which knows nothing of it, drops it again, and the copy itself takes back what the main store saved
  between its load and its save.
* `dexscreener-feed.ts:109` keeps one row of an address that is listed twice; the other keeps its zeros without the mark
  that is to tell them from "a real zero" (`:158`), and a profile takes the chain of the pair that answered (`:132-138`).
* With the swarm off a snapshot says `auditClean` of a finalist nobody audited (`robinhood-screening-agent.ts:1662-1667`);
  the comment wants it "conservatively unproven". `Evidence` leaves that field out.
* `position/executor.ts:109-126`: the deadline relabels, it does not release the chain; a delegate that
  never settles blocks its token. The code says "resolves" only.

*Behaviours no document judges*: a finalist too few voters spoke about passes on a held conviction once a worse
bot risk makes the whale voter speak (`swarm-consensus.ts`, `voters.ts`; `Carried`); a swap is refused for good once it was tried; a strategist's re-fed order
gets no card; a risk refusal leaves an order APPROVED; a kill switch thrown while a run waits does not stop
it (`interaction-buttons.ts:150`); a call without a readable price wins at the next one; `DecisionCache`
answers two concurrent misses of an immutable entry with two fetches (only its sticky half is used).

*Left out*

* `evict()` and `recordScore` of the candidate store; aliases and merges in the opportunity ledger;
  `freshLane` as an attribute that survives the merge of discovery's rows; observation trajectories.
* Lock waits and constraint errors inside Postgres, and Node's in-process fall-back of `require` for
  strategy modules. The state file is written with a temporary file and a rename; a torn write of it is not
  modelled, one of a strategy file is.
* Floating point: rates, scores and sizes are integers of the unit named in the module's head; the learned emphases move
  in steps of 0.01 without the noise of binary fractions.
* `calibrate()` of the learning and the verbal reflector, which nothing calls, and a learning file edited by hand.

### Not modelled

Embeds and their layout, the command-line interface and the setup wizard keep no state another part reads.
The local nonce manager, the Jito dispatcher and the direct transport are not reached by the running
program. Price feeds, Blockscout, Routescan, CoinMarketCap, DefiLlama, Arkham and X are single requests
without state. The alpha agent repeats the meme agent's steps without its gates.

## 6. Plan

What is left, the most consequential first:

1. Compositions: the risk controls as variables of `MemeBuy`'s signal and button; the consensus gate as the
   source of `MemeBuy`'s orders.
2. The decision ledger's sequence numbers, the unlock gate's regimes, deployer reputation.
