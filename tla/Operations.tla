----------------------------- MODULE Operations -----------------------------
(***************************************************************************)
(* What runs beside the screening cycle: price alerts with their 60 s      *)
(* checks and the shutdown that saves them, the automation schedules, the  *)
(* agent heartbeats, the fresh-pair watchlist, the control-room notifier   *)
(* and the Telegram poll.  None of them waits for another run of itself.   *)
(***************************************************************************)
EXTENDS FrontDesk

CONSTANTS
    Alert,        \* alert ids; an id is used once
    Checker,      \* checks of the 60 s timer that may overlap
    Job,          \* schedule ids
    Expr,         \* what a schedule may ask: [daily |-> hour] or [every |-> ticks]
    DayTicks,     \* ticks of a day
    Silence,      \* ticks without a heartbeat that make an agent UNRESPONSIVE
    Pair,         \* fresh pairs
    MaxPairs,     \* MAX_ENTRIES
    ForgetAfter,  \* MAX_AGE_MS in ticks
    Quiet,        \* cooldownMs in ticks
    Updates,      \* Telegram updates 1..Updates
    MaxBoots      \* restarts per behaviour

ASSUME OpsAssumption == IsFiniteSet(Alert) /\ Updates \in Nat /\ MaxBoots \in Nat

VARIABLES
    alerts,       \* PriceAlertService's map: none, active, triggered
    kept, disk,   \* the state store's copy of it, and the file
    checking,     \* checker -> [todo, hit] of the run in flight
    stopping,     \* a shutdown has flushed and is stopping the servers
    gone,         \* alerts removed or triggered before a shutdown began
    loaded,       \* what a configuration tool's own store loaded and has yet to save
    revived,      \* gone alerts that the last save of such a store left active
    jobs, file,   \* schedules with their timers, and schedules.json
    hour,         \* tick of the day
    lastRun,      \* job -> tick of the day of its last run
    beat,         \* [status, errors, silent] of the screening agent
    pairs,        \* fresh pair -> [age, matured] or Unseen
    cooling,      \* ticks the notifier stays quiet about a key
    offset, batch,\* the poll's offset and the updates it is handling
    confirmed,    \* updates up to this one are gone from Telegram's queue
    handled,      \* update -> how often it was handled
    boots         \* restarts so far

alertVars == <<alerts, kept, disk, checking, stopping, gone, loaded, revived>>
cronVars == <<jobs, file, hour, lastRun>>
watchVars == <<beat, pairs, cooling>>
pollVars == <<offset, batch, confirmed, handled>>

Off == [todo |-> <<>>, hit |-> <<>>]
Nothing == [a \in Alert |-> "unread"]
Unseen == [age |-> -1, matured |-> FALSE]
NoJob == [period |-> 0, due |-> 0, want |-> -1]
Never == -1

-----------------------------------------------------------------------------
(* PriceAlertService and the 60 s loop of index.ts                         *)

ActiveAlerts == {a \in Alert : alerts[a] = "active"}

AddAlert(a) ==
    /\ alerts[a] = "none" /\ kept[a] = "none" /\ disk[a] = "none" /\ a \notin gone
    /\ \A c \in Checker : a \notin ToSet(checking[c].todo)
    /\ alerts' = [alerts EXCEPT ![a] = "active"] /\ kept' = [kept EXCEPT ![a] = "active"]
    /\ UNCHANGED <<disk, checking, stopping, gone, loaded, revived>>

RemoveAlert(a) ==
    /\ alerts[a] # "none"
    /\ alerts' = [alerts EXCEPT ![a] = "none"] /\ kept' = [kept EXCEPT ![a] = "none"]
    /\ gone' = IF stopping THEN gone ELSE gone \cup {a}
    /\ UNCHANGED <<disk, checking, stopping, loaded, revived>>

\* checkAlerts takes its list once; the timer does not ask whether the last
\* check is over.
CheckBegins(c) ==
    /\ checking[c] = Off /\ ActiveAlerts # {}
    /\ checking' = [checking EXCEPT ![c].todo = SetToSeq(ActiveAlerts)]
    /\ UNCHANGED <<alerts, kept, disk, stopping, gone, loaded, revived>>

TriggerUnsaved(a) == kept

\* The object the run holds is the map's own unless it was removed meanwhile;
\* setAlert puts it into the store in either case.
TriggerSaved(a) == [kept EXCEPT ![a] = "triggered"]

\* One price came: no price, not there yet, or the target is reached.
PriceAnswers(c, reached) ==
    /\ checking[c].todo # <<>>
    /\ LET a == Head(checking[c].todo) IN
       IF reached
         THEN /\ alerts' = [alerts EXCEPT ![a] = IF @ = "none" THEN @ ELSE "triggered"]
              /\ kept' = TriggerSaved(a)
              /\ gone' = IF stopping THEN gone ELSE gone \cup {a}
              /\ checking' = [checking EXCEPT ![c].todo = Tail(@), ![c].hit = Append(@, a)]
         ELSE /\ checking' = [checking EXCEPT ![c].todo = Tail(@)]
              /\ UNCHANGED <<alerts, kept, gone>>
    /\ UNCHANGED <<disk, stopping, loaded, revived>>

\* The loop announces what the check returned, one channel.send after another;
\* one that throws takes the rest of the list with it.
Announces(c, sent) ==
    /\ checking[c].todo = <<>> /\ checking[c].hit # <<>>
    /\ checking' = [checking EXCEPT ![c].hit = IF sent THEN Tail(@) ELSE <<>>]
    /\ UNCHANGED <<alerts, kept, disk, stopping, gone, loaded, revived>>

\* The state store's debounce timer fires.
SaveTimer ==
    /\ disk # kept /\ disk' = kept /\ revived' = {}
    /\ UNCHANGED <<alerts, kept, checking, stopping, gone, loaded>>

\* set_screening_config opens a second store on the file, which is written whole a
\* second later, whatever the first one or a shutdown wrote in between.
ConfigLoads ==
    /\ loaded = Nothing /\ loaded' = disk
    /\ UNCHANGED <<alerts, kept, disk, checking, stopping, gone, revived>>

ConfigSaves ==
    /\ loaded # Nothing /\ loaded' = Nothing
    /\ disk' = loaded /\ revived' = {a \in gone : loaded[a] = "active"}
    /\ UNCHANGED <<alerts, kept, checking, stopping, gone>>

\* registerGracefulShutdown: flush, then wait for the servers to stop.
ShutdownBegins ==
    /\ ~stopping /\ stopping' = TRUE /\ disk' = kept /\ revived' = {}
    /\ UNCHANGED <<alerts, kept, checking, gone, loaded>>

\* process.exit, and attachStateStore of the next process.
Reboots ==
    /\ stopping /\ boots < MaxBoots /\ boots' = boots + 1
    /\ alerts' = disk /\ kept' = disk /\ loaded' = Nothing
    /\ gone' = gone \ revived /\ revived' = {}
    /\ checking' = [c \in Checker |-> Off] /\ stopping' = FALSE
    /\ UNCHANGED disk

AlertSteps ==
    \/ \E a \in Alert : AddAlert(a) \/ RemoveAlert(a)
    \/ \E c \in Checker : \/ CheckBegins(c)
                          \/ \E b \in BOOLEAN : PriceAnswers(c, b) \/ Announces(c, b)
    \/ SaveTimer \/ ConfigLoads \/ ConfigSaves \/ ShutdownBegins

-----------------------------------------------------------------------------
(* CronSchedulerService                                                    *)

\* parseNaturalLanguageInterval: a time of the day becomes the wait for its next
\* occurrence, anything else a period.
Interval(expr) ==
    IF expr.daily # Never THEN ((expr.daily - hour - 1) % DayTicks) + 1 ELSE expr.every

Saved(next) == file' \in {next, file}      \* saveSchedules; a failing write is logged

\* addSchedule and startTaskTimer: setInterval repeats the first wait.
AddSchedule(j, expr) ==
    /\ jobs[j] = NoJob /\ file[j] = NoJob /\ lastRun[j] = Never
    /\ LET p == Interval(expr) IN
       jobs' = [jobs EXCEPT ![j] = [period |-> p, due |-> p, want |-> expr.daily]]
    /\ Saved(jobs') /\ UNCHANGED <<hour, lastRun>>

RemoveSchedule(j) ==
    /\ jobs[j] # NoJob
    /\ jobs' = [jobs EXCEPT ![j] = NoJob]
    /\ Saved(jobs') /\ UNCHANGED <<hour, lastRun>>

\* A tick; the timers that are due start their pass and start over.
CronTick ==
    /\ hour' = (hour + 1) % DayTicks
    /\ jobs' = [j \in Job |-> IF jobs[j] = NoJob THEN NoJob
                              ELSE [jobs[j] EXCEPT !.due = IF @ = 1 THEN jobs[j].period ELSE @ - 1]]
    /\ lastRun' = [j \in Job |-> IF jobs[j].due = 1 THEN hour' ELSE lastRun[j]]
    /\ IF \E j \in Job : jobs[j].due = 1 THEN Saved(jobs') ELSE UNCHANGED file

\* loadSchedules: every timer starts over with the stored interval.
CronReboots ==
    /\ boots < MaxBoots /\ boots' = boots + 1
    /\ jobs' = [j \in Job |-> IF file[j] = NoJob THEN NoJob ELSE [file[j] EXCEPT !.due = file[j].period]]
    /\ UNCHANGED <<file, hour, lastRun>>

CronSteps == CronTick \/ \E j \in Job : RemoveSchedule(j) \/ \E e \in Expr : AddSchedule(j, e)

-----------------------------------------------------------------------------
(* HealthWatcherService, FreshPairWatchlist and ChatNotifier               *)

\* An error never lifts UNRESPONSIVE; three in a row replace it by DEGRADED.
RecordHeartbeat(isError) ==
    /\ beat' = IF ~isError THEN [status |-> "HEALTHY", errors |-> 0, silent |-> 0]
               ELSE [status |-> IF beat.errors >= 2 THEN "DEGRADED" ELSE beat.status,
                     errors |-> IF beat.errors < 3 THEN beat.errors + 1 ELSE 3, silent |-> 0]
    /\ UNCHANGED <<pairs, cooling>>

AuditSystemHealth ==
    /\ beat.silent > Silence
    /\ beat' = [beat EXCEPT !.status = "UNRESPONSIVE"]
    /\ UNCHANGED <<pairs, cooling>>

\* track(): the pass's fresh candidates, those strong enough mature once; then
\* what was not seen for two days goes, and the oldest beyond the cap.
Track(seen, strong) ==
    LET now == [p \in Pair |-> IF p \notin seen THEN pairs[p]
                               ELSE [age |-> 0, matured |-> pairs[p].matured \/ p \in strong]]
        live == {p \in Pair : now[p] # Unseen /\ now[p].age <= ForgetAfter}
    IN /\ \E keep \in SUBSET live :
            /\ Cardinality(keep) = IF Cardinality(live) > MaxPairs THEN MaxPairs ELSE Cardinality(live)
            /\ \A k \in keep, d \in live \ keep : now[k].age <= now[d].age
            /\ pairs' = [p \in Pair |-> IF p \in keep THEN now[p] ELSE Unseen]
       /\ UNCHANGED <<beat, cooling>>

\* post(): the key is quiet from now on, whether or not the sink takes it.
Post == cooling = 0 /\ cooling' = Quiet /\ UNCHANGED <<beat, pairs>>

WatchTick ==
    /\ beat' = [beat EXCEPT !.silent = IF @ > Silence THEN @ ELSE @ + 1]
    /\ pairs' = [p \in Pair |-> IF pairs[p] = Unseen \/ pairs[p].age > ForgetAfter THEN pairs[p]
                                ELSE [pairs[p] EXCEPT !.age = @ + 1]]
    /\ cooling' = IF cooling = 0 THEN 0 ELSE cooling - 1

WatchSteps ==
    \/ \E b \in BOOLEAN : RecordHeartbeat(b)
    \/ AuditSystemHealth \/ Post \/ WatchTick
    \/ \E seen \in SUBSET Pair : \E strong \in SUBSET seen : Track(seen, strong)

-----------------------------------------------------------------------------
(* TelegramService.startPolling                                            *)

\* getUpdates(offset): Telegram forgets the updates before the offset and hands
\* out the others, oldest first.
GetUpdates(arrived) ==
    /\ batch = <<>>
    /\ confirmed' = IF offset - 1 > confirmed THEN offset - 1 ELSE confirmed
    /\ batch' = [i \in 1..(arrived - confirmed') |-> confirmed' + i]
    /\ UNCHANGED <<offset, handled>>

\* Mutant: the offset jumps past everything at once.
OffsetPastBatch(u) == Updates + 1

OffsetMoves(u) == u + 1

\* The offset moves before the handler runs; one that throws ends the batch and
\* the next poll brings the rest again.
HandleUpdate(throws) ==
    /\ batch # <<>>
    /\ LET u == Head(batch) IN
       /\ offset' = OffsetMoves(u)
       /\ handled' = [handled EXCEPT ![u] = IF @ < MaxBoots + 2 THEN @ + 1 ELSE @]
    /\ batch' = IF throws THEN <<>> ELSE Tail(batch)
    /\ UNCHANGED confirmed

\* A crash: the offset lives in the closure and starts from 0.
PollReboots ==
    /\ boots < MaxBoots /\ boots' = boots + 1
    /\ offset' = 0 /\ batch' = <<>> /\ UNCHANGED <<confirmed, handled>>

PollSteps == GetUpdates(Updates) \/ \E b \in BOOLEAN : HandleUpdate(b)

-----------------------------------------------------------------------------
OpsInit ==
    /\ alerts = [a \in Alert |-> "none"] /\ kept = alerts /\ disk = alerts
    /\ checking = [c \in Checker |-> Off] /\ stopping = FALSE /\ gone = {}
    /\ loaded = Nothing /\ revived = {}
    /\ jobs = [j \in Job |-> NoJob] /\ file = jobs /\ hour = 0 /\ lastRun = [j \in Job |-> Never]
    /\ beat = [status |-> "HEALTHY", errors |-> 0, silent |-> 0]
    /\ pairs = [p \in Pair |-> Unseen] /\ cooling = 0
    /\ offset = 0 /\ batch = <<>> /\ confirmed = 0 /\ handled = [u \in 1..Updates |-> 0]
    /\ boots = 0

\* The desk and the services beside it share no variable but the restarts; each
\* is restarted by itself here, however the others were stopped.
FrontNext ==
    \/ DeskNext /\ UNCHANGED <<alertVars, cronVars, watchVars, pollVars, boots>>
    \/ ((AlertSteps /\ UNCHANGED boots) \/ Reboots) /\ UNCHANGED <<deskVars, cronVars, watchVars, pollVars>>
    \/ ((CronSteps /\ UNCHANGED boots) \/ CronReboots) /\ UNCHANGED <<deskVars, alertVars, watchVars, pollVars>>
    \/ WatchSteps /\ UNCHANGED <<deskVars, alertVars, cronVars, pollVars, boots>>
    \/ ((PollSteps /\ UNCHANGED boots) \/ PollReboots) /\ UNCHANGED <<deskVars, alertVars, cronVars, watchVars>>

frontVars == <<deskVars, alertVars, cronVars, watchVars, pollVars, boots>>
FrontSpec == DeskInit /\ OpsInit /\ [][FrontNext]_frontVars

-----------------------------------------------------------------------------
(* Properties                                                              *)

\* An alert that fired or was cancelled before a shutdown began never watches
\* again: not when an overlapping check still holds it, and after the restart only
\* if a configuration tool's store wrote an older state over the one flushed.
SpentStaysSpent == [][\A a \in gone \ revived : alerts'[a] # "active"]_alertVars

\* Telegram may deliver an update again, but only a restart makes the service
\* handle one (a withdrawal, say) more often than once.
RepeatNeedsRestart == \A u \in 1..Updates : handled[u] <= 1 + boots

\* Nothing is done that was not asked for, nor twice: MoneyFollowsRequest at the
\* desk, RepeatNeedsRestart in the background (interaction-handler.ts,
\* tool-registry.ts, price-alert-service.ts, cron-scheduler.ts, telegram-service.ts).
WorkIsDoneOnce == MoneyFollowsRequest /\ RepeatNeedsRestart

\* Every update is handled, whatever the handlers of the others throw.
EveryUpdateHandled == \A u \in 1..Updates : <>(handled[u] > 0)

=============================================================================
