---------------------------- MODULE MCFrontOffice ----------------------------
(* The front desk and the background operations on small instances, one at a  *)
(* time: "desk", and "alerts", "cron", "watch", "poll" of Operations.         *)
EXTENDS Operations

VARIABLE scope

mcvars == <<deskVars, alertVars, cronVars, watchVars, pollVars, boots, scope>>

MCAsk(door, name, words, op) == [door |-> door, name |-> name, words |-> words, op |-> op]
MCOpen ==
    {MCAsk("slash", n, {}, FALSE) :
        n \in {"wallet list", "analyze", "screening status", "cancel", "price", "alert set", "alert cancel"}}
    \cup {MCAsk("chat", "message", w, TRUE) :
            w \in {{"resume", "trigger"}, {"key", "swap"}, {"swap"}, {"memory"}, {"alert"}, {"audit"}, {}}}
MCGuarded(op) ==
    {MCAsk("slash", n, {}, op) :
        n \in {"wallet setup", "wallet remove", "wallet withdraw", "screening start", "screening trigger",
               "strategy activate", "swap", "send"}}
    \cup {MCAsk("button", n, {}, op) : n \in {"btn_pause_all_agents", "btn_emergency_stop", "trigger_pass_"}}
    \cup {MCAsk("modal", "wallet_setup_modal", {}, op), MCAsk("menu", "select_toggle_agent", {}, op),
          MCAsk("slash", "screening stop", {"misaligned"}, op), MCAsk("slash", "swap", {"elsewhere"}, op),
          MCAsk("chat", "message", {"send", "audit"}, op), MCAsk("telegram", "/withdraw", {"amount"}, op),
          MCAsk("telegram", "toggle_", {}, op), MCAsk("api", "toggle", {"domain"}, op),
          MCAsk("api", "command", {}, op)}
MCAsked == [r \in {1, 2} |-> IF r = 1 THEN MCOpen \cup MCGuarded(TRUE) \cup MCGuarded(FALSE)
                             ELSE {MCAsk("chat", "message", {}, TRUE)}]
MCTools == {"stop_all_agents", "switch_ai_model"}
MCExpr == {[daily |-> 3, every |-> 0], [daily |-> -1, every |-> 2]}

MCInit ==
    /\ DeskInit /\ OpsInit
    /\ scope \in {"desk", "alerts", "cron", "watch", "poll"}

OpsIdle == UNCHANGED <<deskVars, scope>>
InAlerts == scope = "alerts" /\ UNCHANGED <<cronVars, watchVars, pollVars>> /\ OpsIdle
InCron == scope = "cron" /\ UNCHANGED <<alertVars, watchVars, pollVars>> /\ OpsIdle
InWatch == scope = "watch" /\ UNCHANGED <<alertVars, cronVars, pollVars, boots>> /\ OpsIdle
InPoll == scope = "poll" /\ UNCHANGED <<alertVars, cronVars, watchVars>> /\ OpsIdle
InDesk == scope = "desk" /\ UNCHANGED <<alertVars, cronVars, watchVars, pollVars, boots, scope>>

\* A bound: a second store is opened only while the file holds an active alert; any
\* other file brings none back.
LoadMatters == loaded' # loaded /\ loaded' # Nothing => \E a \in Alert : loaded'[a] = "active"

MCNext ==
    \/ InDesk /\ DeskNext
    \/ InAlerts /\ AlertSteps /\ LoadMatters /\ UNCHANGED boots
    \/ InAlerts /\ Reboots
    \/ InCron /\ CronSteps /\ UNCHANGED boots
    \/ InCron /\ CronReboots
    \/ InWatch /\ WatchSteps
    \/ InPoll /\ PollSteps /\ UNCHANGED boots
    \/ InPoll /\ PollReboots

\* A request that is being handled goes on; the poll goes on and its handlers
\* return.  Nothing forces requests, restarts or time.
MCFairness ==
    /\ \A r \in Req : WF_mcvars(InDesk /\ Handlers(r))
    /\ WF_mcvars(InPoll /\ PollSteps /\ UNCHANGED boots)

MCSpec == MCInit /\ [][MCNext]_mcvars /\ MCFairness

UpdatesHandled == scope = "poll" => EveryUpdateHandled

\* Whatever is asked is dealt with: DeskSettles for a request at the desk,
\* EveryUpdateHandled for one that Telegram holds.
RequestsAreHandled == DeskSettles /\ UpdatesHandled

=============================================================================
