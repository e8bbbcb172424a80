------------------------------ MODULE FrontDesk ------------------------------
(***************************************************************************)
(* What an operator reaches: slash commands, buttons, menus and modals     *)
(* (Discord wants a reply or a deferral in time), chat messages and their  *)
(* intents, Telegram updates, the REST API, and behind the last  *)
(* three the tool registry and the LLM agent with its stacked keys.        *)
(* `world` is what they change elsewhere, one value per owner.             *)
(***************************************************************************)
EXTENDS Integers, FiniteSets, Sequences, SequencesExt

CONSTANTS
    Req,          \* requests in flight
    Asked,        \* request -> what it may be: a set of [door, name, words, op]
    AiKeys,       \* stacked LLM keys
    MaxRounds,    \* maxRounds of runAgent
    MaxTools,     \* tool calls in one answer
    Tools         \* tools the model may call

\* A chat message has no name but that it is one.
ASSUME DeskAssumption == \A r \in Req : \A ask \in Asked[r] : ask.door = "chat" => ask.name = "message"

VARIABLES
    world,        \* what the requests changed: owner -> value
    desk,         \* request -> where it stands
    paid,         \* request -> transactions broadcast for it
    aiKey         \* activeKeyIndex

deskVars == <<world, desk, paid, aiKey>>

\* The count of a request's transactions stops here, above what is ever right.
PaidBound == 3

Owner == {"agents", "limit", "ai", "key", "wallet", "strategy", "alert", "config", "job", "memory"}
NoAsk == [door |-> "none", name |-> "none", words |-> {}, op |-> FALSE]
Fresh == [ask |-> NoAsk, stage |-> "idle", late |-> FALSE, deferred |-> FALSE,
          text |-> "nothing", said |-> "nothing", round |-> 0, tries |-> 0, todo |-> 0]

At(r, stage) == desk[r].stage = stage
Interactive(r) == desk[r].ask.door \in {"slash", "button", "modal", "menu"}
Elsewhere(r) == Interactive(r) /\ "elsewhere" \in desk[r].ask.words
Asks(r, door, names) == At(r, "asked") /\ desk[r].ask.door = door /\ desk[r].ask.name \in names /\ ~Elsewhere(r)

\* The handler has its text and is about to send it, having changed the world.
Answers(r, text, w) ==
    /\ world' = w
    /\ desk' = [desk EXCEPT ![r].stage = "answering", ![r].text = text]
    /\ UNCHANGED <<paid, aiKey>>

Changes(r, owner, value) == Answers(r, "done", [world EXCEPT ![owner] = value])
Reads(r) == Answers(r, "done", world)

Goes(r, stage) ==
    /\ desk' = [desk EXCEPT ![r].stage = stage]
    /\ UNCHANGED <<world, paid, aiKey>>

\* handleInteraction's catch: what failed is reported if something still can be.
Throws(r) ==
    /\ desk' = [desk EXCEPT ![r].stage = IF Interactive(r) THEN "apologising" ELSE "closed",
                            ![r].text = "failed"]
    /\ UNCHANGED <<world, paid, aiKey>>

\* requireOperator stands before the action.
Guarded(r, Action) == IF desk[r].ask.op THEN Action ELSE Answers(r, "refused", world)

\* deferReply buys time for the work; too late it throws.
Defers(r, stage) ==
    IF desk[r].late THEN Throws(r)
    ELSE /\ desk' = [desk EXCEPT ![r].deferred = TRUE, ![r].stage = stage]
         /\ UNCHANGED <<world, paid, aiKey>>

\* isOpenCatzChannel: outside the bot's channels it only says where to go.
Misplaced(r) == At(r, "asked") /\ Elsewhere(r) /\ Answers(r, "refused", world)

-----------------------------------------------------------------------------
(* Slash commands: handleChatInput                                         *)

WalletCommand(r) ==
    \/ Asks(r, "slash", {"wallet setup", "wallet replace"}) /\ Guarded(r, Reads(r))
    \/ Asks(r, "slash", {"wallet remove"}) /\ Guarded(r, Changes(r, "wallet", "none"))
    \/ Asks(r, "slash", {"wallet list"}) /\ Reads(r)
    \/ Asks(r, "slash", {"wallet balance"}) /\ Goes(r, "looking")
    \/ Asks(r, "slash", {"wallet withdraw"}) /\ Guarded(r, Defers(r, "paying"))

AnalyzeCommand(r) == Asks(r, "slash", {"analyze"}) /\ Defers(r, "looking")

\* start and stop act on the channel's agent or, in the control room, on all of
\* them; a channel of another agent turns the request down.
ScreeningCommand(r) ==
    \/ Asks(r, "slash", {"screening start", "screening stop", "screening trigger"})
       /\ Guarded(r, Defers(r, "screening"))
    \/ Asks(r, "slash", {"screening status"}) /\ Defers(r, "screening")

ScreeningWorks(r) ==
    /\ At(r, "screening")
    /\ LET name == desk[r].ask.name IN
       \/ "misaligned" \in desk[r].ask.words /\ Answers(r, "refused", world)
       \/ /\ "misaligned" \notin desk[r].ask.words
          /\ \/ name = "screening start" /\ Changes(r, "agents", "on")
             \/ name = "screening stop" /\ Changes(r, "agents", "off")
             \/ name = "screening status" /\ Reads(r)
             \/ name = "screening trigger" /\ Goes(r, "looking")

\* It only says that everything was paused.
CancelCommand(r) == Asks(r, "slash", {"cancel"}) /\ Reads(r)

ConfigCommand(r) == Asks(r, "slash", {"config risk", "config status"}) /\ Reads(r)

HealthCommand(r) == Asks(r, "slash", {"health"}) /\ Reads(r)

StrategyCommand(r) ==
    \/ Asks(r, "slash", {"strategy list"}) /\ Reads(r)
    \/ Asks(r, "slash", {"strategy view"}) /\ Guarded(r, Reads(r))
    \/ Asks(r, "slash", {"strategy activate"}) /\ Guarded(r, Changes(r, "strategy", "new"))
    \/ Asks(r, "slash", {"strategy rollback"}) /\ Guarded(r, Changes(r, "strategy", "old"))

ChannelCommand(r) ==
    \/ Asks(r, "slash", {"channel create"}) /\ Guarded(r, Goes(r, "looking"))
    \/ Asks(r, "slash", {"channel rearrange"}) /\ Reads(r)

\* Prices and audits are awaited before anything was said.
LookupCommand(r) ==
    \/ Asks(r, "slash", {"price", "holders", "wallets", "pump", "convert"}) /\ Goes(r, "looking")
    \/ Asks(r, "slash", {"chart"}) /\ Reads(r)

AlertCommand(r) ==
    \/ Asks(r, "slash", {"alert set"}) /\ Changes(r, "alert", "set")
    \/ Asks(r, "slash", {"alert list"}) /\ Reads(r)
    \/ Asks(r, "slash", {"alert cancel"})
       /\ Answers(r, IF world.alert = "set" THEN "done" ELSE "refused", [world EXCEPT !.alert = "none"])

MenuCommand(r) == Asks(r, "slash", {"menu", "dashboard"}) /\ Goes(r, "looking")

JournalCommand(r) ==
    Asks(r, "slash", {"journal summary", "journal history", "journal export"}) /\ Reads(r)

UpdateCommand(r) == Asks(r, "slash", {"update"}) /\ Guarded(r, Reads(r))

\* The executor is awaited before any reply or deferral.
SwapCommand(r) == Asks(r, "slash", {"swap"}) /\ Guarded(r, Goes(r, "paying"))

SendCommand(r) == Asks(r, "slash", {"send"}) /\ Guarded(r, Goes(r, "paying"))

SlashCommand(r) ==
    \/ WalletCommand(r) \/ AnalyzeCommand(r) \/ ScreeningCommand(r) \/ CancelCommand(r)
    \/ ConfigCommand(r) \/ HealthCommand(r) \/ StrategyCommand(r) \/ ChannelCommand(r)
    \/ LookupCommand(r) \/ AlertCommand(r) \/ MenuCommand(r) \/ JournalCommand(r)
    \/ UpdateCommand(r) \/ SwapCommand(r) \/ SendCommand(r)

-----------------------------------------------------------------------------
(* Buttons, menus, modals                                                  *)

ModalSubmit(r) == Asks(r, "modal", {"wallet_setup_modal"}) /\ Guarded(r, Changes(r, "wallet", "set"))

SelectMenu(r) ==
    /\ Asks(r, "menu", {"select_toggle_agent"})
    /\ Guarded(r, /\ world' = [world EXCEPT !.agents = IF @ = "on" THEN "off" ELSE "on"]
                  /\ desk' = [desk EXCEPT ![r].stage = "looking"]
                  /\ UNCHANGED <<paid, aiKey>>)

\* The dashboard that answers start and pause reads the balance first; APPROVE_
\* and CANCEL_ are MemeBuy's.
ButtonPress(r) ==
    \/ /\ Asks(r, "button", {"btn_start_all_agents", "btn_pause_all_agents"})
       /\ Guarded(r, /\ world' = [world EXCEPT !.agents = IF desk[r].ask.name = "btn_start_all_agents"
                                                          THEN "on" ELSE "off"]
                     /\ desk' = [desk EXCEPT ![r].stage = "looking"]
                     /\ UNCHANGED <<paid, aiKey>>)
    \/ Asks(r, "button", {"btn_emergency_stop", "pause_channel_"}) /\ Guarded(r, Changes(r, "agents", "off"))
    \/ Asks(r, "button", {"start_channel_"}) /\ Guarded(r, Changes(r, "agents", "on"))
    \/ Asks(r, "button", {"trigger_pass_"}) /\ Guarded(r, Defers(r, "looking"))
    \/ Asks(r, "button", {"btn_view_wallets", "btn_refresh_dashboard"}) /\ Goes(r, "looking")
    \/ Asks(r, "button", {"btn_view_alerts"}) /\ Reads(r)

-----------------------------------------------------------------------------
(* Chat messages: handleControlRoomMessage                                 *)

\* What a text is looked at for, in this order; `words` says which of them fit.
Ladder == <<"pause", "resume", "trigger", "drawdown", "status", "schedule", "memory", "key",
            "alert", "bridge", "swap", "send", "audit">>

Intent(words) ==
    LET fits == SelectSeq(Ladder, LAMBDA intent : intent \in words) IN
    IF fits = <<>> THEN "llm" ELSE Head(fits)

\* requireOperator looks for `user`; a message has its `author` only, so these are
\* refused to everybody, before the executor or the registry is called.
RefusedInChat == {"pause", "resume", "trigger", "drawdown", "schedule", "key", "swap", "send"}

\* A pasted contract address is audited and remembered.
AuditIntent(r) == Goes(r, "auditing")

ChatMessage(r) ==
    /\ At(r, "asked") /\ desk[r].ask.door = "chat"
    /\ LET intent == Intent(desk[r].ask.words) IN
       \/ intent \in RefusedInChat /\ Answers(r, "refused", world)
       \/ intent \in {"status", "memory", "bridge"} /\ Reads(r)
       \/ intent = "alert" /\ Changes(r, "alert", "set")
       \/ intent = "audit" /\ AuditIntent(r)
       \/ intent = "llm" /\ Goes(r, "thinking")

\* recordAudit, also of an audit that failed.
AuditEnds(r) == At(r, "auditing") /\ Changes(r, "memory", "audit")

-----------------------------------------------------------------------------
(* Telegram updates and the REST API                                       *)

TelegramUpdate(r) ==
    \/ Asks(r, "telegram", {"toggle_"})
       /\ Guarded(r, Changes(r, "agents", IF world.agents = "on" THEN "off" ELSE "on"))
    \/ Asks(r, "telegram", {"start_all"}) /\ Guarded(r, Changes(r, "agents", "on"))
    \/ Asks(r, "telegram", {"pause_all"}) /\ Guarded(r, Changes(r, "agents", "off"))
    \/ Asks(r, "telegram", {"balances", "withdraw_info"}) /\ Guarded(r, Reads(r))
    \/ Asks(r, "telegram", {"/withdraw"})
       /\ Guarded(r, IF "amount" \in desk[r].ask.words THEN Goes(r, "paying") ELSE Answers(r, "refused", world))
    \/ Asks(r, "telegram", {"text"}) /\ Goes(r, "thinking")

ApiRequest(r) ==
    \/ Asks(r, "api", {"GET"}) /\ Reads(r)
    \/ Asks(r, "api", {"toggle"})
       /\ Guarded(r, IF "domain" \in desk[r].ask.words
                     THEN Changes(r, "agents", IF world.agents = "on" THEN "off" ELSE "on")
                     ELSE Answers(r, "refused", world))
    \/ Asks(r, "api", {"command"}) /\ Guarded(r, Goes(r, "commanding"))

-----------------------------------------------------------------------------
(* ToolRegistry.executeToolCall: the world after a call, and its success    *)

Called(ok, w) == [ok |-> ok, world |-> w]

ControlTool(tool, w) ==
    CASE tool \in {"pause_sub_agent", "stop_all_agents"} -> Called(TRUE, [w EXCEPT !.agents = "off"])
      [] tool \in {"resume_sub_agent", "start_all_agents"} -> Called(TRUE, [w EXCEPT !.agents = "on"])
      [] tool = "set_risk_limit" -> Called(TRUE, [w EXCEPT !.limit = "new"])
      [] tool \in {"trigger_screening_pass", "get_agent_statuses", "search_x_alpha"} -> Called(TRUE, w)

\* The API's registry has no AI service to switch.
ServiceTool(tool, w, hasAi) ==
    CASE tool = "switch_ai_model" -> IF hasAi THEN Called(TRUE, [w EXCEPT !.ai = "new"]) ELSE Called(FALSE, w)
      [] tool = "schedule_automation" -> Called(TRUE, [w EXCEPT !.job = "set"])
      [] tool = "search_memory" -> Called(TRUE, w)
      [] tool = "set_api_key" -> Called(TRUE, [w EXCEPT !.key = "new"])
      [] tool = "set_protected_key" -> Called(FALSE, w)

FileTool(tool, w) ==
    CASE tool \in {"activate_strategy", "write_strategy_file", "write_indicator_file"} -> Called(TRUE, [w EXCEPT !.strategy = "new"])
      [] tool = "rollback_strategy" -> Called(TRUE, [w EXCEPT !.strategy = "old"])
      [] tool = "set_screening_config" -> Called(TRUE, [w EXCEPT !.config = "new"])
      [] OTHER -> Called(TRUE, w)

Files == {"read_file", "list_directory", "get_runtime_config", "get_system_health", "get_portfolio",
          "list_strategies", "read_strategy", "activate_strategy", "write_strategy_file",
          "write_indicator_file", "rollback_strategy", "set_screening_config"}
Controls == {"pause_sub_agent", "stop_all_agents", "resume_sub_agent", "start_all_agents", "set_risk_limit",
             "trigger_screening_pass", "get_agent_statuses", "search_x_alpha"}
Services == {"switch_ai_model", "schedule_automation", "search_memory", "set_api_key", "set_protected_key"}

ExecuteToolCall(tool, w, hasAi) ==
    IF tool \in Controls THEN ControlTool(tool, w)
    ELSE IF tool \in Services THEN ServiceTool(tool, w, hasAi)
    ELSE IF tool \in Files THEN FileTool(tool, w) ELSE Called(FALSE, w)

ApiCommands(r, tool) ==
    /\ At(r, "commanding")
    /\ LET call == ExecuteToolCall(tool, world, FALSE) IN
       Answers(r, IF call.ok THEN "done" ELSE "refused", call.world)

-----------------------------------------------------------------------------
(* runAgent over AIService.generateWithTools                               *)

KeyNow(r) == (aiKey + desk[r].tries) % AiKeys

\* A failed key: the next one, counted from wherever the active key is by then;
\* after the last the call returns no text and no tool calls.
KeyFails(r) ==
    /\ At(r, "thinking") \/ At(r, "summing")
    /\ LET d == [desk[r] EXCEPT !.tries = @ + 1] IN
       desk' = [desk EXCEPT ![r] =
                    IF d.tries = AiKeys THEN [d EXCEPT !.stage = "answering", !.text = "silence"] ELSE d]
    /\ UNCHANGED <<world, paid, aiKey>>

\* The key that answered becomes the active one for everybody.
ModelTalks(r) ==
    /\ At(r, "thinking") \/ At(r, "summing")
    /\ aiKey' = KeyNow(r)
    /\ desk' = [desk EXCEPT ![r].stage = "answering", ![r].text = "done"]
    /\ UNCHANGED <<world, paid>>

\* After the last round of tools the model is asked once more, without tools.
NextRound(d) == IF d.round = MaxRounds THEN "summing" ELSE "thinking"

ModelCallsTools(r, n) ==
    /\ At(r, "thinking") /\ aiKey' = KeyNow(r)
    /\ desk' = [desk EXCEPT ![r].stage = "tooling", ![r].todo = n,
                            ![r].round = IF @ < MaxRounds THEN @ + 1 ELSE @]
    /\ UNCHANGED <<world, paid>>

\* One tool call after the other; a failing one is reported to the model.
ToolRuns(r, tool) ==
    /\ At(r, "tooling")
    /\ world' = ExecuteToolCall(tool, world, TRUE).world
    /\ LET d == [desk[r] EXCEPT !.todo = @ - 1] IN
       desk' = [desk EXCEPT ![r] = IF d.todo > 0 THEN d ELSE [d EXCEPT !.stage = NextRound(d), !.tries = 0]]
    /\ UNCHANGED <<paid, aiKey>>

-----------------------------------------------------------------------------
(* Waiting, paying, answering                                              *)

Arrive(r, ask) ==
    /\ At(r, "idle")
    /\ desk' = [desk EXCEPT ![r] = [Fresh EXCEPT !.ask = ask, !.stage = "asked"]]
    /\ UNCHANGED <<world, paid, aiKey>>

\* Discord's time for a first answer runs out.
RunsLate(r) ==
    /\ Interactive(r) /\ desk[r].stage \notin {"idle", "closed"}
    /\ ~desk[r].deferred /\ ~desk[r].late
    /\ desk' = [desk EXCEPT ![r].late = TRUE] /\ UNCHANGED <<world, paid, aiKey>>

LookupEnds(r, ok) == At(r, "looking") /\ IF ok THEN Reads(r) ELSE Throws(r)

FromExecutor(name) == name \in {"swap", "send"}

\* How a payment may end: transactions broadcast, and what its answer will say.
\* A swap whose first host failed is sent again through another (LifiExecutor).
\* swap() and send() report an error, also one after a broadcast, as an unsuccessful
\* simulation that no caller tells from a dry run; withdraw says that it failed.
PaymentResults(name) ==
    LET sends == IF name = "swap" THEN 0..2 ELSE 0..1 IN
    {[sent |-> n, told |-> "done"] : n \in sends \ {0}}
    \cup {[sent |-> n, told |-> IF FromExecutor(name) THEN "simulated" ELSE "failed"] : n \in sends}
    \cup {[sent |-> 0, told |-> "simulated"]}

\* Where there was no quote the card has no address to link to and cannot be built.
PaymentEnds(r) ==
    /\ At(r, "paying")
    /\ \/ \E result \in PaymentResults(desk[r].ask.name) :
             /\ paid' = [paid EXCEPT ![r] = IF @ + result.sent < PaidBound THEN @ + result.sent ELSE PaidBound]
             /\ desk' = [desk EXCEPT ![r].stage = "answering", ![r].text = result.told]
             /\ UNCHANGED <<world, aiKey>>
       \/ FromExecutor(desk[r].ask.name) /\ Throws(r)

\* A handler that starts its work over when the answer did not arrive.
AnswerRetriesWork(r, arrives) ==
    /\ At(r, "answering")
    /\ desk' = [desk EXCEPT ![r].stage = IF arrives THEN "closed" ELSE "paying", ![r].said = desk[r].text]
    /\ UNCHANGED <<world, paid, aiKey>>

\* A reply, an edit of the deferred one, or a message; safeReply falls back to
\* channel.send.  withdraw takes a failing edit for a failing withdrawal.
AnswerArrives(r, arrives) ==
    /\ At(r, "answering")
    /\ LET d == desk[r]
           lost == ~arrives \/ (Interactive(r) /\ d.late /\ ~d.deferred)
       IN IF ~lost
          THEN /\ desk' = [desk EXCEPT ![r].stage = "closed", ![r].said = d.text]
               /\ UNCHANGED <<world, paid, aiKey>>
          ELSE Throws(r)

\* editReply if deferred, reply if not; what fails here is swallowed.
Apologises(r, arrives) ==
    /\ At(r, "apologising")
    /\ desk' = [desk EXCEPT ![r].stage = "closed",
                            ![r].said = IF arrives /\ (desk[r].deferred \/ ~desk[r].late) THEN "failed" ELSE @]
    /\ UNCHANGED <<world, paid, aiKey>>

Handlers(r) ==
    \/ SlashCommand(r) \/ ModalSubmit(r) \/ SelectMenu(r) \/ ButtonPress(r)
    \/ ChatMessage(r) \/ TelegramUpdate(r) \/ ApiRequest(r)
    \/ Misplaced(r) \/ ScreeningWorks(r) \/ AuditEnds(r) \/ PaymentEnds(r)
    \/ \E b \in BOOLEAN : LookupEnds(r, b) \/ AnswerArrives(r, b) \/ Apologises(r, b)
    \/ \E t \in Tools : ApiCommands(r, t) \/ ToolRuns(r, t)
    \/ KeyFails(r) \/ ModelTalks(r) \/ \E n \in 1..MaxTools : ModelCallsTools(r, n)

DeskNext ==
    \E r \in Req : \/ Handlers(r) \/ RunsLate(r)
                   \/ \E ask \in Asked[r] : Arrive(r, ask)

DeskInit ==
    /\ world = [o \in Owner |-> CASE o = "agents" -> "on" [] o \in {"wallet", "alert", "job", "memory"} -> "none"
                                  [] OTHER -> "old"]
    /\ desk = [r \in Req |-> Fresh] /\ paid = [r \in Req |-> 0] /\ aiKey = 0

-----------------------------------------------------------------------------
(* Properties                                                              *)

\* What asks for a payment.  No chat message gets that far.
Spends(ask) == ask.name \in {"swap", "send", "wallet withdraw", "/withdraw"}

\* A request that was turned down, or asked for no payment, moved no money.  However
\* its answer fares the handler pays once: only the executor's own resend of a swap
\* makes two transactions of one request.  An answer that shows a live broadcast is
\* true (one that says DRY_RUN need not be).
MoneyFollowsRequest ==
    \A r \in Req :
        /\ desk[r].said = "refused" \/ ~Spends(desk[r].ask) => paid[r] = 0
        /\ paid[r] <= IF desk[r].ask.name = "swap" THEN 2 ELSE 1
        /\ desk[r].said = "done" /\ Spends(desk[r].ask) => paid[r] > 0

\* Every request comes to an end: the model cannot keep the agent calling tools,
\* and no failing answer keeps a handler going.
DeskSettles == \A r \in Req : desk[r].stage # "idle" ~> desk[r].stage = "closed"

=============================================================================
