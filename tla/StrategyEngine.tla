--------------------------- MODULE StrategyEngine ---------------------------
(***************************************************************************)
(* The strategy files an operator or the model writes, and the agent's     *)
(* engine that runs the active one: StrategyEngine and the boot-time       *)
(* bootstrapCustomStrategies.  File and child-process calls block the      *)
(* event loop, so a load and a run are one step each; only the death of    *)
(* the process cuts a write in two.  The writer (tool registry, bootstrap) *)
(* and the agent are engines of their own over one directory.              *)
(***************************************************************************)
EXTENDS Integers, FiniteSets

CONSTANTS
    Code,         \* versions a file may hold
    Behaviour,    \* version -> "fine", "throws", "loops" or "shapeless"
    MaxFaults     \* bound on deaths and disk errors

ASSUME StrategyAssumption ==
    /\ {"shipped", "torn"} \subseteq Code /\ MaxFaults \in Nat
    /\ Behaviour \in [Code -> {"fine", "throws", "loops", "shapeless"}]
    /\ Behaviour["shipped"] = "fine" /\ Behaviour["torn"] = "shapeless"

VARIABLES
    files,        \* name -> version in strategies/, or "none"
    backups,      \* name -> version in strategies/.backup, or "none"
    active,       \* .active.json: the domain's entry, or "none"
    writing,      \* [name, code, existed] of the write being validated
    booting,      \* where bootstrapCustomStrategies is; "done" after it
    usable,       \* the agent engine's workerUsable
    imported,     \* name -> version in the agent engine's importCache
    decided,      \* [name, code] of the last evaluation that answered
    hung,         \* the event loop is inside a call that never returns
    faults        \* deaths and disk errors so far

strategyVars == <<files, backups, active, writing, booting, usable, imported, decided, hung, faults>>
agentVars == <<usable, imported, decided, hung>>

Name == {"custom", "default"}
NoWrite == [name |-> "none", code |-> "none", existed |-> FALSE]
NoRun == [name |-> "none", code |-> "none"]
NoFiles == [n \in Name |-> "none"]

WellShaped(code) == code # "none" /\ Behaviour[code] # "shapeless"
Awake == ~hung /\ writing = NoWrite
Idle == Awake /\ booting = "done"

StrategyInit ==
    /\ files = [NoFiles EXCEPT !["default"] = "shipped"] /\ backups = NoFiles
    /\ active = "none" /\ writing = NoWrite /\ decided = NoRun /\ booting \in {"generate", "done"}
    /\ usable = TRUE /\ imported = NoFiles /\ hung = FALSE /\ faults = 0

-----------------------------------------------------------------------------
(* Writing: back up, write, validate in a child, take back what is refused *)

\* Mutant: the new version is written before the old one is backed up.
WriteBeginsUnsaved(name, code) ==
    /\ writing' = [name |-> name, code |-> code, existed |-> files[name] # "none"]
    /\ files' = [files EXCEPT ![name] = code]
    /\ backups' = IF files[name] = "none" THEN backups ELSE [backups EXCEPT ![name] = code]

WriteBegins(name, code) ==
    /\ writing' = [name |-> name, code |-> code, existed |-> files[name] # "none"]
    /\ backups' = IF files[name] = "none" THEN backups ELSE [backups EXCEPT ![name] = files[name]]
    /\ files' = [files EXCEPT ![name] = code]

\* The validator imports the file in a child and looks at its shape; a child that does
\* not start or runs into its 20 seconds refuses the file like a bad shape.
Validated(answered) ==
    IF answered /\ WellShaped(writing.code) THEN files
    ELSE IF writing.existed THEN [files EXCEPT ![writing.name] = backups[writing.name]]
    ELSE [files EXCEPT ![writing.name] = "none"]

WriteStrategy(name, code) ==
    /\ Idle /\ WriteBegins(name, code)
    /\ UNCHANGED <<active, booting, agentVars, faults>>

\* A write that fails half way is reported and left as it is.
WriteTorn(name) ==
    /\ Idle /\ faults < MaxFaults /\ faults' = faults + 1
    /\ backups' = IF files[name] = "none" THEN backups ELSE [backups EXCEPT ![name] = files[name]]
    /\ files' = [files EXCEPT ![name] = "torn"]
    /\ UNCHANGED <<active, writing, booting, agentVars>>

WriteEnds(answered) ==
    /\ ~hung /\ writing # NoWrite /\ booting = "done"
    /\ files' = Validated(answered) /\ writing' = NoWrite
    /\ UNCHANGED <<backups, active, booting, agentVars, faults>>

RollbackFile(name) ==
    /\ Idle /\ backups[name] # "none"
    /\ files' = [files EXCEPT ![name] = backups[name]]
    /\ UNCHANGED <<backups, active, writing, booting, agentVars, faults>>

\* A failing save of the active map is only logged: the caller still hears success.
SetActiveStrategy(name) ==
    /\ Idle /\ files[name] # "none"
    /\ \/ active' = name /\ UNCHANGED faults
       \/ faults < MaxFaults /\ faults' = faults + 1 /\ UNCHANGED active
    /\ UNCHANGED <<files, backups, writing, booting, agentVars>>

-----------------------------------------------------------------------------
(* Loading and running                                                     *)

\* What an engine's loadModule reads of a file, "none" when it throws: in a child
\* the file as it is, if the child starts and answers within its ten seconds; in
\* process whatever was imported first.
LoadModule(name, inWorker, cache, answered) ==
    LET code == IF ~inWorker /\ cache[name] # "none" THEN cache[name] ELSE files[name]
    IN  IF files[name] # "none" /\ (inWorker => name \in answered) /\ WellShaped(code) THEN code ELSE "none"

\* The active strategy, or the domain's default when it is missing or unreadable.
GetActiveStrategy(inWorker, cache, answered) ==
    LET Try(n) == IF n = "none" THEN "none" ELSE LoadModule(n, inWorker, cache, answered)
    IN  IF Try(active) # "none" THEN [name |-> active, code |-> Try(active)]
        ELSE IF Try("default") # "none" THEN [name |-> "default", code |-> Try("default")]
        ELSE NoRun

\* importCached keeps the first version of a file for the life of the process.
Imported(name) == IF imported[name] # "none" THEN imported[name] ELSE files[name]
Decide(run) ==
    IF Behaviour[run.code] = "fine" THEN decided' = run ELSE UNCHANGED decided

RunInProcess(name) ==
    LET code == Imported(name)
    IN  /\ imported' = [imported EXCEPT ![name] = code]
        /\ hung' = (Behaviour[code] = "loops")
        /\ Decide([name |-> name, code |-> code])

\* runModuleInWorker: a child that ran into its five seconds reports no status, like
\* one that could not be started, and the same call is made in process.
RunInWorker(run, starts) ==
    IF starts /\ Behaviour[run.code] # "loops"
      THEN Decide(run) /\ UNCHANGED <<usable, imported, hung>>
      ELSE usable' = FALSE /\ RunInProcess(run.name)

\* The agent scores a finalist with the active strategy; what throws is caught.
EvaluateStrategies(starts, answered) ==
    LET run == GetActiveStrategy(usable, imported, answered)
    IN  /\ Idle
        /\ run # NoRun
        /\ IF usable THEN RunInWorker(run, starts) ELSE RunInProcess(run.name) /\ UNCHANGED usable
        /\ UNCHANGED <<files, backups, active, writing, booting, faults>>

-----------------------------------------------------------------------------
(* bootstrapCustomStrategies                                               *)

\* A custom file, or no usable completion: nothing is generated.
BootSkips ==
    /\ Awake /\ booting = "generate" /\ booting' = "done"
    /\ UNCHANGED <<files, backups, active, writing, agentVars, faults>>

BootGenerates(code) ==
    /\ Awake /\ booting = "generate" /\ files["custom"] = "none"
    /\ WriteBegins("custom", code) /\ booting' = "validate"
    /\ UNCHANGED <<active, agentVars, faults>>

BootValidates(answered) ==
    /\ booting = "validate" /\ writing' = NoWrite /\ files' = Validated(answered)
    /\ IF files'["custom"] = "none" THEN booting' = "done" /\ UNCHANGED active
       ELSE booting' = "smoke" /\ active' = "custom"
    /\ UNCHANGED <<backups, agentVars, faults>>

\* What the engine then gives as active is run once on an empty context: a throw, or
\* nothing to run, removes the file.
BootSmokes(answered) ==
    LET run == GetActiveStrategy(TRUE, NoFiles, answered)
        looped == run # NoRun /\ Behaviour[run.code] = "loops"
    IN  /\ Awake /\ booting = "smoke"
        /\ hung' = looped /\ booting' = IF looped THEN "smoke" ELSE "done"
        /\ files' = IF run = NoRun \/ Behaviour[run.code] = "throws" THEN [files EXCEPT !["custom"] = "none"] ELSE files
        /\ UNCHANGED <<backups, active, writing, usable, imported, decided, faults>>

\* The process dies, also half way through a write, and boots again.
StrategyRestart ==
    /\ faults < MaxFaults /\ faults' = faults + 1
    /\ writing' = NoWrite /\ booting' \in {"generate", "done"}
    /\ usable' = TRUE /\ imported' = NoFiles /\ decided' = NoRun /\ hung' = FALSE
    /\ UNCHANGED <<files, backups, active>>

StrategyNext ==
    \/ \E n \in Name, c \in Code : WriteStrategy(n, c)
    \/ \E n \in Name : WriteTorn(n)
    \/ \E answered \in BOOLEAN : WriteEnds(answered)
    \/ \E n \in Name : RollbackFile(n)
    \/ \E n \in Name : SetActiveStrategy(n)
    \/ \E starts \in BOOLEAN, answered \in SUBSET Name : EvaluateStrategies(starts, answered)
    \/ BootSkips
    \/ \E c \in Code : BootGenerates(c)
    \/ \E answered \in BOOLEAN : BootValidates(answered)
    \/ \E answered \in SUBSET Name : BootSmokes(answered)
    \/ StrategyRestart

StrategySpec == StrategyInit /\ [][StrategyNext]_strategyVars

-----------------------------------------------------------------------------
(* Properties                                                              *)

\* What a write could not validate is gone once the write has returned: without a
\* death or a disk error in between, no file and no backup is ever a version the
\* validator refuses (writeSandboxed, rollbackFile, strategy-engine.ts:287-344).
RefusedCodeIsGone ==
    faults = 0 /\ writing = NoWrite =>
        \A n \in Name : \A c \in {files[n], backups[n]} : c = "none" \/ WellShaped(c)

\* However the directory was left and whichever children answer, what the agent runs
\* passed the loader's own check; and with a sound default on disk it is without a
\* strategy only because the child that reads the default failed, never for good once
\* it loads in process (getActiveStrategy, loadModule, strategy-engine.ts:133-175, 385-445).
DefaultBacksUp ==
    \A answered \in SUBSET Name :
        LET run == GetActiveStrategy(usable, imported, answered)
        IN  /\ run # NoRun => WellShaped(run.code) /\ files[run.name] # "none"
            /\ WellShaped(files["default"]) /\ (usable => "default" \in answered) => run # NoRun

\* Code that was refused does not stay behind, and a sound default backs up whatever
\* else cannot be loaded: RefusedCodeIsGone and DefaultBacksUp (strategy-engine.ts).
StrategiesAreSound == RefusedCodeIsGone /\ DefaultBacksUp

=============================================================================
