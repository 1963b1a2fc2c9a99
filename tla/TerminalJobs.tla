------------------------------ MODULE TerminalJobs ------------------------------
(***************************************************************************)
(* The screens of internal/tui from which something is started, and what   *)
(* runs beside them: upgrades, syncs, restores, removals and installations *)
(* run in goroutines of their own and answer with a message, which Update  *)
(* drops unless the screen it is meant for is still shown; meanwhile keys  *)
(* go on arriving.  One flag, OperationRunning, keeps the user from        *)
(* leaving or starting another job.                                        *)
(*                                                                         *)
(* The screens of InstallWizard are one here, and so are those that lead   *)
(* to a confirmation.  A job that fails answers like one that succeeds,    *)
(* unless what follows differs.                                            *)
(***************************************************************************)
EXTENDS Naturals, Sequences

CONSTANTS None,         \* no report, no overrides, no screen
          Patient,      \* a generation is asked for only when none is in flight
          MaxAsked      \* bound on the generations of an agent

VARIABLES screen,
          previous,     \* PreviousScreen
          busy,         \* OperationRunning
          running,      \* pipelineRunning
          work,         \* the jobs in flight that change files
          check,        \* the update checks in flight, and what the last one found
          report,       \* UpgradeReport: None, "tools", or "self" with gentle-ai in it
          overrides,    \* PendingSyncOverrides
          synced,       \* HasSyncRun
          configuring,  \* ModelConfigMode
          agent,        \* AgentBuilder, and the generations in flight
          binary,       \* gentle-ai on disk: "old" is the one that runs
          marked        \* PendingSync of the installation state
vars == <<screen, previous, busy, running, work, check, report, overrides, synced, configuring, agent, binary, marked>>
operation == <<busy, report, overrides, synced>>
disk == <<binary, marked>>

(* Jobs that are confirmed, run and show a result, each on a screen of its *)
(* own; the community tools have another screen while they are installed.  *)
OneShot == {"restore", "uninstall", "register", "remove", "tools"}
Running(job) == IF job = "tools" THEN "tooling" ELSE job

Init ==
    /\ screen = "welcome" /\ previous = None
    /\ busy = FALSE /\ running = FALSE /\ work = <<>> /\ configuring = FALSE
    /\ check = [flying |-> 1, done |-> FALSE, updates |-> FALSE]
    /\ report = None /\ overrides = None /\ synced = FALSE
    /\ agent = [generating |-> FALSE, failed |-> FALSE, asked |-> 0, flying |-> {}, generated |-> 0, adding |-> FALSE]
    /\ binary = "old" /\ marked = FALSE

SetScreen(on) == screen' = on /\ previous' = screen
Start(job) == work' = Append(work, job)
Sync(with) == [job |-> "sync", with |-> with]
Plain(job) == [job |-> job, with |-> None]

(* withResetOperationState, withResetSyncState *)
ResetOperation == busy' = FALSE /\ report' = None /\ overrides' = None /\ synced' = FALSE

-----------------------------------------------------------------------------
(* The main menu, and the screens that only lead to others. *)

Open ==
    /\ screen = "welcome"
    /\ \/ \E on \in {"upgrade", "sync", "both"} : SetScreen(on) /\ ResetOperation /\ UNCHANGED agent
       \/ \E on \in {"wizard", "config", "profiles"} \cup OneShot :
            SetScreen(on) /\ UNCHANGED <<operation, agent>>
       \/ /\ SetScreen("describe")
          /\ agent' = [agent EXCEPT !.generating = FALSE, !.failed = FALSE, !.generated = 0, !.adding = FALSE]
          /\ UNCHANGED operation
    /\ UNCHANGED <<running, work, check, configuring, disk>>

(* The pickers of models are shared by the wizard and the configuration.   *)
OpenPicker ==
    /\ screen \in {"wizard", "config"} /\ SetScreen("picker")
    /\ configuring' = (configuring \/ screen = "config")
    /\ UNCHANGED <<running, work, check, operation, agent, disk>>
ConfirmPicker ==
    /\ screen = "picker" /\ configuring' = FALSE
    /\ IF configuring THEN SetScreen("sync") /\ busy' = FALSE /\ synced' = FALSE /\ overrides' = "models"
       ELSE SetScreen("wizard") /\ UNCHANGED <<busy, synced, overrides>>
    /\ UNCHANGED <<running, work, check, report, agent, disk>>

OpenProfile ==
    /\ screen = "profiles" /\ \E on \in {"delete", "save"} : SetScreen(on)
    /\ UNCHANGED <<running, work, check, operation, configuring, agent, disk>>

-----------------------------------------------------------------------------
(* Upgrade, sync, and one after the other. *)

StartUpgrade == busy' = TRUE /\ Start(Plain("upgrade"))

(* handleUpdatePromptKey comes before the test of OperationRunning.        *)
UpdateNow ==
    /\ screen = "prompt" /\ ~busy /\ SetScreen("upgrade") /\ StartUpgrade
    /\ UNCHANGED <<running, check, report, overrides, synced, configuring, agent, disk>>
KeepVersion ==
    /\ screen = "prompt" /\ SetScreen("welcome")
    /\ UNCHANGED <<running, work, check, operation, configuring, agent, disk>>

Quit == SetScreen("quit") /\ work' = <<>>

Done == report # None \/ (screen # "upgrade" /\ synced)
EnterUpgrade ==
    /\ screen \in {"upgrade", "both"} /\ ~busy
    /\ IF report = "self" THEN Quit /\ UNCHANGED operation
       ELSE IF Done THEN SetScreen("welcome") /\ ResetOperation /\ UNCHANGED work
       ELSE /\ check.done
            /\ IF screen = "upgrade" /\ ~check.updates THEN SetScreen("welcome") /\ UNCHANGED <<operation, work>>
               ELSE /\ busy' = TRUE /\ Start(Plain(screen))
                    /\ UNCHANGED <<screen, previous, report, overrides, synced>>
    /\ UNCHANGED <<running, check, configuring, agent, disk>>
EnterSync ==
    /\ screen = "sync" /\ ~busy
    /\ IF synced THEN SetScreen("welcome") /\ ResetOperation /\ UNCHANGED work
       ELSE /\ busy' = TRUE /\ Start(Sync(overrides))
            /\ UNCHANGED <<screen, previous, report, overrides, synced>>
    /\ UNCHANGED <<running, check, configuring, agent, disk>>

(* Deleting and saving a profile sync at once.                             *)
SyncProfile ==
    /\ screen \in {"delete", "save"} /\ ~busy
    /\ SetScreen("sync") /\ synced' = FALSE /\ busy' = TRUE
    /\ overrides' = IF screen = "save" THEN "profile" ELSE None
    /\ Start(Sync(overrides'))
    /\ UNCHANGED <<running, check, report, configuring, agent, disk>>

-----------------------------------------------------------------------------
(* The other jobs, and the agent builder. *)

(* With no tool or plugin picked there is nothing to run.                  *)
Confirm ==
    /\ screen \in OneShot /\ ~busy
    /\ \/ busy' = TRUE /\ Start(Plain(screen)) /\ SetScreen(Running(screen))
       \/ screen \in {"register", "tools"} /\ SetScreen("result") /\ UNCHANGED <<busy, work>>
    /\ UNCHANGED <<running, check, report, overrides, synced, configuring, agent, disk>>

StartInstalling ==
    /\ screen = "wizard" /\ SetScreen("installing") /\ running' = TRUE /\ Start(Plain("install"))
    /\ UNCHANGED <<check, operation, configuring, agent, disk>>

(* startGeneration: from the description, after an error, or again.        *)
Generate ==
    /\ screen \in {"describe", "preview"} \/ (screen = "generating" /\ agent.failed)
    /\ agent.asked < MaxAsked /\ (Patient => agent.flying = {})
    /\ SetScreen("generating")
    /\ agent' = [agent EXCEPT !.generating = TRUE, !.failed = FALSE, !.generated = 0, !.asked = @ + 1,
                              !.flying = @ \cup {agent.asked + 1}]
    /\ UNCHANGED <<running, work, check, operation, configuring, disk>>
StartInstallation ==
    /\ screen = "preview" /\ agent.generated # 0
    /\ SetScreen("adding") /\ agent' = [agent EXCEPT !.adding = TRUE] /\ Start(Plain("agent"))
    /\ UNCHANGED <<running, check, operation, configuring, disk>>

(* Enter on a screen that shows what was done.                             *)
EnterResult ==
    /\ screen \in {"result", "added"} \/ (screen = "installing" /\ ~running)
    /\ IF screen = "installing" THEN Quit ELSE SetScreen("welcome") /\ UNCHANGED work
    /\ UNCHANGED <<running, check, operation, configuring, agent, disk>>

-----------------------------------------------------------------------------
(* Esc, and q. *)

(* PreviousScreen, and the screens goBack treats by themselves.            *)
Backward ==
    [upgrade |-> "welcome", sync |-> "welcome", both |-> "welcome", config |-> "welcome", profiles |-> "welcome",
     delete |-> "profiles", save |-> "profiles", restore |-> "welcome", uninstall |-> "welcome",
     register |-> "welcome", remove |-> "welcome", tools |-> "welcome", result |-> "welcome",
     wizard |-> "welcome", installing |-> "wizard", describe |-> "welcome", generating |-> "describe",
     preview |-> "describe", added |-> "welcome"]

Esc ==
    /\ screen \notin {"welcome", "prompt", "tooling", "quit"} /\ ~busy
    /\ ~(screen = "installing" /\ running)
    /\ IF report = "self" THEN Quit /\ UNCHANGED <<overrides, configuring, agent>>
       ELSE /\ ~agent.adding
            /\ SetScreen(IF screen # "picker" THEN Backward[screen] ELSE IF configuring THEN "config" ELSE "wizard")
            /\ configuring' = (configuring /\ screen # "picker")
            /\ overrides' = IF screen = "sync" THEN None ELSE overrides
            /\ agent' = IF screen = "generating" THEN [agent EXCEPT !.failed = FALSE, !.generating = FALSE] ELSE agent
            /\ UNCHANGED work
    /\ UNCHANGED <<running, check, busy, report, synced, disk>>

(* q ends the program, and with it what runs.                              *)
PressQ ==
    /\ screen \notin {"describe", "quit"} /\ Quit
    /\ UNCHANGED <<running, check, operation, configuring, agent, disk>>

-----------------------------------------------------------------------------
(* Answers (Update). *)

Without(i) == SubSeq(work, 1, i - 1) \o SubSeq(work, i + 1, Len(work))

(* Init once more: what was found before the upgrade is of no use.         *)
Recheck == check' = [check EXCEPT !.flying = @ + 1, !.done = FALSE, !.updates = FALSE]

CheckResult ==
    /\ check.flying > 0
    /\ \E updates \in BOOLEAN :
         /\ check' = [flying |-> check.flying - 1, done |-> TRUE, updates |-> updates]
         /\ IF updates /\ screen = "welcome" THEN SetScreen("prompt") ELSE UNCHANGED <<screen, previous>>
    /\ UNCHANGED <<busy, running, work, report, overrides, synced, configuring, agent, disk>>

UpgradeDone(i) ==
    /\ work[i].job = "upgrade" /\ work' = Without(i)
    /\ \E result \in {"tools", "self"} :
         /\ binary' = IF result = "self" THEN "new" ELSE binary
         /\ IF screen \in {"upgrade", "prompt"} THEN busy' = FALSE /\ report' = result /\ Recheck
            ELSE UNCHANGED <<busy, report, check>>
    /\ UNCHANGED <<screen, previous, running, overrides, synced, configuring, agent, marked>>

(* The sync that follows an upgrade of gentle-ai itself is left to the new *)
(* binary, which finds the mark.                                           *)
UpgradePhaseCompleted(i) ==
    /\ work[i].job = "both"
    /\ \E result \in {"tools", "self"} :
         /\ binary' = IF result = "self" THEN "new" ELSE binary
         /\ work' = [work EXCEPT ![i] = IF result = "self" THEN Plain("mark") ELSE Sync(None)]
         /\ IF screen = "both" THEN report' = result /\ Recheck ELSE UNCHANGED <<report, check>>
    /\ UNCHANGED <<screen, previous, busy, running, overrides, synced, configuring, agent, marked>>

SyncDone(i) ==
    /\ work[i].job \in {"sync", "mark"} /\ work' = Without(i)
    /\ marked' = (marked \/ work[i].job = "mark")
    /\ IF screen \in {"sync", "both", "profiles"} THEN busy' = FALSE /\ synced' = TRUE /\ overrides' = None
       ELSE UNCHANGED <<busy, synced, overrides>>
    /\ UNCHANGED <<screen, previous, running, check, report, configuring, agent, binary>>

OneShotDone(i) ==
    /\ work[i].job \in OneShot /\ work' = Without(i)
    /\ IF screen = Running(work[i].job) THEN busy' = FALSE /\ SetScreen("result")
       ELSE UNCHANGED <<busy, screen, previous>>
    /\ UNCHANGED <<running, check, report, overrides, synced, configuring, agent, disk>>

PipelineDone(i) ==
    /\ work[i].job = "install" /\ work' = Without(i) /\ running' = FALSE
    /\ UNCHANGED <<screen, previous, check, operation, configuring, agent, disk>>

(* The agent's answers are taken on any screen.                            *)
Generated(n) ==
    /\ \E ok \in BOOLEAN :
         IF ~agent.generating THEN agent' = [agent EXCEPT !.flying = @ \ {n}] /\ UNCHANGED <<screen, previous>>
         ELSE IF ok THEN /\ agent' = [agent EXCEPT !.flying = @ \ {n}, !.generating = FALSE, !.generated = n]
                         /\ SetScreen("preview")
         ELSE /\ agent' = [agent EXCEPT !.flying = @ \ {n}, !.generating = FALSE, !.failed = TRUE]
              /\ UNCHANGED <<screen, previous>>
    /\ UNCHANGED <<running, work, check, operation, configuring, disk>>
InstallDone(i) ==
    /\ work[i].job = "agent" /\ work' = Without(i)
    /\ agent' = [agent EXCEPT !.adding = FALSE]
    /\ \E on \in {"preview", "added"} : SetScreen(on)
    /\ UNCHANGED <<running, check, operation, configuring, disk>>

Answer ==
    /\ screen # "quit"
    /\ \/ CheckResult
       \/ \E i \in DOMAIN work :
            UpgradeDone(i) \/ UpgradePhaseCompleted(i) \/ SyncDone(i) \/ OneShotDone(i) \/ PipelineDone(i) \/ InstallDone(i)
       \/ \E n \in agent.flying : Generated(n)

Next ==
    \/ Open \/ OpenPicker \/ ConfirmPicker \/ OpenProfile
    \/ UpdateNow \/ KeepVersion \/ EnterUpgrade \/ EnterSync \/ SyncProfile
    \/ Confirm \/ StartInstalling \/ Generate \/ StartInstallation \/ EnterResult
    \/ Esc \/ PressQ \/ Answer

Spec == Init /\ [][Next]_vars

-----------------------------------------------------------------------------
(* Properties. *)

Jobs == OneShot \cup {"upgrade", "both", "sync", "mark", "install", "agent"}

TypeOK ==
    /\ screen \in DOMAIN Backward \cup {"welcome", "prompt", "picker", "tooling", "adding", "quit"}
    /\ busy \in BOOLEAN /\ running \in BOOLEAN /\ synced \in BOOLEAN /\ configuring \in BOOLEAN
    /\ work \in Seq([job : Jobs, with : {None, "models", "profile"}])
    /\ check \in [flying : Nat, done : BOOLEAN, updates : BOOLEAN]
    /\ report \in {None, "tools", "self"} /\ overrides \in {None, "models", "profile"}
    /\ agent \in [generating : BOOLEAN, failed : BOOLEAN, asked : 0..MaxAsked, flying : SUBSET (1..MaxAsked),
                  generated : 0..MaxAsked, adding : BOOLEAN]
    /\ binary \in {"old", "new"} /\ marked \in BOOLEAN

(* The screens on which the answer of a job is taken.                      *)
AnsweredOn(job) ==
    CASE job = "upgrade" -> {"upgrade", "prompt"}
      [] job = "both" -> {"both"}
      [] job \in {"sync", "mark"} -> {"sync", "both"}
      [] job \in OneShot -> {Running(job)}
      [] job = "install" -> {"installing"}
      [] job = "agent" -> {"adding"}

(* One job at a time changes the files; its screen stays until it answers, *)
(* so no answer is dropped; and nobody waits for a job that is not there.  *)
Attended ==
    screen # "quit" =>
        /\ Len(work) <= 1
        /\ \A i \in DOMAIN work : screen \in AnsweredOn(work[i].job)
        /\ (busy \/ running \/ agent.adding) <=> work # <<>>

(* A check is in flight exactly if its result is awaited, and never beside *)
(* an upgrade, of which it would see one half.                             *)
OneCheck ==
    /\ check.flying = (IF check.done THEN 0 ELSE 1)
    /\ \A i \in DOMAIN work : work[i].job \in {"upgrade", "both"} => check.flying = 0

(* The models a sync sets are those of the screen the user came from, and  *)
(* a picker opened by the wizard leads to no sync.                         *)
OverridesAsked ==
    /\ screen = "sync" /\ ~synced =>
           overrides = (CASE previous = "picker" -> "models" [] previous = "save" -> "profile" [] OTHER -> None)
    /\ screen \notin {"sync", "quit"} => overrides = None
    /\ configuring => screen \in {"picker", "quit"}

(* Once gentle-ai is replaced, the old binary starts nothing; a sync that  *)
(* was to follow is marked for the new one, unless the user quits.         *)
OldBinaryRests ==
    binary = "new" =>
        /\ \A i \in DOMAIN work : work[i].job = "mark"
        /\ screen \in {"upgrade", "both", "quit"}
        /\ screen = "both" /\ ~busy => marked

(* The agent shown and installed is of the latest request.                 *)
GeneratedAsAsked ==
    /\ agent.generated # 0 => agent.generated = agent.asked
    /\ screen = "preview" => agent.generated # 0
=============================================================================
