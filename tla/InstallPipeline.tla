---------------------------- MODULE InstallPipeline ----------------------------
(***************************************************************************)
(* Install and sync as a pipeline (internal/pipeline, the stage plans of   *)
(* internal/cli/run.go and sync.go): a snapshot of the files the plan will *)
(* write, then the steps in order; when one fails, the steps that have     *)
(* succeeded and know how are rolled back in reverse order, the restore of *)
(* the snapshot last, as its step was the first.  The CLI stops at the     *)
(* first error, the terminal UI goes on with the rest of the plan.         *)
(***************************************************************************)
EXTENDS Naturals, Sequences

CONSTANTS
    Managed,     \* files that components, guidance and CodeGraph write
    Fresh,       \* whether a run may install a package Pi did not have yet
    Plugins,     \* whether OpenCode plugins may be selected
    MaxRuns, MaxFaults

VARIABLES
    disk,        \* which files hold what the program writes
    owned,       \* the files in the manifest of the Pi integration
    pkg,         \* whether Pi has the package whose child gets an overlay
    saved,       \* the selection in state.json: none, tool (CodeGraph), plain
    run,         \* the command under way, or how the last one ended
    runs, faults

bounds == <<runs, faults>>
vars == <<disk, owned, pkg, saved, run, bounds>>

PiFiles == {"piMCP", "child", "overlay"}
Files == Managed \cup PiFiles \cup {"tui.json"}
Ends == {"idle", "done", "failed", "refused", "unverified"}

None == [cmd |-> "none", tool |-> FALSE, plan |-> <<>>, at |-> "idle", results |-> <<>>, left |-> 0,
         disk |-> {}, owned |-> {}, covered |-> {}, before |-> {}, errors |-> {}]

Init ==
    /\ disk = {} /\ owned = {} /\ pkg \in BOOLEAN /\ saved = "none"
    /\ run = None /\ runs = 0 /\ faults = 0

Fault == faults < MaxFaults /\ faults' = faults + 1
NoFault == UNCHANGED faults

(* stagePlan of install and of sync.                                       *)
Plan(cmd, tool, plugin) ==
    IF cmd = "sync"
    THEN <<"restore", "component", "guidance">> \o (IF tool THEN <<"refresh", "pi-sync">> ELSE <<>>)
    ELSE <<"restore", "agent">> \o (IF plugin THEN <<"plugin">> ELSE <<>>)
         \o (IF tool THEN <<"tool">> ELSE <<>>) \o <<"component", "guidance", "pi">>

(* What DiscoverCodeGraphChildren finds.                                   *)
Discovered == {"child"} \cup {f \in {"overlay"} : pkg \/ f \in disk}

(* Mutated: the files of the Pi integration are not in the snapshot. *)
Targets_NoPi == Managed

(* backupTargets, syncBackupTargets, with PiCodeGraphPaths.                *)
Targets == Managed \cup {"piMCP"} \cup owned \cup Discovered

-----------------------------------------------------------------------------
(* The steps *)

(* prepareBackupStep, checkDependenciesStep: a failure ends the run.       *)
Prepare(cmd, tool, plugin) ==
    /\ run.at \in Ends /\ runs < MaxRuns /\ runs' = runs + 1
    /\ cmd = "sync" => ~plugin /\ (saved # "none" => (tool <=> saved = "tool"))
    /\ LET new == [None EXCEPT !.cmd = cmd, !.tool = tool, !.plan = Plan(cmd, tool, plugin),
                     !.disk = disk, !.owned = owned, !.covered = Targets] IN
       \/ run' = [new EXCEPT !.at = "apply"] /\ NoFault
       \/ run' = [new EXCEPT !.at = "refused"] /\ Fault
    /\ UNCHANGED <<disk, owned, pkg, saved>>

Step == run.plan[Len(run.results) + 1]
At(step) == run.at = "apply" /\ Step = step

Succeeded(results) == \A i \in DOMAIN results : results[i] = "ok"

Policy == IF run.cmd = "tui" THEN "continue" ELSE "stop"

(* Runner.Run and Orchestrator.Execute after one step.                     *)
After(result) ==
    LET results == Append(run.results, result) IN
    [run EXCEPT !.results = results,
       !.left = Len(results),
       !.at = IF result = "failed" /\ Policy = "stop" THEN "rollback"
              ELSE IF Len(results) < Len(run.plan) THEN "apply"
              ELSE IF Succeeded(results) THEN "verify" ELSE "rollback"]

Ok == run' = After("ok") /\ NoFault
Failed == run' = After("failed") /\ Fault
Marker == At("restore") /\ Ok /\ UNCHANGED <<disk, owned, pkg>>

(* agentInstallStep: packages of Pi are installed whenever it is selected. *)
InstallAgent ==
    /\ At("agent")
    /\ pkg' \in {pkg, pkg \/ Fresh} /\ UNCHANGED <<disk, owned>>
    /\ Ok \/ Failed

InstallPlugin ==
    /\ At("plugin")
    /\ \/ Ok /\ disk' = disk \cup {"tui.json"}
       \/ Failed /\ UNCHANGED disk
    /\ UNCHANGED <<owned, pkg>>

(* componentApplyStep, componentSyncStep, agentRoutingGuidanceStep.        *)
Configure ==
    /\ At("component") \/ At("guidance")
    /\ \/ Ok /\ disk' = disk \cup Managed
       \/ Failed /\ \E some \in SUBSET Managed : disk' = disk \cup some
    /\ UNCHANGED <<owned, pkg>>

PiReconciled == disk' = disk \cup {"piMCP"} \cup Discovered /\ owned' = owned \cup {"piMCP"} \cup Discovered
PiSame == UNCHANGED <<disk, owned>>

(* InstallWithHome: Pi is reconciled in the middle, and what undoes a      *)
(* failure, that of the validation at the end included, knows only the     *)
(* files of the other agents.                                              *)
InstallTool ==
    /\ At("tool")
    /\ \/ Ok /\ disk' = disk \cup Managed \cup {"piMCP"} \cup Discovered
             /\ owned' = owned \cup {"piMCP"} \cup Discovered
       \/ Failed /\ PiSame
       \/ Failed /\ PiReconciled
    /\ UNCHANGED pkg

(* codeGraphGuidanceSyncStep: what fails restores its own before-image.    *)
RefreshGuidance ==
    /\ At("refresh")
    /\ \/ /\ run' = [After("ok") EXCEPT !.before = disk \cap Managed] /\ NoFault
          /\ disk' = disk \cup Managed
       \/ Failed /\ UNCHANGED disk
    /\ UNCHANGED <<owned, pkg>>

(* piCodeGraphSyncStep: only an integration that is there is refreshed.    *)
SyncPi ==
    /\ At("pi-sync")
    /\ \/ Ok /\ (IF owned = {} THEN PiSame ELSE PiReconciled)
       \/ Failed /\ PiSame
    /\ UNCHANGED pkg

(* UninstallPiCodeGraph: every owned file as it was before the integration.*)
PiUninstalled == disk' = disk \ owned /\ owned' = {}

(* piCodeGraphReconcileStep: deselected, it is an uninstall.               *)
ReconcilePi ==
    /\ At("pi")
    /\ \/ Ok /\ (IF run.tool THEN PiReconciled ELSE PiUninstalled)
       \/ Failed /\ PiSame
    /\ UNCHANGED pkg

Apply ==
    /\ \/ Marker \/ InstallAgent \/ InstallPlugin \/ Configure \/ InstallTool
       \/ RefreshGuidance \/ SyncPi \/ ReconcilePi
    /\ UNCHANGED <<saved, runs>>

-----------------------------------------------------------------------------
(* Rollback *)

RollbackSteps == {"restore", "refresh", "pi"}

(* What ExecuteRollback has not come to yet: succeeded, and a RollbackStep.*)
ToUndo == {i \in 1..run.left : run.results[i] = "ok" /\ run.plan[i] \in RollbackSteps}

LastDone == CHOOSE i \in ToUndo : \A j \in ToUndo : j <= i
Undoing == run.plan[LastDone]

Undone(result) ==
    [run EXCEPT !.errors = IF result = "failed" THEN @ \cup {Undoing} ELSE @,
                !.left = LastDone - 1]

Undo(step) == run.at = "rollback" /\ ToUndo # {} /\ Undoing = step
UndoOk == run' = Undone("ok") /\ NoFault
UndoFailed == run' = Undone("failed") /\ Fault

(* rollbackRestoreStep.Rollback: the restore stops at its first error.     *)
RestoreSnapshot ==
    LET back(some) == disk' = (disk \ some) \cup (run.disk \cap some) IN
    /\ Undo("restore")
    /\ \/ UndoOk /\ back(run.covered) /\ owned' = run.owned
       \/ UndoFailed /\ (\E some \in SUBSET run.covered : back(some)) /\ owned' \in {owned, run.owned}

UndoGuidance ==
    /\ Undo("refresh") /\ UNCHANGED owned
    /\ \/ UndoOk /\ disk' = (disk \ Managed) \cup run.before
       \/ UndoFailed /\ \E some \in SUBSET Managed : disk' = (disk \ some) \cup (run.before \cap some)

UndoPi ==
    /\ Undo("pi")
    /\ \/ UndoOk /\ PiUninstalled
       \/ UndoFailed /\ PiSame

Rollback == (RestoreSnapshot \/ UndoGuidance \/ UndoPi) /\ UNCHANGED <<pkg, saved, runs>>

RolledBackAll ==
    /\ run.at = "rollback" /\ ToUndo = {}
    /\ run' = [run EXCEPT !.at = "failed"]
    /\ UNCHANGED <<disk, owned, pkg, saved, bounds>>

(* After the pipeline: the CLI verifies first, then the selection is saved.*)
(* A sync saves it only when the state had none.                           *)
Finish ==
    /\ run.at = "verify"
    /\ \/ /\ run' = [run EXCEPT !.at = "done"] /\ NoFault
          /\ IF run.cmd = "sync" THEN UNCHANGED saved ELSE saved' = IF run.tool THEN "tool" ELSE "plain"
       \/ run.cmd # "tui" /\ run' = [run EXCEPT !.at = "unverified"] /\ Fault /\ UNCHANGED saved
    /\ UNCHANGED <<disk, owned, pkg, runs>>

Next ==
    \/ \E cmd \in {"install", "tui", "sync"}, tool \in BOOLEAN, plugin \in {FALSE, Plugins} :
         Prepare(cmd, tool, plugin)
    \/ Apply \/ Rollback \/ RolledBackAll \/ Finish

Spec == Init /\ [][Next]_vars

-----------------------------------------------------------------------------
(* Properties *)

(* The state is well formed, and the manifest owns only files that hold    *)
(* the integration, between two commands, unless a rollback has failed     *)
(* (reconcile, restore and uninstall keep the two in step).                *)
TypeOK ==
    /\ disk \subseteq Files /\ owned \subseteq PiFiles /\ pkg \in BOOLEAN
    /\ saved \in {"none", "tool", "plain"} /\ runs \in 0..MaxRuns /\ faults \in 0..MaxFaults
    /\ run.at \in Ends \cup {"apply", "rollback", "verify"}
    /\ run.errors \subseteq RollbackSteps /\ Len(run.results) <= Len(run.plan)
    /\ run.at \in Ends /\ run.errors = {} /\ run.owned \subseteq run.disk => owned \subseteq disk

(* A command whose rollback reports no error leaves the files as it found  *)
(* them (RollbackStep, the snapshot of the plan's files).                  *)
RolledBack == run.at = "failed" /\ run.errors = {} => disk = run.disk /\ owned = run.owned

(* When the snapshot could be restored its files are back, whatever else   *)
(* went wrong in the rollback (ExecuteRollback goes on past errors).       *)
CoveredRestored ==
    run.at = "failed" /\ "restore" \notin run.errors =>
        disk \cap run.covered = run.disk \cap run.covered /\ owned = run.owned

(* The selection that later syncs follow is saved only by a command all of *)
(* whose steps have succeeded (RunInstall, tuiExecute).                    *)
SavesSuccess ==
    saved' # saved =>
        /\ \A i \in DOMAIN run.plan : run.results[i] = "ok"
        /\ Managed \subseteq disk /\ (saved' = "tool" <=> owned # {})
SavedAfterSuccess == [][SavesSuccess]_vars
=============================================================================
