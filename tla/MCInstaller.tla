------------------------------ MODULE MCInstaller ------------------------------
(***************************************************************************)
(* The components that change the user's files, the screens and the order  *)
(* that lead to an installation and the backups of what it changes,        *)
(* for TLC: a behaviour is one of a component under one set of bounds,     *)
(* which part names.  The variables that only other components have keep   *)
(* the value Off.                                                          *)
(***************************************************************************)
EXTENDS Naturals, FiniteSets

CONSTANTS Off, Refused, Absent, MCP, o1, u1, w1, Special, NoSum, r1, s1, f1, f2, Nothing

VARIABLES part,
    file, editor, original, staged, pending, journal, pc, layer, plan, todo, trouble, fails,
    disk, pkg, run, runs,
    manifest, mine, edited, settled, texts, crashes,
    owned, saved,
    world, backups, proc, list, uses,
    graph, wanted, pairs, resolved,
    flow, alone, sel, picker, chosen, summary,
    previous, busy, work, check, report, overrides, synced, configuring, agent, binary, marked,
    screen, running, \* of the two before
    edits, faults       \* shared

(* A component in the setting k, a record of values for its constants.     *)
Uninstall(k) == INSTANCE PluginUninstall WITH Layers <- k.Layers, Dirs <- k.Dirs, Deleted <- k.Deleted,
    MaxEdits <- k.MaxEdits, MaxFails <- k.MaxFails, LateSyncFails <- k.LateSyncFails, RacyEdits <- k.RacyEdits
Integration(k) == INSTANCE PiCodeGraph WITH Overlays <- k.Overlays, Users <- k.Users, Projects <- k.Projects,
    Reworks <- k.Reworks, Bodies <- k.Bodies, MaxText <- k.MaxText, MaxRuns <- k.MaxRuns,
    MaxFaults <- k.MaxFaults, MaxCrashes <- k.MaxCrashes
Pipeline(k) == INSTANCE InstallPipeline WITH Managed <- k.Managed, Fresh <- k.Fresh, Plugins <- k.Plugins,
    MaxRuns <- k.MaxRuns, MaxFaults <- k.MaxFaults
Backups(k) == INSTANCE BackupStore WITH Runs <- k.Runs, Kinds <- k.Kinds, Screens <- k.Screens, Files <- k.Files,
    Worlds <- k.Worlds, Keep <- k.Keep, MaxBackups <- k.MaxBackups, MaxEdits <- k.MaxEdits,
    MaxFaults <- k.MaxFaults, MaxUses <- k.MaxUses, Overlap <- k.Overlap, CheckFails <- k.CheckFails
Wizard(k) == INSTANCE InstallWizard WITH Agents <- k.Agents, Personas <- k.Personas, Skills <- k.Skills,
    Walked <- k.Walked, Reconsiders <- k.Reconsiders, None <- Nothing, plan <- chosen
Jobs(k) == INSTANCE TerminalJobs WITH Patient <- k.Patient, MaxAsked <- k.MaxAsked, None <- Nothing

(* An OpenCode plugin with a package in two directories; the logo, with an *)
(* edit between a check and its write; and a plugin whose writes land and  *)
(* report a failure.                                                       *)
Npm == [Layers |-> <<"tui", "pkg", "modules", "cache">>, Dirs |-> {"modules", "cache"}, Deleted |-> {},
        MaxEdits |-> 2, MaxFails |-> 2, LateSyncFails |-> FALSE, RacyEdits |-> FALSE]
Logo == [Layers |-> <<"tui", "tsx">>, Dirs |-> {}, Deleted |-> {"tsx"},
         MaxEdits |-> 3, MaxFails |-> 2, LateSyncFails |-> FALSE, RacyEdits |-> TRUE]
Late == [Npm EXCEPT !.Layers = <<"tui", "pkg", "modules">>, !.Dirs = {"modules"}, !.LateSyncFails = TRUE]

Child(class, guide) == [text |-> 0, class |-> class, tool |-> FALSE, guide |-> guide]

(* An overlay and a child of the user, of any kind, with edits that drop   *)
(* the managed blocks, so that they are written again; and with a project, *)
(* a crash and a restore that meets errors.                                *)
Pi == [Overlays |-> {o1}, Users |-> {u1}, Projects |-> {}, Reworks |-> TRUE,
       Bodies |-> {Child("bash", FALSE), Child("plain", FALSE), Child("malformed", FALSE), Child("bash", TRUE)},
       MaxText |-> 2, MaxRuns |-> 4, MaxFaults |-> 1, MaxCrashes |-> 0]
Break == [Overlays |-> {o1}, Users |-> {}, Projects |-> {w1}, Reworks |-> TRUE, Bodies |-> {Child("bash", FALSE)},
          MaxText |-> 1, MaxRuns |-> 3, MaxFaults |-> 1, MaxCrashes |-> 1]

(* Commands over files the snapshot knows; and with plugins and packages.  *)
Known == [Managed |-> {"prompt", "settings"}, Fresh |-> FALSE, Plugins |-> FALSE, MaxRuns |-> 2, MaxFaults |-> 3]
Any == [Known EXCEPT !.Fresh = TRUE, !.Plugins = TRUE]

(* Backups of runs that install, with a failing call; of more of them, so  *)
(* that a backup may go that the screen still shows; and of runs that      *)
(* install and upgrade, where the comparison may fail, too.  One of the    *)
(* files is missing at the start.                                          *)
Quiet == [Runs |-> {r1}, Kinds |-> {"install"}, Screens |-> {s1}, Files |-> {f1, f2},
          Worlds |-> {[f \in {f1, f2} |-> IF f = f1 THEN Absent ELSE 0]},
          Keep |-> 1, MaxBackups |-> 3, MaxEdits |-> 1, MaxFaults |-> 1, MaxUses |-> 4, Overlap |-> FALSE,
          CheckFails |-> FALSE]
Stale == [Quiet EXCEPT !.MaxBackups = 4, !.MaxFaults = 0, !.MaxUses = 6]
Mixed == [Quiet EXCEPT !.Kinds = {"install", "upgrade"}, !.MaxBackups = 4, !.CheckFails = TRUE]

(* Every graph of three components, with cycles and unknown dependencies,  *)
(* and every one of four with two dependencies each at most.  Those of     *)
(* MVPGraph that depend on anything, with persona, are one of these:       *)
(* engram, persona, sdd and skills are 1 to 4, and the soft pairs are      *)
(* <<2, 1>> and <<2, 3>>.                                                  *)
FewOf(s, n) == {t \in SUBSET s : Cardinality(t) <= n}
Order == INSTANCE Planner WITH
    Graphs <- UNION {[known -> SUBSET (1..3)] : known \in SUBSET (1..3)}
              \cup {g \in [1..4 -> FewOf(1..4, 2)] : \A c \in 1..4 : c \notin g[c]},
    Selections <- SUBSET (1..3) \cup {1..4},
    Softs <- {<<>>, <<<<2, 1>>, <<2, 3>>>>, <<<<3, 2>>, <<3, 1>>>>, <<<<4, 1>>, <<4, 2>>>>, <<<<4, 1>>, <<3, 2>>>>}

(* The screens of an installation, for the agents that have screens of     *)
(* their own; running out of them, pi alone is one more way through.  The  *)
(* first user may pick another preset after the skills.                    *)
Models == [Agents |-> {"claude", "kiro", "codex"}, Personas |-> {"gentleman"}, Skills |-> {"k1"},
           Walked |-> {"full", "minimal"}, Reconsiders |-> TRUE]
Code == [Models EXCEPT !.Agents = {"claude", "opencode"}, !.Reconsiders = FALSE]
Alone == [Models EXCEPT !.Agents = {"codex", "pi"}, !.Personas = {"gentleman", "custom"}, !.Reconsiders = FALSE]

(* The jobs the screens start, for a user who asks for an agent only when  *)
(* none is being generated, not even a cancelled one, and for any user.    *)
Terminal == [Patient |-> TRUE, MaxAsked |-> 2]
Hasty == [Patient |-> FALSE, MaxAsked |-> 2]

uninstall == <<file, editor, original, staged, pending, journal, pc, layer, plan, todo, trouble, fails>>
both == <<disk, pkg, run, runs>>
integration == <<manifest, mine, edited, settled, texts, crashes>>
pipeline == <<owned, saved>>
home == <<world, backups, proc, list, uses>>
order == <<graph, wanted, pairs, resolved>>
wizard == <<flow, alone, sel, picker, chosen, summary>>
jobs == <<previous, busy, work, check, report, overrides, synced, configuring, agent, binary, marked>>
screens == <<screen, running, wizard, jobs>>
installing == <<uninstall, both, integration, pipeline, home, edits, faults>>

NoUninstall ==
    /\ file = Off /\ editor = Off /\ original = Off /\ staged = Off /\ pending = Off /\ journal = Off
    /\ pc = Off /\ layer = Off /\ plan = Off /\ todo = Off /\ trouble = Off /\ fails = Off
NoBoth == disk = Off /\ pkg = Off /\ run = Off /\ runs = Off
NoIntegration ==
    manifest = Off /\ mine = Off /\ edited = Off /\ settled = Off /\ texts = Off /\ crashes = Off
NoPipeline == owned = Off /\ saved = Off
NoHome == world = Off /\ backups = Off /\ proc = Off /\ list = Off /\ uses = Off
NoOrder == graph = Off /\ wanted = Off /\ pairs = Off /\ resolved = Off
NoWizard == flow = Off /\ alone = Off /\ sel = Off /\ picker = Off /\ chosen = Off /\ summary = Off
NoJobs ==
    /\ previous = Off /\ busy = Off /\ work = Off /\ check = Off /\ report = Off /\ overrides = Off
    /\ synced = Off /\ configuring = Off /\ agent = Off /\ binary = Off /\ marked = Off
NoScreens == NoWizard /\ NoJobs /\ screen = Off /\ running = Off
NoInstalling == NoUninstall /\ NoBoth /\ NoIntegration /\ NoPipeline /\ NoHome /\ edits = Off /\ faults = Off

InitPart ==
    \/ part = "npm" /\ Uninstall(Npm)!Init /\ NoBoth /\ NoIntegration /\ NoPipeline /\ NoHome /\ faults = Off
    \/ part = "logo" /\ Uninstall(Logo)!Init /\ NoBoth /\ NoIntegration /\ NoPipeline /\ NoHome /\ faults = Off
    \/ part = "late" /\ Uninstall(Late)!Init /\ NoBoth /\ NoIntegration /\ NoPipeline /\ NoHome /\ faults = Off
    \/ part = "pi" /\ Integration(Pi)!Init /\ NoUninstall /\ NoPipeline /\ NoHome /\ edits = Off
    \/ part = "break" /\ Integration(Break)!Init /\ NoUninstall /\ NoPipeline /\ NoHome /\ edits = Off
    \/ part = "known" /\ Pipeline(Known)!Init /\ NoUninstall /\ NoIntegration /\ NoHome /\ edits = Off
    \/ part = "any" /\ Pipeline(Any)!Init /\ NoUninstall /\ NoIntegration /\ NoHome /\ edits = Off
    \/ part = "quiet" /\ Backups(Quiet)!Init /\ NoUninstall /\ NoBoth /\ NoIntegration /\ NoPipeline
    \/ part = "stale" /\ Backups(Stale)!Init /\ NoUninstall /\ NoBoth /\ NoIntegration /\ NoPipeline
    \/ part = "mixed" /\ Backups(Mixed)!Init /\ NoUninstall /\ NoBoth /\ NoIntegration /\ NoPipeline

InitScreens ==
    \/ part = "models" /\ Wizard(Models)!Init /\ NoJobs
    \/ part = "code" /\ Wizard(Code)!Init /\ NoJobs
    \/ part = "alone" /\ Wizard(Alone)!Init /\ NoJobs
    \/ part = "jobs" /\ Jobs(Terminal)!Init /\ NoWizard
    \/ part = "hasty" /\ Jobs(Hasty)!Init /\ NoWizard

Init ==
    \/ InitPart /\ NoOrder /\ NoScreens
    \/ part = "order" /\ Order!Init /\ NoInstalling /\ NoScreens
    \/ InitScreens /\ NoInstalling /\ NoOrder

NextPart ==
    \/ part = "npm" /\ Uninstall(Npm)!Next /\ UNCHANGED <<both, integration, pipeline, home, faults>>
    \/ part = "logo" /\ Uninstall(Logo)!Next /\ UNCHANGED <<both, integration, pipeline, home, faults>>
    \/ part = "late" /\ Uninstall(Late)!Next /\ UNCHANGED <<both, integration, pipeline, home, faults>>
    \/ part = "pi" /\ Integration(Pi)!Next /\ UNCHANGED <<uninstall, pipeline, home, edits>>
    \/ part = "break" /\ Integration(Break)!Next /\ UNCHANGED <<uninstall, pipeline, home, edits>>
    \/ part = "known" /\ Pipeline(Known)!Next /\ UNCHANGED <<uninstall, integration, home, edits>>
    \/ part = "any" /\ Pipeline(Any)!Next /\ UNCHANGED <<uninstall, integration, home, edits>>
    \/ part = "quiet" /\ Backups(Quiet)!Next /\ UNCHANGED <<uninstall, both, integration, pipeline>>
    \/ part = "stale" /\ Backups(Stale)!Next /\ UNCHANGED <<uninstall, both, integration, pipeline>>
    \/ part = "mixed" /\ Backups(Mixed)!Next /\ UNCHANGED <<uninstall, both, integration, pipeline>>

NextScreens ==
    \/ part = "models" /\ Wizard(Models)!Next /\ UNCHANGED jobs
    \/ part = "code" /\ Wizard(Code)!Next /\ UNCHANGED jobs
    \/ part = "alone" /\ Wizard(Alone)!Next /\ UNCHANGED jobs
    \/ part = "jobs" /\ Jobs(Terminal)!Next /\ UNCHANGED wizard
    \/ part = "hasty" /\ Jobs(Hasty)!Next /\ UNCHANGED wizard

Next ==
    /\ UNCHANGED part
    /\ \/ NextPart /\ UNCHANGED <<order, screens>>
       \/ part = "order" /\ Order!Next /\ UNCHANGED <<installing, screens>>
       \/ NextScreens /\ UNCHANGED <<installing, order>>

vars == <<part, installing, order, screens>>

Spec == Init /\ [][Next]_vars

-----------------------------------------------------------------------------
(* Properties: those of the components, by name, gathered in an invariant of
   each component and what the steps of all of them keep. *)

(* PluginUninstall: an uninstall is what it reports, done or, unless a     *)
(* write may land and report a failure, rolled back.                       *)
UninstallSound ==
    /\ part = "npm" => Uninstall(Npm)!TypeOK /\ Uninstall(Npm)!DoneIsGone /\ Uninstall(Npm)!RollbackRestores
    /\ part = "logo" => Uninstall(Logo)!DoneIsGone /\ Uninstall(Logo)!RollbackRestores
    /\ part = "late" => Uninstall(Late)!DoneIsGone

(* PiCodeGraph: a file is the user's own again, or reported as edited by   *)
(* the user, unless a crash or a failed restore has parted the files from  *)
(* the manifest; a failure has a cause and leaves no trace.                *)
IntegrationSound ==
    /\ part = "pi" => Integration(Pi)!TypeOK /\ Integration(Pi)!RestoredExactly /\ Integration(Pi)!FailsForCause
                      /\ Integration(Pi)!DriftIsEdited /\ Integration(Pi)!FailureRestores
    /\ part = "break" => Integration(Break)!FailureRestores
    /\ part = "break" /\ crashes = 0 => Integration(Break)!RestoredExactly /\ Integration(Break)!DriftIsEdited

(* InstallPipeline: a rollback puts back all it reports, and in any case   *)
(* what the snapshot holds.                                                *)
PipelineSound ==
    /\ part = "known" => Pipeline(Known)!TypeOK /\ Pipeline(Known)!RolledBack
    /\ part = "any" => Pipeline(Any)!CoveredRestored

(* No step overwrites an edit of somebody else, reconciles twice with two  *)
(* results, or saves the selection of a command of which a step failed;    *)
(* and going back leads to the screen one came from.                       *)
InstallerSteps ==
    [][ /\ part = "npm" => Uninstall(Npm)!KeepsEdits
        /\ part = "late" => Uninstall(Late)!KeepsEdits
        /\ part = "break" => Integration(Break)!ChangesNothingAgain
        /\ part = "any" => Pipeline(Any)!SavesSuccess
        /\ part = "models" => Wizard(Models)!Returns
        /\ part = "code" => Wizard(Code)!Returns
        /\ part = "alone" => Wizard(Alone)!Returns ]_vars

(* BackupStore: two backups in a row differ, and a rollback reported as    *)
(* done is done.                                                           *)
BackupsSound ==
    /\ part = "quiet" => Backups(Quiet)!TypeOK /\ Backups(Quiet)!NoTwins
    /\ part = "stale" => Backups(Stale)!NoTwins
    /\ part = "mixed" => Backups(Mixed)!RolledBack

(* Planner: a selection is refused exactly if it has no order, and a plan  *)
(* has the dependencies first and the soft pairs in order.                 *)
PlanSound ==
    part = "order" => Order!RefusedForCause /\ Order!DependenciesFirst /\ Order!PairsHold

(* InstallWizard: what is installed is what the user has picked last, the  *)
(* skills, too, unless another preset may be picked after them; and the    *)
(* two ways back are one.  TerminalJobs: one job at a time, which the user *)
(* waits for, with the models asked for last, none by a binary that has    *)
(* been replaced; and the agent asked for last, if the user waits for it.  *)
ScreensSound ==
    /\ part = "models" => Wizard(Models)!TypeOK /\ Wizard(Models)!PlanIsCurrent /\ Wizard(Models)!EscIsBack
                          /\ Wizard(Models)!NoDeadEnd
    /\ part = "code" => Wizard(Code)!TypeOK /\ Wizard(Code)!PlanIsCurrent /\ Wizard(Code)!SkillsAsChosen
                        /\ Wizard(Code)!EscIsBack /\ Wizard(Code)!NoDeadEnd
    /\ part = "alone" => Wizard(Alone)!TypeOK /\ Wizard(Alone)!PlanIsCurrent /\ Wizard(Alone)!SkillsAsChosen
                         /\ Wizard(Alone)!EscIsBack /\ Wizard(Alone)!NoDeadEnd
    /\ part = "jobs" => Jobs(Terminal)!TypeOK /\ Jobs(Terminal)!GeneratedAsAsked
    /\ part = "hasty" => Jobs(Hasty)!TypeOK
    /\ part \in {"jobs", "hasty"} => Jobs(Hasty)!Attended /\ Jobs(Hasty)!OneCheck /\ Jobs(Hasty)!OverridesAsked
                                    /\ Jobs(Hasty)!OldBinaryRests
=============================================================================
