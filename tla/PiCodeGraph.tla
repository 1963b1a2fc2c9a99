------------------------------ MODULE PiCodeGraph ------------------------------
(***************************************************************************)
(* The CodeGraph integration of Pi (internal/components/communitytool/     *)
(* pi_codegraph.go): an entry in Pi's MCP configuration and marked blocks  *)
(* in the child agents, those of packages in an overlay, those of the user *)
(* and of the project in place.  A manifest keeps what every file held     *)
(* before and what was written; install and sync reconcile, deselection    *)
(* and uninstall undo.  A journal in memory takes back a failed operation. *)
(***************************************************************************)
EXTENDS Naturals, FiniteSets, Functions, TLC

CONSTANTS
    Overlays,    \* targets of the children that packages own
    Users,       \* children in Pi's agent directory
    Projects,    \* children in a workspace
    MCP,         \* Pi's MCP configuration
    Bodies,      \* what a user's child may hold at the start
    Reworks,     \* whether an edit may drop the managed blocks or change the tools
    MaxText, MaxRuns, MaxFaults, MaxCrashes

VARIABLES
    disk,        \* the content of every file
    pkg,         \* the child as the package has it
    manifest,    \* what was there before and what was written; None
    run,         \* the operation under way
    mine,        \* what is the user's of every file
    edited,      \* the files edited since there is a manifest
    settled,     \* where a reconcile has seen every child since the last change
    texts, runs, faults, crashes

bounds == <<texts, runs, faults, crashes>>
history == <<mine, edited, settled>>
vars == <<disk, pkg, manifest, run, history, bounds>>

Children == Overlays \cup Users \cup Projects
Paths == Children \cup {MCP}

(* A file: its text, what its tools allow, and the managed blocks it has.  *)
(* For the MCP configuration guide stands for the CodeGraph entry.         *)
Classes == {"absent", "bash", "plain", "malformed", "config", "conflict"}
Content == [text : Nat, class : Classes, tool : BOOLEAN, guide : BOOLEAN]
Body(text, class) == [text |-> text, class |-> class, tool |-> FALSE, guide |-> FALSE]
NoBody == Body(0, "absent")

NoManifest == [there |-> FALSE, owned |-> <<>>]
Idle == [at |-> "idle", op |-> "none", workspace |-> FALSE, owned |-> <<>>, journal |-> <<>>,
         todo |-> {}, drift |-> {}, misconfigured |-> FALSE, skipped |-> FALSE, joined |-> FALSE,
         settled |-> {}, start |-> <<>>]

Init ==
    /\ disk \in [Paths -> {NoBody} \cup Bodies \cup {Body(0, "config"), Body(0, "conflict")}]
    /\ disk[MCP].class \in {"absent", "config", "conflict"}
    /\ \A t \in Children : disk[t].class \notin {"config", "conflict"}
    /\ \A t \in Overlays : disk[t] = NoBody
    /\ pkg \in [Overlays -> {NoBody, Body(0, "bash")}]
    /\ manifest = NoManifest /\ run = Idle
    /\ mine = disk /\ edited = {} /\ settled = {}
    /\ texts = 0 /\ runs = 0 /\ faults = 0 /\ crashes = 0

Fault == faults < MaxFaults /\ faults' = faults + 1
At(at) == run.at = at

(* validate: the agent directory and the workspace of this run.            *)
Allowed(t) == t \notin Projects \/ run.workspace

(* journal.write: the first content is kept; only paths below the roots.   *)
Kept(journal, t) == IF t \in DOMAIN journal THEN journal ELSE journal @@ (t :> disk[t])

Journaled(t, content) == Kept(run.journal, t)

Write(t, content) == disk' = [disk EXCEPT ![t] = content] /\ UNCHANGED history
Same == UNCHANGED <<disk, history>>
Fail == run' = [run EXCEPT !.at = "restore"] /\ Same

-----------------------------------------------------------------------------
(* Reconcile *)

Start(op, workspace) ==
    /\ At("idle") /\ runs < MaxRuns /\ runs' = runs + 1
    /\ op = "refresh" => manifest.there
    /\ run' = [Idle EXCEPT !.op = op, !.workspace = workspace /\ op # "uninstall", !.owned = manifest.owned,
                           !.start = disk, !.settled = settled,
                           !.at = IF op = "uninstall" THEN "capture" ELSE "mcp"]
    /\ UNCHANGED <<disk, pkg, manifest, history, texts, faults, crashes>>

(* reconcilePiMCP: an entry that is there is left as it is.                *)
ReconcileMCP ==
    LET after == [disk[MCP] EXCEPT !.class = "config", !.guide = TRUE] IN
    /\ At("mcp")
    /\ \/ /\ disk[MCP].class = "conflict"
          /\ run' = [run EXCEPT !.at = "restore", !.misconfigured = TRUE]
          /\ Same /\ UNCHANGED faults
       \/ /\ disk[MCP].class # "conflict" /\ disk[MCP].guide
          /\ run' = [run EXCEPT !.at = "missing"]
          /\ Same /\ UNCHANGED faults
       \/ /\ disk[MCP].class # "conflict" /\ ~disk[MCP].guide
          /\ Write(MCP, after)
          /\ run' = [run EXCEPT !.at = "missing", !.journal = Journaled(MCP, after),
               !.owned = (MCP :> [before |-> disk[MCP], after |-> after]) @@ @]
          /\ UNCHANGED faults
       \/ Fault /\ Fail
    /\ UNCHANGED <<pkg, manifest, texts, runs, crashes>>

(* DiscoverCodeGraphChildren: an overlay shadows the package's child.      *)
Packaged(t) == t \in Overlays /\ disk[t] = NoBody
Discovered == {t \in Children : IF Packaged(t) THEN pkg[t] # NoBody ELSE disk[t] # NoBody /\ Allowed(t)}

(* restoreMissingPiChildren, in the order of the paths.                    *)
Missing == {t \in DOMAIN run.owned \ {MCP} : disk[t] = NoBody}
RestoreMissing ==
    /\ At("missing")
    /\ IF Missing = {}
       THEN /\ run' = [run EXCEPT !.at = "children", !.todo = Discovered]
            /\ Same /\ UNCHANGED faults
       ELSE \E t \in Missing :
            \/ /\ Allowed(t)
               /\ Write(t, run.owned[t].after)
               /\ run' = [run EXCEPT !.journal = Journaled(t, run.owned[t].after)]
               /\ UNCHANGED faults
            \/ ~Allowed(t) /\ Fail /\ UNCHANGED faults
            \/ Fault /\ Fail
    /\ UNCHANGED <<pkg, manifest, texts, runs, crashes>>

Compatible(body) == body.class = "bash"
Misconfigured(body) == body.class = "malformed" \/ (~Compatible(body) /\ body.tool)
Marked(body) == body.guide /\ (~Compatible(body) \/ body.tool)

Rendered(body) == IF Marked(body) THEN body ELSE [body EXCEPT !.tool = Compatible(body), !.guide = TRUE]

(* Mutated: the hash of what was there, not of what was written. *)
Entry_OldHash(t, after) ==
    IF t \in DOMAIN run.owned THEN run.owned
    ELSE run.owned @@ (t :> [before |-> disk[t], after |-> [disk[t] EXCEPT !.guide = TRUE]])

(* A child that the manifest has already keeps its entry.                  *)
Entry(t, after) ==
    IF t \in DOMAIN run.owned THEN run.owned
    ELSE run.owned @@ (t :> [before |-> disk[t], after |-> after])

(* A child that cannot be read is reported as unavailable and left out.    *)
ReconcileChild(t) ==
    LET body == IF Packaged(t) THEN pkg[t] ELSE disk[t]
        after == Rendered(body) IN
    /\ At("children") /\ t \in run.todo
    /\ \/ /\ Misconfigured(body)
          /\ run' = [run EXCEPT !.todo = @ \ {t}, !.misconfigured = TRUE]
          /\ Same /\ UNCHANGED faults
       \/ /\ ~Misconfigured(body) /\ after = disk[t]
          /\ run' = [run EXCEPT !.todo = @ \ {t}, !.owned = Entry(t, after), !.journal = Kept(@, t)]
          /\ Same /\ UNCHANGED faults
       \/ /\ ~Misconfigured(body) /\ after # disk[t]
          /\ Write(t, after)
          /\ run' = [run EXCEPT !.todo = @ \ {t}, !.owned = Entry(t, after), !.journal = Journaled(t, after)]
          /\ UNCHANGED faults
       \/ Fault /\ run' = [run EXCEPT !.todo = @ \ {t}, !.skipped = TRUE] /\ Same
       \/ Fault /\ Fail
    /\ UNCHANGED <<pkg, manifest, texts, runs, crashes>>

(* verifyPiCodeGraph: the probe may fail, too.                             *)
Verify ==
    /\ At("children") /\ run.todo = {}
    /\ \/ run.misconfigured /\ Fail /\ UNCHANGED faults
       \/ /\ ~run.misconfigured /\ UNCHANGED faults /\ Same
          /\ run' = [run EXCEPT !.at = "commit"]
       \/ Fault /\ Fail
    /\ UNCHANGED <<pkg, manifest, texts, runs, crashes>>

Commit ==
    /\ At("commit")
    /\ \/ /\ manifest' = [there |-> TRUE, owned |-> run.owned]
          /\ run' = [run EXCEPT !.at = "done"] /\ settled' = IF run.skipped THEN {} ELSE {run.workspace}
          /\ UNCHANGED <<disk, mine, edited, faults>>
       \/ Fault /\ Fail /\ UNCHANGED manifest
    /\ UNCHANGED <<pkg, texts, runs, crashes>>

-----------------------------------------------------------------------------
(* Uninstall *)

Capture ==
    LET owned == IF manifest.there THEN DOMAIN manifest.owned ELSE {} IN
    /\ At("capture")
    /\ \/ /\ ~manifest.there /\ run' = [run EXCEPT !.at = "done"] /\ UNCHANGED faults
       \/ /\ manifest.there /\ \A t \in owned : Allowed(t)
          /\ run' = [run EXCEPT !.at = "undo", !.todo = owned, !.journal = [t \in owned |-> disk[t]]]
          /\ UNCHANGED faults
       \/ /\ manifest.there /\ \E t \in owned : ~Allowed(t)
          /\ run' = [run EXCEPT !.at = "restore"] /\ UNCHANGED faults
       \/ Fault /\ run' = [run EXCEPT !.at = "restore"]
    /\ Same /\ UNCHANGED <<pkg, manifest, texts, runs, crashes>>

Drifted(t) == disk[t] # run.owned[t].after

(* restorePiOwnedFile, the children before the MCP configuration.          *)
Undo(t) ==
    /\ At("undo") /\ t \in run.todo /\ (t = MCP => run.todo = {MCP})
    /\ \/ /\ disk[t] = NoBody
          /\ run' = [run EXCEPT !.todo = @ \ {t}]
          /\ Same /\ UNCHANGED faults
       \/ /\ disk[t] # NoBody /\ Drifted(t)
          /\ run' = [run EXCEPT !.todo = @ \ {t}, !.drift = @ \cup {t}]
          /\ Same /\ UNCHANGED faults
       \/ /\ disk[t] # NoBody /\ ~Drifted(t)
          /\ Write(t, run.owned[t].before)
          /\ run' = [run EXCEPT !.todo = @ \ {t}]
          /\ UNCHANGED faults
       \/ Fault /\ Fail
    /\ UNCHANGED <<pkg, manifest, texts, runs, crashes>>

RemoveManifest ==
    /\ At("undo") /\ run.todo = {}
    /\ \/ /\ manifest' = NoManifest /\ run' = [run EXCEPT !.at = "done"]
          /\ settled' = {} /\ UNCHANGED <<disk, mine, edited, faults>>
       \/ Fault /\ Fail /\ UNCHANGED manifest
    /\ UNCHANGED <<pkg, texts, runs, crashes>>

-----------------------------------------------------------------------------
(* journal.restore goes on past what fails, and joins the errors.          *)
Break == crashes < MaxCrashes /\ crashes' = crashes + 1

Restore ==
    /\ At("restore")
    /\ IF run.journal = <<>>
       THEN run' = [run EXCEPT !.at = "failed"] /\ Same /\ UNCHANGED crashes
       ELSE \E t \in DOMAIN run.journal :
            \/ /\ disk' = [disk EXCEPT ![t] = run.journal[t]]
               /\ run' = [run EXCEPT !.journal = Restrict(@, DOMAIN @ \ {t})]
               /\ UNCHANGED <<history, crashes>>
            \/ /\ Break /\ Same
               /\ run' = [run EXCEPT !.journal = Restrict(@, DOMAIN @ \ {t}), !.joined = TRUE]
    /\ UNCHANGED <<pkg, manifest, texts, runs, faults>>

(* What an uninstall reports as drifted is the user's from then on.        *)
End ==
    /\ run.at \in {"done", "failed"} /\ run' = Idle
    /\ settled' = IF run.at = "done" THEN settled ELSE {}
    /\ mine' = [t \in Paths |-> IF run.at = "done" /\ t \in run.drift THEN disk[t] ELSE mine[t]]
    /\ edited' = IF manifest.there THEN edited ELSE {}
    /\ UNCHANGED <<disk, pkg, manifest, bounds>>

Crash ==
    /\ run.at \notin {"idle", "done", "failed"} /\ Break /\ run' = Idle /\ settled' = {}
    /\ UNCHANGED <<disk, pkg, manifest, mine, edited, texts, runs, faults>>

(* The user writes a file of their own; the blocks stay, or go.            *)
Edit(t) ==
    /\ At("idle") /\ texts < MaxText /\ texts' = texts + 1
    /\ \E class \in {disk[t].class, "plain", "bash"}, keep \in BOOLEAN :
          /\ disk[t].class # "absent" /\ (t = MCP => class = disk[t].class)
          /\ Reworks \/ (keep /\ class = disk[t].class)
          /\ disk' = [disk EXCEPT ![t] = [text |-> texts + 1, class |-> class,
                                          tool |-> keep /\ @.tool, guide |-> keep /\ @.guide]]
    /\ mine' = [mine EXCEPT ![t] = disk'[t]] /\ settled' = {}
    /\ edited' = IF manifest.there THEN edited \cup {t} ELSE edited
    /\ UNCHANGED <<pkg, manifest, run, runs, faults, crashes>>

(* A refresh of Pi's packages changes a child or takes away an overlay     *)
(* that the user never edited; a project is deleted.                       *)
Refresh(t) ==
    /\ At("idle") /\ texts < MaxText /\ texts' = texts + 1 /\ settled' = {}
    /\ \/ t \in Overlays /\ pkg' = [pkg EXCEPT ![t] = Body(texts + 1, "bash")] /\ UNCHANGED <<disk, mine>>
       \/ /\ t \in Overlays \cup Projects /\ (t \in Overlays => mine[t] = NoBody)
          /\ disk[t] # NoBody /\ UNCHANGED pkg
          /\ disk' = [disk EXCEPT ![t] = NoBody] /\ mine' = [mine EXCEPT ![t] = NoBody]
    /\ UNCHANGED <<manifest, run, edited, runs, faults, crashes>>

Ops == {"reconcile", "refresh", "uninstall"}
Next ==
    \/ \E op \in Ops, workspace \in BOOLEAN : Start(op, workspace)
    \/ ReconcileMCP \/ RestoreMissing \/ Verify \/ Commit
    \/ Capture \/ RemoveManifest \/ Restore \/ End \/ Crash
    \/ \E t \in Paths : ReconcileChild(t) \/ Undo(t) \/ Edit(t) \/ Refresh(t)

Spec == Init /\ [][Next]_vars

-----------------------------------------------------------------------------
(* Properties *)

TypeOK ==
    /\ disk \in [Paths -> Content] /\ mine \in [Paths -> Content]
    /\ edited \subseteq Paths
    /\ \A t \in DOMAIN manifest.owned : manifest.owned[t].after.guide
    /\ manifest.owned # <<>> => manifest.there

(* An operation that fails, and whose restore met no error, has changed    *)
(* nothing (ReconcilePiCodeGraph, UninstallPiCodeGraph, piJournal.restore).*)
FailureRestores == At("failed") /\ ~run.joined => disk = run.start

(* After an uninstall every file it did not report as drifted is what the  *)
(* user wrote last, or an earlier uninstall left to the user               *)
(* (piCodeGraphOwnedFile, UninstallPiCodeGraph).                           *)
RestoredExactly ==
    At("done") /\ run.op = "uninstall" => \A t \in Paths \ run.drift : disk[t] = mine[t]

(* Reconciling again, with nothing changed in between, changes nothing     *)
(* (ReconcilePiCodeGraph).                                                 *)
ChangesNothingAgain ==
    run.workspace \in run.settled /\ At("commit") /\ run'.at = "done" =>
        disk = run.start /\ manifest' = manifest
Idempotent == [][ChangesNothingAgain]_vars

(* An operation fails only because something else does, or for a child or  *)
(* an entry the user has to repair.                                        *)
FailsForCause == At("failed") => run.misconfigured \/ faults > 0

(* What an uninstall reports as drifted somebody has edited since the      *)
(* manifest was made: no write of the program's own is taken for an edit   *)
(* (UninstallPiCodeGraph).                                                 *)
DriftIsEdited == At("done") => run.drift \subseteq edited
=============================================================================
