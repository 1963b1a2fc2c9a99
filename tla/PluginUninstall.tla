-------------------------- MODULE PluginUninstall --------------------------
(***************************************************************************)
(* Uninstalling an OpenCode community plugin beside a user, or a second    *)
(* tool, who edits the same files.  Layer by layer the uninstaller takes   *)
(* the plugin out of tui.json and package.json through a mutation journal  *)
(* and renames its two directories to staging paths; when a layer fails it *)
(* rolls back, when none does it removes what is staged.  Every step is    *)
(* one file system call, and everything but a read may fail.               *)
(***************************************************************************)
EXTENDS MutationJournal, Naturals, Sequences

CONSTANTS
    Layers,         \* sequence of layers, files by name, directories in Dirs
    Dirs,
    Deleted,        \* files the plugin owns, removed whole
    MaxEdits,       \* bound: edits by somebody else
    MaxFails,       \* bound: failing file system calls
    LateSyncFails,  \* whether the directory sync after a rename may fail
    RacyEdits       \* whether an edit may fall between a check and its write

VARIABLES
    file,       \* content of every file
    editor,     \* who changed a file last since it was captured
    original, staged, pending,   \* directories in place, staged, reported as pending
    journal,
    pc, layer,  \* where the uninstaller is, and in which layer
    plan,       \* the content to write
    todo,       \* files still to be restored, or staged directories to be removed
    trouble,    \* whether a restoration failed
    edits, fails

vars == <<file, editor, original, staged, pending, journal, pc, layer, plan, todo, trouble, edits, fails>>
disk == <<file, editor, original, staged, pending>>
rest == <<edits, trouble>>

Files == {Layers[i] : i \in DOMAIN Layers} \ Dirs

(* Whether the plugin is named in the file, and the revision somebody else *)
(* gave the rest of it.                                                    *)
Contents == [listed : BOOLEAN, rev : 0..MaxEdits] \cup {Absent}

Current == Layers[layer]

(* The outcomes: done, nothing begun, everything rolled back, and state    *)
(* that needs manual recovery.                                             *)
Ended == {"done", "refused", "rolledback", "manual"}

(* A file is named by the check that was just made and the write to come. *)
InWindow(f) == pc \in {"replace", "rewrite"} /\ (IF pc = "replace" THEN Current ELSE plan.path) = f

-----------------------------------------------------------------------------

Fail == fails < MaxFails /\ fails' = fails + 1

(* The next layer, or the commit when there is none.                       *)
NextLayer ==
    IF layer = Len(Layers)
    THEN pc' = "clean" /\ todo' = staged /\ UNCHANGED layer
    ELSE /\ layer' = layer + 1
         /\ pc' = IF Layers[layer + 1] \in Dirs THEN "stage" ELSE "capture"
         /\ UNCHANGED todo

Rollback == pc' = "unstage" /\ todo' = staged /\ UNCHANGED layer

(* Only the first layer fails without a rollback: nothing is done yet.     *)
CaptureFile ==
    /\ pc = "capture"
    /\ \/ /\ journal' = Capture(journal, Current, file[Current])
          /\ editor' = [editor EXCEPT ![Current] = "nobody"]
          /\ pc' = IF Current \in Deleted THEN "verify" ELSE "read"
          /\ plan' = Absent
          /\ UNCHANGED <<todo, layer, fails>>
       \/ /\ Fail
          /\ IF layer = 1 THEN pc' = "refused" /\ UNCHANGED <<todo, layer>> ELSE Rollback
          /\ UNCHANGED <<journal, editor, plan>>
    /\ UNCHANGED <<file, original, staged, pending, rest>>

(* The new content comes from a second read; a file that does not name the *)
(* plugin is left alone.                                                   *)
ReadFile ==
    /\ pc = "read"
    /\ IF file[Current] # Absent /\ file[Current].listed
       THEN /\ plan' = [file[Current] EXCEPT !.listed = FALSE]
            /\ pc' = "verify" /\ UNCHANGED <<layer, todo>>
       ELSE NextLayer /\ UNCHANGED plan
    /\ UNCHANGED <<disk, journal, rest, fails>>

(* verifyCurrent: the file is still what was captured.  Only a removal has *)
(* nothing to do when there was no file.                                   *)
Verify ==
    /\ pc = "verify"
    /\ IF Current \in Deleted /\ Before(journal, Current) = Absent THEN NextLayer
       ELSE IF file[Current] = Before(journal, Current)
       THEN pc' = "replace" /\ UNCHANGED <<layer, todo>>
       ELSE Rollback
    /\ UNCHANGED <<disk, journal, plan, rest, fails>>

(* The rename, or the removal.  A content that is already there is not     *)
(* written again.                                                          *)
Replace ==
    /\ pc = "replace"
    /\ \/ /\ file' = [file EXCEPT ![Current] = plan]
          /\ editor' = IF file[Current] = plan THEN editor ELSE [editor EXCEPT ![Current] = "us"]
          /\ pc' = "record" /\ UNCHANGED <<layer, todo, fails>>
       \/ Fail /\ Rollback /\ UNCHANGED <<file, editor>>
    /\ UNCHANGED <<original, staged, pending, journal, plan, rest>>

(* The write counts once its directory is synced, too. *)
Record ==
    /\ pc = "record"
    /\ \/ journal' = Recorded(journal, Current, plan) /\ NextLayer /\ UNCHANGED fails
       \/ LateSyncFails /\ plan # Absent /\ Fail /\ Rollback /\ UNCHANGED journal
    /\ UNCHANGED <<disk, plan, rest>>

Stage ==
    /\ pc = "stage"
    /\ \/ Current \notin original /\ NextLayer /\ UNCHANGED <<original, staged, fails>>
       \/ /\ Current \in original
          /\ original' = original \ {Current} /\ staged' = staged \cup {Current}
          /\ IF layer = Len(Layers)
             THEN pc' = "clean" /\ todo' = staged' /\ UNCHANGED layer
             ELSE layer' = layer + 1 /\ pc' = "stage" /\ UNCHANGED todo
          /\ UNCHANGED fails
       \/ Fail /\ Rollback /\ UNCHANGED <<original, staged>>
    /\ UNCHANGED <<file, editor, pending, journal, plan, rest>>

(* Everything is done; what cannot be removed is reported. *)
Clean ==
    /\ pc = "clean"
    /\ IF todo = {} THEN pc' = "done" /\ UNCHANGED <<staged, pending, todo, fails>>
       ELSE \E d \in todo :
            /\ todo' = todo \ {d} /\ pc' = pc
            /\ \/ staged' = staged \ {d} /\ UNCHANGED <<pending, fails>>
               \/ Fail /\ pending' = pending \cup {d} /\ UNCHANGED staged
    /\ UNCHANGED <<file, editor, original, journal, layer, plan, rest>>

(* A directory goes back unless its place was taken meanwhile. *)
Unstage ==
    /\ pc = "unstage"
    /\ IF todo = {}
       THEN /\ pc' = "restore" /\ todo' = ToRestore(journal)
            /\ UNCHANGED <<original, staged, trouble, fails>>
       ELSE \E d \in todo :
            /\ todo' = todo \ {d} /\ pc' = pc
            /\ \/ /\ d \notin original
                  /\ original' = original \cup {d} /\ staged' = staged \ {d}
                  /\ UNCHANGED <<trouble, fails>>
               \/ /\ d \in original \/ fails < MaxFails
                  /\ fails' = IF d \in original THEN fails ELSE fails + 1
                  /\ trouble' = TRUE /\ UNCHANGED <<original, staged>>
    /\ UNCHANGED <<file, editor, pending, journal, layer, plan, edits>>

Restore ==
    /\ pc = "restore"
    /\ IF todo = {}
       THEN pc' = (IF trouble THEN "manual" ELSE "rolledback") /\ UNCHANGED <<todo, plan, trouble>>
       ELSE \E f \in todo :
            /\ todo' = todo \ {f}
            /\ IF Restorable(journal, f, file[f])
               THEN pc' = "rewrite" /\ plan' = [path |-> f] /\ UNCHANGED trouble
               ELSE trouble' = TRUE /\ UNCHANGED <<pc, plan>>
    /\ UNCHANGED <<disk, journal, layer, edits, fails>>

Rewrite ==
    LET f == plan.path IN
    /\ pc = "rewrite" /\ pc' = "restore"
    /\ \/ /\ file' = [file EXCEPT ![f] = Before(journal, f)]
          /\ editor' = [editor EXCEPT ![f] = IF file[f] = Before(journal, f) THEN @ ELSE "us"]
          /\ \/ UNCHANGED <<trouble, fails>>
             \/ LateSyncFails /\ Before(journal, f) # Absent /\ Fail /\ trouble' = TRUE
       \/ Fail /\ trouble' = TRUE /\ UNCHANGED <<file, editor>>
    /\ UNCHANGED <<original, staged, pending, journal, layer, plan, todo, edits>>

-----------------------------------------------------------------------------
(* Somebody else: edits or deletes a file, reinstalls the plugin.  An edit *)
(* that brings back what the journal knows is no edit to it.               *)

Editor(f, content) ==
    CASE f \in DOMAIN journal /\ ~journal[f].changed /\ content = Before(journal, f) -> "nobody"
      [] f \in DOMAIN journal /\ journal[f].changed /\ content = journal[f].after -> "us"
      [] OTHER -> "other"

Edit(f) ==
    /\ pc \notin Ended /\ edits < MaxEdits /\ (RacyEdits \/ ~InWindow(f))
    /\ \/ \E l \in BOOLEAN : file' = [file EXCEPT ![f] = [listed |-> l, rev |-> edits + 1]]
       \/ file[f] # Absent /\ file' = [file EXCEPT ![f] = Absent]
    /\ editor' = [editor EXCEPT ![f] = Editor(f, file'[f])]
    /\ edits' = edits + 1
    /\ UNCHANGED <<original, staged, pending, journal, pc, layer, plan, todo, trouble, fails>>

MakeDir(d) ==
    /\ pc \notin Ended /\ edits < MaxEdits /\ d \notin original
    /\ original' = original \cup {d} /\ edits' = edits + 1
    /\ UNCHANGED <<file, editor, staged, pending, journal, pc, layer, plan, todo, trouble, fails>>

-----------------------------------------------------------------------------

Init ==
    /\ file \in [Files -> {[listed |-> TRUE, rev |-> 0], [listed |-> FALSE, rev |-> 0], Absent}]
    /\ editor = [f \in Files |-> "nobody"]
    /\ original \in SUBSET Dirs /\ staged = {} /\ pending = {}
    /\ journal = EmptyJournal
    /\ pc = "capture" /\ layer = 1 /\ plan = Absent /\ todo = {} /\ trouble = FALSE
    /\ edits = 0 /\ fails = 0

Uninstall ==
    \/ CaptureFile \/ ReadFile \/ Verify \/ Replace \/ Record \/ Stage
    \/ Clean \/ Unstage \/ Restore \/ Rewrite

Next == Uninstall \/ (\E f \in Files : Edit(f)) \/ (\E d \in Dirs : MakeDir(d))

Spec == Init /\ [][Next]_vars

-----------------------------------------------------------------------------
(* Properties *)

(* Types of all variables. *)
TypeOK ==
    /\ file \in [Files -> Contents] /\ editor \in [Files -> {"nobody", "us", "other"}]
    /\ original \subseteq Dirs /\ staged \subseteq Dirs /\ pending \subseteq staged
    /\ DOMAIN journal \subseteq Files
    /\ \A f \in DOMAIN journal : journal[f].data \in Contents /\ journal[f].after \in Contents
    /\ layer \in DOMAIN Layers /\ todo \subseteq Files \cup Dirs /\ trouble \in BOOLEAN
    /\ edits \in 0..MaxEdits /\ fails \in 0..MaxFails

(* "Result flags are cleared only when every restoration succeeds"         *)
(* (rollbackUninstall): when the uninstaller reports that it rolled back,  *)
(* every file has its before-image or what somebody else wrote since, and  *)
(* nothing is left in staging.                                             *)
RollbackRestores ==
    pc = "rolledback" =>
        /\ staged = {}
        /\ \A f \in DOMAIN journal : file[f] = Before(journal, f) \/ editor[f] = "other"

(* "preserving concurrent edits" (Journal.Remove and Restore): neither a   *)
(* write nor a restoration overwrites what somebody else wrote after the   *)
(* file was captured.                                                      *)
KeepsEdits == edits' = edits => \A f \in Files : editor[f] = "other" => file'[f] = file[f]
EditsSurvive == [][KeepsEdits]_vars

(* A finished uninstall leaves the plugin in no file but those somebody    *)
(* else wrote since, and no staged directory it does not report.           *)
DoneIsGone ==
    pc = "done" =>
        /\ staged = pending
        /\ \A f \in Files : file[f] = Absent \/ ~file[f].listed \/ editor[f] = "other"

=============================================================================
