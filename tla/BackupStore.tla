------------------------------ MODULE BackupStore ------------------------------
(***************************************************************************)
(* The backup directory (internal/backup) and those who use it: install,   *)
(* sync and upgrade take a snapshot before they change configuration       *)
(* files, leave it out when the newest one holds the same, and prune old   *)
(* ones; install and sync roll back from their snapshot; a user pins,      *)
(* renames, deletes and restores what the screen lists.  Nothing locks     *)
(* the directory.  A backup is its archive and its manifest, two files.    *)
(***************************************************************************)
EXTENDS Naturals, Sequences, FiniteSets, Functions, FiniteSetsExt

CONSTANTS
    Runs, Kinds,      \* processes, and what they run: "install" (sync, too), "upgrade"
    Screens,          \* processes that show the list of backups
    Files,
    Absent, Special,  \* no file; a directory, socket or other special file
    NoSum,            \* the empty checksum
    Worlds,           \* the files there may be at the start
    Keep,             \* unpinned backups that pruning keeps
    MaxBackups, MaxEdits, MaxFaults, MaxUses,
    Overlap,          \* whether two processes may be under way at once
    CheckFails        \* whether the comparison with the newest backup may fail

VARIABLES
    world,     \* the content of every file
    backups,   \* the backup directories, in the order they were begun
    proc,      \* what every process is doing
    list,      \* the manifests a screen has loaded
    edits, faults, uses

vars == <<world, backups, proc, list, edits, faults, uses>>
bounds == <<edits, faults, uses>>

Procs == Runs \cup Screens
Contents == (0..MaxEdits + 1) \cup {Absent, Special}
Managed == MaxEdits + 1     \* what the program writes into a file
Snapshots == UNION {[S -> Nat] : S \in SUBSET Files}

(* What a manifest says of its backup. *)
NoManifest == [state |-> "none", pinned |-> FALSE, named |-> FALSE, sum |-> NoSum, existed |-> {}]
Gone == [dir |-> FALSE, archive |-> FALSE, files |-> <<>>, manifest |-> NoManifest]
Idle == [at |-> "idle", kind |-> "none", own |-> 0, copied |-> FALSE, files |-> <<>>,
         existed |-> {}, todo |-> {}, victims |-> {}, start |-> <<>>]

Regular(w) == Restrict(w, {f \in Files : w[f] \notin {Absent, Special}})

(* listManifests: directories whose manifest can be decoded. *)
Readable == {i \in DOMAIN backups : backups[i].dir /\ backups[i].manifest.state = "ok"}
Pinned(i) == backups[i].manifest.pinned

Init ==
    /\ world \in Worlds
    /\ backups = <<>>
    /\ proc = [p \in Procs |-> Idle]
    /\ list = [s \in Screens |-> <<>>]
    /\ edits = 0 /\ faults = 0 /\ uses = 0

Fault == faults < MaxFaults /\ faults' = faults + 1
Quiet == \A p \in Procs : proc[p].at = "idle"
May(p) == proc[p].at = "idle" /\ uses < MaxUses /\ (Overlap \/ Quiet)
To(p, at) == proc' = [proc EXCEPT ![p].at = at]

-----------------------------------------------------------------------------
(* A run's snapshot *)

(* ComputeChecksum and IsDuplicate; the upgrade does not ask.              *)

(* Mutated: the oldest backup is compared. *)
Duplicate_OfOldest ==
    LET sum == Regular(world) IN
    DOMAIN sum # {} /\ Readable # {} /\ backups[Min(Readable)].manifest.sum = sum

Duplicate ==
    LET sum == Regular(world) IN
    DOMAIN sum # {} /\ Readable # {} /\ backups[Max(Readable)].manifest.sum = sum

(* When it cannot be told, the snapshot is taken.                          *)
Begin(p, kind) ==
    /\ May(p) /\ Len(backups) < MaxBackups
    /\ \E at \in {"copy", "create"} :
          /\ proc' = [proc EXCEPT ![p] = [Idle EXCEPT !.kind = kind, !.start = world, !.at = at]]
          /\ \/ (at = "copy" <=> kind = "install" /\ Duplicate) /\ UNCHANGED faults
             \/ CheckFails /\ at = "create" /\ kind = "install" /\ Fault
    /\ uses' = uses + 1
    /\ UNCHANGED <<world, backups, list, edits>>

(* The files are those of the newest backup: only a private snapshot, for  *)
(* the rollback.                                                           *)
Copy(p) ==
    /\ proc[p].at = "copy"
    /\ \/ /\ proc' = [proc EXCEPT ![p].at = "apply", ![p].copied = TRUE,
                        ![p].files = Regular(world), ![p].existed = DOMAIN Regular(world)]
          /\ UNCHANGED faults
       \/ Fault /\ proc' = [proc EXCEPT ![p] = Idle]
    /\ UNCHANGED <<world, backups, list, edits, uses>>

(* Create: the directory, the archive when there is a regular file.  What  *)
(* fails leaves the directory behind; the install ends, the upgrade goes   *)
(* on and prunes.                                                          *)
Create(p) ==
    /\ proc[p].at = "create"
    /\ \/ /\ backups' = Append(backups, [Gone EXCEPT !.dir = TRUE, !.files = Regular(world),
                                           !.archive = DOMAIN Regular(world) # {}])
          /\ proc' = [proc EXCEPT ![p].at = "seal", ![p].own = Len(backups) + 1,
                        ![p].existed = DOMAIN Regular(world)]
          /\ UNCHANGED faults
       \/ /\ Fault
          /\ backups' = Append(backups, [Gone EXCEPT !.dir = TRUE])
          /\ proc' = [proc EXCEPT ![p] = IF @.kind = "install" THEN Idle ELSE [@ EXCEPT !.at = "list"]]
    /\ UNCHANGED <<world, list, edits, uses>>

(* The files that were archived are read again for the checksum, and the   *)
(* manifest is written.                                                    *)
Seal(p) ==
    LET r == proc[p] IN
    /\ r.at = "seal"
    /\ backups' = [backups EXCEPT ![r.own].dir = TRUE, ![r.own].manifest =
                     [NoManifest EXCEPT !.state = "ok", !.existed = r.existed,
                                        !.sum = Restrict(world, r.existed)]]
    /\ To(p, "annotate")
    /\ UNCHANGED <<world, list, bounds>>

(* The manifest is written again, with who made it.  An error is logged.   *)
Annotate(p) ==
    LET own == proc[p].own IN
    /\ proc[p].at = "annotate"
    /\ \/ /\ backups' = [backups EXCEPT ![own].dir = TRUE, ![own].manifest.state = "ok",
                                        ![own].manifest.pinned = FALSE, ![own].manifest.named = TRUE]
          /\ UNCHANGED faults
       \/ /\ Fault     \* the file is truncated before it is written
          /\ backups' = [backups EXCEPT ![own].manifest.state = "torn"]
    /\ To(p, "list")
    /\ UNCHANGED <<world, list, edits, uses>>

(* Prune reads the manifests and picks the unpinned ones beyond the newest *)
(* Keep ...                                                                *)
Excess(S) == {i \in S : Cardinality({j \in S : j > i}) >= Keep}

Victims == Excess({i \in Readable : ~Pinned(i)})

ListManifests(p) ==
    /\ proc[p].at = "list"
    /\ proc' = [proc EXCEPT ![p].at = "prune", ![p].victims = Victims]
    /\ UNCHANGED <<world, backups, list, bounds>>

(* ... and removes their directories, the newest of them first; one that   *)
(* cannot be removed is logged.                                            *)
Prune(p) ==
    LET V == proc[p].victims IN
    /\ proc[p].at = "prune"
    /\ IF V = {}
       THEN /\ proc' = [proc EXCEPT ![p] = IF @.kind = "install" THEN [@ EXCEPT !.at = "apply"] ELSE Idle]
            /\ UNCHANGED <<backups, faults>>
       ELSE /\ proc' = [proc EXCEPT ![p].victims = V \ {Max(V)}]
            /\ \/ backups' = [backups EXCEPT ![Max(V)] = Gone] /\ UNCHANGED faults
               \/ Fault /\ UNCHANGED backups
    /\ UNCHANGED <<world, list, edits, uses>>

-----------------------------------------------------------------------------
(* Apply and roll back *)

Apply(p) ==
    /\ proc[p].at = "apply"
    /\ \E S \in SUBSET {f \in Files : world[f] # Special} :
          world' = [f \in Files |-> IF f \in S THEN Managed ELSE world[f]]
    /\ \E at \in {"idle", "extract"} : proc' = [proc EXCEPT ![p] =
          IF at = "idle" THEN Idle ELSE [@ EXCEPT !.at = at]]
    /\ UNCHANGED <<backups, list, bounds>>

(* restoreCompressed unpacks the whole archive first.                      *)
Extract(p) ==
    LET r == proc[p] IN
    /\ r.at = "extract"
    /\ IF r.copied \/ r.existed = {}
       THEN proc' = [proc EXCEPT ![p].at = "restore", ![p].todo = Files]
       ELSE IF backups[r.own].archive
       THEN proc' = [proc EXCEPT ![p].at = "restore", ![p].todo = Files, ![p].files = backups[r.own].files]
       ELSE To(p, "failed")
    /\ UNCHANGED <<world, backups, list, bounds>>

(* The entry of a file there was none of, or none that is regular, asks    *)
(* for its removal.                                                        *)
Restored(p, f) == IF f \in proc[p].existed THEN proc[p].files[f] ELSE Absent

(* The first entry that fails ends the restore.  A directory with content  *)
(* cannot be removed.                                                      *)
Restore(p) ==
    /\ proc[p].at = "restore"
    /\ IF proc[p].todo = {} THEN To(p, "restored") /\ UNCHANGED <<world, faults>>
       ELSE \E f \in proc[p].todo :
            \/ /\ world' = [world EXCEPT ![f] = Restored(p, f)]
               /\ proc' = [proc EXCEPT ![p].todo = @ \ {f}]
               /\ UNCHANGED faults
            \/ /\ world[f] = Special /\ To(p, "failed") /\ UNCHANGED <<world, faults>>
            \/ Fault /\ To(p, "failed") /\ UNCHANGED world
    /\ UNCHANGED <<backups, list, edits, uses>>

End(p) ==
    /\ proc[p].at \in {"restored", "failed"}
    /\ proc' = [proc EXCEPT ![p] = Idle]
    /\ list' = IF p \in Screens THEN [list EXCEPT ![p] = Restrict([i \in DOMAIN backups |-> backups[i].manifest], Readable)]
               ELSE list
    /\ UNCHANGED <<world, backups, bounds>>

-----------------------------------------------------------------------------
(* The screen.  It loads the list when it starts and after each of its     *)
(* operations on backups; an operation writes the manifest it has loaded.  *)

Listed == Restrict([i \in DOMAIN backups |-> backups[i].manifest], Readable)

Open(s) ==
    /\ May(s)
    /\ list' = [list EXCEPT ![s] = Listed] /\ list' # list
    /\ UNCHANGED <<world, backups, proc, bounds>>

(* WriteManifest makes the directory again if it is gone.                  *)
Rewrite(s, i, m) ==
    /\ May(s) /\ i \in DOMAIN list[s]
    /\ backups' = [backups EXCEPT ![i].dir = TRUE, ![i].manifest = m]
    /\ list' = [list EXCEPT ![s] = Listed']
    /\ uses' = uses + 1
    /\ UNCHANGED <<world, proc, edits, faults>>

TogglePin(s, i) == Rewrite(s, i, [list[s][i] EXCEPT !.pinned = ~@])
Rename(s, i) == Rewrite(s, i, [list[s][i] EXCEPT !.named = ~@])

DeleteBackup(s, i) ==
    /\ May(s) /\ i \in DOMAIN list[s]
    /\ backups' = [backups EXCEPT ![i] = Gone]
    /\ list' = [list EXCEPT ![s] = Restrict(Listed, Readable \ {i})]
    /\ uses' = uses + 1
    /\ UNCHANGED <<world, proc, edits, faults>>

RestoreBackup(s, i) ==
    /\ May(s) /\ i \in DOMAIN list[s]
    /\ proc' = [proc EXCEPT ![s] = [Idle EXCEPT !.at = "extract", !.own = i,
                                     !.existed = list[s][i].existed, !.start = world]]
    /\ uses' = uses + 1
    /\ UNCHANGED <<world, backups, list, edits, faults>>

(* The user, or another program, edits a file.                             *)
Edit(f) ==
    /\ edits < MaxEdits /\ (Overlap \/ Quiet)
    /\ world' = [world EXCEPT ![f] = edits + 1] /\ world[f] # Special
    /\ edits' = edits + 1
    /\ UNCHANGED <<backups, proc, list, faults, uses>>

Crash(p) ==
    /\ proc[p].at \notin {"idle", "restored", "failed"} /\ Fault
    /\ proc' = [proc EXCEPT ![p] = Idle]
    /\ UNCHANGED <<world, backups, list, edits, uses>>

RunStep(p) ==
    \/ \E kind \in Kinds : Begin(p, kind)
    \/ Copy(p) \/ Create(p) \/ Seal(p) \/ Annotate(p) \/ ListManifests(p) \/ Prune(p) \/ Apply(p)
ScreenStep(s) ==
    \/ Open(s)
    \/ \E i \in DOMAIN backups : TogglePin(s, i) \/ Rename(s, i) \/ DeleteBackup(s, i) \/ RestoreBackup(s, i)

Next ==
    \/ \E p \in Runs : RunStep(p)
    \/ \E s \in Screens : ScreenStep(s)
    \/ \E p \in Procs : Extract(p) \/ Restore(p) \/ End(p) \/ Crash(p)
    \/ \E f \in Files : Edit(f)

Spec == Init /\ [][Next]_vars

-----------------------------------------------------------------------------
(* Properties *)

TypeOK ==
    /\ world \in [Files -> Contents]
    /\ \A i \in DOMAIN backups :
          /\ backups[i].manifest.state \in {"none", "ok", "torn"}
          /\ backups[i].archive => backups[i].dir /\ DOMAIN backups[i].files # {}
          /\ backups[i].manifest.state # "none" => backups[i].dir
    /\ \A p \in Procs : proc[p].own \in 0..Len(backups) /\ proc[p].todo \subseteq Files

(* Two backups in a row never hold the same: the second would have been    *)
(* left out (docs/rollback.md, emptyFilesChecksum).                        *)
NoTwins ==
    \A i \in Readable : i + 1 \in Readable =>
        backups[i].manifest.sum # backups[i + 1].manifest.sum

(* A run that reports its rollback as done put every file back as it was   *)
(* when the run began (rollbackRestoreStep.Rollback).                      *)
RolledBack == \A p \in Runs : proc[p].at = "restored" => world = proc[p].start

=============================================================================
