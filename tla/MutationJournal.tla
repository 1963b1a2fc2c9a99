-------------------------- MODULE MutationJournal --------------------------
(***************************************************************************)
(* The mutation journal (components/mutationjournal): before-images of the *)
(* files an installation step touches, and what it knows of its own        *)
(* writes.  A journal is a function from the captured paths to entries.    *)
(* Paths outside the roots and symlinks are refused before anything is     *)
(* read and are left out.                                                  *)
(***************************************************************************)
EXTENDS Functions

CONSTANT Absent     \* the content of a path where there is no file

EmptyJournal == [p \in {} |-> Absent]

(* Only the first capture of a path counts. *)
Capture(j, p, content) ==
    IF p \in DOMAIN j THEN j
    ELSE [q \in DOMAIN j \cup {p} |->
             IF q = p THEN [data |-> content, after |-> Absent, changed |-> FALSE] ELSE j[q]]

(* What a write or a removal compares the file with.                       *)
Before(j, p) == j[p].data

Recorded(j, p, content) == [j EXCEPT ![p].after = content, ![p].changed = TRUE]

(* Mutated: only removals are taken back. *)
ToRestore_Removed(j) == {p \in DOMAIN j : j[p].changed /\ j[p].after = Absent}

ToRestore(j) == {p \in DOMAIN j : j[p].changed}

(* Mutated: Restore overwrites whatever it finds. *)
Restorable_Always(j, p, content) == TRUE

(* Restore takes back what the journal wrote, nothing else. *)
Restorable(j, p, content) == content = j[p].after

=============================================================================
