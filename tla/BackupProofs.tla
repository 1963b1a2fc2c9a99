---------------------------- MODULE BackupProofs ----------------------------
(***************************************************************************)
(* What a process at a time keeps in the backup directory, in every        *)
(* setting of BackupStore: every snapshot is as its archive and its        *)
(* manifest say, or shows that it is not (StoreInv), and two in a row of   *)
(* installations differ (TwinInv).                                         *)
(***************************************************************************)
EXTENDS MCInstaller, Sequences, SequenceTheorems, FiniteSetTheorems, NaturalsInduction, WellFoundedInduction, TLAPS

(***************************************************************************)
(* BackupStore                                                             *)
(***************************************************************************)

(* One process at a time, one screen, and no directory or socket where a   *)
(* configuration file should be.                                           *)
FileContents(k) == (0 .. k.MaxEdits + 1) \cup {Absent}
StoreBounds(k) ==
    /\ k.Overlap = FALSE /\ k.CheckFails \in BOOLEAN /\ k.Keep \in Nat \ {0} /\ k.MaxEdits \in Nat
    /\ k.Kinds \subseteq {"install", "upgrade"} /\ k.Runs \cap k.Screens = {} /\ \A s, t \in k.Screens : s = t
    /\ k.Worlds \subseteq [k.Files -> FileContents(k)]
    /\ Absent \notin Nat /\ Special \notin Nat /\ Absent # Special

StoreWorlds(k) == [k.Files -> FileContents(k)]
Sums(k) == {Backups(k)!Regular(w) : w \in StoreWorlds(k)} \cup {<<>>}
Manifests(k) ==
    [state : {"none", "ok", "torn"}, pinned : BOOLEAN, named : BOOLEAN, sum : Sums(k) \cup {NoSum},
     existed : SUBSET k.Files]
BackupRecords(k) == [dir : BOOLEAN, archive : BOOLEAN, files : Sums(k), manifest : Manifests(k)]
Snapshotting == {"copy", "create", "seal", "annotate", "list", "prune", "apply"}
Places == Snapshotting \cup {"idle", "extract", "restore", "restored", "failed"}
KindNames == {"none", "install", "upgrade"}
FileSets(k) == SUBSET k.Files
IndexSets == SUBSET Nat
Starts(k) == StoreWorlds(k) \cup {<<>>}
ProcRecords(k) ==
    [at : Places, kind : KindNames, own : Nat, copied : BOOLEAN, files : Sums(k), existed : FileSets(k),
     todo : FileSets(k), victims : IndexSets, start : Starts(k)]
Lists(k) == UNION {[S -> Manifests(k)] : S \in SUBSET Nat}

Counted(k) == edits \in 0 .. k.MaxEdits /\ faults \in Nat /\ uses \in Nat
StoreTypes(k) ==
    /\ Counted(k) /\ world \in StoreWorlds(k) /\ backups \in Seq(BackupRecords(k))
    /\ proc \in [Backups(k)!Procs -> ProcRecords(k)] /\ list \in [k.Screens -> Lists(k)]

Alone1(k) ==
    \A p, q \in Backups(k)!Procs : proc[p].at # "idle" /\ proc[q].at # "idle" => p = q

(* What is known of a backup, and of what the screen shows of it.          *)
Kept(k, b) ==
    /\ b.archive => b.dir /\ DOMAIN b.files # {}
    /\ b.manifest.state # "none" => b.dir /\ b.manifest.sum \in Sums(k) /\ b.manifest.existed = DOMAIN b.manifest.sum
    /\ b.archive /\ b.manifest.state = "ok" => b.files = b.manifest.sum
Shown(k, i, m) ==
    /\ i \in DOMAIN backups /\ m.state = "ok" /\ m.sum \in Sums(k) /\ m.existed = DOMAIN m.sum
    /\ i \in Backups(k)!Readable => backups[i].manifest.sum = m.sum
    /\ backups[i].archive => backups[i].files = m.sum
    /\ i = Len(backups) => i \in Backups(k)!Readable

KeptAll(k) == \A i \in DOMAIN backups : Kept(k, backups[i])
ShownAll(k) == \A s \in k.Screens : \A i \in DOMAIN list[s] : Shown(k, i, list[s][i])

(* What a process knows: a run has the files of before in its own backup,  *)
(* the last one, or in a copy, and a backup it removes has newer ones that *)
(* are kept.                                                               *)
Own(k, r) ==
    /\ r.own \in DOMAIN backups /\ r.own = Len(backups) /\ backups[r.own].files = Backups(k)!Regular(r.start)
    /\ backups[r.own].archive <=> DOMAIN Backups(k)!Regular(r.start) # {}
    /\ r.existed = DOMAIN Backups(k)!Regular(r.start) /\ ~r.copied
Newer(k, r) ==
    \E T \in SUBSET DOMAIN backups :
        /\ Backups(k)!Cardinality(T) >= k.Keep
        /\ \A t \in T : /\ t \in Backups(k)!Readable /\ ~Backups(k)!Pinned(t)
                        /\ \A v \in r.victims : v < t
Way(k, p, r) ==
    /\ r.own \in 0 .. Len(backups)
    /\ r.at \in Snapshotting => p \in k.Runs /\ r.start = world /\ r.start \in StoreWorlds(k) /\ r.kind # "none"
    /\ r.at \in {"copy", "create"} => r.own = 0 /\ ~r.copied
    /\ r.at \in {"copy", "apply"} => r.kind = "install"
    /\ r.at \in {"seal", "annotate"} =>
         Own(k, r) /\ (\A s \in k.Screens : r.own \notin DOMAIN list[s])
    /\ r.at = "seal" => backups[r.own].manifest.state = "none"
    /\ r.at = "annotate" =>
         backups[r.own].manifest.state = "ok" /\ backups[r.own].manifest.sum = Backups(k)!Regular(r.start)
    /\ r.at \in {"list", "prune"} => (r.own # 0 \/ r.kind = "install" => Own(k, r))
    /\ r.at = "prune" /\ r.victims # {} =>
         Newer(k, r) /\ \A v \in r.victims : v \in Backups(k)!Readable /\ ~Backups(k)!Pinned(v)
    /\ r.at \in {"apply", "extract"} /\ p \in k.Runs =>
         /\ r.start \in StoreWorlds(k)
         /\ \/ Own(k, r)
            \/ /\ r.copied /\ r.files = Backups(k)!Regular(r.start) /\ r.existed = DOMAIN r.files
    /\ r.at = "extract" /\ p \notin k.Runs =>
         ~r.copied /\ r.own \in DOMAIN backups /\ (backups[r.own].archive => r.existed = DOMAIN backups[r.own].files)
    /\ r.at = "restore" => (r.existed # {} => r.existed = DOMAIN r.files)
    /\ r.at = "restore" /\ p \in k.Runs =>
         /\ r.start \in StoreWorlds(k) /\ r.existed = DOMAIN Backups(k)!Regular(r.start)
         /\ r.existed # {} => r.files = Backups(k)!Regular(r.start)
         /\ \A f \in k.Files \ r.todo : world[f] = r.start[f]
    /\ r.at = "restored" /\ p \in k.Runs => world = r.start

StoreInv(k) ==
    /\ StoreTypes(k) /\ Alone1(k) /\ KeptAll(k) /\ ShownAll(k)
    /\ \A p \in Backups(k)!Procs : Way(k, p, proc[p])

(* A file there was at the start is never removed, and what two backups in *)
(* a row hold, or would if their manifests were written again, differs,    *)
(* if the comparison with the newest one never fails.                      *)
TwinBounds(k) ==
    /\ StoreBounds(k) /\ k.Kinds = {"install"} /\ k.CheckFails = FALSE
    /\ \A w \in k.Worlds : \E f \in k.Files : w[f] # Absent

HasSum(k, i, x) ==
    \/ i \in Backups(k)!Readable /\ backups[i].manifest.sum = x
    \/ \E s \in k.Screens : i \in DOMAIN list[s] /\ list[s][i].sum = x
Lasting(k, h) ==
    /\ world[h] # Absent
    /\ \A i, x : HasSum(k, i, x) => h \in DOMAIN x
    /\ \A p \in Backups(k)!Procs : proc[p].at \in {"extract", "restore"} => h \in proc[p].existed
Differ(k) ==
    /\ \A i, x : ~(HasSum(k, i, x) /\ HasSum(k, i + 1, x))
    /\ \A p \in k.Runs :
         /\ proc[p].at = "create" => ~HasSum(k, Len(backups), Backups(k)!Regular(proc[p].start))
         /\ proc[p].at = "seal" => ~HasSum(k, Len(backups) - 1, Backups(k)!Regular(proc[p].start))
TwinInv(k) == (\E h \in k.Files : Lasting(k, h)) /\ Differ(k)

(* What a process becomes in a step.                                       *)
Begun(k, kind, w, at) == [Backups(k)!Idle EXCEPT !.kind = kind, !.start = w, !.at = at]
Chosen(k, n, e, w) == [Backups(k)!Idle EXCEPT !.at = "extract", !.own = n, !.existed = e, !.start = w]
Moved(r, at) == [r EXCEPT !.at = at]
Copied(r, x, e) == [r EXCEPT !.at = "apply", !.copied = TRUE, !.files = x, !.existed = e]
Created(r, n, e) == [r EXCEPT !.at = "seal", !.own = n, !.existed = e]
Chose(r, v) == [r EXCEPT !.at = "prune", !.victims = v]
Spared(r, v) == [r EXCEPT !.victims = v]
Unpacking(r, t) == [r EXCEPT !.at = "restore", !.todo = t]
Extracted(r, t, x) == [r EXCEPT !.at = "restore", !.todo = t, !.files = x]
Remaining(r, t) == [r EXCEPT !.todo = t]

(* And what a backup is when it is begun, and its manifest written.        *)
Stored(g, x, a) == [g EXCEPT !.dir = TRUE, !.files = x, !.archive = a]
Made(g) == [g EXCEPT !.dir = TRUE]
Written(b, m) == [b EXCEPT !.dir = TRUE, !.manifest = m]
Marked(b, m) == [b EXCEPT !.manifest = m]
Sealed(k, e, x) == [Backups(k)!NoManifest EXCEPT !.state = "ok", !.existed = e, !.sum = x]
Annotated(m) == [m EXCEPT !.state = "ok", !.pinned = FALSE, !.named = TRUE]
Broken(m) == [m EXCEPT !.state = "torn"]
OtherPin(m) == [m EXCEPT !.pinned = ~@]
OtherName(m) == [m EXCEPT !.named = ~@]

-----------------------------------------------------------------------------
(* The regular files of a world.                                           *)
LEMMA RegularFiles ==
    ASSUME NEW k, StoreBounds(k), NEW w \in StoreWorlds(k)
    PROVE  /\ DOMAIN Backups(k)!Regular(w) = {f \in k.Files : w[f] # Absent}
           /\ \A f \in k.Files : w[f] # Absent => Backups(k)!Regular(w)[f] = w[f]
           /\ Backups(k)!Regular(w) \in Sums(k)
           /\ Backups(k)!Restrict(w, DOMAIN Backups(k)!Regular(w)) = Backups(k)!Regular(w)
<1>1. \A f \in k.Files : w[f] \in FileContents(k) /\ w[f] # Special
    BY DEF StoreBounds, StoreWorlds, FileContents
<1>2. {f \in k.Files : w[f] \notin {Absent, Special}} = {f \in k.Files : w[f] # Absent}
    BY <1>1
<1>3. Backups(k)!Regular(w) = [f \in {g \in k.Files : w[g] # Absent} |-> w[f]]
    BY <1>2 DEF Backups!Regular, Backups!Restrict
<1>4. DOMAIN Backups(k)!Regular(w) = {f \in k.Files : w[f] # Absent}
    BY <1>3
<1>5. Backups(k)!Restrict(w, DOMAIN Backups(k)!Regular(w)) = Backups(k)!Regular(w)
    BY <1>3, <1>4 DEF Backups!Restrict
<1> QED
    BY <1>3, <1>4, <1>5 DEF Sums

LEMMA SumEntries ==
    ASSUME NEW k, StoreBounds(k), NEW x \in Sums(k)
    PROVE  DOMAIN x \subseteq k.Files /\ \A f \in DOMAIN x : x[f] \in FileContents(k) /\ x[f] # Absent
<1>1. CASE x = <<>>
  <2>1. DOMAIN x = {}
      BY <1>1
  <2> QED
      BY <2>1
<1>2. ASSUME NEW w \in StoreWorlds(k), x = Backups(k)!Regular(w)
      PROVE  DOMAIN x \subseteq k.Files /\ \A f \in DOMAIN x : x[f] \in FileContents(k) /\ x[f] # Absent
  <2>1. /\ DOMAIN x = {f \in k.Files : w[f] # Absent}
        /\ \A f \in k.Files : w[f] # Absent => x[f] = w[f]
      BY <1>2, RegularFiles
  <2>2. \A f \in k.Files : w[f] \in FileContents(k)
      BY DEF StoreWorlds
  <2> QED
      BY <2>1, <2>2
<1> QED
    BY <1>1, <1>2 DEF Sums

LEMMA IdleRecord ==
    ASSUME NEW k, StoreBounds(k)
    PROVE  Backups(k)!Idle \in ProcRecords(k) /\ Backups(k)!Idle.at = "idle" /\ Backups(k)!Idle.own = 0
BY DEF Backups!Idle, ProcRecords, Sums, Places, KindNames, FileSets, IndexSets, Starts

(* The records of the directory, rewritten.                                *)
LEMMA GoneRecord ==
    ASSUME NEW k, StoreBounds(k)
    PROVE  /\ Backups(k)!Gone \in BackupRecords(k) /\ Backups(k)!NoManifest \in Manifests(k)
           /\ Backups(k)!Gone.dir = FALSE /\ Backups(k)!Gone.archive = FALSE
           /\ Backups(k)!Gone.manifest = Backups(k)!NoManifest /\ Backups(k)!NoManifest.state = "none"
<1>1. Backups(k)!NoManifest \in Manifests(k) /\ Backups(k)!NoManifest.state = "none"
    BY DEF Backups!NoManifest, Manifests
<1>2. Backups(k)!Gone \in BackupRecords(k) /\ Backups(k)!Gone.dir = FALSE /\ Backups(k)!Gone.archive = FALSE
      /\ Backups(k)!Gone.manifest = Backups(k)!NoManifest
    BY <1>1 DEF Backups!Gone, BackupRecords, Sums
<1> QED
    BY <1>1, <1>2

LEMMA BackupSet ==
    ASSUME NEW k, NEW i \in DOMAIN backups, backups \in Seq(BackupRecords(k)), NEW b \in BackupRecords(k),
           backups' = [backups EXCEPT ![i] = b]
    PROVE  /\ backups' \in Seq(BackupRecords(k)) /\ Len(backups') = Len(backups) /\ DOMAIN backups' = DOMAIN backups
           /\ backups'[i] = b /\ \A j \in DOMAIN backups : j # i => backups'[j] = backups[j]
OBVIOUS

LEMMA WrittenRecord ==
    ASSUME NEW k, NEW b \in BackupRecords(k), NEW m \in Manifests(k)
    PROVE  /\ Written(b, m) \in BackupRecords(k) /\ Written(b, m).dir /\ Written(b, m).manifest = m
           /\ (Written(b, m).archive <=> b.archive) /\ Written(b, m).files = b.files
BY DEF BackupRecords, Written

LEMMA MarkedRecord ==
    ASSUME NEW k, NEW b \in BackupRecords(k), NEW m \in Manifests(k)
    PROVE  /\ Marked(b, m) \in BackupRecords(k) /\ (Marked(b, m).dir <=> b.dir) /\ Marked(b, m).manifest = m
           /\ (Marked(b, m).archive <=> b.archive) /\ Marked(b, m).files = b.files
BY DEF BackupRecords, Marked

LEMMA SealedManifest ==
    ASSUME NEW k, NEW x \in Sums(k), NEW e \in FileSets(k)
    PROVE  /\ Sealed(k, e, x) \in Manifests(k) /\ Sealed(k, e, x).state = "ok" /\ Sealed(k, e, x).sum = x
           /\ Sealed(k, e, x).existed = e
BY DEF Sealed, Manifests, Backups!NoManifest, FileSets

LEMMA OtherManifest ==
    ASSUME NEW k, NEW m \in Manifests(k)
    PROVE  /\ Annotated(m) \in Manifests(k) /\ Annotated(m).state = "ok" /\ Annotated(m).sum = m.sum /\ Annotated(m).existed = m.existed
           /\ Broken(m) \in Manifests(k) /\ Broken(m).state = "torn" /\ Broken(m).sum = m.sum /\ Broken(m).existed = m.existed
           /\ OtherPin(m) \in Manifests(k) /\ OtherPin(m).state = m.state /\ OtherPin(m).sum = m.sum /\ OtherPin(m).existed = m.existed
           /\ OtherName(m) \in Manifests(k) /\ OtherName(m).state = m.state /\ OtherName(m).sum = m.sum /\ OtherName(m).existed = m.existed
<1>1. /\ Annotated(m) \in Manifests(k) /\ Annotated(m).state = "ok" /\ Annotated(m).sum = m.sum /\ Annotated(m).existed = m.existed
    BY DEF Manifests, Annotated
<1>2. /\ Broken(m) \in Manifests(k) /\ Broken(m).state = "torn" /\ Broken(m).sum = m.sum /\ Broken(m).existed = m.existed
    BY DEF Manifests, Broken
<1>3. /\ OtherPin(m) \in Manifests(k) /\ OtherPin(m).state = m.state /\ OtherPin(m).sum = m.sum /\ OtherPin(m).existed = m.existed
    BY DEF Manifests, OtherPin
<1>4. /\ OtherName(m) \in Manifests(k) /\ OtherName(m).state = m.state /\ OtherName(m).sum = m.sum /\ OtherName(m).existed = m.existed
    BY DEF Manifests, OtherName
<1> QED
    BY <1>1, <1>2, <1>3, <1>4

(* What can be read, and what the screen would list.                       *)
LEMMA ReadableOnes ==
    ASSUME NEW k, backups \in Seq(BackupRecords(k))
    PROVE  /\ Backups(k)!Readable \subseteq DOMAIN backups /\ DOMAIN backups = 1 .. Len(backups)
           /\ Len(backups) \in Nat
           /\ \A i \in DOMAIN backups :
                /\ i \in Backups(k)!Readable <=> (backups[i].dir /\ backups[i].manifest.state = "ok")
                /\ backups[i] \in BackupRecords(k) /\ backups[i].manifest \in Manifests(k)
                /\ backups[i].dir \in BOOLEAN /\ backups[i].archive \in BOOLEAN
<1>1. DOMAIN backups = 1 .. Len(backups) /\ Len(backups) \in Nat
    OBVIOUS
<1>2. \A i \in DOMAIN backups : backups[i] \in BackupRecords(k)
    OBVIOUS
<1>3. \A i \in DOMAIN backups : /\ backups[i].manifest \in Manifests(k)
                               /\ backups[i].dir \in BOOLEAN /\ backups[i].archive \in BOOLEAN
    BY <1>2 DEF BackupRecords
<1>4. Backups(k)!Readable = {i \in DOMAIN backups : backups[i].dir /\ backups[i].manifest.state = "ok"}
    BY DEF Backups!Readable
<1> QED
    BY <1>1, <1>2, <1>3, <1>4

LEMMA ListedOnes ==
    ASSUME NEW k, backups \in Seq(BackupRecords(k))
    PROVE  /\ DOMAIN Backups(k)!Listed = Backups(k)!Readable
           /\ \A i \in Backups(k)!Readable : Backups(k)!Listed[i] = backups[i].manifest
           /\ Backups(k)!Listed \in Lists(k)
<1>1. Backups(k)!Listed = [i \in Backups(k)!Readable |-> backups[i].manifest]
  <2>1. Backups(k)!Listed = [i \in Backups(k)!Readable |-> [j \in DOMAIN backups |-> backups[j].manifest][i]]
      BY DEF Backups!Listed, Backups!Restrict
  <2> QED
      BY <2>1, ReadableOnes
<1>2. Backups(k)!Listed \in [Backups(k)!Readable -> Manifests(k)]
    BY <1>1, ReadableOnes
<1> QED
    BY <1>1, <1>2, ReadableOnes DEF Lists

(* Each of them is a process, and this one.                                *)
LEMMA BegunRecord ==
    ASSUME NEW k, StoreBounds(k),
           NEW kind \in KindNames, NEW w \in Starts(k), NEW at \in Places
    PROVE  /\ Begun(k, kind, w, at) \in ProcRecords(k)
           /\ Begun(k, kind, w, at).at = at /\ Begun(k, kind, w, at).kind = kind /\ Begun(k, kind, w, at).start = w /\ Begun(k, kind, w, at).own = 0
           /\ ~Begun(k, kind, w, at).copied
<1>1. Backups(k)!Idle \in ProcRecords(k) /\ {"apply", "seal", "prune", "restore", "extract"} \subseteq Places
    BY IdleRecord DEF Places, Snapshotting
<1>2. Begun(k, kind, w, at) \in ProcRecords(k)
    BY <1>1 DEF ProcRecords, Begun
<1>3. /\ Begun(k, kind, w, at).at = at /\ Begun(k, kind, w, at).kind = kind /\ Begun(k, kind, w, at).start = w /\ Begun(k, kind, w, at).own = 0
      /\ ~Begun(k, kind, w, at).copied
    BY <1>1 DEF ProcRecords, Begun, Backups!Idle
<1> QED
    BY <1>2, <1>3

LEMMA ChosenRecord ==
    ASSUME NEW k, StoreBounds(k),
           NEW n \in Nat, NEW e \in FileSets(k), NEW w \in Starts(k)
    PROVE  /\ Chosen(k, n, e, w) \in ProcRecords(k)
           /\ Chosen(k, n, e, w).at = "extract" /\ Chosen(k, n, e, w).own = n /\ Chosen(k, n, e, w).existed = e /\ Chosen(k, n, e, w).start = w
           /\ ~Chosen(k, n, e, w).copied
<1>1. Backups(k)!Idle \in ProcRecords(k) /\ {"apply", "seal", "prune", "restore", "extract"} \subseteq Places
    BY IdleRecord DEF Places, Snapshotting
<1>2. Chosen(k, n, e, w) \in ProcRecords(k)
    BY <1>1 DEF ProcRecords, Chosen
<1>3. /\ Chosen(k, n, e, w).at = "extract" /\ Chosen(k, n, e, w).own = n /\ Chosen(k, n, e, w).existed = e /\ Chosen(k, n, e, w).start = w
      /\ ~Chosen(k, n, e, w).copied
    BY <1>1 DEF ProcRecords, Chosen, Backups!Idle
<1> QED
    BY <1>2, <1>3

LEMMA MovedRecord ==
    ASSUME NEW k, StoreBounds(k), NEW r \in ProcRecords(k),
           NEW at \in Places
    PROVE  /\ Moved(r, at) \in ProcRecords(k)
           /\ Moved(r, at).at = at /\ Moved(r, at).kind = r.kind /\ Moved(r, at).own = r.own /\ (Moved(r, at).copied <=> r.copied)
           /\ Moved(r, at).files = r.files /\ Moved(r, at).existed = r.existed /\ Moved(r, at).todo = r.todo /\ Moved(r, at).victims = r.victims
           /\ Moved(r, at).start = r.start
<1>1. r \in ProcRecords(k) /\ {"apply", "seal", "prune", "restore", "extract"} \subseteq Places
    BY IdleRecord DEF Places, Snapshotting
<1>2. Moved(r, at) \in ProcRecords(k)
    BY <1>1 DEF ProcRecords, Moved
<1>3. /\ Moved(r, at).at = at /\ Moved(r, at).kind = r.kind /\ Moved(r, at).own = r.own /\ (Moved(r, at).copied <=> r.copied)
      /\ Moved(r, at).files = r.files /\ Moved(r, at).existed = r.existed /\ Moved(r, at).todo = r.todo /\ Moved(r, at).victims = r.victims
      /\ Moved(r, at).start = r.start
    BY <1>1 DEF ProcRecords, Moved
<1> QED
    BY <1>2, <1>3

LEMMA CopiedRecord ==
    ASSUME NEW k, StoreBounds(k), NEW r \in ProcRecords(k),
           NEW x \in Sums(k), NEW e \in FileSets(k)
    PROVE  /\ Copied(r, x, e) \in ProcRecords(k)
           /\ Copied(r, x, e).at = "apply" /\ Copied(r, x, e).kind = r.kind /\ Copied(r, x, e).own = r.own /\ Copied(r, x, e).copied
           /\ Copied(r, x, e).files = x /\ Copied(r, x, e).existed = e /\ Copied(r, x, e).todo = r.todo /\ Copied(r, x, e).victims = r.victims
           /\ Copied(r, x, e).start = r.start
<1>1. r \in ProcRecords(k) /\ {"apply", "seal", "prune", "restore", "extract"} \subseteq Places
    BY IdleRecord DEF Places, Snapshotting
<1>2. Copied(r, x, e) \in ProcRecords(k)
    BY <1>1 DEF ProcRecords, Copied
<1>3. /\ Copied(r, x, e).at = "apply" /\ Copied(r, x, e).kind = r.kind /\ Copied(r, x, e).own = r.own /\ Copied(r, x, e).copied
      /\ Copied(r, x, e).files = x /\ Copied(r, x, e).existed = e /\ Copied(r, x, e).todo = r.todo /\ Copied(r, x, e).victims = r.victims
      /\ Copied(r, x, e).start = r.start
    BY <1>1 DEF ProcRecords, Copied
<1> QED
    BY <1>2, <1>3

LEMMA CreatedRecord ==
    ASSUME NEW k, StoreBounds(k), NEW r \in ProcRecords(k),
           NEW n \in Nat, NEW e \in FileSets(k)
    PROVE  /\ Created(r, n, e) \in ProcRecords(k)
           /\ Created(r, n, e).at = "seal" /\ Created(r, n, e).kind = r.kind /\ Created(r, n, e).own = n /\ (Created(r, n, e).copied <=> r.copied)
           /\ Created(r, n, e).files = r.files /\ Created(r, n, e).existed = e /\ Created(r, n, e).todo = r.todo /\ Created(r, n, e).victims = r.victims
           /\ Created(r, n, e).start = r.start
<1>1. r \in ProcRecords(k) /\ {"apply", "seal", "prune", "restore", "extract"} \subseteq Places
    BY IdleRecord DEF Places, Snapshotting
<1>2. Created(r, n, e) \in ProcRecords(k)
    BY <1>1 DEF ProcRecords, Created
<1>3. /\ Created(r, n, e).at = "seal" /\ Created(r, n, e).kind = r.kind /\ Created(r, n, e).own = n /\ (Created(r, n, e).copied <=> r.copied)
      /\ Created(r, n, e).files = r.files /\ Created(r, n, e).existed = e /\ Created(r, n, e).todo = r.todo /\ Created(r, n, e).victims = r.victims
      /\ Created(r, n, e).start = r.start
    BY <1>1 DEF ProcRecords, Created
<1> QED
    BY <1>2, <1>3

LEMMA ChoseRecord ==
    ASSUME NEW k, StoreBounds(k), NEW r \in ProcRecords(k),
           NEW v \in IndexSets
    PROVE  /\ Chose(r, v) \in ProcRecords(k)
           /\ Chose(r, v).at = "prune" /\ Chose(r, v).kind = r.kind /\ Chose(r, v).own = r.own /\ (Chose(r, v).copied <=> r.copied)
           /\ Chose(r, v).files = r.files /\ Chose(r, v).existed = r.existed /\ Chose(r, v).todo = r.todo /\ Chose(r, v).victims = v
           /\ Chose(r, v).start = r.start
<1>1. r \in ProcRecords(k) /\ {"apply", "seal", "prune", "restore", "extract"} \subseteq Places
    BY IdleRecord DEF Places, Snapshotting
<1>2. Chose(r, v) \in ProcRecords(k)
    BY <1>1 DEF ProcRecords, Chose
<1>3. /\ Chose(r, v).at = "prune" /\ Chose(r, v).kind = r.kind /\ Chose(r, v).own = r.own /\ (Chose(r, v).copied <=> r.copied)
      /\ Chose(r, v).files = r.files /\ Chose(r, v).existed = r.existed /\ Chose(r, v).todo = r.todo /\ Chose(r, v).victims = v
      /\ Chose(r, v).start = r.start
    BY <1>1 DEF ProcRecords, Chose
<1> QED
    BY <1>2, <1>3

LEMMA SparedRecord ==
    ASSUME NEW k, StoreBounds(k), NEW r \in ProcRecords(k),
           NEW v \in IndexSets
    PROVE  /\ Spared(r, v) \in ProcRecords(k)
           /\ Spared(r, v).at = r.at /\ Spared(r, v).kind = r.kind /\ Spared(r, v).own = r.own /\ (Spared(r, v).copied <=> r.copied)
           /\ Spared(r, v).files = r.files /\ Spared(r, v).existed = r.existed /\ Spared(r, v).todo = r.todo /\ Spared(r, v).victims = v
           /\ Spared(r, v).start = r.start
<1>1. r \in ProcRecords(k) /\ {"apply", "seal", "prune", "restore", "extract"} \subseteq Places
    BY IdleRecord DEF Places, Snapshotting
<1>2. Spared(r, v) \in ProcRecords(k)
    BY <1>1 DEF ProcRecords, Spared
<1>3. /\ Spared(r, v).at = r.at /\ Spared(r, v).kind = r.kind /\ Spared(r, v).own = r.own /\ (Spared(r, v).copied <=> r.copied)
      /\ Spared(r, v).files = r.files /\ Spared(r, v).existed = r.existed /\ Spared(r, v).todo = r.todo /\ Spared(r, v).victims = v
      /\ Spared(r, v).start = r.start
    BY <1>1 DEF ProcRecords, Spared
<1> QED
    BY <1>2, <1>3

LEMMA UnpackingRecord ==
    ASSUME NEW k, StoreBounds(k), NEW r \in ProcRecords(k),
           NEW t \in FileSets(k)
    PROVE  /\ Unpacking(r, t) \in ProcRecords(k)
           /\ Unpacking(r, t).at = "restore" /\ Unpacking(r, t).kind = r.kind /\ Unpacking(r, t).own = r.own /\ (Unpacking(r, t).copied <=> r.copied)
           /\ Unpacking(r, t).files = r.files /\ Unpacking(r, t).existed = r.existed /\ Unpacking(r, t).todo = t /\ Unpacking(r, t).victims = r.victims
           /\ Unpacking(r, t).start = r.start
<1>1. r \in ProcRecords(k) /\ {"apply", "seal", "prune", "restore", "extract"} \subseteq Places
    BY IdleRecord DEF Places, Snapshotting
<1>2. Unpacking(r, t) \in ProcRecords(k)
    BY <1>1 DEF ProcRecords, Unpacking
<1>3. /\ Unpacking(r, t).at = "restore" /\ Unpacking(r, t).kind = r.kind /\ Unpacking(r, t).own = r.own /\ (Unpacking(r, t).copied <=> r.copied)
      /\ Unpacking(r, t).files = r.files /\ Unpacking(r, t).existed = r.existed /\ Unpacking(r, t).todo = t /\ Unpacking(r, t).victims = r.victims
      /\ Unpacking(r, t).start = r.start
    BY <1>1 DEF ProcRecords, Unpacking
<1> QED
    BY <1>2, <1>3

LEMMA ExtractedRecord ==
    ASSUME NEW k, StoreBounds(k), NEW r \in ProcRecords(k),
           NEW t \in FileSets(k), NEW x \in Sums(k)
    PROVE  /\ Extracted(r, t, x) \in ProcRecords(k)
           /\ Extracted(r, t, x).at = "restore" /\ Extracted(r, t, x).kind = r.kind /\ Extracted(r, t, x).own = r.own /\ (Extracted(r, t, x).copied <=> r.copied)
           /\ Extracted(r, t, x).files = x /\ Extracted(r, t, x).existed = r.existed /\ Extracted(r, t, x).todo = t /\ Extracted(r, t, x).victims = r.victims
           /\ Extracted(r, t, x).start = r.start
<1>1. r \in ProcRecords(k) /\ {"apply", "seal", "prune", "restore", "extract"} \subseteq Places
    BY IdleRecord DEF Places, Snapshotting
<1>2. Extracted(r, t, x) \in ProcRecords(k)
    BY <1>1 DEF ProcRecords, Extracted
<1>3. /\ Extracted(r, t, x).at = "restore" /\ Extracted(r, t, x).kind = r.kind /\ Extracted(r, t, x).own = r.own /\ (Extracted(r, t, x).copied <=> r.copied)
      /\ Extracted(r, t, x).files = x /\ Extracted(r, t, x).existed = r.existed /\ Extracted(r, t, x).todo = t /\ Extracted(r, t, x).victims = r.victims
      /\ Extracted(r, t, x).start = r.start
    BY <1>1 DEF ProcRecords, Extracted
<1> QED
    BY <1>2, <1>3

LEMMA RemainingRecord ==
    ASSUME NEW k, StoreBounds(k), NEW r \in ProcRecords(k),
           NEW t \in FileSets(k)
    PROVE  /\ Remaining(r, t) \in ProcRecords(k)
           /\ Remaining(r, t).at = r.at /\ Remaining(r, t).kind = r.kind /\ Remaining(r, t).own = r.own /\ (Remaining(r, t).copied <=> r.copied)
           /\ Remaining(r, t).files = r.files /\ Remaining(r, t).existed = r.existed /\ Remaining(r, t).todo = t /\ Remaining(r, t).victims = r.victims
           /\ Remaining(r, t).start = r.start
<1>1. r \in ProcRecords(k) /\ {"apply", "seal", "prune", "restore", "extract"} \subseteq Places
    BY IdleRecord DEF Places, Snapshotting
<1>2. Remaining(r, t) \in ProcRecords(k)
    BY <1>1 DEF ProcRecords, Remaining
<1>3. /\ Remaining(r, t).at = r.at /\ Remaining(r, t).kind = r.kind /\ Remaining(r, t).own = r.own /\ (Remaining(r, t).copied <=> r.copied)
      /\ Remaining(r, t).files = r.files /\ Remaining(r, t).existed = r.existed /\ Remaining(r, t).todo = t /\ Remaining(r, t).victims = r.victims
      /\ Remaining(r, t).start = r.start
    BY <1>1 DEF ProcRecords, Remaining
<1> QED
    BY <1>2, <1>3

(* One process is this now, the others what they were.                     *)
LEMMA ProcSet ==
    ASSUME NEW k, NEW p \in Backups(k)!Procs, proc \in [Backups(k)!Procs -> ProcRecords(k)],
           NEW r \in ProcRecords(k), proc' = [proc EXCEPT ![p] = r]
    PROVE  /\ proc' \in [Backups(k)!Procs -> ProcRecords(k)]
           /\ proc'[p] = r /\ \A q \in Backups(k)!Procs : q # p => proc'[q] = proc[q]
OBVIOUS

LEMMA StoreStarts == ASSUME NEW k, StoreBounds(k), Backups(k)!Init PROVE StoreInv(k)
<1>1. /\ world \in k.Worlds /\ backups = <<>> /\ proc = [p \in Backups(k)!Procs |-> Backups(k)!Idle]
      /\ list = [s \in k.Screens |-> <<>>] /\ edits = 0 /\ faults = 0 /\ uses = 0
    BY DEF Backups!Init
<1>2. DOMAIN <<>> = {}
    OBVIOUS
<1>3. <<>> \in Lists(k)
    BY <1>2 DEF Lists
<1>4. StoreTypes(k)
  <2>1. world \in StoreWorlds(k) /\ edits \in 0 .. k.MaxEdits
      BY <1>1 DEF StoreBounds, StoreWorlds
  <2>2. backups \in Seq(BackupRecords(k))
      BY <1>1
  <2>3. proc \in [Backups(k)!Procs -> ProcRecords(k)]
      BY <1>1, IdleRecord
  <2>4. list \in [k.Screens -> Lists(k)]
      BY <1>1, <1>3
  <2> QED
      BY <1>1, <2>1, <2>2, <2>3, <2>4 DEF StoreTypes, Counted
<1>5. \A p \in Backups(k)!Procs : proc[p] = Backups(k)!Idle /\ proc[p].at = "idle" /\ proc[p].own = 0
    BY <1>1, IdleRecord
<1>6. \A p \in Backups(k)!Procs : Way(k, p, proc[p])
    BY <1>1, <1>5 DEF Way, Snapshotting
<1>7. Alone1(k)
    BY <1>5 DEF Alone1
<1>8. KeptAll(k)
    BY <1>1, <1>2 DEF KeptAll
<1>9. ShownAll(k)
    BY <1>1, <1>2 DEF ShownAll
<1> QED
    BY <1>4, <1>6, <1>7, <1>8, <1>9 DEF StoreInv

(* A step of the process under way, beside which the others are idle.      *)
LEMMA OthersIdle ==
    ASSUME NEW k, StoreBounds(k), StoreInv(k), NEW p \in Backups(k)!Procs,
           proc[p].at # "idle" \/ Backups(k)!May(p)
    PROVE  \A q \in Backups(k)!Procs : q # p => proc[q].at = "idle"
BY DEF StoreInv, Alone1, StoreBounds, Backups!May, Backups!Quiet

LEMMA WaysKept ==
    ASSUME NEW k, StoreInv(k), NEW p \in Backups(k)!Procs,
           \A q \in Backups(k)!Procs : q # p => proc[q].at = "idle" /\ proc'[q] = proc[q],
           Len(backups) \in Nat, Len(backups') \in Nat, Len(backups) <= Len(backups'), Way(k, p, proc[p])'
    PROVE  (\A q \in Backups(k)!Procs : Way(k, q, proc[q])') /\ Alone1(k)'
<1>1. ASSUME NEW q \in Backups(k)!Procs, q # p PROVE Way(k, q, proc[q])'
  <2>1. proc'[q].at = "idle" /\ proc'[q].own \in 0 .. Len(backups)
      BY <1>1 DEF StoreInv, Way
  <2> QED
      BY <2>1 DEF Way, Snapshotting
<1> QED
    BY <1>1 DEF Alone1

LEMMA SameStore ==
    ASSUME NEW k, StoreInv(k), UNCHANGED <<backups, list>>
    PROVE  KeptAll(k)' /\ ShownAll(k)'
<1>1. Backups(k)!Readable' = Backups(k)!Readable
    BY DEF Backups!Readable
<1>2. KeptAll(k)'
    BY DEF StoreInv, KeptAll, Kept
<1>3. ShownAll(k)'
    BY <1>1 DEF StoreInv, ShownAll, Shown
<1> QED
    BY <1>2, <1>3

LEMMA StoreFacts ==
    ASSUME NEW k, StoreInv(k)
    PROVE  /\ world \in StoreWorlds(k) /\ backups \in Seq(BackupRecords(k)) /\ Len(backups) \in Nat
           /\ proc \in [Backups(k)!Procs -> ProcRecords(k)] /\ list \in [k.Screens -> Lists(k)]
           /\ Counted(k)
           /\ \A p \in Backups(k)!Procs : Way(k, p, proc[p]) /\ proc[p] \in ProcRecords(k)
           /\ k.Runs \subseteq Backups(k)!Procs /\ k.Screens \subseteq Backups(k)!Procs
<1>1. \A p \in Backups(k)!Procs : Way(k, p, proc[p]) /\ proc[p] \in ProcRecords(k)
    BY DEF StoreInv, StoreTypes
<1> QED
    BY <1>1 DEF StoreInv, StoreTypes, Backups!Procs

(* A step that fails is counted, and one that does not changes no count.   *)
LEMMA FaultCounts ==
    ASSUME NEW k, Counted(k), UNCHANGED <<edits, uses>>, faults' = faults \/ Backups(k)!Fault
    PROVE  Counted(k)'
BY DEF Counted, Backups!Fault

(* A step of a process that leaves the directory and the list alone.       *)
LEMMA ProcMoves ==
    ASSUME NEW k, StoreBounds(k), StoreInv(k), NEW p \in Backups(k)!Procs,
           proc[p].at # "idle" \/ Backups(k)!May(p), UNCHANGED <<backups, list>>, world' \in StoreWorlds(k),
           Counted(k)', NEW r \in ProcRecords(k), proc' = [proc EXCEPT ![p] = r], Way(k, p, proc[p])'
    PROVE  StoreInv(k)'
<1>1. proc \in [Backups(k)!Procs -> ProcRecords(k)] /\ Len(backups) \in Nat
    BY StoreFacts
<1>2. proc' \in [Backups(k)!Procs -> ProcRecords(k)] /\ \A q \in Backups(k)!Procs : q # p => proc'[q] = proc[q]
    BY <1>1, ProcSet
<1>3. \A q \in Backups(k)!Procs : q # p => proc[q].at = "idle" /\ proc'[q] = proc[q]
    BY <1>2, OthersIdle
<1>4. (\A q \in Backups(k)!Procs : Way(k, q, proc[q])') /\ Alone1(k)'
    BY <1>1, <1>3, WaysKept
<1>5. StoreTypes(k)'
    BY <1>2, StoreFacts DEF StoreTypes
<1> QED
    BY <1>4, <1>5, SameStore DEF StoreInv

(* A process that ends.                                                    *)
LEMMA ProcStops ==
    ASSUME NEW k, StoreBounds(k), StoreInv(k), NEW p \in Backups(k)!Procs,
           proc[p].at # "idle" \/ Backups(k)!May(p), UNCHANGED <<backups, list>>, world' \in StoreWorlds(k),
           Counted(k)', proc' = [proc EXCEPT ![p] = Backups(k)!Idle]
    PROVE  StoreInv(k)'
<1> DEFINE r == Backups(k)!Idle
<1>1. r \in ProcRecords(k) /\ r.at = "idle" /\ r.own = 0
    BY IdleRecord
<1> HIDE DEF r
<1>2. proc \in [Backups(k)!Procs -> ProcRecords(k)] /\ Len(backups) \in Nat
    BY StoreFacts
<1>3. proc' = [proc EXCEPT ![p] = r]
    BY DEF r
<1>4. proc'[p] = r
    BY <1>1, <1>2, <1>3, ProcSet
<1>5. Way(k, p, proc[p])'
    BY <1>1, <1>2, <1>4 DEF Way, Snapshotting
<1> QED
    BY <1>1, <1>3, <1>5, ProcMoves

LEMMA BeginKeeps ==
    ASSUME NEW k, StoreBounds(k), StoreInv(k), NEW p \in k.Runs, NEW kind \in k.Kinds, Backups(k)!Begin(p, kind)
    PROVE  StoreInv(k)'
<1>1. /\ Backups(k)!May(p) /\ UNCHANGED <<world, backups, list, edits>> /\ uses' = uses + 1
      /\ faults' = faults \/ faults' = faults + 1
      /\ \E at \in {"copy", "create"} :
           (at = "copy" => kind = "install") /\ proc' = [proc EXCEPT ![p] = Begun(k, kind, world, at)]
    BY DEF Backups!Begin, Begun, Backups!Fault
<1>2. PICK at \in {"copy", "create"} :
        (at = "copy" => kind = "install") /\ proc' = [proc EXCEPT ![p] = Begun(k, kind, world, at)]
    BY <1>1
<1>3. /\ p \in Backups(k)!Procs /\ kind \in {"install", "upgrade"} /\ world \in StoreWorlds(k) /\ world \in Starts(k)
      /\ proc \in [Backups(k)!Procs -> ProcRecords(k)] /\ Counted(k) /\ Len(backups) \in Nat
    BY StoreFacts DEF StoreBounds, Starts
<1>4. kind \in KindNames /\ at \in Places
    BY <1>2, <1>3 DEF KindNames, Places, Snapshotting
<1> DEFINE r == Begun(k, kind, world, at)
<1>5. /\ r \in ProcRecords(k) /\ r.kind = kind /\ r.start = world /\ r.at = at /\ r.own = 0 /\ ~r.copied
    BY <1>3, <1>4, BegunRecord
<1> HIDE DEF r
<1>6. proc' = [proc EXCEPT ![p] = r]
    BY <1>2 DEF r
<1>7. proc'[p].kind = kind /\ proc'[p].start = world /\ proc'[p].at = at /\ proc'[p].own = 0 /\ ~proc'[p].copied
    BY <1>3, <1>5, <1>6, ProcSet
<1>8. Way(k, p, proc[p])'
    BY <1>1, <1>2, <1>3, <1>7 DEF Way, Snapshotting
<1>9. Counted(k)'
    BY <1>1, <1>3 DEF Counted
<1> QED
    BY <1>1, <1>3, <1>5, <1>6, <1>8, <1>9, ProcMoves

LEMMA CopyKeeps ==
    ASSUME NEW k, StoreBounds(k), StoreInv(k), NEW p \in k.Runs, Backups(k)!Copy(p)
    PROVE  StoreInv(k)'
<1> DEFINE x == Backups(k)!Regular(world)
           r == Copied(proc[p], x, DOMAIN x)
<1>1. /\ proc \in [Backups(k)!Procs -> ProcRecords(k)] /\ p \in Backups(k)!Procs /\ proc[p] \in ProcRecords(k)
      /\ world \in StoreWorlds(k) /\ Way(k, p, proc[p]) /\ Counted(k)
    BY StoreFacts
<1>2. /\ proc[p].at = "copy" /\ UNCHANGED <<world, backups, list, edits, uses>>
      /\ faults' = faults \/ Backups(k)!Fault
      /\ proc' = [proc EXCEPT ![p] = r] \/ proc' = [proc EXCEPT ![p] = Backups(k)!Idle]
    BY <1>1 DEF Backups!Copy, Copied
<1>3. x \in Sums(k) /\ DOMAIN x \in FileSets(k)
  <2>1. x \in Sums(k) /\ DOMAIN x = {f \in k.Files : world[f] # Absent}
      BY <1>1, RegularFiles
  <2> QED
      BY <2>1 DEF FileSets
<1>4. x = Backups(k)!Regular(world)
    OBVIOUS
<1> HIDE DEF x
<1>5. /\ r \in ProcRecords(k) /\ r.at = "apply" /\ r.kind = proc[p].kind /\ r.own = proc[p].own /\ r.copied
      /\ r.files = x /\ r.existed = DOMAIN x /\ r.start = proc[p].start
    BY <1>1, <1>3, CopiedRecord
<1> HIDE DEF r
<1>6. Counted(k)'
    BY <1>1, <1>2, FaultCounts
<1>7. CASE proc' = [proc EXCEPT ![p] = r]
  <2>1. /\ proc'[p].at = "apply" /\ proc'[p].kind = proc[p].kind /\ proc'[p].own = proc[p].own /\ proc'[p].copied
        /\ proc'[p].files = x /\ proc'[p].existed = DOMAIN x /\ proc'[p].start = proc[p].start
      BY <1>1, <1>5, <1>7, ProcSet
  <2>2. /\ proc[p].start = world /\ proc'[p].files = Backups(k)!Regular(proc'[p].start) /\ proc[p].kind = "install"
        /\ p \in k.Runs /\ proc[p].own \in 0 .. Len(backups)
      BY <1>1, <1>2, <1>4, <2>1 DEF Way, Snapshotting
  <2>3. Way(k, p, proc[p])'
      BY <1>1, <1>2, <2>1, <2>2 DEF Way, Snapshotting
  <2> QED
      BY <1>1, <1>2, <1>5, <1>6, <1>7, <2>3, ProcMoves
<1>8. CASE proc' = [proc EXCEPT ![p] = Backups(k)!Idle]
    BY <1>1, <1>2, <1>6, <1>8, ProcStops
<1> QED
    BY <1>2, <1>7, <1>8

(* A step of a process that writes the directory.                          *)
LEMMA StoreMoves ==
    ASSUME NEW k, StoreBounds(k), StoreInv(k), NEW p \in Backups(k)!Procs, proc[p].at # "idle",
           UNCHANGED <<world, list>>, Counted(k)', NEW r \in ProcRecords(k), proc' = [proc EXCEPT ![p] = r],
           Way(k, p, proc[p])', backups' \in Seq(BackupRecords(k)), Len(backups) <= Len(backups'),
           KeptAll(k)',
           ShownAll(k)'
    PROVE  StoreInv(k)'
<1>1. proc \in [Backups(k)!Procs -> ProcRecords(k)] /\ Len(backups) \in Nat /\ Len(backups') \in Nat
    BY StoreFacts
<1>2. proc' \in [Backups(k)!Procs -> ProcRecords(k)] /\ \A q \in Backups(k)!Procs : q # p => proc'[q] = proc[q]
    BY <1>1, ProcSet
<1>3. \A q \in Backups(k)!Procs : q # p => proc[q].at = "idle" /\ proc'[q] = proc[q]
    BY <1>2, OthersIdle
<1>4. (\A q \in Backups(k)!Procs : Way(k, q, proc[q])') /\ Alone1(k)'
    BY <1>1, <1>3, WaysKept
<1>5. StoreTypes(k)'
    BY <1>2, StoreFacts DEF StoreTypes
<1> QED
    BY <1>4, <1>5 DEF StoreInv

(* One more backup.                                                        *)
LEMMA OneMore ==
    ASSUME NEW k, backups \in Seq(BackupRecords(k)), NEW b \in BackupRecords(k), backups' = Append(backups, b)
    PROVE  /\ backups' \in Seq(BackupRecords(k)) /\ Len(backups') = Len(backups) + 1
           /\ DOMAIN backups' = 1 .. (Len(backups) + 1) /\ DOMAIN backups \subseteq DOMAIN backups'
           /\ backups'[Len(backups) + 1] = b /\ \A i \in DOMAIN backups : backups'[i] = backups[i]
           /\ \A i \in DOMAIN backups : i \in Backups(k)!Readable' <=> i \in Backups(k)!Readable
           /\ Len(backups) \in Nat /\ DOMAIN backups = 1 .. Len(backups)
<1>1. Len(backups) \in Nat /\ DOMAIN backups = 1 .. Len(backups)
    OBVIOUS
<1>2. /\ backups' \in Seq(BackupRecords(k)) /\ Len(backups') = Len(backups) + 1
      /\ backups'[Len(backups) + 1] = b /\ \A i \in DOMAIN backups : backups'[i] = backups[i]
    BY <1>1
<1>3. DOMAIN backups' = 1 .. (Len(backups) + 1)
    BY <1>2
<1>4. DOMAIN backups \subseteq DOMAIN backups'
    BY <1>1, <1>3
<1>5. \A i \in DOMAIN backups : i \in Backups(k)!Readable' <=> i \in Backups(k)!Readable
    BY <1>2, <1>4 DEF Backups!Readable
<1> QED
    BY <1>1, <1>2, <1>3, <1>4, <1>5

LEMMA OneMoreKept ==
    ASSUME NEW k, StoreInv(k), NEW b \in BackupRecords(k), backups' = Append(backups, b), list' = list, Kept(k, b)
    PROVE  /\ KeptAll(k)'
           /\ ShownAll(k)'
           /\ \A s \in k.Screens : Len(backups) + 1 \notin DOMAIN list[s]
<1>1. backups \in Seq(BackupRecords(k))
    BY StoreFacts
<1>2. /\ Len(backups') = Len(backups) + 1
      /\ DOMAIN backups' = 1 .. (Len(backups) + 1) /\ DOMAIN backups \subseteq DOMAIN backups'
      /\ backups'[Len(backups) + 1] = b /\ \A i \in DOMAIN backups : backups'[i] = backups[i]
      /\ \A i \in DOMAIN backups : i \in Backups(k)!Readable' <=> i \in Backups(k)!Readable
      /\ Len(backups) \in Nat /\ DOMAIN backups = 1 .. Len(backups)
    BY <1>1, OneMore
<1>3. ASSUME NEW i \in DOMAIN backups' PROVE Kept(k, backups'[i])
  <2>1. CASE i \in DOMAIN backups
    <3>1. Kept(k, backups[i])
        BY <2>1 DEF StoreInv, KeptAll
    <3> QED
        BY <1>2, <2>1, <3>1
  <2>2. CASE i \notin DOMAIN backups
    <3>1. i = Len(backups) + 1
        BY <1>2, <1>3, <2>2
    <3> QED
        BY <1>2, <3>1
  <2> QED
      BY <2>1, <2>2
<1>4. ASSUME NEW s \in k.Screens, NEW i \in DOMAIN list[s]
      PROVE  Shown(k, i, list[s][i])' /\ i # Len(backups) + 1
  <2>1. Shown(k, i, list[s][i])
      BY DEF StoreInv, ShownAll
  <2>2. i \in DOMAIN backups
      BY <2>1 DEF Shown
  <2>3. i # Len(backups) + 1
      BY <1>2, <2>2
  <2>4. Shown(k, i, list[s][i])'
      BY <1>2, <2>1, <2>2, <2>3 DEF Shown
  <2> QED
      BY <2>3, <2>4
<1>5. KeptAll(k)'
    BY <1>3 DEF KeptAll
<1>6. ShownAll(k)'
    BY <1>4 DEF ShownAll
<1> QED
    BY <1>4, <1>5, <1>6

LEMMA StoredRecord ==
    ASSUME NEW k, NEW g \in BackupRecords(k), NEW x \in Sums(k), NEW a \in BOOLEAN
    PROVE  /\ Stored(g, x, a) \in BackupRecords(k) /\ Stored(g, x, a).dir /\ Stored(g, x, a).files = x
           /\ (Stored(g, x, a).archive <=> a) /\ Stored(g, x, a).manifest = g.manifest
           /\ Made(g) \in BackupRecords(k) /\ Made(g).dir /\ (Made(g).archive <=> g.archive)
           /\ Made(g).manifest = g.manifest
<1>1. /\ Stored(g, x, a) \in BackupRecords(k) /\ Stored(g, x, a).dir /\ Stored(g, x, a).files = x
      /\ (Stored(g, x, a).archive <=> a) /\ Stored(g, x, a).manifest = g.manifest
    BY DEF BackupRecords, Stored
<1>2. /\ Made(g) \in BackupRecords(k) /\ Made(g).dir /\ (Made(g).archive <=> g.archive)
      /\ Made(g).manifest = g.manifest
    BY DEF BackupRecords, Made
<1> QED
    BY <1>1, <1>2

LEMMA CreateKeeps ==
    ASSUME NEW k, StoreBounds(k), StoreInv(k), NEW p \in k.Runs, Backups(k)!Create(p)
    PROVE  StoreInv(k)'
<1> DEFINE x == Backups(k)!Regular(world)
           a == DOMAIN x # {}
           g == Backups(k)!Gone
           b == Stored(g, x, a)
           e == Made(g)
           n == Len(backups) + 1
           r == Created(proc[p], n, DOMAIN x)
           q == Moved(proc[p], "list")
<1>1. /\ proc \in [Backups(k)!Procs -> ProcRecords(k)] /\ p \in Backups(k)!Procs /\ proc[p] \in ProcRecords(k)
      /\ world \in StoreWorlds(k) /\ Way(k, p, proc[p]) /\ Counted(k) /\ backups \in Seq(BackupRecords(k))
      /\ Len(backups) \in Nat
    BY StoreFacts
<1>2. /\ proc[p].at = "create" /\ UNCHANGED <<world, list, edits, uses>>
      /\ faults' = faults \/ Backups(k)!Fault
      /\ \/ backups' = Append(backups, b) /\ proc' = [proc EXCEPT ![p] = r]
         \/ /\ backups' = Append(backups, e)
            /\ \/ proc' = [proc EXCEPT ![p] = Backups(k)!Idle]
               \/ proc[p].kind # "install" /\ proc' = [proc EXCEPT ![p] = q]
    BY <1>1 DEF Backups!Create, Created, Moved, Stored, Made
<1>3. x \in Sums(k) /\ DOMAIN x \in FileSets(k)
  <2>1. x \in Sums(k) /\ DOMAIN x = {f \in k.Files : world[f] # Absent}
      BY <1>1, RegularFiles
  <2> QED
      BY <2>1 DEF FileSets
<1>4. x = Backups(k)!Regular(world)
    OBVIOUS
<1> HIDE DEF x
<1>5. a \in BOOLEAN /\ g \in BackupRecords(k) /\ ~g.archive /\ g.manifest = Backups(k)!NoManifest
    BY GoneRecord
<1> HIDE DEF a, g
<1>6. /\ b \in BackupRecords(k) /\ b.dir /\ b.files = x /\ (b.archive <=> a) /\ b.manifest = g.manifest
      /\ e \in BackupRecords(k) /\ e.dir /\ (e.archive <=> g.archive) /\ e.manifest = g.manifest
    BY <1>3, <1>5, StoredRecord
<1> HIDE DEF b, e
<1>7. Backups(k)!NoManifest.state = "none"
    BY GoneRecord
<1>8. Kept(k, b) /\ Kept(k, e)
    BY <1>5, <1>6, <1>7 DEF Kept, a
<1>9. Counted(k)'
    BY <1>1, <1>2, FaultCounts
<1>10. CASE backups' = Append(backups, b) /\ proc' = [proc EXCEPT ![p] = r]
  <2>1. n \in Nat
      BY <1>1
  <2>2. /\ r \in ProcRecords(k) /\ r.at = "seal" /\ r.own = n /\ r.existed = DOMAIN x /\ r.kind = proc[p].kind
        /\ (r.copied <=> proc[p].copied) /\ r.start = proc[p].start
      BY <1>1, <1>3, <2>1, CreatedRecord
  <2> HIDE DEF r
  <2>3. /\ proc'[p].at = "seal" /\ proc'[p].own = n /\ proc'[p].existed = DOMAIN x /\ proc'[p].kind = proc[p].kind
        /\ (proc'[p].copied <=> proc[p].copied) /\ proc'[p].start = proc[p].start
      BY <1>1, <1>10, <2>2, ProcSet
  <2>4. /\ backups' \in Seq(BackupRecords(k)) /\ Len(backups') = Len(backups) + 1
        /\ DOMAIN backups' = 1 .. (Len(backups) + 1) /\ backups'[n] = b
      BY <1>1, <1>6, <1>10, OneMore
  <2>5. /\ KeptAll(k)'
        /\ ShownAll(k)'
        /\ \A s \in k.Screens : n \notin DOMAIN list[s]
      BY <1>2, <1>6, <1>8, <1>10, OneMoreKept
  <2>6. proc[p].start = world /\ proc[p].kind # "none" /\ ~proc[p].copied /\ p \in k.Runs
      BY <1>1, <1>2 DEF Way, Snapshotting
  <2>7. Own(k, proc[p])'
      BY <1>1, <1>2, <1>4, <1>6, <2>3, <2>4, <2>6 DEF Own, a
  <2>8. Way(k, p, proc[p])'
    <3>1. /\ n \in 0 .. Len(backups') /\ world' = world /\ list' = list /\ backups'[n].manifest.state = "none"
        BY <1>1, <1>2, <1>5, <1>6, <1>7, <2>4
    <3> QED
        BY <1>1, <2>3, <2>5, <2>6, <2>7, <3>1 DEF Way, Snapshotting
  <2>9. Len(backups) <= Len(backups') /\ proc[p].at # "idle" /\ UNCHANGED <<world, list>>
      BY <1>1, <1>2, <2>4
  <2> QED
      BY <1>1, <1>9, <1>10, <2>2, <2>4, <2>5, <2>8, <2>9, StoreMoves
<1>11. CASE /\ backups' = Append(backups, e)
            /\ \/ proc' = [proc EXCEPT ![p] = Backups(k)!Idle]
               \/ proc[p].kind # "install" /\ proc' = [proc EXCEPT ![p] = q]
  <2>1. /\ backups' \in Seq(BackupRecords(k)) /\ Len(backups') = Len(backups) + 1
      BY <1>1, <1>6, <1>11, OneMore
  <2>2. /\ KeptAll(k)'
        /\ ShownAll(k)'
      BY <1>2, <1>6, <1>8, <1>11, OneMoreKept
  <2>a. Len(backups) <= Len(backups') /\ proc[p].at # "idle" /\ UNCHANGED <<world, list>>
      BY <1>1, <1>2, <2>1
  <2>3. CASE proc' = [proc EXCEPT ![p] = Backups(k)!Idle]
    <3> DEFINE z == Backups(k)!Idle
    <3>1. z \in ProcRecords(k) /\ z.at = "idle" /\ z.own = 0
        BY IdleRecord
    <3>2. proc' = [proc EXCEPT ![p] = z]
        BY <2>3
    <3> HIDE DEF z
    <3>3. proc'[p].at = "idle" /\ proc'[p].own = 0
        BY <1>1, <3>1, <3>2, ProcSet
    <3>4. Way(k, p, proc[p])'
        BY <1>1, <2>1, <3>3 DEF Way, Snapshotting
    <3> QED
        BY <1>1, <1>9, <2>1, <2>2, <2>a, <3>1, <3>2, <3>4, StoreMoves
  <2>4. CASE proc[p].kind # "install" /\ proc' = [proc EXCEPT ![p] = q]
    <3>1. "list" \in Places
        BY DEF Places, Snapshotting
    <3>2. /\ q \in ProcRecords(k) /\ q.at = "list" /\ q.own = proc[p].own /\ q.kind = proc[p].kind
          /\ q.start = proc[p].start
        BY <1>1, <3>1, MovedRecord
    <3> HIDE DEF q
    <3>3. proc'[p].at = "list" /\ proc'[p].own = proc[p].own /\ proc'[p].kind = proc[p].kind /\ proc'[p].start = proc[p].start
        BY <1>1, <2>4, <3>2, ProcSet
    <3>4. /\ proc[p].own = 0 /\ proc[p].start = world /\ proc[p].kind # "none" /\ p \in k.Runs
        BY <1>1, <1>2 DEF Way, Snapshotting
    <3>5. Way(k, p, proc[p])'
        BY <1>1, <1>2, <2>1, <2>4, <3>3, <3>4 DEF Way, Snapshotting
    <3> QED
        BY <1>1, <1>9, <2>1, <2>2, <2>4, <2>a, <3>2, <3>5, StoreMoves
  <2> QED
      BY <1>11, <2>3, <2>4
<1> QED
    BY <1>2, <1>10, <1>11

(* A backup is written again, or removed.                                  *)
LEMMA OneWritten ==
    ASSUME NEW k, StoreInv(k), NEW i \in DOMAIN backups, NEW b \in BackupRecords(k),
           backups' = [backups EXCEPT ![i] = b], list' = list, Kept(k, b),
           \A s \in k.Screens : i \in DOMAIN list[s] => Shown(k, i, list[s][i])'
    PROVE  KeptAll(k)' /\ ShownAll(k)'
<1>1. backups \in Seq(BackupRecords(k))
    BY StoreFacts
<1>2. /\ Len(backups') = Len(backups) /\ DOMAIN backups' = DOMAIN backups
      /\ backups'[i] = b /\ \A j \in DOMAIN backups : j # i => backups'[j] = backups[j]
    BY <1>1, BackupSet
<1>3. KeptAll(k)'
  <2>1. \A j \in DOMAIN backups : Kept(k, backups[j])
      BY DEF StoreInv, KeptAll
  <2>2. \A j \in DOMAIN backups' : Kept(k, backups'[j])
      BY <1>2, <2>1
  <2> QED
      BY <2>2 DEF KeptAll
<1>4. ASSUME NEW s \in k.Screens, NEW j \in DOMAIN list[s], j # i PROVE Shown(k, j, list[s][j])'
  <2>1. Shown(k, j, list[s][j])
      BY DEF StoreInv, ShownAll
  <2>2. j \in DOMAIN backups
      BY <2>1 DEF Shown
  <2>3. backups'[j] = backups[j] /\ (j \in Backups(k)!Readable' <=> j \in Backups(k)!Readable)
      BY <1>2, <1>4, <2>2 DEF Backups!Readable
  <2> QED
      BY <1>2, <2>1, <2>2, <2>3 DEF Shown
<1>5. ShownAll(k)'
    BY <1>4 DEF ShownAll
<1> QED
    BY <1>3, <1>5

LEMMA SealKeeps ==
    ASSUME NEW k, StoreBounds(k), StoreInv(k), NEW p \in k.Runs, Backups(k)!Seal(p)
    PROVE  StoreInv(k)'
<1>a. PICK own : own = proc[p].own
    OBVIOUS
<1> DEFINE x == Backups(k)!Regular(world)
           m == Sealed(k, proc[p].existed, Backups(k)!Restrict(world, proc[p].existed))
           b == Written(backups[own], m)
           r == Moved(proc[p], "annotate")
<1>1. /\ proc \in [Backups(k)!Procs -> ProcRecords(k)] /\ p \in Backups(k)!Procs /\ proc[p] \in ProcRecords(k)
      /\ world \in StoreWorlds(k) /\ Way(k, p, proc[p]) /\ Counted(k) /\ backups \in Seq(BackupRecords(k))
      /\ Len(backups) \in Nat
    BY StoreFacts
<1>2. /\ proc[p].at = "seal" /\ UNCHANGED <<world, list, edits, faults, uses>>
      /\ backups' = [backups EXCEPT ![own] = b] /\ proc' = [proc EXCEPT ![p] = r]
    BY <1>1, <1>a DEF Backups!Seal, Backups!To, Backups!bounds, Sealed, Written, Moved
<1>3. /\ Own(k, proc[p]) /\ proc[p].start = world /\ p \in k.Runs /\ proc[p].kind # "none"
      /\ \A s \in k.Screens : own \notin DOMAIN list[s]
    BY <1>1, <1>2, <1>a DEF Way, Snapshotting
<1>4. /\ own \in DOMAIN backups /\ own = Len(backups) /\ backups[own].files = x
      /\ (backups[own].archive <=> DOMAIN x # {}) /\ proc[p].existed = DOMAIN x /\ ~proc[p].copied
    BY <1>3, <1>a DEF Own
<1>5. x \in Sums(k) /\ DOMAIN x \in FileSets(k) /\ Backups(k)!Restrict(world, DOMAIN x) = x
  <2>1. x \in Sums(k) /\ DOMAIN x = {f \in k.Files : world[f] # Absent} /\ Backups(k)!Restrict(world, DOMAIN x) = x
      BY <1>1, RegularFiles
  <2> QED
      BY <2>1 DEF FileSets
<1>6. m = Sealed(k, DOMAIN x, x)
    BY <1>4, <1>5
<1>7. x = Backups(k)!Regular(world)
    OBVIOUS
<1> HIDE DEF m, x
<1>8. m \in Manifests(k) /\ m.state = "ok" /\ m.sum = x /\ m.existed = DOMAIN x
    BY <1>5, <1>6, SealedManifest
<1>9. backups[own] \in BackupRecords(k)
    BY <1>1, <1>4
<1>10. /\ b \in BackupRecords(k) /\ b.dir /\ b.manifest = m /\ (b.archive <=> backups[own].archive)
       /\ b.files = backups[own].files
    BY <1>8, <1>9, WrittenRecord
<1> HIDE DEF b
<1>11. Kept(k, b)
    BY <1>4, <1>5, <1>8, <1>10 DEF Kept
<1>12. /\ backups' \in Seq(BackupRecords(k)) /\ Len(backups') = Len(backups) /\ DOMAIN backups' = DOMAIN backups
       /\ backups'[own] = b
    BY <1>1, <1>2, <1>4, <1>10, BackupSet
<1>13. KeptAll(k)' /\ ShownAll(k)'
  <2>1. list' = list /\ \A s \in k.Screens : own \in DOMAIN list[s] => Shown(k, own, list[s][own])'
      BY <1>2, <1>3
  <2> QED
      BY <1>2, <1>4, <1>10, <1>11, <2>1, OneWritten
<1>14. "annotate" \in Places
    BY DEF Places, Snapshotting
<1>15. /\ r \in ProcRecords(k) /\ r.at = "annotate" /\ r.own = own /\ r.existed = proc[p].existed /\ r.kind = proc[p].kind
       /\ (r.copied <=> proc[p].copied) /\ r.start = proc[p].start
    BY <1>1, <1>14, <1>a, MovedRecord
<1> HIDE DEF r
<1>16. /\ proc'[p].at = "annotate" /\ proc'[p].own = own /\ proc'[p].existed = DOMAIN x /\ proc'[p].kind = proc[p].kind
       /\ ~proc'[p].copied /\ proc'[p].start = world
    BY <1>1, <1>2, <1>3, <1>4, <1>15, ProcSet
<1>17. Own(k, proc[p])'
    BY <1>2, <1>4, <1>7, <1>10, <1>12, <1>16 DEF Own
<1>18. Way(k, p, proc[p])'
  <2>1. /\ own \in 0 .. Len(backups') /\ world' = world /\ list' = list /\ backups'[own].manifest.state = "ok"
        /\ backups'[own].manifest.sum = Backups(k)!Regular(world)
      BY <1>1, <1>2, <1>4, <1>7, <1>8, <1>10, <1>12
  <2> QED
      BY <1>1, <1>3, <1>16, <1>17, <2>1 DEF Way, Snapshotting
<1>19. Len(backups) <= Len(backups') /\ proc[p].at # "idle" /\ UNCHANGED <<world, list>> /\ Counted(k)'
    BY <1>1, <1>2, <1>12 DEF Counted
<1> QED
    BY <1>1, <1>2, <1>12, <1>13, <1>15, <1>18, <1>19, StoreMoves

LEMMA AnnotateKeeps ==
    ASSUME NEW k, StoreBounds(k), StoreInv(k), NEW p \in k.Runs, Backups(k)!Annotate(p)
    PROVE  StoreInv(k)'
<1>a. PICK own : own = proc[p].own
    OBVIOUS
<1>b. PICK m : m = backups[own].manifest
    OBVIOUS
<1> DEFINE am == Annotated(m)
           bm == Broken(m)
           w == Written(backups[own], am)
           t == Marked(backups[own], bm)
           r == Moved(proc[p], "list")
<1>1. /\ proc \in [Backups(k)!Procs -> ProcRecords(k)] /\ p \in Backups(k)!Procs /\ proc[p] \in ProcRecords(k)
      /\ Way(k, p, proc[p]) /\ Counted(k) /\ backups \in Seq(BackupRecords(k)) /\ Len(backups) \in Nat
    BY StoreFacts
<1>2. /\ proc[p].at = "annotate" /\ UNCHANGED <<world, list, edits, uses>> /\ (faults' = faults \/ Backups(k)!Fault)
      /\ \/ backups' = [backups EXCEPT ![own] = w]
         \/ backups' = [backups EXCEPT ![own] = t]
      /\ proc' = [proc EXCEPT ![p] = r]
  <2>1. proc[p].at = "annotate" /\ UNCHANGED <<world, list, edits, uses>> /\ (faults' = faults \/ Backups(k)!Fault)
      BY DEF Backups!Annotate
  <2>2. proc' = [proc EXCEPT ![p] = r]
      BY <1>1 DEF Backups!Annotate, Backups!To, Moved
  <2>3. \/ backups' = [backups EXCEPT ![own].dir = TRUE, ![own].manifest.state = "ok",
                                      ![own].manifest.pinned = FALSE, ![own].manifest.named = TRUE]
        \/ backups' = [backups EXCEPT ![own].manifest.state = "torn"]
      BY <1>a DEF Backups!Annotate
  <2>4. ASSUME backups' = [backups EXCEPT ![own].dir = TRUE, ![own].manifest.state = "ok",
                                      ![own].manifest.pinned = FALSE, ![own].manifest.named = TRUE]
        PROVE  backups' = [backups EXCEPT ![own] = w]
      BY <1>b, <2>4 DEF Written, Annotated
  <2>5. ASSUME backups' = [backups EXCEPT ![own].manifest.state = "torn"]
        PROVE  backups' = [backups EXCEPT ![own] = t]
      BY <1>b, <2>5 DEF Marked, Broken
  <2> QED
      BY <2>1, <2>2, <2>3, <2>4, <2>5
<1>3. /\ Own(k, proc[p]) /\ proc[p].start = world /\ p \in k.Runs /\ proc[p].kind # "none"
      /\ m.state = "ok" /\ \A s \in k.Screens : own \notin DOMAIN list[s]
    BY <1>1, <1>2, <1>a, <1>b DEF Way, Snapshotting
<1>4. /\ own \in DOMAIN backups /\ own = Len(backups) /\ backups[own].files = Backups(k)!Regular(world)
      /\ (backups[own].archive <=> DOMAIN Backups(k)!Regular(world) # {})
      /\ proc[p].existed = DOMAIN Backups(k)!Regular(world) /\ ~proc[p].copied
    BY <1>3, <1>a DEF Own
<1>5. Kept(k, backups[own])
    BY <1>4 DEF StoreInv, KeptAll
<1>6. m \in Manifests(k) /\ backups[own] \in BackupRecords(k)
    BY <1>1, <1>4, <1>b, ReadableOnes
<1>7. /\ am \in Manifests(k) /\ am.state = "ok" /\ am.sum = m.sum /\ am.existed = m.existed
      /\ bm \in Manifests(k) /\ bm.state = "torn" /\ bm.sum = m.sum /\ bm.existed = m.existed
    BY <1>6, OtherManifest
<1> HIDE DEF am, bm
<1>c. am \in Manifests(k) /\ bm \in Manifests(k)
    BY <1>7
<1>d. backups[own] \in BackupRecords(k)
    BY <1>6
<1>8. /\ w \in BackupRecords(k) /\ w.dir /\ w.manifest = am /\ (w.archive <=> backups[own].archive)
      /\ w.files = backups[own].files
    BY <1>c, <1>d, WrittenRecord
<1>9. /\ t \in BackupRecords(k) /\ (t.dir <=> backups[own].dir) /\ t.manifest = bm
      /\ (t.archive <=> backups[own].archive) /\ t.files = backups[own].files
    BY <1>c, <1>d, MarkedRecord
<1> HIDE DEF w, t
<1>10. Kept(k, w)
    BY <1>3, <1>5, <1>7, <1>8, <1>b DEF Kept
<1>11. Kept(k, t)
    BY <1>3, <1>5, <1>7, <1>9, <1>b DEF Kept
<1>12. PICK b \in {w, t} : backups' = [backups EXCEPT ![own] = b]
    BY <1>2
<1>13. /\ b \in BackupRecords(k) /\ Kept(k, b) /\ (b.archive <=> backups[own].archive) /\ b.files = backups[own].files
    BY <1>8, <1>9, <1>10, <1>11, <1>12
<1>14. /\ backups' \in Seq(BackupRecords(k)) /\ Len(backups') = Len(backups) /\ DOMAIN backups' = DOMAIN backups
       /\ backups'[own] = b
    BY <1>1, <1>4, <1>12, <1>13, BackupSet
<1>15. KeptAll(k)' /\ ShownAll(k)'
  <2>1. list' = list /\ \A s \in k.Screens : own \in DOMAIN list[s] => Shown(k, own, list[s][own])'
      BY <1>2, <1>3
  <2> QED
      BY <1>4, <1>12, <1>13, <2>1, OneWritten
<1>16. "list" \in Places
    BY DEF Places, Snapshotting
<1>17. /\ r \in ProcRecords(k) /\ r.at = "list" /\ r.own = own /\ r.existed = proc[p].existed /\ r.kind = proc[p].kind
       /\ (r.copied <=> proc[p].copied) /\ r.start = proc[p].start
    BY <1>1, <1>16, <1>a, MovedRecord
<1> HIDE DEF r
<1>18. /\ proc'[p].at = "list" /\ proc'[p].own = own /\ proc'[p].existed = DOMAIN Backups(k)!Regular(world)
       /\ proc'[p].kind = proc[p].kind /\ ~proc'[p].copied /\ proc'[p].start = world
    BY <1>1, <1>2, <1>3, <1>4, <1>17, ProcSet
<1>19. Own(k, proc[p])'
    BY <1>2, <1>4, <1>13, <1>14, <1>18 DEF Own
<1>20. Way(k, p, proc[p])'
  <2>1. /\ own \in 0 .. Len(backups') /\ world' = world /\ list' = list /\ world \in StoreWorlds(k)
      BY <1>1, <1>2, <1>4, <1>14, StoreFacts
  <2> QED
      BY <1>1, <1>3, <1>18, <1>19, <2>1 DEF Way, Snapshotting
<1>21. Counted(k)'
    BY <1>1, <1>2, FaultCounts
<1>22. Len(backups) <= Len(backups') /\ proc[p].at # "idle" /\ UNCHANGED <<world, list>>
    BY <1>1, <1>2, <1>14
<1> QED
    BY <1>1, <1>2, <1>14, <1>15, <1>17, <1>20, <1>21, <1>22, StoreMoves

(* A nonempty set of naturals has a least element.                         *)
LEMMA LeastNatural ==
    ASSUME NEW T \in SUBSET Nat, T # {}
    PROVE  \E x \in T : \A y \in T : x <= y
<1>1. IsWellFoundedOn(OpToRel(<, Nat), Nat)
    BY NatLessThanWellFounded
<1>2. PICK x \in T : \A y \in T : ~ (<<y, x>> \in OpToRel(<, Nat))
    BY <1>1, WFMin
<1>3. \A y \in T : ~(y < x)
    BY <1>2 DEF OpToRel
<1> QED
    BY <1>3

(* A nonempty bounded set of naturals has a greatest element.              *)
LEMMA GreatestNatural ==
    ASSUME NEW n \in Nat, NEW T \in SUBSET (0 .. n), T # {}
    PROVE  \E x \in T : \A y \in T : y <= x
<1> DEFINE U == {n - t : t \in T}
<1>0. U \in SUBSET Nat
    OBVIOUS
<1>1. U \in SUBSET Nat /\ U # {}
    BY <1>0
<1>2. PICK u \in U : \A v \in U : u <= v
    BY <1>1, LeastNatural
<1>3. PICK x \in T : u = n - x
    OBVIOUS
<1>4. \A y \in T : n - x <= n - y
    BY <1>2, <1>3
<1> QED
    BY <1>4

(* Of some of the backups there is the last.                               *)
LEMMA LastOne ==
    ASSUME NEW k, backups \in Seq(BackupRecords(k)), NEW V \in SUBSET DOMAIN backups, V # {}
    PROVE  Backups(k)!Max(V) \in V /\ \A v \in V : v <= Backups(k)!Max(V)
<1>1. Len(backups) \in Nat /\ DOMAIN backups = 1 .. Len(backups)
    OBVIOUS
<1>2. V \in SUBSET (0 .. Len(backups))
    BY <1>1
<1>3. \E n \in V : \A v \in V : v <= n
    BY <1>1, <1>2, GreatestNatural
<1>4. Backups(k)!Max(V) = CHOOSE x \in V : \A y \in V : x >= y
    BY DEF Backups!Max
<1>5. PICK n \in V : \A v \in V : n >= v
    BY <1>2, <1>3
<1>6. Backups(k)!Max(V) \in V /\ \A v \in V : Backups(k)!Max(V) >= v
    BY <1>4, <1>5
<1> QED
    BY <1>2, <1>6

LEMMA SameSize ==
    ASSUME NEW k, NEW S
    PROVE  Backups(k)!Cardinality(S) = Cardinality(S)
BY DEF Backups!Cardinality, Cardinality

LEMMA ListManifestsKeeps ==
    ASSUME NEW k, StoreBounds(k), StoreInv(k), NEW p \in k.Runs, Backups(k)!ListManifests(p)
    PROVE  StoreInv(k)'
<1>a. PICK V : V = Backups(k)!Victims
    OBVIOUS
<1> DEFINE S == {i \in Backups(k)!Readable : ~Backups(k)!Pinned(i)}
           r == Chose(proc[p], V)
<1>1. /\ proc \in [Backups(k)!Procs -> ProcRecords(k)] /\ p \in Backups(k)!Procs /\ proc[p] \in ProcRecords(k)
      /\ world \in StoreWorlds(k) /\ Way(k, p, proc[p]) /\ Counted(k) /\ backups \in Seq(BackupRecords(k))
    BY StoreFacts
<1>2. /\ proc[p].at = "list" /\ UNCHANGED <<world, backups, list, edits, faults, uses>>
      /\ proc' = [proc EXCEPT ![p] = r]
    BY <1>1, <1>a DEF Backups!ListManifests, Backups!bounds, Chose
<1>3. S \subseteq DOMAIN backups /\ DOMAIN backups \subseteq Nat
    BY <1>1, ReadableOnes
<1>4. /\ V \subseteq S
      /\ \A i \in V : Backups(k)!Cardinality({j \in S : j > i}) >= k.Keep
  <2>1. Backups(k)!Victims = Backups(k)!Excess(S)
      BY DEF Backups!Victims
  <2> HIDE DEF S
  <2> QED
      BY <1>a, <2>1 DEF Backups!Excess
<1>5. V \in IndexSets
    BY <1>3, <1>4 DEF IndexSets
<1>6. /\ r \in ProcRecords(k) /\ r.at = "prune" /\ r.own = proc[p].own /\ r.kind = proc[p].kind /\ r.victims = V
      /\ (r.copied <=> proc[p].copied) /\ r.existed = proc[p].existed /\ r.start = proc[p].start
    BY <1>1, <1>5, ChoseRecord
<1> HIDE DEF r
<1>7. /\ proc'[p].at = "prune" /\ proc'[p].own = proc[p].own /\ proc'[p].kind = proc[p].kind
      /\ proc'[p].victims = V /\ (proc'[p].copied <=> proc[p].copied) /\ proc'[p].existed = proc[p].existed
      /\ proc'[p].start = proc[p].start
    BY <1>1, <1>2, <1>6, ProcSet
<1>8. /\ proc[p].start = world /\ proc[p].kind # "none" /\ p \in k.Runs /\ proc[p].own \in 0 .. Len(backups)
      /\ proc[p].own # 0 \/ proc[p].kind = "install" => Own(k, proc[p])
    BY <1>1, <1>2 DEF Way, Snapshotting
<1>9. Backups(k)!Readable' = Backups(k)!Readable /\ \A v : Backups(k)!Pinned(v)' <=> Backups(k)!Pinned(v)
    BY <1>2 DEF Backups!Readable, Backups!Pinned
<1>10. ASSUME V # {} PROVE Newer(k, proc[p])' /\ \A v \in V : v \in Backups(k)!Readable' /\ ~Backups(k)!Pinned(v)'
  <2>1. PICK n \in V : \A v \in V : v <= n
    <3>1. V \in SUBSET DOMAIN backups
        BY <1>3, <1>4
    <3> QED
        BY <1>1, <1>10, <3>1, LastOne
  <2> DEFINE T == {j \in S : j > n}
  <2>2. Backups(k)!Cardinality(T) >= k.Keep
      BY <1>4
  <2>3. T \in SUBSET DOMAIN backups /\ \A t \in T : t \in S /\ \A v \in V : v < t
      BY <1>3, <1>4, <2>1
  <2> HIDE DEF T
  <2>4. \A t \in T : t \in Backups(k)!Readable' /\ ~Backups(k)!Pinned(t)'
      BY <1>9, <2>3
  <2>5. Newer(k, proc[p])'
      BY <1>2, <1>7, <2>2, <2>3, <2>4 DEF Newer
  <2>6. \A v \in V : v \in Backups(k)!Readable' /\ ~Backups(k)!Pinned(v)'
      BY <1>4, <1>9
  <2> QED
      BY <2>5, <2>6
<1>11. proc[p].own # 0 \/ proc[p].kind = "install" => Own(k, proc[p])'
    BY <1>2, <1>7, <1>8 DEF Own
<1>12. Way(k, p, proc[p])'
    BY <1>1, <1>2, <1>7, <1>8, <1>10, <1>11 DEF Way, Snapshotting
<1>13. proc[p].at # "idle" /\ UNCHANGED <<backups, list>> /\ world' \in StoreWorlds(k) /\ Counted(k)'
    BY <1>1, <1>2 DEF Counted
<1> QED
    BY <1>1, <1>2, <1>6, <1>12, <1>13, ProcMoves

(* A backup is gone that is not the last.                                  *)
LEMMA OneGone ==
    ASSUME NEW k, StoreBounds(k), StoreInv(k), NEW i \in DOMAIN backups, i # Len(backups),
           backups' = [backups EXCEPT ![i] = Backups(k)!Gone], list' = list
    PROVE  /\ KeptAll(k)' /\ ShownAll(k)' /\ backups' \in Seq(BackupRecords(k))
           /\ Len(backups') = Len(backups) /\ DOMAIN backups' = DOMAIN backups
           /\ i \notin Backups(k)!Readable'
           /\ \A j \in DOMAIN backups : j # i =>
                backups'[j] = backups[j] /\ (j \in Backups(k)!Readable' <=> j \in Backups(k)!Readable)
<1> DEFINE g == Backups(k)!Gone
<1>1. backups \in Seq(BackupRecords(k))
    BY StoreFacts
<1>2. g \in BackupRecords(k) /\ ~g.dir /\ ~g.archive /\ g.manifest.state = "none"
    BY GoneRecord
<1>3. backups' = [backups EXCEPT ![i] = g]
    OBVIOUS
<1> HIDE DEF g
<1>4. /\ backups' \in Seq(BackupRecords(k)) /\ Len(backups') = Len(backups) /\ DOMAIN backups' = DOMAIN backups
      /\ backups'[i] = g /\ \A j \in DOMAIN backups : j # i => backups'[j] = backups[j]
    BY <1>1, <1>2, <1>3, BackupSet
<1>5. i \notin Backups(k)!Readable'
    BY <1>2, <1>4 DEF Backups!Readable
<1>6. \A j \in DOMAIN backups : j # i => (j \in Backups(k)!Readable' <=> j \in Backups(k)!Readable)
    BY <1>4 DEF Backups!Readable
<1>7. Kept(k, g)
    BY <1>2 DEF Kept
<1>8. ASSUME NEW s \in k.Screens, i \in DOMAIN list[s] PROVE Shown(k, i, list[s][i])'
  <2>1. Shown(k, i, list[s][i])
      BY <1>8 DEF StoreInv, ShownAll
  <2> QED
      BY <1>2, <1>4, <1>5, <2>1 DEF Shown
<1>9. KeptAll(k)' /\ ShownAll(k)'
    BY <1>2, <1>3, <1>7, <1>8, OneWritten
<1> QED
    BY <1>4, <1>5, <1>6, <1>9

LEMMA PruneKeeps ==
    ASSUME NEW k, StoreBounds(k), StoreInv(k), NEW p \in k.Runs, Backups(k)!Prune(p)
    PROVE  StoreInv(k)'
<1>a. PICK V : V = proc[p].victims
    OBVIOUS
<1>b. PICK n : n = Backups(k)!Max(V)
    OBVIOUS
<1>c. PICK U : U = V \ {n}
    OBVIOUS
<1> DEFINE r == Moved(proc[p], "apply")
           q == Spared(proc[p], U)
<1>1. /\ proc \in [Backups(k)!Procs -> ProcRecords(k)] /\ p \in Backups(k)!Procs /\ proc[p] \in ProcRecords(k)
      /\ world \in StoreWorlds(k) /\ Way(k, p, proc[p]) /\ Counted(k) /\ backups \in Seq(BackupRecords(k))
      /\ Len(backups) \in Nat
    BY StoreFacts
<1>2. /\ proc[p].at = "prune" /\ UNCHANGED <<world, list, edits, uses>> /\ (faults' = faults \/ Backups(k)!Fault)
    BY DEF Backups!Prune
<1>3. \/ /\ UNCHANGED backups
         /\ \/ proc[p].kind = "install" /\ proc' = [proc EXCEPT ![p] = r]
            \/ proc' = [proc EXCEPT ![p] = Backups(k)!Idle]
      \/ /\ V # {} /\ proc' = [proc EXCEPT ![p] = q]
         /\ UNCHANGED backups \/ backups' = [backups EXCEPT ![n] = Backups(k)!Gone]
    BY <1>1, <1>a, <1>b, <1>c DEF Backups!Prune, Moved, Spared
<1>4. /\ proc[p].start = world /\ proc[p].kind # "none" /\ p \in k.Runs /\ proc[p].own \in 0 .. Len(backups)
      /\ proc[p].own # 0 \/ proc[p].kind = "install" => Own(k, proc[p])
      /\ V # {} => Newer(k, proc[p]) /\ \A v \in V : v \in Backups(k)!Readable /\ ~Backups(k)!Pinned(v)
    BY <1>1, <1>2, <1>a DEF Way, Snapshotting
<1>5. Counted(k)'
    BY <1>1, <1>2, FaultCounts
<1>6. V \in IndexSets
    BY <1>1, <1>a DEF ProcRecords
<1>7. CASE UNCHANGED backups /\ proc[p].kind = "install" /\ proc' = [proc EXCEPT ![p] = r]
  <2>1. "apply" \in Places
      BY DEF Places, Snapshotting
  <2>2. /\ r \in ProcRecords(k) /\ r.at = "apply" /\ r.own = proc[p].own /\ r.kind = proc[p].kind
        /\ (r.copied <=> proc[p].copied) /\ r.existed = proc[p].existed /\ r.start = proc[p].start
      BY <1>1, <2>1, MovedRecord
  <2> HIDE DEF r
  <2>3. /\ proc'[p].at = "apply" /\ proc'[p].own = proc[p].own /\ proc'[p].kind = proc[p].kind
        /\ (proc'[p].copied <=> proc[p].copied) /\ proc'[p].existed = proc[p].existed /\ proc'[p].start = proc[p].start
      BY <1>1, <1>7, <2>2, ProcSet
  <2>4. Own(k, proc[p])'
      BY <1>4, <1>7, <2>3 DEF Own
  <2>5. Way(k, p, proc[p])'
      BY <1>1, <1>2, <1>4, <1>7, <2>3, <2>4 DEF Way, Snapshotting
  <2>6. proc[p].at # "idle" /\ UNCHANGED <<backups, list>> /\ world' \in StoreWorlds(k)
      BY <1>1, <1>2, <1>7
  <2> QED
      BY <1>1, <1>5, <1>7, <2>2, <2>5, <2>6, ProcMoves
<1>8. CASE UNCHANGED backups /\ proc' = [proc EXCEPT ![p] = Backups(k)!Idle]
    BY <1>1, <1>2, <1>5, <1>8, ProcStops
<1>9. CASE /\ V # {} /\ proc' = [proc EXCEPT ![p] = q]
           /\ UNCHANGED backups \/ backups' = [backups EXCEPT ![n] = Backups(k)!Gone]
  <2>1. U \in IndexSets
      BY <1>6, <1>c DEF IndexSets
  <2>2. /\ q \in ProcRecords(k) /\ q.at = proc[p].at /\ q.own = proc[p].own /\ q.kind = proc[p].kind
        /\ q.victims = U
        /\ (q.copied <=> proc[p].copied) /\ q.existed = proc[p].existed /\ q.start = proc[p].start
      BY <1>1, <2>1, SparedRecord
  <2> HIDE DEF q
  <2>3. /\ proc'[p].at = "prune" /\ proc'[p].own = proc[p].own /\ proc'[p].kind = proc[p].kind
        /\ proc'[p].victims = V \ {n}
        /\ (proc'[p].copied <=> proc[p].copied) /\ proc'[p].existed = proc[p].existed /\ proc'[p].start = proc[p].start
      BY <1>1, <1>2, <1>9, <1>c, <2>2, ProcSet
  <2>4. PICK T \in SUBSET DOMAIN backups :
          /\ Backups(k)!Cardinality(T) >= k.Keep
          /\ \A t \in T : t \in Backups(k)!Readable /\ ~Backups(k)!Pinned(t) /\ \A v \in V : v < t
      BY <1>4, <1>9, <1>a DEF Newer
  <2>5. V \in SUBSET DOMAIN backups
      BY <1>1, <1>4, <1>9, ReadableOnes
  <2>6. n \in V /\ n \in DOMAIN backups
      BY <1>1, <1>9, <1>b, <2>5, LastOne
  <2>7. T # {}
    <3>1. Cardinality({}) = 0
        BY FS_EmptySet
    <3>2. Backups(k)!Cardinality({}) = 0
        BY <3>1, SameSize
    <3> QED
        BY <2>4, <3>2 DEF StoreBounds
  <2>8. n # Len(backups) /\ n \notin T
    <3>1. DOMAIN backups = 1 .. Len(backups)
        BY <1>1
    <3> QED
        BY <2>4, <2>6, <2>7, <3>1
  <2>9. /\ KeptAll(k)' /\ ShownAll(k)' /\ backups' \in Seq(BackupRecords(k))
        /\ Len(backups') = Len(backups) /\ DOMAIN backups' = DOMAIN backups
        /\ \A j \in DOMAIN backups : j # n =>
             backups'[j] = backups[j] /\ (j \in Backups(k)!Readable' <=> j \in Backups(k)!Readable)
    <3>1. CASE UNCHANGED backups
      <4>1. Backups(k)!Readable' = Backups(k)!Readable
          BY <3>1 DEF Backups!Readable
      <4>2. KeptAll(k)' /\ ShownAll(k)'
          BY <1>2, <3>1, SameStore
      <4> QED
          BY <1>1, <3>1, <4>1, <4>2
    <3>2. CASE backups' = [backups EXCEPT ![n] = Backups(k)!Gone]
        BY <1>2, <2>6, <2>8, <3>2, OneGone
    <3> QED
        BY <1>9, <3>1, <3>2
  <2>10. \A j \in DOMAIN backups : j # n => (Backups(k)!Pinned(j)' <=> Backups(k)!Pinned(j))
      BY <2>9 DEF Backups!Pinned
  <2>11. proc[p].own # 0 \/ proc[p].kind = "install" => Own(k, proc[p])'
      BY <1>2, <1>4, <2>3, <2>8, <2>9 DEF Own
  <2>12. Newer(k, proc[p])'
    <3>1. T \in SUBSET DOMAIN backups' /\ Backups(k)!Cardinality(T) >= k.Keep
        BY <2>4, <2>9
    <3>2. ASSUME NEW t \in T
          PROVE  t \in Backups(k)!Readable' /\ ~Backups(k)!Pinned(t)' /\ \A v \in proc'[p].victims : v < t
        BY <2>3, <2>4, <2>8, <2>9, <2>10
    <3> QED
        BY <3>1, <3>2 DEF Newer
  <2>13. \A v \in V \ {n} : v \in Backups(k)!Readable' /\ ~Backups(k)!Pinned(v)'
      BY <1>4, <1>9, <2>5, <2>9, <2>10
  <2>14. Way(k, p, proc[p])'
      BY <1>1, <1>2, <1>4, <2>3, <2>9, <2>11, <2>12, <2>13 DEF Way, Snapshotting
  <2>15. Len(backups) <= Len(backups') /\ proc[p].at # "idle" /\ UNCHANGED <<world, list>>
      BY <1>1, <1>2, <2>9
  <2> QED
      BY <1>1, <1>5, <1>9, <2>2, <2>9, <2>14, <2>15, StoreMoves
<1> QED
    BY <1>3, <1>7, <1>8, <1>9

LEMMA StoreApplyKeeps ==
    ASSUME NEW k, StoreBounds(k), StoreInv(k), NEW p \in k.Runs, Backups(k)!Apply(p)
    PROVE  StoreInv(k)'
<1> DEFINE r == Moved(proc[p], "extract")
<1>1. /\ proc \in [Backups(k)!Procs -> ProcRecords(k)] /\ p \in Backups(k)!Procs /\ proc[p] \in ProcRecords(k)
      /\ world \in StoreWorlds(k) /\ Way(k, p, proc[p]) /\ Counted(k)
    BY StoreFacts
<1>2. /\ proc[p].at = "apply" /\ UNCHANGED <<backups, list, edits, faults, uses>>
      /\ \/ proc' = [proc EXCEPT ![p] = Backups(k)!Idle]
         \/ proc' = [proc EXCEPT ![p] = r]
    BY <1>1 DEF Backups!Apply, Backups!bounds, Moved
<1>3. world' \in StoreWorlds(k)
  <2>1. PICK S : world' = [f \in k.Files |-> IF f \in S THEN Backups(k)!Managed ELSE world[f]]
      BY DEF Backups!Apply
  <2>2. Backups(k)!Managed \in FileContents(k)
      BY DEF Backups!Managed, FileContents, StoreBounds
  <2> QED
      BY <1>1, <2>1, <2>2 DEF StoreWorlds
<1>4. Counted(k)' /\ proc[p].at # "idle"
    BY <1>1, <1>2 DEF Counted
<1>5. CASE proc' = [proc EXCEPT ![p] = Backups(k)!Idle]
    BY <1>1, <1>2, <1>3, <1>4, <1>5, ProcStops
<1>6. CASE proc' = [proc EXCEPT ![p] = r]
  <2>1. "extract" \in Places
      BY DEF Places
  <2>2. /\ r \in ProcRecords(k) /\ r.at = "extract" /\ r.own = proc[p].own /\ r.files = proc[p].files
        /\ (r.copied <=> proc[p].copied) /\ r.existed = proc[p].existed /\ r.start = proc[p].start
      BY <1>1, <2>1, MovedRecord
  <2> HIDE DEF r
  <2>3. /\ proc'[p].at = "extract" /\ proc'[p].own = proc[p].own /\ proc'[p].files = proc[p].files
        /\ (proc'[p].copied <=> proc[p].copied) /\ proc'[p].existed = proc[p].existed /\ proc'[p].start = proc[p].start
      BY <1>1, <1>6, <2>2, ProcSet
  <2>4. /\ proc[p].start \in StoreWorlds(k) /\ proc[p].own \in 0 .. Len(backups)
        /\ \/ Own(k, proc[p])
           \/ /\ proc[p].copied /\ proc[p].files = Backups(k)!Regular(proc[p].start)
              /\ proc[p].existed = DOMAIN proc[p].files
      BY <1>1, <1>2 DEF Way, Snapshotting
  <2>5. Own(k, proc[p]) => Own(k, proc[p])'
      BY <1>2, <2>3 DEF Own
  <2>6. Backups(k)!Regular(proc[p].start) = Backups(k)!Regular(proc'[p].start)
      BY <2>3
  <2>7. Way(k, p, proc[p])'
      BY <1>1, <1>2, <2>3, <2>4, <2>5, <2>6 DEF Way, Snapshotting
  <2> QED
      BY <1>1, <1>2, <1>3, <1>4, <1>6, <2>2, <2>7, ProcMoves
<1> QED
    BY <1>2, <1>5, <1>6

LEMMA ExtractKeeps ==
    ASSUME NEW k, StoreBounds(k), StoreInv(k), NEW p \in Backups(k)!Procs, Backups(k)!Extract(p)
    PROVE  StoreInv(k)'
<1>a. PICK own : own = proc[p].own
    OBVIOUS
<1>b. PICK x : x = backups[own].files
    OBVIOUS
<1> DEFINE r == Unpacking(proc[p], k.Files)
           q == Extracted(proc[p], k.Files, x)
           z == Moved(proc[p], "failed")
<1>1. /\ proc \in [Backups(k)!Procs -> ProcRecords(k)] /\ proc[p] \in ProcRecords(k)
      /\ world \in StoreWorlds(k) /\ Way(k, p, proc[p]) /\ Counted(k) /\ backups \in Seq(BackupRecords(k))
    BY StoreFacts
<1>2. /\ proc[p].at = "extract" /\ UNCHANGED <<world, backups, list, edits, faults, uses>>
      /\ \/ (proc[p].copied \/ proc[p].existed = {}) /\ proc' = [proc EXCEPT ![p] = r]
         \/ /\ ~proc[p].copied /\ proc[p].existed # {} /\ backups[own].archive /\ proc' = [proc EXCEPT ![p] = q]
         \/ proc' = [proc EXCEPT ![p] = z]
    BY <1>1, <1>a, <1>b DEF Backups!Extract, Backups!bounds, Backups!To, Unpacking, Extracted, Moved
<1>3. k.Files \in FileSets(k)
    BY DEF FileSets
<1>4. /\ proc[p].own \in 0 .. Len(backups)
      /\ p \in k.Runs =>
           /\ proc[p].start \in StoreWorlds(k)
           /\ \/ Own(k, proc[p])
              \/ /\ proc[p].copied /\ proc[p].files = Backups(k)!Regular(proc[p].start)
                 /\ proc[p].existed = DOMAIN proc[p].files
      /\ p \notin k.Runs =>
           /\ ~proc[p].copied /\ own \in DOMAIN backups
           /\ backups[own].archive => proc[p].existed = DOMAIN backups[own].files
    BY <1>1, <1>2, <1>a DEF Way, Snapshotting
<1>5. Own(k, proc[p]) =>
        /\ own \in DOMAIN backups /\ backups[own].files = Backups(k)!Regular(proc[p].start)
        /\ proc[p].existed = DOMAIN Backups(k)!Regular(proc[p].start) /\ ~proc[p].copied
    BY <1>a DEF Own
<1>6. Counted(k)' /\ proc[p].at # "idle" /\ UNCHANGED <<backups, list>> /\ world' \in StoreWorlds(k)
    BY <1>1, <1>2 DEF Counted
<1>7. CASE (proc[p].copied \/ proc[p].existed = {}) /\ proc' = [proc EXCEPT ![p] = r]
  <2>1. /\ r \in ProcRecords(k) /\ r.at = "restore" /\ r.own = proc[p].own /\ r.files = proc[p].files
        /\ r.existed = proc[p].existed /\ r.start = proc[p].start /\ r.todo = k.Files
      BY <1>1, <1>3, UnpackingRecord
  <2> HIDE DEF r
  <2>2. /\ proc'[p].at = "restore" /\ proc'[p].own = proc[p].own /\ proc'[p].files = proc[p].files
        /\ proc'[p].existed = proc[p].existed /\ proc'[p].start = proc[p].start /\ proc'[p].todo = k.Files
      BY <1>1, <1>7, <2>1, ProcSet
  <2>3. proc[p].existed # {} => proc[p].existed = DOMAIN proc[p].files
      BY <1>4, <1>5, <1>7
  <2>4. p \in k.Runs =>
          /\ proc[p].start \in StoreWorlds(k) /\ proc[p].existed = DOMAIN Backups(k)!Regular(proc[p].start)
          /\ proc[p].existed # {} => proc[p].files = Backups(k)!Regular(proc[p].start)
      BY <1>4, <1>5, <1>7
  <2>5. Way(k, p, proc[p])'
      BY <1>2, <1>4, <2>2, <2>3, <2>4 DEF Way, Snapshotting
  <2> QED
      BY <1>1, <1>6, <1>7, <2>1, <2>5, ProcMoves
<1>8. CASE ~proc[p].copied /\ proc[p].existed # {} /\ backups[own].archive /\ proc' = [proc EXCEPT ![p] = q]
  <2>1. own \in DOMAIN backups
      BY <1>4, <1>5, <1>8
  <2>2. x \in Sums(k)
    <3>1. backups[own] \in BackupRecords(k)
        BY <1>1, <2>1
    <3> QED
        BY <1>b, <3>1 DEF BackupRecords
  <2>3. /\ q \in ProcRecords(k) /\ q.at = "restore" /\ q.own = proc[p].own /\ q.files = x
        /\ q.existed = proc[p].existed /\ q.start = proc[p].start /\ q.todo = k.Files
      BY <1>1, <1>3, <2>2, ExtractedRecord
  <2> HIDE DEF q
  <2>4. /\ proc'[p].at = "restore" /\ proc'[p].own = proc[p].own /\ proc'[p].files = x
        /\ proc'[p].existed = proc[p].existed /\ proc'[p].start = proc[p].start /\ proc'[p].todo = k.Files
      BY <1>1, <1>8, <2>3, ProcSet
  <2>5. proc[p].existed = DOMAIN x
      BY <1>4, <1>5, <1>8, <1>b
  <2>6. p \in k.Runs =>
          /\ proc[p].start \in StoreWorlds(k) /\ proc[p].existed = DOMAIN Backups(k)!Regular(proc[p].start)
          /\ x = Backups(k)!Regular(proc[p].start)
      BY <1>4, <1>5, <1>8, <1>b
  <2>7. Way(k, p, proc[p])'
      BY <1>2, <1>4, <2>4, <2>5, <2>6 DEF Way, Snapshotting
  <2> QED
      BY <1>1, <1>6, <1>8, <2>3, <2>7, ProcMoves
<1>9. CASE proc' = [proc EXCEPT ![p] = z]
  <2>1. "failed" \in Places
      BY DEF Places
  <2>2. z \in ProcRecords(k) /\ z.at = "failed" /\ z.own = proc[p].own
      BY <1>1, <2>1, MovedRecord
  <2> HIDE DEF z
  <2>3. proc'[p].at = "failed" /\ proc'[p].own = proc[p].own
      BY <1>1, <1>9, <2>2, ProcSet
  <2>4. Way(k, p, proc[p])'
      BY <1>2, <1>4, <2>3 DEF Way, Snapshotting
  <2> QED
      BY <1>1, <1>6, <1>9, <2>2, <2>4, ProcMoves
<1> QED
    BY <1>2, <1>7, <1>8, <1>9

(* An entry that is restored is as it was, also when there was none.       *)
LEMMA StoreRestoreKeeps ==
    ASSUME NEW k, StoreBounds(k), StoreInv(k), NEW p \in Backups(k)!Procs, Backups(k)!Restore(p)
    PROVE  StoreInv(k)'
<1> DEFINE z == Moved(proc[p], "failed")
           d == Moved(proc[p], "restored")
<1>1. /\ proc \in [Backups(k)!Procs -> ProcRecords(k)] /\ proc[p] \in ProcRecords(k)
      /\ world \in StoreWorlds(k) /\ Way(k, p, proc[p]) /\ Counted(k)
    BY StoreFacts
<1>2. /\ proc[p].at = "restore" /\ UNCHANGED <<backups, list, edits, uses>> /\ (faults' = faults \/ Backups(k)!Fault)
    BY DEF Backups!Restore
<1>3. \/ proc[p].todo = {} /\ proc' = [proc EXCEPT ![p] = d] /\ UNCHANGED world
      \/ proc' = [proc EXCEPT ![p] = z] /\ UNCHANGED world
      \/ \E f \in proc[p].todo : /\ world' = [world EXCEPT ![f] = Backups(k)!Restored(p, f)]
                                /\ proc' = [proc EXCEPT ![p] = Remaining(proc[p], proc[p].todo \ {f})]
    BY <1>1 DEF Backups!Restore, Backups!To, Moved, Remaining
<1>4. /\ proc[p].own \in 0 .. Len(backups)
      /\ proc[p].existed # {} => proc[p].existed = DOMAIN proc[p].files
      /\ p \in k.Runs =>
           /\ proc[p].start \in StoreWorlds(k) /\ proc[p].existed = DOMAIN Backups(k)!Regular(proc[p].start)
           /\ proc[p].existed # {} => proc[p].files = Backups(k)!Regular(proc[p].start)
           /\ \A f \in k.Files \ proc[p].todo : world[f] = proc[p].start[f]
    BY <1>1, <1>2 DEF Way, Snapshotting
<1>5. /\ Counted(k)' /\ proc[p].at # "idle" /\ UNCHANGED <<backups, list>>
    BY <1>1, <1>2, FaultCounts
<1>6. CASE proc[p].todo = {} /\ proc' = [proc EXCEPT ![p] = d] /\ UNCHANGED world
  <2>1. "restored" \in Places
      BY DEF Places
  <2>2. d \in ProcRecords(k) /\ d.at = "restored" /\ d.own = proc[p].own /\ d.start = proc[p].start
      BY <1>1, <2>1, MovedRecord
  <2> HIDE DEF d
  <2>3. proc'[p].at = "restored" /\ proc'[p].own = proc[p].own /\ proc'[p].start = proc[p].start
      BY <1>1, <1>6, <2>2, ProcSet
  <2>4. p \in k.Runs => world = proc[p].start
    <3>1. p \in k.Runs => \A f \in k.Files : world[f] = proc[p].start[f]
        BY <1>4, <1>6
    <3> QED
        BY <1>1, <1>4, <3>1 DEF StoreWorlds
  <2>5. Way(k, p, proc[p])'
      BY <1>2, <1>4, <1>6, <2>3, <2>4 DEF Way, Snapshotting
  <2> QED
      BY <1>1, <1>5, <1>6, <2>2, <2>5, ProcMoves
<1>7. CASE proc' = [proc EXCEPT ![p] = z] /\ UNCHANGED world
  <2>1. "failed" \in Places
      BY DEF Places
  <2>2. z \in ProcRecords(k) /\ z.at = "failed" /\ z.own = proc[p].own
      BY <1>1, <2>1, MovedRecord
  <2> HIDE DEF z
  <2>3. proc'[p].at = "failed" /\ proc'[p].own = proc[p].own
      BY <1>1, <1>7, <2>2, ProcSet
  <2>4. Way(k, p, proc[p])'
      BY <1>2, <1>4, <2>3 DEF Way, Snapshotting
  <2> QED
      BY <1>1, <1>5, <1>7, <2>2, <2>4, ProcMoves
<1>8. ASSUME NEW f \in proc[p].todo,
             world' = [world EXCEPT ![f] = Backups(k)!Restored(p, f)],
             proc' = [proc EXCEPT ![p] = Remaining(proc[p], proc[p].todo \ {f})]
      PROVE  StoreInv(k)'
  <2>a. PICK t : t = proc[p].todo \ {f}
      OBVIOUS
  <2>b. PICK v : v = Backups(k)!Restored(p, f)
      OBVIOUS
  <2> DEFINE r == Remaining(proc[p], t)
  <2>1. proc[p].todo \in FileSets(k) /\ proc[p].files \in Sums(k)
      BY <1>1 DEF ProcRecords
  <2>2. t \in FileSets(k) /\ f \in k.Files
      BY <2>1, <2>a, <1>8 DEF FileSets
  <2>3. /\ r \in ProcRecords(k) /\ r.at = "restore" /\ r.own = proc[p].own /\ r.files = proc[p].files
        /\ r.existed = proc[p].existed /\ r.start = proc[p].start /\ r.todo = t
      BY <1>1, <1>2, <2>2, RemainingRecord
  <2>4. proc' = [proc EXCEPT ![p] = r]
      BY <1>8, <2>a
  <2> HIDE DEF r
  <2>5. /\ proc'[p].at = "restore" /\ proc'[p].own = proc[p].own /\ proc'[p].files = proc[p].files
        /\ proc'[p].existed = proc[p].existed /\ proc'[p].start = proc[p].start /\ proc'[p].todo = t
      BY <1>1, <2>3, <2>4, ProcSet
  <2>6. v = IF f \in proc[p].existed THEN proc[p].files[f] ELSE Absent
      BY <2>b DEF Backups!Restored
  <2>7. v \in FileContents(k)
    <3>1. CASE f \in proc[p].existed
      <4>1. f \in DOMAIN proc[p].files
          BY <1>4, <3>1
      <4>2. proc[p].files[f] \in FileContents(k)
          BY <2>1, <4>1, SumEntries
      <4> QED
          BY <2>6, <3>1, <4>2
    <3>2. CASE f \notin proc[p].existed
        BY <2>6, <3>2 DEF FileContents
    <3> QED
        BY <3>1, <3>2
  <2>8. world' = [world EXCEPT ![f] = v]
      BY <1>8, <2>b
  <2>9. world' \in StoreWorlds(k) /\ \A g \in k.Files : world'[g] = IF g = f THEN v ELSE world[g]
      BY <1>1, <2>2, <2>7, <2>8 DEF StoreWorlds
  <2>10. p \in k.Runs => v = proc[p].start[f]
    <3>1. SUFFICES ASSUME p \in k.Runs PROVE v = proc[p].start[f]
        OBVIOUS
    <3>2. /\ DOMAIN Backups(k)!Regular(proc[p].start) = {g \in k.Files : proc[p].start[g] # Absent}
          /\ \A g \in k.Files : proc[p].start[g] # Absent => Backups(k)!Regular(proc[p].start)[g] = proc[p].start[g]
        BY <1>4, <3>1, RegularFiles
    <3> QED
        BY <1>4, <2>2, <2>6, <3>1, <3>2
  <2>11. p \in k.Runs => \A g \in k.Files \ t : world'[g] = proc[p].start[g]
      BY <1>4, <2>2, <2>9, <2>10, <2>a
  <2>12. Way(k, p, proc[p])'
      BY <1>2, <1>4, <2>5, <2>11 DEF Way, Snapshotting
  <2> QED
      BY <1>1, <1>5, <2>3, <2>4, <2>9, <2>12, ProcMoves
<1> QED
    BY <1>3, <1>6, <1>7, <1>8

(* What the screen shows when it has loaded the list.                      *)
LEMMA ShownListed ==
    ASSUME NEW k, StoreInv(k), NEW i \in Backups(k)!Readable
    PROVE  Shown(k, i, backups[i].manifest)
<1>1. backups \in Seq(BackupRecords(k))
    BY StoreFacts
<1>2. i \in DOMAIN backups /\ backups[i].manifest.state = "ok"
    BY <1>1, ReadableOnes
<1>3. Kept(k, backups[i])
    BY <1>2 DEF StoreInv, KeptAll
<1> QED
    BY <1>2, <1>3 DEF Kept, Shown

LEMMA ListLoaded ==
    ASSUME NEW k, StoreBounds(k), StoreInv(k), NEW s \in k.Screens, UNCHANGED backups,
           list' = [list EXCEPT ![s] = Backups(k)!Listed]
    PROVE  ShownAll(k)' /\ list' \in [k.Screens -> Lists(k)]
<1>a. PICK t : t = Backups(k)!Listed
    OBVIOUS
<1>1. backups \in Seq(BackupRecords(k)) /\ list \in [k.Screens -> Lists(k)]
    BY StoreFacts
<1>2. DOMAIN t = Backups(k)!Readable /\ (\A i \in Backups(k)!Readable : t[i] = backups[i].manifest) /\ t \in Lists(k)
    BY <1>1, <1>a, ListedOnes
<1>3. \A u \in k.Screens : u = s
    BY DEF StoreBounds
<1>4. list'[s] = t /\ list' \in [k.Screens -> Lists(k)]
    BY <1>1, <1>2, <1>a
<1>5. Backups(k)!Readable' = Backups(k)!Readable
    BY DEF Backups!Readable
<1>6. ASSUME NEW i \in DOMAIN t PROVE Shown(k, i, t[i])'
  <2>1. Shown(k, i, t[i])
      BY <1>2, ShownListed
  <2> QED
      BY <1>5, <2>1 DEF Shown
<1>7. ASSUME NEW u \in k.Screens, NEW i \in DOMAIN list'[u] PROVE Shown(k, i, list[u][i])'
    BY <1>3, <1>4, <1>6
<1>8. ShownAll(k)'
    BY <1>7 DEF ShownAll
<1> QED
    BY <1>4, <1>8

LEMMA EndKeeps ==
    ASSUME NEW k, StoreBounds(k), StoreInv(k), NEW p \in Backups(k)!Procs, Backups(k)!End(p)
    PROVE  StoreInv(k)'
<1> DEFINE r == Backups(k)!Idle
<1>1. /\ proc \in [Backups(k)!Procs -> ProcRecords(k)] /\ Len(backups) \in Nat
      /\ world \in StoreWorlds(k) /\ Counted(k) /\ backups \in Seq(BackupRecords(k)) /\ list \in [k.Screens -> Lists(k)]
    BY StoreFacts
<1>2. /\ proc[p].at # "idle" /\ UNCHANGED <<world, backups, edits, faults, uses>> /\ proc' = [proc EXCEPT ![p] = r]
      /\ \/ list' = list
         \/ p \in k.Screens /\ list' = [list EXCEPT ![p] = Backups(k)!Listed]
    BY DEF Backups!End, Backups!bounds, Backups!Listed
<1>3. r \in ProcRecords(k) /\ r.at = "idle" /\ r.own = 0
    BY IdleRecord
<1> HIDE DEF r
<1>4. /\ proc' \in [Backups(k)!Procs -> ProcRecords(k)] /\ proc'[p].at = "idle" /\ proc'[p].own = 0
      /\ \A q \in Backups(k)!Procs : q # p => proc'[q] = proc[q]
    BY <1>1, <1>2, <1>3, ProcSet
<1>5. \A q \in Backups(k)!Procs : q # p => proc[q].at = "idle" /\ proc'[q] = proc[q]
    BY <1>2, <1>4, OthersIdle
<1>6. Way(k, p, proc[p])'
    BY <1>1, <1>2, <1>4 DEF Way, Snapshotting
<1>7. (\A q \in Backups(k)!Procs : Way(k, q, proc[q])') /\ Alone1(k)'
  <2>1. Len(backups') \in Nat /\ Len(backups) <= Len(backups')
      BY <1>1, <1>2
  <2> QED
      BY <1>1, <1>5, <1>6, <2>1, WaysKept
<1>8. ShownAll(k)' /\ list' \in [k.Screens -> Lists(k)]
  <2>1. CASE list' = list
      BY <1>1, <1>2, <2>1, SameStore
  <2>2. CASE p \in k.Screens /\ list' = [list EXCEPT ![p] = Backups(k)!Listed]
      BY <1>2, <2>2, ListLoaded
  <2> QED
      BY <1>2, <2>1, <2>2
<1>9. KeptAll(k)'
    BY <1>2 DEF StoreInv, KeptAll, Kept
<1>10. StoreTypes(k)'
    BY <1>1, <1>2, <1>4, <1>8 DEF StoreTypes, Counted
<1> QED
    BY <1>7, <1>8, <1>9, <1>10 DEF StoreInv

(* Of the screen's steps all but a restore happen in one go.               *)
LEMMA AllIdle ==
    ASSUME NEW k, StoreBounds(k), StoreInv(k), Backups(k)!Quiet, proc' = proc, Len(backups') = Len(backups)
    PROVE  (\A q \in Backups(k)!Procs : Way(k, q, proc[q])') /\ Alone1(k)'
<1>1. \A q \in Backups(k)!Procs : proc[q].at = "idle"
    BY DEF Backups!Quiet
<1>2. ASSUME NEW q \in Backups(k)!Procs PROVE Way(k, q, proc[q])'
  <2>1. proc'[q].at = "idle" /\ proc'[q].own \in 0 .. Len(backups')
      BY <1>1 DEF StoreInv, Way
  <2> QED
      BY <2>1 DEF Way, Snapshotting
<1>3. Alone1(k)'
    BY <1>1 DEF Alone1
<1> QED
    BY <1>2, <1>3

LEMMA MayQuiet == ASSUME NEW k, StoreBounds(k), NEW p, Backups(k)!May(p) PROVE Backups(k)!Quiet
BY DEF Backups!May, StoreBounds

LEMMA StoreOpenKeeps ==
    ASSUME NEW k, StoreBounds(k), StoreInv(k), NEW s \in k.Screens, Backups(k)!Open(s)
    PROVE  StoreInv(k)'
<1>1. /\ Backups(k)!May(s) /\ list' = [list EXCEPT ![s] = Backups(k)!Listed]
      /\ UNCHANGED <<world, backups, proc, edits, faults, uses>>
    BY DEF Backups!Open, Backups!bounds
<1>2. ShownAll(k)' /\ list' \in [k.Screens -> Lists(k)]
    BY <1>1, ListLoaded
<1>3. (\A q \in Backups(k)!Procs : Way(k, q, proc[q])') /\ Alone1(k)'
    BY <1>1, MayQuiet, AllIdle
<1>4. KeptAll(k)'
    BY <1>1 DEF StoreInv, KeptAll, Kept
<1>5. StoreTypes(k)'
    BY <1>1, <1>2, StoreFacts DEF StoreTypes, Counted
<1> QED
    BY <1>2, <1>3, <1>4, <1>5 DEF StoreInv

LEMMA StoreRewriteKeeps ==
    ASSUME NEW k, StoreBounds(k), StoreInv(k), NEW s \in k.Screens, NEW i \in DOMAIN backups, NEW m,
           Backups(k)!Rewrite(s, i, m),
           i \in DOMAIN list[s] =>
             m \in Manifests(k) /\ m.state = "ok" /\ m.sum = list[s][i].sum /\ m.existed = list[s][i].existed
    PROVE  StoreInv(k)'
<1> DEFINE b == Written(backups[i], m)
<1>1. /\ Backups(k)!May(s) /\ i \in DOMAIN list[s] /\ UNCHANGED <<world, proc, edits, faults>> /\ uses' = uses + 1
      /\ backups' = [backups EXCEPT ![i] = b]
      /\ list' = [list EXCEPT ![s] = Backups(k)!Listed']
    BY DEF Backups!Rewrite, Written
<1>2. /\ backups \in Seq(BackupRecords(k)) /\ list \in [k.Screens -> Lists(k)] /\ Counted(k)
      /\ world \in StoreWorlds(k) /\ proc \in [Backups(k)!Procs -> ProcRecords(k)]
    BY StoreFacts
<1>3. backups[i] \in BackupRecords(k)
    BY <1>2
<1>4. m \in Manifests(k)
    BY <1>1
<1>5. /\ b \in BackupRecords(k) /\ b.dir /\ b.manifest = m /\ (b.archive <=> backups[i].archive)
      /\ b.files = backups[i].files
    BY <1>3, <1>4, WrittenRecord
<1> HIDE DEF b
<1>6. /\ backups' \in Seq(BackupRecords(k)) /\ Len(backups') = Len(backups) /\ DOMAIN backups' = DOMAIN backups
      /\ backups'[i] = b /\ \A j \in DOMAIN backups : j # i => backups'[j] = backups[j]
    BY <1>1, <1>2, <1>5, BackupSet
<1>7. Shown(k, i, list[s][i]) /\ m.state = "ok" /\ m.sum = list[s][i].sum /\ m.existed = list[s][i].existed
    BY <1>1 DEF StoreInv, ShownAll
<1>8. Kept(k, b)
  <2>1. Kept(k, backups[i])
      BY DEF StoreInv, KeptAll
  <2> QED
      BY <1>5, <1>7, <2>1 DEF Kept, Shown
<1>9. ASSUME NEW j \in DOMAIN backups' PROVE Kept(k, backups'[j])
  <2>1. j # i => Kept(k, backups[j])
      BY <1>6, <1>9 DEF StoreInv, KeptAll
  <2> QED
      BY <1>6, <1>8, <1>9, <2>1
<1>10. KeptAll(k)'
    BY <1>9 DEF KeptAll
<1>a. PICK t : t = Backups(k)!Listed'
    OBVIOUS
<1>11. list' = [list EXCEPT ![s] = t]
    BY <1>1, <1>a
<1>12. /\ Backups(k)!Readable' \subseteq DOMAIN backups'
       /\ \A j \in DOMAIN backups' : /\ backups'[j].manifest \in Manifests(k)
                                    /\ (j \in Backups(k)!Readable' => backups'[j].manifest.state = "ok")
  <2>1. \A j \in DOMAIN backups' : backups'[j] \in BackupRecords(k)
      BY <1>6
  <2>2. \A j \in DOMAIN backups' : backups'[j].manifest \in Manifests(k)
      BY <2>1 DEF BackupRecords
  <2> QED
      BY <2>2 DEF Backups!Readable
<1>b. DOMAIN t = Backups(k)!Readable' /\ \A j \in Backups(k)!Readable' : t[j] = backups'[j].manifest
    BY <1>a, <1>12 DEF Backups!Listed, Backups!Restrict
<1>c. t = [j \in Backups(k)!Readable' |-> backups'[j].manifest]
    BY <1>a, <1>12 DEF Backups!Listed, Backups!Restrict
<1>13. t \in Lists(k) /\ DOMAIN t = Backups(k)!Readable'
  <2>1. DOMAIN backups' \subseteq Nat
      BY <1>6
  <2>2. t \in [Backups(k)!Readable' -> Manifests(k)] /\ Backups(k)!Readable' \in SUBSET Nat
      BY <1>12, <1>c, <2>1
  <2> QED
      BY <2>2 DEF Lists
<1>14. list' \in [k.Screens -> Lists(k)] /\ list'[s] = t
    BY <1>2, <1>11, <1>13
<1>15. ASSUME NEW j \in DOMAIN t PROVE Shown(k, j, t[j])'
  <2>1. j \in Backups(k)!Readable' /\ j \in DOMAIN backups' /\ t[j] = backups'[j].manifest
      BY <1>12, <1>13, <1>b
  <2>2. Kept(k, backups'[j]) /\ backups'[j].manifest.state = "ok"
      BY <1>9, <1>12, <2>1
  <2> QED
      BY <2>1, <2>2 DEF Shown, Kept
<1>16. \A u \in k.Screens : u = s
    BY DEF StoreBounds
<1>17. ASSUME NEW u \in k.Screens, NEW j \in DOMAIN list'[u] PROVE Shown(k, j, list[u][j])'
    BY <1>14, <1>15, <1>16, <1>17
<1>18. ShownAll(k)'
    BY <1>17 DEF ShownAll
<1>19. (\A q \in Backups(k)!Procs : Way(k, q, proc[q])') /\ Alone1(k)'
    BY <1>1, <1>6, MayQuiet, AllIdle
<1>20. StoreTypes(k)'
    BY <1>1, <1>2, <1>6, <1>14 DEF StoreTypes, Counted
<1> QED
    BY <1>10, <1>18, <1>19, <1>20 DEF StoreInv

LEMMA TogglePinKeeps ==
    ASSUME NEW k, StoreBounds(k), StoreInv(k), NEW s \in k.Screens, NEW i \in DOMAIN backups, Backups(k)!TogglePin(s, i)
    PROVE  StoreInv(k)'
<1>a. PICK m : m = list[s][i]
    OBVIOUS
<1>1. Backups(k)!Rewrite(s, i, OtherPin(m))
    BY <1>a DEF Backups!TogglePin, OtherPin
<1>2. ASSUME i \in DOMAIN list[s] PROVE m \in Manifests(k) /\ m.state = "ok"
  <2>1. Shown(k, i, m)
      BY <1>2, <1>a DEF StoreInv, ShownAll
  <2>2. list[s] \in Lists(k)
      BY StoreFacts
  <2> QED
      BY <1>2, <1>a, <2>1, <2>2 DEF Shown, Lists
<1>3. i \in DOMAIN list[s] =>
        /\ OtherPin(m) \in Manifests(k) /\ OtherPin(m).state = "ok"
        /\ OtherPin(m).sum = m.sum /\ OtherPin(m).existed = m.existed
    BY <1>2, OtherManifest
<1> QED
    BY <1>1, <1>3, <1>a, StoreRewriteKeeps

LEMMA RenameKeeps ==
    ASSUME NEW k, StoreBounds(k), StoreInv(k), NEW s \in k.Screens, NEW i \in DOMAIN backups, Backups(k)!Rename(s, i)
    PROVE  StoreInv(k)'
<1>a. PICK m : m = list[s][i]
    OBVIOUS
<1>1. Backups(k)!Rewrite(s, i, OtherName(m))
    BY <1>a DEF Backups!Rename, OtherName
<1>2. ASSUME i \in DOMAIN list[s] PROVE m \in Manifests(k) /\ m.state = "ok"
  <2>1. Shown(k, i, m)
      BY <1>2, <1>a DEF StoreInv, ShownAll
  <2>2. list[s] \in Lists(k)
      BY StoreFacts
  <2> QED
      BY <1>2, <1>a, <2>1, <2>2 DEF Shown, Lists
<1>3. i \in DOMAIN list[s] =>
        /\ OtherName(m) \in Manifests(k) /\ OtherName(m).state = "ok"
        /\ OtherName(m).sum = m.sum /\ OtherName(m).existed = m.existed
    BY <1>2, OtherManifest
<1> QED
    BY <1>1, <1>3, <1>a, StoreRewriteKeeps

LEMMA DeleteBackupKeeps ==
    ASSUME NEW k, StoreBounds(k), StoreInv(k), NEW s \in k.Screens, NEW i \in DOMAIN backups, Backups(k)!DeleteBackup(s, i)
    PROVE  StoreInv(k)'
<1>a. PICK g : g = Backups(k)!Gone
    OBVIOUS
<1>b. PICK t : t = Backups(k)!Restrict(Backups(k)!Listed, Backups(k)!Readable \ {i})
    OBVIOUS
<1>1. /\ Backups(k)!May(s) /\ UNCHANGED <<world, proc, edits, faults>> /\ uses' = uses + 1
      /\ backups' = [backups EXCEPT ![i] = g] /\ list' = [list EXCEPT ![s] = t]
    BY <1>a, <1>b DEF Backups!DeleteBackup
<1>2. /\ backups \in Seq(BackupRecords(k)) /\ list \in [k.Screens -> Lists(k)] /\ Counted(k)
      /\ world \in StoreWorlds(k) /\ proc \in [Backups(k)!Procs -> ProcRecords(k)]
    BY StoreFacts
<1>3. g \in BackupRecords(k) /\ ~g.dir /\ ~g.archive /\ g.manifest.state = "none"
    BY <1>a, GoneRecord
<1>4. /\ backups' \in Seq(BackupRecords(k)) /\ Len(backups') = Len(backups) /\ DOMAIN backups' = DOMAIN backups
      /\ backups'[i] = g /\ \A j \in DOMAIN backups : j # i => backups'[j] = backups[j]
    BY <1>1, <1>2, <1>3, BackupSet
<1>5. Kept(k, g)
    BY <1>3 DEF Kept
<1>6. KeptAll(k)'
  <2>1. \A j \in DOMAIN backups : Kept(k, backups[j])
      BY DEF StoreInv, KeptAll
  <2>2. \A j \in DOMAIN backups' : Kept(k, backups'[j])
      BY <1>4, <1>5, <2>1
  <2> QED
      BY <2>2 DEF KeptAll
<1>7. /\ DOMAIN Backups(k)!Listed = Backups(k)!Readable /\ Backups(k)!Readable \subseteq DOMAIN backups
      /\ \A j \in Backups(k)!Readable : Backups(k)!Listed[j] = backups[j].manifest /\ backups[j].manifest \in Manifests(k)
    BY <1>2, ListedOnes, ReadableOnes
<1>8. DOMAIN t = Backups(k)!Readable \ {i} /\ \A j \in DOMAIN t : t[j] = backups[j].manifest
  <2>1. t = [j \in Backups(k)!Readable \ {i} |-> Backups(k)!Listed[j]]
      BY <1>b DEF Backups!Restrict
  <2> QED
      BY <1>7, <2>1
<1>9. t \in Lists(k)
  <2>1. DOMAIN backups \subseteq Nat
      BY <1>2
  <2>2. t = [j \in DOMAIN t |-> t[j]]
      BY <1>b DEF Backups!Restrict
  <2>3. t \in [DOMAIN t -> Manifests(k)] /\ DOMAIN t \in SUBSET Nat
      BY <1>7, <1>8, <2>1, <2>2
  <2> QED
      BY <2>3 DEF Lists
<1>10. list' \in [k.Screens -> Lists(k)] /\ list'[s] = t
    BY <1>1, <1>2, <1>9
<1>11. ASSUME NEW j \in DOMAIN t PROVE Shown(k, j, t[j])'
  <2>1. j \in Backups(k)!Readable /\ j # i /\ j \in DOMAIN backups
      BY <1>7, <1>8
  <2>2. Shown(k, j, t[j])
      BY <1>8, <2>1, ShownListed
  <2>3. backups'[j] = backups[j] /\ (j \in Backups(k)!Readable' <=> j \in Backups(k)!Readable)
      BY <1>4, <2>1 DEF Backups!Readable
  <2> QED
      BY <1>4, <2>1, <2>2, <2>3 DEF Shown
<1>12. \A u \in k.Screens : u = s
    BY DEF StoreBounds
<1>13. ASSUME NEW u \in k.Screens, NEW j \in DOMAIN list'[u] PROVE Shown(k, j, list[u][j])'
    BY <1>10, <1>11, <1>12, <1>13
<1>14. ShownAll(k)'
    BY <1>13 DEF ShownAll
<1>15. (\A q \in Backups(k)!Procs : Way(k, q, proc[q])') /\ Alone1(k)'
    BY <1>1, <1>4, MayQuiet, AllIdle
<1>16. StoreTypes(k)'
    BY <1>1, <1>2, <1>4, <1>10 DEF StoreTypes, Counted
<1> QED
    BY <1>6, <1>14, <1>15, <1>16 DEF StoreInv

LEMMA RestoreBackupKeeps ==
    ASSUME NEW k, StoreBounds(k), StoreInv(k), NEW s \in k.Screens, NEW i \in DOMAIN backups, Backups(k)!RestoreBackup(s, i)
    PROVE  StoreInv(k)'
<1>a. PICK e : e = list[s][i].existed
    OBVIOUS
<1> DEFINE r == Chosen(k, i, e, world)
<1>1. /\ Backups(k)!May(s) /\ i \in DOMAIN list[s] /\ UNCHANGED <<world, backups, list, edits, faults>> /\ uses' = uses + 1
      /\ proc' = [proc EXCEPT ![s] = r]
    BY <1>a DEF Backups!RestoreBackup, Chosen
<1>2. /\ s \in Backups(k)!Procs /\ s \notin k.Runs /\ backups \in Seq(BackupRecords(k)) /\ Counted(k)
      /\ world \in StoreWorlds(k) /\ proc \in [Backups(k)!Procs -> ProcRecords(k)]
    BY StoreFacts DEF StoreBounds
<1>3. Shown(k, i, list[s][i])
    BY <1>1 DEF StoreInv, ShownAll
<1>4. e = DOMAIN list[s][i].sum /\ list[s][i].sum \in Sums(k)
    BY <1>3, <1>a DEF Shown
<1>5. e \in FileSets(k)
  <2>1. DOMAIN list[s][i].sum \subseteq k.Files
      BY <1>4, SumEntries
  <2> QED
      BY <1>4, <2>1 DEF FileSets
<1>6. i \in Nat /\ i \in 0 .. Len(backups) /\ world \in Starts(k)
    BY <1>2 DEF Starts
<1>7. /\ r \in ProcRecords(k) /\ r.at = "extract" /\ r.own = i /\ r.existed = e /\ ~r.copied
    BY <1>5, <1>6, ChosenRecord
<1> HIDE DEF r
<1>8. proc'[s].at = "extract" /\ proc'[s].own = i /\ proc'[s].existed = e /\ ~proc'[s].copied
    BY <1>1, <1>2, <1>7, ProcSet
<1>9. backups[i].archive => e = DOMAIN backups[i].files
    BY <1>3, <1>4 DEF Shown
<1>10. Way(k, s, proc[s])'
    BY <1>1, <1>2, <1>6, <1>8, <1>9 DEF Way, Snapshotting
<1>11. UNCHANGED <<backups, list>> /\ world' \in StoreWorlds(k) /\ Counted(k)'
    BY <1>1, <1>2 DEF Counted
<1> QED
    BY <1>1, <1>2, <1>7, <1>10, <1>11, ProcMoves

LEMMA StoreEditKeeps ==
    ASSUME NEW k, StoreBounds(k), StoreInv(k), NEW f \in k.Files, Backups(k)!Edit(f)
    PROVE  StoreInv(k)'
<1>1. /\ edits < k.MaxEdits /\ Backups(k)!Quiet /\ world' = [world EXCEPT ![f] = edits + 1] /\ edits' = edits + 1
      /\ UNCHANGED <<backups, proc, list, faults, uses>>
    BY DEF Backups!Edit, StoreBounds
<1>2. Counted(k) /\ world \in StoreWorlds(k) /\ k.MaxEdits \in Nat
    BY StoreFacts DEF StoreBounds
<1>3. Counted(k)' /\ edits + 1 \in FileContents(k)
    BY <1>1, <1>2 DEF Counted, FileContents
<1>4. world' \in StoreWorlds(k)
    BY <1>1, <1>2, <1>3 DEF StoreWorlds
<1>5. (\A q \in Backups(k)!Procs : Way(k, q, proc[q])') /\ Alone1(k)'
    BY <1>1, AllIdle
<1>6. KeptAll(k)' /\ ShownAll(k)'
    BY <1>1, SameStore
<1>7. StoreTypes(k)'
    BY <1>1, <1>3, <1>4, StoreFacts DEF StoreTypes
<1> QED
    BY <1>5, <1>6, <1>7 DEF StoreInv

LEMMA CrashKeeps ==
    ASSUME NEW k, StoreBounds(k), StoreInv(k), NEW p \in Backups(k)!Procs, Backups(k)!Crash(p)
    PROVE  StoreInv(k)'
<1>1. /\ proc[p].at # "idle" /\ Backups(k)!Fault /\ proc' = [proc EXCEPT ![p] = Backups(k)!Idle]
      /\ UNCHANGED <<world, backups, list, edits, uses>>
    BY DEF Backups!Crash
<1>2. Counted(k)' /\ world' \in StoreWorlds(k) /\ UNCHANGED <<backups, list>>
    BY <1>1, StoreFacts, FaultCounts
<1> QED
    BY <1>1, <1>2, ProcStops

-----------------------------------------------------------------------------
LEMMA StoreStep ==
    ASSUME NEW k, StoreBounds(k), StoreInv(k), Backups(k)!Next
    PROVE  StoreInv(k)'
<1>1. ASSUME NEW p \in k.Runs, Backups(k)!RunStep(p) PROVE StoreInv(k)'
    BY <1>1, BeginKeeps, CopyKeeps, CreateKeeps, SealKeeps, AnnotateKeeps, ListManifestsKeeps, PruneKeeps, StoreApplyKeeps
       DEF Backups!RunStep
<1>2. ASSUME NEW s \in k.Screens, Backups(k)!ScreenStep(s) PROVE StoreInv(k)'
    BY <1>2, StoreOpenKeeps, TogglePinKeeps, RenameKeeps, DeleteBackupKeeps, RestoreBackupKeeps DEF Backups!ScreenStep
<1>3. ASSUME NEW p \in Backups(k)!Procs,
             Backups(k)!Extract(p) \/ Backups(k)!Restore(p) \/ Backups(k)!End(p) \/ Backups(k)!Crash(p)
      PROVE  StoreInv(k)'
    BY <1>3, ExtractKeeps, StoreRestoreKeeps, EndKeeps, CrashKeeps
<1>4. ASSUME NEW f \in k.Files, Backups(k)!Edit(f) PROVE StoreInv(k)'
    BY <1>4, StoreEditKeeps
<1> QED
    BY <1>1, <1>2, <1>3, <1>4 DEF Backups!Next

LEMMA StoreUnchanged ==
    ASSUME NEW k, StoreInv(k), UNCHANGED Backups(k)!vars
    PROVE  StoreInv(k)'
<1>1. UNCHANGED <<world, backups, proc, list, edits, faults, uses>>
    BY DEF Backups!vars
<1>2. KeptAll(k)' /\ ShownAll(k)'
    BY <1>1, SameStore
<1>3. Backups(k)!Readable' = Backups(k)!Readable
    BY <1>1 DEF Backups!Readable
<1>4. ASSUME NEW p \in Backups(k)!Procs PROVE Way(k, p, proc[p])'
  <2>1. Way(k, p, proc[p])
      BY DEF StoreInv
  <2>2. \A v : Backups(k)!Pinned(v)' <=> Backups(k)!Pinned(v)
      BY <1>1 DEF Backups!Pinned
  <2>3. Newer(k, proc[p]) => Newer(k, proc[p])'
      BY <1>1, <1>3, <2>2 DEF Newer
  <2>4. Own(k, proc[p]) => Own(k, proc[p])'
      BY <1>1 DEF Own
  <2> QED
      BY <1>1, <1>3, <2>1, <2>2, <2>3, <2>4 DEF Way
<1>5. StoreTypes(k)' /\ Alone1(k)'
    BY <1>1 DEF StoreInv, StoreTypes, Counted, Alone1
<1> QED
    BY <1>2, <1>4, <1>5 DEF StoreInv

THEOREM StoreInvHolds == ASSUME NEW k, StoreBounds(k) PROVE Backups(k)!Spec => []StoreInv(k)
<1>1. Backups(k)!Init => StoreInv(k)
    BY StoreStarts
<1>2. StoreInv(k) /\ [Backups(k)!Next]_(Backups(k)!vars) => StoreInv(k)'
    BY StoreStep, StoreUnchanged
<1> QED
    BY <1>1, <1>2, PTL DEF Backups!Spec

-----------------------------------------------------------------------------
(* What the invariant is for.                                              *)
LEMMA StoreTyped == ASSUME NEW k, StoreBounds(k), StoreInv(k) PROVE Backups(k)!TypeOK
<1>1. /\ world \in StoreWorlds(k) /\ backups \in Seq(BackupRecords(k)) /\ Len(backups) \in Nat
      /\ \A p \in Backups(k)!Procs : Way(k, p, proc[p]) /\ proc[p] \in ProcRecords(k)
    BY StoreFacts
<1>2. world \in [k.Files -> Backups(k)!Contents]
    BY <1>1 DEF StoreWorlds, FileContents, Backups!Contents
<1>3. ASSUME NEW i \in DOMAIN backups
      PROVE  /\ backups[i].manifest.state \in {"none", "ok", "torn"}
             /\ backups[i].archive => backups[i].dir /\ DOMAIN backups[i].files # {}
             /\ backups[i].manifest.state # "none" => backups[i].dir
  <2>1. Kept(k, backups[i]) /\ backups[i].manifest \in Manifests(k)
      BY <1>1, ReadableOnes DEF StoreInv, KeptAll
  <2> QED
      BY <2>1 DEF Kept, Manifests
<1>4. ASSUME NEW p \in Backups(k)!Procs PROVE proc[p].own \in 0 .. Len(backups) /\ proc[p].todo \subseteq k.Files
  <2>1. proc[p].todo \in FileSets(k)
      BY <1>1 DEF ProcRecords
  <2> QED
      BY <1>1, <2>1 DEF Way, FileSets
<1> QED
    BY <1>2, <1>3, <1>4 DEF Backups!TypeOK

LEMMA StoreRollsBack == ASSUME NEW k, StoreBounds(k), StoreInv(k) PROVE Backups(k)!RolledBack
<1>1. ASSUME NEW p \in k.Runs, proc[p].at = "restored" PROVE world = proc[p].start
  <2>1. Way(k, p, proc[p])
      BY StoreFacts
  <2> QED
      BY <1>1, <2>1 DEF Way
<1> QED
    BY <1>1 DEF Backups!RolledBack

(* A run that has begun has just begun.                                    *)
LEMMA BeginFollows ==
    ASSUME NEW k, StoreBounds(k), StoreInv(k), Backups(k)!Next, NEW p \in k.Runs,
           proc[p].at = "idle", proc'[p].at # "idle"
    PROVE  \E kind \in k.Kinds : Backups(k)!Begin(p, kind)
<1>1. proc \in [Backups(k)!Procs -> ProcRecords(k)] /\ p \in Backups(k)!Procs
    BY StoreFacts
<1>2. Backups(k)!Idle.at = "idle"
    BY IdleRecord
<1>3. ASSUME NEW q \in Backups(k)!Procs, proc[q].at # "idle", NEW r, proc' = [proc EXCEPT ![q] = r] PROVE FALSE
    BY <1>1, <1>3
<1>4. ASSUME NEW q \in k.Runs, NEW kind \in k.Kinds, Backups(k)!Begin(q, kind) PROVE q = p
    BY <1>1, <1>4 DEF Backups!Begin
<1>5. ASSUME NEW q \in k.Runs,
             \/ Backups(k)!Copy(q) \/ Backups(k)!Create(q) \/ Backups(k)!Seal(q) \/ Backups(k)!Annotate(q)
             \/ Backups(k)!ListManifests(q) \/ Backups(k)!Prune(q) \/ Backups(k)!Apply(q)
      PROVE  FALSE
  <2>0. q \in Backups(k)!Procs
      BY StoreFacts
  <2>1. CASE Backups(k)!Copy(q)
      BY <1>3, <2>0, <2>1 DEF Backups!Copy
  <2>2. CASE Backups(k)!Create(q)
    <3>1. p # q
        BY <2>2 DEF Backups!Create
    <3>2. proc'[p] = proc[p]
        BY <1>1, <2>2, <3>1 DEF Backups!Create
    <3> QED
        BY <3>2
  <2>3. CASE Backups(k)!Seal(q)
      BY <1>3, <2>0, <2>3 DEF Backups!Seal, Backups!To
  <2>4. CASE Backups(k)!Annotate(q)
      BY <1>3, <2>0, <2>4 DEF Backups!Annotate, Backups!To
  <2>5. CASE Backups(k)!ListManifests(q)
      BY <1>3, <2>0, <2>5 DEF Backups!ListManifests
  <2>6. CASE Backups(k)!Prune(q)
      BY <1>3, <2>0, <2>6 DEF Backups!Prune
  <2>7. CASE Backups(k)!Apply(q)
      BY <1>3, <2>0, <2>7 DEF Backups!Apply
  <2> QED
      BY <1>5, <2>1, <2>2, <2>3, <2>4, <2>5, <2>6, <2>7
<1>6. ASSUME NEW s \in k.Screens, Backups(k)!ScreenStep(s) PROVE FALSE
  <2>1. s # p
      BY DEF StoreBounds
  <2>2. proc' = proc \/ \E r : proc' = [proc EXCEPT ![s] = r]
      BY <1>6 DEF Backups!ScreenStep, Backups!Open, Backups!TogglePin, Backups!Rename, Backups!Rewrite,
                  Backups!DeleteBackup, Backups!RestoreBackup, Backups!bounds
  <2> QED
      BY <1>1, <2>1, <2>2
<1>7. ASSUME NEW q \in Backups(k)!Procs,
             Backups(k)!Extract(q) \/ Backups(k)!Restore(q) \/ Backups(k)!End(q) \/ Backups(k)!Crash(q)
      PROVE  FALSE
  <2>1. CASE Backups(k)!Extract(q)
      BY <1>3, <2>1 DEF Backups!Extract, Backups!To
  <2>2. CASE Backups(k)!Restore(q)
      BY <1>3, <2>2 DEF Backups!Restore, Backups!To
  <2>3. CASE Backups(k)!End(q)
      BY <1>3, <2>3 DEF Backups!End
  <2>4. CASE Backups(k)!Crash(q)
      BY <1>3, <2>4 DEF Backups!Crash
  <2> QED
      BY <1>7, <2>1, <2>2, <2>3, <2>4
<1>8. ASSUME NEW f \in k.Files, Backups(k)!Edit(f) PROVE FALSE
    BY <1>8 DEF Backups!Edit
<1> QED
    BY <1>4, <1>5, <1>6, <1>7, <1>8 DEF Backups!Next, Backups!RunStep

LEMMA BeginLeads ==
    ASSUME NEW k, StoreBounds(k), StoreInv(k), NEW p \in k.Runs, NEW kind \in k.Kinds, Backups(k)!Begin(p, kind)
    PROVE  proc'[p].at \in {"copy", "create"} /\ proc'[p].start = world /\ UNCHANGED <<world, backups, list>>
<1>1. /\ UNCHANGED <<world, backups, list>>
      /\ \E at \in {"copy", "create"} : proc' = [proc EXCEPT ![p] = Begun(k, kind, world, at)]
    BY DEF Backups!Begin, Begun
<1>2. PICK at \in {"copy", "create"} : proc' = [proc EXCEPT ![p] = Begun(k, kind, world, at)]
    BY <1>1
<1> DEFINE r == Begun(k, kind, world, at)
<1>3. /\ proc \in [Backups(k)!Procs -> ProcRecords(k)] /\ p \in Backups(k)!Procs /\ world \in Starts(k)
      /\ kind \in KindNames /\ at \in Places
    BY StoreFacts DEF Starts, StoreBounds, KindNames, Places, Snapshotting
<1>4. r \in ProcRecords(k) /\ r.at = at /\ r.start = world
    BY <1>3, BegunRecord
<1> HIDE DEF r
<1>5. proc'[p] = r
    BY <1>2, <1>3, <1>4, ProcSet DEF r
<1> QED
    BY <1>1, <1>4, <1>5

(* If the comparison never fails, an installation that begins a snapshot   *)
(* has found that the newest one does not hold the same.                   *)
LEMMA BeginCompares ==
    ASSUME NEW k, TwinBounds(k), StoreInv(k), NEW p \in k.Runs, NEW kind \in k.Kinds, Backups(k)!Begin(p, kind),
           kind = "install", proc'[p].at = "create"
    PROVE  ~Backups(k)!Duplicate
<1>0. StoreBounds(k) /\ ~k.CheckFails
    BY DEF TwinBounds
<1>1. PICK at \in {"copy", "create"} :
        /\ proc' = [proc EXCEPT ![p] = Begun(k, kind, world, at)]
        /\ (at = "copy" <=> kind = "install" /\ Backups(k)!Duplicate)
    BY <1>0 DEF Backups!Begin, Begun
<1> DEFINE r == Begun(k, kind, world, at)
<1>3. /\ proc \in [Backups(k)!Procs -> ProcRecords(k)] /\ p \in Backups(k)!Procs /\ world \in Starts(k)
      /\ kind \in KindNames /\ at \in Places
    BY <1>0, StoreFacts DEF Starts, StoreBounds, KindNames, Places, Snapshotting
<1>4. r \in ProcRecords(k) /\ r.at = at
    BY <1>0, <1>3, BegunRecord
<1> HIDE DEF r
<1>5. proc'[p] = r
    BY <1>0, <1>1, <1>3, <1>4, ProcSet DEF r
<1> QED
    BY <1>1, <1>4, <1>5

-----------------------------------------------------------------------------
(* Whoever is under way is alone.                                          *)
LEMMA AloneMoves ==
    ASSUME NEW k, StoreBounds(k), StoreInv(k), Backups(k)!Next, NEW p \in Backups(k)!Procs, proc[p].at # "idle"
    PROVE  \/ /\ p \in k.Runs
              /\ \/ Backups(k)!Copy(p) \/ Backups(k)!Create(p) \/ Backups(k)!Seal(p) \/ Backups(k)!Annotate(p)
                 \/ Backups(k)!ListManifests(p) \/ Backups(k)!Prune(p) \/ Backups(k)!Apply(p)
           \/ Backups(k)!Extract(p) \/ Backups(k)!Restore(p) \/ Backups(k)!End(p) \/ Backups(k)!Crash(p)
<1>1. ~Backups(k)!Quiet /\ \A q : ~Backups(k)!May(q)
  <2>1. ~Backups(k)!Quiet
      BY DEF Backups!Quiet
  <2> QED
      BY <2>1, MayQuiet
<1>2. \A q \in Backups(k)!Procs : proc[q].at # "idle" => q = p
    BY DEF StoreInv, Alone1
<1>3. k.Runs \subseteq Backups(k)!Procs
    BY StoreFacts
<1>4. ASSUME NEW q \in k.Runs, Backups(k)!RunStep(q)
      PROVE  /\ q = p
             /\ \/ Backups(k)!Copy(q) \/ Backups(k)!Create(q) \/ Backups(k)!Seal(q) \/ Backups(k)!Annotate(q)
                \/ Backups(k)!ListManifests(q) \/ Backups(k)!Prune(q) \/ Backups(k)!Apply(q)
  <2>1. \A kind : ~Backups(k)!Begin(q, kind)
      BY <1>1 DEF Backups!Begin
  <2>2. \/ Backups(k)!Copy(q) \/ Backups(k)!Create(q) \/ Backups(k)!Seal(q) \/ Backups(k)!Annotate(q)
        \/ Backups(k)!ListManifests(q) \/ Backups(k)!Prune(q) \/ Backups(k)!Apply(q)
      BY <1>4, <2>1 DEF Backups!RunStep
  <2>3. proc[q].at # "idle"
      BY <2>2 DEF Backups!Copy, Backups!Create, Backups!Seal, Backups!Annotate, Backups!ListManifests,
                  Backups!Prune, Backups!Apply
  <2> QED
      BY <1>2, <1>3, <2>2, <2>3
<1>5. ASSUME NEW s \in k.Screens, Backups(k)!ScreenStep(s) PROVE FALSE
    BY <1>1, <1>5 DEF Backups!ScreenStep, Backups!Open, Backups!TogglePin, Backups!Rename, Backups!Rewrite,
                      Backups!DeleteBackup, Backups!RestoreBackup
<1>6. ASSUME NEW q \in Backups(k)!Procs,
             Backups(k)!Extract(q) \/ Backups(k)!Restore(q) \/ Backups(k)!End(q) \/ Backups(k)!Crash(q)
      PROVE  q = p
  <2>1. proc[q].at # "idle"
      BY <1>6 DEF Backups!Extract, Backups!Restore, Backups!End, Backups!Crash
  <2> QED
      BY <1>2, <2>1
<1>7. ASSUME NEW f \in k.Files, Backups(k)!Edit(f) PROVE FALSE
    BY <1>1, <1>7 DEF Backups!Edit, StoreBounds
<1> QED
    BY <1>4, <1>5, <1>6, <1>7 DEF Backups!Next

(* Only a backup that is sealed holds something it did not hold before.    *)
LEMMA SumsInside ==
    ASSUME NEW k, StoreBounds(k), StoreInv(k), NEW i, NEW x, HasSum(k, i, x)
    PROVE  i \in DOMAIN backups
<1>1. Backups(k)!Readable \subseteq DOMAIN backups
    BY StoreFacts, ReadableOnes
<1>2. ASSUME NEW s \in k.Screens, i \in DOMAIN list[s] PROVE i \in DOMAIN backups
    BY <1>2 DEF StoreInv, ShownAll, Shown
<1> QED
    BY <1>1, <1>2 DEF HasSum

LEMMA SumsSame ==
    ASSUME NEW k, UNCHANGED <<backups, list>>, NEW i, NEW x
    PROVE  HasSum(k, i, x)' <=> HasSum(k, i, x)
BY DEF HasSum, Backups!Readable

(* The list loaded again, and one manifest rewritten or gone.              *)
LEMMA SumsListed ==
    ASSUME NEW k, StoreBounds(k), StoreInv(k), NEW s \in k.Screens, UNCHANGED backups,
           list' = [list EXCEPT ![s] = Backups(k)!Listed], NEW i, NEW x, HasSum(k, i, x)'
    PROVE  HasSum(k, i, x)
<1>a. PICK t : t = Backups(k)!Listed
    OBVIOUS
<1>1. backups \in Seq(BackupRecords(k)) /\ list \in [k.Screens -> Lists(k)]
    BY StoreFacts
<1>2. DOMAIN t = Backups(k)!Readable /\ \A j \in Backups(k)!Readable : t[j] = backups[j].manifest
    BY <1>1, <1>a, ListedOnes
<1>3. list'[s] = t /\ \A u \in k.Screens : u # s => list'[u] = list[u]
    BY <1>1, <1>a
<1>4. Backups(k)!Readable' = Backups(k)!Readable
    BY DEF Backups!Readable
<1>5. CASE i \in Backups(k)!Readable' /\ backups'[i].manifest.sum = x
    BY <1>4, <1>5 DEF HasSum
<1>6. ASSUME NEW u \in k.Screens, i \in DOMAIN list'[u], list'[u][i].sum = x PROVE HasSum(k, i, x)
    BY <1>2, <1>3, <1>6 DEF HasSum
<1> QED
    BY <1>5, <1>6 DEF HasSum

LEMMA SumsRewritten ==
    ASSUME NEW k, StoreBounds(k), StoreInv(k), NEW s \in k.Screens, NEW n \in DOMAIN backups, NEW m,
           Backups(k)!Rewrite(s, n, m), n \in DOMAIN list[s] => m.sum = list[s][n].sum /\ m \in Manifests(k),
           NEW i, NEW x, HasSum(k, i, x)'
    PROVE  HasSum(k, i, x)
<1>a. PICK t : t = Backups(k)!Listed'
    OBVIOUS
<1>1. /\ backups \in Seq(BackupRecords(k)) /\ list \in [k.Screens -> Lists(k)]
      /\ backups[n] \in BackupRecords(k)
    BY StoreFacts
<1>2. /\ n \in DOMAIN list[s] /\ backups' = [backups EXCEPT ![n].dir = TRUE, ![n].manifest = m]
      /\ list' = [list EXCEPT ![s] = t]
    BY <1>a DEF Backups!Rewrite
<1>3. m.sum = list[s][n].sum /\ m \in Manifests(k)
    BY <1>2
<1>b. PICK b : b = Written(backups[n], m)
    OBVIOUS
<1>4. b \in BackupRecords(k) /\ b.manifest = m
    BY <1>1, <1>3, <1>b, WrittenRecord
<1>5. backups' = [backups EXCEPT ![n] = b]
    BY <1>2, <1>b DEF Written
<1>6. /\ backups' \in Seq(BackupRecords(k)) /\ DOMAIN backups' = DOMAIN backups
      /\ backups'[n] = b /\ \A j \in DOMAIN backups : j # n => backups'[j] = backups[j]
    BY <1>1, <1>4, <1>5, BackupSet
<1>7. \A j \in Backups(k)!Readable' : j \in DOMAIN backups
    BY <1>6 DEF Backups!Readable
<1>8. ASSUME NEW j \in Backups(k)!Readable', backups'[j].manifest.sum = x PROVE HasSum(k, j, x)
  <2>1. CASE j = n
      BY <1>2, <1>3, <1>4, <1>6, <1>8, <2>1 DEF HasSum
  <2>2. CASE j # n
      BY <1>6, <1>7, <1>8, <2>2 DEF HasSum, Backups!Readable
  <2> QED
      BY <2>1, <2>2
<1>9. DOMAIN t \subseteq Backups(k)!Readable' /\ \A j \in DOMAIN t : t[j] = backups'[j].manifest
    BY <1>7, <1>6, <1>a DEF Backups!Listed, Backups!Restrict
<1>10. list'[s] = t /\ \A u \in k.Screens : u = s
    BY <1>1, <1>2 DEF StoreBounds
<1>11. ASSUME NEW u \in k.Screens, i \in DOMAIN list'[u], list'[u][i].sum = x PROVE HasSum(k, i, x)
    BY <1>8, <1>9, <1>10, <1>11
<1> QED
    BY <1>8, <1>11 DEF HasSum

LEMMA SumsGone ==
    ASSUME NEW k, StoreBounds(k), StoreInv(k), NEW n \in DOMAIN backups, backups' = [backups EXCEPT ![n] = Backups(k)!Gone],
           \/ list' = list
           \/ \E s \in k.Screens : list' = [list EXCEPT ![s] = Backups(k)!Restrict(Backups(k)!Listed, Backups(k)!Readable \ {n})],
           NEW i, NEW x, HasSum(k, i, x)'
    PROVE  HasSum(k, i, x)
<1>a. PICK t : t = Backups(k)!Restrict(Backups(k)!Listed, Backups(k)!Readable \ {n})
    OBVIOUS
<1>b. PICK g : g = Backups(k)!Gone
    OBVIOUS
<1>1. /\ backups \in Seq(BackupRecords(k)) /\ list \in [k.Screens -> Lists(k)]
    BY StoreFacts
<1>2. g \in BackupRecords(k) /\ ~g.dir
    BY <1>b, GoneRecord
<1>3. /\ DOMAIN backups' = DOMAIN backups /\ backups'[n] = g /\ \A j \in DOMAIN backups : j # n => backups'[j] = backups[j]
    BY <1>1, <1>2, <1>b, BackupSet
<1>4. CASE i \in Backups(k)!Readable' /\ backups'[i].manifest.sum = x
  <2>1. i \in DOMAIN backups /\ i # n
      BY <1>2, <1>3, <1>4 DEF Backups!Readable
  <2> QED
      BY <1>3, <1>4, <2>1 DEF HasSum, Backups!Readable
<1>5. /\ DOMAIN Backups(k)!Listed = Backups(k)!Readable
      /\ \A j \in Backups(k)!Readable : Backups(k)!Listed[j] = backups[j].manifest
    BY <1>1, ListedOnes
<1>6. DOMAIN t \subseteq Backups(k)!Readable /\ \A j \in DOMAIN t : t[j] = backups[j].manifest
  <2>1. t = [j \in Backups(k)!Readable \ {n} |-> Backups(k)!Listed[j]]
      BY <1>a DEF Backups!Restrict
  <2> QED
      BY <1>5, <2>1
<1>7. ASSUME NEW u \in k.Screens, i \in DOMAIN list'[u], list'[u][i].sum = x PROVE HasSum(k, i, x)
  <2>1. CASE list' = list
      BY <1>7, <2>1 DEF HasSum
  <2>2. ASSUME NEW s \in k.Screens, list' = [list EXCEPT ![s] = t] PROVE HasSum(k, i, x)
    <3>1. list'[u] = IF u = s THEN t ELSE list[u]
        BY <1>1, <2>2
    <3> QED
        BY <1>6, <1>7, <3>1 DEF HasSum
  <2> QED
      BY <1>a, <2>1, <2>2
<1> QED
    BY <1>4, <1>7 DEF HasSum

LEMMA SumsStep ==
    ASSUME NEW k, StoreBounds(k), StoreInv(k), Backups(k)!Next, NEW i, NEW x, HasSum(k, i, x)'
    PROVE  \/ HasSum(k, i, x)
           \/ \E p \in k.Runs : Backups(k)!Seal(p) /\ i = Len(backups) /\ x = Backups(k)!Regular(proc[p].start)
<1>1. /\ backups \in Seq(BackupRecords(k)) /\ k.Runs \subseteq Backups(k)!Procs /\ list \in [k.Screens -> Lists(k)]
      /\ Len(backups) \in Nat
      /\ \A p \in Backups(k)!Procs : Way(k, p, proc[p]) /\ proc[p] \in ProcRecords(k)
    BY StoreFacts
<1>2. ASSUME UNCHANGED <<backups, list>> PROVE HasSum(k, i, x)
    BY <1>2, SumsSame
<1>3. ASSUME NEW p \in k.Runs, Backups(k)!Create(p) PROVE HasSum(k, i, x)
  <2>a. PICK g : g = Backups(k)!Gone
      OBVIOUS
  <2>b. PICK y : y = Backups(k)!Regular(world)
      OBVIOUS
  <2>c. PICK a \in BOOLEAN : a <=> DOMAIN y # {}
      OBVIOUS
  <2>d. PICK b : b = Stored(g, y, a)
      OBVIOUS
  <2>e. PICK e : e = Made(g)
      OBVIOUS
  <2>1. world \in StoreWorlds(k) /\ g \in BackupRecords(k) /\ g.manifest.state = "none"
      BY <2>a, StoreFacts, GoneRecord
  <2>2. y \in Sums(k)
      BY <2>1, <2>b, RegularFiles
  <2>3. b \in BackupRecords(k) /\ b.manifest = g.manifest /\ e \in BackupRecords(k) /\ e.manifest = g.manifest
      BY <2>1, <2>2, <2>d, <2>e, StoredRecord
  <2>4. list' = list /\ (backups' = Append(backups, b) \/ backups' = Append(backups, e))
    <3>1. (DOMAIN y # {}) = a
        BY <2>c
    <3>2. \/ backups' = Append(backups, [g EXCEPT !.dir = TRUE, !.files = y, !.archive = (DOMAIN y # {})])
          \/ backups' = Append(backups, [g EXCEPT !.dir = TRUE])
        BY <1>3, <2>a, <2>b DEF Backups!Create
    <3>3. list' = list
        BY <1>3 DEF Backups!Create
    <3> QED
        BY <2>d, <2>e, <3>1, <3>2, <3>3 DEF Stored, Made
  <2>5. PICK z \in BackupRecords(k) : backups' = Append(backups, z) /\ z.manifest.state = "none"
      BY <2>1, <2>3, <2>4
  <2>6. /\ DOMAIN backups' = 1 .. (Len(backups) + 1) /\ backups'[Len(backups) + 1] = z
        /\ \A j \in DOMAIN backups : backups'[j] = backups[j] /\ (j \in Backups(k)!Readable' <=> j \in Backups(k)!Readable)
        /\ DOMAIN backups = 1 .. Len(backups)
      BY <1>1, <2>5, OneMore
  <2>7. CASE i \in Backups(k)!Readable' /\ backups'[i].manifest.sum = x
    <3>1. i \in DOMAIN backups' /\ i # Len(backups) + 1
        BY <2>5, <2>6, <2>7 DEF Backups!Readable
    <3>2. i \in DOMAIN backups
        BY <1>1, <2>6, <3>1
    <3> QED
        BY <2>6, <2>7, <3>2 DEF HasSum
  <2>8. ASSUME NEW s \in k.Screens, i \in DOMAIN list'[s], list'[s][i].sum = x PROVE HasSum(k, i, x)
      BY <2>4, <2>8 DEF HasSum
  <2> QED
      BY <2>7, <2>8 DEF HasSum
<1>4. ASSUME NEW p \in k.Runs, Backups(k)!Seal(p)
      PROVE  HasSum(k, i, x) \/ (i = Len(backups) /\ x = Backups(k)!Regular(proc[p].start))
  <2>a. PICK own : own = proc[p].own
      OBVIOUS
  <2>b. PICK y : y = Backups(k)!Regular(proc[p].start)
      OBVIOUS
  <2>c. PICK m : m = Sealed(k, proc[p].existed, Backups(k)!Restrict(world, proc[p].existed))
      OBVIOUS
  <2>d. PICK b : b = Written(backups[own], m)
      OBVIOUS
  <2>1. proc[p].at = "seal" /\ list' = list /\ backups' = [backups EXCEPT ![own] = b]
      BY <1>4, <2>a, <2>c, <2>d DEF Backups!Seal, Backups!bounds, Sealed, Written
  <2>2. /\ own \in DOMAIN backups /\ own = Len(backups) /\ proc[p].start = world /\ proc[p].start \in StoreWorlds(k)
        /\ proc[p].existed = DOMAIN y
      BY <1>1, <2>1, <2>a, <2>b DEF Way, Own, Snapshotting
  <2>3. y \in Sums(k) /\ DOMAIN y \in FileSets(k) /\ Backups(k)!Restrict(proc[p].start, DOMAIN y) = y
    <3>a. PICK v : v = proc[p].start
        OBVIOUS
    <3>b. v \in StoreWorlds(k) /\ y = Backups(k)!Regular(v)
        BY <2>2, <2>b, <3>a
    <3>1. y \in Sums(k) /\ DOMAIN y = {f \in k.Files : v[f] # Absent}
          /\ Backups(k)!Restrict(v, DOMAIN y) = y
        BY <3>b, RegularFiles
    <3> QED
        BY <3>1, <3>a DEF FileSets
  <2>4. m = Sealed(k, DOMAIN y, y)
      BY <2>2, <2>3, <2>c
  <2>5. m \in Manifests(k) /\ m.sum = y
      BY <2>3, <2>4, SealedManifest
  <2>6. backups[own] \in BackupRecords(k)
      BY <1>1, <2>2
  <2>7. b \in BackupRecords(k) /\ b.manifest = m
      BY <2>5, <2>6, <2>d, WrittenRecord
  <2>8. /\ DOMAIN backups' = DOMAIN backups /\ backups'[own] = b
        /\ \A j \in DOMAIN backups : j # own => backups'[j] = backups[j]
      BY <1>1, <2>1, <2>2, <2>7, BackupSet
  <2>9. CASE i \in Backups(k)!Readable' /\ backups'[i].manifest.sum = x
    <3>1. i \in DOMAIN backups
        BY <2>8, <2>9 DEF Backups!Readable
    <3>2. CASE i = own
        BY <2>2, <2>5, <2>7, <2>8, <2>9, <2>b, <3>2
    <3>3. CASE i # own
        BY <2>8, <2>9, <3>1, <3>3 DEF HasSum, Backups!Readable
    <3> QED
        BY <3>2, <3>3
  <2>10. ASSUME NEW s \in k.Screens, i \in DOMAIN list'[s], list'[s][i].sum = x PROVE HasSum(k, i, x)
      BY <2>1, <2>10 DEF HasSum
  <2> QED
      BY <2>9, <2>10 DEF HasSum
<1>5. ASSUME NEW p \in k.Runs, Backups(k)!Annotate(p) PROVE HasSum(k, i, x)
  <2>a. PICK own : own = proc[p].own
      OBVIOUS
  <2>b. PICK am : am = Annotated(backups[own].manifest)
      OBVIOUS
  <2>c. PICK bm : bm = Broken(backups[own].manifest)
      OBVIOUS
  <2>d. PICK w : w = Written(backups[own], am)
      OBVIOUS
  <2>e. PICK t : t = Marked(backups[own], bm)
      OBVIOUS
  <2>1. \/ backups' = [backups EXCEPT ![own].dir = TRUE, ![own].manifest.state = "ok",
                                      ![own].manifest.pinned = FALSE, ![own].manifest.named = TRUE]
        \/ backups' = [backups EXCEPT ![own].manifest.state = "torn"]
      BY <1>5, <2>a DEF Backups!Annotate
  <2>2. ASSUME backups' = [backups EXCEPT ![own].dir = TRUE, ![own].manifest.state = "ok",
                                      ![own].manifest.pinned = FALSE, ![own].manifest.named = TRUE]
        PROVE  backups' = [backups EXCEPT ![own] = w]
      BY <2>2, <2>b, <2>d DEF Written, Annotated
  <2>3. ASSUME backups' = [backups EXCEPT ![own].manifest.state = "torn"]
        PROVE  backups' = [backups EXCEPT ![own] = t]
      BY <2>3, <2>c, <2>e DEF Marked, Broken
  <2>4. proc[p].at = "annotate" /\ list' = list
      BY <1>5 DEF Backups!Annotate
  <2>5. own \in DOMAIN backups /\ backups[own].manifest.state = "ok"
      BY <1>1, <2>4, <2>a DEF Way, Own
  <2>6. backups[own] \in BackupRecords(k) /\ backups[own].manifest \in Manifests(k)
      BY <1>1, <2>5, ReadableOnes
  <2>7. am \in Manifests(k) /\ am.sum = backups[own].manifest.sum /\ bm \in Manifests(k) /\ bm.sum = backups[own].manifest.sum
      BY <2>6, <2>b, <2>c, OtherManifest
  <2>f. am \in Manifests(k) /\ bm \in Manifests(k) /\ backups[own] \in BackupRecords(k)
      BY <2>6, <2>7
  <2>g. w \in BackupRecords(k) /\ w.manifest = am
      BY <2>f, <2>d, WrittenRecord
  <2>h. t \in BackupRecords(k) /\ t.manifest = bm
      BY <2>f, <2>e, MarkedRecord
  <2>8. /\ w \in BackupRecords(k) /\ w.manifest.sum = backups[own].manifest.sum
        /\ t \in BackupRecords(k) /\ t.manifest.sum = backups[own].manifest.sum
      BY <2>7, <2>g, <2>h
  <2>9. PICK b \in BackupRecords(k) : backups' = [backups EXCEPT ![own] = b] /\ b.manifest.sum = backups[own].manifest.sum
      BY <2>1, <2>2, <2>3, <2>8
  <2>10. /\ DOMAIN backups' = DOMAIN backups /\ backups'[own] = b
         /\ \A j \in DOMAIN backups : j # own => backups'[j] = backups[j]
      BY <1>1, <2>5, <2>9, BackupSet
  <2>11. own \in Backups(k)!Readable
    <3>1. Kept(k, backups[own])
        BY <2>5 DEF StoreInv, KeptAll
    <3> QED
        BY <2>5, <3>1 DEF Kept, Backups!Readable
  <2>12. CASE i \in Backups(k)!Readable' /\ backups'[i].manifest.sum = x
    <3>1. i \in DOMAIN backups
        BY <2>10, <2>12 DEF Backups!Readable
    <3>2. CASE i = own
        BY <2>9, <2>10, <2>11, <2>12, <3>2 DEF HasSum
    <3>3. CASE i # own
        BY <2>10, <2>12, <3>1, <3>3 DEF HasSum, Backups!Readable
    <3> QED
        BY <3>2, <3>3
  <2>13. ASSUME NEW s \in k.Screens, i \in DOMAIN list'[s], list'[s][i].sum = x PROVE HasSum(k, i, x)
      BY <2>4, <2>13 DEF HasSum
  <2> QED
      BY <2>12, <2>13 DEF HasSum
<1>6. ASSUME NEW p \in k.Runs, Backups(k)!Prune(p) PROVE HasSum(k, i, x)
  <2>1. list' = list /\ proc[p].at = "prune"
      BY <1>6 DEF Backups!Prune
  <2>a. PICK n : n = Backups(k)!Max(proc[p].victims)
      OBVIOUS
  <2>2. UNCHANGED backups \/ (proc[p].victims # {} /\ backups' = [backups EXCEPT ![n] = Backups(k)!Gone])
      BY <1>6, <2>a DEF Backups!Prune
  <2>3. ASSUME proc[p].victims # {}, backups' = [backups EXCEPT ![n] = Backups(k)!Gone] PROVE HasSum(k, i, x)
    <3>1. \A v \in proc[p].victims : v \in Backups(k)!Readable
        BY <1>1, <2>1, <2>3 DEF Way
    <3>2. proc[p].victims \in SUBSET DOMAIN backups
        BY <1>1, <3>1, ReadableOnes
    <3>3. n \in DOMAIN backups
        BY <1>1, <2>3, <2>a, <3>2, LastOne
    <3> QED
        BY <2>1, <2>3, <3>3, SumsGone
  <2> QED
      BY <1>2, <2>1, <2>2, <2>3
<1>7. ASSUME NEW p \in k.Runs, Backups(k)!RunStep(p)
      PROVE  HasSum(k, i, x) \/ (Backups(k)!Seal(p) /\ i = Len(backups) /\ x = Backups(k)!Regular(proc[p].start))
  <2>1. ASSUME NEW kind \in k.Kinds, Backups(k)!Begin(p, kind) PROVE HasSum(k, i, x)
      BY <1>2, <2>1 DEF Backups!Begin
  <2>2. CASE Backups(k)!Copy(p)
      BY <1>2, <2>2 DEF Backups!Copy
  <2>3. CASE Backups(k)!ListManifests(p)
      BY <1>2, <2>3 DEF Backups!ListManifests
  <2>4. CASE Backups(k)!Apply(p)
      BY <1>2, <2>4 DEF Backups!Apply
  <2> QED
      BY <1>3, <1>4, <1>5, <1>6, <1>7, <2>1, <2>2, <2>3, <2>4 DEF Backups!RunStep
<1>8. ASSUME NEW s \in k.Screens, Backups(k)!ScreenStep(s) PROVE HasSum(k, i, x)
  <2>1. CASE Backups(k)!Open(s)
    <3>1. UNCHANGED backups /\ list' = [list EXCEPT ![s] = Backups(k)!Listed]
        BY <2>1 DEF Backups!Open
    <3> QED
        BY <3>1, SumsListed
  <2>2. ASSUME NEW n \in DOMAIN list[s]
        PROVE  /\ list[s][n] \in Manifests(k)
    <3>1. list[s] \in Lists(k)
        BY <1>1
    <3> QED
        BY <3>1 DEF Lists
  <2>3. ASSUME NEW n \in DOMAIN backups, Backups(k)!TogglePin(s, n) PROVE HasSum(k, i, x)
    <3>a. PICK m : m = list[s][n]
        OBVIOUS
    <3>1. Backups(k)!Rewrite(s, n, OtherPin(m))
        BY <2>3, <3>a DEF Backups!TogglePin, OtherPin
    <3>2. n \in DOMAIN list[s] => OtherPin(m).sum = list[s][n].sum /\ OtherPin(m) \in Manifests(k)
        BY <2>2, <3>a, OtherManifest
    <3> QED
        BY <3>1, <3>2, SumsRewritten
  <2>4. ASSUME NEW n \in DOMAIN backups, Backups(k)!Rename(s, n) PROVE HasSum(k, i, x)
    <3>a. PICK m : m = list[s][n]
        OBVIOUS
    <3>1. Backups(k)!Rewrite(s, n, OtherName(m))
        BY <2>4, <3>a DEF Backups!Rename, OtherName
    <3>2. n \in DOMAIN list[s] => OtherName(m).sum = list[s][n].sum /\ OtherName(m) \in Manifests(k)
        BY <2>2, <3>a, OtherManifest
    <3> QED
        BY <3>1, <3>2, SumsRewritten
  <2>5. ASSUME NEW n \in DOMAIN backups, Backups(k)!DeleteBackup(s, n) PROVE HasSum(k, i, x)
    <3>1. /\ backups' = [backups EXCEPT ![n] = Backups(k)!Gone]
          /\ \E u \in k.Screens :
                list' = [list EXCEPT ![u] = Backups(k)!Restrict(Backups(k)!Listed, Backups(k)!Readable \ {n})]
        BY <2>5 DEF Backups!DeleteBackup
    <3> QED
        BY <3>1, SumsGone
  <2>6. ASSUME NEW n \in DOMAIN backups, Backups(k)!RestoreBackup(s, n) PROVE HasSum(k, i, x)
      BY <1>2, <2>6 DEF Backups!RestoreBackup
  <2> QED
      BY <1>8, <2>1, <2>3, <2>4, <2>5, <2>6 DEF Backups!ScreenStep
<1>9. ASSUME NEW p \in Backups(k)!Procs,
             Backups(k)!Extract(p) \/ Backups(k)!Restore(p) \/ Backups(k)!End(p) \/ Backups(k)!Crash(p)
      PROVE  HasSum(k, i, x)
  <2>1. CASE Backups(k)!Extract(p) \/ Backups(k)!Restore(p) \/ Backups(k)!Crash(p)
      BY <1>2, <2>1 DEF Backups!Extract, Backups!Restore, Backups!Crash
  <2>2. CASE Backups(k)!End(p)
    <3>1. UNCHANGED backups /\ (list' = list \/ (p \in k.Screens /\ list' = [list EXCEPT ![p] = Backups(k)!Listed]))
        BY <2>2 DEF Backups!End, Backups!Listed
    <3> QED
        BY <1>2, <3>1, SumsListed
  <2> QED
      BY <1>9, <2>1, <2>2
<1>10. ASSUME NEW f \in k.Files, Backups(k)!Edit(f) PROVE HasSum(k, i, x)
    BY <1>2, <1>10 DEF Backups!Edit
<1> QED
    BY <1>7, <1>8, <1>9, <1>10 DEF Backups!Next

(* A screen is restoring because it has been asked to.                     *)
LEMMA RestoreFollows ==
    ASSUME NEW k, StoreBounds(k), StoreInv(k), Backups(k)!Next, NEW p \in Backups(k)!Procs, p \notin k.Runs,
           proc[p].at = "idle", proc'[p].at # "idle"
    PROVE  \E n \in DOMAIN backups : Backups(k)!RestoreBackup(p, n)
<1>1. proc \in [Backups(k)!Procs -> ProcRecords(k)]
    BY StoreFacts
<1>2. ASSUME NEW q \in k.Runs, Backups(k)!RunStep(q) PROVE FALSE
  <2>1. q # p
      OBVIOUS
  <2>2. proc'[p] = proc[p]
    <3>1. ASSUME NEW r, proc' = [proc EXCEPT ![q] = r] PROVE proc'[p] = proc[p]
        BY <1>1, <2>1, <3>1
    <3>2. ASSUME NEW kind \in k.Kinds, Backups(k)!Begin(q, kind) PROVE proc'[p] = proc[p]
        BY <3>1, <3>2 DEF Backups!Begin
    <3>3. CASE Backups(k)!Create(q)
        BY <1>1, <2>1, <3>3 DEF Backups!Create
    <3>4. CASE Backups(k)!Copy(q)
        BY <1>1, <2>1, <3>4 DEF Backups!Copy
    <3>5. CASE Backups(k)!Seal(q) \/ Backups(k)!Annotate(q)
        BY <1>1, <2>1, <3>5 DEF Backups!Seal, Backups!Annotate, Backups!To
    <3>6. CASE Backups(k)!ListManifests(q) \/ Backups(k)!Prune(q)
        BY <1>1, <2>1, <3>6 DEF Backups!ListManifests, Backups!Prune
    <3>7. CASE Backups(k)!Apply(q)
        BY <1>1, <2>1, <3>7 DEF Backups!Apply
    <3> QED
        BY <1>2, <3>2, <3>3, <3>4, <3>5, <3>6, <3>7 DEF Backups!RunStep
  <2> QED
      BY <2>2
<1>3. ASSUME NEW s \in k.Screens, Backups(k)!ScreenStep(s)
      PROVE  \E n \in DOMAIN backups : Backups(k)!RestoreBackup(p, n)
  <2>1. s = p
      BY DEF Backups!Procs, StoreBounds
  <2>2. proc' = proc \/ \E n \in DOMAIN backups : Backups(k)!RestoreBackup(s, n)
      BY <1>3 DEF Backups!ScreenStep, Backups!Open, Backups!TogglePin, Backups!Rename, Backups!Rewrite,
                  Backups!DeleteBackup
  <2> QED
      BY <2>1, <2>2
<1>4. ASSUME NEW q \in Backups(k)!Procs,
             Backups(k)!Extract(q) \/ Backups(k)!Restore(q) \/ Backups(k)!End(q) \/ Backups(k)!Crash(q)
      PROVE  FALSE
  <2>1. q # p
      BY <1>4 DEF Backups!Extract, Backups!Restore, Backups!End, Backups!Crash
  <2>2. proc'[p] = proc[p]
      BY <1>1, <1>4, <2>1 DEF Backups!Extract, Backups!Restore, Backups!End, Backups!Crash, Backups!To
  <2> QED
      BY <2>2
<1>5. ASSUME NEW f \in k.Files, Backups(k)!Edit(f) PROVE FALSE
    BY <1>5 DEF Backups!Edit
<1> QED
    BY <1>2, <1>3, <1>4, <1>5 DEF Backups!Next

-----------------------------------------------------------------------------
LEMMA RegularHas ==
    ASSUME NEW k, StoreBounds(k), NEW w \in StoreWorlds(k), NEW h \in k.Files, w[h] # Absent
    PROVE  h \in DOMAIN Backups(k)!Regular(w)
<1>1. DOMAIN Backups(k)!Regular(w) = {f \in k.Files : w[f] # Absent}
    BY RegularFiles
<1> QED
    BY <1>1

(* A file that lasts: what changes the files writes it, or puts back a     *)
(* content it had.                                                         *)
LEMMA LastsInWorld ==
    ASSUME NEW k, TwinBounds(k), StoreInv(k), Backups(k)!Next, NEW h \in k.Files, Lasting(k, h)
    PROVE  world'[h] # Absent
<1>0. StoreBounds(k) /\ k.MaxEdits \in Nat /\ Absent \notin Nat
    BY DEF TwinBounds, StoreBounds
<1>1. /\ world \in StoreWorlds(k) /\ edits \in Nat /\ world[h] # Absent
    BY <1>0, StoreFacts DEF Lasting, Counted
<1>2. ASSUME world' = world PROVE world'[h] # Absent
    BY <1>1, <1>2
<1>3. ASSUME NEW p \in k.Runs, Backups(k)!RunStep(p) PROVE world'[h] # Absent
  <2>1. CASE Backups(k)!Apply(p)
    <3>1. PICK S : world' = [f \in k.Files |-> IF f \in S THEN Backups(k)!Managed ELSE world[f]]
        BY <2>1 DEF Backups!Apply
    <3>2. Backups(k)!Managed \in Nat
        BY <1>0 DEF Backups!Managed
    <3> QED
        BY <1>0, <1>1, <3>1, <3>2
  <2>2. ASSUME NEW kind \in k.Kinds, Backups(k)!Begin(p, kind) PROVE world' = world
      BY <2>2 DEF Backups!Begin
  <2>3. CASE \/ Backups(k)!Copy(p) \/ Backups(k)!Create(p) \/ Backups(k)!Seal(p) \/ Backups(k)!Annotate(p)
             \/ Backups(k)!ListManifests(p) \/ Backups(k)!Prune(p)
      BY <1>2, <2>3 DEF Backups!Copy, Backups!Create, Backups!Seal, Backups!Annotate, Backups!ListManifests, Backups!Prune
  <2> QED
      BY <1>2, <1>3, <2>1, <2>2, <2>3 DEF Backups!RunStep
<1>4. ASSUME NEW s \in k.Screens, Backups(k)!ScreenStep(s) PROVE world'[h] # Absent
    BY <1>2, <1>4 DEF Backups!ScreenStep, Backups!Open, Backups!TogglePin, Backups!Rename, Backups!Rewrite,
                      Backups!DeleteBackup, Backups!RestoreBackup
<1>5. ASSUME NEW p \in Backups(k)!Procs, Backups(k)!Restore(p) PROVE world'[h] # Absent
  <2>1. proc[p].at = "restore" /\ h \in proc[p].existed /\ Way(k, p, proc[p]) /\ proc[p] \in ProcRecords(k)
      BY <1>5, StoreFacts DEF Lasting, Backups!Restore
  <2>2. proc[p].existed = DOMAIN proc[p].files /\ proc[p].files \in Sums(k)
      BY <2>1 DEF Way, ProcRecords
  <2>3. proc[p].files[h] # Absent
      BY <1>0, <2>1, <2>2, SumEntries
  <2>4. Backups(k)!Restored(p, h) # Absent
      BY <2>1, <2>3 DEF Backups!Restored
  <2>5. world' = world \/ \E f : world' = [world EXCEPT ![f] = Backups(k)!Restored(p, f)]
      BY <1>5 DEF Backups!Restore
  <2>6. ASSUME NEW f, world' = [world EXCEPT ![f] = Backups(k)!Restored(p, f)] PROVE world'[h] # Absent
    <3>a. PICK v : v = Backups(k)!Restored(p, f)
        OBVIOUS
    <3>1. h \in DOMAIN world
        BY <1>1 DEF StoreWorlds
    <3>2. world'[h] = IF h = f THEN v ELSE world[h]
        BY <2>6, <3>1, <3>a
    <3> QED
        BY <1>1, <2>4, <3>2, <3>a
  <2> QED
      BY <1>2, <2>5, <2>6
<1>6. ASSUME NEW p \in Backups(k)!Procs, Backups(k)!Extract(p) \/ Backups(k)!End(p) \/ Backups(k)!Crash(p)
      PROVE  world'[h] # Absent
    BY <1>2, <1>6 DEF Backups!Extract, Backups!End, Backups!Crash
<1>7. ASSUME NEW f \in k.Files, Backups(k)!Edit(f) PROVE world'[h] # Absent
  <2>1. world' = [world EXCEPT ![f] = edits + 1]
      BY <1>7 DEF Backups!Edit
  <2> QED
      BY <1>0, <1>1, <2>1 DEF StoreWorlds
<1> QED
    BY <1>3, <1>4, <1>5, <1>6, <1>7 DEF Backups!Next

(* What is restored has it.                                                *)
LEMMA LastsInRestore ==
    ASSUME NEW k, TwinBounds(k), StoreInv(k), StoreInv(k)', Backups(k)!Next, NEW h \in k.Files, Lasting(k, h),
           NEW p \in Backups(k)!Procs, proc'[p].at \in {"extract", "restore"}
    PROVE  h \in proc'[p].existed
<1>0. StoreBounds(k)
    BY DEF TwinBounds
<1>1. /\ proc \in [Backups(k)!Procs -> ProcRecords(k)] /\ proc[p] \in ProcRecords(k) /\ Way(k, p, proc[p])
      /\ k.Runs \subseteq Backups(k)!Procs /\ k.Screens \subseteq Backups(k)!Procs
    BY StoreFacts
<1>2. proc[p].at \in {"extract", "restore"} => h \in proc[p].existed
    BY DEF Lasting
<1>3. CASE p \in k.Runs /\ proc[p].at \in Snapshotting
  <2>1. \/ Backups(k)!Copy(p) \/ Backups(k)!Create(p) \/ Backups(k)!Seal(p) \/ Backups(k)!Annotate(p)
        \/ Backups(k)!ListManifests(p) \/ Backups(k)!Prune(p) \/ Backups(k)!Apply(p)
        \/ Backups(k)!Extract(p) \/ Backups(k)!Restore(p) \/ Backups(k)!End(p) \/ Backups(k)!Crash(p)
    <3>1. proc[p].at # "idle"
        BY <1>3 DEF Snapshotting
    <3> QED
        BY <1>0, <3>1, AloneMoves
  <2>2. Backups(k)!Idle.at = "idle"
      BY <1>0, IdleRecord
  <2>3. Backups(k)!Apply(p)
    <3>1. CASE Backups(k)!Copy(p)
        BY <1>1, <2>2, <3>1 DEF Backups!Copy, ProcRecords
    <3>2. CASE Backups(k)!Create(p)
      <4>1. proc'[p].at \in {"seal", "list", "idle"}
          BY <1>1, <2>2, <3>2 DEF Backups!Create, ProcRecords
      <4> QED
          BY <4>1
    <3>3. CASE Backups(k)!Seal(p)
        BY <1>1, <3>3 DEF Backups!Seal, Backups!To, ProcRecords
    <3>4. CASE Backups(k)!Annotate(p)
        BY <1>1, <3>4 DEF Backups!Annotate, Backups!To, ProcRecords
    <3>5. CASE Backups(k)!ListManifests(p)
        BY <1>1, <3>5 DEF Backups!ListManifests, ProcRecords
    <3>6. CASE Backups(k)!Prune(p)
        BY <1>1, <2>2, <3>6 DEF Backups!Prune, ProcRecords
    <3>7. CASE Backups(k)!Extract(p) \/ Backups(k)!Restore(p) \/ Backups(k)!End(p)
        BY <1>3, <3>7 DEF Backups!Extract, Backups!Restore, Backups!End, Snapshotting
    <3>8. CASE Backups(k)!Crash(p)
        BY <1>1, <2>2, <3>8 DEF Backups!Crash
    <3> QED
        BY <2>1, <3>1, <3>2, <3>3, <3>4, <3>5, <3>6, <3>7, <3>8
  <2>4. /\ proc[p].at = "apply" /\ \E at : proc' = [proc EXCEPT ![p] =
          IF at = "idle" THEN Backups(k)!Idle ELSE [proc[p] EXCEPT !.at = at]]
      BY <1>1, <2>3 DEF Backups!Apply
  <2>5. proc'[p].existed = proc[p].existed
    <3>1. PICK at : proc' = [proc EXCEPT ![p] = IF at = "idle" THEN Backups(k)!Idle ELSE [proc[p] EXCEPT !.at = at]]
        BY <2>4
    <3>2. at # "idle"
        BY <1>1, <2>2, <3>1
    <3> QED
        BY <1>1, <3>1, <3>2 DEF ProcRecords
  <2>6. /\ proc[p].start = world /\ proc[p].start \in StoreWorlds(k)
        /\ \/ proc[p].existed = DOMAIN Backups(k)!Regular(proc[p].start)
           \/ proc[p].files = Backups(k)!Regular(proc[p].start) /\ proc[p].existed = DOMAIN proc[p].files
      BY <1>1, <1>3, <2>4 DEF Way, Own, Snapshotting
  <2>a. PICK w : w = world
      OBVIOUS
  <2>7. proc[p].existed = DOMAIN Backups(k)!Regular(w) /\ w \in StoreWorlds(k)
      BY <2>6, <2>a
  <2>8. w[h] # Absent
      BY <2>a DEF Lasting
  <2>9. h \in DOMAIN Backups(k)!Regular(w)
      BY <1>0, <2>7, <2>8, RegularHas
  <2> QED
      BY <2>5, <2>7, <2>9
<1>4. CASE proc[p].at # "idle" /\ ~(p \in k.Runs /\ proc[p].at \in Snapshotting)
  <2>1. \/ Backups(k)!Extract(p) \/ Backups(k)!Restore(p) \/ Backups(k)!End(p) \/ Backups(k)!Crash(p)
    <3>1. ~(\/ Backups(k)!Copy(p) \/ Backups(k)!Create(p) \/ Backups(k)!Seal(p) \/ Backups(k)!Annotate(p)
            \/ Backups(k)!ListManifests(p) \/ Backups(k)!Prune(p) \/ Backups(k)!Apply(p)) \/ p \notin k.Runs
        BY <1>4 DEF Backups!Copy, Backups!Create, Backups!Seal, Backups!Annotate, Backups!ListManifests,
                    Backups!Prune, Backups!Apply, Snapshotting
    <3> QED
        BY <1>0, <1>4, <3>1, AloneMoves
  <2>2. CASE Backups(k)!Extract(p)
    <3>1. proc[p].at = "extract" /\ proc'[p].existed = proc[p].existed
        BY <1>1, <2>2 DEF Backups!Extract, Backups!To, ProcRecords
    <3> QED
        BY <1>2, <3>1
  <2>3. CASE Backups(k)!Restore(p)
    <3>1. proc[p].at = "restore" /\ proc'[p].existed = proc[p].existed
        BY <1>1, <2>3 DEF Backups!Restore, Backups!To, ProcRecords
    <3> QED
        BY <1>2, <3>1
  <2>4. CASE Backups(k)!End(p) \/ Backups(k)!Crash(p)
    <3>1. proc' = [proc EXCEPT ![p] = Backups(k)!Idle]
        BY <2>4 DEF Backups!End, Backups!Crash
    <3>2. proc'[p].at = "idle"
        BY <1>0, <1>1, <3>1, IdleRecord
    <3> QED
        BY <3>2
  <2> QED
      BY <2>1, <2>2, <2>3, <2>4
<1>5. CASE proc[p].at = "idle"
  <2>1. CASE p \in k.Runs
    <3>1. PICK kind \in k.Kinds : Backups(k)!Begin(p, kind)
        BY <1>0, <1>5, <2>1, BeginFollows
    <3>2. proc'[p].at \in {"copy", "create"}
        BY <1>0, <2>1, <3>1, BeginLeads
    <3> QED
        BY <3>2
  <2>2. CASE p \notin k.Runs
    <3>1. \E n \in DOMAIN backups : Backups(k)!RestoreBackup(p, n)
        BY <1>0, <1>5, <2>2, RestoreFollows
    <3>2. PICK n \in DOMAIN backups : Backups(k)!RestoreBackup(p, n)
        BY <3>1
    <3>a. PICK e : e = list[p][n].existed
        OBVIOUS
    <3>b. PICK r : r = [Backups(k)!Idle EXCEPT !.at = "extract", !.own = n, !.existed = e, !.start = world]
        OBVIOUS
    <3>3. n \in DOMAIN list[p] /\ proc' = [proc EXCEPT ![p] = r] /\ p \in k.Screens
        BY <2>2, <3>2, <3>a, <3>b DEF Backups!RestoreBackup, Backups!Procs
    <3>4. r.existed = e
        BY <1>0, <3>b, IdleRecord DEF ProcRecords
    <3>5. proc'[p].existed = e
        BY <1>1, <3>3, <3>4
    <3>6. Shown(k, n, list[p][n])
        BY <3>3 DEF StoreInv, ShownAll
    <3>7. e = DOMAIN list[p][n].sum
        BY <3>6, <3>a DEF Shown
    <3>8. HasSum(k, n, list[p][n].sum)
        BY <3>3 DEF HasSum
    <3> QED
        BY <3>5, <3>7, <3>8 DEF Lasting
  <2> QED
      BY <2>1, <2>2
<1> QED
    BY <1>3, <1>4, <1>5

LEMMA LastsStep ==
    ASSUME NEW k, TwinBounds(k), StoreInv(k), StoreInv(k)', Backups(k)!Next, NEW h \in k.Files, Lasting(k, h)
    PROVE  Lasting(k, h)'
<1>0. StoreBounds(k)
    BY DEF TwinBounds
<1>1. world'[h] # Absent
    BY LastsInWorld
<1>2. ASSUME NEW i, NEW x, HasSum(k, i, x)' PROVE h \in DOMAIN x
  <2>1. CASE HasSum(k, i, x)
      BY <2>1 DEF Lasting
  <2>2. ASSUME NEW p \in k.Runs, Backups(k)!Seal(p), x = Backups(k)!Regular(proc[p].start) PROVE h \in DOMAIN x
    <3>a. PICK w : w = proc[p].start
        OBVIOUS
    <3>1. Way(k, p, proc[p]) /\ proc[p].at = "seal"
        BY <2>2, StoreFacts DEF Backups!Seal
    <3>2. w \in StoreWorlds(k) /\ w = world /\ x = Backups(k)!Regular(w)
        BY <2>2, <3>1, <3>a DEF Way, Snapshotting
    <3>3. w[h] # Absent
        BY <3>2 DEF Lasting
    <3> QED
        BY <1>0, <3>2, <3>3, RegularHas
  <2> QED
      BY <1>0, <1>2, <2>1, <2>2, SumsStep
<1>3. \A p \in Backups(k)!Procs : proc'[p].at \in {"extract", "restore"} => h \in proc'[p].existed
    BY LastsInRestore
<1> QED
    BY <1>1, <1>2, <1>3 DEF Lasting

(* Two backups in a row: the next one is begun only when the newest does   *)
(* not hold the same, and if the newest cannot be read, nothing makes it   *)
(* readable again.                                                         *)
LEMMA BeginDiffers ==
    ASSUME NEW k, TwinBounds(k), StoreInv(k), StoreInv(k)', Backups(k)!Next, TwinInv(k), NEW p \in k.Runs, proc'[p].at = "create"
    PROVE  ~HasSum(k, Len(backups), Backups(k)!Regular(proc[p].start))'
<1>0. StoreBounds(k) /\ k.Kinds = {"install"}
    BY DEF TwinBounds
<1>1. /\ backups \in Seq(BackupRecords(k)) /\ Len(backups) \in Nat /\ p \in Backups(k)!Procs /\ DOMAIN backups = 1 .. Len(backups)
      /\ world \in StoreWorlds(k) /\ proc \in [Backups(k)!Procs -> ProcRecords(k)] /\ proc[p] \in ProcRecords(k)
    BY StoreFacts
<1>2. proc[p].at = "idle"
  <2>1. SUFFICES ASSUME proc[p].at # "idle" PROVE FALSE
      OBVIOUS
  <2>2. \/ Backups(k)!Copy(p) \/ Backups(k)!Create(p) \/ Backups(k)!Seal(p) \/ Backups(k)!Annotate(p)
        \/ Backups(k)!ListManifests(p) \/ Backups(k)!Prune(p) \/ Backups(k)!Apply(p)
        \/ Backups(k)!Extract(p) \/ Backups(k)!Restore(p) \/ Backups(k)!End(p) \/ Backups(k)!Crash(p)
      BY <1>0, <1>1, <2>1, AloneMoves
  <2>3. Backups(k)!Idle.at = "idle"
      BY <1>0, IdleRecord
  <2>4. CASE Backups(k)!Copy(p)
      BY <1>1, <2>3, <2>4 DEF Backups!Copy, ProcRecords
  <2>5. CASE Backups(k)!Create(p)
    <3>1. proc'[p].at \in {"seal", "list", "idle"}
        BY <1>1, <2>3, <2>5 DEF Backups!Create, ProcRecords
    <3> QED
        BY <3>1
  <2>6. CASE Backups(k)!Seal(p) \/ Backups(k)!Annotate(p)
      BY <1>1, <2>6 DEF Backups!Seal, Backups!Annotate, Backups!To, ProcRecords
  <2>7. CASE Backups(k)!ListManifests(p)
      BY <1>1, <2>7 DEF Backups!ListManifests, ProcRecords
  <2>8. CASE Backups(k)!Prune(p)
      BY <1>1, <2>3, <2>8 DEF Backups!Prune, ProcRecords
  <2>9. CASE Backups(k)!Apply(p)
    <3>1. PICK at \in {"idle", "extract"} : proc' = [proc EXCEPT ![p] = IF at = "idle" THEN Backups(k)!Idle ELSE [proc[p] EXCEPT !.at = at]]
        BY <1>1, <2>9 DEF Backups!Apply
    <3> QED
        BY <1>1, <2>3, <3>1 DEF ProcRecords
  <2>10. CASE Backups(k)!Extract(p)
      BY <1>1, <2>10 DEF Backups!Extract, Backups!To, ProcRecords
  <2>11. CASE Backups(k)!Restore(p)
      BY <1>1, <2>11 DEF Backups!Restore, Backups!To, ProcRecords
  <2>12. CASE Backups(k)!End(p) \/ Backups(k)!Crash(p)
      BY <1>1, <2>3, <2>12 DEF Backups!End, Backups!Crash
  <2> QED
      BY <2>2, <2>4, <2>5, <2>6, <2>7, <2>8, <2>9, <2>10, <2>11, <2>12
<1>3. PICK kind \in k.Kinds : Backups(k)!Begin(p, kind)
    BY <1>0, <1>2, BeginFollows
<1>4. /\ kind = "install" /\ ~Backups(k)!Duplicate /\ proc'[p].start = world /\ UNCHANGED <<world, backups, list>>
    BY <1>0, <1>3, BeginLeads, BeginCompares
<1>a. PICK x : x = Backups(k)!Regular(world)
    OBVIOUS
<1>5. PICK h \in k.Files : Lasting(k, h)
    BY DEF TwinInv
<1>6. DOMAIN x # {}
  <2>a. PICK w : w = world
      OBVIOUS
  <2>1. w \in StoreWorlds(k) /\ w[h] # Absent
      BY <1>1, <1>5, <2>a DEF Lasting
  <2>2. h \in DOMAIN Backups(k)!Regular(w)
      BY <1>0, <2>1, RegularHas
  <2> QED
      BY <1>a, <2>2, <2>a
<1>7. ASSUME HasSum(k, Len(backups), x) PROVE FALSE
  <2>1. Len(backups) \in DOMAIN backups
      BY <1>0, <1>7, SumsInside
  <2>2. Len(backups) \in Backups(k)!Readable /\ backups[Len(backups)].manifest.sum = x
    <3>1. ASSUME NEW s \in k.Screens, Len(backups) \in DOMAIN list[s], list[s][Len(backups)].sum = x
          PROVE  Len(backups) \in Backups(k)!Readable /\ backups[Len(backups)].manifest.sum = x
      <4>1. Shown(k, Len(backups), list[s][Len(backups)])
          BY <3>1 DEF StoreInv, ShownAll
      <4> QED
          BY <3>1, <4>1 DEF Shown
    <3> QED
        BY <1>7, <3>1 DEF HasSum
  <2>3. Backups(k)!Readable \in SUBSET DOMAIN backups /\ Backups(k)!Readable # {}
      BY <1>1, <2>2, ReadableOnes
  <2>4. Backups(k)!Max(Backups(k)!Readable) = Len(backups)
    <3>1. /\ Backups(k)!Max(Backups(k)!Readable) \in Backups(k)!Readable
          /\ \A v \in Backups(k)!Readable : v <= Backups(k)!Max(Backups(k)!Readable)
        BY <1>1, <2>3, LastOne
    <3> QED
        BY <1>1, <2>2, <2>3, <3>1
  <2>5. Backups(k)!Duplicate
      BY <1>6, <1>a, <2>2, <2>3, <2>4 DEF Backups!Duplicate
  <2> QED
      BY <1>4, <2>5
<1>8. Backups(k)!Regular(proc'[p].start) = x /\ Len(backups') = Len(backups)
    BY <1>4, <1>a
<1>9. ~HasSum(k, Len(backups), x)'
    BY <1>4, <1>7, SumsSame
<1> QED
    BY <1>8, <1>9

LEMMA CreateDiffers ==
    ASSUME NEW k, TwinBounds(k), StoreInv(k), StoreInv(k)', Backups(k)!Next, TwinInv(k), NEW p \in k.Runs, proc'[p].at = "seal"
    PROVE  ~HasSum(k, Len(backups) - 1, Backups(k)!Regular(proc[p].start))'
<1>0. StoreBounds(k) /\ k.Kinds = {"install"}
    BY DEF TwinBounds
<1>1. /\ backups \in Seq(BackupRecords(k)) /\ Len(backups) \in Nat /\ p \in Backups(k)!Procs
      /\ proc \in [Backups(k)!Procs -> ProcRecords(k)] /\ proc[p] \in ProcRecords(k)
    BY StoreFacts
<1>2. proc[p].at # "idle"
  <2>1. SUFFICES ASSUME proc[p].at = "idle" PROVE FALSE
      OBVIOUS
  <2>2. PICK kind \in k.Kinds : Backups(k)!Begin(p, kind)
      BY <1>0, <2>1, BeginFollows
  <2>3. proc'[p].at \in {"copy", "create"}
      BY <1>0, <2>2, BeginLeads
  <2> QED
      BY <2>3
<1>3. Backups(k)!Create(p)
  <2>2. \/ Backups(k)!Copy(p) \/ Backups(k)!Create(p) \/ Backups(k)!Seal(p) \/ Backups(k)!Annotate(p)
        \/ Backups(k)!ListManifests(p) \/ Backups(k)!Prune(p) \/ Backups(k)!Apply(p)
        \/ Backups(k)!Extract(p) \/ Backups(k)!Restore(p) \/ Backups(k)!End(p) \/ Backups(k)!Crash(p)
      BY <1>0, <1>1, <1>2, AloneMoves
  <2>3. Backups(k)!Idle.at = "idle"
      BY <1>0, IdleRecord
  <2>4. CASE Backups(k)!Copy(p)
      BY <1>1, <2>3, <2>4 DEF Backups!Copy, ProcRecords
  <2>6. CASE Backups(k)!Seal(p) \/ Backups(k)!Annotate(p)
      BY <1>1, <2>6 DEF Backups!Seal, Backups!Annotate, Backups!To, ProcRecords
  <2>7. CASE Backups(k)!ListManifests(p)
      BY <1>1, <2>7 DEF Backups!ListManifests, ProcRecords
  <2>8. CASE Backups(k)!Prune(p)
      BY <1>1, <2>3, <2>8 DEF Backups!Prune, ProcRecords
  <2>9. CASE Backups(k)!Apply(p)
    <3>1. PICK at \in {"idle", "extract"} : proc' = [proc EXCEPT ![p] = IF at = "idle" THEN Backups(k)!Idle ELSE [proc[p] EXCEPT !.at = at]]
        BY <1>1, <2>9 DEF Backups!Apply
    <3> QED
        BY <1>1, <2>3, <3>1 DEF ProcRecords
  <2>10. CASE Backups(k)!Extract(p)
      BY <1>1, <2>10 DEF Backups!Extract, Backups!To, ProcRecords
  <2>11. CASE Backups(k)!Restore(p)
      BY <1>1, <2>11 DEF Backups!Restore, Backups!To, ProcRecords
  <2>12. CASE Backups(k)!End(p) \/ Backups(k)!Crash(p)
      BY <1>1, <2>3, <2>12 DEF Backups!End, Backups!Crash
  <2> QED
      BY <2>2, <2>4, <2>6, <2>7, <2>8, <2>9, <2>10, <2>11, <2>12
<1>4. proc[p].at = "create" /\ Len(backups') = Len(backups) + 1
  <2>1. proc[p].at = "create" /\ \E b : backups' = Append(backups, b)
      BY <1>3 DEF Backups!Create
  <2> QED
      BY <1>1, <2>1
<1>5. proc'[p].start = proc[p].start
  <2>1. Backups(k)!Idle.at = "idle"
      BY <1>0, IdleRecord
  <2>a. PICK n : n = Len(backups) + 1
      OBVIOUS
  <2>b. PICK e : e = DOMAIN Backups(k)!Regular(world)
      OBVIOUS
  <2>2. \/ proc' = [proc EXCEPT ![p] = [proc[p] EXCEPT !.at = "seal", !.own = n, !.existed = e]]
        \/ proc' = [proc EXCEPT ![p] = Backups(k)!Idle]
        \/ proc' = [proc EXCEPT ![p] = [proc[p] EXCEPT !.at = "list"]]
      BY <1>1, <1>3, <2>a, <2>b DEF Backups!Create
  <2>3. proc'[p] = [proc[p] EXCEPT !.at = "seal", !.own = n, !.existed = e]
      BY <1>1, <2>1, <2>2 DEF ProcRecords
  <2> QED
      BY <1>1, <2>3 DEF ProcRecords
<1>a. PICK x : x = Backups(k)!Regular(proc[p].start)
    OBVIOUS
<1>6. ~HasSum(k, Len(backups), x)
    BY <1>4, <1>a DEF TwinInv, Differ
<1>b. PICK n : n = Len(backups)
    OBVIOUS
<1>7. ASSUME HasSum(k, n, x)' PROVE FALSE
  <2>1. PICK q \in k.Runs : Backups(k)!Seal(q)
      BY <1>0, <1>6, <1>7, <1>b, SumsStep
  <2>2. proc[q].at = "seal"
      BY <2>1 DEF Backups!Seal
  <2>3. q = p
      BY <1>1, <1>4, <2>2, StoreFacts DEF StoreInv, Alone1
  <2> QED
      BY <1>4, <2>2, <2>3
<1>8. Len(backups') - 1 = n /\ Backups(k)!Regular(proc'[p].start) = x
    BY <1>1, <1>4, <1>5, <1>a, <1>b
<1> QED
    BY <1>7, <1>8

LEMMA DiffersStep ==
    ASSUME NEW k, TwinBounds(k), StoreInv(k), StoreInv(k)', Backups(k)!Next, TwinInv(k)
    PROVE  Differ(k)'
<1>0. StoreBounds(k)
    BY DEF TwinBounds
<1>1. DOMAIN backups = 1 .. Len(backups) /\ Len(backups) \in Nat
    BY StoreFacts
<1>2. ASSUME NEW i, NEW x, HasSum(k, i, x)', HasSum(k, i + 1, x)' PROVE FALSE
  <2>a. PICK j : j = i + 1
      OBVIOUS
  <2>1. ~(HasSum(k, i, x) /\ HasSum(k, j, x))
      BY <2>a DEF TwinInv, Differ
  <2>2. HasSum(k, i, x) => i \in 1 .. Len(backups)
      BY <1>0, <1>1, SumsInside
  <2>3. HasSum(k, j, x) => j \in 1 .. Len(backups)
      BY <1>0, <1>1, SumsInside
  <2>4. HasSum(k, i, x) \/ i = Len(backups)
      BY <1>0, <1>2, SumsStep
  <2>5. i # Len(backups)
    <3>1. HasSum(k, j, x) \/ j = Len(backups)
        BY <1>0, <1>2, <2>a, SumsStep
    <3> QED
        BY <1>1, <2>3, <2>a, <3>1
  <2>6. PICK p \in k.Runs : Backups(k)!Seal(p) /\ j = Len(backups) /\ x = Backups(k)!Regular(proc[p].start)
      BY <1>0, <1>2, <2>1, <2>4, <2>5, <2>a, SumsStep
  <2>7. proc[p].at = "seal" /\ Len(backups) - 1 = i
      BY <1>1, <2>2, <2>4, <2>5, <2>6, <2>a DEF Backups!Seal
  <2>8. ~HasSum(k, Len(backups) - 1, x)
      BY <2>6, <2>7 DEF TwinInv, Differ
  <2> QED
      BY <2>4, <2>5, <2>7, <2>8
<1>3. \A p \in k.Runs : proc'[p].at = "create" => ~HasSum(k, Len(backups), Backups(k)!Regular(proc[p].start))'
    BY BeginDiffers
<1>4. \A p \in k.Runs : proc'[p].at = "seal" => ~HasSum(k, Len(backups) - 1, Backups(k)!Regular(proc[p].start))'
    BY CreateDiffers
<1> QED
    BY <1>2, <1>3, <1>4 DEF Differ

LEMMA TwinStarts ==
    ASSUME NEW k, TwinBounds(k), Backups(k)!Init
    PROVE  TwinInv(k)
<1>1. /\ world \in k.Worlds /\ backups = <<>> /\ proc = [p \in Backups(k)!Procs |-> Backups(k)!Idle]
      /\ list = [s \in k.Screens |-> <<>>]
    BY DEF Backups!Init
<1>2. \A i, x : ~HasSum(k, i, x)
  <2>1. DOMAIN backups = {} /\ \A s \in k.Screens : DOMAIN list[s] = {}
      BY <1>1
  <2> QED
      BY <2>1 DEF HasSum, Backups!Readable
<1>3. PICK h \in k.Files : world[h] # Absent
    BY <1>1 DEF TwinBounds
<1>4. \A p \in Backups(k)!Procs : proc[p].at = "idle"
    BY <1>1, IdleRecord DEF TwinBounds
<1>5. Lasting(k, h)
    BY <1>2, <1>3, <1>4 DEF Lasting
<1>6. Differ(k)
    BY <1>2 DEF Differ
<1> QED
    BY <1>5, <1>6 DEF TwinInv

LEMMA TwinStep ==
    ASSUME NEW k, TwinBounds(k), StoreInv(k), StoreInv(k)', TwinInv(k), Backups(k)!Next
    PROVE  TwinInv(k)'
<1>1. PICK h \in k.Files : Lasting(k, h)
    BY DEF TwinInv
<1>2. Lasting(k, h)'
    BY <1>1, LastsStep
<1> QED
    BY <1>2, DiffersStep DEF TwinInv

LEMMA TwinUnchanged ==
    ASSUME NEW k, TwinInv(k), UNCHANGED Backups(k)!vars
    PROVE  TwinInv(k)'
<1>1. UNCHANGED <<world, backups, proc, list>>
    BY DEF Backups!vars
<1>2. \A i, x : HasSum(k, i, x)' <=> HasSum(k, i, x)
    BY <1>1, SumsSame
<1>3. ASSUME NEW h \in k.Files, Lasting(k, h) PROVE Lasting(k, h)'
    BY <1>1, <1>2, <1>3 DEF Lasting
<1>4. Differ(k)'
    BY <1>1, <1>2 DEF TwinInv, Differ
<1> QED
    BY <1>3, <1>4 DEF TwinInv

LEMMA TwinsDiffer == ASSUME NEW k, TwinInv(k) PROVE Backups(k)!NoTwins
<1>1. ASSUME NEW i \in Backups(k)!Readable, i + 1 \in Backups(k)!Readable,
             backups[i].manifest.sum = backups[i + 1].manifest.sum
      PROVE  FALSE
  <2>a. PICK x : x = backups[i].manifest.sum
      OBVIOUS
  <2>1. HasSum(k, i, x) /\ HasSum(k, i + 1, x)
      BY <1>1, <2>a DEF HasSum
  <2> QED
      BY <2>1 DEF TwinInv, Differ
<1> QED
    BY <1>1 DEF Backups!NoTwins

-----------------------------------------------------------------------------
(***************************************************************************)
(* Theorems                                                                *)
(***************************************************************************)

(* Whatever the files, the runs and the number of backups kept, if one     *)
(* process at a time is under way: a run that reports its rollback as done *)
(* has put every file back (backup/restore.go, cli/run.go).                *)
THEOREM BackupsRollBack ==
    ASSUME NEW k, StoreBounds(k)
    PROVE  Backups(k)!Spec => [](Backups(k)!TypeOK /\ Backups(k)!RolledBack)
<1>1. StoreInv(k) => Backups(k)!TypeOK /\ Backups(k)!RolledBack
    BY StoreTyped, StoreRollsBack
<1> QED
    BY <1>1, StoreInvHolds, PTL

(* No two backups in a row hold the same, if only installations make them  *)
(* and there was a file to back up from the start.                         *)
THEOREM BackupsDiffer == ASSUME NEW k, TwinBounds(k) PROVE Backups(k)!Spec => []Backups(k)!NoTwins
<1>0. StoreBounds(k)
    BY DEF TwinBounds
<1>1. Backups(k)!Init => TwinInv(k)
    BY TwinStarts
<1>2. StoreInv(k) /\ StoreInv(k)' /\ TwinInv(k) /\ [Backups(k)!Next]_(Backups(k)!vars) => TwinInv(k)'
    BY TwinStep, TwinUnchanged
<1>3. TwinInv(k) => Backups(k)!NoTwins
    BY TwinsDiffer
<1> QED
    BY <1>0, <1>1, <1>2, <1>3, StoreInvHolds, PTL DEF Backups!Spec
=============================================================================
