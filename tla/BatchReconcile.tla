--------------------------- MODULE BatchReconcile ---------------------------
(***************************************************************************)
(* Batch reconciliation of invalid recovery edges, and the two locks that  *)
(* keep it apart from every writer of the compact (v2) store.              *)
(*                                                                         *)
(* A writer holds REVIEW-MAINTENANCE.lock shared, checks that no batch is  *)
(* prepared, and tries v2/LOCK once.  A batch holds the maintenance lock   *)
(* exclusively and then v2/LOCK.  It publishes a marker, an audit record,  *)
(* moves the planned entries into quarantine one directory at a time,      *)
(* verifies what is left, commits the audit and clears the marker.  It may *)
(* stop between any two of these steps; only the exact request may go on.  *)
(* Evidence capture takes no lock: it read the store earlier and publishes *)
(* into the lineage's directory whenever it gets there.                    *)
(*                                                                         *)
(* The kernel drops a process's locks when it ends, so a crash, a timeout, *)
(* a cancellation and an I/O error before a write are one action, Stop.    *)
(***************************************************************************)
EXTENDS RecoveryGraph

CONSTANTS
    Writers,        \* processes that replace or start one lineage
    Capturers,      \* `review capture-evidence` processes
    Maintainers,    \* `review reconcile-authority-batch` operators
    Histories,      \* the graphs the store may hold initially
    PowerLosses,    \* whether the machine may lose power
    MaxRev,         \* bound: revisions ever written
    MaxFaults       \* bound: batches stopped half way, and power losses

VARIABLES
    v2,         \* directory v2: per lineage its entry, or None
    vault,      \* quarantine/batch-*/entries, by request and lineage
    unsynced,   \* renames into the vault no directory sync followed
    marker,     \* the global marker: a prepared journal, or None
    audit,      \* per request its audit record
    shared, exclusive,   \* holders of the maintenance lock
    local,      \* holder of v2/LOCK, or None
    pc,
    task,       \* what a writer or capturer works on
    request,    \* the request a maintainer holds, or None
    journal,    \* the journal a batch executes, or None
    todo,       \* its planned moves not yet executed or verified
    revs,       \* revisions used so far
    faults

disk  == <<v2, vault, unsynced, marker, audit>>
locks == <<shared, exclusive, local>>
procs == <<pc, task, request, journal, todo>>
vars  == <<disk, locks, procs, revs, faults>>

Processes == Writers \cup Capturers \cup Maintainers

(* A lineage directory: its record, if any, and whether captured evidence  *)
(* is among its names (the residue a batch binds).                         *)
Entries  == [state : States \cup {None}, captured : BOOLEAN]

(* The plan is determined by the graph it was derived from. *)
Requests == [actor : Maintainers, graph : Graphs]
Journals == [request : Requests, residue : SUBSET Lineages]
Audits   == [journal : Journals, committed : BOOLEAN]
Tasks    == [lineage : Lineages, base : States \cup {None}]   \* base: the record read

ASSUME BatchAssumption ==
    /\ Writers \cap Capturers = {} /\ Writers \cap Maintainers = {} /\ Capturers \cap Maintainers = {}
    /\ None \notin Processes \cup Entries \cup Requests \cup Journals \cup Tasks
    /\ IsFiniteSet(Lineages) /\ MaxRev \in Nat /\ MaxFaults \in Nat
    /\ Histories \subseteq Graphs
    /\ \A g \in Histories : \A l \in Recorded(g) : g[l].rev <= Cardinality(Lineages)
    /\ PowerLosses \in BOOLEAN

-----------------------------------------------------------------------------
(* Pure parts *)

GraphOf(d) == [l \in Lineages |-> IF d[l] = None THEN None ELSE d[l].state]

(* No directory without a record. *)
Complete(d) == \A l \in Lineages : d[l] # None => d[l].state # None

(* The entry is the one the journal bound: identity and residue. *)
Matches(e, j, l) ==
    /\ e.state = j.request.graph[l]
    /\ e.captured <=> l \in j.residue

Planned(r) == Quarantined(r.graph)

Moved(r, l) == <<r, l>> \in DOMAIN vault

(* Every planned entry is moved whole, and the retained graph is complete, *)
(* valid and the planned one.                                              *)
Verified(j) ==
    /\ \A l \in Planned(j.request) :
          v2[l] = None /\ Moved(j.request, l) /\ Matches(vault[<<j.request, l>>], j, l)
    /\ Complete(v2) /\ Invalid(GraphOf(v2)) = {}
    /\ GraphOf(v2) = Without(j.request.graph, Planned(j.request))

Committed(r) == r \in DOMAIN audit /\ audit[r].committed

-----------------------------------------------------------------------------
(* Locks.  Losing a non-blocking attempt, or giving up, releases what the  *)
(* process holds; nobody can use v2/LOCK before the maintenance lock is    *)
(* released too, so the two releases are one step.  What the process had   *)
(* read goes with it.                                                      *)

Release(p) ==
    /\ shared' = shared \ {p}
    /\ exclusive' = IF exclusive = p THEN None ELSE exclusive
    /\ local' = IF local = p THEN None ELSE local
    /\ pc' = [pc EXCEPT ![p] = "idle"]
    /\ task' = [task EXCEPT ![p] = None]
    /\ journal' = [journal EXCEPT ![p] = None]
    /\ todo' = [todo EXCEPT ![p] = {}]

WaitShared(w) ==
    /\ pc[w] = "wait" /\ exclusive = None
    /\ shared' = shared \cup {w}
    /\ pc' = [pc EXCEPT ![w] = "check"]
    /\ UNCHANGED <<disk, exclusive, local, task, request, journal, todo, revs, faults>>

(* Mutated: the marker is only checked before the lock is requested. *)
CheckMarker_Unchecked(w) ==
    /\ pc[w] = "check"
    /\ pc' = [pc EXCEPT ![w] = "lock"]
    /\ UNCHANGED <<disk, locks, task, request, journal, todo, revs, faults>>

(* With the maintenance lock in hand: a prepared batch keeps writers out. *)
CheckMarker(w) ==
    /\ pc[w] = "check"
    /\ \/ /\ marker = None
          /\ pc' = [pc EXCEPT ![w] = "lock"]
          /\ UNCHANGED <<locks, task, journal, todo>>
       \/ marker # None /\ Release(w)
    /\ UNCHANGED <<disk, request, revs, faults>>

(* Mutated: the batch takes the maintenance lock shared, as writers do. *)
WaitExclusive_Shared(m) ==
    /\ pc[m] = "wait" /\ exclusive = None
    /\ shared' = shared \cup {m}
    /\ pc' = [pc EXCEPT ![m] = "lock"]
    /\ UNCHANGED <<disk, exclusive, local, task, request, journal, todo, revs, faults>>

(* Mutated: a prepared batch keeps its own resumption out as well. *)
WaitExclusive_Refused(m) ==
    /\ pc[m] = "wait" /\ exclusive = None /\ shared = {} /\ marker = None
    /\ exclusive' = m
    /\ pc' = [pc EXCEPT ![m] = "lock"]
    /\ UNCHANGED <<disk, shared, local, task, request, journal, todo, revs, faults>>

(* A batch never looks for the marker here: it may have to resume one. *)
WaitExclusive(m) ==
    /\ pc[m] = "wait" /\ exclusive = None /\ shared = {}
    /\ exclusive' = m
    /\ pc' = [pc EXCEPT ![m] = "lock"]
    /\ UNCHANGED <<disk, shared, local, task, request, journal, todo, revs, faults>>

(* One non-blocking attempt; the refusal is storeLockBusyError. *)
LockStore(p, next) ==
    /\ pc[p] = "lock"
    /\ IF local = None
       THEN /\ local' = p
            /\ pc' = [pc EXCEPT ![p] = next]
            /\ UNCHANGED <<shared, exclusive, task, journal, todo>>
       ELSE Release(p)
    /\ UNCHANGED <<disk, request, revs, faults>>

-----------------------------------------------------------------------------
(* Writers: replaceContextGuarded *)

(* A handle is refused while a batch is prepared; the record is read under *)
(* the shared maintenance lock, released before the write asks for it.  A  *)
(* directory without a record is an error to its readers.                  *)
Begin(w, l) ==
    /\ pc[w] = "idle" /\ marker = None /\ exclusive = None
    /\ v2[l] # None => v2[l].state # None
    /\ revs < MaxRev
    /\ task' = [task EXCEPT ![w] =
          [lineage |-> l, base |-> IF v2[l] = None THEN None ELSE v2[l].state]]
    /\ pc' = [pc EXCEPT ![w] = "wait"]
    /\ UNCHANGED <<disk, locks, request, journal, todo, revs, faults>>

(* Mutated: the compare-and-swap is gone. *)
Current_Unchecked(t) == TRUE

(* The store holds the revision the writer read, or still none. *)
Current(t) ==
    LET now == IF v2[t.lineage] = None THEN None ELSE v2[t.lineage].state IN
    IF t.base = None THEN now = None ELSE now # None /\ now.rev = t.base.rev

(* A new lineage has no predecessor; a successor keeps its edge. *)
Successor(t) ==
    IF t.base = None THEN [rev |-> revs + 1, pred |-> None, predRev |-> 0, sound |-> TRUE]
    ELSE [t.base EXCEPT !.rev = revs + 1]

Write(w) ==
    LET t == task[w] IN
    /\ pc[w] = "write"
    /\ IF Current(t)
       THEN /\ v2' = [v2 EXCEPT ![t.lineage] =
                   [state |-> Successor(t), captured |-> v2[t.lineage] # None /\ v2[t.lineage].captured]]
            /\ revs' = revs + 1
       ELSE UNCHANGED <<v2, revs>>
    /\ Release(w)
    /\ UNCHANGED <<vault, unsynced, marker, audit, request, faults>>

-----------------------------------------------------------------------------
(* Evidence capture *)

BeginCapture(c, l) ==
    /\ pc[c] = "idle" /\ marker = None /\ exclusive = None
    /\ v2[l] # None /\ v2[l].state # None
    /\ task' = [task EXCEPT ![c] = [lineage |-> l, base |-> v2[l].state]]
    /\ pc' = [pc EXCEPT ![c] = "publish"]
    /\ UNCHANGED <<disk, locks, request, journal, todo, revs, faults>>

(* No lock is held, and missing directories are made. *)
Capture(c) ==
    LET l == task[c].lineage IN
    /\ pc[c] = "publish"
    /\ v2' = [v2 EXCEPT ![l] = [state |-> IF v2[l] = None THEN None ELSE v2[l].state, captured |-> TRUE]]
    /\ pc' = [pc EXCEPT ![c] = "idle"]
    /\ task' = [task EXCEPT ![c] = None]
    /\ UNCHANGED <<vault, unsynced, marker, audit, locks, request, journal, todo, revs, faults>>

-----------------------------------------------------------------------------
(* The batch *)

(* Derive plan and authorization from one exclusively locked snapshot. *)
Prepare(m) ==
    /\ pc[m] = "idle" /\ marker = None
    /\ exclusive = None /\ shared = {} /\ local = None
    /\ Complete(v2) /\ CanReconcile(GraphOf(v2))
    /\ request' = [request EXCEPT ![m] = [actor |-> m, graph |-> GraphOf(v2)]]
    /\ UNCHANGED <<disk, locks, pc, task, journal, todo, revs, faults>>

Submit(m) ==
    /\ pc[m] = "idle" /\ request[m] # None
    /\ pc' = [pc EXCEPT ![m] = "wait"]
    /\ UNCHANGED <<disk, locks, task, request, journal, todo, revs, faults>>

Resumable(r) ==
    \/ marker # None /\ marker.request = r
    \/ marker = None /\ r \in DOMAIN audit /\ ~audit[r].committed

(* Mutated: the marker of another batch is no obstacle. *)
Bindable_AnyMarker(r) == r \notin DOMAIN audit /\ Complete(v2) /\ GraphOf(v2) = r.graph

Bindable(r) == marker = None /\ r \notin DOMAIN audit /\ Complete(v2) /\ GraphOf(v2) = r.graph

(* Go on with the prepared batch of exactly this request. *)
Resume(m) ==
    LET j == IF marker # None THEN marker ELSE audit[request[m]].journal IN
    /\ pc[m] = "inspect" /\ Resumable(request[m])
    /\ marker' = j
    /\ journal' = [journal EXCEPT ![m] = j]
    /\ pc' = [pc EXCEPT ![m] = "audit"]
    /\ UNCHANGED <<v2, vault, unsynced, audit, locks, task, request, todo, revs, faults>>

(* Revalidate the plan under both locks and bind the entries' residue. *)
Bind(m) ==
    LET r == request[m] IN
    /\ pc[m] = "inspect" /\ Bindable(r)
    /\ journal' = [journal EXCEPT ![m] =
          [request |-> r, residue |-> {l \in Planned(r) : v2[l].captured}]]
    /\ pc' = [pc EXCEPT ![m] = "mark"]
    /\ UNCHANGED <<disk, locks, task, request, todo, revs, faults>>

(* Another batch is prepared, the plan is stale, or this batch is already  *)
(* committed: the run ends, and its operator starts over.                  *)
Refuse(m) ==
    /\ pc[m] = "inspect" /\ ~Resumable(request[m]) /\ ~Bindable(request[m])
    /\ Release(m)
    /\ request' = [request EXCEPT ![m] = None]
    /\ UNCHANGED <<disk, revs, faults>>

Mark(m) ==
    /\ pc[m] = "mark"
    /\ marker' = journal[m]
    /\ pc' = [pc EXCEPT ![m] = "audit"]
    /\ UNCHANGED <<v2, vault, unsynced, audit, locks, task, request, journal, todo, revs, faults>>

AuditPrepared(m) ==
    LET r == journal[m].request IN
    /\ pc[m] = "audit" /\ ~Committed(r)
    /\ audit' = IF r \in DOMAIN audit THEN audit
                ELSE [q \in DOMAIN audit \cup {r} |->
                         IF q = r THEN [journal |-> journal[m], committed |-> FALSE] ELSE audit[q]]
    /\ todo' = [todo EXCEPT ![m] = Planned(r)]
    /\ pc' = [pc EXCEPT ![m] = "move"]
    /\ UNCHANGED <<v2, vault, unsynced, marker, locks, task, request, journal, revs, faults>>

(* The earlier run committed and stopped before it cleared the marker. *)
AuditCommitted(m) ==
    /\ pc[m] = "audit" /\ Committed(journal[m].request)
    /\ Verified(audit[journal[m].request].journal)
    /\ pc' = [pc EXCEPT ![m] = "clear"]
    /\ UNCHANGED <<disk, locks, task, request, journal, todo, revs, faults>>

(* Mutated: the residue is compared only after the move. *)
Movable_AnyResidue(j, l) ==
    v2[l] # None /\ ~Moved(j.request, l) /\ v2[l].state = j.request.graph[l]

Movable(j, l) == v2[l] # None /\ ~Moved(j.request, l) /\ Matches(v2[l], j, l)

AlreadyMoved(j, l) ==
    v2[l] = None /\ Moved(j.request, l) /\ Matches(vault[<<j.request, l>>], j, l)

(* The code takes the planned entries in chain order. *)
Move(m, l) ==
    LET r == journal[m].request IN
    /\ pc[m] = "move" /\ l \in todo[m] /\ Movable(journal[m], l)
    /\ v2' = [v2 EXCEPT ![l] = None]
    /\ vault' = [x \in DOMAIN vault \cup {<<r, l>>} |-> IF x = <<r, l>> THEN v2[l] ELSE vault[x]]
    /\ unsynced' = unsynced \cup {<<r, l>>}
    /\ pc' = [pc EXCEPT ![m] = "sync"]
    /\ UNCHANGED <<marker, audit, locks, task, request, journal, todo, revs, faults>>

(* Syncing both directories makes every earlier rename between them        *)
(* durable as well.                                                        *)
Sync(m) ==
    /\ pc[m] = "sync"
    /\ unsynced' = {x \in unsynced : x[1] # journal[m].request}
    /\ pc' = [pc EXCEPT ![m] = "move"]
    /\ UNCHANGED <<v2, vault, marker, audit, locks, task, request, journal, todo, revs, faults>>

(* The entry is in quarantine, moved now or by an earlier run. *)
VerifyMoved(m, l) ==
    /\ pc[m] = "move" /\ l \in todo[m] /\ AlreadyMoved(journal[m], l)
    /\ todo' = [todo EXCEPT ![m] = @ \ {l}]
    /\ UNCHANGED <<disk, locks, pc, task, request, journal, revs, faults>>

Commit(m) ==
    LET r == journal[m].request IN
    /\ pc[m] = "move" /\ todo[m] = {} /\ Verified(journal[m])
    /\ audit' = [audit EXCEPT ![r] = [journal |-> journal[m], committed |-> TRUE]]
    /\ pc' = [pc EXCEPT ![m] = "clear"]
    /\ UNCHANGED <<v2, vault, unsynced, marker, locks, task, request, journal, todo, revs, faults>>

Clear(m) ==
    /\ pc[m] = "clear"
    /\ marker' = None
    /\ Release(m)
    /\ UNCHANGED <<v2, vault, unsynced, audit, request, revs, faults>>

(* An entry is in both places or neither or changed, or the verification   *)
(* fails: the batch ends as it is, marker and all.                         *)
Fail(m) ==
    /\ \/ pc[m] = "audit" /\ Committed(journal[m].request)
          /\ ~Verified(audit[journal[m].request].journal)
       \/ pc[m] = "move" /\ \E l \in todo[m] : ~Movable(journal[m], l) /\ ~AlreadyMoved(journal[m], l)
       \/ pc[m] = "move" /\ todo[m] = {} /\ ~Verified(journal[m])
    /\ Release(m)
    /\ UNCHANGED <<disk, request, revs, faults>>

-----------------------------------------------------------------------------
(* Crashes *)

Stop(p) ==
    /\ pc[p] # "idle"
    /\ IF p \in Maintainers THEN faults < MaxFaults /\ faults' = faults + 1 ELSE UNCHANGED faults
    /\ Release(p)
    /\ UNCHANGED <<disk, request, revs>>

(* Every process ends, and any renames not yet durable are undone. *)
PowerLoss ==
    /\ PowerLosses /\ faults < MaxFaults
    /\ \E lost \in SUBSET {x \in unsynced : v2[x[2]] = None} :
          /\ v2' = [l \in Lineages |->
                IF \E x \in lost : x[2] = l THEN vault[CHOOSE x \in lost : x[2] = l] ELSE v2[l]]
          /\ vault' = [x \in DOMAIN vault \ lost |-> vault[x]]
    /\ unsynced' = {}
    /\ shared' = {} /\ exclusive' = None /\ local' = None
    /\ pc' = [p \in Processes |-> "idle"]
    /\ task' = [p \in Writers \cup Capturers |-> None]
    /\ journal' = [m \in Maintainers |-> None]
    /\ todo' = [m \in Maintainers |-> {}]
    /\ faults' = faults + 1
    /\ UNCHANGED <<marker, audit, request, revs>>

-----------------------------------------------------------------------------

EmptyFunction == [x \in {} |-> None]

Init ==
    /\ \E g \in Histories :
          v2 = [l \in Lineages |-> IF g[l] = None THEN None ELSE [state |-> g[l], captured |-> FALSE]]
    /\ vault = EmptyFunction /\ unsynced = {} /\ marker = None /\ audit = EmptyFunction
    /\ shared = {} /\ exclusive = None /\ local = None
    /\ pc = [p \in Processes |-> "idle"]
    /\ task = [p \in Writers \cup Capturers |-> None]
    /\ request = [m \in Maintainers |-> None]
    /\ journal = [m \in Maintainers |-> None]
    /\ todo = [m \in Maintainers |-> {}]
    /\ revs = Cardinality(Lineages) /\ faults = 0

WriterStep(w) == WaitShared(w) \/ CheckMarker(w) \/ LockStore(w, "write") \/ Write(w)

BatchStep(m) ==
    \/ WaitExclusive(m) \/ LockStore(m, "inspect")
    \/ Resume(m) \/ Bind(m) \/ Refuse(m)
    \/ Mark(m) \/ AuditPrepared(m) \/ AuditCommitted(m)
    \/ \E l \in Lineages : Move(m, l) \/ VerifyMoved(m, l)
    \/ Sync(m) \/ Commit(m) \/ Clear(m)

Next ==
    \/ \E w \in Writers : WriterStep(w) \/ \E l \in Lineages : Begin(w, l)
    \/ \E c \in Capturers : Capture(c) \/ \E l \in Lineages : BeginCapture(c, l)
    \/ \E m \in Maintainers : Prepare(m) \/ Submit(m) \/ BatchStep(m) \/ Fail(m)
    \/ \E p \in Processes : Stop(p)
    \/ PowerLoss

Spec == Init /\ [][Next]_vars

(* The operator runs an interrupted batch again; whoever polls a lock gets *)
(* it once it stays free; a process that is running takes its steps.       *)
FairSpec ==
    /\ Spec
    /\ \A w \in Writers : WF_vars(WriterStep(w))
    /\ \A m \in Maintainers : WF_vars(Submit(m) \/ BatchStep(m))

-----------------------------------------------------------------------------
(* Properties *)

(* Types of all variables. *)
TypeOK ==
    /\ v2 \in [Lineages -> Entries \cup {None}]
    /\ DOMAIN vault \subseteq Requests \X Lineages
    /\ \A x \in DOMAIN vault : vault[x] \in Entries
    /\ unsynced \subseteq DOMAIN vault
    /\ marker \in Journals \cup {None}
    /\ DOMAIN audit \subseteq Requests
    /\ \A r \in DOMAIN audit : audit[r] \in Audits
    /\ shared \subseteq Writers /\ exclusive \in Maintainers \cup {None}
    /\ local \in Writers \cup Maintainers \cup {None}
    /\ pc \in [Processes -> {"idle", "wait", "check", "lock", "write", "publish", "inspect",
                             "mark", "audit", "move", "sync", "clear"}]
    /\ task \in [Writers \cup Capturers -> Tasks \cup {None}]
    /\ request \in [Maintainers -> Requests \cup {None}]
    /\ journal \in [Maintainers -> Journals \cup {None}]
    /\ todo \in [Maintainers -> SUBSET Lineages]
    /\ revs \in Nat /\ faults \in Nat

(* The record of a lineage, as the store accounts for it: what a prepared  *)
(* and uncommitted batch has moved still counts.                           *)
Authority ==
    [l \in Lineages |->
        IF v2[l] # None /\ v2[l].state # None THEN v2[l].state
        ELSE IF marker # None /\ ~Committed(marker.request) /\ Moved(marker.request, l)
             THEN vault[<<marker.request, l>>].state
             ELSE None]

Atomic == INSTANCE AtomicReconcile WITH authority <- Authority

(* All or nothing (compact_batch_reconcile_journal.go): whatever stops and *)
(* retries, the authority moves from an invalid graph to that graph        *)
(* without exactly the closure of its invalid edges, in one step; no       *)
(* writer that read the store before undoes part of it.                    *)
AllOrNothing == Atomic!Spec

(* A prepared batch freezes the authority (ensureNoPreparedCompactBatch-   *)
(* Reconciliation): from the marker until it is gone nothing changes but   *)
(* by the commit of that batch.                                            *)
PreparedFreezes ==
    [][marker # None /\ marker' # None =>
          \/ Authority' = Authority
          \/ ~Committed(marker.request) /\ Committed(marker.request)']_vars

(* At most one batch is between preparation and commit, and the marker     *)
(* names it: a crash never leaves two half-moved batches, nor one that     *)
(* nothing points at.                                                      *)
OnePreparedBatch ==
    \A r \in DOMAIN audit : ~audit[r].committed => marker # None /\ marker.request = r

(* What lies in quarantine is what the audit record bound, identity and    *)
(* residue, although evidence capture writes into the same directories     *)
(* without a lock.                                                         *)
QuarantineIsBound ==
    \A x \in DOMAIN vault :
        x[1] \in DOMAIN audit /\ Matches(vault[x], audit[x[1]].journal, x[2])

(* A prepared batch is eventually committed and the store opened again,    *)
(* provided nothing but the batch touches the entries it moves.            *)
BatchCompletes == marker # None ~> marker = None

(* "durably journals every whole-entry quarantine move": once the audit is *)
(* committed no move of the batch can be lost any more.                    *)
CommittedMovesDurable ==
    \A r \in DOMAIN audit : audit[r].committed => \A x \in unsynced : x[1] # r

=============================================================================
