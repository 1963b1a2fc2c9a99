------------------------ MODULE BatchReconcileProofs ------------------------
(***************************************************************************)
(* Theorems of RecoveryGraph and BatchReconcile, for any lineages, graphs, *)
(* writers, capturers and maintainers: the types, the locks, the one       *)
(* prepared batch, and what a batch does to the authority: what lies in    *)
(* quarantine was bound, and, without power loss, the authority changes as *)
(* AtomicReconcile says.                                                   *)
(***************************************************************************)
EXTENDS BatchReconcile, FiniteSetTheorems, TLAPS

-----------------------------------------------------------------------------
(* The graph *)

(* What is quarantined is the least set that holds the invalid lineages    *)
(* and everything recovered from a member.                                 *)
LEMMA QuarantinedIsLeastClosure ==
    ASSUME NEW g \in Graphs
    PROVE  /\ Quarantined(g) \subseteq Recorded(g)
           /\ Invalid(g) \subseteq Quarantined(g)
           /\ ClosedBelow(g, Quarantined(g))
           /\ \A C \in Closures(g) : Quarantined(g) \subseteq C
BY DEF Quarantined, Closures, ClosedBelow, Invalid, Recovered

(* A batch leaves a valid graph: taking the closure of the invalid edges   *)
(* out leaves no edge without its predecessor and makes none invalid       *)
(* (the retained graph of PlanCompactBatchReconciliation).                 *)
THEOREM RetainedGraphIsValid ==
    \A g \in Graphs : Invalid(Without(g, Quarantined(g))) = {}
<1> SUFFICES ASSUME NEW g \in Graphs, NEW l \in Invalid(Without(g, Quarantined(g)))
             PROVE  FALSE
  OBVIOUS
<1> DEFINE Q == Quarantined(g)
           h == Without(g, Q)
<1>1. l \in Recovered(h) /\ (~Anchored(h, l) \/ ~h[l].sound \/ Forked(h, l))
  BY DEF Invalid
<1>2. l \notin Q /\ h[l] = g[l] /\ l \in Recovered(g)
  BY <1>1 DEF Recovered, Recorded, Without
<1>3. l \notin Invalid(g)
  BY <1>2, QuarantinedIsLeastClosure
<1>4. Anchored(g, l) /\ g[l].sound /\ ~Forked(g, l)
  BY <1>2, <1>3 DEF Invalid
<1>5. g[l].pred \notin Q
  BY <1>2, QuarantinedIsLeastClosure DEF ClosedBelow
<1>6. Anchored(h, l)
  BY <1>2, <1>4, <1>5 DEF Anchored, Recorded, Without
<1>7. ~Forked(h, l)
  <2>1. \A k \in Recovered(h) : k \in Recovered(g) /\ h[k] = g[k]
    BY DEF Recovered, Recorded, Without
  <2>2. QED
    BY <2>1, <1>2, <1>4 DEF Forked
<1>8. QED
  BY <1>1, <1>2, <1>4, <1>6, <1>7

-----------------------------------------------------------------------------
(* Types *)

(* Which process can be where, and what it then holds. *)
InProgress ==
    /\ \A w \in Writers :
          /\ pc[w] \in {"idle", "wait", "check", "lock", "write"}
          /\ pc[w] # "idle" => task[w] \in Tasks
    /\ \A c \in Capturers : pc[c] \in {"idle", "publish"} /\ (pc[c] # "idle" => task[c] \in Tasks)
    /\ \A m \in Maintainers :
          /\ pc[m] \in {"idle", "wait", "lock", "inspect", "mark", "audit", "move", "sync", "clear"}
          /\ pc[m] # "idle" => request[m] \in Requests
          /\ pc[m] \in {"mark", "audit", "move", "sync", "clear"} => journal[m] \in Journals

ProcTypes ==
    /\ pc \in [Processes -> {"idle", "wait", "check", "lock", "write", "publish", "inspect",
                             "mark", "audit", "move", "sync", "clear"}]
    /\ task \in [Writers \cup Capturers -> Tasks \cup {None}]
    /\ request \in [Maintainers -> Requests \cup {None}]
    /\ journal \in [Maintainers -> Journals \cup {None}]
    /\ todo \in [Maintainers -> SUBSET Lineages]

LockTypes ==
    /\ shared \subseteq Writers /\ exclusive \in Maintainers \cup {None}
    /\ local \in Writers \cup Maintainers \cup {None}

DiskTypes ==
    /\ v2 \in [Lineages -> Entries \cup {None}]
    /\ DOMAIN vault \subseteq Requests \X Lineages
    /\ \A x \in DOMAIN vault : vault[x] \in Entries
    /\ unsynced \subseteq DOMAIN vault
    /\ marker \in Journals \cup {None}
    /\ DOMAIN audit \subseteq Requests
    /\ \A r \in DOMAIN audit : audit[r] \in Audits

TypeInv ==
    DiskTypes /\ LockTypes /\ ProcTypes /\ revs \in Nat /\ faults \in Nat /\ InProgress

LEMMA TypeInvIsTyped == TypeInv => TypeOK
BY DEF TypeInv, TypeOK, DiskTypes, LockTypes, ProcTypes

LEMMA GraphTypes ==
    ASSUME DiskTypes
    PROVE  GraphOf(v2) \in Graphs
BY GraphAssumption DEF DiskTypes, GraphOf, Graphs, Entries

LEMMA PlannedLineages == \A r : Planned(r) \subseteq Lineages
BY DEF Planned, Quarantined, Recorded

(* Whoever releases is idle and holds nothing; everybody else is where he  *)
(* was, with what he had.                                                  *)
LEMMA ReleaseStep ==
    ASSUME TypeInv, NEW p \in Processes, Release(p), request' \in [Maintainers -> Requests \cup {None}],
           \A m \in Maintainers \ {p} : request'[m] = request[m]
    PROVE  /\ LockTypes' /\ ProcTypes' /\ InProgress'
           /\ pc'[p] = "idle"
           /\ \A q \in Processes \ {p} : pc'[q] = pc[q]
           /\ \A m \in Maintainers \ {p} : journal'[m] = journal[m] /\ todo'[m] = todo[m]
           /\ \A w \in Writers \ {p} : task'[w] = task[w]
           /\ p \in Maintainers => journal'[p] = None
           /\ shared' = shared \ {p}
           /\ exclusive' = IF exclusive = p THEN None ELSE exclusive
<1>1. LockTypes'
  BY DEF LockTypes, Release, TypeInv
<1>2. ProcTypes'
  BY DEF ProcTypes, Release, TypeInv, Processes
<1>3. /\ pc'[p] = "idle"
      /\ \A q \in Processes \ {p} : pc'[q] = pc[q]
      /\ \A m \in Maintainers \ {p} : journal'[m] = journal[m] /\ todo'[m] = todo[m]
      /\ p \in Maintainers => journal'[p] = None
      /\ \A w \in (Writers \cup Capturers) \ {p} : task'[w] = task[w]
  BY DEF Release, TypeInv, ProcTypes, Processes
<1>4. InProgress'
  <2> USE <1>3 DEF TypeInv, InProgress, Processes
  <2>1. \A w \in Writers :
          /\ pc'[w] \in {"idle", "wait", "check", "lock", "write"}
          /\ pc'[w] # "idle" => task'[w] \in Tasks
    OBVIOUS
  <2>2. \A c \in Capturers : pc'[c] \in {"idle", "publish"} /\ (pc'[c] # "idle" => task'[c] \in Tasks)
    OBVIOUS
  <2>3. \A m \in Maintainers :
          /\ pc'[m] \in {"idle", "wait", "lock", "inspect", "mark", "audit", "move", "sync", "clear"}
          /\ pc'[m] # "idle" => request'[m] \in Requests
          /\ pc'[m] \in {"mark", "audit", "move", "sync", "clear"} => journal'[m] \in Journals
    OBVIOUS
  <2>4. QED
    BY <2>1, <2>2, <2>3
<1>5. QED
  BY <1>1, <1>2, <1>3, <1>4 DEF Release

LEMMA UnchangedDisk ==
    ASSUME DiskTypes, UNCHANGED disk
    PROVE  DiskTypes'
BY DEF DiskTypes, disk

LEMMA WriterTypes ==
    ASSUME TypeInv, NEW w \in Writers, WriterStep(w) \/ \E l \in Lineages : Begin(w, l)
    PROVE  TypeInv'
<1> USE DEF TypeInv
<1>0. w \in Processes /\ w \notin Maintainers /\ w \notin Capturers
  BY BatchAssumption DEF Processes
<1>1. ASSUME NEW l \in Lineages, Begin(w, l) PROVE TypeInv'
  <2>1. DiskTypes' /\ LockTypes' /\ revs' \in Nat /\ faults' \in Nat
    BY <1>1, UnchangedDisk DEF Begin, locks, LockTypes
  <2>2. [lineage |-> l, base |-> IF v2[l] = None THEN None ELSE v2[l].state] \in Tasks
    BY DEF DiskTypes, Tasks, Entries
  <2>3. ProcTypes' /\ InProgress'
    BY <1>0, <1>1, <2>2 DEF Begin, ProcTypes, InProgress, Processes
  <2>4. QED
    BY <2>1, <2>3
<1>2. CASE WaitShared(w)
  <2>1. DiskTypes' /\ LockTypes' /\ revs' \in Nat /\ faults' \in Nat
    BY <1>2, UnchangedDisk DEF WaitShared, LockTypes
  <2>2. ProcTypes' /\ InProgress'
    BY <1>0, <1>2 DEF WaitShared, ProcTypes, InProgress, Processes
  <2>3. QED
    BY <2>1, <2>2
<1>3. CASE CheckMarker(w)
  <2>1. DiskTypes' /\ revs' \in Nat /\ faults' \in Nat
    BY <1>3, UnchangedDisk DEF CheckMarker
  <2>2. CASE Release(w)
    BY <1>0, <1>3, <2>1, <2>2, ReleaseStep DEF CheckMarker, ProcTypes
  <2>3. CASE ~Release(w)
    <3>1. LockTypes'
      BY <1>3, <2>3 DEF CheckMarker, LockTypes, locks
    <3>2. ProcTypes' /\ InProgress'
      BY <1>0, <1>3, <2>3 DEF CheckMarker, ProcTypes, InProgress, Processes
    <3>3. QED
      BY <2>1, <3>1, <3>2
  <2>4. QED
    BY <2>2, <2>3
<1>4. CASE LockStore(w, "write")
  <2>1. DiskTypes' /\ revs' \in Nat /\ faults' \in Nat
    BY <1>4, UnchangedDisk DEF LockStore
  <2>2. CASE Release(w)
    BY <1>0, <1>4, <2>1, <2>2, ReleaseStep DEF LockStore, ProcTypes
  <2>3. CASE ~Release(w)
    <3>1. LockTypes'
      BY <1>4, <2>3 DEF LockStore, LockTypes
    <3>2. ProcTypes' /\ InProgress'
      BY <1>0, <1>4, <2>3 DEF LockStore, ProcTypes, InProgress, Processes
    <3>3. QED
      BY <2>1, <3>1, <3>2
  <2>4. QED
    BY <2>2, <2>3
<1>5. CASE Write(w)
  <2>1. LockTypes' /\ ProcTypes' /\ InProgress'
    BY <1>0, <1>5, ReleaseStep DEF Write, ProcTypes
  <2>2. task[w] \in Tasks
    BY <1>5 DEF Write, InProgress
  <2>3. Successor(task[w]) \in States
    BY <2>2 DEF Successor, Tasks, States
  <2>4. DiskTypes'
    <3> DEFINE t == task[w]
               kept == v2[t.lineage] # None /\ v2[t.lineage].captured
    <3>1. kept \in BOOLEAN
      OBVIOUS
    <3>2. [state |-> Successor(t), captured |-> kept] \in Entries
      BY <2>3, <3>1 DEF Entries
    <3> HIDE DEF kept
    <3>3. v2' \in [Lineages -> Entries \cup {None}]
      BY <1>5, <2>2, <3>2 DEF Write, DiskTypes, Tasks, kept
    <3>4. QED
      BY <1>5, <3>3 DEF Write, DiskTypes
  <2>5. revs' \in Nat /\ faults' \in Nat
    BY <1>5 DEF Write
  <2>6. QED
    BY <2>1, <2>4, <2>5
<1>6. QED
  BY <1>1, <1>2, <1>3, <1>4, <1>5 DEF WriterStep

LEMMA CaptureTypes ==
    ASSUME TypeInv, NEW c \in Capturers, Capture(c) \/ \E l \in Lineages : BeginCapture(c, l)
    PROVE  TypeInv'
<1> USE DEF TypeInv
<1>0. c \in Processes /\ c \notin Maintainers /\ c \notin Writers
  BY BatchAssumption DEF Processes
<1>1. ASSUME NEW l \in Lineages, BeginCapture(c, l) PROVE TypeInv'
  <2>1. DiskTypes' /\ LockTypes' /\ revs' \in Nat /\ faults' \in Nat
    BY <1>1, UnchangedDisk DEF BeginCapture, locks, LockTypes
  <2>2. [lineage |-> l, base |-> v2[l].state] \in Tasks
    BY <1>1 DEF DiskTypes, Tasks, Entries, BeginCapture
  <2>3. ProcTypes' /\ InProgress'
    BY <1>0, <1>1, <2>2 DEF BeginCapture, ProcTypes, InProgress, Processes
  <2>4. QED
    BY <2>1, <2>3
<1>2. CASE Capture(c)
  <2>1. task[c] \in Tasks
    BY <1>2 DEF Capture, InProgress
  <2>2. DiskTypes'
    BY <1>2, <2>1 DEF Capture, DiskTypes, Entries, Tasks
  <2>3. LockTypes' /\ revs' \in Nat /\ faults' \in Nat
    BY <1>2 DEF Capture, locks, LockTypes
  <2>4. ProcTypes' /\ InProgress'
    BY <1>0, <1>2 DEF Capture, ProcTypes, InProgress, Processes
  <2>5. QED
    BY <2>2, <2>3, <2>4
<1>3. QED
  BY <1>1, <1>2

LEMMA BatchTypes ==
    ASSUME TypeInv, NEW m \in Maintainers, Prepare(m) \/ Submit(m) \/ BatchStep(m) \/ Fail(m)
    PROVE  TypeInv'
<1> USE DEF TypeInv
<1>0. m \in Processes /\ m \notin Writers /\ m \notin Capturers
  BY BatchAssumption DEF Processes
<1>1. CASE Prepare(m)
  <2>1. DiskTypes' /\ LockTypes' /\ revs' \in Nat /\ faults' \in Nat
    BY <1>1, UnchangedDisk DEF Prepare, locks, LockTypes
  <2>2. [actor |-> m, graph |-> GraphOf(v2)] \in Requests
    BY GraphTypes DEF Requests
  <2>3. ProcTypes' /\ InProgress'
    BY <1>1, <2>2 DEF Prepare, ProcTypes, InProgress
  <2>4. QED
    BY <2>1, <2>3
<1>2. CASE Submit(m)
  <2>1. DiskTypes' /\ LockTypes' /\ revs' \in Nat /\ faults' \in Nat
    BY <1>2, UnchangedDisk DEF Submit, locks, LockTypes
  <2>2. ProcTypes' /\ InProgress'
    BY <1>0, <1>2 DEF Submit, ProcTypes, InProgress, Processes
  <2>3. QED
    BY <2>1, <2>2
<1>3. CASE WaitExclusive(m)
  <2>1. DiskTypes' /\ LockTypes' /\ revs' \in Nat /\ faults' \in Nat
    BY <1>3, UnchangedDisk DEF WaitExclusive, LockTypes
  <2>2. ProcTypes' /\ InProgress'
    BY <1>0, <1>3 DEF WaitExclusive, ProcTypes, InProgress, Processes
  <2>3. QED
    BY <2>1, <2>2
<1>4. CASE LockStore(m, "inspect")
  <2>1. DiskTypes' /\ revs' \in Nat /\ faults' \in Nat
    BY <1>4, UnchangedDisk DEF LockStore
  <2>2. CASE Release(m)
    BY <1>0, <1>4, <2>1, <2>2, ReleaseStep DEF LockStore, ProcTypes
  <2>3. CASE ~Release(m)
    <3>1. LockTypes'
      BY <1>4, <2>3 DEF LockStore, LockTypes
    <3>2. ProcTypes' /\ InProgress'
      BY <1>0, <1>4, <2>3 DEF LockStore, ProcTypes, InProgress, Processes
    <3>3. QED
      BY <2>1, <3>1, <3>2
  <2>4. QED
    BY <2>2, <2>3
<1>5. CASE Resume(m)
  <2> DEFINE j == IF marker # None THEN marker ELSE audit[request[m]].journal
  <2>1. j \in Journals
    BY <1>5 DEF Resume, Resumable, DiskTypes, Audits
  <2> HIDE DEF j
  <2>2. marker' = j /\ journal' = [journal EXCEPT ![m] = j] /\ pc' = [pc EXCEPT ![m] = "audit"]
    BY <1>5 DEF Resume, j
  <2>3. DiskTypes' /\ LockTypes' /\ revs' \in Nat /\ faults' \in Nat
    BY <1>5, <2>1, <2>2 DEF Resume, DiskTypes, locks, LockTypes
  <2>4. ProcTypes' /\ InProgress'
    BY <1>0, <1>5, <2>1, <2>2 DEF Resume, ProcTypes, InProgress, Processes
  <2>5. QED
    BY <2>3, <2>4
<1>6. CASE Bind(m)
  <2> DEFINE j == [request |-> request[m], residue |-> {l \in Planned(request[m]) : v2[l].captured}]
  <2>1. j \in Journals
    BY <1>6, PlannedLineages DEF Bind, InProgress, Journals
  <2> HIDE DEF j
  <2>2. journal' = [journal EXCEPT ![m] = j] /\ pc' = [pc EXCEPT ![m] = "mark"]
    BY <1>6 DEF Bind, j
  <2>3. DiskTypes' /\ LockTypes' /\ revs' \in Nat /\ faults' \in Nat
    BY <1>6, UnchangedDisk DEF Bind, locks, LockTypes
  <2>4. ProcTypes' /\ InProgress'
    <3>1. UNCHANGED <<task, request, todo>> /\ pc[m] = "inspect" /\ request[m] \in Requests
      BY <1>6 DEF Bind, InProgress
    <3>2. QED
      BY <1>0, <2>1, <2>2, <3>1 DEF ProcTypes, InProgress, Processes
  <2>5. QED
    BY <2>3, <2>4
<1>7. CASE Refuse(m)
  <2>1. DiskTypes' /\ revs' \in Nat /\ faults' \in Nat
    BY <1>7, UnchangedDisk DEF Refuse
  <2>2. QED
    BY <1>0, <1>7, <2>1, ReleaseStep DEF Refuse, ProcTypes
<1>8. CASE Mark(m)
  <2>1. DiskTypes' /\ LockTypes' /\ revs' \in Nat /\ faults' \in Nat
    BY <1>8 DEF Mark, InProgress, DiskTypes, locks, LockTypes
  <2>2. ProcTypes' /\ InProgress'
    BY <1>0, <1>8 DEF Mark, ProcTypes, InProgress, Processes
  <2>3. QED
    BY <2>1, <2>2
<1>9. CASE AuditPrepared(m)
  <2>1. journal[m] \in Journals /\ journal[m].request \in Requests
    BY <1>9 DEF AuditPrepared, InProgress, Journals
  <2>2. [journal |-> journal[m], committed |-> FALSE] \in Audits
    BY <2>1 DEF Audits
  <2>3. DiskTypes' /\ LockTypes' /\ revs' \in Nat /\ faults' \in Nat
    BY <1>9, <2>1, <2>2 DEF AuditPrepared, DiskTypes, locks, LockTypes
  <2>4. ProcTypes' /\ InProgress'
    BY <1>0, <1>9, PlannedLineages DEF AuditPrepared, ProcTypes, InProgress, Processes
  <2>5. QED
    BY <2>3, <2>4
<1>10. CASE AuditCommitted(m)
  <2>1. DiskTypes' /\ LockTypes' /\ revs' \in Nat /\ faults' \in Nat
    BY <1>10, UnchangedDisk DEF AuditCommitted, locks, LockTypes
  <2>2. ProcTypes' /\ InProgress'
    BY <1>0, <1>10 DEF AuditCommitted, ProcTypes, InProgress, Processes
  <2>3. QED
    BY <2>1, <2>2
<1>11. ASSUME NEW l \in Lineages, Move(m, l) PROVE TypeInv'
  <2> DEFINE r == journal[m].request
  <2>1. r \in Requests
    BY <1>11 DEF Move, InProgress, Journals
  <2>2. v2[l] \in Entries
    BY <1>11 DEF Move, Movable, DiskTypes
  <2> HIDE DEF r
  <2>3. /\ v2' = [v2 EXCEPT ![l] = None]
        /\ vault' = [x \in DOMAIN vault \cup {<<r, l>>} |-> IF x = <<r, l>> THEN v2[l] ELSE vault[x]]
        /\ unsynced' = unsynced \cup {<<r, l>>}
        /\ UNCHANGED <<marker, audit>>
    BY <1>11 DEF Move, r
  <2>4. DiskTypes'
    <3>1. DOMAIN vault' \subseteq Requests \X Lineages /\ unsynced' \subseteq DOMAIN vault'
      BY <2>1, <2>3 DEF DiskTypes
    <3>2. \A x \in DOMAIN vault' : vault'[x] \in Entries
      BY <2>2, <2>3 DEF DiskTypes
    <3>3. QED
      BY <2>3, <3>1, <3>2 DEF DiskTypes
  <2>5. LockTypes' /\ revs' \in Nat /\ faults' \in Nat
    BY <1>11 DEF Move, locks, LockTypes
  <2>6. ProcTypes' /\ InProgress'
    BY <1>0, <1>11 DEF Move, ProcTypes, InProgress, Processes
  <2>7. QED
    BY <2>4, <2>5, <2>6
<1>12. ASSUME NEW l \in Lineages, VerifyMoved(m, l) PROVE TypeInv'
  <2>1. DiskTypes' /\ LockTypes' /\ revs' \in Nat /\ faults' \in Nat
    BY <1>12, UnchangedDisk DEF VerifyMoved, locks, LockTypes
  <2>2. ProcTypes' /\ InProgress'
    BY <1>0, <1>12 DEF VerifyMoved, ProcTypes, InProgress, Processes
  <2>3. QED
    BY <2>1, <2>2
<1>13. CASE Sync(m)
  <2>1. DiskTypes' /\ LockTypes' /\ revs' \in Nat /\ faults' \in Nat
    BY <1>13 DEF Sync, DiskTypes, locks, LockTypes
  <2>2. ProcTypes' /\ InProgress'
    BY <1>0, <1>13 DEF Sync, ProcTypes, InProgress, Processes
  <2>3. QED
    BY <2>1, <2>2
<1>14. CASE Commit(m)
  <2>1. [journal |-> journal[m], committed |-> TRUE] \in Audits
    BY <1>14 DEF Commit, InProgress, Audits
  <2>2. DiskTypes' /\ LockTypes' /\ revs' \in Nat /\ faults' \in Nat
    BY <1>14, <2>1 DEF Commit, DiskTypes, locks, LockTypes
  <2>3. ProcTypes' /\ InProgress'
    BY <1>0, <1>14 DEF Commit, ProcTypes, InProgress, Processes
  <2>4. QED
    BY <2>2, <2>3
<1>15. CASE Clear(m)
  <2>1. DiskTypes' /\ revs' \in Nat /\ faults' \in Nat
    BY <1>15 DEF Clear, DiskTypes
  <2>2. QED
    BY <1>0, <1>15, <2>1, ReleaseStep DEF Clear, ProcTypes
<1>16. CASE Fail(m)
  <2>1. DiskTypes' /\ revs' \in Nat /\ faults' \in Nat
    BY <1>16, UnchangedDisk DEF Fail
  <2>2. QED
    BY <1>0, <1>16, <2>1, ReleaseStep DEF Fail, ProcTypes
<1>17. QED
  BY <1>1, <1>2, <1>3, <1>4, <1>5, <1>6, <1>7, <1>8, <1>9, <1>10, <1>11, <1>12, <1>13, <1>14,
     <1>15, <1>16 DEF BatchStep

LEMMA StopTypes ==
    ASSUME TypeInv, NEW p \in Processes, Stop(p)
    PROVE  TypeInv'
<1>1. DiskTypes' /\ revs' \in Nat
  BY UnchangedDisk DEF Stop, TypeInv
<1>2. faults' \in Nat
  BY DEF Stop, TypeInv
<1>3. QED
  BY <1>1, <1>2, ReleaseStep DEF Stop, TypeInv, ProcTypes

LEMMA PowerLossTypes ==
    ASSUME TypeInv, PowerLoss
    PROVE  TypeInv'
<1> USE DEF TypeInv
<1>1. PICK lost \in SUBSET {x \in unsynced : v2[x[2]] = None} :
          /\ v2' = [l \in Lineages |->
                IF \E x \in lost : x[2] = l THEN vault[CHOOSE x \in lost : x[2] = l] ELSE v2[l]]
          /\ vault' = [x \in DOMAIN vault \ lost |-> vault[x]]
  BY DEF PowerLoss
<1>2. v2' \in [Lineages -> Entries \cup {None}]
  <2>1. ASSUME NEW l \in Lineages PROVE v2'[l] \in Entries \cup {None}
    <3>1. CASE \E x \in lost : x[2] = l
      <4>1. (CHOOSE x \in lost : x[2] = l) \in DOMAIN vault
        BY <3>1 DEF DiskTypes
      <4>2. QED
        BY <1>1, <3>1, <4>1 DEF DiskTypes
    <3>2. CASE ~\E x \in lost : x[2] = l
      BY <1>1, <3>2 DEF DiskTypes
    <3>3. QED
      BY <3>1, <3>2
  <2>2. QED
    BY <1>1, <2>1
<1>3. DiskTypes'
  BY <1>1, <1>2 DEF PowerLoss, DiskTypes
<1>4. LockTypes' /\ ProcTypes' /\ InProgress' /\ revs' \in Nat /\ faults' \in Nat
  BY DEF PowerLoss, LockTypes, ProcTypes, InProgress, Processes
<1>5. QED
  BY <1>3, <1>4

LEMMA TypeInit ==
    ASSUME Init
    PROVE  TypeInv
<1>1. PICK g \in Histories :
          v2 = [l \in Lineages |-> IF g[l] = None THEN None ELSE [state |-> g[l], captured |-> FALSE]]
  BY DEF Init
<1>2. g \in Graphs
  BY BatchAssumption
<1>3. v2 \in [Lineages -> Entries \cup {None}]
  BY <1>1, <1>2 DEF Graphs, Entries
<1>4. DiskTypes
  BY <1>3 DEF Init, DiskTypes, EmptyFunction
<1>5. LockTypes /\ ProcTypes /\ InProgress /\ revs \in Nat /\ faults \in Nat
  BY BatchAssumption, FS_CardinalityType DEF Init, LockTypes, ProcTypes, InProgress, Processes
<1>6. QED
  BY <1>4, <1>5 DEF TypeInv

LEMMA TypeStep ==
    ASSUME TypeInv, [Next]_vars
    PROVE  TypeInv'
<1>1. CASE UNCHANGED vars
  BY <1>1 DEF vars, disk, locks, procs, TypeInv, DiskTypes, LockTypes, ProcTypes, InProgress
<1>2. CASE Next
  BY <1>2, WriterTypes, CaptureTypes, BatchTypes, StopTypes, PowerLossTypes DEF Next
<1>3. QED
  BY <1>1, <1>2

(* The types of the store, the locks and the processes                     *)
(* (CompactStore, storeLock, CompactBatchReconcileJournal).                *)
THEOREM BatchTypeCorrect == Spec => []TypeOK
<1>1. Init => TypeInv
  BY TypeInit
<1>2. TypeInv /\ [Next]_vars => TypeInv'
  BY TypeStep
<1>3. TypeInv => TypeOK
  BY TypeInvIsTyped
<1>4. QED
  BY <1>1, <1>2, <1>3, PTL DEF Spec

-----------------------------------------------------------------------------
(* The maintenance lock *)

(* Where a batch holds the maintenance lock. *)
Holding == {"lock", "inspect", "mark", "audit", "move", "sync", "clear"}

(* Writers in their critical section share the lock; a batch has it alone. *)
LockInv ==
    /\ \A w \in Writers : pc[w] \in {"check", "lock", "write"} => w \in shared
    /\ shared # {} => exclusive = None
    /\ \A m \in Maintainers : pc[m] \in Holding => exclusive = m

LEMMA HolderAlone ==
    ASSUME TypeInv, LockInv, NEW m \in Maintainers, pc[m] \in Holding
    PROVE  /\ \A q \in Maintainers \ {m} : pc[q] \notin Holding
           /\ \A w \in Writers : pc[w] \notin {"check", "lock", "write"}
           /\ shared = {} /\ exclusive = m
BY BatchAssumption DEF LockInv, Processes

LEMMA ReleaseLocks ==
    ASSUME TypeInv, LockInv, NEW p \in Processes, Release(p),
           request' \in [Maintainers -> Requests \cup {None}],
           \A m \in Maintainers \ {p} : request'[m] = request[m]
    PROVE  LockInv'
<1>1. /\ pc'[p] = "idle"
      /\ \A q \in Processes \ {p} : pc'[q] = pc[q]
      /\ shared' = shared \ {p}
      /\ exclusive' = IF exclusive = p THEN None ELSE exclusive
  BY ReleaseStep
<1>2. QED
  BY <1>1 DEF LockInv, Processes, Holding

LEMMA WriterLocks ==
    ASSUME TypeInv, LockInv, NEW w \in Writers, WriterStep(w) \/ \E l \in Lineages : Begin(w, l)
    PROVE  LockInv'
<1> USE DEF LockInv, TypeInv, ProcTypes, Processes, Holding
<1>0. w \in Processes /\ w \notin Maintainers
  BY BatchAssumption
<1>1. ASSUME NEW l \in Lineages, Begin(w, l) PROVE LockInv'
  BY <1>0, <1>1 DEF Begin, locks
<1>2. CASE WaitShared(w)
  BY <1>0, <1>2 DEF WaitShared
<1>3. CASE CheckMarker(w)
  <2>1. CASE Release(w)
    BY <1>0, <1>3, <2>1, ReleaseLocks DEF CheckMarker
  <2>2. CASE ~Release(w)
    BY <1>0, <1>3, <2>2 DEF CheckMarker, locks
  <2>3. QED
    BY <2>1, <2>2
<1>4. CASE LockStore(w, "write")
  <2>1. CASE Release(w)
    BY <1>0, <1>4, <2>1, ReleaseLocks DEF LockStore
  <2>2. CASE ~Release(w)
    BY <1>0, <1>4, <2>2 DEF LockStore
  <2>3. QED
    BY <2>1, <2>2
<1>5. CASE Write(w)
  BY <1>0, <1>5, ReleaseLocks DEF Write
<1>6. QED
  BY <1>1, <1>2, <1>3, <1>4, <1>5 DEF WriterStep

LEMMA CaptureLocks ==
    ASSUME TypeInv, LockInv, NEW c \in Capturers, Capture(c) \/ \E l \in Lineages : BeginCapture(c, l)
    PROVE  LockInv'
<1>0. c \in Processes /\ c \notin Maintainers /\ c \notin Writers
  BY BatchAssumption DEF Processes
<1>1. UNCHANGED locks /\ \A q \in Processes \ {c} : pc'[q] = pc[q]
  BY DEF Capture, BeginCapture, TypeInv, ProcTypes
<1>2. QED
  BY <1>0, <1>1 DEF LockInv, locks, Processes

(* A batch keeps the lock from where it has it to where it releases it. *)
LEMMA BatchLocks ==
    ASSUME TypeInv, LockInv, NEW m \in Maintainers, Prepare(m) \/ Submit(m) \/ BatchStep(m) \/ Fail(m)
    PROVE  LockInv'
<1> USE DEF TypeInv, ProcTypes
<1>0. m \in Processes /\ m \notin Writers
  BY BatchAssumption DEF Processes
<1>1. CASE Prepare(m)
  BY <1>1 DEF Prepare, LockInv, locks
<1>2. CASE Submit(m)
  BY <1>0, <1>2 DEF Submit, LockInv, locks, Processes, Holding
<1>3. CASE WaitExclusive(m)
  BY <1>0, <1>3, BatchAssumption DEF WaitExclusive, LockInv, Processes, Holding
<1>4. ASSUME pc[m] \in Holding, UNCHANGED locks, NEW s, pc' = [pc EXCEPT ![m] = s]
      PROVE  LockInv'
  BY <1>0, <1>4 DEF LockInv, locks, Processes
<1>5. CASE Release(m) /\ (request' = request \/ request' = [request EXCEPT ![m] = None])
  BY <1>0, <1>5, ReleaseLocks
<1>6. CASE LockStore(m, "inspect") /\ ~Release(m)
  BY <1>0, <1>6 DEF LockStore, LockInv, Processes, Holding
<1>7. CASE Resume(m)
  BY <1>7, <1>4 DEF Resume, Holding
<1>8. CASE Bind(m)
  BY <1>8, <1>4 DEF Bind, Holding
<1>9. CASE Mark(m)
  BY <1>9, <1>4 DEF Mark, Holding
<1>10. CASE AuditPrepared(m)
  BY <1>10, <1>4 DEF AuditPrepared, Holding
<1>11. CASE AuditCommitted(m)
  BY <1>11, <1>4 DEF AuditCommitted, Holding
<1>12. CASE \E l \in Lineages : Move(m, l)
  BY <1>12, <1>4 DEF Move, Holding
<1>13. CASE \E l \in Lineages : VerifyMoved(m, l)
  BY <1>13 DEF VerifyMoved, LockInv, locks
<1>14. CASE Sync(m)
  BY <1>14, <1>4 DEF Sync, Holding
<1>15. CASE Commit(m)
  BY <1>15, <1>4 DEF Commit, Holding
<1>16. CASE LockStore(m, "inspect") \/ Refuse(m) \/ Clear(m) \/ Fail(m)
  BY <1>5, <1>6, <1>16 DEF LockStore, Refuse, Clear, Fail
<1>17. QED
  BY <1>1, <1>2, <1>3, <1>7, <1>8, <1>9, <1>10, <1>11, <1>12, <1>13, <1>14, <1>15, <1>16 DEF BatchStep

LEMMA LockStep ==
    ASSUME TypeInv, LockInv, [Next]_vars
    PROVE  LockInv'
<1>1. CASE UNCHANGED vars
  BY <1>1 DEF vars, locks, procs, LockInv
<1>2. ASSUME NEW p \in Processes, Stop(p) PROVE LockInv'
  BY <1>2, ReleaseLocks DEF Stop, TypeInv, ProcTypes
<1>3. CASE PowerLoss
  BY <1>3 DEF PowerLoss, LockInv, Processes, Holding
<1>4. QED
  BY <1>1, <1>2, <1>3, WriterLocks, CaptureLocks, BatchLocks DEF Next

LEMMA LockInit == Init => LockInv
BY DEF Init, LockInv, Processes, Holding

-----------------------------------------------------------------------------
(* The marker and the audit records *)

(* What a batch knows of the marker and of its audit record. *)
Knows(m) ==
    LET r == journal[m].request IN
    /\ pc[m] = "mark" => marker = None /\ r \notin DOMAIN audit
    /\ pc[m] \in {"audit", "move", "sync", "clear"} => marker = journal[m]
    /\ pc[m] \in {"move", "sync"} => r \in DOMAIN audit /\ ~audit[r].committed
    /\ pc[m] = "clear" => Committed(r)

(* Writers write only while nothing is prepared; the audit record of the   *)
(* prepared batch is that of the marker.                                   *)
MarkerInv ==
    /\ \A w \in Writers : pc[w] \in {"lock", "write"} => marker = None
    /\ \A m \in Maintainers : Knows(m)
    /\ OnePreparedBatch
    /\ marker # None /\ marker.request \in DOMAIN audit => audit[marker.request].journal = marker

LEMMA IdleKnows == \A m : pc[m] \in {"idle", "wait", "lock", "inspect"} => Knows(m)
BY DEF Knows

(* Marker and audit records as they were, and nobody where he was not but  *)
(* outside of a batch.                                                     *)
LEMMA ReleaseMarker ==
    ASSUME TypeInv, MarkerInv, NEW p \in Processes, Release(p), UNCHANGED <<marker, audit>>,
           request' \in [Maintainers -> Requests \cup {None}],
           \A m \in Maintainers \ {p} : request'[m] = request[m]
    PROVE  MarkerInv'
<1>1. /\ pc'[p] = "idle"
      /\ \A q \in Processes \ {p} : pc'[q] = pc[q]
      /\ \A m \in Maintainers \ {p} : journal'[m] = journal[m]
  BY ReleaseStep
<1>2. \A m \in Maintainers : Knows(m)'
  BY <1>1 DEF MarkerInv, Knows, Committed, Processes
<1>3. QED
  BY <1>1, <1>2 DEF MarkerInv, OnePreparedBatch, Processes

(* A step of a process that is no batch. *)
LEMMA OthersMarker ==
    ASSUME MarkerInv, UNCHANGED <<marker, audit, journal>>,
           \A m \in Maintainers : pc'[m] = pc[m],
           \A w \in Writers : pc'[w] \in {"lock", "write"} => marker = None
    PROVE  MarkerInv'
<1>1. \A m \in Maintainers : Knows(m)'
  BY DEF MarkerInv, Knows, Committed
<1>2. QED
  BY <1>1 DEF MarkerInv, OnePreparedBatch

LEMMA WriterMarker ==
    ASSUME TypeInv, MarkerInv, NEW w \in Writers, WriterStep(w) \/ \E l \in Lineages : Begin(w, l)
    PROVE  MarkerInv'
<1> USE DEF TypeInv, ProcTypes, Processes
<1>0. w \in Processes /\ w \notin Maintainers
  BY BatchAssumption
<1>1. CASE \E l \in Lineages : Begin(w, l)
  BY <1>0, <1>1, OthersMarker DEF Begin, disk, MarkerInv
<1>2. CASE WaitShared(w)
  BY <1>0, <1>2, OthersMarker DEF WaitShared, disk, MarkerInv
<1>3. CASE CheckMarker(w)
  <2>1. CASE Release(w)
    BY <1>0, <1>3, <2>1, ReleaseMarker DEF CheckMarker, disk
  <2>2. CASE ~Release(w)
    BY <1>0, <1>3, <2>2, OthersMarker DEF CheckMarker, disk, MarkerInv
  <2>3. QED
    BY <2>1, <2>2
<1>4. CASE LockStore(w, "write")
  <2>1. CASE Release(w)
    BY <1>0, <1>4, <2>1, ReleaseMarker DEF LockStore, disk
  <2>2. CASE ~Release(w)
    BY <1>0, <1>4, <2>2, OthersMarker DEF LockStore, disk, MarkerInv
  <2>3. QED
    BY <2>1, <2>2
<1>5. CASE Write(w)
  BY <1>0, <1>5, ReleaseMarker DEF Write
<1>6. QED
  BY <1>1, <1>2, <1>3, <1>4, <1>5 DEF WriterStep

LEMMA CaptureMarker ==
    ASSUME TypeInv, MarkerInv, NEW c \in Capturers, Capture(c) \/ \E l \in Lineages : BeginCapture(c, l)
    PROVE  MarkerInv'
<1>0. c \in Processes /\ c \notin Maintainers /\ c \notin Writers
  BY BatchAssumption DEF Processes
<1>1. /\ UNCHANGED <<marker, audit, journal>>
      /\ \A q \in Processes \ {c} : pc'[q] = pc[q]
  BY DEF Capture, BeginCapture, disk, TypeInv, ProcTypes
<1>2. QED
  BY <1>0, <1>1, OthersMarker DEF Processes, MarkerInv

(* A batch that holds the lock is alone: only what it knows itself, and    *)
(* what all records share, is to be shown.                                 *)
LEMMA HolderMarker ==
    ASSUME TypeInv, LockInv, NEW m \in Maintainers, pc[m] \in Holding,
           \A q \in Processes \ {m} : pc'[q] = pc[q],
           Knows(m)', OnePreparedBatch',
           (marker # None /\ marker.request \in DOMAIN audit => audit[marker.request].journal = marker)'
    PROVE  MarkerInv'
<1>1. \A q \in Maintainers \ {m} : pc'[q] = pc[q] /\ pc[q] \notin Holding
  BY HolderAlone DEF Processes
<1>2. \A q \in Maintainers : Knows(q)'
  <2>1. SUFFICES ASSUME NEW q \in Maintainers \ {m} PROVE Knows(q)'
    OBVIOUS
  <2>2. pc'[q] \notin {"mark", "audit", "move", "sync", "clear"}
    BY <1>1 DEF Holding
  <2>3. QED
    BY <2>2 DEF Knows
<1>3. \A w \in Writers : pc'[w] \notin {"lock", "write"}
  BY HolderAlone, BatchAssumption DEF Processes
<1>4. QED
  BY <1>2, <1>3 DEF MarkerInv

LEMMA BatchMarker ==
    ASSUME TypeInv, LockInv, MarkerInv, NEW m \in Maintainers,
           Prepare(m) \/ Submit(m) \/ BatchStep(m) \/ Fail(m)
    PROVE  MarkerInv'
<1> USE DEF TypeInv, ProcTypes
<1>0. m \in Processes /\ m \notin Writers
  BY BatchAssumption DEF Processes
<1> DEFINE r == journal[m].request
           Bound == marker # None /\ marker.request \in DOMAIN audit => audit[marker.request].journal = marker
<1>a. Knows(m) /\ OnePreparedBatch /\ Bound
  BY DEF MarkerInv
<1>b. ASSUME pc[m] \in Holding, NEW s, pc' = [pc EXCEPT ![m] = s], UNCHANGED <<marker, audit>>, Knows(m)'
      PROVE  MarkerInv'
  <2>1. OnePreparedBatch' /\ Bound'
    BY <1>a, <1>b DEF OnePreparedBatch
  <2>2. \A q \in Processes \ {m} : pc'[q] = pc[q]
    BY <1>b
  <2>3. QED
    BY <1>b, <2>1, <2>2, HolderMarker
<1>c. ASSUME Release(m), request' = request \/ request' = [request EXCEPT ![m] = None], UNCHANGED <<marker, audit>>
      PROVE  MarkerInv'
  BY <1>0, <1>c, ReleaseMarker
<1>1. CASE Prepare(m)
  BY <1>1, OthersMarker DEF Prepare, disk, MarkerInv
<1>2. CASE Submit(m) \/ WaitExclusive(m)
  <2>1. /\ pc'[m] \in {"wait", "lock"}
        /\ \A q \in Processes \ {m} : pc'[q] = pc[q]
        /\ UNCHANGED <<marker, audit, journal>>
    BY <1>0, <1>2 DEF Submit, WaitExclusive, disk
  <2>2. \A q \in Maintainers : Knows(q)'
    BY <2>1 DEF MarkerInv, Knows, Committed, Processes
  <2>3. QED
    BY <1>0, <2>1, <2>2 DEF MarkerInv, OnePreparedBatch, Processes
<1>3. CASE LockStore(m, "inspect")
  <2>1. CASE Release(m)
    BY <1>3, <2>1, <1>c DEF LockStore, disk
  <2>2. CASE ~Release(m)
    <3>1. pc[m] \in Holding /\ pc' = [pc EXCEPT ![m] = "inspect"] /\ UNCHANGED <<marker, audit>>
      BY <1>3, <2>2 DEF LockStore, disk, Holding
    <3>2. Knows(m)'
      BY <1>0, <3>1 DEF Knows
    <3>3. QED
      BY <3>1, <3>2, <1>b
  <2>3. QED
    BY <2>1, <2>2
<1>4. CASE Resume(m)
  <2>1. marker # None
    BY <1>4, <1>a DEF Resume, Resumable, OnePreparedBatch
  <2>2. UNCHANGED <<marker, audit>> /\ journal' = [journal EXCEPT ![m] = marker] /\ pc' = [pc EXCEPT ![m] = "audit"]
    BY <1>4, <2>1 DEF Resume
  <2>3. Knows(m)'
    BY <1>0, <2>2 DEF Knows
  <2>4. pc[m] \in Holding
    BY <1>4 DEF Resume, Holding
  <2>5. QED
    BY <2>2, <2>3, <2>4, <1>b
<1>5. CASE Bind(m)
  <2>1. /\ pc[m] \in Holding /\ pc' = [pc EXCEPT ![m] = "mark"] /\ UNCHANGED <<marker, audit>>
        /\ marker = None /\ request[m] \notin DOMAIN audit
        /\ journal'[m].request = request[m]
    BY <1>5 DEF Bind, Bindable, disk, Holding
  <2>2. Knows(m)'
    BY <1>0, <2>1 DEF Knows
  <2>3. QED
    BY <2>1, <2>2, <1>b
<1>6. CASE Refuse(m) \/ Fail(m)
  BY <1>6, <1>c DEF Refuse, Fail, disk
<1>7. CASE Mark(m)
  <2>1. /\ pc[m] = "mark" /\ pc' = [pc EXCEPT ![m] = "audit"]
        /\ marker' = journal[m] /\ UNCHANGED <<audit, journal>>
    BY <1>7 DEF Mark
  <2>2. marker = None /\ r \notin DOMAIN audit
    BY <2>1, <1>a DEF Knows
  <2>3. Knows(m)'
    BY <1>0, <2>1 DEF Knows
  <2>4. OnePreparedBatch' /\ Bound'
    BY <2>1, <2>2, <1>a DEF OnePreparedBatch
  <2>5. QED
    BY <2>1, <2>3, <2>4, HolderMarker DEF Holding
<1>8. CASE AuditPrepared(m)
  <2>1. /\ pc[m] = "audit" /\ ~Committed(r) /\ pc' = [pc EXCEPT ![m] = "move"]
        /\ audit' = IF r \in DOMAIN audit THEN audit
                    ELSE [q \in DOMAIN audit \cup {r} |->
                             IF q = r THEN [journal |-> journal[m], committed |-> FALSE] ELSE audit[q]]
        /\ UNCHANGED <<marker, journal>>
    BY <1>8 DEF AuditPrepared
  <2>2. marker = journal[m]
    BY <2>1, <1>a DEF Knows
  <2>2a. journal[m] # None
    BY <2>1, BatchAssumption DEF InProgress
  <2>3. r \in DOMAIN audit' /\ audit'[r].committed = FALSE
    <3>1. CASE r \in DOMAIN audit
      BY <2>1, <3>1 DEF Committed, DiskTypes, Audits
    <3>2. CASE r \notin DOMAIN audit
      BY <2>1, <3>2
    <3>3. QED
      BY <3>1, <3>2
  <2>4. Knows(m)'
    BY <1>0, <2>1, <2>2, <2>3 DEF Knows
  <2>5. OnePreparedBatch'
    BY <2>1, <2>2, <2>2a, <1>a DEF OnePreparedBatch
  <2>6. Bound'
    BY <2>1, <2>2, <1>a
  <2>7. QED
    BY <2>1, <2>4, <2>5, <2>6, HolderMarker DEF Holding
<1>9. CASE AuditCommitted(m)
  <2>1. /\ pc[m] = "audit" /\ Committed(r) /\ pc' = [pc EXCEPT ![m] = "clear"]
        /\ UNCHANGED <<marker, audit, journal>>
    BY <1>9 DEF AuditCommitted, disk
  <2>2. Knows(m)'
    BY <1>0, <1>a, <2>1 DEF Knows, Committed
  <2>3. QED
    BY <2>1, <2>2, <1>b DEF Holding
<1>10. CASE (\E l \in Lineages : Move(m, l)) \/ Sync(m)
  <2>1. /\ pc[m] \in {"move", "sync"} /\ UNCHANGED <<marker, audit, journal>>
        /\ pc' = [pc EXCEPT ![m] = "sync"] \/ pc' = [pc EXCEPT ![m] = "move"]
    BY <1>10 DEF Move, Sync
  <2>2. Knows(m)'
    BY <1>0, <1>a, <2>1 DEF Knows
  <2>3. QED
    BY <2>1, <2>2, <1>b DEF Holding
<1>11. CASE \E l \in Lineages : VerifyMoved(m, l)
  BY <1>11, OthersMarker DEF VerifyMoved, disk, MarkerInv
<1>12. CASE Commit(m)
  <2>1. /\ pc[m] = "move" /\ pc' = [pc EXCEPT ![m] = "clear"]
        /\ audit' = [audit EXCEPT ![r] = [journal |-> journal[m], committed |-> TRUE]]
        /\ UNCHANGED <<marker, journal>>
    BY <1>12 DEF Commit
  <2>2. marker = journal[m] /\ r \in DOMAIN audit
    BY <2>1, <1>a DEF Knows
  <2>3. Knows(m)'
    BY <1>0, <2>1, <2>2 DEF Knows, Committed
  <2>4. OnePreparedBatch' /\ Bound'
    BY <2>1, <2>2, <1>a DEF OnePreparedBatch
  <2>5. QED
    BY <2>1, <2>3, <2>4, HolderMarker DEF Holding
<1>13. CASE Clear(m)
  <2>1. pc[m] = "clear" /\ marker' = None /\ audit' = audit
    BY <1>13 DEF Clear
  <2>2. /\ pc'[m] = "idle"
        /\ \A q \in Processes \ {m} : pc'[q] = pc[q]
    BY <1>0, <1>13, ReleaseStep DEF Clear
  <2>3. Knows(m)'
    BY <2>2 DEF Knows
  <2>4. OnePreparedBatch'
    BY <2>1, <1>a DEF OnePreparedBatch, Knows, Committed
  <2>5. QED
    BY <2>1, <2>2, <2>3, <2>4, HolderMarker DEF Holding
<1>14. QED
  BY <1>1, <1>2, <1>3, <1>4, <1>5, <1>6, <1>7, <1>8, <1>9, <1>10, <1>11, <1>12, <1>13 DEF BatchStep

LEMMA MarkerStep ==
    ASSUME TypeInv, LockInv, MarkerInv, [Next]_vars
    PROVE  MarkerInv'
<1>1. CASE UNCHANGED vars
  BY <1>1, OthersMarker DEF vars, disk, procs, MarkerInv
<1>2. ASSUME NEW p \in Processes, Stop(p) PROVE MarkerInv'
  BY <1>2, ReleaseMarker DEF Stop, disk, TypeInv, ProcTypes
<1>3. CASE PowerLoss
  <2>1. \A p \in Processes : pc'[p] = "idle"
    BY <1>3 DEF PowerLoss
  <2>2. \A m \in Maintainers : Knows(m)'
    BY <2>1 DEF Knows, Processes
  <2>3. QED
    BY <1>3, <2>1, <2>2 DEF PowerLoss, MarkerInv, OnePreparedBatch, Processes
<1>4. QED
  BY <1>1, <1>2, <1>3, WriterMarker, CaptureMarker, BatchMarker DEF Next

LEMMA MarkerInit == Init => MarkerInv
BY DEF Init, MarkerInv, Knows, OnePreparedBatch, EmptyFunction, Processes

(* At most one batch is between preparation and commit, and the marker     *)
(* names it (ReconcileInvalidRecoveryEdges), however many maintainers run, *)
(* stop and lose power.                                                    *)
THEOREM OneBatch == Spec => []OnePreparedBatch
<1> DEFINE I == TypeInv /\ LockInv /\ MarkerInv
<1>1. Init => I
  BY TypeInit, LockInit, MarkerInit
<1>2. I /\ [Next]_vars => I'
  BY TypeStep, LockStep, MarkerStep
<1>3. I => OnePreparedBatch
  BY DEF MarkerInv
<1>4. QED
  BY <1>1, <1>2, <1>3, PTL DEF Spec

-----------------------------------------------------------------------------
(* The quarantine *)

Executing(m) == pc[m] \in {"move", "sync"}

VaultInv ==
    /\ QuarantineIsBound
    /\ \A x \in DOMAIN vault : x[2] \in Planned(x[1])
    /\ \A m \in Maintainers : Executing(m) => todo[m] \subseteq Planned(journal[m].request)

(* Steps that leave the quarantine, the bound journals and the work of the *)
(* batches that execute.                                                   *)
LEMMA SameVault ==
    ASSUME VaultInv, UNCHANGED vault,
           \A r \in DOMAIN audit : r \in DOMAIN audit' /\ audit'[r].journal = audit[r].journal,
           \A m \in Maintainers : Executing(m)' => todo'[m] \subseteq Planned(journal'[m].request)
    PROVE  VaultInv'
BY DEF VaultInv, QuarantineIsBound

LEMMA SameWork ==
    ASSUME VaultInv, UNCHANGED vault,
           \A r \in DOMAIN audit : r \in DOMAIN audit' /\ audit'[r].journal = audit[r].journal,
           \A m \in Maintainers :
              Executing(m)' => Executing(m) /\ todo'[m] \subseteq todo[m] /\ journal'[m] = journal[m]
    PROVE  VaultInv'
BY SameVault DEF VaultInv

LEMMA ReleaseVault ==
    ASSUME TypeInv, VaultInv, NEW p \in Processes, Release(p), UNCHANGED <<vault, audit>>,
           request' \in [Maintainers -> Requests \cup {None}],
           \A m \in Maintainers \ {p} : request'[m] = request[m]
    PROVE  VaultInv'
<1>1. \A m \in Maintainers :
          Executing(m)' => Executing(m) /\ todo'[m] \subseteq todo[m] /\ journal'[m] = journal[m]
  BY ReleaseStep DEF Executing, Processes
<1>2. QED
  BY <1>1, SameWork

LEMMA WriterVault ==
    ASSUME TypeInv, VaultInv, NEW w \in Writers, WriterStep(w) \/ \E l \in Lineages : Begin(w, l)
    PROVE  VaultInv'
<1> USE DEF TypeInv, ProcTypes, Processes
<1>0. w \in Processes /\ w \notin Maintainers
  BY BatchAssumption
<1>1. CASE Release(w)
  BY <1>0, <1>1, ReleaseVault DEF WriterStep, Begin, WaitShared, CheckMarker, LockStore, Write, disk
<1>2. CASE ~Release(w)
  <2>1. UNCHANGED <<vault, audit, journal, todo>> /\ \A m \in Maintainers : pc'[m] = pc[m]
    BY <1>0, <1>2 DEF WriterStep, Begin, WaitShared, CheckMarker, LockStore, Write, disk
  <2>2. QED
    BY <2>1, SameWork DEF Executing
<1>3. QED
  BY <1>1, <1>2

LEMMA CaptureVault ==
    ASSUME TypeInv, VaultInv, NEW c \in Capturers, Capture(c) \/ \E l \in Lineages : BeginCapture(c, l)
    PROVE  VaultInv'
<1>1. c \notin Maintainers
  BY BatchAssumption
<1>2. UNCHANGED <<vault, audit, journal, todo>> /\ \A m \in Maintainers : pc'[m] = pc[m]
  BY <1>1 DEF Capture, BeginCapture, disk, TypeInv, ProcTypes, Processes
<1>3. QED
  BY <1>2, SameWork DEF Executing

LEMMA BatchVault ==
    ASSUME TypeInv, MarkerInv, VaultInv, NEW m \in Maintainers,
           Prepare(m) \/ Submit(m) \/ BatchStep(m) \/ Fail(m)
    PROVE  VaultInv'
<1> USE DEF TypeInv, ProcTypes
<1>0. m \in Processes
  BY DEF Processes
<1> DEFINE r == journal[m].request
<1>a. ASSUME UNCHANGED <<vault, audit>>, \A q \in Processes \ {m} : pc'[q] = pc[q],
             \A q \in Maintainers \ {m} : journal'[q] = journal[q], UNCHANGED todo, ~Executing(m)'
      PROVE  VaultInv'
  <2>1. \A q \in Maintainers :
            Executing(q)' => Executing(q) /\ todo'[q] \subseteq todo[q] /\ journal'[q] = journal[q]
    BY <1>a DEF Executing, Processes
  <2>2. QED
    BY <1>a, <2>1, SameWork
<1>1. CASE (LockStore(m, "inspect") /\ Release(m)) \/ Refuse(m) \/ Fail(m)
  BY <1>0, <1>1, ReleaseVault DEF LockStore, Refuse, Fail, disk
<1>2. CASE Clear(m)
  BY <1>0, <1>2, ReleaseVault DEF Clear
<1>3. CASE Prepare(m)
  BY <1>3, SameWork DEF Prepare, disk, Executing
<1>4. CASE Submit(m) \/ WaitExclusive(m) \/ (LockStore(m, "inspect") /\ ~Release(m))
  BY <1>0, <1>4, <1>a DEF Submit, WaitExclusive, LockStore, disk, Executing
<1>5. CASE Resume(m) \/ Bind(m) \/ Mark(m) \/ AuditCommitted(m)
  BY <1>0, <1>5, <1>a DEF Resume, Bind, Mark, AuditCommitted, disk, Executing
<1>6. CASE AuditPrepared(m)
  <2>1. \A q \in DOMAIN audit : q \in DOMAIN audit' /\ audit'[q].journal = audit[q].journal
    BY <1>6 DEF AuditPrepared
  <2>2. \A q \in Maintainers : Executing(q)' => todo'[q] \subseteq Planned(journal'[q].request)
    BY <1>0, <1>6 DEF AuditPrepared, Executing, VaultInv, Processes
  <2>3. QED
    BY <1>6, <2>1, <2>2, SameVault DEF AuditPrepared
<1>7. ASSUME NEW l \in Lineages, Move(m, l) PROVE VaultInv'
  <2>1. /\ pc[m] = "move" /\ l \in todo[m] /\ Matches(v2[l], journal[m], l)
        /\ vault' = [x \in DOMAIN vault \cup {<<r, l>>} |-> IF x = <<r, l>> THEN v2[l] ELSE vault[x]]
        /\ pc' = [pc EXCEPT ![m] = "sync"]
        /\ UNCHANGED <<audit, journal, todo>>
    BY <1>7 DEF Move, Movable
  <2>2. r \in DOMAIN audit /\ audit[r].journal = journal[m]
    <3>1. marker = journal[m] /\ r \in DOMAIN audit
      BY <2>1 DEF MarkerInv, Knows
    <3>2. journal[m] # None
      BY <2>1, BatchAssumption DEF InProgress
    <3>3. QED
      BY <3>1, <3>2 DEF MarkerInv
  <2>3. l \in Planned(r)
    BY <2>1 DEF VaultInv, Executing
  <2>4. QuarantineIsBound'
    <3>1. SUFFICES ASSUME NEW x \in DOMAIN vault'
                   PROVE  x[1] \in DOMAIN audit /\ Matches(vault'[x], audit[x[1]].journal, x[2])
      BY <2>1 DEF QuarantineIsBound
    <3>2. CASE x = <<r, l>>
      BY <2>1, <2>2, <3>2
    <3>3. CASE x # <<r, l>>
      BY <2>1, <3>3 DEF VaultInv, QuarantineIsBound
    <3>4. QED
      BY <3>2, <3>3
  <2>5. \A x \in DOMAIN vault' : x[2] \in Planned(x[1])
    <3>1. SUFFICES ASSUME NEW x \in DOMAIN vault', x = <<r, l>> PROVE x[2] \in Planned(x[1])
      BY <2>1 DEF VaultInv
    <3>2. QED
      BY <2>3, <3>1
  <2>6. \A q \in Maintainers : Executing(q)' => todo'[q] \subseteq Planned(journal'[q].request)
    BY <1>0, <2>1 DEF VaultInv, Executing, Processes
  <2>7. QED
    BY <2>4, <2>5, <2>6 DEF VaultInv
<1>8. CASE (\E l \in Lineages : VerifyMoved(m, l)) \/ Sync(m)
  <2>1. /\ UNCHANGED <<vault, audit, journal>>
        /\ \A q \in Maintainers : Executing(q)' => Executing(q) /\ todo'[q] \subseteq todo[q]
    BY <1>0, <1>8 DEF VerifyMoved, Sync, disk, Executing, Processes
  <2>2. QED
    BY <2>1, SameWork
<1>9. CASE Commit(m)
  <2>1. /\ pc[m] = "move" /\ UNCHANGED <<vault, journal, todo>>
        /\ audit' = [audit EXCEPT ![r] = [journal |-> journal[m], committed |-> TRUE]]
        /\ pc' = [pc EXCEPT ![m] = "clear"]
    BY <1>9 DEF Commit
  <2>2. r \in DOMAIN audit /\ audit[r].journal = journal[m]
    <3>1. marker = journal[m] /\ r \in DOMAIN audit
      BY <2>1 DEF MarkerInv, Knows
    <3>2. journal[m] # None
      BY <2>1, BatchAssumption DEF InProgress
    <3>3. QED
      BY <3>1, <3>2 DEF MarkerInv
  <2>3. \A q \in DOMAIN audit : q \in DOMAIN audit' /\ audit'[q].journal = audit[q].journal
    BY <2>1, <2>2
  <2>4. \A q \in Maintainers : Executing(q)' => Executing(q) /\ todo'[q] = todo[q] /\ journal'[q] = journal[q]
    BY <1>0, <2>1 DEF Executing, Processes
  <2>5. QED
    BY <2>1, <2>3, <2>4, SameWork
<1>10. QED
  BY <1>1, <1>2, <1>3, <1>4, <1>5, <1>6, <1>7, <1>8, <1>9 DEF BatchStep

LEMMA VaultStep ==
    ASSUME TypeInv, MarkerInv, VaultInv, [Next]_vars
    PROVE  VaultInv'
<1>1. CASE UNCHANGED vars
  BY <1>1, SameWork DEF vars, disk, procs, Executing
<1>2. ASSUME NEW p \in Processes, Stop(p) PROVE VaultInv'
  BY <1>2, ReleaseVault DEF Stop, disk, TypeInv, ProcTypes
<1>3. CASE PowerLoss
  <2>1. /\ \A m \in Maintainers : ~Executing(m)'
        /\ DOMAIN vault' \subseteq DOMAIN vault
        /\ \A x \in DOMAIN vault' : vault'[x] = vault[x]
        /\ audit' = audit
    BY <1>3 DEF PowerLoss, Executing, Processes
  <2>2. QED
    BY <2>1 DEF VaultInv, QuarantineIsBound
<1>4. QED
  BY <1>1, <1>2, <1>3, WriterVault, CaptureVault, BatchVault DEF Next

LEMMA VaultInit == Init => VaultInv
BY DEF Init, VaultInv, QuarantineIsBound, EmptyFunction, Executing, Processes

SafetyInv == TypeInv /\ LockInv /\ MarkerInv /\ VaultInv

LEMMA SafetyInit == Init => SafetyInv
BY TypeInit, LockInit, MarkerInit, VaultInit DEF SafetyInv

LEMMA SafetyStep == SafetyInv /\ [Next]_vars => SafetyInv'
BY TypeStep, LockStep, MarkerStep, VaultStep DEF SafetyInv

(* What lies in quarantine is what the audit record bound, identity and    *)
(* residue (executeCompactBatchReconcileMove), whatever captures, crashes  *)
(* and power losses happen around a move.                                  *)
THEOREM QuarantineBound == Spec => []QuarantineIsBound
<1>1. SafetyInv => QuarantineIsBound
  BY DEF SafetyInv, VaultInv
<1>2. QED
  BY <1>1, SafetyInit, SafetyStep, PTL DEF Spec

-----------------------------------------------------------------------------
(* The authority *)

(* What the prepared batch has moved and not yet committed. *)
Pending(l) == marker # None /\ ~Committed(marker.request) /\ Moved(marker.request, l)

LEMMA AuthorityOf ==
    \A l \in Lineages :
        Authority[l] = IF v2[l] # None /\ v2[l].state # None THEN v2[l].state
                       ELSE IF Pending(l) THEN vault[<<marker.request, l>>].state ELSE None
BY DEF Authority, Pending

LEMMA SameDisk ==
    ASSUME UNCHANGED <<v2, vault, marker, audit>>
    PROVE  Authority' = Authority
BY DEF Authority, Moved, Committed

(* Without a power loss, nothing but a write while no batch is prepared,   *)
(* and the commit of a batch, changes the authority.                       *)
LEMMA AuthoritySteps ==
    ASSUME SafetyInv, [Next]_vars, ~PowerLosses
    PROVE  \/ Authority' = Authority
           \/ \E w \in Writers : Write(w) /\ marker = None /\ marker' = None
           \/ \E m \in Maintainers : Commit(m)
<1> USE DEF SafetyInv
<1>1. ASSUME NEW w \in Writers, WriterStep(w) \/ \E l \in Lineages : Begin(w, l), ~Write(w)
      PROVE  Authority' = Authority
  BY <1>1, SameDisk DEF WriterStep, Begin, WaitShared, CheckMarker, LockStore, disk
<1>2. ASSUME NEW w \in Writers, Write(w)
      PROVE  marker = None /\ marker' = None
  BY <1>2 DEF Write, MarkerInv
<1>3. ASSUME NEW c \in Capturers, NEW l \in Lineages, BeginCapture(c, l)
      PROVE  Authority' = Authority
  BY <1>3, SameDisk DEF BeginCapture, disk
<1>4. ASSUME NEW c \in Capturers, Capture(c)
      PROVE  Authority' = Authority
  <2>1. /\ UNCHANGED <<vault, marker, audit>>
        /\ v2' = [v2 EXCEPT ![task[c].lineage] =
                     [state |-> IF v2[task[c].lineage] = None THEN None ELSE v2[task[c].lineage].state,
                      captured |-> TRUE]]
    BY <1>4 DEF Capture
  <2>2. \A l \in Lineages :
            v2'[l] = v2[l] \/ v2'[l] = [state |-> IF v2[l] = None THEN None ELSE v2[l].state, captured |-> TRUE]
    BY <2>1 DEF TypeInv, DiskTypes
  <2>3. \A l \in Lineages :
            (IF v2'[l] # None /\ v2'[l].state # None THEN v2'[l].state ELSE None)
          = (IF v2[l] # None /\ v2[l].state # None THEN v2[l].state ELSE None)
    <3>1. \A s : [state |-> s, captured |-> TRUE].state = s
      OBVIOUS
    <3>2. \A s \in States \cup {None} : [state |-> s, captured |-> TRUE] # None
      <4>1. \A s \in States \cup {None} : [state |-> s, captured |-> TRUE] \in Entries
        BY DEF Entries
      <4>2. None \notin Entries
        BY BatchAssumption
      <4>3. QED
        BY <4>1, <4>2
    <3>3. QED
      BY <2>2, <3>1, <3>2 DEF TypeInv, DiskTypes, Entries
  <2>4. QED
    <3>1. \A l \in Lineages : v2'[l] # None /\ v2'[l].state # None <=> v2[l] # None /\ v2[l].state # None
      <4>1. SUFFICES ASSUME NEW l \in Lineages
                     PROVE  v2'[l] # None /\ v2'[l].state # None <=> v2[l] # None /\ v2[l].state # None
        OBVIOUS
      <4>2. QED
        BY <2>3
    <3>2. QED
      BY <2>1, <2>3, <3>1 DEF Authority, Moved, Committed
<1>5. ASSUME NEW m \in Maintainers,
             \/ Prepare(m) \/ Submit(m) \/ WaitExclusive(m) \/ LockStore(m, "inspect") \/ Bind(m)
             \/ Refuse(m) \/ AuditCommitted(m) \/ Fail(m) \/ \E l \in Lineages : VerifyMoved(m, l)
      PROVE  Authority' = Authority
  BY <1>5, SameDisk
  DEF Prepare, Submit, WaitExclusive, LockStore, Bind, Refuse, AuditCommitted, Fail, VerifyMoved, disk
<1>6. ASSUME NEW m \in Maintainers, Sync(m) PROVE Authority' = Authority
  BY <1>6, SameDisk DEF Sync
<1>7. ASSUME NEW m \in Maintainers, Resume(m) PROVE Authority' = Authority
  <2>1. marker # None
    BY <1>7 DEF Resume, Resumable, MarkerInv, OnePreparedBatch
  <2>2. QED
    BY <1>7, <2>1, SameDisk DEF Resume
<1>8. ASSUME NEW m \in Maintainers, Mark(m) PROVE Authority' = Authority
  <2>1. /\ marker = None /\ journal[m].request \notin DOMAIN audit
        /\ marker' = journal[m] /\ UNCHANGED <<v2, vault, audit>>
    BY <1>8 DEF Mark, MarkerInv, Knows
  <2>2. \A l \in Lineages : ~Moved(journal[m].request, l)
    BY <2>1 DEF Moved, VaultInv, QuarantineIsBound
  <2>3. QED
    BY <2>1, <2>2 DEF Authority, Moved, Committed
<1>9. ASSUME NEW m \in Maintainers, AuditPrepared(m) PROVE Authority' = Authority
  <2> DEFINE r == journal[m].request
  <2>1. /\ marker = journal[m] /\ ~Committed(r)
        /\ audit' = IF r \in DOMAIN audit THEN audit
                    ELSE [q \in DOMAIN audit \cup {r} |->
                             IF q = r THEN [journal |-> journal[m], committed |-> FALSE] ELSE audit[q]]
        /\ UNCHANGED <<v2, vault, marker, journal>>
    BY <1>9 DEF AuditPrepared, MarkerInv, Knows
  <2>2. ~Committed(r)'
    <3>1. CASE r \in DOMAIN audit
      BY <2>1, <3>1 DEF Committed
    <3>2. CASE r \notin DOMAIN audit
      BY <2>1, <3>2 DEF Committed
    <3>3. QED
      BY <3>1, <3>2
  <2>3. QED
    BY <2>1, <2>2 DEF Authority, Moved, Committed
<1>10. ASSUME NEW m \in Maintainers, NEW l \in Lineages, Move(m, l) PROVE Authority' = Authority
  <2> DEFINE r == journal[m].request
  <2>1. /\ pc[m] = "move" /\ v2[l] # None /\ ~Moved(r, l)
        /\ v2' = [v2 EXCEPT ![l] = None]
        /\ vault' = [x \in DOMAIN vault \cup {<<r, l>>} |-> IF x = <<r, l>> THEN v2[l] ELSE vault[x]]
        /\ UNCHANGED <<marker, audit, journal>>
    BY <1>10 DEF Move, Movable
  <2>2. marker = journal[m] /\ ~Committed(r) /\ journal[m] # None
    BY <2>1, BatchAssumption DEF MarkerInv, Knows, Committed, TypeInv, InProgress
  <2>3. Authority'[l] = v2[l].state
    <3>1. v2'[l] = None /\ Pending(l)' /\ vault'[<<r, l>>] = v2[l]
      BY <2>1, <2>2 DEF Pending, Moved, Committed, TypeInv, DiskTypes
    <3>2. QED
      BY <2>1, <2>2, <3>1 DEF Authority, Pending
  <2>4. Authority[l] = v2[l].state
    BY <2>1, <2>2, AuthorityOf DEF Pending
  <2>5. ASSUME NEW k \in Lineages \ {l} PROVE Authority'[k] = Authority[k]
    <3>1. v2'[k] = v2[k] /\ (Moved(r, k)' <=> Moved(r, k)) /\ (Moved(r, k) => vault'[<<r, k>>] = vault[<<r, k>>])
      BY <2>1 DEF Moved, TypeInv, DiskTypes
    <3>2. QED
      BY <2>1, <2>2, <3>1 DEF Authority, Committed
  <2>6. QED
    BY <2>3, <2>4, <2>5 DEF Authority
<1>11. ASSUME NEW m \in Maintainers, Clear(m) PROVE Authority' = Authority
  <2>1. /\ marker = journal[m] /\ Committed(journal[m].request)
        /\ marker' = None /\ UNCHANGED <<v2, vault, audit>>
    BY <1>11 DEF Clear, MarkerInv, Knows
  <2>2. QED
    BY <2>1 DEF Authority
<1>12. ASSUME NEW p \in Processes, Stop(p) PROVE Authority' = Authority
  BY <1>12, SameDisk DEF Stop, disk
<1>13. ~PowerLoss
  BY DEF PowerLoss
<1>14. UNCHANGED vars => Authority' = Authority
  BY SameDisk DEF vars, disk
<1>15. ASSUME NEW m \in Maintainers, Prepare(m) \/ Submit(m) \/ BatchStep(m) \/ Fail(m), ~Commit(m)
       PROVE  Authority' = Authority
  BY <1>5, <1>6, <1>7, <1>8, <1>9, <1>10, <1>11, <1>15 DEF BatchStep
<1>16. QED
  BY <1>1, <1>2, <1>3, <1>4, <1>12, <1>13, <1>14, <1>15 DEF Next

(* A prepared batch freezes the authority (ensureNoPreparedCompactBatch-   *)
(* Reconciliation) as long as the machine does not lose power.             *)
THEOREM Frozen ==
    ASSUME ~PowerLosses
    PROVE  Spec => PreparedFreezes
<1>1. SafetyInv /\ [Next]_vars =>
          [marker # None /\ marker' # None =>
              \/ Authority' = Authority
              \/ ~Committed(marker.request) /\ Committed(marker.request)']_vars
  <2>1. SUFFICES ASSUME SafetyInv, [Next]_vars, marker # None
                 PROVE  \/ Authority' = Authority
                        \/ ~Committed(marker.request) /\ Committed(marker.request)'
    OBVIOUS
  <2>2. ASSUME NEW m \in Maintainers, Commit(m)
        PROVE  ~Committed(marker.request) /\ Committed(marker.request)'
    <3>1. /\ marker = journal[m] /\ ~Committed(journal[m].request) /\ journal[m].request \in DOMAIN audit
          /\ audit' = [audit EXCEPT ![journal[m].request] = [journal |-> journal[m], committed |-> TRUE]]
          /\ UNCHANGED <<marker, journal>>
      <4>1. pc[m] = "move" /\ Knows(m)
        BY <2>1, <2>2 DEF Commit, SafetyInv, MarkerInv
      <4>2. QED
        BY <2>2, <4>1 DEF Commit, Knows, Committed
    <3>2. QED
      BY <3>1 DEF Committed
  <2>3. QED
    BY <2>1, <2>2, AuthoritySteps
<1>2. QED
  BY <1>1, SafetyInit, SafetyStep, PTL DEF Spec, PreparedFreezes

-----------------------------------------------------------------------------
(* The refinement *)

(* A writer that holds the revision of the stored record holds the record: *)
(* no revision is used twice.                                              *)
RevInv ==
    /\ \A l \in Lineages : v2[l] # None /\ v2[l].state # None => v2[l].state.rev <= revs
    /\ \A w \in Writers :
          pc[w] # "idle" /\ task[w].base # None =>
             LET l == task[w].lineage IN
             /\ task[w].base.rev <= revs
             /\ v2[l] # None /\ v2[l].state # None /\ v2[l].state.rev = task[w].base.rev
                   => v2[l].state = task[w].base

(* Every request, and with it every prepared batch, has a plan. *)
PlansInv ==
    /\ \A m \in Maintainers : request[m] # None => CanReconcile(request[m].graph)
    /\ marker # None => CanReconcile(marker.request.graph)
    /\ \A m \in Maintainers : pc[m] = "mark" => journal[m].request = request[m]

(* Steps that add no record and give no writer a task. *)
LEMMA SameRecords ==
    ASSUME TypeInv, RevInv, UNCHANGED revs,
           \A l \in Lineages : v2'[l] # None /\ v2'[l].state # None =>
               v2[l] # None /\ v2[l].state # None /\ v2'[l].state = v2[l].state,
           \A w \in Writers : pc'[w] # "idle" => pc[w] # "idle" /\ task'[w] = task[w]
    PROVE  RevInv'
<1>1. \A w \in Writers : pc'[w] # "idle" => task[w].lineage \in Lineages
  BY DEF TypeInv, InProgress, Tasks
<1>2. QED
  BY <1>1 DEF RevInv

LEMMA ReleaseWriters ==
    ASSUME TypeInv, NEW p \in Processes, Release(p),
           request' \in [Maintainers -> Requests \cup {None}],
           \A m \in Maintainers \ {p} : request'[m] = request[m]
    PROVE  \A w \in Writers : pc'[w] # "idle" => pc[w] # "idle" /\ task'[w] = task[w]
BY ReleaseStep DEF Processes

LEMMA WriterRecords ==
    ASSUME TypeInv, RevInv, NEW w \in Writers, WriterStep(w) \/ \E l \in Lineages : Begin(w, l)
    PROVE  RevInv'
<1> USE DEF TypeInv, ProcTypes, Processes
<1>0. w \in Processes /\ w \notin Maintainers
  BY BatchAssumption
<1>1. ASSUME NEW l \in Lineages, Begin(w, l) PROVE RevInv'
  <2> DEFINE now == IF v2[l] = None THEN None ELSE v2[l].state
  <2>1. /\ UNCHANGED <<v2, revs>>
        /\ task' = [task EXCEPT ![w] = [lineage |-> l, base |-> now]]
        /\ \A q \in Writers \ {w} : pc'[q] = pc[q] /\ task'[q] = task[q]
    BY <1>0, <1>1 DEF Begin, disk
  <2>2. task'[w].lineage = l /\ task'[w].base = now
    BY <2>1
  <2>3. now # None => now.rev <= revs
    BY DEF RevInv
  <2>4. QED
    BY <2>1, <2>2, <2>3 DEF RevInv
<1>2. CASE WaitShared(w)
  <2>1. UNCHANGED <<v2, revs, task>> /\ \A q \in Writers : pc'[q] # "idle" => pc[q] # "idle"
    BY <1>0, <1>2 DEF WaitShared, disk
  <2>2. QED
    BY <2>1, SameRecords
<1>3. CASE Release(w) /\ ~Write(w)
  <2>1. UNCHANGED <<v2, revs, request>>
    BY <1>3 DEF WriterStep, Begin, WaitShared, CheckMarker, LockStore, disk
  <2>2. QED
    BY <1>0, <1>3, <2>1, SameRecords, ReleaseWriters
<1>4. CASE (CheckMarker(w) \/ LockStore(w, "write")) /\ ~Release(w)
  <2>1. UNCHANGED <<v2, revs, task>> /\ \A q \in Writers : pc'[q] # "idle" => pc[q] # "idle"
    BY <1>0, <1>4 DEF CheckMarker, LockStore, disk
  <2>2. QED
    BY <2>1, SameRecords
<1>5. CASE Write(w)
  <2> DEFINE a == task[w]
  <2>1. a \in Tasks /\ a.lineage \in Lineages
    BY <1>5 DEF Write, InProgress, Tasks
  <2>2. \A q \in Writers : pc'[q] # "idle" => pc[q] # "idle" /\ task'[q] = task[q]
    BY <1>0, <1>5, ReleaseWriters DEF Write
  <2>3. CASE ~Current(a)
    BY <1>5, <2>2, <2>3, SameRecords DEF Write
  <2>4. CASE Current(a)
    <3> DEFINE e == [state |-> Successor(a), captured |-> v2[a.lineage] # None /\ v2[a.lineage].captured]
    <3>1. v2' = [v2 EXCEPT ![a.lineage] = e] /\ revs' = revs + 1
      BY <1>5, <2>4 DEF Write
    <3>2. e.state = Successor(a) /\ Successor(a).rev = revs + 1
      BY <2>1 DEF Successor, Tasks, States
    <3> HIDE DEF e
    <3>3. \A l \in Lineages :
              \/ l = a.lineage /\ v2'[l].state.rev = revs + 1
              \/ v2'[l] = v2[l]
      BY <2>1, <3>1, <3>2 DEF DiskTypes
    <3>4. \A l \in Lineages : v2'[l] # None /\ v2'[l].state # None => v2'[l].state.rev <= revs'
      <4>1. \A l \in Lineages : v2[l] # None /\ v2[l].state # None => v2[l].state.rev \in Nat
        BY DEF DiskTypes, Entries, States
      <4>2. QED
        BY <3>1, <3>3, <4>1 DEF RevInv
    <3>5. ASSUME NEW q \in Writers, pc'[q] # "idle", task'[q].base # None
          PROVE  LET l == task'[q].lineage IN
                 /\ task'[q].base.rev <= revs'
                 /\ v2'[l] # None /\ v2'[l].state # None /\ v2'[l].state.rev = task'[q].base.rev
                       => v2'[l].state = task'[q].base
      <4>1. pc[q] # "idle" /\ task'[q] = task[q]
        BY <2>2, <3>5
      <4>2. task[q].lineage \in Lineages /\ task[q].base.rev \in Nat /\ task[q].base.rev <= revs
        BY <3>5, <4>1 DEF InProgress, Tasks, States, RevInv
      <4>3. CASE v2'[task[q].lineage] = v2[task[q].lineage]
        BY <3>1, <3>5, <4>1, <4>2, <4>3 DEF RevInv
      <4>4. CASE v2'[task[q].lineage].state.rev = revs + 1
        BY <3>1, <3>5, <4>1, <4>2, <4>4
      <4>5. QED
        BY <3>3, <4>2, <4>3, <4>4
    <3>6. QED
      BY <3>4, <3>5 DEF RevInv
  <2>5. QED
    BY <2>3, <2>4
<1>6. QED
  BY <1>1, <1>2, <1>3, <1>4, <1>5 DEF WriterStep, CheckMarker, LockStore

LEMMA RecordStep ==
    ASSUME TypeInv, RevInv, [Next]_vars, ~PowerLosses
    PROVE  RevInv'
<1> USE DEF TypeInv
<1>1. CASE UNCHANGED vars
  BY <1>1, SameRecords DEF vars, disk, procs
<1>2. ASSUME NEW p \in Processes, Stop(p) PROVE RevInv'
  BY <1>2, SameRecords, ReleaseWriters DEF Stop, disk, ProcTypes
<1>3. ASSUME NEW c \in Capturers, NEW l \in Lineages, BeginCapture(c, l) PROVE RevInv'
  <2>1. c \notin Writers
    BY BatchAssumption
  <2>2. QED
    BY <1>3, <2>1, SameRecords DEF BeginCapture, disk, ProcTypes, Processes
<1>4. ASSUME NEW c \in Capturers, Capture(c) PROVE RevInv'
  <2>1. c \notin Writers
    BY BatchAssumption
  <2>2. \A w \in Writers : pc'[w] = pc[w] /\ task'[w] = task[w]
    BY <1>4, <2>1 DEF Capture, ProcTypes, Processes
  <2>3. \A l \in Lineages :
            v2'[l] = v2[l] \/ v2'[l] = [state |-> IF v2[l] = None THEN None ELSE v2[l].state, captured |-> TRUE]
    BY <1>4 DEF Capture, DiskTypes
  <2>4. \A l \in Lineages : v2'[l] # None /\ v2'[l].state # None =>
            v2[l] # None /\ v2[l].state # None /\ v2'[l].state = v2[l].state
    <3>1. ASSUME NEW l \in Lineages, v2'[l].state # None,
                 v2'[l] = [state |-> IF v2[l] = None THEN None ELSE v2[l].state, captured |-> TRUE]
          PROVE  v2[l] # None /\ v2[l].state # None /\ v2'[l].state = v2[l].state
      BY <3>1
    <3>2. QED
      BY <2>3, <3>1
  <2>5. QED
    BY <1>4, <2>2, <2>4, SameRecords DEF Capture
<1>5. ASSUME NEW m \in Maintainers, Prepare(m) \/ Submit(m) \/ BatchStep(m) \/ Fail(m) PROVE RevInv'
  <2>1. m \in Processes /\ m \notin Writers
    BY BatchAssumption DEF Processes
  <2>2. CASE (LockStore(m, "inspect") /\ Release(m)) \/ Refuse(m) \/ Clear(m) \/ Fail(m)
    <3>1. /\ UNCHANGED <<v2, revs>> /\ Release(m)
          /\ request' = request \/ request' = [request EXCEPT ![m] = None]
      BY <2>2 DEF LockStore, Refuse, Clear, Fail, disk
    <3>2. QED
      BY <2>1, <3>1, SameRecords, ReleaseWriters DEF ProcTypes
  <2>3. CASE \/ Prepare(m) \/ Submit(m) \/ WaitExclusive(m) \/ (LockStore(m, "inspect") /\ ~Release(m))
             \/ Resume(m) \/ Bind(m) \/ Mark(m) \/ AuditPrepared(m) \/ AuditCommitted(m)
             \/ Sync(m) \/ Commit(m) \/ \E l \in Lineages : Move(m, l) \/ VerifyMoved(m, l)
    <3>1. UNCHANGED <<task, revs>> /\ \A w \in Writers : pc'[w] = pc[w]
      BY <2>1, <2>3
      DEF Prepare, Submit, WaitExclusive, LockStore, Resume, Bind, Mark, AuditPrepared,
          AuditCommitted, Move, VerifyMoved, Sync, Commit, ProcTypes, Processes
    <3>2. \A l \in Lineages : v2'[l] = v2[l] \/ v2'[l] = None
      BY <2>3
      DEF Prepare, Submit, WaitExclusive, LockStore, Resume, Bind, Mark, AuditPrepared,
          AuditCommitted, Move, VerifyMoved, Sync, Commit, disk, DiskTypes
    <3>3. QED
      BY <3>1, <3>2, SameRecords
  <2>4. QED
    BY <1>5, <2>2, <2>3 DEF BatchStep
<1>6. QED
  BY <1>1, <1>2, <1>3, <1>4, <1>5, WriterRecords DEF Next, PowerLoss

LEMMA PlanStep ==
    ASSUME SafetyInv, PlansInv, [Next]_vars
    PROVE  PlansInv'
<1> USE DEF SafetyInv, TypeInv, ProcTypes
<1>a. ASSUME UNCHANGED marker,
             \A m \in Maintainers : request'[m] = request[m] \/ request'[m] = None,
             \A m \in Maintainers : pc'[m] = "mark" => journal'[m].request = request'[m]
      PROVE  PlansInv'
  BY <1>a DEF PlansInv
<1>b. ASSUME UNCHANGED <<marker, request>>,
             \A m \in Maintainers : pc'[m] = "mark" => pc[m] = "mark" /\ journal'[m] = journal[m]
      PROVE  PlansInv'
  BY <1>b DEF PlansInv
<1>c. ASSUME NEW p \in Processes, Release(p), UNCHANGED <<marker, request>>
      PROVE  PlansInv'
  <2>1. \A m \in Maintainers : pc'[m] = "mark" => pc[m] = "mark" /\ journal'[m] = journal[m]
    BY <1>c, ReleaseStep DEF Processes
  <2>2. QED
    BY <1>c, <2>1, <1>b
<1>1. CASE UNCHANGED vars
  BY <1>1, <1>b DEF vars, disk, procs
<1>2. ASSUME NEW w \in Writers, WriterStep(w) \/ \E l \in Lineages : Begin(w, l) PROVE PlansInv'
  <2>1. w \in Processes /\ w \notin Maintainers
    BY BatchAssumption DEF Processes
  <2>2. UNCHANGED <<marker, request>>
    BY <1>2 DEF WriterStep, Begin, WaitShared, CheckMarker, LockStore, Write, disk
  <2>3. CASE Release(w)
    BY <2>1, <2>2, <2>3, <1>c
  <2>4. CASE ~Release(w)
    <3>1. UNCHANGED journal /\ \A m \in Maintainers : pc'[m] = pc[m]
      BY <1>2, <2>1, <2>4 DEF WriterStep, Begin, WaitShared, CheckMarker, LockStore, Write, Processes
    <3>2. QED
      BY <2>2, <3>1, <1>b
  <2>5. QED
    BY <2>3, <2>4
<1>3. ASSUME NEW c \in Capturers, Capture(c) \/ \E l \in Lineages : BeginCapture(c, l) PROVE PlansInv'
  <2>1. c \notin Maintainers
    BY BatchAssumption
  <2>2. UNCHANGED <<marker, request, journal>> /\ \A m \in Maintainers : pc'[m] = pc[m]
    BY <1>3, <2>1 DEF Capture, BeginCapture, disk, Processes
  <2>3. QED
    BY <2>2, <1>b
<1>4. ASSUME NEW p \in Processes, Stop(p) PROVE PlansInv'
  BY <1>4, <1>c DEF Stop, disk
<1>5. CASE PowerLoss
  BY <1>5, <1>b DEF PowerLoss, Processes
<1>6. ASSUME NEW m \in Maintainers, Prepare(m) \/ Submit(m) \/ BatchStep(m) \/ Fail(m) PROVE PlansInv'
  <2>0. m \in Processes
    BY DEF Processes
  <2>1. CASE Prepare(m)
    <3>1. UNCHANGED <<marker, journal, pc>> /\ pc[m] = "idle"
      BY <2>1 DEF Prepare, disk
    <3>2. /\ \A q \in Maintainers \ {m} : request'[q] = request[q]
          /\ request'[m].graph = GraphOf(v2) /\ CanReconcile(GraphOf(v2))
      BY <2>1 DEF Prepare
    <3>3. \A q \in Maintainers : request'[q] # None => CanReconcile(request'[q].graph)
      BY <3>2 DEF PlansInv
    <3>4. QED
      BY <3>1, <3>2, <3>3 DEF PlansInv
  <2>2. CASE (LockStore(m, "inspect") /\ Release(m)) \/ Fail(m)
    BY <2>0, <2>2, <1>c DEF LockStore, Fail, disk
  <2>3. CASE Refuse(m)
    <3>1. /\ request' = [request EXCEPT ![m] = None] /\ UNCHANGED marker
          /\ \A q \in Maintainers : pc'[q] = "mark" => q # m /\ pc[q] = "mark" /\ journal'[q] = journal[q]
      BY <2>0, <2>3, ReleaseStep DEF Refuse, disk, Processes
    <3>2. QED
      BY <3>1, <1>a DEF PlansInv
  <2>4. CASE Clear(m)
    <3>1. /\ UNCHANGED request /\ marker' = None
          /\ \A q \in Maintainers : pc'[q] = "mark" => pc[q] = "mark" /\ journal'[q] = journal[q]
      BY <2>0, <2>4, ReleaseStep DEF Clear, Processes
    <3>2. QED
      BY <3>1 DEF PlansInv
  <2>5. CASE Bind(m)
    <3>1. /\ UNCHANGED <<marker, request>>
          /\ journal'[m].request = request[m]
          /\ \A q \in Maintainers \ {m} : pc'[q] = pc[q] /\ journal'[q] = journal[q]
      BY <2>0, <2>5 DEF Bind, disk, Processes
    <3>2. QED
      BY <3>1, <1>a DEF PlansInv
  <2>6. CASE Mark(m)
    <3>1. /\ UNCHANGED <<request, journal>> /\ marker' = journal[m] /\ journal[m].request = request[m]
          /\ request[m] # None
          /\ \A q \in Maintainers : pc'[q] = "mark" => pc[q] = "mark"
      BY <2>0, <2>6, BatchAssumption DEF Mark, PlansInv, InProgress, Processes
    <3>2. QED
      BY <3>1 DEF PlansInv
  <2>7. CASE Resume(m)
    <3>1. marker # None
      BY <2>7 DEF Resume, Resumable, MarkerInv, OnePreparedBatch
    <3>2. /\ UNCHANGED <<marker, request>>
          /\ \A q \in Maintainers : pc'[q] = "mark" => pc[q] = "mark" /\ journal'[q] = journal[q]
      BY <2>0, <2>7, <3>1 DEF Resume, Processes
    <3>3. QED
      BY <3>2, <1>b
  <2>8. CASE \/ Submit(m) \/ WaitExclusive(m) \/ (LockStore(m, "inspect") /\ ~Release(m))
             \/ AuditPrepared(m) \/ AuditCommitted(m) \/ Sync(m) \/ Commit(m)
             \/ \E l \in Lineages : Move(m, l) \/ VerifyMoved(m, l)
    <3>1. /\ UNCHANGED <<marker, request, journal>>
          /\ \A q \in Maintainers : pc'[q] = "mark" => pc[q] = "mark"
      BY <2>0, <2>8
      DEF Submit, WaitExclusive, LockStore, AuditPrepared, AuditCommitted, Sync, Commit, Move,
          VerifyMoved, disk, Processes
    <3>2. QED
      BY <3>1, <1>b
  <2>9. QED
    BY <1>6, <2>1, <2>2, <2>3, <2>4, <2>5, <2>6, <2>7, <2>8 DEF BatchStep
<1>7. QED
  BY <1>1, <1>2, <1>3, <1>4, <1>5, <1>6 DEF Next

LEMMA RefinementInit ==
    ASSUME Init
    PROVE  RevInv /\ PlansInv /\ Atomic!Init
<1>1. PICK g \in Histories :
          v2 = [l \in Lineages |-> IF g[l] = None THEN None ELSE [state |-> g[l], captured |-> FALSE]]
  BY DEF Init
<1>2. g \in Graphs
  BY BatchAssumption
<1>3. RevInv
  <2>1. \A l \in Lineages : v2[l] # None /\ v2[l].state # None => g[l] # None /\ v2[l].state = g[l]
    BY <1>1
  <2>2. \A l \in Lineages : g[l] # None => g[l].rev <= Cardinality(Lineages)
    BY BatchAssumption, <1>1 DEF Recorded
  <2>3. QED
    BY <2>1, <2>2 DEF Init, RevInv, Processes
<1>4. PlansInv
  BY DEF Init, PlansInv, Processes
<1>5. Authority \in Graphs
  <2>1. marker = None
    BY DEF Init
  <2>2. \A l \in Lineages : Authority[l] \in States \cup {None}
    BY <1>1, <1>2, <2>1 DEF Authority, Graphs
  <2>3. QED
    BY <2>2 DEF Authority, Graphs
<1>6. QED
  BY <1>3, <1>4, <1>5 DEF Atomic!Init, Atomic!Graphs, Atomic!States, Graphs, States

(* The graph operators of the abstract specification are these. *)
LEMMA SameGraphOperators ==
    /\ Atomic!CanReconcile(Authority) <=> CanReconcile(Authority)
    /\ Atomic!Quarantined(Authority) = Quarantined(Authority)
    /\ \A S : Atomic!Without(Authority, S) = Without(Authority, S)
<1>1. Atomic!Recorded(Authority) = Recorded(Authority)
  BY DEF Atomic!Recorded, Recorded
<1>2. Atomic!Recovered(Authority) = Recovered(Authority)
  BY <1>1 DEF Atomic!Recovered, Recovered
<1>3. \A l : (Atomic!Anchored(Authority, l) <=> Anchored(Authority, l))
          /\ (Atomic!Forked(Authority, l) <=> Forked(Authority, l))
  BY <1>1, <1>2 DEF Atomic!Anchored, Anchored, Atomic!Forked, Forked
<1>4. Atomic!Invalid(Authority) = Invalid(Authority)
  BY <1>2, <1>3 DEF Atomic!Invalid, Invalid
<1>5. \A l : Atomic!Supported(Authority, l) <=> Supported(Authority, l)
  BY <1>3 DEF Atomic!Supported, Supported
<1>6. \A C : Atomic!ClosedBelow(Authority, C) <=> ClosedBelow(Authority, C)
  BY <1>2 DEF Atomic!ClosedBelow, ClosedBelow
<1>7. Atomic!Closures(Authority) = Closures(Authority)
  BY <1>4, <1>6 DEF Atomic!Closures, Closures
<1>8. Atomic!Quarantined(Authority) = Quarantined(Authority)
  BY <1>1, <1>7 DEF Atomic!Quarantined, Quarantined
<1>9. Atomic!CanReconcile(Authority) <=> CanReconcile(Authority)
  BY <1>4, <1>5, <1>8 DEF Atomic!CanReconcile, CanReconcile
<1>10. QED
  BY <1>8, <1>9 DEF Atomic!Without, Without

(* A write that succeeds starts or advances one lineage. *)
LEMMA WriteRefines ==
    ASSUME SafetyInv, RevInv, NEW w \in Writers, Write(w), marker = None, marker' = None
    PROVE  Atomic!Next \/ Authority' = Authority
<1> DEFINE a == task[w]
           l == a.lineage
           new == Successor(a)
<1>1. a \in Tasks /\ l \in Lineages /\ pc[w] # "idle"
  BY DEF Write, SafetyInv, TypeInv, InProgress, Tasks
<1>2. new \in States /\ new # None /\ revs \in Nat
  <2>1. revs \in Nat
    BY DEF SafetyInv, TypeInv
  <2>2. a.base = None \/ a.base \in States
    BY <1>1 DEF Tasks
  <2>3. new \in States
    BY <2>1, <2>2 DEF Successor, States
  <2>4. new # None
    BY <2>3, GraphAssumption
  <2>5. QED
    BY <2>1, <2>3, <2>4
<1>3. CASE ~Current(a)
  BY <1>3, SameDisk DEF Write
<1>4. CASE Current(a)
  <2> DEFINE e == [state |-> new, captured |-> v2[l] # None /\ v2[l].captured]
  <2>1. v2' = [v2 EXCEPT ![l] = e] /\ UNCHANGED <<vault, audit>>
    BY <1>4 DEF Write
  <2>2. v2' \in [Lineages -> Entries \cup {None}] /\ v2 \in [Lineages -> Entries \cup {None}]
    BY WriterTypes DEF SafetyInv, TypeInv, DiskTypes, WriterStep
  <2>3. e.state = new
    OBVIOUS
  <2>4. e # None
    <3>1. e \in Entries
      <4>1. (v2[l] # None /\ v2[l].captured) \in BOOLEAN
        OBVIOUS
      <4>2. QED
        BY <1>2, <4>1 DEF Entries
    <3>2. QED
      BY <3>1, BatchAssumption
  <2> HIDE DEF e, new
  <2>5. Authority' = [Authority EXCEPT ![l] = new] /\ Authority'[l] = new
    <3>1. Authority'[l] = new
      BY <1>1, <1>2, <2>1, <2>2, <2>3, <2>4 DEF Authority
    <3>2. \A k \in Lineages \ {l} : Authority'[k] = Authority[k]
      BY <2>1, <2>2 DEF Authority
    <3>3. QED
      BY <1>1, <3>1, <3>2 DEF Authority
  <2>6. CASE a.base = None
    <3>1. Authority[l] = None
      BY <1>1, <1>4, <2>6 DEF Current, Authority
    <3>2. new.pred = None
      BY <2>6 DEF Successor, new
    <3>3. Atomic!Start(l)
      BY <1>2, <2>5, <3>1, <3>2 DEF Atomic!Start, Atomic!States, States
    <3>4. QED
      BY <1>1, <3>3 DEF Atomic!Next
  <2>7. CASE a.base # None
    <3>1. v2[l] # None /\ v2[l].state # None /\ v2[l].state.rev = a.base.rev
      BY <1>4, <2>7 DEF Current
    <3>2. a.base.rev <= revs /\ v2[l].state = a.base
      BY <1>1, <2>7, <3>1 DEF RevInv
    <3>3. Authority[l] = a.base /\ a.base \in States
      BY <1>1, <2>7, <3>1, <3>2 DEF Authority, Tasks
    <3>4. new = [a.base EXCEPT !.rev = revs + 1] /\ new.rev = revs + 1
      BY <2>7, <3>3 DEF Successor, new, States
    <3>5. new.rev \in Nat \ {a.base.rev}
      BY <1>2, <3>2, <3>3, <3>4 DEF States
    <3>6. Atomic!Advance(l)
      BY <2>5, <2>7, <3>3, <3>4, <3>5 DEF Atomic!Advance
    <3>7. QED
      BY <1>1, <3>6 DEF Atomic!Next
  <2>8. QED
    BY <2>6, <2>7
<1>5. QED
  BY <1>3, <1>4

(* The commit is the step of the abstract specification that reconciles.   *)
LEMMA CommitRefines ==
    ASSUME SafetyInv, PlansInv, NEW m \in Maintainers, Commit(m)
    PROVE  Atomic!Reconcile
<1> DEFINE j == journal[m]
           r == j.request
<1>1. /\ pc[m] = "move" /\ Verified(j)
      /\ audit' = [audit EXCEPT ![r] = [journal |-> j, committed |-> TRUE]]
      /\ UNCHANGED <<v2, vault, marker, journal>>
  BY DEF Commit
<1>2. marker = j /\ r \in DOMAIN audit /\ ~Committed(r)
  BY <1>1 DEF SafetyInv, MarkerInv, Knows, Committed
<1>3. j # None /\ r \in Requests /\ r.graph \in Graphs
  BY <1>1, BatchAssumption DEF SafetyInv, TypeInv, InProgress, Journals, Requests
<1>4. Committed(marker.request)'
  BY <1>1, <1>2 DEF Committed
<1>5. /\ \A l \in Planned(r) : v2[l] = None /\ Moved(r, l) /\ Matches(vault[<<r, l>>], j, l)
      /\ Complete(v2) /\ GraphOf(v2) = Without(r.graph, Planned(r))
  BY <1>1 DEF Verified
<1>6. Authority = r.graph
  <2>1. ASSUME NEW l \in Lineages, l \in Planned(r) PROVE Authority[l] = r.graph[l]
    <3>1. v2[l] = None /\ Pending(l) /\ vault[<<r, l>>].state = r.graph[l]
      BY <1>2, <1>3, <1>5, <2>1 DEF Pending, Matches
    <3>2. QED
      BY <1>2, <3>1, AuthorityOf
  <2>2. ASSUME NEW l \in Lineages, l \notin Planned(r) PROVE Authority[l] = r.graph[l]
    <3>1. ~Pending(l)
      BY <1>2, <2>2 DEF Pending, Moved, SafetyInv, VaultInv
    <3>2. r.graph[l] = IF v2[l] = None THEN None ELSE v2[l].state
      BY <1>5, <2>2 DEF GraphOf, Without
    <3>3. QED
      BY <1>5, <3>1, <3>2, AuthorityOf DEF Complete
  <2>3. QED
    BY <1>3, <2>1, <2>2 DEF Authority, Graphs
<1>7. Authority' = Without(Authority, Quarantined(Authority))
  <2>1. \A l \in Lineages : Authority'[l] = GraphOf(v2)[l]
    BY <1>1, <1>4, <1>5 DEF Authority, GraphOf, Complete
  <2>2. Authority' = GraphOf(v2)
    BY <2>1 DEF Authority, GraphOf
  <2>3. QED
    BY <1>5, <1>6, <2>2 DEF Planned
<1>8. CanReconcile(Authority)
  BY <1>2, <1>3, <1>6 DEF PlansInv
<1>9. QED
  BY <1>7, <1>8, SameGraphOperators DEF Atomic!Reconcile

(* All or nothing (ReconcileInvalidRecoveryEdges): without power loss,     *)
(* BatchReconcile implements AtomicReconcile.  However often a batch stops *)
(* and resumes, and whatever writers and captures do beside it, the        *)
(* authority loses the closure of its invalid edges in one step.           *)
THEOREM BatchIsAtomic ==
    ASSUME ~PowerLosses
    PROVE  Spec => AllOrNothing
<1> DEFINE I == SafetyInv /\ RevInv /\ PlansInv
<1>1. Init => I /\ Atomic!Init
  BY SafetyInit, RefinementInit
<1>2. I /\ [Next]_vars => I'
  BY SafetyStep, RecordStep, PlanStep DEF SafetyInv
<1>3. I /\ [Next]_vars => [Atomic!Next]_Authority
  <2>1. SUFFICES ASSUME I, [Next]_vars PROVE Atomic!Next \/ Authority' = Authority
    OBVIOUS
  <2>2. ASSUME NEW m \in Maintainers, Commit(m) PROVE Atomic!Next
    BY <2>1, <2>2, CommitRefines DEF Atomic!Next
  <2>3. QED
    BY <2>1, <2>2, AuthoritySteps, WriteRefines
<1>4. QED
  BY <1>1, <1>2, <1>3, PTL DEF Spec, AllOrNothing, Atomic!Spec
=============================================================================
