------------------------------ MODULE MCAuthority ------------------------------
(***************************************************************************)
(* What decides whether a review command may act, for TLC: the user's      *)
(* record, the clone's override, the new-lineage authority, the graph of   *)
(* the v2 lineages, and the reviewer results of one.  A behaviour is one   *)
(* of a component under one set of bounds, which part names; the variables *)
(* that only other components have keep the value Off.                     *)
(***************************************************************************)
EXTENDS Naturals, TLC

CONSTANTS Parts,                    \* the parts this instance checks
          Off, None, Missing, Corrupt, Clean,
          p1, a1, a2, u1, u2, w1, w2,
          proc1, proc2, lineage1, cand1, cand2, cand3,
          name1, name2, path1, path2,
          lens1, lens2, fine, severe

VARIABLES part,
    file, binary, assets, chosen,                            \* UserState
    global, slots, user, review, sets,                       \* ReviewMode
    dirs, legacy, active, reviews,                           \* NewLineage
    runs, toggles, crashes,
    edits,                                                   \* AuthorityGraph
    auth, payloads, digests, archive,                        \* ReviewerCapture
    tree, rec, receipt,                                      \* shared by both
    proc, lock, faults                                       \* shared by more

(* The record: commands that merge into it; all of them, with damage; a    *)
(* binary upgraded and synced later.                                       *)
Merge == INSTANCE UserState WITH Procs <- {p1}, Agents <- {a1, a2}, Overlap <- FALSE, MaxBinary <- 3, MaxFaults <- 0,
    Commands <- {"add", "sync", "models", "launch", "defer", "check", "mode", "remove"}
Damage == INSTANCE UserState WITH Procs <- {p1}, Agents <- {a1, a2}, Overlap <- FALSE, MaxBinary <- 2, MaxFaults <- 2,
    Commands <- {"install", "add", "sync", "models", "launch", "defer", "check", "mode", "remove"}
Defer == INSTANCE UserState WITH Procs <- {p1}, Agents <- {a1, a2}, Overlap <- FALSE, MaxBinary <- 3, MaxFaults <- 0,
    Commands <- {"sync", "launch", "defer", "check", "mode"}

(* The switch, in the setting k, a record of values for its constants: two *)
(* users of one clone; the global mode; a repair.                          *)
Mode(k) == INSTANCE ReviewMode WITH Users <- k.Users, Reviews <- k.Reviews, Scopes <- k.Scopes, Globals <- k.Globals,
    MaxGen <- k.MaxGen, MaxSets <- k.MaxSets, MaxFaults <- k.MaxFaults
Clone == [Users |-> {u1, u2}, Reviews |-> {w1}, Scopes |-> {"clone"}, Globals |-> {"unset", "off", "junk"},
          MaxGen |-> 3, MaxSets |-> 0, MaxFaults |-> 2]
Global == [Users |-> {u1}, Reviews |-> {w1, w2}, Scopes |-> {"global"}, Globals |-> {"unset", "off", "junk"},
           MaxGen |-> 0, MaxSets |-> 4, MaxFaults |-> 0]
Repair == [Users |-> {u1}, Reviews |-> {w1}, Scopes |-> {"clone"}, Globals |-> {"junk"},
           MaxGen |-> 5, MaxSets |-> 0, MaxFaults |-> 2]

(* Two commands at a time on one lineage.                                  *)
V3(k) == INSTANCE NewLineage WITH Procs <- k.Procs, Lineages <- k.Lineages, Candidates <- k.Candidates,
    MaxRuns <- k.MaxRuns, MaxToggles <- k.MaxToggles, MaxFaults <- k.MaxFaults, MaxCrashes <- k.MaxCrashes
Race == [Procs |-> {proc1, proc2}, Lineages |-> {lineage1}, Candidates |-> {cand1, cand2},
         MaxRuns |-> 3, MaxToggles |-> 1, MaxFaults |-> 1, MaxCrashes |-> 1]

(* Candidates that expand, contract and leave each other, one command at a *)
(* time; two of one scope, two commands at a time, none of which names a   *)
(* lineage.                                                                *)
Graph == INSTANCE AuthorityGraph WITH Procs <- {proc1}, Candidates <- {cand1, cand2, cand3},
    Scope <- (cand1 :> {path1} @@ cand2 :> {path1, path2} @@ cand3 :> {path2}),
    Small <- {cand1}, Names <- {name1}, MaxRev <- 3, MaxEdits <- 1
Pair == INSTANCE AuthorityGraph WITH Procs <- {proc1, proc2}, Candidates <- {cand1, cand2},
    Scope <- (cand1 :> {path1} @@ cand2 :> {path1}), Small <- {cand2}, Names <- {}, MaxRev <- 2, MaxEdits <- 1

(* Two commands at a time after a correction that left its scope.          *)
Fork == INSTANCE AuthorityGraph WITH Procs <- {proc1, proc2}, Candidates <- {cand1, cand2},
    Scope <- (cand1 :> {path1} @@ cand2 :> {path1, path2}), Small <- {cand1}, Names <- {name1, name2}, MaxRev <- 2, MaxEdits <- 0
Left == [Fork!NewRecord(cand1) EXCEPT !.state = "correction_required", !.rev = 2]
ForkInit ==
    /\ tree = cand2 /\ rec = [l \in Fork!Lineages |-> IF l = cand1 THEN Left ELSE None]
    /\ receipt = [l \in Fork!Lineages |-> 0]
    /\ lock = None /\ proc = [x \in {proc1, proc2} |-> Fork!Idle] /\ edits = 0

(* Two commands at a time until one reopening is captured again, with no   *)
(* crash; and with one, all of whose results are severe; one at a time,    *)
(* until a second reopening is captured again.                             *)
Capture == INSTANCE ReviewerCapture WITH Procs <- {proc1, proc2}, Lenses <- {lens1, lens2}, Bodies <- {fine, severe},
    Severe <- {severe}, MaxRev <- 4, MaxFaults <- 0
Cut == INSTANCE ReviewerCapture WITH Procs <- {proc1, proc2}, Lenses <- {lens1, lens2}, Bodies <- {severe},
    Severe <- {severe}, MaxRev <- 4, MaxFaults <- 1
Recapture == INSTANCE ReviewerCapture WITH Procs <- {proc1}, Lenses <- {lens1, lens2}, Bodies <- {fine, severe},
    Severe <- {severe}, MaxRev <- 6, MaxFaults <- 1

record == <<file, binary, assets, chosen>>
switch == <<global, slots, user, review, sets>>
lineage == <<dirs, legacy, active, reviews, runs, toggles, crashes>>
store == <<tree, rec, receipt>>
results == <<auth, payloads, digests, archive>>
vars == <<part, record, switch, lineage, store, edits, results, proc, lock, faults>>

NoRecord == file = Off /\ binary = Off /\ assets = Off /\ chosen = Off
NoSwitch == global = Off /\ slots = Off /\ user = Off /\ review = Off /\ sets = Off
NoLineage ==
    /\ dirs = Off /\ legacy = Off /\ active = Off /\ reviews = Off
    /\ runs = Off /\ toggles = Off /\ crashes = Off
NoStore == tree = Off /\ rec = Off /\ receipt = Off /\ edits = Off
NoResults == auth = Off /\ payloads = Off /\ digests = Off /\ archive = Off

Init ==
    /\ part \in Parts
    /\ \/ part = "merge" /\ Merge!Init /\ NoSwitch /\ NoLineage /\ NoStore /\ NoResults /\ lock = Off
       \/ part = "damage" /\ Damage!Init /\ NoSwitch /\ NoLineage /\ NoStore /\ NoResults /\ lock = Off
       \/ part = "defer" /\ Defer!Init /\ NoSwitch /\ NoLineage /\ NoStore /\ NoResults /\ lock = Off
       \/ part = "clone" /\ Mode(Clone)!Init /\ NoRecord /\ NoLineage /\ NoStore /\ NoResults /\ proc = Off
       \/ part = "global" /\ Mode(Global)!Init /\ NoRecord /\ NoLineage /\ NoStore /\ NoResults /\ proc = Off
       \/ part = "repair" /\ Mode(Repair)!Init /\ NoRecord /\ NoLineage /\ NoStore /\ NoResults /\ proc = Off
       \/ part = "race" /\ V3(Race)!Init /\ NoRecord /\ NoSwitch /\ NoResults /\ edits = Off
       \/ part = "graph" /\ Graph!Init /\ NoRecord /\ NoSwitch /\ NoLineage /\ NoResults /\ faults = Off
       \/ part = "pair" /\ Pair!Init /\ NoRecord /\ NoSwitch /\ NoLineage /\ NoResults /\ faults = Off
       \/ part = "fork" /\ ForkInit /\ NoRecord /\ NoSwitch /\ NoLineage /\ NoResults /\ faults = Off
       \/ part = "capture" /\ Capture!Init /\ NoRecord /\ NoSwitch /\ NoLineage /\ NoStore
       \/ part = "cut" /\ Cut!Init /\ NoRecord /\ NoSwitch /\ NoLineage /\ NoStore
       \/ part = "recapture" /\ Recapture!Init /\ NoRecord /\ NoSwitch /\ NoLineage /\ NoStore

Next ==
    /\ UNCHANGED part
    /\ \/ part = "merge" /\ Merge!Next /\ UNCHANGED <<switch, lineage, store, edits, results, lock>>
       \/ part = "damage" /\ Damage!Next /\ UNCHANGED <<switch, lineage, store, edits, results, lock>>
       \/ part = "defer" /\ Defer!Next /\ UNCHANGED <<switch, lineage, store, edits, results, lock>>
       \/ part = "clone" /\ Mode(Clone)!Next /\ UNCHANGED <<record, lineage, store, edits, results, proc>>
       \/ part = "global" /\ Mode(Global)!Next /\ UNCHANGED <<record, lineage, store, edits, results, proc>>
       \/ part = "repair" /\ Mode(Repair)!Next /\ UNCHANGED <<record, lineage, store, edits, results, proc>>
       \/ part = "race" /\ V3(Race)!Next /\ UNCHANGED <<record, switch, edits, results>>
       \/ part = "graph" /\ Graph!Next /\ UNCHANGED <<record, switch, lineage, results, faults>>
       \/ part = "pair" /\ Pair!Next /\ UNCHANGED <<record, switch, lineage, results, faults>>
       \/ part = "fork" /\ Fork!Next /\ UNCHANGED <<record, switch, lineage, results, faults>>
       \/ part = "capture" /\ Capture!Next /\ UNCHANGED <<record, switch, lineage, store, edits>>
       \/ part = "cut" /\ Cut!Next /\ UNCHANGED <<record, switch, lineage, store, edits>>
       \/ part = "recapture" /\ Recapture!Next /\ UNCHANGED <<record, switch, lineage, store, edits>>

Spec == Init /\ [][Next]_vars

(* The fairness of UserState, ReviewMode and NewLineage, each while its    *)
(* part runs: a command under way goes on, and a command that may be given *)
(* again and again is given.                                               *)
OfRecord(A) == part = "defer" /\ A /\ UNCHANGED <<part, switch, lineage, store, edits, results, lock>>
OfSwitch(A) == part = "repair" /\ A /\ UNCHANGED <<part, record, lineage, store, edits, results, proc>>
OfLineage(A) == part = "race" /\ A /\ UNCHANGED <<part, record, switch, edits, results>>

Fairness ==
    /\ WF_vars(OfRecord(Defer!Step(p1)) \/ OfSwitch(Mode(Repair)!UserStep(u1)) \/ OfLineage(V3(Race)!Work(proc1)))
    /\ WF_vars(OfLineage(V3(Race)!Work(proc2)))
    /\ SF_vars(OfRecord(Defer!Begin(p1, "launch")) \/ OfSwitch(Mode(Repair)!GivesCommand(u1)))
    /\ SF_vars(OfRecord(Defer!LaunchSyncs(p1)))

FairSpec == Spec /\ Fairness

-----------------------------------------------------------------------------
(* Properties: those of the components, by name, gathered in an invariant of
   each component and what the steps of all of them keep. *)

(* UserState: the record says when a sync is owed, and what the user chose.*)
RecordSound == part = "merge" => Merge!TypeOK /\ Merge!UpgradeIsSynced /\ Merge!EmptyMeansNeverAsked

(* ReviewMode: no choice is replaced unseen, and no review passes while    *)
(* the switch is off.                                                      *)
SwitchSound ==
    /\ part = "clone" => Mode(Clone)!TypeOK /\ Mode(Clone)!NothingReplacedUnseen /\ Mode(Clone)!AuthorizedWhileOn
    /\ part = "global" => Mode(Global)!AuthorizedWhileOn

(* NewLineage: receipt, record and what the gate lets through agree.       *)
LineageSound ==
    part = "race" => V3(Race)!TypeOK /\ V3(Race)!ReceiptMatches /\ V3(Race)!NoMismatch /\ V3(Race)!AllowEarned

(* AuthorityGraph: no fork, and no two leaves for one candidate.           *)
GraphSound ==
    /\ part = "graph" => Graph!TypeOK /\ Graph!NeverForks /\ Graph!NoTwins
    /\ part = "pair" => Pair!TypeOK /\ Pair!NoTwins
    /\ part = "fork" => Fork!NeverForks /\ Fork!NoTwins

(* ReviewerCapture: verdicts rest on results that are there and were not   *)
(* condemned, disposed lenses have none, and a capture can go on wherever  *)
(* another stopped.                                                        *)
CaptureSound ==
    /\ part = "capture" => Capture!TypeOK /\ Capture!VerdictOnDisk /\ Capture!DisposedIsEmpty
                              /\ Capture!CaptureConverges /\ Capture!ToldIsKept
    /\ part = "cut" => Cut!VerdictOnDisk /\ Cut!CaptureConverges /\ Cut!ToldIsKept
    /\ part = "recapture" => Recapture!VerdictOnDisk /\ Recapture!CaptureConverges /\ Recapture!ToldIsKept

(* No step takes back a field of another command, a record nobody could    *)
(* read, a published choice or a decision; none answers a START with a     *)
(* lineage that is superseded; no result leaves its slot but condemned and *)
(* archived.                                                               *)
AuthoritySteps ==
    [][ /\ part = "merge" => Merge!KeepsOthersFields
        /\ part = "damage" => Damage!KeepsUnreadable
        /\ part = "clone" => Mode(Clone)!KeepsGenerations
        /\ part = "race" => V3(Race)!KeepsTerminal
        /\ part = "graph" => Graph!AnswersHold
        /\ part = "pair" => Pair!AnswersHold
        /\ part = "fork" => Fork!AnswersHold
        /\ part = "capture" => Capture!LeavesForArchive
        /\ part = "cut" => Cut!LeavesForArchive
        /\ part = "recapture" => Recapture!LeavesForArchive ]_vars

(* "without rewriting or deleting history" (review-authority-threat-model):*)
(* a lineage that a successor superseded is never changed again.           *)
SupersededFrozen == [][part = "graph" => Graph!KeepsSuperseded]_vars

(* With the screen opened again and again, the assets of an upgraded       *)
(* binary catch up.                                                        *)
AssetsCatchUp == (part = "defer" /\ assets < binary) ~> (assets = binary)

(* A switch that cannot be read is repaired by the command given again.    *)
DamageIsRepairable == (part = "repair" /\ Mode(Repair)!Unreadable) ~> (part = "repair" => ~Mode(Repair)!Unreadable)

(* A finalize that finds the lock free leaves a receipt, or is refused.    *)
Finalized ==
    \A x \in {proc1, proc2} :
        (part = "race" /\ V3(Race)!Publishing(lineage1, x)) ~> (part = "race" => V3(Race)!PublishedOrRefused(lineage1, x))
=============================================================================
