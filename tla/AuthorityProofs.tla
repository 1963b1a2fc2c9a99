---------------------------- MODULE AuthorityProofs ----------------------------
(***************************************************************************)
(* The invariants of the components hold in the instances of MCAuthority,  *)
(* whichever part a behaviour is of: the lemmas on the steps of a          *)
(* component, proved for every value of its constants, are cited for each  *)
(* instance.  An instance of a component and the same instance of the      *)
(* module that proves about it are the same operators by another name.     *)
(***************************************************************************)
EXTENDS MCAuthority, Sequences, SequenceTheorems, TLAPS

GraphP == INSTANCE AuthorityGraphProofs WITH Procs <- {proc1}, Candidates <- {cand1, cand2, cand3},
    Scope <- (cand1 :> {path1} @@ cand2 :> {path1, path2} @@ cand3 :> {path2}),
    Small <- {cand1}, Names <- {name1}, MaxRev <- 3, MaxEdits <- 1
PairP == INSTANCE AuthorityGraphProofs WITH Procs <- {proc1, proc2}, Candidates <- {cand1, cand2},
    Scope <- (cand1 :> {path1} @@ cand2 :> {path1}), Small <- {cand2}, Names <- {}, MaxRev <- 2, MaxEdits <- 1
ForkP == INSTANCE AuthorityGraphProofs WITH Procs <- {proc1, proc2}, Candidates <- {cand1, cand2},
    Scope <- (cand1 :> {path1} @@ cand2 :> {path1, path2}), Small <- {cand1}, Names <- {name1, name2}, MaxRev <- 2, MaxEdits <- 0
CaptureP == INSTANCE ReviewerCaptureProofs WITH Procs <- {proc1, proc2}, Lenses <- {lens1, lens2}, Bodies <- {fine, severe},
    Severe <- {severe}, MaxRev <- 4, MaxFaults <- 0
CutP == INSTANCE ReviewerCaptureProofs WITH Procs <- {proc1, proc2}, Lenses <- {lens1, lens2}, Bodies <- {severe},
    Severe <- {severe}, MaxRev <- 4, MaxFaults <- 1
RecaptureP == INSTANCE ReviewerCaptureProofs WITH Procs <- {proc1}, Lenses <- {lens1, lens2}, Bodies <- {fine, severe},
    Severe <- {severe}, MaxRev <- 6, MaxFaults <- 1

(* One command at a time, for any agents, bounds and commands.             *)
State(Agents, MaxBinary, MaxFaults, Commands) == INSTANCE UserState WITH Procs <- {p1}, Overlap <- FALSE

Merging == {"add", "sync", "models", "launch", "defer", "check", "mode", "remove"}
Syncing == {"sync", "models", "launch"}

StateBounds(A, B, F, C) ==
    /\ B \in Nat \ {0} /\ F \in Nat /\ C \subseteq Merging \cup {"install", "upgrade"}
    /\ Missing # Corrupt /\ Missing \notin State(A, B, F, C)!Records /\ Corrupt \notin State(A, B, F, C)!Records

Places == {"idle", "open", "syncread", "work", "migrate", "replace", "read", "write"}
StateJobs(A, B, F, C) ==
    [cmd : C \cup {"none"}, at : Places, ver : 0..B, outer : State(A, B, F, C)!Records, inner : State(A, B, F, C)!Records,
     seen : {"ok", "missing", "corrupt"}, arg : A \cup {"on", "off", "none"}]

SameButTools(r, s) ==
    /\ r.agents = s.agents /\ r.models = s.models
    /\ r.pending = s.pending /\ r.mode = s.mode /\ r.checked = s.checked

(* What a command knows of the record, the binary and the assets at each   *)
(* of its places: nothing changes them while it runs but itself.           *)
Remembers(A, B, F, C, j) ==
    /\ j.at = "idle" \/ j.cmd \in C
    /\ j.cmd \in {"install", "add", "remove"} => j.arg \in A
    /\ j.cmd = "mode" => j.arg \in {"on", "off"}
    /\ j.at = "open" => j.cmd = "launch"
    /\ j.at = "syncread" => j.cmd \in Syncing
    /\ j.at = "work" => j.cmd \in Syncing \cup {"install", "add"}
    /\ j.at = "migrate" => j.cmd \in Syncing /\ file \in State(A, B, F, C)!Records /\ j.inner = file
    /\ j.at = "replace" => j.cmd \in {"defer", "upgrade"}
    /\ j.at = "read" => j.cmd \in Merging \ {"sync", "launch"}
    /\ j.at = "write" => j.cmd \in (Merging \ {"sync"}) \cup {"install"}
    /\ j.at \in {"open", "syncread", "work"} => j.ver = binary
    /\ j.at = "work" /\ j.cmd \in Syncing /\ j.seen = "ok" => file \in State(A, B, F, C)!Records /\ j.inner = file
    /\ j.at \in {"syncread", "work", "migrate", "write"} /\ j.cmd = "launch" =>
          file \in State(A, B, F, C)!Records /\ SameButTools(j.outer, file)
    /\ j.at \in {"migrate", "read", "write"} /\ j.cmd \in Syncing \cup {"install", "add"} => assets = binary
    /\ j.at = "write" /\ j.cmd \notin {"install", "launch"} =>
          /\ file \in State(A, B, F, C)!Records => j.outer = file /\ j.seen = "ok"
          /\ file \notin State(A, B, F, C)!Records => file = Missing /\ j.outer = State(A, B, F, C)!Zero /\ j.seen = "missing"

StateInv(A, B, F, C) ==
    /\ file \in State(A, B, F, C)!Records \cup {Missing, Corrupt} /\ binary \in 1..B /\ assets \in 1..B
    /\ chosen \in BOOLEAN /\ faults \in 0..F /\ (F = 0 => file # Corrupt)
    /\ proc \in [{p1} -> StateJobs(A, B, F, C)] /\ Remembers(A, B, F, C, proc[p1])
    /\ chosen /\ "install" \notin C => file \in State(A, B, F, C)!Records /\ file.mode # "unset"
    /\ F = 0 /\ "upgrade" \notin C => State(A, B, F, C)!UpgradeIsSynced

LEMMA StateTypes ==
    ASSUME NEW A, NEW B, NEW F, NEW C, StateBounds(A, B, F, C), StateInv(A, B, F, C)
    PROVE  State(A, B, F, C)!TypeOK /\ ("install" \notin C => State(A, B, F, C)!EmptyMeansNeverAsked)
BY DEF StateInv, StateJobs, Places, State!TypeOK, State!EmptyMeansNeverAsked, State!Readable, StateBounds

LEMMA ZeroType ==
    ASSUME NEW A, NEW B, NEW F, NEW C, StateBounds(A, B, F, C)
    PROVE  /\ State(A, B, F, C)!Zero \in State(A, B, F, C)!Records /\ State(A, B, F, C)!Idle \in StateJobs(A, B, F, C)
           /\ State(A, B, F, C)!Idle.at = "idle" /\ State(A, B, F, C)!Idle.cmd = "none"
<1>1. State(A, B, F, C)!Zero \in State(A, B, F, C)!Records
    BY DEF State!Zero, State!Records, State!Modes
<1> QED
    BY <1>1 DEF StateBounds, State!Idle, StateJobs, Places

(* A command moves, and record, binary and assets stay.                    *)
LEMMA StateMoves ==
    ASSUME NEW A, NEW B, NEW F, NEW C, StateBounds(A, B, F, C), StateInv(A, B, F, C),
           NEW new \in StateJobs(A, B, F, C), proc' = [proc EXCEPT ![p1] = new],
           UNCHANGED <<file, binary, chosen>>, assets' \in {assets, binary}, faults' \in 0..F,
           Remembers(A, B, F, C, new)',
           F = 0 /\ "upgrade" \notin C => State(A, B, F, C)!UpgradeIsSynced'
    PROVE  StateInv(A, B, F, C)' /\ State(A, B, F, C)!KeepsOthersFields /\ State(A, B, F, C)!KeepsUnreadable
<1>1. proc' \in [{p1} -> StateJobs(A, B, F, C)] /\ proc'[p1] = new
    BY DEF StateInv
<1>2. StateInv(A, B, F, C)'
    BY <1>1 DEF StateInv
<1>3. State(A, B, F, C)!KeepsOthersFields /\ State(A, B, F, C)!KeepsUnreadable
    BY DEF State!KeepsOthersFields, State!KeepsUnreadable, StateBounds
<1> QED
    BY <1>2, <1>3

(* A command ends and leaves everything as it is.                          *)
LEMMA StateEnds ==
    ASSUME NEW A, NEW B, NEW F, NEW C, StateBounds(A, B, F, C), StateInv(A, B, F, C),
           State(A, B, F, C)!Go(p1, "idle"), UNCHANGED <<file, binary, chosen, assets>>, faults' \in 0..F,
           F = 0 /\ "upgrade" \notin C => proc[p1].cmd # "defer" \/ assets = binary \/ proc[p1].at \notin {"read", "write"}
    PROVE  StateInv(A, B, F, C)' /\ State(A, B, F, C)!KeepsOthersFields /\ State(A, B, F, C)!KeepsUnreadable
<1>1. PICK new \in StateJobs(A, B, F, C) : new = State(A, B, F, C)!Idle /\ new.at = "idle" /\ new.cmd = "none"
    BY ZeroType
<1>2. proc' = [proc EXCEPT ![p1] = new] /\ proc'[p1] = new
    BY <1>1 DEF State!Go, StateInv
<1>3. Remembers(A, B, F, C, new)'
    BY <1>1 DEF Remembers, Merging, Syncing
<1>4. F = 0 /\ "upgrade" \notin C => State(A, B, F, C)!UpgradeIsSynced'
    BY <1>2 DEF StateInv, State!UpgradeIsSynced, State!Readable
<1> QED
    BY <1>1, <1>2, <1>3, <1>4, StateMoves

LEMMA BeginStep ==
    ASSUME NEW A, NEW B, NEW F, NEW C, StateBounds(A, B, F, C), StateInv(A, B, F, C),
           NEW c \in C, State(A, B, F, C)!Begin(p1, c)
    PROVE  StateInv(A, B, F, C)' /\ State(A, B, F, C)!KeepsOthersFields /\ State(A, B, F, C)!KeepsUnreadable
<1>1. PICK a \in State(A, B, F, C)!Args(c) : proc' = [proc EXCEPT ![p1] = [State(A, B, F, C)!Idle EXCEPT !.cmd = c, !.at = State(A, B, F, C)!Entry(c), !.ver = binary, !.arg = a]]
    BY DEF State!Begin
<1>2. PICK i \in StateJobs(A, B, F, C) : i = State(A, B, F, C)!Idle
    BY ZeroType
<1>3. c \in Merging \cup {"install", "upgrade"}
    BY DEF StateBounds
<1>4. /\ c \in {"install", "add", "remove"} => a \in A
      /\ c = "mode" => a \in {"on", "off"}
      /\ a \in A \cup {"on", "off", "none"}
    BY <1>1, <1>3 DEF State!Args, Merging
<1>5. PICK e \in Places \ {"idle", "migrate", "write"} :
          /\ e = State(A, B, F, C)!Entry(c)
          /\ e = "open" => c = "launch"
          /\ e = "syncread" => c \in {"sync", "models"}
          /\ e = "work" => c \in {"install", "add"}
          /\ e = "replace" => c \in {"defer", "upgrade"}
          /\ e = "read" => c \in {"check", "mode", "remove"}
    BY <1>3 DEF State!Entry, Merging, Places
<1>6. PICK b \in 0..B : b = binary
    BY DEF StateInv, StateBounds
<1>7. PICK k \in StateJobs(A, B, F, C) : k = [i EXCEPT !.cmd = c, !.at = e]
    BY DEF StateJobs
<1>8. PICK new \in StateJobs(A, B, F, C) : new = [k EXCEPT !.ver = b, !.arg = a]
    BY <1>4 DEF StateJobs
<1>12. new.cmd = c /\ new.at = e /\ new.ver = binary /\ new.arg = a
  <2>1. k.cmd = c /\ k.at = e
      BY <1>7 DEF StateJobs
  <2> QED
      BY <1>6, <1>8, <2>1 DEF StateJobs
<1>13. proc' = [proc EXCEPT ![p1] = new]
    BY <1>1, <1>2, <1>5, <1>6, <1>7, <1>8
<1>9. /\ proc'[p1] = new /\ file' = file /\ binary' = binary /\ chosen' = chosen /\ assets' = assets
      /\ faults' = faults /\ faults \in 0..F
    BY <1>13 DEF State!Begin, StateInv
<1>10. Remembers(A, B, F, C, new)'
    BY <1>3, <1>4, <1>5, <1>9, <1>12 DEF Remembers, Merging, Syncing
<1>11. F = 0 /\ "upgrade" \notin C => State(A, B, F, C)!UpgradeIsSynced'
  <2>1. proc[p1] = State(A, B, F, C)!Idle
      BY DEF State!Begin
  <2>2. proc[p1].at = "idle"
      BY <2>1, ZeroType
  <2> QED
      BY <1>9, <2>2 DEF StateInv, State!UpgradeIsSynced, State!Readable
<1> QED
    BY <1>9, <1>10, <1>11, <1>13, StateMoves

LEMMA OpenStep ==
    ASSUME NEW A, NEW B, NEW F, NEW C, StateBounds(A, B, F, C), StateInv(A, B, F, C), State(A, B, F, C)!Open(p1)
    PROVE  StateInv(A, B, F, C)' /\ State(A, B, F, C)!KeepsOthersFields /\ State(A, B, F, C)!KeepsUnreadable
<1>1. /\ proc[p1] \in StateJobs(A, B, F, C) /\ proc[p1].at = "open" /\ proc[p1].cmd = "launch"
      /\ UNCHANGED <<file, binary, chosen, assets, faults>> /\ State(A, B, F, C)!Zero.pending = FALSE
    BY DEF State!Open, StateInv, Remembers, State!Zero
<1>2. CASE State(A, B, F, C)!Read.pending
  <2>1. file \in State(A, B, F, C)!Records /\ State(A, B, F, C)!Read = file
      BY <1>1, <1>2 DEF State!Read, State!Readable, StateInv
  <2>2. PICK new \in StateJobs(A, B, F, C) : new = [proc[p1] EXCEPT !.at = "syncread", !.outer = file]
      BY <1>1, <2>1 DEF StateJobs, Places
  <2>3. new.at = "syncread" /\ new.outer = file /\ new.cmd = "launch" /\ new.ver = proc[p1].ver
      BY <1>1, <2>2 DEF StateJobs
  <2>4. proc' = [proc EXCEPT ![p1] = new]
      BY <1>2, <2>1, <2>2 DEF State!Open
  <2>5. proc'[p1] = new /\ faults' \in 0..F /\ proc[p1].ver = binary /\ "launch" \in C
      BY <1>1, <2>4 DEF StateInv, Remembers
  <2>6. Remembers(A, B, F, C, new)'
      BY <1>1, <2>1, <2>3, <2>5 DEF Remembers, Syncing, Merging, SameButTools
  <2>7. F = 0 /\ "upgrade" \notin C => State(A, B, F, C)!UpgradeIsSynced'
      BY <1>1, <2>5 DEF StateInv, State!UpgradeIsSynced, State!Readable
  <2> QED
      BY <1>1, <2>4, <2>5, <2>6, <2>7, StateMoves
<1>3. CASE ~State(A, B, F, C)!Read.pending
    BY <1>1, <1>3, StateEnds DEF State!Open, State!Go, StateInv
<1> QED
    BY <1>2, <1>3

(* A command goes to its next place.                                       *)
LEMMA StateGoes ==
    ASSUME NEW A, NEW B, NEW F, NEW C, StateBounds(A, B, F, C), StateInv(A, B, F, C),
           NEW e \in Places \ {"idle"}, State(A, B, F, C)!Go(p1, e)
    PROVE  \E new \in StateJobs(A, B, F, C) :
               /\ proc' = [proc EXCEPT ![p1] = new] /\ proc'[p1] = new
               /\ new.at = e /\ new.cmd = proc[p1].cmd /\ new.ver = proc[p1].ver /\ new.arg = proc[p1].arg
               /\ new.outer = proc[p1].outer /\ new.inner = proc[p1].inner /\ new.seen = proc[p1].seen
<1>1. proc[p1] \in StateJobs(A, B, F, C)
    BY DEF StateInv
<1>2. PICK new \in StateJobs(A, B, F, C) : new = [proc[p1] EXCEPT !.at = e]
    BY <1>1 DEF StateJobs
<1>3. proc' = [proc EXCEPT ![p1] = new] /\ proc'[p1] = new
    BY <1>2 DEF State!Go, StateInv
<1>4. /\ new.at = e /\ new.cmd = proc[p1].cmd /\ new.ver = proc[p1].ver /\ new.arg = proc[p1].arg
      /\ new.outer = proc[p1].outer /\ new.inner = proc[p1].inner /\ new.seen = proc[p1].seen
    BY <1>1, <1>2 DEF StateJobs
<1> QED
    BY <1>3, <1>4

LEMMA SyncReadStep ==
    ASSUME NEW A, NEW B, NEW F, NEW C, StateBounds(A, B, F, C), StateInv(A, B, F, C), State(A, B, F, C)!SyncRead(p1)
    PROVE  StateInv(A, B, F, C)' /\ State(A, B, F, C)!KeepsOthersFields /\ State(A, B, F, C)!KeepsUnreadable
<1>1. /\ proc[p1] \in StateJobs(A, B, F, C) /\ proc[p1].at = "syncread"
      /\ UNCHANGED <<file, binary, chosen, assets, faults>> /\ faults' \in 0..F
    BY DEF State!SyncRead, StateInv
<1>2. PICK r \in State(A, B, F, C)!Records : r = State(A, B, F, C)!Read /\ (file \in State(A, B, F, C)!Records => r = file)
    BY ZeroType DEF State!Read, State!Readable, StateInv, StateBounds
<1>3. PICK s \in {"ok", "missing", "corrupt"} : s = State(A, B, F, C)!Seen /\ (s = "ok" => file \in State(A, B, F, C)!Records)
    BY DEF State!Seen, State!Readable, StateInv
<1>4. PICK k \in StateJobs(A, B, F, C) : k = [proc[p1] EXCEPT !.inner = r, !.seen = s]
    BY <1>1 DEF StateJobs
<1>5. PICK new \in StateJobs(A, B, F, C) : new = [k EXCEPT !.at = "work"]
    BY DEF StateJobs, Places
<1>6. /\ new.at = "work" /\ new.inner = r /\ new.seen = s /\ new.cmd = proc[p1].cmd
      /\ new.ver = proc[p1].ver /\ new.outer = proc[p1].outer
  <2>1. /\ k.inner = r /\ k.seen = s /\ k.cmd = proc[p1].cmd
        /\ k.ver = proc[p1].ver /\ k.outer = proc[p1].outer
      BY <1>1, <1>4 DEF StateJobs
  <2> QED
      BY <1>5, <2>1 DEF StateJobs
<1>7. proc' = [proc EXCEPT ![p1] = new]
    BY <1>2, <1>3, <1>4, <1>5 DEF State!SyncRead, StateInv
<1>8. proc'[p1] = new /\ Remembers(A, B, F, C, proc[p1]) /\ new.cmd \in Syncing
    BY <1>1, <1>6, <1>7 DEF StateInv, Remembers
<1>9. Remembers(A, B, F, C, new)'
    BY <1>1, <1>2, <1>3, <1>6, <1>8 DEF Remembers, Syncing, Merging
<1>10. F = 0 /\ "upgrade" \notin C => State(A, B, F, C)!UpgradeIsSynced'
    BY <1>1, <1>8 DEF StateInv, State!UpgradeIsSynced, State!Readable
<1> QED
    BY <1>1, <1>7, <1>9, <1>10, StateMoves

LEMMA WorkStep ==
    ASSUME NEW A, NEW B, NEW F, NEW C, StateBounds(A, B, F, C), StateInv(A, B, F, C), State(A, B, F, C)!Work(p1)
    PROVE  StateInv(A, B, F, C)' /\ State(A, B, F, C)!KeepsOthersFields /\ State(A, B, F, C)!KeepsUnreadable
<1>1. /\ proc[p1] \in StateJobs(A, B, F, C) /\ proc[p1].at = "work" /\ Remembers(A, B, F, C, proc[p1])
      /\ UNCHANGED <<file, binary, chosen, faults>> /\ faults' \in 0..F
      /\ proc[p1].ver = binary /\ proc[p1].cmd \in Syncing \cup {"install", "add"} /\ proc[p1].cmd # "defer"
    BY DEF State!Work, StateInv, Remembers, Syncing
<1>2. CASE State(A, B, F, C)!Go(p1, "idle") /\ assets' = assets
    BY <1>1, <1>2, StateEnds
<1>3. CASE assets' = binary /\ \E e \in {"write", "read", "idle"} : e = State(A, B, F, C)!AfterWork(proc[p1].cmd) /\ State(A, B, F, C)!Go(p1, e)
  <2>1. PICK e \in {"write", "read", "idle"} : e = State(A, B, F, C)!AfterWork(proc[p1].cmd) /\ State(A, B, F, C)!Go(p1, e)
      BY <1>3
  <2>2. CASE e = "idle"
    <3>1. PICK new \in StateJobs(A, B, F, C) : new = State(A, B, F, C)!Idle /\ new.at = "idle" /\ new.cmd = "none"
        BY ZeroType
    <3>2. proc' = [proc EXCEPT ![p1] = new]
        BY <2>1, <2>2, <3>1 DEF State!Go
    <3>3. Remembers(A, B, F, C, new)'
        BY <3>1 DEF Remembers, Merging, Syncing
    <3>4. State(A, B, F, C)!UpgradeIsSynced'
        BY <1>1, <1>3 DEF State!UpgradeIsSynced, StateInv, StateBounds
    <3> QED
        BY <1>1, <1>3, <3>2, <3>3, <3>4, StateMoves
  <2>3. CASE e # "idle"
    <3>1. PICK new \in StateJobs(A, B, F, C) :
               /\ proc' = [proc EXCEPT ![p1] = new] /\ proc'[p1] = new
               /\ new.at = e /\ new.cmd = proc[p1].cmd /\ new.ver = proc[p1].ver /\ new.arg = proc[p1].arg
               /\ new.outer = proc[p1].outer /\ new.inner = proc[p1].inner /\ new.seen = proc[p1].seen
        BY <2>1, <2>3, StateGoes DEF Places
    <3>2. e = "write" => proc[p1].cmd \in {"install", "launch"}
        BY <1>1, <2>1 DEF State!AfterWork, Syncing
    <3>3. e = "read" => proc[p1].cmd \in {"add", "models"}
        BY <1>1, <2>1 DEF State!AfterWork, Syncing
    <3>4. Remembers(A, B, F, C, new)'
        BY <1>1, <1>3, <2>3, <3>1, <3>2, <3>3 DEF Remembers, Merging, Syncing
    <3>5. State(A, B, F, C)!UpgradeIsSynced'
        BY <1>1, <1>3 DEF State!UpgradeIsSynced, StateInv, StateBounds
    <3> QED
        BY <1>1, <1>3, <3>1, <3>4, <3>5, StateMoves
  <2> QED
      BY <2>2, <2>3
<1>4. CASE assets' = binary /\ proc[p1].cmd \in Syncing /\ proc[p1].seen = "ok" /\ State(A, B, F, C)!Go(p1, "migrate")
  <2>1. PICK new \in StateJobs(A, B, F, C) :
             /\ proc' = [proc EXCEPT ![p1] = new] /\ proc'[p1] = new
             /\ new.at = "migrate" /\ new.cmd = proc[p1].cmd /\ new.ver = proc[p1].ver /\ new.arg = proc[p1].arg
             /\ new.outer = proc[p1].outer /\ new.inner = proc[p1].inner /\ new.seen = proc[p1].seen
      BY <1>4, StateGoes DEF Places
  <2>2. Remembers(A, B, F, C, new)'
      BY <1>1, <1>4, <2>1 DEF Remembers, Merging, Syncing
  <2>3. State(A, B, F, C)!UpgradeIsSynced'
      BY <1>1, <1>4 DEF State!UpgradeIsSynced, StateInv, StateBounds
  <2> QED
      BY <1>1, <1>4, <2>1, <2>2, <2>3, StateMoves
<1>5. State(A, B, F, C)!AfterWork(proc[p1].cmd) \in {"write", "read", "idle"}
    BY <1>1 DEF State!AfterWork, Syncing
<1> QED
    BY <1>1, <1>2, <1>3, <1>4, <1>5 DEF State!Work, Syncing

LEMMA ReplaceStep ==
    ASSUME NEW A, NEW B, NEW F, NEW C, StateBounds(A, B, F, C), StateInv(A, B, F, C), State(A, B, F, C)!Replace(p1)
    PROVE  StateInv(A, B, F, C)' /\ State(A, B, F, C)!KeepsOthersFields /\ State(A, B, F, C)!KeepsUnreadable
<1>1. /\ proc[p1] \in StateJobs(A, B, F, C) /\ proc[p1].at = "replace" /\ Remembers(A, B, F, C, proc[p1])
      /\ UNCHANGED <<file, assets, chosen, faults>> /\ faults' \in 0..F
      /\ proc[p1].cmd \in {"defer", "upgrade"} /\ proc[p1].cmd \in C
    BY DEF State!Replace, StateInv, Remembers
<1>2. CASE State(A, B, F, C)!Go(p1, "idle") /\ binary' = binary
    BY <1>1, <1>2, StateEnds
<1>3. CASE binary < B /\ binary' = binary + 1 /\ State(A, B, F, C)!Go(p1, IF proc[p1].cmd = "defer" THEN "read" ELSE "idle")
  <2>1. binary' \in 1..B
      BY <1>3 DEF StateInv, StateBounds
  <2>2. State(A, B, F, C)!KeepsOthersFields /\ State(A, B, F, C)!KeepsUnreadable
      BY <1>1 DEF State!KeepsOthersFields, State!KeepsUnreadable, StateBounds
  <2>3. CASE proc[p1].cmd = "defer"
    <3>1. PICK new \in StateJobs(A, B, F, C) :
               /\ proc' = [proc EXCEPT ![p1] = new] /\ proc'[p1] = new
               /\ new.at = "read" /\ new.cmd = "defer"
        BY <1>3, <2>3, StateGoes DEF Places
    <3>2. Remembers(A, B, F, C, new)'
        BY <1>1, <2>3, <3>1 DEF Remembers, Merging, Syncing
    <3>3. State(A, B, F, C)!UpgradeIsSynced'
        BY <3>1 DEF State!UpgradeIsSynced
    <3> QED
        BY <1>1, <2>1, <2>2, <3>1, <3>2, <3>3 DEF StateInv
  <2>4. CASE proc[p1].cmd = "upgrade"
    <3>1. PICK new \in StateJobs(A, B, F, C) : new = State(A, B, F, C)!Idle /\ new.at = "idle" /\ new.cmd = "none"
        BY ZeroType
    <3>2. proc' = [proc EXCEPT ![p1] = new] /\ proc'[p1] = new
        BY <1>3, <2>4, <3>1 DEF State!Go, StateInv
    <3>3. Remembers(A, B, F, C, new)'
        BY <3>1 DEF Remembers, Merging, Syncing
    <3> QED
        BY <1>1, <2>1, <2>2, <2>4, <3>2, <3>3 DEF StateInv
  <2> QED
      BY <1>1, <2>3, <2>4
<1> QED
    BY <1>2, <1>3 DEF State!Replace

LEMMA ReadBackStep ==
    ASSUME NEW A, NEW B, NEW F, NEW C, StateBounds(A, B, F, C), StateInv(A, B, F, C), State(A, B, F, C)!ReadBack(p1)
    PROVE  StateInv(A, B, F, C)' /\ State(A, B, F, C)!KeepsOthersFields /\ State(A, B, F, C)!KeepsUnreadable
<1>1. /\ proc[p1] \in StateJobs(A, B, F, C) /\ proc[p1].at = "read" /\ Remembers(A, B, F, C, proc[p1])
      /\ UNCHANGED <<file, binary, chosen, assets, faults>> /\ faults' \in 0..F
      /\ proc[p1].cmd \in Merging \ {"sync", "launch"}
    BY DEF State!ReadBack, StateInv, Remembers
<1> DEFINE goes == State(A, B, F, C)!ReadsOn(proc[p1].cmd) /\ (proc[p1].cmd = "remove" => proc[p1].arg \in file.agents)
<1>2. CASE goes
  <2>1. file \in State(A, B, F, C)!Records \cup {Missing}
      BY <1>2 DEF State!ReadsOn, State!Readable, StateInv
  <2>2. PICK r \in State(A, B, F, C)!Records :
            /\ r = State(A, B, F, C)!Read
            /\ file \in State(A, B, F, C)!Records => r = file
            /\ file \notin State(A, B, F, C)!Records => r = State(A, B, F, C)!Zero
      BY <2>1, ZeroType DEF State!Read, State!Readable, StateBounds
  <2>3. PICK s \in {"ok", "missing", "corrupt"} :
            /\ s = State(A, B, F, C)!Seen
            /\ file \in State(A, B, F, C)!Records => s = "ok"
            /\ file \notin State(A, B, F, C)!Records => s = "missing"
      BY <2>1 DEF State!Seen, State!Readable, StateBounds
  <2>4. PICK k \in StateJobs(A, B, F, C) : k = [proc[p1] EXCEPT !.outer = r, !.seen = s]
      BY <1>1 DEF StateJobs
  <2>5. PICK new \in StateJobs(A, B, F, C) : new = [k EXCEPT !.at = "write"]
      BY DEF StateJobs, Places
  <2>6. new.at = "write" /\ new.outer = r /\ new.seen = s /\ new.cmd = proc[p1].cmd /\ new.arg = proc[p1].arg
    <3>1. k.outer = r /\ k.seen = s /\ k.cmd = proc[p1].cmd /\ k.arg = proc[p1].arg
        BY <1>1, <2>4 DEF StateJobs
    <3> QED
        BY <2>5, <3>1 DEF StateJobs
  <2>7. proc' = [proc EXCEPT ![p1] = new]
    <3>1. proc' = [proc EXCEPT ![p1].outer = State(A, B, F, C)!Read, ![p1].seen = State(A, B, F, C)!Seen, ![p1].at = "write"]
        BY <1>2 DEF State!ReadBack
    <3> QED
        BY <2>2, <2>3, <2>4, <2>5, <3>1 DEF StateInv
  <2>8. proc'[p1] = new
      BY <2>7 DEF StateInv
  <2>9. Remembers(A, B, F, C, new)'
    <3>1. /\ new.cmd \in C /\ (new.cmd \in {"install", "add", "remove"} => new.arg \in A)
          /\ new.cmd = "mode" => new.arg \in {"on", "off"}
          /\ new.cmd \in Syncing \cup {"install", "add"} => assets = binary
        BY <1>1, <2>6 DEF Remembers
    <3>2. file \notin State(A, B, F, C)!Records => file = Missing /\ new.outer = State(A, B, F, C)!Zero /\ new.seen = "missing"
        BY <2>1, <2>2, <2>3, <2>6
    <3>3. file \in State(A, B, F, C)!Records => new.outer = file /\ new.seen = "ok"
        BY <2>2, <2>3, <2>6
    <3> QED
        BY <1>1, <2>6, <2>8, <3>1, <3>2, <3>3 DEF Remembers, Syncing, Merging
  <2>10. F = 0 /\ "upgrade" \notin C => State(A, B, F, C)!UpgradeIsSynced'
      BY <1>1, <2>6, <2>8 DEF StateInv, State!UpgradeIsSynced, State!Readable
  <2> QED
      BY <1>1, <2>7, <2>9, <2>10, StateMoves
<1>3. CASE ~goes
  <2>1. F = 0 => proc[p1].cmd # "defer"
      BY <1>3 DEF State!ReadsOn, State!Readable, StateInv
  <2> QED
      BY <1>1, <1>3, <2>1, StateEnds DEF State!ReadBack
<1> QED
    BY <1>2, <1>3

LEMMA MigrateStep ==
    ASSUME NEW A, NEW B, NEW F, NEW C, StateBounds(A, B, F, C), StateInv(A, B, F, C), State(A, B, F, C)!Migrate(p1)
    PROVE  StateInv(A, B, F, C)' /\ State(A, B, F, C)!KeepsOthersFields /\ State(A, B, F, C)!KeepsUnreadable
<1>1. /\ proc[p1] \in StateJobs(A, B, F, C) /\ proc[p1].at = "migrate" /\ Remembers(A, B, F, C, proc[p1])
      /\ UNCHANGED <<binary, chosen, assets, faults>> /\ faults' \in 0..F
      /\ proc[p1].cmd \in Syncing /\ proc[p1].cmd \in C /\ assets = binary
      /\ file \in State(A, B, F, C)!Records /\ proc[p1].inner = file
    BY DEF State!Migrate, StateInv, Remembers
<1>2. PICK r \in State(A, B, F, C)!Records : r = [file EXCEPT !.tools = TRUE]
    BY <1>1 DEF State!Records
<1>3. file' = r /\ SameButTools(file, r)
    BY <1>1, <1>2 DEF State!Migrate, State!Records, SameButTools
<1>4. State(A, B, F, C)!KeepsOthersFields
  <2>1. \A f \in DOMAIN State(A, B, F, C)!Owners : file'[f] # file[f] => f = "tools"
      BY <1>3 DEF State!Owners, SameButTools
  <2>2. State(A, B, F, C)!Owners["tools"] = Syncing
      BY DEF State!Owners, Syncing
  <2> QED
      BY <1>1, <2>1, <2>2 DEF State!KeepsOthersFields
<1>5. State(A, B, F, C)!KeepsUnreadable
    BY <1>1 DEF State!KeepsUnreadable, StateBounds
<1>6. State(A, B, F, C)!UpgradeIsSynced' /\ file' # Corrupt /\ (chosen' /\ "install" \notin C => file' \in State(A, B, F, C)!Records /\ file'.mode # "unset")
    BY <1>1, <1>3 DEF StateInv, StateBounds, State!UpgradeIsSynced, SameButTools
<1>7. PICK new \in StateJobs(A, B, F, C) :
           proc' = [proc EXCEPT ![p1] = new] /\ proc'[p1] = new /\ Remembers(A, B, F, C, new)'
  <2>1. PICK e \in {"write", "read", "idle"} :
             /\ e = State(A, B, F, C)!AfterWork(proc[p1].cmd)
             /\ e = "write" => proc[p1].cmd = "launch"
             /\ e = "read" => proc[p1].cmd = "models"
      BY <1>1 DEF State!AfterWork, Syncing
  <2>2. CASE e = "idle"
    <3>1. PICK new \in StateJobs(A, B, F, C) : new = State(A, B, F, C)!Idle /\ new.at = "idle" /\ new.cmd = "none"
        BY ZeroType
    <3>2. proc' = [proc EXCEPT ![p1] = new] /\ proc'[p1] = new
        BY <2>1, <2>2, <3>1 DEF State!Migrate, State!Go, StateInv
    <3>3. Remembers(A, B, F, C, new)'
        BY <3>1 DEF Remembers, Merging, Syncing
    <3> QED
        BY <3>2, <3>3
  <2>3. CASE e # "idle"
    <3>1. PICK new \in StateJobs(A, B, F, C) :
               /\ proc' = [proc EXCEPT ![p1] = new] /\ proc'[p1] = new
               /\ new.at = e /\ new.cmd = proc[p1].cmd /\ new.ver = proc[p1].ver /\ new.arg = proc[p1].arg
               /\ new.outer = proc[p1].outer /\ new.inner = proc[p1].inner /\ new.seen = proc[p1].seen
        BY <2>1, <2>3, StateGoes DEF Places, State!Migrate
    <3>2. new.cmd = "launch" => SameButTools(new.outer, r)
        BY <1>1, <1>3, <3>1 DEF Remembers, SameButTools
    <3>3. Remembers(A, B, F, C, new)'
        BY <1>1, <1>3, <2>1, <2>3, <3>1, <3>2 DEF Remembers, Merging, Syncing
    <3> QED
        BY <3>1, <3>3
  <2> QED
      BY <2>2, <2>3
<1>8. proc' \in [{p1} -> StateJobs(A, B, F, C)]
    BY <1>7 DEF StateInv
<1> QED
    BY <1>1, <1>3, <1>4, <1>5, <1>6, <1>7, <1>8 DEF StateInv

(* What a command that merges writes: its own fields are new.              *)
LEMMA WrittenRecord ==
    ASSUME NEW A, NEW B, NEW F, NEW C, StateBounds(A, B, F, C), StateInv(A, B, F, C),
           proc[p1].at = "write"
    PROVE  /\ State(A, B, F, C)!Written(p1) \in State(A, B, F, C)!Records
           /\ proc[p1].cmd = "mode" => State(A, B, F, C)!Written(p1).mode # "unset"
           /\ proc[p1].cmd = "defer" => State(A, B, F, C)!Written(p1).pending
           /\ proc[p1].cmd # "install" /\ file \in State(A, B, F, C)!Records =>
                 /\ \A f \in DOMAIN State(A, B, F, C)!Owners : State(A, B, F, C)!Written(p1)[f] # file[f] => proc[p1].cmd \in State(A, B, F, C)!Owners[f]
                 /\ proc[p1].cmd # "mode" => State(A, B, F, C)!Written(p1).mode = file.mode
                 /\ proc[p1].cmd \notin {"launch", "defer"} => State(A, B, F, C)!Written(p1).pending = file.pending
<1> DEFINE c == proc[p1].cmd
           o == proc[p1].outer
           a == proc[p1].arg
           Meets(w) == /\ w \in State(A, B, F, C)!Records
                       /\ c = "mode" => w.mode # "unset"
                       /\ c = "defer" => w.pending
                       /\ c # "install" /\ file \in State(A, B, F, C)!Records =>
                             /\ \A f \in DOMAIN State(A, B, F, C)!Owners : w[f] # file[f] => c \in State(A, B, F, C)!Owners[f]
                             /\ c # "mode" => w.mode = file.mode
                             /\ c \notin {"launch", "defer"} => w.pending = file.pending
<1>1. /\ proc[p1] \in StateJobs(A, B, F, C) /\ c \in (Merging \ {"sync"}) \cup {"install"}
      /\ c \in {"install", "add", "remove"} => a \in A
      /\ c = "mode" => a \in {"on", "off"}
      /\ c = "launch" => file \in State(A, B, F, C)!Records /\ SameButTools(o, file)
      /\ c \notin {"install", "launch"} /\ file \in State(A, B, F, C)!Records => o = file /\ proc[p1].seen = "ok"
    BY DEF StateInv, Remembers
<1>2. o \in State(A, B, F, C)!Records
    BY <1>1 DEF StateJobs
<1>3. /\ DOMAIN State(A, B, F, C)!Owners = {"agents", "tools", "models", "pending", "mode", "checked"}
      /\ State(A, B, F, C)!Owners["agents"] = {"add", "remove"} /\ State(A, B, F, C)!Owners["tools"] = Syncing /\ State(A, B, F, C)!Owners["models"] = {"models"}
      /\ State(A, B, F, C)!Owners["pending"] = {"launch", "defer"} /\ State(A, B, F, C)!Owners["mode"] = {"mode"} /\ State(A, B, F, C)!Owners["checked"] = {"check"}
    BY DEF State!Owners, Syncing
<1>4. ASSUME a \in A PROVE State(A, B, F, C)!Fresh(a) \in State(A, B, F, C)!Records
  <2>1. PICK z \in State(A, B, F, C)!Records : z = State(A, B, F, C)!Zero
      BY ZeroType
  <2>2. [z EXCEPT !.agents = {a}, !.tools = TRUE] \in State(A, B, F, C)!Records
      BY <1>4 DEF State!Records
  <2> QED
      BY <2>1, <2>2 DEF State!Fresh
<1>5. CASE c = "install"
    BY <1>1, <1>4, <1>5 DEF State!Written
<1>6. CASE c = "add" /\ proc[p1].seen = "missing"
    BY <1>1, <1>4, <1>6 DEF State!Written
<1>7. CASE c = "add" /\ proc[p1].seen # "missing"
  <2>1. State(A, B, F, C)!Written(p1) = [o EXCEPT !.agents = o.agents \cup {a}]
      BY <1>7 DEF State!Written, State!MergeAgents
  <2>2. PICK w \in State(A, B, F, C)!Records : w = [o EXCEPT !.agents = o.agents \cup {a}]
      BY <1>1, <1>2, <1>7 DEF State!Records, State!Modes
  <2>3. /\ w.agents = o.agents \cup {a} /\ w.tools = o.tools /\ w.models = o.models
        /\ w.pending = o.pending /\ w.mode = o.mode /\ w.checked = o.checked
      BY <1>2, <2>2 DEF State!Records
  <2>4. Meets(w)
      BY <1>1, <1>2, <1>3, <1>7, <2>3 DEF SameButTools, Syncing
  <2> QED
      BY <2>1, <2>2, <2>4
<1>8. CASE c = "models"
  <2>1. State(A, B, F, C)!Written(p1) = [o EXCEPT !.models = TRUE]
      BY <1>8 DEF State!Written
  <2>2. PICK w \in State(A, B, F, C)!Records : w = [o EXCEPT !.models = TRUE]
      BY <1>1, <1>2, <1>8 DEF State!Records, State!Modes
  <2>3. /\ w.agents = o.agents /\ w.tools = o.tools /\ w.models = TRUE
        /\ w.pending = o.pending /\ w.mode = o.mode /\ w.checked = o.checked
      BY <1>2, <2>2 DEF State!Records
  <2>4. Meets(w)
      BY <1>1, <1>2, <1>3, <1>8, <2>3 DEF SameButTools, Syncing
  <2> QED
      BY <2>1, <2>2, <2>4
<1>9. CASE c = "launch"
  <2>1. State(A, B, F, C)!Written(p1) = [o EXCEPT !.pending = FALSE]
      BY <1>9 DEF State!Written
  <2>2. PICK w \in State(A, B, F, C)!Records : w = [o EXCEPT !.pending = FALSE]
      BY <1>1, <1>2, <1>9 DEF State!Records, State!Modes
  <2>3. /\ w.agents = o.agents /\ w.tools = o.tools /\ w.models = o.models
        /\ w.pending = FALSE /\ w.mode = o.mode /\ w.checked = o.checked
      BY <1>2, <2>2 DEF State!Records
  <2>4. Meets(w)
      BY <1>1, <1>2, <1>3, <1>9, <2>3 DEF SameButTools, Syncing
  <2> QED
      BY <2>1, <2>2, <2>4
<1>10. CASE c = "defer"
  <2>1. State(A, B, F, C)!Written(p1) = [o EXCEPT !.pending = TRUE]
      BY <1>10 DEF State!Written
  <2>2. PICK w \in State(A, B, F, C)!Records : w = [o EXCEPT !.pending = TRUE]
      BY <1>1, <1>2, <1>10 DEF State!Records, State!Modes
  <2>3. /\ w.agents = o.agents /\ w.tools = o.tools /\ w.models = o.models
        /\ w.pending = TRUE /\ w.mode = o.mode /\ w.checked = o.checked
      BY <1>2, <2>2 DEF State!Records
  <2>4. Meets(w)
      BY <1>1, <1>2, <1>3, <1>10, <2>3 DEF SameButTools, Syncing
  <2> QED
      BY <2>1, <2>2, <2>4
<1>11. CASE c = "check"
  <2>1. State(A, B, F, C)!Written(p1) = [o EXCEPT !.checked = TRUE]
      BY <1>11 DEF State!Written
  <2>2. PICK w \in State(A, B, F, C)!Records : w = [o EXCEPT !.checked = TRUE]
      BY <1>1, <1>2, <1>11 DEF State!Records, State!Modes
  <2>3. /\ w.agents = o.agents /\ w.tools = o.tools /\ w.models = o.models
        /\ w.pending = o.pending /\ w.mode = o.mode /\ w.checked = TRUE
      BY <1>2, <2>2 DEF State!Records
  <2>4. Meets(w)
      BY <1>1, <1>2, <1>3, <1>11, <2>3 DEF SameButTools, Syncing
  <2> QED
      BY <2>1, <2>2, <2>4
<1>12. CASE c = "mode"
  <2>1. State(A, B, F, C)!Written(p1) = [o EXCEPT !.mode = a]
      BY <1>12 DEF State!Written
  <2>2. PICK w \in State(A, B, F, C)!Records : w = [o EXCEPT !.mode = a]
      BY <1>1, <1>2, <1>12 DEF State!Records, State!Modes
  <2>3. /\ w.agents = o.agents /\ w.tools = o.tools /\ w.models = o.models
        /\ w.pending = o.pending /\ w.mode = a /\ w.checked = o.checked
      BY <1>2, <2>2 DEF State!Records
  <2>4. Meets(w)
      BY <1>1, <1>2, <1>3, <1>12, <2>3 DEF SameButTools, Syncing
  <2> QED
      BY <2>1, <2>2, <2>4
<1>13. CASE c = "remove"
  <2>1. State(A, B, F, C)!Written(p1) = [o EXCEPT !.agents = o.agents \ {a}]
      BY <1>13 DEF State!Written
  <2>2. PICK w \in State(A, B, F, C)!Records : w = [o EXCEPT !.agents = o.agents \ {a}]
      BY <1>1, <1>2, <1>13 DEF State!Records, State!Modes
  <2>3. /\ w.agents = o.agents \ {a} /\ w.tools = o.tools /\ w.models = o.models
        /\ w.pending = o.pending /\ w.mode = o.mode /\ w.checked = o.checked
      BY <1>2, <2>2 DEF State!Records
  <2>4. Meets(w)
      BY <1>1, <1>2, <1>3, <1>13, <2>3 DEF SameButTools, Syncing
  <2> QED
      BY <2>1, <2>2, <2>4
<1> QED
    BY <1>1, <1>5, <1>6, <1>7, <1>8, <1>9, <1>10, <1>11, <1>12, <1>13 DEF Merging

LEMMA WriteStep ==
    ASSUME NEW A, NEW B, NEW F, NEW C, StateBounds(A, B, F, C), StateInv(A, B, F, C), State(A, B, F, C)!Write(p1)
    PROVE  StateInv(A, B, F, C)' /\ State(A, B, F, C)!KeepsOthersFields /\ State(A, B, F, C)!KeepsUnreadable
<1>1. /\ proc[p1].at = "write" /\ Remembers(A, B, F, C, proc[p1])
      /\ UNCHANGED <<binary, assets, faults>> /\ State(A, B, F, C)!Go(p1, "idle")
      /\ file' = State(A, B, F, C)!Written(p1) /\ chosen' = (chosen \/ proc[p1].cmd = "mode") /\ chosen \in BOOLEAN
    BY DEF State!Write, StateInv
<1>2. PICK w \in State(A, B, F, C)!Records :
          /\ w = State(A, B, F, C)!Written(p1)
          /\ proc[p1].cmd = "mode" => w.mode # "unset"
          /\ proc[p1].cmd = "defer" => w.pending
          /\ proc[p1].cmd # "install" /\ file \in State(A, B, F, C)!Records =>
                /\ \A f \in DOMAIN State(A, B, F, C)!Owners : w[f] # file[f] => proc[p1].cmd \in State(A, B, F, C)!Owners[f]
                /\ proc[p1].cmd # "mode" => w.mode = file.mode
                /\ proc[p1].cmd \notin {"launch", "defer"} => w.pending = file.pending
    BY <1>1, WrittenRecord
<1>3. file' = w /\ w \notin {Missing, Corrupt}
    BY <1>1, <1>2 DEF StateBounds
<1>4. PICK new \in StateJobs(A, B, F, C) : new = State(A, B, F, C)!Idle /\ new.at = "idle" /\ new.cmd = "none"
    BY ZeroType
<1>5. proc' = [proc EXCEPT ![p1] = new] /\ proc'[p1] = new /\ proc' \in [{p1} -> StateJobs(A, B, F, C)]
    BY <1>1, <1>4 DEF State!Go, StateInv
<1>6. Remembers(A, B, F, C, new)'
    BY <1>4 DEF Remembers, Merging, Syncing
<1>7. State(A, B, F, C)!KeepsOthersFields
    BY <1>2, <1>3 DEF State!KeepsOthersFields
<1>8. file \notin State(A, B, F, C)!Records /\ proc[p1].cmd # "install" => file = Missing
    BY <1>1 DEF Remembers
<1>9. State(A, B, F, C)!KeepsUnreadable
    BY <1>3, <1>8 DEF State!KeepsUnreadable, StateBounds
<1>10. chosen' /\ "install" \notin C => file'.mode # "unset"
  <2>1. proc[p1].cmd = "install" => "install" \in C
      BY <1>1 DEF Remembers
  <2>2. chosen /\ "install" \notin C => file \in State(A, B, F, C)!Records /\ file.mode # "unset"
      BY DEF StateInv
  <2>3. CASE proc[p1].cmd = "mode"
      BY <1>2, <1>3, <2>3
  <2>4. CASE proc[p1].cmd # "mode"
    <3>1. chosen' = chosen
        BY <1>1, <2>4
    <3> QED
        BY <1>2, <1>3, <2>1, <2>2, <2>4, <3>1
  <2> QED
      BY <2>3, <2>4
<1>11. F = 0 /\ "upgrade" \notin C => State(A, B, F, C)!UpgradeIsSynced'
  <2> SUFFICES ASSUME F = 0, "upgrade" \notin C, assets < binary
               PROVE  file'.pending
      BY <1>1, <1>3 DEF State!UpgradeIsSynced, State!Readable
  <2>1. State(A, B, F, C)!UpgradeIsSynced
      BY DEF StateInv
  <2>2. \/ file \in State(A, B, F, C)!Records /\ file.pending
        \/ proc[p1].cmd = "defer"
      BY <2>1 DEF State!UpgradeIsSynced, State!Readable, StateInv
  <2>3. proc[p1].cmd \notin Syncing \cup {"install", "add"}
      BY <1>1 DEF Remembers, StateInv, StateBounds
  <2>4. CASE proc[p1].cmd = "defer"
      BY <1>2, <1>3, <2>4
  <2>5. CASE proc[p1].cmd # "defer"
      BY <1>2, <1>3, <2>2, <2>3, <2>5 DEF Syncing
  <2> QED
      BY <2>4, <2>5
<1>12. chosen' \in BOOLEAN
    BY <1>1
<1> QED
    BY <1>1, <1>3, <1>5, <1>6, <1>7, <1>9, <1>10, <1>11, <1>12, <1>4 DEF StateInv

LEMMA CrashStep ==
    ASSUME NEW A, NEW B, NEW F, NEW C, StateBounds(A, B, F, C), StateInv(A, B, F, C), State(A, B, F, C)!Crash(p1)
    PROVE  StateInv(A, B, F, C)' /\ State(A, B, F, C)!KeepsOthersFields /\ State(A, B, F, C)!KeepsUnreadable
<1>1. F # 0 /\ faults' \in 0..F
    BY DEF State!Crash, StateInv, StateBounds
<1> QED
    BY <1>1, StateEnds DEF State!Crash

LEMMA DamageStep ==
    ASSUME NEW A, NEW B, NEW F, NEW C, StateBounds(A, B, F, C), StateInv(A, B, F, C), State(A, B, F, C)!Damage
    PROVE  StateInv(A, B, F, C)' /\ State(A, B, F, C)!KeepsOthersFields /\ State(A, B, F, C)!KeepsUnreadable
<1>1. /\ F # 0 /\ faults' \in 0..F /\ file' \in {Corrupt, Missing} /\ chosen' = FALSE
      /\ UNCHANGED <<binary, assets, proc>> /\ proc[p1] = State(A, B, F, C)!Idle
    BY DEF State!Damage, StateInv, StateBounds
<1>2. file' \notin State(A, B, F, C)!Records
    BY <1>1 DEF StateBounds
<1>3. proc[p1].at = "idle" /\ proc[p1].cmd = "none"
    BY <1>1, ZeroType
<1>4. Remembers(A, B, F, C, proc[p1])'
    BY <1>1, <1>3 DEF Remembers, Merging, Syncing
<1> QED
    BY <1>1, <1>2, <1>4 DEF StateInv, State!KeepsOthersFields, State!KeepsUnreadable

LEMMA StateStarts ==
    ASSUME NEW A, NEW B, NEW F, NEW C, StateBounds(A, B, F, C), State(A, B, F, C)!Init
    PROVE  StateInv(A, B, F, C)
<1>1. PICK i \in StateJobs(A, B, F, C) : i = State(A, B, F, C)!Idle /\ i.at = "idle" /\ i.cmd = "none"
    BY ZeroType
<1>2. proc = [q \in {p1} |-> i]
    BY <1>1 DEF State!Init
<1>3. proc \in [{p1} -> StateJobs(A, B, F, C)] /\ proc[p1] = i
    BY <1>2
<1>4. Remembers(A, B, F, C, i)
    BY <1>1 DEF Remembers, Merging, Syncing
<1>5. file \in State(A, B, F, C)!Records \cup {Missing}
  <2>1. PICK z \in State(A, B, F, C)!Records : z = State(A, B, F, C)!Zero
      BY ZeroType
  <2>2. \A m \in BOOLEAN : [z EXCEPT !.agents = A, !.models = m] \in State(A, B, F, C)!Records
      BY DEF State!Records
  <2> QED
      BY <2>1, <2>2 DEF State!Init
<1>6. 1 \in 1..B /\ 0 \in 0..F /\ ~(1 < 1)
    BY DEF StateBounds
<1> QED
    BY <1>3, <1>4, <1>5, <1>6 DEF StateInv, State!Init, State!UpgradeIsSynced, StateBounds

(* Every step of a command, of a crash and of the user's editor.           *)
LEMMA StateStep ==
    ASSUME NEW A, NEW B, NEW F, NEW C, StateBounds(A, B, F, C), StateInv(A, B, F, C), State(A, B, F, C)!Next
    PROVE  StateInv(A, B, F, C)' /\ State(A, B, F, C)!KeepsOthersFields /\ State(A, B, F, C)!KeepsUnreadable
<1>1. \/ \E c \in C : State(A, B, F, C)!Begin(p1, c)
      \/ State(A, B, F, C)!Open(p1) \/ State(A, B, F, C)!SyncRead(p1) \/ State(A, B, F, C)!Work(p1) \/ State(A, B, F, C)!Migrate(p1)
      \/ State(A, B, F, C)!Replace(p1) \/ State(A, B, F, C)!ReadBack(p1) \/ State(A, B, F, C)!Write(p1) \/ State(A, B, F, C)!Crash(p1) \/ State(A, B, F, C)!Damage
    BY DEF State!Next, State!Step
<1> QED
    BY <1>1, BeginStep, OpenStep, SyncReadStep, WorkStep, MigrateStep, ReplaceStep, ReadBackStep,
       WriteStep, CrashStep, DamageStep

LEMMA StateStutters ==
    ASSUME NEW A, NEW B, NEW F, NEW C, StateBounds(A, B, F, C), StateInv(A, B, F, C),
           UNCHANGED <<file, binary, assets, proc, chosen, faults>>
    PROVE  StateInv(A, B, F, C)' /\ State(A, B, F, C)!KeepsOthersFields /\ State(A, B, F, C)!KeepsUnreadable
<1>1. StateInv(A, B, F, C)'
    BY DEF StateInv, Remembers, State!UpgradeIsSynced, State!Readable
<1> QED
    BY <1>1 DEF State!KeepsOthersFields, State!KeepsUnreadable, StateBounds

(* None is no process, no user and nothing a component keeps in its place. *)
ModelValues ==
    /\ None \notin {u1, u2, proc1, proc2}
    /\ None \notin V3(Race)!Authority
    /\ None \notin GraphP!Lineages \cup PairP!Lineages \cup ForkP!Lineages
    /\ None \notin GraphP!Records /\ None \notin PairP!Records /\ None \notin ForkP!Records
    /\ None \notin CaptureP!Results /\ None \notin CutP!Results /\ None \notin RecaptureP!Results
    /\ Missing # Corrupt /\ Missing \notin Merge!Records /\ Corrupt \notin Merge!Records

-----------------------------------------------------------------------------
(* ReviewMode *)

(* For any users, reviews, initial modes and bounds, the setting k.          *)
ModeBounds(k) ==
    /\ k.MaxGen \in Nat /\ k.MaxSets \in Nat /\ k.MaxFaults \in Nat
    /\ None \notin k.Users /\ k.Globals \subseteq {"unset", "on", "off", "junk"}

(* What a mode command knows at each of its places: it was told a head     *)
(* when there was room for another generation, and from the compare to the *)
(* publication the head is still that one, or one that cannot be read.     *)
Told(k, u) ==
    /\ user[u].at \in {"compare", "publish"} <=> lock = u
    /\ user[u].at # "idle" => user[u].told < k.MaxGen
    /\ user[u].at = "publish" =>
          /\ user[u].before = Mode(k)!Newest /\ Mode(k)!Newest < k.MaxGen
          /\ user[u].told = Mode(k)!Newest \/ Mode(k)!Unreadable

ModeInv(k) ==
    /\ Mode(k)!TypeOK /\ Mode(k)!NothingReplacedUnseen
    /\ \A u \in k.Users : Told(k, u)
    /\ Mode(k)!Unreadable => Mode(k)!Newest < k.MaxGen

-----------------------------------------------------------------------------
LEMMA TokenIsNewest ==
    ASSUME NEW k, slots \in Seq(Mode(k)!Slot)
    PROVE  /\ Mode(k)!Newest \in Nat /\ Mode(k)!Token \in 0 .. Mode(k)!Newest
           /\ Mode(k)!Token = Mode(k)!Newest \/ (Mode(k)!Token = 0 /\ Mode(k)!Unreadable)
<1>1. Mode(k)!Newest \in Nat
    BY DEF Mode!Newest
<1> QED
    BY <1>1 DEF Mode!Token, Mode!Present, Mode!Unreadable

LEMMA ModeInit == ASSUME NEW k, ModeBounds(k), Mode(k)!Init PROVE ModeInv(k)
<1>1. Mode(k)!Newest = 0 /\ slots \in Seq(Mode(k)!Slot) /\ ~Mode(k)!Unreadable
    BY DEF Mode!Init, Mode!Newest, Mode!Unreadable, Mode!Current
<1>2. Mode(k)!TypeOK
  <2>1. Len(slots) <= k.MaxGen + 1 /\ sets \in 0 .. k.MaxSets /\ faults \in 0 .. k.MaxFaults
      BY <1>1 DEF ModeBounds, Mode!Init, Mode!Newest
  <2>2. user \in [k.Users -> [at : {"idle", "lock", "compare", "publish"},
                            scope : {"none", "clone"}, op : {"none", "enable", "disable"},
                            told : 0..k.MaxGen, before : 0..k.MaxGen, answer : {"none", "ok", "error"}]]
      BY DEF ModeBounds, Mode!Init, Mode!UserIdle
  <2>3. review \in [k.Reviews -> [at : {"idle", "override", "act"},
                                global : {"unset", "on", "off", "junk"}, on : BOOLEAN]]
      BY DEF Mode!Init, Mode!ReviewIdle
  <2> QED
      BY <1>1, <2>1, <2>2, <2>3 DEF ModeBounds, Mode!Init, Mode!TypeOK
<1>3. Mode(k)!NothingReplacedUnseen
    BY <1>1 DEF Mode!NothingReplacedUnseen, Mode!Newest
<1>4. \A u \in k.Users : Told(k, u)
    BY DEF ModeBounds, Mode!Init, Told, Mode!UserIdle
<1> QED
    BY <1>1, <1>2, <1>3, <1>4 DEF ModeInv

(* A step that leaves the generations: a command moves, or a review looks. *)
LEMMA KeepsSlots ==
    ASSUME NEW k, ModeBounds(k), ModeInv(k), UNCHANGED slots, Mode(k)!TypeOK', \A u \in k.Users : Told(k, u)'
    PROVE  ModeInv(k)' /\ Mode(k)!KeepsGenerations
<1>1. Mode(k)!NothingReplacedUnseen' /\ (Mode(k)!Unreadable' => Mode(k)!Newest' < k.MaxGen)
    BY DEF ModeInv, Mode!NothingReplacedUnseen, Mode!Unreadable, Mode!Current, Mode!Newest
<1>2. Mode(k)!KeepsGenerations
  <2>1. Len(slots) \in Nat
      BY DEF ModeInv, Mode!TypeOK
  <2> QED
      BY <2>1 DEF Mode!KeepsGenerations
<1> QED
    BY <1>1, <1>2 DEF ModeInv

LEMMA WatchedType ==
    ASSUME NEW k, Mode(k)!TypeOK, NEW now \in BOOLEAN
    PROVE  Mode(k)!Watched(now) \in [k.Reviews -> [at : {"idle", "override", "act"},
                                         global : {"unset", "on", "off", "junk"}, on : BOOLEAN]]
BY DEF Mode!TypeOK, Mode!Watched

UserTypes(k) == [at : {"idle", "lock", "compare", "publish"}, scope : {"none", "clone"},
              op : {"none", "enable", "disable"}, told : 0..k.MaxGen, before : 0..k.MaxGen,
              answer : {"none", "ok", "error"}]

(* A step of one mode command that leaves the generations; the lock passes *)
(* between it and nobody.                                                  *)
LEMMA UserMoves ==
    ASSUME NEW k, ModeBounds(k), ModeInv(k), NEW u \in k.Users, NEW new \in UserTypes(k),
           user' = [user EXCEPT ![u] = new], UNCHANGED <<slots, global, review, sets>>,
           faults' \in 0 .. k.MaxFaults,
           \/ lock' = lock /\ (user[u].at \in {"compare", "publish"} <=> new.at \in {"compare", "publish"})
           \/ lock \in {u, None} /\ lock' = (IF new.at \in {"compare", "publish"} THEN u ELSE None),
           new.at # "idle" => new.told < k.MaxGen,
           new.at = "publish" => /\ new.before = Mode(k)!Newest /\ Mode(k)!Newest < k.MaxGen
                                 /\ new.told = Mode(k)!Newest \/ Mode(k)!Unreadable
    PROVE  ModeInv(k)' /\ Mode(k)!KeepsGenerations
<1>1. /\ user' \in [k.Users -> UserTypes(k)] /\ user'[u] = new
      /\ \A v \in k.Users \ {u} : user'[v] = user[v]
    BY DEF ModeInv, Mode!TypeOK, UserTypes
<1>2. Mode(k)!TypeOK'
    BY <1>1 DEF ModeInv, Mode!TypeOK, UserTypes
<1>3. ASSUME NEW v \in k.Users PROVE Told(k, v)'
  <2>1. Told(k, v)
      BY DEF ModeInv
  <2>2. user'[v].at \in {"compare", "publish"} <=> lock' = v
      BY <1>1, <2>1 DEF Told, ModeInv, ModeBounds
  <2> QED
      BY <1>1, <2>1, <2>2 DEF Told, Mode!Newest, Mode!Unreadable, Mode!Current
<1> QED
    BY <1>2, <1>3, KeepsSlots

(* Resolve, Acquire, GiveUp, Compare, and the end of a command that dies.  *)
LEMMA UserStepKeeps ==
    ASSUME NEW k, ModeBounds(k), ModeInv(k), NEW u \in k.Users,
           \/ \E op \in {"enable", "disable"} : Mode(k)!Resolve(u, op)
           \/ Mode(k)!Acquire(u) \/ Mode(k)!GiveUp(u) \/ Mode(k)!Compare(u) \/ Mode(k)!Crash(u)
    PROVE  ModeInv(k)' /\ Mode(k)!KeepsGenerations
<1>1. user[u] \in UserTypes(k) /\ Mode(k)!Newest \in Nat /\ Mode(k)!Newest <= k.MaxGen + 1 /\ faults \in 0 .. k.MaxFaults /\ Told(k, u)
      /\ slots \in Seq(Mode(k)!Slot) /\ Mode(k)!UserIdle \in UserTypes(k)
    BY DEF ModeInv, Mode!TypeOK, Mode!Newest, UserTypes, Mode!UserIdle, ModeBounds
<1>2. ASSUME NEW op \in {"enable", "disable"}, Mode(k)!Resolve(u, op) PROVE ModeInv(k)' /\ Mode(k)!KeepsGenerations
  <2> DEFINE new == [Mode(k)!UserIdle EXCEPT !.at = "lock", !.scope = "clone", !.op = op, !.told = Mode(k)!Token]
  <2>1. Mode(k)!Token \in 0 .. k.MaxGen /\ Mode(k)!Token < k.MaxGen
      BY <1>1, <1>2, TokenIsNewest DEF Mode!Resolve, ModeBounds
  <2>2. new \in UserTypes(k) /\ new.at = "lock" /\ new.told = Mode(k)!Token
      BY <1>1, <2>1 DEF UserTypes, Mode!UserIdle
  <2> QED
      BY <1>1, <1>2, <2>1, <2>2, UserMoves DEF Mode!Resolve
<1>3. CASE Mode(k)!Acquire(u)
  <2> DEFINE new == [user[u] EXCEPT !.at = "compare"]
  <2>1. new \in UserTypes(k) /\ new.at = "compare" /\ new.told = user[u].told /\ user[u].told < k.MaxGen
      BY <1>1, <1>3 DEF UserTypes, Mode!Acquire, Told
  <2>2. user' = [user EXCEPT ![u] = new]
      BY <1>3 DEF Mode!Acquire
  <2> QED
      BY <1>1, <1>3, <2>1, <2>2, UserMoves DEF Mode!Acquire
<1>4. CASE Mode(k)!GiveUp(u)
  <2> DEFINE new == [Mode(k)!UserIdle EXCEPT !.answer = "error"]
  <2>1. new \in UserTypes(k) /\ new.at = "idle"
      BY <1>1 DEF UserTypes, Mode!UserIdle
  <2> QED
      BY <1>1, <1>4, <2>1, UserMoves DEF Mode!GiveUp
<1>5. CASE Mode(k)!Compare(u) /\ Mode(k)!Compares(u)
  <2> DEFINE new == [user[u] EXCEPT !.at = "publish", !.before = Mode(k)!Newest]
  <2>1. user[u].told = Mode(k)!Token /\ Mode(k)!Token < k.MaxGen
      BY <1>1, <1>5 DEF Mode!Compare, Mode!Compares, Told
  <2>2. Mode(k)!Newest < k.MaxGen /\ Mode(k)!Token \in 0 .. Mode(k)!Newest /\ (Mode(k)!Token = Mode(k)!Newest \/ Mode(k)!Unreadable)
      BY <1>1, <2>1, TokenIsNewest DEF ModeInv
  <2>3. Mode(k)!Token \in 0 .. k.MaxGen /\ Mode(k)!Newest \in 0 .. k.MaxGen
      BY <1>1, <2>2 DEF ModeBounds
  <2>5. new \in UserTypes(k) /\ new.at = "publish" /\ new.told = Mode(k)!Token /\ new.before = Mode(k)!Newest
      BY <1>1, <2>1, <2>3 DEF UserTypes, ModeBounds
  <2>4. user' = [user EXCEPT ![u] = new] /\ lock' = lock
      BY <1>5 DEF Mode!Compare
  <2> QED
      BY <1>1, <1>5, <2>1, <2>2, <2>4, <2>5, UserMoves DEF Mode!Compare
<1>6. CASE Mode(k)!Compare(u) /\ ~Mode(k)!Compares(u)
  <2> DEFINE new == [Mode(k)!UserIdle EXCEPT !.answer = "error"]
  <2>1. new \in UserTypes(k) /\ new.at = "idle"
      BY <1>1 DEF UserTypes, Mode!UserIdle
  <2>2. lock = u
      BY <1>1, <1>6 DEF Mode!Compare, Told
  <2> QED
      BY <1>1, <1>6, <2>1, <2>2, UserMoves DEF Mode!Compare
<1>7. CASE Mode(k)!Crash(u)
  <2>1. Mode(k)!UserIdle.at = "idle" /\ faults' \in 0 .. k.MaxFaults
      BY <1>1, <1>7 DEF Mode!Crash, Mode!UserIdle, ModeBounds
  <2>2. lock = u \/ (lock' = lock /\ user[u].at \notin {"compare", "publish"})
      BY <1>1, <1>7 DEF Mode!Crash, Told
  <2> QED
      BY <1>1, <1>7, <2>1, <2>2, UserMoves DEF Mode!Crash
<1> QED
    BY <1>2, <1>3, <1>4, <1>5, <1>6, <1>7

(* The publication: nobody else has published since the compare, because   *)
(* the lock was held, so the generation follows the one that was named.    *)
LEMMA PublishKeeps ==
    ASSUME NEW k, ModeBounds(k), ModeInv(k), NEW u \in k.Users, Mode(k)!Publish(u)
    PROVE  ModeInv(k)' /\ Mode(k)!KeepsGenerations
<1> DEFINE r == [previous |-> user[u].told, mode |-> IF user[u].op = "enable" THEN "inherit" ELSE "off",
                 ok |-> TRUE, told |-> user[u].told, repairs |-> Mode(k)!Unreadable]
           new == [Mode(k)!UserIdle EXCEPT !.answer = IF global # "junk" THEN "ok" ELSE "error"]
<1>1. /\ user[u] \in UserTypes(k) /\ Told(k, u) /\ user[u].at = "publish" /\ Mode(k)!Newest \in Nat /\ slots \in Seq(Mode(k)!Slot)
      /\ Mode(k)!UserIdle \in UserTypes(k)
    BY DEF Mode!Publish, ModeInv, Mode!TypeOK, Mode!Newest, UserTypes, Mode!UserIdle, ModeBounds
<1>2. /\ lock = u /\ user[u].before = Mode(k)!Newest /\ Mode(k)!Newest < k.MaxGen
      /\ user[u].told = Mode(k)!Newest \/ Mode(k)!Unreadable
    BY <1>1 DEF Told
<1>3. /\ slots' = Append(slots, r) /\ review' = Mode(k)!Watched(Mode(k)!On(global, r.mode))
      /\ user' = [user EXCEPT ![u] = new] /\ lock' = None /\ UNCHANGED <<global, sets, faults>>
    BY <1>2 DEF Mode!Publish
<1>4. r \in Mode(k)!Slot /\ r.ok = TRUE /\ r.told = user[u].told /\ r.repairs = Mode(k)!Unreadable /\ new \in UserTypes(k) /\ new.at = "idle"
  <2>1. Mode(k)!Unreadable \in BOOLEAN
      BY DEF Mode!Unreadable
  <2> QED
      BY <1>1, <2>1 DEF Mode!Slot, UserTypes, Mode!UserIdle
<1> HIDE DEF r, new
<1>5. /\ slots' \in Seq(Mode(k)!Slot) /\ Mode(k)!Newest' = Mode(k)!Newest + 1 /\ slots'[Mode(k)!Newest + 1] = r
      /\ \A n \in 1 .. Mode(k)!Newest : slots'[n] = slots[n]
    BY <1>1, <1>3, <1>4 DEF Mode!Newest
<1>6. ~Mode(k)!Unreadable'
    BY <1>1, <1>4, <1>5 DEF Mode!Unreadable, Mode!Current
<1>7. Mode(k)!TypeOK'
  <2>1. user' \in [k.Users -> UserTypes(k)]
      BY <1>3, <1>4 DEF ModeInv, Mode!TypeOK, UserTypes
  <2>2. review' \in [k.Reviews -> [at : {"idle", "override", "act"},
                                 global : {"unset", "on", "off", "junk"}, on : BOOLEAN]]
      BY <1>3, WatchedType DEF Mode!On, ModeInv
  <2>3. Len(slots') <= k.MaxGen + 1
      BY <1>1, <1>2, <1>5 DEF Mode!Newest, ModeBounds
  <2> QED
      BY <1>3, <1>5, <2>1, <2>2, <2>3 DEF ModeInv, Mode!TypeOK, UserTypes
<1>8. Mode(k)!NothingReplacedUnseen'
  <2> SUFFICES ASSUME NEW n \in 1 .. Mode(k)!Newest + 1 PROVE slots'[n].told = n - 1 \/ slots'[n].repairs
      BY <1>5 DEF Mode!NothingReplacedUnseen, Mode!Newest
  <2>1. CASE n \in 1 .. Mode(k)!Newest
      BY <1>5, <2>1 DEF ModeInv, Mode!NothingReplacedUnseen, Mode!Newest
  <2>2. CASE n = Mode(k)!Newest + 1
      BY <1>1, <1>2, <1>4, <1>5, <2>2
  <2> QED
      BY <1>1, <2>1, <2>2
<1>9. ASSUME NEW v \in k.Users PROVE Told(k, v)'
  <2>1. v # None /\ (v # u => user[v].at \notin {"compare", "publish"})
      BY <1>2 DEF ModeInv, Told, ModeBounds
  <2>2. user'[v] = IF v = u THEN new ELSE user[v]
      BY <1>3 DEF ModeInv, Mode!TypeOK
  <2> QED
      BY <1>3, <1>4, <2>1, <2>2 DEF ModeInv, Told
<1>10. Mode(k)!KeepsGenerations
    BY <1>1, <1>5 DEF Mode!KeepsGenerations, Mode!Newest
<1> QED
    BY <1>6, <1>7, <1>8, <1>9, <1>10 DEF ModeInv

LEMMA DamageKeeps ==
    ASSUME NEW k, ModeBounds(k), ModeInv(k), Mode(k)!Damage
    PROVE  ModeInv(k)' /\ Mode(k)!KeepsGenerations
<1>1. /\ slots \in Seq(Mode(k)!Slot) /\ Mode(k)!Newest \in Nat /\ Mode(k)!Newest > 0 /\ Mode(k)!Newest < k.MaxGen
      /\ UNCHANGED <<global, lock, user, review, sets>> /\ faults' = faults + 1 /\ faults < k.MaxFaults
    BY DEF Mode!Damage, Mode!Present, ModeInv, Mode!TypeOK, Mode!Newest
<1> DEFINE hurt == [slots[Mode(k)!Newest] EXCEPT !.ok = FALSE]
<1>0. slots[Mode(k)!Newest] \in Mode(k)!Slot
    BY <1>1 DEF Mode!Newest
<1>2. hurt \in Mode(k)!Slot /\ hurt.told = slots[Mode(k)!Newest].told /\ hurt.repairs = slots[Mode(k)!Newest].repairs /\ hurt.ok = FALSE
    BY <1>0 DEF Mode!Slot
<1>3. slots' = [slots EXCEPT ![Mode(k)!Newest] = hurt]
    BY DEF Mode!Damage
<1> HIDE DEF hurt
<1>4. /\ slots' \in Seq(Mode(k)!Slot) /\ Len(slots') = Mode(k)!Newest /\ slots'[Mode(k)!Newest] = hurt
      /\ \A n \in 1 .. Mode(k)!Newest : n # Mode(k)!Newest => slots'[n] = slots[n]
    BY <1>1, <1>2, <1>3 DEF Mode!Newest
<1>5. Mode(k)!TypeOK'
    BY <1>1, <1>4 DEF ModeInv, Mode!TypeOK, ModeBounds
<1>6. Mode(k)!NothingReplacedUnseen'
    BY <1>1, <1>2, <1>4 DEF ModeInv, Mode!NothingReplacedUnseen, Mode!Newest
<1>7. Mode(k)!Unreadable' /\ Mode(k)!Newest' = Mode(k)!Newest
    BY <1>1, <1>2, <1>4 DEF Mode!Unreadable, Mode!Current, Mode!Newest
<1>8. \A v \in k.Users : Told(k, v)'
    BY <1>1, <1>7 DEF ModeInv, Told
<1>9. Mode(k)!KeepsGenerations
  <2>1. hurt = [slots[Mode(k)!Newest] EXCEPT !.ok = FALSE]
      BY DEF hurt
  <2>2. Len(slots) = Mode(k)!Newest /\ Len(slots') = Mode(k)!Newest
      BY <1>4 DEF Mode!Newest
  <2>3. ASSUME NEW n \in 1 .. Mode(k)!Newest
        PROVE  slots'[n] = slots[n] \/ slots'[n] = [slots[n] EXCEPT !.ok = FALSE]
      BY <1>4, <2>1
  <2> QED
      BY <1>1, <2>2, <2>3 DEF Mode!KeepsGenerations
<1> QED
    BY <1>1, <1>5, <1>6, <1>7, <1>8, <1>9 DEF ModeInv

(* The global mode is set in one write; what the review commands under way *)
(* have seen is brought up to date.                                        *)
LEMMA SetGlobalKeeps ==
    ASSUME NEW k, ModeBounds(k), ModeInv(k), NEW u \in k.Users, NEW op \in {"enable", "disable"}, Mode(k)!SetGlobal(u, op)
    PROVE  ModeInv(k)' /\ Mode(k)!KeepsGenerations
<1>1. review' \in [k.Reviews -> [at : {"idle", "override", "act"},
                               global : {"unset", "on", "off", "junk"}, on : BOOLEAN]]
    BY WatchedType DEF Mode!SetGlobal, Mode!On, ModeInv
<1>2. Mode(k)!TypeOK'
    BY <1>1 DEF Mode!SetGlobal, ModeInv, Mode!TypeOK, ModeBounds
<1>3. \A v \in k.Users : Told(k, v)'
    BY DEF Mode!SetGlobal, ModeInv, Told, Mode!Newest, Mode!Unreadable, Mode!Current
<1> QED
    BY <1>2, <1>3, KeepsSlots DEF Mode!SetGlobal

LEMMA ReviewKeeps ==
    ASSUME NEW k, ModeBounds(k), ModeInv(k), NEW w \in k.Reviews, Mode(k)!ReviewStep(w)
    PROVE  ModeInv(k)' /\ Mode(k)!KeepsGenerations
<1>1. /\ UNCHANGED <<global, slots, lock, user, sets, faults>>
      /\ \A v \in k.Users : Told(k, v)'
    BY DEF Mode!ReviewStep, Mode!AskGlobal, Mode!AskOverride, Mode!Advance, ModeInv, Told, Mode!Newest, Mode!Unreadable, Mode!Current
<1>2. review' \in [k.Reviews -> [at : {"idle", "override", "act"},
                               global : {"unset", "on", "off", "junk"}, on : BOOLEAN]]
  <2> DEFINE Types == [at : {"idle", "override", "act"},
                       global : {"unset", "on", "off", "junk"}, on : BOOLEAN]
  <2>1. review \in [k.Reviews -> Types] /\ global \in {"unset", "on", "off", "junk"}
      BY DEF ModeInv, Mode!TypeOK
  <2>2. PICK new \in Types : review' = [review EXCEPT ![w] = new]
    <3>1. /\ [at |-> "override", global |-> global, on |-> Mode(k)!Effective] \in Types
          /\ [review[w] EXCEPT !.at = "act"] \in Types /\ Mode(k)!ReviewIdle \in Types
        BY <2>1 DEF Mode!ReviewIdle, Mode!Effective, Mode!On
    <3>2. CASE Mode(k)!AskGlobal(w)
        BY <3>1, <3>2 DEF Mode!AskGlobal
    <3>3. CASE Mode(k)!AskOverride(w) /\ Mode(k)!Authorizes(w)
        BY <3>1, <3>3 DEF Mode!AskOverride
    <3>4. CASE Mode(k)!AskOverride(w) /\ ~Mode(k)!Authorizes(w)
        BY <3>1, <3>4 DEF Mode!AskOverride
    <3>5. CASE Mode(k)!Advance(w)
        BY <3>1, <3>5 DEF Mode!Advance
    <3> QED
        BY <3>2, <3>3, <3>4, <3>5 DEF Mode!ReviewStep
  <2> QED
      BY <2>1, <2>2
<1>3. Mode(k)!TypeOK'
    BY <1>1, <1>2 DEF ModeInv, Mode!TypeOK
<1> QED
    BY <1>1, <1>3, KeepsSlots

LEMMA ModeStep ==
    ASSUME NEW k, ModeBounds(k), ModeInv(k), [Mode(k)!Next]_(Mode(k)!vars)
    PROVE  ModeInv(k)' /\ (Mode(k)!KeepsGenerations \/ UNCHANGED slots)
<1>1. ASSUME NEW u \in k.Users, Mode(k)!Command(u) \/ Mode(k)!UserStep(u) \/ Mode(k)!Crash(u) PROVE ModeInv(k)' /\ Mode(k)!KeepsGenerations
    BY <1>1, SetGlobalKeeps, UserStepKeeps, PublishKeeps DEF Mode!Command, Mode!UserStep
<1>2. ASSUME NEW w \in k.Reviews, Mode(k)!ReviewStep(w) PROVE ModeInv(k)' /\ Mode(k)!KeepsGenerations
    BY <1>2, ReviewKeeps
<1>3. CASE Mode(k)!Damage
    BY <1>3, DamageKeeps
<1>4. CASE UNCHANGED Mode(k)!vars
  <2>1. Mode(k)!TypeOK' /\ \A v \in k.Users : Told(k, v)'
      BY <1>4 DEF Mode!vars, ModeInv, Mode!TypeOK, Told, Mode!Newest, Mode!Unreadable, Mode!Current
  <2> QED
      BY <1>4, <2>1, KeepsSlots DEF Mode!vars
<1> QED
    BY <1>1, <1>2, <1>3, <1>4 DEF Mode!Next

-----------------------------------------------------------------------------
(* Types, and what each user was told of the override's generations.       *)
THEOREM ModeInvariant == ASSUME NEW k, ModeBounds(k) PROVE Mode(k)!Spec => []ModeInv(k)
<1>1. Mode(k)!Init => ModeInv(k)
    BY ModeInit
<1>2. ModeInv(k) /\ [Mode(k)!Next]_(Mode(k)!vars) => ModeInv(k)'
    BY ModeStep
<1> QED
    BY <1>1, <1>2, PTL DEF Mode!Spec

(* Every variable of the switch keeps its type.                            *)
THEOREM ModeTypes == ASSUME NEW k, ModeBounds(k) PROVE Mode(k)!Spec => []Mode(k)!TypeOK
<1>1. ModeInv(k) => Mode(k)!TypeOK
    BY DEF ModeInv
<1> QED
    BY <1>1, ModeInvariant, PTL

(* Whoever published a generation of the override had been told the one    *)
(* before it, or replaced one that could not be read: the comparison under *)
(* the lock leaves no other way (SetCloneLocalRDDMode).                    *)
THEOREM NothingIsReplacedUnseen == ASSUME NEW k, ModeBounds(k) PROVE Mode(k)!Spec => []Mode(k)!NothingReplacedUnseen
<1>1. ModeInv(k) => Mode(k)!NothingReplacedUnseen
    BY DEF ModeInv
<1> QED
    BY <1>1, ModeInvariant, PTL

(* A published generation is never rewritten, nor taken away; its bytes    *)
(* may be damaged (publishPrivateRARImmutable).                            *)
THEOREM GenerationsAreKept == ASSUME NEW k, ModeBounds(k) PROVE Mode(k)!Spec => Mode(k)!GenerationsImmutable
<1>1. ModeInv(k) /\ [Mode(k)!Next]_(Mode(k)!vars) => [Mode(k)!KeepsGenerations]_slots
    BY ModeStep
<1> QED
    BY <1>1, ModeInvariant, PTL DEF Mode!Spec, Mode!GenerationsImmutable

-----------------------------------------------------------------------------
(* A review reads the global mode first and the override second.  While    *)
(* the global mode stays as it is, the two reads are as good as one; so    *)
(* they are while the override does.  (While both change they are not: the *)
(* review may pass though the switch was off at every moment.)             *)
SeenOn(k, w) ==
    /\ (review[w].at = "override" /\ Mode(k)!On(review[w].global, Mode(k)!Override)) => review[w].on
    /\ review[w].at = "act" => review[w].on

CloneInv(k) == ModeInv(k) /\ \A w \in k.Reviews : SeenOn(k, w) /\ (review[w].at = "override" => review[w].global = global)
GlobalInv(k) == ModeInv(k) /\ slots = <<>> /\ (\A u \in k.Users : user[u].at = "idle") /\ \A w \in k.Reviews : SeenOn(k, w)

(* Seen again at the moment the sources change.                            *)
LEMMA WatchedSees ==
    ASSUME NEW k, ModeInv(k), NEW now \in BOOLEAN, NEW w \in k.Reviews, review' = Mode(k)!Watched(now)
    PROVE  /\ review'[w].at = review[w].at /\ review'[w].global = review[w].global
           /\ review'[w].on <=> review[w].on \/ (review[w].at # "idle" /\ now)
BY DEF ModeInv, Mode!TypeOK, Mode!Watched

LEMMA LookSees ==
    ASSUME NEW k, ModeInv(k), NEW w \in k.Reviews, Mode(k)!ReviewStep(w), SeenOn(k, w)
    PROVE  /\ SeenOn(k, w)' /\ UNCHANGED <<global, slots, user>>
           /\ review'[w].at = "override" => review'[w].global = global
           /\ \A v \in k.Reviews : v # w => review'[v] = review[v]
<1>1. review \in [k.Reviews -> [at : {"idle", "override", "act"},
                              global : {"unset", "on", "off", "junk"}, on : BOOLEAN]]
    BY DEF ModeInv, Mode!TypeOK
<1>2. UNCHANGED <<global, slots, user>> /\ \A v \in k.Reviews : v # w => review'[v] = review[v]
    BY <1>1 DEF Mode!ReviewStep, Mode!AskGlobal, Mode!AskOverride, Mode!Advance
<1>3. CASE Mode(k)!AskGlobal(w)
  <2>1. review'[w] = [at |-> "override", global |-> global, on |-> Mode(k)!On(global, Mode(k)!Override)]
      BY <1>1, <1>3 DEF Mode!AskGlobal, Mode!Effective
  <2> QED
      BY <1>2, <2>1 DEF SeenOn, Mode!Override, Mode!Unreadable, Mode!Present, Mode!Current, Mode!Newest
<1>4. CASE Mode(k)!AskOverride(w) /\ Mode(k)!Authorizes(w)
  <2>1. review'[w] = [review[w] EXCEPT !.at = "act"] /\ review[w].on
      BY <1>1, <1>4 DEF Mode!AskOverride, Mode!Authorizes, SeenOn
  <2> QED
      BY <1>1, <1>2, <2>1 DEF SeenOn
<1>5. CASE (Mode(k)!AskOverride(w) /\ ~Mode(k)!Authorizes(w)) \/ Mode(k)!Advance(w)
  <2>1. review'[w] = Mode(k)!ReviewIdle
      BY <1>1, <1>5 DEF Mode!AskOverride, Mode!Advance
  <2> QED
      BY <1>2, <2>1 DEF SeenOn, Mode!ReviewIdle
<1> QED
    BY <1>2, <1>3, <1>4, <1>5 DEF Mode!ReviewStep

LEMMA StaysSeen ==
    ASSUME NEW k, NEW w \in k.Reviews, SeenOn(k, w), review'[w] = review[w], UNCHANGED slots
    PROVE  SeenOn(k, w)'
BY DEF SeenOn, Mode!Override, Mode!Unreadable, Mode!Present, Mode!Current, Mode!Newest, Mode!On

LEMMA PublishSees ==
    ASSUME NEW k, ModeBounds(k), ModeInv(k), NEW u \in k.Users, Mode(k)!Publish(u), NEW w \in k.Reviews, SeenOn(k, w),
           review[w].at = "override" => review[w].global = global
    PROVE  /\ SeenOn(k, w)' /\ UNCHANGED global
           /\ review'[w].at = "override" => review'[w].global = global
<1> DEFINE mode == IF user[u].op = "enable" THEN "inherit" ELSE "off"
<1>1. /\ Mode(k)!Newest \in Nat /\ slots \in Seq(Mode(k)!Slot) /\ user[u].told \in 0 .. k.MaxGen /\ user[u].before = Mode(k)!Newest
    BY DEF Mode!Publish, ModeInv, Mode!TypeOK, Mode!Newest, Told
<1>2. PICK r : /\ slots' = Append(slots, r) /\ r.mode = mode /\ r.ok = TRUE
               /\ r \in Mode(k)!Slot /\ review' = Mode(k)!Watched(Mode(k)!On(global, mode)) /\ UNCHANGED global
  <2> DEFINE new == [previous |-> user[u].told, mode |-> mode,
                     ok |-> TRUE, told |-> user[u].told, repairs |-> Mode(k)!Unreadable]
  <2>1. new \in Mode(k)!Slot /\ new.mode = mode /\ new.ok = TRUE
      BY <1>1 DEF Mode!Slot, Mode!Unreadable
  <2>2. slots' = Append(slots, new) /\ review' = Mode(k)!Watched(Mode(k)!On(global, mode)) /\ UNCHANGED global
      BY <1>1 DEF Mode!Publish
  <2> QED
      BY <2>1, <2>2
<1>3. Mode(k)!Override' = mode
  <2>1. Mode(k)!Newest' = Mode(k)!Newest + 1 /\ slots'[Mode(k)!Newest'] = r
      BY <1>1, <1>2 DEF Mode!Newest
  <2> QED
      BY <1>1, <1>2, <2>1 DEF Mode!Override, Mode!Unreadable, Mode!Present, Mode!Current
<1>4. /\ review'[w].at = review[w].at /\ review'[w].global = review[w].global
      /\ review'[w].on <=> review[w].on \/ (review[w].at # "idle" /\ Mode(k)!On(global, mode))
    BY <1>2, WatchedSees DEF Mode!On
<1> QED
    BY <1>2, <1>3, <1>4 DEF SeenOn

LEMMA CloneStep ==
    ASSUME NEW k, ModeBounds(k), k.Scopes \subseteq {"clone"}, CloneInv(k), [Mode(k)!Next]_(Mode(k)!vars)
    PROVE  CloneInv(k)'
<1>1. ModeInv(k)' /\ ModeInv(k)
    BY ModeStep DEF CloneInv
<1> SUFFICES ASSUME NEW v \in k.Reviews
             PROVE  SeenOn(k, v)' /\ (review'[v].at = "override" => review'[v].global = global')
    BY <1>1 DEF CloneInv
<1>2. SeenOn(k, v) /\ (review[v].at = "override" => review[v].global = global)
    BY DEF CloneInv
<1>3. ASSUME NEW u \in k.Users, Mode(k)!Command(u) \/ (Mode(k)!UserStep(u) /\ ~Mode(k)!Publish(u)) \/ Mode(k)!Crash(u)
      PROVE  UNCHANGED <<global, slots, review>>
    BY <1>3 DEF Mode!Command, Mode!SetGlobal, Mode!Resolve, Mode!UserStep, Mode!Acquire, Mode!GiveUp, Mode!Compare, Mode!Crash
<1>4. ASSUME NEW u \in k.Users, Mode(k)!Publish(u) PROVE SeenOn(k, v)' /\ (review'[v].at = "override" => review'[v].global = global')
    BY <1>1, <1>2, <1>4, PublishSees
<1>5. ASSUME NEW w \in k.Reviews, Mode(k)!ReviewStep(w)
      PROVE  SeenOn(k, v)' /\ (review'[v].at = "override" => review'[v].global = global')
  <2>1. SeenOn(k, w)
      BY DEF CloneInv
  <2>2. CASE v = w
      BY <1>1, <1>5, <2>1, <2>2, LookSees
  <2>3. CASE v # w
      BY <1>1, <1>2, <1>5, <2>1, <2>3, LookSees, StaysSeen
  <2> QED
      BY <2>2, <2>3
<1>6. CASE Mode(k)!Damage
  <2>1. slots \in Seq(Mode(k)!Slot) /\ Mode(k)!Newest \in 1 .. Len(slots) /\ slots' = [slots EXCEPT ![Mode(k)!Newest].ok = FALSE]
        /\ UNCHANGED <<global, review>>
      BY <1>1, <1>6 DEF Mode!Damage, Mode!Present, ModeInv, Mode!TypeOK, Mode!Newest
  <2>2. slots[Mode(k)!Newest] \in Mode(k)!Slot
      BY <2>1
  <2>3. Mode(k)!Unreadable'
      BY <2>1, <2>2 DEF Mode!Unreadable, Mode!Current, Mode!Newest, Mode!Slot
  <2>5. Mode(k)!Override' = "corrupt"
      BY <2>3, Zenon DEF Mode!Override, Mode!Present, Mode!Unreadable
  <2>4. ~Mode(k)!On(review[v].global, Mode(k)!Override')
      BY <2>5 DEF Mode!On
  <2> QED
      BY <1>2, <2>1, <2>4 DEF SeenOn
<1>7. CASE UNCHANGED <<global, slots, review>>
    BY <1>2, <1>7, StaysSeen
<1> QED
    BY <1>3, <1>4, <1>5, <1>6, <1>7 DEF Mode!Next, Mode!UserStep, Mode!vars

LEMMA GlobalStep ==
    ASSUME NEW k, ModeBounds(k), k.Scopes \subseteq {"global"}, GlobalInv(k), [Mode(k)!Next]_(Mode(k)!vars)
    PROVE  GlobalInv(k)'
<1>1. ModeInv(k)' /\ ModeInv(k) /\ Mode(k)!Newest = 0
    BY ModeStep DEF GlobalInv, Mode!Newest
<1>2. ASSUME NEW u \in k.Users, NEW op \in {"enable", "disable"}, Mode(k)!SetGlobal(u, op) PROVE GlobalInv(k)'
  <2>1. UNCHANGED <<slots, user>> /\ review' = Mode(k)!Watched(Mode(k)!On(global', Mode(k)!Override))
      BY <1>2 DEF Mode!SetGlobal
  <2>2. ASSUME NEW w \in k.Reviews PROVE SeenOn(k, w)'
    <3>1. SeenOn(k, w) /\ Mode(k)!Override' = Mode(k)!Override
        BY <2>1 DEF GlobalInv, Mode!Override, Mode!Unreadable, Mode!Present, Mode!Current, Mode!Newest
    <3>2. /\ review'[w].at = review[w].at /\ review'[w].global = review[w].global
          /\ review[w].on => review'[w].on
        BY <1>1, <2>1, WatchedSees DEF Mode!On
    <3> QED
        BY <3>1, <3>2 DEF SeenOn
  <2> QED
      BY <1>1, <2>1, <2>2 DEF GlobalInv
<1>3. ASSUME NEW u \in k.Users
      PROVE  ~(Mode(k)!UserStep(u) \/ Mode(k)!Crash(u) \/ \E op \in {"enable", "disable"} : Mode(k)!Resolve(u, op))
    BY DEF GlobalInv, Mode!UserStep, Mode!Acquire, Mode!GiveUp, Mode!Compare, Mode!Publish, Mode!Crash, Mode!Resolve
<1>4. ASSUME NEW w \in k.Reviews, Mode(k)!ReviewStep(w) PROVE GlobalInv(k)'
  <2>1. UNCHANGED <<slots, user>>
      BY <1>1, <1>4, LookSees DEF GlobalInv
  <2>2. ASSUME NEW v \in k.Reviews PROVE SeenOn(k, v)'
      BY <1>1, <1>4, LookSees, StaysSeen DEF GlobalInv
  <2> QED
      BY <1>1, <2>1, <2>2 DEF GlobalInv
<1>5. ~Mode(k)!Damage
    BY <1>1 DEF Mode!Damage, Mode!Present
<1>6. CASE UNCHANGED Mode(k)!vars
  <2>1. \A v \in k.Reviews : SeenOn(k, v)'
      BY <1>6, StaysSeen DEF Mode!vars, GlobalInv
  <2> QED
      BY <1>1, <1>6, <2>1 DEF Mode!vars, GlobalInv
<1> QED
    BY <1>2, <1>3, <1>4, <1>5, <1>6 DEF Mode!Next, Mode!Command

LEMMA CloneInit == ASSUME NEW k, ModeBounds(k), Mode(k)!Init PROVE CloneInv(k)
<1>1. ModeInv(k) /\ \A w \in k.Reviews : review[w].at = "idle"
    BY ModeInit DEF Mode!Init, Mode!ReviewIdle
<1> QED
    BY <1>1 DEF CloneInv, SeenOn

LEMMA GlobalInit == ASSUME NEW k, ModeBounds(k), Mode(k)!Init PROVE GlobalInv(k)
<1>1. ModeInv(k) /\ \A w \in k.Reviews : review[w].at = "idle"
    BY ModeInit DEF Mode!Init, Mode!ReviewIdle
<1>2. slots = <<>> /\ \A u \in k.Users : user[u].at = "idle"
    BY DEF Mode!Init, Mode!UserIdle
<1> QED
    BY <1>1, <1>2 DEF GlobalInv, SeenOn

(* While users only change the clone's override, a review that the switch  *)
(* let pass asked while it was on (AuthorizeRDDOperation).                 *)
THEOREM CloneReviewsWhileOn ==
    ASSUME NEW k, ModeBounds(k), k.Scopes \subseteq {"clone"}
    PROVE  Mode(k)!Spec => []Mode(k)!AuthorizedWhileOn
<1>1. CloneInv(k) => Mode(k)!AuthorizedWhileOn
    BY DEF CloneInv, SeenOn, Mode!AuthorizedWhileOn
<1>2. CloneInv(k) /\ [Mode(k)!Next]_(Mode(k)!vars) => CloneInv(k)'
    BY CloneStep
<1> QED
    BY <1>1, <1>2, CloneInit, PTL DEF Mode!Spec

(* And while users only change the global mode.                            *)
THEOREM GlobalReviewsWhileOn ==
    ASSUME NEW k, ModeBounds(k), k.Scopes \subseteq {"global"}
    PROVE  Mode(k)!Spec => []Mode(k)!AuthorizedWhileOn
<1>1. GlobalInv(k) => Mode(k)!AuthorizedWhileOn
    BY DEF GlobalInv, SeenOn, Mode!AuthorizedWhileOn
<1>2. GlobalInv(k) /\ [Mode(k)!Next]_(Mode(k)!vars) => GlobalInv(k)'
    BY GlobalStep
<1> QED
    BY <1>1, <1>2, GlobalInit, PTL DEF Mode!Spec

SwitchInv == /\ part = "clone" => CloneInv(Clone)
             /\ part = "global" => GlobalInv(Global)

LEMMA SwitchInvHolds == ASSUME ModelValues PROVE Spec => []SwitchInv
<1>1. ModeBounds(Clone) /\ ModeBounds(Global)
    BY DEF ModelValues, ModeBounds, Clone, Global
<1>2. Init => SwitchInv
    BY <1>1, CloneInit, GlobalInit DEF Init, SwitchInv
<1>4. Clone.Scopes = {"clone"} /\ Global.Scopes = {"global"}
    BY DEF Clone, Global
<1>3. SwitchInv /\ [Next]_vars => SwitchInv'
  <2> SUFFICES ASSUME SwitchInv, [Next]_vars PROVE SwitchInv'
      OBVIOUS
  <2>1. /\ part' = part
        /\ part = "clone" => Mode(Clone)!Next \/ UNCHANGED Mode(Clone)!vars
        /\ part = "global" => Mode(Global)!Next \/ UNCHANGED Mode(Global)!vars
      BY DEF Next, vars, switch, Mode!vars
  <2>2. CASE part = "clone"
    <3>1. CloneInv(Clone) /\ (Mode(Clone)!Next \/ UNCHANGED Mode(Clone)!vars)
        BY <2>1, <2>2 DEF SwitchInv
    <3> QED
        BY <1>1, <1>4, <2>1, <2>2, <3>1, CloneStep DEF SwitchInv
  <2>3. CASE part = "global"
    <3>1. GlobalInv(Global) /\ (Mode(Global)!Next \/ UNCHANGED Mode(Global)!vars)
        BY <2>1, <2>3 DEF SwitchInv
    <3> QED
        BY <1>1, <1>4, <2>1, <2>3, <3>1, GlobalStep DEF SwitchInv
  <2> QED
      BY <2>1, <2>2, <2>3 DEF SwitchInv
<1> QED
    BY <1>2, <1>3, PTL DEF Spec

(* No choice is replaced unseen, and no review passes while the switch is  *)
(* off: RunReviewMode and AuthorizeRDDOperation.                           *)
THEOREM SwitchIsSound == ASSUME ModelValues PROVE Spec => []SwitchSound
<1>1. ASSUME NEW k, (\A w \in k.Reviews : SeenOn(k, w)) PROVE Mode(k)!AuthorizedWhileOn
    BY <1>1 DEF SeenOn, Mode!AuthorizedWhileOn
<1>2. CloneInv(Clone) => Mode(Clone)!TypeOK /\ Mode(Clone)!NothingReplacedUnseen /\ Mode(Clone)!AuthorizedWhileOn
    BY <1>1 DEF CloneInv, ModeInv
<1>3. GlobalInv(Global) => Mode(Global)!AuthorizedWhileOn
    BY <1>1 DEF GlobalInv
<1>4. SwitchInv => SwitchSound
    BY <1>2, <1>3 DEF SwitchInv, SwitchSound
<1> QED
    BY <1>4, SwitchInvHolds, PTL

-----------------------------------------------------------------------------
(* NewLineage *)

(* ReceiptMatches is not inductive: a rename may follow the publication of *)
(* a receipt unless what a command carries to the rename is what the       *)
(* record still holds (Carries), which the lock keeps true from the        *)
(* compare on, and the compare of a finalize succeeds on an open record    *)
(* only.                                                                   *)
Spots == {"idle", "ended", "mutate", "rename", "load", "publish", "link", "live", "decide"}
Outcomes ==
    {"none", "corrupted", "off", "busy", "conflict", "error", "started", "approved", "escalated",
     "mismatch", "differs", "legacy", "denied", "escalate", "no receipt", "scope changed", "allow"}
Errands(k) == [op : {"none", "start", "finalize", "gate"}, at : Spots,
          lineage : k.Lineages \cup {None}, verdict : {"none", "clean", "failed"},
          read : V3(k)!Authority \cup {None}, next : V3(k)!Authority \cup {None},
          live : k.Candidates \cup {Clean, None}, result : Outcomes]

(* A START carries an open record to a lineage without one, a finalize a   *)
(* decision on the open record it read.                                    *)
Carries(k, p) ==
    /\ V3(k)!Lineage(p) \in k.Lineages /\ proc[p].next \in V3(k)!Authority
    /\ \/ proc[p].read = None /\ proc[p].next.state = "reviewing" /\ proc[p].op = "start"
       \/ /\ proc[p].read \in V3(k)!Authority /\ proc[p].read.state = "reviewing"
          /\ proc[p].next.state \in V3(k)!Terminal /\ proc[p].next.cand = proc[p].read.cand

(* The record is the decision the command made or found.                   *)
Decided(k, p) ==
    /\ V3(k)!Lineage(p) \in k.Lineages /\ rec[V3(k)!Lineage(p)] = proc[p].next
    /\ proc[p].next \in V3(k)!Authority /\ proc[p].next.state \in V3(k)!Terminal

Knows(k, p) ==
    /\ V3(k)!At(p, "mutate") => Carries(k, p)
    /\ V3(k)!At(p, "rename") => Carries(k, p) /\ rec[V3(k)!Lineage(p)] = proc[p].read /\ V3(k)!Lineage(p) \in dirs
    /\ V3(k)!At(p, "load") => V3(k)!Lineage(p) \in k.Lineages /\ (proc[p].op = "start" \/ Decided(k, p))
    /\ proc[p].at \in {"publish", "link"} => Decided(k, p) /\ proc[p].read = proc[p].next
    /\ proc[p].at \in {"live", "decide"} => V3(k)!Lineage(p) \in k.Lineages
    /\ V3(k)!At(p, "decide") => proc[p].read \in V3(k)!Authority /\ proc[p].live \in k.Candidates \cup {Clean}
    /\ proc[p].at # "ended" => proc[p].result = "none"
    /\ proc[p].result = "allow" => V3(k)!Lineage(p) \in k.Lineages /\ proc[p].live \in k.Candidates

ErrandTypes(k) == proc \in [k.Procs -> Errands(k)]
V3Inv(k) ==
    /\ V3(k)!TypeOK /\ ErrandTypes(k) /\ \A p \in k.Procs : Knows(k, p)
    /\ V3(k)!ReceiptMatches /\ V3(k)!NoMismatch /\ V3(k)!AllowEarned

(* For any commands, lineages, candidates and bounds, the setting k: None  *)
(* is neither a command nor a record.                                      *)
V3Bounds(k) == None \notin k.Procs /\ None \notin V3(k)!Authority

-----------------------------------------------------------------------------
(* A new store satisfies the invariant.                                    *)
LEMMA LineageInit == ASSUME NEW k, V3Bounds(k), V3(k)!Init PROVE V3Inv(k)
<1>1. ErrandTypes(k) /\ \A p \in k.Procs : proc[p] = V3(k)!Idle
    BY DEF V3!Init, ErrandTypes, Errands, Outcomes, Spots, V3!Idle
<1>2. V3(k)!TypeOK
    BY <1>1 DEF V3Bounds, V3!Init, V3!TypeOK, V3!Idle
<1>3. (\A p \in k.Procs : Knows(k, p)) /\ V3(k)!NoMismatch /\ V3(k)!AllowEarned
    BY <1>1 DEF Knows, V3!At, V3!Idle, V3!NoMismatch, V3!AllowEarned
<1> QED
    BY <1>1, <1>2, <1>3 DEF V3Inv, V3!Init, V3!ReceiptMatches

(* A step that changes no store and takes no lock, and moves p to a place  *)
(* outside the writes, or lets it stay outside: everything but what p      *)
(* itself is at is kept.                                                   *)
Elsewhere == Spots \ {"rename", "link"}

LEMMA QuietStep ==
    ASSUME NEW k, V3Bounds(k), V3Inv(k), NEW p \in k.Procs, NEW new \in Errands(k),
           UNCHANGED V3(k)!store, V3(k)!Goes(p, new), proc[p].at \in Elsewhere, new.at \in Elsewhere,
           tree' \in k.Candidates \cup {Clean}, legacy' \subseteq k.Candidates,
           Knows(k, p)', new.result \notin {"mismatch", "differs"},
           new.result = "allow" => receipt[new.lineage] = [state |-> "approved", cand |-> new.live]
    PROVE  V3Inv(k)'
<1>1. /\ ErrandTypes(k)' /\ proc'[p] = new
      /\ \A q \in k.Procs \ {p} : proc'[q] = proc[q]
    BY DEF V3Inv, ErrandTypes, V3!Goes
<1>2. V3(k)!TypeOK'
    BY <1>1 DEF V3Inv, V3!TypeOK, V3!store, Elsewhere
<1>3. \A q \in k.Procs : Knows(k, q)'
  <2> SUFFICES ASSUME NEW q \in k.Procs, q # p PROVE Knows(k, q)'
      OBVIOUS
  <2>1. Knows(k, q) /\ proc'[q] = proc[q] /\ rec' = rec /\ dirs' = dirs
      BY <1>1 DEF V3Inv, V3!store
  <2> QED
      BY <2>1 DEF Knows, Carries, Decided, V3!At, V3!Lineage
<1>4. V3(k)!ReceiptMatches'
    BY DEF V3Inv, V3!ReceiptMatches, V3!store
<1>5. V3(k)!NoMismatch'
    BY <1>1 DEF V3Inv, V3!NoMismatch
<1>6. V3(k)!AllowEarned'
    BY <1>1 DEF V3Inv, V3!AllowEarned, V3!Lineage, V3!store
<1> QED
    BY <1>1, <1>2, <1>3, <1>4, <1>5, <1>6 DEF V3Inv

(* START, finalize and the gate begin outside the writes.                  *)
LEMMA CommandStep ==
    ASSUME NEW k, V3Bounds(k), V3Inv(k), NEW p \in k.Procs, V3(k)!Command(p)
    PROVE  V3Inv(k)'
<1> USE DEF Elsewhere, Spots
<1>1. /\ proc[p].at \in Elsewhere /\ UNCHANGED V3(k)!store /\ tree' = tree
      /\ tree \in k.Candidates \cup {Clean} /\ legacy \subseteq k.Candidates
      /\ rec \in [k.Lineages -> V3(k)!Authority \cup {None}]
    BY DEF V3!Command, V3!Start, V3!Gate, V3!Finalize, V3!StartLegacy, V3!GateUnmarked, V3!Begin, V3Inv, V3!TypeOK, V3!world
<1>2. ASSUME NEW l \in k.Lineages, V3(k)!Start(p, l) PROVE V3Inv(k)'
  <2> DEFINE new == [V3(k)!Idle EXCEPT !.op = "start", !.at = "mutate", !.lineage = l,
                       !.next = [state |-> "reviewing", cand |-> tree]]
  <2>1. V3(k)!Goes(p, new) /\ legacy' = legacy /\ tree \in k.Candidates
      BY <1>1, <1>2 DEF V3!Start, V3!world
  <2>2. new \in Errands(k) /\ new.next \in V3(k)!Authority
      BY <2>1 DEF Errands, Outcomes, V3!Idle, V3!Authority
  <2>3. proc'[p] = new
      BY <2>1 DEF V3Inv, ErrandTypes, V3!Goes
  <2>4. Knows(k, p)'
      BY <2>2, <2>3 DEF Knows, V3!At, Carries, V3!Lineage, V3!Idle
  <2> QED
      BY <1>1, <2>1, <2>2, <2>4, QuietStep DEF V3!Idle
<1>3. CASE V3(k)!StartLegacy(p)
  <2>1. V3(k)!Goes(p, V3(k)!Idle) /\ legacy' \subseteq k.Candidates
      BY <1>1, <1>3 DEF V3!StartLegacy
  <2>2. V3(k)!Idle \in Errands(k) /\ proc'[p] = V3(k)!Idle
      BY <2>1 DEF Errands, Outcomes, V3!Idle, V3Inv, ErrandTypes, V3!Goes
  <2>3. Knows(k, p)'
      BY <2>2 DEF Knows, V3!At, V3!Idle
  <2> QED
      BY <1>1, <2>1, <2>2, <2>3, QuietStep DEF V3!Idle
<1>4. ASSUME NEW l \in k.Lineages, NEW v \in {"clean", "failed"}, V3(k)!Finalize(p, l, v) PROVE V3Inv(k)'
  <2> DEFINE new == [V3(k)!Idle EXCEPT !.op = "finalize", !.lineage = l, !.verdict = v, !.read = rec[l]]
             next == V3(k)!Advanced(rec[l], v)
  <2>0. legacy' = legacy /\ rec[l] \in V3(k)!Authority \cup {None}
      BY <1>1, <1>4 DEF V3!Finalize, V3!world
  <2>1. CASE \E r \in {"corrupted", "off"} : V3(k)!Goes(p, [new EXCEPT !.at = "ended", !.result = r])
    <3> PICK r \in {"corrupted", "off"} : V3(k)!Goes(p, [new EXCEPT !.at = "ended", !.result = r])
        BY <2>1
    <3>1. [new EXCEPT !.at = "ended", !.result = r] \in Errands(k)
        BY <2>0 DEF Errands, Outcomes, V3!Idle
    <3>2. Knows(k, p)'
        BY <3>1 DEF Knows, V3!At, V3!Idle, V3Inv, ErrandTypes, V3!Goes
    <3> QED
        BY <1>1, <2>0, <3>1, <3>2, QuietStep DEF V3!Idle
  <2>2. CASE rec[l] # None /\ V3(k)!Goes(p, [new EXCEPT !.next = next, !.at = IF next = rec[l] THEN "load" ELSE "mutate"])
    <3>1. rec[l] \in V3(k)!Authority /\ next \in V3(k)!Authority /\ next.state \in V3(k)!Terminal /\ next.cand = rec[l].cand
        BY <2>0, <2>2 DEF V3!Advanced, V3!Authority, V3!Terminal
    <3>2. next # rec[l] => rec[l].state = "reviewing"
        BY <3>1 DEF V3!Advanced, V3!Authority, V3!Terminal
    <3> HIDE DEF next
    <3> DEFINE go == [new EXCEPT !.next = next, !.at = IF next = rec[l] THEN "load" ELSE "mutate"]
    <3>3. go \in Errands(k)
        BY <3>1 DEF Errands, Outcomes, V3!Idle
    <3>4. proc'[p] = go
        BY <2>2 DEF V3Inv, ErrandTypes, V3!Goes
    <3>5. Knows(k, p)'
        BY <1>1, <3>1, <3>2, <3>3, <3>4 DEF Knows, V3!At, Carries, Decided, V3!Lineage, V3!Idle, V3!store
    <3> QED
        BY <1>1, <2>0, <2>2, <3>3, <3>5, QuietStep DEF V3!Idle
  <2> QED
      BY <1>4, <2>1, <2>2 DEF V3!Finalize
<1>5. CASE V3(k)!GateUnmarked(p)
  <2>0. PICK r \in {"legacy", "denied"} : r = V3(k)!Legacy(p, tree)
      BY DEF V3!Legacy
  <2> DEFINE new == [V3(k)!Idle EXCEPT !.op = "gate", !.at = "ended", !.live = tree, !.result = r]
  <2>1. V3(k)!Goes(p, new) /\ legacy' = legacy
      BY <1>5, <2>0 DEF V3!GateUnmarked, V3!world
  <2>2. new \in Errands(k) /\ new.at = "ended" /\ new.result \in {"legacy", "denied"}
      BY <1>1 DEF Errands, Outcomes, V3!Idle
  <2>4. proc'[p] = new
      BY <2>1 DEF V3Inv, ErrandTypes, V3!Goes
  <2>3. Knows(k, p)'
      BY <2>2, <2>4 DEF Knows, V3!At
  <2> QED
      BY <1>1, <2>1, <2>2, <2>3, QuietStep DEF V3!Idle
<1>6. ASSUME NEW l \in k.Lineages, V3(k)!Gate(p, l) PROVE V3Inv(k)'
  <2> DEFINE new == [V3(k)!Idle EXCEPT !.op = "gate", !.lineage = l, !.read = rec[l]]
  <2>0. legacy' = legacy /\ rec[l] \in V3(k)!Authority \cup {None}
      BY <1>1, <1>6 DEF V3!Gate, V3!world
  <2>1. CASE V3(k)!Goes(p, [new EXCEPT !.at = "ended", !.result = "corrupted"])
    <3>1. [new EXCEPT !.at = "ended", !.result = "corrupted"] \in Errands(k)
        BY <2>0 DEF Errands, Outcomes, V3!Idle
    <3>2. Knows(k, p)'
        BY <2>1, <3>1 DEF Knows, V3!At, V3!Idle, V3Inv, ErrandTypes, V3!Goes
    <3> QED
        BY <1>1, <2>0, <2>1, <3>1, <3>2, QuietStep DEF V3!Idle
  <2>2. CASE V3(k)!Goes(p, [new EXCEPT !.at = "live"])
    <3>1. [new EXCEPT !.at = "live"] \in Errands(k)
        BY <2>0 DEF Errands, Outcomes, V3!Idle
    <3>2. Knows(k, p)'
        BY <2>2, <3>1 DEF Knows, V3!At, V3!Idle, V3!Lineage, V3Inv, ErrandTypes, V3!Goes
    <3> QED
        BY <1>1, <2>0, <2>2, <3>1, <3>2, QuietStep DEF V3!Idle
  <2> QED
      BY <1>6, <2>1, <2>2 DEF V3!Gate
<1> QED
    BY <1>2, <1>3, <1>4, <1>5, <1>6 DEF V3!Command

(* Busy, refused, read again, decided: the steps of a command that write   *)
(* nothing and let the lock be.                                            *)
LEMMA LiveStep ==
    ASSUME NEW k, V3Bounds(k), V3Inv(k), NEW p \in k.Procs, V3(k)!Live(p)
    PROVE  V3Inv(k)'
<1> USE DEF Elsewhere, Spots
<1>1. /\ UNCHANGED <<V3(k)!store, V3(k)!world>> /\ proc[p] \in Errands(k) /\ Knows(k, p) /\ proc[p].at = "live"
      /\ tree \in k.Candidates \cup {Clean} /\ legacy \subseteq k.Candidates
    BY DEF V3!Live, V3Inv, ErrandTypes, V3!TypeOK, V3!At
<1>2. CASE proc[p].read # None /\ V3(k)!Goes(p, [proc[p] EXCEPT !.at = "decide", !.live = tree])
  <2> DEFINE new == [proc[p] EXCEPT !.at = "decide", !.live = tree]
  <2>1. new \in Errands(k) /\ proc'[p] = new
      BY <1>1, <1>2 DEF Errands, V3Inv, ErrandTypes, V3!Goes
  <2>2. /\ new.at = "decide" /\ new.result = "none"
        /\ new.read \in V3(k)!Authority /\ new.lineage \in k.Lineages /\ new.live = tree
      BY <1>1, <1>2 DEF Errands, Knows, V3!At, V3!Lineage
  <2>3. Knows(k, p)'
      BY <1>1, <2>1, <2>2 DEF Knows, V3!At, V3!Lineage
  <2> QED
      BY <1>1, <1>2, <2>1, <2>2, <2>3, QuietStep DEF V3!world
<1>3. CASE V3(k)!Goes(p, [proc[p] EXCEPT !.at = "ended", !.live = tree, !.result = V3(k)!Legacy(p, tree)])
  <2>1. PICK r \in {"legacy", "denied"} : r = V3(k)!Legacy(p, tree)
      BY DEF V3!Legacy
  <2> DEFINE new == [proc[p] EXCEPT !.at = "ended", !.live = tree, !.result = r]
  <2>2. V3(k)!Goes(p, new) /\ r \in Outcomes \ {"mismatch", "differs", "allow"}
      BY <1>3, <2>1 DEF Outcomes
  <2>3. new \in Errands(k) /\ new.at = "ended" /\ new.result = r /\ new.lineage = V3(k)!Lineage(p)
      BY <1>1, <2>2 DEF Errands, V3!Lineage
  <2>4. proc'[p] = new
      BY <2>2 DEF V3Inv, ErrandTypes, V3!Goes
  <2>5. Knows(k, p)'
      BY <1>1, <2>2, <2>3, <2>4 DEF Knows, V3!At, V3!Lineage
  <2> QED
      BY <1>1, <2>2, <2>3, <2>5, QuietStep DEF V3!world
<1> QED
    BY <1>2, <1>3 DEF V3!Live

(* What a command ends with where it has not written: no receipt has been  *)
(* looked at, and it is no mismatch.                                       *)
LEMMA EndStep ==
    ASSUME NEW k, V3Bounds(k), V3Inv(k), NEW p \in k.Procs, NEW result \in Outcomes \ {"mismatch", "differs"},
           UNCHANGED <<V3(k)!store, V3(k)!world>>, proc[p].at \in Elsewhere, V3(k)!Ends(p, result),
           result = "allow" =>
               /\ V3(k)!Lineage(p) \in k.Lineages /\ proc[p].live \in k.Candidates
               /\ receipt[V3(k)!Lineage(p)] = [state |-> "approved", cand |-> proc[p].live]
    PROVE  V3Inv(k)'
<1> DEFINE new == [proc[p] EXCEPT !.at = "ended", !.result = result]
<1>1. proc[p] \in Errands(k) /\ tree \in k.Candidates \cup {Clean} /\ legacy \subseteq k.Candidates
    BY DEF V3Inv, ErrandTypes, V3!TypeOK
<1>2. new \in Errands(k) /\ proc'[p] = new /\ new.result = result /\ new.lineage = V3(k)!Lineage(p) /\ new.live = proc[p].live
    BY <1>1 DEF Errands, Spots, V3Inv, ErrandTypes, V3!Goes, V3!Ends, V3!Lineage
<1>3. Knows(k, p)' /\ new.at \in Elsewhere
    BY <1>1, <1>2 DEF Knows, V3!At, V3!Lineage, Errands, Elsewhere, Spots
<1> QED
    BY <1>1, <1>2, <1>3, QuietStep DEF V3!world, V3!Ends

LEMMA DecideStep ==
    ASSUME NEW k, V3Bounds(k), V3Inv(k), NEW p \in k.Procs, V3(k)!Decide(p)
    PROVE  V3Inv(k)'
<1>1. /\ UNCHANGED <<V3(k)!store, V3(k)!world>> /\ proc[p].at = "decide" /\ proc[p].at \in Elsewhere
      /\ V3(k)!Lineage(p) \in k.Lineages /\ proc[p].read \in V3(k)!Authority
    BY DEF V3!Decide, V3!At, Elsewhere, Spots, V3Inv, Knows
<1>2. CASE \E r \in {"escalate", "no receipt", "scope changed"} : V3(k)!Ends(p, r)
    BY <1>1, <1>2, EndStep DEF Outcomes
<1>3. CASE V3(k)!Proven(p) /\ V3(k)!Relation(p) = "exact" /\ V3(k)!Ends(p, "allow")
  <2>1. proc[p].live = proc[p].read.cand /\ proc[p].live \in k.Candidates
      BY <1>1, <1>3 DEF V3!Relation, V3!Authority
  <2>2. receipt[V3(k)!Lineage(p)] = [state |-> "approved", cand |-> proc[p].live]
      BY <1>1, <1>3, <2>1 DEF V3!Proven, V3!Authority
  <2> QED
      BY <1>1, <1>3, <2>1, <2>2, EndStep DEF Outcomes
<1> QED
    BY <1>2, <1>3 DEF V3!Decide, V3!Relation

LEMMA LoadStep ==
    ASSUME NEW k, V3Bounds(k), V3Inv(k), NEW p \in k.Procs, V3(k)!Load(p)
    PROVE  V3Inv(k)'
<1> USE DEF Elsewhere, Spots
<1>1. /\ UNCHANGED <<V3(k)!store, V3(k)!world>> /\ proc[p] \in Errands(k) /\ Knows(k, p) /\ proc[p].at = "load"
      /\ V3(k)!Lineage(p) \in k.Lineages /\ rec[V3(k)!Lineage(p)] \in V3(k)!Authority \cup {None}
      /\ tree \in k.Candidates \cup {Clean} /\ legacy \subseteq k.Candidates
    BY DEF V3!Load, V3Inv, ErrandTypes, V3!TypeOK, V3!At, Knows
<1> DEFINE read == [proc[p] EXCEPT !.read = rec[V3(k)!Lineage(p)]]
<1>2. CASE proc[p].op = "start"
  <2> DEFINE new == [read EXCEPT !.at = "ended", !.result = "started"]
  <2>1. V3(k)!Goes(p, new)
      BY <1>2 DEF V3!Load
  <2>2. new \in Errands(k) /\ proc'[p] = new
      BY <1>1, <2>1 DEF Errands, Outcomes, V3Inv, ErrandTypes, V3!Goes
  <2>3. Knows(k, p)'
      BY <1>1, <2>2 DEF Knows, V3!At, V3!Lineage, Errands
  <2>4. new.at \in Elsewhere /\ new.result = "started"
      BY <1>1 DEF Errands
  <2> QED
      BY <1>1, <2>1, <2>2, <2>3, <2>4, QuietStep DEF V3!world
<1>3. CASE proc[p].op # "start"
  <2> DEFINE new == [read EXCEPT !.at = "publish"]
  <2>1. V3(k)!Goes(p, new)
      BY <1>3 DEF V3!Load
  <2>2. new \in Errands(k) /\ proc'[p] = new
      BY <1>1, <2>1 DEF Errands, V3Inv, ErrandTypes, V3!Goes
  <2>3. Decided(k, p) /\ proc[p].result = "none"
      BY <1>1, <1>3 DEF Knows, V3!At
  <2>4. Knows(k, p)'
      BY <1>1, <2>2, <2>3 DEF Knows, V3!At, V3!Lineage, Decided, Errands, V3!store
  <2>5. new.at \in Elsewhere /\ new.result = "none"
      BY <1>1, <2>3 DEF Errands
  <2> QED
      BY <1>1, <2>1, <2>2, <2>4, <2>5, QuietStep DEF V3!world
<1> QED
    BY <1>2, <1>3

(* A step of p that takes, holds or releases the lock: nobody else is in   *)
(* its writes, and what others know of a decision is kept with it.         *)
LEMMA LockedStep ==
    ASSUME NEW k, V3Bounds(k), V3Inv(k), NEW p \in k.Procs, NEW new \in Errands(k), V3(k)!Goes(p, new),
           UNCHANGED V3(k)!world, lock \in {None, p}, lock' \in {None, p},
           lock' = p <=> new.at \in {"rename", "link"},
           dirs \subseteq dirs', dirs' \subseteq k.Lineages,
           rec' \in [k.Lineages -> V3(k)!Authority \cup {None}], receipt' \in [k.Lineages -> V3(k)!Authority \cup {None}],
           \A l \in k.Lineages : rec'[l] # None => l \in dirs',
           \A l \in k.Lineages : receipt[l] # None => receipt'[l] = receipt[l],
           V3(k)!KeepsTerminal, V3(k)!ReceiptMatches', Knows(k, p)', new.result \notin {"mismatch", "differs", "allow"}
    PROVE  V3Inv(k)'
<1>1. /\ ErrandTypes(k)' /\ proc'[p] = new
      /\ \A q \in k.Procs \ {p} : proc'[q] = proc[q] /\ q # None /\ proc[q].at \notin {"rename", "link"}
    BY DEF V3Inv, ErrandTypes, V3!Goes, V3!TypeOK, V3Bounds
<1>2. V3(k)!TypeOK'
  <2>1. \A q \in k.Procs : (proc'[q].at \in {"rename", "link"}) <=> (lock' = q)
      BY <1>1 DEF V3Bounds
  <2> QED
      BY <2>1 DEF V3Inv, V3!TypeOK, V3!world
<1>3. \A q \in k.Procs : Knows(k, q)'
  <2> SUFFICES ASSUME NEW q \in k.Procs, q # p PROVE Knows(k, q)'
      OBVIOUS
  <2>1. Knows(k, q) /\ proc'[q] = proc[q] /\ proc[q].at \notin {"rename", "link"}
      BY <1>1 DEF V3Inv
  <2>2. Decided(k, q) => Decided(k, q)'
      BY <2>1, V3Bounds(k) DEF Decided, V3!Lineage, V3!KeepsTerminal, V3Bounds
  <2>3. Carries(k, q) => Carries(k, q)'
      BY <2>1 DEF Carries, V3!Lineage
  <2> QED
      BY <2>1, <2>2, <2>3 DEF Knows, V3!At, V3!Lineage
<1>4. V3(k)!NoMismatch'
    BY <1>1 DEF V3Inv, V3!NoMismatch
<1>5. V3(k)!AllowEarned'
  <2> SUFFICES ASSUME NEW q \in k.Procs, proc'[q].result = "allow"
               PROVE  receipt'[proc'[q].lineage] = [state |-> "approved", cand |-> proc'[q].live]
      BY DEF V3!AllowEarned, V3!Lineage
  <2>1. q # p /\ proc'[q] = proc[q] /\ proc[q].lineage \in k.Lineages /\ proc[q].live \in k.Candidates
      BY <1>1 DEF V3Inv, Knows, V3!Lineage
  <2>2. receipt[proc[q].lineage] = [state |-> "approved", cand |-> proc[q].live]
      BY <2>1 DEF V3Inv, V3!AllowEarned, V3!Lineage
  <2>3. receipt[proc[q].lineage] # None
      BY <2>1, <2>2 DEF V3Bounds, V3!Authority, V3!Terminal
  <2> QED
      BY <2>1, <2>2, <2>3
<1> QED
    BY <1>1, <1>2, <1>3, <1>4, <1>5 DEF V3Inv

(* The compare of Mutate: what START or a finalize carries is for the      *)
(* record it found, and from here on it has the lock.                      *)
LEMMA MutateStep ==
    ASSUME NEW k, V3Bounds(k), V3Inv(k), NEW p \in k.Procs, V3(k)!Mutate(p)
    PROVE  V3Inv(k)'
<1>1. /\ UNCHANGED <<rec, receipt, V3(k)!world, V3(k)!bounds>> /\ proc[p].at = "mutate" /\ Carries(k, p)
      /\ proc[p] \in Errands(k) /\ proc[p].at \in Elsewhere /\ proc[p].result = "none"
    BY DEF V3!Mutate, V3!At, Elsewhere, Spots, V3Inv, Knows, ErrandTypes
<1>2. CASE V3(k)!Acquire(p) /\ V3(k)!Expected(p) /\ dirs' = dirs \cup {V3(k)!Lineage(p)} /\ V3(k)!To(p, "rename")
  <2> DEFINE new == [proc[p] EXCEPT !.at = "rename"]
  <2>1. new \in Errands(k) /\ proc'[p] = new /\ new.at = "rename" /\ new.result = "none"
      BY <1>1, <1>2 DEF Errands, Spots, V3Inv, ErrandTypes, V3!Goes, V3!To
  <2>2. Knows(k, p)'
      BY <1>1, <1>2, <2>1 DEF Knows, V3!At, Carries, V3!Lineage, V3!Expected
  <2>3. V3(k)!KeepsTerminal /\ V3(k)!ReceiptMatches'
      BY <1>1 DEF V3!KeepsTerminal, V3!ReceiptMatches, V3Inv
  <2>4. /\ dirs \subseteq dirs' /\ dirs' \subseteq k.Lineages
        /\ \A l \in k.Lineages : rec'[l] # None => l \in dirs'
        /\ rec' \in [k.Lineages -> V3(k)!Authority \cup {None}] /\ receipt' \in [k.Lineages -> V3(k)!Authority \cup {None}]
      BY <1>1, <1>2 DEF V3Inv, V3!TypeOK, Carries
  <2>5. /\ lock \in {None, p} /\ lock' = p /\ V3(k)!Goes(p, new) /\ UNCHANGED V3(k)!world
        /\ \A l \in k.Lineages : receipt[l] # None => receipt'[l] = receipt[l]
      BY <1>1, <1>2 DEF V3!Acquire, V3!To
  <2> QED
      BY <2>1, <2>2, <2>3, <2>4, <2>5, LockedStep
<1>3. CASE \E r \in {"conflict", "busy"} : V3(k)!Ends(p, r) /\ UNCHANGED <<dirs, lock>>
    BY <1>1, <1>3, EndStep DEF Outcomes, V3!store
<1> QED
    BY <1>2, <1>3 DEF V3!Mutate, V3!Busy

(* The rename replaces just the record the command read, which was open or *)
(* not there: it has no receipt.                                           *)
LEMMA RenameStep ==
    ASSUME NEW k, V3Bounds(k), V3Inv(k), NEW p \in k.Procs, V3(k)!Rename(p)
    PROVE  V3Inv(k)' /\ V3(k)!KeepsTerminal
<1>1. /\ UNCHANGED <<dirs, receipt, V3(k)!world>> /\ proc[p].at = "rename" /\ Carries(k, p) /\ lock = p /\ lock' = None
      /\ proc[p] \in Errands(k) /\ proc[p].result = "none" /\ rec[V3(k)!Lineage(p)] = proc[p].read /\ V3(k)!Lineage(p) \in dirs
      /\ rec' \in {rec, [rec EXCEPT ![V3(k)!Lineage(p)] = proc[p].next]}
    BY DEF V3!Rename, V3!At, V3Inv, Knows, ErrandTypes, V3!TypeOK
<1>2. /\ rec' \in [k.Lineages -> V3(k)!Authority \cup {None}] /\ receipt' \in [k.Lineages -> V3(k)!Authority \cup {None}]
      /\ \A l \in k.Lineages : rec'[l] # None => l \in dirs'
      /\ dirs' = dirs /\ dirs \subseteq k.Lineages
    BY <1>1 DEF V3Inv, V3!TypeOK, Carries
<1>3. V3(k)!KeepsTerminal
    BY <1>1 DEF V3!KeepsTerminal, Carries, V3Inv, V3!TypeOK, V3Bounds, V3!Terminal
<1>4. V3(k)!ReceiptMatches'
  <2> SUFFICES ASSUME NEW l \in k.Lineages, receipt[l] # None
               PROVE  receipt[l] = rec'[l] /\ rec'[l].state \in V3(k)!Terminal
      BY <1>1 DEF V3!ReceiptMatches
  <2>1. receipt[l] = rec[l] /\ rec[l].state \in V3(k)!Terminal
      BY DEF V3Inv, V3!ReceiptMatches
  <2> QED
      BY <1>3, <2>1 DEF V3!KeepsTerminal
<1>5. ASSUME NEW new \in Errands(k), V3(k)!Goes(p, new), new.op = proc[p].op, new.lineage = proc[p].lineage,
             new.next = proc[p].next,
             \/ new.at = "load" /\ new.result = "none" /\ rec' = [rec EXCEPT ![V3(k)!Lineage(p)] = proc[p].next]
             \/ new.at = "ended" /\ new.result = "error"
      PROVE  V3Inv(k)'
  <2>1. proc'[p] = new
      BY <1>5 DEF V3Inv, ErrandTypes, V3!Goes
  <2>2. new.at = "load" => rec'[V3(k)!Lineage(p)] = proc[p].next
      BY <1>1, <1>5 DEF V3Inv, V3!TypeOK, Carries
  <2>3. Knows(k, p)'
      BY <1>1, <1>5, <2>1, <2>2 DEF Knows, V3!At, Carries, Decided, V3!Lineage
  <2>4. lock' \in {None, p} /\ lock' # p /\ lock \in {None, p}
      BY <1>1 DEF V3Bounds
  <2> QED
      BY <1>1, <1>2, <1>3, <1>4, <1>5, <2>1, <2>3, <2>4, LockedStep
<1>6. CASE V3(k)!To(p, "load") /\ rec' = [rec EXCEPT ![V3(k)!Lineage(p)] = proc[p].next]
  <2> DEFINE new == [proc[p] EXCEPT !.at = "load"]
  <2>1. /\ new \in Errands(k) /\ new.op = proc[p].op /\ new.lineage = proc[p].lineage
        /\ new.next = proc[p].next /\ new.at = "load" /\ new.result = "none"
      BY <1>1 DEF Errands, Spots
  <2> QED
      BY <1>3, <1>5, <1>6, <2>1 DEF V3!To
<1>7. CASE V3(k)!Ends(p, "error")
  <2> DEFINE new == [proc[p] EXCEPT !.at = "ended", !.result = "error"]
  <2>1. /\ new \in Errands(k) /\ new.op = proc[p].op /\ new.lineage = proc[p].lineage
        /\ new.next = proc[p].next /\ new.at = "ended" /\ new.result = "error"
      BY <1>1 DEF Errands, Spots, Outcomes
  <2> QED
      BY <1>3, <1>5, <1>7, <2>1 DEF V3!Ends
<1> QED
    BY <1>3, <1>6, <1>7 DEF V3!Rename

(* WriteReceipt and its checks, which nothing has made false since the     *)
(* command read the record again.                                          *)
LEMMA WriteReceiptStep ==
    ASSUME NEW k, V3Bounds(k), V3Inv(k), NEW p \in k.Procs, V3(k)!WriteReceipt(p)
    PROVE  V3Inv(k)'
<1>1. /\ UNCHANGED <<dirs, rec, receipt, V3(k)!world, V3(k)!bounds>> /\ proc[p].at = "publish" /\ Decided(k, p)
      /\ proc[p].read = proc[p].next /\ proc[p] \in Errands(k) /\ proc[p].at \in Elsewhere /\ proc[p].result = "none"
    BY DEF V3!WriteReceipt, V3!At, Elsewhere, Spots, V3Inv, Knows, ErrandTypes
<1>2. CASE V3(k)!Acquire(p) /\ V3(k)!To(p, "link")
  <2> DEFINE new == [proc[p] EXCEPT !.at = "link"]
  <2>1. new \in Errands(k) /\ proc'[p] = new /\ new.at = "link" /\ new.result = "none"
      BY <1>1, <1>2 DEF Errands, Spots, V3Inv, ErrandTypes, V3!Goes, V3!To
  <2>2. Knows(k, p)'
      BY <1>1, <1>2, <2>1 DEF Knows, V3!At, Decided, V3!Lineage, Errands
  <2>3. V3(k)!KeepsTerminal /\ V3(k)!ReceiptMatches'
      BY <1>1 DEF V3!KeepsTerminal, V3!ReceiptMatches, V3Inv
  <2>4. /\ dirs' = dirs /\ dirs \subseteq k.Lineages
        /\ \A l \in k.Lineages : rec'[l] # None => l \in dirs'
        /\ rec' \in [k.Lineages -> V3(k)!Authority \cup {None}] /\ receipt' \in [k.Lineages -> V3(k)!Authority \cup {None}]
      BY <1>1, <1>2 DEF V3Inv, V3!TypeOK
  <2>5. /\ lock \in {None, p} /\ lock' = p /\ V3(k)!Goes(p, new) /\ UNCHANGED V3(k)!world
        /\ \A l \in k.Lineages : receipt[l] # None => receipt'[l] = receipt[l]
      BY <1>1, <1>2 DEF V3!Acquire, V3!To
  <2> QED
      BY <2>1, <2>2, <2>3, <2>4, <2>5, LockedStep
<1>3. CASE V3(k)!Busy(p) /\ UNCHANGED lock
    BY <1>1, <1>3, EndStep DEF Outcomes, V3!store, V3!Busy
<1> QED
    BY <1>1, <1>2, <1>3 DEF V3!WriteReceipt, V3!Bound, Decided

(* The receipt is published for the decision the record holds, or one that *)
(* is there already is equal to it.                                        *)
LEMMA PublishStep ==
    ASSUME NEW k, V3Bounds(k), V3Inv(k), NEW p \in k.Procs, V3(k)!Publish(p)
    PROVE  V3Inv(k)'
<1>1. /\ UNCHANGED <<dirs, rec, V3(k)!world>> /\ proc[p].at = "link" /\ Decided(k, p) /\ lock = p /\ lock' = None
      /\ proc[p].read = proc[p].next /\ proc[p] \in Errands(k)
      /\ receipt \in [k.Lineages -> V3(k)!Authority \cup {None}]
      /\ receipt[V3(k)!Lineage(p)] = None \/ receipt[V3(k)!Lineage(p)] = proc[p].next
    BY DEF V3!Publish, V3!At, V3Inv, Knows, ErrandTypes, V3!TypeOK, V3!ReceiptMatches, Decided
<1>2. /\ dirs' = dirs /\ dirs \subseteq k.Lineages
      /\ \A l \in k.Lineages : rec'[l] # None => l \in dirs'
      /\ rec' \in [k.Lineages -> V3(k)!Authority \cup {None}]
      /\ lock \in {None, p} /\ lock' \in {None, p} /\ lock' # p /\ V3(k)!KeepsTerminal
    BY <1>1 DEF V3Inv, V3!TypeOK, V3!KeepsTerminal, V3Bounds
<1>3. ASSUME NEW result \in {"approved", "escalated", "error"}, V3(k)!Ends(p, result),
             \/ receipt' = receipt
             \/ receipt' = [receipt EXCEPT ![V3(k)!Lineage(p)] = proc[p].next]
      PROVE  V3Inv(k)'
  <2> DEFINE new == [proc[p] EXCEPT !.at = "ended", !.result = result]
  <2>1. new \in Errands(k) /\ proc'[p] = new /\ new.at = "ended" /\ new.result = result
      BY <1>1, <1>3 DEF Errands, Spots, Outcomes, V3Inv, ErrandTypes, V3!Goes, V3!Ends
  <2>2. Knows(k, p)'
      BY <2>1 DEF Knows, V3!At
  <2>3. receipt' \in [k.Lineages -> V3(k)!Authority \cup {None}]
      BY <1>1, <1>3 DEF Decided
  <2>4. V3(k)!ReceiptMatches' /\ \A l \in k.Lineages : receipt[l] # None => receipt'[l] = receipt[l]
      BY <1>1, <1>3 DEF Decided, V3Inv, V3!ReceiptMatches
  <2> QED
      BY <1>1, <1>2, <1>3, <2>1, <2>2, <2>3, <2>4, LockedStep DEF V3!Ends
<1>4. CASE /\ receipt' = [receipt EXCEPT ![V3(k)!Lineage(p)] = IF @ = None THEN V3(k)!Bound(p) ELSE @]
           /\ V3(k)!Ends(p, IF receipt'[V3(k)!Lineage(p)] = V3(k)!Bound(p) THEN proc[p].read.state ELSE "differs")
  <2>1. receipt' = [receipt EXCEPT ![V3(k)!Lineage(p)] = proc[p].next] /\ receipt'[V3(k)!Lineage(p)] = V3(k)!Bound(p)
      BY <1>1, <1>4 DEF V3!Bound, Decided
  <2>2. V3(k)!Ends(p, proc[p].read.state) /\ proc[p].read.state \in {"approved", "escalated", "error"}
      BY <1>1, <1>4, <2>1 DEF Decided, V3!Terminal
  <2> QED
      BY <1>3, <2>1, <2>2
<1>5. CASE V3(k)!Ends(p, "error") /\ UNCHANGED receipt
    BY <1>3, <1>5
<1> QED
    BY <1>4, <1>5 DEF V3!Publish

LEMMA ErrandCrashes ==
    ASSUME NEW k, V3Bounds(k), V3Inv(k), NEW p \in k.Procs, V3(k)!Crash(p)
    PROVE  V3Inv(k)'
<1>1. /\ UNCHANGED <<dirs, rec, receipt, V3(k)!world>> /\ V3(k)!Goes(p, V3(k)!Idle)
      /\ lock' = IF lock = p THEN None ELSE lock
    BY DEF V3!Crash
<1>2. V3(k)!Idle \in Errands(k) /\ proc'[p] = V3(k)!Idle
    BY <1>1 DEF Errands, Spots, Outcomes, V3!Idle, V3Inv, ErrandTypes, V3!Goes
<1>3. Knows(k, p)'
    BY <1>2 DEF Knows, V3!At, V3!Idle
<1>4. CASE lock = p
  <2>1. lock \in {None, p} /\ lock' \in {None, p} /\ lock' # p
      BY <1>1, <1>4 DEF V3Bounds
  <2>3. (lock' = p <=> V3(k)!Idle.at \in {"rename", "link"}) /\ V3(k)!Idle.result \notin {"mismatch", "differs", "allow"}
      BY <2>1 DEF V3!Idle
  <2>2. /\ V3(k)!KeepsTerminal /\ V3(k)!ReceiptMatches' /\ dirs' = dirs /\ dirs \subseteq k.Lineages
        /\ \A l \in k.Lineages : rec'[l] # None => l \in dirs'
        /\ rec' \in [k.Lineages -> V3(k)!Authority \cup {None}] /\ receipt' \in [k.Lineages -> V3(k)!Authority \cup {None}]
        /\ \A l \in k.Lineages : receipt[l] # None => receipt'[l] = receipt[l]
        /\ dirs \subseteq dirs' /\ dirs' \subseteq k.Lineages /\ UNCHANGED V3(k)!world
      BY <1>1 DEF V3!KeepsTerminal, V3!ReceiptMatches, V3Inv, V3!TypeOK
  <2> QED
      BY <1>1, <1>2, <1>3, <2>1, <2>2, <2>3, LockedStep
<1>5. CASE lock # p
  <2>1. UNCHANGED V3(k)!store /\ proc[p].at \in Elsewhere
      BY <1>1, <1>5 DEF V3!store, Elsewhere, Spots, V3Inv, V3!TypeOK, ErrandTypes, Errands
  <2>2. tree' \in k.Candidates \cup {Clean} /\ legacy' \subseteq k.Candidates
      BY <1>1 DEF V3!world, V3Inv, V3!TypeOK
  <2> QED
      BY <1>1, <1>2, <1>3, <2>1, <2>2, QuietStep DEF V3!Idle, Elsewhere, Spots
<1> QED
    BY <1>4, <1>5

LEMMA ToggleStep == ASSUME NEW k, V3Inv(k), V3(k)!Toggle PROVE V3Inv(k)'
<1>1. UNCHANGED <<V3(k)!store, legacy, proc>> /\ tree' \in k.Candidates \cup {Clean}
    BY DEF V3!Toggle, V3Inv, V3!TypeOK
<1> QED
    BY <1>1 DEF V3Inv, V3!TypeOK, ErrandTypes, Knows, Carries, Decided, V3!At, V3!Lineage, V3!store,
                V3!ReceiptMatches, V3!NoMismatch, V3!AllowEarned

-----------------------------------------------------------------------------
(* The invariant is inductive, and no step takes a decision back.          *)
LEMMA LineageStep ==
    ASSUME NEW k, V3Bounds(k), V3Inv(k), [V3(k)!Next]_(V3(k)!vars)
    PROVE  V3Inv(k)' /\ V3(k)!KeepsTerminal
<1> USE DEF V3!store
<1>1. ASSUME rec' = rec PROVE V3(k)!KeepsTerminal
    BY <1>1 DEF V3!KeepsTerminal
<1>2. CASE V3(k)!Toggle
    BY <1>1, <1>2, ToggleStep DEF V3!Toggle
<1>3. ASSUME NEW p \in k.Procs, V3(k)!Command(p) PROVE V3Inv(k)' /\ V3(k)!KeepsTerminal
    BY <1>1, <1>3, CommandStep DEF V3!Command, V3!Start, V3!Gate, V3!Finalize, V3!StartLegacy, V3!GateUnmarked
<1>4. ASSUME NEW p \in k.Procs, V3(k)!Work(p) PROVE V3Inv(k)' /\ V3(k)!KeepsTerminal
    BY <1>1, <1>4, MutateStep, RenameStep, LoadStep, WriteReceiptStep, PublishStep, LiveStep, DecideStep
       DEF V3!Work, V3!Mutate, V3!Load, V3!WriteReceipt, V3!Publish, V3!Live, V3!Decide
<1>5. ASSUME NEW p \in k.Procs, V3(k)!Crash(p) PROVE V3Inv(k)' /\ V3(k)!KeepsTerminal
    BY <1>1, <1>5, ErrandCrashes DEF V3!Crash
<1>6. CASE UNCHANGED V3(k)!vars
    BY <1>1, <1>6 DEF V3!vars, V3!world, V3Inv, V3!TypeOK, ErrandTypes, Knows, Carries, Decided, V3!At, V3!Lineage,
                      V3!ReceiptMatches, V3!NoMismatch, V3!AllowEarned
<1> QED
    BY <1>2, <1>3, <1>4, <1>5, <1>6 DEF V3!Next

(* Everything about one lineage, from Init to any state.                   *)
THEOREM LineageInvariant == ASSUME NEW k, V3Bounds(k) PROVE V3(k)!Spec => []V3Inv(k)
<1>1. V3(k)!Init => V3Inv(k)
    BY LineageInit
<1>2. V3Inv(k) /\ [V3(k)!Next]_(V3(k)!vars) => V3Inv(k)'
    BY LineageStep
<1> QED
    BY <1>1, <1>2, PTL DEF V3!Spec

(* The stores are well formed and the lock is held by a command that is    *)
(* writing, and by no other (acquireStoreLock).                            *)
THEOREM LineageTypes == ASSUME NEW k, V3Bounds(k) PROVE V3(k)!Spec => []V3(k)!TypeOK
<1>1. V3Inv(k) => V3(k)!TypeOK
    BY DEF V3Inv
<1> QED
    BY <1>1, LineageInvariant, PTL

(* A receipt is for ever that of the record it was issued for (Mutate's    *)
(* compare-and-swap, WriteReceipt).                                        *)
THEOREM ReceiptAndRecordAgree == ASSUME NEW k, V3Bounds(k) PROVE V3(k)!Spec => []V3(k)!ReceiptMatches
<1>1. V3Inv(k) => V3(k)!ReceiptMatches
    BY DEF V3Inv
<1> QED
    BY <1>1, LineageInvariant, PTL

(* A finalize never refuses its own caller (WriteReceipt, publishImmutable)*)
THEOREM FinalizeNeverMismatches == ASSUME NEW k, V3Bounds(k) PROVE V3(k)!Spec => []V3(k)!NoMismatch
<1>1. V3Inv(k) => V3(k)!NoMismatch
    BY DEF V3Inv
<1> QED
    BY <1>1, LineageInvariant, PTL

(* The gate lets a candidate through as reviewed only with the published   *)
(* receipt of its approval (resolveGoverningAuthority).                    *)
THEOREM GateIsEarned == ASSUME NEW k, V3Bounds(k) PROVE V3(k)!Spec => []V3(k)!AllowEarned
<1>1. V3Inv(k) => V3(k)!AllowEarned
    BY DEF V3Inv
<1> QED
    BY <1>1, LineageInvariant, PTL

(* No step takes a decision back or gives a lineage another candidate      *)
(* (Expected, ReviewCore.finalize).                                        *)
THEOREM DecisionsAreKept == ASSUME NEW k, V3Bounds(k) PROVE V3(k)!Spec => V3(k)!TerminalFrozen
<1>1. V3Inv(k) /\ [V3(k)!Next]_(V3(k)!vars) => [V3(k)!KeepsTerminal]_rec
    BY LineageStep
<1> QED
    BY <1>1, LineageInvariant, PTL DEF V3!Spec, V3!TerminalFrozen

-----------------------------------------------------------------------------
LineageInv == part = "race" => V3Inv(Race)

LEMMA LineageInvHolds == ASSUME ModelValues PROVE Spec => []LineageInv
<1>1. V3Bounds(Race)
    BY DEF ModelValues, V3Bounds, Race
<1>2. Init => LineageInv
    BY <1>1, LineageInit DEF Init, LineageInv
<1>3. LineageInv /\ [Next]_vars => LineageInv'
  <2> SUFFICES ASSUME LineageInv, [Next]_vars PROVE LineageInv'
      OBVIOUS
  <2>1. part' = part /\ (part = "race" => [V3(Race)!Next]_(V3(Race)!vars))
      BY DEF Next, vars, lineage, store, V3!vars, V3!store, V3!world, V3!bounds
  <2>2. CASE part = "race"
      BY <1>1, <2>1, <2>2, LineageStep DEF LineageInv
  <2> QED
      BY <2>1, <2>2 DEF LineageInv
<1> QED
    BY <1>2, <1>3, PTL DEF Spec

(* Receipt, record and what the gate lets through agree, whatever two      *)
(* commands do at a time: AuthorityStore and resolveGoverningAuthority.    *)
THEOREM LineageIsSound == ASSUME ModelValues PROVE Spec => []LineageSound
<1>1. LineageInv => LineageSound
    BY DEF LineageInv, LineageSound, V3Inv
<1> QED
    BY <1>1, LineageInvHolds, PTL

-----------------------------------------------------------------------------
(* AuthorityGraph *)

LEMMA GraphSame ==
    /\ (Graph!Init <=> GraphP!Init) /\ (Graph!Next <=> GraphP!Next)
    /\ (Graph!TypeOK <=> GraphP!TypeOK) /\ (Graph!NeverForks <=> GraphP!NeverForks)
    /\ (Graph!NoTwins <=> GraphP!NoTwins) /\ (Graph!AnswersHold <=> GraphP!AnswersHold)
BY DEF Graph!store, GraphP!store, Graph!Lineages, GraphP!Lineages, Graph!States, GraphP!States, Graph!Dispositions,
       GraphP!Dispositions, Graph!NewRecord, GraphP!NewRecord, Graph!Idle, GraphP!Idle, Graph!Known, GraphP!Known,
       Graph!Children, GraphP!Children, Graph!Leaf, GraphP!Leaf, Graph!Leaves, GraphP!Leaves, Graph!Genesis,
       GraphP!Genesis, Graph!Expands, GraphP!Expands, Graph!Contracts, GraphP!Contracts, Graph!Recovers,
       GraphP!Recovers, Graph!ValidEdge, GraphP!ValidEdge, Graph!GraphValid, GraphP!GraphValid, Graph!SameScope,
       GraphP!SameScope, Graph!LiveMatches, GraphP!LiveMatches, Graph!CorrectionClaim, GraphP!CorrectionClaim,
       Graph!Recoverable, GraphP!Recoverable, Graph!ClaimsTarget, GraphP!ClaimsTarget, Graph!Claims, GraphP!Claims,
       Graph!Reusable, GraphP!Reusable, Graph!ClaimAnswer, GraphP!ClaimAnswer, Graph!ExplicitAnswer,
       GraphP!ExplicitAnswer, Graph!Say, GraphP!Say, Graph!AskedAnswer, GraphP!AskedAnswer, Graph!FoundAnswer,
       GraphP!FoundAnswer, Graph!StartAnswer, GraphP!StartAnswer, Graph!At, GraphP!At, Graph!Goes, GraphP!Goes,
       Graph!BeginStart, GraphP!BeginStart, Graph!StartLock, GraphP!StartLock, Graph!Inspect, GraphP!Inspect,
       Graph!Create, GraphP!Create, Graph!Return, GraphP!Return, Graph!BeginRecover, GraphP!BeginRecover, Graph!Links,
       GraphP!Links, Graph!Recover, GraphP!Recover, Graph!Finalized, GraphP!Finalized, Graph!Reopened, GraphP!Reopened,
       Graph!Invalidated, GraphP!Invalidated, Graph!BeginAdvance, GraphP!BeginAdvance, Graph!Advance, GraphP!Advance,
       Graph!WriteReceipt, GraphP!WriteReceipt, Graph!Revoke, GraphP!Revoke, Graph!Crash, GraphP!Crash, Graph!Edit,
       GraphP!Edit, Graph!Init, GraphP!Init, Graph!Work, GraphP!Work, Graph!Next, GraphP!Next, Graph!TypeOK,
       GraphP!TypeOK, Graph!NeverForks, GraphP!NeverForks, Graph!NoTwins, GraphP!NoTwins, Graph!AnswersHold,
       GraphP!AnswersHold, Graph!Cardinality, GraphP!Cardinality

LEMMA PairSame ==
    /\ (Pair!Init <=> PairP!Init) /\ (Pair!Next <=> PairP!Next)
    /\ (Pair!TypeOK <=> PairP!TypeOK) /\ (Pair!NoTwins <=> PairP!NoTwins)
    /\ (Pair!AnswersHold <=> PairP!AnswersHold)
BY DEF Pair!store, PairP!store, Pair!Lineages, PairP!Lineages, Pair!States, PairP!States, Pair!Dispositions,
       PairP!Dispositions, Pair!NewRecord, PairP!NewRecord, Pair!Idle, PairP!Idle, Pair!Known, PairP!Known,
       Pair!Children, PairP!Children, Pair!Leaf, PairP!Leaf, Pair!Leaves, PairP!Leaves, Pair!Genesis, PairP!Genesis,
       Pair!Expands, PairP!Expands, Pair!Contracts, PairP!Contracts, Pair!Recovers, PairP!Recovers, Pair!ValidEdge,
       PairP!ValidEdge, Pair!GraphValid, PairP!GraphValid, Pair!SameScope, PairP!SameScope, Pair!LiveMatches,
       PairP!LiveMatches, Pair!CorrectionClaim, PairP!CorrectionClaim, Pair!Recoverable, PairP!Recoverable,
       Pair!ClaimsTarget, PairP!ClaimsTarget, Pair!Claims, PairP!Claims, Pair!Reusable, PairP!Reusable,
       Pair!ClaimAnswer, PairP!ClaimAnswer, Pair!ExplicitAnswer, PairP!ExplicitAnswer, Pair!Say, PairP!Say,
       Pair!AskedAnswer, PairP!AskedAnswer, Pair!FoundAnswer, PairP!FoundAnswer, Pair!StartAnswer, PairP!StartAnswer,
       Pair!At, PairP!At, Pair!Goes, PairP!Goes, Pair!BeginStart, PairP!BeginStart, Pair!StartLock, PairP!StartLock,
       Pair!Inspect, PairP!Inspect, Pair!Create, PairP!Create, Pair!Return, PairP!Return, Pair!BeginRecover,
       PairP!BeginRecover, Pair!Links, PairP!Links, Pair!Recover, PairP!Recover, Pair!Finalized, PairP!Finalized,
       Pair!Reopened, PairP!Reopened, Pair!Invalidated, PairP!Invalidated, Pair!BeginAdvance, PairP!BeginAdvance,
       Pair!Advance, PairP!Advance, Pair!WriteReceipt, PairP!WriteReceipt, Pair!Revoke, PairP!Revoke, Pair!Crash,
       PairP!Crash, Pair!Edit, PairP!Edit, Pair!Init, PairP!Init, Pair!Work, PairP!Work, Pair!Next, PairP!Next,
       Pair!TypeOK, PairP!TypeOK, Pair!NoTwins, PairP!NoTwins, Pair!AnswersHold, PairP!AnswersHold, Pair!Cardinality,
       PairP!Cardinality

LEMMA ForkSame ==
    /\ (Fork!Next <=> ForkP!Next) /\ (Fork!NeverForks <=> ForkP!NeverForks)
    /\ (Fork!NoTwins <=> ForkP!NoTwins) /\ (Fork!AnswersHold <=> ForkP!AnswersHold)
BY DEF Fork!store, ForkP!store, Fork!Lineages, ForkP!Lineages, Fork!Dispositions, ForkP!Dispositions, Fork!NewRecord,
       ForkP!NewRecord, Fork!Idle, ForkP!Idle, Fork!Known, ForkP!Known, Fork!Children, ForkP!Children, Fork!Leaf,
       ForkP!Leaf, Fork!Leaves, ForkP!Leaves, Fork!Genesis, ForkP!Genesis, Fork!Expands, ForkP!Expands, Fork!Contracts,
       ForkP!Contracts, Fork!Recovers, ForkP!Recovers, Fork!ValidEdge, ForkP!ValidEdge, Fork!GraphValid,
       ForkP!GraphValid, Fork!SameScope, ForkP!SameScope, Fork!LiveMatches, ForkP!LiveMatches, Fork!CorrectionClaim,
       ForkP!CorrectionClaim, Fork!Recoverable, ForkP!Recoverable, Fork!ClaimsTarget, ForkP!ClaimsTarget, Fork!Claims,
       ForkP!Claims, Fork!Reusable, ForkP!Reusable, Fork!ClaimAnswer, ForkP!ClaimAnswer, Fork!ExplicitAnswer,
       ForkP!ExplicitAnswer, Fork!Say, ForkP!Say, Fork!AskedAnswer, ForkP!AskedAnswer, Fork!FoundAnswer,
       ForkP!FoundAnswer, Fork!StartAnswer, ForkP!StartAnswer, Fork!At, ForkP!At, Fork!Goes, ForkP!Goes,
       Fork!BeginStart, ForkP!BeginStart, Fork!StartLock, ForkP!StartLock, Fork!Inspect, ForkP!Inspect, Fork!Create,
       ForkP!Create, Fork!Return, ForkP!Return, Fork!BeginRecover, ForkP!BeginRecover, Fork!Links, ForkP!Links,
       Fork!Recover, ForkP!Recover, Fork!Finalized, ForkP!Finalized, Fork!Reopened, ForkP!Reopened, Fork!Invalidated,
       ForkP!Invalidated, Fork!BeginAdvance, ForkP!BeginAdvance, Fork!Advance, ForkP!Advance, Fork!WriteReceipt,
       ForkP!WriteReceipt, Fork!Revoke, ForkP!Revoke, Fork!Crash, ForkP!Crash, Fork!Edit, ForkP!Edit, Fork!Work,
       ForkP!Work, Fork!Next, ForkP!Next, Fork!NeverForks, ForkP!NeverForks, Fork!NoTwins, ForkP!NoTwins,
       Fork!AnswersHold, ForkP!AnswersHold, Fork!Cardinality, ForkP!Cardinality

(* The store two commands fork from: one lineage, whose correction left    *)
(* the scope.                                                              *)
LEMMA ForkStarts == ASSUME ModelValues, ForkInit PROVE ForkP!GraphInv
<1>1. /\ Left \in ForkP!Records /\ Left.pred = None
      /\ Fork!Lineages = ForkP!Lineages /\ cand1 \in ForkP!Lineages /\ Fork!Idle = ForkP!Idle
  <2>1. PICK r \in ForkP!Records : r = Fork!NewRecord(cand1)
    <3>1. Fork!NewRecord(cand1) \in ForkP!Records
        BY DEF Fork!NewRecord, ForkP!Records, ForkP!States
    <3> QED
        BY <3>1
  <2>2. PICK s \in ForkP!Records : s = [r EXCEPT !.state = "correction_required"]
      BY DEF ForkP!Records, ForkP!States
  <2>3. Left = [s EXCEPT !.rev = 2]
      BY <2>1, <2>2 DEF Left
  <2>4. Left \in ForkP!Records
      BY <2>3 DEF ForkP!Records
  <2>5. r.pred = None
      BY <2>1 DEF Fork!NewRecord
  <2>6. s.pred = r.pred
      BY <2>2 DEF ForkP!Records
  <2>7. Left.pred = s.pred
      BY <2>3 DEF ForkP!Records
  <2> QED
      BY <2>4, <2>5, <2>6, <2>7 DEF Fork!Lineages, Fork!Idle, ForkP!Lineages, ForkP!Idle
<1>2. Left # None /\ None \notin {proc1, proc2}
    BY <1>1 DEF ModelValues
<1>3. ForkP!Types
    BY <1>1 DEF ForkInit, ForkP!Types, ForkP!StoreTypes, ForkP!Jobs, ForkP!Idle
<1>4. ForkP!Known = {cand1} /\ rec[cand1] = Left
    BY <1>1, <1>2 DEF ForkInit, ForkP!Known
<1>5. \A p \in {proc1, proc2} : ForkP!Knows(p)
    BY <1>1, <1>2 DEF ForkInit, ForkP!Knows, ForkP!Idle
<1>6. ForkP!NeverForks /\ ForkP!NoTwins
    BY <1>1, <1>4 DEF ForkP!NeverForks, ForkP!NoTwins, ForkP!Leaves
<1> QED
    BY <1>3, <1>5, <1>6 DEF ForkP!GraphInv

StoresInv == /\ part = "graph" => GraphP!GraphInv
             /\ part = "pair" => PairP!GraphInv
             /\ part = "fork" => ForkP!GraphInv

LEMMA StoresInvHolds == ASSUME ModelValues PROVE Spec => []StoresInv
<1>1. GraphP!Bounds /\ PairP!Bounds /\ ForkP!Bounds
    BY DEF ModelValues, GraphP!Bounds, PairP!Bounds, ForkP!Bounds
<1>2. Init => StoresInv
    BY <1>1, GraphSame, PairSame, ForkStarts, GraphP!GraphInit, PairP!GraphInit DEF Init, StoresInv
<1>3. StoresInv /\ [Next]_vars => StoresInv'
  <2> SUFFICES ASSUME StoresInv, [Next]_vars PROVE StoresInv'
      OBVIOUS
  <2>1. /\ part' = part
        /\ part = "graph" => Graph!Next \/ UNCHANGED GraphP!vars
        /\ part = "pair" => Pair!Next \/ UNCHANGED PairP!vars
        /\ part = "fork" => Fork!Next \/ UNCHANGED ForkP!vars
      BY DEF Next, vars, store, GraphP!vars, PairP!vars, ForkP!vars
  <2>2. CASE part = "graph"
    <3>1. GraphP!GraphInv /\ (GraphP!Next \/ UNCHANGED GraphP!vars)
        BY <2>1, <2>2, GraphSame DEF StoresInv
    <3> QED
        BY <1>1, <2>1, <2>2, <3>1, GraphP!GraphStep DEF StoresInv
  <2>3. CASE part = "pair"
    <3>1. PairP!GraphInv /\ (PairP!Next \/ UNCHANGED PairP!vars)
        BY <2>1, <2>3, PairSame DEF StoresInv
    <3> QED
        BY <1>1, <2>1, <2>3, <3>1, PairP!GraphStep DEF StoresInv
  <2>4. CASE part = "fork"
    <3>1. ForkP!GraphInv /\ (ForkP!Next \/ UNCHANGED ForkP!vars)
        BY <2>1, <2>4, ForkSame DEF StoresInv
    <3> QED
        BY <1>1, <2>1, <2>4, <3>1, ForkP!GraphStep DEF StoresInv
  <2> QED
      BY <2>1, <2>2, <2>3, <2>4 DEF StoresInv
<1> QED
    BY <1>2, <1>3, PTL DEF Spec

(* No fork, and no two leaves for one candidate, also when two commands    *)
(* start from a correction that left its scope: START, RECOVER.            *)
THEOREM GraphIsSound == ASSUME ModelValues PROVE Spec => []GraphSound
<1>1. GraphP!Bounds /\ PairP!Bounds /\ ForkP!Bounds
    BY DEF ModelValues, GraphP!Bounds, PairP!Bounds, ForkP!Bounds
<1>2. StoresInv => GraphSound
    BY <1>1, GraphSame, PairSame, ForkSame, GraphP!GraphTyped, PairP!GraphTyped
    DEF StoresInv, GraphSound, GraphP!GraphInv, PairP!GraphInv, ForkP!GraphInv
<1> QED
    BY <1>2, StoresInvHolds, PTL

-----------------------------------------------------------------------------
(* ReviewerCapture *)

LEMMA CaptureSame ==
    /\ (Capture!Init <=> CaptureP!Init) /\ (Capture!Next <=> CaptureP!Next)
    /\ (Capture!TypeOK <=> CaptureP!TypeOK) /\ (Capture!VerdictOnDisk <=> CaptureP!VerdictOnDisk)
    /\ (Capture!DisposedIsEmpty <=> CaptureP!DisposedIsEmpty) /\ (Capture!CaptureConverges <=> CaptureP!CaptureConverges)
    /\ (Capture!ToldIsKept <=> CaptureP!ToldIsKept) /\ (Capture!LeavesForArchive <=> CaptureP!LeavesForArchive)
BY DEF Capture!Results, CaptureP!Results, Capture!Idle, CaptureP!Idle, Capture!Done, CaptureP!Done, Capture!At,
       CaptureP!At, Capture!Goto, CaptureP!Goto, Capture!CondemnedBy, CaptureP!CondemnedBy, Capture!Quarantined,
       CaptureP!Quarantined, Capture!Retained, CaptureP!Retained, Capture!ArchivedUnder, CaptureP!ArchivedUnder,
       Capture!Init, CaptureP!Init, Capture!BeginCapture, CaptureP!BeginCapture, Capture!BoundTo, CaptureP!BoundTo,
       Capture!TakeLock, CaptureP!TakeLock, Capture!GiveUp, CaptureP!GiveUp, Capture!Held, CaptureP!Held,
       Capture!Place, CaptureP!Place, Capture!MayPublish, CaptureP!MayPublish, Capture!Fail, CaptureP!Fail,
       Capture!Condemned, CaptureP!Condemned, Capture!Archivable, CaptureP!Archivable, Capture!Matches,
       CaptureP!Matches, Capture!Prepare, CaptureP!Prepare, Capture!Seal, CaptureP!Seal, Capture!Clear, CaptureP!Clear,
       Capture!Compatible, CaptureP!Compatible, Capture!Publish, CaptureP!Publish, Capture!PublishDigest,
       CaptureP!PublishDigest, Capture!Answer, CaptureP!Answer, Capture!BeginFinalize, CaptureP!BeginFinalize,
       Capture!Usable, CaptureP!Usable, Capture!ReadSlot, CaptureP!ReadSlot, Capture!Verdicts, CaptureP!Verdicts,
       Capture!CompleteReview, CaptureP!CompleteReview, Capture!Approve, CaptureP!Approve, Capture!Readable,
       CaptureP!Readable, Capture!Trusted, CaptureP!Trusted, Capture!Classified, CaptureP!Classified,
       Capture!BeginReopen, CaptureP!BeginReopen, Capture!Reopened, CaptureP!Reopened, Capture!CommitReopen,
       CaptureP!CommitReopen, Capture!Uncaptured, CaptureP!Uncaptured, Capture!BeginDispose, CaptureP!BeginDispose,
       Capture!Disposable, CaptureP!Disposable, Capture!CommitDispose, CaptureP!CommitDispose, Capture!Crash,
       CaptureP!Crash, Capture!CaptureStep, CaptureP!CaptureStep, Capture!Next, CaptureP!Next, Capture!TypeOK,
       CaptureP!TypeOK, Capture!VerdictOnDisk, CaptureP!VerdictOnDisk, Capture!DisposedIsEmpty,
       CaptureP!DisposedIsEmpty, Capture!CaptureConverges, CaptureP!CaptureConverges, Capture!ToldIsKept,
       CaptureP!ToldIsKept, Capture!LeavesForArchive, CaptureP!LeavesForArchive

LEMMA CutSame ==
    /\ (Cut!Init <=> CutP!Init) /\ (Cut!Next <=> CutP!Next)
    /\ (Cut!VerdictOnDisk <=> CutP!VerdictOnDisk) /\ (Cut!CaptureConverges <=> CutP!CaptureConverges)
    /\ (Cut!ToldIsKept <=> CutP!ToldIsKept) /\ (Cut!LeavesForArchive <=> CutP!LeavesForArchive)
BY DEF Cut!Idle, CutP!Idle, Cut!Done, CutP!Done, Cut!At, CutP!At, Cut!Goto,
       CutP!Goto, Cut!CondemnedBy, CutP!CondemnedBy, Cut!Quarantined, CutP!Quarantined,
       Cut!Retained, CutP!Retained, Cut!ArchivedUnder, CutP!ArchivedUnder, Cut!Init,
       CutP!Init, Cut!BeginCapture, CutP!BeginCapture, Cut!BoundTo, CutP!BoundTo,
       Cut!TakeLock, CutP!TakeLock, Cut!GiveUp, CutP!GiveUp, Cut!Held, CutP!Held,
       Cut!Place, CutP!Place, Cut!MayPublish, CutP!MayPublish, Cut!Fail, CutP!Fail,
       Cut!Condemned, CutP!Condemned, Cut!Archivable, CutP!Archivable, Cut!Matches,
       CutP!Matches, Cut!Prepare, CutP!Prepare, Cut!Seal, CutP!Seal, Cut!Clear,
       CutP!Clear, Cut!Compatible, CutP!Compatible, Cut!Publish, CutP!Publish,
       Cut!PublishDigest, CutP!PublishDigest, Cut!Answer, CutP!Answer, Cut!BeginFinalize,
       CutP!BeginFinalize, Cut!Usable, CutP!Usable, Cut!ReadSlot, CutP!ReadSlot,
       Cut!Verdicts, CutP!Verdicts, Cut!CompleteReview, CutP!CompleteReview, Cut!Approve,
       CutP!Approve, Cut!Readable, CutP!Readable, Cut!Trusted, CutP!Trusted,
       Cut!Classified, CutP!Classified, Cut!BeginReopen, CutP!BeginReopen, Cut!Reopened,
       CutP!Reopened, Cut!CommitReopen, CutP!CommitReopen, Cut!Uncaptured,
       CutP!Uncaptured, Cut!BeginDispose, CutP!BeginDispose, Cut!Disposable,
       CutP!Disposable, Cut!CommitDispose, CutP!CommitDispose, Cut!Crash, CutP!Crash,
       Cut!CaptureStep, CutP!CaptureStep, Cut!Next, CutP!Next, Cut!VerdictOnDisk,
       CutP!VerdictOnDisk, Cut!CaptureConverges, CutP!CaptureConverges, Cut!ToldIsKept,
       CutP!ToldIsKept, Cut!LeavesForArchive, CutP!LeavesForArchive

LEMMA RecaptureSame ==
    /\ (Recapture!Init <=> RecaptureP!Init) /\ (Recapture!Next <=> RecaptureP!Next)
    /\ (Recapture!VerdictOnDisk <=> RecaptureP!VerdictOnDisk) /\ (Recapture!CaptureConverges <=> RecaptureP!CaptureConverges)
    /\ (Recapture!ToldIsKept <=> RecaptureP!ToldIsKept) /\ (Recapture!LeavesForArchive <=> RecaptureP!LeavesForArchive)
BY DEF Recapture!Idle, RecaptureP!Idle, Recapture!Done, RecaptureP!Done, Recapture!At, RecaptureP!At, Recapture!Goto,
       RecaptureP!Goto, Recapture!CondemnedBy, RecaptureP!CondemnedBy, Recapture!Quarantined, RecaptureP!Quarantined,
       Recapture!Retained, RecaptureP!Retained, Recapture!ArchivedUnder, RecaptureP!ArchivedUnder, Recapture!Init,
       RecaptureP!Init, Recapture!BeginCapture, RecaptureP!BeginCapture, Recapture!BoundTo, RecaptureP!BoundTo,
       Recapture!TakeLock, RecaptureP!TakeLock, Recapture!GiveUp, RecaptureP!GiveUp, Recapture!Held, RecaptureP!Held,
       Recapture!Place, RecaptureP!Place, Recapture!MayPublish, RecaptureP!MayPublish, Recapture!Fail, RecaptureP!Fail,
       Recapture!Condemned, RecaptureP!Condemned, Recapture!Archivable, RecaptureP!Archivable, Recapture!Matches,
       RecaptureP!Matches, Recapture!Prepare, RecaptureP!Prepare, Recapture!Seal, RecaptureP!Seal, Recapture!Clear,
       RecaptureP!Clear, Recapture!Compatible, RecaptureP!Compatible, Recapture!Publish, RecaptureP!Publish,
       Recapture!PublishDigest, RecaptureP!PublishDigest, Recapture!Answer, RecaptureP!Answer, Recapture!BeginFinalize,
       RecaptureP!BeginFinalize, Recapture!Usable, RecaptureP!Usable, Recapture!ReadSlot, RecaptureP!ReadSlot,
       Recapture!Verdicts, RecaptureP!Verdicts, Recapture!CompleteReview, RecaptureP!CompleteReview, Recapture!Approve,
       RecaptureP!Approve, Recapture!Readable, RecaptureP!Readable, Recapture!Trusted, RecaptureP!Trusted,
       Recapture!Classified, RecaptureP!Classified, Recapture!BeginReopen, RecaptureP!BeginReopen, Recapture!Reopened,
       RecaptureP!Reopened, Recapture!CommitReopen, RecaptureP!CommitReopen, Recapture!Uncaptured,
       RecaptureP!Uncaptured, Recapture!BeginDispose, RecaptureP!BeginDispose, Recapture!Disposable,
       RecaptureP!Disposable, Recapture!CommitDispose, RecaptureP!CommitDispose, Recapture!Crash, RecaptureP!Crash,
       Recapture!CaptureStep, RecaptureP!CaptureStep, Recapture!Next, RecaptureP!Next, Recapture!VerdictOnDisk,
       RecaptureP!VerdictOnDisk, Recapture!CaptureConverges, RecaptureP!CaptureConverges, Recapture!ToldIsKept,
       RecaptureP!ToldIsKept, Recapture!LeavesForArchive, RecaptureP!LeavesForArchive

ResultsInv == /\ part = "capture" => CaptureP!CaptureInv
              /\ part = "cut" => CutP!CaptureInv
              /\ part = "recapture" => RecaptureP!CaptureInv

LEMMA ResultsInvHolds == ASSUME ModelValues PROVE Spec => []ResultsInv
<1>1. CaptureP!Bounds /\ CutP!Bounds /\ RecaptureP!Bounds
    BY DEF ModelValues, CaptureP!Bounds, CutP!Bounds, RecaptureP!Bounds
<1>2. Init => ResultsInv
    BY <1>1, CaptureSame, CutSame, RecaptureSame, CaptureP!ResultsInit, CutP!ResultsInit, RecaptureP!ResultsInit
    DEF Init, ResultsInv
<1>3. ResultsInv /\ [Next]_vars => ResultsInv'
  <2> SUFFICES ASSUME ResultsInv, [Next]_vars PROVE ResultsInv'
      OBVIOUS
  <2>1. /\ part' = part
        /\ part = "capture" => Capture!Next \/ UNCHANGED CaptureP!vars
        /\ part = "cut" => Cut!Next \/ UNCHANGED CutP!vars
        /\ part = "recapture" => Recapture!Next \/ UNCHANGED RecaptureP!vars
      BY DEF Next, vars, results, CaptureP!vars, CutP!vars, RecaptureP!vars
  <2>2. CASE part = "capture"
    <3>1. CaptureP!CaptureInv /\ (CaptureP!Next \/ UNCHANGED CaptureP!vars)
        BY <2>1, <2>2, CaptureSame DEF ResultsInv
    <3> QED
        BY <1>1, <2>1, <2>2, <3>1, CaptureP!ResultsStep DEF ResultsInv
  <2>3. CASE part = "recapture"
    <3>1. RecaptureP!CaptureInv /\ (RecaptureP!Next \/ UNCHANGED RecaptureP!vars)
        BY <2>1, <2>3, RecaptureSame DEF ResultsInv
    <3> QED
        BY <1>1, <2>1, <2>3, <3>1, RecaptureP!ResultsStep DEF ResultsInv
  <2>4. CASE part = "cut"
    <3>1. CutP!CaptureInv /\ (CutP!Next \/ UNCHANGED CutP!vars)
        BY <2>1, <2>4, CutSame DEF ResultsInv
    <3> QED
        BY <1>1, <2>1, <2>4, <3>1, CutP!ResultsStep DEF ResultsInv
  <2> QED
      BY <2>1, <2>2, <2>3, <2>4 DEF ResultsInv
<1> QED
    BY <1>2, <1>3, PTL DEF Spec

(* Verdicts rest on results that are there and were not condemned,         *)
(* disposed lenses have none, a capture can go on wherever another         *)
(* stopped, and what a command was told is kept.                           *)
THEOREM ResultsAreSound == ASSUME ModelValues PROVE Spec => []CaptureSound
<1>1. CaptureP!Bounds /\ CutP!Bounds /\ RecaptureP!Bounds
    BY DEF ModelValues, CaptureP!Bounds, CutP!Bounds, RecaptureP!Bounds
<1>2. ResultsInv => CaptureSound
    BY <1>1, CaptureSame, CutSame, RecaptureSame, CaptureP!ToldFromKnows, CutP!ToldFromKnows, RecaptureP!ToldFromKnows
    DEF ResultsInv, CaptureSound, CaptureP!CaptureInv, CutP!CaptureInv, RecaptureP!CaptureInv
<1> QED
    BY <1>2, ResultsInvHolds, PTL

-----------------------------------------------------------------------------
(* UserState *)

(* What holds of the record, for any agents, bounds and commands.          *)
LEMMA StateHolds ==
    ASSUME NEW A, NEW B, NEW F, NEW C, StateBounds(A, B, F, C)
    PROVE  State(A, B, F, C)!Spec => []StateInv(A, B, F, C)
<1>1. State(A, B, F, C)!Init => StateInv(A, B, F, C)
    BY StateStarts
<1>2. StateInv(A, B, F, C) /\ [State(A, B, F, C)!Next]_(State(A, B, F, C)!vars) => StateInv(A, B, F, C)'
    BY StateStep, StateStutters DEF State!vars
<1> QED
    BY <1>1, <1>2, PTL DEF State!Spec

(* A binary that was replaced is never left with the old assets while      *)
(* nothing says so, whatever commands but the explicit upgrade follow each *)
(* other (the pending flag of selfupdate.go and app.go).                   *)
THEOREM SyncIsNeverForgotten ==
    ASSUME NEW A, NEW B, NEW F, NEW C, StateBounds(A, B, F, C), F = 0, "upgrade" \notin C
    PROVE  State(A, B, F, C)!Spec => []State(A, B, F, C)!UpgradeIsSynced
<1>1. StateInv(A, B, F, C) => State(A, B, F, C)!UpgradeIsSynced
    BY DEF StateInv
<1> QED
    BY <1>1, StateHolds, PTL

(* Once the user set the kill switch the record says how, while no full    *)
(* install replaces it (state.go on RDDMode).                              *)
THEOREM ChoiceIsRecorded ==
    ASSUME NEW A, NEW B, NEW F, NEW C, StateBounds(A, B, F, C), "install" \notin C
    PROVE  State(A, B, F, C)!Spec => []State(A, B, F, C)!EmptyMeansNeverAsked
<1>1. StateInv(A, B, F, C) => State(A, B, F, C)!EmptyMeansNeverAsked
    BY StateTypes
<1> QED
    BY <1>1, StateHolds, PTL

(* A command changes the fields that are its business and no other, and    *)
(* only a full install replaces a file that cannot be read                 *)
(* (state.MergeAgents, the read-modify-write of each command and its       *)
(* no-clobber guard).                                                      *)
THEOREM MergesKeepTheRest ==
    ASSUME NEW A, NEW B, NEW F, NEW C, StateBounds(A, B, F, C)
    PROVE  State(A, B, F, C)!Spec => [][State(A, B, F, C)!KeepsOthersFields /\ State(A, B, F, C)!KeepsUnreadable]_(State(A, B, F, C)!vars)
<1>1. StateInv(A, B, F, C) /\ [State(A, B, F, C)!Next]_(State(A, B, F, C)!vars) => [State(A, B, F, C)!KeepsOthersFields /\ State(A, B, F, C)!KeepsUnreadable]_(State(A, B, F, C)!vars)
    BY StateStep
<1> QED
    BY <1>1, StateHolds, PTL DEF State!Spec

LEMMA MergeSame ==
    /\ (Merge!Init <=> State({a1, a2}, 3, 0, Merging)!Init)
    /\ (Merge!Next <=> State({a1, a2}, 3, 0, Merging)!Next)
    /\ (Merge!TypeOK <=> State({a1, a2}, 3, 0, Merging)!TypeOK)
    /\ (Merge!UpgradeIsSynced <=> State({a1, a2}, 3, 0, Merging)!UpgradeIsSynced)
    /\ (Merge!EmptyMeansNeverAsked <=> State({a1, a2}, 3, 0, Merging)!EmptyMeansNeverAsked)
    /\ (Merge!KeepsOthersFields <=> State({a1, a2}, 3, 0, Merging)!KeepsOthersFields)
BY DEF Merge!Modes, State!Modes, Merge!Records, State!Records, Merge!Zero, State!Zero, Merge!Readable, State!Readable,
       Merge!Read, State!Read, Merge!Idle, State!Idle, Merge!Seen, State!Seen, Merge!Args, State!Args, Merge!Entry,
       State!Entry, Merge!AfterWork, State!AfterWork, Merge!Go, State!Go, Merge!Init, State!Init, Merge!Begin,
       State!Begin, Merge!Open, State!Open, Merge!SyncRead, State!SyncRead, Merge!Work, State!Work, Merge!Migrate,
       State!Migrate, Merge!Replace, State!Replace, Merge!ReadsOn, State!ReadsOn, Merge!ReadBack, State!ReadBack,
       Merge!Fresh, State!Fresh, Merge!MergeAgents, State!MergeAgents, Merge!Written, State!Written, Merge!Write,
       State!Write, Merge!Crash, State!Crash, Merge!Damage, State!Damage, Merge!Step, State!Step, Merge!Next,
       State!Next, Merge!TypeOK, State!TypeOK, Merge!Owners, State!Owners, Merge!KeepsOthersFields,
       State!KeepsOthersFields, Merge!UpgradeIsSynced, State!UpgradeIsSynced, Merge!EmptyMeansNeverAsked,
       State!EmptyMeansNeverAsked, Merging

LEMMA DamageSame ==
    /\ (Damage!Init <=> State({a1, a2}, 2, 2, Merging \cup {"install"})!Init)
    /\ (Damage!Next <=> State({a1, a2}, 2, 2, Merging \cup {"install"})!Next)
    /\ (Damage!KeepsUnreadable <=> State({a1, a2}, 2, 2, Merging \cup {"install"})!KeepsUnreadable)
BY DEF Damage!Modes, State!Modes, Damage!Records, State!Records, Damage!Zero, State!Zero, Damage!Readable,
       State!Readable, Damage!Read, State!Read, Damage!Idle, State!Idle, Damage!Seen, State!Seen, Damage!Args,
       State!Args, Damage!Entry, State!Entry, Damage!AfterWork, State!AfterWork, Damage!Go, State!Go, Damage!Init,
       State!Init, Damage!Begin, State!Begin, Damage!Open, State!Open, Damage!SyncRead, State!SyncRead, Damage!Work,
       State!Work, Damage!Migrate, State!Migrate, Damage!Replace, State!Replace, Damage!ReadsOn, State!ReadsOn,
       Damage!ReadBack, State!ReadBack, Damage!Fresh, State!Fresh, Damage!MergeAgents, State!MergeAgents,
       Damage!Written, State!Written, Damage!Write, State!Write, Damage!Crash, State!Crash, Damage!Damage,
       State!Damage, Damage!Step, State!Step, Damage!Next, State!Next, Damage!KeepsUnreadable, State!KeepsUnreadable,
       Merging

RecordInv == /\ part = "merge" => StateInv({a1, a2}, 3, 0, Merging)
             /\ part = "damage" => StateInv({a1, a2}, 2, 2, Merging \cup {"install"})

LEMMA RecordBounds ==
    ASSUME ModelValues
    PROVE  StateBounds({a1, a2}, 3, 0, Merging) /\ StateBounds({a1, a2}, 2, 2, Merging \cup {"install"})
BY DEF ModelValues, StateBounds, Merging, Merge!Records, Merge!Modes, State!Records, State!Modes

LEMMA RecordInvHolds == ASSUME ModelValues PROVE Spec => []RecordInv
<1>1. Init => RecordInv
    BY RecordBounds, MergeSame, DamageSame, StateStarts DEF Init, RecordInv
<1>2. RecordInv /\ [Next]_vars => RecordInv'
  <2> SUFFICES ASSUME RecordInv, [Next]_vars PROVE RecordInv'
      OBVIOUS
  <2>1. /\ part' = part
        /\ part = "merge" => Merge!Next \/ UNCHANGED <<file, binary, assets, proc, chosen, faults>>
        /\ part = "damage" => Damage!Next \/ UNCHANGED <<file, binary, assets, proc, chosen, faults>>
      BY DEF Next, vars, record
  <2>2. CASE part = "merge"
    <3>1. StateInv({a1, a2}, 3, 0, Merging)'
        BY <2>1, <2>2, RecordBounds, MergeSame, StateStep, StateStutters DEF RecordInv
    <3> QED
        BY <2>1, <2>2, <3>1 DEF RecordInv
  <2>3. CASE part = "damage"
    <3>1. StateInv({a1, a2}, 2, 2, Merging \cup {"install"})'
        BY <2>1, <2>3, RecordBounds, DamageSame, StateStep, StateStutters DEF RecordInv
    <3> QED
        BY <2>1, <2>3, <3>1 DEF RecordInv
  <2> QED
      BY <2>1, <2>2, <2>3 DEF RecordInv
<1> QED
    BY <1>1, <1>2, PTL DEF Spec

(* The record says when a sync is owed and what the user chose: the        *)
(* commands that write state.json one after the other.                     *)
THEOREM RecordIsSound == ASSUME ModelValues PROVE Spec => []RecordSound
<1>1. RecordInv => RecordSound
  <2> SUFFICES ASSUME RecordInv, part = "merge"
               PROVE  Merge!TypeOK /\ Merge!UpgradeIsSynced /\ Merge!EmptyMeansNeverAsked
      BY DEF RecordSound
  <2>1. StateInv({a1, a2}, 3, 0, Merging) /\ StateBounds({a1, a2}, 3, 0, Merging) /\ {"install", "upgrade"} \cap Merging = {}
      BY RecordBounds DEF RecordInv, Merging
  <2>2. State({a1, a2}, 3, 0, Merging)!TypeOK /\ State({a1, a2}, 3, 0, Merging)!EmptyMeansNeverAsked
      BY <2>1, StateTypes
  <2>3. State({a1, a2}, 3, 0, Merging)!UpgradeIsSynced
      BY <2>1 DEF StateInv
  <2> QED
      BY <2>2, <2>3, MergeSame
<1> QED
    BY <1>1, RecordInvHolds, PTL

-----------------------------------------------------------------------------
(* Steps *)

(* No step takes back a field of another command, a record nobody could    *)
(* read, a published choice or a decision; what START answers holds; no    *)
(* result leaves its slot but condemned and archived.                      *)
THEOREM StepsAreSound == ASSUME ModelValues PROVE Spec => AuthoritySteps
<1> DEFINE Steps == /\ part = "merge" => Merge!KeepsOthersFields
                    /\ part = "damage" => Damage!KeepsUnreadable
                    /\ part = "clone" => Mode(Clone)!KeepsGenerations
                    /\ part = "race" => V3(Race)!KeepsTerminal
                    /\ part = "graph" => Graph!AnswersHold
                    /\ part = "pair" => Pair!AnswersHold
                    /\ part = "fork" => Fork!AnswersHold
                    /\ part = "capture" => Capture!LeavesForArchive
                    /\ part = "cut" => Cut!LeavesForArchive
                    /\ part = "recapture" => Recapture!LeavesForArchive
<1>1. /\ ModeBounds(Clone) /\ V3Bounds(Race) /\ GraphP!Bounds /\ PairP!Bounds /\ ForkP!Bounds
      /\ CaptureP!Bounds /\ CutP!Bounds /\ RecaptureP!Bounds
    BY DEF ModelValues, ModeBounds, Clone, V3Bounds, Race, GraphP!Bounds, PairP!Bounds, ForkP!Bounds,
           CaptureP!Bounds, CutP!Bounds, RecaptureP!Bounds
<1>2. RecordInv /\ SwitchInv /\ LineageInv /\ StoresInv /\ ResultsInv /\ [Next]_vars => [Steps]_vars
  <2> SUFFICES ASSUME RecordInv, SwitchInv, LineageInv, StoresInv, ResultsInv, Next, vars' # vars PROVE Steps
      OBVIOUS
  <2>1. ASSUME part = "merge" PROVE Merge!KeepsOthersFields
    <3>1. Merge!Next
        BY <2>1 DEF Next
    <3> QED
        BY <2>1, <3>1, RecordBounds, MergeSame, StateStep DEF RecordInv
  <2>2. ASSUME part = "damage" PROVE Damage!KeepsUnreadable
    <3>1. Damage!Next
        BY <2>2 DEF Next
    <3> QED
        BY <2>2, <3>1, RecordBounds, DamageSame, StateStep DEF RecordInv
  <2>3. ASSUME part = "clone" PROVE Mode(Clone)!KeepsGenerations
    <3>1. Mode(Clone)!Next /\ ModeInv(Clone)
        BY <2>3 DEF Next, SwitchInv, CloneInv
    <3>2. Mode(Clone)!KeepsGenerations \/ UNCHANGED slots
        BY <1>1, <3>1, ModeStep
    <3>3. UNCHANGED slots => Mode(Clone)!KeepsGenerations
        BY <3>1 DEF Mode!KeepsGenerations, ModeInv, Mode!TypeOK
    <3> QED
        BY <3>2, <3>3
  <2>4. ASSUME part = "race" PROVE V3(Race)!KeepsTerminal
    <3>1. V3(Race)!Next /\ V3Inv(Race)
        BY <2>4 DEF Next, LineageInv
    <3> QED
        BY <1>1, <3>1, LineageStep
  <2>5. ASSUME part = "graph" PROVE Graph!AnswersHold
    <3>1. GraphP!Next /\ GraphP!GraphInv
        BY <2>5, GraphSame DEF Next, StoresInv
    <3> QED
        BY <1>1, <3>1, GraphSame, GraphP!GraphStep
  <2>6. ASSUME part = "pair" PROVE Pair!AnswersHold
    <3>1. PairP!Next /\ PairP!GraphInv
        BY <2>6, PairSame DEF Next, StoresInv
    <3> QED
        BY <1>1, <3>1, PairSame, PairP!GraphStep
  <2>7. ASSUME part = "capture" PROVE Capture!LeavesForArchive
    <3>1. CaptureP!Next /\ CaptureP!CaptureInv /\ UNCHANGED <<part, record, switch, lineage, store, edits>>
        BY <2>7, CaptureSame DEF Next, ResultsInv
    <3>2. ~UNCHANGED CaptureP!vars
        BY <3>1 DEF vars, CaptureP!vars, results
    <3> QED
        BY <1>1, <3>1, <3>2, CaptureSame, CaptureP!ResultsStep
  <2>8. ASSUME part = "recapture" PROVE Recapture!LeavesForArchive
    <3>1. RecaptureP!Next /\ RecaptureP!CaptureInv /\ UNCHANGED <<part, record, switch, lineage, store, edits>>
        BY <2>8, RecaptureSame DEF Next, ResultsInv
    <3>2. ~UNCHANGED RecaptureP!vars
        BY <3>1 DEF vars, RecaptureP!vars, results
    <3> QED
        BY <1>1, <3>1, <3>2, RecaptureSame, RecaptureP!ResultsStep
  <2>9. ASSUME part = "cut" PROVE Cut!LeavesForArchive
    <3>1. CutP!Next /\ CutP!CaptureInv /\ UNCHANGED <<part, record, switch, lineage, store, edits>>
        BY <2>9, CutSame DEF Next, ResultsInv
    <3>2. ~UNCHANGED CutP!vars
        BY <3>1 DEF vars, CutP!vars, results
    <3> QED
        BY <1>1, <3>1, <3>2, CutSame, CutP!ResultsStep
  <2>10. ASSUME part = "fork" PROVE Fork!AnswersHold
    <3>1. ForkP!Next /\ ForkP!GraphInv
        BY <2>10, ForkSame DEF Next, StoresInv
    <3> QED
        BY <1>1, <3>1, ForkSame, ForkP!GraphStep
  <2> QED
      BY <2>1, <2>2, <2>3, <2>4, <2>5, <2>6, <2>7, <2>8, <2>9, <2>10
<1> QED
    BY <1>2, RecordInvHolds, SwitchInvHolds, LineageInvHolds, StoresInvHolds, ResultsInvHolds, PTL DEF Spec, AuthoritySteps
=============================================================================
