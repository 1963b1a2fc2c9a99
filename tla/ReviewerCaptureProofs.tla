------------------------ MODULE ReviewerCaptureProofs ------------------------
(***************************************************************************)
(* Theorems about ReviewerCapture, for any commands, lenses, results and   *)
(* bounds: a verdict rests on results that are in their slots, a disposed  *)
(* lens has none, a capture can go on wherever another one stopped, what a *)
(* command was told is kept, and what leaves a slot is in the archive.     *)
(*                                                                         *)
(* None of them is inductive alone.  What makes them so: a capture that    *)
(* holds the lock is bound to the revision under review, so slots change   *)
(* in that state only; what a FINALIZE has read without the lock is still  *)
(* in its slot as long as the record has not moved; and what a reopening   *)
(* condemned is older than the record, so no new result is condemned.      *)
(***************************************************************************)
EXTENDS ReviewerCapture, SequenceTheorems, WellFoundedInduction, TLAPS

Slots == [Lenses -> Results \cup {None}]
Reopenings == [from : 1..MaxRev, quarantined : Slots, retained : Slots]
Auths == [rev : 1..MaxRev, state : {"reviewing", "validating", "correction_required", "approved", "escalated"},
          results : Slots, reopens : Seq(Reopenings), disposed : SUBSET Lenses]

Locked == {"prepare", "seal", "clear", "publish", "digest"}
Captures == [op : {"capture"}, at : {"wait", "answer"} \cup Locked, lens : Lenses, result : Results, told : BOOLEAN]
Finalizes == [op : {"finalize"}, at : {"read"}, seen : Auths, got : Slots]
Reopens == [op : {"reopen"}, at : {"commit"}, seen : Auths, named : SUBSET Lenses,
            plan : [quarantined : Slots, retained : Slots]]
Disposes == [op : {"dispose"}, at : {"commit"}, seen : Auths, lens : Lenses]
Jobs == [op : {"idle"}] \cup Captures \cup Finalizes \cup Reopens \cup Disposes

Bounds ==
    /\ MaxRev \in Nat \ {0} /\ MaxFaults \in Nat
    /\ None \notin Procs /\ None \notin Results

StoreTypes ==
    /\ auth \in Auths /\ payloads \in Slots /\ digests \in Slots
    /\ archive \subseteq Lenses \X (1 .. MaxRev) \X {"payload", "digest"} \X Results
    /\ lock \in Procs \cup {None} /\ faults \in 0 .. MaxFaults
Types == StoreTypes /\ proc \in [Procs -> Jobs]

(* No result is of a revision to come, and a condemned one is of one that  *)
(* is gone.                                                                *)
Past ==
    /\ \A l \in Lenses : /\ payloads[l] # None => payloads[l][2] <= auth.rev
                         /\ digests[l] # None => digests[l][2] <= auth.rev
    /\ \A i \in 1 .. Len(auth.reopens), l \in Lenses :
           auth.reopens[i].quarantined[l] # None => auth.reopens[i].quarantined[l][2] < auth.rev

DisposedEnds == auth.disposed # {} => auth.state = "escalated"

(* A record a command has seen is the record, as long as the revision is.  *)
Saw(r) == r.rev <= auth.rev /\ (r.rev = auth.rev => r = auth)

(* A result that is whole in its slot, and that no reopening condemned.    *)
Stands(l, d) == payloads[l] = d /\ digests[l] = d /\ ~Quarantined(auth, l, d)

Archived(l, kind, d) == \E x \in archive : x[1] = l /\ x[3] = kind /\ x[4] = d

Knows(p) ==
    /\ (proc[p].op = "capture" /\ proc[p].at \in Locked) <=> lock = p
    /\ proc[p].op = "capture" =>
         /\ proc[p].at \in Locked => BoundTo(proc[p].result)
         /\ proc[p].at = "seal" => /\ Condemned(proc[p].lens)
                                   /\ Place(proc[p].lens, "payload") \in archive
         /\ proc[p].at = "clear" => (Held(proc[p].lens) # None =>
                 /\ Condemned(proc[p].lens)
                 /\ Place(proc[p].lens, "payload") \in archive /\ Place(proc[p].lens, "digest") \in archive)
         /\ proc[p].at = "digest" => /\ payloads[proc[p].lens] = proc[p].result
                                     /\ digests[proc[p].lens] \in {None, proc[p].result}
         /\ proc[p].at = "answer" => \/ payloads[proc[p].lens] = proc[p].result
                                     \/ \E x \in archive : x[1] = proc[p].lens /\ x[4] = proc[p].result
    /\ proc[p].op \in {"finalize", "reopen", "dispose"} => Saw(proc[p].seen)
    /\ proc[p].op \in {"finalize", "dispose"} => proc[p].seen.state = "reviewing"
    /\ proc[p].op = "reopen" => proc[p].seen.state \in {"validating", "correction_required"}
    /\ proc[p].op = "finalize" /\ proc[p].seen.rev = auth.rev =>
         \A l \in Lenses : proc[p].got[l] # None => Stands(l, proc[p].got[l])

CaptureInv ==
    /\ Types /\ Past /\ DisposedEnds /\ VerdictOnDisk /\ DisposedIsEmpty /\ CaptureConverges
    /\ \A p \in Procs : Knows(p)

-----------------------------------------------------------------------------
LEMMA JobOf ==
    ASSUME NEW j \in Jobs
    PROVE  /\ j.op \in {"idle", "capture", "finalize", "reopen", "dispose"}
           /\ j.op = "capture" => j \in Captures
           /\ j.op = "finalize" => j \in Finalizes
           /\ j.op = "reopen" => j \in Reopens
           /\ j.op = "dispose" => j \in Disposes
           /\ j.op # "idle" => (j.at = "read" <=> j.op = "finalize")
           /\ j.op # "idle" => (j.at = "commit" <=> j.op \in {"reopen", "dispose"})
           /\ j.op # "idle" => (j.at \in {"wait", "answer"} \cup Locked <=> j.op = "capture")
BY DEF Jobs, Captures, Finalizes, Reopens, Disposes, Locked

LEMMA IdleJob == Idle \in Jobs /\ Idle.op = "idle"
BY DEF Idle, Jobs

(* Natural numbers are well founded, so a bounded set of them has a        *)
(* greatest member.                                                        *)
LEMMA GreatestUpTo ==
    ASSUME NEW n \in Nat, NEW T \in SUBSET (1 .. n), T # {}
    PROVE  \E x \in T : \A y \in T : y <= x
<1> DEFINE D == {n - x : x \in T}
<1>1. D \in SUBSET Nat /\ D # {}
    OBVIOUS
<1>2. PICK d \in D : \A y \in D : ~ (<<y, d>> \in OpToRel(<, Nat))
  <2>1. IsWellFoundedOn(OpToRel(<, Nat), Nat)
      BY NatLessThanWellFounded, Zenon
  <2> QED
      BY <1>1, <2>1, WFMin
<1>3. \A y \in D : ~(y < d)
    BY <1>1, <1>2 DEF OpToRel
<1>4. PICK x \in T : d = n - x
    BY <1>2
<1>5. ASSUME NEW y \in T PROVE y <= x
  <2>1. n - y \in D /\ x \in Nat /\ y \in Nat
    <3>1. n - y \in D
        BY <1>5, Zenon
    <3>2. x \in Nat /\ y \in Nat
      <4> HIDE DEF D
      <4> QED
          BY <1>4, <1>5
    <3> QED
        BY <3>1, <3>2, Zenon
  <2>2. ~(n - y < n - x)
      BY <1>3, <1>4, <2>1
  <2> HIDE DEF D
  <2> QED
      BY <2>1, <2>2
<1> QED
    BY <1>5

(* The reopening a condemned result is archived under.                     *)
LEMMA ArchivedType ==
    ASSUME StoreTypes, NEW l \in Lenses, NEW d, Quarantined(auth, l, d)
    PROVE  ArchivedUnder(auth, l, d) \in 1 .. MaxRev
<1>1. auth.reopens \in Seq(Reopenings) /\ Len(auth.reopens) \in Nat
    BY DEF StoreTypes, Auths
<1>2. CondemnedBy(auth, l, d) \in SUBSET (1 .. Len(auth.reopens)) /\ CondemnedBy(auth, l, d) # {}
    BY DEF CondemnedBy, Quarantined
<1>3. \E i \in CondemnedBy(auth, l, d) : \A j \in CondemnedBy(auth, l, d) : j <= i
    BY <1>1, <1>2, GreatestUpTo
<1>4. PICK i \in 1 .. Len(auth.reopens) : ArchivedUnder(auth, l, d) = auth.reopens[i].from
    BY <1>2, <1>3 DEF ArchivedUnder
<1>5. auth.reopens[i] \in Reopenings
    BY <1>1, <1>4
<1> QED
    BY <1>4, <1>5 DEF Reopenings

LEMMA PlaceType ==
    ASSUME Bounds, StoreTypes, NEW l \in Lenses, Condemned(l), NEW kind \in {"payload", "digest"}
    PROVE  /\ Place(l, kind) \in Lenses \X (1 .. MaxRev) \X {"payload", "digest"} \X Results
           /\ Place(l, kind)[1] = l /\ Place(l, kind)[3] = kind /\ Place(l, kind)[4] = Held(l)
<1>1. Held(l) \in Results /\ ArchivedUnder(auth, l, Held(l)) \in 1 .. MaxRev
    BY ArchivedType DEF Condemned, Held, StoreTypes, Slots
<1> QED
    BY <1>1 DEF Place

(* A result of the revision under review is never condemned.               *)
LEMMA NewNotCondemned ==
    ASSUME Bounds, StoreTypes, Past, NEW l \in Lenses, NEW r \in Results, r[2] = auth.rev
    PROVE  ~Quarantined(auth, l, r)
<1>1. auth.rev \in Nat /\ r # None
    BY DEF StoreTypes, Auths, Bounds
<1> SUFFICES ASSUME NEW i \in 1 .. Len(auth.reopens), auth.reopens[i].quarantined[l] = r PROVE FALSE
    BY DEF Quarantined, CondemnedBy
<1> QED
    BY <1>1 DEF Past

-----------------------------------------------------------------------------
(* A command goes on, and slots, record and archive stay as they are.      *)
LEMMA CommandGoes ==
    ASSUME Bounds, CaptureInv, NEW p \in Procs, NEW new \in Jobs, proc' = [proc EXCEPT ![p] = new],
           UNCHANGED <<auth, payloads, digests, archive>>, faults' \in 0 .. MaxFaults, lock' \in Procs \cup {None},
           \A q \in Procs : q # p => (lock' = q <=> lock = q),
           Knows(p)'
    PROVE  CaptureInv' /\ LeavesForArchive
<1>1. /\ proc' \in [Procs -> Jobs] /\ proc'[p] = new
      /\ \A q \in Procs : q # p => proc'[q] = proc[q]
    BY DEF CaptureInv, Types
<1>2. Types' /\ Past' /\ DisposedEnds' /\ DisposedIsEmpty'
    BY <1>1 DEF CaptureInv, Types, StoreTypes, Past, DisposedEnds, DisposedIsEmpty, Uncaptured
<1>3. VerdictOnDisk'
    BY DEF CaptureInv, VerdictOnDisk
<1>4. CaptureConverges'
    BY DEF CaptureInv, CaptureConverges, Place, Held
<1>5. ASSUME NEW q \in Procs, q # p PROVE Knows(q)'
  <2>1. Knows(q) /\ proc'[q] = proc[q] /\ (lock' = q <=> lock = q)
      BY <1>1, <1>5 DEF CaptureInv
  <2> QED
      BY <2>1 DEF Knows, BoundTo, Condemned, Place, Held, Saw, Stands
<1>6. LeavesForArchive
    BY DEF LeavesForArchive
<1> QED
    BY <1>2, <1>3, <1>4, <1>5, <1>6 DEF CaptureInv

(* A capture that holds the lock works on its slot or on the archive.      *)
LEMMA LockedGoes ==
    ASSUME Bounds, CaptureInv, NEW p \in Procs, lock = p, NEW new \in Jobs, proc' = [proc EXCEPT ![p] = new],
           NEW l \in Lenses, UNCHANGED <<auth, faults>>, lock' \in {p, None}, auth.state = "reviewing",
           archive \subseteq archive', StoreTypes',
           \A m \in Lenses \ {l} : payloads'[m] = payloads[m] /\ digests'[m] = digests[m],
           \A d \in Results : Stands(l, d) => payloads'[l] = d /\ digests'[l] = d,
           \/ payloads[l] \in {None, payloads'[l]}
           \/ /\ Condemned(l) /\ payloads'[l] = None
              /\ Place(l, "payload") \in archive /\ Place(l, "digest") \in archive,
           /\ payloads'[l] # None => payloads'[l][2] <= auth.rev
           /\ digests'[l] # None => digests'[l][2] <= auth.rev
           /\ payloads'[l] # None /\ digests'[l] # None => payloads'[l] = digests'[l]
           /\ payloads'[l] = None /\ digests'[l] # None =>
                 Quarantined(auth, l, digests'[l]) /\ Place(l, "payload")' \in archive'
           /\ payloads'[l] # None /\ digests'[l] = None => ~Quarantined(auth, l, payloads'[l]),
           Knows(p)'
    PROVE  CaptureInv' /\ LeavesForArchive
<1>1. /\ proc' \in [Procs -> Jobs] /\ proc'[p] = new
      /\ \A q \in Procs : q # p => proc'[q] = proc[q]
    BY DEF CaptureInv, Types
<1>2. Types' /\ Past' /\ DisposedEnds'
    BY <1>1 DEF CaptureInv, Types, Past, DisposedEnds
<1>3. VerdictOnDisk' /\ DisposedIsEmpty'
    BY DEF VerdictOnDisk, DisposedIsEmpty, CaptureInv, DisposedEnds
<1>4. CaptureConverges'
  <2> SUFFICES ASSUME NEW m \in Lenses, m # l
               PROVE  /\ payloads'[m] # None /\ digests'[m] # None => payloads'[m] = digests'[m]
                      /\ payloads'[m] = None /\ digests'[m] # None =>
                            Quarantined(auth', m, digests'[m]) /\ Place(m, "payload")' \in archive'
                      /\ payloads'[m] # None /\ digests'[m] = None => ~Quarantined(auth', m, payloads'[m])
      BY DEF CaptureConverges
  <2>1. payloads'[m] = payloads[m] /\ digests'[m] = digests[m] /\ Place(m, "payload")' = Place(m, "payload")
      BY DEF Place, Held
  <2> QED
      BY <2>1 DEF CaptureInv, CaptureConverges
<1>5. payloads[l] # None /\ payloads'[l] # payloads[l] =>
          /\ Quarantined(auth, l, payloads[l])
          /\ \A kind \in {"payload", "digest"} : \E x \in archive : x[1] = l /\ x[3] = kind /\ x[4] = payloads[l]
  <2> SUFFICES ASSUME payloads[l] # None, payloads'[l] # payloads[l]
               PROVE  /\ Quarantined(auth, l, payloads[l])
                      /\ \A kind \in {"payload", "digest"} :
                             \E x \in archive : x[1] = l /\ x[3] = kind /\ x[4] = payloads[l]
      OBVIOUS
  <2>1. /\ Condemned(l) /\ Held(l) = payloads[l]
        /\ \A kind \in {"payload", "digest"} : Place(l, kind) \in archive
      BY DEF Held
  <2> QED
      BY <2>1, PlaceType DEF Condemned, CaptureInv, Types
<1>6. LeavesForArchive
    BY <1>5 DEF LeavesForArchive
<1>7. ASSUME NEW q \in Procs, q # p PROVE Knows(q)'
  <2>1. Knows(q) /\ proc'[q] = proc[q] /\ lock # q /\ lock' # q /\ proc[q] \in Jobs
      BY <1>1, <1>7 DEF CaptureInv, Types, Bounds
  <2>2. proc[q].op = "capture" => proc[q].at \notin Locked
      BY <2>1 DEF Knows
  <2>3. ASSUME NEW m \in Lenses, NEW d \in Results, Stands(m, d) PROVE Stands(m, d)'
      BY <2>3 DEF Stands
  <2>4. ASSUME NEW m \in Lenses, NEW d \in Results,
               payloads[m] = d \/ \E x \in archive : x[1] = m /\ x[4] = d
        PROVE  payloads'[m] = d \/ \E x \in archive' : x[1] = m /\ x[4] = d
      BY <1>5, <2>4 DEF Bounds
  <2>5. proc[q].op = "capture" /\ proc[q].at = "answer" =>
           \/ payloads'[proc'[q].lens] = proc'[q].result
           \/ \E x \in archive' : x[1] = proc'[q].lens /\ x[4] = proc'[q].result
      BY <2>1, <2>4, JobOf DEF Knows, Captures
  <2>6. proc[q].op = "finalize" /\ proc[q].seen.rev = auth.rev =>
           \A m \in Lenses : proc[q].got[m] # None => Stands(m, proc[q].got[m])'
    <3> SUFFICES ASSUME proc[q].op = "finalize", proc[q].seen.rev = auth.rev, NEW m \in Lenses, proc[q].got[m] # None
                 PROVE  Stands(m, proc[q].got[m])'
        OBVIOUS
    <3>1. Stands(m, proc[q].got[m]) /\ proc[q].got[m] \in Results
        BY <2>1, JobOf DEF Knows, Finalizes, Slots
    <3>2. PICK d \in Results : d = proc[q].got[m]
        BY <3>1
    <3>3. Stands(m, d)'
        BY <2>3, <3>1, <3>2
    <3> QED
        BY <2>1, <3>2, <3>3 DEF Stands
  <2> QED
      BY <2>1, <2>2, <2>5, <2>6 DEF Knows, Locked, Saw
<1> QED
    BY <1>2, <1>3, <1>4, <1>6, <1>7 DEF CaptureInv

-----------------------------------------------------------------------------
(* What holds when p is a capture at one of its places.                    *)
LEMMA CaptureAt ==
    ASSUME Bounds, CaptureInv, NEW p \in Procs, NEW at \in {"wait", "answer"} \cup Locked, At(p, at)
    PROVE  /\ proc[p] \in Captures /\ proc[p].op = "capture" /\ proc[p].at = at
           /\ proc[p].lens \in Lenses /\ proc[p].result \in Results
           /\ Types /\ StoreTypes /\ Knows(p) /\ Past /\ CaptureConverges
           /\ at \in Locked <=> lock = p
           /\ at \in Locked => BoundTo(proc[p].result) /\ auth.state = "reviewing"
<1>1. proc[p] \in Jobs /\ proc[p].op # "idle" /\ proc[p].at = at
    BY DEF CaptureInv, Types, At
<1>2. proc[p].op = "capture" /\ proc[p] \in Captures
    BY <1>1, JobOf
<1> QED
    BY <1>1, <1>2 DEF Captures, CaptureInv, Types, Knows, BoundTo

(* The place of a capture moves.                                           *)
LEMMA GotoType ==
    ASSUME NEW p \in Procs, NEW at \in {"wait", "answer"} \cup Locked, proc[p] \in Captures, Goto(p, at),
           proc \in [Procs -> Jobs]
    PROVE  \E new \in Jobs : /\ proc' = [proc EXCEPT ![p] = new] /\ proc'[p] = new
                             /\ new.op = "capture" /\ new.at = at
                             /\ new.lens = proc[p].lens /\ new.result = proc[p].result
<1> DEFINE new == [proc[p] EXCEPT !.at = at]
<1>1. new \in Captures /\ new.at = at /\ new.op = "capture" /\ new.lens = proc[p].lens /\ new.result = proc[p].result
    BY DEF Captures
<1>2. proc' = [proc EXCEPT ![p] = new]
    BY DEF Goto
<1> HIDE DEF new
<1>3. new \in Jobs /\ proc'[p] = new
    BY <1>1, <1>2 DEF Jobs
<1> QED
    BY <1>1, <1>2, <1>3

LEMMA DoneKnows ==
    ASSUME Bounds, CaptureInv, NEW p \in Procs, Done(p), lock' # p
    PROVE  Knows(p)' /\ proc' = [proc EXCEPT ![p] = Idle]
<1>1. proc'[p] = Idle
    BY DEF Done, CaptureInv, Types
<1> QED
    BY <1>1, IdleJob DEF Knows, Done

(* A command ends, and gives back the lock if it had it.                   *)
LEMMA DoneStep ==
    ASSUME Bounds, CaptureInv, NEW p \in Procs, Done(p), UNCHANGED <<auth, payloads, digests, archive>>,
           faults' \in 0 .. MaxFaults, lock' = IF lock = p THEN None ELSE lock
    PROVE  CaptureInv' /\ LeavesForArchive
<1>1. lock' # p /\ lock' \in Procs \cup {None} /\ \A q \in Procs : q # p => (lock' = q <=> lock = q)
    BY DEF CaptureInv, Types, StoreTypes, Bounds
<1> QED
    BY <1>1, DoneKnows, IdleJob, CommandGoes

LEMMA BeginCaptureStep ==
    ASSUME Bounds, CaptureInv, NEW p \in Procs, NEW l \in Lenses, NEW b \in Bodies, BeginCapture(p, l, b)
    PROVE  CaptureInv' /\ LeavesForArchive
<1> DEFINE new == [op |-> "capture", at |-> "wait", lens |-> l, result |-> <<b, auth.rev>>, told |-> FALSE]
<1>1. proc[p].op = "idle" /\ Types /\ StoreTypes /\ Knows(p) /\ auth.rev \in 1 .. MaxRev
    BY IdleJob DEF BeginCapture, CaptureInv, Types, StoreTypes, Auths
<1>2. new \in Captures /\ new.op = "capture" /\ new.at = "wait"
    BY <1>1 DEF Captures, Results
<1>3. proc' = [proc EXCEPT ![p] = new] /\ new \in Jobs /\ UNCHANGED <<auth, payloads, digests, archive, lock, faults>>
    BY <1>2 DEF BeginCapture, Jobs
<1> HIDE DEF new
<1>4. Knows(p)'
  <2>1. proc'[p] = new /\ lock' # p
      BY <1>1, <1>3 DEF Types, Knows
  <2> QED
      BY <1>2, <2>1 DEF Knows, Locked
<1> QED
    BY <1>1, <1>3, <1>4, CommandGoes DEF Types, StoreTypes

LEMMA TakeLockStep ==
    ASSUME Bounds, CaptureInv, NEW p \in Procs, TakeLock(p)
    PROVE  CaptureInv' /\ LeavesForArchive
<1>1. /\ proc[p] \in Captures /\ lock = None /\ Types /\ StoreTypes /\ p # None
      /\ UNCHANGED <<auth, payloads, digests, archive, faults>>
    BY CaptureAt DEF TakeLock, Locked, Bounds
<1>2. CASE BoundTo(proc[p].result)
  <2>1. lock' = p /\ Goto(p, "prepare")
      BY <1>2 DEF TakeLock
  <2>2. PICK new \in Jobs : /\ proc' = [proc EXCEPT ![p] = new] /\ proc'[p] = new
                            /\ new.op = "capture" /\ new.at = "prepare" /\ new.result = proc[p].result
      BY <1>1, <2>1, GotoType DEF Types, Locked
  <2>3. Knows(p)'
      BY <1>1, <1>2, <2>1, <2>2 DEF Knows, Locked, BoundTo
  <2> QED
      BY <1>1, <2>1, <2>2, <2>3, CommandGoes DEF StoreTypes, Bounds
<1>3. CASE ~BoundTo(proc[p].result)
    BY <1>1, <1>3, DoneStep DEF TakeLock, StoreTypes
<1> QED
    BY <1>2, <1>3

LEMMA GiveUpStep ==
    ASSUME Bounds, CaptureInv, NEW p \in Procs, GiveUp(p)
    PROVE  CaptureInv' /\ LeavesForArchive
<1> DEFINE j == proc[p]
           published == BoundTo(j.result) /\ payloads[j.lens] = j.result /\ digests[j.lens] = j.result
<1>1. /\ j \in Captures /\ lock # p /\ Types /\ StoreTypes /\ "wait" \notin Locked
      /\ UNCHANGED <<auth, payloads, digests, archive, lock, faults>>
    BY CaptureAt DEF GiveUp, Locked
<1>2. CASE published
  <2> DEFINE new == [j EXCEPT !.at = "answer", !.told = TRUE]
  <2>1. new \in Captures /\ new.op = "capture" /\ new.at = "answer" /\ new.lens = j.lens /\ new.result = j.result
      BY <1>1 DEF Captures
  <2>2. proc' = [proc EXCEPT ![p] = new] /\ new \in Jobs
      BY <1>2, <2>1 DEF GiveUp, Jobs
  <2> HIDE DEF new
  <2>3. Knows(p)'
    <3>1. proc'[p] = new /\ "answer" \notin Locked
        BY <1>1, <2>2 DEF Types, Locked
    <3> QED
        BY <1>1, <1>2, <2>1, <3>1 DEF Knows
  <2> QED
      BY <1>1, <2>2, <2>3, CommandGoes DEF StoreTypes
<1>3. CASE ~published
    BY <1>1, <1>3, DoneStep DEF GiveUp, StoreTypes
<1> QED
    BY <1>2, <1>3

(* A refusal under the lock.                                               *)
LEMMA FailStep ==
    ASSUME Bounds, CaptureInv, NEW p \in Procs, lock = p, Fail(p)
    PROVE  CaptureInv' /\ LeavesForArchive
BY DoneStep DEF Fail, CaptureInv, Types, StoreTypes

(* The slot stays as it is, and the archive may grow.                      *)
LEMMA ArchiveGoes ==
    ASSUME Bounds, CaptureInv, NEW p \in Procs, lock = p, NEW new \in Jobs, proc' = [proc EXCEPT ![p] = new],
           UNCHANGED <<auth, payloads, digests, faults>>, lock' \in {p, None}, auth.state = "reviewing",
           NEW l \in Lenses, Condemned(l), NEW kind \in {"payload", "digest"}, archive' = archive \cup {Place(l, kind)},
           Knows(p)'
    PROVE  CaptureInv' /\ LeavesForArchive
<1>1. StoreTypes /\ Past /\ CaptureConverges
    BY DEF CaptureInv, Types
<1>2. StoreTypes'
    BY <1>1, PlaceType DEF StoreTypes
<1>3. \A m \in Lenses : Place(m, "payload")' = Place(m, "payload")
    BY DEF Place, Held
<1> QED
    BY <1>1, <1>2, <1>3, LockedGoes DEF Past, CaptureConverges, Stands

LEMMA PrepareStep ==
    ASSUME Bounds, CaptureInv, NEW p \in Procs, Prepare(p)
    PROVE  CaptureInv' /\ LeavesForArchive
<1>1. PICK l \in Lenses : l = proc[p].lens
    BY CaptureAt DEF Prepare, Locked
<1>2. /\ proc[p] \in Captures /\ lock = p /\ Types /\ StoreTypes /\ BoundTo(proc[p].result) /\ auth.state = "reviewing"
    BY CaptureAt DEF Prepare, Locked
<1>3. CASE ~Matches(l) \/ (Condemned(l) /\ ~Archivable(l))
    BY <1>1, <1>2, <1>3, FailStep DEF Prepare
<1>4. CASE ~(~Matches(l) \/ (Condemned(l) /\ ~Archivable(l))) /\ Condemned(l)
  <2>1. archive' = archive \cup {Place(l, "payload")} /\ Goto(p, "seal") /\ UNCHANGED <<auth, payloads, digests, lock, faults>>
      BY <1>1, <1>4 DEF Prepare
  <2>2. PICK new \in Jobs : /\ proc' = [proc EXCEPT ![p] = new] /\ proc'[p] = new
                            /\ new.op = "capture" /\ new.at = "seal" /\ new.lens = l /\ new.result = proc[p].result
      BY <1>1, <1>2, <2>1, GotoType DEF Types, Locked
  <2>3. Knows(p)'
    <3>1. Condemned(l)' /\ Place(l, "payload")' \in archive'
        BY <1>4, <2>1 DEF Condemned, Place, Held
    <3> QED
        BY <1>2, <2>1, <2>2, <3>1 DEF Knows, Locked, BoundTo, Condemned, Place, Held
  <2> QED
      BY <1>2, <1>4, <2>1, <2>2, <2>3, ArchiveGoes
<1>5. CASE ~(~Matches(l) \/ (Condemned(l) /\ ~Archivable(l))) /\ ~Condemned(l)
  <2>1. Goto(p, "publish") /\ UNCHANGED <<auth, payloads, digests, archive, lock, faults>>
      BY <1>1, <1>5 DEF Prepare
  <2>2. PICK new \in Jobs : /\ proc' = [proc EXCEPT ![p] = new] /\ proc'[p] = new
                            /\ new.op = "capture" /\ new.at = "publish" /\ new.result = proc[p].result
      BY <1>2, <2>1, GotoType DEF Types, Locked
  <2>3. Knows(p)'
      BY <1>2, <2>1, <2>2 DEF Knows, Locked, BoundTo
  <2> QED
      BY <1>2, <2>1, <2>2, <2>3, CommandGoes DEF StoreTypes
<1> QED
    BY <1>3, <1>4, <1>5

LEMMA SealStep ==
    ASSUME Bounds, CaptureInv, NEW p \in Procs, Seal(p)
    PROVE  CaptureInv' /\ LeavesForArchive
<1>1. PICK l \in Lenses : l = proc[p].lens
    BY CaptureAt DEF Seal, Locked
<1>2. /\ proc[p] \in Captures /\ lock = p /\ Types /\ StoreTypes /\ BoundTo(proc[p].result) /\ auth.state = "reviewing"
      /\ Knows(p) /\ proc[p].op = "capture" /\ proc[p].at = "seal"
    BY CaptureAt DEF Seal, Locked
<1>3. Condemned(l) /\ Place(l, "payload") \in archive
    BY <1>1, <1>2 DEF Knows
<1>4. CASE ~MayPublish(Place(l, "digest"))
    BY <1>1, <1>2, <1>4, FailStep DEF Seal
<1>5. CASE MayPublish(Place(l, "digest"))
  <2>1. archive' = archive \cup {Place(l, "digest")} /\ Goto(p, "clear") /\ UNCHANGED <<auth, payloads, digests, lock, faults>>
      BY <1>1, <1>5 DEF Seal
  <2>2. PICK new \in Jobs : /\ proc' = [proc EXCEPT ![p] = new] /\ proc'[p] = new
                            /\ new.op = "capture" /\ new.at = "clear" /\ new.lens = l /\ new.result = proc[p].result
      BY <1>1, <1>2, <2>1, GotoType DEF Types, Locked
  <2>3. Knows(p)'
    <3>1. Condemned(l)' /\ Place(l, "payload")' \in archive' /\ Place(l, "digest")' \in archive'
        BY <1>3, <2>1 DEF Condemned, Place, Held
    <3> QED
        BY <1>2, <2>1, <2>2, <3>1 DEF Knows, Locked, BoundTo, Condemned, Place, Held
  <2> QED
      BY <1>2, <1>3, <2>1, <2>2, <2>3, ArchiveGoes
<1> QED
    BY <1>4, <1>5

LEMMA ClearStep ==
    ASSUME Bounds, CaptureInv, NEW p \in Procs, Clear(p)
    PROVE  CaptureInv' /\ LeavesForArchive
<1>1. PICK l \in Lenses : l = proc[p].lens
    BY CaptureAt DEF Clear, Locked
<1>2. /\ proc[p] \in Captures /\ lock = p /\ Types /\ StoreTypes /\ BoundTo(proc[p].result) /\ auth.state = "reviewing"
      /\ Knows(p) /\ proc[p].op = "capture" /\ proc[p].at = "clear" /\ Past /\ CaptureConverges
    BY CaptureAt DEF Clear, Locked
<1>3. Held(l) # None => Condemned(l) /\ Place(l, "payload") \in archive /\ Place(l, "digest") \in archive
    BY <1>1, <1>2 DEF Knows
<1>4. CASE payloads[l] # None
  <2>1. payloads' = [payloads EXCEPT ![l] = None] /\ UNCHANGED <<auth, digests, archive, proc, lock, faults>>
      BY <1>1, <1>4 DEF Clear
  <2>2. Condemned(l) /\ Held(l) = payloads[l] /\ Quarantined(auth, l, payloads[l]) /\ digests[l] = payloads[l]
      BY <1>2, <1>3, <1>4 DEF Held, Condemned, CaptureConverges
  <2>3. StoreTypes' /\ payloads'[l] = None /\ \A m \in Lenses \ {l} : payloads'[m] = payloads[m]
      BY <1>2, <2>1 DEF StoreTypes, Slots
  <2>4. Held(l)' = Held(l) /\ Condemned(l)' /\ \A kind : Place(l, kind)' = Place(l, kind)
      BY <1>4, <2>1, <2>2, <2>3 DEF Held, Condemned, Place
  <2>5. Knows(p)'
      BY <1>1, <1>2, <1>3, <2>1, <2>2, <2>4 DEF Knows, Locked, BoundTo, Condemned
  <2>6. proc[p] \in Jobs /\ proc' = [proc EXCEPT ![p] = proc[p]]
      BY <1>2, <2>1 DEF Types
  <2>7. \A d \in Results : ~Stands(l, d)
      BY <2>2 DEF Stands
  <2> QED
      BY <1>2, <1>3, <1>4, <2>1, <2>2, <2>3, <2>4, <2>5, <2>6, <2>7, LockedGoes DEF Past
<1>5. CASE payloads[l] = None
  <2>1. digests' = [digests EXCEPT ![l] = None] /\ Goto(p, "publish") /\ UNCHANGED <<auth, payloads, archive, lock, faults>>
      BY <1>1, <1>5 DEF Clear
  <2>2. PICK new \in Jobs : /\ proc' = [proc EXCEPT ![p] = new] /\ proc'[p] = new
                            /\ new.op = "capture" /\ new.at = "publish" /\ new.result = proc[p].result
      BY <1>2, <2>1, GotoType DEF Types, Locked
  <2>3. Knows(p)'
      BY <1>2, <2>1, <2>2 DEF Knows, Locked, BoundTo
  <2>4. StoreTypes' /\ digests'[l] = None /\ \A m \in Lenses \ {l} : digests'[m] = digests[m]
      BY <1>2, <2>1 DEF StoreTypes, Slots
  <2>5. \A d \in Results : ~Stands(l, d)
      BY <1>5 DEF Stands, Bounds
  <2> QED
      BY <1>2, <1>5, <2>1, <2>2, <2>3, <2>4, <2>5, LockedGoes
<1> QED
    BY <1>4, <1>5

LEMMA PublishStep ==
    ASSUME Bounds, CaptureInv, NEW p \in Procs, Publish(p)
    PROVE  CaptureInv' /\ LeavesForArchive
<1>1. PICK l \in Lenses, d \in Results : l = proc[p].lens /\ d = proc[p].result
    BY CaptureAt DEF Publish, Locked
<1>2. /\ proc[p] \in Captures /\ lock = p /\ Types /\ StoreTypes /\ BoundTo(d) /\ auth.state = "reviewing"
      /\ Past /\ CaptureConverges /\ d # None
    BY <1>1, CaptureAt DEF Publish, Locked, Bounds
<1>3. CASE ~Compatible(l, d)
    BY <1>1, <1>2, <1>3, FailStep DEF Publish
<1>4. CASE Compatible(l, d)
  <2>1. payloads' = [payloads EXCEPT ![l] = d] /\ Goto(p, "digest") /\ UNCHANGED <<auth, digests, archive, lock, faults>>
      BY <1>1, <1>4 DEF Publish
  <2>2. PICK new \in Jobs : /\ proc' = [proc EXCEPT ![p] = new] /\ proc'[p] = new /\ new.op = "capture"
                            /\ new.at = "digest" /\ new.lens = l /\ new.result = d
      BY <1>1, <1>2, <2>1, GotoType DEF Types, Locked
  <2>3. /\ StoreTypes' /\ payloads'[l] = d /\ digests[l] \in {None, d} /\ payloads[l] \in {None, d}
        /\ \A m \in Lenses \ {l} : payloads'[m] = payloads[m]
      BY <1>2, <1>4, <2>1 DEF StoreTypes, Slots, Compatible
  <2>4. Knows(p)'
      BY <1>2, <2>1, <2>2, <2>3 DEF Knows, Locked, BoundTo
  <2>5. d[2] = auth.rev /\ ~Quarantined(auth, l, d) /\ auth.rev \in Nat
      BY <1>2, NewNotCondemned DEF BoundTo, StoreTypes, Auths
  <2>6. \A x \in Results : Stands(l, x) => payloads'[l] = x /\ digests'[l] = x
      BY <2>1, <2>3 DEF Stands, Bounds
  <2>7. /\ payloads'[l] # None => payloads'[l][2] <= auth.rev
        /\ digests'[l] # None => digests'[l][2] <= auth.rev
        /\ payloads'[l] # None /\ digests'[l] # None => payloads'[l] = digests'[l]
        /\ payloads'[l] # None /\ digests'[l] = None => ~Quarantined(auth, l, payloads'[l])
      BY <2>1, <2>3, <2>5
  <2> QED
      BY <1>2, <2>1, <2>2, <2>3, <2>4, <2>6, <2>7, LockedGoes
<1> QED
    BY <1>3, <1>4

LEMMA PublishDigestStep ==
    ASSUME Bounds, CaptureInv, NEW p \in Procs, PublishDigest(p)
    PROVE  CaptureInv' /\ LeavesForArchive
<1>1. PICK l \in Lenses, d \in Results : l = proc[p].lens /\ d = proc[p].result
    BY CaptureAt DEF PublishDigest, Locked
<1>2. /\ proc[p] \in Captures /\ lock = p /\ Types /\ StoreTypes /\ BoundTo(d) /\ auth.state = "reviewing"
      /\ Past /\ CaptureConverges /\ d # None /\ Knows(p) /\ proc[p].op = "capture" /\ proc[p].at = "digest"
    BY <1>1, CaptureAt DEF PublishDigest, Locked, Bounds
<1>3. payloads[l] = d /\ digests[l] \in {None, d}
    BY <1>1, <1>2 DEF Knows
<1> DEFINE new == [proc[p] EXCEPT !.at = "answer", !.told = TRUE]
<1>4. new \in Captures /\ new.op = "capture" /\ new.at = "answer" /\ new.lens = l /\ new.result = d
    BY <1>1, <1>2 DEF Captures
<1>5. /\ proc' = [proc EXCEPT ![p] = new] /\ new \in Jobs /\ lock' = None
      /\ digests' = [digests EXCEPT ![l] = d] /\ UNCHANGED <<auth, payloads, archive, faults>>
    BY <1>1, <1>4 DEF PublishDigest, Jobs
<1> HIDE DEF new
<1>6. StoreTypes' /\ digests'[l] = d /\ \A m \in Lenses \ {l} : digests'[m] = digests[m]
    BY <1>2, <1>5 DEF StoreTypes, Slots
<1>7. Knows(p)'
  <2>1. proc'[p] = new /\ lock' # p /\ "answer" \notin Locked
      BY <1>2, <1>5 DEF Types, Locked, Bounds
  <2> QED
      BY <1>3, <1>4, <1>5, <2>1 DEF Knows
<1>8. \A x \in Results : Stands(l, x) => payloads'[l] = x /\ digests'[l] = x
    BY <1>3, <1>5, <1>6 DEF Stands
<1>9. /\ payloads'[l] # None => payloads'[l][2] <= auth.rev
      /\ digests'[l] # None => digests'[l][2] <= auth.rev
      /\ payloads'[l] # None /\ digests'[l] # None => payloads'[l] = digests'[l]
  <2>1. d[2] = auth.rev /\ auth.rev \in Nat
      BY <1>2 DEF BoundTo, StoreTypes, Auths
  <2> QED
      BY <1>3, <1>5, <1>6, <2>1
<1> QED
    BY <1>2, <1>3, <1>5, <1>6, <1>7, <1>8, <1>9, LockedGoes

LEMMA AnswerStep ==
    ASSUME Bounds, CaptureInv, NEW p \in Procs, Answer(p)
    PROVE  CaptureInv' /\ LeavesForArchive
<1>1. lock # p /\ StoreTypes
    BY CaptureAt DEF Answer, Locked
<1> QED
    BY <1>1, DoneStep DEF Answer, StoreTypes

-----------------------------------------------------------------------------
(* FINALIZE reads the slots without the lock; what it read stands, because *)
(* only a capture of the slot changes it, and never a result that stands.  *)
LEMMA BeginFinalizeStep ==
    ASSUME Bounds, CaptureInv, NEW p \in Procs, BeginFinalize(p)
    PROVE  CaptureInv' /\ LeavesForArchive
<1> DEFINE new == [op |-> "finalize", at |-> "read", seen |-> auth, got |-> [l \in Lenses |-> None]]
<1>1. proc[p].op = "idle" /\ Types /\ StoreTypes /\ Knows(p) /\ auth \in Auths /\ auth.rev \in Nat /\ auth.state = "reviewing"
    BY IdleJob DEF BeginFinalize, CaptureInv, Types, StoreTypes, Auths
<1>2. new \in Finalizes /\ new.op = "finalize" /\ new.seen = auth /\ \A l \in Lenses : new.got[l] = None
    BY <1>1 DEF Finalizes, Slots
<1>3. proc' = [proc EXCEPT ![p] = new] /\ new \in Jobs /\ UNCHANGED <<auth, payloads, digests, archive, lock, faults>>
    BY <1>2 DEF BeginFinalize, Jobs
<1> HIDE DEF new
<1>4. Knows(p)'
  <2>1. proc'[p] = new /\ lock' # p
      BY <1>1, <1>3 DEF Types, Knows
  <2> QED
      BY <1>1, <1>2, <1>3, <2>1 DEF Knows, Saw
<1> QED
    BY <1>1, <1>3, <1>4, CommandGoes DEF StoreTypes

LEMMA JobAt ==
    ASSUME Bounds, CaptureInv, NEW p \in Procs
    PROVE  /\ At(p, "read") => proc[p] \in Finalizes /\ proc[p].op = "finalize"
           /\ proc[p].op = "reopen" => proc[p] \in Reopens
           /\ proc[p].op = "dispose" => proc[p] \in Disposes
           /\ proc[p].op \in {"finalize", "reopen", "dispose"} => lock # p
           /\ At(p, "commit") => proc[p].op \in {"reopen", "dispose"}
           /\ Types /\ StoreTypes /\ Knows(p)
<1>1. proc[p] \in Jobs /\ Types /\ StoreTypes /\ Knows(p)
    BY DEF CaptureInv, Types
<1>2. At(p, "commit") => proc[p].op \in {"reopen", "dispose"}
    BY <1>1, JobOf DEF At
<1> QED
    BY <1>1, <1>2, JobOf DEF At, Knows

LEMMA ReadSlotStep ==
    ASSUME Bounds, CaptureInv, NEW p \in Procs, NEW l \in Lenses, ReadSlot(p, l)
    PROVE  CaptureInv' /\ LeavesForArchive
<1>1. /\ proc[p] \in Finalizes /\ proc[p].op = "finalize" /\ lock # p /\ Types /\ StoreTypes /\ Knows(p)
      /\ UNCHANGED <<auth, payloads, digests, archive, lock, faults>>
    BY JobAt DEF ReadSlot
<1>2. CASE Usable(proc[p].seen, l)
  <2> DEFINE new == [proc[p] EXCEPT !.got = [@ EXCEPT ![l] = digests[l]]]
  <2>1. digests[l] \in Results \cup {None} /\ proc[p].got \in Slots
      BY <1>1 DEF StoreTypes, Slots, Finalizes
  <2>2. [proc[p].got EXCEPT ![l] = digests[l]] \in Slots
      BY <2>1 DEF Slots
  <2>3. /\ new \in Finalizes /\ new.op = "finalize" /\ new.seen = proc[p].seen
        /\ new.got = [proc[p].got EXCEPT ![l] = digests[l]]
      BY <1>1, <2>2 DEF Finalizes
  <2>4. proc' = [proc EXCEPT ![p] = new] /\ new \in Jobs
      BY <1>2, <2>3 DEF ReadSlot, Jobs
  <2> HIDE DEF new
  <2>5. Knows(p)'
    <3>1. proc'[p] = new /\ lock' # p
        BY <1>1, <2>4 DEF Types
    <3>2. ASSUME new.seen.rev = auth.rev, NEW m \in Lenses, new.got[m] # None PROVE Stands(m, new.got[m])
      <4>1. proc[p].seen = auth
          BY <1>1, <2>3, <3>2 DEF Knows, Saw
      <4>2. CASE m = l
          BY <1>2, <2>1, <2>3, <4>1, <4>2 DEF Stands, Usable, Slots
      <4>3. CASE m # l
          BY <1>1, <2>1, <2>3, <3>2, <4>1, <4>3 DEF Knows, Slots
      <4> QED
          BY <4>2, <4>3
    <3> QED
        BY <1>1, <2>3, <3>1, <3>2 DEF Knows, Saw, Stands
  <2> QED
      BY <1>1, <2>4, <2>5, CommandGoes DEF StoreTypes
<1>3. CASE ~Usable(proc[p].seen, l)
    BY <1>1, <1>3, DoneStep DEF ReadSlot, StoreTypes
<1> QED
    BY <1>2, <1>3

(* The record moves: nobody holds the lock, so every slot is as it was, and *)
(* whoever has seen the record has now seen an old one.                    *)
LEMMA RecordMoves ==
    ASSUME Bounds, CaptureInv, lock = None, auth' \in Auths, auth'.rev = auth.rev + 1,
           UNCHANGED <<payloads, digests, archive, lock, faults>>,
           \/ UNCHANGED proc
           \/ \E p \in Procs : Done(p),
           auth'.reopens = auth.reopens, DisposedEnds', VerdictOnDisk', DisposedIsEmpty'
    PROVE  CaptureInv' /\ LeavesForArchive
<1>1. proc' \in [Procs -> Jobs] /\ \A q \in Procs : proc'[q] \in {Idle, proc[q]}
    BY IdleJob DEF CaptureInv, Types, Done
<1>2. auth.rev \in Nat
    BY DEF CaptureInv, Types, StoreTypes, Auths
<1>3. Types' /\ Past'
  <2>1. \A l \in Lenses : /\ payloads[l] # None => payloads[l] \in Results
                          /\ digests[l] # None => digests[l] \in Results
      BY DEF CaptureInv, Types, StoreTypes, Slots
  <2>2. \A r \in Results : r[2] \in Nat
      BY DEF Results, Bounds
  <2>3. \A i \in 1 .. Len(auth.reopens), l \in Lenses :
           auth.reopens[i].quarantined[l] # None => auth.reopens[i].quarantined[l] \in Results
    <3> TAKE i \in 1 .. Len(auth.reopens), l \in Lenses
    <3>1. auth.reopens \in Seq(Reopenings)
        BY DEF CaptureInv, Types, StoreTypes, Auths
    <3>2. auth.reopens[i] \in Reopenings
        BY <3>1
    <3> QED
        BY <3>2 DEF Reopenings, Slots
  <2> QED
      BY <1>1, <1>2, <2>1, <2>2, <2>3 DEF CaptureInv, Types, StoreTypes, Past
<1>4. \A l, d : /\ Quarantined(auth', l, d) <=> Quarantined(auth, l, d)
                /\ ArchivedUnder(auth', l, d) = ArchivedUnder(auth, l, d)
    BY DEF Quarantined, CondemnedBy, ArchivedUnder
<1>5. CaptureConverges'
    BY <1>4 DEF CaptureInv, CaptureConverges, Place, Held
<1>6. ASSUME NEW q \in Procs PROVE Knows(q)'
  <2>1. Knows(q) /\ proc[q] \in Jobs /\ lock # q /\ q # None
      BY DEF CaptureInv, Types, Bounds
  <2>2. CASE proc'[q] = Idle
      BY <2>1, <2>2, IdleJob DEF Knows
  <2>3. CASE proc'[q] = proc[q]
    <3>1. proc[q].op = "capture" => proc[q].at \notin Locked
        BY <2>1 DEF Knows
    <3>2. proc[q].op \in {"finalize", "reopen", "dispose"} =>
             proc[q].seen.rev \in Nat /\ proc[q].seen.rev <= auth.rev /\ proc[q].seen.rev # auth'.rev
      <4>1. proc[q].op \in {"finalize", "reopen", "dispose"} => proc[q].seen.rev \in Nat
          BY <2>1, JobOf DEF Finalizes, Reopens, Disposes, Auths, Bounds
      <4> QED
          BY <1>2, <2>1, <4>1 DEF Knows, Saw
    <3> QED
        BY <1>2, <2>1, <2>3, <3>1, <3>2 DEF Knows, Saw, Locked
  <2> QED
      BY <1>1, <2>2, <2>3
<1>7. LeavesForArchive
    BY DEF LeavesForArchive
<1> QED
    BY <1>3, <1>5, <1>6, <1>7 DEF CaptureInv

LEMMA CompleteReviewStep ==
    ASSUME Bounds, CaptureInv, NEW p \in Procs, CompleteReview(p)
    PROVE  CaptureInv' /\ LeavesForArchive
<1>1. /\ proc[p] \in Finalizes /\ proc[p].op = "finalize" /\ lock # p /\ Types /\ StoreTypes /\ Knows(p)
      /\ Done(p) /\ UNCHANGED <<payloads, digests, archive, lock, faults>>
      /\ \A l \in Lenses : proc[p].got[l] # None
    BY JobAt DEF CompleteReview
<1>2. CASE lock = None /\ auth.rev = proc[p].seen.rev
  <2>1. /\ proc[p].seen = auth /\ auth.state = "reviewing" /\ auth.rev < MaxRev /\ auth.rev \in Nat /\ auth \in Auths
        /\ \A l \in Lenses : Stands(l, proc[p].got[l])
    <3>1. proc[p].seen = auth /\ proc[p].seen.state = "reviewing"
        BY <1>1, <1>2 DEF Knows, Saw
    <3>2. auth.rev < MaxRev
        BY <1>2 DEF CompleteReview
    <3>3. auth \in Auths /\ auth.rev \in Nat
        BY <1>1 DEF StoreTypes, Auths
    <3>4. \A l \in Lenses : Stands(l, proc[p].got[l])
        BY <1>1, <1>2 DEF Knows
    <3> QED
        BY <3>1, <3>2, <3>3, <3>4
  <2>2. PICK got \in Slots : got = proc[p].got
      BY <1>1 DEF Finalizes
  <2>3. PICK v \in {"validating", "correction_required", "escalated"} :
           auth' = [auth EXCEPT !.rev = @ + 1, !.results = got, !.state = v]
      BY <1>1, <1>2, <2>1, <2>2 DEF CompleteReview, Verdicts
  <2>4. /\ auth' \in Auths /\ auth'.rev = auth.rev + 1 /\ auth'.results = got
        /\ auth'.reopens = auth.reopens /\ auth'.disposed = auth.disposed
    <3>1. auth.rev + 1 \in 1 .. MaxRev
        BY <2>1 DEF Bounds
    <3> QED
        BY <2>1, <2>3, <3>1 DEF Auths
  <2>5. auth.disposed = {}
      BY <2>1 DEF CaptureInv, DisposedEnds
  <2>6. DisposedEnds' /\ DisposedIsEmpty'
      BY <2>4, <2>5 DEF DisposedEnds, DisposedIsEmpty
  <2>7. VerdictOnDisk'
      BY <1>1, <2>1, <2>2, <2>4 DEF VerdictOnDisk, Stands, Quarantined, CondemnedBy
  <2> QED
      BY <1>1, <1>2, <2>4, <2>6, <2>7, RecordMoves
<1>3. CASE ~(lock = None /\ auth.rev = proc[p].seen.rev)
    BY <1>1, <1>3, DoneStep DEF CompleteReview, StoreTypes
<1> QED
    BY <1>2, <1>3

LEMMA ApproveStep ==
    ASSUME Bounds, CaptureInv, Approve
    PROVE  CaptureInv' /\ LeavesForArchive
<1>1. /\ auth \in Auths /\ lock = None /\ auth.rev < MaxRev /\ auth.rev \in Nat /\ auth.state = "validating"
      /\ auth' = [auth EXCEPT !.rev = @ + 1, !.state = "approved"]
      /\ UNCHANGED <<payloads, digests, archive, proc, lock, faults>>
    BY DEF Approve, CaptureInv, Types, StoreTypes, Auths
<1>2. /\ auth' \in Auths /\ auth'.rev = auth.rev + 1 /\ auth'.results = auth.results
      /\ auth'.reopens = auth.reopens /\ auth'.disposed = auth.disposed
  <2>1. auth.rev + 1 \in 1 .. MaxRev
      BY <1>1 DEF Bounds
  <2> QED
      BY <1>1, <2>1 DEF Auths
<1>3. auth.disposed = {}
    BY <1>1 DEF CaptureInv, DisposedEnds
<1>4. DisposedEnds' /\ DisposedIsEmpty'
    BY <1>2, <1>3 DEF DisposedEnds, DisposedIsEmpty
<1>5. VerdictOnDisk'
    BY <1>1, <1>2 DEF CaptureInv, VerdictOnDisk, Quarantined, CondemnedBy
<1> QED
    BY <1>1, <1>2, <1>4, <1>5, RecordMoves

-----------------------------------------------------------------------------
LEMMA ClassifiedType ==
    ASSUME Bounds, StoreTypes, NEW r, NEW named
    PROVE  /\ Classified(r, named) \in [quarantined : Slots, retained : Slots]
           /\ \A l \in Lenses : Classified(r, named).quarantined[l] \in {None, payloads[l]}
BY DEF Classified, StoreTypes, Slots

LEMMA BeginReopenStep ==
    ASSUME Bounds, CaptureInv, NEW p \in Procs, NEW named \in SUBSET Lenses, BeginReopen(p, named)
    PROVE  CaptureInv' /\ LeavesForArchive
<1> DEFINE new == [op |-> "reopen", at |-> "commit", seen |-> auth, named |-> named, plan |-> Classified(auth, named)]
<1>1. /\ proc[p].op = "idle" /\ Types /\ StoreTypes /\ Knows(p) /\ auth \in Auths /\ auth.rev \in Nat
      /\ auth.state \in {"validating", "correction_required"}
    BY IdleJob DEF BeginReopen, CaptureInv, Types, StoreTypes, Auths
<1>2. new \in Reopens /\ new.op = "reopen" /\ new.seen = auth
    BY <1>1, ClassifiedType DEF Reopens
<1>3. proc' = [proc EXCEPT ![p] = new] /\ new \in Jobs /\ UNCHANGED <<auth, payloads, digests, archive, lock, faults>>
    BY <1>2 DEF BeginReopen, Jobs
<1> HIDE DEF new
<1>4. Knows(p)'
  <2>1. proc'[p] = new /\ lock' # p
      BY <1>1, <1>3 DEF Types, Knows
  <2> QED
      BY <1>1, <1>2, <1>3, <2>1 DEF Knows, Saw
<1> QED
    BY <1>1, <1>3, <1>4, CommandGoes DEF StoreTypes

(* A reopening adds to the history; every slot it finds is whole, so none  *)
(* is half cleared, and what it condemns is of the revision it replaces or *)
(* of an older one.                                                        *)
LEMMA CommitReopenStep ==
    ASSUME Bounds, CaptureInv, NEW p \in Procs, CommitReopen(p)
    PROVE  CaptureInv' /\ LeavesForArchive
<1> DEFINE j == proc[p]
           plan == j.plan
<1>1. /\ j \in Reopens /\ j.op = "reopen" /\ lock # p /\ Types /\ StoreTypes /\ Knows(p)
      /\ Done(p) /\ UNCHANGED <<payloads, digests, archive, lock, faults>>
    BY JobAt DEF CommitReopen
<1>2. CASE lock = None /\ auth.rev = j.seen.rev /\ (\A l \in Lenses : Readable(l)) /\ Classified(j.seen, j.named) = plan
  <2>1. /\ j.seen = auth /\ auth.state \in {"validating", "correction_required"} /\ auth.rev < MaxRev
        /\ auth \in Auths /\ auth.rev \in 1 .. MaxRev /\ auth.reopens \in Seq(Reopenings)
        /\ auth' = Reopened(auth, plan)
      BY <1>1, <1>2 DEF CommitReopen, Knows, Saw, StoreTypes, Auths
  <2>2. plan \in [quarantined : Slots, retained : Slots] /\ \A l \in Lenses : plan.quarantined[l] \in {None, payloads[l]}
      BY <1>1, <1>2, ClassifiedType
  <2> DEFINE entry == [from |-> auth.rev, quarantined |-> plan.quarantined, retained |-> plan.retained]
  <2>3. entry \in Reopenings /\ entry.quarantined = plan.quarantined
      BY <2>1, <2>2 DEF Reopenings
  <2>4. /\ auth'.rev = auth.rev + 1 /\ auth'.state = "reviewing" /\ auth'.disposed = auth.disposed
        /\ auth'.reopens = Append(auth.reopens, entry) /\ auth' \in Auths
    <3>1. auth.rev + 1 \in 1 .. MaxRev /\ [l \in Lenses |-> None] \in Slots
        BY <2>1 DEF Bounds, Slots
    <3>2. Append(auth.reopens, entry) \in Seq(Reopenings)
        BY <2>1, <2>3
    <3> QED
        BY <2>1, <3>1, <3>2 DEF Reopened, Auths
  <2> HIDE DEF entry
  <2>5. auth.disposed = {}
      BY <2>1 DEF CaptureInv, DisposedEnds
  <2>6. DisposedEnds' /\ DisposedIsEmpty' /\ VerdictOnDisk'
      BY <2>4, <2>5 DEF DisposedEnds, DisposedIsEmpty, VerdictOnDisk
  <2>7. \A l \in Lenses : payloads[l] # None /\ digests[l] # None /\ payloads[l] = digests[l] /\ payloads[l] \in Results
      BY <1>1, <1>2 DEF Readable, StoreTypes, Slots
  <2>8. CaptureConverges'
      BY <1>1, <2>7 DEF CaptureConverges
  <2>9. Types' /\ Past'
    <3>1. Types'
        BY <1>1, <2>4, IdleJob DEF Types, StoreTypes, Done
    <3>2. \A l \in Lenses : payloads[l][2] <= auth.rev /\ digests[l][2] <= auth.rev
          /\ payloads[l][2] \in Nat /\ digests[l][2] \in Nat
        BY <2>7 DEF CaptureInv, Past, Results, Bounds
    <3>3. ASSUME NEW i \in 1 .. Len(auth'.reopens), NEW l \in Lenses, auth'.reopens[i].quarantined[l] # None
          PROVE  auth'.reopens[i].quarantined[l][2] < auth'.rev
      <4>1. CASE i \in 1 .. Len(auth.reopens)
        <5>1. auth'.reopens[i] = auth.reopens[i] /\ auth.reopens[i] \in Reopenings
            BY <2>1, <2>3, <2>4, <4>1
        <5>2. auth.reopens[i].quarantined[l] \in Results
            BY <3>3, <5>1 DEF Reopenings, Slots
        <5>3. auth.reopens[i].quarantined[l][2] < auth.rev /\ auth.reopens[i].quarantined[l][2] \in Nat
            BY <3>3, <4>1, <5>1, <5>2 DEF CaptureInv, Past, Results, Bounds
        <5> QED
            BY <2>1, <2>4, <5>1, <5>3
      <4>2. CASE i = Len(auth.reopens) + 1
        <5>1. auth'.reopens[i] = entry
            BY <2>1, <2>3, <2>4, <4>2
        <5>2. auth'.reopens[i].quarantined[l] = payloads[l]
            BY <2>2, <2>3, <3>3, <5>1
        <5> QED
            BY <2>1, <2>4, <3>2, <5>2
      <4> QED
          BY <2>1, <2>3, <2>4, <4>1, <4>2
    <3>4. \A l \in Lenses : payloads[l][2] <= auth'.rev /\ digests[l][2] <= auth'.rev
        BY <2>1, <2>4, <3>2
    <3> QED
        BY <1>1, <3>1, <3>3, <3>4 DEF Past
  <2>10. ASSUME NEW q \in Procs PROVE Knows(q)'
    <3>1. /\ Knows(q) /\ proc[q] \in Jobs /\ lock # q /\ proc'[q] \in {Idle, proc[q]}
        BY <1>1, <1>2 DEF CaptureInv, Types, Bounds, Done
    <3>2. CASE proc'[q] = Idle
        BY <1>1, <3>1, <3>2, IdleJob DEF Knows
    <3>3. CASE proc'[q] = proc[q]
      <4>1. proc[q].op = "capture" => proc[q].at \notin Locked
          BY <3>1 DEF Knows
      <4>2. proc[q].op \in {"finalize", "reopen", "dispose"} =>
               proc[q].seen.rev \in Nat /\ proc[q].seen.rev <= auth.rev
          BY <3>1, JobOf DEF Knows, Saw, Finalizes, Reopens, Disposes, Auths, Bounds
      <4>3. proc[q].op \in {"finalize", "reopen", "dispose"} =>
               proc[q].seen.rev <= auth'.rev /\ proc[q].seen.rev # auth'.rev
          BY <2>1, <2>4, <4>2
      <4> QED
          BY <1>1, <3>1, <3>3, <4>1, <4>3 DEF Knows, Saw, Locked
    <3> QED
        BY <3>1, <3>2, <3>3
  <2>11. LeavesForArchive
      BY <1>1 DEF LeavesForArchive
  <2> QED
      BY <2>6, <2>8, <2>9, <2>10, <2>11 DEF CaptureInv
<1>3. CASE ~(lock = None /\ auth.rev = j.seen.rev /\ (\A l \in Lenses : Readable(l)) /\ Classified(j.seen, j.named) = plan)
    BY <1>1, <1>3, DoneStep DEF CommitReopen, StoreTypes
<1> QED
    BY <1>2, <1>3

LEMMA BeginDisposeStep ==
    ASSUME Bounds, CaptureInv, NEW p \in Procs, NEW l \in Lenses, BeginDispose(p, l)
    PROVE  CaptureInv' /\ LeavesForArchive
<1> DEFINE new == [op |-> "dispose", at |-> "commit", seen |-> auth, lens |-> l]
<1>1. /\ proc[p].op = "idle" /\ Types /\ StoreTypes /\ Knows(p) /\ auth \in Auths /\ auth.rev \in Nat
      /\ auth.state = "reviewing"
    BY IdleJob DEF BeginDispose, CaptureInv, Types, StoreTypes, Auths
<1>2. new \in Disposes /\ new.op = "dispose" /\ new.seen = auth
    BY <1>1 DEF Disposes
<1>3. proc' = [proc EXCEPT ![p] = new] /\ new \in Jobs /\ UNCHANGED <<auth, payloads, digests, archive, lock, faults>>
    BY <1>2 DEF BeginDispose, Jobs
<1> HIDE DEF new
<1>4. Knows(p)'
  <2>1. proc'[p] = new /\ lock' # p
      BY <1>1, <1>3 DEF Types, Knows
  <2> QED
      BY <1>1, <1>2, <1>3, <2>1 DEF Knows, Saw
<1> QED
    BY <1>1, <1>3, <1>4, CommandGoes DEF StoreTypes

LEMMA CommitDisposeStep ==
    ASSUME Bounds, CaptureInv, NEW p \in Procs, CommitDispose(p)
    PROVE  CaptureInv' /\ LeavesForArchive
<1> DEFINE j == proc[p]
<1>1. /\ j \in Disposes /\ j.op = "dispose" /\ lock # p /\ Types /\ StoreTypes /\ Knows(p)
      /\ Done(p) /\ UNCHANGED <<payloads, digests, archive, lock, faults>>
    BY JobAt DEF CommitDispose
<1>2. CASE Disposable(j)
  <2>1. PICK l \in Lenses : l = j.lens
      BY <1>1 DEF Disposes
  <2>2. lock = None /\ auth.rev = j.seen.rev /\ payloads[l] = None
      BY <1>2, <2>1 DEF Disposable, Uncaptured
  <2>3. j.seen = auth /\ j.seen.state = "reviewing"
      BY <1>1, <2>2 DEF Knows, Saw
  <2>4. /\ auth.rev < MaxRev
        /\ auth' = [auth EXCEPT !.rev = @ + 1, !.state = "escalated", !.disposed = @ \cup {l}]
      BY <1>2, <2>1, <2>3 DEF CommitDispose
  <2>5. auth \in Auths /\ auth.rev \in 1 .. MaxRev /\ auth.disposed = {}
      BY <1>1, <2>3 DEF StoreTypes, Auths, CaptureInv, DisposedEnds
  <2>6. /\ auth'.rev = auth.rev + 1 /\ auth'.state = "escalated" /\ auth'.disposed = {l}
        /\ auth'.reopens = auth.reopens /\ auth' \in Auths
    <3>1. auth.rev + 1 \in 1 .. MaxRev
        BY <2>4, <2>5 DEF Bounds
    <3> QED
        BY <2>4, <2>5, <3>1 DEF Auths
  <2>7. DisposedEnds' /\ DisposedIsEmpty' /\ VerdictOnDisk'
      BY <1>1, <2>2, <2>6 DEF DisposedEnds, DisposedIsEmpty, VerdictOnDisk, Uncaptured
  <2> QED
      BY <1>1, <2>2, <2>6, <2>7, RecordMoves
<1>3. CASE ~Disposable(j)
    BY <1>1, <1>3, DoneStep DEF CommitDispose, StoreTypes
<1> QED
    BY <1>2, <1>3

LEMMA CrashStep ==
    ASSUME Bounds, CaptureInv, NEW p \in Procs, Crash(p)
    PROVE  CaptureInv' /\ LeavesForArchive
<1>1. faults' \in 0 .. MaxFaults
    BY DEF Crash, CaptureInv, Types, StoreTypes, Bounds
<1> QED
    BY <1>1, DoneStep DEF Crash

-----------------------------------------------------------------------------
LEMMA ResultsInit ==
    ASSUME Bounds, Init
    PROVE  CaptureInv
<1>1. auth \in Auths /\ auth.rev = 1 /\ auth.state = "reviewing" /\ Len(auth.reopens) = 0 /\ auth.disposed = {}
    BY DEF Init, Auths, Slots, Bounds
<1>2. StoreTypes
    BY <1>1 DEF Init, StoreTypes, Slots, Bounds
<1>3. Types
    BY <1>2, IdleJob DEF Init, Types
<1>4. Past /\ DisposedEnds /\ DisposedIsEmpty /\ VerdictOnDisk /\ CaptureConverges
    BY <1>1 DEF Init, Past, DisposedEnds, DisposedIsEmpty, VerdictOnDisk, CaptureConverges
<1>5. ASSUME NEW p \in Procs PROVE Knows(p)
    BY IdleJob DEF Init, Knows, Bounds
<1> QED
    BY <1>3, <1>4, <1>5 DEF CaptureInv

LEMMA ResultsStep ==
    ASSUME Bounds, CaptureInv, [Next]_vars
    PROVE  CaptureInv' /\ (LeavesForArchive \/ UNCHANGED vars)
<1>1. CASE UNCHANGED vars
  <2>1. UNCHANGED <<auth, payloads, digests, archive, proc, lock, faults>>
      BY <1>1 DEF vars
  <2>2. Types' /\ Past' /\ DisposedEnds' /\ VerdictOnDisk' /\ DisposedIsEmpty'
      BY <2>1 DEF CaptureInv, Types, StoreTypes, Past, DisposedEnds, VerdictOnDisk, DisposedIsEmpty, Uncaptured
  <2>3. CaptureConverges'
      BY <2>1 DEF CaptureInv, CaptureConverges, Place, Held
  <2>4. ASSUME NEW p \in Procs PROVE Knows(p)'
      BY <2>1 DEF CaptureInv, Knows, BoundTo, Condemned, Place, Held, Saw, Stands
  <2> QED
      BY <1>1, <2>2, <2>3, <2>4 DEF CaptureInv
<1>2. CASE Approve
    BY <1>2, ApproveStep
<1>3. ASSUME NEW p \in Procs, NEW l \in Lenses, NEW b \in Bodies, BeginCapture(p, l, b)
      PROVE  CaptureInv' /\ LeavesForArchive
    BY <1>3, BeginCaptureStep
<1>4. ASSUME NEW p \in Procs, CaptureStep(p) PROVE CaptureInv' /\ LeavesForArchive
    BY <1>4, TakeLockStep, GiveUpStep, PrepareStep, SealStep, ClearStep, PublishStep, PublishDigestStep, AnswerStep
       DEF CaptureStep
<1>5. ASSUME NEW p \in Procs,
             BeginFinalize(p) \/ (\E l \in Lenses : ReadSlot(p, l)) \/ CompleteReview(p)
      PROVE  CaptureInv' /\ LeavesForArchive
    BY <1>5, BeginFinalizeStep, ReadSlotStep, CompleteReviewStep
<1>6. ASSUME NEW p \in Procs,
             (\E named \in SUBSET Lenses : BeginReopen(p, named)) \/ CommitReopen(p)
                 \/ (\E l \in Lenses : BeginDispose(p, l)) \/ CommitDispose(p) \/ Crash(p)
      PROVE  CaptureInv' /\ LeavesForArchive
    BY <1>6, BeginReopenStep, CommitReopenStep, BeginDisposeStep, CommitDisposeStep, CrashStep
<1> QED
    BY <1>1, <1>2, <1>3, <1>4, <1>5, <1>6 DEF Next

(* What the five properties read off the invariant.                        *)
LEMMA ToldFromKnows ==
    ASSUME Bounds, CaptureInv
    PROVE  TypeOK /\ ToldIsKept
<1>1. TypeOK
    BY DEF CaptureInv, Types, StoreTypes, Auths, Slots, TypeOK
<1>2. ToldIsKept
    BY CaptureAt DEF ToldIsKept, Knows
<1> QED
    BY <1>1, <1>2

(* The invariant of the slots, whatever the commands interleave and        *)
(* wherever they crash.                                                    *)
THEOREM CaptureInvariant == ASSUME Bounds PROVE Spec => []CaptureInv
<1>1. Init => CaptureInv
    BY ResultsInit
<1>2. CaptureInv /\ [Next]_vars => CaptureInv'
    BY ResultsStep
<1> QED
    BY <1>1, <1>2, PTL DEF Spec

(* The types of record, slots, archive and lock.                           *)
THEOREM CaptureTypes == ASSUME Bounds PROVE Spec => []TypeOK
<1>1. CaptureInv => TypeOK
    BY ToldFromKnows
<1> QED
    BY <1>1, CaptureInvariant, PTL

(* A verdict rests on results that are in their slots, whole, and that no  *)
(* reopening condemned, though FINALIZE read them without the lock.        *)
THEOREM VerdictsStand == ASSUME Bounds PROVE Spec => []VerdictOnDisk
<1>1. CaptureInv => VerdictOnDisk
    BY DEF CaptureInv
<1> QED
    BY <1>1, CaptureInvariant, PTL

(* A lens that was disposed of has no captured result.                     *)
THEOREM DisposedStayEmpty == ASSUME Bounds PROVE Spec => []DisposedIsEmpty
<1>1. CaptureInv => DisposedIsEmpty
    BY DEF CaptureInv
<1> QED
    BY <1>1, CaptureInvariant, PTL

(* Wherever a capture crashed, what it left half done is what the next     *)
(* capture of that slot expects.                                           *)
THEOREM CapturesConverge == ASSUME Bounds PROVE Spec => []CaptureConverges
<1>1. CaptureInv => CaptureConverges
    BY DEF CaptureInv
<1> QED
    BY <1>1, CaptureInvariant, PTL

(* A command that answers "captured" tells of a result that is kept.       *)
THEOREM AnswersAreKept == ASSUME Bounds PROVE Spec => []ToldIsKept
<1>1. CaptureInv => ToldIsKept
    BY ToldFromKnows
<1> QED
    BY <1>1, CaptureInvariant, PTL

(* What leaves a slot is in the archive, file and digest, and was          *)
(* condemned by a reopening of the record.                                 *)
THEOREM NothingIsLost == ASSUME Bounds PROVE Spec => [][LeavesForArchive]_vars
<1>1. CaptureInv /\ [Next]_vars => [LeavesForArchive]_vars
    BY ResultsStep
<1> QED
    BY <1>1, CaptureInvariant, PTL DEF Spec
=============================================================================
