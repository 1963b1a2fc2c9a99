------------------------- MODULE AuthorityGraphProofs -------------------------
(***************************************************************************)
(* Theorems about AuthorityGraph, for any processes, candidates, scopes,   *)
(* names and bounds: the graph never forks, no two starts leave two leaves *)
(* for one candidate, and what START answers holds when it is answered.    *)
(***************************************************************************)
EXTENDS AuthorityGraph, TLAPS

Records == [state : States, initial : Candidates, current : Candidates, forecast : BOOLEAN,
            rev : 1..MaxRev, gen : Nat, pred : Lineages \cup {None}, predRev : Nat,
            why : Dispositions \cup {"start"}]

Answers == [act : {"created", "resumed", "reuse-receipt", "recover", "blocked", "failed"}, line : Lineages]
Starts == [at : {"start", "inspect", "create"}, line : Lineages, explicit : BOOLEAN,
           cand : Candidates, live : BOOLEAN]
Tolds == [at : {"told"}, answer : Answers, cand : Candidates]
Recoveries == [at : {"recover"}, line : Lineages, name : Names, next : Records]
Advances == [at : {"advance"}, line : Lineages, next : Records]
Receipts == [at : {"receipt"}, line : Lineages]
Jobs == [at : {"idle"}] \cup Starts \cup Tolds \cup Recoveries \cup Advances \cup Receipts

Bounds ==
    /\ MaxRev \in Nat \ {0} /\ MaxEdits \in Nat
    /\ None \notin Procs /\ None \notin Lineages /\ None \notin Records

StoreTypes ==
    /\ tree \in Candidates /\ edits \in 0..MaxEdits
    /\ rec \in [Lineages -> Records \cup {None}]
    /\ receipt \in [Lineages -> 0..MaxRev]
    /\ lock \in Procs \cup {None}
Types == StoreTypes /\ proc \in [Procs -> Jobs]

(* What no writer changes in a record.                                     *)
Same(r, s) == r.pred = s.pred /\ r.initial = s.initial /\ r.gen = s.gen /\ r.predRev = s.predRev

(* No leaf of the first generation is for the candidate.                   *)
Fresh(c) == \A m \in Leaves : rec[m].pred = None => rec[m].initial # c

(* What a command knows when it comes to write: START, which holds the     *)
(* lock since it looked, that no lineage answers for its candidate; the    *)
(* others only what never changes.                                         *)
Knows(p) ==
    /\ proc[p].at \in {"inspect", "create"} <=> lock = p
    /\ proc[p].at = "create" => proc[p].line \notin Known /\ Fresh(proc[p].cand)
    /\ proc[p].at = "recover" => proc[p].line \in Known /\ proc[p].next.pred = proc[p].line
    /\ proc[p].at = "advance" => proc[p].line \in Known /\ Same(proc[p].next, rec[proc[p].line])
    /\ proc[p].at = "receipt" => proc[p].line \in Known

GraphInv == Types /\ NeverForks /\ NoTwins /\ \A p \in Procs : Knows(p)

-----------------------------------------------------------------------------
(* What a job of each place holds.                                         *)
LEMMA JobOf ==
    ASSUME NEW j \in Jobs
    PROVE  /\ j.at \in {"start", "inspect", "create"} => j \in Starts
           /\ j.at = "told" => j \in Tolds
           /\ j.at = "recover" => j \in Recoveries
           /\ j.at = "advance" => j \in Advances
           /\ j.at = "receipt" => j \in Receipts
           /\ j.at \in {"idle", "start", "inspect", "create", "told", "recover", "advance", "receipt"}
BY DEF Jobs, Starts, Tolds, Recoveries, Advances, Receipts

LEMMA IdleJob == Idle \in Jobs /\ Idle.at = "idle"
BY DEF Idle, Jobs

LEMMA RecordOf ==
    ASSUME Bounds, StoreTypes, NEW l \in Known
    PROVE  l \in Lineages /\ rec[l] \in Records
BY DEF Known, StoreTypes

LEMMA NewRecordType ==
    ASSUME Bounds, NEW c \in Candidates
    PROVE  NewRecord(c) \in Records /\ NewRecord(c).pred = None /\ NewRecord(c).initial = c
<1>1. 1 \in 1..MaxRev /\ "reviewing" \in States
    BY DEF Bounds, States
<1> QED
    BY <1>1 DEF NewRecord, Records

(* A lineage is added: to nothing, for a fresh candidate, or to a leaf.    *)
LEMMA Adds ==
    ASSUME Bounds, StoreTypes, NeverForks, NoTwins, NEW l \in Lineages, l \notin Known, NEW r \in Records,
           rec' = [rec EXCEPT ![l] = r],
           \/ r.pred = None /\ Fresh(r.initial)
           \/ /\ r.pred \in Known /\ Leaf(r.pred)
              /\ r.gen = rec[r.pred].gen + 1 /\ r.predRev <= rec[r.pred].rev
    PROVE  /\ rec' \in [Lineages -> Records \cup {None}]
           /\ NeverForks' /\ NoTwins'
           /\ \A m \in Known : m \in Known' /\ rec'[m] = rec[m]
           /\ Leaf(l)'
<1>1. /\ rec' \in [Lineages -> Records \cup {None}] /\ rec'[l] = r
      /\ \A m \in Lineages : m # l => rec'[m] = rec[m]
    BY DEF StoreTypes
<1>2. Known' = Known \cup {l} /\ \A m \in Known : m # l /\ rec'[m] = rec[m]
    BY <1>1 DEF Known, Bounds
<1>3. l # None /\ \A m \in Known : rec[m].pred # l
    BY DEF NeverForks, Bounds
<1>4. r.pred # l
    BY <1>3
<1>5. ASSUME NEW x \in Known PROVE Children(x)' = IF r.pred = x THEN Children(x) \cup {l} ELSE Children(x)
    BY <1>1, <1>2 DEF Children
<1>6. Children(l)' = {}
    BY <1>1, <1>2, <1>3, <1>4 DEF Children
<1>7. NeverForks'
  <2> SUFFICES ASSUME NEW m \in Known', NEW q, q = rec'[m].pred, q # None
               PROVE  /\ q \in Known' /\ Children(q)' = {m}
                      /\ rec'[m].gen = rec'[q].gen + 1 /\ rec'[m].predRev <= rec'[q].rev
      BY DEF NeverForks, Children
  <2>1. CASE m = l
    <3>1. r.pred \in Known /\ Children(r.pred) = {} /\ rec'[m] = r
        BY <1>1, <2>1 DEF Leaf
    <3> QED
        BY <1>1, <1>2, <1>5, <2>1, <3>1
  <2>2. CASE m \in Known
    <3>1. /\ rec'[m] = rec[m] /\ rec[m].pred \in Known /\ Children(rec[m].pred) = {m}
          /\ rec[m].gen = rec[rec[m].pred].gen + 1 /\ rec[m].predRev <= rec[rec[m].pred].rev
        BY <1>2, <2>2 DEF NeverForks
    <3>2. r.pred # rec[m].pred
        BY <3>1 DEF Leaf, Bounds, Known
    <3> QED
        BY <1>2, <1>5, <3>1, <3>2
  <2> QED
      BY <1>2, <2>1, <2>2
<1>8. NoTwins'
  <2> SUFFICES ASSUME NEW a \in Leaves', NEW b \in Leaves', rec'[a].pred = None, rec'[b].pred = None,
                      rec'[a].initial = rec'[b].initial
               PROVE  a = b
      BY DEF NoTwins
  <2>1. ASSUME NEW x \in Leaves', x # l PROVE x \in Leaves /\ rec'[x] = rec[x]
      BY <1>2, <1>5, <2>1 DEF Leaves, Leaf
  <2>2. r.pred = None => Fresh(r.initial)
      BY DEF Bounds, Known
  <2>3. CASE a # l /\ b # l
      BY <2>1, <2>3 DEF NoTwins
  <2>4. CASE a # l /\ b = l
      BY <1>1, <2>1, <2>2, <2>4 DEF Fresh
  <2>5. CASE a = l /\ b # l
      BY <1>1, <2>1, <2>2, <2>5 DEF Fresh
  <2> QED
      BY <2>3, <2>4, <2>5
<1> QED
    BY <1>1, <1>2, <1>6, <1>7, <1>8 DEF Leaf

(* A lineage advances, and keeps what no writer changes.                   *)
LEMMA Moves ==
    ASSUME Bounds, StoreTypes, NeverForks, NoTwins, NEW l \in Known, NEW r \in Records,
           rec' = [rec EXCEPT ![l] = r], Same(r, rec[l]), r.rev >= rec[l].rev
    PROVE  /\ rec' \in [Lineages -> Records \cup {None}]
           /\ NeverForks' /\ NoTwins'
           /\ \A m \in Known : m \in Known' /\ Same(rec'[m], rec[m])
<1>1. /\ rec' \in [Lineages -> Records \cup {None}] /\ rec'[l] = r /\ l \in Lineages /\ rec[l] \in Records
      /\ \A m \in Lineages : m # l => rec'[m] = rec[m]
    BY RecordOf DEF StoreTypes
<1>2. Known' = Known
    BY <1>1 DEF Known, Bounds
<1>3. \A m \in Known : Same(rec'[m], rec[m]) /\ rec'[m].rev >= rec[m].rev /\ rec[m] \in Records /\ rec'[m] \in Records
  <2> TAKE m \in Known
  <2>1. rec[m] \in Records /\ m \in Lineages
      BY RecordOf
  <2> QED
      BY <1>1, <2>1 DEF Same, Records
<1>4. \A x : Children(x)' = Children(x)
    BY <1>2, <1>3 DEF Children, Same
<1>5. NeverForks'
  <2> SUFFICES ASSUME NEW m \in Known, NEW q, q = rec'[m].pred, q # None
               PROVE  /\ q \in Known /\ Children(q)' = {m}
                      /\ rec'[m].gen = rec'[q].gen + 1 /\ rec'[m].predRev <= rec'[q].rev
      BY <1>2 DEF NeverForks, Children
  <2>1. /\ q \in Known /\ Children(q) = {m} /\ rec[m].pred = q
        /\ rec[m].gen = rec[q].gen + 1 /\ rec[m].predRev <= rec[q].rev
      BY <1>3 DEF NeverForks, Same
  <2>2. /\ rec'[m].gen = rec[m].gen /\ rec'[m].predRev = rec[m].predRev /\ rec[m].predRev \in Nat
        /\ rec'[q].gen = rec[q].gen /\ rec'[q].rev >= rec[q].rev /\ rec[q].rev \in Nat /\ rec'[q].rev \in Nat
      BY <1>3, <2>1 DEF Same, Records, Bounds
  <2> QED
      BY <1>4, <2>1, <2>2
<1>6. NoTwins' 
  <2>1. Leaves' = Leaves
      BY <1>2, <1>4 DEF Leaves, Leaf
  <2> QED
      BY <1>3, <2>1 DEF NoTwins, Leaves, Same
<1> QED
    BY <1>1, <1>2, <1>3, <1>5, <1>6

-----------------------------------------------------------------------------
(* An answer that names a lineage, and what has to be so of it.            *)
Holds(a, asked, c) ==
    /\ a.act \in {"resumed", "reuse-receipt", "recover"} => a.line \in Leaves
    /\ a.act = "reuse-receipt" => rec[a.line].state = "approved" /\ rec[a.line].current = c
    /\ a.act = "recover" => \E why \in Dispositions : Recovers(rec[a.line], c, why)
    /\ a.act = "created" => asked \notin Known /\ Fresh(c)

LEMMA SayType ==
    ASSUME NEW act \in {"created", "resumed", "reuse-receipt", "recover", "blocked", "failed"}, NEW l \in Lineages
    PROVE  Say(act, l) \in Answers /\ Say(act, l).act = act /\ Say(act, l).line = l
BY DEF Say, Answers

LEMMA BlockedHolds ==
    ASSUME NEW act \in {"blocked", "failed"}, NEW l \in Lineages, NEW asked, NEW c
    PROVE  Say(act, l) \in Answers /\ Holds(Say(act, l), asked, c)
BY SayType DEF Holds

(* What may be recovered for a candidate, RECOVER admits.                  *)
LEMMA RecoverableAdmits ==
    ASSUME NEW r \in Records, NEW c, Recoverable(r, c)
    PROVE  \E why \in Dispositions : Recovers(r, c, why)
<1>1. CASE r.state = "escalated"
    BY <1>1 DEF Recoverable, Recovers, Dispositions
<1>2. CASE r.state = "approved"
    BY <1>2 DEF Recoverable, Recovers, Dispositions
<1>3. CASE r.state = "correction_required"
  <2>1. Expands(r, c) \/ Contracts(r, c)
      BY <1>3 DEF Recoverable, CorrectionClaim
  <2> QED
      BY <1>3, <2>1 DEF Recovers, Dispositions
<1> QED
    BY <1>1, <1>2, <1>3 DEF Recoverable

(* A lineage whose first candidate is asked for again is recoverable or    *)
(* claims it, in whatever state it is: START never passes it over.         *)
LEMMA SameCandidateAnswers ==
    ASSUME NEW r \in Records, NEW c, r.initial = c
    PROVE  Recoverable(r, c) \/ Claims(r, c)
<1>1. SameScope(r, c) /\ ~Expands(r, c) /\ Scope[c] \subseteq Genesis(r)
    BY DEF SameScope, Genesis, Expands
<1>2. CASE r.state = "correction_required"
  <2>1. CorrectionClaim(r, c) # "none"
      BY <1>1 DEF CorrectionClaim
  <2> QED
      BY <1>2, <2>1 DEF Claims
<1>3. CASE r.state # "correction_required"
    BY <1>1, <1>3 DEF Claims, ClaimsTarget
<1> QED
    BY <1>2, <1>3

LEMMA ExplicitHolds ==
    ASSUME Bounds, StoreTypes, NEW l \in Leaves, NEW asked, NEW c
    PROVE  /\ Say(ExplicitAnswer(l, c), l) \in Answers
           /\ Holds(Say(ExplicitAnswer(l, c), l), asked, c)
<1>1. l \in Lineages /\ rec[l] \in Records
    BY RecordOf DEF Leaves
<1>2. Reusable(l) \in {"reuse-receipt", "blocked"}
    BY DEF Reusable
<1>3. PICK act : act = ExplicitAnswer(l, c)
    OBVIOUS
<1>4. /\ act \in {"recover", "blocked", "resumed", "reuse-receipt"}
      /\ act = "recover" => rec[l].state = "escalated" /\ c # rec[l].current
      /\ act = "reuse-receipt" => rec[l].state = "approved" /\ rec[l].current = c
  <2> DEFINE want == IF rec[l].state = "reviewing" THEN rec[l].initial ELSE rec[l].current
  <2>1. CASE rec[l].state = "escalated"
      BY <1>3, <2>1 DEF ExplicitAnswer
  <2>2. CASE rec[l].state # "escalated" /\ (rec[l].state = "invalidated" \/ want # c)
    <3>1. act = "blocked"
        BY <1>3, <2>2 DEF ExplicitAnswer
    <3> QED
        BY <3>1
  <2>3. CASE rec[l].state = "approved" /\ want = c
    <3>1. act = Reusable(l)
        BY <1>3, <2>3 DEF ExplicitAnswer
    <3> QED
        BY <1>2, <2>3, <3>1
  <2>4. CASE rec[l].state \notin {"escalated", "invalidated", "approved"} /\ want = c
    <3>1. rec[l].state \in {"reviewing", "validating", "correction_required"}
        BY <1>1, <2>4 DEF Records, States
    <3>2. act = "resumed"
        BY <1>3, <2>4, <3>1 DEF ExplicitAnswer
    <3> QED
        BY <3>2
  <2> QED
      BY <2>1, <2>2, <2>3, <2>4
<1>5. act = "recover" => \E why \in Dispositions : Recovers(rec[l], c, why)
    BY <1>4 DEF Recovers, Dispositions
<1> QED
    BY <1>1, <1>3, <1>4, <1>5, SayType DEF Holds

LEMMA ClaimHolds ==
    ASSUME Bounds, StoreTypes, NEW l \in Leaves, NEW asked, NEW c
    PROVE  /\ Say(ClaimAnswer(l, c), l) \in Answers
           /\ Holds(Say(ClaimAnswer(l, c), l), asked, c)
<1>1. l \in Lineages /\ rec[l] \in Records
    BY RecordOf DEF Leaves
<1>2. Reusable(l) \in {"reuse-receipt", "blocked"}
    BY DEF Reusable
<1>3. PICK act : act = ClaimAnswer(l, c)
    OBVIOUS
<1>4. /\ act \in {"blocked", "resumed", "reuse-receipt"}
      /\ act = "reuse-receipt" => rec[l].state = "approved" /\ rec[l].current = c
    BY <1>2, <1>3 DEF ClaimAnswer
<1> QED
    BY <1>1, <1>3, <1>4, SayType DEF Holds

LEMMA FoundHolds ==
    ASSUME Bounds, StoreTypes, NEW l \in Lineages, NEW c
    PROVE  FoundAnswer(l, c) \in Answers /\ Holds(FoundAnswer(l, c), l, c)
<1> DEFINE recoverable == {m \in Leaves : Recoverable(rec[m], c)}
           claimants == {m \in Leaves : Claims(rec[m], c)}
           first == CHOOSE x \in recoverable : TRUE
           claimant == CHOOSE x \in claimants : TRUE
<1>1. \A m \in Leaves : m \in Lineages /\ rec[m] \in Records
    BY RecordOf DEF Leaves
<1>2. FoundAnswer(l, c) =
         IF ~GraphValid THEN Say("failed", l)
         ELSE IF recoverable # {} THEN
             Say(IF recoverable = {first} /\ claimants = {} THEN "recover" ELSE "blocked", first)
         ELSE IF (l \in Known /\ l \notin claimants) \/ Cardinality(claimants) > 1 THEN Say("blocked", l)
         ELSE IF claimants # {} THEN Say(ClaimAnswer(claimant, c), claimant)
         ELSE Say("created", l)
    BY DEF FoundAnswer
<1>3. recoverable # {} => first \in recoverable
    OBVIOUS
<1>4. claimants # {} => claimant \in claimants
    OBVIOUS
<1>5. recoverable # {} => \A act \in {"recover", "blocked"} : Say(act, first) \in Answers /\ Holds(Say(act, first), l, c)
  <2> SUFFICES ASSUME recoverable # {}, NEW act \in {"recover", "blocked"}
               PROVE  Say(act, first) \in Answers /\ Holds(Say(act, first), l, c)
      OBVIOUS
  <2>1. first \in Leaves /\ first \in Lineages /\ \E why \in Dispositions : Recovers(rec[first], c, why)
      BY <1>1, <1>3, RecoverableAdmits
  <2>2. Say(act, first) \in Answers /\ Say(act, first).act = act /\ Say(act, first).line = first
      BY <2>1, SayType
  <2> HIDE DEF first
  <2> QED
      BY <2>1, <2>2 DEF Holds
<1>6. claimants # {} => Say(ClaimAnswer(claimant, c), claimant) \in Answers
                          /\ Holds(Say(ClaimAnswer(claimant, c), claimant), l, c)
    BY <1>4, ClaimHolds
<1>7. recoverable = {} /\ claimants = {} /\ l \notin Known =>
         Say("created", l) \in Answers /\ Holds(Say("created", l), l, c)
  <2>1. recoverable = {} /\ claimants = {} => Fresh(c)
      BY <1>1, SameCandidateAnswers DEF Fresh
  <2> QED
      BY <2>1, SayType DEF Holds
<1>8. \A act \in {"blocked", "failed"} : Say(act, l) \in Answers /\ Holds(Say(act, l), l, c)
    BY BlockedHolds
<1> HIDE DEF recoverable, claimants, first, claimant
<1> QED
    BY <1>2, <1>5, <1>6, <1>7, <1>8


LEMMA StartHolds ==
    ASSUME Bounds, StoreTypes, NEW l \in Lineages, NEW explicit \in BOOLEAN, NEW c
    PROVE  /\ StartAnswer(l, explicit, c) \in Answers /\ Holds(StartAnswer(l, explicit, c), l, c)
<1>1. CASE explicit /\ l \in Known
  <2>1. CASE ~Leaf(l) \/ \E m \in Children(l) : ~ValidEdge(rec[l], rec[m])
      BY <1>1, <2>1, BlockedHolds DEF StartAnswer, AskedAnswer
  <2>2. CASE Leaf(l) /\ ~\E m \in Children(l) : ~ValidEdge(rec[l], rec[m])
    <3>1. Say(ExplicitAnswer(l, c), l) \in Answers /\ Holds(Say(ExplicitAnswer(l, c), l), l, c)
        BY <1>1, <2>2, ExplicitHolds DEF Leaves
    <3>2. AskedAnswer(l, c) \in {Say("failed", l), Say(ExplicitAnswer(l, c), l)}
        BY <2>2 DEF AskedAnswer
    <3> QED
        BY <1>1, <3>1, <3>2, BlockedHolds DEF StartAnswer
  <2> QED
      BY <2>1, <2>2
<1>2. CASE ~(explicit /\ l \in Known)
    BY <1>2, FoundHolds DEF StartAnswer
<1> QED
    BY <1>1, <1>2

-----------------------------------------------------------------------------
(* A command goes on, and the store stays as it is.                        *)
LEMMA CommandGoes ==
    ASSUME Bounds, GraphInv, NEW p \in Procs, NEW new \in Jobs, Goes(p, new),
           UNCHANGED <<tree, rec, receipt, edits>>,
           \/ lock' = lock /\ (proc[p].at \in {"inspect", "create"} <=> new.at \in {"inspect", "create"})
           \/ lock \in {p, None} /\ lock' = (IF new.at \in {"inspect", "create"} THEN p ELSE None),
           new.at = "create" => new.line \notin Known /\ Fresh(new.cand),
           new.at = "recover" => new.line \in Known /\ new.next.pred = new.line,
           new.at = "advance" => new.line \in Known /\ Same(new.next, rec[new.line]),
           new.at = "receipt" => new.line \in Known
    PROVE  GraphInv'
<1>1. /\ proc' \in [Procs -> Jobs] /\ proc'[p] = new
      /\ \A q \in Procs : q # p => proc'[q] = proc[q]
    BY DEF GraphInv, Types, Goes
<1>2. Known' = Known /\ \A x : Fresh(x)' <=> Fresh(x)
    BY DEF Fresh, Leaves, Leaf, Children, Known
<1>3. Types' /\ NeverForks' /\ NoTwins'
    BY <1>1 DEF GraphInv, Types, StoreTypes, NeverForks, NoTwins, Leaves, Leaf, Children, Known
<1>4. ASSUME NEW q \in Procs PROVE Knows(q)'
  <2>1. Knows(q) /\ Knows(p) /\ q # None
      BY DEF GraphInv, Bounds
  <2>2. proc'[q].at \in {"inspect", "create"} <=> lock' = q
      BY <1>1, <2>1 DEF Knows
  <2>3. CASE q = p
      BY <1>1, <1>2, <2>2, <2>3 DEF Knows, Fresh, Leaves, Leaf, Children, Known, Same
  <2>4. CASE q # p
      BY <1>1, <2>1, <2>2, <2>4 DEF Knows, Fresh, Leaves, Leaf, Children, Known, Same
  <2> QED
      BY <2>3, <2>4
<1> QED
    BY <1>3, <1>4 DEF GraphInv

(* A record is written while nobody looks for a claimant: the writer holds *)
(* the lock and leaves it, or takes it for the write alone.                *)
LEMMA CommandWrites ==
    ASSUME Bounds, GraphInv, NEW p \in Procs, NEW new \in Jobs,
           \/ Goes(p, new) /\ new.at \in {"idle", "told", "receipt"}
           \/ UNCHANGED proc /\ lock = None /\ new = Idle,
           new.at = "receipt" => new.line \in Known,
           lock \in {p, None}, lock' = None, UNCHANGED <<tree, edits>>,
           receipt' \in [Lineages -> 0..MaxRev],
           rec' \in [Lineages -> Records \cup {None}], NeverForks', NoTwins',
           \A m \in Known : m \in Known' /\ Same(rec'[m], rec[m])
    PROVE  GraphInv'
<1>1. Types'
    BY DEF GraphInv, Types, StoreTypes, Goes
<1>2. ASSUME NEW q \in Procs PROVE Knows(q)'
  <2>1. Knows(q) /\ q # None
      BY DEF GraphInv, Bounds
  <2>2. CASE proc'[q] = proc[q] /\ lock # q
      BY <2>1, <2>2 DEF Knows, Same
  <2>3. CASE q = p /\ Goes(p, new)
    <3>1. proc'[q] = new /\ lock' # q
        BY <2>1, <2>3 DEF Goes, GraphInv, Types
    <3>2. new.at \in {"idle", "told", "receipt"}
        BY <2>3, IdleJob
    <3> QED
        BY <3>1, <3>2 DEF Knows
  <2>4. CASE q # p /\ Goes(p, new)
    <3>1. proc'[q] = proc[q] /\ lock # q
        BY <2>1, <2>4 DEF Goes, GraphInv, Types
    <3> QED
        BY <2>2, <3>1
  <2>5. CASE UNCHANGED proc /\ lock = None
      BY <2>1, <2>2, <2>5
  <2> QED
      BY <2>3, <2>4, <2>5
<1> QED
    BY <1>1, <1>2 DEF GraphInv

LEMMA StartSteps ==
    ASSUME Bounds, GraphInv, NEW p \in Procs, BeginStart(p) \/ StartLock(p) \/ Inspect(p)
    PROVE  GraphInv' /\ AnswersHold
<1>1. proc[p] \in Jobs /\ Knows(p) /\ tree \in Candidates /\ proc \in [Procs -> Jobs] /\ StoreTypes
    BY DEF GraphInv, Types, StoreTypes
<1>2. CASE BeginStart(p)
  <2>1. PICK new \in Starts : Goes(p, new) /\ new.at = "start"
    <3>1. PICK l \in Names \cup {tree}, explicit \in BOOLEAN, negotiated \in BOOLEAN :
             Goes(p, [at |-> "start", line |-> l, explicit |-> explicit, cand |-> tree, live |-> negotiated])
        BY <1>2 DEF BeginStart
    <3>2. [at |-> "start", line |-> l, explicit |-> explicit, cand |-> tree, live |-> negotiated] \in Starts
        BY <1>1 DEF Starts, Lineages
    <3> QED
        BY <3>1, <3>2
  <2>2. new \in Jobs
      BY DEF Jobs
  <2>3. GraphInv'
      BY <1>2, <2>1, <2>2, CommandGoes DEF BeginStart, At, store
  <2>4. AnswersHold
      BY <1>1, <2>1 DEF AnswersHold, Goes, At
  <2> QED
      BY <2>3, <2>4
<1>3. CASE StartLock(p) /\ lock = None
  <2> DEFINE new == [proc[p] EXCEPT !.at = "inspect"]
  <2>1. proc[p] \in Starts
      BY <1>1, <1>3, JobOf DEF StartLock, At
  <2>2. new \in Starts /\ new.at = "inspect"
      BY <2>1 DEF Starts
  <2>3. Goes(p, new) /\ new \in Jobs
      BY <1>3, <2>2 DEF StartLock, Goes, Jobs
  <2> HIDE DEF new
  <2>4. GraphInv'
      BY <1>3, <2>2, <2>3, CommandGoes DEF StartLock, store
  <2>5. AnswersHold
      BY <1>1, <2>2, <2>3 DEF AnswersHold, Goes, At
  <2> QED
      BY <2>4, <2>5
<1>4. CASE StartLock(p) /\ lock # None
  <2>1. Goes(p, Idle) /\ lock' = lock
      BY <1>4 DEF StartLock
  <2>2. GraphInv'
      BY <1>4, <2>1, IdleJob, CommandGoes DEF StartLock, At, store
  <2>3. AnswersHold
      BY <1>1, <2>1, IdleJob DEF AnswersHold, Goes, At
  <2> QED
      BY <2>2, <2>3
<1>5. CASE Inspect(p)
  <2> DEFINE s == proc[p]
             answer == StartAnswer(s.line, s.explicit, s.cand)
  <2>1. s \in Starts /\ s.at = "inspect" /\ lock = p /\ UNCHANGED <<tree, rec, receipt, edits>>
      BY <1>1, <1>5, JobOf DEF Inspect, At, Knows, store
  <2>2. s.line \in Lineages /\ s.explicit \in BOOLEAN /\ s.cand \in Candidates
      BY <2>1 DEF Starts
  <2>3. answer \in Answers /\ Holds(answer, s.line, s.cand)
      BY <1>1, <2>2, StartHolds
  <2>4. CASE answer.act = "created"
    <3> DEFINE new == [proc[p] EXCEPT !.at = "create"]
    <3>1. new \in Starts /\ new.at = "create" /\ new.line = s.line /\ new.cand = s.cand
        BY <2>1 DEF Starts
    <3>2. Goes(p, new) /\ lock' = lock /\ new \in Jobs
        BY <1>5, <2>4, <3>1 DEF Inspect, Goes, Jobs
    <3> HIDE DEF new
    <3>3. GraphInv'
        BY <1>5, <2>1, <2>3, <2>4, <3>1, <3>2, CommandGoes DEF Holds
    <3>4. AnswersHold
        BY <1>1, <3>1, <3>2 DEF AnswersHold, Goes, At
    <3> QED
        BY <3>3, <3>4
  <2>5. CASE answer.act # "created"
    <3> DEFINE new == [at |-> "told", answer |-> answer, cand |-> s.cand]
    <3>1. new \in Tolds /\ new.at = "told" /\ new.answer = answer /\ new.cand = s.cand
        BY <2>2, <2>3 DEF Tolds
    <3>2. Goes(p, new) /\ lock' = None /\ new \in Jobs
        BY <1>5, <2>5, <3>1 DEF Inspect, Jobs
    <3> HIDE DEF new
    <3>3. GraphInv'
        BY <1>5, <2>1, <3>1, <3>2, CommandGoes
    <3>4. AnswersHold
      <4> SUFFICES ASSUME NEW q \in Procs, proc'[q].at = "told", ~At(q, "told")
                   PROVE  /\ proc'[q].answer.act \in {"created", "resumed", "reuse-receipt", "recover"} =>
                                \A l \in Lineages : rec'[l] # None => rec'[l].pred # proc'[q].answer.line
                          /\ proc'[q].answer.act = "reuse-receipt" =>
                                rec'[proc'[q].answer.line].state = "approved"
                                /\ rec'[proc'[q].answer.line].current = proc'[q].cand
                          /\ proc'[q].answer.act = "recover" =>
                                \E why \in Dispositions : Recovers(rec'[proc'[q].answer.line], proc'[q].cand, why)
          BY DEF AnswersHold
      <4>1. q = p /\ proc'[q] = new
          BY <1>1, <3>2 DEF Goes, At
      <4>2. answer.line \in Leaves => \A l \in Lineages : rec[l] # None => rec[l].pred # answer.line
          BY DEF Leaves, Leaf, Children, Known
      <4> HIDE DEF answer, s
      <4> QED
          BY <2>1, <2>3, <2>5, <3>1, <4>1, <4>2 DEF Holds
    <3> QED
        BY <3>3, <3>4
  <2> QED
      BY <2>4, <2>5
<1> QED
    BY <1>2, <1>3, <1>4, <1>5 DEF StartLock

(* Nobody is told anything.                                                *)
LEMMA NoAnswer ==
    ASSUME Types, \/ UNCHANGED proc
                  \/ \E p \in Procs, new \in Jobs : Goes(p, new) /\ new.at # "told"
    PROVE  AnswersHold
BY DEF AnswersHold, Types, Goes, At

LEMMA CreateStep ==
    ASSUME Bounds, GraphInv, NEW p \in Procs, Create(p)
    PROVE  GraphInv' /\ AnswersHold
<1> DEFINE s == proc[p]
<1>1. /\ s \in Starts /\ s.at = "create" /\ lock = p /\ StoreTypes /\ NeverForks /\ NoTwins /\ proc \in [Procs -> Jobs]
      /\ s.line \notin Known /\ Fresh(s.cand) /\ Types
    BY JobOf DEF GraphInv, Types, Create, At, Knows
<1>2. s.line \in Lineages /\ s.cand \in Candidates
    BY <1>1 DEF Starts
<1>3. CASE s.live /\ tree # s.cand
  <2>1. Goes(p, Idle) /\ lock' = None /\ UNCHANGED <<tree, rec, receipt, edits>>
      BY <1>3 DEF Create
  <2> QED
      BY <1>1, <2>1, IdleJob, CommandGoes, NoAnswer
<1>4. CASE ~(s.live /\ tree # s.cand)
  <2> DEFINE r == NewRecord(s.cand)
             new == [at |-> "told", answer |-> Say("created", s.line), cand |-> s.cand]
  <2>1. r \in Records /\ r.pred = None /\ r.initial = s.cand
      BY <1>2, NewRecordType
  <2>2. /\ new \in Tolds /\ new.at = "told" /\ new.answer.act = "created" /\ new.answer.line = s.line
      BY <1>2, SayType DEF Tolds
  <2>3. /\ rec' = [rec EXCEPT ![s.line] = r] /\ Goes(p, new) /\ lock' = None
        /\ UNCHANGED <<tree, receipt, edits>>
      BY <1>4 DEF Create
  <2>4. new \in Jobs /\ Fresh(r.initial)
      BY <1>1, <2>1, <2>2 DEF Jobs
  <2> HIDE DEF r, new
  <2>8. PICK line \in Lineages : line = s.line
      BY <1>2
  <2>9. line \notin Known /\ rec' = [rec EXCEPT ![line] = r] /\ new.answer.line = line
      BY <1>1, <2>2, <2>3, <2>8
  <2>5. /\ rec' \in [Lineages -> Records \cup {None}] /\ NeverForks' /\ NoTwins'
        /\ \A m \in Known : m \in Known' /\ rec'[m] = rec[m]
        /\ Leaf(line)'
      BY <1>1, <2>1, <2>4, <2>9, Adds
  <2>6. GraphInv'
    <3>1. \A m \in Known : m \in Known' /\ Same(rec'[m], rec[m])
        BY <2>5 DEF Same
    <3>2. receipt' \in [Lineages -> 0..MaxRev]
        BY <1>1, <2>3 DEF StoreTypes
    <3> QED
        BY <1>1, <2>2, <2>3, <2>4, <2>5, <3>1, <3>2, CommandWrites
  <2>7. AnswersHold
    <3> SUFFICES ASSUME NEW q \in Procs, proc'[q].at = "told", ~At(q, "told")
                 PROVE  /\ proc'[q].answer.act = "created"
                        /\ \A l \in Lineages : rec'[l] # None => rec'[l].pred # proc'[q].answer.line
        BY DEF AnswersHold
    <3>1. q = p /\ proc'[q] = new
        BY <1>1, <2>3 DEF Goes, At
    <3> QED
        BY <2>2, <2>5, <2>9, <3>1 DEF Leaf, Children, Known
  <2> QED
      BY <2>6, <2>7
<1> QED
    BY <1>3, <1>4

LEMMA ReturnStep ==
    ASSUME Bounds, GraphInv, NEW p \in Procs, Return(p)
    PROVE  GraphInv' /\ AnswersHold
<1>1. Goes(p, Idle) /\ UNCHANGED <<tree, rec, receipt, lock, edits>> /\ At(p, "told") /\ Types
    BY DEF Return, store, GraphInv
<1> QED
    BY <1>1, IdleJob, CommandGoes, NoAnswer DEF At

LEMMA BeginRecoverStep ==
    ASSUME Bounds, GraphInv, NEW p \in Procs, BeginRecover(p)
    PROVE  GraphInv' /\ AnswersHold
<1>1. PICK l \in Known, name \in Names, why \in Dispositions :
         Goes(p, [at |-> "recover", line |-> l, name |-> name,
                  next |-> [NewRecord(tree) EXCEPT !.gen = rec[l].gen + 1, !.pred = l,
                                                   !.predRev = rec[l].rev, !.why = why]])
    BY DEF BeginRecover
<1> DEFINE next == [NewRecord(tree) EXCEPT !.gen = rec[l].gen + 1, !.pred = l,
                                           !.predRev = rec[l].rev, !.why = why]
           new == [at |-> "recover", line |-> l, name |-> name, next |-> next]
<1>2. l \in Lineages /\ rec[l] \in Records /\ tree \in Candidates /\ Types
    BY RecordOf DEF GraphInv, Types, StoreTypes
<1>3. next \in Records /\ next.pred = l
  <2>1. rec[l].gen + 1 \in Nat /\ rec[l].rev \in Nat
      BY <1>2 DEF Records, Bounds
  <2>2. NewRecord(tree) \in Records
      BY <1>2, NewRecordType
  <2> QED
      BY <1>2, <2>1, <2>2 DEF Records
<1> HIDE DEF next
<1>4. new \in Recoveries /\ new.at = "recover" /\ new.line = l /\ new.next = next
    BY <1>2, <1>3 DEF Recoveries
<1>5. Goes(p, new) /\ new \in Jobs
    BY <1>1, <1>4 DEF Jobs, next
<1> HIDE DEF new
<1>6. At(p, "idle") /\ UNCHANGED <<tree, rec, receipt, lock, edits>>
    BY DEF BeginRecover, store
<1> QED
    BY <1>2, <1>3, <1>4, <1>5, <1>6, CommandGoes, NoAnswer DEF At

LEMMA RecoverStep ==
    ASSUME Bounds, GraphInv, NEW p \in Procs, Recover(p)
    PROVE  GraphInv' /\ AnswersHold
<1> DEFINE s == proc[p]
<1>1. /\ s \in Recoveries /\ s.at = "recover" /\ StoreTypes /\ NeverForks /\ NoTwins /\ Types
      /\ s.line \in Known /\ s.next.pred = s.line
      /\ Goes(p, Idle) /\ UNCHANGED <<tree, receipt, lock, edits>>
    BY JobOf DEF GraphInv, Types, Recover, At, Knows
<1>2. s.name \in Lineages /\ s.next \in Records
    BY <1>1 DEF Recoveries, Lineages
<1>3. AnswersHold
    BY <1>1, IdleJob, NoAnswer
<1>4. CASE lock = None /\ Links(s.line, s.name, s.next)
  <2>1. rec' = [rec EXCEPT ![s.name] = s.next] /\ lock' = None
      BY <1>1, <1>4 DEF Recover
  <2>2. s.name \notin Known /\ Leaf(s.line) /\ s.next.gen = rec[s.line].gen + 1 /\ s.next.predRev = rec[s.line].rev
      BY <1>4 DEF Links, ValidEdge, Known
  <2>3. s.next.predRev <= rec[s.line].rev
      BY <1>1, <2>2, RecordOf DEF Records, Bounds
  <2>4. /\ rec' \in [Lineages -> Records \cup {None}] /\ NeverForks' /\ NoTwins'
        /\ \A m \in Known : m \in Known' /\ rec'[m] = rec[m]
      BY <1>1, <1>2, <2>1, <2>2, <2>3, Adds
  <2>5. receipt' \in [Lineages -> 0..MaxRev] /\ \A m \in Known : m \in Known' /\ Same(rec'[m], rec[m])
      BY <1>1, <2>4 DEF StoreTypes, Same
  <2> QED
      BY <1>1, <1>3, <1>4, <2>1, <2>4, <2>5, IdleJob, CommandWrites
<1>5. CASE ~(lock = None /\ Links(s.line, s.name, s.next))
  <2>1. UNCHANGED rec
      BY <1>5 DEF Recover
  <2> QED
      BY <1>1, <1>3, <2>1, IdleJob, CommandGoes
<1> QED
    BY <1>4, <1>5

(* What an advance makes of a record keeps what no writer changes.         *)
LEMMA AdvanceKeeps ==
    ASSUME Bounds, StoreTypes, NEW r \in Records, NEW next \in Finalized(r) \cup Reopened(r) \cup Invalidated(r)
    PROVE  next \in Records /\ Same(next, r) /\ next.rev = r.rev
<1>1. ASSUME NEW state \in States PROVE [r EXCEPT !.state = state] \in Records
    BY DEF Records
<1>2. CASE next \in Finalized(r)
  <2>1. CASE r.state = "correction_required" /\ r.forecast
      BY <1>2, <2>1 DEF Finalized, Records, States, Same, StoreTypes
  <2>2. CASE r.state = "correction_required" /\ ~r.forecast
      BY <1>2, <2>2 DEF Finalized, Records, States, Same
  <2>3. CASE r.state # "correction_required"
      BY <1>2, <2>3 DEF Finalized, Records, States, Same
  <2> QED
      BY <2>1, <2>2, <2>3
<1>3. CASE next \in Reopened(r)
    BY <1>3 DEF Reopened, Records, States, Same
<1>4. CASE next \in Invalidated(r)
    BY <1>1, <1>4 DEF Invalidated, Records, States, Same
<1> QED
    BY <1>2, <1>3, <1>4

LEMMA BeginAdvanceStep ==
    ASSUME Bounds, GraphInv, NEW p \in Procs, BeginAdvance(p)
    PROVE  GraphInv' /\ AnswersHold
<1>0. PICK l \in Known : \E next \in Finalized(rec[l]) \cup Reopened(rec[l]) \cup Invalidated(rec[l]) :
         rec[l].rev < MaxRev /\ Goes(p, [at |-> "advance", line |-> l, next |-> [next EXCEPT !.rev = @ + 1]])
    BY DEF BeginAdvance
<1>1. PICK next \in Finalized(rec[l]) \cup Reopened(rec[l]) \cup Invalidated(rec[l]) :
         rec[l].rev < MaxRev /\ Goes(p, [at |-> "advance", line |-> l, next |-> [next EXCEPT !.rev = @ + 1]])
    BY <1>0
<1> DEFINE new == [at |-> "advance", line |-> l, next |-> [next EXCEPT !.rev = @ + 1]]
<1>2. l \in Lineages /\ rec[l] \in Records /\ StoreTypes /\ Types
    BY RecordOf DEF GraphInv, Types
<1>3. next \in Records /\ Same(next, rec[l]) /\ next.rev = rec[l].rev
    BY <1>2, AdvanceKeeps
<1>4. [next EXCEPT !.rev = @ + 1] \in Records /\ Same([next EXCEPT !.rev = @ + 1], rec[l])
  <2>1. rec[l].rev + 1 \in 1..MaxRev
      BY <1>1, <1>2 DEF Records, Bounds
  <2> QED
      BY <1>3, <2>1 DEF Records, Same
<1>5. new \in Advances /\ new.at = "advance" /\ new.line = l /\ Same(new.next, rec[l])
    BY <1>2, <1>4 DEF Advances
<1>6. Goes(p, new) /\ new \in Jobs
    BY <1>1, <1>5 DEF Jobs
<1> HIDE DEF new
<1>7. At(p, "idle") /\ UNCHANGED <<tree, rec, receipt, lock, edits>>
    BY DEF BeginAdvance, store
<1> QED
    BY <1>2, <1>5, <1>6, <1>7, CommandGoes, NoAnswer DEF At

LEMMA AdvanceStep ==
    ASSUME Bounds, GraphInv, NEW p \in Procs, Advance(p)
    PROVE  GraphInv' /\ AnswersHold
<1> DEFINE s == proc[p]
<1>1. /\ s \in Advances /\ s.at = "advance" /\ StoreTypes /\ NeverForks /\ NoTwins /\ Types
      /\ s.line \in Known /\ Same(s.next, rec[s.line]) /\ UNCHANGED <<tree, receipt, lock, edits>>
    BY JobOf DEF GraphInv, Types, Advance, At, Knows
<1>2. s.line \in Lineages /\ s.next \in Records
    BY <1>1 DEF Advances
<1>3. CASE lock = None /\ rec[s.line].rev + 1 = s.next.rev
  <2>1. rec' = [rec EXCEPT ![s.line] = s.next] /\ lock' = None
      BY <1>1, <1>3 DEF Advance
  <2>2. s.next.rev >= rec[s.line].rev
      BY <1>1, <1>2, <1>3, RecordOf DEF Records, Bounds
  <2>3. /\ rec' \in [Lineages -> Records \cup {None}] /\ NeverForks' /\ NoTwins'
        /\ \A m \in Known : m \in Known' /\ Same(rec'[m], rec[m])
      BY <1>1, <1>2, <2>1, <2>2, Moves
  <2>4. receipt' \in [Lineages -> 0..MaxRev]
      BY <1>1 DEF StoreTypes
  <2>5. PICK new \in Jobs : /\ Goes(p, new) /\ new.at \in {"receipt", "idle"}
                            /\ new.at = "receipt" => new.line \in Known
    <3>1. [at |-> "receipt", line |-> s.line] \in Jobs /\ s.line \in Known
        BY <1>1, <1>2 DEF Jobs, Receipts
    <3>2. Goes(p, IF s.next.state = "approved" THEN [at |-> "receipt", line |-> s.line] ELSE Idle)
        BY <1>3 DEF Advance
    <3> QED
        BY <3>1, <3>2, IdleJob
  <2> QED
      BY <1>1, <1>3, <2>1, <2>3, <2>4, <2>5, CommandWrites, NoAnswer
<1>4. CASE ~(lock = None /\ rec[s.line].rev + 1 = s.next.rev)
  <2>1. Goes(p, Idle) /\ UNCHANGED rec
      BY <1>4 DEF Advance
  <2> QED
      BY <1>1, <2>1, IdleJob, CommandGoes, NoAnswer
<1> QED
    BY <1>3, <1>4

LEMMA WriteReceiptStep ==
    ASSUME Bounds, GraphInv, NEW p \in Procs, WriteReceipt(p)
    PROVE  GraphInv' /\ AnswersHold
<1>1. /\ Types /\ NeverForks /\ NoTwins /\ Knows(p) /\ proc[p].at = "receipt"
      /\ Goes(p, Idle) /\ UNCHANGED <<tree, rec, lock, edits>>
    BY DEF GraphInv, WriteReceipt, At
<1>2. CASE UNCHANGED receipt
    BY <1>1, <1>2, IdleJob, CommandGoes, NoAnswer
<1>3. CASE lock = None /\ receipt' # receipt
  <2> DEFINE l == proc[p].line
  <2>1. l \in Known /\ receipt' = [receipt EXCEPT ![l] = rec[l].rev]
      BY <1>1, <1>3 DEF WriteReceipt, Knows
  <2>2. receipt' \in [Lineages -> 0..MaxRev]
    <3>1. l \in Lineages /\ rec[l].rev \in 0..MaxRev
        BY <1>1, <2>1, RecordOf DEF Types, Records, Bounds
    <3> QED
        BY <1>1, <2>1, <3>1 DEF Types, StoreTypes
  <2>3. /\ NeverForks' /\ NoTwins' /\ \A m \in Known : m \in Known' /\ Same(rec'[m], rec[m])
      BY <1>1 DEF NeverForks, NoTwins, Leaves, Leaf, Children, Known, Same
  <2> QED
      BY <1>1, <1>3, <2>2, <2>3, IdleJob, CommandWrites, NoAnswer DEF Types, StoreTypes
<1> QED
    BY <1>2, <1>3 DEF WriteReceipt

LEMMA RevokeStep ==
    ASSUME Bounds, GraphInv, NEW p \in Procs, NEW l \in Lineages, Revoke(p, l)
    PROVE  GraphInv' /\ AnswersHold
<1>1. /\ Types /\ StoreTypes /\ NeverForks /\ NoTwins /\ l \in Known /\ rec[l] \in Records /\ rec[l].rev < MaxRev
      /\ lock = None /\ lock' = None /\ UNCHANGED <<tree, proc, edits>>
    BY RecordOf DEF GraphInv, Types, Revoke, Leaves
<1> DEFINE r == [rec[l] EXCEPT !.state = "invalidated", !.rev = @ + 1]
<1>2. r \in Records /\ Same(r, rec[l]) /\ r.rev >= rec[l].rev
  <2>1. rec[l].rev + 1 \in 1..MaxRev /\ rec[l].rev \in Nat
      BY <1>1 DEF Records, Bounds
  <2>2. r \in Records /\ r.rev = rec[l].rev + 1
      BY <1>1, <2>1 DEF Records, States
  <2> QED
      BY <1>1, <2>1, <2>2 DEF Same, Records
<1>3. rec' = [rec EXCEPT ![l] = r]
    BY <1>1 DEF Revoke, StoreTypes
<1> HIDE DEF r
<1>4. /\ rec' \in [Lineages -> Records \cup {None}] /\ NeverForks' /\ NoTwins'
      /\ \A m \in Known : m \in Known' /\ Same(rec'[m], rec[m])
    BY <1>1, <1>2, <1>3, Moves
<1>5. receipt' \in [Lineages -> 0..MaxRev]
    BY <1>1 DEF Revoke, StoreTypes, Bounds
<1> QED
    BY <1>1, <1>4, <1>5, IdleJob, CommandWrites, NoAnswer

LEMMA CrashStep ==
    ASSUME Bounds, GraphInv, NEW p \in Procs, Crash(p)
    PROVE  GraphInv' /\ AnswersHold
<1>1. /\ Types /\ Knows(p) /\ proc[p].at \in {"inspect", "create", "receipt"}
      /\ Goes(p, Idle) /\ UNCHANGED <<tree, rec, receipt, edits>> /\ lock' = IF lock = p THEN None ELSE lock
    BY DEF GraphInv, Crash, store
<1>2. CASE lock = p
    BY <1>1, <1>2, IdleJob, CommandGoes, NoAnswer
<1>3. CASE lock # p
    BY <1>1, <1>3, IdleJob, CommandGoes, NoAnswer DEF Knows
<1> QED
    BY <1>2, <1>3

LEMMA EditStep ==
    ASSUME Bounds, GraphInv, NEW c \in Candidates, Edit(c) \/ UNCHANGED vars
    PROVE  GraphInv' /\ AnswersHold
<1>1. /\ UNCHANGED <<rec, receipt, lock, proc>> /\ tree' \in Candidates /\ edits' \in 0..MaxEdits /\ Types
    BY DEF GraphInv, Types, StoreTypes, Edit, vars, store, Bounds
<1>2. Types' /\ NeverForks' /\ NoTwins' /\ AnswersHold
    BY <1>1, NoAnswer DEF GraphInv, Types, StoreTypes, NeverForks, NoTwins, Leaves, Leaf, Children, Known
<1>3. \A q \in Procs : Knows(q)'
    BY <1>1 DEF GraphInv, Knows, Same, Fresh, Leaves, Leaf, Children, Known
<1> QED
    BY <1>2, <1>3 DEF GraphInv

LEMMA GraphInit == ASSUME Bounds, Init PROVE GraphInv
<1>1. Types /\ Known = {} /\ \A p \in Procs : Knows(p)
    BY IdleJob DEF Init, Types, StoreTypes, Known, Knows, Bounds
<1> QED
    BY <1>1 DEF GraphInv, NeverForks, NoTwins, Leaves

LEMMA GraphStep ==
    ASSUME Bounds, GraphInv, [Next]_vars
    PROVE  GraphInv' /\ AnswersHold
<1>1. ASSUME NEW p \in Procs, Work(p) PROVE GraphInv' /\ AnswersHold
    BY <1>1, StartSteps, CreateStep, ReturnStep, BeginRecoverStep, RecoverStep, BeginAdvanceStep,
       AdvanceStep, WriteReceiptStep, RevokeStep, CrashStep DEF Work
<1>2. CASE (\E c \in Candidates : Edit(c)) \/ UNCHANGED vars
  <2>1. tree \in Candidates
      BY DEF GraphInv, Types, StoreTypes
  <2> QED
      BY <1>2, <2>1, EditStep
<1> QED
    BY <1>1, <1>2 DEF Next

-----------------------------------------------------------------------------
(* The invariant of the recovery graph, whatever the commands interleave:  *)
(* what each has read, and which lineage claims which candidate.           *)
THEOREM GraphInvariant == ASSUME Bounds PROVE Spec => []GraphInv
<1>1. Init => GraphInv
    BY GraphInit
<1>2. GraphInv /\ [Next]_vars => GraphInv'
    BY GraphStep
<1> QED
    BY <1>1, <1>2, PTL DEF Spec

LEMMA GraphTyped == ASSUME Bounds, GraphInv PROVE TypeOK
<1>1. Types /\ StoreTypes
    BY DEF GraphInv, Types
<1>2. \A l \in Known : rec[l].state \in States /\ {rec[l].initial, rec[l].current} \subseteq Candidates
                       /\ rec[l].rev \in 1..MaxRev /\ receipt[l] \in 0..MaxRev
    BY <1>1, RecordOf DEF Records, StoreTypes
<1>3. \A p \in Procs : proc[p].at \in {"idle", "start", "inspect", "create", "told", "recover", "advance", "receipt"}
    BY <1>1, JobOf DEF Types
<1> QED
    BY <1>1, <1>2, <1>3 DEF TypeOK, StoreTypes

(* Every variable of the graph keeps its type.                             *)
THEOREM GraphTypes == ASSUME Bounds PROVE Spec => []TypeOK
<1>1. GraphInv => TypeOK
    BY GraphTyped
<1> QED
    BY <1>1, GraphInvariant, PTL

(* What the commands write is a forest: every edge names a lineage that is *)
(* there, of the generation before and of a revision it has had, and no    *)
(* lineage has two successors (compactAuthorityGraphViolations finds no    *)
(* fork, no dangling link and no cycle).                                   *)
THEOREM GraphNeverForks == ASSUME Bounds PROVE Spec => []NeverForks
<1>1. GraphInv => NeverForks
    BY DEF GraphInv
<1> QED
    BY <1>1, GraphInvariant, PTL

(* However many STARTs run at once, one candidate gets one leaf: START     *)
(* looks and creates under one lock (StartCompactAuthority), and whatever  *)
(* the state of a lineage that was started for the candidate, it claims it *)
(* or is recoverable.                                                      *)
THEOREM OneLeafPerCandidate == ASSUME Bounds PROVE Spec => []NoTwins
<1>1. GraphInv => NoTwins
    BY DEF GraphInv
<1> QED
    BY <1>1, GraphInvariant, PTL

(* What START answers holds when it is answered: nothing supersedes the    *)
(* lineage it names, a receipt is reused only for the approved candidate,  *)
(* and RECOVER admits the lineage that is to be recovered.                 *)
THEOREM AnswersAreTrue == ASSUME Bounds PROVE Spec => [][AnswersHold]_vars
<1>1. GraphInv /\ [Next]_vars => [AnswersHold]_vars
    BY GraphStep
<1> QED
    BY <1>1, GraphInvariant, PTL DEF Spec
=============================================================================
