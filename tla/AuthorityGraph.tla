---------------------------- MODULE AuthorityGraph ----------------------------
(***************************************************************************)
(* The lineages of the v2 store and the recovery edges between them.       *)
(* START answers for the live candidate: it creates a lineage, resumes     *)
(* one, reuses its receipt, or names the one to recover.  RECOVER writes a *)
(* successor that names its predecessor and the predecessor's revision and *)
(* leaves the predecessor as it is: the edge is what supersedes it.  All   *)
(* writers take one lock, START for as long as it takes, the others only   *)
(* when it is free; FINALIZE and the reopening of results look at the      *)
(* graph, if at all, before that.                                          *)
(***************************************************************************)
EXTENDS Naturals, FiniteSets

CONSTANTS
    Procs,
    Candidates, Scope,  \* the candidates of the tree, and the paths each changes
    Small,              \* the candidates whose fix fits a correction budget
    Names,              \* lineages named by the caller; a candidate names its derived one
    None,
    MaxRev, MaxEdits    \* bounds: revisions of a lineage, edits of the tree

VARIABLES
    tree,       \* the live candidate
    rec,        \* the record of every lineage
    receipt,    \* the revision every published receipt is for
    lock,
    proc,       \* what every process is at
    edits

vars == <<tree, rec, receipt, lock, proc, edits>>
store == <<rec, receipt>>

Lineages == Candidates \cup Names
States == {"reviewing", "correction_required", "validating", "approved", "escalated", "invalidated"}
Dispositions == {"scope_changed", "invalidated", "escalated"}

NewRecord(c) ==
    [state |-> "reviewing", initial |-> c, current |-> c, forecast |-> FALSE, rev |-> 1,
     gen |-> 1, pred |-> None, predRev |-> 0, why |-> "start"]

Idle == [at |-> "idle"]

-----------------------------------------------------------------------------
(* The graph *)

Known == {l \in Lineages : rec[l] # None}
Children(l) == {m \in Known : rec[m].pred = l}
Leaf(l) == Children(l) = {}
Leaves == {l \in Known : Leaf(l)}

Genesis(r) == Scope[r.initial]
Expands(r, c) == Scope[c] \cap Genesis(r) # {} /\ ~(Scope[c] \subseteq Genesis(r))
Contracts(r, c) == Scope[c] # {} /\ Scope[c] \subseteq Genesis(r) /\ Scope[c] # Genesis(r)

(* Whether r may be recovered to the candidate under the disposition. *)
Recovers(r, c, why) ==
    \/ why = "scope_changed" /\ r.state = "approved" /\ c # r.current
    \/ why = "scope_changed" /\ r.state = "correction_required" /\ (Expands(r, c) \/ Contracts(r, c))
    \/ why = "invalidated" /\ r.state = "invalidated"
    \/ why = "escalated" /\ r.state = "escalated" /\ c # r.current

ValidEdge(r, s) == s.predRev = r.rev /\ s.gen = r.gen + 1 /\ Recovers(r, s.initial, s.why)

(* compactAuthorityGraphViolations finds none.  Generations exclude cycles. *)
GraphValid ==
    \A l \in Known : rec[l].pred # None =>
        rec[l].pred \in Known /\ ValidEdge(rec[rec[l].pred], rec[l]) /\ Children(rec[l].pred) = {l}

-----------------------------------------------------------------------------
(* What START answers for candidate c *)

SameScope(r, c) == Scope[c] = Genesis(r)

(* START asks for a first generation: a recovered lineage never matches.   *)
LiveMatches(r, c) == r.pred = None /\ Scope[c] \subseteq Genesis(r)

CorrectionClaim(r, c) ==
    IF Expands(r, c) THEN "recover"
    ELSE IF ~(Scope[c] \subseteq Genesis(r)) THEN "none"
    ELSE IF LiveMatches(r, c) /\ (c = r.current \/ (r.forecast /\ c \in Small)) THEN "resume"
    ELSE IF Contracts(r, c) THEN "recover"
    ELSE "blocked"

Recoverable(r, c) ==
    \/ r.state \in {"escalated", "approved"} /\ SameScope(r, c) /\ c # r.current
    \/ r.state = "correction_required" /\ CorrectionClaim(r, c) = "recover"

ClaimsTarget(r, c) ==
    \/ r.state \in {"validating", "approved"} /\ LiveMatches(r, c) /\ c = r.current
    \/ SameScope(r, c) /\ c \in {r.initial, r.current}

Claims(r, c) ==
    /\ ~Recoverable(r, c)
    /\ IF r.state = "correction_required" THEN CorrectionClaim(r, c) # "none" ELSE ClaimsTarget(r, c)

Reusable(l) == IF receipt[l] = rec[l].rev THEN "reuse-receipt" ELSE "blocked"

(* What becomes of the one lineage that claims the candidate. *)
ClaimAnswer(l, c) ==
    LET r == rec[l] IN
    CASE r.state = "reviewing" /\ r.pred = None -> "resumed"
      [] r.state = "correction_required" /\ CorrectionClaim(r, c) = "resume" -> "resumed"
      [] r.state = "validating" /\ LiveMatches(r, c) /\ c = r.current -> "resumed"
      [] r.state = "approved" /\ LiveMatches(r, c) /\ c = r.current -> Reusable(l)
      [] OTHER -> "blocked"

(* resumeExplicitCompactStart, once the lineage is known to be a leaf. *)
ExplicitAnswer(l, c) ==
    LET r == rec[l]
        want == IF r.state = "reviewing" THEN r.initial ELSE r.current
    IN  CASE r.state = "escalated" -> IF SameScope(r, c) /\ c # r.current THEN "recover" ELSE "blocked"
          [] r.state = "approved" /\ want = c -> Reusable(l)
          [] r.state \in {"reviewing", "validating", "correction_required"} /\ want = c -> "resumed"
          [] OTHER -> "blocked"

Say(act, l) == [act |-> act, line |-> l]

(* explicitCompactSuccessor: a bad edge fails the command, a good one       *)
(* blocks it.                                                              *)
AskedAnswer(l, c) ==
    IF Cardinality(Children(l)) > 1 \/ \E m \in Children(l) : ~ValidEdge(rec[l], rec[m]) THEN Say("failed", l)
    ELSE IF ~Leaf(l) THEN Say("blocked", l)
    ELSE Say(ExplicitAnswer(l, c), l)

FoundAnswer(l, c) ==
    LET recoverable == {m \in Leaves : Recoverable(rec[m], c)}
        claimants == {m \in Leaves : Claims(rec[m], c)}
    IN  IF ~GraphValid THEN Say("failed", l)
        ELSE IF recoverable # {} THEN
            LET m == CHOOSE x \in recoverable : TRUE IN
            Say(IF recoverable = {m} /\ claimants = {} THEN "recover" ELSE "blocked", m)
        ELSE IF (l \in Known /\ l \notin claimants) \/ Cardinality(claimants) > 1 THEN Say("blocked", l)
        ELSE IF claimants # {} THEN LET m == CHOOSE x \in claimants : TRUE IN Say(ClaimAnswer(m, c), m)
        ELSE Say("created", l)

StartAnswer(l, explicit, c) == IF explicit /\ l \in Known THEN AskedAnswer(l, c) ELSE FoundAnswer(l, c)

-----------------------------------------------------------------------------

At(p, place) == proc[p].at = place
Goes(p, to) == proc' = [proc EXCEPT ![p] = to]

(* The candidate is frozen before the lock is asked for.  A negotiated     *)
(* START wants it still live when the lineage is created.                  *)
BeginStart(p) ==
    /\ At(p, "idle")
    /\ \E l \in Names \cup {tree}, explicit \in BOOLEAN, negotiated \in BOOLEAN :
        /\ l \in Names => explicit
        /\ Goes(p, [at |-> "start", line |-> l, explicit |-> explicit, cand |-> tree, live |-> negotiated])
    /\ UNCHANGED <<tree, store, lock, edits>>

StartLock(p) ==
    /\ At(p, "start")
    /\ \/ lock = None /\ lock' = p /\ proc' = [proc EXCEPT ![p].at = "inspect"]
       \/ lock # None /\ Goes(p, Idle) /\ UNCHANGED lock
    /\ UNCHANGED <<tree, store, edits>>

Inspect(p) ==
    LET s == proc[p]
        answer == StartAnswer(s.line, s.explicit, s.cand)
    IN  /\ At(p, "inspect")
        /\ IF answer.act = "created"
           THEN proc' = [proc EXCEPT ![p].at = "create"] /\ UNCHANGED lock
           ELSE Goes(p, [at |-> "told", answer |-> answer, cand |-> s.cand]) /\ lock' = None
        /\ UNCHANGED <<tree, store, edits>>

Create(p) ==
    LET s == proc[p] IN
    /\ At(p, "create") /\ lock' = None
    /\ IF s.live /\ tree # s.cand THEN Goes(p, Idle) /\ UNCHANGED rec
       ELSE /\ rec' = [rec EXCEPT ![s.line] = NewRecord(s.cand)]
            /\ Goes(p, [at |-> "told", answer |-> Say("created", s.line), cand |-> s.cand])
    /\ UNCHANGED <<tree, receipt, edits>>

Return(p) == At(p, "told") /\ Goes(p, Idle) /\ UNCHANGED <<tree, store, lock, edits>>

(* The successor is built from the live tree and the predecessor as it is  *)
(* read without the lock.  A request that no edge admits changes nothing,  *)
(* and is left out.                                                        *)
BeginRecover(p) ==
    /\ At(p, "idle")
    /\ \E l \in Known, s \in Names, why \in Dispositions :
        /\ l # s /\ Recovers(rec[l], tree, why)
        /\ Goes(p, [at |-> "recover", line |-> l, name |-> s,
                    next |-> [NewRecord(tree) EXCEPT !.gen = rec[l].gen + 1, !.pred = l,
                                                     !.predRev = rec[l].rev, !.why = why]])
    /\ UNCHANGED <<tree, store, lock, edits>>

(* Mutated: a predecessor may have a successor already. *)
Links_Again(l, name, next) ==
    GraphValid /\ rec[name] = None /\ ValidEdge(rec[l], next)

Links(l, name, next) ==
    GraphValid /\ rec[name] = None /\ Leaf(l) /\ ValidEdge(rec[l], next)

(* A busy lock refuses; so does a successor that exists, unless it is the  *)
(* same.                                                                   *)
Recover(p) ==
    LET s == proc[p] IN
    /\ At(p, "recover") /\ Goes(p, Idle)
    /\ IF lock = None /\ Links(s.line, s.name, s.next)
       THEN rec' = [rec EXCEPT ![s.name] = s.next] ELSE UNCHANGED rec
    /\ UNCHANGED <<tree, receipt, lock, edits>>

(* What a FINALIZE makes of a record, on the tree it finds. *)
Finalized(r) ==
    LET to(state) == [r EXCEPT !.state = state] IN
    CASE r.state = "reviewing" -> {to("validating"), to("correction_required"), to("escalated")}
      [] r.state = "validating" -> {to("approved"), to("escalated")}
      [] r.state = "correction_required" /\ ~r.forecast -> {[r EXCEPT !.forecast = TRUE], to("escalated")}
      [] r.state = "correction_required" /\ r.forecast /\ tree # r.current
             /\ Scope[tree] \subseteq Genesis(r) /\ tree \in Small -> {[to("approved") EXCEPT !.current = tree]}
      [] OTHER -> {}

Reopened(r) ==
    IF r.state \in {"validating", "correction_required"} /\ r.current = r.initial
    THEN {[r EXCEPT !.state = "reviewing", !.forecast = FALSE]} ELSE {}

Invalidated(r) ==
    IF r.state = "reviewing" /\ tree = r.initial THEN {[r EXCEPT !.state = "invalidated"]} ELSE {}

(* FINALIZE asks, before it takes the lock, whether its lineage is a leaf; *)
(* the reopening of results and the invalidation do not ask at all.        *)
BeginAdvance(p) ==
    /\ At(p, "idle")
    /\ \E l \in Known : \E next \in (IF GraphValid /\ Leaf(l) THEN Finalized(rec[l]) ELSE {})
                                        \cup Reopened(rec[l]) \cup Invalidated(rec[l]) :
        /\ rec[l].rev < MaxRev
        /\ Goes(p, [at |-> "advance", line |-> l, next |-> [next EXCEPT !.rev = @ + 1]])
    /\ UNCHANGED <<tree, store, lock, edits>>

(* replaceContextGuarded *)
Advance(p) ==
    LET s == proc[p] IN
    /\ At(p, "advance")
    /\ IF lock = None /\ rec[s.line].rev + 1 = s.next.rev
       THEN /\ rec' = [rec EXCEPT ![s.line] = s.next]
            /\ Goes(p, IF s.next.state = "approved" THEN [at |-> "receipt", line |-> s.line] ELSE Idle)
       ELSE Goes(p, Idle) /\ UNCHANGED rec
    /\ UNCHANGED <<tree, receipt, lock, edits>>

WriteReceipt(p) ==
    LET l == proc[p].line IN
    /\ At(p, "receipt") /\ Goes(p, Idle)
    /\ receipt' = IF lock = None /\ rec[l].state = "approved" THEN [receipt EXCEPT ![l] = rec[l].rev] ELSE receipt
    /\ UNCHANGED <<tree, rec, lock, edits>>

(* InvalidateApprovedCompactAuthority: the gate, which admits no superseded *)
(* lineage, must find the tree unrelated to the approved one.              *)
Revoke(p, l) ==
    /\ At(p, "idle") /\ lock = None
    /\ l \in Leaves /\ GraphValid /\ rec[l].state = "approved" /\ receipt[l] = rec[l].rev /\ rec[l].rev < MaxRev
    /\ Scope[tree] \cap Genesis(rec[l]) = {}
    /\ rec' = [rec EXCEPT ![l].state = "invalidated", ![l].rev = @ + 1]
    /\ receipt' = [receipt EXCEPT ![l] = 0]
    /\ UNCHANGED <<tree, lock, proc, edits>>

(* The lock of a process that dies is free. *)
Crash(p) ==
    /\ proc[p].at \in {"inspect", "create", "receipt"}
    /\ Goes(p, Idle) /\ lock' = IF lock = p THEN None ELSE lock
    /\ UNCHANGED <<tree, store, edits>>

Edit(c) ==
    /\ edits < MaxEdits /\ c # tree
    /\ tree' = c /\ edits' = edits + 1
    /\ UNCHANGED <<store, lock, proc>>

Init ==
    /\ tree \in Candidates
    /\ rec = [l \in Lineages |-> None] /\ receipt = [l \in Lineages |-> 0]
    /\ lock = None /\ proc = [p \in Procs |-> Idle] /\ edits = 0

Work(p) ==
    \/ BeginStart(p) \/ StartLock(p) \/ Inspect(p) \/ Create(p) \/ Return(p)
    \/ BeginRecover(p) \/ Recover(p) \/ BeginAdvance(p) \/ Advance(p) \/ WriteReceipt(p)
    \/ (\E l \in Lineages : Revoke(p, l)) \/ Crash(p)

Next == (\E p \in Procs : Work(p)) \/ (\E c \in Candidates : Edit(c))

Spec == Init /\ [][Next]_vars

-----------------------------------------------------------------------------
(* Properties *)

(* Types of all variables. *)
TypeOK ==
    /\ tree \in Candidates /\ edits \in 0..MaxEdits
    /\ \A l \in Known : rec[l].state \in States /\ {rec[l].initial, rec[l].current} \subseteq Candidates
                        /\ rec[l].rev \in 1..MaxRev /\ receipt[l] \in 0..MaxRev
    /\ lock \in Procs \cup {None}
    /\ \A p \in Procs : proc[p].at \in {"idle", "start", "inspect", "create", "told", "recover", "advance", "receipt"}

(* "Forks, dangling or mismatched predecessor links, cycles" never come of *)
(* what commands write, but for the revision an edge names: a predecessor  *)
(* may have advanced past it.                                              *)
NeverForks ==
    \A l \in Known : rec[l].pred # None =>
        /\ rec[l].pred \in Known /\ Children(rec[l].pred) = {l}
        /\ rec[l].gen = rec[rec[l].pred].gen + 1 /\ rec[l].predRev <= rec[rec[l].pred].rev

(* "serializes compact start discovery, equivalence decisions, and the     *)
(* initial write" (StartCompactAuthority): no two starts leave two leaves  *)
(* for one candidate.                                                      *)
NoTwins ==
    \A l, m \in Leaves :
        rec[l].pred = None /\ rec[m].pred = None /\ rec[l].initial = rec[m].initial => l = m

(* START is answered with a lineage that nothing supersedes, reuses a      *)
(* receipt only for the approved candidate, and names a lineage to recover *)
(* only when RECOVER admits it for the same candidate.                     *)
AnswersHold ==
    \A p \in Procs :
        LET answer == proc'[p].answer
            c == proc'[p].cand
            r == rec'[answer.line]
        IN  (proc'[p].at = "told" /\ ~At(p, "told")) =>
            /\ answer.act \in {"created", "resumed", "reuse-receipt", "recover"} =>
                   \A l \in Lineages : rec'[l] # None => rec'[l].pred # answer.line
            /\ answer.act = "reuse-receipt" => r.state = "approved" /\ r.current = c
            /\ answer.act = "recover" => \E why \in Dispositions : Recovers(r, c, why)

(* "records predecessor and operator provenance in the successor ...       *)
(* without rewriting or deleting history" (review-authority-threat-model): *)
(* a lineage that a successor superseded is never changed again.           *)
KeepsSuperseded == \A l \in Known : ~Leaf(l) => rec'[l] = rec[l]
=============================================================================
