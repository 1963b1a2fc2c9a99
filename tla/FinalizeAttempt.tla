-------------------------- MODULE FinalizeAttempt --------------------------
(***************************************************************************)
(* FINALIZE of one compact review lineage, and everything that races it.   *)
(*                                                                         *)
(* A finalizer is one `review finalize` process.  It reads the authority   *)
(* without a lock, plans the exact successor states, journals the request  *)
(* and then every planned transition (write-ahead), compare-and-swaps the  *)
(* authority through the plan, and, once the authority is terminal,        *)
(* publishes the receipt and completes the journaled attempt.  It may stop *)
(* between any two of these steps; the operator may run it again with the  *)
(* same or another request.                                                *)
(*                                                                         *)
(* Around it: evidence capture (two publications, outside the store lock), *)
(* reopening reviewer results, disposing of one, invalidating a pristine   *)
(* review, revoking an approval (two writes under the lock), edits of the  *)
(* live tree, and the delivery gate that reads receipt and authority       *)
(* unlocked and confirms them under the lock.                              *)
(*                                                                         *)
(* The store lock is an advisory lock held for one critical section; every *)
(* critical section is one action except the revocation, whose two writes  *)
(* a crash can separate, so only the revoker's possession is a variable.   *)
(* Losing a lock attempt stops the process: that is Abort.                 *)
(***************************************************************************)
EXTENDS CompactState, Sequences

CONSTANTS
    Finalizers,   \* concurrent `review finalize` processes
    Requests,     \* the payloads an operator may submit
    NoReceipt,
    NoRequest,
    MaxReopens,   \* bound: reviewer-result reopens of the lineage
    MaxAborts     \* bound: crashes and lock refusals of the processes

Payloads ==
    [results    : Results \cup {"none"},         \* reviewer results and refuter outcomes
     lines      : Nat,                           \* --correction-lines, 0 when absent
     validation : Fixes \cup {NoCandidate},      \* targeted validation of a fix, both checks passed
     evidence   : {"none", "captured",           \* --captured-evidence
                   "passed", "failed"}]          \* --evidence with --failed

EmptyPayload == [results |-> "none", lines |-> 0, validation |-> NoCandidate,
                 evidence |-> "none"]

ASSUME FinalizeAssumption ==
    /\ Requests \subseteq Payloads
    /\ EmptyPayload \in Requests
    /\ MaxReopens \in Nat /\ MaxAborts \in Nat
    /\ NoReceipt \notin Receipts

VARIABLES
    authority,   \* the committed state of the lineage
    journal,     \* finalize attempts, in order of first admission
    receipt,     \* the published receipt, or NoReceipt
    captured,    \* per target: the evidence payload and its record
    live,        \* the candidate in the working tree
    revoking,    \* the revoker holds the store lock between its two writes
    pc,          \* where each finalizer is
    payload,     \* its request's payload
    seen,        \* the authority it works from (record.Revision, record.State)
    inputs,      \* its verification evidence
    entry,       \* the pending attempt at entry: see PendingAt
    request,     \* the journaled request it drives
    plan,        \* its planned transitions
    done,        \* how many of them it has journaled or committed
    capture,     \* the `review capture-evidence` process
    gate,        \* the delivery gate: the authority it evaluates, if any
    aborts

store   == <<authority, journal, receipt, captured, live, revoking>>
fins    == <<pc, payload, seen, inputs, entry, request, plan, done>>
vars    == <<store, fins, capture, gate, aborts>>

-----------------------------------------------------------------------------
(* Requests and the journal *)

Request(s, candidate, r, e) ==
    [expected |-> s, candidate |-> candidate, results |-> r.results, lines |-> r.lines,
     validation |-> r.validation, evidence |-> e]

SamePayload(q, r) ==
    /\ q.candidate = r.candidate /\ q.results = r.results /\ q.lines = r.lines
    /\ q.validation = r.validation /\ q.evidence.outcome = r.evidence.outcome

(* A request resumes an incomplete attempt at the attempt's entry revision *)
(* or at a revision the attempt itself journaled.                          *)
MayResume(attempt, r, current) ==
    \/ current = attempt.request.expected /\ r.expected = current
    \/ /\ current # attempt.request.expected /\ r.expected = current
       /\ \E i \in DOMAIN attempt.transitions : attempt.transitions[i].next = current

Incomplete(j) == {i \in DOMAIN j : ~j[i].completed}

Pending(j) == CHOOSE i \in Incomplete(j) : \A k \in Incomplete(j) : k <= i

(* Mutated: another unresolved attempt is no obstacle. *)
Met_OnlyExact(j, r) == {i \in DOMAIN j : j[i].request = r}

(* ReconcileFinalizeAttempt scans for the first attempt that is the exact  *)
(* request or incomplete: it adopts it, appends when there is none, and    *)
(* refuses otherwise.                                                      *)
Met(j, r) == {i \in DOMAIN j : j[i].request = r \/ ~j[i].completed}

Adopted(j, r, current) ==
    {i \in Met(j, r) :
        /\ \A k \in Met(j, r) : i <= k
        /\ \/ j[i].request = r
           \/ SamePayload(j[i].request, r) /\ MayResume(j[i], r, current)}

NewAttempt(r) == [request |-> r, transitions |-> <<>>, published |-> FALSE, completed |-> FALSE]

(* Mutated: only the first transition is recorded. *)
Planned_FirstOnly(attempt, t) ==
    IF attempt.transitions # <<>> THEN attempt ELSE [attempt EXCEPT !.transitions = <<t>>]

(* PlanFinalizeAttemptTransition records a transition once. *)
Planned(attempt, t) ==
    IF \E i \in DOMAIN attempt.transitions : attempt.transitions[i] = t
    THEN attempt
    ELSE [attempt EXCEPT !.transitions = Append(@, t)]

(* Position of a revision among an attempt's transitions, 0 if none.       *)
TransitionIndex(attempt, s) ==
    IF \E i \in DOMAIN attempt.transitions : attempt.transitions[i].next = s
    THEN CHOOSE i \in DOMAIN attempt.transitions :
            /\ attempt.transitions[i].next = s
            /\ \A k \in DOMAIN attempt.transitions : attempt.transitions[k].next = s => i <= k
    ELSE 0

-----------------------------------------------------------------------------
(* The deterministic plan of a FINALIZE (prepareFacadeFinalizePlan) from   *)
(* state s, payload r, evidence e and the live tree.                       *)

CompletesReview(s) == s.state = "reviewing"
BeginsFix(s, r)    == s.state = "correction_required" /\ s.lines = 0 /\ r.lines > 0
Escalates(s, e)    == OpenCorrection(s) /\ HasRecord(e) /\ e.outcome = "procedural_failure"
Corrects(s, r, e)  == OpenCorrection(s) /\ r.validation # NoCandidate /\ ~Escalates(s, e)
Verifies(s, e)     == s.state = "validating" /\ e.outcome # "none"

Reviewed(s, r)  == IF CompletesReview(s) THEN CompleteReview(s, r.results) ELSE s
Begun(s, r)     == IF BeginsFix(s, r) THEN BeginCorrection(s, r.lines) ELSE s
Corrected(s, r, e, tree) ==
    CASE Escalates(s, e)   -> EscalateCorrectionVerification(s, e)
      [] Corrects(s, r, e) -> CompleteCorrectionVerification(s, tree, e)
      [] OTHER             -> s
Verified(s, e)  == IF Verifies(s, e) THEN CompleteVerification(s, e) ELSE s

(* The correction step acts on the entry state only; a forecast begun by   *)
(* this same request leaves the correction open.                           *)
AfterReview(s, r)         == Begun(Reviewed(s, r), r)
AfterFix(s, r, e, tree)   == IF OpenCorrection(s) THEN Corrected(s, r, e, tree) ELSE AfterReview(s, r)
AfterAll(s, r, e, tree)   == Verified(AfterFix(s, r, e, tree), e)

CanPlan(s, r, e, tree) ==
    /\ CompletesReview(s) => CanCompleteReview(s, r.results)
    /\ BeginsFix(Reviewed(s, r), r) => CanBeginCorrection(Reviewed(s, r), r.lines)
    /\ Escalates(s, e) => CanEscalateCorrectionVerification(s, tree, e)
    /\ Corrects(s, r, e) =>
          /\ HasRecord(e) /\ r.validation = tree
          /\ CanCompleteCorrectionVerification(s, tree, e)
    /\ Verifies(AfterFix(s, r, e, tree), e) =>
          CanCompleteVerification(AfterFix(s, r, e, tree), e)

Transition(op, prev, next) == [operation |-> op, expected |-> prev, next |-> next]

(* Every planned step changes the state, so an unchanged state is no step. *)
Step(op, prev, next) == IF prev = next THEN <<>> ELSE <<Transition(op, prev, next)>>

CorrectionOperation(s, e) ==
    IF Escalates(s, e) THEN "review/escalate-correction-verification"
                       ELSE "review/complete-correction-verification"

Plan(s, r, e, tree) ==
    Step("review/complete-review", s, Reviewed(s, r))
    \o Step("review/begin-fix", Reviewed(s, r), AfterReview(s, r))
    \o Step(CorrectionOperation(s, e), AfterReview(s, r), AfterFix(s, r, e, tree))
    \o Step("review/complete-verification", AfterFix(s, r, e, tree), AfterAll(s, r, e, tree))

(* The snapshot a request is about: the corrected tree when it corrects.   *)
PlanCandidate(s, r, e, tree) ==
    IF Escalates(s, e) \/ Corrects(s, r, e) THEN tree ELSE s.current

-----------------------------------------------------------------------------
(* Verification evidence *)

EmptySlot == [payload |-> "none", record |-> NoEvidence]

(* Mutated: a live tree outside the genesis scope is accepted. *)
EvidenceTargets_AnyTree(s) ==
    CASE s.state = "validating" -> {s.current}
      [] OpenCorrection(s)      -> IF authority = s /\ ~CorrectionAttemptConsumed(s)
                                   THEN {live} ELSE {}
      [] OTHER                  -> {}

(* What evidence may be captured or read for: facadeVerificationEvidence-  *)
(* Target.  At an open correction the live fix, and only while the         *)
(* authority it was asked for is still the committed one.                  *)
EvidenceTargets(s) ==
    CASE s.state = "validating" -> {s.current}
      [] OpenCorrection(s)      -> IF authority = s /\ ~CorrectionAttemptConsumed(s)
                                   THEN {live} \cap Fixes ELSE {}
      [] OTHER                  -> {}

(* Mutated: the revision the record is bound to is not compared. *)
Readable_AnyRevision(slot, s) == slot.payload # "none" /\ HasRecord(slot.record)

(* ReadCapturedVerificationEvidence: the slot is complete and its record   *)
(* is bound to this very revision.                                         *)
Readable(slot, s) ==
    slot.payload # "none" /\ HasRecord(slot.record) /\ slot.record.authority = Revision(s)

(* The evidence a request brings, as a set: empty when its reading fails.  *)
InputEvidence(s, r) ==
    CASE r.evidence \in {"passed", "failed"} -> {RawEvidence(r.evidence)}
      [] r.evidence = "captured" ->
            {captured[c].record : c \in {t \in EvidenceTargets(s) : Readable(captured[t], s)}}
      [] r.evidence = "none" ->
            IF s.state = "validating" /\ captured[s.current] # EmptySlot
            THEN {captured[c].record : c \in {t \in {s.current} : Readable(captured[t], s)}}
            ELSE {NoEvidence}

-----------------------------------------------------------------------------
(* Finalizer steps *)

NoEntry == [pending |-> FALSE, index |-> 0]
Idle    == NewCompactState(0)

LockFree == ~revoking

(* A finalizer that returns forgets everything it read; one that lost the  *)
(* compare-and-swap remembers its request, which the operator is told to   *)
(* submit again.                                                           *)
Leave(p, how, r) ==
    /\ pc' = [pc EXCEPT ![p] = how]
    /\ payload' = [payload EXCEPT ![p] = EmptyPayload]
    /\ seen' = [seen EXCEPT ![p] = Idle]
    /\ inputs' = [inputs EXCEPT ![p] = NoEvidence]
    /\ entry' = [entry EXCEPT ![p] = NoEntry]
    /\ request' = [request EXCEPT ![p] = r]
    /\ plan' = [plan EXCEPT ![p] = <<>>]
    /\ done' = [done EXCEPT ![p] = 0]

Return(p) == Leave(p, "idle", NoRequest)

Goto(p, label) == pc' = [pc EXCEPT ![p] = label]

(* Mutated: FINALIZE refuses a decided lineage. *)
Load_RefusesDecided(p, r) ==
    /\ pc[p] \in {"idle", "lost"}
    /\ ~Terminal(authority)
    /\ Goto(p, "entry")
    /\ seen' = [seen EXCEPT ![p] = authority]
    /\ payload' = [payload EXCEPT ![p] = r]
    /\ request' = [request EXCEPT ![p] = NoRequest]
    /\ UNCHANGED <<store, inputs, entry, plan, done, capture, gate, aborts>>

(* Discover the lineage and load its record.  A terminal authority accepts *)
(* only an empty request, which replays its receipt.                       *)
Load(p, r) ==
    /\ pc[p] \in {"idle", "lost"}
    /\ Terminal(authority) => r = EmptyPayload
    /\ Goto(p, IF Terminal(authority) THEN "inspect" ELSE "entry")
    /\ seen' = [seen EXCEPT ![p] = authority]
    /\ payload' = [payload EXCEPT ![p] = r]
    /\ request' = [request EXCEPT ![p] = NoRequest]
    /\ UNCHANGED <<store, inputs, entry, plan, done, capture, gate, aborts>>

(* Mutated: the pending attempt is forgotten. *)
TerminalComplete_ReceiptOnly(s) == receipt = ReceiptOf(s)

(* Nothing is left to do for a decided authority. *)
TerminalComplete(s) == receipt = ReceiptOf(s) /\ Incomplete(journal) = {}

(* Terminal entry: look for the pending attempt and the derived receipt.   *)
Inspect(p) ==
    /\ pc[p] = "inspect" /\ LockFree
    /\ LET pending == Incomplete(journal) # {}
           over == \/ receipt \notin {NoReceipt, ReceiptOf(seen[p])}
                   \/ TerminalComplete(seen[p])
       IN  \/ over /\ Return(p)
           \/ /\ ~over /\ pending
              /\ Goto(p, IF receipt = ReceiptOf(seen[p]) THEN "complete" ELSE "publish")
              /\ request' = [request EXCEPT ![p] = journal[Pending(journal)].request]
              /\ UNCHANGED <<payload, seen, inputs, entry, plan, done>>
           \/ /\ ~over /\ ~pending
              /\ Goto(p, "reconcile")
              /\ request' = [request EXCEPT ![p] =
                                Request(seen[p], seen[p].current, payload[p], NoEvidence)]
              /\ UNCHANGED <<payload, seen, inputs, entry, plan, done>>
    /\ UNCHANGED <<store, capture, gate, aborts>>

(* Non-terminal entry: read the evidence, then the pending attempt.        *)
(* Reviewer results are refused outside reviewing unless one is pending.   *)
Enter(p) ==
    /\ pc[p] = "entry" /\ LockFree
    /\ LET pending == Incomplete(journal) # {}
           index   == IF pending THEN TransitionIndex(journal[Pending(journal)], seen[p]) ELSE 0
           refused == payload[p].results # "none" /\ seen[p].state # "reviewing" /\ ~pending
           evidence == InputEvidence(seen[p], payload[p])
       IN  \/ /\ (refused \/ evidence = {})
              /\ Return(p)
           \/ \E e \in evidence :
              /\ ~refused
              /\ inputs' = [inputs EXCEPT ![p] = e]
              /\ entry' = [entry EXCEPT ![p] = [pending |-> pending, index |-> index]]
              /\ IF index > 0
                 THEN /\ Goto(p, "reconcile")
                      /\ request' = [request EXCEPT ![p] =
                                        Request(seen[p], seen[p].current, payload[p], e)]
                 ELSE /\ Goto(p, "prepare")
                      /\ UNCHANGED request
              /\ UNCHANGED <<payload, seen, plan, done>>
    /\ UNCHANGED <<store, capture, gate, aborts>>

(* Plan against the live tree, before anything is journaled.  A request    *)
(* that resumes no attempt must find its candidate in the live tree; a     *)
(* request with nothing to do and nothing to resume returns.               *)
Prepare(p) ==
    /\ pc[p] = "prepare"
    /\ LET s == seen[p]
           r == payload[p]
           e == inputs[p]
           steps == Plan(s, r, e, live)
           candidate == PlanCandidate(s, r, e, live)
           ready == /\ CanPlan(s, r, e, live)
                    /\ Escalates(s, e) \/ Corrects(s, r, e) => authority = s
                    /\ entry[p].pending \/ (steps # <<>> /\ live = candidate)
       IN  \/ ~ready /\ Return(p)
           \/ /\ ready
              /\ plan' = [plan EXCEPT ![p] = steps]
              /\ IF request[p] # NoRequest
                 THEN Goto(p, IF steps = <<>> THEN "complete" ELSE "ahead") /\ UNCHANGED request
                 ELSE /\ Goto(p, "reconcile")
                      /\ request' = [request EXCEPT ![p] = Request(s, candidate, r, e)]
              /\ UNCHANGED <<payload, seen, inputs, entry, done>>
    /\ UNCHANGED <<store, capture, gate, aborts>>

(* Where a reconciled request goes on: a replay whose revision is the last *)
(* the attempt journaled is already finished; any other replay plans.      *)
AfterReconcile(p, attempt) ==
    CASE Terminal(seen[p]) -> "publish"
      [] ~Terminal(seen[p]) /\ entry[p].index > 0 ->
            IF entry[p].index = Len(attempt.transitions) THEN "complete" ELSE "prepare"
      [] OTHER -> IF plan[p] = <<>> THEN "complete" ELSE "ahead"

Reconcile(p) ==
    /\ pc[p] = "reconcile" /\ LockFree
    /\ LET r == request[p]
           adopted == Adopted(journal, r, authority)
       IN  \/ \E i \in adopted :
              /\ Goto(p, AfterReconcile(p, journal[i]))
              /\ request' = [request EXCEPT ![p] = journal[i].request]
              /\ UNCHANGED <<journal, payload, seen, inputs, entry, plan, done>>
           \/ /\ Met(journal, r) = {}
              /\ journal' = Append(journal, NewAttempt(r))
              /\ Goto(p, AfterReconcile(p, NewAttempt(r)))
              /\ UNCHANGED <<payload, seen, inputs, entry, request, plan, done>>
           \/ /\ Met(journal, r) # {} /\ adopted = {}
              /\ Return(p)
              /\ UNCHANGED journal
    /\ UNCHANGED <<authority, receipt, captured, live, revoking, capture, gate, aborts>>

(* Journal the next planned transition, before any of them is committed.   *)
WriteAhead(p) ==
    /\ pc[p] = "ahead" /\ LockFree
    /\ LET t == plan[p][done[p] + 1]
           last == done[p] + 1 = Len(plan[p])
       IN  /\ journal' = [i \in DOMAIN journal |-> IF journal[i].request = request[p]
                                                  THEN Planned(journal[i], t) ELSE journal[i]]
           /\ Goto(p, IF last THEN "commit" ELSE "ahead")
           /\ done' = [done EXCEPT ![p] = IF last THEN 0 ELSE @ + 1]
    /\ UNCHANGED <<authority, receipt, captured, live, revoking, payload, seen, inputs,
                   entry, request, plan, capture, gate, aborts>>

(* Mutated: every finished plan completes its attempt. *)
AfterCommit_SkipsReceipt(p, next) == IF done[p] + 1 < Len(plan[p]) THEN "commit" ELSE "complete"

(* Where a committed transition goes on. *)
AfterCommit(p, next) ==
    IF done[p] + 1 < Len(plan[p]) THEN "commit"
    ELSE IF Terminal(next) THEN "publish" ELSE "complete"

(* Mutated: the expected revision is not compared under the lock. *)
Accepts_UnlockedRead(s, t) == authority = t.next \/ Admissible(s, t.next, t.operation)

(* The store's compare-and-swap (ReplaceContext): an identical authority    *)
(* is success, one other than the expected a lost race.                     *)
Accepts(s, t) ==
    \/ authority = t.next
    \/ authority = s /\ Admissible(authority, t.next, t.operation)

Commit(p) ==
    /\ pc[p] = "commit" /\ LockFree
    /\ LET t == plan[p][done[p] + 1]
       IN  \/ /\ Accepts(seen[p], t)
              /\ authority' = t.next
              /\ seen' = [seen EXCEPT ![p] = t.next]
              /\ done' = [done EXCEPT ![p] = @ + 1]
              /\ Goto(p, AfterCommit(p, t.next))
              /\ UNCHANGED <<payload, inputs, entry, request, plan>>
           \/ /\ ~Accepts(seen[p], t) /\ authority # seen[p]
              /\ Leave(p, "lost", request[p])
              /\ UNCHANGED authority
           \/ /\ ~Accepts(seen[p], t) /\ authority = seen[p]
              /\ Return(p)
              /\ UNCHANGED authority
    /\ UNCHANGED <<journal, receipt, captured, live, revoking, capture, gate, aborts>>

(* WriteReceipt: the receipt must be the one the committed authority still *)
(* determines; an existing different receipt is never replaced.            *)
Publish(p) ==
    /\ pc[p] = "publish" /\ LockFree
    /\ LET mine == ReceiptOf(seen[p])
           current == Terminal(authority) /\ ReceiptOf(authority) = mine
       IN  \/ /\ current /\ receipt \in {NoReceipt, mine}
              /\ receipt' = mine
              /\ Goto(p, "confirm")
              /\ UNCHANGED <<payload, seen, inputs, entry, request, plan, done>>
           \/ /\ ~current \/ receipt \notin {NoReceipt, mine}
              /\ Return(p)
              /\ UNCHANGED receipt
    /\ UNCHANGED <<authority, journal, captured, live, revoking, capture, gate, aborts>>

(* Read the published receipt back, without the lock. *)
Confirm(p) ==
    /\ pc[p] = "confirm"
    /\ \/ /\ receipt = ReceiptOf(seen[p])
          /\ Goto(p, "mark")
          /\ UNCHANGED <<payload, seen, inputs, entry, request, plan, done>>
       \/ receipt # ReceiptOf(seen[p]) /\ Return(p)
    /\ UNCHANGED <<store, capture, gate, aborts>>

MarkPublished(p) ==
    /\ pc[p] = "mark" /\ LockFree
    /\ journal' = [i \in DOMAIN journal |-> IF journal[i].request = request[p]
                     THEN [journal[i] EXCEPT !.published = TRUE] ELSE journal[i]]
    /\ Goto(p, "complete")
    /\ UNCHANGED <<authority, receipt, captured, live, revoking, payload, seen, inputs,
                   entry, request, plan, done, capture, gate, aborts>>

Complete(p) ==
    /\ pc[p] = "complete" /\ LockFree
    /\ journal' = [i \in DOMAIN journal |-> IF journal[i].request = request[p]
                     THEN [journal[i] EXCEPT !.completed = TRUE] ELSE journal[i]]
    /\ Return(p)
    /\ UNCHANGED <<authority, receipt, captured, live, revoking, capture, gate, aborts>>

(* A crash, a cancelled context or a refused lock, between any two steps.  *)
Abort(p) ==
    /\ pc[p] \notin {"idle", "lost"} /\ aborts < MaxAborts
    /\ Return(p)
    /\ aborts' = aborts + 1
    /\ UNCHANGED <<store, capture, gate>>

-----------------------------------------------------------------------------
(* The other operations of the lineage.  Reopen, dispose and invalidate    *)
(* are one compare-and-swap each: what they computed from an older         *)
(* authority is refused, so a successful one reads what it replaces.       *)

NoCapture == [pc |-> "idle", target |-> NoCandidate, record |-> NoEvidence]

(* Read the authority unlocked and bind the evidence to its revision.      *)
BeginCapture(outcome) ==
    /\ capture.pc = "idle"
    /\ \E c \in EvidenceTargets(authority) :
          capture' = [pc |-> "payload", target |-> c,
                      record |-> [outcome |-> outcome, target |-> c,
                                  authority |-> Revision(authority)]]
    /\ UNCHANGED <<store, fins, gate, aborts>>

(* Mutated: an existing payload is replaced. *)
CapturePayload_Overwrites ==
    /\ capture.pc = "payload"
    /\ captured' = [captured EXCEPT ![capture.target].payload = capture.record.outcome]
    /\ capture' = [capture EXCEPT !.pc = "record"]
    /\ UNCHANGED <<authority, journal, receipt, live, revoking, fins, gate, aborts>>

(* Two immutable publications: an identical one converges, another one     *)
(* conflicts.  The store lock is not held, so the authority may have moved.*)
CapturePayload ==
    /\ capture.pc = "payload"
    /\ LET slot == captured[capture.target]
       IN  \/ /\ slot.payload \in {"none", capture.record.outcome}
              /\ captured' = [captured EXCEPT ![capture.target].payload = capture.record.outcome]
              /\ capture' = [capture EXCEPT !.pc = "record"]
           \/ /\ slot.payload \notin {"none", capture.record.outcome}
              /\ capture' = NoCapture
              /\ UNCHANGED captured
    /\ UNCHANGED <<authority, journal, receipt, live, revoking, fins, gate, aborts>>

CaptureRecord ==
    /\ capture.pc = "record"
    /\ \/ /\ captured[capture.target].record = NoEvidence
          /\ captured' = [captured EXCEPT ![capture.target].record = capture.record]
       \/ /\ captured[capture.target].record # NoEvidence
          /\ UNCHANGED captured
    /\ capture' = NoCapture
    /\ UNCHANGED <<authority, journal, receipt, live, revoking, fins, gate, aborts>>

AbortCapture ==
    /\ capture.pc # "idle" /\ aborts < MaxAborts
    /\ capture' = NoCapture
    /\ aborts' = aborts + 1
    /\ UNCHANGED <<store, fins, gate>>

Replace(op, next) ==
    /\ LockFree
    /\ Admissible(authority, next, op)
    /\ authority' = next
    /\ UNCHANGED <<journal, receipt, captured, live, revoking, fins, capture, gate, aborts>>

ReopenResults ==
    /\ ReopenEligible(authority) /\ authority.reopens < MaxReopens
    /\ receipt = NoReceipt
    /\ Replace("review/reopen-results", Reopen(authority))

DisposeResult ==
    /\ authority.state = "reviewing"
    /\ Replace("review/dispose-result", Dispose(authority))

(* Invalidation rebuilds the genesis snapshot from the live repository.    *)
InvalidatePristine ==
    /\ PristineReviewing(authority) /\ live = Genesis
    /\ Replace("review/invalidate", Invalidate(authority))

(* Mutated: the receipt is removed before the approval is revoked. *)
Revoke_ReceiptFirst ==
    /\ LockFree
    /\ authority.state = "approved" /\ receipt = ReceiptOf(authority)
    /\ live \in Strays
    /\ receipt' = NoReceipt
    /\ UNCHANGED <<authority, journal, captured, live, revoking, fins, capture, gate, aborts>>

(* Revoking an approval: the receipt is published, the gate re-derives     *)
(* `invalidated` (here: the live tree left the approved base), and the     *)
(* invalidated state is written before the receipt is removed.             *)
Revoke ==
    /\ LockFree
    /\ authority.state = "approved" /\ receipt = ReceiptOf(authority)
    /\ live \in Strays
    /\ authority' = InvalidateApproved(authority)
    /\ revoking' = TRUE
    /\ UNCHANGED <<journal, receipt, captured, live, fins, capture, gate, aborts>>

RemoveReceipt ==
    /\ revoking
    /\ receipt' = NoReceipt
    /\ revoking' = FALSE
    /\ UNCHANGED <<authority, journal, captured, live, fins, capture, gate, aborts>>

AbortRevoke ==
    /\ revoking /\ aborts < MaxAborts
    /\ revoking' = FALSE
    /\ aborts' = aborts + 1
    /\ UNCHANGED <<authority, journal, receipt, captured, live, fins, capture, gate>>

(* Repeating the revocation of an already revoked approval finishes it.    *)
ReplayRevoke ==
    /\ LockFree
    /\ authority.denied /\ receipt # NoReceipt
    /\ receipt' = NoReceipt
    /\ UNCHANGED <<authority, journal, captured, live, revoking, fins, capture, gate, aborts>>

Edit(c) ==
    /\ live # c
    /\ live' = c
    /\ UNCHANGED <<authority, journal, receipt, captured, revoking, fins, capture, gate, aborts>>

NoGate == [pc |-> "idle", seen |-> Idle]

(* The delivery gate: receipt, authority and live tree, read unlocked.     *)
GateEvaluate ==
    /\ gate.pc = "idle"
    /\ authority.state = "approved" /\ receipt = ReceiptOf(authority)
    /\ live = authority.current
    /\ gate' = [pc |-> "evaluated", seen |-> authority]
    /\ UNCHANGED <<store, fins, capture, aborts>>

(* Mutated: the authority is not loaded again under the lock. *)
GateConfirmed_NoReload == gate.pc = "evaluated" /\ LockFree /\ live = gate.seen.current

(* Under the lock the authority and the live tree must not have changed;   *)
(* the receipt is not read again.                                          *)
GateConfirmed == gate.pc = "evaluated" /\ LockFree /\ authority = gate.seen /\ live = gate.seen.current

GateAllow ==
    /\ GateConfirmed
    /\ gate' = NoGate
    /\ UNCHANGED <<store, fins, capture, aborts>>

GateDeny ==
    /\ gate.pc = "evaluated" /\ LockFree /\ ~GateConfirmed
    /\ gate' = NoGate
    /\ UNCHANGED <<store, fins, capture, aborts>>

-----------------------------------------------------------------------------
Init ==
    /\ authority \in {NewCompactState(n) : n \in 0 .. MaxCompactCorrectionAttempts}
    /\ journal = <<>>
    /\ receipt = NoReceipt
    /\ captured = [c \in Targets |-> EmptySlot]
    /\ live = Genesis
    /\ revoking = FALSE
    /\ pc = [p \in Finalizers |-> "idle"]
    /\ payload = [p \in Finalizers |-> EmptyPayload]
    /\ seen = [p \in Finalizers |-> Idle]
    /\ inputs = [p \in Finalizers |-> NoEvidence]
    /\ entry = [p \in Finalizers |-> NoEntry]
    /\ request = [p \in Finalizers |-> NoRequest]
    /\ plan = [p \in Finalizers |-> <<>>]
    /\ done = [p \in Finalizers |-> 0]
    /\ capture = NoCapture
    /\ gate = NoGate
    /\ aborts = 0

(* The steps a finalizer takes once it has loaded the authority. *)
Run(p) ==
    \/ Inspect(p) \/ Enter(p) \/ Prepare(p) \/ Reconcile(p) \/ WriteAhead(p)
    \/ Commit(p) \/ Publish(p) \/ Confirm(p) \/ MarkPublished(p) \/ Complete(p)

Finalize(p) == (\E r \in Requests : Load(p, r)) \/ Run(p) \/ Abort(p)

Capture == (\E o \in Outcomes : BeginCapture(o)) \/ CapturePayload \/ CaptureRecord \/ AbortCapture

Maintain == ReopenResults \/ DisposeResult \/ InvalidatePristine

Revocation == Revoke \/ RemoveReceipt \/ AbortRevoke \/ ReplayRevoke

Deliver == GateEvaluate \/ GateAllow \/ GateDeny

Next ==
    \/ \E p \in Finalizers : Finalize(p)
    \/ Capture
    \/ Maintain
    \/ Revocation
    \/ Deliver
    \/ \E c \in Candidates : Edit(c)

Spec == Init /\ [][Next]_vars

(* A started finalizer runs on, a revoker holding the lock releases it, and *)
(* the operator repeats the receipt replay of a terminal lineage: the error *)
(* every interrupted FINALIZE returns names that command.                   *)
FairSpec ==
    /\ Spec
    /\ WF_vars(RemoveReceipt)
    /\ \A p \in Finalizers :
          WF_vars(Run(p)) /\ WF_vars(Terminal(authority) /\ Load(p, EmptyPayload))

-----------------------------------------------------------------------------
(* Types *)

FinalizeRequests ==
    [expected   : CompactStates,
     candidate  : Candidates,
     results    : Results \cup {"none"},
     lines      : Nat,
     validation : Fixes \cup {NoCandidate},
     evidence   : Evidence]

ASSUME NoRequestAssumption == NoRequest \notin FinalizeRequests

Operations == {"review/complete-review", "review/begin-fix",
               "review/complete-correction-verification",
               "review/escalate-correction-verification", "review/complete-verification"}

Transitions == [operation : Operations, expected : CompactStates, next : CompactStates]

FinalizeAttempts ==
    [request : FinalizeRequests, transitions : Seq(Transitions),
     published : BOOLEAN, completed : BOOLEAN]

Labels == {"idle", "lost", "inspect", "entry", "prepare", "reconcile", "ahead",
           "commit", "publish", "confirm", "mark", "complete"}

StoreTypeOK ==
    /\ authority \in CompactStates
    /\ journal \in Seq(FinalizeAttempts)
    /\ receipt \in Receipts \cup {NoReceipt}
    /\ captured \in [Targets -> [payload : Outcomes \cup {"none"}, record : Evidence]]
    /\ live \in Candidates
    /\ revoking \in BOOLEAN

FinalizerTypeOK ==
    /\ pc \in [Finalizers -> Labels]
    /\ payload \in [Finalizers -> Requests]
    /\ seen \in [Finalizers -> CompactStates]
    /\ inputs \in [Finalizers -> Evidence]
    /\ entry \in [Finalizers -> [pending : BOOLEAN, index : Nat]]
    /\ request \in [Finalizers -> FinalizeRequests \cup {NoRequest}]
    /\ plan \in [Finalizers -> Seq(Transitions)]
    /\ done \in [Finalizers -> Nat]

TypeOK ==
    /\ StoreTypeOK
    /\ FinalizerTypeOK
    /\ capture \in [pc : {"idle", "payload", "record"},
                    target : Targets \cup {NoCandidate}, record : Evidence]
    /\ gate \in [pc : {"idle", "evaluated"}, seen : CompactStates]
    /\ aborts \in 0 .. MaxAborts

-----------------------------------------------------------------------------
(* Safety *)

(* Write-ahead: every authority a FINALIZE can have committed is a planned  *)
(* transition of a journaled attempt, so a crash after the commit leaves    *)
(* the request that owns it on record (PlanFinalizeAttemptTransition:       *)
(* durable before ReplaceContext can make the successor authoritative).     *)
AuthorityJournaled ==
    LET committed == Origin(authority)
    IN  committed.state \in {"validating", "correction_required", "approved", "escalated"}
        /\ committed.verdict # "disposed"
        => \E i \in DOMAIN journal : TransitionIndex(journal[i], committed) > 0

(* However requests, crashes and reopens interleave, at most one journaled  *)
(* attempt is unresolved: PendingFinalizeAttempt's "the one unresolved      *)
(* request for this lineage".                                               *)
OnePendingAttempt == \A i, k \in Incomplete(journal) : i = k

(* Planning performs every deterministic validation before the attempt is   *)
(* journaled: a planned successor whose predecessor is still committed is   *)
(* never refused by the store, which validates it by other rules.           *)
PlanAdmissible ==
    \A p \in Finalizers :
        pc[p] = "commit" /\ authority = seen[p] =>
            LET t == plan[p][done[p] + 1] IN Admissible(authority, t.next, t.operation)

(* The receipt on disk attests the committed decision of the lineage, or,   *)
(* between the two writes of a revocation, the approval it revoked.         *)
ReceiptBound ==
    receipt # NoReceipt =>
        Terminal(Origin(authority)) /\ receipt = ReceiptOf(Origin(authority))

(* An approval stands on passed verification of the candidate it approves,  *)
(* captured (when a record is bound) for the very revision the approval     *)
(* replaced, however often results were reopened in between; one that       *)
(* answered findings took its only correction attempt, within the budget.   *)
ApprovalEarned ==
    LET s == Origin(authority)
        base == IF s.fix = NoCandidate THEN "validating" ELSE "correction_required"
    IN  s.state = "approved" =>
            /\ s.evidence.outcome = "passed"
            /\ HasRecord(s.evidence) =>
                  /\ s.evidence.target = s.current
                  /\ s.evidence.authority = <<base, s.verdict, s.lines, s.reopens>>
            /\ \/ s.verdict = "clean" /\ s.current = Genesis
               \/ /\ s.verdict = "fix" /\ s.current \in Fixes
                  /\ HasRecord(s.evidence)
                  /\ FixSize[s.current] <= Budget /\ s.lines <= Budget
                  /\ s.consumed < MaxCompactCorrectionAttempts

(* An attempt that drove the lineage to its decision is not completed, nor  *)
(* marked published, before the receipt is on disk: completing it earlier   *)
(* would end the replay that publishes the receipt.  One finalizer keeps it *)
(* whatever it is stopped by; two do not (README, "What the runs found"),   *)
(* because Adopted compares the index computed on entry with the attempt    *)
(* found under the lock.                                                    *)
CompletedIsPublished ==
    \A i \in DOMAIN journal :
        \/ journal[i].completed /\ Terminal(authority) /\ TransitionIndex(journal[i], authority) > 0
        \/ journal[i].published
        => receipt # NoReceipt \/ authority.denied

(* A captured record always describes the payload published beside it,      *)
(* whichever crash or second capture came between the two publications.     *)
RecordDescribesPayload ==
    \A c \in Targets :
        HasRecord(captured[c].record) =>
            /\ captured[c].payload = captured[c].record.outcome
            /\ captured[c].record.target = c

-----------------------------------------------------------------------------
(* Action properties *)

Stage(s) ==
    CASE s.state = "reviewing" -> 0
      [] s.state \in {"validating", "correction_required"} -> IF s.lines = 0 THEN 1 ELSE 2
      [] s.state \in {"approved", "escalated"} -> 3
      [] s.state = "invalidated" -> 4

Rank(s) == 5 * s.reopens + Stage(s)

(* A replaced revision never becomes current again.  Revisions are content  *)
(* digests, so the compare-and-swap that guards every write would accept a  *)
(* stale writer if a lineage could return to a former content.              *)
RevisionsNeverRecur == [][authority' # authority => Rank(authority') > Rank(authority)]_authority

(* The gate allows only on the receipt of an approved authority and for the *)
(* approved tree, both as they are when it answers, although it reads the   *)
(* receipt before it takes the lock and never again.                        *)
GateAllowSound ==
    [][GateAllow => /\ authority.state = "approved"
                    /\ receipt = ReceiptOf(authority)
                    /\ live = authority.current]_vars

-----------------------------------------------------------------------------
(* The abstract authority this lineage implements *)

Decision(s) ==
    CASE Origin(s).state = "approved"  -> [verdict |-> "approved", candidate |-> s.current]
      [] Origin(s).state = "escalated" -> [verdict |-> "escalated", candidate |-> s.current]
      [] Origin(s).state = "invalidated" -> [verdict |-> "cancelled", candidate |-> s.current]
      [] OTHER -> [verdict |-> "open"]

Attested == IF receipt = NoReceipt THEN [verdict |-> "open"]
            ELSE [verdict |-> receipt.terminal, candidate |-> receipt.final]

Abstract == INSTANCE ReviewAuthority WITH
    decision <- Decision(authority), revoked <- authority.denied, receipt <- Attested

(* The lineage decides once, publishes only that decision's receipt, and    *)
(* withdraws a receipt only after the approval is durably revoked.          *)
ImplementsAuthority == Abstract!Spec

-----------------------------------------------------------------------------
(* Liveness, under FairSpec *)

(* A decided lineage does not stay without its receipt: whatever crash or   *)
(* lost race left it unpublished, replaying the terminal FINALIZE publishes *)
(* it, unless the approval is revoked.                                      *)
ReceiptEventuallyPublished ==
    Terminal(authority) ~> (receipt = ReceiptOf(authority) \/ authority.denied)

(* Nor does it keep an unresolved attempt.                                  *)
AttemptEventuallyCompleted ==
    Terminal(authority) ~> (Incomplete(journal) = {} \/ authority.denied)

-----------------------------------------------------------------------------
(* What the losing finalizer is told *)

(* `authority_revision_conflict`: "this operation published nothing, so     *)
(* retry".  Once everyone has returned from a lineage still under review,   *)
(* a pending attempt the loser left behind must be one its retry can        *)
(* resume: at its entry revision or at a revision it journaled.             *)
LoserCanRetry ==
    \A p \in Finalizers :
        /\ pc[p] = "lost" /\ \A q \in Finalizers : pc[q] \in {"idle", "lost"}
        /\ authority.state \in {"reviewing", "correction_required", "validating"}
        => \A i \in Incomplete(journal) :
              \/ authority = journal[i].request.expected
              \/ TransitionIndex(journal[i], authority) > 0

=============================================================================
