----------------------- MODULE FinalizeAttemptProofs -----------------------
(***************************************************************************)
(* Theorems of FinalizeAttempt, for any finalizers, requests, candidates   *)
(* and bounds, in five parts: lemmas on the operators of CompactState; the *)
(* types; the safety of journal, authority, receipt and gate, with the     *)
(* refinement of ReviewAuthority; what a FINALIZE may plan; and what the   *)
(* journal of a sole finalizer may call completed.                         *)
(***************************************************************************)
EXTENDS FinalizeAttempt, WellFoundedInduction, SequenceTheorems, TLAPS

-----------------------------------------------------------------------------
(* I.  The operators of CompactState *)

(* The types they preserve, and what an admitted successor says of the     *)
(* state it replaces.                                                      *)

(* A nonempty set of naturals has a least element.                         *)
LEMMA LeastNatural ==
    ASSUME NEW T \in SUBSET Nat, T # {}
    PROVE  \E x \in T : \A y \in T : x <= y
<1>1. IsWellFoundedOn(OpToRel(<, Nat), Nat)
  BY NatLessThanWellFounded
<1>2. PICK x \in T : \A y \in T : ~ (<<y, x>> \in OpToRel(<, Nat))
  BY <1>1, WFMin
<1>3. \A y \in T : ~(y < x)
  BY <1>2 DEF OpToRel
<1>4. QED
  BY <1>3

(* A nonempty bounded set of naturals has a greatest element.              *)
LEMMA GreatestNatural ==
    ASSUME NEW n \in Nat, NEW T \in SUBSET (0 .. n), T # {}
    PROVE  \E x \in T : \A y \in T : y <= x
<1> DEFINE U == {n - t : t \in T}
<1>1. U \in SUBSET Nat
  OBVIOUS
<1>0. U # {}
  OBVIOUS
<1>2. PICK u \in U : \A v \in U : u <= v
  BY <1>0, <1>1, LeastNatural
<1>3. PICK x \in T : u = n - x
  OBVIOUS
<1>4. \A y \in T : n - x <= n - y
  BY <1>2, <1>3
<1>5. QED
  BY <1>4

-----------------------------------------------------------------------------
(* Types *)

LEMMA EvidenceTypes ==
    /\ NoEvidence \in Evidence
    /\ \A outcome \in Outcomes : RawEvidence(outcome) \in Evidence
    /\ \A s \in CompactStates : Revision(s) \in Revisions
BY DEF NoEvidence, Evidence, RawEvidence, Outcomes, NoRevision, Revisions, Revision,
       CompactStates, Verdicts, Results, StateNames

(* NewCompactState: a lineage starts in a well-typed state. *)
LEMMA NewCompactStateType ==
    ASSUME NEW n \in 0 .. MaxCompactCorrectionAttempts
    PROVE  NewCompactState(n) \in CompactStates
BY EvidenceTypes DEF NewCompactState, CompactStates, StateNames, Verdicts, Targets

(* Every operation of the review yields a well-typed state. *)
LEMMA OperationTypes ==
    ASSUME NEW s \in CompactStates
    PROVE  /\ \A r \in Results : CompleteReview(s, r) \in CompactStates
           /\ \A n \in Nat : BeginCorrection(s, n) \in CompactStates
           /\ \A e \in Evidence : CompleteVerification(s, e) \in CompactStates
           /\ \A e \in Evidence : EscalateCorrectionVerification(s, e) \in CompactStates
           /\ \A f \in Fixes, e \in Evidence :
                CompleteCorrectionVerification(s, f, e) \in CompactStates
<1>1. ASSUME NEW r \in Results
      PROVE  CompleteReview(s, r) \in CompactStates
  BY DEF CompleteReview, CompactStates, StateNames, Verdicts, Results
<1>2. ASSUME NEW n \in Nat
      PROVE  BeginCorrection(s, n) \in CompactStates
  BY DEF BeginCorrection, CompactStates, StateNames
<1>3. ASSUME NEW e \in Evidence
      PROVE  /\ CompleteVerification(s, e) \in CompactStates
             /\ EscalateCorrectionVerification(s, e) \in CompactStates
  BY DEF CompleteVerification, EscalateCorrectionVerification, CompactStates, StateNames
<1>4. ASSUME NEW f \in Fixes, NEW e \in Evidence
      PROVE  CompleteCorrectionVerification(s, f, e) \in CompactStates
  BY DEF CompleteCorrectionVerification, CompactStates, StateNames, Targets
<1>5. QED
  BY <1>1, <1>2, <1>3, <1>4

(* So do reopening, disposition and both invalidations. *)
LEMMA MaintenanceTypes ==
    ASSUME NEW s \in CompactStates
    PROVE  /\ Reopen(s) \in CompactStates
           /\ Dispose(s) \in CompactStates
           /\ Invalidate(s) \in CompactStates
           /\ InvalidateApproved(s) \in CompactStates
<1>1. Reopen(s) \in CompactStates
  <2>1. s.reopens + 1 \in Nat
    BY DEF CompactStates
  <2>2. NoEvidence \in Evidence
    BY EvidenceTypes
  <2>3. QED
    BY <2>1, <2>2 DEF Reopen, CompactStates, StateNames, Verdicts
<1>2. Dispose(s) \in CompactStates
  BY DEF Dispose, CompactStates, StateNames, Verdicts
<1>3. Invalidate(s) \in CompactStates
  BY DEF Invalidate, CompactStates, StateNames
<1>4. InvalidateApproved(s) \in CompactStates
  BY DEF InvalidateApproved, CompactStates, StateNames
<1>5. QED
  BY <1>1, <1>2, <1>3, <1>4

LEMMA ReceiptType ==
    ASSUME NEW s \in CompactStates
    PROVE  ReceiptOf(s) \in Receipts
BY DEF ReceiptOf, Receipts, CompactStates

-----------------------------------------------------------------------------
(* Successors *)

(* A state that still has its invalidation evidence to come is its origin,  *)
(* and a revoked approval's origin is the approval.                         *)
LEMMA OriginOf ==
    ASSUME NEW s \in CompactStates
    PROVE  /\ ~s.denied => Origin(s) = s
           /\ s.state = "approved" /\ ~s.denied => Origin(InvalidateApproved(s)) = s
BY DEF Origin, InvalidateApproved, CompactStates

(* The store admits a successor of an open review only, and the successor   *)
(* carries invalidation evidence only when it is invalidated.               *)
LEMMA AdmissibleSuccessor ==
    ASSUME NEW s \in CompactStates, NEW next \in CompactStates, NEW op,
           op \in {"review/complete-review", "review/begin-fix",
                   "review/complete-correction-verification",
                   "review/escalate-correction-verification",
                   "review/complete-verification", "review/dispose-result",
                   "review/reopen-results", "review/invalidate"},
           Admissible(s, next, op)
    PROVE  /\ s.state \in {"reviewing", "correction_required", "validating"}
           /\ next.denied => next.state = "invalidated"
<1>1. next.denied => next.state = "invalidated"
  BY DEF Admissible, Valid
<1>2. LegalSuccessor(s, next, op)
  BY DEF Admissible
<1>3. s.state \in {"reviewing", "correction_required", "validating"}
  BY <1>2 DEF LegalSuccessor, PristineReviewing, OpenCorrection
<1>4. QED
  BY <1>1, <1>3

-----------------------------------------------------------------------------
(* II.  Types *)

(* Every action keeps the types of the variables, whatever is in progress. *)

(* A finalizer that has journaled nothing yet starts its plan at the first *)
(* transition, one in the middle of its plan has a next transition, and    *)
(* one that reconciles has a request.                                      *)
PlanInProgress ==
    \A p \in Finalizers :
        /\ pc[p] \in {"idle", "lost", "inspect", "entry", "prepare", "reconcile"} => done[p] = 0
        /\ pc[p] \in {"ahead", "commit"} => done[p] < Len(plan[p])
        /\ pc[p] = "reconcile" => request[p] \in FinalizeRequests

TypeInv == TypeOK /\ PlanInProgress

-----------------------------------------------------------------------------
(* Types of the operators *)

LEMMA NoEvidenceIsEvidence == NoEvidence \in Evidence
BY EvidenceTypes

LEMMA PayloadTypes ==
    ASSUME NEW r \in Requests
    PROVE  /\ r.results \in Results \cup {"none"}
           /\ r.lines \in Nat
           /\ r.validation \in Fixes \cup {NoCandidate}
           /\ r.evidence \in {"none", "captured", "passed", "failed"}
BY FinalizeAssumption DEF Payloads

(* Request fills every field of a finalize request. *)
LEMMA RequestType ==
    ASSUME NEW s \in CompactStates, NEW c \in Candidates, NEW r \in Requests,
           NEW e \in Evidence
    PROVE  Request(s, c, r, e) \in FinalizeRequests
BY PayloadTypes DEF Request, FinalizeRequests

LEMMA AttemptFields ==
    ASSUME NEW j \in Seq(FinalizeAttempts), NEW i \in DOMAIN j
    PROVE  /\ j[i] \in FinalizeAttempts
           /\ j[i].request \in FinalizeRequests
           /\ j[i].transitions \in Seq(Transitions)
           /\ j[i].published \in BOOLEAN
           /\ j[i].completed \in BOOLEAN
<1>1. j[i] \in FinalizeAttempts
  BY ElementOfSeq
<1>2. QED
  BY <1>1 DEF FinalizeAttempts

(* The pending attempt exists when an attempt is incomplete. *)
LEMMA PendingIsIncomplete ==
    ASSUME NEW j \in Seq(FinalizeAttempts), Incomplete(j) # {}
    PROVE  Pending(j) \in Incomplete(j)
<1>1. Incomplete(j) \in SUBSET (0 .. Len(j)) /\ Len(j) \in Nat
  BY DEF Incomplete
<1>2. \E i \in Incomplete(j) : \A k \in Incomplete(j) : k <= i
  BY <1>1, GreatestNatural
<1>3. QED
  BY <1>2 DEF Pending

(* TransitionIndex is a position of the state, or 0. *)
LEMMA TransitionIndexType ==
    ASSUME NEW attempt \in FinalizeAttempts, NEW s
    PROVE  /\ TransitionIndex(attempt, s) \in Nat
           /\ TransitionIndex(attempt, s) > 0 <=>
                \E i \in DOMAIN attempt.transitions : attempt.transitions[i].next = s
           /\ TransitionIndex(attempt, s) > 0 =>
                /\ TransitionIndex(attempt, s) \in DOMAIN attempt.transitions
                /\ attempt.transitions[TransitionIndex(attempt, s)].next = s
<1> DEFINE I == {i \in DOMAIN attempt.transitions : attempt.transitions[i].next = s}
<1>1. attempt.transitions \in Seq(Transitions)
  BY DEF FinalizeAttempts
<1>2. I \in SUBSET Nat /\ \A i \in I : i > 0
  BY <1>1
<1>3. CASE I = {}
  BY <1>3 DEF TransitionIndex
<1>4. CASE I # {}
  <2>1. PICK i \in I : \A k \in I : i <= k
    BY <1>2, <1>4, LeastNatural
  <2>2. \E n \in DOMAIN attempt.transitions :
            /\ attempt.transitions[n].next = s
            /\ \A k \in DOMAIN attempt.transitions : attempt.transitions[k].next = s => n <= k
    BY <2>1
  <2>3. TransitionIndex(attempt, s) \in I
    BY <1>4, <2>2 DEF TransitionIndex
  <2>4. QED
    BY <1>2, <1>4, <2>3
<1>5. QED
  BY <1>3, <1>4

(* Recording a transition keeps an attempt an attempt. *)
LEMMA PlannedType ==
    ASSUME NEW attempt \in FinalizeAttempts, NEW t \in Transitions
    PROVE  Planned(attempt, t) \in FinalizeAttempts
<1>1. Append(attempt.transitions, t) \in Seq(Transitions)
  BY AppendProperties DEF FinalizeAttempts
<1>2. QED
  BY <1>1 DEF Planned, FinalizeAttempts

LEMMA NewAttemptType ==
    ASSUME NEW r \in FinalizeRequests
    PROVE  NewAttempt(r) \in FinalizeAttempts
BY EmptySeq DEF NewAttempt, FinalizeAttempts

(* A step of a plan is at most one transition. *)
LEMMA StepType ==
    ASSUME NEW op \in Operations, NEW prev \in CompactStates, NEW next \in CompactStates
    PROVE  Step(op, prev, next) \in Seq(Transitions)
<1>1. Transition(op, prev, next) \in Transitions
  BY DEF Transition, Transitions
<1>2. QED
  BY <1>1, EmptySeq DEF Step

(* The states prepareFacadeFinalizePlan passes through. *)
LEMMA PlannedStateTypes ==
    ASSUME NEW s \in CompactStates, NEW r \in Requests, NEW e \in Evidence,
           NEW tree \in Candidates, CanPlan(s, r, e, tree)
    PROVE  /\ Reviewed(s, r) \in CompactStates
           /\ AfterReview(s, r) \in CompactStates
           /\ AfterFix(s, r, e, tree) \in CompactStates
           /\ AfterAll(s, r, e, tree) \in CompactStates
<1>1. Reviewed(s, r) \in CompactStates
  BY OperationTypes DEF CanPlan, CanCompleteReview, Reviewed
<1>2. AfterReview(s, r) \in CompactStates
  BY <1>1, PayloadTypes, OperationTypes DEF AfterReview, Begun
<1>3. AfterFix(s, r, e, tree) \in CompactStates
  <2>1. CASE Escalates(s, e)
    <3>1. ~Corrects(s, r, e)
      BY <2>1 DEF Corrects
    <3>2. Corrected(s, r, e, tree) = EscalateCorrectionVerification(s, e)
      BY <2>1, <3>1 DEF Corrected
    <3>3. QED
      BY <1>2, <3>2, OperationTypes DEF AfterFix
  <2>2. CASE ~Escalates(s, e) /\ Corrects(s, r, e)
    <3>1. tree \in Fixes
      BY <2>2 DEF CanPlan, CanCompleteCorrectionVerification
    <3>2. Corrected(s, r, e, tree) = CompleteCorrectionVerification(s, tree, e)
      BY <2>2 DEF Corrected
    <3>3. QED
      BY <1>2, <3>1, <3>2, OperationTypes DEF AfterFix
  <2>3. CASE ~Escalates(s, e) /\ ~Corrects(s, r, e)
    <3>1. Corrected(s, r, e, tree) = s
      BY <2>3 DEF Corrected
    <3>2. QED
      BY <1>2, <3>1 DEF AfterFix
  <2>4. QED
    BY <2>1, <2>2, <2>3
<1>4. AfterAll(s, r, e, tree) \in CompactStates
  BY <1>3, OperationTypes DEF AfterAll, Verified
<1>5. QED
  BY <1>1, <1>2, <1>3, <1>4

(* A plan is a sequence of transitions between states of the lineage. *)
LEMMA PlanType ==
    ASSUME NEW s \in CompactStates, NEW r \in Requests, NEW e \in Evidence,
           NEW tree \in Candidates, CanPlan(s, r, e, tree)
    PROVE  Plan(s, r, e, tree) \in Seq(Transitions)
<1> DEFINE A == Step("review/complete-review", s, Reviewed(s, r))
           B == Step("review/begin-fix", Reviewed(s, r), AfterReview(s, r))
           C == Step(CorrectionOperation(s, e), AfterReview(s, r), AfterFix(s, r, e, tree))
           D == Step("review/complete-verification", AfterFix(s, r, e, tree),
                     AfterAll(s, r, e, tree))
<1>1. /\ A \in Seq(Transitions)
      /\ B \in Seq(Transitions)
      /\ C \in Seq(Transitions)
      /\ D \in Seq(Transitions)
  BY PlannedStateTypes, StepType DEF CorrectionOperation, Operations
<1> HIDE DEF A, B, C, D
<1>2. A \o B \o C \o D \in Seq(Transitions)
  BY <1>1, ConcatProperties
<1>3. QED
  BY <1>2 DEF Plan, A, B, C, D

(* Evidence is captured for, and read from, targets only. *)
LEMMA EvidenceTargetsType ==
    ASSUME StoreTypeOK, NEW s \in CompactStates
    PROVE  EvidenceTargets(s) \subseteq Targets
BY DEF StoreTypeOK, EvidenceTargets, CompactStates, Targets

LEMMA InputEvidenceType ==
    ASSUME StoreTypeOK, NEW s \in CompactStates, NEW r \in Requests,
           NEW e \in InputEvidence(s, r)
    PROVE  e \in Evidence
<1>1. \A c \in Targets : captured[c].record \in Evidence
  BY DEF StoreTypeOK
<1>2. s.current \in Targets
  BY DEF CompactStates
<1>3. CASE r.evidence \in {"passed", "failed"}
  BY <1>3, EvidenceTypes DEF InputEvidence, Outcomes
<1>4. CASE r.evidence = "captured"
  BY <1>1, <1>4, EvidenceTargetsType DEF InputEvidence
<1>5. CASE r.evidence = "none"
  BY <1>1, <1>2, <1>5, NoEvidenceIsEvidence DEF InputEvidence
<1>6. QED
  BY <1>3, <1>4, <1>5, PayloadTypes

LEMMA PlanCandidateType ==
    ASSUME NEW s \in CompactStates, NEW r, NEW e, NEW tree \in Candidates
    PROVE  PlanCandidate(s, r, e, tree) \in Candidates
BY DEF PlanCandidate, CompactStates, Candidates, Targets

-----------------------------------------------------------------------------
(* Type correctness: the steps of a finalizer *)

LEMMA IdleTypes ==
    /\ Idle \in CompactStates
    /\ EmptyPayload \in Requests
    /\ NoEntry \in [pending : BOOLEAN, index : Nat]
    /\ <<>> \in Seq(Transitions)
<1>1. Idle \in CompactStates
  BY NewCompactStateType DEF Idle, MaxCompactCorrectionAttempts
<1>2. EmptyPayload \in Requests
  BY FinalizeAssumption
<1>3. NoEntry \in [pending : BOOLEAN, index : Nat]
  BY DEF NoEntry
<1>4. QED
  BY <1>1, <1>2, <1>3, EmptySeq

(* Returning leaves a finalizer in its initial, well-typed, local state. *)
LEMMA LeaveType ==
    ASSUME TypeInv, NEW p \in Finalizers, NEW how \in {"idle", "lost"},
           NEW r \in FinalizeRequests \cup {NoRequest}, Leave(p, how, r)
    PROVE  FinalizerTypeOK' /\ PlanInProgress'
<1>1. FinalizerTypeOK'
  BY IdleTypes, NoEvidenceIsEvidence DEF TypeInv, TypeOK, FinalizerTypeOK, Leave, Labels
<1>2. PlanInProgress'
  BY DEF TypeInv, TypeOK, FinalizerTypeOK, PlanInProgress, Leave
<1>3. QED
  BY <1>1, <1>2

LEMMA ReturnType ==
    ASSUME TypeInv, NEW p \in Finalizers, Return(p)
    PROVE  FinalizerTypeOK' /\ PlanInProgress'
BY LeaveType DEF Return

LEMMA LoadType ==
    ASSUME TypeInv, NEW p \in Finalizers, NEW r \in Requests, Load(p, r)
    PROVE  TypeInv'
<1>1. FinalizerTypeOK'
  BY DEF TypeInv, TypeOK, StoreTypeOK, FinalizerTypeOK, Load, Goto, Labels
<1>2. PlanInProgress'
  BY DEF TypeInv, TypeOK, FinalizerTypeOK, PlanInProgress, Load, Goto
<1>3. QED
  BY <1>1, <1>2 DEF TypeInv, TypeOK, StoreTypeOK, Load, store

LEMMA InspectType ==
    ASSUME TypeInv, NEW p \in Finalizers, Inspect(p)
    PROVE  TypeInv'
<1>1. CASE Return(p)
  BY <1>1, ReturnType DEF TypeInv, TypeOK, StoreTypeOK, Inspect, store
<1>2. CASE ~Return(p)
  <2>1. PICK label \in {"complete", "publish", "reconcile"}, q \in FinalizeRequests :
          /\ Goto(p, label)
          /\ request' = [request EXCEPT ![p] = q]
          /\ UNCHANGED <<payload, seen, inputs, entry, plan, done>>
    <3>1. CASE Incomplete(journal) # {}
      <4>1. journal[Pending(journal)].request \in FinalizeRequests
        BY <3>1, PendingIsIncomplete, AttemptFields DEF TypeInv, TypeOK, StoreTypeOK, Incomplete
      <4>2. QED
        BY <1>2, <3>1, <4>1 DEF Inspect
    <3>2. CASE Incomplete(journal) = {}
      <4>1. Request(seen[p], seen[p].current, payload[p], NoEvidence) \in FinalizeRequests
        BY RequestType, NoEvidenceIsEvidence
           DEF TypeInv, TypeOK, FinalizerTypeOK, CompactStates, Candidates, Targets
      <4>2. QED
        BY <1>2, <3>2, <4>1 DEF Inspect
    <3>3. QED
      BY <3>1, <3>2
  <2>2. FinalizerTypeOK'
    BY <2>1 DEF TypeInv, TypeOK, FinalizerTypeOK, Goto, Labels
  <2>3. PlanInProgress'
    BY <2>1 DEF TypeInv, TypeOK, FinalizerTypeOK, PlanInProgress, Goto, Inspect
  <2>4. QED
    BY <2>2, <2>3 DEF TypeInv, TypeOK, StoreTypeOK, Inspect, store
<1>3. QED
  BY <1>1, <1>2

LEMMA EnterType ==
    ASSUME TypeInv, NEW p \in Finalizers, Enter(p)
    PROVE  TypeInv'
<1>1. CASE Return(p)
  BY <1>1, ReturnType DEF TypeInv, TypeOK, StoreTypeOK, Enter, store
<1>2. CASE ~Return(p)
  <2>1. PICK label \in {"reconcile", "prepare"}, q \in FinalizeRequests \cup {NoRequest},
             e \in Evidence, n \in Nat, b \in BOOLEAN :
          /\ Goto(p, label)
          /\ inputs' = [inputs EXCEPT ![p] = e]
          /\ entry' = [entry EXCEPT ![p] = [pending |-> b, index |-> n]]
          /\ request' = [request EXCEPT ![p] = q]
          /\ label = "reconcile" => q \in FinalizeRequests
          /\ UNCHANGED <<payload, seen, plan, done>>
    <3> DEFINE pending == Incomplete(journal) # {}
               index == IF pending THEN TransitionIndex(journal[Pending(journal)], seen[p]) ELSE 0
    <3>1. index \in Nat
      <4>1. CASE pending
        <5>1. journal[Pending(journal)] \in FinalizeAttempts
          BY <4>1, PendingIsIncomplete, AttemptFields DEF TypeInv, TypeOK, StoreTypeOK, Incomplete
        <5>2. QED
          BY <4>1, <5>1, TransitionIndexType
      <4>2. CASE ~pending
        BY <4>2
      <4>3. QED
        BY <4>1, <4>2
    <3>2. PICK e \in InputEvidence(seen[p], payload[p]) :
              /\ inputs' = [inputs EXCEPT ![p] = e]
              /\ entry' = [entry EXCEPT ![p] = [pending |-> pending, index |-> index]]
              /\ IF index > 0
                 THEN /\ Goto(p, "reconcile")
                      /\ request' = [request EXCEPT ![p] =
                                        Request(seen[p], seen[p].current, payload[p], e)]
                 ELSE /\ Goto(p, "prepare")
                      /\ UNCHANGED request
              /\ UNCHANGED <<payload, seen, plan, done>>
      BY <1>2 DEF Enter
    <3> HIDE DEF index
    <3>3. e \in Evidence
      BY <3>2, InputEvidenceType DEF TypeInv, TypeOK, FinalizerTypeOK
    <3>4. Request(seen[p], seen[p].current, payload[p], e) \in FinalizeRequests
      BY <3>3, RequestType
         DEF TypeInv, TypeOK, FinalizerTypeOK, CompactStates, Candidates, Targets
    <3>5. CASE index > 0
      BY <3>1, <3>2, <3>3, <3>4, <3>5
    <3>6. CASE ~(index > 0)
      <4>1. request' = [request EXCEPT ![p] = request[p]]
        BY <3>2, <3>6 DEF TypeInv, TypeOK, FinalizerTypeOK
      <4>2. request[p] \in FinalizeRequests \cup {NoRequest}
        BY DEF TypeInv, TypeOK, FinalizerTypeOK
      <4>3. QED
        BY <3>1, <3>2, <3>3, <3>6, <4>1, <4>2
    <3>7. QED
      BY <3>5, <3>6
  <2>2. FinalizerTypeOK'
    BY <2>1 DEF TypeInv, TypeOK, FinalizerTypeOK, Goto, Labels
  <2>3. PlanInProgress'
    BY <2>1 DEF TypeInv, TypeOK, FinalizerTypeOK, PlanInProgress, Goto, Enter
  <2>4. QED
    BY <2>2, <2>3 DEF TypeInv, TypeOK, StoreTypeOK, Enter, store
<1>3. QED
  BY <1>1, <1>2

LEMMA PrepareType ==
    ASSUME TypeInv, NEW p \in Finalizers, Prepare(p)
    PROVE  TypeInv'
<1>1. CASE Return(p)
  BY <1>1, ReturnType DEF TypeInv, TypeOK, StoreTypeOK, Prepare, store
<1>2. CASE ~Return(p)
  <2> DEFINE s == seen[p]
             r == payload[p]
             e == inputs[p]
             steps == Plan(s, r, e, live)
  <2>1. /\ s \in CompactStates /\ r \in Requests /\ e \in Evidence
        /\ live \in Candidates /\ done[p] = 0
    BY DEF TypeInv, TypeOK, StoreTypeOK, FinalizerTypeOK, PlanInProgress, Prepare
  <2>2. /\ CanPlan(s, r, e, live)
        /\ plan' = [plan EXCEPT ![p] = steps]
        /\ UNCHANGED <<payload, seen, inputs, entry, done, store, capture, gate, aborts>>
    BY <1>2 DEF Prepare
  <2>3. steps \in Seq(Transitions)
    BY <2>1, <2>2, PlanType
  <2>4. Request(s, PlanCandidate(s, r, e, live), r, e) \in FinalizeRequests
    BY <2>1, PlanCandidateType, RequestType
  <2>5. PICK label \in {"complete", "ahead", "reconcile"} :
          /\ Goto(p, label)
          /\ label = "ahead" => steps # <<>>
    BY <1>2 DEF Prepare
  <2>6. PICK q \in FinalizeRequests \cup {NoRequest} :
          /\ request' = [request EXCEPT ![p] = q]
          /\ label = "reconcile" => q \in FinalizeRequests
    <3>1. CASE request[p] # NoRequest
      <4>1. /\ request' = [request EXCEPT ![p] = request[p]]
            /\ request[p] \in FinalizeRequests
        BY <1>2, <3>1 DEF Prepare, TypeInv, TypeOK, FinalizerTypeOK
      <4>2. QED
        BY <4>1
    <3>2. CASE request[p] = NoRequest
      BY <1>2, <2>4, <3>2 DEF Prepare
    <3>3. QED
      BY <3>1, <3>2
  <2> HIDE DEF steps
  <2>7. FinalizerTypeOK'
    BY <2>2, <2>3, <2>5, <2>6 DEF TypeInv, TypeOK, FinalizerTypeOK, Goto, Labels
  <2>8. PlanInProgress'
    <3>1. label = "ahead" => 0 < Len(steps)
      BY <2>3, <2>5
    <3>2. QED
      BY <2>1, <2>2, <2>3, <2>5, <2>6, <3>1
         DEF TypeInv, TypeOK, FinalizerTypeOK, PlanInProgress, Goto
  <2>9. QED
    BY <2>2, <2>7, <2>8 DEF TypeInv, TypeOK, StoreTypeOK, store
<1>3. QED
  BY <1>1, <1>2

(* A journal whose attempts are rewritten one by one stays a journal. *)
LEMMA JournalUpdate ==
    ASSUME NEW j \in Seq(FinalizeAttempts), NEW k,
           k = [i \in DOMAIN j |-> k[i]],
           \A i \in DOMAIN j : k[i] \in FinalizeAttempts
    PROVE  k \in Seq(FinalizeAttempts) /\ Len(k) = Len(j) /\ DOMAIN k = DOMAIN j
<1>1. k \in [1 .. Len(j) -> FinalizeAttempts] /\ Len(j) \in Nat
  OBVIOUS
<1>2. k \in Seq(FinalizeAttempts)
  BY <1>1, SeqDef
<1>3. QED
  BY <1>1, <1>2

LEMMA ReconcileType ==
    ASSUME TypeInv, NEW p \in Finalizers, Reconcile(p)
    PROVE  TypeInv'
<1>1. pc[p] = "reconcile" /\ done[p] = 0
  BY DEF TypeInv, PlanInProgress, Reconcile
<1>2. \A attempt :
         /\ AfterReconcile(p, attempt) \in {"publish", "complete", "prepare", "ahead"}
         /\ AfterReconcile(p, attempt) = "ahead" => plan[p] # <<>>
  BY DEF AfterReconcile
<1>3. ASSUME NEW i \in Adopted(journal, request[p], authority),
             Goto(p, AfterReconcile(p, journal[i])),
             request' = [request EXCEPT ![p] = journal[i].request],
             UNCHANGED <<journal, payload, seen, inputs, entry, plan, done>>
      PROVE  TypeInv'
  <2>1. i \in DOMAIN journal
    BY DEF Adopted, Met
  <2>2. journal[i].request \in FinalizeRequests
    BY <2>1, AttemptFields DEF TypeInv, TypeOK, StoreTypeOK
  <2>3. FinalizerTypeOK'
    BY <1>2, <1>3, <2>2 DEF TypeInv, TypeOK, FinalizerTypeOK, Goto, Labels
  <2>4. PlanInProgress'
    <3>1. PICK label \in {"publish", "complete", "prepare", "ahead"} :
            Goto(p, label) /\ (label = "ahead" => plan[p] # <<>>)
      BY <1>2, <1>3
    <3>2. plan[p] # <<>> => 0 < Len(plan[p])
      BY DEF TypeInv, TypeOK, FinalizerTypeOK
    <3>3. QED
      BY <1>1, <1>3, <2>2, <3>1, <3>2
         DEF TypeInv, TypeOK, FinalizerTypeOK, PlanInProgress, Goto
  <2>5. QED
    BY <1>3, <2>3, <2>4 DEF TypeInv, TypeOK, StoreTypeOK, Reconcile
<1>4. ASSUME Met(journal, request[p]) = {},
             journal' = Append(journal, NewAttempt(request[p])),
             Goto(p, AfterReconcile(p, NewAttempt(request[p]))),
             UNCHANGED <<payload, seen, inputs, entry, request, plan, done>>
      PROVE  TypeInv'
  <2>1. request[p] \in FinalizeRequests
    BY <1>1 DEF TypeInv, PlanInProgress
  <2>2. journal' \in Seq(FinalizeAttempts)
    BY <1>4, <2>1, NewAttemptType, AppendProperties DEF TypeInv, TypeOK, StoreTypeOK
  <2>3. FinalizerTypeOK'
    BY <1>2, <1>4 DEF TypeInv, TypeOK, FinalizerTypeOK, Goto, Labels
  <2>4. PlanInProgress'
    <3>1. PICK label \in {"publish", "complete", "prepare", "ahead"} :
            Goto(p, label) /\ (label = "ahead" => plan[p] # <<>>)
      BY <1>2, <1>4
    <3>2. plan[p] # <<>> => 0 < Len(plan[p])
      BY DEF TypeInv, TypeOK, FinalizerTypeOK
    <3>3. QED
      BY <1>1, <1>4, <3>1, <3>2
         DEF TypeInv, TypeOK, FinalizerTypeOK, PlanInProgress, Goto
  <2>5. QED
    BY <2>2, <2>3, <2>4 DEF TypeInv, TypeOK, StoreTypeOK, Reconcile
<1>5. ASSUME Return(p), UNCHANGED journal
      PROVE  TypeInv'
  BY <1>5, ReturnType DEF TypeInv, TypeOK, StoreTypeOK, Reconcile
<1>6. QED
  BY <1>3, <1>4, <1>5 DEF Reconcile

(* The transition a finalizer is about to journal or commit. *)
LEMMA NextTransitionType ==
    ASSUME TypeInv, NEW p \in Finalizers, pc[p] \in {"ahead", "commit"}
    PROVE  /\ done[p] + 1 \in 1 .. Len(plan[p])
           /\ plan[p][done[p] + 1] \in Transitions
<1>1. plan[p] \in Seq(Transitions) /\ done[p] \in Nat /\ done[p] < Len(plan[p])
  BY DEF TypeInv, TypeOK, FinalizerTypeOK, PlanInProgress
<1>2. done[p] + 1 \in 1 .. Len(plan[p])
  BY <1>1
<1>3. QED
  BY <1>1, <1>2, ElementOfSeq

LEMMA WriteAheadType ==
    ASSUME TypeInv, NEW p \in Finalizers, WriteAhead(p)
    PROVE  TypeInv'
<1> DEFINE t == plan[p][done[p] + 1]
           last == done[p] + 1 = Len(plan[p])
<1>1. /\ t \in Transitions /\ done[p] + 1 \in 1 .. Len(plan[p])
      /\ done[p] \in Nat /\ Len(plan[p]) \in Nat
  BY NextTransitionType DEF WriteAhead, TypeInv, TypeOK, FinalizerTypeOK
<1>2. /\ journal' = [i \in DOMAIN journal |-> IF journal[i].request = request[p]
                                              THEN Planned(journal[i], t) ELSE journal[i]]
      /\ Goto(p, IF last THEN "commit" ELSE "ahead")
      /\ done' = [done EXCEPT ![p] = IF last THEN 0 ELSE done[p] + 1]
      /\ UNCHANGED <<authority, receipt, captured, live, revoking, payload, seen, inputs,
                     entry, request, plan, capture, gate, aborts>>
  BY DEF WriteAhead
<1> HIDE DEF t
<1>3. journal' \in Seq(FinalizeAttempts)
  <2>1. \A i \in DOMAIN journal : journal'[i] \in FinalizeAttempts
    BY <1>1, <1>2, AttemptFields, PlannedType DEF TypeInv, TypeOK, StoreTypeOK
  <2>2. QED
    BY <1>2, <2>1, JournalUpdate DEF TypeInv, TypeOK, StoreTypeOK
<1>4. FinalizerTypeOK'
  BY <1>1, <1>2 DEF TypeInv, TypeOK, FinalizerTypeOK, Goto, Labels
<1>5. PlanInProgress'
  BY <1>1, <1>2 DEF TypeInv, TypeOK, FinalizerTypeOK, PlanInProgress, Goto
<1>6. QED
  BY <1>2, <1>3, <1>4, <1>5 DEF TypeInv, TypeOK, StoreTypeOK

LEMMA CommitType ==
    ASSUME TypeInv, NEW p \in Finalizers, Commit(p)
    PROVE  TypeInv'
<1> DEFINE t == plan[p][done[p] + 1]
<1>1. /\ t \in Transitions /\ done[p] + 1 \in 1 .. Len(plan[p])
      /\ done[p] \in Nat /\ Len(plan[p]) \in Nat
  BY NextTransitionType DEF Commit, TypeInv, TypeOK, FinalizerTypeOK
<1>2. UNCHANGED <<journal, receipt, captured, live, revoking, capture, gate, aborts>>
  BY DEF Commit
<1>3. ASSUME authority' = t.next,
             seen' = [seen EXCEPT ![p] = t.next],
             done' = [done EXCEPT ![p] = done[p] + 1],
             Goto(p, AfterCommit(p, t.next)),
             UNCHANGED <<payload, inputs, entry, request, plan>>
      PROVE  TypeInv'
  <2> HIDE DEF t
  <2>1. t.next \in CompactStates
    BY <1>1 DEF Transitions
  <2>2. /\ AfterCommit(p, t.next) \in {"commit", "publish", "complete"}
        /\ AfterCommit(p, t.next) = "commit" => done[p] + 1 < Len(plan[p])
    BY DEF AfterCommit
  <2>3. FinalizerTypeOK'
    BY <1>1, <1>3, <2>1, <2>2 DEF TypeInv, TypeOK, FinalizerTypeOK, Goto, Labels
  <2>4. PlanInProgress'
    BY <1>1, <1>3, <2>2 DEF TypeInv, TypeOK, FinalizerTypeOK, PlanInProgress, Goto
  <2>5. QED
    BY <1>2, <1>3, <2>1, <2>3, <2>4 DEF TypeInv, TypeOK, StoreTypeOK
<1>4. ASSUME Leave(p, "lost", request[p]), UNCHANGED authority
      PROVE  TypeInv'
  <2>1. request[p] \in FinalizeRequests \cup {NoRequest}
    BY DEF TypeInv, TypeOK, FinalizerTypeOK
  <2>2. QED
    BY <1>2, <1>4, <2>1, LeaveType DEF TypeInv, TypeOK, StoreTypeOK
<1>5. ASSUME Return(p), UNCHANGED authority
      PROVE  TypeInv'
  BY <1>2, <1>5, ReturnType DEF TypeInv, TypeOK, StoreTypeOK
<1>6. QED
  BY <1>3, <1>4, <1>5 DEF Commit

LEMMA PublishType ==
    ASSUME TypeInv, NEW p \in Finalizers, Publish(p)
    PROVE  TypeInv'
<1>1. UNCHANGED <<authority, journal, captured, live, revoking, capture, gate, aborts>>
  BY DEF Publish
<1>2. ASSUME receipt' = ReceiptOf(seen[p]), Goto(p, "confirm"),
             UNCHANGED <<payload, seen, inputs, entry, request, plan, done>>
      PROVE  TypeInv'
  <2>1. receipt' \in Receipts
    BY <1>2, ReceiptType DEF TypeInv, TypeOK, FinalizerTypeOK
  <2>2. FinalizerTypeOK' /\ PlanInProgress'
    BY <1>2 DEF TypeInv, TypeOK, FinalizerTypeOK, PlanInProgress, Goto, Labels
  <2>3. QED
    BY <1>1, <2>1, <2>2 DEF TypeInv, TypeOK, StoreTypeOK
<1>3. ASSUME Return(p), UNCHANGED receipt
      PROVE  TypeInv'
  BY <1>1, <1>3, ReturnType DEF TypeInv, TypeOK, StoreTypeOK
<1>4. QED
  BY <1>2, <1>3 DEF Publish

LEMMA ConfirmType ==
    ASSUME TypeInv, NEW p \in Finalizers, Confirm(p)
    PROVE  TypeInv'
<1>1. ASSUME Goto(p, "mark"), UNCHANGED <<payload, seen, inputs, entry, request, plan, done>>
      PROVE  FinalizerTypeOK' /\ PlanInProgress'
  BY <1>1 DEF TypeInv, TypeOK, FinalizerTypeOK, PlanInProgress, Goto, Labels
<1>2. FinalizerTypeOK' /\ PlanInProgress'
  BY <1>1, ReturnType DEF Confirm
<1>3. QED
  BY <1>2 DEF TypeInv, TypeOK, StoreTypeOK, Confirm, store

LEMMA MarkPublishedType ==
    ASSUME TypeInv, NEW p \in Finalizers, MarkPublished(p)
    PROVE  TypeInv'
<1>1. journal' \in Seq(FinalizeAttempts)
  <2>1. journal' = [i \in DOMAIN journal |-> IF journal[i].request = request[p]
                     THEN [journal[i] EXCEPT !.published = TRUE] ELSE journal[i]]
    BY DEF MarkPublished
  <2>2. ASSUME NEW i \in DOMAIN journal
        PROVE  journal'[i] \in FinalizeAttempts
    <3>1. journal[i] \in FinalizeAttempts
      BY AttemptFields DEF TypeInv, TypeOK, StoreTypeOK
    <3>2. [journal[i] EXCEPT !.published = TRUE] \in FinalizeAttempts
      BY <3>1 DEF FinalizeAttempts
    <3>3. QED
      BY <2>1, <3>1, <3>2
  <2>3. QED
    BY <2>1, <2>2, JournalUpdate DEF TypeInv, TypeOK, StoreTypeOK
<1>2. FinalizerTypeOK' /\ PlanInProgress'
  BY DEF MarkPublished, TypeInv, TypeOK, FinalizerTypeOK, PlanInProgress, Goto, Labels
<1>3. QED
  BY <1>1, <1>2 DEF TypeInv, TypeOK, StoreTypeOK, MarkPublished

LEMMA CompleteType ==
    ASSUME TypeInv, NEW p \in Finalizers, Complete(p)
    PROVE  TypeInv'
<1>1. journal' \in Seq(FinalizeAttempts)
  <2>1. journal' = [i \in DOMAIN journal |-> IF journal[i].request = request[p]
                     THEN [journal[i] EXCEPT !.completed = TRUE] ELSE journal[i]]
    BY DEF Complete
  <2>2. ASSUME NEW i \in DOMAIN journal
        PROVE  journal'[i] \in FinalizeAttempts
    <3>1. journal[i] \in FinalizeAttempts
      BY AttemptFields DEF TypeInv, TypeOK, StoreTypeOK
    <3>2. [journal[i] EXCEPT !.completed = TRUE] \in FinalizeAttempts
      BY <3>1 DEF FinalizeAttempts
    <3>3. QED
      BY <2>1, <3>1, <3>2
  <2>3. QED
    BY <2>1, <2>2, JournalUpdate DEF TypeInv, TypeOK, StoreTypeOK
<1>2. FinalizerTypeOK' /\ PlanInProgress'
  BY ReturnType DEF Complete
<1>3. QED
  BY <1>1, <1>2 DEF TypeInv, TypeOK, StoreTypeOK, Complete

LEMMA AbortType ==
    ASSUME TypeInv, NEW p \in Finalizers, Abort(p)
    PROVE  TypeInv'
<1>1. FinalizerTypeOK' /\ PlanInProgress'
  BY ReturnType DEF Abort
<1>2. aborts' \in 0 .. MaxAborts
  BY FinalizeAssumption DEF Abort, TypeInv, TypeOK
<1>3. QED
  BY <1>1, <1>2 DEF TypeInv, TypeOK, StoreTypeOK, Abort, store

LEMMA FinalizeType ==
    ASSUME TypeInv, NEW p \in Finalizers, Finalize(p)
    PROVE  TypeInv'
BY LoadType, InspectType, EnterType, PrepareType, ReconcileType, WriteAheadType, CommitType,
   PublishType, ConfirmType, MarkPublishedType, CompleteType, AbortType DEF Finalize, Run

-----------------------------------------------------------------------------
(* Type correctness: the other operations *)

LEMMA CaptureType ==
    ASSUME TypeInv, Capture
    PROVE  TypeInv'
<1> USE DEF TypeInv, TypeOK, StoreTypeOK
<1>1. NoCapture \in [pc : {"idle", "payload", "record"},
                     target : Targets \cup {NoCandidate}, record : Evidence]
  BY NoEvidenceIsEvidence DEF NoCapture
<1>2. ASSUME NEW o \in Outcomes, BeginCapture(o)
      PROVE  TypeInv'
  <2>1. PICK c \in EvidenceTargets(authority) :
            capture' = [pc |-> "payload", target |-> c,
                        record |-> [outcome |-> o, target |-> c,
                                    authority |-> Revision(authority)]]
    BY <1>2 DEF BeginCapture
  <2>2. c \in Targets
    BY EvidenceTargetsType
  <2>3. [outcome |-> o, target |-> c, authority |-> Revision(authority)] \in Evidence
    BY <2>2, EvidenceTypes DEF Evidence
  <2>4. FinalizerTypeOK' /\ PlanInProgress'
    BY <1>2 DEF BeginCapture, fins, FinalizerTypeOK, PlanInProgress
  <2>5. QED
    BY <1>2, <2>1, <2>2, <2>3, <2>4 DEF BeginCapture, store
<1>3. ASSUME CapturePayload \/ CaptureRecord \/ AbortCapture
      PROVE  FinalizerTypeOK' /\ PlanInProgress'
  BY <1>3 DEF CapturePayload, CaptureRecord, AbortCapture, fins, FinalizerTypeOK, PlanInProgress
<1>4. ASSUME CapturePayload
      PROVE  TypeInv'
  <2>1. captured' \in [Targets -> [payload : Outcomes \cup {"none"}, record : Evidence]]
    BY <1>4 DEF CapturePayload, Evidence
  <2>2. capture' \in [pc : {"idle", "payload", "record"},
                      target : Targets \cup {NoCandidate}, record : Evidence]
    BY <1>1, <1>4 DEF CapturePayload
  <2>3. QED
    BY <1>3, <1>4, <2>1, <2>2 DEF CapturePayload
<1>5. ASSUME CaptureRecord
      PROVE  TypeInv'
  <2>1. captured' \in [Targets -> [payload : Outcomes \cup {"none"}, record : Evidence]]
    BY <1>5 DEF CaptureRecord
  <2>2. QED
    BY <1>1, <1>3, <1>5, <2>1 DEF CaptureRecord
<1>6. ASSUME AbortCapture
      PROVE  TypeInv'
  BY <1>1, <1>3, <1>6, FinalizeAssumption DEF AbortCapture, store
<1>7. QED
  BY <1>2, <1>4, <1>5, <1>6 DEF Capture

LEMMA MaintainType ==
    ASSUME TypeInv, Maintain
    PROVE  TypeInv'
<1>1. authority' \in CompactStates
  BY MaintenanceTypes
     DEF Maintain, ReopenResults, DisposeResult, InvalidatePristine, Replace, TypeInv, TypeOK,
         StoreTypeOK
<1>2. UNCHANGED <<journal, receipt, captured, live, revoking, fins, capture, gate, aborts>>
  BY DEF Maintain, ReopenResults, DisposeResult, InvalidatePristine, Replace
<1>3. FinalizerTypeOK' /\ PlanInProgress'
  BY <1>2 DEF TypeInv, TypeOK, FinalizerTypeOK, PlanInProgress, fins
<1>4. QED
  BY <1>1, <1>2, <1>3 DEF TypeInv, TypeOK, StoreTypeOK

LEMMA RevocationType ==
    ASSUME TypeInv, Revocation
    PROVE  TypeInv'
<1>1. FinalizerTypeOK' /\ PlanInProgress'
  BY DEF Revocation, Revoke, RemoveReceipt, AbortRevoke, ReplayRevoke, TypeInv, TypeOK,
         FinalizerTypeOK, PlanInProgress, fins
<1>2. CASE Revoke
  BY <1>1, <1>2, MaintenanceTypes DEF Revoke, TypeInv, TypeOK, StoreTypeOK
<1>3. CASE RemoveReceipt
  BY <1>1, <1>3 DEF RemoveReceipt, TypeInv, TypeOK, StoreTypeOK
<1>4. CASE AbortRevoke
  <2>1. aborts' \in 0 .. MaxAborts
    BY <1>4, FinalizeAssumption DEF AbortRevoke, TypeInv, TypeOK
  <2>2. QED
    BY <1>1, <1>4, <2>1 DEF AbortRevoke, TypeInv, TypeOK, StoreTypeOK
<1>5. CASE ReplayRevoke
  BY <1>1, <1>5 DEF ReplayRevoke, TypeInv, TypeOK, StoreTypeOK
<1>6. QED
  BY <1>2, <1>3, <1>4, <1>5 DEF Revocation

LEMMA DeliverType ==
    ASSUME TypeInv, Deliver
    PROVE  TypeInv'
<1>1. FinalizerTypeOK' /\ PlanInProgress'
  BY DEF Deliver, GateEvaluate, GateAllow, GateDeny, TypeInv, TypeOK, FinalizerTypeOK,
         PlanInProgress, fins
<1>2. gate' \in [pc : {"idle", "evaluated"}, seen : CompactStates]
  BY IdleTypes DEF Deliver, GateEvaluate, GateAllow, GateDeny, NoGate, TypeInv, TypeOK,
                   StoreTypeOK
<1>3. QED
  BY <1>1, <1>2 DEF Deliver, GateEvaluate, GateAllow, GateDeny, TypeInv, TypeOK, StoreTypeOK,
                    store

LEMMA EditType ==
    ASSUME TypeInv, NEW c \in Candidates, Edit(c)
    PROVE  TypeInv'
<1>1. FinalizerTypeOK' /\ PlanInProgress'
  BY DEF Edit, TypeInv, TypeOK, FinalizerTypeOK, PlanInProgress, fins
<1>2. QED
  BY <1>1 DEF Edit, TypeInv, TypeOK, StoreTypeOK

LEMMA StutterType ==
    ASSUME TypeInv, UNCHANGED vars
    PROVE  TypeInv'
BY DEF vars, store, fins, TypeInv, TypeOK, StoreTypeOK, FinalizerTypeOK, PlanInProgress

LEMMA InitType == Init => TypeInv
<1> SUFFICES ASSUME Init PROVE TypeInv
  OBVIOUS
<1> USE DEF Init
<1>1. StoreTypeOK
  <2>1. EmptySlot \in [payload : Outcomes \cup {"none"}, record : Evidence]
    BY NoEvidenceIsEvidence DEF EmptySlot
  <2>2. authority \in CompactStates
    BY NewCompactStateType
  <2>3. QED
    BY <2>1, <2>2, EmptySeq DEF StoreTypeOK, Candidates
<1>2. FinalizerTypeOK
  BY IdleTypes, NoEvidenceIsEvidence DEF FinalizerTypeOK, Labels
<1>3. PlanInProgress
  BY DEF PlanInProgress
<1>4. capture \in [pc : {"idle", "payload", "record"},
                   target : Targets \cup {NoCandidate}, record : Evidence]
  BY NoEvidenceIsEvidence DEF NoCapture
<1>5. gate \in [pc : {"idle", "evaluated"}, seen : CompactStates]
  BY IdleTypes DEF NoGate
<1>6. aborts \in 0 .. MaxAborts
  BY FinalizeAssumption
<1>7. QED
  BY <1>1, <1>2, <1>3, <1>4, <1>5, <1>6 DEF TypeInv, TypeOK

LEMMA NextType == TypeInv /\ [Next]_vars => TypeInv'
BY FinalizeType, CaptureType, MaintainType, RevocationType, DeliverType, EditType, StutterType
   DEF Next

(* Whatever requests, crashes, captures and edits come in whatever order,  *)
(* every variable keeps its type, and a finalizer that journals or commits *)
(* always has a planned transition to journal or commit.                   *)
THEOREM TypeCorrect == Spec => [](TypeOK /\ PlanInProgress)
<1>1. Spec => []TypeInv
  BY InitType, NextType, PTL DEF Spec
<1>2. TypeInv <=> TypeOK /\ PlanInProgress
  BY DEF TypeInv
<1>3. QED
  BY <1>1, <1>2, PTL

-----------------------------------------------------------------------------
(* III.  Safety *)

(* The journal keeps one unresolved attempt, the receipt stays bound to    *)
(* the committed decision, the gate's answer is sound, and the lineage     *)
(* implements ReviewAuthority.                                             *)

(* Type correctness as a state invariant of the specification.             *)
LEMMA TypeInvariant == Spec => []TypeInv
BY InitType, NextType, PTL DEF Spec

-----------------------------------------------------------------------------
(* One unresolved attempt *)

(* The journal is written by four steps of a finalizer and by nothing else. *)
LEMMA JournalWriters ==
    ASSUME [Next]_vars
    PROVE  \/ UNCHANGED journal
           \/ \E p \in Finalizers :
                 Reconcile(p) \/ WriteAhead(p) \/ MarkPublished(p) \/ Complete(p)
<1>1. ASSUME NEW p \in Finalizers,
             (\E r \in Requests : Load(p, r)) \/ Inspect(p) \/ Enter(p) \/ Prepare(p)
             \/ Commit(p) \/ Publish(p) \/ Confirm(p) \/ Abort(p)
      PROVE  UNCHANGED journal
  BY <1>1 DEF Load, Inspect, Enter, Prepare, Commit, Publish, Confirm, Abort, store
<1>2. ASSUME Capture \/ Maintain \/ Revocation \/ Deliver \/ (\E c \in Candidates : Edit(c))
             \/ UNCHANGED vars
      PROVE  UNCHANGED journal
  BY <1>2 DEF Capture, BeginCapture, CapturePayload, CaptureRecord, AbortCapture, Maintain,
              ReopenResults, DisposeResult, InvalidatePristine, Replace, Revocation, Revoke,
              RemoveReceipt, AbortRevoke, ReplayRevoke, Deliver, GateEvaluate, GateAllow,
              GateDeny, Edit, store, vars
<1>3. QED
  BY <1>1, <1>2 DEF Next, Finalize, Run

(* Rewriting the attempts of a journal, completing some and reopening none, *)
(* leaves no more unresolved attempts than before.                          *)
LEMMA IncompleteShrinks ==
    ASSUME NEW j, NEW k, DOMAIN k = DOMAIN j,
           \A i \in DOMAIN j : j[i].completed => k[i].completed
    PROVE  Incomplete(k) \subseteq Incomplete(j)
BY DEF Incomplete

(* Only ReconcileFinalizeAttempt adds an attempt, and only when every      *)
(* attempt is complete.                                                    *)
LEMMA JournalStep ==
    ASSUME TypeInv, [Next]_vars
    PROVE  \/ Incomplete(journal') \subseteq Incomplete(journal)
           \/ /\ Incomplete(journal) = {}
              /\ Incomplete(journal') \subseteq {Len(journal) + 1}
<1>1. ASSUME NEW p \in Finalizers, Reconcile(p), UNCHANGED journal
      PROVE  Incomplete(journal') \subseteq Incomplete(journal)
  BY <1>1
<1>2. ASSUME NEW p \in Finalizers, Met(journal, request[p]) = {},
             journal' = Append(journal, NewAttempt(request[p]))
      PROVE  /\ Incomplete(journal) = {}
             /\ Incomplete(journal') \subseteq {Len(journal) + 1}
  <2>1. \A i \in DOMAIN journal : journal[i].completed
    BY <1>2 DEF Met
  <2>2. journal \in Seq(FinalizeAttempts)
    BY DEF TypeInv, TypeOK, StoreTypeOK
  <2> DEFINE a == NewAttempt(request[p])
  <2> HIDE DEF a
  <2>3. /\ DOMAIN journal' = 1 .. Len(journal) + 1
        /\ \A i \in DOMAIN journal : journal'[i] = journal[i]
        /\ DOMAIN journal = 1 .. Len(journal) /\ Len(journal) \in Nat
    BY <1>2, <2>2 DEF a
  <2>4. QED
    BY <2>1, <2>3 DEF Incomplete
<1>3. ASSUME NEW p \in Finalizers, WriteAhead(p)
      PROVE  Incomplete(journal') \subseteq Incomplete(journal)
  <2> DEFINE t == plan[p][done[p] + 1]
  <2>1. journal' = [i \in DOMAIN journal |-> IF journal[i].request = request[p]
                                            THEN Planned(journal[i], t) ELSE journal[i]]
    BY <1>3 DEF WriteAhead
  <2> HIDE DEF t
  <2>2. \A i \in DOMAIN journal : Planned(journal[i], t).completed = journal[i].completed
    BY AttemptFields DEF Planned, TypeInv, TypeOK, StoreTypeOK, FinalizeAttempts
  <2>3. QED
    BY <2>1, <2>2, IncompleteShrinks
<1>4. ASSUME NEW p \in Finalizers, MarkPublished(p)
      PROVE  Incomplete(journal') \subseteq Incomplete(journal)
  <2>1. \A i \in DOMAIN journal :
            [journal[i] EXCEPT !.published = TRUE].completed = journal[i].completed
    BY AttemptFields DEF TypeInv, TypeOK, StoreTypeOK, FinalizeAttempts
  <2>2. QED
    BY <1>4, <2>1, IncompleteShrinks DEF MarkPublished
<1>5. ASSUME NEW p \in Finalizers, Complete(p)
      PROVE  Incomplete(journal') \subseteq Incomplete(journal)
  <2>1. \A i \in DOMAIN journal : [journal[i] EXCEPT !.completed = TRUE].completed = TRUE
    BY AttemptFields DEF TypeInv, TypeOK, StoreTypeOK, FinalizeAttempts
  <2>2. QED
    BY <1>5, <2>1, IncompleteShrinks DEF Complete
<1>6. ASSUME NEW p \in Finalizers, Reconcile(p), journal' # journal
      PROVE  /\ Incomplete(journal) = {}
             /\ Incomplete(journal') \subseteq {Len(journal) + 1}
  BY <1>2, <1>6 DEF Reconcile
<1>7. QED
  BY <1>1, <1>3, <1>4, <1>5, <1>6, JournalWriters

(* However many finalizers, requests, crashes and reopens there are, at    *)
(* most one journaled attempt is unresolved: PendingFinalizeAttempt's "the *)
(* one unresolved request" is well defined.                                *)
THEOREM OnePending == Spec => []OnePendingAttempt
<1>1. Init => OnePendingAttempt
  BY DEF Init, OnePendingAttempt, Incomplete
<1>2. ASSUME TypeInv, OnePendingAttempt, [Next]_vars
      PROVE  OnePendingAttempt'
  BY <1>2, JournalStep DEF OnePendingAttempt
<1>3. QED
  BY <1>1, <1>2, TypeInvariant, PTL DEF Spec

-----------------------------------------------------------------------------
(* The receipt, the revocation and the gate *)

(* Invalidation evidence is only ever present on an invalidated authority. *)
DeniedInvalidated == authority.denied => authority.state = "invalidated"

(* Between its two writes the revoker has already revoked the approval.    *)
RevokerDenied == revoking => authority.denied

(* What the gate evaluated is the published approval it read, or has been  *)
(* revoked for good since.                                                 *)
GateHolds ==
    gate.pc = "evaluated" =>
        /\ gate.seen.state = "approved"
        /\ \/ authority = gate.seen /\ receipt = ReceiptOf(authority)
           \/ authority.state = "invalidated"

AuthorityInv ==
    /\ TypeInv
    /\ DeniedInvalidated
    /\ RevokerDenied
    /\ ReceiptBound
    /\ GateHolds

(* An authority under review has no receipt and no revocation.             *)
LEMMA OpenReview ==
    ASSUME AuthorityInv, authority.state \in {"reviewing", "correction_required", "validating"}
    PROVE  /\ receipt = NoReceipt /\ ~authority.denied /\ ~revoking /\ gate.pc # "evaluated"
           /\ Origin(authority) = authority
<1>1. authority \in CompactStates
  BY DEF AuthorityInv, TypeInv, TypeOK, StoreTypeOK
<1>2. ~authority.denied
  BY DEF AuthorityInv, DeniedInvalidated
<1>3. Origin(authority) = authority
  BY <1>1, <1>2, OriginOf
<1>4. receipt = NoReceipt
  BY <1>3 DEF AuthorityInv, ReceiptBound, Terminal
<1>5. ~revoking /\ gate.pc # "evaluated"
  BY <1>2 DEF AuthorityInv, RevokerDenied, GateHolds
<1>6. QED
  BY <1>2, <1>3, <1>4, <1>5

(* A compare-and-swap that changes the authority replaces an open review.  *)
LEMMA SwapInv ==
    ASSUME AuthorityInv, TypeInv', NEW op,
           op \in {"review/complete-review", "review/begin-fix",
                   "review/complete-correction-verification",
                   "review/escalate-correction-verification",
                   "review/complete-verification", "review/dispose-result",
                   "review/reopen-results", "review/invalidate"},
           Admissible(authority, authority', op),
           UNCHANGED <<receipt, revoking, gate>>
    PROVE  AuthorityInv'
<1>1. authority \in CompactStates /\ authority' \in CompactStates
  BY DEF AuthorityInv, TypeInv, TypeOK, StoreTypeOK
<1>2. /\ authority.state \in {"reviewing", "correction_required", "validating"}
      /\ authority'.denied => authority'.state = "invalidated"
  BY <1>1, AdmissibleSuccessor
<1>3. receipt = NoReceipt /\ ~revoking /\ gate.pc # "evaluated"
  BY <1>2, OpenReview
<1>4. QED
  BY <1>2, <1>3
     DEF AuthorityInv, DeniedInvalidated, RevokerDenied, ReceiptBound, GateHolds

(* A step of the store that leaves authority and receipt alone, and neither *)
(* starts a revocation nor evaluates a gate.                                *)
LEMMA QuietInv ==
    ASSUME AuthorityInv, TypeInv', UNCHANGED <<authority, receipt>>,
           revoking' => revoking,
           gate' = gate \/ gate'.pc # "evaluated"
    PROVE  AuthorityInv'
BY DEF AuthorityInv, DeniedInvalidated, RevokerDenied, ReceiptBound, GateHolds

LEMMA CommitInv ==
    ASSUME AuthorityInv, TypeInv', NEW p \in Finalizers, Commit(p)
    PROVE  AuthorityInv'
<1> DEFINE t == plan[p][done[p] + 1]
<1>1. UNCHANGED <<receipt, revoking, gate>>
  BY DEF Commit
<1>2. CASE authority' = authority
  BY <1>1, <1>2, QuietInv
<1>3. CASE authority' # authority
  <2>1. Accepts(seen[p], t) /\ authority' = t.next
    BY <1>3 DEF Commit
  <2>2. Admissible(authority, authority', t.operation)
    BY <1>3, <2>1 DEF Accepts
  <2>3. t \in Transitions
    BY NextTransitionType DEF AuthorityInv, Commit
  <2>4. t.operation \in Operations
    BY <2>3 DEF Transitions
  <2>5. QED
    BY <1>1, <2>2, <2>4, SwapInv DEF Operations
<1>4. QED
  BY <1>2, <1>3

LEMMA PublishInv ==
    ASSUME AuthorityInv, TypeInv', NEW p \in Finalizers, Publish(p)
    PROVE  AuthorityInv'
<1>1. UNCHANGED <<authority, revoking, gate>>
  BY DEF Publish
<1>2. CASE receipt' = receipt
  BY <1>1, <1>2, QuietInv
<1>3. CASE receipt' # receipt
  <2>1. Terminal(authority) /\ receipt' = ReceiptOf(authority)
    BY <1>3 DEF Publish
  <2>2. ~authority.denied
    BY <2>1 DEF AuthorityInv, DeniedInvalidated, Terminal
  <2>3. Origin(authority) = authority
    BY <2>2, OriginOf DEF AuthorityInv, TypeInv, TypeOK, StoreTypeOK
  <2>4. QED
    BY <1>1, <2>1, <2>2, <2>3
       DEF AuthorityInv, DeniedInvalidated, RevokerDenied, ReceiptBound, GateHolds
<1>4. QED
  BY <1>2, <1>3

LEMMA FinalizeInv ==
    ASSUME AuthorityInv, TypeInv', NEW p \in Finalizers, Finalize(p)
    PROVE  AuthorityInv'
<1>1. ASSUME (\E r \in Requests : Load(p, r)) \/ Inspect(p) \/ Enter(p) \/ Prepare(p)
             \/ Reconcile(p) \/ WriteAhead(p) \/ Confirm(p) \/ MarkPublished(p)
             \/ Complete(p) \/ Abort(p)
      PROVE  UNCHANGED <<authority, receipt, revoking, gate>>
  BY <1>1 DEF Load, Inspect, Enter, Prepare, Reconcile, WriteAhead, Confirm, MarkPublished,
              Complete, Abort, store
<1>2. QED
  BY <1>1, QuietInv, CommitInv, PublishInv DEF Finalize, Run

LEMMA MaintainInv ==
    ASSUME AuthorityInv, TypeInv', Maintain
    PROVE  AuthorityInv'
<1>1. PICK op \in {"review/reopen-results", "review/dispose-result", "review/invalidate"} :
          Admissible(authority, authority', op)
  BY DEF Maintain, ReopenResults, DisposeResult, InvalidatePristine, Replace
<1>2. UNCHANGED <<receipt, revoking, gate>>
  BY DEF Maintain, ReopenResults, DisposeResult, InvalidatePristine, Replace
<1>3. QED
  BY <1>1, <1>2, SwapInv

LEMMA RevocationInv ==
    ASSUME AuthorityInv, TypeInv', Revocation
    PROVE  AuthorityInv'
<1>1. CASE Revoke
  <2>1. /\ authority.state = "approved" /\ receipt = ReceiptOf(authority)
        /\ authority' = InvalidateApproved(authority) /\ revoking' = TRUE
        /\ UNCHANGED <<receipt, gate>>
    BY <1>1 DEF Revoke
  <2>2. ~authority.denied /\ authority \in CompactStates
    BY <2>1 DEF AuthorityInv, DeniedInvalidated, TypeInv, TypeOK, StoreTypeOK
  <2>3. Origin(authority') = authority
    BY <2>1, <2>2, OriginOf
  <2>4. authority'.denied /\ authority'.state = "invalidated"
    BY <2>1, <2>2 DEF InvalidateApproved, CompactStates
  <2>5. ReceiptBound'
    BY <2>1, <2>3 DEF ReceiptBound, Terminal
  <2>6. QED
    BY <2>1, <2>4, <2>5 DEF AuthorityInv, DeniedInvalidated, RevokerDenied, GateHolds
<1>2. CASE RemoveReceipt \/ ReplayRevoke
  <2>1. /\ authority.denied /\ receipt' = NoReceipt /\ UNCHANGED <<authority, gate>>
        /\ revoking' => revoking
    BY <1>2 DEF RemoveReceipt, ReplayRevoke, AuthorityInv, RevokerDenied
  <2>2. authority.state = "invalidated"
    BY <2>1 DEF AuthorityInv, DeniedInvalidated
  <2>3. QED
    BY <2>1, <2>2
       DEF AuthorityInv, DeniedInvalidated, RevokerDenied, ReceiptBound, GateHolds
<1>3. CASE AbortRevoke
  BY <1>3, QuietInv DEF AbortRevoke
<1>4. QED
  BY <1>1, <1>2, <1>3 DEF Revocation

LEMMA DeliverInv ==
    ASSUME AuthorityInv, TypeInv', Deliver
    PROVE  AuthorityInv'
<1>1. CASE GateEvaluate
  BY <1>1 DEF GateEvaluate, store, AuthorityInv, DeniedInvalidated, RevokerDenied,
              ReceiptBound, GateHolds
<1>2. CASE GateAllow \/ GateDeny
  BY <1>2, QuietInv DEF GateAllow, GateDeny, NoGate, store
<1>3. QED
  BY <1>1, <1>2 DEF Deliver

LEMMA NextInv == AuthorityInv /\ [Next]_vars => AuthorityInv'
<1> SUFFICES ASSUME AuthorityInv, [Next]_vars
             PROVE  AuthorityInv'
  OBVIOUS
<1>1. TypeInv'
  BY NextType DEF AuthorityInv
<1>2. ASSUME Capture \/ (\E c \in Candidates : Edit(c)) \/ UNCHANGED vars
      PROVE  UNCHANGED <<authority, receipt, revoking, gate>>
  BY <1>2 DEF Capture, BeginCapture, CapturePayload, CaptureRecord, AbortCapture, Edit, store,
              vars
<1>3. QED
  BY <1>1, <1>2, QuietInv, FinalizeInv, MaintainInv, RevocationInv, DeliverInv DEF Next

LEMMA AuthorityInvariant == Spec => []AuthorityInv
<1>1. Init => AuthorityInv
  <2>1. SUFFICES ASSUME Init PROVE AuthorityInv
    OBVIOUS
  <2>2. TypeInv
    BY <2>1, InitType
  <2>3. ~authority.denied
    BY <2>1 DEF Init, NewCompactState
  <2>4. QED
    BY <2>1, <2>2, <2>3
       DEF Init, NoGate, AuthorityInv, DeniedInvalidated, RevokerDenied, ReceiptBound, GateHolds
<1>2. QED
  BY <1>1, NextInv, PTL DEF Spec

(* A published receipt is the one the committed decision determines, or    *)
(* the revoked approval's while its revocation is being written.           *)
THEOREM ReceiptIsBound == Spec => []ReceiptBound
BY AuthorityInvariant, PTL DEF AuthorityInv

(* The gate's allow is sound although the receipt is not read under the    *)
(* lock: a receipt disappears only after the approval has been revoked,    *)
(* and that changes the authority the lock confirms.                       *)
THEOREM GateSound == Spec => GateAllowSound
<1>1. AuthorityInv /\ [Next]_vars =>
          [GateAllow => /\ authority.state = "approved"
                        /\ receipt = ReceiptOf(authority)
                        /\ live = authority.current]_vars
  BY DEF AuthorityInv, GateHolds, GateAllow, GateConfirmed
<1>2. QED
  BY <1>1, AuthorityInvariant, PTL DEF Spec, GateAllowSound

-----------------------------------------------------------------------------
(* Write-ahead *)

(* Journal j holds an attempt of request r with the first n of the steps.  *)
Holds(attempt, r, steps, n) ==
    /\ attempt.request = r
    /\ \A k \in 1 .. n : \E m \in DOMAIN attempt.transitions : attempt.transitions[m] = steps[k]

Journaled(j, r, steps, n) == \E i \in DOMAIN j : Holds(j[i], r, steps, n)

(* A plan is journaled transition by transition and committed only once    *)
(* all of it is journaled.                                                 *)
PlanJournaledOf(p) ==
    /\ pc[p] = "entry" => request[p] = NoRequest
    /\ pc[p] = "prepare" /\ request[p] # NoRequest => Journaled(journal, request[p], <<>>, 0)
    /\ pc[p] = "ahead" => Journaled(journal, request[p], plan[p], done[p])
    /\ pc[p] = "commit" => Journaled(journal, request[p], plan[p], Len(plan[p]))

PlanJournaled == \A p \in Finalizers : PlanJournaledOf(p)

(* What the journal holds it keeps: attempts stay in place, and keep their *)
(* request and every transition recorded.                                  *)
Keeps(old, new) ==
    /\ new.request = old.request
    /\ \A m \in DOMAIN old.transitions :
          m \in DOMAIN new.transitions /\ new.transitions[m] = old.transitions[m]

Grown(j, k) == \A i \in DOMAIN j : i \in DOMAIN k /\ Keeps(j[i], k[i])

LEMMA PlannedKeeps ==
    ASSUME NEW attempt \in FinalizeAttempts, NEW t \in Transitions
    PROVE  /\ Keeps(attempt, Planned(attempt, t))
           /\ \E m \in DOMAIN Planned(attempt, t).transitions :
                    Planned(attempt, t).transitions[m] = t
<1>1. attempt.transitions \in Seq(Transitions)
  BY DEF FinalizeAttempts
<1>2. CASE \E i \in DOMAIN attempt.transitions : attempt.transitions[i] = t
  BY <1>2 DEF Planned, Keeps
<1>3. CASE ~ \E i \in DOMAIN attempt.transitions : attempt.transitions[i] = t
  <2> DEFINE new == Append(attempt.transitions, t)
  <2>1. /\ Planned(attempt, t).transitions = new
        /\ Planned(attempt, t).request = attempt.request
    BY <1>3 DEF Planned, FinalizeAttempts
  <2>2. /\ DOMAIN new = 1 .. Len(attempt.transitions) + 1
        /\ \A m \in DOMAIN attempt.transitions : m \in DOMAIN new /\ new[m] = attempt.transitions[m]
        /\ Len(attempt.transitions) + 1 \in DOMAIN new
        /\ new[Len(attempt.transitions) + 1] = t
    BY <1>1
  <2> HIDE DEF new
  <2>3. QED
    BY <2>1, <2>2 DEF Keeps
<1>4. QED
  BY <1>2, <1>3

LEMMA WriteAheadGrows ==
    ASSUME TypeInv, NEW p \in Finalizers, WriteAhead(p)
    PROVE  /\ Grown(journal, journal')
           /\ Journaled(journal, request[p], plan[p], done[p])
                 => Journaled(journal', request[p], plan[p], done[p] + 1)
<1> DEFINE t == plan[p][done[p] + 1]
<1>1. t \in Transitions
  BY NextTransitionType DEF WriteAhead
<1>2. journal' = [i \in DOMAIN journal |-> IF journal[i].request = request[p]
                                          THEN Planned(journal[i], t) ELSE journal[i]]
  BY DEF WriteAhead
<1>t. t = plan[p][done[p] + 1]
  OBVIOUS
<1> HIDE DEF t
<1>3. \A i \in DOMAIN journal : journal[i] \in FinalizeAttempts
  BY AttemptFields DEF TypeInv, TypeOK, StoreTypeOK
<1>4. \A i \in DOMAIN journal :
         /\ Keeps(journal[i], Planned(journal[i], t))
         /\ \E m \in DOMAIN Planned(journal[i], t).transitions :
                    Planned(journal[i], t).transitions[m] = t
  BY <1>1, <1>3, PlannedKeeps
<1>5. \A i \in DOMAIN journal : Keeps(journal[i], journal[i])
  BY DEF Keeps
<1>6. Grown(journal, journal')
  BY <1>2, <1>4, <1>5 DEF Grown
<1>n. done[p] \in Nat
  BY DEF TypeInv, TypeOK, FinalizerTypeOK
<1>7. ASSUME Journaled(journal, request[p], plan[p], done[p])
      PROVE  Journaled(journal', request[p], plan[p], done[p] + 1)
  <2>1. PICK i \in DOMAIN journal : Holds(journal[i], request[p], plan[p], done[p])
    BY <1>7 DEF Journaled
  <2>2. i \in DOMAIN journal' /\ journal'[i] = Planned(journal[i], t)
    BY <1>2, <2>1 DEF Holds
  <2>3. journal'[i].request = request[p]
    BY <1>4, <2>1, <2>2 DEF Holds, Keeps
  <2>4. ASSUME NEW k \in 1 .. done[p] + 1
        PROVE  \E m \in DOMAIN journal'[i].transitions : journal'[i].transitions[m] = plan[p][k]
    <3>1. CASE k = done[p] + 1
      BY <1>4, <1>t, <2>2, <3>1
    <3>2. CASE k \in 1 .. done[p]
      <4>1. PICK m \in DOMAIN journal[i].transitions : journal[i].transitions[m] = plan[p][k]
        BY <2>1, <3>2 DEF Holds
      <4>2. QED
        BY <1>4, <2>2, <4>1 DEF Keeps
    <3>3. QED
      BY <1>n, <3>1, <3>2
  <2>5. QED
    BY <2>2, <2>3, <2>4 DEF Holds, Journaled
<1>8. QED
  BY <1>6, <1>7

(* No step takes anything out of the journal. *)
LEMMA JournalGrows ==
    ASSUME TypeInv, [Next]_vars
    PROVE  Grown(journal, journal')
<1>1. \A i \in DOMAIN journal : journal[i] \in FinalizeAttempts
  BY AttemptFields DEF TypeInv, TypeOK, StoreTypeOK
<1>2. ASSUME UNCHANGED journal
      PROVE  Grown(journal, journal')
  BY <1>2 DEF Grown, Keeps
<1>3. ASSUME NEW p \in Finalizers, Reconcile(p)
      PROVE  Grown(journal, journal')
  <2>1. CASE journal' = Append(journal, NewAttempt(request[p]))
    <3>1. journal \in Seq(FinalizeAttempts)
      BY DEF TypeInv, TypeOK, StoreTypeOK
    <3> DEFINE a == NewAttempt(request[p])
    <3> HIDE DEF a
    <3>2. \A i \in DOMAIN journal : i \in DOMAIN journal' /\ journal'[i] = journal[i]
      BY <2>1, <3>1 DEF a
    <3>3. QED
      BY <3>2 DEF Grown, Keeps
  <2>2. QED
    BY <1>2, <1>3, <2>1 DEF Reconcile
<1>4. ASSUME NEW p \in Finalizers, MarkPublished(p) \/ Complete(p)
      PROVE  Grown(journal, journal')
  <2>1. \A i \in DOMAIN journal :
           /\ Keeps(journal[i], journal[i])
           /\ Keeps(journal[i], [journal[i] EXCEPT !.published = TRUE])
           /\ Keeps(journal[i], [journal[i] EXCEPT !.completed = TRUE])
    BY <1>1 DEF FinalizeAttempts, Keeps
  <2>2. QED
    BY <1>4, <2>1 DEF MarkPublished, Complete, Grown
<1>5. QED
  BY <1>2, <1>3, <1>4, WriteAheadGrows, JournalWriters

(* What was journaled stays journaled. *)
LEMMA JournaledStays ==
    ASSUME NEW j, NEW k, Grown(j, k), NEW r, NEW steps, NEW n, Journaled(j, r, steps, n)
    PROVE  Journaled(k, r, steps, n)
<1>1. PICK i \in DOMAIN j : Holds(j[i], r, steps, n)
  BY DEF Journaled
<1>2. i \in DOMAIN k /\ Keeps(j[i], k[i])
  BY DEF Grown
<1>3. Holds(k[i], r, steps, n)
  BY <1>1, <1>2 DEF Holds, Keeps
<1>4. QED
  BY <1>2, <1>3 DEF Journaled

(* The steps of the other processes leave a finalizer's plan journaled. *)
LEMMA OthersJournaled ==
    ASSUME TypeInv, [Next]_vars, NEW p \in Finalizers, PlanJournaledOf(p),
           pc'[p] = pc[p], request'[p] = request[p], plan'[p] = plan[p], done'[p] = done[p]
    PROVE  PlanJournaledOf(p)'
BY JournalGrows, JournaledStays DEF PlanJournaledOf

(* A step of finalizer p moves no other finalizer. *)
LEMMA OneMoves ==
    ASSUME TypeInv, NEW p \in Finalizers, Finalize(p), NEW q \in Finalizers, q # p
    PROVE  /\ pc'[q] = pc[q] /\ request'[q] = request[q] /\ plan'[q] = plan[q]
           /\ done'[q] = done[q] /\ seen'[q] = seen[q] /\ inputs'[q] = inputs[q]
<1> USE DEF TypeInv, TypeOK, FinalizerTypeOK, Goto, Return, Leave
<1>1. CASE (\E r \in Requests : Load(p, r)) \/ Inspect(p) \/ Confirm(p) \/ Abort(p)
  BY <1>1 DEF Load, Inspect, Confirm, Abort
<1>2. CASE Enter(p) \/ Complete(p) \/ MarkPublished(p) \/ Publish(p)
  BY <1>2 DEF Enter, Complete, MarkPublished, Publish
<1>3. CASE Prepare(p)
  BY <1>3 DEF Prepare
<1>4. CASE Reconcile(p)
  BY <1>4 DEF Reconcile
<1>5. CASE WriteAhead(p) \/ Commit(p)
  BY <1>5 DEF WriteAhead, Commit
<1>6. QED
  BY <1>1, <1>2, <1>3, <1>4, <1>5 DEF Finalize, Run

(* A finalizer's own steps keep its plan journaled ahead of its commits. *)
LEMMA OwnJournaled ==
    ASSUME TypeInv, NEW p \in Finalizers, Finalize(p), PlanJournaledOf(p)
    PROVE  PlanJournaledOf(p)'
<1>0. /\ pc \in [Finalizers -> Labels] /\ request = [q \in Finalizers |-> request[q]]
      /\ plan = [q \in Finalizers |-> plan[q]] /\ done \in [Finalizers -> Nat]
  BY DEF TypeInv, TypeOK, FinalizerTypeOK
<1>1. ASSUME NEW how \in {"idle", "lost"}, pc' = [pc EXCEPT ![p] = how]
      PROVE  PlanJournaledOf(p)'
  BY <1>0, <1>1 DEF PlanJournaledOf
<1>2. ASSUME NEW how \in {"inspect", "reconcile", "publish", "complete", "confirm", "mark"},
             Goto(p, how)
      PROVE  PlanJournaledOf(p)'
  BY <1>0, <1>2 DEF PlanJournaledOf, Goto
<1>3. CASE \E r \in Requests : Load(p, r)
  BY <1>0, <1>3 DEF Load, Goto, PlanJournaledOf
<1>4. CASE Inspect(p) \/ Publish(p) \/ Confirm(p) \/ MarkPublished(p) \/ Complete(p) \/ Abort(p)
  <2>1. \/ \E how \in {"idle", "lost"} : pc' = [pc EXCEPT ![p] = how]
        \/ \E how \in {"inspect", "reconcile", "publish", "complete", "confirm", "mark"} :
              Goto(p, how)
    BY <1>4 DEF Inspect, Publish, Confirm, MarkPublished, Complete, Abort, Return, Leave
  <2>2. QED
    BY <1>1, <1>2, <2>1
<1>5. CASE Enter(p)
  <2>1. CASE Return(p)
    BY <1>1, <2>1 DEF Return, Leave
  <2>2. CASE Goto(p, "reconcile")
    BY <1>2, <2>2
  <2>3. CASE Goto(p, "prepare") /\ UNCHANGED request
    <3>1. request'[p] = NoRequest
      BY <1>5, <2>3 DEF Enter, PlanJournaledOf
    <3>2. pc'[p] = "prepare"
      BY <1>0, <2>3 DEF Goto
    <3>3. QED
      BY <3>1, <3>2 DEF PlanJournaledOf
  <2>4. QED
    BY <1>5, <2>1, <2>2, <2>3 DEF Enter
<1>6. CASE Prepare(p)
  <2>1. CASE Return(p)
    BY <1>1, <2>1 DEF Return, Leave
  <2>2. CASE Goto(p, "reconcile") \/ Goto(p, "complete")
    BY <1>2, <2>2
  <2>3. CASE Goto(p, "ahead") /\ request[p] # NoRequest /\ UNCHANGED <<request, journal, done>>
    <3>1. done[p] = 0 /\ pc[p] = "prepare"
      BY <1>6 DEF Prepare, TypeInv, PlanInProgress
    <3>2. Journaled(journal, request[p], <<>>, 0)
      BY <2>3, <3>1 DEF PlanJournaledOf
    <3>3. \A steps : Journaled(journal, request[p], steps, 0)
      BY <3>2 DEF Journaled, Holds
    <3>4. pc'[p] = "ahead"
      BY <1>0, <2>3 DEF Goto
    <3>5. QED
      BY <2>3, <3>1, <3>3, <3>4 DEF PlanJournaledOf
  <2>4. QED
    BY <1>6, <2>1, <2>2, <2>3 DEF Prepare, store
<1>7. CASE Reconcile(p)
  <2>1. done[p] = 0
    BY <1>7 DEF Reconcile, TypeInv, PlanInProgress
  <2>2. CASE Return(p)
    BY <1>1, <2>2 DEF Return, Leave
  <2>3. ASSUME ~Return(p)
        PROVE  /\ \E i \in DOMAIN journal' : journal'[i].request = request'[p]
               /\ UNCHANGED done
               /\ \E label \in {"publish", "complete", "prepare", "ahead"} : Goto(p, label)
    <3>1. \A attempt : AfterReconcile(p, attempt) \in {"publish", "complete", "prepare", "ahead"}
      BY DEF AfterReconcile
    <3>2. CASE \E i \in Adopted(journal, request[p], authority) :
                  /\ Goto(p, AfterReconcile(p, journal[i]))
                  /\ request' = [request EXCEPT ![p] = journal[i].request]
                  /\ UNCHANGED <<journal, payload, seen, inputs, entry, plan, done>>
      <4>1. PICK i \in Adopted(journal, request[p], authority) :
                  /\ Goto(p, AfterReconcile(p, journal[i]))
                  /\ request' = [request EXCEPT ![p] = journal[i].request]
                  /\ UNCHANGED <<journal, payload, seen, inputs, entry, plan, done>>
        BY <3>2
      <4>2. i \in DOMAIN journal' /\ journal'[i].request = request'[p]
        BY <1>0, <4>1 DEF Adopted, Met
      <4>3. QED
        BY <3>1, <4>1, <4>2
    <3>3. CASE /\ journal' = Append(journal, NewAttempt(request[p]))
               /\ Goto(p, AfterReconcile(p, NewAttempt(request[p])))
               /\ UNCHANGED <<payload, seen, inputs, entry, request, plan, done>>
      <4>1. journal \in Seq(FinalizeAttempts)
        BY DEF TypeInv, TypeOK, StoreTypeOK
      <4> DEFINE a == NewAttempt(request[p])
      <4>2. a.request = request[p]
        BY DEF NewAttempt
      <4> HIDE DEF a
      <4>3. Len(journal) + 1 \in DOMAIN journal' /\ journal'[Len(journal) + 1] = a
        BY <3>3, <4>1 DEF a
      <4>4. QED
        BY <3>1, <3>3, <4>2, <4>3
    <3>4. QED
      BY <1>7, <2>3, <3>2, <3>3 DEF Reconcile
  <2>4. CASE ~Return(p)
    <3>1. \A steps : Journaled(journal', request'[p], steps, 0)
      BY <2>3, <2>4 DEF Journaled, Holds
    <3>2. PICK label \in {"publish", "complete", "prepare", "ahead"} : pc'[p] = label
      BY <1>0, <2>3, <2>4 DEF Goto
    <3>3. done'[p] = 0
      BY <2>1, <2>3, <2>4
    <3>4. QED
      BY <3>1, <3>2, <3>3 DEF PlanJournaledOf
  <2>5. QED
    BY <2>2, <2>4
<1>8. CASE WriteAhead(p)
  <2>1. Journaled(journal', request[p], plan[p], done[p] + 1)
    BY <1>8, WriteAheadGrows DEF WriteAhead, PlanJournaledOf
  <2>2. CASE done[p] + 1 = Len(plan[p])
    <3>1. pc'[p] = "commit" /\ UNCHANGED <<request, plan>>
      BY <1>0, <1>8, <2>2 DEF WriteAhead, Goto
    <3>2. QED
      BY <2>1, <2>2, <3>1 DEF PlanJournaledOf
  <2>3. CASE done[p] + 1 # Len(plan[p])
    <3>1. pc'[p] = "ahead" /\ UNCHANGED <<request, plan>> /\ done'[p] = done[p] + 1
      BY <1>0, <1>8, <2>3 DEF WriteAhead, Goto
    <3>2. QED
      BY <2>1, <3>1 DEF PlanJournaledOf
  <2>4. QED
    BY <2>2, <2>3
<1>9. CASE Commit(p)
  <2>1. CASE Return(p) \/ Leave(p, "lost", request[p])
    BY <1>1, <2>1 DEF Return, Leave
  <2>2. CASE Goto(p, AfterCommit(p, plan[p][done[p] + 1].next))
             /\ UNCHANGED <<journal, request, plan>>
    <3>1. CASE pc'[p] = "commit"
      BY <1>9, <2>2, <3>1 DEF PlanJournaledOf, Commit
    <3>2. CASE pc'[p] # "commit"
      <4>1. pc'[p] \in {"publish", "complete"}
        BY <1>0, <2>2, <3>2 DEF AfterCommit, Goto
      <4>2. QED
        BY <4>1 DEF PlanJournaledOf
    <3>3. QED
      BY <3>1, <3>2
  <2>3. QED
    BY <1>9, <2>1, <2>2 DEF Commit
<1>10. QED
  BY <1>3, <1>4, <1>5, <1>6, <1>7, <1>8, <1>9 DEF Finalize, Run

LEMMA NextJournaled ==
    ASSUME TypeInv, PlanJournaled, [Next]_vars
    PROVE  PlanJournaled'
<1>1. ASSUME NEW p \in Finalizers, NEW q \in Finalizers, Finalize(p)
      PROVE  PlanJournaledOf(q)'
  BY <1>1, OneMoves, OwnJournaled, OthersJournaled DEF PlanJournaled
<1>2. ASSUME Capture \/ Maintain \/ Revocation \/ Deliver \/ (\E c \in Candidates : Edit(c))
             \/ UNCHANGED vars
      PROVE  UNCHANGED fins
  BY <1>2 DEF Capture, BeginCapture, CapturePayload, CaptureRecord, AbortCapture, Maintain,
              ReopenResults, DisposeResult, InvalidatePristine, Replace, Revocation, Revoke,
              RemoveReceipt, AbortRevoke, ReplayRevoke, Deliver, GateEvaluate, GateAllow,
              GateDeny, Edit, store, vars
<1>3. UNCHANGED fins => PlanJournaled'
  BY OthersJournaled DEF PlanJournaled, fins
<1>4. QED
  BY <1>1, <1>2, <1>3 DEF Next, PlanJournaled

(* The states a FINALIZE commits.                                          *)
Committed(s) ==
    s.state \in {"validating", "correction_required", "approved", "escalated"}
    /\ s.verdict # "disposed"

Recorded(j, s) == \E i \in DOMAIN j : TransitionIndex(j[i], s) > 0

LEMMA AuthorityJournaledIs ==
    AuthorityJournaled <=> (Committed(Origin(authority)) => Recorded(journal, Origin(authority)))
BY DEF AuthorityJournaled, Committed, Recorded

(* A recorded revision stays recorded. *)
LEMMA RecordedStays ==
    ASSUME NEW j \in Seq(FinalizeAttempts), NEW k \in Seq(FinalizeAttempts), Grown(j, k),
           NEW s, Recorded(j, s)
    PROVE  Recorded(k, s)
<1>1. PICK i \in DOMAIN j : TransitionIndex(j[i], s) > 0
  BY DEF Recorded
<1>2. PICK m \in DOMAIN j[i].transitions : j[i].transitions[m].next = s
  BY <1>1, AttemptFields, TransitionIndexType
<1>3. i \in DOMAIN k /\ m \in DOMAIN k[i].transitions /\ k[i].transitions[m].next = s
  BY <1>2 DEF Grown, Keeps
<1>4. TransitionIndex(k[i], s) > 0
  BY <1>3, AttemptFields, TransitionIndexType
<1>5. QED
  BY <1>3, <1>4 DEF Recorded

(* What FINALIZE commits is not invalidated, and carries no invalidation   *)
(* evidence.                                                               *)
LEMMA CommitsOpen ==
    ASSUME NEW s \in CompactStates, NEW next \in CompactStates, NEW op \in Operations,
           Admissible(s, next, op)
    PROVE  ~next.denied
<1>1. op \in {"review/complete-review", "review/begin-fix",
              "review/complete-correction-verification",
              "review/escalate-correction-verification", "review/complete-verification"}
  BY DEF Operations
<1>2. LegalSuccessor(s, next, op) /\ (next.denied => next.state = "invalidated")
  BY DEF Admissible, Valid
<1>3. next.state # "invalidated"
  BY <1>1, <1>2 DEF LegalSuccessor
<1>4. QED
  BY <1>2, <1>3

LEMMA CommitRecorded ==
    ASSUME AuthorityInv, PlanJournaled, AuthorityJournaled, TypeInv',
           NEW p \in Finalizers, Commit(p)
    PROVE  AuthorityJournaled'
<1> DEFINE t == plan[p][done[p] + 1]
<1>1. UNCHANGED journal
  BY DEF Commit
<1>2. CASE authority' = authority
  BY <1>1, <1>2 DEF AuthorityJournaled
<1>3. CASE authority' # authority
  <2>1. Accepts(seen[p], t) /\ authority' = t.next
    BY <1>3 DEF Commit
  <2>2. Admissible(authority, authority', t.operation)
    BY <1>3, <2>1 DEF Accepts
  <2>3. t \in Transitions /\ done[p] + 1 \in 1 .. Len(plan[p])
    BY NextTransitionType DEF AuthorityInv, Commit
  <2>4. authority \in CompactStates /\ authority' \in CompactStates /\ t.operation \in Operations
    BY <2>3 DEF AuthorityInv, TypeInv, TypeOK, StoreTypeOK, Transitions
  <2>5. Origin(authority') = authority'
    BY <2>2, <2>4, CommitsOpen, OriginOf
  <2>6. Journaled(journal, request[p], plan[p], Len(plan[p]))
    BY DEF Commit, PlanJournaled, PlanJournaledOf
  <2>7. PICK i \in DOMAIN journal : \E m \in DOMAIN journal[i].transitions :
                                       journal[i].transitions[m] = t
    BY <2>3, <2>6 DEF Journaled, Holds
  <2>8. TransitionIndex(journal[i], authority') > 0
    BY <2>1, <2>7, AttemptFields, TransitionIndexType DEF AuthorityInv, TypeInv, TypeOK, StoreTypeOK
  <2>9. QED
    BY <1>1, <2>5, <2>8 DEF AuthorityJournaled
<1>4. QED
  BY <1>2, <1>3

LEMMA MaintainRecorded ==
    ASSUME AuthorityInv, Maintain
    PROVE  AuthorityJournaled'
<1>1. PICK op \in {"review/reopen-results", "review/dispose-result", "review/invalidate"} :
          Admissible(authority, authority', op)
  BY DEF Maintain, ReopenResults, DisposeResult, InvalidatePristine, Replace
<1>2. authority' \in {Reopen(authority), Dispose(authority), Invalidate(authority)}
  BY DEF Maintain, ReopenResults, DisposeResult, InvalidatePristine, Replace
<1>3. authority \in CompactStates /\ authority' \in CompactStates
  BY <1>2, MaintenanceTypes DEF AuthorityInv, TypeInv, TypeOK, StoreTypeOK
<1>4. authority.state \in {"reviewing", "correction_required", "validating"}
  BY <1>1, <1>3, AdmissibleSuccessor
<1>5. ~authority.denied
  BY <1>4, OpenReview
<1>6. /\ ~authority'.denied
      /\ authority'.state \in {"reviewing", "invalidated"} \/ authority'.verdict = "disposed"
  BY <1>2, <1>3, <1>5 DEF Reopen, Dispose, Invalidate, CompactStates
<1>7. Origin(authority') = authority'
  BY <1>3, <1>6, OriginOf
<1>8. QED
  BY <1>6, <1>7 DEF AuthorityJournaled

LEMMA NextRecorded ==
    ASSUME AuthorityInv, PlanJournaled, AuthorityJournaled, TypeInv', [Next]_vars
    PROVE  AuthorityJournaled'
<1>1. Grown(journal, journal') /\ journal \in Seq(FinalizeAttempts) /\ journal' \in Seq(FinalizeAttempts)
  BY JournalGrows DEF AuthorityInv, TypeInv, TypeOK, StoreTypeOK
<1>2. ASSUME Origin(authority') = Origin(authority)
      PROVE  AuthorityJournaled'
  <2>1. Committed(Origin(authority')) => Recorded(journal', Origin(authority'))
    BY <1>1, <1>2, AuthorityJournaledIs, RecordedStays
  <2>2. QED
    BY <2>1 DEF AuthorityJournaled, Committed, Recorded
<1>3. ASSUME NEW p \in Finalizers, Finalize(p)
      PROVE  Commit(p) \/ UNCHANGED authority
  BY <1>3 DEF Finalize, Run, Load, Inspect, Enter, Prepare, Reconcile, WriteAhead, Publish,
              Confirm, MarkPublished, Complete, Abort, store
<1>4. ASSUME Revoke
      PROVE  Origin(authority') = Origin(authority)
  BY <1>4, OriginOf DEF Revoke, AuthorityInv, DeniedInvalidated, TypeInv, TypeOK, StoreTypeOK
<1>5. ASSUME Capture \/ RemoveReceipt \/ AbortRevoke \/ ReplayRevoke \/ Deliver
             \/ (\E c \in Candidates : Edit(c)) \/ UNCHANGED vars
      PROVE  UNCHANGED authority
  BY <1>5 DEF Capture, BeginCapture, CapturePayload, CaptureRecord, AbortCapture,
              RemoveReceipt, AbortRevoke, ReplayRevoke, Deliver, GateEvaluate, GateAllow,
              GateDeny, Edit, store, vars
<1>6. QED
  BY <1>2, <1>3, <1>4, <1>5, CommitRecorded, MaintainRecorded DEF Next, Revocation

(* Write-ahead holds for any number of finalizers, crashes and reopens:    *)
(* whatever FINALIZE committed, the journal names the attempt that did.    *)
THEOREM WriteAheadHolds == Spec => []AuthorityJournaled
<1>1. Init => PlanJournaled /\ AuthorityJournaled
  <2> SUFFICES ASSUME Init PROVE PlanJournaled /\ AuthorityJournaled
    OBVIOUS
  <2>1. PlanJournaled
    BY DEF Init, PlanJournaled, PlanJournaledOf
  <2>2. Origin(authority).state = "reviewing"
    BY DEF Init, NewCompactState, Origin
  <2>3. QED
    BY <2>1, <2>2 DEF AuthorityJournaled
<1>2. /\ AuthorityInv /\ TypeInv /\ TypeInv' /\ PlanJournaled /\ AuthorityJournaled
      /\ [Next]_vars
      => (PlanJournaled /\ AuthorityJournaled)'
  BY NextJournaled, NextRecorded
<1>3. QED
  BY <1>1, <1>2, AuthorityInvariant, TypeInvariant, PTL DEF Spec

-----------------------------------------------------------------------------
(* The lineage implements ReviewAuthority *)

LEMMA DecisionOpen ==
    ASSUME NEW s \in CompactStates, ~s.denied,
           s.state \in {"reviewing", "correction_required", "validating"}
    PROVE  Decision(s) = Abstract!Undecided
BY OriginOf DEF Decision, Abstract!Undecided

LEMMA DecisionClosed ==
    ASSUME NEW s \in CompactStates, ~s.denied, Terminal(s)
    PROVE  Decision(s) = [verdict |-> s.state, candidate |-> s.current]
BY OriginOf DEF Decision, Terminal

(* A decision is one the abstract authority may take.                      *)
LEMMA DecisionType ==
    ASSUME NEW s \in CompactStates
    PROVE  Decision(s) \in Abstract!Decisions \cup {Abstract!Undecided}
BY DEF Decision, Abstract!Decisions, Abstract!Undecided, CompactStates, Candidates, Targets

LEMMA InitAbstract == Init => Abstract!Init
<1> SUFFICES ASSUME Init PROVE Abstract!Init
  OBVIOUS
<1>1. /\ authority \in CompactStates /\ ~authority.denied /\ authority.state = "reviewing"
      /\ authority.denied = FALSE
  <2>1. PICK n \in 0 .. MaxCompactCorrectionAttempts : authority = NewCompactState(n)
    BY DEF Init
  <2>2. authority \in CompactStates
    BY <2>1, NewCompactStateType
  <2>3. QED
    BY <2>1, <2>2 DEF NewCompactState
<1>2. Decision(authority) = Abstract!Undecided
  BY <1>1, DecisionOpen
<1>3. Attested = Abstract!Undecided
  BY DEF Init, Attested, Abstract!Undecided
<1>4. QED
  BY <1>1, <1>2, <1>3 DEF Abstract!Init

(* A compare-and-swap decides the lineage, or leaves it undecided.         *)
LEMMA SwapAbstract ==
    ASSUME AuthorityInv, TypeInv', NEW op,
           op \in {"review/complete-review", "review/begin-fix",
                   "review/complete-correction-verification",
                   "review/escalate-correction-verification",
                   "review/complete-verification", "review/dispose-result",
                   "review/reopen-results", "review/invalidate"},
           Admissible(authority, authority', op), ~authority'.denied,
           UNCHANGED receipt
    PROVE  [Abstract!Next]_Abstract!vars
<1>1. authority \in CompactStates /\ authority' \in CompactStates
  BY DEF AuthorityInv, TypeInv, TypeOK, StoreTypeOK
<1>2. authority.state \in {"reviewing", "correction_required", "validating"}
  BY <1>1, AdmissibleSuccessor
<1>3. ~authority.denied
  BY <1>2, OpenReview
<1>4. Decision(authority) = Abstract!Undecided
  BY <1>1, <1>2, <1>3, DecisionOpen
<1>5. Decision(authority)' \in Abstract!Decisions \cup {Abstract!Undecided}
  BY <1>1, DecisionType
<1>6. UNCHANGED <<authority.denied, Attested>>
  BY <1>1, <1>3 DEF Attested, CompactStates
<1>7. QED
  BY <1>4, <1>5, <1>6 DEF Abstract!Next, Abstract!Decide, Abstract!vars

LEMMA CommitAbstract ==
    ASSUME AuthorityInv, TypeInv', NEW p \in Finalizers, Commit(p)
    PROVE  [Abstract!Next]_Abstract!vars
<1> DEFINE t == plan[p][done[p] + 1]
<1>1. CASE authority' = authority
  <2>1. UNCHANGED <<Decision(authority), authority.denied, Attested>>
    BY <1>1 DEF Commit, Attested
  <2>2. QED
    BY <2>1 DEF Abstract!vars
<1>2. CASE authority' # authority
  <2>1. Accepts(seen[p], t) /\ authority' = t.next
    BY <1>2 DEF Commit
  <2>2. Admissible(authority, authority', t.operation)
    BY <1>2, <2>1 DEF Accepts
  <2>3. t \in Transitions
    BY NextTransitionType DEF AuthorityInv, Commit
  <2>4. t.operation \in Operations /\ authority \in CompactStates /\ authority' \in CompactStates
    BY <2>3 DEF Transitions, AuthorityInv, TypeInv, TypeOK, StoreTypeOK
  <2>5. ~authority'.denied
    BY <2>2, <2>4, CommitsOpen
  <2>6. UNCHANGED receipt
    BY DEF Commit
  <2>7. QED
    BY <2>2, <2>4, <2>5, <2>6, SwapAbstract DEF Operations
<1>3. QED
  BY <1>1, <1>2

LEMMA MaintainAbstract ==
    ASSUME AuthorityInv, TypeInv', Maintain
    PROVE  [Abstract!Next]_Abstract!vars
<1>1. PICK op \in {"review/reopen-results", "review/dispose-result", "review/invalidate"} :
          Admissible(authority, authority', op)
  BY DEF Maintain, ReopenResults, DisposeResult, InvalidatePristine, Replace
<1>2. /\ authority' \in {Reopen(authority), Dispose(authority), Invalidate(authority)}
      /\ UNCHANGED receipt
  BY DEF Maintain, ReopenResults, DisposeResult, InvalidatePristine, Replace
<1>3. authority \in CompactStates
  BY DEF AuthorityInv, TypeInv, TypeOK, StoreTypeOK
<1>4. ~authority.denied
  BY <1>1, <1>2, <1>3, MaintenanceTypes, AdmissibleSuccessor, OpenReview
<1>5. ~authority'.denied
  BY <1>2, <1>3, <1>4 DEF Reopen, Dispose, Invalidate, CompactStates
<1>6. QED
  BY <1>1, <1>2, <1>5, SwapAbstract

LEMMA PublishAbstract ==
    ASSUME AuthorityInv, TypeInv', NEW p \in Finalizers, Publish(p)
    PROVE  [Abstract!Next]_Abstract!vars
<1>1. UNCHANGED authority
  BY DEF Publish
<1>2. CASE receipt' = receipt
  BY <1>1, <1>2 DEF Abstract!vars, Attested
<1>3. CASE receipt' # receipt
  <2>1. Terminal(authority) /\ receipt' = ReceiptOf(authority) /\ receipt = NoReceipt
    BY <1>3 DEF Publish
  <2>2. authority \in CompactStates /\ ~authority.denied
    BY <2>1 DEF AuthorityInv, DeniedInvalidated, Terminal, TypeInv, TypeOK, StoreTypeOK
  <2>3. Decision(authority) = [verdict |-> authority.state, candidate |-> authority.current]
    BY <2>1, <2>2, DecisionClosed
  <2>4. Attested = Abstract!Undecided
    BY <2>1 DEF Attested, Abstract!Undecided
  <2>5. receipt' # NoReceipt
    BY <2>1, <2>2, ReceiptType, FinalizeAssumption
  <2>6. Attested' = [verdict |-> authority.state, candidate |-> authority.current]
    BY <2>1, <2>5 DEF Attested, ReceiptOf
  <2>7. Abstract!Publish
    BY <1>1, <2>1, <2>2, <2>3, <2>4, <2>6 DEF Abstract!Publish, Terminal
  <2>8. QED
    BY <2>7 DEF Abstract!Next
<1>4. QED
  BY <1>2, <1>3

LEMMA RevocationAbstract ==
    ASSUME AuthorityInv, TypeInv', Revocation
    PROVE  [Abstract!Next]_Abstract!vars
<1>0. authority \in CompactStates
  BY DEF AuthorityInv, TypeInv, TypeOK, StoreTypeOK
<1>1. CASE Revoke
  <2>1. /\ authority.state = "approved" /\ receipt = ReceiptOf(authority)
        /\ authority' = InvalidateApproved(authority) /\ UNCHANGED receipt
    BY <1>1 DEF Revoke
  <2>2. ~authority.denied
    BY <2>1 DEF AuthorityInv, DeniedInvalidated
  <2>3. Decision(authority) = [verdict |-> "approved", candidate |-> authority.current]
    BY <1>0, <2>1, <2>2, DecisionClosed DEF Terminal
  <2>4. authority'.denied = TRUE /\ authority'.current = authority.current
    BY <1>0, <2>1 DEF InvalidateApproved, CompactStates
  <2>5. Decision(authority)' = Decision(authority)
    <3>1. Origin(authority') = authority
      BY <1>0, <2>1, <2>2, OriginOf
    <3>2. QED
      BY <2>1, <2>3, <2>4, <3>1 DEF Decision
  <2>6. receipt # NoReceipt
    BY <1>0, <2>1, ReceiptType, FinalizeAssumption
  <2>7. Attested = Decision(authority) /\ Attested' = Attested
    BY <2>1, <2>3, <2>6 DEF Attested, ReceiptOf
  <2>8. Abstract!Revoke
    BY <2>2, <2>3, <2>4, <2>5, <2>7 DEF Abstract!Revoke
  <2>9. QED
    BY <2>8 DEF Abstract!Next
<1>2. CASE RemoveReceipt \/ ReplayRevoke
  <2>1. authority.denied /\ receipt' = NoReceipt /\ UNCHANGED authority
    BY <1>2 DEF RemoveReceipt, ReplayRevoke, AuthorityInv, RevokerDenied
  <2>2. Attested' = Abstract!Undecided
    BY <2>1 DEF Attested, Abstract!Undecided
  <2>3. QED
    BY <2>1, <2>2 DEF Abstract!Next, Abstract!Withdraw, Abstract!vars
<1>3. CASE AbortRevoke
  BY <1>3 DEF AbortRevoke, Abstract!vars, Attested
<1>4. QED
  BY <1>1, <1>2, <1>3 DEF Revocation

LEMMA StepAbstract ==
    ASSUME AuthorityInv, TypeInv', [Next]_vars
    PROVE  [Abstract!Next]_Abstract!vars
<1>1. ASSUME NEW p \in Finalizers, Finalize(p)
      PROVE  Commit(p) \/ Publish(p) \/ UNCHANGED <<authority, receipt>>
  BY <1>1 DEF Finalize, Run, Load, Inspect, Enter, Prepare, Reconcile, WriteAhead,
              Confirm, MarkPublished, Complete, Abort, store
<1>2. ASSUME Capture \/ Deliver \/ (\E c \in Candidates : Edit(c)) \/ UNCHANGED vars
      PROVE  UNCHANGED <<authority, receipt>>
  BY <1>2 DEF Capture, BeginCapture, CapturePayload, CaptureRecord, AbortCapture,
              Deliver, GateEvaluate, GateAllow, GateDeny, Edit, store, vars
<1>3. ASSUME UNCHANGED <<authority, receipt>>
      PROVE  [Abstract!Next]_Abstract!vars
  BY <1>3 DEF Abstract!vars, Attested
<1>4. QED
  BY <1>1, <1>2, <1>3, CommitAbstract, PublishAbstract, MaintainAbstract, RevocationAbstract
     DEF Next

(* The whole protocol -- unlocked reads, the journal, crashes, reopens,    *)
(* captures and revocations -- implements a lineage that decides once and  *)
(* has at most the one receipt of that decision.                           *)
THEOREM Implements == Spec => ImplementsAuthority
<1>1. AuthorityInv /\ TypeInv' /\ [Next]_vars => [Abstract!Next]_Abstract!vars
  BY StepAbstract
<1>2. QED
  BY <1>1, InitAbstract, AuthorityInvariant, TypeInvariant, PTL
     DEF Spec, ImplementsAuthority, Abstract!Spec

-----------------------------------------------------------------------------
(* Captured evidence *)

(* A capture writes for one target, and starts on the record only after    *)
(* the payload of that very outcome is in place; a record in place was     *)
(* written by such a capture.                                              *)
CaptureInv ==
    /\ capture.pc # "idle" =>
          /\ capture.target \in Targets /\ capture.record.target = capture.target
          /\ capture.record.outcome \in Outcomes
    /\ capture.pc = "record" => captured[capture.target].payload = capture.record.outcome
    /\ \A c \in Targets :
          HasRecord(captured[c].record) => captured[c].record.outcome \in Outcomes

LEMMA CaptureStep ==
    ASSUME TypeInv, CaptureInv, RecordDescribesPayload, Capture
    PROVE  CaptureInv' /\ RecordDescribesPayload'
<1>1. captured \in [Targets -> [payload : Outcomes \cup {"none"}, record : Evidence]]
  BY DEF TypeInv, TypeOK, StoreTypeOK
<1>2. CASE \E o \in Outcomes : BeginCapture(o)
  <2>1. PICK o \in Outcomes, c \in EvidenceTargets(authority) :
            capture' = [pc |-> "payload", target |-> c,
                        record |-> [outcome |-> o, target |-> c,
                                    authority |-> Revision(authority)]]
    BY <1>2 DEF BeginCapture
  <2>2. c \in Targets
    BY EvidenceTargetsType DEF TypeInv, TypeOK, StoreTypeOK
  <2>3. UNCHANGED captured
    BY <1>2 DEF BeginCapture, store
  <2>4. /\ capture'.pc = "payload" /\ capture'.target = c /\ capture'.record.target = c
        /\ capture'.record.outcome = o
    BY <2>1
  <2>5. CaptureInv'
    BY <2>2, <2>3, <2>4 DEF CaptureInv
  <2>6. RecordDescribesPayload'
    BY <2>3 DEF RecordDescribesPayload
  <2>7. QED
    BY <2>5, <2>6
<1>3. CASE CapturePayload
  <2>1. CASE UNCHANGED captured /\ capture' = NoCapture
    BY <2>1 DEF NoCapture, CaptureInv, RecordDescribesPayload
  <2>2. CASE ~(UNCHANGED captured /\ capture' = NoCapture)
    <3> DEFINE c == capture.target
               o == capture.record.outcome
    <3>1. /\ captured[c].payload \in {"none", o}
          /\ captured' = [captured EXCEPT ![c].payload = o]
          /\ capture' = [capture EXCEPT !.pc = "record"]
          /\ capture.pc = "payload"
      BY <1>3, <2>2 DEF CapturePayload
    <3>2. c \in Targets /\ o \in Outcomes /\ capture.record.target = c
      BY <3>1 DEF CaptureInv
    <3>3. /\ captured'[c].payload = o /\ captured'[c].record = captured[c].record
          /\ \A d \in Targets : d # c => captured'[d] = captured[d]
      BY <1>1, <3>1, <3>2
    <3>4. capture'.pc = "record" /\ capture'.target = c /\ capture'.record = capture.record
      BY <3>1 DEF TypeInv, TypeOK
    <3> HIDE DEF c, o
    <3>5. HasRecord(captured[c].record) => captured[c].payload = o
      BY <3>1, <3>2 DEF CaptureInv, RecordDescribesPayload, Outcomes
    <3>6. CaptureInv'
      <4>1. o = capture.record.outcome
        BY DEF o
      <4>2. QED
        BY <3>2, <3>3, <3>4, <4>1 DEF CaptureInv
    <3>7. RecordDescribesPayload'
      BY <3>2, <3>3, <3>5 DEF RecordDescribesPayload
    <3>8. QED
      BY <3>6, <3>7
  <2>3. QED
    BY <2>1, <2>2
<1>4. CASE CaptureRecord
  <2>1. capture'.pc = "idle"
    BY <1>4 DEF CaptureRecord, NoCapture
  <2>2. CASE UNCHANGED captured
    BY <2>1, <2>2 DEF CaptureInv, RecordDescribesPayload
  <2>3. CASE captured' = [captured EXCEPT ![capture.target].record = capture.record]
    <3> DEFINE c == capture.target
    <3>1. /\ c \in Targets /\ capture.record.target = c
          /\ capture.record.outcome \in Outcomes
          /\ captured[c].payload = capture.record.outcome
      BY <1>4 DEF CaptureRecord, CaptureInv
    <3>2. /\ captured'[c].payload = captured[c].payload /\ captured'[c].record = capture.record
          /\ \A d \in Targets : d # c => captured'[d] = captured[d]
      BY <1>1, <2>3, <3>1
    <3> HIDE DEF c
    <3>3. QED
      BY <2>1, <3>1, <3>2 DEF CaptureInv, RecordDescribesPayload
  <2>4. QED
    BY <1>4, <2>2, <2>3 DEF CaptureRecord
<1>5. CASE AbortCapture
  BY <1>5 DEF AbortCapture, NoCapture, store, CaptureInv, RecordDescribesPayload
<1>6. QED
  BY <1>2, <1>3, <1>4, <1>5 DEF Capture

(* Payload and record of a slot always belong together, although a crash   *)
(* or another capture of another outcome may come between the two          *)
(* publications: the payload alone decides which record may follow.        *)
THEOREM CaptureConsistent == Spec => []RecordDescribesPayload
<1>1. Init => CaptureInv /\ RecordDescribesPayload
  BY DEF Init, NoCapture, EmptySlot, NoEvidence, HasRecord, CaptureInv, RecordDescribesPayload
<1>2. ASSUME TypeInv, CaptureInv, RecordDescribesPayload, [Next]_vars
      PROVE  (CaptureInv /\ RecordDescribesPayload)'
  <2>1. ASSUME NEW p \in Finalizers, Finalize(p)
        PROVE  UNCHANGED <<captured, capture>>
    BY <2>1 DEF Finalize, Run, Load, Inspect, Enter, Prepare, Reconcile, WriteAhead, Commit,
                Publish, Confirm, MarkPublished, Complete, Abort, store
  <2>2. ASSUME Maintain \/ Revocation \/ Deliver \/ (\E c \in Candidates : Edit(c))
               \/ UNCHANGED vars
        PROVE  UNCHANGED <<captured, capture>>
    BY <2>2 DEF Maintain, ReopenResults, DisposeResult, InvalidatePristine, Replace, Revocation,
                Revoke, RemoveReceipt, AbortRevoke, ReplayRevoke, Deliver, GateEvaluate,
                GateAllow, GateDeny, Edit, store, vars
  <2>3. ASSUME UNCHANGED <<captured, capture>>
        PROVE  (CaptureInv /\ RecordDescribesPayload)'
    BY <1>2, <2>3 DEF CaptureInv, RecordDescribesPayload
  <2>4. QED
    BY <1>2, <2>1, <2>2, <2>3, CaptureStep DEF Next
<1>3. QED
  BY <1>1, <1>2, TypeInvariant, PTL DEF Spec

-----------------------------------------------------------------------------
(* IV.  Plans *)

(* A plan is a chain of transitions the store admits, from the revision    *)
(* the finalizer works from, each of them further than the one before.     *)
(* Hence planning never runs into the store's refusal, an approval is      *)
(* earned, and no revision of a lineage ever recurs.                       *)

UnderReview(s) == s.state \in {"reviewing", "correction_required", "validating"}

(* ApprovalEarned, of a state.                                             *)
Earned(s) ==
    LET base == IF s.fix = NoCandidate THEN "validating" ELSE "correction_required"
    IN  s.state = "approved" =>
            /\ s.evidence.outcome = "passed"
            /\ HasRecord(s.evidence) =>
                  /\ s.evidence.target = s.current
                  /\ s.evidence.authority = <<base, s.verdict, s.lines, s.reopens>>
            /\ \/ s.verdict = "clean" /\ s.current = Genesis
               \/ /\ s.verdict = "fix" /\ s.current \in Fixes
                  /\ HasRecord(s.evidence)
                  /\ FixSize[s.current] <= Budget /\ s.lines <= Budget
                  /\ s.consumed < MaxCompactCorrectionAttempts

(* A state the operations reach: Validate admits it, its correction has    *)
(* not been taken while it is under review, and its approval is earned.    *)
SoundState(s) ==
    /\ Valid(s)
    /\ UnderReview(s) => s.fix = NoCandidate
    /\ Earned(Origin(s))

SoundStep(t) ==
    /\ SoundState(t.next)
    /\ Admissible(t.expected, t.next, t.operation)
    /\ Rank(t.next) > Rank(t.expected)

-----------------------------------------------------------------------------
(* States *)

LEMMA RankType ==
    ASSUME NEW s \in CompactStates
    PROVE  Stage(s) \in 0 .. 4 /\ Rank(s) \in Nat /\ s.reopens \in Nat /\ s.lines \in Nat
<1>1. Stage(s) \in 0 .. 4 /\ s.reopens \in Nat /\ s.lines \in Nat
  BY DEF Stage, CompactStates, StateNames
<1>2. QED
  BY <1>1 DEF Rank

(* The stages of a review, and the rank of a state that keeps its reopens. *)
LEMMA StageOf ==
    ASSUME NEW s \in CompactStates
    PROVE  /\ s.state = "reviewing" => Stage(s) = 0
           /\ s.state \in {"validating", "correction_required"} => Stage(s) \in {1, 2}
           /\ s.state \in {"validating", "correction_required"} /\ s.lines = 0 => Stage(s) = 1
           /\ s.state \in {"validating", "correction_required"} /\ s.lines > 0 => Stage(s) = 2
           /\ s.state \in {"approved", "escalated"} => Stage(s) = 3
           /\ s.state = "invalidated" => Stage(s) = 4
BY DEF Stage, CompactStates

LEMMA RankGrows ==
    ASSUME NEW s \in CompactStates, NEW n \in CompactStates,
           n.reopens = s.reopens, Stage(n) > Stage(s)
    PROVE  Rank(n) > Rank(s)
BY RankType DEF Rank

(* An authority that is not invalidated carries no invalidation evidence:  *)
(* it is its own origin.                                                   *)
LEMMA SoundOpen ==
    ASSUME NEW s \in CompactStates, s.state # "invalidated"
    PROVE  /\ Valid(s) => ~s.denied /\ Origin(s) = s /\ ValidOpen(s)
           /\ ~s.denied /\ ValidOpen(s) => Valid(s) /\ Origin(s) = s
BY OriginOf DEF Valid

(* No reviewer has answered a lineage that is reviewing, or its answer was *)
(* reopened; an open correction has a forecast within the budget.          *)
LEMMA SoundReview ==
    ASSUME NEW s \in CompactStates, SoundState(s), UnderReview(s)
    PROVE  /\ ~s.denied /\ s.fix = NoCandidate /\ s.current = Genesis
           /\ s.evidence = NoEvidence
           /\ s.state = "reviewing" => s.verdict = "none" /\ s.lines = 0
           /\ s.state = "correction_required" => s.verdict = "fix" /\ s.lines <= Budget
           /\ s.state = "validating" => s.verdict = "clean" /\ s.lines = 0
<1>1. s.fix = NoCandidate /\ ~s.denied /\ ValidOpen(s)
  BY SoundOpen DEF SoundState, UnderReview
<1>2. s.current = Genesis
  BY <1>1 DEF ValidOpen, ValidCorrection
<1>3. s.evidence = NoEvidence
  BY <1>1 DEF ValidOpen, UnderReview
<1>4. s.state = "reviewing" => s.verdict = "none" /\ s.lines = 0
  BY <1>1 DEF ValidOpen
<1>5. s.state = "correction_required" => s.verdict = "fix" /\ s.lines <= Budget
  BY <1>1, RankType, BudgetAssumption DEF ValidOpen
<1>6. s.state = "validating" => s.verdict = "clean" /\ s.lines = 0
  BY <1>1, RankType DEF ValidOpen, ValidCorrection
<1>7. QED
  BY <1>1, <1>2, <1>3, <1>4, <1>5, <1>6

LEMMA NoRecord == ~HasRecord(NoEvidence) /\ NoEvidence.outcome = "none"
BY DEF HasRecord, NoEvidence

LEMMA NewStateSound ==
    ASSUME NEW n \in 0 .. MaxCompactCorrectionAttempts
    PROVE  SoundState(NewCompactState(n))
<1> DEFINE s == NewCompactState(n)
<1>1. s \in CompactStates
  BY NewCompactStateType
<1>2. /\ s.state = "reviewing" /\ s.verdict = "none" /\ s.lines = 0 /\ s.fix = NoCandidate
      /\ s.current = Genesis /\ s.evidence = NoEvidence /\ ~s.denied
  BY DEF NewCompactState
<1> HIDE DEF s
<1>3. ValidOpen(s)
  BY <1>2, NoRecord, BudgetAssumption DEF ValidOpen, ValidEvidence, ValidCorrection
<1>4. Valid(s) /\ Origin(s) = s
  BY <1>1, <1>2, <1>3, SoundOpen
<1>5. QED
  BY <1>2, <1>4 DEF SoundState, Earned, s

-----------------------------------------------------------------------------
(* Each operation of a FINALIZE takes a sound state to an admitted, sound  *)
(* state further on.                                                       *)

LEMMA ReviewSound ==
    ASSUME NEW s \in CompactStates, SoundState(s), NEW r, CanCompleteReview(s, r)
    PROVE  SoundStep(Transition("review/complete-review", s, CompleteReview(s, r)))
<1> DEFINE n == CompleteReview(s, r)
<1>1. /\ s.state = "reviewing" /\ r \in Results
      /\ ~s.denied /\ s.fix = NoCandidate /\ s.current = Genesis
      /\ s.evidence = NoEvidence /\ s.lines = 0
  BY SoundReview DEF CanCompleteReview, UnderReview
<1>2. n \in CompactStates
  BY <1>1, OperationTypes
<1>3. /\ n.verdict = r /\ n.lines = 0 /\ n.fix = NoCandidate /\ n.current = Genesis
      /\ n.evidence = NoEvidence /\ ~n.denied /\ n.reopens = s.reopens
      /\ n.state = CASE r = "inconclusive" -> "escalated"
                     [] r = "fix"          -> "correction_required"
                     [] r = "clean"        -> "validating"
  BY <1>1 DEF CompleteReview, CompactStates
<1> HIDE DEF n
<1>4. n.state \in {"correction_required", "validating", "escalated"}
  BY <1>1, <1>3 DEF Results
<1>5. ValidOpen(n)
  <2>1. ValidEvidence(n)
    BY <1>3, NoRecord DEF ValidEvidence
  <2>2. ValidCorrection(n)
    BY <1>1, <1>3, <1>4 DEF ValidCorrection, Results
  <2>3. ~(n.lines > Budget)
    BY <1>3, BudgetAssumption
  <2>4. QED
    BY <1>1, <1>3, <2>1, <2>2, <2>3 DEF ValidOpen, Results
<1>6. SoundState(n)
  BY <1>2, <1>3, <1>4, <1>5, SoundOpen DEF SoundState, Earned
<1>7. LegalSuccessor(s, n, "review/complete-review")
  BY <1>1, <1>3, <1>4 DEF LegalSuccessor
<1>8. Rank(n) > Rank(s)
  <2>1. Stage(s) = 0 /\ Stage(n) \in {1, 2, 3}
    BY <1>1, <1>2, <1>4, StageOf
  <2>2. QED
    BY <1>2, <1>3, <2>1, RankGrows
<1>9. QED
  BY <1>6, <1>7, <1>8 DEF SoundStep, SoundState, Admissible, Transition, n

LEMMA ForecastSound ==
    ASSUME NEW s \in CompactStates, SoundState(s), NEW lines \in Nat,
           CanBeginCorrection(s, lines)
    PROVE  SoundStep(Transition("review/begin-fix", s, BeginCorrection(s, lines)))
<1> DEFINE n == BeginCorrection(s, lines)
<1>1. /\ s.state = "correction_required" /\ s.lines = 0 /\ lines > 0
      /\ ~s.denied /\ s.fix = NoCandidate /\ s.current = Genesis
      /\ s.evidence = NoEvidence /\ s.verdict = "fix"
  BY SoundReview DEF CanBeginCorrection, UnderReview
<1>2. n \in CompactStates
  BY OperationTypes
<1>3. /\ n.verdict = "fix" /\ n.lines = lines /\ n.fix = NoCandidate /\ n.current = Genesis
      /\ n.evidence = NoEvidence /\ ~n.denied /\ n.reopens = s.reopens
      /\ n.state = IF lines > Budget THEN "escalated" ELSE "correction_required"
  BY <1>1 DEF BeginCorrection, CompactStates
<1>4. OnlyChanged(s, n, {"state", "lines"})
  BY DEF OnlyChanged, BeginCorrection, CompactStates
<1> HIDE DEF n
<1>5. ValidOpen(n)
  <2>1. ValidEvidence(n)
    BY <1>3, NoRecord DEF ValidEvidence
  <2>2. ValidCorrection(n)
    BY <1>1, <1>3, NoRecord DEF ValidCorrection
  <2>3. n.lines > Budget => n.state = "escalated"
    BY <1>3
  <2>4. QED
    BY <1>1, <1>3, <2>1, <2>2, <2>3 DEF ValidOpen
<1>6. SoundState(n)
  BY <1>2, <1>3, <1>5, SoundOpen DEF SoundState, Earned
<1>7. LegalSuccessor(s, n, "review/begin-fix")
  BY <1>1, <1>3, <1>4 DEF LegalSuccessor, CanBeginCorrection
<1>8. Rank(n) > Rank(s)
  BY <1>1, <1>2, <1>3, StageOf, RankGrows
<1>9. QED
  BY <1>6, <1>7, <1>8 DEF SoundStep, SoundState, Admissible, Transition, n

LEMMA CorrectionSound ==
    ASSUME NEW s \in CompactStates, SoundState(s), NEW fix, NEW e \in Evidence,
           CanCompleteCorrectionVerification(s, fix, e), e.authority = Revision(s)
    PROVE  SoundStep(Transition("review/complete-correction-verification", s,
                                CompleteCorrectionVerification(s, fix, e)))
<1> DEFINE n == CompleteCorrectionVerification(s, fix, e)
<1>1. /\ s.state = "correction_required" /\ s.lines > 0 /\ s.lines <= Budget
      /\ ~s.denied /\ s.fix = NoCandidate /\ s.verdict = "fix"
      /\ fix \in Fixes /\ FixSize[fix] <= Budget
      /\ e.outcome = "passed" /\ e.target = fix
      /\ s.consumed < MaxCompactCorrectionAttempts
  <2>1. OpenCorrection(s) /\ ~CorrectionAttemptConsumed(s)
    BY DEF CanCompleteCorrectionVerification
  <2>2. s.consumed \in 0 .. 1
    BY DEF CompactStates, MaxCompactCorrectionAttempts
  <2>3. s.state = "correction_required" /\ s.lines > 0
    BY <2>1 DEF OpenCorrection
  <2>4. s.fix = NoCandidate /\ s.lines <= Budget /\ s.verdict = "fix" /\ ~s.denied
    BY <2>3, SoundReview DEF UnderReview
  <2>5. s.consumed < MaxCompactCorrectionAttempts
    BY <2>1, <2>2, <2>4
       DEF CorrectionAttemptConsumed, Attempts, MaxCompactCorrectionAttempts
  <2>6. QED
    BY <2>3, <2>4, <2>5 DEF CanCompleteCorrectionVerification
<1>2. n \in CompactStates
  BY <1>1, OperationTypes
<1>3. /\ n.verdict = "fix" /\ n.lines = s.lines /\ n.fix = fix /\ n.current = fix
      /\ n.evidence = e /\ ~n.denied /\ n.reopens = s.reopens /\ n.consumed = s.consumed
      /\ n.state = "approved"
  BY <1>1 DEF CompleteCorrectionVerification, CompactStates
<1>4. OnlyChanged(s, n, {"state", "fix", "current", "evidence"})
  BY DEF OnlyChanged, CompleteCorrectionVerification, CompactStates
<1> HIDE DEF n
<1>5. fix # NoCandidate
  BY <1>1, CandidatesAssumption
<1>6. s.lines \in 1 .. Budget
  BY <1>1, RankType, BudgetAssumption
<1>7. ValidOpen(n)
  <2>1. ValidEvidence(n)
    BY <1>1, <1>3, <1>5 DEF ValidEvidence
  <2>2. ValidCorrection(n)
    BY <1>1, <1>3, <1>5, <1>6 DEF ValidCorrection
  <2>3. ~(n.lines > Budget)
    BY <1>3, <1>6, BudgetAssumption
  <2>4. QED
    BY <1>1, <1>3, <2>1, <2>2, <2>3 DEF ValidOpen
<1>8. HasRecord(e) /\ Revision(s) = <<"correction_required", "fix", s.lines, s.reopens>>
  BY <1>1 DEF HasRecord, Revision, NoRevision
<1>9. SoundState(n)
  <2>1. Valid(n) /\ Origin(n) = n /\ ~UnderReview(n)
    BY <1>2, <1>3, <1>7, SoundOpen DEF UnderReview
  <2>2. Earned(n)
    BY <1>1, <1>3, <1>5, <1>8 DEF Earned
  <2>3. QED
    BY <2>1, <2>2 DEF SoundState
<1>10. LegalSuccessor(s, n, "review/complete-correction-verification")
  BY <1>1, <1>3, <1>4, <1>5
     DEF LegalSuccessor, CanCompleteCorrectionVerification, Attempts
<1>11. Rank(n) > Rank(s)
  BY <1>1, <1>2, <1>3, StageOf, RankGrows
<1>12. QED
  BY <1>9, <1>10, <1>11 DEF SoundStep, SoundState, Admissible, Transition, n

LEMMA EscalationSound ==
    ASSUME NEW s \in CompactStates, SoundState(s), NEW fix, NEW e \in Evidence,
           CanEscalateCorrectionVerification(s, fix, e), e.authority = Revision(s)
    PROVE  SoundStep(Transition("review/escalate-correction-verification", s,
                                EscalateCorrectionVerification(s, e)))
<1> DEFINE n == EscalateCorrectionVerification(s, e)
<1>1. /\ s.state = "correction_required" /\ s.lines > 0 /\ s.lines <= Budget
      /\ ~s.denied /\ s.fix = NoCandidate /\ s.verdict = "fix" /\ s.current = Genesis
      /\ e.outcome = "procedural_failure" /\ e.target = fix /\ fix \in Fixes
  BY SoundReview DEF CanEscalateCorrectionVerification, OpenCorrection, UnderReview
<1>2. n \in CompactStates
  BY OperationTypes
<1>3. /\ n.verdict = "fix" /\ n.lines = s.lines /\ n.fix = NoCandidate /\ n.current = Genesis
      /\ n.evidence = e /\ ~n.denied /\ n.reopens = s.reopens /\ n.state = "escalated"
  BY <1>1 DEF EscalateCorrectionVerification, CompactStates
<1>4. OnlyChanged(s, n, {"state", "evidence"})
  BY DEF OnlyChanged, EscalateCorrectionVerification, CompactStates
<1> HIDE DEF n
<1>5. s.lines \in Nat /\ Budget \in Nat
  BY RankType, BudgetAssumption
<1>6. ValidOpen(n)
  <2>1. ValidEvidence(n)
    BY <1>1, <1>3 DEF ValidEvidence
  <2>2. ValidCorrection(n)
    BY <1>1, <1>3, <1>5 DEF ValidCorrection
  <2>3. QED
    BY <1>1, <1>3, <2>1, <2>2 DEF ValidOpen
<1>7. SoundState(n)
  BY <1>2, <1>3, <1>6, SoundOpen DEF SoundState, Earned, UnderReview
<1>8. LegalSuccessor(s, n, "review/escalate-correction-verification")
  BY <1>1, <1>3, <1>4 DEF LegalSuccessor, OpenCorrection
<1>9. Rank(n) > Rank(s)
  BY <1>1, <1>2, <1>3, StageOf, RankGrows
<1>10. QED
  BY <1>7, <1>8, <1>9 DEF SoundStep, SoundState, Admissible, Transition, n

LEMMA VerificationSound ==
    ASSUME NEW s \in CompactStates, SoundState(s), NEW e \in Evidence,
           CanCompleteVerification(s, e), BoundTo(s, e)
    PROVE  SoundStep(Transition("review/complete-verification", s, CompleteVerification(s, e)))
<1> DEFINE n == CompleteVerification(s, e)
<1>1. /\ s.state = "validating" /\ s.lines = 0
      /\ ~s.denied /\ s.fix = NoCandidate /\ s.verdict = "clean" /\ s.current = Genesis
      /\ e.outcome # "none" /\ (HasRecord(e) => e.target = Genesis)
  BY SoundReview DEF CanCompleteVerification, UnderReview
<1>2. n \in CompactStates
  BY OperationTypes
<1>3. /\ n.verdict = "clean" /\ n.lines = 0 /\ n.fix = NoCandidate /\ n.current = Genesis
      /\ n.evidence = e /\ ~n.denied /\ n.reopens = s.reopens
      /\ n.state = IF e.outcome = "passed" THEN "approved" ELSE "escalated"
  BY <1>1 DEF CompleteVerification, CompactStates
<1>4. OnlyChanged(s, n, {"state", "evidence"})
  BY DEF OnlyChanged, CompleteVerification, CompactStates
<1> HIDE DEF n
<1>5. ValidOpen(n)
  <2>1. ValidEvidence(n)
    BY <1>1, <1>3 DEF ValidEvidence
  <2>2. ValidCorrection(n)
    BY <1>1, <1>3 DEF ValidCorrection
  <2>3. ~(n.lines > Budget)
    BY <1>3, BudgetAssumption
  <2>4. QED
    BY <1>1, <1>3, <2>1, <2>2, <2>3 DEF ValidOpen
<1>6. SoundState(n)
  <2>1. Valid(n) /\ Origin(n) = n /\ ~UnderReview(n)
    BY <1>2, <1>3, <1>5, SoundOpen DEF UnderReview
  <2>2. HasRecord(e) => e.authority = <<"validating", "clean", 0, s.reopens>>
    BY <1>1 DEF BoundTo, Revision
  <2>3. Earned(n)
    BY <1>1, <1>3, <2>2 DEF Earned
  <2>4. QED
    BY <2>1, <2>3 DEF SoundState
<1>7. LegalSuccessor(s, n, "review/complete-verification")
  BY <1>1, <1>3, <1>4 DEF LegalSuccessor
<1>8. Rank(n) > Rank(s)
  BY <1>1, <1>2, <1>3, StageOf, RankGrows
<1>9. QED
  BY <1>6, <1>7, <1>8 DEF SoundStep, SoundState, Admissible, Transition, n

-----------------------------------------------------------------------------
(* Plans *)

(* Sound transitions that lead from a to b, each from where the last left. *)
Chain(steps, a, b) ==
    /\ \A i \in 1 .. Len(steps) : SoundStep(steps[i])
    /\ \A i \in 1 .. Len(steps) - 1 : steps[i + 1].expected = steps[i].next
    /\ IF steps = <<>> THEN a = b
       ELSE steps[1].expected = a /\ steps[Len(steps)].next = b

LEMMA StepChain ==
    ASSUME NEW op, NEW prev, NEW next,
           prev # next => SoundStep(Transition(op, prev, next))
    PROVE  Chain(Step(op, prev, next), prev, next)
<1>1. CASE prev = next
  <2>1. Step(op, prev, next) = <<>>
    BY <1>1 DEF Step
  <2>2. QED
    BY <1>1, <2>1 DEF Chain
<1>2. CASE prev # next
  <2> DEFINE t == Transition(op, prev, next)
  <2>1. Step(op, prev, next) = <<t>> /\ <<t>> # <<>> /\ Len(<<t>>) = 1 /\ <<t>>[1] = t
    BY <1>2 DEF Step
  <2>2. t.expected = prev /\ t.next = next /\ SoundStep(t)
    BY <1>2 DEF Transition
  <2> HIDE DEF t
  <2>3. QED
    BY <2>1, <2>2 DEF Chain
<1>3. QED
  BY <1>1, <1>2

LEMMA ChainConcat ==
    ASSUME NEW u \in Seq(Transitions), NEW v \in Seq(Transitions), NEW a, NEW b, NEW c,
           Chain(u, a, b), Chain(v, b, c)
    PROVE  Chain(u \o v, a, c)
<1> DEFINE w == u \o v
<1>1. /\ Len(u) \in Nat /\ Len(v) \in Nat /\ Len(w) = Len(u) + Len(v)
      /\ \A i \in 1 .. Len(w) : w[i] = IF i <= Len(u) THEN u[i] ELSE v[i - Len(u)]
      /\ u = <<>> <=> Len(u) = 0
      /\ v = <<>> <=> Len(v) = 0
      /\ w = <<>> <=> Len(w) = 0
  <2>1. w \in Seq(Transitions)
    BY ConcatProperties
  <2>2. QED
    BY <2>1, ConcatProperties, EmptySeq
<1> HIDE DEF w
<1>2. ASSUME NEW i \in 1 .. Len(w)
      PROVE  SoundStep(w[i])
  <2>1. CASE i <= Len(u)
    BY <1>1, <2>1 DEF Chain
  <2>2. CASE i > Len(u)
    <3>1. i - Len(u) \in 1 .. Len(v) /\ w[i] = v[i - Len(u)]
      BY <1>1, <2>2
    <3>2. QED
      BY <3>1 DEF Chain
  <2>3. QED
    BY <1>1, <2>1, <2>2
<1>3. ASSUME NEW i \in 1 .. Len(w) - 1
      PROVE  w[i + 1].expected = w[i].next
  <2>1. CASE i < Len(u)
    <3>1. i \in 1 .. Len(u) - 1 /\ w[i] = u[i] /\ w[i + 1] = u[i + 1]
      BY <1>1, <2>1
    <3>2. QED
      BY <3>1 DEF Chain
  <2>2. CASE i = Len(u)
    <3>1. w[i] = u[Len(u)] /\ w[i + 1] = v[1] /\ u # <<>> /\ v # <<>>
      BY <1>1, <2>2
    <3>2. QED
      BY <3>1 DEF Chain
  <2>3. CASE i > Len(u)
    <3> DEFINE k == i - Len(u)
    <3>1. k \in 1 .. Len(v) - 1 /\ w[i] = v[k] /\ w[i + 1] = v[k + 1]
      BY <1>1, <2>3
    <3>2. QED
      BY <3>1 DEF Chain
  <2>4. QED
    BY <1>1, <2>1, <2>2, <2>3
<1>4. CASE u = <<>>
  <2>1. a = b /\ Len(w) = Len(v) /\ \A i \in 1 .. Len(v) : w[i] = v[i]
    BY <1>1, <1>4 DEF Chain
  <2>2. QED
    BY <1>1, <1>2, <1>3, <2>1 DEF Chain, w
<1>5. CASE u # <<>>
  <2>1. w # <<>> /\ w[1] = u[1] /\ u[1].expected = a
    BY <1>1, <1>5 DEF Chain
  <2>2. w[Len(w)].next = c
    <3>1. CASE v = <<>>
      BY <1>1, <1>5, <3>1 DEF Chain
    <3>2. CASE v # <<>>
      <4>1. w[Len(w)] = v[Len(v)]
        BY <1>1, <3>2
      <4>2. QED
        BY <3>2, <4>1 DEF Chain
    <3>3. QED
      BY <3>1, <3>2
  <2>3. QED
    BY <1>2, <1>3, <2>1, <2>2 DEF Chain, w
<1>6. QED
  BY <1>4, <1>5

(* Evidence as a finalizer reads it: a bound record names the revision it  *)
(* was read at, which is not one that awaits its reviewers.                *)
Fresh(s, e) == HasRecord(e) => e.authority = Revision(s) /\ s.state # "reviewing"

(* prepareFacadeFinalizePlan yields sound transitions from the state it    *)
(* was given to the last state it passes through.                          *)
LEMMA PlanSound ==
    ASSUME NEW s \in CompactStates, NEW r \in Requests, NEW e \in Evidence,
           NEW tree \in Candidates, CanPlan(s, r, e, tree), SoundState(s), Fresh(s, e)
    PROVE  Chain(Plan(s, r, e, tree), s, AfterAll(s, r, e, tree))
<1> DEFINE s1 == Reviewed(s, r)
           s2 == AfterReview(s, r)
           s3 == AfterFix(s, r, e, tree)
           s4 == AfterAll(s, r, e, tree)
           op == CorrectionOperation(s, e)
           A == Step("review/complete-review", s, s1)
           B == Step("review/begin-fix", s1, s2)
           C == Step(op, s2, s3)
           D == Step("review/complete-verification", s3, s4)
<1>1. /\ s1 \in CompactStates /\ s2 \in CompactStates
      /\ s3 \in CompactStates /\ s4 \in CompactStates
  BY PlannedStateTypes
<1>2. /\ s # s1 => SoundStep(Transition("review/complete-review", s, s1))
      /\ SoundState(s1)
  <2>1. CASE CompletesReview(s)
    <3>1. s1 = CompleteReview(s, r.results) /\ CanCompleteReview(s, r.results)
      BY <2>1 DEF Reviewed, CanPlan
    <3>2. SoundStep(Transition("review/complete-review", s, s1))
      BY <3>1, ReviewSound
    <3>3. QED
      BY <3>2 DEF SoundStep, Transition
  <2>2. CASE ~CompletesReview(s)
    BY <2>2 DEF Reviewed
  <2>3. QED
    BY <2>1, <2>2
<1>3. /\ s1 # s2 => SoundStep(Transition("review/begin-fix", s1, s2))
      /\ SoundState(s2)
  <2>1. CASE BeginsFix(s1, r)
    <3>1. s2 = BeginCorrection(s1, r.lines) /\ CanBeginCorrection(s1, r.lines)
      BY <2>1 DEF AfterReview, Begun, CanPlan
    <3>2. SoundStep(Transition("review/begin-fix", s1, s2))
      BY <1>1, <1>2, <3>1, ForecastSound, PayloadTypes
    <3>3. QED
      BY <3>2 DEF SoundStep, Transition
  <2>2. CASE ~BeginsFix(s1, r)
    BY <1>2, <2>2 DEF AfterReview, Begun
  <2>3. QED
    BY <2>1, <2>2
<1>4. OpenCorrection(s) => s2 = s
  <2>1. s.lines \in Nat
    BY RankType
  <2>2. QED
    BY <2>1
       DEF OpenCorrection, AfterReview, Reviewed, CompletesReview, Begun, BeginsFix
<1>5. /\ s2 # s3 => SoundStep(Transition(op, s2, s3))
      /\ SoundState(s3)
  <2>1. CASE OpenCorrection(s) /\ Escalates(s, e)
    <3>1. /\ s3 = EscalateCorrectionVerification(s, e)
          /\ op = "review/escalate-correction-verification"
          /\ CanEscalateCorrectionVerification(s, tree, e) /\ e.authority = Revision(s)
      BY <2>1 DEF AfterFix, Corrected, Corrects, CorrectionOperation, CanPlan, Escalates, Fresh
    <3>2. SoundStep(Transition(op, s2, s3))
      BY <1>4, <2>1, <3>1, EscalationSound
    <3>3. QED
      BY <3>2 DEF SoundStep, Transition
  <2>2. CASE OpenCorrection(s) /\ ~Escalates(s, e) /\ Corrects(s, r, e)
    <3>1. /\ s3 = CompleteCorrectionVerification(s, tree, e)
          /\ op = "review/complete-correction-verification"
          /\ CanCompleteCorrectionVerification(s, tree, e) /\ e.authority = Revision(s)
      BY <2>2 DEF AfterFix, Corrected, CorrectionOperation, CanPlan, Fresh
    <3>2. SoundStep(Transition(op, s2, s3))
      BY <1>4, <2>2, <3>1, CorrectionSound
    <3>3. QED
      BY <3>2 DEF SoundStep, Transition
  <2>3. CASE OpenCorrection(s) /\ ~Escalates(s, e) /\ ~Corrects(s, r, e)
    BY <1>4, <2>3 DEF AfterFix, Corrected
  <2>4. CASE ~OpenCorrection(s)
    BY <1>3, <2>4 DEF AfterFix
  <2>5. QED
    BY <2>1, <2>2, <2>3, <2>4
<1>6. s3.state = "validating" /\ HasRecord(e) => s3 = s
  <2> SUFFICES ASSUME s3.state = "validating", HasRecord(e) PROVE s3 = s
    OBVIOUS
  <2>1. s.state # "reviewing" /\ s1 = s
    BY DEF Fresh, Reviewed, CompletesReview
  <2>2. ~OpenCorrection(s)
    <3>1. ASSUME OpenCorrection(s) PROVE FALSE
      <4>1. s3 \in {EscalateCorrectionVerification(s, e),
                    CompleteCorrectionVerification(s, tree, e), s}
        BY <3>1 DEF AfterFix, Corrected, Corrects
      <4>2. s.state = "correction_required"
        BY <3>1 DEF OpenCorrection
      <4>3. /\ EscalateCorrectionVerification(s, e).state = "escalated"
            /\ CompleteCorrectionVerification(s, tree, e).state = "approved"
        BY DEF EscalateCorrectionVerification, CompleteCorrectionVerification, CompactStates
      <4>4. QED
        BY <4>1, <4>2, <4>3
    <3>2. QED
      BY <3>1
  <2>3. s3 = s2 /\ s2 = Begun(s, r)
    BY <2>1, <2>2 DEF AfterFix, AfterReview
  <2>4. BeginsFix(s, r) => BeginCorrection(s, r.lines).state # "validating"
    BY DEF BeginsFix, BeginCorrection, CompactStates
  <2>5. QED
    BY <2>3, <2>4 DEF Begun
<1>7. s3 # s4 => SoundStep(Transition("review/complete-verification", s3, s4))
  <2>1. CASE Verifies(s3, e)
    <3>1. s4 = CompleteVerification(s3, e) /\ CanCompleteVerification(s3, e)
      BY <2>1 DEF AfterAll, Verified, CanPlan
    <3>2. BoundTo(s3, e)
      BY <1>6, <2>1 DEF BoundTo, Fresh, Verifies
    <3>3. QED
      BY <1>1, <1>5, <3>1, <3>2, VerificationSound
  <2>2. CASE ~Verifies(s3, e)
    BY <2>2 DEF AfterAll, Verified
  <2>3. QED
    BY <2>1, <2>2
<1>8. op \in Operations
  BY DEF CorrectionOperation, Operations
<1>9. Plan(s, r, e, tree) = A \o B \o C \o D
  BY DEF Plan
<1> HIDE DEF s1, s2, s3, s4, op
<1>10. /\ A \in Seq(Transitions) /\ B \in Seq(Transitions)
       /\ C \in Seq(Transitions) /\ D \in Seq(Transitions)
  BY <1>1, <1>8, StepType DEF Operations
<1>11. Chain(A, s, s1) /\ Chain(B, s1, s2) /\ Chain(C, s2, s3) /\ Chain(D, s3, s4)
  BY <1>2, <1>3, <1>5, <1>7, StepChain
<1> HIDE DEF A, B, C, D
<1>12. Chain(A \o B, s, s2) /\ A \o B \in Seq(Transitions)
  BY <1>10, <1>11, ChainConcat, ConcatProperties
<1>13. Chain(A \o B \o C, s, s3) /\ A \o B \o C \in Seq(Transitions)
  BY <1>10, <1>11, <1>12, ChainConcat, ConcatProperties
<1>14. Chain(A \o B \o C \o D, s, s4)
  BY <1>10, <1>11, <1>13, ChainConcat
<1>15. QED
  BY <1>9, <1>14 DEF s4

-----------------------------------------------------------------------------
(* The other operations *)

(* Reopening, disposing and invalidating take the lineage further on too:  *)
(* a reopen returns to an earlier stage and is counted.                    *)
LEMMA MaintainSound ==
    ASSUME TypeInv, SoundState(authority), Maintain
    PROVE  SoundState(authority') /\ Rank(authority') > Rank(authority)
<1> DEFINE s == authority
           n == authority'
<1>1. s \in CompactStates
  BY DEF TypeInv, TypeOK, StoreTypeOK
<1>2. Rank(s) = 5 * s.reopens + Stage(s) /\ s.reopens \in Nat /\ Stage(s) \in 0 .. 4
  BY <1>1, RankType DEF Rank
<1>3. CASE ReopenResults
  <2>1. n = Reopen(s) /\ Valid(n) /\ ReopenEligible(s)
    BY <1>3 DEF ReopenResults, Replace, Admissible
  <2>2. s.state \in {"validating", "correction_required"} /\ s.fix = NoCandidate
    BY <2>1 DEF ReopenEligible
  <2>3. ~s.denied
    BY <1>1, <2>2, SoundReview DEF UnderReview
  <2>4. /\ n \in CompactStates /\ n.state = "reviewing" /\ n.fix = NoCandidate /\ ~n.denied
        /\ n.reopens = s.reopens + 1
    BY <1>1, <2>1, <2>2, <2>3, MaintenanceTypes DEF Reopen, CompactStates
  <2> HIDE DEF s, n
  <2>5. SoundState(n)
    BY <2>1, <2>4, SoundOpen DEF SoundState, Earned
  <2>6. Stage(s) \in {1, 2} /\ Stage(n) = 0
    BY <1>1, <2>2, <2>4, StageOf
  <2>7. Rank(n) > Rank(s)
    BY <1>2, <2>4, <2>6 DEF Rank
  <2>8. QED
    BY <2>5, <2>7 DEF s, n
<1>4. CASE DisposeResult \/ InvalidatePristine
  <2>1. n \in {Dispose(s), Invalidate(s)} /\ Valid(n) /\ s.state = "reviewing"
    BY <1>4 DEF DisposeResult, InvalidatePristine, Replace, Admissible, PristineReviewing
  <2>2. ~s.denied
    BY <1>1, <2>1, SoundReview DEF UnderReview
  <2>3. /\ n \in CompactStates /\ n.state \in {"escalated", "invalidated"} /\ ~n.denied
        /\ n.reopens = s.reopens
    BY <1>1, <2>1, <2>2, MaintenanceTypes DEF Dispose, Invalidate, CompactStates
  <2> HIDE DEF s, n
  <2>4. Origin(n) = n
    BY <2>3, OriginOf
  <2>5. SoundState(n)
    BY <2>1, <2>3, <2>4 DEF SoundState, Earned, UnderReview
  <2>6. Stage(s) = 0 /\ Stage(n) \in {3, 4}
    BY <1>1, <2>1, <2>3, StageOf
  <2>7. Rank(n) > Rank(s)
    BY <1>1, <2>3, <2>6, RankGrows
  <2>8. QED
    BY <2>5, <2>7 DEF s, n
<1>5. QED
  BY <1>3, <1>4 DEF Maintain

(* A revoked approval keeps what it stood on.                              *)
LEMMA RevokeSound ==
    ASSUME TypeInv, SoundState(authority), Revoke
    PROVE  SoundState(authority') /\ Rank(authority') > Rank(authority)
<1> DEFINE s == authority
           n == authority'
<1>1. s \in CompactStates /\ s.state = "approved" /\ n = InvalidateApproved(s)
  BY DEF TypeInv, TypeOK, StoreTypeOK, Revoke
<1>2. ~s.denied /\ Origin(s) = s /\ ValidOpen(s) /\ Origin(n) = s
  BY <1>1, SoundOpen, OriginOf DEF SoundState
<1>3. n \in CompactStates /\ n.state = "invalidated" /\ n.denied /\ n.reopens = s.reopens
  BY <1>1, MaintenanceTypes DEF InvalidateApproved, CompactStates
<1>4. SoundState(s)
  OBVIOUS
<1> HIDE DEF s, n
<1>5. SoundState(n)
  BY <1>2, <1>3, <1>4 DEF SoundState, Valid, UnderReview
<1>6. Stage(s) = 3 /\ Stage(n) = 4
  BY <1>1, <1>3, StageOf
<1>7. Rank(n) > Rank(s)
  BY <1>1, <1>3, <1>6, RankGrows
<1>8. QED
  BY <1>5, <1>7 DEF s, n

(* Whatever evidence a FINALIZE reads is raw, or bound to the revision it  *)
(* read.                                                                   *)
LEMMA InputFresh ==
    ASSUME NEW s \in CompactStates, NEW r \in Requests, NEW e \in InputEvidence(s, r)
    PROVE  Fresh(s, e)
<1>1. CASE r.evidence \in {"passed", "failed"}
  <2>1. e = RawEvidence(r.evidence)
    BY <1>1 DEF InputEvidence
  <2>2. ~HasRecord(e)
    BY <2>1 DEF HasRecord, RawEvidence, NoEvidence
  <2>3. QED
    BY <2>2 DEF Fresh
<1>2. CASE r.evidence = "captured"
  <2>1. PICK c \in EvidenceTargets(s) : e = captured[c].record /\ Readable(captured[c], s)
    BY <1>2 DEF InputEvidence
  <2>2. s.state # "reviewing"
    BY <2>1 DEF EvidenceTargets, OpenCorrection
  <2>3. QED
    BY <2>1, <2>2 DEF Fresh, Readable
<1>3. CASE r.evidence = "none" /\ s.state = "validating"
  <2>1. \/ e = NoEvidence
        \/ \E c \in {s.current} : e = captured[c].record /\ Readable(captured[c], s)
    BY <1>3 DEF InputEvidence
  <2>2. QED
    BY <1>3, <2>1, NoRecord DEF Fresh, Readable
<1>4. CASE r.evidence = "none" /\ s.state # "validating"
  BY <1>4, NoRecord DEF InputEvidence, Fresh
<1>5. QED
  BY <1>1, <1>2, <1>3, <1>4, PayloadTypes

-----------------------------------------------------------------------------
(* The invariant *)

(* A finalizer's evidence is fresh as long as it may still plan with it.   *)
InputsOf(p) ==
    /\ pc[p] \in {"idle", "lost", "inspect", "entry"} => ~HasRecord(inputs[p])
    /\ pc[p] \in {"prepare", "reconcile"} => Fresh(seen[p], inputs[p])

(* A plan is a chain of sound transitions, and the finalizer works from    *)
(* the state its next transition expects.                                  *)
PlanOf(p) ==
    /\ pc[p] \in {"idle", "lost", "inspect", "entry"} => plan[p] = <<>>
    /\ \A i \in 1 .. Len(plan[p]) : SoundStep(plan[p][i])
    /\ \A i \in 1 .. Len(plan[p]) - 1 : plan[p][i + 1].expected = plan[p][i].next
    /\ pc[p] \in {"reconcile", "ahead"} /\ plan[p] # <<>> => seen[p] = plan[p][1].expected
    /\ pc[p] = "commit" => seen[p] = plan[p][done[p] + 1].expected

FinalizerSound(p) == SoundState(seen[p]) /\ InputsOf(p) /\ PlanOf(p)

PlanInv ==
    /\ TypeInv
    /\ SoundState(authority)
    /\ \A p \in Finalizers : FinalizerSound(p)

(* A finalizer that has returned holds nothing.                            *)
LEMMA LeaveSound ==
    ASSUME TypeInv, NEW p \in Finalizers, NEW how \in {"idle", "lost"}, NEW r, Leave(p, how, r)
    PROVE  FinalizerSound(p)'
<1>1. /\ pc'[p] \in {"idle", "lost"} /\ seen'[p] = Idle /\ inputs'[p] = NoEvidence
      /\ plan'[p] = <<>>
  BY DEF Leave, TypeInv, TypeOK, FinalizerTypeOK
<1>2. SoundState(Idle)
  BY NewStateSound DEF Idle, MaxCompactCorrectionAttempts
<1>3. QED
  BY <1>1, <1>2, NoRecord DEF FinalizerSound, InputsOf, PlanOf

LEMMA ReturnSound ==
    ASSUME TypeInv, NEW p \in Finalizers, Return(p)
    PROVE  FinalizerSound(p)'
BY LeaveSound DEF Return

(* Entering the lineage: the state read is the committed one.              *)
LEMMA EntrySound ==
    ASSUME PlanInv, NEW p \in Finalizers,
           (\E r \in Requests : Load(p, r)) \/ Inspect(p) \/ Enter(p)
    PROVE  FinalizerSound(p)'
<1> USE DEF TypeInv, TypeOK, FinalizerTypeOK, Goto
<1>1. /\ TypeInv /\ FinalizerSound(p) /\ SoundState(authority)
  BY DEF PlanInv
<1>2. CASE \E r \in Requests : Load(p, r)
  <2>1. /\ pc'[p] \in {"inspect", "entry"} /\ seen'[p] = authority
        /\ inputs'[p] = inputs[p] /\ plan'[p] = plan[p] /\ pc[p] \in {"idle", "lost"}
    BY <1>1, <1>2 DEF Load
  <2>2. QED
    BY <1>1, <2>1 DEF FinalizerSound, InputsOf, PlanOf
<1>3. CASE Inspect(p) /\ ~Return(p)
  <2>1. /\ pc'[p] \in {"complete", "publish", "reconcile"} /\ pc[p] = "inspect"
        /\ seen'[p] = seen[p] /\ inputs'[p] = inputs[p] /\ plan'[p] = plan[p]
    BY <1>1, <1>3 DEF Inspect
  <2>2. QED
    BY <1>1, <2>1 DEF FinalizerSound, InputsOf, PlanOf, Fresh
<1>4. CASE Enter(p) /\ ~Return(p)
  <2>1. PICK e \in InputEvidence(seen[p], payload[p]) :
          /\ pc'[p] \in {"prepare", "reconcile"} /\ pc[p] = "entry"
          /\ seen'[p] = seen[p] /\ inputs'[p] = e /\ plan'[p] = plan[p]
    BY <1>1, <1>4 DEF Enter
  <2>2. Fresh(seen[p], e)
    BY <1>1, InputFresh
  <2>3. QED
    BY <1>1, <2>1, <2>2 DEF FinalizerSound, InputsOf, PlanOf
<1>5. QED
  BY <1>1, <1>2, <1>3, <1>4, ReturnSound

LEMMA PrepareSound ==
    ASSUME PlanInv, NEW p \in Finalizers, Prepare(p)
    PROVE  FinalizerSound(p)'
<1> USE DEF TypeInv, TypeOK, StoreTypeOK, FinalizerTypeOK
<1>1. /\ TypeInv /\ FinalizerSound(p)
  BY DEF PlanInv
<1>2. CASE ~Return(p)
  <2> DEFINE s == seen[p]
             steps == Plan(s, payload[p], inputs[p], live)
  <2>1. /\ CanPlan(s, payload[p], inputs[p], live)
        /\ plan' = [plan EXCEPT ![p] = steps]
        /\ pc[p] = "prepare" /\ pc'[p] \in {"complete", "ahead", "reconcile"}
        /\ seen'[p] = s /\ inputs'[p] = inputs[p]
    BY <1>1, <1>2 DEF Prepare, Goto
  <2>2. SoundState(s) /\ Fresh(s, inputs[p])
    BY <1>1, <2>1 DEF FinalizerSound, InputsOf
  <2>3. Chain(steps, s, AfterAll(s, payload[p], inputs[p], live))
    BY <1>1, <2>1, <2>2, PlanSound
  <2>4. plan'[p] = steps
    BY <1>1, <2>1
  <2> HIDE DEF s, steps
  <2>5. PlanOf(p)'
    BY <2>1, <2>3, <2>4 DEF PlanOf, Chain
  <2>6. InputsOf(p)'
    BY <2>1, <2>2 DEF InputsOf
  <2>7. QED
    BY <2>1, <2>2, <2>5, <2>6 DEF FinalizerSound
<1>3. QED
  BY <1>1, <1>2, ReturnSound

LEMMA ReconcileSound ==
    ASSUME PlanInv, NEW p \in Finalizers, Reconcile(p)
    PROVE  FinalizerSound(p)'
<1>1. /\ TypeInv /\ FinalizerSound(p)
  BY DEF PlanInv
<1>2. CASE ~Return(p)
  <2>1. \A attempt : AfterReconcile(p, attempt) \in {"publish", "complete", "prepare", "ahead"}
    BY DEF AfterReconcile
  <2>2. PICK label \in {"publish", "complete", "prepare", "ahead"} : Goto(p, label)
    BY <1>2, <2>1 DEF Reconcile
  <2>3. /\ pc[p] = "reconcile" /\ pc'[p] = label
        /\ seen'[p] = seen[p] /\ inputs'[p] = inputs[p] /\ plan'[p] = plan[p]
    BY <1>1, <1>2, <2>2 DEF Reconcile, Goto, TypeInv, TypeOK, FinalizerTypeOK
  <2>4. QED
    BY <1>1, <2>3 DEF FinalizerSound, InputsOf, PlanOf
<1>3. QED
  BY <1>1, <1>2, ReturnSound

LEMMA WriteAheadSound ==
    ASSUME PlanInv, NEW p \in Finalizers, WriteAhead(p)
    PROVE  FinalizerSound(p)'
<1>1. /\ TypeInv /\ FinalizerSound(p)
  BY DEF PlanInv
<1>2. /\ pc[p] = "ahead" /\ seen'[p] = seen[p] /\ inputs'[p] = inputs[p] /\ plan'[p] = plan[p]
      /\ \/ pc'[p] = "ahead"
         \/ pc'[p] = "commit" /\ done'[p] = 0
  BY <1>1 DEF WriteAhead, Goto, TypeInv, TypeOK, FinalizerTypeOK
<1>3. plan[p] # <<>>
  BY <1>1, <1>2, NextTransitionType, EmptySeq
<1>4. QED
  BY <1>1, <1>2, <1>3 DEF FinalizerSound, InputsOf, PlanOf

LEMMA CommitSound ==
    ASSUME PlanInv, NEW p \in Finalizers, Commit(p)
    PROVE  /\ FinalizerSound(p)'
           /\ SoundState(authority')
           /\ authority' # authority => Rank(authority') > Rank(authority)
<1> DEFINE t == plan[p][done[p] + 1]
<1>1. /\ TypeInv /\ FinalizerSound(p) /\ SoundState(authority) /\ pc[p] = "commit"
  BY DEF PlanInv, Commit
<1>2. done[p] + 1 \in 1 .. Len(plan[p]) /\ done[p] \in Nat /\ Len(plan[p]) \in Nat
  BY <1>1, NextTransitionType DEF TypeInv, TypeOK, FinalizerTypeOK
<1>3. SoundStep(t) /\ t.expected = seen[p]
  BY <1>1, <1>2 DEF FinalizerSound, PlanOf
<1>4. CASE Accepts(seen[p], t)
  <2>1. /\ authority' = t.next /\ seen'[p] = t.next /\ done'[p] = done[p] + 1
        /\ pc'[p] = AfterCommit(p, t.next)
        /\ inputs'[p] = inputs[p] /\ plan'[p] = plan[p]
    BY <1>1, <1>4 DEF Commit, Goto, TypeInv, TypeOK, FinalizerTypeOK
  <2> HIDE DEF t
  <2>2. /\ pc'[p] \in {"commit", "publish", "complete"}
        /\ pc'[p] = "commit" => done[p] + 1 < Len(plan[p])
    BY <2>1 DEF AfterCommit
  <2>3. pc'[p] = "commit" => seen'[p] = plan'[p][done'[p] + 1].expected
    <3> SUFFICES ASSUME pc'[p] = "commit"
                 PROVE  t.next = plan[p][(done[p] + 1) + 1].expected
      BY <2>1
    <3>1. done[p] + 1 \in 1 .. Len(plan[p]) - 1
      BY <1>2, <2>2
    <3>2. QED
      BY <1>1, <3>1 DEF FinalizerSound, PlanOf, t
  <2>4. SoundState(t.next)
    BY <1>3 DEF SoundStep
  <2>5. FinalizerSound(p)'
    BY <1>1, <2>1, <2>2, <2>3, <2>4 DEF FinalizerSound, InputsOf, PlanOf
  <2>6. authority' # authority => Rank(authority') > Rank(authority)
    BY <1>3, <1>4, <2>1 DEF Accepts, SoundStep
  <2>7. QED
    BY <2>1, <2>4, <2>5, <2>6
<1>5. CASE ~Accepts(seen[p], t)
  <2>1. UNCHANGED authority /\ (Leave(p, "lost", request[p]) \/ Return(p))
    BY <1>5 DEF Commit
  <2>2. QED
    BY <1>1, <2>1, LeaveSound, ReturnSound
<1>6. QED
  BY <1>4, <1>5

LEMMA FinishSound ==
    ASSUME PlanInv, NEW p \in Finalizers,
           Publish(p) \/ Confirm(p) \/ MarkPublished(p) \/ Complete(p) \/ Abort(p)
    PROVE  FinalizerSound(p)'
<1>1. /\ TypeInv /\ FinalizerSound(p)
  BY DEF PlanInv
<1>2. CASE ~Return(p)
  <2>1. /\ pc'[p] \in {"confirm", "mark", "complete"}
        /\ seen'[p] = seen[p] /\ inputs'[p] = inputs[p] /\ plan'[p] = plan[p]
    BY <1>1, <1>2 DEF Publish, Confirm, MarkPublished, Complete, Abort, Goto, TypeInv, TypeOK,
                      FinalizerTypeOK
  <2>2. QED
    BY <1>1, <2>1 DEF FinalizerSound, InputsOf, PlanOf
<1>3. QED
  BY <1>1, <1>2, ReturnSound

(* Whoever moves, what it commits is sound and further on.                 *)
LEMMA StepSound ==
    ASSUME PlanInv, [Next]_vars
    PROVE  /\ SoundState(authority')
           /\ authority' # authority => Rank(authority') > Rank(authority)
           /\ \A p \in Finalizers : FinalizerSound(p)'
<1>1. ASSUME NEW p \in Finalizers, Finalize(p)
      PROVE  /\ SoundState(authority')
             /\ authority' # authority => Rank(authority') > Rank(authority)
             /\ \A q \in Finalizers : FinalizerSound(q)'
  <2>1. FinalizerSound(p)'
    BY <1>1, EntrySound, PrepareSound, ReconcileSound, WriteAheadSound, CommitSound, FinishSound
       DEF Finalize, Run
  <2>2. ASSUME NEW q \in Finalizers, q # p
        PROVE  FinalizerSound(q)'
    BY <1>1, <2>2, OneMoves DEF PlanInv, FinalizerSound, InputsOf, PlanOf
  <2>3. \/ Commit(p)
        \/ UNCHANGED authority
    BY <1>1 DEF Finalize, Run, Load, Inspect, Enter, Prepare, Reconcile, WriteAhead, Publish,
                Confirm, MarkPublished, Complete, Abort, store
  <2>4. QED
    BY <2>1, <2>2, <2>3, CommitSound DEF PlanInv
<1>2. CASE Maintain \/ Revocation
  <2>1. UNCHANGED <<pc, seen, inputs, plan, done>>
    BY <1>2 DEF Maintain, ReopenResults, DisposeResult, InvalidatePristine, Replace,
                Revocation, Revoke, RemoveReceipt, AbortRevoke, ReplayRevoke, fins
  <2>2. \/ Maintain \/ Revoke
        \/ UNCHANGED authority
    BY <1>2 DEF Revocation, RemoveReceipt, AbortRevoke, ReplayRevoke
  <2>3. QED
    BY <2>1, <2>2, MaintainSound, RevokeSound DEF PlanInv, FinalizerSound, InputsOf, PlanOf
<1>3. CASE Capture \/ Deliver \/ (\E c \in Candidates : Edit(c)) \/ UNCHANGED vars
  <2>1. UNCHANGED <<authority, pc, seen, inputs, plan, done>>
    BY <1>3 DEF Capture, BeginCapture, CapturePayload, CaptureRecord, AbortCapture, Deliver,
                GateEvaluate, GateAllow, GateDeny, Edit, vars, store, fins
  <2>2. QED
    BY <2>1 DEF PlanInv, FinalizerSound, InputsOf, PlanOf
<1>4. QED
  BY <1>1, <1>2, <1>3 DEF Next

LEMMA PlanInvariant == Spec => []PlanInv
<1>1. Init => PlanInv
  <2> SUFFICES ASSUME Init PROVE PlanInv
    OBVIOUS
  <2>1. TypeInv
    BY InitType
  <2>2. SoundState(authority)
    BY NewStateSound DEF Init
  <2>3. SoundState(Idle)
    BY NewStateSound DEF Idle, MaxCompactCorrectionAttempts
  <2>4. \A p \in Finalizers : FinalizerSound(p)
    BY <2>3, NoRecord DEF Init, FinalizerSound, InputsOf, PlanOf
  <2>5. QED
    BY <2>1, <2>2, <2>4 DEF PlanInv
<1>2. PlanInv /\ [Next]_vars => PlanInv'
  BY NextType, StepSound DEF PlanInv
<1>3. QED
  BY <1>1, <1>2, PTL DEF Spec

-----------------------------------------------------------------------------
(* An approval stands on passed verification, captured for the revision it *)
(* replaced, and on at most one correction within the budget - whatever    *)
(* finalizers, captures, reopens, edits and crashes came before it.        *)
THEOREM ApprovalIsEarned == Spec => []ApprovalEarned
<1>1. PlanInv => ApprovalEarned
  BY DEF PlanInv, SoundState, Earned, ApprovalEarned
<1>2. QED
  BY <1>1, PlanInvariant, PTL

(* The store never refuses a planned successor of a state that is still    *)
(* committed: preparation and the store's own validation agree.            *)
THEOREM PlansAreAdmissible == Spec => []PlanAdmissible
<1>1. PlanInv => PlanAdmissible
  <2> SUFFICES ASSUME PlanInv, NEW p \in Finalizers, pc[p] = "commit", authority = seen[p]
               PROVE  LET t == plan[p][done[p] + 1]
                      IN  Admissible(authority, t.next, t.operation)
    BY DEF PlanAdmissible
  <2>1. done[p] + 1 \in 1 .. Len(plan[p])
    BY NextTransitionType DEF PlanInv
  <2>2. SoundStep(plan[p][done[p] + 1]) /\ seen[p] = plan[p][done[p] + 1].expected
    BY <2>1 DEF PlanInv, FinalizerSound, PlanOf
  <2>3. QED
    BY <2>2 DEF SoundStep
<1>2. QED
  BY <1>1, PlanInvariant, PTL

(* Every commit, reopen, disposition, invalidation and revocation takes    *)
(* the lineage to a higher rank, so no revision ever becomes current again *)
(* and the compare-and-swap cannot mistake a stale expectation for the     *)
(* committed state.                                                        *)
THEOREM NoRevisionRecurs == Spec => RevisionsNeverRecur
<1>1. PlanInv /\ [Next]_vars => [authority' # authority => Rank(authority') > Rank(authority)]_authority
  BY StepSound
<1>2. QED
  BY <1>1, PlanInvariant, PTL DEF Spec, RevisionsNeverRecur

-----------------------------------------------------------------------------
(* V.  A sole finalizer *)

(* With two finalizers an attempt may be completed while its decision is   *)
(* unpublished; with one it may not.  The invariant says why: whatever a   *)
(* completed attempt could still record ranks below the committed state,   *)
(* so no later commit makes the committed state one of its transitions.    *)

(* Request q gives a FINALIZE something to do in state s.                  *)
Works(s, q) ==
    \/ s.state = "reviewing" /\ q.results \in Results
    \/ BeginsFix(s, q)
    \/ OpenCorrection(s)
       /\ (q.validation # NoCandidate \/ q.evidence.outcome = "procedural_failure")
    \/ s.state = "validating" /\ q.evidence.outcome # "none"

(* The state request q leaves after its review, and the first two steps it *)
(* may record.                                                             *)
Answered(q)     == Reviewed(q.expected, q)
ReviewStep(q)   == Transition("review/complete-review", q.expected, Answered(q))
ForecastStep(q) == Transition("review/begin-fix", Answered(q), Begun(Answered(q), q))

(* Transition t decides the review from the state request q left it in.    *)
Decides(q, t) ==
    /\ t.expected = Answered(q)
    /\ t.expected.state = "validating" \/ OpenCorrection(t.expected)
    /\ Works(t.expected, q)
    /\ Terminal(t.next) /\ t.next.reopens = t.expected.reopens

(* What a journaled attempt of request q may record.                       *)
Allowed(q, t) ==
    \/ q.expected.state = "reviewing" /\ t = ReviewStep(q)
    \/ BeginsFix(Answered(q), q) /\ t = ForecastStep(q)
    \/ Decides(q, t)

(* A plan of request q stops at the review only when nothing is left.      *)
Plans(q, steps) ==
    /\ \A k \in DOMAIN steps : Allowed(q, steps[k])
    /\ steps # <<>> /\ steps[Len(steps)] = ReviewStep(q) => ~Works(Answered(q), q)

(* What a journaled attempt looks like.                                    *)
Shaped(a) ==
    LET q == a.request  x == a.transitions IN
    /\ Terminal(q.expected) => x = <<>>
    /\ ~Terminal(q.expected) => Works(q.expected, q)
    /\ \A m \in DOMAIN x : Allowed(q, x[m])
    /\ \A m, n \in DOMAIN x : x[m] = x[n] => m = n
    /\ q.expected.state = "reviewing" /\ x # <<>> => x[1] = ReviewStep(q)

(* A state of rank n has left attempt a behind.                            *)
Passed(a, n) ==
    /\ ~Terminal(a.request.expected) => Rank(a.request.expected) < n
    /\ \A m \in DOMAIN a.transitions : Rank(a.transitions[m].next) <= n

(* No attempt starts beyond rank n, and n has passed the completed ones.   *)
Reach(j, n) ==
    \A i \in DOMAIN j :
        /\ Rank(j[i].request.expected) <= n
        /\ j[i].completed => Passed(j[i], n)

(* What CompletedIsPublished asks for: a receipt, or a revoked approval.   *)
Attests == receipt # NoReceipt \/ authority.denied

(* Request q asks what payload r and evidence e ask.                       *)
Asks(q, r, e) ==
    /\ q.results = r.results /\ q.lines = r.lines /\ q.validation = r.validation
    /\ q.evidence.outcome = e.outcome

(* What a FINALIZE remembers of the journal: the pending attempt and the   *)
(* place of state s in it.                                                 *)
EntryOf(j, s, n) ==
    /\ n.pending <=> Incomplete(j) # {}
    /\ n.index = IF Incomplete(j) # {} THEN TransitionIndex(j[Pending(j)], s) ELSE 0

(* The open attempts of request q.                                         *)
Open(j, q) == {i \in DOMAIN j : j[i].request = q /\ ~j[i].completed}

(* State s is where an open attempt of q, which answers the same payload,  *)
(* left its review.                                                        *)
Resumes(j, s, q, r, e) ==
    /\ Asks(q, r, e)
    /\ q.expected.state = "reviewing" /\ s = Answered(q)
    /\ \E i \in Open(j, q) : j[i].transitions # <<>>

(* The plan prepared for q fits the payload and the pending attempt.       *)
Fits(s, q, r, e, n, steps) ==
    /\ Asks(q, r, e)
    /\ n.index = 0 =>
          /\ Plans(q, steps)
          /\ IF steps = <<>> THEN n.pending /\ ~Works(s, q) ELSE Works(s, q)

(* The write-ahead of the plan belongs to an open attempt of q.            *)
Drives(j, s, q, steps) ==
    /\ Plans(q, steps)
    /\ \E i \in Open(j, q) : s = q.expected \/ j[i].transitions # <<>>

(* Completing the attempts of q at the undecided state s is safe: s has    *)
(* passed them.                                                            *)
Finishes(j, s, q) ==
    ~Terminal(s) /\ \A i \in DOMAIN j : j[i].request = q => Passed(j[i], Rank(s))

(* Where a finalizer is, and what it has established by then.              *)
RunningOf(p) ==
    /\ pc[p] \notin {"idle", "lost"} =>
          Rank(seen[p]) <= Rank(authority) /\ Reach(journal, Rank(seen[p]))
    /\ pc[p] = "inspect" => Terminal(seen[p])
    /\ pc[p] \in {"entry", "prepare", "ahead"} => ~Terminal(seen[p])
    /\ pc[p] \in {"prepare", "reconcile"} /\ ~Terminal(seen[p]) =>
          /\ EntryOf(journal, seen[p], entry[p])
          /\ inputs[p].outcome = "procedural_failure" => HasRecord(inputs[p])
    /\ pc[p] = "prepare" =>
          IF request[p] = NoRequest THEN entry[p].index = 0
          ELSE Resumes(journal, seen[p], request[p], payload[p], inputs[p])
    /\ pc[p] = "reconcile" => request[p].expected = seen[p]
    /\ pc[p] = "reconcile" /\ ~Terminal(seen[p]) =>
          Fits(seen[p], request[p], payload[p], inputs[p], entry[p], plan[p])
    /\ pc[p] = "ahead" => Drives(journal, seen[p], request[p], plan[p])
    /\ pc[p] = "commit" => Plans(request[p], plan[p])
    /\ pc[p] = "mark" => Attests
    /\ pc[p] = "complete" => Attests \/ Finishes(journal, seen[p], request[p])

(* Journal j of a lineage whose committed state has rank n: its attempts   *)
(* are well shaped and answer distinct requests.                           *)
JournalOf(j, n) ==
    /\ \A i \in DOMAIN j : Shaped(j[i])
    /\ \A i, k \in DOMAIN j : j[i].request = j[k].request => i = k
    /\ Reach(j, n)

(* The inductive invariant.                                                *)
SoleInv ==
    /\ JournalOf(journal, Rank(authority))
    /\ \A p \in Finalizers : RunningOf(p)
    /\ CompletedIsPublished

-----------------------------------------------------------------------------
(* What a request may record *)

(* A request that works on a review names its results.                     *)
Answers(q) == q.expected.state = "reviewing" => q.results \in Results

LEMMA AnsweredIs ==
    ASSUME NEW q \in FinalizeRequests, Answers(q)
    PROVE  /\ Answered(q) \in CompactStates
           /\ Answered(q).reopens = q.expected.reopens /\ Answered(q).lines = q.expected.lines
           /\ IF q.expected.state = "reviewing"
              THEN Answered(q).state \in {"escalated", "correction_required", "validating"}
              ELSE Answered(q) = q.expected
<1>1. q.expected \in CompactStates
  BY DEF FinalizeRequests
<1>2. CASE q.expected.state = "reviewing"
  <2>1. q.results \in Results /\ Answered(q) = CompleteReview(q.expected, q.results)
    BY <1>2 DEF Answers, Answered, Reviewed, CompletesReview
  <2>2. CompleteReview(q.expected, q.results) \in CompactStates
    BY <1>1, <2>1, OperationTypes
  <2>3. CompleteReview(q.expected, q.results).state
            \in {"escalated", "correction_required", "validating"}
    BY <1>1, <2>1 DEF CompleteReview, Results, CompactStates
  <2>4. /\ CompleteReview(q.expected, q.results).reopens = q.expected.reopens
        /\ CompleteReview(q.expected, q.results).lines = q.expected.lines
    BY <1>1 DEF CompleteReview, CompactStates
  <2>5. QED
    BY <1>2, <2>1, <2>2, <2>3, <2>4
<1>3. CASE q.expected.state # "reviewing"
  BY <1>1, <1>3 DEF Answered, Reviewed, CompletesReview
<1>4. QED
  BY <1>2, <1>3

LEMMA ForecastIs ==
    ASSUME NEW q \in FinalizeRequests, Answers(q), BeginsFix(Answered(q), q)
    PROVE  /\ Begun(Answered(q), q) \in CompactStates
           /\ Begun(Answered(q), q).reopens = q.expected.reopens
           /\ Begun(Answered(q), q).lines > 0
           /\ Begun(Answered(q), q).state \in {"escalated", "correction_required"}
           /\ Answered(q).state = "correction_required" /\ Answered(q).lines = 0
<1> DEFINE s == Answered(q)
<1>1. s \in CompactStates /\ s.reopens = q.expected.reopens
  BY AnsweredIs
<1>2. s.state = "correction_required" /\ s.lines = 0 /\ q.lines > 0 /\ q.lines \in Nat
  BY DEF BeginsFix, FinalizeRequests
<1>3. Begun(s, q) = BeginCorrection(s, q.lines)
  BY DEF Begun
<1> HIDE DEF s
<1>4. BeginCorrection(s, q.lines) \in CompactStates
  BY <1>1, <1>2, OperationTypes
<1>5. /\ BeginCorrection(s, q.lines).reopens = s.reopens
      /\ BeginCorrection(s, q.lines).lines = q.lines
      /\ BeginCorrection(s, q.lines).state \in {"escalated", "correction_required"}
  BY <1>1, <1>2 DEF BeginCorrection, CompactStates
<1>6. QED
  BY <1>1, <1>2, <1>3, <1>4, <1>5 DEF s

(* A transition a request may record keeps the reopens and decides at most. *)
LEMMA AllowedIs ==
    ASSUME NEW q \in FinalizeRequests, Answers(q), NEW t \in Transitions, Allowed(q, t)
    PROVE  /\ t.next.reopens = q.expected.reopens
           /\ Stage(t.next) \in 0 .. 3
           /\ ~Terminal(t.next) =>
                 \/ q.expected.state = "reviewing" /\ t = ReviewStep(q)
                 \/ BeginsFix(Answered(q), q) /\ t = ForecastStep(q)
<1>1. t.next \in CompactStates
  BY DEF Transitions
<1>2. CASE q.expected.state = "reviewing" /\ t = ReviewStep(q)
  <2>1. t.next = Answered(q)
    BY <1>2 DEF ReviewStep, Transition
  <2>2. t.next.reopens = q.expected.reopens
        /\ t.next.state \in {"escalated", "correction_required", "validating"}
    BY <1>2, <2>1, AnsweredIs
  <2>3. Stage(t.next) \in {1, 2, 3}
    BY <1>1, <2>2, StageOf
  <2>4. QED
    BY <1>2, <2>2, <2>3
<1>3. CASE BeginsFix(Answered(q), q) /\ t = ForecastStep(q)
  <2>1. t.next = Begun(Answered(q), q)
    BY <1>3 DEF ForecastStep, Transition
  <2>2. t.next.reopens = q.expected.reopens
        /\ t.next.state \in {"escalated", "correction_required"}
    BY <1>3, <2>1, ForecastIs
  <2>3. Stage(t.next) \in {1, 2, 3}
    BY <1>1, <2>2, StageOf
  <2>4. QED
    BY <1>3, <2>2, <2>3
<1>4. CASE Decides(q, t)
  <2>1. t.next.reopens = q.expected.reopens /\ Terminal(t.next)
    BY <1>4, AnsweredIs DEF Decides
  <2>2. Stage(t.next) = 3
    BY <1>1, <2>1, StageOf DEF Terminal
  <2>3. QED
    BY <2>1, <2>2
<1>5. QED
  BY <1>2, <1>3, <1>4 DEF Allowed

(* What a journaled attempt is made of.                                    *)
LEMMA ShapedIs ==
    ASSUME NEW a \in FinalizeAttempts, Shaped(a)
    PROVE  /\ a.request \in FinalizeRequests /\ a.request.expected \in CompactStates
           /\ a.transitions \in Seq(Transitions)
           /\ \A m \in DOMAIN a.transitions : a.transitions[m] \in Transitions
           /\ Answers(a.request)
           /\ ~Terminal(a.request.expected) =>
                 a.request.expected.state \in {"reviewing", "correction_required", "validating"}
<1>1. a.request \in FinalizeRequests /\ a.transitions \in Seq(Transitions)
  BY DEF FinalizeAttempts
<1>2. a.request.expected \in CompactStates
  BY <1>1 DEF FinalizeRequests
<1>3. \A m \in DOMAIN a.transitions : a.transitions[m] \in Transitions
  BY <1>1, ElementOfSeq
<1>4. ~Terminal(a.request.expected) => Works(a.request.expected, a.request)
  BY DEF Shaped
<1>5. Answers(a.request)
  BY <1>4 DEF Answers, Terminal, Works, BeginsFix, OpenCorrection
<1>6. QED
  BY <1>1, <1>2, <1>3, <1>4, <1>5 DEF Works, BeginsFix, OpenCorrection

(* An attempt passes a state that ends what its request gives to do.       *)
LEMMA ReviewExhausts ==
    ASSUME NEW a \in FinalizeAttempts, Shaped(a), a.request.expected.state = "reviewing",
           \A m \in DOMAIN a.transitions : a.transitions[m] = ReviewStep(a.request)
    PROVE  Passed(a, Rank(Answered(a.request)))
<1> DEFINE q == a.request
           s == Answered(q)
<1>1. q \in FinalizeRequests /\ q.expected \in CompactStates /\ Answers(q)
  BY ShapedIs
<1>2. s \in CompactStates /\ s.reopens = q.expected.reopens
      /\ s.state \in {"escalated", "correction_required", "validating"}
  BY <1>1, AnsweredIs
<1>3. Stage(s) > Stage(q.expected)
  BY <1>1, <1>2, StageOf
<1>4. Rank(s) > Rank(q.expected)
  BY <1>1, <1>2, <1>3, RankGrows
<1>5. Rank(s) \in Nat
  BY <1>2, RankType
<1>6. \A m \in DOMAIN a.transitions : a.transitions[m].next = s
  BY DEF ReviewStep, Transition
<1>7. QED
  BY <1>4, <1>5, <1>6 DEF Passed

LEMMA ForecastExhausts ==
    ASSUME NEW a \in FinalizeAttempts, Shaped(a), BeginsFix(Answered(a.request), a.request)
    PROVE  Passed(a, Rank(Begun(Answered(a.request), a.request)))
<1> DEFINE q == a.request
           s == Answered(q)
           n == Begun(s, q)
<1>1. q \in FinalizeRequests /\ q.expected \in CompactStates /\ Answers(q)
  BY ShapedIs
<1>2. s \in CompactStates /\ s.reopens = q.expected.reopens
      /\ s.state = "correction_required" /\ s.lines = 0
  BY <1>1, AnsweredIs, ForecastIs
<1>3. n \in CompactStates /\ n.reopens = q.expected.reopens
      /\ n.lines > 0 /\ n.state \in {"escalated", "correction_required"}
  BY <1>1, ForecastIs
<1>s. q.expected.state = "reviewing" \/ q.expected = s
  BY <1>1, AnsweredIs
<1> HIDE DEF n, s
<1>4. Stage(s) = 1 /\ Stage(n) \in {2, 3}
  BY <1>2, <1>3, StageOf
<1>5. Stage(q.expected) \in {0, 1}
  BY <1>1, <1>4, <1>s, StageOf
<1>6. Rank(n) > Rank(q.expected) /\ Rank(n) > Rank(s) /\ Rank(n) \in Nat /\ Rank(s) \in Nat
  BY <1>1, <1>2, <1>3, <1>4, <1>5, RankGrows, RankType
<1>7. ASSUME NEW m \in DOMAIN a.transitions
      PROVE  Rank(a.transitions[m].next) <= Rank(n)
  <2>1. Allowed(q, a.transitions[m])
    BY DEF Shaped
  <2>2. ~Decides(q, a.transitions[m])
    BY <1>2 DEF Decides, OpenCorrection, s
  <2>3. a.transitions[m].next \in {s, n}
    BY <2>1, <2>2 DEF Allowed, ReviewStep, ForecastStep, Transition, s, n
  <2>4. QED
    BY <1>6, <2>3
<1>8. QED
  BY <1>6, <1>7 DEF Passed, n, s

(* With nothing left to do after its review, an attempt records only that. *)
LEMMA OnlyReview ==
    ASSUME NEW a \in FinalizeAttempts, Shaped(a), ~Works(Answered(a.request), a.request)
    PROVE  \A m \in DOMAIN a.transitions : a.transitions[m] = ReviewStep(a.request)
BY DEF Shaped, Allowed, Decides, Works

(* Where a resumed attempt stands at an undecided state it journaled.      *)
LEMMA Indexed ==
    ASSUME NEW a \in FinalizeAttempts, Shaped(a), NEW s \in CompactStates, ~Terminal(s),
           TransitionIndex(a, s) > 0
    PROVE  IF TransitionIndex(a, s) = Len(a.transitions)
           THEN Passed(a, Rank(s))
           ELSE /\ a.request.expected.state = "reviewing" /\ s = Answered(a.request)
                /\ a.transitions # <<>>
<1> DEFINE q == a.request
           x == a.transitions
           n == TransitionIndex(a, s)
           l == Len(x)
<1>1. n \in DOMAIN x /\ x[n].next = s
  BY TransitionIndexType
<1>2. q \in FinalizeRequests /\ Answers(q) /\ x \in Seq(Transitions) /\ x[n] \in Transitions
  BY <1>1, ShapedIs
<1>3. l \in Nat /\ l \in DOMAIN x /\ 1 \in DOMAIN x /\ n \in 1 .. l /\ x # <<>>
  BY <1>1, <1>2, EmptySeq
<1>4. /\ Allowed(q, x[n]) /\ Allowed(q, x[l])
      /\ \A i, k \in DOMAIN x : x[i] = x[k] => i = k
      /\ q.expected.state = "reviewing" => x[1] = ReviewStep(q)
  BY <1>3 DEF Shaped
<1>5. \/ q.expected.state = "reviewing" /\ x[n] = ReviewStep(q)
      \/ BeginsFix(Answered(q), q) /\ x[n] = ForecastStep(q)
  BY <1>1, <1>2, <1>4, AllowedIs
<1> HIDE DEF n, l
<1>6. CASE q.expected.state = "reviewing" /\ x[n] = ReviewStep(q)
  <2>1. n = 1 /\ s = Answered(q)
    BY <1>1, <1>3, <1>4, <1>6 DEF ReviewStep, Transition
  <2>2. ASSUME n = l
        PROVE  Passed(a, Rank(s))
    <3>1. \A m \in DOMAIN x : m = 1
      BY <1>2, <2>1, <2>2 DEF l
    <3>2. \A m \in DOMAIN x : x[m] = ReviewStep(q)
      BY <1>4, <1>6, <3>1
    <3>3. QED
      BY <1>6, <2>1, <3>2, ReviewExhausts
  <2>3. QED
    BY <1>3, <1>6, <2>1, <2>2 DEF n, l
<1>7. CASE BeginsFix(Answered(q), q) /\ x[n] = ForecastStep(q)
  <2>1. s = Begun(Answered(q), q)
    BY <1>1, <1>7 DEF ForecastStep, Transition
  <2>2. Passed(a, Rank(s))
    BY <1>7, <2>1, ForecastExhausts
  <2>3. n = l
    <3>1. ~Decides(q, x[l])
      BY <1>2, <1>7, ForecastIs DEF Decides, OpenCorrection
    <3>2. CASE x[l] = ForecastStep(q)
      BY <1>1, <1>3, <1>4, <1>7, <3>2
    <3>3. CASE q.expected.state = "reviewing" /\ x[l] = ReviewStep(q)
      <4>1. l = 1
        BY <1>3, <1>4, <3>3
      <4>2. QED
        BY <1>3, <4>1
    <3>4. QED
      BY <1>4, <3>1, <3>2, <3>3 DEF Allowed
  <2>4. QED
    BY <2>2, <2>3 DEF n, l
<1>8. QED
  BY <1>5, <1>6, <1>7

(* The elements of a concatenation are those of its parts.                 *)
Within(steps, T) == \A k \in DOMAIN steps : steps[k] \in T

LEMMA WithinConcat ==
    ASSUME NEW u \in Seq(Transitions), NEW v \in Seq(Transitions), NEW T,
           Within(u, T), Within(v, T)
    PROVE  Within(u \o v, T)
<1>1. /\ Len(u) \in Nat /\ Len(v) \in Nat /\ DOMAIN (u \o v) = 1 .. Len(u) + Len(v)
      /\ \A k \in 1 .. Len(u) + Len(v) :
            (u \o v)[k] = IF k <= Len(u) THEN u[k] ELSE v[k - Len(u)]
  BY ConcatProperties
<1>2. ASSUME NEW k \in 1 .. Len(u) + Len(v)
      PROVE  IF k <= Len(u) THEN k \in DOMAIN u ELSE k - Len(u) \in DOMAIN v
  BY <1>1
<1>3. QED
  BY <1>1, <1>2 DEF Within

LEMMA StepWithin ==
    ASSUME NEW op, NEW prev, NEW next, NEW T, prev # next => Transition(op, prev, next) \in T
    PROVE  Within(Step(op, prev, next), T)
BY DEF Within, Step

(* What a plan steps through, given the request that asks for it.          *)
LEMMA PlanStates ==
    ASSUME NEW s \in CompactStates, NEW r \in Requests, NEW e \in Evidence,
           NEW tree \in Candidates, CanPlan(s, r, e, tree), SoundState(s)
    PROVE  /\ s.state = "reviewing" =>
                 /\ Reviewed(s, r).state \in {"escalated", "correction_required", "validating"}
                 /\ Reviewed(s, r).lines = 0
                 /\ r.results \in Results
           /\ s.state # "reviewing" => Reviewed(s, r) = s
           /\ OpenCorrection(s) => AfterReview(s, r) = s
           /\ OpenCorrection(s) /\ AfterFix(s, r, e, tree) # s =>
                 /\ Escalates(s, e) \/ Corrects(s, r, e)
                 /\ Terminal(AfterFix(s, r, e, tree))
                 /\ AfterFix(s, r, e, tree).reopens = s.reopens
           /\ OpenCorrection(s) /\ (Escalates(s, e) \/ Corrects(s, r, e)) =>
                 Terminal(AfterFix(s, r, e, tree))
           /\ ~OpenCorrection(s) => AfterFix(s, r, e, tree) = AfterReview(s, r)
           /\ BeginsFix(Reviewed(s, r), r) =>
                 /\ AfterReview(s, r).state \in {"escalated", "correction_required"}
                 /\ AfterReview(s, r).lines > 0
           /\ ~BeginsFix(Reviewed(s, r), r) => AfterReview(s, r) = Reviewed(s, r)
<1>1. ASSUME s.state = "reviewing"
      PROVE  /\ Reviewed(s, r).state \in {"escalated", "correction_required", "validating"}
             /\ Reviewed(s, r).lines = 0
             /\ r.results \in Results
  <2>1. r.results \in Results /\ Reviewed(s, r) = CompleteReview(s, r.results)
    BY <1>1 DEF CanPlan, CanCompleteReview, CompletesReview, Reviewed
  <2>2. s.lines = 0
    BY <1>1, SoundReview DEF UnderReview
  <2>3. QED
    BY <2>1, <2>2 DEF CompleteReview, Results, CompactStates
<1>2. s.state # "reviewing" => Reviewed(s, r) = s
  BY DEF Reviewed, CompletesReview
<1>3. OpenCorrection(s) => AfterReview(s, r) = s
  <2>1. s.lines \in Nat
    BY RankType
  <2>2. QED
    BY <1>2, <2>1 DEF OpenCorrection, AfterReview, Begun, BeginsFix
<1>4. ASSUME OpenCorrection(s), Escalates(s, e) \/ Corrects(s, r, e)
      PROVE  /\ Terminal(AfterFix(s, r, e, tree))
             /\ AfterFix(s, r, e, tree).reopens = s.reopens
  <2>1. AfterFix(s, r, e, tree) \in {EscalateCorrectionVerification(s, e),
                                     CompleteCorrectionVerification(s, tree, e)}
    BY <1>4 DEF AfterFix, Corrected
  <2>2. /\ EscalateCorrectionVerification(s, e).state = "escalated"
        /\ EscalateCorrectionVerification(s, e).reopens = s.reopens
        /\ CompleteCorrectionVerification(s, tree, e).state = "approved"
        /\ CompleteCorrectionVerification(s, tree, e).reopens = s.reopens
    BY DEF EscalateCorrectionVerification, CompleteCorrectionVerification, CompactStates
  <2>3. QED
    BY <2>1, <2>2 DEF Terminal
<1>5. OpenCorrection(s) /\ AfterFix(s, r, e, tree) # s => Escalates(s, e) \/ Corrects(s, r, e)
  BY DEF AfterFix, Corrected
<1>6. ~OpenCorrection(s) => AfterFix(s, r, e, tree) = AfterReview(s, r)
  BY DEF AfterFix
<1>7. ASSUME BeginsFix(Reviewed(s, r), r)
      PROVE  /\ AfterReview(s, r).state \in {"escalated", "correction_required"}
             /\ AfterReview(s, r).lines > 0
  <2>1. Reviewed(s, r) \in CompactStates
    BY PlannedStateTypes
  <2>2. AfterReview(s, r) = BeginCorrection(Reviewed(s, r), r.lines) /\ r.lines > 0
    BY <1>7 DEF AfterReview, Begun, BeginsFix
  <2>3. QED
    BY <1>7, <2>1, <2>2 DEF BeginCorrection, BeginsFix, CompactStates
<1>8. ~BeginsFix(Reviewed(s, r), r) => AfterReview(s, r) = Reviewed(s, r)
  BY DEF AfterReview, Begun
<1>9. QED
  BY <1>1, <1>2, <1>3, <1>4, <1>5, <1>6, <1>7, <1>8

LEMMA VerifiedIs ==
    ASSUME NEW s \in CompactStates, NEW e
    PROVE  IF Verifies(s, e)
           THEN Terminal(Verified(s, e)) /\ Verified(s, e).reopens = s.reopens /\ Verified(s, e) # s
           ELSE Verified(s, e) = s
<1>1. CASE Verifies(s, e)
  <2>1. Verified(s, e) = CompleteVerification(s, e) /\ s.state = "validating"
    BY <1>1 DEF Verified, Verifies
  <2>2. /\ CompleteVerification(s, e).state \in {"approved", "escalated"}
        /\ CompleteVerification(s, e).reopens = s.reopens
    BY DEF CompleteVerification, CompactStates
  <2>3. QED
    BY <1>1, <2>1, <2>2 DEF Terminal
<1>2. QED
  BY <1>1 DEF Verified

(* The plan a request asks for records only what the request allows.       *)
LEMMA PlanAllowed ==
    ASSUME NEW s \in CompactStates, NEW r \in Requests, NEW e \in Evidence,
           NEW tree \in Candidates, CanPlan(s, r, e, tree), SoundState(s),
           NEW q, Asks(q, r, e), Answered(q) = Reviewed(s, r),
           s.state = "reviewing" => q.expected = s
    PROVE  \A k \in DOMAIN Plan(s, r, e, tree) : Allowed(q, Plan(s, r, e, tree)[k])
<1> DEFINE s1 == Reviewed(s, r)
           s2 == AfterReview(s, r)
           s3 == AfterFix(s, r, e, tree)
           s4 == AfterAll(s, r, e, tree)
           op == CorrectionOperation(s, e)
           A == Step("review/complete-review", s, s1)
           B == Step("review/begin-fix", s1, s2)
           C == Step(op, s2, s3)
           D == Step("review/complete-verification", s3, s4)
           T == {t \in Transitions : Allowed(q, t)}
<1>1. /\ s1 \in CompactStates /\ s2 \in CompactStates
      /\ s3 \in CompactStates /\ s4 \in CompactStates /\ op \in Operations
  BY PlannedStateTypes DEF CorrectionOperation, Operations
<1>2. \A o \in Operations : \A a, b \in CompactStates : Transition(o, a, b) \in Transitions
  BY DEF Transition, Transitions
<1>3. q.results = r.results /\ q.lines = r.lines /\ q.validation = r.validation
      /\ q.evidence.outcome = e.outcome
  BY DEF Asks
<1>4. s # s1 => Allowed(q, Transition("review/complete-review", s, s1))
  BY PlanStates DEF Allowed, ReviewStep
<1>5. s1 # s2 => Allowed(q, Transition("review/begin-fix", s1, s2))
  <2> SUFFICES ASSUME s1 # s2 PROVE Allowed(q, Transition("review/begin-fix", s1, s2))
    OBVIOUS
  <2>1. BeginsFix(s1, r)
    BY PlanStates
  <2>2. BeginsFix(s1, q) /\ Begun(s1, q) = s2
    BY <1>3, <2>1 DEF BeginsFix, Begun, AfterReview
  <2>3. QED
    BY <2>2 DEF Allowed, ForecastStep
<1>6. s2 # s3 => Allowed(q, Transition(op, s2, s3))
  <2> SUFFICES ASSUME s2 # s3 PROVE Allowed(q, Transition(op, s2, s3))
    OBVIOUS
  <2>1. OpenCorrection(s) /\ s2 = s /\ s1 = s
    BY PlanStates DEF OpenCorrection
  <2>2. (Escalates(s, e) \/ Corrects(s, r, e)) /\ Terminal(s3) /\ s3.reopens = s.reopens
    BY <2>1, PlanStates
  <2>3. Works(s, q)
    BY <1>3, <2>1, <2>2 DEF Works, Escalates, Corrects
  <2>4. Decides(q, Transition(op, s2, s3))
    BY <2>1, <2>2, <2>3 DEF Decides, Transition
  <2>5. QED
    BY <2>4 DEF Allowed
<1>7. s3 # s4 => Allowed(q, Transition("review/complete-verification", s3, s4))
  <2> SUFFICES ASSUME s3 # s4
               PROVE  Allowed(q, Transition("review/complete-verification", s3, s4))
    OBVIOUS
  <2>1. Verifies(s3, e) /\ Terminal(s4) /\ s4.reopens = s3.reopens
    BY <1>1, VerifiedIs DEF AfterAll
  <2>2. s3.state = "validating" /\ e.outcome # "none"
    BY <2>1 DEF Verifies
  <2>3. s3 = s1
    BY <2>2, PlanStates DEF OpenCorrection, Terminal
  <2>4. Works(s3, q)
    BY <1>3, <2>2 DEF Works
  <2>5. Decides(q, Transition("review/complete-verification", s3, s4))
    BY <2>1, <2>2, <2>3, <2>4 DEF Decides, Transition
  <2>6. QED
    BY <2>5 DEF Allowed
<1>8. Plan(s, r, e, tree) = A \o B \o C \o D
  BY DEF Plan
<1> HIDE DEF s1, s2, s3, s4, op
<1>9. /\ A \in Seq(Transitions) /\ B \in Seq(Transitions)
      /\ C \in Seq(Transitions) /\ D \in Seq(Transitions)
  BY <1>1, StepType DEF Operations
<1>10. Within(A, T) /\ Within(B, T) /\ Within(C, T) /\ Within(D, T)
  <2>1. /\ s # s1 => Transition("review/complete-review", s, s1) \in T
        /\ s1 # s2 => Transition("review/begin-fix", s1, s2) \in T
        /\ s2 # s3 => Transition(op, s2, s3) \in T
        /\ s3 # s4 => Transition("review/complete-verification", s3, s4) \in T
    BY <1>1, <1>2, <1>4, <1>5, <1>6, <1>7 DEF Operations
  <2> HIDE DEF T
  <2>2. QED
    BY <2>1, StepWithin
<1> HIDE DEF A, B, C, D, T
<1>11. Within(A \o B, T) /\ A \o B \in Seq(Transitions)
  BY <1>9, <1>10, WithinConcat, ConcatProperties
<1>12. Within(A \o B \o C, T) /\ A \o B \o C \in Seq(Transitions)
  BY <1>9, <1>10, <1>11, WithinConcat, ConcatProperties
<1>13. Within(A \o B \o C \o D, T)
  BY <1>9, <1>10, <1>12, WithinConcat
<1>14. QED
  BY <1>8, <1>13 DEF Within, T

(* Planning moves the state exactly when there is something to do.         *)
LEMMA PlanMoves ==
    ASSUME NEW s \in CompactStates, NEW r \in Requests, NEW e \in Evidence,
           NEW tree \in Candidates, CanPlan(s, r, e, tree), SoundState(s),
           NEW q, Asks(q, r, e), e.outcome = "procedural_failure" => HasRecord(e)
    PROVE  /\ Works(Reviewed(s, r), q) => AfterAll(s, r, e, tree) # Reviewed(s, r)
           /\ s.state = "reviewing" => AfterAll(s, r, e, tree) # s
<1> DEFINE s1 == Reviewed(s, r)
           s2 == AfterReview(s, r)
           s3 == AfterFix(s, r, e, tree)
           s4 == AfterAll(s, r, e, tree)
<1>1. s1 \in CompactStates /\ s2 \in CompactStates /\ s3 \in CompactStates
  BY PlannedStateTypes
<1>2. q.results = r.results /\ q.lines = r.lines /\ q.validation = r.validation
      /\ q.evidence.outcome = e.outcome
  BY DEF Asks
<1>3. s1.state # "reviewing"
  BY PlanStates
<1>4. IF Verifies(s3, e) THEN Terminal(s4) ELSE s4 = s3
  BY <1>1, VerifiedIs DEF AfterAll
<1>5. CASE BeginsFix(s1, q)
  <2>1. BeginsFix(s1, r) /\ s1.lines = 0 /\ s1.state = "correction_required"
    BY <1>2, <1>5 DEF BeginsFix
  <2>2. ~OpenCorrection(s)
    BY <2>1, PlanStates DEF OpenCorrection
  <2>3. s3 = s2 /\ s2.lines > 0 /\ s2.state \in {"escalated", "correction_required"}
    BY <2>1, <2>2, PlanStates
  <2>4. s4 = s3
    BY <1>4, <2>3 DEF Verifies
  <2>5. QED
    BY <1>3, <2>1, <2>3, <2>4, PlanStates
<1>6. CASE OpenCorrection(s1)
           /\ (q.validation # NoCandidate \/ q.evidence.outcome = "procedural_failure")
  <2>1. s1 = s /\ OpenCorrection(s)
    BY <1>6, PlanStates DEF OpenCorrection
  <2>2. Escalates(s, e) \/ Corrects(s, r, e)
    BY <1>2, <1>6, <2>1 DEF Escalates, Corrects
  <2>3. Terminal(s3)
    BY <2>1, <2>2, PlanStates
  <2>4. s4 = s3
    BY <1>4, <2>3 DEF Verifies, Terminal
  <2>5. QED
    BY <2>1, <2>3, <2>4 DEF OpenCorrection, Terminal
<1>7. CASE s1.state = "validating" /\ q.evidence.outcome # "none"
  <2>1. s2 = s1
    BY <1>7, PlanStates DEF BeginsFix
  <2>2. s3 = s2
    BY <1>7, PlanStates DEF OpenCorrection
  <2>3. Verifies(s3, e)
    BY <1>2, <1>7, <2>1, <2>2 DEF Verifies
  <2>4. QED
    BY <1>4, <1>7, <2>3 DEF Terminal
<1>8. ASSUME s.state = "reviewing"
      PROVE  s4 # s
  <2>1. s2.state # "reviewing"
    BY <1>3, PlanStates
  <2>2. s3 = s2
    BY <1>8, PlanStates DEF OpenCorrection
  <2>3. QED
    BY <1>4, <1>8, <2>1, <2>2 DEF Terminal
<1>9. ASSUME ~Works(s1, q)
      PROVE  Works(s1, q) => s4 # s1
  BY <1>9
<1>10. Works(s1, q) => s4 # s1
  BY <1>3, <1>5, <1>6, <1>7, <1>9 DEF Works
<1>11. QED
  BY <1>8, <1>10

(* A plan records what the request allows, ends with nothing left to do if *)
(* it ends at the review, and is empty when there is nothing to do.        *)
LEMMA PlanFits ==
    ASSUME NEW s \in CompactStates, NEW r \in Requests, NEW e \in Evidence,
           NEW tree \in Candidates, CanPlan(s, r, e, tree), SoundState(s),
           Fresh(s, e), e.outcome = "procedural_failure" => HasRecord(e),
           NEW q, Asks(q, r, e), Answered(q) = Reviewed(s, r),
           s.state = "reviewing" => q.expected = s
    PROVE  /\ Plans(q, Plan(s, r, e, tree))
           /\ Plan(s, r, e, tree) = <<>> <=> ~Works(s, q)
<1> DEFINE steps == Plan(s, r, e, tree)
           s4 == AfterAll(s, r, e, tree)
<1>1. \A k \in DOMAIN steps : Allowed(q, steps[k])
  BY PlanAllowed
<1>2. Chain(steps, s, s4)
  BY PlanSound
<1>3. /\ Works(Answered(q), q) => s4 # Answered(q)
      /\ s.state = "reviewing" => s4 # s
  BY PlanMoves
<1>4. s.state # "reviewing" => Answered(q) = s
  BY PlanStates
<1>5. steps \in Seq(Transitions)
  BY PlanType
<1>6. s.state = "reviewing" => Works(s, q)
  BY PlanStates DEF Works, Asks
<1> HIDE DEF steps, s4
<1>7. steps # <<>> => 1 \in DOMAIN steps
  BY <1>5, EmptySeq
<1>8. steps # <<>> /\ steps[Len(steps)] = ReviewStep(q) => ~Works(Answered(q), q)
  BY <1>2, <1>3 DEF Chain, ReviewStep, Transition
<1>9. Works(s, q) => steps # <<>>
  BY <1>2, <1>3, <1>4 DEF Chain
<1>10. ASSUME steps # <<>>, s.state # "reviewing"
       PROVE  Works(s, q)
  <2>1. Allowed(q, steps[1]) /\ steps[1].expected = s
    BY <1>1, <1>2, <1>7, <1>10 DEF Chain
  <2>2. CASE q.expected.state = "reviewing" /\ steps[1] = ReviewStep(q)
    BY <1>10, <2>1, <2>2 DEF ReviewStep, Transition
  <2>3. CASE BeginsFix(Answered(q), q)
    BY <1>4, <1>10, <2>3 DEF Works
  <2>4. CASE Decides(q, steps[1])
    BY <2>1, <2>4 DEF Decides
  <2>5. QED
    BY <2>1, <2>2, <2>3, <2>4 DEF Allowed
<1>11. QED
  BY <1>1, <1>6, <1>8, <1>9, <1>10 DEF Plans, steps

-----------------------------------------------------------------------------
SameAsk(q, r) ==
    /\ q.results = r.results /\ q.lines = r.lines /\ q.validation = r.validation
    /\ q.evidence.outcome = r.evidence.outcome

LEMMA SameAskIs ==
    ASSUME NEW q, NEW r, SameAsk(q, r)
    PROVE  /\ \A s : Works(s, q) <=> Works(s, r)
           /\ \A x, e : Asks(r, x, e) => Asks(q, x, e)
           /\ q.expected = r.expected => \A steps : Plans(r, steps) => Plans(q, steps)
<1>1. \A s : (Works(s, q) <=> Works(s, r)) /\ (BeginsFix(s, q) <=> BeginsFix(s, r))
  BY DEF SameAsk, Works, BeginsFix
<1>2. \A x, e : Asks(r, x, e) => Asks(q, x, e)
  BY DEF SameAsk, Asks
<1>3. ASSUME q.expected = r.expected
      PROVE  \A steps : Plans(r, steps) => Plans(q, steps)
  <2>1. Answered(q) = Answered(r)
    BY <1>3 DEF SameAsk, Answered, Reviewed
  <2>2. Begun(Answered(q), q) = Begun(Answered(r), r)
    BY <1>1, <2>1 DEF SameAsk, Begun
  <2>3. ReviewStep(q) = ReviewStep(r) /\ ForecastStep(q) = ForecastStep(r)
    BY <1>3, <2>1, <2>2 DEF ReviewStep, ForecastStep
  <2>4. \A t : Allowed(r, t) => Allowed(q, t)
    BY <1>1, <1>3, <2>1, <2>3 DEF Allowed, Decides
  <2>5. QED
    BY <1>1, <2>1, <2>3, <2>4 DEF Plans
<1>4. QED
  BY <1>1, <1>2, <1>3

-----------------------------------------------------------------------------
(* Ranks                                                                   *)

LEMMA StageOfAttested ==
    ASSUME AuthorityInv, Attests
    PROVE  authority \in CompactStates /\ Stage(authority) \in {3, 4}
<1>1. authority \in CompactStates
  BY DEF AuthorityInv, TypeInv, TypeOK, StoreTypeOK
<1>2. CASE authority.denied
  BY <1>1, <1>2, StageOf DEF AuthorityInv, DeniedInvalidated
<1>3. CASE ~authority.denied
  <2>1. Terminal(authority)
    BY <1>1, <1>3, OriginOf DEF Attests, AuthorityInv, ReceiptBound
  <2>2. QED
    BY <1>1, <2>1, StageOf DEF Terminal
<1>4. QED
  BY <1>2, <1>3

(* A decision passes every attempt at the lineage as far as it had come.   *)
LEMMA DecisionPasses ==
    ASSUME NEW a \in FinalizeAttempts, Shaped(a), NEW s \in CompactStates, Stage(s) \in {3, 4},
           Rank(a.request.expected) <= Rank(s)
    PROVE  Passed(a, Rank(s))
<1> DEFINE b == a.request.expected
<1>1. b \in CompactStates /\ a.request \in FinalizeRequests /\ Answers(a.request)
      /\ \A m \in DOMAIN a.transitions : a.transitions[m] \in Transitions
  BY ShapedIs
<1>2. b.reopens \in Nat /\ s.reopens \in Nat /\ Stage(b) \in 0 .. 4
  BY <1>1, RankType
<1>3. Rank(b) = 5 * b.reopens + Stage(b) /\ Rank(s) = 5 * s.reopens + Stage(s)
  BY DEF Rank
<1>r. Rank(b) <= Rank(s)
  OBVIOUS
<1> HIDE DEF b
<1>4. b.reopens <= s.reopens
  BY <1>2, <1>3, <1>r
<1>5. ~Terminal(b) => Stage(b) \in 0 .. 2
  <2>1. ~Terminal(b) => b.state \in {"reviewing", "correction_required", "validating"}
    BY ShapedIs DEF b
  <2>2. QED
    BY <1>1, <2>1, StageOf
<1>6. ~Terminal(b) => Rank(b) < Rank(s)
  BY <1>2, <1>3, <1>4, <1>5
<1>7. ASSUME NEW m \in DOMAIN a.transitions
      PROVE  Rank(a.transitions[m].next) <= Rank(s)
  <2> DEFINE n == a.transitions[m].next
  <2>1. Allowed(a.request, a.transitions[m])
    BY DEF Shaped
  <2>2. n.reopens = b.reopens /\ Stage(n) \in 0 .. 3
    BY <1>1, <2>1, AllowedIs DEF b
  <2>3. Rank(n) = 5 * n.reopens + Stage(n)
    BY DEF Rank
  <2> HIDE DEF n
  <2>4. QED
    BY <1>2, <1>3, <1>4, <2>2, <2>3 DEF n
<1>8. QED
  BY <1>6, <1>7 DEF Passed, b

LEMMA PassedRanks ==
    ASSUME NEW a \in FinalizeAttempts, NEW n \in Int, NEW k \in Int, n <= k
    PROVE  /\ Passed(a, n) => Passed(a, k)
           /\ Rank(a.request.expected) <= n => Rank(a.request.expected) <= k
<1>1. Rank(a.request.expected) \in Nat
  BY RankType DEF FinalizeAttempts, FinalizeRequests
<1>2. ASSUME NEW m \in DOMAIN a.transitions
      PROVE  Rank(a.transitions[m].next) \in Nat
  <2>1. a.transitions[m] \in Transitions
    BY ElementOfSeq DEF FinalizeAttempts
  <2>2. QED
    BY <2>1, RankType DEF Transitions
<1>3. QED
  BY <1>1, <1>2 DEF Passed

LEMMA ReachGrows ==
    ASSUME NEW j \in Seq(FinalizeAttempts), NEW n \in Int, NEW k \in Int, n <= k
    PROVE  /\ Reach(j, n) => Reach(j, k)
           /\ JournalOf(j, n) => JournalOf(j, k)
<1>1. \A i \in DOMAIN j : j[i] \in FinalizeAttempts
  BY AttemptFields
<1>2. Reach(j, n) => Reach(j, k)
  BY <1>1, PassedRanks DEF Reach
<1>3. QED
  BY <1>2 DEF JournalOf

(* An attempt that a state has passed does not lead to a further one.      *)
LEMMA PassedMisses ==
    ASSUME NEW a \in FinalizeAttempts, NEW s \in CompactStates, NEW n \in Int, Passed(a, n),
           Rank(s) > n
    PROVE  ~(TransitionIndex(a, s) > 0)
<1>1. Rank(s) \in Nat
  BY RankType
<1>2. QED
  BY <1>1, TransitionIndexType DEF Passed

LEMMA DecidedRank ==
    ASSUME NEW s \in CompactStates, NEW n \in CompactStates, Rank(s) = Rank(n)
    PROVE  Terminal(s) <=> Terminal(n)
<1>1. /\ Rank(s) = 5 * s.reopens + Stage(s) /\ Rank(n) = 5 * n.reopens + Stage(n)
      /\ s.reopens \in Nat /\ n.reopens \in Nat
      /\ Stage(s) \in 0 .. 4 /\ Stage(n) \in 0 .. 4
  BY RankType DEF Rank
<1>2. Stage(s) = Stage(n)
  <2>1. \A a, b \in Nat : \A c, d \in 0 .. 4 : 5 * a + c = 5 * b + d => c = d
    OBVIOUS
  <2>2. QED
    BY <1>1, <2>1
<1>3. \A u \in CompactStates : Terminal(u) <=> Stage(u) = 3
  <2>1. ASSUME NEW u \in CompactStates
        PROVE  Terminal(u) <=> Stage(u) = 3
    <3>1. u.state \in {"reviewing", "correction_required", "validating", "approved",
                       "escalated", "invalidated"}
      BY DEF CompactStates, StateNames
    <3>2. QED
      BY <3>1, StageOf DEF Terminal
  <2>2. QED
    BY <2>1
<1>4. QED
  BY <1>2, <1>3

-----------------------------------------------------------------------------
(* The journal                                                             *)

LEMMA AppendOf ==
    ASSUME NEW j \in Seq(FinalizeAttempts), NEW r \in FinalizeRequests, NEW n \in Int,
           \A i \in DOMAIN j : j[i].request # r, Rank(r.expected) <= n
    PROVE  /\ Reach(j, n) => Reach(Append(j, NewAttempt(r)), n)
           /\ (~Terminal(r.expected) => Works(r.expected, r)) /\ JournalOf(j, n)
                 => JournalOf(Append(j, NewAttempt(r)), n)
           /\ \A i \in DOMAIN Append(j, NewAttempt(r)) :
                 \/ i \in DOMAIN j /\ Append(j, NewAttempt(r))[i] = j[i]
                 \/ Append(j, NewAttempt(r))[i] = NewAttempt(r)
           /\ Len(j) + 1 \in Open(Append(j, NewAttempt(r)), r)
<1> DEFINE a == NewAttempt(r)
           k == Append(j, a)
<1>1. a.request = r /\ a.transitions = <<>> /\ ~a.completed /\ ~a.published
  BY DEF NewAttempt
<1> HIDE DEF a
<1>2. /\ Len(j) \in Nat /\ DOMAIN j = 1 .. Len(j) /\ DOMAIN k = 1 .. Len(j) + 1
      /\ \A i \in 1 .. Len(j) : k[i] = j[i]
      /\ k[Len(j) + 1] = a
  OBVIOUS
<1> HIDE DEF k
<1>3. \A i \in DOMAIN k : IF i \in DOMAIN j THEN k[i] = j[i] ELSE i = Len(j) + 1 /\ k[i] = a
  BY <1>2
<1>4. Reach(j, n) => Reach(k, n)
  BY <1>1, <1>3 DEF Reach
<1>5. (~Terminal(r.expected) => Works(r.expected, r)) => Shaped(a)
  BY <1>1 DEF Shaped
<1>6. \A i, m \in DOMAIN k : (\A u, v \in DOMAIN j : j[u].request = j[v].request => u = v)
                             /\ k[i].request = k[m].request => i = m
  BY <1>1, <1>3
<1>7. JournalOf(j, n) /\ Shaped(a) => JournalOf(k, n)
  BY <1>3, <1>4, <1>6 DEF JournalOf
<1>8. Len(j) + 1 \in Open(k, r)
  BY <1>1, <1>2 DEF Open
<1>9. QED
  BY <1>3, <1>4, <1>5, <1>7, <1>8 DEF k, a

LEMMA PlannedOf ==
    ASSUME NEW a \in FinalizeAttempts, Shaped(a), NEW t \in Transitions, Allowed(a.request, t),
           ~Terminal(a.request.expected),
           a.transitions = <<>> /\ a.request.expected.state = "reviewing"
               => t = ReviewStep(a.request)
    PROVE  /\ Shaped(Planned(a, t))
           /\ Planned(a, t).request = a.request
           /\ Planned(a, t).completed = a.completed /\ Planned(a, t).published = a.published
           /\ Planned(a, t).transitions # <<>>
<1> DEFINE x == a.transitions
           y == Append(x, t)
<1>1. x \in Seq(Transitions)
  BY DEF FinalizeAttempts
<1>2. CASE \E i \in DOMAIN x : x[i] = t
  <2>1. Planned(a, t) = a
    BY <1>2 DEF Planned
  <2>2. x # <<>>
    BY <1>2
  <2>3. QED
    BY <2>1, <2>2
<1>3. CASE ~ \E i \in DOMAIN x : x[i] = t
  <2>1. /\ Planned(a, t).request = a.request
        /\ Planned(a, t).completed = a.completed /\ Planned(a, t).published = a.published
        /\ Planned(a, t).transitions = y
    BY <1>3 DEF Planned, FinalizeAttempts
  <2>2. /\ Len(x) \in Nat /\ DOMAIN x = 1 .. Len(x) /\ DOMAIN y = 1 .. Len(x) + 1
        /\ \A i \in DOMAIN x : y[i] = x[i]
        /\ y[Len(x) + 1] = t
        /\ x = <<>> <=> Len(x) = 0
    BY <1>1, EmptySeq
  <2>3. y # <<>>
    BY <1>1
  <2> HIDE DEF x, y
  <2>4. \A m \in DOMAIN y : Allowed(a.request, y[m])
    BY <2>2 DEF Shaped, x
  <2>5. ASSUME NEW m \in DOMAIN y, NEW n \in DOMAIN y, y[m] = y[n]
        PROVE  m = n
    <3>1. \A i, k \in DOMAIN x : x[i] = x[k] => i = k
      BY DEF Shaped, x
    <3>2. QED
      BY <1>3, <2>2, <2>5, <3>1
  <2>6. a.request.expected.state = "reviewing" => y[1] = ReviewStep(a.request)
    <3>1. CASE x = <<>>
      BY <2>2, <3>1 DEF x
    <3>2. CASE x # <<>>
      <4>1. 1 \in DOMAIN x
        BY <2>2, <3>2
      <4>2. QED
        BY <2>2, <3>2, <4>1 DEF Shaped, x
    <3>3. QED
      BY <3>1, <3>2
  <2>7. Works(a.request.expected, a.request)
    BY DEF Shaped
  <2>8. Shaped(Planned(a, t))
    BY <2>1, <2>4, <2>5, <2>6, <2>7 DEF Shaped
  <2>9. QED
    BY <2>1, <2>3, <2>8
<1>4. QED
  BY <1>2, <1>3

(* Marking and completing attempts, those completed being passed.          *)
LEMMA MarkedOf ==
    ASSUME NEW j, NEW k, NEW n, DOMAIN k = DOMAIN j,
           \A i \in DOMAIN j :
              /\ k[i].request = j[i].request /\ k[i].transitions = j[i].transitions
              /\ k[i].completed => j[i].completed \/ Passed(j[i], n),
           JournalOf(j, n)
    PROVE  JournalOf(k, n)
<1>1. \A i \in DOMAIN j : (Shaped(k[i]) <=> Shaped(j[i])) /\ (Passed(k[i], n) <=> Passed(j[i], n))
  BY DEF Shaped, Passed
<1>2. Reach(k, n)
  BY <1>1 DEF JournalOf, Reach
<1>3. QED
  BY <1>1, <1>2 DEF JournalOf

(* The write-ahead of an open attempt's next transition.                   *)
LEMMA WrittenOf ==
    ASSUME NEW j \in Seq(FinalizeAttempts), NEW q, NEW t \in Transitions, NEW k,
           k = [i \in DOMAIN j |-> IF j[i].request = q THEN Planned(j[i], t) ELSE j[i]],
           \A i \in DOMAIN j : Shaped(j[i]),
           \A i, m \in DOMAIN j : j[i].request = j[m].request => i = m,
           NEW i \in Open(j, q), Allowed(q, t), ~Terminal(q.expected),
           j[i].transitions = <<>> /\ q.expected.state = "reviewing" => t = ReviewStep(q)
    PROVE  /\ \A n : JournalOf(j, n) => JournalOf(k, n)
           /\ \A n : Reach(j, n) => Reach(k, n)
           /\ i \in Open(k, q) /\ k[i].transitions # <<>>
           /\ \A m \in DOMAIN k : m \in DOMAIN j /\ (k[m] = j[m] \/ m = i)
           /\ ~k[i].completed /\ k[i].published = j[i].published
<1>1. i \in DOMAIN j /\ j[i].request = q /\ ~j[i].completed /\ j[i] \in FinalizeAttempts
  BY AttemptFields DEF Open
<1>2. /\ Shaped(Planned(j[i], t)) /\ Planned(j[i], t).request = q
      /\ ~Planned(j[i], t).completed /\ Planned(j[i], t).published = j[i].published
      /\ Planned(j[i], t).transitions # <<>>
  BY <1>1, PlannedOf
<1>3. /\ DOMAIN k = DOMAIN j /\ k[i] = Planned(j[i], t)
      /\ \A m \in DOMAIN j : m # i => k[m] = j[m]
  BY <1>1
<1>4. \A m \in DOMAIN j : k[m].request = j[m].request /\ Shaped(k[m])
  BY <1>1, <1>2, <1>3
<1>5. \A n : Reach(j, n) => Reach(k, n)
  BY <1>1, <1>2, <1>3 DEF Reach
<1>6. \A n : JournalOf(j, n) => JournalOf(k, n)
  BY <1>3, <1>4, <1>5 DEF JournalOf
<1>7. QED
  BY <1>1, <1>2, <1>3, <1>5, <1>6 DEF Open

-----------------------------------------------------------------------------
(* The steps of the sole finalizer                                         *)

Known ==
    /\ AuthorityInv /\ PlanInv /\ PlanJournaled /\ OnePendingAttempt
    /\ JournalOf(journal, Rank(authority))

LEMMA KnownTypes ==
    ASSUME Known
    PROVE  /\ TypeInv /\ authority \in CompactStates /\ Rank(authority) \in Nat
           /\ journal \in Seq(FinalizeAttempts)
           /\ \A i \in DOMAIN journal : journal[i] \in FinalizeAttempts /\ Shaped(journal[i])
           /\ \A p \in Finalizers :
                /\ seen[p] \in CompactStates /\ Rank(seen[p]) \in Nat /\ payload[p] \in Requests
                /\ inputs[p] \in Evidence
                /\ SoundState(seen[p])
           /\ NoReceipt \notin Receipts
           /\ live \in Candidates
<1>1. TypeInv /\ authority \in CompactStates /\ journal \in Seq(FinalizeAttempts)
      /\ live \in Candidates
  BY DEF Known, AuthorityInv, TypeInv, TypeOK, StoreTypeOK
<1>2. \A i \in DOMAIN journal : journal[i] \in FinalizeAttempts /\ Shaped(journal[i])
  BY <1>1, AttemptFields DEF Known, JournalOf
<1>3. ASSUME NEW p \in Finalizers
      PROVE  /\ seen[p] \in CompactStates /\ payload[p] \in Requests /\ inputs[p] \in Evidence
             /\ SoundState(seen[p])
  BY <1>1 DEF Known, PlanInv, FinalizerSound, TypeInv, TypeOK, FinalizerTypeOK
<1>4. QED
  BY <1>1, <1>2, <1>3, RankType, FinalizeAssumption

LEMMA LeaveRuns ==
    ASSUME TypeInv, NEW p \in Finalizers, NEW how \in {"idle", "lost"}, NEW r, Leave(p, how, r)
    PROVE  RunningOf(p)'
<1>1. pc'[p] \in {"idle", "lost"}
  BY DEF Leave, TypeInv, TypeOK, FinalizerTypeOK
<1>2. QED
  BY <1>1 DEF RunningOf

LEMMA ReturnRuns ==
    ASSUME TypeInv, NEW p \in Finalizers, Return(p)
    PROVE  RunningOf(p)'
BY LeaveRuns DEF Return

LEMMA LoadRuns ==
    ASSUME Known, NEW p \in Finalizers, NEW r \in Requests, Load(p, r)
    PROVE  RunningOf(p)'
<1>1. /\ pc'[p] = IF Terminal(authority) THEN "inspect" ELSE "entry"
      /\ seen'[p] = authority /\ UNCHANGED <<authority, journal>>
  BY KnownTypes DEF Load, Goto, store, TypeInv, TypeOK, FinalizerTypeOK
<1>2. Rank(authority) <= Rank(authority) /\ Reach(journal, Rank(authority))
  BY KnownTypes DEF Known, JournalOf
<1>3. QED
  BY <1>1, <1>2 DEF RunningOf

LEMMA InspectRuns ==
    ASSUME Known, NEW p \in Finalizers, Inspect(p), RunningOf(p)
    PROVE  RunningOf(p)'
<1>1. CASE ~Return(p)
  <2>1. /\ pc[p] = "inspect" /\ seen' = seen /\ UNCHANGED <<authority, journal, receipt>>
        /\ \/ pc'[p] = "complete" /\ receipt = ReceiptOf(seen[p])
           \/ pc'[p] = "publish"
           \/ /\ pc'[p] = "reconcile"
              /\ request'[p] = Request(seen[p], seen[p].current, payload[p], NoEvidence)
    BY <1>1, KnownTypes DEF Inspect, Goto, store, TypeInv, TypeOK, FinalizerTypeOK
  <2>2. /\ Terminal(seen[p])
        /\ Rank(seen[p]) <= Rank(authority) /\ Reach(journal, Rank(seen[p]))
    BY <2>1 DEF RunningOf
  <2>3. receipt = ReceiptOf(seen[p]) => Attests'
    BY <2>1, KnownTypes, ReceiptType DEF Attests
  <2>4. pc'[p] = "reconcile" => request'[p].expected = seen[p]
    BY <2>1 DEF Request
  <2>5. QED
    BY <2>1, <2>2, <2>3, <2>4 DEF RunningOf
<1>2. QED
  BY <1>1, KnownTypes, ReturnRuns

(* A procedural failure is only ever read with its record.                 *)
LEMMA EvidenceRecorded ==
    ASSUME NEW s, NEW r \in Requests, NEW e \in InputEvidence(s, r),
           e.outcome = "procedural_failure"
    PROVE  HasRecord(e)
<1>1. CASE r.evidence \in {"passed", "failed"}
  BY <1>1 DEF InputEvidence, RawEvidence, NoEvidence
<1>2. CASE r.evidence = "captured"
  BY <1>2 DEF InputEvidence, Readable
<1>3. CASE r.evidence = "none"
  BY <1>3, NoRecord DEF InputEvidence, Readable
<1>4. QED
  BY <1>1, <1>2, <1>3, PayloadTypes

LEMMA EnterRuns ==
    ASSUME Known, NEW p \in Finalizers, Enter(p), RunningOf(p)
    PROVE  RunningOf(p)'
<1>1. CASE ~Return(p)
  <2> DEFINE pending == Incomplete(journal) # {}
             index == IF pending THEN TransitionIndex(journal[Pending(journal)], seen[p]) ELSE 0
  <2>1. PICK e \in InputEvidence(seen[p], payload[p]) :
          /\ inputs' = [inputs EXCEPT ![p] = e]
          /\ entry' = [entry EXCEPT ![p] = [pending |-> pending, index |-> index]]
          /\ IF index > 0
             THEN /\ Goto(p, "reconcile")
                  /\ request' = [request EXCEPT ![p] =
                                    Request(seen[p], seen[p].current, payload[p], e)]
             ELSE /\ Goto(p, "prepare")
                  /\ UNCHANGED request
          /\ UNCHANGED <<payload, seen, plan, done>>
    BY <1>1 DEF Enter
  <2>2. pc[p] = "entry" /\ UNCHANGED <<authority, journal, receipt>>
    BY DEF Enter, store
  <2>3. /\ inputs'[p] = e /\ entry'[p] = [pending |-> pending, index |-> index]
        /\ seen'[p] = seen[p] /\ payload'[p] = payload[p]
    BY <2>1, KnownTypes DEF TypeInv, TypeOK, FinalizerTypeOK
  <2>4. IF index > 0
        THEN pc'[p] = "reconcile"
             /\ request'[p] = Request(seen[p], seen[p].current, payload[p], e)
        ELSE pc'[p] = "prepare" /\ request'[p] = request[p]
    BY <2>1, KnownTypes DEF Goto, TypeInv, TypeOK, FinalizerTypeOK
  <2>5. index \in Nat
    <3>1. CASE pending
      <4>1. journal[Pending(journal)] \in FinalizeAttempts
        BY <3>1, KnownTypes, PendingIsIncomplete DEF Incomplete
      <4>2. QED
        BY <3>1, <4>1, TransitionIndexType
    <3>2. QED
      BY <3>1
  <2>6. EntryOf(journal, seen[p], entry'[p])
    <3>1. \A a \in BOOLEAN : \A b :
            ([pending |-> a, index |-> b].pending <=> a) /\ [pending |-> a, index |-> b].index = b
      OBVIOUS
    <3>2. pending \in BOOLEAN
      OBVIOUS
    <3>3. \A n : n = [pending |-> pending, index |-> index] =>
            (n.pending <=> pending) /\ n.index = index
      <4> HIDE DEF pending, index
      <4>1. QED
        BY <3>1, <3>2
    <3>4. (entry'[p].pending <=> pending) /\ entry'[p].index = index
      BY <2>3, <3>3
    <3>5. QED
      BY <3>4 DEF EntryOf
  <2>7. request[p] = NoRequest
    BY <2>2 DEF Known, PlanJournaled, PlanJournaledOf
  <2>8. e.outcome = "procedural_failure" => HasRecord(e)
    BY KnownTypes, EvidenceRecorded
  <2>9. /\ ~Terminal(seen[p])
        /\ Rank(seen[p]) <= Rank(authority) /\ Reach(journal, Rank(seen[p]))
    BY <2>2 DEF RunningOf
  <2> HIDE DEF pending, index
  <2>10. entry'[p].index = index
    BY <2>3
  <2>11. CASE index > 0
    <3>1. request'[p].expected = seen[p] /\ Asks(request'[p], payload[p], e)
      BY <2>4, <2>11 DEF Request, Asks
    <3>2. Fits(seen[p], request'[p], payload[p], e, entry'[p], plan'[p])
      BY <2>5, <2>10, <2>11, <3>1 DEF Fits
    <3>3. QED
      BY <2>2, <2>3, <2>4, <2>6, <2>8, <2>9, <2>11, <3>1, <3>2 DEF RunningOf
  <2>12. CASE ~(index > 0)
    <3>1. entry'[p].index = 0
      BY <2>5, <2>10, <2>12
    <3>2. QED
      BY <2>2, <2>3, <2>4, <2>6, <2>7, <2>8, <2>9, <2>12, <3>1 DEF RunningOf
  <2>13. QED
    BY <2>11, <2>12
<1>2. QED
  BY <1>1, KnownTypes, ReturnRuns

LEMMA PrepareRuns ==
    ASSUME Known, NEW p \in Finalizers, Prepare(p), RunningOf(p)
    PROVE  RunningOf(p)'
<1> DEFINE s == seen[p]
           r == payload[p]
           e == inputs[p]
           q == request[p]
           steps == Plan(s, r, e, live)
           candidate == PlanCandidate(s, r, e, live)
<1>1. CASE ~Return(p)
  <2>1. /\ CanPlan(s, r, e, live) /\ (entry[p].pending \/ steps # <<>>)
        /\ pc[p] = "prepare" /\ UNCHANGED <<authority, journal, receipt>>
        /\ plan'[p] = steps /\ payload' = payload /\ seen' = seen /\ inputs' = inputs
        /\ entry' = entry
    BY <1>1, KnownTypes DEF Prepare, store, TypeInv, TypeOK, FinalizerTypeOK
  <2>2. IF q # NoRequest
        THEN pc'[p] = (IF steps = <<>> THEN "complete" ELSE "ahead") /\ request' = request
        ELSE pc'[p] = "reconcile" /\ request'[p] = Request(s, candidate, r, e)
    BY <1>1, KnownTypes DEF Prepare, Goto, TypeInv, TypeOK, FinalizerTypeOK
  <2>3. /\ ~Terminal(s) /\ Rank(s) <= Rank(authority) /\ Reach(journal, Rank(s))
        /\ EntryOf(journal, s, entry[p])
        /\ e.outcome = "procedural_failure" => HasRecord(e)
        /\ IF q = NoRequest THEN entry[p].index = 0 ELSE Resumes(journal, s, q, r, e)
    BY <2>1 DEF RunningOf
  <2>4. Fresh(s, e) /\ SoundState(s) /\ s \in CompactStates /\ r \in Requests /\ e \in Evidence
        /\ live \in Candidates
    BY <2>1, KnownTypes DEF Known, PlanInv, FinalizerSound, InputsOf
  <2> HIDE DEF s, r, e, q, steps, candidate
  <2>5. CASE q = NoRequest
    <3> DEFINE u == Request(s, candidate, r, e)
    <3>1. u.expected = s /\ Asks(u, r, e) /\ u.results = r.results
      BY DEF Request, Asks
    <3> HIDE DEF u
    <3>2. Answered(u) = Reviewed(s, r)
      BY <3>1 DEF Answered, Reviewed
    <3>3. Plans(u, steps) /\ (steps = <<>> <=> ~Works(s, u))
      BY <2>1, <2>3, <2>4, <3>1, <3>2, PlanFits DEF steps
    <3>4. Fits(s, u, r, e, entry[p], steps)
      BY <2>1, <3>1, <3>3 DEF Fits
    <3>5. pc'[p] = "reconcile" /\ request'[p] = u
      BY <2>2, <2>5 DEF u
    <3>6. QED
      BY <2>1, <2>3, <3>1, <3>4, <3>5 DEF RunningOf, s, r, e
  <2>6. CASE q # NoRequest
    <3>1. PICK i \in Open(journal, q) : journal[i].transitions # <<>>
      BY <2>3, <2>6 DEF Resumes
    <3>2. i \in DOMAIN journal /\ journal[i].request = q /\ journal[i] \in FinalizeAttempts
          /\ Shaped(journal[i])
      BY <3>1, KnownTypes DEF Open
    <3>3. q \in FinalizeRequests /\ Answers(q)
      BY <3>2, ShapedIs
    <3>4. Asks(q, r, e) /\ q.expected.state = "reviewing" /\ s = Answered(q)
      BY <2>3, <2>6 DEF Resumes
    <3>5. s.state # "reviewing"
      BY <3>3, <3>4, AnsweredIs
    <3>6. Answered(q) = Reviewed(s, r)
      BY <3>4, <3>5 DEF Reviewed, CompletesReview
    <3>7. Plans(q, steps) /\ (steps = <<>> <=> ~Works(s, q))
      BY <2>1, <2>3, <2>4, <3>4, <3>5, <3>6, PlanFits DEF steps
    <3>8. CASE steps = <<>>
      <4>1. ASSUME NEW k \in DOMAIN journal, journal[k].request = q
            PROVE  Passed(journal[k], Rank(s))
        <5>1. journal[k] \in FinalizeAttempts /\ Shaped(journal[k])
          BY KnownTypes
        <5>2. \A m \in DOMAIN journal[k].transitions :
                 journal[k].transitions[m] = ReviewStep(journal[k].request)
          BY <3>4, <3>7, <3>8, <4>1, <5>1, OnlyReview
        <5>3. QED
          BY <3>4, <4>1, <5>1, <5>2, ReviewExhausts
      <4>2. Finishes(journal, s, q)
        BY <2>3, <4>1 DEF Finishes
      <4>3. pc'[p] = "complete" /\ request' = request
        BY <2>2, <2>6, <3>8
      <4>4. QED
        BY <2>1, <2>3, <4>2, <4>3 DEF RunningOf, s, q
    <3>9. CASE steps # <<>>
      <4>1. Drives(journal, s, q, steps)
        BY <3>1, <3>7 DEF Drives
      <4>2. pc'[p] = "ahead" /\ request' = request
        BY <2>2, <2>6, <3>9
      <4>3. QED
        BY <2>1, <2>3, <4>1, <4>2 DEF RunningOf, s, q
    <3>10. QED
      BY <3>8, <3>9
  <2>7. QED
    BY <2>5, <2>6
<1>2. QED
  BY <1>1, KnownTypes, ReturnRuns

(* The attempt a request resumes from an undecided state is the pending    *)
(* one, and asks the same.                                                 *)
LEMMA Adoption ==
    ASSUME Known, NEW s \in CompactStates, ~Terminal(s), Reach(journal, Rank(s)),
           NEW r \in FinalizeRequests, r.expected = s,
           NEW i \in Adopted(journal, r, authority), NEW n, EntryOf(journal, s, n)
    PROVE  /\ i \in Open(journal, journal[i].request)
           /\ n.pending /\ n.index = TransitionIndex(journal[i], s)
           /\ SameAsk(journal[i].request, r)
           /\ n.index = 0 => journal[i].request.expected = s
<1>1. /\ i \in DOMAIN journal /\ (journal[i].request = r \/ ~journal[i].completed)
      /\ \/ journal[i].request = r
         \/ SamePayload(journal[i].request, r) /\ MayResume(journal[i], r, authority)
  BY DEF Adopted, Met
<1>2. journal[i] \in FinalizeAttempts /\ Rank(s) \in Nat
  BY <1>1, KnownTypes, RankType
<1>3. ~journal[i].completed
  <2>1. ASSUME journal[i].completed
        PROVE  FALSE
    <3>1. journal[i].request = r /\ Passed(journal[i], Rank(s))
      BY <1>1, <2>1 DEF Reach
    <3>2. QED
      BY <1>2, <3>1 DEF Passed
  <2>2. QED
    BY <2>1
<1>4. i \in Incomplete(journal)
  BY <1>1, <1>3 DEF Incomplete
<1>5. Pending(journal) = i
  BY <1>4, KnownTypes, PendingIsIncomplete DEF Known, OnePendingAttempt
<1>6. n.pending /\ n.index = TransitionIndex(journal[i], s)
  BY <1>4, <1>5 DEF EntryOf
<1>7. SameAsk(journal[i].request, r)
  BY <1>1 DEF SameAsk, SamePayload
<1>8. ASSUME n.index = 0, journal[i].request.expected # s
      PROVE  FALSE
  <2>1. MayResume(journal[i], r, authority)
    BY <1>1, <1>8
  <2>2. \E m \in DOMAIN journal[i].transitions : journal[i].transitions[m].next = s
    BY <1>8, <2>1 DEF MayResume
  <2>3. TransitionIndex(journal[i], s) > 0
    BY <1>2, <2>2, TransitionIndexType
  <2>4. QED
    BY <1>6, <1>8, <2>3
<1>9. QED
  BY <1>1, <1>3, <1>6, <1>7, <1>8 DEF Open

(* No attempt is completed or marked published.                            *)
Kept(j, k) ==
    \A i \in DOMAIN k :
        /\ k[i].completed => i \in DOMAIN j /\ k[i] = j[i]
        /\ k[i].published => i \in DOMAIN j /\ j[i].published

LEMMA AdoptRuns ==
    ASSUME Known, NEW p \in Finalizers, pc[p] = "reconcile", RunningOf(p),
           NEW i \in Adopted(journal, request[p], authority),
           pc'[p] = AfterReconcile(p, journal[i]), request'[p] = journal[i].request,
           UNCHANGED <<authority, journal, receipt, payload, seen, inputs, entry, plan>>
    PROVE  RunningOf(p)'
<1> DEFINE s == seen[p]
           r == request[p]
           q == journal[i].request
           n == entry[p]
           x == journal[i].transitions
           w == TransitionIndex(journal[i], s)
<1>1. /\ Rank(s) <= Rank(authority) /\ Reach(journal, Rank(s)) /\ r.expected = s
      /\ s \in CompactStates /\ r \in FinalizeRequests
  BY KnownTypes DEF RunningOf, TypeInv, PlanInProgress
<1>2. CASE Terminal(s)
  <2>1. pc'[p] = "publish"
    BY <1>2 DEF AfterReconcile
  <2>2. QED
    BY <1>1, <2>1 DEF RunningOf
<1>3. CASE ~Terminal(s)
  <2>1. /\ EntryOf(journal, s, n)
        /\ inputs[p].outcome = "procedural_failure" => HasRecord(inputs[p])
        /\ Fits(s, r, payload[p], inputs[p], n, plan[p])
    BY <1>3 DEF RunningOf
  <2>2. /\ i \in Open(journal, q) /\ n.pending /\ n.index = w
        /\ SameAsk(q, r) /\ (n.index = 0 => q.expected = s)
    BY <1>1, <1>3, <2>1, Adoption
  <2>3. /\ i \in DOMAIN journal /\ journal[i] \in FinalizeAttempts /\ Shaped(journal[i])
        /\ \A k \in DOMAIN journal : journal[k].request = q => k = i
        /\ q \in FinalizeRequests /\ q # NoRequest
    <3>1. i \in DOMAIN journal
      BY <2>2 DEF Open
    <3>2. journal[i] \in FinalizeAttempts /\ Shaped(journal[i])
      BY <3>1, KnownTypes
    <3>3. QED
      BY <3>1, <3>2, NoRequestAssumption DEF Known, JournalOf, FinalizeAttempts
  <2>4. Asks(q, payload[p], inputs[p])
    BY <2>1, <2>2, SameAskIs DEF Fits
  <2>5. w \in Nat
    BY <2>3, TransitionIndexType
  <2> HIDE DEF s, r, q, n, x, w
  <2>6. CASE w > 0
    <3>1. IF w = Len(x) THEN Passed(journal[i], Rank(s))
          ELSE q.expected.state = "reviewing" /\ s = Answered(q) /\ x # <<>>
      BY <1>1, <1>3, <2>3, <2>6, Indexed DEF q, w, x
    <3>2. pc'[p] = IF w = Len(x) THEN "complete" ELSE "prepare"
      BY <1>3, <2>2, <2>6 DEF AfterReconcile, s, n, x
    <3>3. CASE w = Len(x)
      <4>1. Finishes(journal, s, q)
        BY <1>3, <2>3, <3>1, <3>3 DEF Finishes
      <4>2. QED
        BY <1>1, <3>2, <3>3, <4>1 DEF RunningOf, s, q
    <3>4. CASE w # Len(x)
      <4>1. Resumes(journal, s, q, payload[p], inputs[p])
        BY <2>2, <2>4, <3>1, <3>4 DEF Resumes, x
      <4>2. pc'[p] = "prepare"
        BY <3>2, <3>4
      <4>3. QED
        BY <1>1, <1>3, <2>1, <2>3, <4>1, <4>2 DEF RunningOf, s, q, n
    <3>5. QED
      BY <3>3, <3>4
  <2>7. CASE w = 0
    <3>1. n.index = 0 /\ q.expected = s
      BY <2>2, <2>7
    <3>2. /\ Plans(r, plan[p])
          /\ IF plan[p] = <<>> THEN ~Works(s, r) ELSE Works(s, r)
      BY <2>1, <3>1 DEF Fits
    <3>3. Works(s, q)
      BY <1>3, <2>3, <3>1 DEF Shaped, q
    <3>4. plan[p] # <<>>
      BY <2>2, <3>2, <3>3, SameAskIs
    <3>5. Plans(q, plan[p])
      BY <1>1, <2>2, <3>1, <3>2, SameAskIs
    <3>6. Drives(journal, s, q, plan[p])
      BY <2>2, <3>1, <3>5 DEF Drives
    <3>7. pc'[p] = "ahead"
      BY <1>3, <3>1, <3>4 DEF AfterReconcile, s, n
    <3>8. QED
      BY <1>1, <1>3, <3>6, <3>7 DEF RunningOf, s, q
  <2>8. QED
    BY <2>5, <2>6, <2>7
<1>4. QED
  BY <1>2, <1>3

LEMMA AppendRuns ==
    ASSUME Known, NEW p \in Finalizers, pc[p] = "reconcile", RunningOf(p),
           Met(journal, request[p]) = {}, journal' = Append(journal, NewAttempt(request[p])),
           pc'[p] = AfterReconcile(p, NewAttempt(request[p])),
           UNCHANGED <<authority, receipt, payload, seen, inputs, entry, request, plan>>
    PROVE  /\ RunningOf(p)'
           /\ JournalOf(journal', Rank(authority'))
           /\ Kept(journal, journal')
<1> DEFINE s == seen[p]
           r == request[p]
           n == entry[p]
<1>1. /\ Rank(s) <= Rank(authority) /\ Reach(journal, Rank(s)) /\ r.expected = s
      /\ s \in CompactStates /\ r \in FinalizeRequests
  BY KnownTypes DEF RunningOf, TypeInv, PlanInProgress
<1>2. Incomplete(journal) = {} /\ \A i \in DOMAIN journal : journal[i].request # r
  BY DEF Met, Incomplete
<1>3. ~Terminal(s) => n.index = 0 /\ Works(s, r) /\ plan[p] # <<>> /\ Plans(r, plan[p])
  BY <1>2 DEF RunningOf, EntryOf, Fits
<1>4. Rank(s) \in Nat /\ Rank(authority) \in Nat /\ journal \in Seq(FinalizeAttempts)
  BY KnownTypes
<1>5. JournalOf(journal, Rank(authority))
  BY DEF Known
<1>j. journal' = Append(journal, NewAttempt(r))
  OBVIOUS
<1>l. /\ ~Terminal(s) => pc'[p] = "ahead"
      /\ Terminal(s) => pc'[p] = "publish"
  BY <1>3 DEF AfterReconcile
<1> HIDE DEF s, r, n
<1>6. Reach(journal', Rank(s))
  BY <1>1, <1>2, <1>4, <1>j, AppendOf
<1>7. JournalOf(journal', Rank(authority))
  BY <1>1, <1>2, <1>3, <1>4, <1>5, <1>j, AppendOf
<1>8. Kept(journal, journal')
  <2>1. ~NewAttempt(r).completed /\ ~NewAttempt(r).published
    BY DEF NewAttempt
  <2>2. \A i \in DOMAIN journal' :
           (i \in DOMAIN journal /\ journal'[i] = journal[i]) \/ journal'[i] = NewAttempt(r)
    BY <1>1, <1>2, <1>4, <1>j, AppendOf
  <2>3. QED
    BY <2>1, <2>2 DEF Kept
<1>9. RunningOf(p)'
  <2>1. CASE Terminal(s)
    BY <1>1, <1>6, <1>l, <2>1 DEF RunningOf, s
  <2>2. CASE ~Terminal(s)
    <3>1. Open(journal', r) # {}
      BY <1>1, <1>2, <1>4, <1>j, AppendOf
    <3>2. Drives(journal', s, r, plan[p])
      BY <1>1, <1>3, <2>2, <3>1 DEF Drives
    <3>3. QED
      BY <1>1, <1>6, <1>l, <2>2, <3>2 DEF RunningOf, s, r
  <2>3. QED
    BY <2>1, <2>2
<1>10. QED
  BY <1>7, <1>8, <1>9

LEMMA ReconcileRuns ==
    ASSUME Known, NEW p \in Finalizers, Reconcile(p), RunningOf(p)
    PROVE  /\ RunningOf(p)'
           /\ JournalOf(journal', Rank(authority'))
           /\ Kept(journal, journal')
<1> DEFINE r == request[p]
<1>1. pc[p] = "reconcile" /\ UNCHANGED <<authority, receipt>>
  BY DEF Reconcile
<1>0. UNCHANGED journal => JournalOf(journal', Rank(authority')) /\ Kept(journal, journal')
  BY <1>1 DEF Known, Kept
<1>2. CASE \E i \in Adopted(journal, r, authority) :
              /\ Goto(p, AfterReconcile(p, journal[i]))
              /\ request' = [request EXCEPT ![p] = journal[i].request]
              /\ UNCHANGED <<journal, payload, seen, inputs, entry, plan, done>>
  <2>1. PICK i \in Adopted(journal, r, authority) :
              /\ Goto(p, AfterReconcile(p, journal[i]))
              /\ request' = [request EXCEPT ![p] = journal[i].request]
              /\ UNCHANGED <<journal, payload, seen, inputs, entry, plan, done>>
    BY <1>2
  <2>2. pc'[p] = AfterReconcile(p, journal[i]) /\ request'[p] = journal[i].request
    BY <2>1, KnownTypes DEF Goto, TypeInv, TypeOK, FinalizerTypeOK
  <2>3. QED
    BY <1>0, <1>1, <2>1, <2>2, AdoptRuns
<1>3. CASE /\ Met(journal, r) = {}
           /\ journal' = Append(journal, NewAttempt(r))
           /\ Goto(p, AfterReconcile(p, NewAttempt(r)))
           /\ UNCHANGED <<payload, seen, inputs, entry, request, plan, done>>
  <2>1. pc'[p] = AfterReconcile(p, NewAttempt(r))
    BY <1>3, KnownTypes DEF Goto, TypeInv, TypeOK, FinalizerTypeOK
  <2>2. QED
    BY <1>1, <1>3, <2>1, AppendRuns
<1>4. CASE Return(p) /\ UNCHANGED journal
  BY <1>0, <1>4, KnownTypes, ReturnRuns
<1>5. QED
  BY <1>2, <1>3, <1>4 DEF Reconcile

(* The first transition of a review attempt is its review step.            *)
LEMMA FirstStep ==
    ASSUME Known, NEW p \in Finalizers, pc[p] = "ahead", RunningOf(p),
           NEW i \in Open(journal, request[p]),
           seen[p] = request[p].expected \/ journal[i].transitions # <<>>
    PROVE  LET t == plan[p][done[p] + 1]
           IN  /\ t \in Transitions /\ Allowed(request[p], t)
               /\ ~Terminal(request[p].expected)
               /\ journal[i].transitions = <<>> /\ request[p].expected.state = "reviewing"
                     => t = ReviewStep(request[p])
<1> DEFINE q == request[p]
           x == journal[i].transitions
           t == plan[p][done[p] + 1]
<1>1. /\ i \in DOMAIN journal /\ journal[i].request = q /\ journal[i] \in FinalizeAttempts
      /\ Shaped(journal[i])
  BY KnownTypes DEF Open
<1>2. /\ t \in Transitions /\ done[p] + 1 \in 1 .. Len(plan[p]) /\ done[p] \in Nat
      /\ Len(plan[p]) \in Nat /\ DOMAIN plan[p] = 1 .. Len(plan[p])
  BY KnownTypes, NextTransitionType DEF TypeInv, TypeOK, FinalizerTypeOK
<1>3. Plans(q, plan[p]) /\ ~Terminal(seen[p])
  BY DEF RunningOf, Drives
<1>4. Allowed(q, t)
  BY <1>2, <1>3 DEF Plans
<1>5. ~Terminal(q.expected)
  BY <1>1, <1>3 DEF Shaped
<1>6. q \in FinalizeRequests /\ Answers(q)
  BY <1>1, ShapedIs
<1>7. ASSUME x = <<>>, q.expected.state = "reviewing"
      PROVE  t = ReviewStep(q)
  <2>1. PICK k \in DOMAIN journal : Holds(journal[k], q, plan[p], done[p])
    BY DEF Known, PlanJournaled, PlanJournaledOf, Journaled
  <2>2. k = i
    BY <1>1, <2>1 DEF Known, JournalOf, Holds
  <2>3. ~(1 \in 1 .. done[p])
    BY <1>7, <2>1, <2>2 DEF Holds
  <2>4. done[p] = 0
    BY <1>2, <2>3
  <2>5. plan[p] # <<>>
    BY <1>2
  <2>6. t.expected = q.expected
    BY <1>7, <2>4, <2>5 DEF Known, PlanInv, FinalizerSound, PlanOf
  <2>7. Answered(q).state # "reviewing"
    BY <1>6, <1>7, AnsweredIs
  <2>8. t # ForecastStep(q)
    BY <1>7, <2>6, <2>7 DEF ForecastStep, Transition
  <2>9. ~Decides(q, t)
    BY <1>7, <2>6 DEF Decides, OpenCorrection
  <2>10. QED
    BY <1>4, <2>8, <2>9 DEF Allowed
<1>8. QED
  BY <1>2, <1>4, <1>5, <1>7

LEMMA WriteAheadRuns ==
    ASSUME Known, NEW p \in Finalizers, WriteAhead(p), RunningOf(p)
    PROVE  /\ RunningOf(p)'
           /\ JournalOf(journal', Rank(authority'))
           /\ Kept(journal, journal')
<1> DEFINE q == request[p]
           t == plan[p][done[p] + 1]
<1>1. /\ pc[p] = "ahead" /\ pc'[p] \in {"ahead", "commit"}
      /\ UNCHANGED <<authority, receipt, payload, seen, inputs, entry, request, plan>>
      /\ journal' = [i \in DOMAIN journal |-> IF journal[i].request = q
                                             THEN Planned(journal[i], t) ELSE journal[i]]
  BY KnownTypes DEF WriteAhead, Goto, TypeInv, TypeOK, FinalizerTypeOK
<1>2. /\ Rank(seen[p]) <= Rank(authority) /\ Reach(journal, Rank(seen[p]))
      /\ ~Terminal(seen[p]) /\ Drives(journal, seen[p], q, plan[p])
  BY <1>1 DEF RunningOf
<1>3. PICK i \in Open(journal, q) : seen[p] = q.expected \/ journal[i].transitions # <<>>
  BY <1>2 DEF Drives
<1>4. /\ t \in Transitions /\ Allowed(q, t) /\ ~Terminal(q.expected)
      /\ journal[i].transitions = <<>> /\ q.expected.state = "reviewing" => t = ReviewStep(q)
  BY <1>1, <1>3, FirstStep
<1>5. /\ JournalOf(journal, Rank(authority))
      /\ journal \in Seq(FinalizeAttempts)
      /\ \A k \in DOMAIN journal : Shaped(journal[k])
      /\ \A k, m \in DOMAIN journal : journal[k].request = journal[m].request => k = m
  BY KnownTypes DEF Known, JournalOf
<1> HIDE DEF q, t
<1>6. /\ \A n : JournalOf(journal, n) => JournalOf(journal', n)
      /\ \A n : Reach(journal, n) => Reach(journal', n)
      /\ i \in Open(journal', q) /\ journal'[i].transitions # <<>>
      /\ \A m \in DOMAIN journal' : m \in DOMAIN journal /\ (journal'[m] = journal[m] \/ m = i)
      /\ ~journal'[i].completed /\ journal'[i].published = journal[i].published
  BY <1>1, <1>3, <1>4, <1>5, WrittenOf
<1>7. Kept(journal, journal')
  BY <1>6 DEF Kept
<1>8. Drives(journal', seen[p], q, plan[p]) /\ Plans(q, plan[p])
  BY <1>2, <1>6 DEF Drives
<1>9. RunningOf(p)'
  BY <1>1, <1>2, <1>6, <1>8 DEF RunningOf, q
<1>10. QED
  BY <1>1, <1>5, <1>6, <1>7, <1>9

(* A plan that ends undecided has done what its request asks.              *)
LEMMA PlanFinishes ==
    ASSUME Known, NEW q, NEW steps, steps # <<>>, Plans(q, steps),
           Len(steps) \in DOMAIN steps, steps[Len(steps)] \in Transitions,
           ~Terminal(steps[Len(steps)].next)
    PROVE  Finishes(journal, steps[Len(steps)].next, q)
<1> DEFINE t == steps[Len(steps)]
<1>1. Allowed(q, t)
  BY DEF Plans
<1>2. ASSUME NEW i \in DOMAIN journal, journal[i].request = q
      PROVE  Passed(journal[i], Rank(t.next))
  <2>1. journal[i] \in FinalizeAttempts /\ Shaped(journal[i])
    BY KnownTypes
  <2>2. q \in FinalizeRequests /\ Answers(q)
    BY <1>2, <2>1, ShapedIs
  <2>3. CASE q.expected.state = "reviewing" /\ t = ReviewStep(q)
    <3>1. ~Works(Answered(q), q) /\ t.next = Answered(q)
      BY <2>3 DEF Plans, ReviewStep, Transition
    <3>2. QED
      BY <1>2, <2>1, <2>3, <3>1, OnlyReview, ReviewExhausts
  <2>4. CASE BeginsFix(Answered(q), q) /\ t = ForecastStep(q)
    <3>1. t.next = Begun(Answered(q), q)
      BY <2>4 DEF ForecastStep, Transition
    <3>2. QED
      BY <1>2, <2>1, <2>4, <3>1, ForecastExhausts
  <2>5. QED
    BY <1>1, <2>2, <2>3, <2>4, AllowedIs
<1>3. QED
  BY <1>2 DEF Finishes

LEMMA CommitRuns ==
    ASSUME Known, NEW p \in Finalizers, Commit(p), RunningOf(p)
    PROVE  /\ RunningOf(p)'
           /\ JournalOf(journal', Rank(authority'))
           /\ authority' # authority =>
                 authority.state \in {"reviewing", "correction_required", "validating"}
<1> DEFINE q == request[p]
           t == plan[p][done[p] + 1]
<1>1. pc[p] = "commit" /\ UNCHANGED <<journal, receipt>>
  BY DEF Commit
<1>2. /\ done[p] + 1 \in DOMAIN plan[p] /\ t \in Transitions /\ t.next \in CompactStates
      /\ t.operation \in Operations /\ plan[p] # <<>>
      /\ done[p] \in Nat /\ Len(plan[p]) \in Nat /\ DOMAIN plan[p] = 1 .. Len(plan[p])
      /\ done[p] < Len(plan[p])
  <2>1. t \in Transitions /\ done[p] + 1 \in 1 .. Len(plan[p]) /\ done[p] < Len(plan[p])
    BY <1>1, KnownTypes, NextTransitionType DEF TypeInv, PlanInProgress
  <2>2. done[p] \in Nat /\ plan[p] \in Seq(Transitions)
    BY KnownTypes DEF TypeInv, TypeOK, FinalizerTypeOK
  <2> HIDE DEF t
  <2>3. t.next \in CompactStates /\ t.operation \in Operations
    BY <2>1 DEF Transitions
  <2>4. QED
    BY <2>1, <2>2, <2>3, EmptySeq
<1>3. Plans(q, plan[p])
  BY <1>1 DEF RunningOf
<1>4. CASE Accepts(seen[p], t)
  <2>1. /\ authority' = t.next /\ seen'[p] = t.next
        /\ pc'[p] = AfterCommit(p, t.next)
        /\ UNCHANGED <<payload, inputs, entry, request, plan>>
    BY <1>1, <1>4, KnownTypes DEF Commit, Goto, TypeInv, TypeOK, FinalizerTypeOK
  <2>2. authority' # authority => Rank(authority') > Rank(authority)
    BY CommitSound DEF Known
  <2>3. Rank(authority') \in Nat /\ Rank(authority) \in Nat
        /\ Rank(authority) <= Rank(authority')
    BY <1>2, <2>1, <2>2, KnownTypes, RankType
  <2>4. JournalOf(journal', Rank(authority')) /\ Reach(journal', Rank(authority'))
    <3>1. JournalOf(journal, Rank(authority)) /\ journal \in Seq(FinalizeAttempts)
      BY KnownTypes DEF Known
    <3>2. QED
      BY <1>1, <2>3, <3>1, ReachGrows DEF JournalOf
  <2>5. authority' # authority =>
            authority.state \in {"reviewing", "correction_required", "validating"}
    <3> SUFFICES ASSUME authority' # authority
                 PROVE  authority.state \in {"reviewing", "correction_required", "validating"}
      OBVIOUS
    <3>1. Admissible(authority, t.next, t.operation)
      BY <1>4, <2>1 DEF Accepts
    <3>2. QED
      BY <1>2, <3>1, KnownTypes, AdmissibleSuccessor DEF Operations
  <2> HIDE DEF t
  <2>6. CASE pc'[p] = "complete"
    <3>1. done[p] + 1 = Len(plan[p]) /\ ~Terminal(t.next)
      BY <1>2, <2>1, <2>6 DEF AfterCommit
    <3>2. Finishes(journal, t.next, q)
      BY <1>2, <1>3, <3>1, PlanFinishes DEF t
    <3>3. QED
      BY <1>1, <2>1, <2>3, <2>4, <2>5, <2>6, <3>2 DEF RunningOf, q
  <2>7. CASE pc'[p] # "complete"
    <3>1. pc'[p] \in {"commit", "publish"}
      BY <2>1, <2>7 DEF AfterCommit
    <3>2. QED
      BY <1>1, <1>3, <2>1, <2>3, <2>4, <2>5, <3>1 DEF RunningOf, q
  <2>8. QED
    BY <2>6, <2>7
<1>5. CASE ~Accepts(seen[p], t)
  <2>1. UNCHANGED authority /\ (Leave(p, "lost", request[p]) \/ Return(p))
    BY <1>5 DEF Commit
  <2>2. QED
    BY <1>1, <2>1, KnownTypes, LeaveRuns, ReturnRuns DEF Known
<1>6. QED
  BY <1>4, <1>5

LEMMA FinishRuns ==
    ASSUME Known, NEW p \in Finalizers, RunningOf(p),
           Publish(p) \/ Confirm(p) \/ MarkPublished(p)
    PROVE  RunningOf(p)' /\ JournalOf(journal', Rank(authority'))
<1> USE DEF Goto, TypeInv, TypeOK, FinalizerTypeOK
<1>1. TypeInv /\ JournalOf(journal, Rank(authority))
  BY KnownTypes DEF Known
<1>2. CASE Publish(p) /\ ~Return(p)
  <2>1. /\ pc[p] = "publish" /\ pc'[p] = "confirm" /\ seen' = seen
        /\ UNCHANGED <<authority, journal>>
    BY <1>1, <1>2 DEF Publish
  <2>2. QED
    BY <1>1, <2>1 DEF RunningOf
<1>3. CASE Confirm(p) /\ ~Return(p)
  <2>1. /\ pc[p] = "confirm" /\ pc'[p] = "mark" /\ seen' = seen
        /\ UNCHANGED <<authority, journal, receipt>> /\ receipt = ReceiptOf(seen[p])
    BY <1>1, <1>3 DEF Confirm, store
  <2>2. Attests'
    BY <2>1, KnownTypes, ReceiptType DEF Attests
  <2>3. QED
    BY <1>1, <2>1, <2>2 DEF RunningOf
<1>4. CASE MarkPublished(p)
  <2>1. /\ pc[p] = "mark" /\ pc'[p] = "complete" /\ seen' = seen
        /\ UNCHANGED <<authority, receipt>>
        /\ journal' = [i \in DOMAIN journal |-> IF journal[i].request = request[p]
                          THEN [journal[i] EXCEPT !.published = TRUE] ELSE journal[i]]
    BY <1>1, <1>4 DEF MarkPublished
  <2>2. Attests /\ Rank(seen[p]) <= Rank(authority) /\ Reach(journal, Rank(seen[p]))
    BY <2>1 DEF RunningOf
  <2>3. /\ DOMAIN journal' = DOMAIN journal
        /\ \A i \in DOMAIN journal :
              /\ journal'[i].request = journal[i].request
              /\ journal'[i].transitions = journal[i].transitions
              /\ journal'[i].completed => journal[i].completed
    BY <2>1, KnownTypes DEF FinalizeAttempts
  <2>4. JournalOf(journal', Rank(authority))
    BY <1>1, <2>3, MarkedOf
  <2>5. Reach(journal', Rank(seen[p]))
    BY <2>2, <2>3 DEF Reach, Passed
  <2>6. Attests'
    BY <2>1, <2>2 DEF Attests
  <2>7. QED
    BY <2>1, <2>2, <2>4, <2>5, <2>6 DEF RunningOf
<1>5. CASE (Publish(p) \/ Confirm(p)) /\ Return(p)
  BY <1>1, <1>5, ReturnRuns DEF Publish, Confirm, store
<1>6. CASE (Publish(p) \/ Confirm(p)) /\ ~Return(p)
  <2>1. UNCHANGED <<authority, journal>>
    BY <1>6 DEF Publish, Confirm, store
  <2>2. QED
    BY <1>1, <1>2, <1>3, <1>6, <2>1
<1>7. QED
  BY <1>4, <1>5, <1>6

LEMMA CompleteRuns ==
    ASSUME Known, NEW p \in Finalizers, RunningOf(p), Complete(p), CompletedIsPublished
    PROVE  RunningOf(p)' /\ JournalOf(journal', Rank(authority')) /\ CompletedIsPublished'
<1> DEFINE q == request[p]
           n == Rank(authority)
<1>1. /\ pc[p] = "complete" /\ Return(p) /\ UNCHANGED <<authority, receipt>>
      /\ journal' = [i \in DOMAIN journal |-> IF journal[i].request = q
                        THEN [journal[i] EXCEPT !.completed = TRUE] ELSE journal[i]]
  BY DEF Complete
<1>2. /\ Attests \/ Finishes(journal, seen[p], q)
      /\ Rank(seen[p]) <= n
  BY <1>1 DEF RunningOf
<1>3. RunningOf(p)'
  BY <1>1, KnownTypes, ReturnRuns
<1>4. /\ DOMAIN journal' = DOMAIN journal
      /\ \A i \in DOMAIN journal :
            /\ journal'[i].request = journal[i].request
            /\ journal'[i].transitions = journal[i].transitions
            /\ journal'[i].published = journal[i].published
            /\ journal'[i].completed => journal[i].completed \/ journal[i].request = q
  BY <1>1, KnownTypes DEF FinalizeAttempts
<1>5. /\ JournalOf(journal, n) /\ n \in Nat /\ authority \in CompactStates
      /\ seen[p] \in CompactStates /\ Rank(seen[p]) \in Nat
      /\ \A i \in DOMAIN journal : journal[i] \in FinalizeAttempts /\ Shaped(journal[i])
  BY KnownTypes DEF Known
<1>6. ASSUME NEW i \in DOMAIN journal, journal[i].request = q
      PROVE  Passed(journal[i], n)
  <2>1. CASE Attests
    <3>1. Stage(authority) \in {3, 4}
      BY <2>1, StageOfAttested DEF Known
    <3>2. Rank(journal[i].request.expected) <= n
      BY <1>5 DEF JournalOf, Reach
    <3>3. QED
      BY <1>5, <3>1, <3>2, DecisionPasses
  <2>2. CASE Finishes(journal, seen[p], q)
    <3>1. Passed(journal[i], Rank(seen[p]))
      BY <1>6, <2>2 DEF Finishes
    <3>2. QED
      BY <1>2, <1>5, <3>1, PassedRanks
  <2>3. QED
    BY <1>2, <2>1, <2>2
<1>7. JournalOf(journal', n)
  BY <1>4, <1>5, <1>6, MarkedOf
<1>8. CompletedIsPublished'
  <2>1. CASE Attests
    BY <1>1, <2>1 DEF CompletedIsPublished, Attests
  <2>2. CASE ~Attests
    <3>1. \A i \in DOMAIN journal : ~journal'[i].published
      BY <1>4, <2>2 DEF CompletedIsPublished, Attests
    <3>2. ASSUME NEW i \in DOMAIN journal, Terminal(authority), journal'[i].completed
          PROVE  ~(TransitionIndex(journal'[i], authority) > 0)
      <4>0. TransitionIndex(journal'[i], authority) > 0
               <=> TransitionIndex(journal[i], authority) > 0
        <5>1. journal' \in Seq(FinalizeAttempts)
          BY KnownTypes, CompleteType DEF TypeInv, TypeOK, StoreTypeOK
        <5>2. journal'[i] \in FinalizeAttempts
          BY <1>4, <5>1, AttemptFields
        <5>3. QED
          BY <1>4, <1>5, <5>2, TransitionIndexType
      <4>1. CASE journal[i].completed
        BY <2>2, <3>2, <4>0, <4>1 DEF CompletedIsPublished, Attests
      <4>2. CASE journal[i].request = q
        <5>1. Passed(journal[i], Rank(seen[p])) /\ ~Terminal(seen[p])
          BY <1>2, <2>2, <4>2 DEF Finishes
        <5>2. n # Rank(seen[p])
          BY <1>5, <3>2, <5>1, DecidedRank
        <5>3. n > Rank(seen[p])
          BY <1>2, <1>5, <5>2
        <5>4. QED
          BY <1>5, <4>0, <5>1, <5>3, PassedMisses
      <4>3. QED
        BY <1>4, <3>2, <4>1, <4>2
    <3>3. QED
      BY <1>1, <1>4, <3>1, <3>2 DEF CompletedIsPublished
  <2>3. QED
    BY <2>1, <2>2
<1>9. QED
  BY <1>1, <1>3, <1>7, <1>8

(* Whoever keeps the authority, or replaces one under review by a further  *)
(* one, leaves completed attempts behind it.                               *)
LEMMA PublishedKept ==
    ASSUME Known, CompletedIsPublished, Kept(journal, journal'), UNCHANGED authority,
           Attests => Attests'
    PROVE  CompletedIsPublished'
<1>1. CASE Attests
  BY <1>1 DEF CompletedIsPublished, Attests
<1>2. CASE ~Attests
  BY <1>2 DEF CompletedIsPublished, Attests, Kept
<1>3. QED
  BY <1>1, <1>2

LEMMA PublishedPassed ==
    ASSUME Known, CompletedIsPublished, UNCHANGED <<journal, receipt>>,
           authority' \in CompactStates, Rank(authority') > Rank(authority),
           authority.state \in {"reviewing", "correction_required", "validating"}
    PROVE  CompletedIsPublished'
<1>1. ~Attests
  BY OpenReview DEF Known, Attests
<1>2. \A i \in DOMAIN journal : ~journal[i].published
  BY <1>1 DEF CompletedIsPublished, Attests
<1>3. ASSUME NEW i \in DOMAIN journal, journal[i].completed
      PROVE  ~(TransitionIndex(journal[i], authority') > 0)
  <2>1. Passed(journal[i], Rank(authority))
    BY <1>3 DEF Known, JournalOf, Reach
  <2>2. QED
    BY <2>1, KnownTypes, PassedMisses
<1>4. QED
  BY <1>2, <1>3 DEF CompletedIsPublished

(* The others write no journal; an authority they replace is under review, *)
(* or the approval they revoke.                                            *)
LEMMA OthersRun ==
    ASSUME Known, TypeInv', CompletedIsPublished, \A p \in Finalizers : RunningOf(p),
           Capture \/ Maintain \/ Revocation \/ Deliver \/ (\E c \in Candidates : Edit(c))
           \/ UNCHANGED vars
    PROVE  /\ JournalOf(journal', Rank(authority')) /\ CompletedIsPublished'
           /\ \A p \in Finalizers : RunningOf(p)'
<1>1. UNCHANGED <<journal, pc, payload, seen, inputs, entry, request, plan>>
  BY DEF Capture, BeginCapture, CapturePayload, CaptureRecord, AbortCapture, Maintain,
         ReopenResults, DisposeResult, InvalidatePristine, Replace, Revocation, Revoke,
         RemoveReceipt, AbortRevoke, ReplayRevoke, Deliver, GateEvaluate, GateAllow,
         GateDeny, Edit, store, fins, vars
<1>2. \/ UNCHANGED <<authority, receipt>>
      \/ Maintain
      \/ Revoke
      \/ UNCHANGED authority /\ authority.denied
  BY DEF Capture, BeginCapture, CapturePayload, CaptureRecord, AbortCapture, Revocation,
         RemoveReceipt, AbortRevoke, ReplayRevoke, Deliver, GateEvaluate, GateAllow,
         GateDeny, Edit, store, vars, Known, AuthorityInv, RevokerDenied
<1>3. Rank(authority') \in Nat /\ Rank(authority) \in Nat /\ authority' \in CompactStates
  BY KnownTypes, RankType DEF TypeInv, TypeOK, StoreTypeOK
<1>4. CASE UNCHANGED <<authority, receipt>>
  BY <1>1, <1>4, PublishedKept DEF Known, Kept, Attests, RunningOf
<1>5. CASE UNCHANGED authority /\ authority.denied
  BY <1>1, <1>5, PublishedKept DEF Known, Kept, Attests, RunningOf
<1>6. ASSUME Rank(authority') > Rank(authority), Attests => Attests'
      PROVE  /\ JournalOf(journal', Rank(authority'))
             /\ \A p \in Finalizers : RunningOf(p)'
  <2>1. JournalOf(journal', Rank(authority'))
    BY <1>1, <1>3, <1>6, KnownTypes, ReachGrows DEF Known
  <2>2. ASSUME NEW p \in Finalizers
        PROVE  RunningOf(p)'
    <3>1. Rank(seen[p]) <= Rank(authority) => Rank(seen[p]) <= Rank(authority')
      BY <1>3, <1>6, KnownTypes
    <3>2. RunningOf(p)
      OBVIOUS
    <3>3. QED
      BY <1>1, <1>6, <3>1, <3>2 DEF RunningOf
  <2>3. QED
    BY <2>1, <2>2
<1>7. CASE Maintain
  <2>1. Rank(authority') > Rank(authority) /\ UNCHANGED receipt
    BY <1>7, KnownTypes, MaintainSound
       DEF Known, PlanInv, Maintain, ReopenResults, DisposeResult, InvalidatePristine, Replace
  <2>2. authority.state \in {"reviewing", "correction_required", "validating"}
    BY <1>7 DEF Maintain, ReopenResults, ReopenEligible, DisposeResult, InvalidatePristine,
                PristineReviewing
  <2>3. ~Attests
    BY <2>2, OpenReview DEF Known, Attests
  <2>4. QED
    BY <1>1, <1>3, <1>6, <2>1, <2>2, <2>3, PublishedPassed
<1>8. CASE Revoke
  <2>1. Rank(authority') > Rank(authority)
    BY <1>8, KnownTypes, RevokeSound DEF Known, PlanInv
  <2>2. authority'.denied
    BY <1>8, KnownTypes DEF Revoke, InvalidateApproved, CompactStates
  <2>3. Attests' /\ CompletedIsPublished'
    BY <2>2 DEF Attests, CompletedIsPublished
  <2>4. QED
    BY <1>6, <2>1, <2>3
<1>9. QED
  BY <1>2, <1>4, <1>5, <1>7, <1>8

LEMMA SoleStep ==
    ASSUME Known, TypeInv', CompletedIsPublished,
           NEW p \in Finalizers, Finalize(p), RunningOf(p)
    PROVE  /\ JournalOf(journal', Rank(authority')) /\ CompletedIsPublished'
           /\ RunningOf(p)'
<1>1. CASE (\E r \in Requests : Load(p, r)) \/ Inspect(p) \/ Enter(p) \/ Prepare(p)
           \/ Confirm(p) \/ Abort(p)
  <2>1. UNCHANGED <<authority, journal, receipt>>
    BY <1>1 DEF Load, Inspect, Enter, Prepare, Confirm, Abort, store
  <2>2. RunningOf(p)'
    BY <1>1, KnownTypes, LoadRuns, InspectRuns, EnterRuns, PrepareRuns, FinishRuns, ReturnRuns
       DEF Abort
  <2>3. QED
    BY <2>1, <2>2, PublishedKept DEF Known, Kept, Attests
<1>2. CASE Reconcile(p) \/ WriteAhead(p)
  <2>1. UNCHANGED <<authority, receipt>>
    BY <1>2 DEF Reconcile, WriteAhead
  <2>2. QED
    BY <1>2, <2>1, ReconcileRuns, WriteAheadRuns, PublishedKept DEF Attests
<1>3. CASE Commit(p)
  <2>1. UNCHANGED <<journal, receipt>>
    BY <1>3 DEF Commit
  <2>2. CASE UNCHANGED authority
    BY <1>3, <2>1, <2>2, CommitRuns, PublishedKept DEF Kept, Attests
  <2>3. CASE authority' # authority
    <3>1. Rank(authority') > Rank(authority) /\ authority' \in CompactStates
      BY <1>3, <2>3, CommitSound DEF Known, TypeInv, TypeOK, StoreTypeOK
    <3>2. QED
      BY <1>3, <2>1, <2>3, <3>1, CommitRuns, PublishedPassed
  <2>4. QED
    BY <2>2, <2>3
<1>4. CASE Publish(p)
  <2>1. UNCHANGED <<authority, journal>>
        /\ (UNCHANGED receipt \/ receipt' = ReceiptOf(seen[p]))
    BY <1>4 DEF Publish
  <2>2. receipt' = ReceiptOf(seen[p]) => receipt' # NoReceipt
    BY KnownTypes, ReceiptType
  <2>3. Attests => Attests'
    BY <2>1, <2>2 DEF Attests
  <2>4. QED
    BY <1>4, <2>1, <2>3, FinishRuns, PublishedKept DEF Kept
<1>5. CASE MarkPublished(p)
  <2>1. Attests /\ UNCHANGED <<authority, receipt>>
    BY <1>5 DEF MarkPublished, RunningOf
  <2>2. QED
    BY <1>5, <2>1, FinishRuns DEF CompletedIsPublished, Attests
<1>6. CASE Complete(p)
  BY <1>6, CompleteRuns
<1>7. QED
  BY <1>1, <1>2, <1>3, <1>4, <1>5, <1>6 DEF Finalize, Run

LEMMA PlanJournaledInvariant == Spec => []PlanJournaled
<1>1. Init => PlanJournaled
  BY DEF Init, PlanJournaled, PlanJournaledOf
<1>2. TypeInv /\ PlanJournaled /\ [Next]_vars => PlanJournaled'
  BY NextJournaled
<1>3. QED
  BY <1>1, <1>2, TypeInvariant, PTL DEF Spec

(* With one finalizer, whatever crashes, maintenance, revocations and      *)
(* removed receipts come between: an attempt marked completed in the       *)
(* journal, whose decision is the committed one, has its receipt on disk,  *)
(* or the approval is being revoked.  CompleteFinalizeAttempt is reached   *)
(* past the publication only; ReconcileFinalizeAttempt, which reads a      *)
(* matching journal entry as done, never meets an attempt completed early. *)
THEOREM SolePublishes ==
    ASSUME \A p, q \in Finalizers : p = q
    PROVE  Spec => []CompletedIsPublished
<1>1. Init => SoleInv
  <2> SUFFICES ASSUME Init PROVE SoleInv
    OBVIOUS
  <2>1. journal = <<>> /\ \A p \in Finalizers : pc[p] = "idle"
    BY DEF Init
  <2>2. QED
    BY <2>1 DEF SoleInv, JournalOf, Reach, RunningOf, CompletedIsPublished
<1>2. ASSUME AuthorityInv, PlanInv, PlanJournaled, OnePendingAttempt, TypeInv', SoleInv,
             [Next]_vars
      PROVE  SoleInv'
  <2>1. Known /\ CompletedIsPublished /\ \A p \in Finalizers : RunningOf(p)
    BY <1>2 DEF Known, SoleInv
  <2>2. ASSUME NEW p \in Finalizers, Finalize(p)
        PROVE  SoleInv'
    <3>1. \A q \in Finalizers : q = p
      OBVIOUS
    <3>2. QED
      BY <1>2, <2>1, <2>2, <3>1, SoleStep DEF SoleInv
  <2>3. ASSUME Capture \/ Maintain \/ Revocation \/ Deliver \/ (\E c \in Candidates : Edit(c))
               \/ UNCHANGED vars
        PROVE  SoleInv'
    BY <1>2, <2>1, <2>3, OthersRun DEF SoleInv
  <2>4. QED
    BY <1>2, <2>2, <2>3 DEF Next
<1>3. SoleInv => CompletedIsPublished
  BY DEF SoleInv
<1>4. QED
  BY <1>1, <1>2, <1>3, TypeInvariant, AuthorityInvariant, PlanInvariant, PlanJournaledInvariant,
     OnePending, PTL DEF Spec

=============================================================================
