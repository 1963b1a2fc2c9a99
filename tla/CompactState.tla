---------------------------- MODULE CompactState ----------------------------
(***************************************************************************)
(* The compact (v2) review authority as a value: the states one lineage    *)
(* may hold, the operations that compute a successor, what Validate admits *)
(* and which (predecessor, successor, operation) triples the store admits. *)
(* Pure operators, no variables: internal/reviewtransaction/compact.go and *)
(* the validation half of compact_store.go.                                *)
(*                                                                         *)
(* A state is content-addressed: its revision is the digest of the state,  *)
(* so a state stands for its revision wherever the code compares revisions.*)
(* Everything frozen at START (lineage, scope, policy, lenses, budget) is  *)
(* constant here.  A correction is named by the candidate it produces, a   *)
(* reviewer result set by the verdict CompleteReview draws from it.        *)
(***************************************************************************)
EXTENDS Naturals

CONSTANTS
    Genesis,     \* the candidate frozen at START (InitialSnapshot)
    Fixes,       \* corrected candidates whose paths stay inside the genesis scope
    Strays,      \* live trees outside that scope, or on a base that has moved
    NoCandidate,
    Budget,      \* CorrectionBudget, in changed lines
    FixSize      \* changed lines of each fix, measured from the repository

ASSUME CandidatesAssumption ==
    /\ Genesis \notin Fixes \cup Strays
    /\ Fixes \cap Strays = {}
    /\ NoCandidate \notin {Genesis} \cup Fixes \cup Strays

ASSUME BudgetAssumption == Budget \in Nat /\ FixSize \in [Fixes -> Nat]

MaxCompactCorrectionAttempts == 1

Candidates == {Genesis} \cup Fixes \cup Strays
Targets    == {Genesis} \cup Fixes      \* what a lineage can verify and approve

-----------------------------------------------------------------------------
(* Types *)

StateNames == {"reviewing", "correction_required", "validating",
               "approved", "escalated", "invalidated"}
Results    == {"clean", "fix", "inconclusive"}
Verdicts   == Results \cup {"none", "disposed"}
Outcomes   == {"passed", "failed", "procedural_failure"}

(* The revisions verification evidence can be bound to.  Evidence exists   *)
(* only below an unapproved authority, where these fields determine the    *)
(* state, so the tuple is as good as the digest and keeps states flat.     *)
Revision(s) == <<s.state, s.verdict, s.lines, s.reopens>>
NoRevision  == <<"none", "none", 0, 0>>
Revisions   == (StateNames \cup {"none"}) \X Verdicts \X Nat \X Nat

(* authority = NoRevision: raw evidence, a payload without a bound record. *)
Evidence == [outcome   : Outcomes \cup {"none"},
             target    : Targets \cup {NoCandidate},
             authority : Revisions]
NoEvidence == [outcome |-> "none", target |-> NoCandidate, authority |-> NoRevision]

RawEvidence(outcome) == [NoEvidence EXCEPT !.outcome = outcome]
HasRecord(e)         == e.authority # NoRevision

CompactStates ==
    [state    : StateNames,
     verdict  : Verdicts,                        \* LensResults .. FixFindingIDs, ResultDispositions
     lines    : Nat,                             \* ProposedCorrectionLines, 0 when absent
     fix      : Fixes \cup {NoCandidate},        \* CorrectionAttempts, at most one
     current  : Targets,                         \* CurrentSnapshot
     evidence : Evidence,
     reopens  : Nat,                             \* ResultReopens
     consumed : 0 .. MaxCompactCorrectionAttempts, \* Recovery.ConsumedCorrectionAttempts
     denied   : BOOLEAN]                         \* InvalidationEvidence is present

Terminal(s) == s.state \in {"approved", "escalated"}

-----------------------------------------------------------------------------
(* Predicates of a state *)

Attempts(s) == IF s.fix = NoCandidate THEN 0 ELSE 1

CorrectionAttemptConsumed(s) ==
    Attempts(s) + s.consumed >= MaxCompactCorrectionAttempts

PristineReviewing(s) ==
    /\ s.state = "reviewing" /\ s.verdict = "none"
    /\ s.lines = 0 /\ s.fix = NoCandidate
    /\ s.current = Genesis /\ s.evidence = NoEvidence

ReopenEligible(s) ==
    /\ s.current = Genesis /\ s.fix = NoCandidate /\ s.evidence = NoEvidence
    /\ \/ s.state = "validating" /\ s.verdict # "fix" /\ s.lines = 0
       \/ s.state = "correction_required"

-----------------------------------------------------------------------------
(* Operations.  CanX is the conjunction of X's refusals, X its result.     *)

NewCompactState(consumed) ==
    [state |-> "reviewing", verdict |-> "none", lines |-> 0, fix |-> NoCandidate,
     current |-> Genesis, evidence |-> NoEvidence, reopens |-> 0,
     consumed |-> consumed, denied |-> FALSE]

CanCompleteReview(s, results) == s.state = "reviewing" /\ results \in Results

CompleteReview(s, results) ==
    [s EXCEPT !.verdict = results,
              !.state = CASE results = "inconclusive" -> "escalated"
                          [] results = "fix"          -> "correction_required"
                          [] results = "clean"        -> "validating"]

CanBeginCorrection(s, lines) ==
    /\ ~CorrectionAttemptConsumed(s)
    /\ s.state = "correction_required" /\ s.lines = 0
    /\ lines > 0

(* An over-budget forecast is retained and escalates. *)
BeginCorrection(s, lines) ==
    [s EXCEPT !.lines = lines,
              !.state = IF lines > Budget THEN "escalated" ELSE s.state]

OpenCorrection(s) == s.state = "correction_required" /\ s.lines > 0

CanCompleteCorrectionVerification(s, fix, record) ==
    /\ ~CorrectionAttemptConsumed(s)
    /\ OpenCorrection(s)
    /\ fix \in Fixes /\ FixSize[fix] <= Budget
    /\ record.outcome = "passed" /\ record.target = fix

CompleteCorrectionVerification(s, fix, record) ==
    [s EXCEPT !.state = "approved", !.fix = fix, !.current = fix, !.evidence = record]

CanEscalateCorrectionVerification(s, fix, record) ==
    /\ OpenCorrection(s)
    /\ fix \in Fixes
    /\ record.outcome = "procedural_failure" /\ record.target = fix

EscalateCorrectionVerification(s, record) ==
    [s EXCEPT !.state = "escalated", !.evidence = record]

(* Raw evidence carries no target; a record must name the current snapshot. *)
CanCompleteVerification(s, evidence) ==
    /\ s.state = "validating"
    /\ evidence.outcome # "none"
    /\ HasRecord(evidence) => evidence.target = s.current

(* Mutated: the outcome does not decide the state. *)
CompleteVerification_AnyOutcome(s, evidence) ==
    [s EXCEPT !.evidence = evidence, !.state = "approved"]

CompleteVerification(s, evidence) ==
    [s EXCEPT !.evidence = evidence,
              !.state = IF evidence.outcome = "passed" THEN "approved" ELSE "escalated"]

Invalidate(s) == [s EXCEPT !.state = "invalidated"]

InvalidateApproved(s) == [s EXCEPT !.state = "invalidated", !.denied = TRUE]

(* Mutated: the reopen leaves no audit record. *)
Reopen_Unrecorded(s) ==
    [s EXCEPT !.state = "reviewing", !.verdict = "none", !.lines = 0, !.evidence = NoEvidence]

Reopen(s) ==
    [s EXCEPT !.state = "reviewing", !.verdict = "none", !.lines = 0,
              !.evidence = NoEvidence, !.reopens = @ + 1]

Dispose(s) == [s EXCEPT !.state = "escalated", !.verdict = "disposed"]

(* The receipt a terminal authority determines. *)
ReceiptOf(s) ==
    [terminal |-> s.state, final |-> s.current, fix |-> s.fix,
     verdict |-> s.verdict, evidence |-> s.evidence]
Receipts ==
    [terminal : StateNames, final : Targets, fix : Fixes \cup {NoCandidate},
     verdict : Verdicts, evidence : Evidence]

-----------------------------------------------------------------------------
(* What the store admits *)

(* A bound record names the correction it verified (CorrectionAttempts or  *)
(* CorrectionVerificationTarget) or else the current snapshot, and its     *)
(* outcome agrees with the terminal state.                                 *)
ValidEvidence(s) ==
    HasRecord(s.evidence) =>
        /\ IF s.fix # NoCandidate THEN s.evidence.target = s.fix
           ELSE IF s.lines > 0 THEN s.evidence.target \in Fixes
           ELSE s.evidence.target = s.current
        /\ s.evidence.outcome = "passed" => s.state = "approved"
        /\ s.evidence.outcome \in {"failed", "procedural_failure"} => s.state = "escalated"

(* validateCompactCorrection: a forecast awaits its correction or explains *)
(* an escalation, and causal findings never bypass the correction.         *)
ValidCorrection(s) ==
    IF s.fix # NoCandidate
    THEN /\ s.current = s.fix /\ s.fix \in Fixes /\ s.verdict = "fix"
         /\ s.lines \in 1 .. Budget /\ FixSize[s.fix] <= Budget
         /\ s.state \notin {"reviewing", "correction_required"}
    ELSE /\ s.current = Genesis
         /\ s.lines > 0 => s.verdict = "fix" /\ s.state \in {"correction_required", "escalated"}
         /\ s.state = "escalated" /\ s.lines > 0 =>
                (s.lines > Budget) # (s.evidence.outcome = "procedural_failure")
         /\ s.verdict = "fix" => s.state \in {"correction_required", "escalated"}

ValidOpen(s) ==
    /\ s.lines > Budget => s.state = "escalated"
    /\ s.verdict = "disposed" => s.state = "escalated"
    /\ ValidEvidence(s)
    /\ ValidCorrection(s)
    /\ CASE s.state = "reviewing"   -> s.verdict = "none" /\ s.lines = 0 /\ s.evidence = NoEvidence
         [] s.state = "invalidated" -> PristineReviewing([s EXCEPT !.state = "reviewing"])
         [] s.state = "correction_required" -> s.verdict = "fix" /\ s.evidence = NoEvidence
         [] s.state = "validating"  -> s.verdict \in {"clean", "fix"} /\ s.evidence = NoEvidence
         [] s.state = "approved"    -> s.evidence.outcome # "none"
         [] s.state = "escalated"   -> TRUE

(* Invalidation evidence is checked against the approval it revoked. *)
Origin(s) == IF s.denied THEN [s EXCEPT !.state = "approved", !.denied = FALSE] ELSE s

Valid(s) ==
    /\ s.denied => s.state = "invalidated"
    /\ ValidOpen(Origin(s))

(* The fields an operation may change; every other field must be retained. *)
OnlyChanged(prev, next, fields) == \A f \in DOMAIN prev \ fields : prev[f] = next[f]

(* Evidence committed with a record names the revision it replaces. *)
BoundTo(prev, e) == HasRecord(e) => e.authority = Revision(prev)

LegalSuccessor(prev, next, op) ==
    CASE op = "review/invalidate" ->
            PristineReviewing(prev) /\ next = Invalidate(prev)
      [] op = "review/complete-review" ->
            /\ prev.state = "reviewing"
            /\ next.state \in {"correction_required", "validating", "escalated"}
            /\ next.current = prev.current /\ next.lines = 0 /\ next.fix = NoCandidate
            /\ next.evidence = NoEvidence
      [] op = "review/begin-fix" ->
            /\ ~CorrectionAttemptConsumed(prev)
            /\ prev.state = "correction_required" /\ prev.lines = 0
            /\ next.state \in {"correction_required", "escalated"} /\ next.lines > 0
            /\ OnlyChanged(prev, next, {"state", "lines"})
      [] op = "review/complete-correction-verification" ->
            /\ ~CorrectionAttemptConsumed(prev)
            /\ OpenCorrection(prev)
            /\ next.state = "approved" /\ Attempts(next) = Attempts(prev) + 1
            /\ next.evidence.outcome = "passed"
            /\ next.evidence.authority = Revision(prev) /\ next.evidence.target = next.fix
            /\ OnlyChanged(prev, next, {"state", "fix", "current", "evidence"})
      [] op = "review/escalate-correction-verification" ->
            /\ OpenCorrection(prev)
            /\ next.state = "escalated"
            /\ next.evidence.outcome = "procedural_failure"
            /\ next.evidence.authority = Revision(prev)
            /\ OnlyChanged(prev, next, {"state", "evidence"})
      [] op = "review/complete-verification" ->
            /\ prev.state = "validating"
            /\ next.state \in {"approved", "escalated"}
            /\ next.evidence.outcome # "none" /\ BoundTo(prev, next.evidence)
            /\ OnlyChanged(prev, next, {"state", "evidence"})
      [] op = "review/dispose-result" ->
            prev.state = "reviewing" /\ next = Dispose(prev)
      [] op = "review/reopen-results" ->
            /\ \/ prev.state = "validating"
               \/ prev.state = "correction_required" /\ prev.fix = NoCandidate
            /\ next = Reopen(prev)

Admissible(prev, next, op) == Valid(next) /\ LegalSuccessor(prev, next, op)

=============================================================================
