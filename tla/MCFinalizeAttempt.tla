------------------------- MODULE MCFinalizeAttempt -------------------------
(* TLC instances of FinalizeAttempt. *)
EXTENDS FinalizeAttempt, TLC

CONSTANTS p1, p2, genesis, fix, bigfix, stray

OneFix == {fix}
MCStrays == {stray}
MCFixSize == [f \in Fixes |-> IF f = fix THEN 1 ELSE 2]

Submit(results, lines, validation, evidence) ==
    [results |-> results, lines |-> lines, validation |-> validation,
     evidence |-> evidence]

CleanReview  == Submit("clean", 0, NoCandidate, "none")
DefectReview == Submit("fix", 1, NoCandidate, "none")
Inconclusive == Submit("inconclusive", 0, NoCandidate, "none")
Forecast(n)  == Submit("none", n, NoCandidate, "none")
Correct(f)   == Submit("none", 0, f, "captured")
Raw(outcome) == Submit("none", 0, NoCandidate, outcome)

AllRequests == {EmptyPayload, CleanReview, DefectReview, Inconclusive, Forecast(2),
                Raw("passed"), Raw("failed")} \cup {Correct(f) : f \in Fixes}

(* The requests of the two-finalizer runs: a verification in one request    *)
(* with its clean review races a defective review to the verdict; and a     *)
(* clean review and the verification in requests of their own.              *)
ReviewRace   == {EmptyPayload, DefectReview, Submit("clean", 0, NoCandidate, "passed")}
ReceiptRace  == {EmptyPayload, CleanReview, Raw("passed")}

(* Two finalizers submit different forecasts for the same finding. *)
ForecastRace == {EmptyPayload, Submit("fix", 0, NoCandidate, "none"),
                 Forecast(1), Forecast(2)}

FinalizerSymmetry == Permutations(Finalizers)

(* Bounds of the one-finalizer run.  The tree moves where somebody looks at *)
(* it: between its plan and its last commit a finalizer does not, and no    *)
(* tree is stray but at an open correction and after the approval.  The     *)
(* gate and a capture, which share nothing, are not under way at one time.  *)
LookedAt ==
    live' # live =>
        \/ authority.state = "approved"
        \/ /\ \A p \in Finalizers : pc[p] \notin {"reconcile", "ahead", "commit"}
           /\ live' \in Strays => OpenCorrection(authority)
GateOrCapture == gate'.pc = "idle" \/ capture'.pc = "idle"

(* Bound of the two-finalizer runs: the gate, the revocation, the capture   *)
(* and a tree that moves are left to the one-finalizer run.                 *)
NoEdits == gate' = gate /\ revoking' = revoking /\ live' = live /\ capture' = capture

=============================================================================
