-------------------------- MODULE ReviewAuthority --------------------------
(***************************************************************************)
(* What a review lineage promises whoever delivers by it: one decision,    *)
(* one receipt.  A lineage is decided at most once; its receipt is         *)
(* published only for that decision and never replaced; an approval can be *)
(* taken back once, and only afterwards does its receipt disappear.        *)
(***************************************************************************)
CONSTANTS Candidates

VARIABLES
    decision,   \* [verdict, candidate], or Undecided
    revoked,    \* the approval was taken back
    receipt     \* the decision the published receipt attests, or Undecided

vars == <<decision, revoked, receipt>>

Undecided == [verdict |-> "open"]
Decisions == [verdict : {"approved", "escalated", "cancelled"}, candidate : Candidates]

TypeOK ==
    /\ decision \in Decisions \cup {Undecided}
    /\ revoked \in BOOLEAN
    /\ receipt \in Decisions \cup {Undecided}

Init == decision = Undecided /\ revoked = FALSE /\ receipt = Undecided

Decide ==
    /\ decision = Undecided
    /\ decision' \in Decisions
    /\ UNCHANGED <<revoked, receipt>>

Publish ==
    /\ decision.verdict \in {"approved", "escalated"} /\ ~revoked
    /\ receipt = Undecided
    /\ receipt' = decision
    /\ UNCHANGED <<decision, revoked>>

(* Only a published approval can be taken back. *)
Revoke ==
    /\ decision.verdict = "approved" /\ receipt = decision /\ ~revoked
    /\ revoked' = TRUE
    /\ UNCHANGED <<decision, receipt>>

Withdraw ==
    /\ revoked /\ receipt # Undecided
    /\ receipt' = Undecided
    /\ UNCHANGED <<decision, revoked>>

Next == Decide \/ Publish \/ Revoke \/ Withdraw

Spec == Init /\ [][Next]_vars

=============================================================================
