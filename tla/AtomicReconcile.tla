-------------------------- MODULE AtomicReconcile --------------------------
(***************************************************************************)
(* What the store promises about a batch reconciliation: it is one step.   *)
(* Whatever crashes and retries happen on the way, the authority goes from *)
(* a graph with invalid edges to that graph without the closure of those   *)
(* edges, all of it and nothing else, and between batches only single      *)
(* lineages start or advance.                                              *)
(***************************************************************************)
EXTENDS RecoveryGraph

VARIABLE authority      \* the record of every lineage

Init == authority \in Graphs

Start(l) ==
    /\ authority[l] = None
    /\ authority'[l] \in States /\ authority'[l].pred = None
    /\ authority' = [authority EXCEPT ![l] = authority'[l]]

(* A lineage advances; the edge it was recovered by stays. *)
Advance(l) ==
    /\ authority[l] # None
    /\ authority'[l] = [authority[l] EXCEPT !.rev = authority'[l].rev]
    /\ authority'[l].rev \in Nat \ {authority[l].rev}
    /\ authority' = [authority EXCEPT ![l] = authority'[l]]

Reconcile ==
    /\ CanReconcile(authority)
    /\ authority' = Without(authority, Quarantined(authority))

Next == Reconcile \/ \E l \in Lineages : Start(l) \/ Advance(l)

Spec == Init /\ [][Next]_authority

=============================================================================
