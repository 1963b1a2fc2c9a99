--------------------------- MODULE RecoveryGraph ---------------------------
(***************************************************************************)
(* The recovery graph of the compact authority: every lineage that was     *)
(* recovered names its predecessor and the revision it recovered from.     *)
(* An edge may fail to re-derive; a batch reconciliation removes every     *)
(* such lineage together with all that descends from it.                   *)
(*                                                                         *)
(* A record is what an edge's validity depends on: its revision, the edge  *)
(* it carries, and whether target and authorization of the edge re-derive  *)
(* once the predecessor is the recorded one.  Cycles cannot be written (a  *)
(* record binds the revision of its predecessor) and are left out.         *)
(***************************************************************************)
EXTENDS Naturals, FiniteSets

CONSTANTS
    Lineages,
    None        \* no record, or no predecessor

States ==
    [rev     : Nat,                        \* digest of the record
     pred    : Lineages \cup {None},       \* Recovery.PredecessorLineageID
     predRev : Nat,                        \* Recovery.PredecessorRevision
     sound   : BOOLEAN]                    \* the rest of the edge re-derives

Graphs == [Lineages -> States \cup {None}]

ASSUME GraphAssumption == None \notin Lineages /\ None \notin States

Recorded(g)  == {l \in Lineages : g[l] # None}
Recovered(g) == {l \in Recorded(g) : g[l].pred # None}

(* The predecessor is there at the revision the successor recorded. *)
Anchored(g, l) ==
    /\ g[l].pred \in Recorded(g)
    /\ g[g[l].pred].rev = g[l].predRev

Forked(g, l) == \E k \in Recovered(g) \ {l} : g[k].pred = g[l].pred

Invalid(g) == {l \in Recovered(g) : ~Anchored(g, l) \/ ~g[l].sound \/ Forked(g, l)}

(* The only defects a batch may reconcile: an unchanged target or an       *)
(* authorization that predates the contract.                               *)
Supported(g, l) == Anchored(g, l) /\ ~g[l].sound /\ ~Forked(g, l)

ClosedBelow(g, C) == \A l \in Recovered(g) : g[l].pred \in C => l \in C

(* The sets that hold every invalid lineage and all that descends from a   *)
(* member; what a batch removes is the records in all of them.             *)
Closures(g) ==
    LET bad == Invalid(g) IN {C \in SUBSET Lineages : bad \subseteq C /\ ClosedBelow(g, C)}

Quarantined(g) ==
    LET closures == Closures(g) IN {l \in Recorded(g) : \A C \in closures : l \in C}

(* PlanCompactBatchReconciliation has a plan. *)
CanReconcile(g) ==
    /\ Invalid(g) # {}
    /\ \A l \in Invalid(g) : Supported(g, l)
    /\ LET bad == Invalid(g)  moved == Quarantined(g) IN
          \A l \in bad : g[l].pred \in moved => g[l].pred \in bad

Without(g, S) == [l \in Lineages |-> IF l \in S THEN None ELSE g[l]]

=============================================================================
