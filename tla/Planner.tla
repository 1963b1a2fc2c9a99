---------------------------------- MODULE Planner ----------------------------------
(***************************************************************************)
(* The order components are installed in (internal/planner).  The selected *)
(* ones and what they need are sorted so that dependencies come first, the *)
(* least name first among those that are free (Kahn); then, of each soft   *)
(* pair that is in the wrong order, the first component moves before the   *)
(* second.  That is sound only while the first needs nothing: graph.go and *)
(* order.go state it as a contract, which the pairs here obey.             *)
(*                                                                         *)
(* Components are numbers in the order of their names, a list of           *)
(* dependencies is a set.                                                  *)
(***************************************************************************)
EXTENDS Naturals, FiniteSets, SequencesExt, FiniteSetsExt

CONSTANTS Graphs,      \* functions from the known components to what they need
          Selections,  \* sets of components
          Softs,       \* sequences of soft pairs
          Refused      \* the answer to a selection that has no order

VARIABLES graph, wanted, pairs, resolved
vars == <<graph, wanted, pairs, resolved>>

(* The safety contract of softOrderingPairs. *)
Allowed(g, soft) == \A i \in DOMAIN soft : soft[i][1] \in DOMAIN g => g[soft[i][1]] = {}

Init ==
    /\ graph \in Graphs /\ wanted \in Selections /\ pairs \in {s \in Softs : Allowed(graph, s)}
    /\ resolved = <<>>

(* expandDependencies, which fails on what the graph does not know.        *)
Expand(g, selected) ==
    LET found[n \in Nat] ==
            IF n = 0 THEN selected
            ELSE found[n - 1] \cup UNION {g[c] : c \in found[n - 1] \cap DOMAIN g}
    IN found[Cardinality(DOMAIN g)]

(* TopologicalSort: inDegree[c] is the number of c's dependencies that are *)
(* not yet ordered, the queue is sorted.                                   *)
Free(g, nodes, done) == {c \in nodes \ ToSet(done) : g[c] \subseteq ToSet(done)}
TopologicalSort(g, nodes) ==
    LET ordered[n \in Nat] ==
            IF n = 0 THEN <<>>
            ELSE LET free == Free(g, nodes, ordered[n - 1])
                 IN IF free = {} THEN ordered[n - 1] ELSE Append(ordered[n - 1], Min(free))
    IN ordered[Cardinality(nodes)]

At(s, c) == CHOOSE i \in DOMAIN s : s[i] = c
Before(s, a, b) == {a, b} \subseteq ToSet(s) => At(s, a) < At(s, b)

(* Mutated: the two components are swapped. *)
Move_Swap(s, a, b) == [s EXCEPT ![At(s, a)] = b, ![At(s, b)] = a]
(* applySoftOrdering *)
Move(s, a, b) == InsertAt(Remove(s, a), At(s, b), a)
SoftOrder(s, soft) ==
    FoldLeft(LAMBDA t, pair : IF Before(t, pair[1], pair[2]) THEN t ELSE Move(t, pair[1], pair[2]), s, soft)

(* Resolve *)
Plan(g, selected, soft) ==
    LET nodes == Expand(g, selected)
        ordered == TopologicalSort(g, nodes)
    IN IF nodes \subseteq DOMAIN g /\ Len(ordered) = Cardinality(nodes)
       THEN [order |-> SoftOrder(ordered, soft), added |-> nodes \ selected]
       ELSE Refused

Resolve ==
    /\ resolved = <<>>
    /\ resolved' = Plan(graph, wanted, pairs)
    /\ UNCHANGED <<graph, wanted, pairs>>

Next == Resolve
Spec == Init /\ [][Next]_vars

-----------------------------------------------------------------------------
(* Properties, against definitions that do not compute. *)

(* What the selection needs: the least set that holds it and is closed.    *)
Needed ==
    CHOOSE s \in SUBSET (DOMAIN graph \cup wanted \cup UNION {graph[c] : c \in DOMAIN graph}) :
        LET closed(t) == wanted \subseteq t /\ \A c \in t \cap DOMAIN graph : graph[c] \subseteq t
        IN closed(s) /\ \A t \in SUBSET s : closed(t) => t = s

(* Some order of the needed components has the dependencies first. *)
Orderable ==
    /\ Needed \subseteq DOMAIN graph
    /\ \A s \in SUBSET Needed : s # {} => \E c \in s : graph[c] \cap s = {}

Answered == resolved # <<>>

(* A selection is refused exactly if it has no order. *)
RefusedForCause == Answered => ((resolved = Refused) <=> ~Orderable)

(* The plan holds what the selection needs, once, dependencies first,      *)
(* whatever the soft pairs moved.                                          *)
DependenciesFirst ==
    Answered /\ resolved # Refused =>
        /\ ToSet(resolved.order) = Needed /\ Len(resolved.order) = Cardinality(Needed)
        /\ resolved.added = Needed \ wanted
        /\ \A c \in Needed : \A d \in graph[c] : Before(resolved.order, d, c)

(* All the soft pairs hold at once where they share their first component, *)
(* as those of graph.go do ("the first MUST execute before the second when *)
(* BOTH are present").                                                     *)
PairsHold ==
    Answered /\ resolved # Refused /\ (\A i, j \in DOMAIN pairs : pairs[i][1] = pairs[j][1]) =>
        \A i \in DOMAIN pairs : Before(resolved.order, pairs[i][1], pairs[i][2])
=============================================================================
