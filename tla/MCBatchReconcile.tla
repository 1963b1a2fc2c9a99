-------------------------- MODULE MCBatchReconcile --------------------------
(* TLC instances of BatchReconcile. *)
EXTENDS BatchReconcile

CONSTANTS a, b, c, d

Root(r) == [rev |-> r, pred |-> None, predRev |-> 0, sound |-> TRUE]
Edge(r, p, q, ok) == [rev |-> r, pred |-> p, predRev |-> q, sound |-> ok]

Graph(ga, gb, gc, gd) ==
    [l \in Lineages |-> CASE l = a -> ga [] l = b -> gb [] l = c -> gc [] OTHER -> gd]

(* b was recovered from a by an edge that no longer re-derives; c was      *)
(* recovered from b; d stands alone.                                       *)
Suffix == Graph(Root(1), Edge(2, a, 1, FALSE), Edge(3, b, 2, TRUE), Root(4))

(* Two chains, each with an invalid edge. *)
TwoChains == Graph(Root(1), Edge(2, a, 1, FALSE), Root(3), Edge(4, c, 3, FALSE))

(* Invalid, valid, invalid: no plan. *)
NotContiguous == Graph(Root(1), Edge(2, a, 1, FALSE), Edge(3, b, 2, TRUE), Edge(4, c, 3, FALSE))

(* One short chain. *)
Pair == Graph(Root(1), Edge(2, a, 1, FALSE), None, None)

AllHistories == {Suffix, TwoChains, NotContiguous}
PairOnly     == {Pair}

=============================================================================
