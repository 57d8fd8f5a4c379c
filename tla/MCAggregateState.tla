--------------------------- MODULE MCAggregateState ---------------------------
(* AggregateState on a small instance for TLC.                             *)
EXTENDS AggregateState

CONSTANTS k1, k2

Row(k) == [key |-> k, skipped |-> FALSE]
NullRow(k) == [key |-> k, skipped |-> TRUE]

MCShapes == {<<Row(k1), Row(k2)>>, <<NullRow(k1)>>, <<NullRow(k2), Row(k1)>>}

Symmetry == Permutations(Workers) \cup Permutations(Threads)

=============================================================================
