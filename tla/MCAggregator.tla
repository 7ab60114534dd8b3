---------------------------- MODULE MCAggregator ----------------------------
(* Instances of Aggregator for TLC. *)
EXTENDS Aggregator, TLC

CONSTANTS a, b
One == {a}
Pair == {a, b}
Symmetry == Permutations(Workers)
=============================================================================
