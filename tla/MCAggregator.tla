---------------------------- MODULE MCAggregator ----------------------------
(* A small instance of Aggregator for TLC: two callers and one closer.     *)
EXTENDS Aggregator, TLC

Symmetry == Permutations(Callers) \cup Permutations(Keys)
=============================================================================
