------------------------------ MODULE MCServer ------------------------------
(* A small instance of Server for TLC: two agent streams, one flow.        *)
EXTENDS Server, TLC

Symmetry == Permutations(Callers)
=============================================================================
