----------------------------- MODULE MCXdpFilter -----------------------------
(* A small instance of XdpFilter for TLC: two CPUs and a rate of two       *)
(* packets in three ticks.                                                 *)
EXTENDS XdpFilter, TLC

CpuSymmetry == Permutations(Cpus)
=============================================================================
