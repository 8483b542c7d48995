---------------------------- MODULE MCDashboard ----------------------------
(* A small instance of Dashboard for TLC: two streams, whose agents have   *)
(* ids of their own or, as main.rs:65 has it, the same.                    *)
EXTENDS Dashboard
CONSTANTS s1, s2

MCStreams == {s1, s2}
MCAgentIds ==
  {(s1 :> "agent-01" @@ s2 :> id) : id \in {"agent-01", "agent-02"}}
=============================================================================
