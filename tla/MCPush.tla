------------------------------- MODULE MCPush -------------------------------
(* The groups of MONITOR_GROUPS. *)
EXTENDS Push, TLC

MCGroups == {"events", "alerts"}

Symmetry == Permutations(Requests)
=============================================================================
