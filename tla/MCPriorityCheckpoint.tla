------------------------ MODULE MCPriorityCheckpoint ------------------------
(* A small instance of PriorityCheckpoint. *)
EXTENDS PriorityCheckpoint, TLC

CONSTANTS r1, r2, s1, s2, o1, o2

RunSymmetry == Permutations(Runs) \cup Permutations(Shards) \cup Permutations(Outputs)

=============================================================================
