------------------------- MODULE MCPrioritySemaphore -------------------------
(* PrioritySemaphore on small instances. *)
EXTENDS PrioritySemaphore, TLC

Symmetry == Permutations(Calls)
=============================================================================
