-------------------------- MODULE MCBudgetScheduler --------------------------
(* BudgetScheduler on small instances. *)
EXTENDS BudgetScheduler, TLC

Symmetry == Permutations(Calls) \cup Permutations(Slots) \cup Permutations(Uids)
=============================================================================
