------------------------------- MODULE Vectors -------------------------------
(***************************************************************************)
(* Vec::retain as the pools use it (backend/src/task_slot_pool.rs,         *)
(* backend/src/downloader/scheduler.rs), by the rank of what is kept and   *)
(* without the recursion of SelectSeq, so that it can be reasoned about.   *)
(***************************************************************************)
EXTENDS Integers, Sequences, FiniteSets

\* The n-th of a set of positions.
Nth(P, n) == CHOOSE k \in P : Cardinality({j \in P : j <= k}) = n

\* The elements that are kept stay in their order.
Retain(s, Keeps(_)) ==
    LET kept == {k \in DOMAIN s : Keeps(s[k])}
    IN [n \in 1..Cardinality(kept) |-> s[Nth(kept, n)]]
=============================================================================
