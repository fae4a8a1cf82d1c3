------------------------------- MODULE MCPools -------------------------------
(***************************************************************************)
(* The three pools of the program that never meet, on small instances and  *)
(* in one run: the task slots (TaskSlotPool), the chunk slot ids           *)
(* (ChunkSlotPool) and the split of the machine budget (BudgetShares).  A  *)
(* behaviour belongs to one of them, the others stand still in their       *)
(* initial states.                                                         *)
(*                                                                         *)
(* In half of the behaviours of the task slots the pool is used by one     *)
(* caller at a time: what the code keeps true then, and only then, is      *)
(* stated under "alone".                                                   *)
(***************************************************************************)
EXTENDS TaskSlotPool

CONSTANTS user, sub, backup, folder, sync,   \* task slots: who asks
          c1, c2, c3,
          MaxShared,   \* bound: the largest pool two callers share
          Transfers, InitMax, MaxMax,        \* chunk slot ids
          Accounts, MaxBudget, Levels, Sources, WeightOf, ThreadsOf

ASSUME InstanceAssumption ==
    /\ IsFiniteSet(Callers) /\ MaxMax \in Nat \ {0} /\ InitMax \in 1..MaxMax
    /\ IsFiniteSet(Accounts) /\ MaxBudget \in Nat /\ Sources \subseteq Nat
    /\ ThreadsOf \subseteq [Levels -> Nat] /\ WeightOf \subseteq [Levels -> Nat]

VARIABLES part, alone,
          available, max_ids, slot_id,              \* of ChunkSlotPool
          m, cap, requested, weight, result         \* of BudgetShares

ChunkIds == INSTANCE ChunkSlotPool WITH max_slots <- max_ids
Shares   == INSTANCE MCBudgetShares

Priority == [t \in Tasks |-> CASE t \in {user, folder} -> Normal
                               [] t = sub -> SubTask
                               [] OTHER -> Backup]
MCLevels  == {"normal", "vip", "svip"}

\* The default weights (WeightTable::default), a steeper table an administrator may
\* set, one only a configuration file can hold (build_budget_scheduler takes the file's
\* weights as they are, the web handler refuses a zero), and VipRecommendedTable::default.
MCWeights == {[normal |-> 1, vip |-> 3, svip |-> 5], [normal |-> 1, vip |-> 20, svip |-> 30],
              [normal |-> 0, vip |-> 3, svip |-> 5]}
MCThreads == {[normal |-> 1, vip |-> 10, svip |-> 15]}

pools_vars  == <<vars, alone>>
ids_vars    == <<available, max_ids, slot_id>>
shares_vars == <<m, cap, requested, weight, result>>

Busy == {c \in Callers : job[c] # Idle}

PoolsInit ==
    /\ part \in {"tasks", "chunks", "shares"}
    /\ Init /\ ChunkIds!Init
    /\ alone \in BOOLEAN /\ (alone => part = "tasks")
    /\ IF part = "shares" THEN Shares!Init
       ELSE /\ m = 1 /\ result = Shares!None
            /\ cap = [a \in Accounts |-> 1] /\ requested = cap /\ weight = cap

OfTasks(A)  == /\ part = "tasks" /\ A /\ (alone => Cardinality(Busy') <= 1)
               /\ UNCHANGED <<part, alone, ids_vars, shares_vars>>
OfChunks(A) == part = "chunks" /\ A /\ UNCHANGED <<part, pools_vars, shares_vars>>
OfShares(A) == part = "shares" /\ A /\ UNCHANGED <<part, pools_vars, ids_vars>>

PoolsNext ==
    \/ OfTasks(Tick) \/ \E t \in Tasks : OfTasks(Touch(t))
    \/ \E c \in Callers :
          \/ OfTasks(LoadMax(c)) \/ OfTasks(Refused(c))
          \/ \E t \in Tasks : \/ OfTasks(AllocateFree(c, t))
                              \/ OfTasks(AllocatePreempting(c, t))
                              \/ OfTasks(ReleaseFixed(c, t))
          \/ \E f \in Folders : \/ OfTasks(ReleaseAll(c, f))
                                \/ \E n \in 1..MaxSlots : OfTasks(AllocateBorrowed(c, f, n))
                                \/ \E i \in Ids : OfTasks(ReleaseBorrowed(c, f, i))
          \/ OfTasks(RecordBorrowed(c)) \/ OfTasks(StrikeBorrowed(c))
          \/ OfTasks(ForgetBorrowed(c)) \/ OfTasks(CleanupStale(c))
          \/ \E n \in 1..MaxSlots : OfTasks((alone \/ n <= MaxShared) /\ Resize(c, n))
    \/ \E t \in Transfers : OfChunks(ChunkIds!Acquire(t)) \/ OfChunks(ChunkIds!Release(t))
    \/ \E n \in 1..MaxMax : OfChunks(ChunkIds!Resize(n))
    \/ OfShares(Shares!Recompute)

PoolsSpec == PoolsInit /\ [][PoolsNext]_<<part, pools_vars, ids_vars, shares_vars>>

\* A caller that has the pool to itself leaves no id below the limit without a
\* slot (resize: a growth after a shrink that kept work).
LimitCoveredAlone == alone => LimitCovered

\* A caller that has the pool to itself leaves no record of a borrowed slot that
\* the folder does not have (the two locks of borrow, return and cleanup).
NoGhostBorrowAlone == alone => NoGhostBorrow

\* Chunk slot ids (scheduler.rs, ChunkSlotPool): no id is free twice or beyond
\* the limit, and none below the limit is lost, whatever a shrink found in use.
ChunkIdsSound == ChunkIds!StackClean /\ ChunkIds!NoSlotLost

\* The budget is split without loss, and an account that did not get all it
\* asked for has at least its proportional share (recompute_locked_inner).
SplitsExactly     == Shares!SplitsExactly
ProportionalFloor == Shares!ProportionalFloor
=============================================================================
