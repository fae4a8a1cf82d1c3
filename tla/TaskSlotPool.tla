---------------------------- MODULE TaskSlotPool ----------------------------
(***************************************************************************)
(* The pool of task slots of a download or upload manager                  *)
(* (backend/src/task_slot_pool.rs).  A task may run only while it owns a   *)
(* slot.  A single task owns a Fixed slot; a folder owns a Fixed slot of   *)
(* its own and Borrowed slots its subtasks run in.  A Normal or SubTask    *)
(* request may evict a Backup owner, a Backup request only takes a free    *)
(* slot.  A cleanup task takes back the slots nobody touched for a while.  *)
(*                                                                         *)
(* The slot list is one RwLock and borrowed_map another, taken after the   *)
(* first is dropped; max_slots is an atomic loaded before the first is     *)
(* taken.  A caller that needs more than one of them is a job with a step  *)
(* per critical section.                                                   *)
(*                                                                         *)
(* `slots' is the vector itself, so that two entries with one id can be    *)
(* told apart; borrowed_map keeps the set of ids of each folder, because   *)
(* the code only asks an entry for membership and emptiness.               *)
(***************************************************************************)
EXTENDS SequencesExt, Vectors

CONSTANTS Files,        \* single tasks
          Folders,      \* folder tasks
          PriorityOf,   \* the priority each of them asks with
          Callers,      \* concurrent callers of the pool
          InitSlots,    \* capacity the pool is created with
          MaxSlots,     \* bound: largest capacity a resize asks for
          NoTask,
          MaxAge        \* bound: ticks of the clock before a release is due

Tasks == Files \cup Folders
Normal  == 10
SubTask == 20
Backup  == 30

ASSUME PoolAssumption ==
    /\ InitSlots \in 1..MaxSlots /\ MaxSlots \in Nat /\ MaxAge \in Nat \ {0}
    /\ NoTask \notin Tasks /\ Files \cap Folders = {}
    /\ PriorityOf \in [Tasks -> {Normal, SubTask, Backup}]
    /\ \A f \in Folders : PriorityOf[f] # SubTask

VARIABLES slots,         \* the vector of slots
          max_slots,     \* the limit new allocations respect
          borrowed_map,  \* folder -> ids of its borrowed slots
          job,           \* what each caller has in hand between two locks
          silent         \* history: ticks since a task was started or touched

vars == <<slots, max_slots, borrowed_map, job, silent>>

Ids == 0..(MaxSlots - 1)
SlotTypes == {"Fixed", "Borrowed"}

FreeSlot(i) == [id |-> i, task_id |-> NoTask, slot_type |-> "Fixed",
                priority |-> Normal, age |-> 0]

Taken(s, t, type, prio) ==
    [s EXCEPT !.task_id = t, !.slot_type = type, !.priority = prio, !.age = 0]

IsFree(s) == s.task_id = NoTask
IsPreemptable(s) == ~IsFree(s) /\ s.priority = Backup
CanPreempt(prio, target) == prio < target

Idle == [pc |-> "idle"]

TaskSlots == [id : Ids, task_id : Tasks \cup {NoTask}, slot_type : SlotTypes,
              priority : {Normal, SubTask, Backup}, age : 0..MaxAge]

Jobs == {Idle} \cup [pc : {"loaded"}, max : 1..MaxSlots]
               \cup [pc : {"record", "strike"}, folder : Folders, ids : SUBSET Ids]
               \cup [pc : {"forget"}, tasks : SUBSET Tasks]

TypeOK ==
    /\ slots \in Seq(TaskSlots)
    /\ max_slots \in 1..MaxSlots
    /\ borrowed_map \in [Folders -> SUBSET Ids]
    /\ job \in [Callers -> Jobs]
    /\ silent \in [Tasks -> 0..MaxAge]

Init ==
    /\ slots = [k \in 1..InitSlots |-> FreeSlot(k - 1)]
    /\ max_slots = InitSlots
    /\ borrowed_map = [f \in Folders |-> {}]
    /\ job = [c \in Callers |-> Idle]
    /\ silent = [t \in Tasks |-> 0]

-----------------------------------------------------------------------------
(* Positions of the vector, in the order the code walks it                 *)

FreeBelow(max) == {k \in DOMAIN slots : slots[k].id < max /\ IsFree(slots[k])}
PreemptableBelow(max) ==
    {k \in DOMAIN slots : slots[k].id < max /\ IsPreemptable(slots[k])}

\* The n first positions of S.
First(S, n) == {k \in S : Cardinality({j \in S : j <= k}) <= n}

IdsAt(S) == {slots[k].id : k \in S}
Replace(S, new(_)) == [k \in DOMAIN slots |-> IF k \in S THEN new(slots[k]) ELSE slots[k]]
Released(s) == FreeSlot(s.id)

-----------------------------------------------------------------------------
(* Loading the limit, before the slots are locked                          *)

LoadMax(c) ==
    /\ job[c] = Idle
    /\ job' = [job EXCEPT ![c] = [pc |-> "loaded", max |-> max_slots]]
    /\ UNCHANGED <<slots, max_slots, borrowed_map, silent>>

Loaded(c) == job[c].pc = "loaded"
Done(c) == job' = [job EXCEPT ![c] = Idle]

OwnsFixed(t) == \E k \in DOMAIN slots : slots[k].task_id = t /\ slots[k].slot_type = "Fixed"

\* The managers ask for a fixed slot only for a task that has none.
Requests(c, t) == Loaded(c) /\ ~OwnsFixed(t)

GiveFixed(c, t, pick) ==
    /\ slots' = Replace(pick, LAMBDA s : Taken(s, t, "Fixed", PriorityOf[t]))
    /\ silent' = [silent EXCEPT ![t] = 0]
    /\ Done(c)
    /\ UNCHANGED <<max_slots, borrowed_map>>

AllocateFree(c, t) ==
    /\ Requests(c, t)
    /\ FreeBelow(job[c].max) # {}
    /\ GiveFixed(c, t, First(FreeBelow(job[c].max), 1))

AllocatePreempting(c, t) ==
    /\ Requests(c, t)
    /\ FreeBelow(job[c].max) = {}
    /\ CanPreempt(PriorityOf[t], Backup)
    /\ PreemptableBelow(job[c].max) # {}
    /\ GiveFixed(c, t, First(PreemptableBelow(job[c].max), 1))

\* The caller finds nothing to take, or, in resize, nothing to change.
Refused(c) ==
    /\ Loaded(c)
    /\ Done(c)
    /\ UNCHANGED <<slots, max_slots, borrowed_map, silent>>

-----------------------------------------------------------------------------
(* Borrowing for a folder                                                  *)

\* Free slots first; a Normal folder then evicts Backup owners.
BorrowPicks(f, max, count) ==
    LET free == First(FreeBelow(max), count)
        rest == IF PriorityOf[f] = Normal
                THEN First(PreemptableBelow(max), count - Cardinality(free))
                ELSE {}
    IN free \cup rest

AllocateBorrowed(c, f, count) ==
    LET picks == BorrowPicks(f, job[c].max, count)
    IN /\ Loaded(c)
       /\ picks # {}
       /\ slots' = Replace(picks, LAMBDA s : Taken(s, f, "Borrowed", Normal))
       /\ job' = [job EXCEPT ![c] = [pc |-> "record", folder |-> f, ids |-> IdsAt(picks)]]
       /\ UNCHANGED <<max_slots, borrowed_map, silent>>

RecordBorrowed(c) ==
    /\ job[c].pc = "record"
    /\ borrowed_map' = [borrowed_map EXCEPT ![job[c].folder] = @ \cup job[c].ids]
    /\ Done(c)
    /\ UNCHANGED <<slots, max_slots, silent>>

\* The folder names a slot it borrowed; by now it may be someone else's.
ReleaseBorrowed(c, f, i) ==
    LET mine == {k \in DOMAIN slots : slots[k].id = i /\ slots[k].task_id = f}
    IN /\ job[c] = Idle
       /\ slots' = Replace(First(mine, 1), Released)
       /\ job' = [job EXCEPT ![c] = [pc |-> "strike", folder |-> f, ids |-> {i}]]
       /\ UNCHANGED <<max_slots, borrowed_map, silent>>

StrikeBorrowed(c) ==
    /\ job[c].pc = "strike"
    /\ borrowed_map' = [borrowed_map EXCEPT ![job[c].folder] = @ \ job[c].ids]
    /\ Done(c)
    /\ UNCHANGED <<slots, max_slots, silent>>

-----------------------------------------------------------------------------
(* Giving slots back                                                       *)

ReleaseFixed(c, t) ==
    /\ job[c] = Idle
    /\ OwnsFixed(t)
    /\ slots' = Replace(First({k \in DOMAIN slots : slots[k].task_id = t
                                                   /\ slots[k].slot_type = "Fixed"}, 1), Released)
    /\ UNCHANGED <<max_slots, borrowed_map, job, silent>>

ReleaseAll(c, f) ==
    /\ job[c] = Idle
    /\ slots' = Replace({k \in DOMAIN slots : slots[k].task_id = f}, Released)
    /\ job' = [job EXCEPT ![c] = [pc |-> "forget", tasks |-> {f}]]
    /\ UNCHANGED <<max_slots, borrowed_map, silent>>

\* A bug: the record of the slots that went away is kept.
KeepRecord(c) ==
    /\ job[c].pc = "forget"
    /\ Done(c)
    /\ UNCHANGED <<slots, max_slots, borrowed_map, silent>>

\* The whole entry of each task goes, whatever it lists.
ForgetBorrowed(c) ==
    /\ job[c].pc = "forget"
    /\ borrowed_map' = [f \in Folders |-> IF f \in job[c].tasks THEN {} ELSE borrowed_map[f]]
    /\ Done(c)
    /\ UNCHANGED <<slots, max_slots, silent>>

-----------------------------------------------------------------------------
(* The clock, touching, and the cleanup of silent owners                   *)

Older(a) == IF a < MaxAge THEN a + 1 ELSE a

Tick ==
    /\ slots' = [k \in DOMAIN slots |->
                   IF IsFree(slots[k]) THEN slots[k]
                   ELSE [slots[k] EXCEPT !.age = Older(@)]]
    /\ silent' = [t \in Tasks |-> Older(silent[t])]
    /\ UNCHANGED <<max_slots, borrowed_map, job>>

\* Progress of a task refreshes the first slot it owns.
Touch(t) ==
    /\ \E k \in DOMAIN slots : slots[k].task_id = t
    /\ slots' = Replace(First({k \in DOMAIN slots : slots[k].task_id = t}, 1),
                        LAMBDA s : [s EXCEPT !.age = 0])
    /\ silent' = [silent EXCEPT ![t] = 0]
    /\ UNCHANGED <<max_slots, borrowed_map, job>>

\* A bug: the warning threshold is used for the release.
StaleTooEarly(max) ==
    {k \in DOMAIN slots : slots[k].id < max /\ ~IsFree(slots[k]) /\ slots[k].age + 1 >= MaxAge}

StaleBelow(max) ==
    {k \in DOMAIN slots : slots[k].id < max /\ ~IsFree(slots[k]) /\ slots[k].age >= MaxAge}

CleanupStale(c) ==
    LET stale == StaleBelow(job[c].max)
    IN /\ Loaded(c)
       /\ stale # {}
       /\ slots' = Replace(stale, Released)
       /\ job' = [job EXCEPT ![c] = [pc |-> "forget",
                                     tasks |-> {slots[k].task_id : k \in stale}]]
       /\ UNCHANGED <<max_slots, borrowed_map, silent>>

-----------------------------------------------------------------------------
(* Changing the capacity                                                   *)

\* Where a stable sort by id puts the slot at k.
Place(s, k) ==
    Cardinality({j \in DOMAIN s : s[j].id < s[k].id \/ (s[j].id = s[k].id /\ j <= k)})
ById(s) == [n \in DOMAIN s |-> s[CHOOSE k \in DOMAIN s : Place(s, k) = n]]

\* A bug: ids that survived a shrink are added again.
GrownTwice(old, new) == ById(slots \o SetToSeq({FreeSlot(i) : i \in old..(new - 1)}))

\* A bug: the range includes the new limit.
GrownOneMore(old, new) ==
    LET missing == {i \in old..new : \A k \in DOMAIN slots : slots[k].id # i}
    IN ById(slots \o SetToSeq({FreeSlot(i) : i \in missing}))

\* A bug: the range starts behind the old limit.
GrownOneLess(old, new) ==
    LET missing == {i \in (old + 1)..(new - 1) : \A k \in DOMAIN slots : slots[k].id # i}
    IN ById(slots \o SetToSeq({FreeSlot(i) : i \in missing}))

\* Slots for the ids from the loaded limit to the new one that are missing.
Grown(old, new) ==
    LET missing == {i \in old..(new - 1) : \A k \in DOMAIN slots : slots[k].id # i}
    IN ById(slots \o SetToSeq({FreeSlot(i) : i \in missing}))

\* A bug: running tasks beyond the limit are dropped with their slots.
ShrunkHard(new) == Retain(slots, LAMBDA s : s.id < new)

\* Free slots beyond the new limit go; occupied ones stay until released.
Shrunk(new) == Retain(slots, LAMBDA s : s.id < new \/ ~IsFree(s))

Resize(c, new) ==
    /\ Loaded(c)
    /\ new # job[c].max
    /\ slots' = IF new > job[c].max THEN Grown(job[c].max, new) ELSE Shrunk(new)
    /\ max_slots' = new
    /\ Done(c)
    /\ UNCHANGED <<borrowed_map, silent>>

-----------------------------------------------------------------------------
CallerStep(c) ==
    \/ LoadMax(c)
    \/ Refused(c)
    \/ \E t \in Tasks : AllocateFree(c, t) \/ AllocatePreempting(c, t) \/ ReleaseFixed(c, t)
    \/ \E f \in Folders : \/ ReleaseAll(c, f)
                          \/ \E n \in 1..MaxSlots : AllocateBorrowed(c, f, n)
                          \/ \E i \in Ids : ReleaseBorrowed(c, f, i)
    \/ RecordBorrowed(c) \/ StrikeBorrowed(c) \/ ForgetBorrowed(c)
    \/ CleanupStale(c)
    \/ \E n \in 1..MaxSlots : Resize(c, n)

Next == Tick \/ (\E t \in Tasks : Touch(t)) \/ (\E c \in Callers : CallerStep(c))

Spec == Init /\ [][Next]_vars

-----------------------------------------------------------------------------
(* Properties                                                              *)

Owned(t) == {k \in DOMAIN slots : slots[k].task_id = t}
OwnedNow(i) == {slots[k].task_id : k \in {j \in DOMAIN slots : slots[j].id = i}}
Quiet == \A c \in Callers : job[c] = Idle

\* The vector is walked as "lowest id first" and an id names one slot: two
\* entries with one id would let two tasks run where the limit counts one.
\* Shrinking leaves occupied ids behind and a later growth meets them again.
SlotsOrdered == \A j, k \in DOMAIN slots : j < k => slots[j].id < slots[k].id

\* Every id below the limit has a slot, so the pool really offers the
\* capacity it announces, whatever sequence of resizes led to it.
LimitCovered == 0..(max_slots - 1) \subseteq IdsAt(DOMAIN slots)

\* Changing the capacity interrupts nobody: every running task keeps the
\* slots it owns, beyond the new limit too.
ResizeKeepsWork ==
    [][max_slots' # max_slots =>
         \A t \in Tasks : {slots[k].id : k \in Owned(t)} = {slots'[k].id : k \in Owned(t)'}]_vars

\* A single task that made progress during the last period keeps its slot
\* across a cleanup, however the cleanup interleaves with its progress.
ActiveFileKept ==
    [][\A c \in Callers : CleanupStale(c) =>
         \A t \in Files : silent[t] < MaxAge => Owned(t)' = Owned(t)]_vars

BorrowedBy(f) == {slots[k].id : k \in {j \in Owned(f) : slots[j].slot_type = "Borrowed"}}

\* With nobody inside the pool, borrowed_map names no slot the folder does
\* not have: reclaim would wait for a slot that cannot be given back.  The
\* map is written after the slots, through release, cleanup and resize.
NoGhostBorrow == Quiet => \A f \in Folders : borrowed_map[f] \subseteq BorrowedBy(f)

\* borrowed_map is the record of the borrowed slots of each folder: with
\* nobody inside the pool it also misses none.  The cleanup claims to remove
\* from it the slots it released.
BorrowedMapExact == Quiet => \A f \in Folders : borrowed_map[f] = BorrowedBy(f)

\* The allocators hand out slots below the limit only, also when the limit
\* changes while they run.
AllocatesBelowLimit ==
    [][\A k \in DOMAIN slots : \A m \in DOMAIN slots' :
         ( /\ slots[k].id = slots'[m].id
           /\ slots'[m].task_id \notin {slots[k].task_id, NoTask} )
         => slots'[m].id < max_slots']_vars

\* A cleanup takes a slot only from a task that made no progress for the
\* whole period, folders included.
CleanupSparesActive ==
    [][\A c \in Callers : CleanupStale(c) =>
         \A k \in DOMAIN slots : (~IsFree(slots[k]) /\ IsFree(slots'[k]))
                                   => silent[slots[k].task_id] >= MaxAge]_vars

\* Background work yields to the user: while some background task holds a
\* slot below the limit, a Normal request would find a slot to take.
BackgroundYields ==
    (\E k \in DOMAIN slots : /\ slots[k].id < max_slots
                             /\ ~IsFree(slots[k])
                             /\ PriorityOf[slots[k].task_id] = Backup)
    => FreeBelow(max_slots) \cup PreemptableBelow(max_slots) # {}
=============================================================================
