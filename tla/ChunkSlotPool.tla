----------------------------- MODULE ChunkSlotPool -----------------------------
(***************************************************************************)
(* The ChunkSlotPool of backend/src/downloader/scheduler.rs: the ids the   *)
(* transfers carry in the logs.  One mutex guards both fields, so each     *)
(* operation is one action.                                                *)
(***************************************************************************)
EXTENDS SequencesExt, Vectors

CONSTANTS
    Transfers,  \* chunk transfers
    InitMax,    \* max_global_threads at start-up
    MaxMax      \* bound: the largest limit a resize asks for

VARIABLES
    available,  \* the stack of free ids, its top last
    max_slots,
    slot_id     \* the id each transfer carries, 0 for none

vars == <<available, max_slots, slot_id>>

NoSlot == 0

\* The ids lo..hi in the order they are pushed: the smallest ends on top.
Descending(lo, hi) == [i \in 1..(hi - lo + 1) |-> hi - i + 1]

TypeOK ==
    /\ available \in Seq(1..MaxMax)
    /\ max_slots \in 1..MaxMax
    /\ slot_id \in [Transfers -> 0..(MaxMax + 1)]

Init ==
    /\ available = Descending(1, InitMax)
    /\ max_slots = InitMax
    /\ slot_id = [t \in Transfers |-> NoSlot]

\* An empty stack yields the spare id max + 1.
Acquire(t) ==
    /\ slot_id[t] = NoSlot
    /\ IF available = << >>
       THEN slot_id' = [slot_id EXCEPT ![t] = max_slots + 1] /\ UNCHANGED available
       ELSE slot_id' = [slot_id EXCEPT ![t] = Last(available)] /\ available' = Front(available)
    /\ UNCHANGED max_slots

Push(i) ==
    IF i <= max_slots /\ ~Contains(available, i) THEN Append(available, i) ELSE available

Release(t) ==
    /\ slot_id[t] # NoSlot
    /\ available' = Push(slot_id[t])
    /\ slot_id' = [slot_id EXCEPT ![t] = NoSlot]
    /\ UNCHANGED max_slots

\* A bug: a shrink leaves the high ids on the stack.
ResizedUpOnly(n) == IF n > max_slots THEN available \o Descending(max_slots + 1, n) ELSE available

Resized(n) ==
    IF n > max_slots THEN available \o Descending(max_slots + 1, n)
    ELSE Retain(available, LAMBDA i : i <= n)

Resize(n) ==
    /\ n # max_slots
    /\ available' = Resized(n)
    /\ max_slots' = n
    /\ UNCHANGED slot_id

Next ==
    \/ \E t \in Transfers : Acquire(t) \/ Release(t)
    \/ \E n \in 1..MaxMax : Resize(n)

Spec == Init /\ [][Next]_vars

-----------------------------------------------------------------------------
(* Properties                                                              *)

\* No resize and no release, of a spare id or of one from before a shrink,
\* puts an id on the stack twice or beyond the limit.
StackClean ==
    /\ \A i, j \in DOMAIN available : available[i] = available[j] => i = j
    /\ \A i \in DOMAIN available : available[i] <= max_slots

\* No id is lost: each one up to the limit is free or with a transfer.
NoSlotLost ==
    \A i \in 1..max_slots : Contains(available, i) \/ \E t \in Transfers : slot_id[t] = i

\* At any moment an id is with one transfer: an id on the stack, about to be
\* handed out, is not with a transfer already.
FreeIdsAreFree == \A i \in DOMAIN available : \A t \in Transfers : slot_id[t] # available[i]
=============================================================================
