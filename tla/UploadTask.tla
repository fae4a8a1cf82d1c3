------------------------------ MODULE UploadTask ------------------------------
(***************************************************************************)
(* The life of one upload (backend/src/uploader/manager.rs and             *)
(* backend/src/uploader/scheduler.rs).  The manager gives the task a slot  *)
(* of the pool and spawns a preparation, which registers the task with the *)
(* chunk scheduler; the scheduling loop and the transfers it spawns share  *)
(* the chunk table of that registration, and one of them merges the chunks *)
(* with create_file.                                                       *)
(*                                                                         *)
(* A pause leaves the registration in place and a resume registers again   *)
(* with a new chunk table, so that transfers, merges and failures of an    *)
(* older registration - a run - meet the newer one.  The counter of active *)
(* transfers, the pause flag, the cancel token and the slot belong to the  *)
(* task and are shared by its runs.                                        *)
(*                                                                         *)
(* The other tasks are one competitor for the only slot; events, speeds    *)
(* and progress are left out.  A task is deleted (delete_task);            *)
(* cancel_task of the manager has no caller in the repository.             *)
(***************************************************************************)
EXTENDS Integers, FiniteSets

CONSTANTS Chunks,         \* the chunks of the file, in order
          Workers,        \* spawned transfers
          MaxRuns,        \* bound: registrations of the task
          MaxConcurrent,  \* transfers of the task at a time
          RetryLimit,     \* failures after which a chunk fails the task
          Encrypt,        \* the file is encrypted into a temporary file first
          IsBackup,       \* a backup's slot may be taken by a normal task
          MaxFaults,      \* bound: failed requests, refused permits and stale slots
          MaxCommands     \* bound: pauses, deletions, and slots the competitor takes

Runs == 1..MaxRuns

ASSUME UploadAssumption ==
    /\ Chunks \subseteq Nat /\ Chunks # {} /\ IsFiniteSet(Chunks)
    /\ MaxRuns \in Nat \ {0} /\ MaxConcurrent \in Nat \ {0} /\ RetryLimit \in Nat \ {0}
    /\ {IsBackup, Encrypt} \subseteq BOOLEAN /\ MaxFaults \in Nat /\ MaxCommands \in Nat

VARIABLES status,     \* the task's status
          listed,     \* the task is in the manager's table
          is_paused, cancelled,
          slot_id,    \* the task believes that it has a slot
          pool,       \* owner of the slot: "none", "task" or "other"
          waiting,    \* entries of the task in the waiting queue
          starter,    \* start_task: not yet, or what it read in slot_id
          pump,       \* the waiting queue's reader, between pop and allocation
          evictor,    \* a loss of the slot the task has not been told of
          prep,       \* the spawned preparation of each run
          encrypted,  \* the temporary file exists
          entry,      \* the run active_tasks holds, 0 when none
          chunk,      \* the chunk table of each run
          retries,    \* failures of each chunk in each run
          is_merging, \* the merge flag of each run
          active,     \* active_chunk_count
          worker, loop,
          faults, commands

manager   == <<listed, starter, pump, evictor, waiting>>
task      == <<status, is_paused, cancelled, slot_id, pool>>
registry  == <<prep, encrypted, entry, chunk, retries, is_merging>>
execution == <<active, worker, loop>>
bounds    == <<faults, commands>>
vars == <<manager, task, registry, execution, bounds>>

Ended    == {"Completed", "Rapid", "Failed"}
Statuses == {"Pending", "Encrypting", "Uploading", "Paused"} \cup Ended
Idle     == [pc |-> "idle"]

TypeOK ==
    /\ status \in Statuses
    /\ {listed, is_paused, cancelled, slot_id} \subseteq BOOLEAN
    /\ pool \in {"none", "task", "other"}
    /\ waiting \in Nat
    /\ starter \in {"idle", "asked", "hasSlot", "noSlot"}
    /\ pump \in {"idle", "popped"}
    /\ evictor \in {"idle", "evicted", "marked", "stale"}
    /\ prep \in [Runs -> {"unused", "begun", "monitored", "opened", "encrypting",
                        "marked", "over"}]
    /\ encrypted \in BOOLEAN
    /\ entry \in {0} \cup Runs
    /\ chunk \in [Runs -> [Chunks -> {"free", "uploading", "completed"}]]
    /\ retries \in [Runs -> [Chunks -> 0..RetryLimit]]
    /\ is_merging \in [Runs -> BOOLEAN]
    /\ active \in 0..Cardinality(Workers)
    /\ \A w \in Workers :
         \/ worker[w] = Idle
         \/ worker[w] \in [pc : {"queued", "sending", "sent", "failed", "succeeded", "erred",
                                 "failing"}, run : Runs, chunk : Chunks]
         \/ worker[w] \in [pc : {"creating", "settling"}, run : Runs, ok : BOOLEAN]
    /\ \/ loop = Idle
       \/ loop \in [pc : {"clear", "none", "drop"}, run : Runs]
       \/ loop \in [pc : {"creating", "settling"}, run : Runs, ok : BOOLEAN]
    /\ faults \in 0..MaxFaults /\ commands \in 0..MaxCommands

\* The task has just been created and is being started.
Init ==
    /\ status = "Pending" /\ listed = TRUE /\ is_paused = FALSE /\ cancelled = FALSE
    /\ slot_id = FALSE /\ pool = "none" /\ waiting = 0
    /\ starter = "asked" /\ pump = "idle" /\ evictor = "idle"
    /\ prep = [r \in Runs |-> "unused"] /\ entry = 0 /\ encrypted = FALSE
    /\ chunk = [r \in Runs |-> [c \in Chunks |-> "free"]]
    /\ retries = [r \in Runs |-> [c \in Chunks |-> 0]]
    /\ is_merging = [r \in Runs |-> FALSE]
    /\ active = 0 /\ worker = [w \in Workers |-> Idle] /\ loop = Idle
    /\ faults = 0 /\ commands = 0

-----------------------------------------------------------------------------
(* Starting                                                                *)

Released(owner) == IF owner = "task" THEN "none" ELSE owner
NextRun == CHOOSE r \in Runs : prep[r] = "unused" /\ \A q \in Runs : prep[q] = "unused" => r <= q
CanRun  == \E r \in Runs : prep[r] = "unused"

\* start_task_internal, or the monitor, spawns the preparation of a new run.
Begin(how) == /\ CanRun
              /\ prep' = [prep EXCEPT ![NextRun] = how]
              /\ UNCHANGED <<encrypted, entry, chunk, retries, is_merging>>

\* handle_upload_failure releases the slot, and forgets it in the task too.
Fails == status' = "Failed" /\ slot_id' = FALSE /\ pool' = Released(pool)

StartReads ==
    /\ starter = "asked"
    /\ starter' = IF ~listed \/ status \notin {"Pending", "Paused", "Failed"} THEN "idle"
                  ELSE IF slot_id THEN "hasSlot" ELSE "noSlot"
    /\ UNCHANGED <<listed, pump, evictor, waiting, task, registry, execution, bounds>>

\* ensure_local_source_valid: the file is gone.
StartInvalid ==
    /\ starter \in {"hasSlot", "noSlot"} /\ faults < MaxFaults
    /\ Fails
    /\ starter' = "idle"
    /\ faults' = faults + 1
    /\ UNCHANGED <<listed, pump, evictor, waiting, is_paused, cancelled, registry,
                   execution, commands>>

\* start_task has read slot_id before; the slot is allocated now.
StartWithSlot ==
    /\ starter = "hasSlot" /\ slot_id
    /\ IF listed THEN Begin("begun") ELSE UNCHANGED registry
    /\ starter' = "idle"
    /\ UNCHANGED <<listed, pump, evictor, waiting, task, execution, bounds>>

StartLostSlot ==
    /\ starter = "hasSlot" /\ ~slot_id
    /\ starter' = "idle"
    /\ waiting' = IF listed THEN waiting + 1 ELSE waiting
    /\ UNCHANGED <<listed, pump, evictor, task, registry, execution, bounds>>

StartAllocates ==
    /\ starter = "noSlot" /\ pool # "other"
    /\ slot_id' = TRUE /\ pool' = "task"
    /\ IF listed THEN Begin("begun") ELSE UNCHANGED registry
    /\ starter' = "idle"
    /\ UNCHANGED <<listed, pump, evictor, waiting, status, is_paused, cancelled,
                   execution, bounds>>

StartQueues ==
    /\ starter = "noSlot" /\ pool = "other"
    /\ starter' = "idle"
    /\ waiting' = waiting + 1
    /\ UNCHANGED <<listed, pump, evictor, task, registry, execution, bounds>>

-----------------------------------------------------------------------------
(* The waiting queue: try_start_waiting_tasks and the monitor              *)

\* Only try_start_waiting_tasks looks whether the task still needs a start.
PumpSkips ==
    /\ pump = "idle" /\ waiting > 0 /\ pool = "none"
    /\ ~listed \/ slot_id \/ status = "Uploading"
    /\ waiting' = waiting - 1
    /\ UNCHANGED <<listed, starter, pump, evictor, task, registry, execution, bounds>>

PumpPops ==
    /\ pump = "idle" /\ waiting > 0 /\ pool = "none" /\ listed
    /\ pump' = "popped"
    /\ waiting' = waiting - 1
    /\ UNCHANGED <<listed, starter, evictor, task, registry, execution, bounds>>

PumpAllocates ==
    /\ pump = "popped" /\ pool # "other" /\ listed
    /\ pump' = "idle"
    /\ slot_id' = TRUE /\ pool' = "task"
    /\ Begin("begun") \/ Begin("monitored")
    /\ UNCHANGED <<listed, starter, evictor, waiting, status, is_paused, cancelled,
                   execution, bounds>>

PumpPutsBack ==
    /\ pump = "popped" /\ pool = "other"
    /\ pump' = "idle"
    /\ waiting' = waiting + 1
    /\ UNCHANGED <<listed, starter, evictor, task, registry, execution, bounds>>

PumpFindsDeleted ==
    /\ pump = "popped" /\ pool # "other" /\ ~listed
    /\ pump' = "idle"
    /\ UNCHANGED <<listed, starter, evictor, waiting, task, registry, execution, bounds>>

-----------------------------------------------------------------------------
(* The preparation of a run                                                *)

\* The monitor marks the task before it encrypts, start_task_internal only
\* when there is nothing to encrypt.
PrepMarks(r) ==
    /\ \/ prep[r] = "begun" /\ ~Encrypt
       \/ prep[r] = "monitored"
    /\ prep' = [prep EXCEPT ![r] = IF Encrypt THEN "opened" ELSE "marked"]
    /\ status' = "Uploading"
    /\ UNCHANGED <<is_paused, cancelled, slot_id, pool, manager, encrypted, entry, chunk,
                   retries, is_merging, execution, bounds>>

PrepEncrypts(r) ==
    /\ prep[r] \in {"begun", "opened"} /\ Encrypt /\ ~encrypted
    /\ prep' = [prep EXCEPT ![r] = "encrypting"]
    /\ status' = "Encrypting"
    /\ UNCHANGED <<is_paused, cancelled, slot_id, pool, manager, encrypted, entry, chunk,
                   retries, is_merging, execution, bounds>>

\* The file of an earlier run is used again; the status stays as it is.
PrepReuses(r) ==
    /\ prep[r] \in {"begun", "opened"} /\ Encrypt /\ encrypted
    /\ prep' = [prep EXCEPT ![r] = "marked"]
    /\ UNCHANGED <<task, manager, encrypted, entry, chunk, retries, is_merging, execution,
                   bounds>>

PrepEncrypted(r) ==
    /\ prep[r] = "encrypting"
    /\ prep' = [prep EXCEPT ![r] = "marked"]
    /\ status' = "Uploading" /\ encrypted' = TRUE
    /\ UNCHANGED <<is_paused, cancelled, slot_id, pool, manager, entry, chunk, retries,
                   is_merging, execution, bounds>>

\* Releases the slot, but the task goes on believing that it has one.
PrepEncryptFails(r) ==
    /\ prep[r] = "encrypting" /\ faults < MaxFaults
    /\ prep' = [prep EXCEPT ![r] = "over"]
    /\ status' = "Failed" /\ pool' = Released(pool)
    /\ faults' = faults + 1
    /\ UNCHANGED <<is_paused, cancelled, slot_id, manager, encrypted, entry, chunk, retries,
                   is_merging, execution, commands>>

\* handle_upload_failure: the block list or precreate failed.
PrepFails(r) ==
    /\ prep[r] = "marked" /\ faults < MaxFaults
    /\ prep' = [prep EXCEPT ![r] = "over"]
    /\ Fails
    /\ faults' = faults + 1
    /\ UNCHANGED <<is_paused, cancelled, manager, encrypted, entry, chunk, retries, is_merging,
                   execution, commands>>

\* The server knows the content already.
PrepRapid(r) ==
    /\ prep[r] = "marked"
    /\ prep' = [prep EXCEPT ![r] = "over"]
    /\ status' = "Rapid" /\ pool' = Released(pool)
    /\ UNCHANGED <<is_paused, cancelled, slot_id, manager, encrypted, entry, chunk,
                   retries, is_merging, execution, bounds>>

\* register_task replaces the entry an earlier run may still have.
PrepRegisters(r) ==
    /\ prep[r] = "marked"
    /\ prep' = [prep EXCEPT ![r] = "over"]
    /\ entry' = r
    /\ UNCHANGED <<task, manager, encrypted, chunk, retries, is_merging, execution, bounds>>

-----------------------------------------------------------------------------
(* The scheduling loop                                                     *)

Free(r) == {c \in Chunks : chunk[r][c] = "free"}
AllCompleted(r) == \A c \in Chunks : chunk[r][c] = "completed"

LoopSees ==
    /\ loop = Idle /\ entry # 0
    /\ ~cancelled /\ ~is_paused /\ active < MaxConcurrent
    /\ loop' = [pc |-> "clear", run |-> entry]
    /\ UNCHANGED <<active, worker, task, manager, registry, bounds>>

LoopSeesCancelled ==
    /\ loop = Idle /\ entry # 0 /\ cancelled
    /\ loop' = [pc |-> "drop", run |-> entry]
    /\ UNCHANGED <<active, worker, task, manager, registry, bounds>>

LoopDrops ==
    /\ loop.pc = "drop"
    /\ entry' = 0
    /\ loop' = Idle
    /\ UNCHANGED <<active, worker, task, manager, prep, encrypted, chunk, retries, is_merging, bounds>>

LoopPicks(w) ==
    /\ loop.pc = "clear"
    /\ worker[w] = Idle
    /\ \E c \in Free(loop.run) :
         /\ \A d \in Free(loop.run) : c <= d
         /\ chunk' = [chunk EXCEPT ![loop.run][c] = "uploading"]
         /\ worker' = [worker EXCEPT ![w] = [pc |-> "queued", run |-> loop.run, chunk |-> c]]
    /\ active' = active + 1
    /\ loop' = Idle
    /\ UNCHANGED <<task, manager, prep, encrypted, entry, retries, is_merging, bounds>>

LoopFindsNone ==
    /\ loop.pc = "clear" /\ Free(loop.run) = {}
    /\ loop' = [loop EXCEPT !.pc = "none"]
    /\ UNCHANGED <<active, worker, task, manager, registry, bounds>>

LoopPasses ==
    /\ loop.pc = "none" /\ (active > 0 \/ is_merging[loop.run])
    /\ loop' = Idle
    /\ UNCHANGED <<active, worker, task, manager, registry, bounds>>

\* A bug: the flag is set without looking at it.
StartsMergeAnyway(r) ==
    /\ is_merging' = [is_merging EXCEPT ![r] = TRUE]
    /\ UNCHANGED <<prep, encrypted, entry, chunk, retries>>

\* Only the flag is looked at, not whether every chunk is completed; the
\* server refuses a file with missing chunks.
StartsMerge(r) ==
    /\ ~is_merging[r]
    /\ is_merging' = [is_merging EXCEPT ![r] = TRUE]
    /\ UNCHANGED <<prep, encrypted, entry, chunk, retries>>

LoopMerges ==
    /\ loop.pc = "none" /\ active = 0
    /\ StartsMerge(loop.run)
    /\ loop' = [pc |-> "creating", run |-> loop.run, ok |-> AllCompleted(loop.run)]
    /\ UNCHANGED <<active, worker, task, manager, bounds>>

LoopReturns ==
    /\ loop.pc = "creating"
    /\ \E good \in {loop.ok} \cup (IF faults < MaxFaults THEN {FALSE} ELSE {}) :
         /\ loop' = [loop EXCEPT !.pc = "settling", !.ok = good]
         /\ faults' = IF good = loop.ok THEN faults ELSE faults + 1
    /\ entry' = 0 /\ pool' = Released(pool)
    /\ UNCHANGED <<active, worker, status, is_paused, cancelled, slot_id, manager, prep, encrypted,
                   chunk, retries, is_merging, commands>>

Settled(ok) ==
    /\ status' = IF ok THEN "Completed" ELSE "Failed"
    /\ listed' = (listed /\ ~ok)
    /\ UNCHANGED <<starter, pump, evictor, waiting, is_paused, cancelled, slot_id, pool>>

LoopSettles ==
    /\ loop.pc = "settling"
    /\ Settled(loop.ok)
    /\ loop' = Idle
    /\ UNCHANGED <<active, worker, registry, bounds>>

-----------------------------------------------------------------------------
(* A transfer                                                              *)

Step(w, pc) == worker' = [worker EXCEPT ![w].pc = pc]
Leaves(w)   == worker' = [worker EXCEPT ![w] = Idle]
Mark(w, m)  == chunk' = [chunk EXCEPT ![worker[w].run][worker[w].chunk] = m]

PermitGranted(w) ==
    /\ worker[w].pc = "queued"
    /\ Step(w, "sending")
    /\ UNCHANGED <<active, loop, task, manager, registry, bounds>>

\* A bug: the early return gives back the mark only.
PermitRefusedCounted(w) ==
    /\ worker[w].pc = "queued" /\ faults < MaxFaults
    /\ Mark(w, "free")
    /\ Leaves(w)
    /\ faults' = faults + 1
    /\ UNCHANGED <<active, loop, task, manager, prep, encrypted, entry, retries, is_merging, commands>>

\* A bug: the early return gives back the counts only.
PermitRefusedMarked(w) ==
    /\ worker[w].pc = "queued" /\ faults < MaxFaults
    /\ active' = active - 1
    /\ Leaves(w)
    /\ faults' = faults + 1
    /\ UNCHANGED <<loop, task, manager, registry, commands>>

\* The account is gone: the three marks of the dispatch are undone.
PermitRefused(w) ==
    /\ worker[w].pc = "queued" /\ faults < MaxFaults
    /\ Mark(w, "free")
    /\ active' = active - 1
    /\ Leaves(w)
    /\ faults' = faults + 1
    /\ UNCHANGED <<loop, task, manager, prep, encrypted, entry, retries, is_merging, commands>>

SendSucceeds(w) ==
    /\ worker[w].pc = "sending"
    /\ Mark(w, "completed")
    /\ Step(w, "sent")
    /\ UNCHANGED <<active, loop, task, manager, prep, encrypted, entry, retries, is_merging, bounds>>

\* A transfer that has used up its own attempts counts one retry of the chunk, and
\* FailureRecorded another one; it stands for two of the bounded faults.
Exhausts(w) ==
    /\ faults + 1 < MaxFaults /\ faults' = faults + 2
    /\ retries' = [retries EXCEPT ![worker[w].run][worker[w].chunk] =
                                     IF @ < RetryLimit THEN @ + 1 ELSE @]

SendFails(w) ==
    /\ worker[w].pc = "sending"
    /\ \/ cancelled /\ UNCHANGED <<faults, retries>>
       \/ faults < MaxFaults /\ faults' = faults + 1 /\ UNCHANGED retries
       \/ Exhausts(w)
    /\ Step(w, "failed")
    /\ UNCHANGED <<active, loop, task, manager, prep, encrypted, entry, chunk, is_merging, commands>>

\* A bug: a failed transfer keeps its counts.
CountsDownOnSuccess(w) ==
    /\ worker[w].pc \in {"sent", "failed"}
    /\ active' = IF worker[w].pc = "sent" THEN active - 1 ELSE active
    /\ Step(w, IF worker[w].pc = "sent" THEN "succeeded" ELSE "erred")
    /\ UNCHANGED <<loop, task, manager, registry, bounds>>

\* The counts go down before the result is looked at.
CountsDown(w) ==
    /\ worker[w].pc \in {"sent", "failed"}
    /\ active' = active - 1
    /\ Step(w, IF worker[w].pc = "sent" THEN "succeeded" ELSE "erred")
    /\ UNCHANGED <<loop, task, manager, registry, bounds>>

FailureCancelled(w) ==
    /\ worker[w].pc = "erred" /\ cancelled
    /\ Leaves(w)
    /\ UNCHANGED <<active, loop, task, manager, registry, bounds>>

\* The chunk is free again; a chunk that failed too often fails the task.
FailureRecorded(w) ==
    LET r == worker[w].run
        n == retries[r][worker[w].chunk] + 1
    IN /\ worker[w].pc = "erred" /\ ~cancelled
       /\ Mark(w, "free")
       /\ retries' = [retries EXCEPT ![r][worker[w].chunk] = IF n > RetryLimit THEN @ ELSE n]
       /\ IF n < RetryLimit
          THEN Leaves(w) /\ UNCHANGED status
          ELSE Step(w, "failing") /\ status' = "Failed"
       /\ UNCHANGED <<active, loop, is_paused, cancelled, slot_id, pool, manager, prep, encrypted,
                      entry, is_merging, bounds>>

FailureRemoves(w) ==
    /\ worker[w].pc = "failing"
    /\ entry' = 0 /\ pool' = Released(pool)
    /\ Leaves(w)
    /\ UNCHANGED <<active, loop, status, is_paused, cancelled, slot_id, manager, prep, encrypted,
                   chunk, retries, is_merging, bounds>>

SuccessLeaves(w) ==
    LET r == worker[w].run
    IN /\ worker[w].pc = "succeeded"
       /\ ~AllCompleted(r) \/ active > 0 \/ is_merging[r]
       /\ Leaves(w)
       /\ UNCHANGED <<active, loop, task, manager, registry, bounds>>

SuccessMerges(w) ==
    LET r == worker[w].run
    IN /\ worker[w].pc = "succeeded" /\ AllCompleted(r) /\ active = 0
       /\ StartsMerge(r)
       /\ worker' = [worker EXCEPT ![w] = [pc |-> "creating", run |-> r, ok |-> TRUE]]
       /\ UNCHANGED <<active, loop, task, manager, bounds>>

MergeReturns(w) ==
    /\ worker[w].pc = "creating"
    /\ \E good \in {TRUE} \cup (IF faults < MaxFaults THEN {FALSE} ELSE {}) :
         /\ worker' = [worker EXCEPT ![w].pc = "settling", ![w].ok = good]
         /\ faults' = IF good THEN faults ELSE faults + 1
    /\ entry' = 0 /\ pool' = Released(pool)
    /\ UNCHANGED <<active, loop, status, is_paused, cancelled, slot_id, manager, prep, encrypted,
                   chunk, retries, is_merging, commands>>

MergeSettles(w) ==
    /\ worker[w].pc = "settling"
    /\ Settled(worker[w].ok)
    /\ Leaves(w)
    /\ UNCHANGED <<active, loop, registry, bounds>>

-----------------------------------------------------------------------------
(* The user                                                                *)

Command == commands < MaxCommands /\ commands' = commands + 1 /\ UNCHANGED faults

PauseUploading ==
    /\ listed /\ status = "Uploading" /\ Command
    /\ is_paused' = TRUE /\ status' = "Paused" /\ slot_id' = FALSE
    /\ pool' = IF slot_id THEN Released(pool) ELSE pool
    /\ UNCHANGED <<cancelled, manager, registry, execution>>

\* The slot a start may have allocated by now stays with the task.
PausePending ==
    /\ listed /\ status = "Pending" /\ Command
    /\ is_paused' = TRUE /\ status' = "Paused"
    /\ waiting' = 0
    /\ UNCHANGED <<cancelled, slot_id, pool, listed, starter, pump, evictor, registry,
                   execution>>

\* Any other status is refused, but the flag is up by then and stays up.
PauseRefused ==
    /\ listed /\ status \notin {"Uploading", "Pending"} /\ Command
    /\ is_paused' = TRUE
    /\ UNCHANGED <<status, cancelled, slot_id, pool, manager, registry, execution>>

Resume ==
    /\ listed /\ status \in {"Paused", "Failed"} /\ starter = "idle" /\ CanRun
    /\ status' = "Pending" /\ is_paused' = FALSE
    /\ starter' = "asked"
    /\ UNCHANGED <<cancelled, slot_id, pool, listed, pump, evictor, waiting, registry,
                   execution, bounds>>

Delete ==
    /\ listed /\ Command
    /\ listed' = FALSE /\ cancelled' = TRUE /\ waiting' = 0
    /\ pool' = IF slot_id THEN Released(pool) ELSE pool
    /\ entry' = 0
    /\ UNCHANGED <<status, is_paused, slot_id, starter, pump, evictor, prep, encrypted, chunk, retries,
                   is_merging, execution>>

-----------------------------------------------------------------------------
(* The competitor for the slot                                             *)

OtherTakes ==
    /\ pool = "none" /\ Command
    /\ pool' = "other"
    /\ UNCHANGED <<status, is_paused, cancelled, slot_id, manager, registry, execution>>

OtherLeaves ==
    /\ pool = "other" /\ evictor = "idle"
    /\ pool' = "none"
    /\ UNCHANGED <<status, is_paused, cancelled, slot_id, manager, registry, execution, bounds>>

\* handle_preempted_backup_task, from the eviction to the waiting queue.
Preempt ==
    /\ IsBackup /\ pool = "task" /\ evictor = "idle" /\ Command
    /\ pool' = "other"
    /\ evictor' = "evicted"
    /\ UNCHANGED <<status, is_paused, cancelled, slot_id, listed, starter, pump, waiting,
                   registry, execution>>

PreemptMarks ==
    /\ evictor = "evicted"
    /\ evictor' = IF listed THEN "marked" ELSE "idle"
    /\ is_paused' = TRUE /\ cancelled' = TRUE
    /\ IF status = "Uploading"
       THEN status' = "Paused" /\ slot_id' = FALSE
       ELSE UNCHANGED <<status, slot_id>>
    /\ UNCHANGED <<pool, listed, starter, pump, waiting, registry, execution, bounds>>

PreemptRequeues ==
    /\ evictor = "marked"
    /\ evictor' = "idle"
    /\ entry' = 0
    /\ status' = "Pending"
    /\ waiting' = waiting + 1
    /\ UNCHANGED <<is_paused, cancelled, slot_id, pool, listed, starter, pump, prep, encrypted, chunk,
                   retries, is_merging, execution, bounds>>

\* The pool's cleanup took the slot: the task is told later, and set to
\* Failed whatever it does by then.
StaleRelease ==
    /\ pool = "task" /\ evictor = "idle" /\ faults < MaxFaults
    /\ pool' = "none" /\ evictor' = "stale"
    /\ faults' = faults + 1
    /\ UNCHANGED <<status, is_paused, cancelled, slot_id, listed, starter, pump, waiting,
                   registry, execution, commands>>

StaleNotice ==
    /\ evictor = "stale"
    /\ evictor' = "idle"
    /\ IF listed THEN status' = "Failed" /\ slot_id' = FALSE ELSE UNCHANGED <<status, slot_id>>
    /\ UNCHANGED <<is_paused, cancelled, pool, listed, starter, pump, waiting, registry,
                   execution, bounds>>

-----------------------------------------------------------------------------
StartStep  == StartReads \/ StartInvalid \/ StartWithSlot \/ StartLostSlot \/ StartAllocates \/ StartQueues
PumpStep   == PumpSkips \/ PumpPops \/ PumpAllocates \/ PumpPutsBack \/ PumpFindsDeleted
PrepStep(r) == \/ PrepMarks(r) \/ PrepEncrypts(r) \/ PrepReuses(r) \/ PrepEncrypted(r)
               \/ PrepEncryptFails(r) \/ PrepFails(r) \/ PrepRapid(r) \/ PrepRegisters(r)
LoopStep   == \/ LoopSees \/ LoopSeesCancelled \/ LoopDrops \/ LoopFindsNone \/ LoopPasses
              \/ LoopMerges \/ LoopReturns \/ LoopSettles \/ \E w \in Workers : LoopPicks(w)
WorkerStep(w) ==
    \/ PermitGranted(w) \/ PermitRefused(w) \/ SendSucceeds(w) \/ SendFails(w) \/ CountsDown(w)
    \/ FailureCancelled(w) \/ FailureRecorded(w) \/ FailureRemoves(w)
    \/ SuccessLeaves(w) \/ SuccessMerges(w) \/ MergeReturns(w) \/ MergeSettles(w)
UserStep   == PauseUploading \/ PausePending \/ PauseRefused \/ Resume \/ Delete
OtherStep  == OtherTakes \/ OtherLeaves \/ Preempt \/ StaleRelease
EvictStep  == PreemptMarks \/ PreemptRequeues \/ StaleNotice

Next == \/ StartStep \/ PumpStep \/ LoopStep \/ UserStep \/ OtherStep \/ EvictStep
        \/ \E r \in Runs : PrepStep(r)
        \/ \E w \in Workers : WorkerStep(w)

Spec == Init /\ [][Next]_vars

\* The runtime runs every spawned task and the loop; the user owes nothing.
FairSpec ==
    /\ Spec
    /\ WF_vars(StartStep) /\ WF_vars(LoopStep) /\ WF_vars(EvictStep)
    /\ \A r \in Runs : WF_vars(PrepStep(r))
    /\ \A w \in Workers : WF_vars(WorkerStep(w))

-----------------------------------------------------------------------------
(* Properties                                                              *)

Counted(w) == worker[w].pc \in {"queued", "sending", "sent", "failed"}

\* The shared counter is exactly the number of transfers under way, over all
\* runs of the task and through every refusal, failure and restart: the loop
\* merges when it reads zero.
CountExact == active = Cardinality({w \in Workers : Counted(w)})

\* A chunk marked uploading has a transfer that will clear the mark, unless
\* the run is cancelled: nothing else would ever pick the chunk up again.
Holds(w, r, c) ==
    /\ worker[w].pc \notin {"idle", "creating", "settling", "succeeded", "failing", "sent"}
    /\ worker[w].run = r /\ worker[w].chunk = c
NoChunkStranded ==
    cancelled \/ \A r \in Runs : \A c \in Chunks :
        chunk[r][c] = "uploading" => Cardinality({w \in Workers : Holds(w, r, c)}) = 1

Merging(r) == {w \in Workers : worker[w].pc = "creating" /\ worker[w].run = r}
LoopMerging(r) == loop.pc = "creating" /\ loop.run = r

\* The loop and a transfer may both find the last chunk done: only one of
\* them calls create_file for a run.
OneMergePerRun ==
    \A r \in Runs : Cardinality(Merging(r)) + (IF LoopMerging(r) THEN 1 ELSE 0) <= 1

\* Under fair scheduling a registered run does not stay in the scheduler for
\* ever: it is merged, fails, is dropped, or the user pauses it.
RunLeaves == \A r \in Runs : entry = r ~> (entry # r \/ is_paused)

\* create_file is called for a whole upload only.
MergesWhole ==
    [][\A r \in Runs : (is_merging'[r] /\ ~is_merging[r]) => AllCompleted(r)]_vars

\* Nothing is left that could still change the task, other than the user.
Quiet == /\ starter = "idle" /\ pump = "idle" /\ evictor = "idle"
         /\ waiting = 0 /\ entry = 0 /\ loop = Idle
         /\ \A r \in Runs : prep[r] \in {"unused", "over"}
         /\ \A w \in Workers : worker[w] = Idle

\* A task shown as uploading has something that carries it on.
NeverAbandoned == ~(Quiet /\ listed /\ status = "Uploading")

\* A task that is over, or deleted, has given back its slot.
SlotReturned == Quiet /\ (status \in Ended \/ ~listed) => pool # "task"

\* A run is registered only for a task that owns a slot.
RegistersWithSlot == [][\A r \in Runs : PrepRegisters(r) => pool = "task"]_vars

\* A completed upload stays completed.
CompletedStays == [][status = "Completed" => status' = "Completed"]_vars

\* The user's pause is not undone by the program.
PauseLasts == [][(status = "Paused" /\ evictor = "idle") => (status' = "Paused" \/ Resume)]_vars
=============================================================================
