---------------------------- MODULE ChunkScheduler ----------------------------
(***************************************************************************)
(* backend/src/downloader/scheduler.rs and the ChunkManager of chunk.rs:   *)
(* how one download task is cut into chunk transfers, retried, sent back   *)
(* to the waiting queue or handed to finalization, with the part of        *)
(* manager.rs that pauses, restarts and requeues it.                       *)
(*                                                                         *)
(* A run is one TaskScheduleInfo: every start of the task registers a new  *)
(* one with a fresh token, chunk manager and counters, and transfers of an *)
(* old run may still be ending.  The scheduling loop, the transfers (one   *)
(* spawned task each) and the manager interleave between any two locks or  *)
(* atomics.                                                                *)
(***************************************************************************)
EXTENDS Integers, FiniteSets

CONSTANTS
    MaxRuns,          \* bound: starts of the task
    NChunks,          \* chunks of the file
    Workers,          \* identities of spawned transfers; reused once idle
    MaxThreads,       \* max_global_threads
    TaskChunks,       \* max_concurrent_chunks of the task
    FailureLimit,     \* CONSECUTIVE_CHUNK_FAILURE_LIMIT
    RetryLimit,       \* max_retries * 2
    MaxRequeue,       \* MAX_AUTO_REQUEUE
    MaxStartRetries,  \* MAX_START_RETRIES
    FolderSubtask,    \* the task belongs to a folder (or is a backup task)
    MaxFailures,      \* bound: failed transfers
    MaxPauses         \* bound: pauses by the user

ASSUME SchedulerAssumption ==
    /\ {MaxRuns, NChunks, MaxThreads, TaskChunks, FailureLimit, RetryLimit} \subseteq Nat \ {0}
    /\ {MaxRequeue, MaxStartRetries, MaxFailures, MaxPauses} \subseteq Nat
    /\ FolderSubtask \in BOOLEAN
    /\ IsFiniteSet(Workers)

Runs   == 1..MaxRuns
Chunks == 1..NChunks
NoRun  == 0

VARIABLES
    registered,          \* active_tasks: the run of the task, or NoRun
    started,             \* how many runs there have been
    cancelled,           \* cancellation_token of each run
    token,               \* cancellation_tokens: the run whose token is in the map
    chunk,               \* the Chunk records of each run
    saved,               \* chunks the persistence manager has as completed
    task_active,         \* active_chunk_count of each run
    active_chunk_count,  \* the scheduler's own
    failures,            \* consecutive_chunk_failures of each run
    worker,              \* the transfers
    loop,                \* the scheduling loop
    requests,            \* AutoRequeueRequests not consumed yet
    status,              \* DownloadTask.status
    requeue_count,       \* DownloadTask.requeue_count
    start_retry_count,   \* DownloadTask.start_retry_count
    next_retry,          \* next_retry_at is in the future
    finalizing,          \* runs handed to a finalization task
    failed,              \* history: transfers that counted as failed, by run
    fast,                \* history: requests sent for consecutive failures
    trouble,             \* history: transfers refused or failed so far
    pauses               \* history: pauses so far

run_vars  == <<registered, started, cancelled, token>>
cnt_vars  == <<task_active, active_chunk_count>>
task_vars == <<status, requeue_count, start_retry_count, next_retry, pauses>>
hist_vars == <<failed, fast>>
vars == <<run_vars, chunk, saved, cnt_vars, failures, worker, loop, requests,
          task_vars, finalizing, hist_vars, trouble>>

Fresh == [completed |-> FALSE, downloading |-> FALSE, deferred |-> FALSE,
          cooling |-> FALSE, retries |-> 0]

Idle == [pc |-> "idle", run |-> NoRun, chunk |-> 0, error |-> "none", count |-> 0]

Waiting == [pc |-> "round", run |-> NoRun, left |-> 0]

(***************************************************************************)
(* A transfer: "permit" waits for its budget permit, "transfer" downloads, *)
(* "unmark" rolls back, "ended" still has both counts, "counted" only the  *)
(* task's, "result" has neither and looks at what it got, "blame" is about *)
(* to call fail_chunk, "defer" mark_deferred, "add" adds to the failures,  *)
(* "limit" found them at the limit, "swap" is about to compare_exchange.   *)
(***************************************************************************)
WorkerPC == {"idle", "permit", "unmark", "transfer", "ended", "counted",
             "result", "blame", "defer", "add", "limit", "swap"}

LoopPC == {"round", "fetch", "check", "evict", "pick", "none", "stuck", "quiet",
           "requeue", "done", "finish"}

TypeOK ==
    /\ registered \in Runs \cup {NoRun}
    /\ started \in 0..MaxRuns
    /\ cancelled \in [Runs -> BOOLEAN]
    /\ chunk \in [Runs -> [Chunks ->
          [completed : BOOLEAN, downloading : BOOLEAN, deferred : BOOLEAN,
           cooling : BOOLEAN, retries : 0..MaxFailures]]]
    /\ saved \subseteq Chunks
    /\ task_active \in [Runs -> 0..TaskChunks]
    /\ active_chunk_count \in 0..MaxThreads
    /\ failures \in [Runs -> Nat]
    /\ worker \in [Workers ->
          [pc : WorkerPC, run : Runs \cup {NoRun}, chunk : 0..NChunks,
           error : {"none", "Refused", "Cancelled", "Transient", "Fatal"}, count : Nat]]
    /\ loop \in [pc : LoopPC, run : Runs \cup {NoRun}, left : 0..MaxThreads]
    /\ requests \in Nat
    /\ status \in {"Pending", "Downloading", "Paused", "Failed", "Completed"}
    /\ requeue_count \in 0..MaxRequeue
    /\ start_retry_count \in 0..MaxStartRetries
    /\ finalizing \subseteq Runs
    /\ failed \in [Runs -> Nat]
    /\ fast \in [Runs -> Nat]
    /\ token \in Runs \cup {NoRun}
    /\ next_retry \in BOOLEAN
    /\ trouble \in 0..MaxFailures
    /\ pauses \in 0..MaxPauses

Init ==
    /\ registered = NoRun
    /\ started = 0
    /\ cancelled = [r \in Runs |-> FALSE]
    /\ chunk = [r \in Runs |-> [k \in Chunks |-> Fresh]]
    /\ saved = {}
    /\ task_active = [r \in Runs |-> 0]
    /\ active_chunk_count = 0
    /\ failures = [r \in Runs |-> 0]
    /\ worker = [w \in Workers |-> Idle]
    /\ loop = Waiting
    /\ requests = 0
    /\ status = "Pending"
    /\ requeue_count = 0
    /\ start_retry_count = 0
    /\ finalizing = {}
    /\ failed = [r \in Runs |-> 0]
    /\ fast = [r \in Runs |-> 0]
    /\ token = NoRun
    /\ next_retry = FALSE
    /\ trouble = 0
    /\ pauses = 0

-----------------------------------------------------------------------------
(***************************************************************************)
(* The scheduling loop.  With one task, a pick that dispatches nothing     *)
(* ends the round (consecutive_empty_rounds reaches task_count).           *)
(***************************************************************************)
At(pc) == loop.pc = pc
LoopTo(pc) == loop' = [loop EXCEPT !.pc = pc]
EndRound == loop' = Waiting

Remaining(r) == {k \in Chunks : ~chunk[r][k].completed}

\* What the first pass over the chunks may pick, and what the second may,
\* which is made after undefer_all and does not look at the cooldown.
Ready(cs) == {k \in Chunks : ~cs[k].completed /\ ~cs[k].downloading
                             /\ ~cs[k].deferred /\ ~cs[k].cooling}
ReadyOrCooling(cs) == {k \in Chunks : ~cs[k].completed /\ ~cs[k].downloading
                                      /\ ~cs[k].deferred}

UndeferAll(cs) ==
    [k \in Chunks |-> IF cs[k].deferred
                      THEN [cs[k] EXCEPT !.deferred = FALSE, !.retries = 0, !.cooling = FALSE]
                      ELSE cs[k]]

Lowest(S) == {k \in S : \A j \in S : k <= j}

StartRound ==
    /\ At("round") /\ registered # NoRun
    /\ active_chunk_count < MaxThreads
    /\ loop' = [pc |-> "fetch", run |-> NoRun, left |-> MaxThreads - active_chunk_count]
    /\ UNCHANGED <<run_vars, chunk, saved, cnt_vars, failures, worker, requests,
                   task_vars, finalizing, hist_vars, trouble>>

\* The entry is cloned; from here on the run may be cancelled or replaced.
Fetch ==
    /\ At("fetch")
    /\ IF registered = NoRun THEN EndRound
       ELSE loop' = [loop EXCEPT !.pc = "check", !.run = registered]
    /\ UNCHANGED <<run_vars, chunk, saved, cnt_vars, failures, worker, requests,
                   task_vars, finalizing, hist_vars, trouble>>

Check ==
    /\ At("check")
    /\ IF cancelled[loop.run] THEN LoopTo("evict")
       ELSE IF task_active[loop.run] >= TaskChunks THEN EndRound
       ELSE LoopTo("pick")
    /\ UNCHANGED <<run_vars, chunk, saved, cnt_vars, failures, worker, requests,
                   task_vars, finalizing, hist_vars, trouble>>

\* A bug: a cancelled run is passed over and never removed.
EvictNothing ==
    /\ At("evict")
    /\ EndRound
    /\ UNCHANGED <<run_vars, chunk, saved, cnt_vars, failures, worker, requests,
                   task_vars, finalizing, hist_vars, trouble>>

\* A cancelled run is removed by task id, whatever is registered by now.
Evict ==
    /\ At("evict")
    /\ registered' = NoRun
    /\ EndRound
    /\ UNCHANGED <<started, cancelled, token, chunk, saved, cnt_vars, failures, worker,
                   requests, task_vars, finalizing, hist_vars, trouble>>

\* The chunk is marked under the lock it was picked under, both counters go
\* up and the transfer is spawned.
Dispatch(k, cs) ==
    /\ chunk' = [chunk EXCEPT ![loop.run] = [cs EXCEPT ![k].downloading = TRUE]]
    /\ active_chunk_count' = active_chunk_count + 1
    /\ task_active' = [task_active EXCEPT ![loop.run] = @ + 1]
    /\ \E w \in Workers :
        /\ worker[w] = Idle
        /\ worker' = [worker EXCEPT ![w] =
                         [Idle EXCEPT !.pc = "permit", !.run = loop.run, !.chunk = k]]
    /\ IF loop.left > 1
       THEN loop' = [pc |-> "fetch", run |-> NoRun, left |-> loop.left - 1]
       ELSE EndRound

PickReady ==
    /\ At("pick")
    /\ \E k \in Lowest(Ready(chunk[loop.run])) : Dispatch(k, chunk[loop.run])
    /\ UNCHANGED <<run_vars, saved, failures, requests, task_vars, finalizing, hist_vars, trouble>>

\* Nothing is ready, but some chunk is deferred: all of them are thawed.
PickThawed ==
    LET thawed == UndeferAll(chunk[loop.run])
    IN  /\ At("pick")
        /\ Ready(chunk[loop.run]) = {}
        /\ thawed # chunk[loop.run]
        /\ IF ReadyOrCooling(thawed) = {}
           THEN /\ chunk' = [chunk EXCEPT ![loop.run] = thawed]
                /\ LoopTo("none")
                /\ UNCHANGED <<cnt_vars, worker>>
           ELSE \E k \in Lowest(ReadyOrCooling(thawed)) : Dispatch(k, thawed)
        /\ UNCHANGED <<run_vars, saved, failures, requests, task_vars, finalizing, hist_vars, trouble>>

PickNone ==
    /\ At("pick")
    /\ Ready(chunk[loop.run]) = {}
    /\ \A k \in Chunks : ~chunk[loop.run][k].deferred
    /\ LoopTo("none")
    /\ UNCHANGED <<run_vars, chunk, saved, cnt_vars, failures, worker, requests,
                   task_vars, finalizing, hist_vars, trouble>>

\* all_done, read under a second lock.
AllDone ==
    /\ At("none")
    /\ LoopTo(IF Remaining(loop.run) = {} THEN "done" ELSE "stuck")
    /\ UNCHANGED <<run_vars, chunk, saved, cnt_vars, failures, worker, requests,
                   task_vars, finalizing, hist_vars, trouble>>

\* A bug: the finished branch does not look at the running transfers.
CountTransfersWhenStuck ==
    /\ At("stuck") \/ At("done")
    /\ IF At("stuck") /\ task_active[loop.run] # 0 THEN EndRound
       ELSE LoopTo(IF At("stuck") THEN "quiet" ELSE "finish")
    /\ UNCHANGED <<run_vars, chunk, saved, cnt_vars, failures, worker, requests,
                   task_vars, finalizing, hist_vars, trouble>>

\* The count of running transfers, read by both branches.
CountTransfers ==
    /\ At("stuck") \/ At("done")
    /\ IF task_active[loop.run] # 0 THEN EndRound
       ELSE LoopTo(IF At("stuck") THEN "quiet" ELSE "finish")
    /\ UNCHANGED <<run_vars, chunk, saved, cnt_vars, failures, worker, requests,
                   task_vars, finalizing, hist_vars, trouble>>

\* has_cooling_down, read under a third lock.
LookForCooling ==
    /\ At("quiet")
    /\ IF \E k \in ReadyOrCooling(chunk[loop.run]) : chunk[loop.run][k].cooling
       THEN EndRound
       ELSE LoopTo("requeue")
    /\ UNCHANGED <<run_vars, chunk, saved, cnt_vars, failures, worker, requests,
                   task_vars, finalizing, hist_vars, trouble>>

\* The slow path of auto_requeue: the entry goes and the request is sent.
RequeueSlow ==
    /\ At("requeue")
    /\ registered' = NoRun
    /\ requests' = requests + 1
    /\ EndRound
    /\ UNCHANGED <<started, cancelled, token, chunk, saved, cnt_vars, failures, worker,
                   task_vars, finalizing, hist_vars, trouble>>

\* The last chunk is in: the entry goes, the token is cancelled to stop the
\* detection loops, and finalization is spawned.
Finish ==
    /\ At("finish")
    /\ registered' = NoRun
    /\ cancelled' = [cancelled EXCEPT ![loop.run] = TRUE]
    /\ finalizing' = finalizing \cup {loop.run}
    /\ EndRound
    /\ UNCHANGED <<started, token, chunk, saved, cnt_vars, failures, worker, requests,
                   task_vars, hist_vars, trouble>>

Loop ==
    \/ StartRound \/ Fetch \/ Check \/ Evict
    \/ PickReady \/ PickThawed \/ PickNone
    \/ AllDone \/ CountTransfers \/ LookForCooling \/ RequeueSlow \/ Finish

-----------------------------------------------------------------------------
(***************************************************************************)
(* One transfer (spawn_chunk_download)                                     *)
(***************************************************************************)
Of(w, pc) == worker[w].pc = pc
Move(w, pc) == worker' = [worker EXCEPT ![w].pc = pc]
Leave(w) == worker' = [worker EXCEPT ![w] = Idle]
Held(w) == chunk[worker[w].run][worker[w].chunk]
SetHeld(w, c) == chunk' = [chunk EXCEPT ![worker[w].run][worker[w].chunk] = c]

Permit(w) ==
    /\ Of(w, "permit")
    /\ Move(w, "transfer")
    /\ UNCHANGED <<run_vars, chunk, saved, cnt_vars, failures, loop, requests,
                   task_vars, finalizing, hist_vars, trouble>>

\* The account is not known to the budget scheduler.
NoPermit(w) ==
    /\ Of(w, "permit") /\ trouble < MaxFailures
    /\ trouble' = trouble + 1
    /\ worker' = [worker EXCEPT ![w].pc = "unmark", ![w].error = "Refused"]
    /\ UNCHANGED <<run_vars, chunk, saved, cnt_vars, failures, loop, requests,
                   task_vars, finalizing, hist_vars>>

\* A bug: the rollback gives back the counters only.
UnmarkNothing(w) ==
    /\ Of(w, "unmark")
    /\ Move(w, "ended")
    /\ UNCHANGED <<run_vars, chunk, saved, cnt_vars, failures, loop, requests,
                   task_vars, finalizing, hist_vars, trouble>>

Unmark(w) ==
    /\ Of(w, "unmark")
    /\ SetHeld(w, [Held(w) EXCEPT !.downloading = FALSE])
    /\ Move(w, "ended")
    /\ UNCHANGED <<run_vars, saved, cnt_vars, failures, loop, requests,
                   task_vars, finalizing, hist_vars, trouble>>

\* download_chunk_with_retry marks the chunk before it returns.
Succeed(w) ==
    /\ Of(w, "transfer")
    /\ SetHeld(w, [Held(w) EXCEPT !.completed = TRUE, !.downloading = FALSE])
    /\ Move(w, "ended")
    /\ UNCHANGED <<run_vars, saved, cnt_vars, failures, loop, requests,
                   task_vars, finalizing, hist_vars, trouble>>

\* It gives up: ServerThrottled differs from Transient in the backoff only.
Fail(w) ==
    /\ Of(w, "transfer")
    /\ \E e \in {"Cancelled", "Transient", "Fatal"} :
        /\ IF e = "Cancelled" THEN cancelled[worker[w].run] ELSE trouble < MaxFailures
        /\ trouble' = IF e = "Cancelled" THEN trouble ELSE trouble + 1
        /\ worker' = [worker EXCEPT ![w].pc = "ended", ![w].error = e]
    /\ UNCHANGED <<run_vars, chunk, saved, cnt_vars, failures, loop, requests,
                   task_vars, finalizing, hist_vars>>

GiveGlobal(w) ==
    /\ Of(w, "ended")
    /\ active_chunk_count' = active_chunk_count - 1
    /\ Move(w, "counted")
    /\ UNCHANGED <<run_vars, chunk, saved, task_active, failures, loop, requests,
                   task_vars, finalizing, hist_vars, trouble>>

\* A bug: the rollback forgets the task's own counter.
GiveTaskNotRefused(w) ==
    /\ Of(w, "counted")
    /\ task_active' = [task_active EXCEPT ![worker[w].run] =
                          IF worker[w].error = "Refused" THEN @ ELSE @ - 1]
    /\ IF worker[w].error = "Refused" THEN Leave(w) ELSE Move(w, "result")
    /\ UNCHANGED <<run_vars, chunk, saved, active_chunk_count, failures, loop, requests,
                   task_vars, finalizing, hist_vars, trouble>>

GiveTask(w) ==
    /\ Of(w, "counted")
    /\ task_active' = [task_active EXCEPT ![worker[w].run] = @ - 1]
    /\ IF worker[w].error = "Refused" THEN Leave(w) ELSE Move(w, "result")
    /\ UNCHANGED <<run_vars, chunk, saved, active_chunk_count, failures, loop, requests,
                   task_vars, finalizing, hist_vars, trouble>>

\* Progress: the failures start again from zero, the chunk is persisted.
ResultOk(w) ==
    /\ Of(w, "result") /\ worker[w].error = "none"
    /\ failures' = [failures EXCEPT ![worker[w].run] = 0]
    /\ saved' = saved \cup {worker[w].chunk}
    /\ Leave(w)
    /\ UNCHANGED <<run_vars, chunk, cnt_vars, loop, requests, task_vars, finalizing,
                   hist_vars, trouble>>

\* A failure of a cancelled run counts for nothing.
ResultError(w) ==
    /\ Of(w, "result") /\ worker[w].error # "none"
    /\ IF cancelled[worker[w].run] THEN Leave(w) ELSE Move(w, "blame")
    /\ UNCHANGED <<run_vars, chunk, saved, cnt_vars, failures, loop, requests,
                   task_vars, finalizing, hist_vars, trouble>>

\* fail_chunk: unmarked, one more retry, cooling down or deferred.
Blame(w) ==
    LET fatal   == worker[w].error = "Fatal"
        retries == Held(w).retries + 1
    IN  /\ Of(w, "blame")
        /\ SetHeld(w, [Held(w) EXCEPT !.downloading = FALSE, !.retries = retries,
                                      !.deferred = fatal, !.cooling = ~fatal])
        /\ Move(w, IF ~fatal /\ retries >= RetryLimit THEN "defer" ELSE "add")
        /\ UNCHANGED <<run_vars, saved, cnt_vars, failures, loop, requests,
                       task_vars, finalizing, hist_vars, trouble>>

\* mark_deferred, under a lock of its own.
Defer(w) ==
    /\ Of(w, "defer")
    /\ SetHeld(w, [Held(w) EXCEPT !.deferred = TRUE, !.downloading = FALSE, !.cooling = FALSE])
    /\ Move(w, "add")
    /\ UNCHANGED <<run_vars, saved, cnt_vars, failures, loop, requests,
                   task_vars, finalizing, hist_vars, trouble>>

\* A bug: only the transfer that meets the limit exactly goes on.
AddExact(w) ==
    LET r == worker[w].run
    IN  /\ Of(w, "add")
        /\ failures' = [failures EXCEPT ![r] = @ + 1]
        /\ failed' = [failed EXCEPT ![r] = @ + 1]
        /\ worker' = [worker EXCEPT ![w] =
                         IF failures'[r] = FailureLimit
                         THEN [@ EXCEPT !.pc = "limit", !.count = failures'[r]]
                         ELSE Idle]
        /\ UNCHANGED <<run_vars, chunk, saved, cnt_vars, loop, requests, task_vars,
                       finalizing, fast, trouble>>

\* consecutive_chunk_failures.fetch_add(1)
Add(w) ==
    LET r == worker[w].run
    IN  /\ Of(w, "add")
        /\ failures' = [failures EXCEPT ![r] = @ + 1]
        /\ failed' = [failed EXCEPT ![r] = @ + 1]
        /\ worker' = [worker EXCEPT ![w] =
                         IF failures'[r] >= FailureLimit
                         THEN [@ EXCEPT !.pc = "limit", !.count = failures'[r]]
                         ELSE Idle]
        /\ UNCHANGED <<run_vars, chunk, saved, cnt_vars, loop, requests, task_vars,
                       finalizing, fast, trouble>>

AtLimit(w) ==
    /\ Of(w, "limit")
    /\ IF cancelled[worker[w].run] THEN Leave(w) ELSE Move(w, "swap")
    /\ UNCHANGED <<run_vars, chunk, saved, cnt_vars, failures, loop, requests,
                   task_vars, finalizing, hist_vars, trouble>>

\* A bug: a plain store where the compare_exchange is.
SwapBlind(w) ==
    LET r == worker[w].run
    IN  /\ Of(w, "swap")
        /\ failures' = [failures EXCEPT ![r] = 0]
        /\ requests' = requests + 1
        /\ fast' = [fast EXCEPT ![r] = @ + 1]
        /\ Leave(w)
        /\ UNCHANGED <<run_vars, chunk, saved, cnt_vars, loop, task_vars, finalizing,
                       failed, trouble>>

\* compare_exchange(count, 0): the one that succeeds sends the request (the
\* fast path).
Swap(w) ==
    LET r   == worker[w].run
        won == failures[r] = worker[w].count
    IN  /\ Of(w, "swap")
        /\ failures' = [failures EXCEPT ![r] = IF won THEN 0 ELSE @]
        /\ requests' = IF won THEN requests + 1 ELSE requests
        /\ fast' = [fast EXCEPT ![r] = IF won THEN @ + 1 ELSE @]
        /\ Leave(w)
        /\ UNCHANGED <<run_vars, chunk, saved, cnt_vars, loop, task_vars, finalizing,
                       failed, trouble>>

Transfer(w) ==
    \/ Permit(w) \/ NoPermit(w) \/ Unmark(w) \/ Succeed(w) \/ Fail(w)
    \/ GiveGlobal(w) \/ GiveTask(w) \/ ResultOk(w) \/ ResultError(w)
    \/ Blame(w) \/ Defer(w) \/ Add(w) \/ AtLimit(w) \/ Swap(w)

\* A cooldown runs out.  None is shorter than 100 ms, which the transfer that
\* started it needs to reach mark_deferred.
Expire(r, k) ==
    /\ chunk[r][k].cooling
    /\ \A w \in Workers : ~(Of(w, "defer") /\ worker[w].run = r /\ worker[w].chunk = k)
    /\ chunk' = [chunk EXCEPT ![r][k].cooling = FALSE]
    /\ UNCHANGED <<run_vars, saved, cnt_vars, failures, worker, loop, requests,
                   task_vars, finalizing, hist_vars, trouble>>

-----------------------------------------------------------------------------
(***************************************************************************)
(* The manager                                                             *)
(***************************************************************************)
\* The task gets a slot and is registered with a new run that starts from the
\* persisted chunks.  A task in its requeue cooldown (60 s) is not started
\* while anything of the old run is still on its way.
StartRun ==
    LET r == started + 1
    IN  /\ status = "Pending" /\ started < MaxRuns
        /\ next_retry => /\ requests = 0 /\ ~At("evict")
                         /\ registered # NoRun => ~cancelled[registered]
        /\ started' = r /\ registered' = r /\ token' = r
        /\ chunk' = [chunk EXCEPT ![r] =
                        [k \in Chunks |-> [Fresh EXCEPT !.completed = k \in saved]]]
        /\ status' = "Downloading"
        /\ start_retry_count' = 0
        /\ next_retry' = FALSE
        /\ UNCHANGED <<cancelled, saved, cnt_vars, failures, worker, loop, requests,
                       requeue_count, pauses, finalizing, hist_vars, trouble>>

\* pause_task, with cancel_task.
Pause ==
    /\ status = "Downloading" /\ pauses < MaxPauses
    /\ pauses' = pauses + 1
    /\ status' = "Paused"
    /\ registered' = NoRun
    /\ cancelled' = [r \in Runs |-> cancelled[r] \/ r = registered]
    /\ token' = NoRun
    /\ UNCHANGED <<started, chunk, saved, cnt_vars, failures, worker, loop, requests,
                   requeue_count, start_retry_count, next_retry, finalizing,
                   hist_vars, trouble>>

\* resume_task
Resume ==
    /\ status \in {"Paused", "Failed"}
    /\ status' = "Pending"
    /\ next_retry' = FALSE
    /\ UNCHANGED <<run_vars, chunk, saved, cnt_vars, failures, worker, loop, requests,
                   requeue_count, start_retry_count, pauses, finalizing, hist_vars, trouble>>

\* downloaded_size has reached total_size (a requeue resets it, the next start
\* restores it), or the task is gone.
NothingToRequeue ==
    status = "Completed" \/ (started > 0 /\ ~next_retry /\ Remaining(started) = {})

\* auto_requeue_task: too late, the request is dropped.
RequeueSkipped ==
    /\ requests > 0
    /\ NothingToRequeue
    /\ requests' = requests - 1
    /\ UNCHANGED <<run_vars, chunk, saved, cnt_vars, failures, worker, loop,
                   task_vars, finalizing, hist_vars, trouble>>

\* handle_task_failure: meant for a start that failed, it gives a subtask of a
\* folder and a backup task another try.  The token goes without a cancel.
HandleTaskFailure ==
    /\ IF FolderSubtask /\ start_retry_count < MaxStartRetries
       THEN status' = "Pending" /\ start_retry_count' = start_retry_count + 1
       ELSE status' = "Failed" /\ UNCHANGED start_retry_count
    /\ token' = NoRun

\* The budget is used up.
RequeueExhausted ==
    /\ requests > 0
    /\ ~NothingToRequeue
    /\ requeue_count >= MaxRequeue
    /\ requests' = requests - 1
    /\ HandleTaskFailure
    /\ UNCHANGED <<registered, started, cancelled, chunk, saved, cnt_vars, failures,
                   worker, loop, requeue_count, next_retry, pauses, finalizing,
                   hist_vars, trouble>>

\* A bug: off by one, the budget is overdrawn.
RequeueOneMore ==
    /\ requests > 0
    /\ ~NothingToRequeue
    /\ requeue_count <= MaxRequeue
    /\ requests' = requests - 1
    /\ requeue_count' = requeue_count + 1
    /\ cancelled' = [r \in Runs |-> cancelled[r] \/ r = token]
    /\ token' = NoRun
    /\ status' = "Pending"
    /\ next_retry' = TRUE
    /\ UNCHANGED <<registered, started, chunk, saved, cnt_vars, failures, worker, loop,
                   start_retry_count, pauses, finalizing, hist_vars, trouble>>

\* The task goes back to the waiting queue and its run is cancelled.
Requeue ==
    /\ requests > 0
    /\ ~NothingToRequeue
    /\ requeue_count < MaxRequeue
    /\ requests' = requests - 1
    /\ requeue_count' = requeue_count + 1
    /\ cancelled' = [r \in Runs |-> cancelled[r] \/ r = token]
    /\ token' = NoRun
    /\ status' = "Pending"
    /\ next_retry' = TRUE
    /\ UNCHANGED <<registered, started, chunk, saved, cnt_vars, failures, worker, loop,
                   start_retry_count, pauses, finalizing, hist_vars, trouble>>

\* finalize_download_output, then handle_task_completion: a paused task keeps
\* its state, any other gets its final one.
Finalize(r) ==
    /\ r \in finalizing
    /\ finalizing' = finalizing \ {r}
    /\ IF status = "Paused" THEN UNCHANGED status
       ELSE status' \in {"Completed", "Failed"}
    /\ UNCHANGED <<run_vars, chunk, saved, cnt_vars, failures, worker, loop, requests,
                   requeue_count, start_retry_count, next_retry, pauses, hist_vars, trouble>>

HandleRequeue == RequeueSkipped \/ RequeueExhausted \/ Requeue

Next ==
    \/ Loop
    \/ \E w \in Workers : Transfer(w)
    \/ \E r \in Runs : Finalize(r) \/ \E k \in Chunks : Expire(r, k)
    \/ StartRun \/ Pause \/ Resume
    \/ HandleRequeue

Spec == Init /\ [][Next]_vars

\* The loop never stops, a transfer has timeouts at every wait, cooldowns run
\* out, the requeue consumer and the finalization tasks run.  Nobody has to
\* pause or resume, and a queued task has to wait for a slot.
Fairness ==
    /\ WF_vars(Loop)
    /\ \A w \in Workers : WF_vars(Transfer(w))
    /\ \A r \in Runs : WF_vars(Finalize(r)) /\ \A k \in Chunks : WF_vars(Expire(r, k))
    /\ WF_vars(HandleRequeue)

FairSpec == Spec /\ Fairness

-----------------------------------------------------------------------------
(* Properties                                                              *)

HasGlobal(w) == worker[w].pc \in {"permit", "unmark", "transfer", "ended"}
HasTask(w)   == HasGlobal(w) \/ Of(w, "counted")

\* Both counters are what the transfers in flight have taken, the refused and
\* the cancelled ones included: one unit lost for ever would take a thread
\* from every task, or keep this one from ever being finished.
CountersExact ==
    /\ active_chunk_count = Cardinality({w \in Workers : HasGlobal(w)})
    /\ \A r \in Runs :
        task_active[r] = Cardinality({w \in Workers : worker[w].run = r /\ HasTask(w)})

\* A run is handed to finalization (rename, decryption) only when each of its
\* chunks is in and none of its transfers still has a thread.
FinalizesWhole ==
    \A r \in finalizing :
        /\ Remaining(r) = {}
        /\ \A w \in Workers : worker[w].run = r => ~HasTask(w)

\* A chunk marked as downloading is being dealt with by some transfer that
\* will unmark it, as long as its run is not cancelled: otherwise the run
\* would never pick it again.
ChunkNotStranded ==
    \A r \in Runs, k \in Chunks :
        chunk[r][k].downloading /\ ~cancelled[r]
        => \E w \in Workers : /\ worker[w].run = r /\ worker[w].chunk = k
                              /\ worker[w].pc \in {"permit", "unmark", "transfer", "ended",
                                                   "counted", "result", "blame"}

\* The limit on consecutive failures is never passed unnoticed: whatever order
\* the failing transfers add and compare in, when none of them is about to
\* compare, the count is below the limit.
LimitNoticed ==
    \A r \in Runs :
        (/\ ~cancelled[r]
         /\ \A w \in Workers : worker[w].run = r => worker[w].pc \notin {"limit", "swap"})
        => failures[r] < FailureLimit

\* Several transfers that see the limit together send one request: each
\* request of the fast path stands for FailureLimit failures of its own.
OneRequestPerLimit == \A r \in Runs : fast[r] * FailureLimit <= failed[r]

\* No run stays in the scheduler for ever: it is finished, requeued, paused or
\* cancelled, however its transfers fail.
RunLeaves == \A r \in Runs : registered = r ~> registered # r

\* A download does not hang: it completes, fails, is paused or requeued.
DownloadEnds == status = "Downloading" ~> status # "Downloading"

\* A chunk has at most one transfer within a run: it is marked under the lock
\* it is picked under so that nobody dispatches it again.
OneTransferPerChunk ==
    \A v, w \in Workers :
        ( /\ v # w
          /\ worker[v].pc \in {"permit", "transfer"} /\ worker[w].pc \in {"permit", "transfer"}
          /\ worker[v].run = worker[w].run )
        => worker[v].chunk # worker[w].chunk

\* The slow path is for a task that is stuck: nothing runs, nothing cools
\* down, every retry is used up.  No transfer of the run is still about to
\* report its failure.
SlowOnlyWhenStuck ==
    [][RequeueSlow => \A w \in Workers : worker[w].run # loop.run]_vars

\* The fast and the slow path share a channel and the manager takes a request
\* once: one start of the task uses up at most one requeue.
OneRequeuePerStart == requeue_count <= started

\* A requeue finds the task active; only the user ends a pause.
PauseLasts == [][status = "Paused" /\ status' # "Paused" => Resume]_vars

\* A task that has used up its requeues fails for good.
ExhaustedFails == [][RequeueExhausted => status' = "Failed"]_vars
=============================================================================
