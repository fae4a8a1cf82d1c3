# BaiduPCS-Rust: a formal model

TLA+ modules, TLC instances and TLAPS proofs about the Rust backend of
BaiduPCS-Rust (`src/backend/src/`, about 150,000 lines).  All paths below are
relative to that directory.  `PROJECT.json` maps every definition to the lines
it stands for and lists the runs, the mutants, the hazards and the theorems.

To repeat the work, in this directory:

    tlc -workers 2 -config ChunksTransfer.cfg MCChunkScheduler
    tlapm PrioritySemaphoreProofs.tla
    tlapm BudgetSchedulerProofs.tla
    tlapm ShareSyncProofs.tla
    tlapm UploadTaskProofs.tla
    tlapm ChunkSchedulerProofs.tla
    tlapm TransferTaskProofs.tla
    tlapm BackupFolderProofs.tla
    tlapm PoolsProofs.tla

1. [The system](#1-the-system)
2. [Plan](#2-plan)
3. [The modules](#3-the-modules)
4. [What the runs show](#4-what-the-runs-show)
5. [What is proved](#5-what-is-proved)
6. [Known disagreements](#6-known-disagreements)
7. [What is not modelled](#7-what-is-not-modelled)

## 1. The system

The backend is one tokio process: an HTTP and WebSocket server over managers
that download, upload, back up and synchronise files of Baidu Netdisk for
several accounts.  Everything below runs as tasks of one multi-threaded
runtime; the components share state through atomics, mutexes, RwLocks and
channels, never through a transaction over several of them.  That, and a crash
of the process, is where the hard behaviour is.

| Component | State | Operations | Talks to | Hard behaviour | What makes it correct |
|---|---|---|---|---|---|
| Priority semaphore (`downloader/priority_semaphore.rs`) | free permits, shrink debt, two waiter queues | `acquire`, the drops of a permit or a wake token, `forget`, `add_permits`, `forget_permits` | used by the budget scheduler | futures cancelled at any await, a drop that finds the mutex taken, resizing under load | permits conserved, no lost wake-up, grants within capacity, strict order |
| Budget scheduler (`downloader/budget_scheduler.rs`) | per account: semaphore, `used`, `base`, `effective_cap`, `shrink_debt`; machine budget M | `acquire_chunk_permit`, `ChunkPermit::drop`, add and remove account, every budget, weight and VIP update | chunk schedulers, HTTP handlers, account manager | atomics read one by one while a recompute changes them | exact counts, M enforced, caps enforced, shares add up |
| Task slot pool (`task_slot_pool.rs`) | slot vector, limit, `borrowed_map` | allocate fixed, backup or borrowed, with eviction; release; touch; cleanup; resize | download, upload and folder managers | two locks and an atomic per operation, a cleanup racing with progress | one owner per slot, the limit, only backups evicted, the record of borrowed slots |
| Chunk scheduler (`downloader/scheduler.rs`, `downloader/chunk.rs`) | registered runs, chunk marks, retries, cooldowns, counters | the scheduling loop, one spawned task per chunk, retry, requeue, finalization hand-over | budget scheduler, engine, download manager | a transfer reports its result in many small steps; cancelled runs end late | no chunk lost or transferred twice, counters exact, finalize once and whole, no hang |
| Chunk slot ids (`ChunkSlotPool` in `downloader/scheduler.rs`) | a stack of ids, a limit | acquire, release, resize | transfers (progress bars, logs) | shrink, then grow while ids are out | ids unique, none lost |
| Download manager (`downloader/manager.rs`, `task.rs`) | tasks, tokens, waiting queue, slot of each task | start, pause, resume, delete, requeue, completion, failure, restore | slot pool, chunk scheduler, persistence, folder manager | late requests and stale-slot notices act on restarted tasks | a pause lasts, failures are final, no slot leaks |
| Folder manager (`downloader/folder_manager.rs`, `folder.rs`) | folders, pending files, fixed and borrowed slots | scan, feed subtasks, pause, resume, reclaim slots | slot pool, download manager | slots lent to subtasks and reclaimed | all files end, slots are given back |
| Engine (`downloader/engine.rs`, `progress.rs`) | link health, measured speeds | download a range, retry, race links | HTTP | timeouts, slow links | a range is written once and completely |
| Upload scheduler (`uploader/scheduler.rs`, `chunk.rs`) | chunks, counters, `is_merging` | the loop, transfers, one merge | budget scheduler, netdisk client | the last transfer and the loop both try to merge | merged once, only when complete |
| Upload manager (`uploader/manager.rs`, `folder.rs`, `scan_manager.rs`, ...) | tasks, upload ids, slots | create, start, pause, resume, cancel, restore | slot pool, upload scheduler, persistence | a pause that does not stop the last transfer | as the download manager |
| Persistence (`persistence/`) | batch cache, WAL files, metadata, history | record a chunk, flush, snapshot, recover, archive | every manager | a crash between any two writes | nothing completed is lost twice, nothing incomplete counts as done |
| Auto backup (`autobackup/`) | configurations, triggers, records, sync baseline | watch, poll, trigger, scan, plan, run | upload, download manager, encryption | triggers while a run executes | a trigger is never lost, never concurrent; the three-way plan loses no change |
| Transfer (`transfer/`) | tasks of saving a share | verify, save, download, clean up | netdisk client, managers | a remote step that half succeeded | every task ends, temporary files go |
| Share sync (`share_sync/`) | subscriptions, snapshots, executions | diff, execute, resume, schedule | transfer, download, persistence | a crash in an execution | a snapshot advances only over what was executed |
| Cloud sync (`cloud_sync/`) | records in SQL | store, list, delete | HTTP handlers | little | record and file agree |
| Proxy fallback (`common/proxy_fallback.rs`) | failure count, fallback flag, probe task | record a failure, fall back, probe, user change | HTTP clients | a probe that answers after the user changed the proxy | the user's setting wins |
| Link refresh, detectors (`common/`) | a flag and a time; windows of speeds | acquire a refresh, observe | engine | two transfers refresh at once | one refresh at a time |
| Netdisk client, offline monitor (`netdisk/`) | cookies, polled tasks | HTTP calls, polling | everything | remote failures | polling stops when all ends |
| Accounts (`auth/`) | sessions | log in, refresh, remove | budget scheduler, clients | HTTP flows | - |
| Web authentication (`web_auth/`) | tokens, failures per address | log in, verify, lock | HTTP server | expiry | a lock holds |
| Encryption (`encryption/`) | keys, snapshots | encrypt, decrypt streams | uploads, finalization | - | round trip |
| Server, events (`server/`) | subscriptions | handlers, broadcast | everything | back-pressure | - |
| File system, configuration, logging, signing | settings | read, check, write | everything | - | - |
| Frontend, `cli`, `decrypt-cli` | - | - | the HTTP API | - | - |

How one chunk travels: a manager gives its task a slot of the **slot pool** and
registers a run with the **chunk scheduler**; the scheduler's loop picks a
pending chunk, marks it and spawns a transfer; the transfer asks the **budget
scheduler** for its account's permit and then for the machine's permit of the
**priority semaphore**; the **engine** downloads; the transfer gives back what
it took and records success or failure; the loop finds the run complete and
hands it to finalization, or stuck and asks the **manager** to requeue it.

How a file travels: a configuration of **auto backup**, a run of **share sync**
or a **transfer** asks an upload or download manager for tasks, waits for their
notifications, and keeps a record of its own of what it asked for.  A download
of a folder is the same one level down: the **folder manager** lists the files
and makes a task for a few of them at a time.  Each of these pairs keeps two
records, on two disks files or in two tables, that are written at different
moments; what goes wrong is that one is ahead of the other when a user, a
restart or a second actor looks.

## 2. Plan

The order follows the path of a chunk from the bottom up, then the components
that order whole files: each module rests on what the one before it promises.

| | Module | Composes | State |
|---|---|---|---|
| 1 | `PrioritySemaphore` | - | done, safety proved |
| 2 | `BudgetShares` | - | done, safety proved |
| 3 | `BudgetScheduler` | `PrioritySemaphore` (INSTANCE, refinement) | done, refinement and four invariants proved |
| 4 | `TaskSlotPool` | `Vectors` | done, safety proved |
| 5 | `ChunkScheduler` | - | done for one task, safety proved |
| 6 | `ChunkSlotPool` | `Vectors` | done, safety proved |
| 7 | `UploadTask`: chunk loop, merge, preparation, slots, preemption, pause and resume | - | done for one upload, two invariants proved |
| 8 | `ShareSync`: runs, snapshots, crash and recovery | - | done for one subscription, safety proved |
| 9 | `TransferTask`: saving a share, splitting, downloads, watcher, cleanup | - | done for one transfer, safety proved |
| 10 | `BackupTask`: trigger control and the three drivers of a backup | - | done for uploads, safety proved |
| 11 | `FolderDownload`: scan, subtasks, reconciliation, restart | - | done for one folder, safety proved |
| 12 | the WAL and its flush; the waiting queue of several tasks; copying between accounts; the directions download and sync of auto backup | - | left |

Proofs, in order: `PrioritySemaphore`; `BudgetScheduler` (`BudgetIsCapacity`,
`ImplementsSemaphore`, `UsedIsExact`, `P0WithinBase`, `AccountNeverShort`);
`UploadTask` (`OneMergePerRun`, `NoChunkStranded`); `ShareSync` (all its
properties); `FolderDownload` (`CountsAgree`, `NothingDropped`,
`RestartFindsAll`); `ChunkScheduler` (its safety); `TransferTask`
(`NoSilentLoss`); `BackupTask` (`RecordsTrue`, `DoneIsBackedUp`); `TaskSlotPool` and
`ChunkSlotPool` (all their properties); `BudgetShares` (exact split, floor, bounds
and order): all done.  What no proof reaches is at the
end of section 5.  No module declares a RECURSIVE operator.  The runs keep two or three callers, transfers, files or
runs: the hazards listed in `PROJECT.json` need two actors and one more that
resizes, cancels, requeues or restarts.

## 3. The modules

A step is what happens between two points at which another tokio task can
interfere: a critical section, a single atomic, or a stretch of code that
touches nothing shared.  A critical section without an await inside is one
action.  Variables and actions keep the names of the code's fields and
functions.  The definitions that describe a bug (each with a comment saying so)
are the mutated forms that show that a property can fail.

### PrioritySemaphore

`available`, `forgotten`, `p0_waiters`, `p1_waiters` are the fields of `Inner`;
`state` says where each `acquire()` future and the permit it returns is;
`capacity` is a history variable of what `new`, `add_permits` and
`forget_permits` asked for.  `Acquire` takes a
permit or queues, the two branches of `acquire`; `Receive` polls a wake token;
`CancelWaiting` drops a queued future; `DropNow` and `DropLater` drop a permit,
or a future whose token was sent, when `try_lock` succeeds and when it fails
and a task is spawned; `SpawnedRelease` is that task.  A
cancelled waiter stays in its queue until a wake-up pops it, as in the code.

### BudgetShares

Steps 1 to 7 of `recompute_locked_inner` as operators on functions from
accounts to numbers: the VIP cap, the request, the minimum of one each, the
proportional passes and what is left over.  `MCBudgetShares` states what a fair
split promises and evaluates it on every input.  Weights may be zero: the web
handler refuses that (`server/handlers/budget.rs:135`), but
`build_budget_scheduler` (`server/state.rs:3252`) takes what the configuration file
says.  With zeros only there is no proportion, and `ProportionalFloor` says nothing.
Numbers are natural numbers; the code saturates products beyond 2^64
(`remainder.saturating_mul(w)`), which a budget times a weight does not reach.  Not
promised, and not true: that at most a rounding is left while somebody wants more.
The rounds stop after four, and with 40 accounts of equal weight, M = 1320 and
requests of 1 (20 times), 34 (10), 66 (5), 97 (2), 127 and 200 (2) they leave 19
threads that the last two accounts still ask for.

### BudgetScheduler

One track (download and upload are the same type twice).  The semaphore's six
variables are held by an instance `GlobalSem` of `PrioritySemaphore` whose
actions appear inside this module's actions.  A request walks through the
states listed in the module; `used.fetch_add`, the read of `base`, the wait on
each semaphore, the cancellation guard and the four parts of
`ChunkPermit::drop` are separate steps.  The holder of `recompute_lock` is
`job`: resize the global semaphore, then for each account cancel debt, add
permits, or read, forget and owe.  The bases it stores are any value in
`1..cap`, which covers what BudgetShares computes.  `Parallel = FALSE` is a
runtime with one thread, on which code without an await is not interleaved.

### TaskSlotPool

`slots` is the vector itself, because a wrong resize shows as a second entry
with one id.  `job` holds what a caller has read before it takes the next lock:
the limit before the slots, the released ids before `borrowed_map`.  `Tick`
ages the slots, `Touch` is `touch_slot`; `silent` is a history variable of how
long a task really made no progress.

### ChunkScheduler

One task.  A run is one `TaskScheduleInfo`: a start registers a fresh token,
chunk manager and counters, while transfers of an older run may still be
ending.  The loop (`Loop`) goes round by round: fetch, cancellation check and
eviction, pick and dispatch, or "nothing to pick" with its finish, wait and
stuck branches.  A transfer (`Transfer`) walks through permit, download, the
two counter releases, the result, `fail_chunk`, `mark_deferred`, the
consecutive-failure counter and its compare-exchange.  The manager part is
`StartRun`, `Pause`, `Resume`, the requeue consumer and `Finalize`.

Abstractions: the round robin over several tasks is left out (tasks meet only
in the global count); `pause_task`, the body of `auto_requeue_task` and a start
are each one action; `downloaded_size >= total_size` is "every chunk of the
last run is complete and no requeue reset it"; a cooldown (100 ms at least)
does not run out before the transfer that began it reaches `mark_deferred`; a
chunk is persisted at the moment it completes; finalization succeeds or fails.

### ChunkSlotPool

The stack of free ids, the limit and the id each transfer carries; one mutex,
so one action per operation.

### Vectors

`Retain` is `Vec::retain`, which both pools use to shrink.  It picks the n-th of
the kept positions by counting (`Nth`), where `SelectSeq` of the library is
recursive; the sort of `TaskSlotPool` (`ById`) puts a slot where counting the
slots before it says (`Place`), ties in their old order.

### UploadTask

One upload, from `create_task` to its end.  The manager's part: `Start*` (the
slot, or the waiting queue), `Pump*` (the monitor of the waiting queue, which
reads, pops and allocates in three steps), `Prep*` (encryption, rapid upload,
precreate, registration), `Pause*`, `Resume`, `Delete`, `Preempt*` (the slot of
a backup is taken for a normal task, then the victim is marked and queued) and
`StaleNotice`.  `PauseRefused` is a pause in any other status: it is an error, but
the flag `is_paused` is up by then and stays up.  The scheduler's part: `Loop*`, one worker per chunk
(`Permit*`, `Send*`, `CountsDown`, `Failure*`, `Success*`) and the merge, which
both the loop and the last worker may start (`StartsMerge`).  A chunk that has used
up its own attempts (`Exhausts`) has its retries counted twice, in the transfer and
in the record of the failure, and takes two of the bounded faults.  A registration is
a run with its own chunk table and `is_merging`; the counter, the pause flag,
the token and the slot belong to the task and are shared by its runs.

### ShareSync

One subscription.  `Trigger*`, `Enter` and `Leaves` are the run of
`execute_one_with_run_id` with its two guards; `Resolve`, `Sweep`, `Scan`,
`Submit`, `Wait`, `Finish` and `Promote` its stages; `Crash`, `Restart`,
`Recover` and `TakeOver` with the resumed run what a restart does; a take-over
gives up when the flag is up or the account has no transfer manager.  Rows, snapshots, run items
and downloads survive a crash, guards and actors do not.  A snapshot is the
version of each file; `landed` is what the target directory holds.

### TransferTask

One transfer.  `Execute` and its successors are `execute_task`: check, list, make
the temporary directory, save the selection in batches, halve what is too large
and descend into directories (`MaxDepth`), merge the results, start the downloads;
`Watch*`, `Judge` and `Conclude` are `start_download_status_watcher`.  `Cancel*`,
`Remove` and `Purge` (the second half of `discard_task`) are calls of the user,
which return before the execution notices; `Restart` restores what the metadata
file says.  A listing may be short: items that are given by their ids alone
(`kind.ids`) are looked for in the first page of the share, and a directory is read
for 500 pages of 100 entries.  What it leaves out is picked by the model at will and
kept in `cut`, a history variable.  `Files` are the leaves under a set of nodes, as
the leaves that every closed set of nodes around it has.  `Kinds` are the sorts of
task: saving with automatic download, direct download through a temporary
directory, share sync, each with or without ids.  Conflicts of names and limits on
the number and size of requests are not judged; a batch is taken, refused or found
too large at will.

### BackupTask

One configuration with upload direction.  `ctl` is `TaskController` (two
atomics and a notification, read and written one by one); three drivers make
tasks: its loop, the consumer of watch events and a manual trigger.  A driver
scans, adopts a running task or makes one, creates an upload per file (create,
start and register are three steps), and the consumer of notifications counts
what ended.  `row` is the SQL row of the task, `cache` the scan cache,
`recorded` the upload records: three stores, written at different moments.

The code sets a status under one lock, saves it under another and removes the task
under a third.  Each lock scope is a step: `Receives`, `RecordsUpload`, `FilesRow`,
`ConsumerSaves` (twice) and `ConsumerRemoves` are `handle_transfer_completed`;
`Finishes`, `Settles`, `DriverSaves` and `DriverRemoves` the end of a driver;
`CallEnds`, `CancelSaves` and `CancelRemoves` that of a cancel.  Between two of them
the task may be removed or its status overwritten, by a pause, a resume or a driver.

A restart takes the unfinished tasks up from their rows first
(`autobackup/manager.rs:271`) and brings the rows, not these tasks, up to the history
of the uploads after that (`:274`); an upload that was completed is `archived` from then on,
in the history but unknown to the upload manager.  Row and task may therefore disagree.

In the code every scan gives its files fresh ids, by which an upload finds its file
again; here the driver that scanned and the version it saw stand for the id
(`Same`).  Two scans of one driver that saw the same version are therefore not
told apart; what is written for one of them holds for the other as well.  Left out
are `transfer_task_map` (it has the keys of `pend`, and an upload knows its file),
filters, encryption, `delete_task`, `delete_config` and the limit on backups at
work; `retry_failed_file_tasks` (`:3740`) has no caller.

### FolderDownload

One folder.  Five kinds of actors: scans, the listener of ended subtasks, the
loop that refills every three seconds, the user (whose resume also refills, and
who stands for the restore after a restart), and the tasks.  The first four
create tasks by the same steps, `Cover`, `Reconcile`, `Look`, `Pick`,
`CheckRunning`, `Skip` or `Make`, `Tally`, because the code repeats them in
four functions with small differences (`mode`).  How many are picked depends on the
tasks there are, ten at most, so `Pick` takes any number of the first ones and
`Enough` none.  `CannotMake` is a directory that cannot be made or a task that is refused,
`NotKept` a task whose registration fails and which runs all the same, `Progress` the
save that a progress notification may cause at any moment.  `folder` is the
`FolderDownload` in memory, `saved` its file, `task[t].kept` says that a task is
in the WAL, `archived` is the history of completed tasks.  `pending` is a set of
entries numbered in the order in which they were found, so that an action takes
the first ones and a removal leaves the order alone.  Two variables are history.
`bare` has the files that a reconciliation took from the queue while their task
was in memory only, which is how a file can get lost (section 6), and, where existing
files are skipped, those whose task completed without ever having been registered:
such a file is on the disk but not in the history, and leaves the disk again
when a second task for it prepares its output.  `cancelled` says that the user
cancelled the folder, which owes no file then.

### MC modules

An `MC` module adds model values, symmetry sets, and trees, files or weights as
definitions.  `MCPools` is the disjoint sum of `TaskSlotPool`, `ChunkSlotPool`
and `BudgetShares` (with what `MCBudgetShares` states of a fair split), and
`MCBackupFolder` that of `BackupTask` and `FolderDownload`: a behaviour belongs
to one of the parts, chosen by `part`, and the others stand still in an initial
state.  They share a
run only because they are small; nothing is composed.  Symmetry is used only in
runs without liveness properties, over identities the specification treats
alike (calls, transfers).

## 4. What the runs show

| Run | Instance | Shows |
|---|---|---|
| `MCPrioritySemaphore` | 4 calls, capacity 1..3 | type, conservation, no idle permit beside a waiter; grants within capacity, no overtaking; a queued P0 call leaves the queue, a shrink's debt is collected |
| `BudgetParallel` | 1 account, 3 cancellable requests, several threads, cap and M up to 2 | `used` exact, budget equals capacity, P0 within base, no account permit lost, the global semaphore is only driven by its protocol (`ImplementsSemaphore`) |
| `Pools` | task slots: two callers or one alone, a subtask, a backup, a folder, 2 slots, up to 3; chunk ids: 3 transfers, limit 1..4; budgets: 3 accounts, 3 levels, 3 kinds of request, 3 weight tables, one with a zero, M = 1..45 | ids ordered and unique, a resize interrupts nobody, a file that made progress keeps its slot; alone: every id below the limit exists, no ghost in `borrowed_map`; the stack of ids is clean and complete; bases and remainder add up to M, nobody gets less than its proportional floor |
| `ChunksTransfer` | 2 chunks, 2 transfers, 3 failures, 1 run | counters, whole finalization, no stranded chunk, the failure limit noticed; a registered run always leaves the scheduler |
| `ChunksRestart` | 1 chunk, 2 transfers, 2 runs, a pause, a requeue, 2 failures | counters with transfers of an old run still ending |
| `Upload` | 1 chunk, 2 workers, 2 runs, an encrypted backup, 2 faults, 1 command | no chunk is left marked with nobody at it, one merge per run, a registered run always leaves |
| `ShareSync` | 2 files of 2 versions, 2 runs, a tick, a trigger, the start-up, 2 mishaps | one driver at a time, no two live downloads of a file, the baseline advances only over files that are in the target directory, no interrupted run is left when all is quiet |
| `ShareSyncResume` | the same, 1 mishap | *violation*, see section 6 |
| `Transfer` | a directory with files beside single files, all kinds of task, 2 mishaps, 1 whim of the user | a transfer that ends as done lost nothing of what was listed silently; its watcher concludes |
| `TransferPaused` | the same, 1 mishap | *violation*, see section 6 |
| `BackupFolder` | backups: 2 files, 2 tasks, 5 events, of which a start takes two; a folder: 2 files, 2 scans, 2 tasks, 1 retry of each kind, 2 events (see below) | a record names a version that reached the netdisk, and so does a file that a task or its row calls done; no file is dropped between two hands; whenever the program stops each file is found again; counts keep up with files |
| `FolderCrash` | the same folder | *violation*, see section 6 |

The bounds and why they are enough.  Capacities and limits pass through grow,
shrink, shrink below what is in use, and grow again.  Two transfers are what it
takes for one to be between its counter release and its report while the other
is dispatched, fails or completes; the third failure is what it takes to pass
the limit of 2 while a transfer stands at its compare-exchange.  `MaxRuns = 2`
lets the transfers, merges or downloads of an interrupted run meet the next.
Two callers of the slot pool are enough for every pair of critical sections.
Two files are what it takes for one to end while the other is created, listed or
lost.  Faults, commands, crashes and edits share one budget per module
(`MaxMishaps`, `MaxFaults`, `MaxEvents`): two of them are enough for a crash
during the recovery of a crash, a restart after a failure, a resume after a
pause.  A start of a backup takes two of its five events, and a file that exists at
the beginning one, as an edit does: a file is backed up while two more things
happen to it, or by two drivers at once with nothing else.  The bound of
three tasks is not met: five events make two.  In
`FolderDownload` a second file and the strategy "skip" are paid from the same
budget, so that one file meets two events with "overwrite" and one with "skip",
and two files meet none: this is what keeps the run within minutes.  Bounds
stand in the guards of the action that would exceed them and are named where
they are declared.

Deadlock is checked in `MCPrioritySemaphore` and `BudgetParallel`; elsewhere the
task ends and its bounds run out.

Fairness.  A woken future is polled and a spawned task runs (the runtime);
a transfer ends (each wait of the engine has a timeout); the scheduling loops
never stop; a cooldown runs out; the consumers of requests and notifications and
the finalization tasks run; a started program finishes its start-up.  In
`BudgetScheduler` the progress of a request is strongly fair: tokio's run queue
is first in, first out, so on one thread a stream of other work does not keep a
ready task out.  In `ChunkScheduler` and `UploadTask` a transfer that waits for
its budget permit is assumed to get it or be refused, which is `P0Served` for P0
and, for P1, an assumption: the code gives P1 no guarantee.  Downloads of a
transfer end or stand still; no fairness is given to the user.  Nothing ever has
to be requested, cancelled, resized, paused, resumed, edited or crashed.

Three limits of the liveness properties.  A refused permit takes one of the bounded
failures, so an account that is never registered, whose chunks are dispatched and
refused for ever (`downloader/scheduler.rs:1183`), is outside the two `RunLeaves`.
That of `UploadTask` is excused while `is_paused` is up, also when a refused pause left
it so.  And `WatcherConcludes` takes it that each download that runs ends, which
`DownloadEnds` of section 6 denies for one path: there the watcher waits as long as the
download does.

## 5. What is proved

`PrioritySemaphoreProofs`, for every set of calls, every initial number of
permits and every bound on the capacity (`CapacityAssumption`: numbers;
`CallsAssumption`: the set of calls in flight is finite):

| Theorem | States |
|---|---|
| `TypeCorrect` | `Spec => []TypeOK`; the counters never go below zero |
| `Conservation` | `Spec => []PermitsConserved` |
| `NoLostWakeup` | `Spec => []NoIdlePermitWhileQueued` |
| `GrantsBounded` | `Spec => GrantWithinCapacity` |
| `StrictOrder` | `Spec => NoOvertaking` |

The argument.  None of these is inductive alone: that a returned permit goes to
the right waiter depends on the queue holding each waiting call once, that a
free permit may be taken at once depends on the queue being empty, and that a
shrink does not overrun depends on debt and free permits excluding each other.
The inductive invariant `Inv` is the conjunction of `TypeOK`,
`PermitsConserved`, `NoIdlePermitWhileQueued`, `DebtOnlyWhenExhausted` and
`QueueWellFormed`.  `InitEstablishesInv` and `StepSafe` show it inductive,
`InvHolds` concludes.  The step is split along what the code shares: `PopBoth`
says what popping both queues to the first live waiter leaves,
`MoveKeepsQueue` and `MoveOwners` what one call's change of state does to the
queue and to the number of owners, and `GiveBackSafe` that giving one permit
back, the body of four different actions, is safe.  `AcquireSafe`, `MoveSafe`,
`ReleaseSafe`, `AddPermitsSafe` and `ForgetSafe` cover the actions.  The two
action properties follow from `Inv`: a call is granted a permit only by
the fast path of `Acquire`, by `GiveBack` or by `AddPermits`, and `NoGrantIsSafe` disposes of all
other steps.

`BudgetSchedulerProofs`, for every set of accounts,
slots and requests, every bound on M and on the caps, one thread or several
(`SchedulerAssumption`: numbers, and `NoSlot` is no slot; `RequestsAssumption`:
the set of requests is finite):

| Theorem | States |
|---|---|
| `BudgetEnforced` | `Spec => []BudgetIsCapacity` |
| `SemaphoreImplemented` | `Spec => ImplementsSemaphore`, that is `Spec => GlobalSem!Spec` |
| `UsedExact` | `Spec => []UsedIsExact` |
| `P0Bounded` | `Spec => []P0WithinBase` |
| `NoAccountPermitLost` | `Spec => []AccountNeverShort` |

The arguments.  `BudgetInv`: the budget and the semaphore's capacity are equal
except between the swap of the budget and the resize, where they differ by the
figure the lock holder carries.  That figure therefore lies within the range of
resizes the semaphore allows, and with `CallStepUsesSemaphore` (a request makes
one step of the semaphore or none) every step of the scheduler is a step of
`GlobalSem!Next` or a stutter.  So what `PrioritySemaphoreProofs` shows of the
semaphore holds of the machine-wide limit.

`UsedInv` adds to `UsedIsExact` that a request under way still has the slot it
was counted in, which is the slot `fetch_sub` goes to: the account may have been
removed, or have a new slot, by then.

`P0WithinBase` bounds a number of requests by a number that changes while they
are counted, so it is not inductive.  `SeatInv` gives each counted request a seat:
before it has read `base`, the value `fetch_add` returned to it; when it goes P0,
a seat below the largest base.  For every k no more requests sit in the seats
0..k than there are such seats.  A newcomer takes the seat that is the number of
those before it, which is exact by `UsedInv`; one that reads `base` goes P0 only
if its seat is below it; one that leaves makes room.

`AccountInv` is about the account semaphores.  A shrink reads
`available_permits`, forgets permits and enters the rest as debt in three steps
between which requests take and return permits, so `AccountNeverShort` is false
of the slot in work and not inductive for the others.  `Owed` says what the
permits of a slot have to cover at each phase of the lock holder, in terms of the
figure it carries (`Figure`), and `Covered` that they do.  A request moves a
permit or pays a unit of debt with one, and leaves capacity minus debt as it was
(`Balanced`, from `HoldersKept`, `EnterBalanced`, `PayDebtBalanced` and
`ReturnBalanced`); each step of the lock holder changes both sides by the same
amount, except that `ShrinkForget` may find fewer permits than were read, which
only leaves more (`VisitSafe` to `ShrinkOweSafe`).

`ShareSyncProofs`, for any set of files and triggers and any bounds
(`ShareSyncAssumption`):

| Theorem | States |
|---|---|
| `SyncTypes` | `Spec => []TypeOK` |
| `FlagExact` | `Spec => []OneDriver` |
| `TwinsNever` | `Spec => []NoTwins` |
| `PromotesLanded` | `Spec => PromotesWhatLanded` |
| `NoneBehind` | `Spec => NoneLeftBehind` |

The arguments.  `OneDriver` counts the actors that are inside a run; `FlagInv`
says the same without counting: while the flag is down nobody is inside, while it
is up somebody is and nobody else.  An actor enters by taking the flag down
itself (`TakesKeeps`), moves within a run or outside of one (`MovedKeeps`), and
every way out gives the flag back (`LeavesKeeps`); a restart puts everybody
outside.

The other theorems rest on `SyncInv`, which adds to `FlagInv` and the types:
`RunInv` (run ids are handed out in order, no two actors drive one run, a run is
marked interrupted only while nobody drives it, and the start-up remembers each
of these); `TwinInv` (all unfinished downloads are of one run, there are none
when a run looks at the share, and while it applies what it saw they are its
own); `CandidateInv` (what an actor promotes is what its run captured); and
`LandInv`, the heart of `PromotesLanded`: while a run applies its difference,
each file of its snapshot that is not in the directory has a leaf of the run
that is still to be concluded or was given up, and when the run promotes, no leaf
is left open and, if it completed, none has failed.  `PromotesWhatLanded` speaks of presence, not
of versions: a download that finds its file there is skipped, whatever its
version, so a stronger statement does not hold of the code.

`UploadTaskProofs`, for any set of chunks and workers and any number of runs,
with and without encryption and preemption (`UploadAssumption`):

| Theorem | States |
|---|---|
| `MergedOnce` | `Spec => []OneMergePerRun` |
| `MarksOwed` | `Spec => []NoChunkStranded` |

The argument.  `UploadInv` has three parts.  `Shapes` is what of the types is
needed.  `MergeInv`: whoever calls `create_file` for a run, a transfer or the
loop, has raised `is_merging` of that run, so that nobody else passes the
compare-exchange.  `MarkInv`: marks and the transfers that owe the end of a mark
belong together one to one, in every run that is not yet forgotten, also an
older one; only a cancelled task may leave marks behind.  Actions that touch
neither transfer, mark nor flag fall under `QuietKeeps`, those that move one
transfer under `GoesOn`, `ClearsMark` and their like.

`BackupFolderProofs` holds the proofs about both parts of `MCBackupFolder`.  About
`FolderDownload`, for any number of files, scans, tasks, retries and events
(`FolderAssumption`: the numbers are numbers, and a scan has the name of no other
actor):

| Theorem | States |
|---|---|
| `CountNeverBehind` | `Spec => []CountsAgree` |
| `FolderTypeOK` | `Spec => []TypeOK` |
| `NoFileDropped` | `Spec => []NothingDropped` |
| `RestartLosesNone` | `Spec => []RestartFindsAll` |

The arguments.  `CountInv` asks the count of what is in memory and of what is
saved, since a restart copies the second into the first, and of every actor
between the two halves of a reconciliation that it remembers a number.

`NoFileDropped` and `RestartLosesNone` follow from one invariant, `FindInv`.  Its core, `Found`,
says of the folder in memory and of the saved one that each listed file is in
its queue, is counted, is `Secured` (in the history, with a task on disk, or,
when existing files are skipped, on the disk), or is in `bare`.  It is stronger
than `NothingDropped`, which accepts a task in memory: a save and a crash may
come at any moment, so a file may leave the queue only for what survives them.
That this is so needs the other three parts.  `TasksOK`: a task that has come
past `register_download_task` is on disk, which is when `DropPending` takes its
file from the queue, and where files that exist are skipped, a file that is there and has a
task is in the history or in `bare` (`Known`), since that task will move it away;
`WorkersOK`: tasks are deleted only after a cancel, and only the user's part
restores; `RestoreOK`: `prefill_paused_tasks` drops from the queue what has a
task in its picture, which is safe because while it runs nothing else does and
every task is on disk.  `ScanFinds`, `CreatesFinds`, `ListenFinds`, `TaskFinds`,
`UserFinds` and `CrashFinds` cover the actions.  The statements exempt `bare`:
without it they are `NoFileLost`, which the code does not have.  `FolderCrash` exhibits
one of its two causes, a reconciliation with a task in memory; the other, a file
that is skipped because an unregistered task brought it, takes a failed
registration besides.

`ChunkSchedulerProofs`, for any number of chunks, transfers and runs, all limits
and budgets (`SchedulerAssumption`: the limits are positive numbers, the bounds
numbers, and the transfers finitely many):

| Theorem | States |
|---|---|
| `CountersExactOK` | `Spec => []CountersExact` |
| `ChunkNotStrandedOK` | `Spec => []ChunkNotStranded` |
| `LimitNoticedOK` | `Spec => []LimitNoticed` |
| `FinalizesWholeOK` | `Spec => []FinalizesWhole` |
| `OneRequestPerLimitOK` | `Spec => []OneRequestPerLimit` |

The arguments.  All five rest on `Known`, the types and that nobody works on a
run that was not started yet.  `CountersExact` is then inductive: a dispatch adds
one idle transfer to the sets that are counted, `GiveGlobal` and `GiveTask` take
one out of one set each, every other step leaves counters and sets alone
(`CountsSame`).  `MarkInv` sharpens `ChunkNotStranded`: the transfer that is found
for a mark must be one that will clear it (`Owes`), which a refused one past its
rollback or a successful one is not.  `LimitInv`: while the failures are at the
limit, the transfer that brought them there has not compared yet and still holds
exactly this number, so that its compare-exchange succeeds unless somebody added
since, who is then that transfer.  `WholeInv` carries what the loop has seen from
one lock to the next: the chunks stay complete, and since a dispatch needs one
that is not, the count read afterwards, exact by the first theorem, stays zero.
`RequestInv` adds the failures still in the count to those already paid with a
request.

`TransferTaskProofs`, for any share, batches, depth of a split, kinds of task,
faults and calls of the user (`TransferAssumption`):

| Theorem | States |
|---|---|
| `TransferTypes` | `Spec => []TypeOK` |
| `LossIsTold` | `Spec => []NoSilentLoss` |

The property is about what was listed: it exempts the files under what a listing left
out (`cut`), which the code loses without a word (`SelectionWhole`, section 6).

The argument.  The property speaks of the end of an execution that halves and
descends, on a stack, into batches the netdisk refuses.  `BatchInv` is its
balance at every point: the files of the batches so far are saved or a loss is
noted, and those of the current batch are saved, under a piece of the stack, or
given up with a note.  That halving and descending lose nothing is said of
`Files`, whose closure makes it a fact about sets (`FilesGrow` and the lemmas
after it).  From the merge on, everything that may be read as a success (`Claims`:
the execution, the watcher, the status in memory and the one on disk, which a
restart puts back) comes with all files or with the warning (`Told`).

`BackupFolderProofs` again, about `BackupTask`, for any files and bounds: the
behaviours of `MCBackupFolder` whose part is the backup, since the run
states its properties of that sum (`BackupAssumption`: finitely many files, numbers):

| Theorem | States |
|---|---|
| `BackupsTyped` | `PartSpec => [](part = "backup" => BackupTypes)` |
| `RecordsHold` | `PartSpec => []RecordsTrue` |
| `DoneHolds` | `PartSpec => []DoneHere` |

The arguments.  `BackupInv` is the conjunction of `BackupTypes`, `Registered`,
`NotesTrue`, `NoticeTrue` and `RecordsTrue`.  `BackupTypes` is the type invariant made
inductive: what is kept of a file, by a task, its row, a driver, the disk or a call,
names an upload that exists and a version the disk has had, which stays so because
versions only grow; and (`Fits`) what is called done, or names an upload that was
completed, is on the netdisk.  The second half is `DoneHere`, and it is asked of the
copies that the drivers carry as well, since a driver puts its copy of the
files back over those of the task; of the uploads because a restart and a retry
take over what these say.  A record is written from a notification, long after the
upload ended: `NotesTrue` says that a notification of success still tells the truth,
that is, the netdisk has the version scanned for that upload or a later one,
`NoticeTrue` the same of the one the consumer has at hand between two of its locks, and `Same` carries
this to the file that is marked.  For this an upload must be found by the scan it came from: with
the driver alone as the identity of a scan the invariant fails, since a manual
backup may meet the upload of an earlier one.  `Registered`: a driver that is about to
register an upload has made one, and this or a later one for the same file brings what
the driver saw.

`PoolsProofs`, about the behaviours of `MCPools`, for any files, folders, callers,
transfers and limits (`PoolAssumption`: numbers, no task is file and folder at once,
a folder asks as Normal or as Backup; `InstanceAssumption`: finitely many callers and
accounts, a chunk limit of one at least, numbers in the tables of weights and threads
and as requests):

| Theorem | States |
|---|---|
| `SlotsInOrder` | `PoolsSpec => []SlotsOrdered` |
| `ResizeSpares` | `PoolsSpec => ResizeKeepsWork` |
| `ActiveFilesKeep` | `PoolsSpec => ActiveFileKept` |
| `CapacityThere` | `PoolsSpec => []LimitCoveredAlone` |
| `RecordsNoGhost` | `PoolsSpec => []NoGhostBorrowAlone` |
| `StackSound` | `PoolsSpec => []ChunkIdsSound` |
| `SplitAddsUp` | `PoolsSpec => []SplitsExactly` |
| `FloorHolds` | `PoolsSpec => []ProportionalFloor` |
| `BaseBounded` | `PoolsSpec => []Shares!BaseWithinRequest` |
| `WeightsRespected` | `PoolsSpec => []Shares!WeightMonotone` |

The arguments.  First what the code takes from the standard library: `NthOf` (the
positions that are kept are counted off in their order, each once) and `SortedById`
(a stable sort by distinct ids loses nothing and ascends), both from the fact that
a numbering without repetition uses every number (`NumbersAll`).  From them
`GrownSlots` and `ShrunkSlots` say what a resize leaves: ids in order, every taken
slot as it was, and after a growth every id from the old limit on.  `SlotsInv` is
inductive for callers that interleave at will: order, types, and `Holding`, that a
file has one slot, of type Fixed and no older than the file's last progress, and
that what is borrowed is a folder's and cannot be evicted.  `ActiveFilesKeep` needs
the age, and that the slot `touch_slot` refreshes, the first of the task, is its only
one; for a folder it is not, see `CleanupSparesActive` in section 6.  `AloneInv` is for
one caller at a time: the limit it has loaded is still the limit (else a growth
would start too high), every id below it is there, and `Recorded`, that each id in
`borrowed_map` is borrowed or about to be struck by that caller; a record not yet
written names what the folder has by then.  `StackInv` is about the ids of chunks.

The split of the budget is arithmetic over sums of any number of accounts, and the
sum is a fold of the library, a function that chooses one account after the other.
`TotalIs` replaces it by something without an order: the number of `Tokens`, pairs of
an account and a number up to its figure.  That the fold has a value at all is shown
with the function that counts them; that it has no other by a smallest set of
accounts on which they differ (`SetsGrow`, from the well-foundedness of strict
inclusion).  The facts on sums follow the same way: one more account adds its figure
(`TotalTakes`), sums add (`TotalAdds`), ones count (`TotalOnes`), and shares that are
each within the proportion of the weights are within it together (`TotalWithin`).  With
it `PassGives` shows that a pass never hands out more than the pot, so that the
saturating subtraction of the code loses nothing.  `RoundKeeps` carries from one round
to the next what is called `Split`: the total, no base beyond its request, and the
order of the accounts (`GainsOrdered`: a larger weight has the larger share of each
pot).  The loop is at most four rounds, so `RoundsFollow` needs no induction.
`SharesInv` says that a result is that of its inputs.  `BaseWithinRequest` and
`WeightMonotone` are proved only; no run states them.

Only model-checked.  Liveness (`P0Served`, `DebtCollected`, the two `RunLeaves`,
`WatcherConcludes`), which needs ENABLED.  Every safety property that a passing run checks is stated by
a theorem.

## 6. Known disagreements

Three runs show the program doing what a line of its own documentation
excludes:

- `ShareSyncResume` (`BaselineLanded`, `share_sync/manager.rs:610`): a run that
  is resumed after a crash is finished from the run items that exist.  Files
  that were never submitted, were skipped or are still to be removed have no item
  and count as landed, so the snapshot becomes the baseline, and the next
  difference does not name them.  `share_sync/persistence.rs:549` warns of just
  that.
- `TransferPaused` (`PausedKeepsDir`, `transfer/manager.rs:3925`): the watcher
  judges a mix of completed and paused downloads as Completed and deletes the
  temporary directory the paused ones still have to read.  The comment at `:3920`
  speaks of completed and cancelled ones.
- `FolderCrash` (`NoFileLost`, `downloader/folder_manager.rs:4033`): a
  reconciliation takes a file from the queue because it has a task, the task
  being in memory only, and saves the folder; when the program stops before
  that task is registered, nothing on disk knows the file.  The documentation of
  `drop_pending_file_after_persist` (`:4822`) exists to exclude this.

The modules define more properties that a line of the code or of its
documentation suggests and that the code does not have; no standing run checks
them.  TLC refutes each one under the instance given: the constants of a run,
changed as listed.  Where no run is named, the module itself is the root.

| Module | Property | Instance | What happens |
|---|---|---|---|
| `BudgetScheduler` | `EffectiveCapIsCapacity` | `BudgetParallel` | `available_permits()` is read before `forget_permits`; a permit returned in between leaves `effective_cap` and the capacity apart (`budget_scheduler.rs:960`, against `:157`).  On one runtime thread it holds |
| | `EntersWithinCap` | `BudgetParallel` | a request dropped just after the account semaphore let it in gives its permit to the next one, although a shrink owes it; on one thread there is no such moment and it holds |
| | `SumUsedWithinBudget` | `BudgetParallel`, `InitBudget = 1`, `MaxBudget = 1` | `used` counts requests that queue for the machine's permit, so the sum exceeds M (`:497`, against `:21`) |
| `TaskSlotPool` | `BorrowedMapExact` | one caller, `Files = {sub}`, `Folders = {folder}` | the cleanup erases the record of borrowed slots that stay taken (`task_slot_pool.rs:791`, against `:787`) |
| | `CleanupSparesActive` | the same | `touch_slot` refreshes the first slot of the owner only, so the cleanup takes the others of an active folder (`:717`, against `:707`) |
| | `AllocatesBelowLimit` | three callers, `Files = {user, backup}`, no folder | the limit is loaded before the lock and lowered before it is used (`:305`, against `:201`) |
| | `LimitCovered` | two callers, `Files = {user}` | of two concurrent resizes one starts from a stale limit and leaves ids without a slot (`:204`, against `:192`).  With one caller it holds (`LimitCoveredAlone`) |
| | `NoGhostBorrow` | two callers, `Files = {sub}`, `Folders = {folder}` | the folder's slots are released between the two writes of a borrowing, which then records what is gone.  With one caller it holds (`NoGhostBorrowAlone`) |
| | `BackgroundYields` | one caller, `Files = {backup}`, `Folders = {sync}` | slots borrowed without preemption for a background folder carry priority Normal (`:524`, against `:10` and `folder_manager.rs:30`) |
| `ChunkSlotPool` | `FreeIdsAreFree` | 3 transfers, `InitMax = 2`, `MaxMax = 2` | a growth pushes an id that a transfer kept through an earlier shrink (`scheduler.rs:155`, against `:90`) |
| `ChunkScheduler` | `DownloadEnds` | `ChunksTransfer`, one chunk, one worker, `MaxFailures = 1` | the last transfer completes between the loop's two checks; the loop takes the slow path, removes the run and asks for a requeue, which is dropped because the download is complete: the task stays Downloading (`scheduler.rs:936`, against `:920`) |
| | `PauseLasts` | `ChunksRestart` | a requeue sent before a pause is consumed after it and restarts the task (`manager.rs:1408`, against `:1321`) |
| | `SlowOnlyWhenStuck` | `ChunksRestart`, `FailureLimit = 6`, `MaxPauses = 0` | the active count is zero before the failure is recorded, and a task with retries left is requeued (`scheduler.rs:936`, against `:949`) |
| | `OneTransferPerChunk` | `ChunksTransfer`, three workers, `FailureLimit = 4`, `MaxFailures = 4`, `Spec` | `fail_chunk` and `mark_deferred` are two locks; a chunk dispatched again in between loses its mark and is dispatched once more (`:1410`, against `:867`) |
| | `OneRequeuePerStart` | `ChunksRestart`, `MaxRequeue = 3`, `MaxRuns = 3`, `MaxStartRetries = 2`, `MaxPauses = 0` | both paths send a request for one start and both are honoured (`manager.rs:1344`, against `scheduler.rs:951`) |
| | `ExhaustedFails` | `ChunksRestart`, `MaxStartRetries = 3`, `MaxPauses = 0` | the exhausted subtask of a folder goes back to Pending (`manager.rs:1115`, against `:45`) |
| `UploadTask` | `NeverAbandoned`, `SlotReturned`, `RegistersWithSlot`, `MergesWhole`, `CompletedStays`, `PauseLasts` | `Upload`, `Spec` | a start, a preemption or a delete acts on a task that another of them has changed since it looked: an upload shown as running has nobody, a slot stays with a task that was deleted, a run is registered without a slot, a completed upload is set back to waiting, a paused one to failed; and the loop finds no pending chunk, then no active one, while a refused permit has given a chunk back in between, and merges (`uploader/manager.rs:1985`, `:3996`, `:4483`, `:4825`, `uploader/scheduler.rs:685`) |
| `ShareSync` | `RecoverySparesLiveRun` | `ShareSync`, `Spec` | the recovery deletes downloads of a run that a tick has started meanwhile |
| `TransferTask` | `DiscardStopsProducer` | `TransferPaused` | a removal or discard cancels the token while the downloads are being created; the loop that creates them does not look at it |
| | `InFlightSurvives` | `TransferPaused` | a transfer without clean-up is stored as complete once its downloads are created, while they still run; a restart archives it and nobody watches them |
| | `CancelledStays` | `TransferPaused` | the execution overwrites the failed status the cancel has set |
| | `SelectionWhole` | `Transfer`, `Spec` | `list_children` stops after 500 pages of 100 entries and only logs it (`:5604`, against its doc comment at `:5549`), and what is selected by its id alone is looked for in the first page of 100 (`:845`): the rest is lost with no warning |
| `BackupTask` | `EndsForGood` | one file, 2 backups, 5 events | (a) between the save of an ended status (`:7104`) and the removal (`:7166`) a pause, a resume or a driver writes its own status over it, which is saved again; a cancelled manual backup begins all the same; (b) a restart completes the row (`:274`) of a task it has just taken up (`:271`), which then runs and is saved again |
| | `MarkServed` | one file, 2 backups, 5 events, `FairSpec` | a trigger reads that the loop runs, the loop stops and looks, then the trigger marks (`task_controller.rs:145`, against `:12`) |
| | `OneExecution` | 2 files, 3 backups, 6 events | a watch event executes beside the loop (`autobackup/manager.rs:5446`, against `task_controller.rs:12`) |
| | `CancelStops` | the same | uploads go on being created for a cancelled task (`:9521`, against `:3947`) |
| | `NothingForgotten` | the same | the scan cache is written before the task is; after a restart in between the next scan takes the file for known |
| | `TransferEnds` | one file, 2 backups, 4 events, `FairSpec` | an upload that completes before it is registered is not waited for by anybody (`:9694`), and a driver that finds no upload manager leaves the task as it is |
| `FolderDownload` | `NoTwins` | `FolderCrash` | two actors pick with pictures of the tasks that are both out of date (`folder_manager.rs:4162`, against `:4822`) |
| | `CompletedIsWhole` | `FolderCrash` | two actors skip one file and `skipped_count` counts it twice; or a report that was under way during a reconciliation counts its file again (`:4044`) |
| | `ScannedIsWhole` | `FolderCrash` | a scan interrupted by a pause says that it is complete (`:2680`) |

Read from the code while modelling it, and part of the models, without a
property of their own:

- folders: a resume from Failed leaves `failed_fs_ids`, so that a success may
  take back the failure of another file; a subtask that fails in its preparation
  for good leaves its file pending and the folder Downloading; a folder paused
  when Completed and resumed stays Downloading; a rescan after a failed scan
  doubles `total_files`; `skipped_count` is written at the end of a batch and a
  crash loses it; a failing scan overwrites Cancelled.
- share sync: a file changed without changing its size is not seen; a crash
  between the end of a run and its promotion leaves a candidate nobody deletes;
  `cleanup_previous_runs_for_subscription` and `delete_runs_before`
  (`persistence.rs:1132`) do nothing.
- transfers: the comment of the cancel says that Cleaning is waited for up to
  30 s, the code returns at once; a restored task that was downloading with no
  ids has no watcher.
- uploads: a pause is refused while an upload is being encrypted or prepared, but leaves
  `is_paused` up (`uploader/manager.rs:2273`): the run that is registered later
  stands still while the upload is shown as running.
- backups: a task paused before its uploads exist becomes Completed; a cancel
  often ends as Failed; a restart may turn cancelled into completed; a paused
  task that is resumed never creates the remaining uploads.

## 7. What is not modelled

Section 1 lists every component and `PROJECT.json` the reason for each one left
out.  In short: HTTP, cryptography, the speed statistics of the engine, the link
refresh, the SQL tables, the WAL files, the server's parsing and formatting, the
proxy, accounts and logins, the frontend and the command line tools are input
and output, or arithmetic over measured values, with little or no interleaving of
their own.

Within the modelled parts these are outside:

- `cancel_task` of uploads (`uploader/manager.rs:2504`), which no handler calls:
  `Delete` is the way an upload ends by the user;
- the sort of the queue by path at the end of a folder's scan
  (`folder_manager.rs:2683`): files are downloaded in the order they were found;
- a start of a folder's task that is under way when a resume starts the task once more:
  the old flow is dropped by the model, in the code it goes on beside the new one;
- in transfers, conflicts of names and the limits on requests;
- more than one download, upload, folder, transfer, subscription or
  configuration at a time, except where they share a pool: the round robin of
  the schedulers and the order of the waiting queue;
- the WAL and its flush: `ChunkScheduler` takes a completed chunk for persisted at
  once, `FolderDownload` and `TransferTask` a saved record;
- decryption after a download; folder uploads, scanning and hashing; restoring an
  upload;
- in share sync the copying between accounts, path mapping and filters; in
  transfers the share page and its password; in auto backup the directions
  download and sync, the file watcher, filters, encryption, and the deletion of tasks and
  configurations;
- the second, identical track of the budget scheduler; an account removed and
  added again that meets permits of its old slot (no line of the code states a
  bound over both);
- the owner of an evicted slot, whose notice (`handle_preempted_slot_owner`,
  `downloader/manager.rs:7102`) is an empty function.
