------------------------------ MODULE BackupTask ------------------------------
(***************************************************************************)
(* The upload backups of one configuration (backend/src/autobackup/        *)
(* manager.rs) with its TaskController (scheduler/task_controller.rs).     *)
(* Three drivers make backup tasks: the loop of the controller ("loop"),   *)
(* the consumer of watch events ("watch") and a call of trigger_backup     *)
(* ("manual").  A driver scans, adopts or makes a task and creates one     *)
(* upload per file; the uploads report to a channel whose consumer counts  *)
(* them and ends the task.  The user pauses, resumes and cancels; the      *)
(* program may stop and start again between any two steps.                 *)
(*                                                                         *)
(* A status is written under one lock and saved, or the task removed, under *)
(* another: each scope is a step of its own, and between two of them a task *)
(* can be removed or its status be overwritten.                            *)
(*                                                                         *)
(* transfer_task_map is left out: it has the keys of pend and an upload    *)
(* knows its file.  So are filters, encryption, events, the display status *)
(* of a file under way, delete_task, delete_config, the limit on backups   *)
(* at work, and the directions download and sync.  retry_failed_file_tasks *)
(* has no caller.  Still one step: what a driver does to an upload it      *)
(* finds, and a new task's insertion with its first save.                  *)
(***************************************************************************)
EXTENDS Integers, Sequences, FiniteSets, SequencesExt

CONSTANTS Files,        \* the files of the directory, in the order of the scan
          MaxBackups,   \* bound: backup tasks
          MaxEvents     \* bound: triggers, watch events and manual starts, which count
                        \* twice, edits, calls of the user, faults and restarts

VARIABLES disk,      \* the version of each file, 0: there is none
          remote,    \* the versions of each file that reached the netdisk
          cache,     \* scan_cache: the version a scan or an upload saw last
          recorded,  \* upload_records: the versions that are backed up
          task,      \* the tasks in memory
          row,       \* their rows in the database
          upload,    \* the upload tasks of the upload manager
          notes,     \* the channel of BackupTransferNotification
          ctl,       \* TaskController
          driver,    \* where each driver is
          consumer,  \* handle_transfer_completed: the notification at hand
          user,      \* one call of pause_task, resume_task or cancel_task
          events

disks  == <<disk, remote, cache, recorded>>
vars   == <<disks, task, row, upload, notes, ctl, driver, consumer, user, events>>

TaskIds  == 1..MaxBackups
Active   == {"queued", "preparing", "transferring", "paused"}
Ended    == {"completed", "partial", "failed", "cancelled"}
Missing  == {"archived", "gone"}   \* uploads the upload manager does not know: completed
                                   \* ones are in its history only, after a restart
NoFile   == [st |-> "none", ver |-> 0, up |-> 0, by |-> "none"]
Absent   == [st |-> "absent", files |-> [f \in Files |-> NoFile], pend |-> {},
             done |-> 0, failed |-> 0]
Idle     == [pc |-> "idle", mode |-> "none", task |-> 0, todo |-> {}, made |-> FALSE,
             files |-> [f \in Files |-> NoFile]]
NoCall   == [op |-> "none", task |-> 0, had |-> FALSE]
NoNotice == [pc |-> "idle", task |-> 0, file |-> 0, by |-> "none", ver |-> 0,
             ok |-> FALSE, last |-> FALSE]
Drivers  == {"loop", "watch", "manual"}

Init ==
    /\ disk \in [Files -> 0..1] /\ remote = [f \in Files |-> {}]
    /\ cache = [f \in Files |-> 0] /\ recorded = [f \in Files |-> {}]
    /\ task = [t \in TaskIds |-> Absent] /\ row = [t \in TaskIds |-> Absent]
    /\ upload = <<>> /\ notes = <<>>
    /\ ctl = [running |-> FALSE, pending |-> FALSE, permit |-> FALSE, caller |-> "none"]
    /\ driver = [d \in Drivers |-> Idle] /\ consumer = NoNotice /\ user = NoCall
    /\ events = Cardinality({f \in Files : disk[f] = 1})

Kept(t)      == task[t].st # "absent"
Some(states) == {t \in TaskIds : task[t].st \in states}
Given(r)     == {f \in Files : r.files[f].st # "none"}
Open(r)      == {f \in Files : r.files[f].st = "open"}
Held         == {driver[d].task : d \in Drivers} \cup {consumer.task, user.task}
Unused       == {t \in TaskIds \ Held : task[t].st = "absent" /\ row[t].st = "absent"
                                 /\ \A u \in DOMAIN upload : upload[u].task # t}
First(S)     == CHOOSE f \in S : \A g \in S : f <= g

\* save_task: the status and the counts.  The files have rows of their own; of two
\* rows for one file, made by two scans, the later one is kept here.
Saved(t, r)  == [row EXCEPT ![t].st = r.st, ![t].done = r.done, ![t].failed = r.failed]
SavedNow(t)  == IF Kept(t) THEN Saved(t, task[t]) ELSE row
Removed(t)   == [task EXCEPT ![t] = Absent]
SavedFile(t, f, file) == IF row[t].st = "absent" THEN row ELSE [row EXCEPT ![t].files[f] = file]
SavedFiles(t, files) ==
    IF row[t].st = "absent" THEN row
    ELSE [row EXCEPT ![t].files = [f \in Files |-> IF files[f].st # "none" THEN files[f] ELSE @[f]]]
Verdict(r)   == IF r.failed = 0 THEN "completed" ELSE IF r.done > 0 THEN "partial" ELSE "failed"
\* A scan gives its files fresh ids: its driver and the version it saw stand for them.
NewFile(d, f) == [st |-> "open", ver |-> disk[f], up |-> 0, by |-> d]
Same(x, y)      == x.by = y.by /\ x.ver = y.ver
Put(r, f, file) == IF Same(r.files[f], file) THEN [r EXCEPT !.files[f] = file] ELSE r

Counts(n) == events + n <= MaxEvents /\ events' = events + n
Start     == Counts(2)
Other     == Counts(1)

-----------------------------------------------------------------------------
(* TaskController                                                          *)

\* trigger: while the loop runs, the trigger is only marked, in a second step.
Trigger ==
    /\ ctl.caller = "none" /\ Start
    /\ ctl' = IF ctl.running THEN [ctl EXCEPT !.caller = "marking"] ELSE [ctl EXCEPT !.permit = TRUE]
    /\ UNCHANGED <<disks, task, row, upload, notes, driver, consumer, user>>

TriggerMarks ==
    /\ ctl.caller = "marking"
    /\ ctl' = [ctl EXCEPT !.caller = "none", !.pending = TRUE]
    /\ UNCHANGED <<disks, task, row, upload, notes, driver, consumer, user, events>>

LoopWakes ==
    /\ driver["loop"].pc = "idle" /\ ctl.permit
    /\ ctl' = [ctl EXCEPT !.permit = FALSE, !.running = TRUE, !.pending = FALSE]
    /\ driver' = [driver EXCEPT !["loop"].pc = "start"]
    /\ UNCHANGED <<disks, task, row, upload, notes, consumer, user, events>>

LoopStops ==
    /\ driver["loop"].pc = "end"
    /\ ctl' = [ctl EXCEPT !.running = FALSE]
    /\ driver' = [driver EXCEPT !["loop"] = [Idle EXCEPT !.pc = "stopping"]]
    /\ UNCHANGED <<disks, task, row, upload, notes, consumer, user, events>>

LoopLooks ==
    /\ driver["loop"].pc = "stopping"
    /\ ctl' = IF ctl.pending THEN [ctl EXCEPT !.running = TRUE, !.pending = FALSE] ELSE ctl
    /\ driver' = [driver EXCEPT !["loop"].pc = IF ctl.pending THEN "start" ELSE "idle"]
    /\ UNCHANGED <<disks, task, row, upload, notes, consumer, user, events>>

-----------------------------------------------------------------------------
(* The drivers find work                                                   *)

Goes(d, pc)  == driver' = [driver EXCEPT ![d].pc = pc]
Quits(d)     == IF d = "loop" THEN Goes(d, "end") ELSE driver' = [driver EXCEPT ![d] = Idle]
Takes(d, pc, t, mode, files) ==
    driver' = [driver EXCEPT ![d] = [pc |-> pc, mode |-> mode, task |-> t, made |-> FALSE, files |-> files,
                                     todo |-> {f \in Files : files[f].st # "none"}]]
Seen(d, S)   == [f \in Files |-> IF f \in S THEN NewFile(d, f) ELSE NoFile]

LoopSkips ==
    /\ driver["loop"].pc = "start" /\ Some({"preparing"}) # {}
    /\ Quits("loop")
    /\ UNCHANGED <<disks, task, row, upload, notes, ctl, consumer, user, events>>

Restored == {t \in Some({"queued"}) : \E f \in Given(task[t]) : task[t].files[f].up # 0}

\* execute_backup_for_config takes up a queued task whose files name their uploads.
LoopResumes ==
    /\ driver["loop"].pc = "start" /\ Some({"preparing"}) = {}
    /\ \E t \in Restored :
          /\ task' = [task EXCEPT ![t].st = "preparing"]
          /\ Takes("loop", "preparing", t, "new", task[t].files)
    /\ UNCHANGED <<disks, row, upload, notes, ctl, consumer, user, events>>

\* Queued tasks it cannot resume are dropped; then scan_local_directory_for_backup.
LoopScans ==
    /\ driver["loop"].pc = "start" /\ Some({"preparing"}) = {} /\ Restored = {}
    /\ LET changed == {f \in Files : cache[f] # disk[f]}
           new     == {f \in changed : disk[f] \notin recorded[f]}
       IN /\ cache' = [f \in Files |-> IF f \in changed THEN disk[f] ELSE cache[f]]
          /\ IF new = {} THEN Quits("loop")
             ELSE Takes("loop", "adopting", 0, "new", Seen("loop", new))
    /\ task' = [t \in TaskIds |-> IF t \in Some({"queued"}) THEN Absent ELSE task[t]]
    /\ row'  = [t \in TaskIds |-> IF t \in Some({"queued"}) THEN Absent ELSE row[t]]
    /\ UNCHANGED <<disk, remote, recorded, upload, notes, ctl, consumer, user, events>>

LoopMerges ==
    /\ driver["loop"].pc = "adopting"
    /\ \E t \in Some({"transferring"}) : Takes("loop", "merging", t, "merge", driver["loop"].files)
    /\ UNCHANGED <<disks, task, row, upload, notes, ctl, consumer, user, events>>

\* execute_watch_event runs in the consumer of events, not in the loop; its dedup
\* looks at the records, not at the scan cache.
WatchMerges(f) ==
    /\ driver["watch"].pc = "idle" /\ Start /\ disk[f] \notin recorded[f] \cup {0}
    /\ \E t \in Some({"transferring"}) : Takes("watch", "merging", t, "merge", Seen("watch", {f}))
    /\ UNCHANGED <<disks, task, row, upload, notes, ctl, consumer, user>>

WatchMakes(f) ==
    /\ driver["watch"].pc = "idle" /\ Start /\ disk[f] \notin recorded[f] \cup {0}
    /\ Some({"transferring"}) = {}
    /\ Takes("watch", "adopting", 0, "new", Seen("watch", {f}))
    /\ UNCHANGED <<disks, task, row, upload, notes, ctl, consumer, user>>

\* merge_new_files_to_task: a path the task knows already is dropped.
Merges(d) ==
    /\ driver[d].pc = "merging"
    /\ LET t   == driver[d].task
           new == [f \in Files |-> IF f \in Given(task[t]) THEN NoFile ELSE driver[d].files[f]]
       IN IF \A f \in Files : new[f].st = "none" THEN Quits(d) /\ UNCHANGED row
          ELSE Takes(d, "extending", t, "merge", new) /\ row' = SavedFiles(t, new)
    /\ UNCHANGED <<disks, task, upload, notes, ctl, consumer, user, events>>

Extends(d) ==
    /\ driver[d].pc = "extending"
    /\ LET t == driver[d].task
           r == [task[t] EXCEPT !.files =
                   [f \in Files |-> IF driver[d].files[f].st # "none" THEN driver[d].files[f] ELSE @[f]]]
       IN IF Kept(t) THEN task' = [task EXCEPT ![t] = r] /\ row' = Saved(t, r)
          ELSE UNCHANGED <<task, row>>
    /\ Goes(d, "resolving")
    /\ UNCHANGED <<disks, upload, notes, ctl, consumer, user, events>>

\* create_backup_task_record; the loop reuses a queued task that appeared meanwhile.
Adopt(d) ==
    /\ driver[d].pc = "adopting" /\ (d = "loop" => Some({"transferring"}) = {})
    /\ LET reuse == IF d = "loop" THEN Some({"queued"}) ELSE {}
           t     == First(IF reuse # {} THEN reuse ELSE Unused)
           r     == IF reuse # {} THEN [task[t] EXCEPT !.pend = {}] ELSE [Absent EXCEPT !.st = "queued"]
       IN /\ reuse # {} \/ Unused # {}
          /\ task' = [task EXCEPT ![t] = r] /\ row' = Saved(t, r)
          /\ Takes(d, "preparing", t, "new", driver[d].files)
    /\ UNCHANGED <<disks, upload, notes, ctl, consumer, user, events>>

\* execute_upload_backup_with_files: the status, then the rows of the files ...
Prepares(d) ==
    /\ driver[d].pc = "preparing"
    /\ LET t == driver[d].task
       IN /\ task' = IF Kept(t) THEN [task EXCEPT ![t].st = "preparing"] ELSE task
          /\ row' = SavedFiles(t, driver[d].files)
    /\ Goes(d, "filling")
    /\ UNCHANGED <<disks, upload, notes, ctl, consumer, user, events>>

\* ... then the files of the task with its status, which a manual scan does too ...
Fills(d) ==
    /\ driver[d].pc = "filling"
    /\ LET t == driver[d].task
       IN task' = IF Kept(t)
                  THEN [task EXCEPT ![t].st = "transferring", ![t].files = driver[d].files]
                  ELSE task
    /\ Goes(d, "starting")
    /\ UNCHANGED <<disks, row, upload, notes, ctl, consumer, user, events>>

\* ... then its row.  The work goes on with the files the task has by now; of a task
\* that was removed none are left, but a manual backup keeps the files it scanned.
Starts(d) ==
    /\ driver[d].pc = "starting"
    /\ LET t == driver[d].task
       IN /\ row' = SavedNow(t)
          /\ Takes(d, "resolving", t, driver[d].mode,
                   IF Kept(t) \/ driver[d].mode # "manual" THEN task[t].files ELSE driver[d].files)
    /\ UNCHANGED <<disks, task, upload, notes, ctl, consumer, user, events>>

\* trigger_backup and create_backup_task: one task of the configuration at a time.
Manual ==
    /\ driver["manual"].pc = "idle" /\ Start
    /\ Some(Active) = {} /\ Unused # {}
    /\ LET t == First(Unused)
           r == [Absent EXCEPT !.st = "queued"]
       IN /\ task' = [task EXCEPT ![t] = r] /\ row' = Saved(t, r)
          /\ Takes("manual", "queued", t, "manual", Absent.files)
    /\ UNCHANGED <<disks, upload, notes, ctl, consumer, user>>

\* execute_backup_task_internal; if the loop adopted the task meanwhile, its files
\* are taken over and not scanned.
ManualBegins ==
    /\ driver["manual"].pc = "queued"
    /\ LET t == driver["manual"].task
       IN /\ task' = IF Kept(t) THEN [task EXCEPT ![t].st = "preparing"] ELSE task
          /\ Takes("manual", IF Given(task[t]) = {} THEN "scanning" ELSE "resolving",
                   t, "manual", task[t].files)
    /\ UNCHANGED <<disks, row, upload, notes, ctl, consumer, user, events>>

\* The scan saves the rows of the files it found.
ManualScans ==
    /\ driver["manual"].pc = "scanning"
    /\ LET t     == driver["manual"].task
           files == Seen("manual", {f \in Files : disk[f] \notin recorded[f] \cup {0}})
       IN Takes("manual", "filling", t, "manual", files) /\ row' = SavedFiles(t, files)
    /\ UNCHANGED <<disks, task, upload, notes, ctl, consumer, user, events>>

\* What ends in memory only: the row keeps its status and the task is not removed.
EndsInMemory(t, st) ==
    /\ task' = IF Kept(t) THEN [task EXCEPT ![t].st = st] ELSE task
    /\ UNCHANGED row

\* No scanner for the directory; one that breaks off leaves the status as it is.
ManualScanFails ==
    /\ driver["manual"].pc = "scanning" /\ Other
    /\ \E st \in {"failed", task[driver["manual"].task].st} : EndsInMemory(driver["manual"].task, st)
    /\ Quits("manual")
    /\ UNCHANGED <<disks, upload, notes, ctl, consumer, user>>

ManualFindsNothing ==
    /\ driver["manual"].pc = "resolving" /\ driver["manual"].todo = {}
    /\ EndsInMemory(driver["manual"].task, "completed")
    /\ Quits("manual")
    /\ UNCHANGED <<disks, upload, notes, ctl, consumer, user, events>>

-----------------------------------------------------------------------------
(* The drivers create uploads: create_upload_tasks_for_files               *)

\* The upload manager of the account is looked up once; without it the work stops
\* where it is, and a manual backup has failed.
Resolves(d) ==
    /\ driver[d].pc = "resolving" /\ (d = "manual" => driver[d].todo # {})
    /\ Goes(d, "creating")
    /\ UNCHANGED <<disks, task, row, upload, notes, ctl, consumer, user, events>>

NoUploader(d) ==
    /\ driver[d].pc = "resolving" /\ (d = "manual" => driver[d].todo # {}) /\ Other
    /\ IF d = "manual" THEN EndsInMemory(driver[d].task, "failed") ELSE UNCHANGED <<task, row>>
    /\ Quits(d)
    /\ UNCHANGED <<disks, upload, notes, ctl, consumer, user>>

\* A file's result goes to the driver's copy; execute_backup_task_internal
\* writes into the task itself.
Notes(d, t, f, file, fails) ==
    LET r == IF driver[d].mode = "manual" THEN Put(task[t], f, file) ELSE task[t]
    IN task' = IF Kept(t) THEN [task EXCEPT ![t] = [r EXCEPT !.failed = @ + fails]] ELSE task

Steps(d, f, file) ==
    driver' = [driver EXCEPT ![d].pc = "creating", ![d].todo = @ \ {f}, ![d].files[f] = file]

Halted(t) == task[t].st \in {"cancelled", "paused"}

Next(d)    == First(driver[d].todo)
Working(d) == driver[d].pc = "creating" /\ driver[d].todo # {} /\ ~Halted(driver[d].task)

Fails(d) ==
    LET file == [driver[d].files[Next(d)] EXCEPT !.st = "failed"]
    IN Notes(d, driver[d].task, Next(d), file, 1) /\ Steps(d, Next(d), file)

\* A manual backup makes a new upload too where the file names one that is missing.
NeedsUpload(d) == LET u == driver[d].files[Next(d)].up
                  IN Working(d) /\ (u # 0 => d = "manual" /\ upload[u].st \in Missing)

Creates(d, st) ==
    /\ NeedsUpload(d)
    /\ upload' = Append(upload, [task |-> driver[d].task, file |-> Next(d), st |-> st,
                                by |-> driver[d].files[Next(d)].by,
                                ver |-> driver[d].files[Next(d)].ver])

CannotCreate(d) ==
    /\ NeedsUpload(d) /\ Fails(d)
    /\ Other /\ UNCHANGED <<disks, row, upload, notes, ctl, consumer, user>>

\* The upload exists, but it neither runs nor does its task know of it.
CannotStart(d) ==
    /\ Creates(d, "paused") /\ Fails(d)
    /\ Other /\ UNCHANGED <<disks, row, notes, ctl, consumer, user>>

\* create_backup_task and start_task: the upload runs before it is registered.
CreatesOne(d) ==
    /\ Creates(d, "running") /\ Goes(d, "registering")
    /\ UNCHANGED <<disks, task, row, notes, ctl, consumer, user, events>>

Made(d) == CHOOSE u \in DOMAIN upload :
              /\ upload[u].task = driver[d].task /\ upload[u].file = Next(d)
              /\ \A v \in DOMAIN upload : v > u => upload[v].task # driver[d].task
                                                   \/ upload[v].file # Next(d)

Registers(d) ==
    /\ driver[d].pc = "registering"
    /\ LET t    == driver[d].task
           f    == Next(d)
           file == [driver[d].files[f] EXCEPT !.up = Made(d)]
           r    == IF driver[d].mode = "manual" THEN Put(task[t], f, file) ELSE task[t]
       IN /\ task' = IF Kept(t) THEN [task EXCEPT ![t] = [r EXCEPT !.pend = @ \cup {Made(d)}]] ELSE task
          /\ row' = IF driver[d].mode = "manual" /\ r.files[f] # file THEN row
                    ELSE SavedFile(t, f, file)
          /\ driver' = [driver EXCEPT ![d].pc = "creating", ![d].todo = @ \ {f},
                                      ![d].files[f] = file, ![d].made = TRUE]
    /\ UNCHANGED <<disks, upload, notes, ctl, consumer, user, events>>

\* A file that names an upload: resumed, refused or, if there is none, made anew.
Reuses(d) ==
    /\ Working(d) /\ driver[d].files[Next(d)].up # 0
    /\ LET t    == driver[d].task
           f    == Next(d)
           u    == driver[d].files[f].up
           lost == [driver[d].files[f] EXCEPT !.up = 0]
           bad  == [lost EXCEPT !.st = "failed"]
       IN \/ /\ upload[u].st \in Missing /\ d # "manual"
             /\ task' = IF Kept(t) THEN [task EXCEPT ![t].pend = @ \ {u}] ELSE task
             /\ row' = SavedFile(t, f, lost)
             /\ driver' = [driver EXCEPT ![d].files[f] = lost]
             /\ UNCHANGED upload
          \/ /\ upload[u].st \in {"paused", "failed"}
             /\ upload' = [upload EXCEPT ![u].st = "running"]
             /\ task' = IF Kept(t) THEN [task EXCEPT ![t].pend = @ \cup {u}] ELSE task
             /\ Steps(d, f, driver[d].files[f])
             /\ UNCHANGED row
          \/ /\ upload[u].st \in {"running", "done"} /\ d # "manual"
             /\ task' = IF Kept(t) THEN [task EXCEPT ![t].pend = @ \ {u}, ![t].failed = @ + 1] ELSE task
             /\ row' = SavedFile(t, f, bad)
             /\ Steps(d, f, bad)
             /\ UNCHANGED upload
    /\ UNCHANGED <<disks, notes, ctl, consumer, user, events>>

\* execute_backup_task_internal deletes an upload it cannot resume and makes a new one.
ManualReplaces ==
    /\ Working("manual") /\ driver["manual"].files[Next("manual")].up # 0
    /\ LET t == driver["manual"].task
           f == Next("manual")
           u == driver["manual"].files[f].up
           file == [driver["manual"].files[f] EXCEPT !.up = 0]
       IN /\ upload[u].st \in {"running", "done"}
          /\ upload' = [upload EXCEPT ![u].st = "gone"]
          /\ notes' = Append(notes, [up |-> u, ok |-> FALSE])
          /\ task' = IF Kept(t)
                     THEN [task EXCEPT ![t] = [Put(task[t], f, file) EXCEPT !.pend = @ \ {u}]]
                     ELSE task
          /\ driver' = [driver EXCEPT !["manual"].files[f] = file]
    /\ UNCHANGED <<disks, row, ctl, consumer, user, events>>

\* The end of the creation: the files go back to the task.
Finishes(d) ==
    /\ driver[d].pc = "creating" /\ (driver[d].todo = {} \/ Halted(driver[d].task))
    /\ task' = IF driver[d].mode = "new" /\ Kept(driver[d].task)
               THEN [task EXCEPT ![driver[d].task].files = driver[d].files] ELSE task
    /\ IF driver[d].mode = "new" \/ (driver[d].mode = "manual" /\ ~driver[d].made)
       THEN Goes(d, "settling") ELSE Quits(d)
    /\ UNCHANGED <<disks, row, upload, notes, ctl, consumer, user, events>>

\* finalize_backup_task_if_no_pending ends a task that waits for nothing and saves it
\* under the same lock.
Settles(d) ==
    /\ driver[d].pc = "settling" /\ driver[d].mode = "new"
    /\ LET t == driver[d].task
           r == [task[t] EXCEPT !.st = Verdict(task[t])]
       IN IF Kept(t) /\ task[t].st \notin Ended /\ task[t].pend = {}
          THEN task' = [task EXCEPT ![t] = r] /\ row' = Saved(t, r) /\ Goes(d, "saving")
          ELSE Quits(d) /\ UNCHANGED <<task, row>>
    /\ UNCHANGED <<disks, upload, notes, ctl, consumer, user, events>>

\* A manual backup that made no upload; the status is not saved here.
ManualSettles ==
    /\ driver["manual"].pc = "settling"
    /\ LET t == driver["manual"].task
       IN IF Halted(t) THEN UNCHANGED <<task, row>>
          ELSE EndsInMemory(t, IF task[t].failed > 0 THEN "partial" ELSE "completed")
    /\ Goes("manual", "saving")
    /\ UNCHANGED <<disks, upload, notes, ctl, consumer, user, events>>

\* cleanup_completed_task saves the task, whatever its status is by now, ...
DriverSaves(d) ==
    /\ driver[d].pc = "saving"
    /\ row' = SavedNow(driver[d].task) /\ Goes(d, "removing")
    /\ UNCHANGED <<disks, task, upload, notes, ctl, consumer, user, events>>

\* ... and removes it.
DriverRemoves(d) ==
    /\ driver[d].pc = "removing"
    /\ task' = Removed(driver[d].task) /\ Quits(d)
    /\ UNCHANGED <<disks, row, upload, notes, ctl, consumer, user, events>>

-----------------------------------------------------------------------------
(* Uploads and their notifications                                         *)

Ends(u, st, ok) ==
    /\ upload' = [upload EXCEPT ![u].st = st]
    /\ notes' = Append(notes, [up |-> u, ok |-> ok])

\* The upload reads the file when it runs, not the version that was scanned.
Uploaded(u) ==
    /\ upload[u].st = "running" /\ Ends(u, "done", TRUE)
    /\ remote' = [remote EXCEPT ![upload[u].file] = @ \cup {disk[upload[u].file]}]
    /\ UNCHANGED <<disk, cache, recorded, task, row, ctl, driver, consumer, user, events>>

UploadFails(u) ==
    /\ upload[u].st = "running" /\ Ends(u, "failed", FALSE) /\ Other
    /\ UNCHANGED <<disks, task, row, ctl, driver, consumer, user>>

\* The user deletes the upload itself, or its entry in the history; Deleted counts as
\* a failure.
UploadDeleted(u) ==
    /\ upload[u].st # "gone" /\ Ends(u, "gone", FALSE) /\ Other
    /\ UNCHANGED <<disks, task, row, ctl, driver, consumer, user>>

Waiting(u) == {t \in TaskIds : Kept(t) /\ u \in task[t].pend}
Knows(r, u) == Same(r.files[upload[u].file], upload[u])

Counted(r, u, ok) ==
    IF ~Knows(r, u) THEN [r EXCEPT !.pend = @ \ {u}]
    ELSE [r EXCEPT !.pend = @ \ {u}, !.files[upload[u].file].st = IF ok THEN "done" ELSE "failed",
              !.done = IF ok THEN @ + 1 ELSE @, !.failed = IF ok THEN @ ELSE @ + 1]

\* handle_transfer_completed: the last upload that is pending ends the task, in
\* memory.  A file that is not known is passed over.
Receives ==
    /\ consumer = NoNotice /\ notes # <<>>
    /\ LET u  == Head(notes).up
           ok == Head(notes).ok
       IN IF Waiting(u) = {} THEN UNCHANGED <<task, consumer>>
          ELSE \E t \in Waiting(u) :
                  LET r     == Counted(task[t], u, ok)
                      last  == r.pend = {}
                      knows == Knows(task[t], u)
                  IN /\ task' = [task EXCEPT ![t] = IF last THEN [r EXCEPT !.st = Verdict(r)] ELSE r]
                     /\ consumer' =
                          IF ~knows /\ ~last THEN NoNotice
                          ELSE [pc |-> IF ~knows THEN "saving" ELSE IF ok THEN "recording" ELSE "filing",
                                task |-> t, file |-> upload[u].file, by |-> upload[u].by,
                                ver |-> upload[u].ver, ok |-> ok, last |-> last]
    /\ notes' = Tail(notes)
    /\ UNCHANGED <<disks, row, upload, ctl, driver, user, events>>

\* A bug: the record is taken from the file as it is on the disk by now.
RecordsDisk ==
    /\ consumer.pc = "recording"
    /\ recorded' = [recorded EXCEPT ![consumer.file] = @ \cup {disk[consumer.file]}]
    /\ cache' = [cache EXCEPT ![consumer.file] = disk[consumer.file]]
    /\ consumer' = [consumer EXCEPT !.pc = "filing"]
    /\ UNCHANGED <<disk, remote, task, row, upload, notes, ctl, driver, user, events>>

\* Then, without the lock, the record of the upload and the scan cache, ...
RecordsUpload ==
    /\ consumer.pc = "recording"
    /\ recorded' = [recorded EXCEPT ![consumer.file] = @ \cup {consumer.ver}]
    /\ cache' = [cache EXCEPT ![consumer.file] = disk[consumer.file]]
    /\ consumer' = [consumer EXCEPT !.pc = "filing"]
    /\ UNCHANGED <<disk, remote, task, row, upload, notes, ctl, driver, user, events>>

\* ... the row of the file as the task has it by now, ...
FilesRow ==
    /\ consumer.pc = "filing"
    /\ LET file == task[consumer.task].files[consumer.file]
       IN row' = IF Same(file, consumer) THEN SavedFile(consumer.task, consumer.file, file) ELSE row
    /\ consumer' = IF consumer.last THEN [consumer EXCEPT !.pc = "saving"] ELSE NoNotice
    /\ UNCHANGED <<disks, task, upload, notes, ctl, driver, user, events>>

\* ... the row of a task that has ended, with the status it has by now, once here
\* and once in cleanup_completed_task, ...
ConsumerSaves ==
    /\ consumer.pc \in {"saving", "clearing"}
    /\ row' = SavedNow(consumer.task)
    /\ consumer' = [consumer EXCEPT !.pc = IF @ = "saving" THEN "clearing" ELSE "removing"]
    /\ UNCHANGED <<disks, task, upload, notes, ctl, driver, user, events>>

\* ... and the task is removed.
ConsumerRemoves ==
    /\ consumer.pc = "removing"
    /\ task' = Removed(consumer.task) /\ consumer' = NoNotice
    /\ UNCHANGED <<disks, row, upload, notes, ctl, driver, user, events>>

-----------------------------------------------------------------------------
(* The user, the directory and restarts                                    *)

Edit(f) ==
    /\ Other
    /\ disk' = [disk EXCEPT ![f] = @ + 1]
    /\ UNCHANGED <<remote, cache, recorded, task, row, upload, notes, ctl, driver, consumer, user>>

\* The uploads a call reaches: those that are pending when it begins.
Reach(t, from, st) ==
    [u \in DOMAIN upload |-> IF u \in task[t].pend /\ upload[u].st \in from
                             THEN [upload[u] EXCEPT !.st = st] ELSE upload[u]]
Calls(op, t) == user' = [op |-> op, task |-> t, had |-> task[t].pend # {}]

Pause(t) ==
    /\ user = NoCall /\ task[t].st \in {"queued", "preparing", "transferring"} /\ Other
    /\ upload' = Reach(t, {"running"}, "paused") /\ Calls("pause", t)
    /\ UNCHANGED <<disks, task, row, notes, ctl, driver, consumer>>

Resume(t) ==
    /\ user = NoCall /\ task[t].st = "paused" /\ Other
    /\ upload' = Reach(t, {"paused", "failed"}, "running") /\ Calls("resume", t)
    /\ UNCHANGED <<disks, task, row, notes, ctl, driver, consumer>>

Cancel(t) ==
    /\ user = NoCall /\ task[t].st \in Active /\ Other
    /\ LET live == {u \in task[t].pend : upload[u].st # "gone"}
       IN /\ upload' = Reach(t, {"running", "paused", "failed", "done", "archived"}, "gone")
          /\ notes' = notes \o SetToSeq({[up |-> u, ok |-> FALSE] : u \in live})
    /\ Calls("cancel", t)
    /\ UNCHANGED <<disks, task, row, ctl, driver, consumer>>

\* The status is written after the uploads were reached, whatever it is by now.
CallEnds ==
    /\ user.op \in {"pause", "resume", "cancel"}
    /\ LET t  == user.task
           st == CASE user.op = "pause"  -> "paused"
                   [] user.op = "cancel" -> "cancelled"
                   [] OTHER -> IF user.had THEN "transferring" ELSE "queued"
           r  == [task[t] EXCEPT !.st = st]
       IN IF Kept(t) THEN task' = [task EXCEPT ![t] = r] /\ row' = Saved(t, r)
          ELSE UNCHANGED <<task, row>>
    /\ user' = IF user.op = "cancel" THEN [user EXCEPT !.op = "clear"] ELSE NoCall
    /\ UNCHANGED <<disks, upload, notes, ctl, driver, consumer, events>>

\* cleanup_completed_task, after a cancel.
CancelSaves ==
    /\ user.op = "clear"
    /\ row' = SavedNow(user.task) /\ user' = [user EXCEPT !.op = "remove"]
    /\ UNCHANGED <<disks, task, upload, notes, ctl, driver, consumer, events>>

CancelRemoves ==
    /\ user.op = "remove"
    /\ task' = Removed(user.task) /\ user' = NoCall
    /\ UNCHANGED <<disks, row, upload, notes, ctl, driver, consumer, events>>

\* retry_file_task: the file waits again, in memory only and with no driver told.
RetryFile(t, f) ==
    /\ task[t].files[f].st = "failed"
    /\ task' = [task EXCEPT ![t].files[f].st = "open"]
    /\ UNCHANGED <<disks, row, upload, notes, ctl, driver, consumer, user, events>>

\* restore_incomplete_tasks
Reloaded(r) ==
    IF r.st \in Active
    THEN [r EXCEPT !.st = "queued",
                   !.files = [f \in Files |-> IF f \in Open(r) THEN r.files[f] ELSE NoFile],
                   !.pend = {r.files[f].up : f \in {g \in Open(r) : r.files[g].up # 0}}]
    ELSE Absent
Requeued(r) == [r EXCEPT !.st = IF @ \in Active THEN "queued" ELSE @]

\* Then sync_completed_backup_tasks_from_history and recalculate_task_progress: the row
\* takes over what the history of uploads says, the task in memory does not.
SyncedFrom(r, st) ==
    LET hits == {f \in Given(r) : r.files[f].up # 0 /\ upload[r.files[f].up].st \in st}
        fs   == [f \in Files |-> IF f \in hits THEN [r.files[f] EXCEPT !.st = "done"] ELSE r.files[f]]
        n    == [r EXCEPT !.files = fs,
                          !.done = Cardinality({f \in Files : fs[f].st = "done"}),
                          !.failed = Cardinality({f \in Files : fs[f].st = "failed"})]
    IN IF hits = {} THEN r ELSE IF Open(n) = {} THEN [n EXCEPT !.st = Verdict(n)] ELSE n
\* A bug: an upload that is not known any more is taken for one that was completed.
SyncedGone(r) == SyncedFrom(r, {"done", "archived", "gone"})
Synced(r)     == SyncedFrom(r, {"done", "archived"})

\* A restart: the uploads come back paused, resume_queued_tasks_on_startup triggers.
Restart ==
    /\ Other
    /\ task' = [t \in TaskIds |-> Reloaded(row[t])]
    /\ row' = [t \in TaskIds |-> Synced(Requeued(row[t]))]
    /\ upload' = [u \in DOMAIN upload |->
                    [upload[u] EXCEPT !.st = CASE @ = "running" -> "paused"
                                               [] @ = "done" -> "archived" [] OTHER -> @]]
    /\ notes' = <<>> /\ driver' = [d \in Drivers |-> Idle]
    /\ consumer' = NoNotice /\ user' = NoCall
    /\ ctl' = [running |-> FALSE, pending |-> FALSE, caller |-> "none",
               permit |-> \E t \in TaskIds : row[t].st \in Active]
    /\ UNCHANGED disks

-----------------------------------------------------------------------------
LoopStep == LoopWakes \/ LoopStops \/ LoopLooks \/ LoopSkips \/ LoopResumes \/ LoopScans
            \/ LoopMerges
ManualStep == ManualBegins \/ ManualScans \/ ManualFindsNothing \/ ManualReplaces \/ ManualSettles
Finds(d)    == Adopt(d) \/ Merges(d) \/ Extends(d) \/ Prepares(d) \/ Fills(d) \/ Starts(d) \/ Resolves(d)
Uploads(d)  == CreatesOne(d) \/ Registers(d) \/ Reuses(d) \/ Finishes(d) \/ Settles(d)
               \/ DriverSaves(d) \/ DriverRemoves(d)
DriverStep(d) == Finds(d) \/ Uploads(d)
Faults(d)   == CannotCreate(d) \/ CannotStart(d) \/ NoUploader(d)
ConsumerStep == Receives \/ RecordsUpload \/ FilesRow \/ ConsumerSaves \/ ConsumerRemoves
CallStep    == CallEnds \/ CancelSaves \/ CancelRemoves

NextStep ==
    \/ Trigger \/ TriggerMarks \/ LoopStep
    \/ \E f \in Files : WatchMerges(f) \/ WatchMakes(f) \/ Edit(f)
    \/ Manual \/ ManualStep \/ ManualScanFails
    \/ \E d \in Drivers : DriverStep(d) \/ Faults(d)
    \/ \E u \in DOMAIN upload : Uploaded(u) \/ UploadFails(u) \/ UploadDeleted(u)
    \/ ConsumerStep
    \/ \E t \in TaskIds : Pause(t) \/ Resume(t) \/ Cancel(t) \/ \E f \in Files : RetryFile(t, f)
    \/ CallStep \/ Restart

Spec == Init /\ [][NextStep]_vars

(* What the drivers, the consumer and the program itself do is not put off for *)
(* ever; calls, edits, triggers, faults and restarts need not happen.          *)
Fairness ==
    /\ WF_vars(TriggerMarks) /\ WF_vars(LoopStep) /\ WF_vars(ConsumerStep)
    /\ WF_vars(CallStep) /\ WF_vars(ManualStep)
    /\ \A d \in Drivers : WF_vars(DriverStep(d))
FairSpec == Spec /\ Fairness

-----------------------------------------------------------------------------
(* A record says that a backup exists: of each recorded version the netdisk   *)
(* has that content or a later one, whatever failed, was cancelled or was     *)
(* edited in between.                                                         *)
RecordsAreTrue ==
    \A f \in Files : \A v \in recorded[f] : \E w \in remote[f] : w >= v

(* A file a task or its row calls done is on the netdisk in the version the    *)
(* task scanned, or a later one: although the row is written after the lock is *)
(* given up, a driver puts its own copy of the files back and a restart takes  *)
(* over what the history of uploads says.                                      *)
Backed(files) == \A f \in Files : files[f].st = "done" =>
                                      \E w \in remote[f] : w >= files[f].ver
DoneIsBackedUp == \A t \in TaskIds : Backed(task[t].files) /\ Backed(row[t].files)

(* A task that has ended never runs again.                                     *)
EndsForGood ==
    [][\A t \in TaskIds : row[t].st \in Ended => row'[t].st \in Ended]_vars

(* One execution of a configuration at a time (task_controller.rs).           *)
OneExecution == Cardinality(Some({"preparing", "transferring"})) <= 1

(* Once a task is cancelled and the call has returned, none of its uploads runs. *)
CancelStops ==
    \A u \in DOMAIN upload :
        row[upload[u].task].st = "cancelled" /\ user = NoCall => upload[u].st # "running"

(* Once everything is quiet, every version on the disk that the scan takes for *)
(* known has reached the netdisk.                                              *)
Quiet == /\ \A d \in Drivers : driver[d] = Idle
         /\ notes = <<>> /\ consumer = NoNotice /\ user = NoCall /\ ~ctl.permit /\ Some(Active) = {}
NothingForgotten ==
    Quiet => \A f \in Files : cache[f] = disk[f] => disk[f] \in remote[f] \cup {0}

(* A trigger during a run leads to another run.                                *)
MarkServed == [](ctl.pending => <>~ctl.pending)

(* A task whose uploads have all ended does not stay in transfer.              *)
TransferEnds ==
    \A t \in TaskIds :
        []<>(~(/\ task[t].st = "transferring" /\ notes = <<>> /\ consumer = NoNotice
              /\ \A d \in Drivers : driver[d] = Idle
              /\ \A u \in task[t].pend : upload[u].st \in {"done", "archived", "gone"}))

=============================================================================
