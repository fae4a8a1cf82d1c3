---------------------------- MODULE FolderDownload ----------------------------
(***************************************************************************)
(* The download of a folder (downloader/folder_manager.rs, folder.rs and   *)
(* persistence/folder.rs).  A scan lists the files of the folder in the    *)
(* netdisk into pending_files; tasks are created for a few of them at a    *)
(* time, and a file leaves pending_files only when its task is persisted.  *)
(*                                                                         *)
(* Five kinds of actors touch the folder, each in steps between which the  *)
(* lock is free: the listener that is told how a task ended, the loop that *)
(* looks every three seconds for pending files, scans, the user (pause,    *)
(* resume, cancel, or the restore after a restart), and the tasks          *)
(* themselves.  The first four create tasks, by the same steps: take a     *)
(* picture of the tasks there are, pick pending files that have none, and  *)
(* for each of them look whether the folder still runs, then make the task *)
(* or skip a file that exists already.                                     *)
(*                                                                         *)
(* Left out: sizes and progress in bytes, names and their encryption, the  *)
(* subscribers of events, other folders.  Slots (TaskSlotPool) are a       *)
(* choice: a task has one when it is made or waits for one.  A save of the *)
(* folder takes effect at once.  The strategy "rename" behaves as          *)
(* "overwrite" does.                                                       *)
(***************************************************************************)
EXTENDS Naturals, Sequences, FiniteSets

CONSTANTS
    FileCount,    \* bound: the files of the folder
    AutoRetries,  \* MAX_SUBTASK_AUTO_RETRIES
    StartRetries, \* MAX_START_RETRIES
    Scans,        \* bound: the scans there may ever be, strings
    MaxTasks,     \* bound: tasks created
    MaxEvents     \* bound: failures, pauses, resumes, cancels, restarts, and the
                  \* files after the first

\* The names of the scans are those of no other actor.
ASSUME FolderAssumption ==
    /\ Scans # {} /\ Scans \cap {"listener", "ticker", "user"} = {}
    /\ FileCount \in Nat /\ MaxTasks \in Nat

VARIABLES
    folder,    \* the FolderDownload in memory
    saved,     \* its FolderPersisted on disk
    task,      \* the tasks of the folder, in the order of their creation
    sent,      \* the task_completed channel, in order
    disk,      \* the files that exist under their final name
    archived,  \* the files that the history knows as completed
    token,     \* the scan whose token is in cancellation_tokens
    stopped,   \* the scans whose token is cancelled
    proc,      \* where each actor is, and what it remembers
    size,      \* how many files the folder has
    skips,     \* the strategy: skip what exists, or overwrite
    bare,      \* history: files a reconciliation took from the queue for their task
               \* when that was not on disk yet, and those that exist, where such
               \* files are skipped, and whose task never was on disk
    cancelled, \* history: the user cancelled the folder, which owes no file any more
    events

folder_vars == <<folder, saved>>
task_vars   == <<task, sent, disk, archived>>
scan_vars   == <<token, stopped>>
fixed       == <<size, skips>>
history     == <<bare, cancelled>>
vars == <<folder_vars, task_vars, scan_vars, proc, fixed, history, events>>

AllFiles  == 1..size    \* in the netdisk, one on a page
Actors == {"listener", "ticker", "user"} \cup Scans
Tasks  == 1..MaxTasks
NoScan == "none"
FirstScan == CHOOSE s \in Scans : TRUE

Statuses == {"Scanning", "Downloading", "Paused", "Completed", "Failed",
             "Cancelled", "Gone"}

\* st is the status.  at says where a task is between its start and its end: in
\* the waiting queue, getting links, with its output file prepared, in the WAL,
\* downloading.
NewTask(f, st, at) == [file |-> f, st |-> st, at |-> at, kept |-> FALSE, tries |-> 0]

Entries == [no : Nat, file : Nat]

Places == {"idle", "over", "new", "spawned", "list", "relist", "leave", "cover", "reconcile",
           "look", "pick", "next", "make", "settle", "finalize", "judge", "retry", "restart",
           "pausing", "resuming", "deleting", "forgetting"}

Folders == [status : Statuses, pending : SUBSET Entries, scanned : BOOLEAN, total : Nat,
            completed : Nat, counted : SUBSET Nat, skipped : Nat, listed : SUBSET Nat,
            failed : Nat, failed_tasks : SUBSET Nat, failed_files : SUBSET Nat,
            retries : [Tasks -> Nat]]
Records == [status : Statuses, pending : SUBSET Entries, scanned : BOOLEAN, total : Nat,
            completed : Nat, counted : SUBSET Nat, skipped : Nat, listed : SUBSET Nat]
Subtasks == [file : Nat, st : {"Pending", "Downloading", "Paused", "Completed", "Failed", "gone"},
             at : {"queue", "link", "file", "kept", "run", "idle"}, kept : BOOLEAN, tries : Nat]
Notices == [task : Nat, file : Nat, ok : BOOLEAN]
Workers == [pc : Places, mode : {"feed", "fill", "restore"}, seen : SUBSET Nat, live : BOOLEAN,
            files : SUBSET Entries, made : BOOLEAN, left : Nat, arg : Nat]

TypeOK ==
    /\ folder \in Folders /\ saved \in Records
    /\ task \in Seq(Subtasks) /\ sent \in Seq(Notices)
    /\ disk \subseteq Nat /\ archived \subseteq Nat /\ bare \subseteq Nat
    /\ token \in Scans \cup {NoScan} /\ stopped \subseteq Scans
    /\ proc \in [Actors -> Workers]
    /\ size \in Nat /\ skips \in BOOLEAN /\ cancelled \in BOOLEAN /\ events \in Nat

Idle == [pc |-> "idle", mode |-> "feed", seen |-> {}, live |-> FALSE, files |-> {},
         made |-> FALSE, left |-> 0, arg |-> 0]

Over == [Idle EXCEPT !.pc = "over"]

There(t)   == t <= Len(task) /\ task[t].st # "gone"
Present    == {t \in 1..Len(task) : There(t)}
Active(t)  == task[t].st \in {"Downloading", "Pending"}
Covered    == {task[t].file : t \in Present}
Kept       == {task[t].file : t \in {u \in Present : task[u].kept}}
SomeActive == \E t \in Present : Active(t)

Pc(a, where) == proc[a].pc = where
Goes(a, r)   == proc' = [proc EXCEPT ![a] = r]
To(a, where) == Goes(a, [proc[a] EXCEPT !.pc = where])

\* A queue of files: entries numbered in the order in which they were found.
FilesOf(q)     == {e.file : e \in q}
Without(q, fs) == {e \in q : e.file \notin fs}
Firsts(q)      == {e \in q : \A d \in q : e.no <= d.no}
Prefixes(q)    == {part \in SUBSET q : \A e \in part : \A d \in q \ part : e.no <= d.no}

Event == events < MaxEvents /\ events' = events + 1

\* FolderPersisted::from_folder: what a save keeps of the folder.
Persisted(fo) == [status |-> fo.status, pending |-> fo.pending, scanned |-> fo.scanned,
                  total |-> fo.total, completed |-> fo.completed,
                  counted |-> fo.counted, skipped |-> fo.skipped,
                  listed |-> fo.listed]

\* FolderPersisted::to_folder: the rest starts from nothing.
Restored(p) == [status |-> p.status, pending |-> p.pending, scanned |-> p.scanned,
                total |-> p.total, completed |-> p.completed, counted |-> p.counted,
                skipped |-> p.skipped, listed |-> p.listed, failed |-> 0, failed_tasks |-> {},
                failed_files |-> {}, retries |-> [t \in Tasks |-> 0]]

Save         == saved' = Persisted(folder')
MaySave      == saved' \in {saved, Persisted(folder')}   \* throttled

New == [status |-> "Scanning", pending |-> {}, scanned |-> FALSE, total |-> 0,
        completed |-> 0, counted |-> {}, skipped |-> 0, listed |-> {}]

\* create_folder_download_internal: the folder is there and saved, the first
\* scan is spawned.  With "skip" some files may exist already.
Init ==
    /\ size \in 1..FileCount
    /\ folder = Restored(New) /\ saved = New
    /\ task = <<>> /\ sent = <<>> /\ archived = {}
    /\ skips \in BOOLEAN /\ events = 2 * (size - 1) + (IF skips THEN 1 ELSE 0)
    /\ disk \in IF skips THEN SUBSET AllFiles ELSE {{}}
    /\ token = FirstScan
    /\ proc = [a \in Actors |->
                 IF a = FirstScan THEN [Idle EXCEPT !.pc = "list", !.arg = 1]
                 ELSE IF a \in Scans THEN [Idle EXCEPT !.pc = "new"] ELSE Idle]
    /\ stopped = {} /\ bare = {} /\ cancelled = FALSE

-----------------------------------------------------------------------------
(* Scans                                                                   *)

Listing(s) == Pc(s, "list") \/ Pc(s, "relist")
InMemory   == folder.status # "Gone"

\* scan_folder_and_create_tasks, first part: the token replaces an older one.
StartScan(s) ==
    /\ Pc(s, "spawned")
    /\ IF InMemory
       THEN token' = s /\ Goes(s, [proc[s] EXCEPT !.pc = "relist", !.arg = 1])
       ELSE UNCHANGED token /\ Goes(s, Over)
    /\ UNCHANGED <<folder_vars, task_vars, stopped, fixed, history, events>>

\* scan_recursive: a page is listed and its files are added, those of an earlier
\* scan notwithstanding.
ScanPage(s) ==
    /\ Listing(s) /\ s \notin stopped /\ proc[s].arg <= size
    /\ Goes(s, [proc[s] EXCEPT !.arg = @ + 1])
    /\ folder' = IF ~InMemory THEN folder
                 ELSE [folder EXCEPT !.pending = @ \cup {[no |-> folder.total, file |-> proc[s].arg]},
                                     !.total = @ + 1,
                                     !.listed = @ \cup {proc[s].arg}]
    /\ UNCHANGED <<saved, task_vars, scan_vars, fixed, history, events>>

\* A page cannot be listed, four times: the scan that created the folder marks
\* it failed, a later one says so in the log.
ScanFails(s) ==
    /\ Listing(s) /\ proc[s].arg <= size /\ Event
    /\ Goes(s, Over)
    /\ IF Pc(s, "list")
       THEN /\ folder' = IF InMemory THEN [folder EXCEPT !.status = "Failed"] ELSE folder
            /\ token' = NoScan
       ELSE UNCHANGED <<folder, token>>
    /\ stopped' = stopped \ {s}
    /\ UNCHANGED <<saved, task_vars, fixed, history>>

\* The scan returns, at the end of the list or because its token is cancelled.
ScanEnds(s) ==
    /\ Listing(s) /\ (proc[s].arg > size \/ s \in stopped)
    /\ folder' = IF ~InMemory THEN folder
                 ELSE [folder EXCEPT !.scanned = TRUE,
                                     !.status = IF @ = "Scanning" THEN "Downloading" ELSE @]
    /\ token' = NoScan
    /\ Goes(s, [Idle EXCEPT !.pc = "cover", !.mode = "fill"])
    /\ stopped' = stopped \ {s}
    /\ UNCHANGED <<saved, task_vars, fixed, history, events>>

-----------------------------------------------------------------------------
(* Creating tasks                                                          *)

\* Where an actor goes when it has no more to create.
Done(a) == Goes(a, IF a \in Scans THEN [Idle EXCEPT !.pc = "leave"] ELSE Idle)

\* A scan saves the folder at its end.
Leave(s) ==
    /\ Pc(s, "leave") /\ Goes(s, Over)
    /\ (IF InMemory THEN saved' = Persisted(folder) ELSE UNCHANGED saved)
    /\ UNCHANGED <<folder, task_vars, scan_vars, fixed, history, events>>

\* reconcile_pending_files, its reads: the files that have a task, then those
\* the history has.
Cover(a) ==
    /\ Pc(a, "cover")
    /\ LET covered == Covered \cup archived
       IN  IF ~InMemory \/ folder.pending = {} \/ covered = {}
           THEN To(a, "look")
           ELSE Goes(a, [proc[a] EXCEPT !.pc = "reconcile", !.seen = covered,
                                        !.arg = Cardinality(archived)])
    /\ UNCHANGED <<folder_vars, task_vars, scan_vars, fixed, history, events>>

\* reconcile_pending_files, its write.
Reconcile(a) ==
    /\ Pc(a, "reconcile") /\ Goes(a, [Idle EXCEPT !.pc = "look", !.mode = proc[a].mode])
    /\ IF ~InMemory THEN UNCHANGED <<folder_vars, bare>>
       ELSE /\ bare' = bare \cup ((FilesOf(folder.pending) \cap proc[a].seen) \ (archived \cup Kept))
            /\ folder' = [folder EXCEPT !.pending = Without(@, proc[a].seen),
                                        !.completed = IF proc[a].arg > @ THEN proc[a].arg ELSE @]
            /\ IF folder'.pending = folder.pending THEN UNCHANGED saved ELSE Save
    /\ UNCHANGED <<task_vars, scan_vars, fixed, cancelled, events>>

\* get_tasks_by_group: the picture of the tasks that the next steps rely on.
Look(a) ==
    /\ Pc(a, "look")
    /\ Goes(a, [proc[a] EXCEPT !.pc = IF a = "listener" THEN "judge" ELSE "pick",
                               !.seen = Covered, !.live = SomeActive])
    /\ UNCHANGED <<folder_vars, task_vars, scan_vars, fixed, history, events>>

\* Whose turn it is to pick: the listener feeds a downloading folder, a refill
\* one that is not stopped, the restore one that is paused and listed.
MayPick(a) ==
    CASE proc[a].mode = "feed"    -> folder.status = "Downloading"
      [] proc[a].mode = "fill"    -> folder.status \notin {"Paused", "Cancelled", "Failed", "Gone"}
      [] proc[a].mode = "restore" -> folder.status = "Paused" /\ folder.scanned

\* The pending files that have no task in the picture and are not counted.
Choice(a) == Without(folder.pending, proc[a].seen \cup folder.counted)

\* A bug: the files leave the queue when they are picked.
PickTakes(a) ==
    /\ Pc(a, "pick")
    /\ IF ~MayPick(a) \/ Choice(a) = {} THEN Done(a) /\ UNCHANGED folder
       ELSE \E part \in Prefixes(Choice(a)) \ {{}} :
               /\ Goes(a, [Idle EXCEPT !.pc = "next", !.mode = proc[a].mode,
                                      !.files = part])
               /\ folder' = [folder EXCEPT !.pending = @ \ part]
    /\ UNCHANGED <<saved, task_vars, scan_vars, fixed, history, events>>

\* refill_tasks_batch, prefill_paused_tasks and the listener: the first files are
\* picked, as many as the tasks there are leave room for, and stay pending.  The
\* restore drops what it need not download.
Pick(a) ==
    /\ Pc(a, "pick")
    /\ IF ~MayPick(a) \/ Choice(a) = {} THEN Done(a)
       ELSE \E part \in Prefixes(Choice(a)) \ {{}} :
               Goes(a, [Idle EXCEPT !.pc = "next", !.mode = proc[a].mode, !.files = part])
    /\ folder' = IF proc[a].mode = "restore" /\ MayPick(a)
                 THEN [folder EXCEPT !.pending = Choice(a)] ELSE folder
    /\ UNCHANGED <<saved, task_vars, scan_vars, fixed, history, events>>

\* There are ten tasks, or more: nothing is picked.
Enough(a) ==
    /\ Pc(a, "pick") /\ a # "listener" /\ proc[a].seen # {} /\ Done(a)
    /\ UNCHANGED <<folder_vars, task_vars, scan_vars, fixed, history, events>>

\* Before each file: does the folder still run?  The restore does not ask.
BatchEnds(a) ==
    \/ proc[a].files = {}
    \/ proc[a].mode # "restore" /\ folder.status \in {"Paused", "Cancelled", "Failed", "Gone"}

CheckRunning(a) ==
    /\ Pc(a, "next") /\ ~BatchEnds(a) /\ To(a, "make")
    /\ UNCHANGED <<folder_vars, task_vars, scan_vars, fixed, history, events>>

\* resolve_download_conflict says skip: the file leaves the queue at once and is
\* counted at the end of the batch.
Skip(a) ==
    /\ Pc(a, "make") /\ skips
    /\ \E e \in Firsts(proc[a].files) :
          /\ e.file \in disk
          /\ folder' = IF InMemory THEN [folder EXCEPT !.pending = Without(@, {e.file})]
                                  ELSE folder
          /\ Goes(a, [proc[a] EXCEPT !.pc = "next", !.files = @ \ {e}, !.left = @ + 1])
    /\ UNCHANGED <<saved, task_vars, scan_vars, fixed, history, events>>

\* A bug: a file leaves the queue when its task is made.
MakeDrops(a) ==
    /\ Pc(a, "make") /\ Len(task) < MaxTasks
    /\ \E e \in Firsts(proc[a].files) :
          /\ ~(skips /\ e.file \in disk)
          /\ task' = Append(task, NewTask(e.file, "Pending", "queue"))
          /\ folder' = [folder EXCEPT !.pending = Without(@, {e.file})] /\ Save
          /\ Goes(a, [proc[a] EXCEPT !.pc = "next", !.files = @ \ {e}, !.made = TRUE])
    /\ UNCHANGED <<sent, disk, archived, scan_vars, fixed, history, events>>

\* The task is made and added: started on a slot of the folder, or queued, or
\* (restore) paused.
Make(a) ==
    /\ Pc(a, "make") /\ Len(task) < MaxTasks
    /\ \E e \in Firsts(proc[a].files), at \in {"link", "queue", "idle"} :
          /\ ~(skips /\ e.file \in disk)
          /\ (at = "idle") = (proc[a].mode = "restore")
          /\ task' = Append(task, NewTask(e.file, IF at = "idle" THEN "Paused" ELSE "Pending", at))
          /\ Goes(a, [proc[a] EXCEPT !.pc = "next", !.files = @ \ {e}, !.made = TRUE])
    /\ UNCHANGED <<folder_vars, sent, disk, archived, scan_vars, fixed, history, events>>

\* No task is made: its directory cannot be, which ends the batch of a refill then
\* and there, or the manager refuses it.
CannotMake(a) ==
    /\ Pc(a, "make") /\ Event
    /\ \E e \in Firsts(proc[a].files) :
          /\ ~(skips /\ e.file \in disk)
          /\ \/ proc[a].mode = "fill" /\ Done(a)
             \/ Goes(a, [proc[a] EXCEPT !.pc = "next", !.files = @ \ {e}])
    /\ UNCHANGED <<folder_vars, task_vars, scan_vars, fixed, history>>

\* The end of a batch: what was skipped is counted, and the folder saved, most
\* of the time only when the last save is long enough ago.  A refill looks again
\* when it skipped, and at the end itself when it created nothing.
Tally(a) ==
    LET p == proc[a]
    IN  /\ Pc(a, "next") /\ BatchEnds(a)
        /\ folder' = IF InMemory THEN [folder EXCEPT !.skipped = @ + p.left] ELSE folder
        /\ IF ~InMemory \/ (p.mode # "fill" /\ ~p.made /\ p.left = 0) THEN UNCHANGED saved
           ELSE IF p.mode = "restore" THEN Save ELSE MaySave
        /\ IF p.mode = "fill" /\ p.left > 0
           THEN Goes(a, [Idle EXCEPT !.pc = IF p.made THEN "look" ELSE "settle", !.mode = "fill"])
           ELSE Done(a)
        /\ UNCHANGED <<task_vars, scan_vars, fixed, history, events>>

-----------------------------------------------------------------------------
(* The end of a folder                                                     *)

AllTerminal(fo) == fo.completed + fo.skipped + fo.failed >= fo.total

\* finalize_folder_if_done, its first look: does a task still run?
Settle(a) ==
    /\ Pc(a, "settle") /\ To(a, IF SomeActive THEN "look" ELSE "finalize")
    /\ UNCHANGED <<folder_vars, task_vars, scan_vars, fixed, history, events>>

\* finalize_folder_if_done
Finalize(a) ==
    /\ Pc(a, "finalize") /\ To(a, "look")
    /\ IF /\ folder.scanned /\ folder.pending = {} /\ AllTerminal(folder)
          /\ folder.status \notin {"Completed", "Failed", "Cancelled", "Gone"}
       THEN /\ folder' = [folder EXCEPT !.status = IF folder.failed > 0
                                                   THEN "Failed" ELSE "Completed"]
            /\ token' = NoScan /\ Save
       ELSE UNCHANGED <<folder_vars, token>>
    /\ UNCHANGED <<task_vars, stopped, fixed, history, events>>

\* The listener's own check, with the picture it took before.
Judge ==
    LET over == folder.pending = {} /\ folder.scanned /\ ~proc["listener"].live
        end  == CASE over /\ folder.completed + folder.skipped >= folder.total -> "Completed"
                  [] over /\ folder.failed > 0 /\ AllTerminal(folder) -> "Failed"
                  [] OTHER -> folder.status
    IN  /\ Pc("listener", "judge")
        /\ IF folder.status \notin {"Downloading", "Scanning"}
           THEN Done("listener") /\ UNCHANGED <<folder_vars, token>>
           ELSE /\ folder' = [folder EXCEPT !.status = end]
                /\ IF end \in {"Completed", "Failed"}
                   THEN Done("listener") /\ Save /\ token' = NoScan
                   ELSE /\ \E slots \in BOOLEAN :   \* a slot of the folder is free
                              IF slots THEN To("listener", "pick") ELSE Done("listener")
                        /\ UNCHANGED <<saved, token>>
        /\ UNCHANGED <<task_vars, stopped, fixed, history, events>>

-----------------------------------------------------------------------------
(* The listener and the loop                                               *)

\* clear_failed_for_success: a success takes back one failure, of its task or
\* of its file.
Cleared(fo, t, f) ==
    [fo EXCEPT !.failed_tasks = @ \ {t}, !.failed_files = @ \ {f},
               !.failed = IF (t \in fo.failed_tasks \/ f \in fo.failed_files) /\ @ > 0
                          THEN @ - 1 ELSE @]

\* mark_fs_id_completed
MarkCompleted(fo, f) == [fo EXCEPT !.counted = @ \cup {f}, !.pending = Without(@, {f})]

\* A bug: whether the file is counted is asked after it was marked.
SucceededLate(fo, t, f) ==
    LET marked == Cleared(MarkCompleted(fo, f), t, f)
    IN  [marked EXCEPT !.retries[t] = 0,
                       !.completed = IF f \in marked.counted THEN @ ELSE @ + 1]

\* A success counts the file once, whatever task brought it.
Succeeded(fo, t, f) ==
    LET marked == Cleared(MarkCompleted(fo, f), t, f)
    IN  [marked EXCEPT !.retries[t] = 0,
                       !.completed = IF f \in fo.counted THEN @ ELSE @ + 1]

\* A failure is tried again, then counted once per task.
GivenUp(fo, t, f) ==
    IF t \in fo.failed_tasks THEN fo
    ELSE [fo EXCEPT !.failed = @ + 1, !.failed_tasks = @ \cup {t},
                    !.failed_files = @ \cup {f}]

Hear ==
    LET e == Head(sent)
        again == ~e.ok /\ e.file \notin folder.counted /\ folder.retries[e.task] < AutoRetries
    IN  /\ Pc("listener", "idle") /\ sent # <<>> /\ sent' = Tail(sent)
        /\ IF ~InMemory THEN UNCHANGED <<folder, proc>>
           ELSE /\ folder' = CASE e.ok -> Succeeded(folder, e.task, e.file)
                               [] again -> [folder EXCEPT !.retries[e.task] = @ + 1]
                               [] ~e.ok /\ ~again /\ e.file \notin folder.counted ->
                                     GivenUp(folder, e.task, e.file)
                               [] OTHER -> folder
                /\ Goes("listener", [Idle EXCEPT !.pc = IF again THEN "retry" ELSE "look",
                                                 !.arg = IF again THEN e.task ELSE 0])
        /\ UNCHANGED <<saved, task, disk, archived, scan_vars, fixed, history, events>>

\* Is the folder still running? Then the failed task is started again.
Retry ==
    /\ Pc("listener", "retry")
    /\ IF folder.status \in {"Downloading", "Scanning"} THEN To("listener", "restart")
       ELSE Goes("listener", [Idle EXCEPT !.pc = "look"])
    /\ UNCHANGED <<folder_vars, task_vars, scan_vars, fixed, history, events>>

\* DownloadManager::resume_task, for the listener.
Restart ==
    LET t == proc["listener"].arg
    IN  /\ Pc("listener", "restart") /\ Goes("listener", [Idle EXCEPT !.pc = "look"])
        /\ IF There(t) /\ task[t].st \in {"Paused", "Failed"}
           THEN \E at \in {"link", "queue"} :
                   task' = [task EXCEPT ![t].st = "Pending", ![t].at = at]
           ELSE UNCHANGED task
        /\ UNCHANGED <<folder_vars, sent, disk, archived, scan_vars, fixed, history, events>>

\* start_pending_refill_loop, when a slot is free.
Tick ==
    /\ Pc("ticker", "idle") /\ folder.status = "Downloading" /\ folder.pending # {}
    /\ Choice("ticker") # {}
    /\ Goes("ticker", [Idle EXCEPT !.pc = "look", !.mode = "fill"])
    /\ UNCHANGED <<folder_vars, task_vars, scan_vars, fixed, history, events>>

-----------------------------------------------------------------------------
(* The tasks                                                               *)

Set(t, r)  == task' = [task EXCEPT ![t] = r]
Ends(t, st, ok) == /\ Set(t, [task[t] EXCEPT !.st = st, !.at = "idle"])
                   /\ sent' = Append(sent, [task |-> t, file |-> task[t].file, ok |-> ok])

\* try_start_waiting_tasks: a queued task gets a slot and is started.
Launch(t) ==
    /\ task[t].at = "queue" /\ Set(t, [task[t] EXCEPT !.at = "link"])
    /\ UNCHANGED <<folder_vars, sent, disk, archived, scan_vars, proc, fixed, history, events>>

\* prepare_for_scheduling: the output file is made.  What had its name before is
\* moved, and becomes the file that is written.
Prepared(t) ==
    /\ task[t].at = "link" /\ Set(t, [task[t] EXCEPT !.st = "Downloading", !.at = "file"])
    /\ disk' = disk \ {task[t].file}
    /\ UNCHANGED <<folder_vars, sent, archived, scan_vars, proc, fixed, history, events>>

\* handle_task_failure: the preparation failed; try again later, or give up.
NotPrepared(t) ==
    /\ task[t].at = "link" /\ Event
    /\ IF task[t].tries < StartRetries
       THEN /\ Set(t, [task[t] EXCEPT !.st = "Pending", !.at = "queue", !.tries = @ + 1])
            /\ UNCHANGED sent
       ELSE Ends(t, "Failed", FALSE)
    /\ UNCHANGED <<folder_vars, disk, archived, scan_vars, proc, fixed, history>>

\* register_download_task: the task is in the WAL.
Keep(t) ==
    /\ task[t].at = "file" /\ Set(t, [task[t] EXCEPT !.kept = TRUE, !.at = "kept"])
    /\ UNCHANGED <<folder_vars, sent, disk, archived, scan_vars, proc, fixed, history, events>>

\* register_task: chunks are downloaded unless the task was paused meanwhile.
Started(r) == [r EXCEPT !.tries = 0, !.at = IF r.st = "Downloading" THEN "run" ELSE "idle"]

\* drop_pending_file_after_persist, and register_task.
DropPending(t) ==
    /\ task[t].at = "kept" /\ Set(t, Started(task[t]))
    /\ IF InMemory /\ task[t].file \in FilesOf(folder.pending)
       THEN folder' = [folder EXCEPT !.pending = Without(@, {task[t].file})] /\ Save
       ELSE UNCHANGED folder_vars
    /\ UNCHANGED <<sent, disk, archived, scan_vars, proc, fixed, history, events>>

\* The registration fails, which the log says: the task goes on all the same, and
\* its file stays in the queue.
NotKept(t) ==
    /\ task[t].at = "file" /\ Event
    /\ Set(t, Started(task[t]))
    /\ UNCHANGED <<folder_vars, sent, disk, archived, scan_vars, proc, fixed, history>>

\* The last chunk: the file has its name, the task leaves the WAL for the history.
Finish(t) ==
    /\ task[t].at = "run"
    /\ Set(t, [task[t] EXCEPT !.st = "Completed", !.at = "idle", !.kept = FALSE])
    /\ disk' = disk \cup {task[t].file}
    /\ archived' = IF task[t].kept THEN archived \cup {task[t].file} ELSE archived
    /\ bare' = IF skips /\ ~task[t].kept THEN bare \cup {task[t].file} ELSE bare
    /\ UNCHANGED <<folder_vars, sent, scan_vars, proc, fixed, cancelled, events>>

\* The completed task leaves the map, the listener is told.
Report(t) ==
    /\ There(t) /\ task[t].st = "Completed" /\ Ends(t, "gone", TRUE)
    /\ UNCHANGED <<folder_vars, disk, archived, scan_vars, proc, fixed, history, events>>

\* The listener that is told of the progress of downloads saves the folder.
Progress ==
    /\ InMemory /\ task # <<>> /\ saved' = Persisted(folder)
    /\ UNCHANGED <<folder, task_vars, scan_vars, proc, fixed, history, events>>

\* The chunks fail for good.
Break(t) ==
    /\ task[t].at = "run" /\ Event
    /\ Ends(t, "Failed", FALSE)
    /\ UNCHANGED <<folder_vars, disk, archived, scan_vars, proc, fixed, history>>

-----------------------------------------------------------------------------
(* The user                                                                *)

Call == Pc("user", "idle") /\ InMemory /\ Event

\* pause_folder: the status first, and the token of the scan.
Pause ==
    /\ Call /\ folder' = [folder EXCEPT !.status = "Paused"]
    /\ stopped' = stopped \cup ({token} \cap Scans) /\ To("user", "pausing")
    /\ UNCHANGED <<saved, task_vars, token, fixed, history>>

\* cancel_tasks_by_group.  A task whose links are looked for may be paused before
\* it marks itself downloading ("late"), one being registered goes on to be.
Halted(r, late) ==
    CASE r.st \notin {"Downloading", "Pending"} -> r
      [] r.at \in {"file", "kept"}              -> [r EXCEPT !.st = "Paused"]
      [] r.at = "link" /\ late                  -> [r EXCEPT !.st = "Downloading", !.at = "idle"]
      [] OTHER                                  -> [r EXCEPT !.st = "Paused", !.at = "idle"]

PauseTasks ==
    /\ Pc("user", "pausing") /\ To("user", "idle")
    /\ \E late \in SUBSET Present :
          task' = [t \in DOMAIN task |-> Halted(task[t], t \in late)]
    /\ IF InMemory THEN saved' = Persisted(folder) ELSE UNCHANGED saved
    /\ UNCHANGED <<folder, sent, disk, archived, scan_vars, fixed, history, events>>

\* resume_folder: the failures are forgotten, those of files are not.
Resume ==
    /\ Call /\ folder.status \in {"Paused", "Failed"}
    /\ folder' = [IF folder.status = "Paused" THEN folder
                  ELSE [folder EXCEPT !.failed = 0, !.failed_tasks = {},
                                      !.retries = [t \in Tasks |-> 0]]
                  EXCEPT !.status = IF folder.scanned THEN "Downloading" ELSE "Scanning"]
    /\ Goes("user", [Idle EXCEPT !.pc = "resuming", !.live = folder.scanned])
    /\ UNCHANGED <<saved, task_vars, scan_vars, fixed, history>>

\* A task that stands still gets a slot and starts, or is queued as it is.  (One
\* whose registration is under way starts over.)
Again(r, slot) ==
    IF r.st \notin {"Paused", "Failed"} THEN r
    ELSE IF slot THEN [r EXCEPT !.st = "Pending", !.at = "link"]
    ELSE [r EXCEPT !.st = IF @ = "Paused" THEN "Pending" ELSE @, !.at = "queue"]

\* resume_folder, the rest: the tasks, then a new scan or a refill.
ResumeTasks ==
    /\ Pc("user", "resuming")
    /\ \E slots \in SUBSET Present :
          task' = [t \in DOMAIN task |-> Again(task[t], t \in slots)]
    /\ IF InMemory THEN saved' = Persisted(folder) ELSE UNCHANGED saved
    /\ IF proc["user"].live
       THEN Goes("user", [Idle EXCEPT !.pc = "cover", !.mode = "fill"])
       ELSE \E s \in Scans : /\ Pc(s, "new")
                             /\ proc' = [proc EXCEPT ![s].pc = "spawned", !["user"] = Idle]
    /\ UNCHANGED <<folder, sent, disk, archived, scan_vars, fixed, history, events>>

\* cancel_folder: the token, the status; the tasks; then the folder is forgotten,
\* and its file with it (delete_folder).
Cancel ==
    /\ Call /\ folder' = [folder EXCEPT !.status = "Cancelled", !.pending = {}]
    /\ stopped' = stopped \cup ({token} \cap Scans) /\ token' = NoScan
    /\ cancelled' = TRUE
    /\ To("user", "deleting")
    /\ UNCHANGED <<saved, task_vars, fixed, bare>>

CancelTasks ==
    /\ Pc("user", "deleting") /\ To("user", "forgetting")
    /\ task' = [t \in DOMAIN task |-> [task[t] EXCEPT !.st = "gone", !.at = "idle", !.kept = FALSE]]
    /\ UNCHANGED <<folder_vars, sent, disk, archived, scan_vars, fixed, history, events>>

Forget ==
    /\ Pc("user", "forgetting") /\ To("user", "idle")
    /\ folder' = [folder EXCEPT !.status = "Gone"] /\ saved' = Persisted(folder')
    /\ UNCHANGED <<task_vars, scan_vars, fixed, history, events>>

\* The program stops, and restores what it finds (restore_folders,
\* prefill_paused_tasks).
Crash ==
    /\ Event
    /\ folder' = [Restored(saved) EXCEPT
                    !.status = IF @ \in {"Completed", "Cancelled", "Gone"} THEN "Gone" ELSE "Paused"]
    /\ Save
    /\ task' = [t \in DOMAIN task |->
                  IF task[t].kept THEN [task[t] EXCEPT !.st = "Paused", !.at = "idle", !.tries = 0]
                  ELSE [task[t] EXCEPT !.st = "gone", !.at = "idle"]]
    /\ sent' = <<>> /\ token' = NoScan /\ stopped' = {}
    /\ proc' = [a \in Actors |->
                  CASE a \in Scans -> IF Pc(a, "new") THEN proc[a] ELSE Over
                    [] a = "user" /\ folder'.status = "Paused" /\ saved.scanned
                                  /\ saved.pending # {} ->
                         [Idle EXCEPT !.pc = "cover", !.mode = "restore"]
                    [] OTHER -> Idle]
    /\ UNCHANGED <<disk, archived, fixed, history>>

-----------------------------------------------------------------------------
ScanStep(s) == StartScan(s) \/ ScanPage(s) \/ ScanFails(s) \/ ScanEnds(s) \/ Leave(s)
Creates(a)  == Cover(a) \/ Reconcile(a) \/ Look(a) \/ Pick(a) \/ Enough(a)
               \/ CheckRunning(a) \/ Skip(a) \/ Make(a) \/ CannotMake(a) \/ Tally(a) \/ Settle(a) \/ Finalize(a)
Listen      == Judge \/ Hear \/ Retry \/ Restart
TaskStep(t) == Launch(t) \/ Prepared(t) \/ NotPrepared(t) \/ Keep(t) \/ DropPending(t)
               \/ NotKept(t) \/ Finish(t) \/ Report(t) \/ Break(t)
UserStep    == Pause \/ PauseTasks \/ Resume \/ ResumeTasks \/ Cancel \/ CancelTasks \/ Forget

Next == \/ \E s \in Scans : ScanStep(s)
        \/ \E a \in Actors : Creates(a)
        \/ Listen \/ Tick \/ Progress
        \/ \E t \in 1..Len(task) : TaskStep(t)
        \/ UserStep \/ Crash

Spec == Init /\ [][Next]_vars

-----------------------------------------------------------------------------
\* A file that a scan found is never dropped between two hands, whatever the
\* listener, the loop, scans, the user, the tasks and restarts do in between: it
\* is in the queue, has a task, or is done.  (Of the files in "bare" see NoFileLost.)
NothingDropped ==
    cancelled \/ \A f \in folder.listed \ bare :
                   \/ f \in FilesOf(folder.pending) \cup Covered
                   \/ f \in folder.counted \cup archived
                   \/ skips /\ f \in disk

\* What the program finds of a file when it starts again.
OnDisk(f) == \/ f \in FilesOf(saved.pending) \cup saved.counted \cup archived \cup Kept
             \/ skips /\ f \in disk

\* If the program stops now, what it has on disk finds each file of the folder
\* again (persist_folder, register_download_task).
RestartFindsAll == cancelled \/ \A f \in saved.listed \ bare : OnDisk(f)

\* Each success that is known by its file has raised the count of completed
\* files, also over a restart and a reconciliation with the history.
CountsAgree == Cardinality(folder.counted) <= folder.completed

\* A file leaves pending_files only when its task is persisted, else a restart
\* loses it for ever (the comment of drop_pending_file_after_persist).  Does not
\* hold: a reconciliation takes it earlier.
NoFileLost == cancelled \/ \A f \in saved.listed : OnDisk(f)

\* Two tasks never bring one file, as picking leaves out the files that have a
\* task (the same comment).  Does not hold: two actors may pick at once.
NoTwins == \A t, u \in Present : t # u => task[t].file # task[u].file

\* Completed is said of a folder each file of which was reported, is in the history or
\* was skipped.  Does not hold: a file that two actors skip, or whose report was
\* under way during a reconciliation, is counted twice.
CompletedIsWhole ==
    folder.status = "Completed" =>
        \A f \in folder.listed \ bare : f \in folder.counted \cup archived \/ (skips /\ f \in disk)

\* A pause during a scan does not end it: the rest is listed after the resume.
\* Does not hold: the interrupted scan says that it is complete.
ScannedIsWhole == folder.scanned => folder.listed = AllFiles \/ cancelled
=============================================================================
