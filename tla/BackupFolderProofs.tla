-------------------------- MODULE BackupFolderProofs --------------------------
(***************************************************************************)
(* Proofs about FolderDownload and BackupTask, the two parts that          *)
(* MCBackupFolder runs side by side, for any files, scans, tasks, faults   *)
(* and bounds.                                                             *)
(*                                                                         *)
(* The download of a folder: every state is of its type; the count of      *)
(* completed files never falls behind the files that are known to be       *)
(* completed; and no file that a scan found is dropped, in memory or by a  *)
(* restart.  The backups: a record says that a backup exists, and a file   *)
(* that a task calls done is on the netdisk.                               *)
(***************************************************************************)
EXTENDS MCBackupFolder, FiniteSetTheorems, TLAPS

-----------------------------------------------------------------------------
(* The download of a folder                                                *)

\* The count covers the files counted, in the folder or in what is saved of it.
Counts(fo) ==
    /\ {"counted", "completed"} \subseteq DOMAIN fo
    /\ IsFiniteSet(fo.counted) /\ fo.completed \in Nat
    /\ Cardinality(fo.counted) <= fo.completed

\* An actor between the two halves of a reconciliation remembers a number.
Remembers(p) ==
    /\ {"pc", "arg"} \subseteq DOMAIN p
    /\ p.pc = "reconcile" => p.arg \in Nat

\* CountsAgree is inductive with what is on disk, where a restart reads it, and
\* with the length of the history that a reconciliation has read.
ProcInv  == DOMAIN proc = Actors /\ \A a \in Actors : Remembers(proc[a])
CountInv == Counts(folder) /\ Counts(saved) /\ IsFiniteSet(archived) /\ ProcInv

\* An actor that does nothing remembers no history.
LEMMA IdleRemembers ==
    /\ {"pc", "arg"} \subseteq DOMAIN Idle
    /\ Idle.pc = "idle" /\ Over.pc = "over" /\ {"pc", "arg"} \subseteq DOMAIN Over
    /\ Remembers(Idle) /\ Remembers(Over)
BY DEF Idle, Over, Remembers

\* What is saved of a folder, and what a restart makes of it, counts as it does.
LEMMA SavedCounts == ASSUME NEW fo, Counts(fo) PROVE Counts(Persisted(fo))
BY DEF Counts, Persisted

\* The same of what a restart makes of it.
LEMMA RestoredCounts == ASSUME NEW p, Counts(p) PROVE Counts(Restored(p))
BY DEF Counts, Restored

\* A success is counted with its file.
LEMMA SucceededCounts ==
    ASSUME NEW fo, Counts(fo), NEW t, NEW f
    PROVE  Counts(Succeeded(fo, t, f))
<1> DEFINE new == Succeeded(fo, t, f)
           marked == Cleared(MarkCompleted(fo, f), t, f)
<1>1. /\ {"counted", "completed"} \subseteq DOMAIN marked
      /\ marked.counted = fo.counted \cup {f} /\ marked.completed = fo.completed
  BY DEF Counts, MarkCompleted, Cleared
<1>2. /\ {"counted", "completed"} \subseteq DOMAIN new
      /\ new.counted = fo.counted \cup {f}
      /\ new.completed = IF f \in fo.counted THEN fo.completed ELSE fo.completed + 1
  <2> HIDE DEF marked
  <2>1. new = [marked EXCEPT !.retries[t] = 0,
                             !.completed = IF f \in fo.counted THEN @ ELSE @ + 1]
    BY DEF Succeeded, marked
  <2> HIDE DEF new
  <2> QED BY <1>1, <2>1
<1>3. /\ IsFiniteSet(fo.counted \cup {f})
      /\ Cardinality(fo.counted \cup {f}) =
           IF f \in fo.counted THEN Cardinality(fo.counted) ELSE Cardinality(fo.counted) + 1
  BY FS_AddElement DEF Counts
<1>4. Cardinality(fo.counted) \in Nat
  BY FS_CardinalityType DEF Counts
<1>5. Counts(new)
  <2> HIDE DEF new
  <2> QED BY <1>2, <1>3, <1>4 DEF Counts
<1> QED BY <1>5

\* Where an actor may go without having read the history.
LEMMA Went ==
    ASSUME ProcInv, NEW a \in Actors, NEW r, Goes(a, r), Remembers(r)
    PROVE  ProcInv'
BY DEF ProcInv, Goes, Remembers

\* Only a reconciliation remembers the history.
LEMMA SetPcRemembers ==
    ASSUME ProcInv, NEW a \in Actors, NEW pc, pc # "reconcile"
    PROVE  Remembers([proc[a] EXCEPT !.pc = pc])
BY DEF ProcInv, Remembers

\* The same when only the place changes,
LEMMA WentTo ==
    ASSUME ProcInv, NEW a \in Actors, NEW pc, pc # "reconcile", To(a, pc)
    PROVE  ProcInv'
<1>1. Goes(a, [proc[a] EXCEPT !.pc = pc])
  BY DEF To
<1> QED BY <1>1, SetPcRemembers, Went

\* and when there is no more to create.
LEMMA WentDone ==
    ASSUME ProcInv, NEW a \in Actors, Done(a)
    PROVE  ProcInv'
<1>1. Remembers([Idle EXCEPT !.pc = "leave"]) /\ Remembers(Idle)
  BY DEF Idle, Remembers
<1>2. Goes(a, [Idle EXCEPT !.pc = "leave"]) \/ Goes(a, Idle)
  BY DEF Done
<1> QED BY <1>1, <1>2, Went

\* The named actors.
LEMMA NamedActors == "listener" \in Actors /\ "ticker" \in Actors /\ "user" \in Actors
                     /\ Scans \subseteq Actors
BY DEF Actors

\* What a step may do to the folder and its file without touching the count.
LEMMA FolderKeeps ==
    ASSUME CountInv, ProcInv', Counts(folder'), Counts(saved') \/ saved' \in {saved, Persisted(folder')},
           IsFiniteSet(archived')
    PROVE  CountInv'
BY SavedCounts DEF CountInv, Counts

\* What a step may do without touching the folder.
LEMMA StillKeeps ==
    ASSUME CountInv, ProcInv', UNCHANGED <<folder, archived>>,
           saved' \in {saved, Persisted(folder)}
    PROVE  CountInv'
BY SavedCounts DEF CountInv, Counts

\* Scans never touch the count.
LEMMA ScanKeeps ==
    ASSUME CountInv, NEW s \in Scans, ScanStep(s)
    PROVE  CountInv'
<1> USE NamedActors
<1>0. ProcInv /\ s \in Actors
  BY DEF CountInv
<1>1. CASE StartScan(s)
  <2>1. Remembers([proc[s] EXCEPT !.pc = "relist", !.arg = 1])
    BY <1>0 DEF ProcInv, Remembers
  <2>2. ProcInv'
    BY <1>0, <1>1, <2>1, Went, IdleRemembers DEF StartScan
  <2> QED BY <1>1, <2>2, StillKeeps DEF StartScan, folder_vars, task_vars
<1>2. CASE ScanPage(s)
  <2>1. Remembers([proc[s] EXCEPT !.arg = @ + 1])
    BY <1>0, <1>2 DEF ProcInv, Remembers, ScanPage, Listing, Pc
  <2>2. ProcInv'
    BY <1>0, <1>2, <2>1, Went DEF ScanPage
  <2>3. Counts(folder')
    BY <1>2 DEF ScanPage, CountInv, Counts
  <2> QED BY <1>2, <2>2, <2>3, FolderKeeps DEF ScanPage, task_vars, CountInv
<1>3. CASE ScanFails(s)
  <2>1. ProcInv'
    BY <1>0, <1>3, Went, IdleRemembers DEF ScanFails
  <2>2. Counts(folder')
    BY <1>3 DEF ScanFails, CountInv, Counts
  <2> QED BY <1>3, <2>1, <2>2, FolderKeeps DEF ScanFails, task_vars, CountInv
<1>4. CASE ScanEnds(s)
  <2>1. Remembers([Idle EXCEPT !.pc = "cover", !.mode = "fill"])
    BY DEF Idle, Remembers
  <2>2. ProcInv'
    BY <1>0, <1>4, <2>1, Went DEF ScanEnds
  <2>3. Counts(folder')
    BY <1>4 DEF ScanEnds, CountInv, Counts
  <2> QED BY <1>4, <2>2, <2>3, FolderKeeps DEF ScanEnds, task_vars, CountInv
<1>5. CASE Leave(s)
  <2>1. ProcInv'
    BY <1>0, <1>5, Went, IdleRemembers DEF Leave
  <2> QED BY <1>5, <2>1, StillKeeps DEF Leave, task_vars
<1> QED BY <1>1, <1>2, <1>3, <1>4, <1>5 DEF ScanStep

\* Creating tasks: only a reconciliation touches the count, and raises it.
LEMMA CreatesKeeps ==
    ASSUME CountInv, NEW a \in Actors, Creates(a)
    PROVE  CountInv'
<1>0. ProcInv /\ IsFiniteSet(archived) /\ Counts(folder) /\ Counts(saved)
  BY DEF CountInv
<1>1. CASE Cover(a)
  <2>1. ASSUME NEW covered
        PROVE  Remembers([proc[a] EXCEPT !.pc = "reconcile", !.seen = covered,
                                         !.arg = Cardinality(archived)])
    BY <1>0, FS_CardinalityType DEF ProcInv, Remembers
  <2>2. ProcInv'
    <3>1. CASE To(a, "look")
      BY <1>0, <3>1, WentTo
    <3>2. CASE \E covered : Goes(a, [proc[a] EXCEPT !.pc = "reconcile", !.seen = covered,
                                                    !.arg = Cardinality(archived)])
      BY <1>0, <2>1, <3>2, Went
    <3> QED BY <1>1, <3>1, <3>2 DEF Cover
  <2> QED BY <1>1, <2>2, StillKeeps DEF Cover, folder_vars, task_vars
<1>2. CASE Reconcile(a)
  <2>1. Remembers([Idle EXCEPT !.pc = "look", !.mode = proc[a].mode])
    BY DEF Idle, Remembers
  <2>2. ProcInv'
    BY <1>0, <1>2, <2>1, Went DEF Reconcile
  <2>3. CASE ~InMemory
    BY <1>2, <2>2, <2>3, StillKeeps DEF Reconcile, folder_vars, task_vars
  <2>4. CASE InMemory
    <3>1. proc[a].arg \in Nat
      BY <1>0, <1>2 DEF ProcInv, Remembers, Reconcile, Pc
    <3>2. folder' = [folder EXCEPT !.pending = Without(@, proc[a].seen),
                              !.completed = IF proc[a].arg > @ THEN proc[a].arg ELSE @]
      BY <1>2, <2>4 DEF Reconcile
    <3>3. /\ {"counted", "completed"} \subseteq DOMAIN folder'
          /\ folder'.counted = folder.counted
          /\ folder'.completed = IF proc[a].arg > folder.completed THEN proc[a].arg
                                                                 ELSE folder.completed
      BY <1>0, <3>2 DEF Counts
    <3>4. Cardinality(folder.counted) \in Nat
      BY <1>0, FS_CardinalityType DEF Counts
    <3>5. Counts(folder')
      BY <1>0, <3>1, <3>3, <3>4 DEF Counts
    <3>6. archived' = archived /\ saved' \in {saved, Persisted(folder')}
      BY <1>2, <2>4 DEF Reconcile, Save, task_vars
    <3> QED BY <1>0, <2>2, <3>5, <3>6, FolderKeeps
  <2> QED BY <2>3, <2>4
<1>3. CASE Look(a)
  <2>1. ASSUME NEW pc, pc # "reconcile", NEW seen, NEW live
        PROVE  Remembers([proc[a] EXCEPT !.pc = pc, !.seen = seen, !.live = live])
    BY <1>0, <2>1 DEF ProcInv, Remembers
  <2>2. (IF a = "listener" THEN "judge" ELSE "pick") # "reconcile"
    OBVIOUS
  <2>3. ProcInv'
    BY <1>0, <1>3, <2>1, <2>2, Went DEF Look
  <2> QED BY <1>3, <2>3, StillKeeps DEF Look, folder_vars, task_vars
<1>4. CASE Pick(a)
  <2>1. ASSUME NEW mode, NEW files
        PROVE  Remembers([Idle EXCEPT !.pc = "next", !.mode = mode, !.files = files])
    BY DEF Idle, Remembers
  <2>2. \/ Done(a)
        \/ \E mode, files : Goes(a, [Idle EXCEPT !.pc = "next", !.mode = mode, !.files = files])
    BY <1>4 DEF Pick
  <2>3. ProcInv'
    BY <1>0, <2>1, <2>2, Went, WentDone
  <2>4. Counts(folder')
    BY <1>0, <1>4 DEF Pick, Counts
  <2> QED BY <1>0, <1>4, <2>3, <2>4, FolderKeeps DEF Pick, task_vars
<1>5. CASE CheckRunning(a)
  <2>1. ProcInv'
    BY <1>0, <1>5, WentTo DEF CheckRunning
  <2> QED BY <1>5, <2>1, StillKeeps DEF CheckRunning, folder_vars, task_vars
<1>6. CASE Skip(a)
  <2>1. ASSUME NEW e
        PROVE  Remembers([proc[a] EXCEPT !.pc = "next", !.files = @ \ {e}, !.left = @ + 1])
    BY <1>0 DEF ProcInv, Remembers
  <2>2. ProcInv'
    BY <1>0, <1>6, <2>1, Went DEF Skip
  <2>3. Counts(folder')
    BY <1>0, <1>6 DEF Skip, Counts
  <2> QED BY <1>0, <1>6, <2>2, <2>3, FolderKeeps DEF Skip, task_vars
<1>7. CASE Make(a)
  <2>1. ASSUME NEW e
        PROVE  Remembers([proc[a] EXCEPT !.pc = "next", !.files = @ \ {e}, !.made = TRUE])
    BY <1>0 DEF ProcInv, Remembers
  <2>2. ProcInv'
    BY <1>0, <1>7, <2>1, Went DEF Make
  <2> QED BY <1>7, <2>2, StillKeeps DEF Make, folder_vars
<1>8. CASE Tally(a)
  <2>1. ASSUME NEW pc \in {"look", "settle"}
        PROVE  Remembers([Idle EXCEPT !.pc = pc, !.mode = "fill"])
    BY DEF Idle, Remembers
  <2>2. \/ Done(a)
        \/ \E pc \in {"look", "settle"} : Goes(a, [Idle EXCEPT !.pc = pc, !.mode = "fill"])
    BY <1>8 DEF Tally
  <2>3. ProcInv'
    BY <1>0, <2>1, <2>2, Went, WentDone
  <2>4. Counts(folder')
    BY <1>0, <1>8 DEF Tally, Counts
  <2>5. archived' = archived /\ saved' \in {saved, Persisted(folder')}
    BY <1>8 DEF Tally, Save, MaySave, task_vars
  <2> QED BY <1>0, <2>3, <2>4, <2>5, FolderKeeps
<1>9. CASE Settle(a)
  <2>1. ProcInv'
    BY <1>0, <1>9, WentTo DEF Settle
  <2> QED BY <1>9, <2>1, StillKeeps DEF Settle, folder_vars, task_vars
<1>10. CASE Finalize(a)
  <2>1. ProcInv'
    BY <1>0, <1>10, WentTo DEF Finalize
  <2>2. Counts(folder')
    BY <1>0, <1>10 DEF Finalize, Counts, folder_vars
  <2>3. archived' = archived /\ saved' \in {saved, Persisted(folder')}
    BY <1>10 DEF Finalize, Save, task_vars, folder_vars
  <2> QED BY <1>0, <2>1, <2>2, <2>3, FolderKeeps
<1>11. CASE Enough(a)
  <2>1. ProcInv'
    BY <1>0, <1>11, WentDone DEF Enough
  <2> QED BY <1>11, <2>1, StillKeeps DEF Enough, folder_vars, task_vars
<1>12. CASE CannotMake(a)
  <2>1. ASSUME NEW q PROVE Remembers([proc[a] EXCEPT !.pc = "next", !.files = q])
    BY <1>0 DEF ProcInv, Remembers
  <2>2. Done(a) \/ \E q : Goes(a, [proc[a] EXCEPT !.pc = "next", !.files = q])
    BY <1>12 DEF CannotMake
  <2>3. ProcInv'
    BY <1>0, <2>1, <2>2, Went, WentDone
  <2> QED BY <1>12, <2>3, StillKeeps DEF CannotMake, folder_vars, task_vars
<1> QED BY <1>1, <1>2, <1>3, <1>4, <1>5, <1>6, <1>7, <1>8, <1>9, <1>10, <1>11, <1>12 DEF Creates

\* The listener and the loop: a success is the only thing counted.
LEMMA ListenKeeps ==
    ASSUME CountInv, Listen \/ Tick
    PROVE  CountInv'
<1> USE NamedActors
<1>0. ProcInv /\ IsFiniteSet(archived) /\ Counts(folder) /\ Counts(saved)
  BY DEF CountInv
<1>1. CASE Judge
  <2>1. Done("listener") \/ To("listener", "pick")
    BY <1>1 DEF Judge
  <2>2. ProcInv'
    BY <1>0, <2>1, WentTo, WentDone
  <2>3. Counts(folder') /\ saved' \in {saved, Persisted(folder')}
    <3>1. folder' = folder \/ \E end : folder' = [folder EXCEPT !.status = end]
      BY <1>1 DEF Judge, folder_vars
    <3>2. saved' \in {saved, Persisted(folder')}
      BY <1>1 DEF Judge, Save, folder_vars
    <3> QED BY <1>0, <3>1, <3>2 DEF Counts
  <2>4. archived' = archived
    BY <1>1 DEF Judge, task_vars
  <2> QED BY <1>0, <2>2, <2>3, <2>4, FolderKeeps
<1>2. CASE Hear
  <2>1. CASE ~InMemory
    <3>1. ProcInv'
      BY <1>0, <1>2, <2>1 DEF Hear, ProcInv, Remembers
    <3> QED BY <1>2, <2>1, <3>1, StillKeeps DEF Hear
  <2>2. CASE InMemory
    <3>1. ASSUME NEW pc \in {"retry", "look"}, NEW arg
          PROVE  Remembers([Idle EXCEPT !.pc = pc, !.arg = arg])
      BY DEF Idle, Remembers
    <3>2. \E pc \in {"retry", "look"} : \E arg : Goes("listener", [Idle EXCEPT !.pc = pc, !.arg = arg])
      BY <1>2, <2>2 DEF Hear
    <3>3. ProcInv'
      BY <1>0, <3>1, <3>2, Went
    <3>4. Counts(folder')
      <4>1. \/ folder' = folder
            \/ \E t, f : folder' = Succeeded(folder, t, f)
            \/ \E t : folder' = [folder EXCEPT !.retries[t] = @ + 1]
            \/ \E t, f : folder' = GivenUp(folder, t, f)
        BY <1>2, <2>2 DEF Hear
      <4>2. ASSUME NEW t PROVE Counts([folder EXCEPT !.retries[t] = @ + 1])
        BY <1>0 DEF Counts
      <4>3. ASSUME NEW t, NEW f PROVE Counts(GivenUp(folder, t, f))
        BY <1>0 DEF Counts, GivenUp
      <4> QED BY <1>0, <4>1, <4>2, <4>3, SucceededCounts
    <3>5. archived' = archived /\ saved' = saved
      BY <1>2 DEF Hear
    <3> QED BY <1>0, <3>3, <3>4, <3>5, FolderKeeps
  <2> QED BY <2>1, <2>2
<1>3. CASE Retry
  <2>1. Remembers([Idle EXCEPT !.pc = "look"])
    BY DEF Idle, Remembers
  <2>2. ProcInv'
    BY <1>0, <1>3, <2>1, Went, WentTo DEF Retry
  <2> QED BY <1>3, <2>2, StillKeeps DEF Retry, folder_vars, task_vars
<1>4. CASE Restart
  <2>1. Remembers([Idle EXCEPT !.pc = "look"])
    BY DEF Idle, Remembers
  <2>2. ProcInv'
    BY <1>0, <1>4, <2>1, Went DEF Restart
  <2> QED BY <1>4, <2>2, StillKeeps DEF Restart, folder_vars
<1>5. CASE Tick
  <2>1. Remembers([Idle EXCEPT !.pc = "look", !.mode = "fill"])
    BY DEF Idle, Remembers
  <2>2. ProcInv'
    BY <1>0, <1>5, <2>1, Went DEF Tick
  <2> QED BY <1>5, <2>2, StillKeeps DEF Tick, folder_vars, task_vars
<1> QED BY <1>1, <1>2, <1>3, <1>4, <1>5 DEF Listen

\* A task adds at most its own file to the history.
LEMMA TaskKeeps ==
    ASSUME CountInv, NEW t, TaskStep(t)
    PROVE  CountInv'
<1>0. ProcInv /\ IsFiniteSet(archived) /\ Counts(folder) /\ Counts(saved)
  BY DEF CountInv
<1>1. proc' = proc
  BY DEF TaskStep, Launch, Prepared, NotPrepared, Keep, DropPending, NotKept, Finish, Report, Break
<1>2. ProcInv'
  BY <1>0, <1>1 DEF ProcInv, Remembers
<1>3. CASE DropPending(t)
  <2>1. Counts(folder')
    BY <1>0, <1>3 DEF DropPending, Counts, folder_vars
  <2>2. archived' = archived /\ saved' \in {saved, Persisted(folder')}
    BY <1>3 DEF DropPending, Save, folder_vars
  <2> QED BY <1>0, <1>2, <2>1, <2>2, FolderKeeps
<1>4. CASE Finish(t)
  <2>1. archived' \in {archived, archived \cup {task[t].file}} /\ UNCHANGED folder_vars
    BY <1>4 DEF Finish
  <2>2. IsFiniteSet(archived')
    BY <1>0, <2>1, FS_AddElement
  <2> QED BY <1>0, <1>2, <2>1, <2>2, FolderKeeps DEF folder_vars
<1>5. CASE \/ Launch(t) \/ Prepared(t) \/ NotPrepared(t) \/ Keep(t) \/ NotKept(t)
              \/ Report(t) \/ Break(t)
  <2>1. UNCHANGED <<folder, saved, archived>>
    BY <1>5 DEF Launch, Prepared, NotPrepared, Keep, NotKept, Report, Break, folder_vars
  <2> QED BY <1>2, <2>1, StillKeeps
<1> QED BY <1>3, <1>4, <1>5 DEF TaskStep

\* The user changes the status, the queue and the failures, never the count.
LEMMA UserKeeps ==
    ASSUME CountInv, UserStep
    PROVE  CountInv'
<1> USE NamedActors
<1>0. ProcInv /\ IsFiniteSet(archived) /\ Counts(folder) /\ Counts(saved)
  BY DEF CountInv
<1>1. CASE Pause
  <2>1. ProcInv'
    BY <1>0, <1>1, WentTo DEF Pause
  <2>2. Counts(folder')
    BY <1>0, <1>1 DEF Pause, Counts
  <2> QED BY <1>0, <1>1, <2>1, <2>2, FolderKeeps DEF Pause, task_vars
<1>2. CASE PauseTasks
  <2>1. ProcInv'
    BY <1>0, <1>2, WentTo DEF PauseTasks
  <2> QED BY <1>2, <2>1, StillKeeps DEF PauseTasks
<1>3. CASE Resume
  <2>1. ASSUME NEW live PROVE Remembers([Idle EXCEPT !.pc = "resuming", !.live = live])
    BY DEF Idle, Remembers
  <2>2. ProcInv'
    BY <1>0, <1>3, <2>1, Went DEF Resume
  <2>3. Counts(folder')
    BY <1>0, <1>3 DEF Resume, Counts
  <2> QED BY <1>0, <1>3, <2>2, <2>3, FolderKeeps DEF Resume, task_vars
<1>4. CASE ResumeTasks
  <2>1. Remembers([Idle EXCEPT !.pc = "cover", !.mode = "fill"])
    BY DEF Idle, Remembers
  <2>2. ASSUME NEW s \in Scans, proc' = [proc EXCEPT ![s].pc = "spawned", !["user"] = Idle]
        PROVE  ProcInv'
    <3>1. Remembers([proc[s] EXCEPT !.pc = "spawned"])
      BY <1>0, SetPcRemembers
    <3>2. /\ DOMAIN proc' = Actors
          /\ \A a \in Actors : proc'[a] \in {proc[a], Idle, [proc[s] EXCEPT !.pc = "spawned"]}
      BY <1>0, <2>2 DEF ProcInv
    <3> QED BY <1>0, <3>1, <3>2, IdleRemembers DEF ProcInv
  <2>3. ProcInv'
    BY <1>0, <1>4, <2>1, <2>2, Went DEF ResumeTasks
  <2> QED BY <1>4, <2>3, StillKeeps DEF ResumeTasks
<1>5. CASE Cancel
  <2>1. ProcInv'
    BY <1>0, <1>5, WentTo DEF Cancel
  <2>2. Counts(folder') /\ Counts(saved')
    BY <1>0, <1>5 DEF Cancel, Counts
  <2> QED BY <1>0, <1>5, <2>1, <2>2, FolderKeeps DEF Cancel, task_vars
<1>6. CASE CancelTasks
  <2>1. ProcInv'
    BY <1>0, <1>6, WentTo DEF CancelTasks
  <2> QED BY <1>6, <2>1, StillKeeps DEF CancelTasks, folder_vars
<1>7. CASE Forget
  <2>1. ProcInv'
    BY <1>0, <1>7, WentTo DEF Forget
  <2>2. Counts(folder')
    BY <1>0, <1>7 DEF Forget, Counts
  <2> QED BY <1>0, <1>7, <2>1, <2>2, FolderKeeps DEF Forget, task_vars
<1> QED BY <1>1, <1>2, <1>3, <1>4, <1>5, <1>6, <1>7 DEF UserStep

\* A restart counts what the last save had counted.
LEMMA CrashKeeps ==
    ASSUME CountInv, Crash
    PROVE  CountInv'
<1>0. ProcInv /\ IsFiniteSet(archived) /\ Counts(saved)
  BY DEF CountInv
<1>1. Counts(Restored(saved))
  BY <1>0, RestoredCounts
<1>2. \E st : folder' = [Restored(saved) EXCEPT !.status = st]
  BY DEF Crash
<1>3. Counts(folder')
  BY <1>1, <1>2 DEF Counts
<1>4. saved' = Persisted(folder') /\ archived' = archived
  BY DEF Crash, Save
<1>5. ProcInv'
  <2>1. Remembers([Idle EXCEPT !.pc = "cover", !.mode = "restore"])
    BY DEF Idle, Remembers
  <2>2. /\ DOMAIN proc' = Actors
        /\ \A a \in Actors : proc'[a] \in {proc[a], Over, Idle,
                                 [Idle EXCEPT !.pc = "cover", !.mode = "restore"]}
    BY DEF Crash
  <2> QED BY <1>0, <2>1, <2>2, IdleRemembers DEF ProcInv
<1> QED BY <1>0, <1>3, <1>4, <1>5, FolderKeeps DEF CountInv

\* At first nothing is counted.
LEMMA InitCounts == Init => CountInv
<1> SUFFICES ASSUME Init PROVE CountInv
  OBVIOUS
<1>1. Counts(New)
  BY FS_EmptySet DEF New, Counts
<1>2. Counts(folder) /\ Counts(saved)
  BY <1>1, RestoredCounts DEF Init
<1>3. IsFiniteSet(archived)
  BY FS_EmptySet DEF Init
<1>4. ProcInv
  <2>1. /\ Remembers([Idle EXCEPT !.pc = "list", !.arg = 1])
        /\ Remembers([Idle EXCEPT !.pc = "new"])
    BY DEF Idle, Remembers
  <2>2. /\ DOMAIN proc = Actors
        /\ \A a \in Actors : proc[a] \in {Idle, [Idle EXCEPT !.pc = "list", !.arg = 1],
                                         [Idle EXCEPT !.pc = "new"]}
    BY DEF Init
  <2> QED BY <2>1, <2>2, IdleRemembers DEF ProcInv
<1> QED BY <1>2, <1>3, <1>4 DEF CountInv

\* Every step keeps the invariant.
LEMMA NextCounts == CountInv /\ [Next]_vars => CountInv'
<1> SUFFICES ASSUME CountInv, [Next]_vars PROVE CountInv'
  OBVIOUS
<1>1. CASE UNCHANGED vars
  BY <1>1 DEF vars, folder_vars, task_vars, CountInv, Counts, ProcInv, Remembers
<1>2. CASE Progress
  <2>1. ProcInv'
    BY <1>2 DEF Progress, CountInv, ProcInv, Remembers
  <2> QED BY <1>2, <2>1, StillKeeps DEF Progress, task_vars
<1> QED BY <1>1, <1>2, ScanKeeps, CreatesKeeps, ListenKeeps, TaskKeeps, UserKeeps, CrashKeeps DEF Next

\* CountsAgree holds in every behaviour: no restart, reconciliation with the history, repeated
\* report or race of the listener with the others leaves the count of completed files behind
\* the files that were counted, so that a folder whose files all succeeded can be concluded.
THEOREM CountNeverBehind == Spec => []CountsAgree
<1>1. Init => CountInv
  BY InitCounts
<1>2. CountInv /\ [Next]_vars => CountInv'
  BY NextCounts
<1>3. CountInv => CountsAgree
  BY DEF CountInv, Counts, CountsAgree
<1> QED BY <1>1, <1>2, <1>3, PTL DEF Spec

-----------------------------------------------------------------------------
(* Types                                                                   *)

Workplaces == [Actors -> Workers]

\* The states of an actor that does nothing.
LEMMA IdleType == Idle \in Workers /\ Over \in Workers
BY DEF Idle, Over, Workers, Places

\* An actor that goes to a typed state.
LEMMA GoesType ==
    ASSUME TypeOK, NEW a \in Actors, NEW r \in Workers, Goes(a, r)
    PROVE  proc' \in Workplaces
BY DEF TypeOK, Goes, Workplaces

\* An actor that changes its place.
LEMMA ToType ==
    ASSUME TypeOK, NEW a \in Actors, NEW pc \in Places, To(a, pc)
    PROVE  proc' \in Workplaces
<1>1. [proc[a] EXCEPT !.pc = pc] \in Workers
  BY DEF TypeOK, Workers
<1> QED BY <1>1, GoesType DEF To

\* An actor that has no more to create.
LEMMA DoneType ==
    ASSUME TypeOK, NEW a \in Actors, Done(a)
    PROVE  proc' \in Workplaces
<1>1. [Idle EXCEPT !.pc = "leave"] \in Workers
  BY DEF Idle, Workers, Places
<1> QED BY <1>1, IdleType, GoesType DEF Done

\* What is saved of a folder is a record,
LEMMA PersistedType == ASSUME NEW fo \in Folders PROVE Persisted(fo) \in Records
BY DEF Persisted, Folders, Records

\* and what is restored of a record is a folder.
LEMMA RestoredType == ASSUME NEW p \in Records PROVE Restored(p) \in Folders
BY DEF Restored, Folders, Records

\* A part of a queue is a queue,
LEMMA WithoutType ==
    ASSUME NEW q \in SUBSET Entries, NEW fs
    PROVE  Without(q, fs) \in SUBSET Entries
BY DEF Without

\* its files are files,
LEMMA FilesType == ASSUME NEW q \in SUBSET Entries PROVE FilesOf(q) \in SUBSET Nat
BY DEF FilesOf, Entries

\* and so are those of the tasks.
LEMMA CoveredType == ASSUME TypeOK PROVE Covered \in SUBSET Nat
<1>1. ASSUME NEW t \in 1..Len(task) PROVE task[t].file \in Nat
  <2>1. task[t] \in Subtasks
    BY DEF TypeOK
  <2> QED BY <2>1 DEF Subtasks
<1> QED BY <1>1 DEF Covered, Present

\* A step keeps the types when what it changes keeps them.
LEMMA FolderTypes ==
    ASSUME TypeOK, folder' \in Folders, saved' \in {saved, Persisted(folder), Persisted(folder')},
           proc' \in Workplaces, task' \in Seq(Subtasks), sent' \in Seq(Notices),
           disk' \subseteq Nat, archived' \subseteq Nat, bare' \subseteq Nat,
           token' \in Scans \cup {NoScan}, stopped' \subseteq Scans, UNCHANGED fixed,
           cancelled' \in BOOLEAN, events' \in Nat
    PROVE  TypeOK'
<1>1. saved' \in Records
  BY PersistedType DEF TypeOK
<1> QED BY <1>1 DEF TypeOK, fixed, Workplaces

\* A step of an actor that leaves the tasks and the scans alone.
LEMMA ActorTypes ==
    ASSUME TypeOK, folder' \in Folders, saved' \in {saved, Persisted(folder), Persisted(folder')},
           proc' \in Workplaces, UNCHANGED <<task_vars, scan_vars, fixed, history, events>>
    PROVE  TypeOK'
BY FolderTypes DEF TypeOK, task_vars, scan_vars, history

\* Scans keep the types.
LEMMA ScanTypes ==
    ASSUME TypeOK, NEW s \in Scans, ScanStep(s)
    PROVE  TypeOK'
<1> USE NamedActors
<1>0. s \in Actors /\ proc[s] \in Workers /\ folder \in Folders
  BY DEF TypeOK
<1>1. CASE StartScan(s)
  <2>1. [proc[s] EXCEPT !.pc = "relist", !.arg = 1] \in Workers
    BY <1>0 DEF Workers, Places
  <2>2. proc' \in Workplaces /\ token' \in Scans \cup {NoScan}
    BY <1>0, <1>1, <2>1, GoesType, IdleType DEF StartScan, TypeOK
  <2> QED BY <1>1, <2>2, FolderTypes DEF StartScan, TypeOK, folder_vars, task_vars, history
<1>2. CASE ScanPage(s)
  <2>1. [proc[s] EXCEPT !.arg = @ + 1] \in Workers
    BY <1>0 DEF Workers
  <2>2. proc' \in Workplaces
    BY <1>0, <1>2, <2>1, GoesType DEF ScanPage
  <2>3. [no |-> folder.total, file |-> proc[s].arg] \in Entries /\ proc[s].arg \in Nat
    BY <1>0 DEF Entries, Folders, Workers
  <2>4. ASSUME NEW e \in Entries, NEW f \in Nat
        PROVE  [folder EXCEPT !.pending = @ \cup {e}, !.total = @ + 1, !.listed = @ \cup {f}]
                 \in Folders
    <3>1. /\ folder.pending \cup {e} \in SUBSET Entries /\ folder.total + 1 \in Nat
          /\ folder.listed \cup {f} \in SUBSET Nat
      BY <1>0 DEF Folders
    <3>2. ASSUME NEW q \in SUBSET Entries, NEW n \in Nat, NEW fs \in SUBSET Nat
          PROVE  [folder EXCEPT !.pending = q, !.total = n, !.listed = fs] \in Folders
      BY <1>0 DEF Folders
    <3> QED BY <3>1, <3>2
  <2>5. folder' \in Folders
    BY <1>0, <1>2, <2>3, <2>4 DEF ScanPage
  <2> QED BY <1>2, <2>2, <2>5, ActorTypes DEF ScanPage
<1>3. CASE ScanFails(s)
  <2>1. proc' \in Workplaces
    BY <1>0, <1>3, GoesType, IdleType DEF ScanFails
  <2>2. folder' \in Folders
    BY <1>0, <1>3 DEF ScanFails, Folders, Statuses
  <2>3. token' \in Scans \cup {NoScan} /\ stopped' \subseteq Scans /\ events' \in Nat
    BY <1>3 DEF ScanFails, TypeOK, Event
  <2> QED BY <1>3, <2>1, <2>2, <2>3, FolderTypes DEF ScanFails, TypeOK, task_vars, history
<1>4. CASE ScanEnds(s)
  <2>1. [Idle EXCEPT !.pc = "cover", !.mode = "fill"] \in Workers
    BY DEF Idle, Workers, Places
  <2>2. proc' \in Workplaces
    BY <1>0, <1>4, <2>1, GoesType DEF ScanEnds
  <2>3. folder' \in Folders
    BY <1>0, <1>4 DEF ScanEnds, Folders, Statuses
  <2>4. token' \in Scans \cup {NoScan} /\ stopped' \subseteq Scans
    BY <1>4 DEF ScanEnds, TypeOK
  <2> QED BY <1>4, <2>2, <2>3, <2>4, FolderTypes DEF ScanEnds, TypeOK, task_vars, history
<1>5. CASE Leave(s)
  <2>1. proc' \in Workplaces
    BY <1>0, <1>5, GoesType, IdleType DEF Leave
  <2> QED BY <1>0, <1>5, <2>1, ActorTypes DEF Leave
<1> QED BY <1>1, <1>2, <1>3, <1>4, <1>5 DEF ScanStep

\* Creating tasks keeps the types.
LEMMA CreatesTypes ==
    ASSUME TypeOK, IsFiniteSet(archived), NEW a \in Actors, Creates(a)
    PROVE  TypeOK'
<1> USE NamedActors
<1>0. /\ proc[a] \in Workers /\ folder \in Folders /\ task \in Seq(Subtasks)
      /\ archived \in SUBSET Nat
  BY DEF TypeOK
<1>1. CASE Cover(a)
  <2>1. Covered \cup archived \in SUBSET Nat /\ Cardinality(archived) \in Nat
    BY <1>0, CoveredType, FS_CardinalityType
  <2>2. ASSUME NEW seen \in SUBSET Nat, NEW n \in Nat
        PROVE  [proc[a] EXCEPT !.pc = "reconcile", !.seen = seen, !.arg = n] \in Workers
    BY <1>0 DEF Workers, Places
  <2>3. "look" \in Places
    BY DEF Places
  <2>4. proc' \in Workplaces
    BY <1>1, <2>1, <2>2, <2>3, GoesType, ToType DEF Cover
  <2> QED BY <1>0, <1>1, <2>4, ActorTypes DEF Cover, folder_vars
<1>2. CASE Reconcile(a)
  <2>1. [Idle EXCEPT !.pc = "look", !.mode = proc[a].mode] \in Workers
    BY <1>0 DEF Idle, Workers, Places
  <2>2. proc' \in Workplaces
    BY <1>2, <2>1, GoesType DEF Reconcile
  <2>3. /\ folder.pending \in SUBSET Entries /\ proc[a].arg \in Nat
        /\ folder.completed \in Nat
    BY <1>0 DEF Folders, Workers
  <2>4. folder' \in Folders /\ saved' \in {saved, Persisted(folder), Persisted(folder')}
    <3>1. ASSUME NEW q \in SUBSET Entries, NEW n \in Nat
          PROVE  [folder EXCEPT !.pending = q, !.completed = n] \in Folders
      BY <1>0 DEF Folders
    <3>2. Without(folder.pending, proc[a].seen) \in SUBSET Entries
      BY <2>3, WithoutType
    <3> QED BY <1>0, <1>2, <2>3, <3>1, <3>2 DEF Reconcile, Save, folder_vars
  <2>5. bare' \subseteq Nat
    BY <1>0, <1>2, <2>3, FilesType DEF Reconcile, TypeOK
  <2> QED BY <1>2, <2>2, <2>4, <2>5, FolderTypes DEF Reconcile, TypeOK, task_vars, scan_vars
<1>3. CASE Look(a)
  <2>1. ASSUME NEW seen \in SUBSET Nat, NEW live \in BOOLEAN, NEW pc \in {"judge", "pick"}
        PROVE  [proc[a] EXCEPT !.pc = pc, !.seen = seen, !.live = live] \in Workers
    BY <1>0 DEF Workers, Places
  <2>2. SomeActive \in BOOLEAN
    BY DEF SomeActive
  <2>3. proc' \in Workplaces
    BY <1>3, <2>1, <2>2, CoveredType, GoesType DEF Look
  <2> QED BY <1>0, <1>3, <2>3, ActorTypes DEF Look, folder_vars
<1>4. CASE Pick(a)
  <2>1. Choice(a) \in SUBSET Entries
    BY <1>0, WithoutType DEF Choice, Folders
  <2>2. ASSUME NEW batch \in SUBSET Entries
        PROVE  [Idle EXCEPT !.pc = "next", !.mode = proc[a].mode, !.files = batch] \in Workers
    BY <1>0 DEF Idle, Workers, Places
  <2>3. Prefixes(Choice(a)) \subseteq SUBSET Entries
    BY <2>1 DEF Prefixes
  <2>4. proc' \in Workplaces
    BY <1>4, <2>2, <2>3, GoesType, DoneType DEF Pick
  <2>5. folder' \in Folders
    BY <1>0, <1>4, <2>1 DEF Pick, Folders
  <2> QED BY <1>4, <2>4, <2>5, ActorTypes DEF Pick
<1>5. CASE CheckRunning(a)
  <2>1. proc' \in Workplaces
    BY <1>5, ToType DEF CheckRunning, Places
  <2> QED BY <1>0, <1>5, <2>1, ActorTypes DEF CheckRunning, folder_vars
<1>6. CASE Skip(a)
  <2>1. PICK e \in Firsts(proc[a].files) :
             /\ folder' = IF InMemory THEN [folder EXCEPT !.pending = Without(@, {e.file})]
                                     ELSE folder
             /\ Goes(a, [proc[a] EXCEPT !.pc = "next", !.files = @ \ {e}, !.left = @ + 1])
    BY <1>6 DEF Skip
  <2>2. [proc[a] EXCEPT !.pc = "next", !.files = @ \ {e}, !.left = @ + 1] \in Workers
    <3>1. proc[a].files \ {e} \in SUBSET Entries /\ proc[a].left + 1 \in Nat
      BY <1>0 DEF Workers
    <3>2. ASSUME NEW q \in SUBSET Entries, NEW n \in Nat
          PROVE  [proc[a] EXCEPT !.pc = "next", !.files = q, !.left = n] \in Workers
      BY <1>0 DEF Workers, Places
    <3> QED BY <3>1, <3>2
  <2>3. proc' \in Workplaces
    BY <2>1, <2>2, GoesType
  <2>4. folder' \in Folders
    <3>1. Without(folder.pending, {e.file}) \in SUBSET Entries
      BY <1>0, WithoutType DEF Folders
    <3>2. ASSUME NEW q \in SUBSET Entries PROVE [folder EXCEPT !.pending = q] \in Folders
      BY <1>0 DEF Folders
    <3> QED BY <1>0, <2>1, <3>1, <3>2
  <2> QED BY <1>6, <2>3, <2>4, ActorTypes DEF Skip
<1>7. CASE Make(a)
  <2>1. PICK e \in Firsts(proc[a].files), at \in {"link", "queue", "idle"} :
             /\ task' = Append(task, NewTask(e.file, IF at = "idle" THEN "Paused" ELSE "Pending", at))
             /\ Goes(a, [proc[a] EXCEPT !.pc = "next", !.files = @ \ {e}, !.made = TRUE])
    BY <1>7 DEF Make
  <2>2. e.file \in Nat /\ proc[a].files \in SUBSET Entries
    BY <1>0 DEF Firsts, Workers, Entries
  <2>3. NewTask(e.file, IF at = "idle" THEN "Paused" ELSE "Pending", at) \in Subtasks
    BY <2>2 DEF NewTask, Subtasks
  <2>4. task' \in Seq(Subtasks)
    <3> HIDE DEF Subtasks
    <3> QED BY <1>0, <2>1, <2>3
  <2>5. ASSUME NEW q \in SUBSET Entries
        PROVE  [proc[a] EXCEPT !.pc = "next", !.files = q, !.made = TRUE] \in Workers
    BY <1>0 DEF Workers, Places
  <2>6. proc' \in Workplaces
    BY <2>1, <2>2, <2>5, GoesType
  <2> QED BY <1>0, <1>7, <2>4, <2>6, FolderTypes DEF Make, TypeOK, folder_vars, scan_vars, history
<1>8. CASE Tally(a)
  <2>1. folder' \in Folders
    <3>1. folder.skipped + proc[a].left \in Nat
      BY <1>0 DEF Folders, Workers
    <3>2. ASSUME NEW n \in Nat PROVE [folder EXCEPT !.skipped = n] \in Folders
      BY <1>0 DEF Folders
    <3> QED BY <1>0, <1>8, <3>1, <3>2 DEF Tally
  <2>2. ASSUME NEW pc \in {"look", "settle"}
        PROVE  [Idle EXCEPT !.pc = pc, !.mode = "fill"] \in Workers
    BY DEF Idle, Workers, Places
  <2>3. proc' \in Workplaces
    BY <1>8, <2>2, GoesType, DoneType DEF Tally
  <2> QED BY <1>8, <2>1, <2>3, ActorTypes DEF Tally, Save, MaySave
<1>9. CASE Settle(a)
  <2>1. proc' \in Workplaces
    BY <1>9, ToType DEF Settle, Places
  <2> QED BY <1>0, <1>9, <2>1, ActorTypes DEF Settle, folder_vars
<1>10. CASE Finalize(a)
  <2>1. proc' \in Workplaces
    BY <1>10, ToType DEF Finalize, Places
  <2>2. /\ folder' \in Folders /\ saved' \in {saved, Persisted(folder), Persisted(folder')}
        /\ token' \in Scans \cup {NoScan}
    <3>1. \/ /\ \E st \in {"Failed", "Completed"} : folder' = [folder EXCEPT !.status = st]
             /\ token' = NoScan /\ saved' = Persisted(folder')
          \/ UNCHANGED <<folder, saved, token>>
      BY <1>10 DEF Finalize, Save, folder_vars
    <3>2. ASSUME NEW st \in {"Failed", "Completed"}
          PROVE  [folder EXCEPT !.status = st] \in Folders
      BY <1>0 DEF Folders, Statuses
    <3>3. token \in Scans \cup {NoScan}
      BY DEF TypeOK
    <3> QED BY <1>0, <3>1, <3>2, <3>3
  <2> QED BY <1>10, <2>1, <2>2, FolderTypes DEF Finalize, TypeOK, task_vars, history
<1>11. CASE Enough(a)
  <2>1. proc' \in Workplaces
    BY <1>11, DoneType DEF Enough
  <2> QED BY <1>0, <1>11, <2>1, ActorTypes DEF Enough, folder_vars
<1>12. CASE CannotMake(a)
  <2>1. ASSUME NEW q \in SUBSET Entries
        PROVE  [proc[a] EXCEPT !.pc = "next", !.files = q] \in Workers
    BY <1>0 DEF Workers, Places
  <2>2. proc[a].files \in SUBSET Entries
    BY <1>0 DEF Workers
  <2>3. Done(a) \/ \E q \in SUBSET Entries : Goes(a, [proc[a] EXCEPT !.pc = "next", !.files = q])
    BY <1>12, <2>2 DEF CannotMake
  <2>4. proc' \in Workplaces
    BY <2>1, <2>3, GoesType, DoneType
  <2>5. events' \in Nat
    BY <1>12 DEF CannotMake, Event, TypeOK
  <2> QED BY <1>0, <1>12, <2>4, <2>5, FolderTypes
          DEF CannotMake, TypeOK, folder_vars, task_vars, scan_vars, history
<1> QED BY <1>1, <1>2, <1>3, <1>4, <1>5, <1>6, <1>7, <1>8, <1>9, <1>10, <1>11, <1>12 DEF Creates

\* The listener and the loop keep the types.
LEMMA ListenTypes ==
    ASSUME TypeOK, Listen \/ Tick
    PROVE  TypeOK'
<1> USE NamedActors
<1>0. folder \in Folders /\ task \in Seq(Subtasks) /\ sent \in Seq(Notices)
  BY DEF TypeOK
<1>1. ASSUME NEW pc \in Places, NEW n \in Nat
      PROVE  [Idle EXCEPT !.pc = pc, !.arg = n] \in Workers /\ [Idle EXCEPT !.pc = pc] \in Workers
  BY DEF Idle, Workers, Places
<1>2. {"look", "retry", "restart", "pick"} \subseteq Places
  BY DEF Places
<1>3. CASE Judge
  <2>1. proc' \in Workplaces
    BY <1>2, <1>3, ToType, DoneType DEF Judge
  <2>2. /\ folder' \in Folders /\ saved' \in {saved, Persisted(folder), Persisted(folder')}
        /\ token' \in Scans \cup {NoScan}
    <3>1. \/ folder' = folder
          \/ \E end \in {"Completed", "Failed", folder.status} :
                folder' = [folder EXCEPT !.status = end]
      BY <1>3 DEF Judge, folder_vars
    <3>2. folder' \in Folders
      BY <1>0, <3>1 DEF Folders, Statuses
    <3> QED BY <1>3, <3>2 DEF Judge, Save, TypeOK, folder_vars
  <2> QED BY <1>3, <2>1, <2>2, FolderTypes DEF Judge, TypeOK, task_vars, history
<1>4. CASE Hear
  <2>1. PICK e \in Notices : e = Head(sent)
    BY <1>0, <1>4 DEF Hear
  <2>2. sent' \in Seq(Notices) /\ e.task \in Nat /\ e.file \in Nat
    <3>1. sent' \in Seq(Notices)
      <4> HIDE DEF Notices
      <4> QED BY <1>0, <1>4 DEF Hear
    <3> QED BY <3>1, <2>1 DEF Notices
  <2>3. CASE ~InMemory
    BY <1>0, <1>4, <2>2, <2>3, FolderTypes DEF Hear, TypeOK, Workplaces, scan_vars, history
  <2>4. CASE InMemory
    <3>1. proc' \in Workplaces
      <4>1. \E pc \in {"retry", "look"}, n \in {e.task, 0} :
               Goes("listener", [Idle EXCEPT !.pc = pc, !.arg = n])
        BY <1>4, <2>1, <2>4 DEF Hear
      <4> QED BY <1>1, <1>2, <2>2, <4>1, GoesType
    <3>2. folder' \in {folder, Succeeded(folder, e.task, e.file), GivenUp(folder, e.task, e.file),
                       [folder EXCEPT !.retries[e.task] = @ + 1]}
      BY <1>4, <2>1, <2>4 DEF Hear
    <3>3. [folder EXCEPT !.retries[e.task] = @ + 1] \in Folders
      <4>1. [folder.retries EXCEPT ![e.task] = @ + 1] \in [Tasks -> Nat]
        <5>1. folder.retries \in [Tasks -> Nat]
          BY <1>0 DEF Folders
        <5>2. ASSUME NEW r \in [Tasks -> Nat], NEW t
              PROVE  [r EXCEPT ![t] = @ + 1] \in [Tasks -> Nat]
          <6>1. t \in Tasks => r[t] + 1 \in Nat
            OBVIOUS
          <6>2. ASSUME NEW n, t \in Tasks => n \in Nat
                PROVE  [r EXCEPT ![t] = n] \in [Tasks -> Nat]
            BY <6>2
          <6> QED BY <6>1, <6>2
        <5> QED BY <5>1, <5>2
      <4>2. ASSUME NEW r \in [Tasks -> Nat] PROVE [folder EXCEPT !.retries = r] \in Folders
        BY <1>0 DEF Folders
      <4> QED BY <4>1, <4>2
    <3>4. GivenUp(folder, e.task, e.file) \in Folders
      <4>1. /\ folder.failed + 1 \in Nat /\ folder.failed_tasks \cup {e.task} \in SUBSET Nat
            /\ folder.failed_files \cup {e.file} \in SUBSET Nat
        BY <1>0, <2>2 DEF Folders
      <4>2. ASSUME NEW n \in Nat, NEW ts \in SUBSET Nat, NEW fs \in SUBSET Nat
            PROVE  [folder EXCEPT !.failed = n, !.failed_tasks = ts, !.failed_files = fs] \in Folders
        BY <1>0 DEF Folders
      <4> QED BY <1>0, <4>1, <4>2 DEF GivenUp
    <3>5. Succeeded(folder, e.task, e.file) \in Folders
      <4>1. MarkCompleted(folder, e.file) \in Folders
        <5>1. /\ folder.counted \cup {e.file} \in SUBSET Nat
              /\ Without(folder.pending, {e.file}) \in SUBSET Entries
          BY <1>0, <2>2, WithoutType DEF Folders
        <5>2. ASSUME NEW fs \in SUBSET Nat, NEW q \in SUBSET Entries
              PROVE  [folder EXCEPT !.counted = fs, !.pending = q] \in Folders
          BY <1>0 DEF Folders
        <5> QED BY <5>1, <5>2 DEF MarkCompleted
      <4>2. ASSUME NEW fo \in Folders PROVE Cleared(fo, e.task, e.file) \in Folders
        <5>1. /\ fo.failed_tasks \ {e.task} \in SUBSET Nat /\ fo.failed_files \ {e.file} \in SUBSET Nat
              /\ fo.failed \in Nat /\ (fo.failed > 0 => fo.failed - 1 \in Nat)
          BY DEF Folders
        <5>2. ASSUME NEW n \in Nat, NEW ts \in SUBSET Nat, NEW fs \in SUBSET Nat
              PROVE  [fo EXCEPT !.failed_tasks = ts, !.failed_files = fs, !.failed = n] \in Folders
          BY DEF Folders
        <5> QED BY <5>1, <5>2 DEF Cleared
      <4>3. ASSUME NEW fo \in Folders, NEW n \in Nat
            PROVE  [fo EXCEPT !.retries[e.task] = 0, !.completed = n] \in Folders
        <5>1. [fo.retries EXCEPT ![e.task] = 0] \in [Tasks -> Nat]
          BY DEF Folders
        <5>2. ASSUME NEW r \in [Tasks -> Nat] PROVE [fo EXCEPT !.retries = r, !.completed = n] \in Folders
          BY DEF Folders
        <5> QED BY <5>1, <5>2
      <4>4. ASSUME NEW fo \in Folders PROVE fo.completed \in Nat /\ fo.completed + 1 \in Nat
        BY DEF Folders
      <4>5. PICK fo \in Folders : fo = Cleared(MarkCompleted(folder, e.file), e.task, e.file)
        BY <4>1, <4>2
      <4>6. Succeeded(folder, e.task, e.file) =
              [fo EXCEPT !.retries[e.task] = 0,
                         !.completed = IF e.file \in folder.counted THEN @ ELSE @ + 1]
        BY <4>5 DEF Succeeded
      <4> QED BY <4>3, <4>4, <4>6
    <3>6. folder' \in Folders
      BY <1>0, <3>2, <3>3, <3>4, <3>5
    <3> QED BY <1>4, <2>2, <2>4, <3>1, <3>6, FolderTypes DEF Hear, TypeOK, scan_vars, history
  <2> QED BY <2>3, <2>4
<1>5. CASE Retry
  <2>1. proc' \in Workplaces
    BY <1>1, <1>2, <1>5, GoesType, ToType DEF Retry
  <2> QED BY <1>0, <1>5, <2>1, ActorTypes DEF Retry, folder_vars
<1>6. CASE Restart
  <2>1. proc' \in Workplaces
    BY <1>1, <1>2, <1>6, GoesType DEF Restart
  <2>2. task' \in Seq(Subtasks)
    <3>1. ASSUME NEW t \in 1..Len(task), NEW at \in {"link", "queue"}
          PROVE  [task[t] EXCEPT !.st = "Pending", !.at = at] \in Subtasks
      <4>1. task[t] \in Subtasks
        BY <1>0
      <4> QED BY <4>1 DEF Subtasks
    <3>2. \/ task' = task
          \/ \E t \in Nat, at \in {"link", "queue"} :
               /\ t <= Len(task) /\ There(t)
               /\ task' = [task EXCEPT ![t] = [task[t] EXCEPT !.st = "Pending", !.at = at]]
      <4> DEFINE u == proc["listener"].arg
      <4>1. u \in Nat
        BY DEF TypeOK, Workers
      <4>2. \/ task' = task
            \/ There(u) /\ \E at \in {"link", "queue"} :
                  task' = [task EXCEPT ![u].st = "Pending", ![u].at = at]
        BY <1>6 DEF Restart
      <4>3. ASSUME NEW at
            PROVE  [task EXCEPT ![u].st = "Pending", ![u].at = at]
                     = [task EXCEPT ![u] = [task[u] EXCEPT !.st = "Pending", !.at = at]]
        OBVIOUS
      <4>4. There(u) => u <= Len(task)
        BY DEF There
      <4> HIDE DEF u
      <4> QED BY <4>1, <4>2, <4>3, <4>4
    <3>3. ASSUME NEW t \in Nat, t <= Len(task), NEW r, t \in 1..Len(task) => r \in Subtasks
          PROVE  [task EXCEPT ![t] = r] \in Seq(Subtasks)
      <4> HIDE DEF Subtasks
      <4>1. CASE t \in 1..Len(task)
        BY <1>0, <3>3, <4>1
      <4>2. CASE t = 0
        <5>1. [task EXCEPT ![t] = r] = task
          BY <1>0, <4>2
        <5> QED BY <1>0, <5>1
      <4> QED BY <3>3, <4>1, <4>2
    <3> HIDE DEF Subtasks
    <3> QED BY <1>0, <3>1, <3>2, <3>3
  <2> QED BY <1>0, <1>6, <2>1, <2>2, FolderTypes DEF Restart, TypeOK, folder_vars, scan_vars, history
<1>7. CASE Tick
  <2>1. [Idle EXCEPT !.pc = "look", !.mode = "fill"] \in Workers
    BY DEF Idle, Workers, Places
  <2>2. proc' \in Workplaces
    BY <1>7, <2>1, GoesType DEF Tick
  <2> QED BY <1>0, <1>7, <2>2, ActorTypes DEF Tick, folder_vars
<1> QED BY <1>3, <1>4, <1>5, <1>6, <1>7 DEF Listen

\* Replacing the record of a task, or each of them.
LEMMA SetType ==
    ASSUME TypeOK, NEW t \in 1..Len(task), NEW r \in Subtasks, Set(t, r)
    PROVE  task' \in Seq(Subtasks)
<1> HIDE DEF Subtasks
<1> QED BY DEF TypeOK, Set

\* A record for each task.
LEMMA EachType ==
    ASSUME TypeOK, NEW new, new = [t \in DOMAIN task |-> new[t]],
           \A t \in DOMAIN task : new[t] \in Subtasks
    PROVE  new \in Seq(Subtasks)
<1> HIDE DEF Subtasks
<1>1. DOMAIN task = 1..Len(task) /\ Len(task) \in Nat
  BY DEF TypeOK
<1> QED BY <1>1

\* The end of a task, and its notice.
LEMMA EndsType ==
    ASSUME TypeOK, NEW t \in 1..Len(task), NEW st \in {"Failed", "gone"}, NEW ok \in BOOLEAN,
           Ends(t, st, ok)
    PROVE  task' \in Seq(Subtasks) /\ sent' \in Seq(Notices)
<1>0. task[t] \in Subtasks
  BY DEF TypeOK
<1>1. [task[t] EXCEPT !.st = st, !.at = "idle"] \in Subtasks
  BY <1>0 DEF Subtasks
<1>2. [task |-> t, file |-> task[t].file, ok |-> ok] \in Notices
  BY <1>0 DEF Subtasks, Notices
<1>3. sent' \in Seq(Notices)
  <2> HIDE DEF Notices
  <2> QED BY <1>2 DEF Ends, TypeOK
<1> QED BY <1>1, <1>3, SetType DEF Ends

\* Tasks keep the types.
LEMMA TaskTypes ==
    ASSUME TypeOK, NEW t \in 1..Len(task), TaskStep(t)
    PROVE  TypeOK'
<1>0. task[t] \in Subtasks /\ folder \in Folders /\ proc' \in Workplaces
  <2>1. proc' = proc
    BY DEF TaskStep, Launch, Prepared, NotPrepared, Keep, DropPending, NotKept, Finish, Report, Break
  <2> QED BY <2>1 DEF TypeOK, Workplaces
<1>1. task[t].file \in Nat /\ task[t].tries \in Nat
  BY <1>0 DEF Subtasks
<1>2. CASE Launch(t)
  <2>1. [task[t] EXCEPT !.at = "link"] \in Subtasks
    BY <1>0 DEF Subtasks
  <2>2. task' \in Seq(Subtasks)
    BY <1>2, <2>1, SetType DEF Launch
  <2> QED BY <1>0, <1>2, <2>2, FolderTypes DEF Launch, TypeOK, folder_vars, scan_vars, history
<1>3. CASE Prepared(t)
  <2>1. [task[t] EXCEPT !.st = "Downloading", !.at = "file"] \in Subtasks
    BY <1>0 DEF Subtasks
  <2>2. task' \in Seq(Subtasks)
    BY <1>3, <2>1, SetType DEF Prepared
  <2>3. disk' \subseteq Nat
    BY <1>3 DEF Prepared, TypeOK
  <2> QED BY <1>0, <1>3, <2>2, <2>3, FolderTypes DEF Prepared, TypeOK, folder_vars, scan_vars, history
<1>4. CASE NotPrepared(t)
  <2>0. ASSUME NEW r \in Subtasks, NEW n \in Nat
        PROVE  [r EXCEPT !.st = "Pending", !.at = "queue", !.tries = n] \in Subtasks
    BY DEF Subtasks
  <2>1. [task[t] EXCEPT !.st = "Pending", !.at = "queue", !.tries = @ + 1] \in Subtasks
    <3>1. PICK n \in Nat : n = task[t].tries + 1
      BY <1>1
    <3>2. [task[t] EXCEPT !.st = "Pending", !.at = "queue", !.tries = n] \in Subtasks
      BY <1>0, <2>0
    <3> QED BY <3>1, <3>2
  <2>2. task' \in Seq(Subtasks) /\ sent' \in Seq(Notices)
    BY <1>4, <2>1, SetType, EndsType DEF NotPrepared, TypeOK
  <2>3. events' \in Nat
    BY <1>4 DEF NotPrepared, Event, TypeOK
  <2> QED BY <1>0, <1>4, <2>2, <2>3, FolderTypes
          DEF NotPrepared, TypeOK, folder_vars, scan_vars, history
<1>5. CASE Keep(t)
  <2>1. [task[t] EXCEPT !.kept = TRUE, !.at = "kept"] \in Subtasks
    BY <1>0 DEF Subtasks
  <2>2. task' \in Seq(Subtasks)
    BY <1>5, <2>1, SetType DEF Keep
  <2> QED BY <1>0, <1>5, <2>2, FolderTypes DEF Keep, TypeOK, folder_vars, scan_vars, history
<1>6. CASE DropPending(t)
  <2>1. ASSUME NEW at \in {"run", "idle"}
        PROVE  [task[t] EXCEPT !.tries = 0, !.at = at] \in Subtasks
    BY <1>0 DEF Subtasks
  <2>2. task' \in Seq(Subtasks)
    BY <1>6, <2>1, SetType DEF DropPending, Started
  <2>3. folder' \in Folders /\ saved' \in {saved, Persisted(folder), Persisted(folder')}
    <3>1. Without(folder.pending, {task[t].file}) \in SUBSET Entries
      BY <1>0, WithoutType DEF Folders
    <3>2. ASSUME NEW q \in SUBSET Entries PROVE [folder EXCEPT !.pending = q] \in Folders
      BY <1>0 DEF Folders
    <3> QED BY <1>0, <1>6, <3>1, <3>2 DEF DropPending, Save, folder_vars
  <2> QED BY <1>0, <1>6, <2>2, <2>3, FolderTypes DEF DropPending, TypeOK, scan_vars, history
<1>7. CASE Finish(t)
  <2>1. [task[t] EXCEPT !.st = "Completed", !.at = "idle", !.kept = FALSE] \in Subtasks
    BY <1>0 DEF Subtasks
  <2>2. task' \in Seq(Subtasks)
    BY <1>7, <2>1, SetType DEF Finish
  <2>3. disk' \subseteq Nat /\ archived' \subseteq Nat /\ bare' \subseteq Nat
    BY <1>1, <1>7 DEF Finish, TypeOK
  <2> QED BY <1>0, <1>7, <2>2, <2>3, FolderTypes DEF Finish, TypeOK, folder_vars, scan_vars
<1>8. CASE Report(t)
  <2>1. task' \in Seq(Subtasks) /\ sent' \in Seq(Notices)
    BY <1>8, EndsType DEF Report
  <2> QED BY <1>0, <1>8, <2>1, FolderTypes DEF Report, TypeOK, folder_vars, scan_vars, history
<1>9. CASE Break(t)
  <2>1. task' \in Seq(Subtasks) /\ sent' \in Seq(Notices)
    BY <1>9, EndsType DEF Break
  <2>2. events' \in Nat
    BY <1>9 DEF Break, Event, TypeOK
  <2> QED BY <1>0, <1>9, <2>1, <2>2, FolderTypes DEF Break, TypeOK, folder_vars, scan_vars, history
<1>10. CASE NotKept(t)
  <2>1. ASSUME NEW at \in {"run", "idle"}
        PROVE  [task[t] EXCEPT !.tries = 0, !.at = at] \in Subtasks
    BY <1>0 DEF Subtasks
  <2>2. task' \in Seq(Subtasks)
    BY <1>10, <2>1, SetType DEF NotKept, Started
  <2>3. events' \in Nat
    BY <1>10 DEF NotKept, Event, TypeOK
  <2> QED BY <1>0, <1>10, <2>2, <2>3, FolderTypes
          DEF NotKept, TypeOK, folder_vars, scan_vars, history
<1> QED BY <1>2, <1>3, <1>4, <1>5, <1>6, <1>7, <1>8, <1>9, <1>10 DEF TaskStep

\* The user's calls keep the types.
LEMMA UserTypes ==
    ASSUME TypeOK, UserStep
    PROVE  TypeOK'
<1> USE NamedActors
<1>0. folder \in Folders /\ {"pausing", "idle", "deleting", "forgetting"} \subseteq Places
  BY DEF TypeOK, Places
<1>1. \A t \in DOMAIN task : task[t] \in Subtasks
  BY DEF TypeOK
<1>2. events \in Nat /\ (Event => events' \in Nat)
  BY DEF TypeOK, Event
<1>3. CASE Pause
  <2>1. proc' \in Workplaces /\ events' \in Nat
    BY <1>0, <1>2, <1>3, ToType DEF Pause, Call
  <2>2. folder' \in Folders
    BY <1>0, <1>3 DEF Pause, Folders, Statuses
  <2>3. stopped' \subseteq Scans
    BY <1>3 DEF Pause, TypeOK
  <2> QED BY <1>3, <2>1, <2>2, <2>3, FolderTypes DEF Pause, TypeOK, task_vars, history
<1>4. CASE PauseTasks
  <2>1. proc' \in Workplaces
    BY <1>0, <1>4, ToType DEF PauseTasks
  <2>2. task' \in Seq(Subtasks)
    <3>1. PICK late : task' = [t \in DOMAIN task |-> Halted(task[t], t \in late)]
      BY <1>4 DEF PauseTasks
    <3>2. ASSUME NEW t \in DOMAIN task PROVE Halted(task[t], t \in late) \in Subtasks
      BY <1>1 DEF Halted, Subtasks
    <3> QED BY <3>1, <3>2, EachType
  <2> QED BY <1>0, <1>4, <2>1, <2>2, FolderTypes DEF PauseTasks, TypeOK, scan_vars, history
<1>5. CASE Resume
  <2>1. [Idle EXCEPT !.pc = "resuming", !.live = folder.scanned] \in Workers
    BY <1>0 DEF Idle, Workers, Places, Folders
  <2>2. proc' \in Workplaces /\ events' \in Nat
    BY <1>2, <1>5, <2>1, GoesType DEF Resume, Call
  <2>3. folder' \in Folders
    <3>1. ASSUME NEW st \in {"Downloading", "Scanning"}, NEW r \in [Tasks -> Nat]
          PROVE  /\ [folder EXCEPT !.status = st] \in Folders
                 /\ [[folder EXCEPT !.failed = 0, !.failed_tasks = {}, !.retries = r]
                       EXCEPT !.status = st] \in Folders
      BY <1>0 DEF Folders, Statuses
    <3>2. [t \in Tasks |-> 0] \in [Tasks -> Nat]
      OBVIOUS
    <3> QED BY <1>5, <3>1, <3>2 DEF Resume
  <2> QED BY <1>5, <2>2, <2>3, FolderTypes DEF Resume, TypeOK, task_vars, scan_vars, history
<1>6. CASE ResumeTasks
  <2>1. proc' \in Workplaces
    <3>1. [Idle EXCEPT !.pc = "cover", !.mode = "fill"] \in Workers
      BY DEF Idle, Workers, Places
    <3>2. ASSUME NEW s \in Scans, proc' = [proc EXCEPT ![s].pc = "spawned", !["user"] = Idle]
          PROVE  proc' \in Workplaces
      <4>0. proc[s] \in Workers
        BY DEF TypeOK
      <4>1. [proc[s] EXCEPT !.pc = "spawned"] \in Workers
        BY <4>0 DEF Workers, Places
      <4>2. ASSUME NEW r \in Workers
            PROVE  [[proc EXCEPT ![s] = r] EXCEPT !["user"] = Idle] \in Workplaces
        BY IdleType DEF TypeOK, Workplaces
      <4> QED BY <3>2, <4>1, <4>2
    <3> QED BY <1>6, <3>1, <3>2, GoesType DEF ResumeTasks
  <2>2. task' \in Seq(Subtasks)
    <3>1. PICK slots : task' = [t \in DOMAIN task |-> Again(task[t], t \in slots)]
      BY <1>6 DEF ResumeTasks
    <3>2. ASSUME NEW t \in DOMAIN task PROVE Again(task[t], t \in slots) \in Subtasks
      BY <1>1 DEF Again, Subtasks
    <3> QED BY <3>1, <3>2, EachType
  <2> QED BY <1>0, <1>6, <2>1, <2>2, FolderTypes DEF ResumeTasks, TypeOK, scan_vars, history
<1>7. CASE Cancel
  <2>1. proc' \in Workplaces /\ events' \in Nat
    BY <1>0, <1>2, <1>7, ToType DEF Cancel, Call
  <2>2. folder' \in Folders
    BY <1>0, <1>7 DEF Cancel, Folders, Statuses
  <2>3. stopped' \subseteq Scans /\ token' \in Scans \cup {NoScan} /\ cancelled' \in BOOLEAN
    BY <1>7 DEF Cancel, TypeOK
  <2> QED BY <1>7, <2>1, <2>2, <2>3, FolderTypes DEF Cancel, TypeOK, task_vars
<1>8. CASE CancelTasks
  <2>1. proc' \in Workplaces
    BY <1>0, <1>8, ToType DEF CancelTasks
  <2>2. task' \in Seq(Subtasks)
    <3>1. ASSUME NEW t \in DOMAIN task
          PROVE  [task[t] EXCEPT !.st = "gone", !.at = "idle", !.kept = FALSE] \in Subtasks
      BY <1>1 DEF Subtasks
    <3> QED BY <1>8, <3>1, EachType DEF CancelTasks
  <2> QED BY <1>0, <1>8, <2>1, <2>2, FolderTypes DEF CancelTasks, TypeOK, folder_vars, scan_vars, history
<1>9. CASE Forget
  <2>1. proc' \in Workplaces
    BY <1>0, <1>9, ToType DEF Forget
  <2>2. folder' \in Folders
    BY <1>0, <1>9 DEF Forget, Folders, Statuses
  <2> QED BY <1>9, <2>1, <2>2, ActorTypes DEF Forget
<1> QED BY <1>3, <1>4, <1>5, <1>6, <1>7, <1>8, <1>9 DEF UserStep

\* A restart keeps the types.
LEMMA CrashTypes == ASSUME TypeOK, Crash PROVE TypeOK'
<1>1. folder' \in Folders
  <2>1. Restored(saved) \in Folders
    BY RestoredType DEF TypeOK
  <2>2. \E st \in Statuses : folder' = [Restored(saved) EXCEPT !.status = st]
    BY <2>1 DEF Crash, Statuses
  <2> QED BY <2>1, <2>2 DEF Folders
<1>2. task' \in Seq(Subtasks)
  <2>1. ASSUME NEW t \in DOMAIN task
        PROVE  /\ [task[t] EXCEPT !.st = "Paused", !.at = "idle", !.tries = 0] \in Subtasks
               /\ [task[t] EXCEPT !.st = "gone", !.at = "idle"] \in Subtasks
    <3>1. task[t] \in Subtasks
      BY DEF TypeOK
    <3> QED BY <3>1 DEF Subtasks
  <2> QED BY <2>1, EachType DEF Crash
<1>3. proc' \in Workplaces
  <2>1. [Idle EXCEPT !.pc = "cover", !.mode = "restore"] \in Workers
    BY DEF Idle, Workers, Places
  <2> DEFINE Where(a) == CASE a \in Scans -> IF Pc(a, "new") THEN proc[a] ELSE Over
                           [] a = "user" /\ folder'.status = "Paused" /\ saved.scanned
                                         /\ saved.pending # {} ->
                                [Idle EXCEPT !.pc = "cover", !.mode = "restore"]
                           [] OTHER -> Idle
  <2>2. proc' = [a \in Actors |-> Where(a)]
    BY DEF Crash
  <2>3. ASSUME NEW a \in Actors PROVE Where(a) \in Workers
    BY <2>1, IdleType DEF TypeOK
  <2> HIDE DEF Where
  <2> QED BY <2>2, <2>3 DEF Workplaces
<1>4. sent' \in Seq(Notices) /\ events' \in Nat
  <2>1. sent' = <<>> /\ Event
    BY DEF Crash
  <2> QED BY <2>1 DEF Event, TypeOK
<1> QED BY <1>1, <1>2, <1>3, <1>4, FolderTypes DEF Crash, Save, TypeOK, history

\* The first state is of its type.
LEMMA InitTypes == Init => TypeOK
<1> SUFFICES ASSUME Init PROVE TypeOK
  OBVIOUS
<1>1. New \in Records
  BY DEF New, Records, Statuses
<1>2. folder \in Folders /\ saved \in Records
  BY <1>1, RestoredType DEF Init
<1>3. proc \in Workplaces
  <2>1. /\ [Idle EXCEPT !.pc = "list", !.arg = 1] \in Workers
        /\ [Idle EXCEPT !.pc = "new"] \in Workers
    BY DEF Idle, Workers, Places
  <2> QED BY <2>1, IdleType DEF Init, Workplaces
<1>4. size \in Nat /\ events \in Nat /\ skips \in BOOLEAN
  BY FolderAssumption DEF Init
<1>5. disk \subseteq Nat
  BY DEF Init, AllFiles
<1>6. token \in Scans
  BY FolderAssumption DEF Init, FirstScan
<1>7. task \in Seq(Subtasks) /\ sent \in Seq(Notices)
  <2>1. task = <<>> /\ sent = <<>>
    BY DEF Init
  <2> QED BY <2>1
<1> QED BY <1>2, <1>3, <1>4, <1>5, <1>6, <1>7 DEF Init, TypeOK, Workplaces

\* Every step keeps the types.
LEMMA NextTypes == TypeOK /\ CountInv /\ [Next]_vars => TypeOK'
<1> SUFFICES ASSUME TypeOK, CountInv, [Next]_vars PROVE TypeOK'
  OBVIOUS
<1>1. CASE UNCHANGED vars
  BY <1>1 DEF TypeOK, vars, folder_vars, task_vars, scan_vars, fixed, history
<1>2. IsFiniteSet(archived)
  BY DEF CountInv
<1>3. CASE Progress
  <2>1. saved' = Persisted(folder) /\ proc' \in Workplaces /\ folder' \in Folders
    BY <1>3 DEF Progress, TypeOK, Workplaces
  <2> QED BY <1>3, <2>1, ActorTypes DEF Progress
<1> QED BY <1>1, <1>2, <1>3, ScanTypes, CreatesTypes, ListenTypes, TaskTypes, UserTypes, CrashTypes DEF Next

\* Every state of a folder's download is of its type: no interleaving leaves an actor or a task
\* at a place that no code handles, or a counter below zero.
THEOREM FolderTypeOK == Spec => []TypeOK
<1>1. Init => TypeOK /\ CountInv
  BY InitTypes, InitCounts
<1>2. TypeOK /\ CountInv /\ [Next]_vars => TypeOK' /\ CountInv'
  BY NextTypes, NextCounts
<1> QED BY <1>1, <1>2, PTL DEF Spec

-----------------------------------------------------------------------------
(***************************************************************************)
(* No file that a scan found is dropped, in memory or over a restart,      *)
(* while listener, loop, scans, user and tasks interleave.                 *)
(***************************************************************************)

\* What a folder, or its record, has of its files itself.
Held(fo) == FilesOf(fo.pending) \cup fo.counted

\* What is sure of its files besides: the history, the tasks on disk and, when they are
\* skipped, the files that exist.
Had     == IF skips THEN disk ELSE {}
Secured == archived \cup Kept \cup Had

Finds(fo) == fo.listed \subseteq bare \cup Held(fo) \cup Secured
Found     == cancelled \/ (Finds(folder) /\ Finds(saved))

\* A task that is gone or completed stands still; one past register_download_task is
\* on disk, a completed one is so no longer; and with "skip" what a task moves away when it
\* prepares its output is in the history, or in "bare".
Known    == archived \cup bare
Holds(r) == r.st # "gone" /\ r.kept
TaskOK(r, done, had) ==
    /\ r.st \in {"gone", "Completed"} => r.at = "idle"
    /\ r.at = "kept" => r.kept
    /\ r.st = "Completed" => ~r.kept
    /\ r.file \in had => r.file \in done
TasksOK == \A t \in 1..Len(task) : TaskOK(task[t], Known, Had)

\* Only the user's part restores, which never settles a folder, and tasks are deleted
\* only after a cancel.
WorkerOK(a, p, c) ==
    /\ p.mode = "restore" => a = "user" /\ p.pc \notin {"settle", "finalize"}
    /\ p.pc = "deleting" => c
WorkersOK == \A a \in Actors : WorkerOK(a, proc[a], cancelled)

\* While the program restores a folder nothing else runs, and every task it has is on
\* disk: what it drops from the queue is not lost.
Restoring == /\ proc["user"].mode = "restore"
             /\ proc["user"].pc \in {"cover", "reconcile", "look", "pick"}
Still(r)  == r.st = "gone" \/ (r.kept /\ r.st = "Paused" /\ r.at = "idle")
Quiet     == /\ \A t \in 1..Len(task) : Still(task[t])
             /\ proc["listener"].pc = "idle" /\ proc["ticker"].pc = "idle" /\ sent = <<>>
             /\ \A s \in Scans : proc[s].pc \in {"over", "new"}
             /\ folder.status = "Paused"
RestoreOK == Restoring => Quiet /\ (proc["user"].pc = "pick" => proc["user"].seen \subseteq Kept)

\* NothingDropped and RestartFindsAll follow from Found, which is inductive with the rest.
FindInv == Found /\ TasksOK /\ WorkersOK /\ RestoreOK

-----------------------------------------------------------------------------
(* What steps have in common                                               *)

\* The files of a queue without some of them.
LEMMA FilesWithout ==
    ASSUME NEW q, NEW fs
    PROVE  FilesOf(Without(q, fs)) = FilesOf(q) \ fs
BY DEF FilesOf, Without

\* A record holds what its folder does.
LEMMA PersistedHeld ==
    ASSUME NEW fo
    PROVE  Held(Persisted(fo)) = Held(fo) /\ Persisted(fo).listed = fo.listed
BY DEF Held, Persisted

\* Files stay found when what secures them only grows, and what the folder lets go is
\* secured or in "bare".
LEMMA FoundKept ==
    ASSUME Found, cancelled => cancelled', Secured \subseteq Secured' \cup bare', bare \subseteq bare',
           folder'.listed \subseteq folder.listed \cup Held(folder'),
           Held(folder) \subseteq Held(folder') \cup Secured' \cup bare',
           saved' \in {saved, Persisted(folder), Persisted(folder')}
    PROVE  Found'
<1>1. CASE cancelled
  BY <1>1 DEF Found
<1>2. CASE ~cancelled
  <2>1. Finds(folder) /\ Finds(saved)
    BY <1>2 DEF Found
  <2>2. folder'.listed \subseteq bare' \cup Held(folder') \cup Secured'
    BY <2>1 DEF Finds
  <2>3. saved'.listed \subseteq bare' \cup Held(saved') \cup Secured'
    <3>1. CASE saved' = saved
      BY <2>1, <3>1 DEF Finds
    <3>2. CASE saved' = Persisted(folder)
      BY <2>1, <3>2, PersistedHeld DEF Finds
    <3>3. CASE saved' = Persisted(folder')
      BY <2>2, <3>3, PersistedHeld
    <3> QED BY <3>1, <3>2, <3>3
  <2>4. Held(folder)' = Held(folder') /\ Held(saved)' = Held(saved')
    BY DEF Held, FilesOf
  <2> QED BY <2>2, <2>3, <2>4 DEF Found, Finds
<1> QED BY <1>1, <1>2

\* The tasks on disk are those in Kept.
LEMMA KeptFiles ==
    /\ \A t \in 1..Len(task) : Holds(task[t]) => task[t].file \in Kept
    /\ \A f \in Kept : \E t \in 1..Len(task) : Holds(task[t]) /\ task[t].file = f
<1>1. Present = {t \in 1..Len(task) : task[t].st # "gone"}
  BY DEF Present, There
<1> QED BY <1>1 DEF Kept, Holds

\* A step that leaves the tasks, the disk and the history alone secures what was.
LEMMA SecuredSame ==
    ASSUME UNCHANGED <<task, disk, archived, skips>>
    PROVE  Secured' = Secured /\ Kept' = Kept /\ Had' = Had
BY DEF Secured, Kept, Had, Present, There

\* A step that leaves tasks, disk and history alone keeps what is known of tasks.
LEMMA TasksSame ==
    ASSUME TasksOK, UNCHANGED <<task, disk, archived, skips>>, bare \subseteq bare'
    PROVE  TasksOK'
BY SecuredSame DEF TasksOK, TaskOK, Known

\* What is known of an actor when it goes to a new place.
LEMMA WorkersWent ==
    ASSUME TypeOK, WorkersOK, NEW a \in Actors, NEW r, Goes(a, r), WorkerOK(a, r, cancelled'),
           cancelled => cancelled'
    PROVE  WorkersOK'
<1>1. \A b \in Actors : proc'[b] = IF b = a THEN r ELSE proc[b]
  BY DEF TypeOK, Goes
<1>2. \A b \in Actors : WorkerOK(b, proc'[b], cancelled')
  BY <1>1 DEF WorkersOK, WorkerOK
<1>3. \A b \in Actors : WorkerOK(b, proc[b], cancelled)' <=> WorkerOK(b, proc'[b], cancelled')
  BY DEF WorkerOK
<1> QED BY <1>2, <1>3 DEF WorkersOK

\* The same when only its place changes.
LEMMA WorkersTo ==
    ASSUME TypeOK, WorkersOK, NEW a \in Actors, NEW pc, To(a, pc), cancelled => cancelled',
           pc = "deleting" => cancelled', 
           pc \in {"settle", "finalize"} => proc[a].mode # "restore"
    PROVE  WorkersOK'
<1>1. WorkerOK(a, [proc[a] EXCEPT !.pc = pc], cancelled')
  <2>1. proc[a] \in Workers
    BY DEF TypeOK
  <2> QED BY <2>1 DEF WorkersOK, WorkerOK, Workers
<1> QED BY <1>1, WorkersWent DEF To

\* The same when it has no more to create.
LEMMA WorkersDone ==
    ASSUME TypeOK, WorkersOK, NEW a \in Actors, Done(a), cancelled => cancelled'
    PROVE  WorkersOK'
<1>1. WorkerOK(a, Idle, cancelled') /\ WorkerOK(a, [Idle EXCEPT !.pc = "leave"], cancelled')
  BY DEF Idle, WorkerOK
<1> QED BY <1>1, WorkersWent DEF Done

\* A step in which no actor moves; a cancel is never taken back.
LEMMA WorkersSame ==
    ASSUME WorkersOK, proc' = proc, cancelled => cancelled'
    PROVE  WorkersOK'
BY DEF WorkersOK, WorkerOK

\* A step of another than the user, when nothing is restored.
LEMMA NotRestoring ==
    ASSUME ~Restoring, proc'["user"] = proc["user"]
    PROVE  RestoreOK'
BY DEF Restoring, RestoreOK

\* Nothing is restored when the user's part is at none of the places of the restore.
LEMMA UserElsewhere ==
    ASSUME \/ proc'["user"].mode # "restore"
           \/ proc'["user"].pc \notin {"cover", "reconcile", "look", "pick"}
    PROVE  RestoreOK'
BY DEF Restoring, RestoreOK

\* Another actor's own place: what the user is at does not change.
LEMMA OthersWent ==
    ASSUME TypeOK, NEW a \in Actors, a # "user", NEW r, Goes(a, r)
    PROVE  proc'["user"] = proc["user"]
BY NamedActors DEF TypeOK, Goes

\* A scan puts what it finds in the queue, and takes nothing from it.
LEMMA ScanFinds ==
    ASSUME TypeOK, FindInv, NEW s \in Scans, ScanStep(s)
    PROVE  FindInv'
<1> USE NamedActors
<1>0. /\ s \in Actors /\ s # "user" /\ folder \in Folders /\ proc[s] \in Workers
      /\ Found /\ TasksOK /\ WorkersOK /\ RestoreOK
  BY FolderAssumption DEF TypeOK, FindInv
<1>1. ~Restoring
  <2>1. proc[s].pc \notin {"over", "new"}
    BY DEF ScanStep, StartScan, ScanPage, ScanFails, ScanEnds, Leave, Listing, Pc
  <2> QED BY <1>0, <2>1 DEF RestoreOK, Quiet
<1>2. UNCHANGED <<task, sent, disk, archived, skips, bare, cancelled>>
  BY DEF ScanStep, StartScan, ScanPage, ScanFails, ScanEnds, Leave, task_vars, fixed, history
<1>3. PICK r : Goes(s, r) /\ WorkerOK(s, r, cancelled')
  <2>1. /\ WorkerOK(s, Over, cancelled) /\ WorkerOK(s, [Idle EXCEPT !.pc = "cover", !.mode = "fill"], cancelled)
        /\ WorkerOK(s, [proc[s] EXCEPT !.pc = "relist", !.arg = 1], cancelled)
        /\ WorkerOK(s, [proc[s] EXCEPT !.arg = @ + 1], cancelled)
    BY <1>0 DEF Idle, Over, WorkerOK, WorkersOK, Workers
  <2> QED BY <1>2, <2>1 DEF ScanStep, StartScan, ScanPage, ScanFails, ScanEnds, Leave
<1>4. Found'
  <2>1. /\ folder'.listed \subseteq folder.listed \cup Held(folder')
        /\ Held(folder) \subseteq Held(folder')
    <3>1. CASE ScanPage(s)
      <4>1. CASE ~InMemory
        BY <3>1, <4>1 DEF ScanPage
      <4>2. CASE InMemory
        <5> DEFINE e == [no |-> folder.total, file |-> proc[s].arg]
        <5>1. folder' = [folder EXCEPT !.pending = @ \cup {e}, !.total = @ + 1,
                                       !.listed = @ \cup {e.file}]
          BY <3>1, <4>2 DEF ScanPage
        <5> HIDE DEF e
        <5>2. /\ folder'.pending = folder.pending \cup {e} /\ folder'.counted = folder.counted
              /\ folder'.listed = folder.listed \cup {e.file}
          BY <1>0, <5>1 DEF Folders
        <5>3. FilesOf(folder'.pending) = FilesOf(folder.pending) \cup {e.file}
          BY <5>2 DEF FilesOf
        <5> QED BY <5>2, <5>3 DEF Held
      <4> QED BY <4>1, <4>2
    <3>2. CASE ~ScanPage(s)
      <4>1. \/ folder' = folder \/ \E st, done : folder' = [folder EXCEPT !.scanned = done, !.status = st]
            \/ \E st : folder' = [folder EXCEPT !.status = st]
        BY <3>2 DEF ScanStep, StartScan, ScanFails, ScanEnds, Leave, folder_vars
      <4>2. /\ folder'.pending = folder.pending /\ folder'.counted = folder.counted
            /\ folder'.listed = folder.listed
        BY <1>0, <4>1 DEF Folders
      <4> QED BY <4>2 DEF Held
    <3> QED BY <3>1, <3>2
  <2>2. saved' \in {saved, Persisted(folder)}
    BY DEF ScanStep, StartScan, ScanPage, ScanFails, ScanEnds, Leave, folder_vars
  <2> QED BY <1>0, <1>2, <2>1, <2>2, SecuredSame, FoundKept
<1>5. WorkersOK'
  BY <1>0, <1>2, <1>3, WorkersWent
<1>6. RestoreOK'
  BY <1>0, <1>1, <1>3, OthersWent, NotRestoring
<1>7. TasksOK'
  BY <1>0, <1>2, TasksSame
<1> QED BY <1>4, <1>5, <1>6, <1>7 DEF FindInv

\* An actor that creates tasks stays what it was.
LEMMA CreatesWorkers ==
    ASSUME TypeOK, WorkersOK, NEW a \in Actors, Creates(a)
    PROVE  WorkersOK' /\ cancelled' = cancelled
<1>0. proc[a] \in Workers /\ WorkerOK(a, proc[a], cancelled)
  BY DEF TypeOK, WorkersOK
<1>1. cancelled' = cancelled
  BY DEF Creates, Cover, Reconcile, Look, Pick, Enough, CheckRunning, Skip, Make, CannotMake, Tally, Settle,
         Finalize, history
<1>2. CASE Cover(a)
  <2>1. ASSUME NEW seen, NEW n
        PROVE  WorkerOK(a, [proc[a] EXCEPT !.pc = "reconcile", !.seen = seen, !.arg = n], cancelled)
    BY <1>0 DEF Workers, WorkerOK
  <2> QED BY <1>1, <1>2, <2>1, WorkersWent, WorkersTo DEF Cover
<1>3. CASE Reconcile(a)
  <2>1. WorkerOK(a, [Idle EXCEPT !.pc = "look", !.mode = proc[a].mode], cancelled)
    BY <1>0 DEF Idle, WorkerOK
  <2> QED BY <1>1, <1>3, <2>1, WorkersWent DEF Reconcile
<1>4. CASE Look(a)
  <2>1. ASSUME NEW pc \in {"judge", "pick"}, NEW seen, NEW live
        PROVE  WorkerOK(a, [proc[a] EXCEPT !.pc = pc, !.seen = seen, !.live = live], cancelled)
    BY <1>0 DEF Workers, WorkerOK
  <2> QED BY <1>1, <1>4, <2>1, WorkersWent DEF Look
<1>5. CASE Pick(a)
  <2>1. ASSUME NEW batch
        PROVE  WorkerOK(a, [Idle EXCEPT !.pc = "next", !.mode = proc[a].mode, !.files = batch], cancelled)
    BY <1>0 DEF Idle, WorkerOK
  <2> QED BY <1>1, <1>5, <2>1, WorkersWent, WorkersDone DEF Pick
<1>6. CASE CheckRunning(a)
  BY <1>1, <1>6, WorkersTo DEF CheckRunning
<1>7. CASE Skip(a)
  <2>1. ASSUME NEW q, NEW n
        PROVE  WorkerOK(a, [proc[a] EXCEPT !.pc = "next", !.files = q, !.left = n], cancelled)
    BY <1>0 DEF Workers, WorkerOK
  <2>2. \E q, n : Goes(a, [proc[a] EXCEPT !.pc = "next", !.files = q, !.left = n])
    BY <1>7 DEF Skip
  <2> QED BY <1>1, <2>1, <2>2, WorkersWent
<1>8. CASE Make(a)
  <2>1. ASSUME NEW q
        PROVE  WorkerOK(a, [proc[a] EXCEPT !.pc = "next", !.files = q, !.made = TRUE], cancelled)
    BY <1>0 DEF Workers, WorkerOK
  <2>2. \E q : Goes(a, [proc[a] EXCEPT !.pc = "next", !.files = q, !.made = TRUE])
    BY <1>8 DEF Make
  <2> QED BY <1>1, <2>1, <2>2, WorkersWent
<1>9. CASE Tally(a)
  <2>1. ASSUME NEW pc \in {"look", "settle"}
        PROVE  WorkerOK(a, [Idle EXCEPT !.pc = pc, !.mode = "fill"], cancelled)
    BY DEF Idle, WorkerOK
  <2> QED BY <1>1, <1>9, <2>1, WorkersWent, WorkersDone DEF Tally
<1>10. CASE Settle(a) \/ Finalize(a)
  <2>1. proc[a].mode # "restore"
    BY <1>0, <1>10 DEF Settle, Finalize, Pc, WorkerOK
  <2> QED BY <1>1, <1>10, <2>1, WorkersTo DEF Settle, Finalize
<1>11. CASE Enough(a)
  BY <1>1, <1>11, WorkersDone DEF Enough
<1>12. CASE CannotMake(a)
  <2>1. ASSUME NEW q
        PROVE  WorkerOK(a, [proc[a] EXCEPT !.pc = "next", !.files = q], cancelled)
    BY <1>0 DEF Workers, WorkerOK
  <2>2. Done(a) \/ \E q : Goes(a, [proc[a] EXCEPT !.pc = "next", !.files = q])
    BY <1>12 DEF CannotMake
  <2> QED BY <1>1, <2>1, <2>2, WorkersWent, WorkersDone
<1> QED BY <1>1, <1>2, <1>3, <1>4, <1>5, <1>6, <1>7, <1>8, <1>9, <1>10, <1>11, <1>12 DEF Creates

\* The mode of an actor is its own, or that of a refill.
LEMMA CreatesMode ==
    ASSUME TypeOK, NEW a \in Actors, Creates(a)
    PROVE  proc'[a].mode \in {proc[a].mode, "fill", "feed"}
<1>0. proc[a] \in Workers /\ Idle.mode = "feed"
  BY DEF TypeOK, Idle
<1>1. \A r : Goes(a, r) => proc'[a] = r
  BY DEF TypeOK, Goes
<1>2. ASSUME NEW pc, To(a, pc) PROVE proc'[a].mode = proc[a].mode
  BY <1>0, <1>1, <1>2 DEF To, Workers
<1>3. Done(a) => proc'[a].mode = "feed"
  BY <1>1 DEF Done, Idle
<1>4. CASE Cover(a)
  <2>1. ASSUME NEW seen, NEW n
        PROVE  [proc[a] EXCEPT !.pc = "reconcile", !.seen = seen, !.arg = n].mode = proc[a].mode
    BY <1>0 DEF Workers
  <2>2. \/ \E pc : To(a, pc)
        \/ \E seen, n : Goes(a, [proc[a] EXCEPT !.pc = "reconcile", !.seen = seen, !.arg = n])
    BY <1>4 DEF Cover
  <2>3. ASSUME NEW seen, NEW n,
               Goes(a, [proc[a] EXCEPT !.pc = "reconcile", !.seen = seen, !.arg = n])
        PROVE  proc'[a].mode = proc[a].mode
    <3>1. proc'[a] = [proc[a] EXCEPT !.pc = "reconcile", !.seen = seen, !.arg = n]
      BY <1>1, <2>3
    <3> QED BY <2>1, <3>1
  <2> QED BY <1>2, <2>2, <2>3
<1>5. CASE Reconcile(a)
  <2>1. [Idle EXCEPT !.pc = "look", !.mode = proc[a].mode].mode = proc[a].mode
    BY DEF Idle
  <2> QED BY <1>1, <1>5, <2>1 DEF Reconcile
<1>6. CASE Look(a)
  <2>1. ASSUME NEW pc, NEW seen, NEW live
        PROVE  [proc[a] EXCEPT !.pc = pc, !.seen = seen, !.live = live].mode = proc[a].mode
    BY <1>0 DEF Workers
  <2>2. PICK pc, seen, live :
             Goes(a, [proc[a] EXCEPT !.pc = pc, !.seen = seen, !.live = live])
    BY <1>6 DEF Look
  <2>3. proc'[a] = [proc[a] EXCEPT !.pc = pc, !.seen = seen, !.live = live]
    BY <1>1, <2>2
  <2> QED BY <2>1, <2>3
<1>7. CASE Pick(a)
  <2>1. ASSUME NEW batch
        PROVE  [Idle EXCEPT !.pc = "next", !.mode = proc[a].mode, !.files = batch].mode = proc[a].mode
    BY DEF Idle
  <2>2. \/ Done(a)
        \/ \E batch : Goes(a, [Idle EXCEPT !.pc = "next", !.mode = proc[a].mode, !.files = batch])
    BY <1>7 DEF Pick
  <2> QED BY <1>1, <1>3, <2>1, <2>2
<1>8. CASE Skip(a)
  <2>1. ASSUME NEW q, NEW n
        PROVE  [proc[a] EXCEPT !.pc = "next", !.files = q, !.left = n].mode = proc[a].mode
    BY <1>0 DEF Workers
  <2>2. PICK q, n : Goes(a, [proc[a] EXCEPT !.pc = "next", !.files = q, !.left = n])
    BY <1>8 DEF Skip
  <2>3. proc'[a] = [proc[a] EXCEPT !.pc = "next", !.files = q, !.left = n]
    BY <1>1, <2>2
  <2> QED BY <2>1, <2>3
<1>9. CASE Make(a)
  <2>1. ASSUME NEW q
        PROVE  [proc[a] EXCEPT !.pc = "next", !.files = q, !.made = TRUE].mode = proc[a].mode
    BY <1>0 DEF Workers
  <2>2. \E q : Goes(a, [proc[a] EXCEPT !.pc = "next", !.files = q, !.made = TRUE])
    BY <1>9 DEF Make
  <2> QED BY <1>1, <2>1, <2>2
<1>10. CASE Tally(a)
  <2>1. ASSUME NEW pc PROVE [Idle EXCEPT !.pc = pc, !.mode = "fill"].mode = "fill"
    BY DEF Idle
  <2>2. Done(a) \/ \E pc : Goes(a, [Idle EXCEPT !.pc = pc, !.mode = "fill"])
    BY <1>10 DEF Tally
  <2> QED BY <1>1, <1>3, <2>1, <2>2
<1>11. CASE CheckRunning(a) \/ Settle(a) \/ Finalize(a)
  BY <1>2, <1>11 DEF CheckRunning, Settle, Finalize
<1>12. CASE Enough(a)
  BY <1>3, <1>12 DEF Enough
<1>13. CASE CannotMake(a)
  <2>1. ASSUME NEW q
        PROVE  [proc[a] EXCEPT !.pc = "next", !.files = q].mode = proc[a].mode
    BY <1>0 DEF Workers
  <2>2. Done(a) \/ \E q : Goes(a, [proc[a] EXCEPT !.pc = "next", !.files = q])
    BY <1>13 DEF CannotMake
  <2> QED BY <1>1, <1>3, <2>1, <2>2
<1> QED BY <1>4, <1>5, <1>6, <1>7, <1>8, <1>9, <1>10, <1>11, <1>12, <1>13 DEF Creates

\* While the user's part restores, it goes from one place of the restore to the next.
LEMMA CreatesRestore ==
    ASSUME TypeOK, WorkersOK, RestoreOK, NEW a \in Actors, Creates(a)
    PROVE  RestoreOK'
<1> USE NamedActors
<1>0. proc["user"] \in Workers /\ folder \in Folders
  BY DEF TypeOK
<1>1. CASE a # "user"
  <2>1. proc[a].pc \notin {"idle", "over", "new"}
    BY DEF Creates, Cover, Reconcile, Look, Pick, Enough, CheckRunning, Skip, Make, CannotMake, Tally, Settle,
           Finalize, Pc
  <2>2. ~Restoring
    BY <1>1, <2>1 DEF RestoreOK, Quiet, Actors
  <2>3. \E r : Goes(a, r)
    BY DEF Creates, Cover, Reconcile, Look, Pick, Enough, CheckRunning, Skip, Make, CannotMake, Tally, Settle,
           Finalize, To, Done
  <2> QED BY <1>1, <2>2, <2>3, OthersWent, NotRestoring
<1>2. CASE a = "user" /\ proc["user"].mode # "restore"
  <2>1. proc'["user"].mode # "restore"
    BY <1>2, CreatesMode
  <2> QED BY <2>1, UserElsewhere
<1>3. CASE a = "user" /\ proc["user"].mode = "restore"
  <2>0. /\ \A r : Goes("user", r) => proc'["user"] = r
        /\ \A r, b : b \in Actors /\ b # "user" /\ Goes("user", r) => proc'[b] = proc[b]
        /\ proc["user"].pc \notin {"settle", "finalize"}
    BY <1>3 DEF TypeOK, Goes, WorkersOK, WorkerOK
  <2>1. CASE proc["user"].pc \in {"cover", "reconcile", "look", "pick"}
    <3>1. Restoring /\ Quiet
      BY <1>3, <2>1 DEF Restoring, RestoreOK
    <3>2. \E r : Goes("user", r)
      BY <1>3 DEF Creates, Cover, Reconcile, Look, Pick, Enough, CheckRunning, Skip, Make, CannotMake, Tally, Settle,
             Finalize, To, Done
    <3>3. \/ Cover("user") \/ Reconcile("user") \/ Look("user") \/ Pick("user")
          \/ Enough("user")
      BY <1>3, <2>1 DEF Creates, CheckRunning, Skip, Make, CannotMake, Tally, Settle, Finalize, Pc
    <3>4. UNCHANGED <<task, sent>>
      BY <3>3 DEF Cover, Reconcile, Look, Pick, Enough, task_vars
    <3>5. folder'.status = "Paused"
      <4>1. \/ folder' = folder \/ \E q : folder' = [folder EXCEPT !.pending = q]
            \/ \E q, n : folder' = [folder EXCEPT !.pending = q, !.completed = n]
        BY <3>3 DEF Cover, Reconcile, Look, Pick, Enough, folder_vars
      <4> QED BY <1>0, <3>1, <4>1 DEF Folders, Quiet
    <3>6. Quiet'
      <4>1. proc'["listener"] = proc["listener"] /\ proc'["ticker"] = proc["ticker"]
        BY <2>0, <3>2
      <4>2. \A s \in Scans : proc'[s] = proc[s] \/ s = "user"
        BY <2>0, <3>2
      <4>3. "user" \notin Scans
        BY <2>1, <3>1 DEF Quiet
      <4>4. \A s \in Scans : proc'[s] = proc[s]
        BY <4>2, <4>3
      <4> QED BY <3>1, <3>4, <3>5, <4>1, <4>4 DEF Quiet, Still
    <3>7. CASE Look("user")
      <4>1. proc'["user"].seen = Covered
        BY <1>0, <2>0, <3>7 DEF Look, Workers
      <4>2. Covered \subseteq Kept
        BY <3>1 DEF Covered, Kept, Present, There, Quiet, Still
      <4>3. Kept' = Kept
        BY <3>4 DEF Kept, Present, There
      <4> QED BY <3>6, <4>1, <4>2, <4>3 DEF RestoreOK
    <3>8. CASE ~Look("user")
      <4>1. proc'["user"].pc # "pick"
        <5>1. CASE Cover("user")
          <6>1. ASSUME NEW seen, NEW n
                PROVE  [proc["user"] EXCEPT !.pc = "reconcile", !.seen = seen, !.arg = n].pc = "reconcile"
            BY <1>0 DEF Workers
          <6>2. [proc["user"] EXCEPT !.pc = "look"].pc = "look"
            BY <1>0 DEF Workers
          <6>3. \/ Goes("user", [proc["user"] EXCEPT !.pc = "look"])
                \/ \E seen, n : Goes("user", [proc["user"] EXCEPT !.pc = "reconcile",
                                                                 !.seen = seen, !.arg = n])
            BY <5>1 DEF Cover, To
          <6>4. ASSUME NEW seen, NEW n, Goes("user", [proc["user"] EXCEPT !.pc = "reconcile",
                                                                 !.seen = seen, !.arg = n])
                PROVE  proc'["user"].pc = "reconcile"
            <7>1. proc'["user"] = [proc["user"] EXCEPT !.pc = "reconcile", !.seen = seen, !.arg = n]
              BY <2>0, <6>4
            <7> QED BY <6>1, <7>1
          <6>5. ASSUME Goes("user", [proc["user"] EXCEPT !.pc = "look"])
                PROVE  proc'["user"].pc = "look"
            <7>1. proc'["user"] = [proc["user"] EXCEPT !.pc = "look"]
              BY <2>0, <6>5
            <7> QED BY <6>2, <7>1
          <6> QED BY <6>3, <6>4, <6>5
        <5>2. CASE Reconcile("user")
          <6>1. [Idle EXCEPT !.pc = "look", !.mode = proc["user"].mode].pc = "look"
            BY DEF Idle
          <6> QED BY <2>0, <5>2, <6>1 DEF Reconcile
        <5>3. CASE Pick("user")
          <6>1. ASSUME NEW batch
                PROVE  [Idle EXCEPT !.pc = "next", !.mode = proc["user"].mode, !.files = batch].pc = "next"
            BY DEF Idle
          <6>2. Idle.pc = "idle" /\ [Idle EXCEPT !.pc = "leave"].pc = "leave"
            BY DEF Idle
          <6>3. \/ Done("user")
                \/ \E batch : Goes("user", [Idle EXCEPT !.pc = "next", !.mode = proc["user"].mode,
                                                        !.files = batch])
            BY <5>3 DEF Pick
          <6>4. Done("user") => Goes("user", Idle) \/ Goes("user", [Idle EXCEPT !.pc = "leave"])
            BY DEF Done
          <6> QED BY <2>0, <6>1, <6>2, <6>3, <6>4
        <5>4. CASE Enough("user")
          <6>1. Idle.pc = "idle" /\ [Idle EXCEPT !.pc = "leave"].pc = "leave"
            BY DEF Idle
          <6>2. Goes("user", Idle) \/ Goes("user", [Idle EXCEPT !.pc = "leave"])
            BY <5>4 DEF Enough, Done
          <6> QED BY <2>0, <6>1, <6>2
        <5> QED BY <3>3, <3>8, <5>1, <5>2, <5>3, <5>4
      <4> QED BY <3>6, <4>1 DEF RestoreOK
    <3> QED BY <3>7, <3>8
  <2>2. CASE proc["user"].pc \notin {"cover", "reconcile", "look", "pick"}
    <3>1. \/ CheckRunning("user") \/ Skip("user") \/ Make("user") \/ CannotMake("user")
          \/ Tally("user")
      BY <1>3, <2>0, <2>2 DEF Creates, Cover, Reconcile, Look, Pick, Enough, Settle, Finalize, Pc
    <3>2. CASE CheckRunning("user")
      <4>1. proc'["user"].pc = "make"
        BY <1>0, <2>0, <3>2 DEF CheckRunning, To, Workers
      <4> QED BY <4>1, UserElsewhere
    <3>3. CASE Skip("user") \/ Make("user")
      <4>1. proc'["user"].pc = "next"
        BY <1>0, <2>0, <3>3 DEF Skip, Make, Workers
      <4> QED BY <4>1, UserElsewhere
    <3>4. CASE Tally("user")
      <4>1. Done("user")
        BY <1>3, <3>4 DEF Tally
      <4>2. proc'["user"].pc \in {"idle", "leave"}
        BY <2>0, <4>1 DEF Done, Idle
      <4> QED BY <4>2, UserElsewhere
    <3>5. CASE CannotMake("user")
      <4>1. \E e : Goes("user", [proc["user"] EXCEPT !.pc = "next", !.files = @ \ {e}])
        BY <1>3, <3>5 DEF CannotMake
      <4>2. proc'["user"].pc = "next"
        BY <1>0, <2>0, <4>1 DEF Workers
      <4> QED BY <4>2, UserElsewhere
    <3> QED BY <3>1, <3>2, <3>3, <3>4, <3>5
  <2> QED BY <2>1, <2>2
<1> QED BY <1>1, <1>2, <1>3

\* Creating tasks: a file leaves the queue when its task is on disk, when it is in the
\* history, when it is skipped as it exists, or into "bare".
LEMMA CreatesFinds ==
    ASSUME TypeOK, FindInv, NEW a \in Actors, Creates(a)
    PROVE  FindInv'
<1> USE NamedActors
<1>0. /\ folder \in Folders /\ Found /\ TasksOK /\ WorkersOK /\ RestoreOK
      /\ WorkersOK' /\ RestoreOK' /\ cancelled' = cancelled
  BY CreatesWorkers, CreatesRestore DEF TypeOK, FindInv
<1>1. UNCHANGED <<disk, archived, skips>>
  BY DEF Creates, Cover, Reconcile, Look, Pick, Enough, CheckRunning, Skip, Make, CannotMake, Tally, Settle, Finalize,
         task_vars, fixed
<1>2. ASSUME UNCHANGED <<task, bare>>, folder'.listed = folder.listed,
             Held(folder) \subseteq Held(folder') \cup Secured,
             saved' \in {saved, Persisted(folder), Persisted(folder')}
      PROVE  FindInv'
  <2>1. Found' /\ TasksOK'
    BY <1>0, <1>1, <1>2, SecuredSame, TasksSame, FoundKept
  <2> QED BY <1>0, <2>1 DEF FindInv
<1>3. ASSUME NEW fo, fo.pending = folder.pending, fo.counted = folder.counted,
             fo.listed = folder.listed, folder' = fo
      PROVE  folder'.listed = folder.listed /\ Held(folder) \subseteq Held(folder')
  BY <1>3 DEF Held
<1>4. CASE Cover(a) \/ Look(a) \/ Enough(a) \/ CheckRunning(a) \/ CannotMake(a) \/ Settle(a)
  <2>1. UNCHANGED <<folder, saved, task, bare>>
    BY <1>4 DEF Cover, Look, Enough, CheckRunning, CannotMake, Settle, folder_vars, task_vars, history
  <2> QED BY <1>0, <1>2, <1>3, <2>1
<1>5. CASE Finalize(a)
  <2>1. folder' = folder \/ \E st : folder' = [folder EXCEPT !.status = st]
    BY <1>5 DEF Finalize, folder_vars
  <2>2. /\ folder'.pending = folder.pending /\ folder'.counted = folder.counted
        /\ folder'.listed = folder.listed
    BY <1>0, <2>1 DEF Folders
  <2> QED BY <1>2, <1>3, <1>5, <2>2 DEF Finalize, Save, folder_vars, task_vars, history
<1>6. CASE Tally(a)
  <2>1. folder' = folder \/ \E n : folder' = [folder EXCEPT !.skipped = n]
    BY <1>6 DEF Tally
  <2>2. /\ folder'.pending = folder.pending /\ folder'.counted = folder.counted
        /\ folder'.listed = folder.listed
    BY <1>0, <2>1 DEF Folders
  <2>3. UNCHANGED <<task, bare>> /\ saved' \in {saved, Persisted(folder')}
    BY <1>6 DEF Tally, Save, MaySave, task_vars, history
  <2> QED BY <1>2, <1>3, <2>2, <2>3
<1>7. CASE Reconcile(a)
  <2>1. CASE ~InMemory
    BY <1>2, <1>3, <1>7, <2>1 DEF Reconcile, folder_vars, task_vars
  <2>2. CASE InMemory
    <3>1. \E n : folder' = [folder EXCEPT !.pending = Without(@, proc[a].seen), !.completed = n]
      BY <1>7, <2>2 DEF Reconcile
    <3>2. /\ folder'.pending = Without(folder.pending, proc[a].seen)
          /\ folder'.counted = folder.counted /\ folder'.listed = folder.listed
      BY <1>0, <3>1 DEF Folders
    <3>3. bare' = bare \cup ((FilesOf(folder.pending) \cap proc[a].seen) \ (archived \cup Kept))
      BY <1>7, <2>2 DEF Reconcile
    <3>4. UNCHANGED task /\ saved' \in {saved, Persisted(folder')}
      BY <1>7, <2>2 DEF Reconcile, Save, task_vars
    <3>5. Held(folder) \subseteq Held(folder') \cup Secured \cup bare'
      BY <3>2, <3>3, FilesWithout DEF Held, Secured
    <3>6. Found' /\ TasksOK'
      BY <1>0, <1>1, <3>2, <3>3, <3>4, <3>5, SecuredSame, TasksSame, FoundKept
    <3> QED BY <1>0, <3>6 DEF FindInv
  <2> QED BY <2>1, <2>2
<1>8. CASE Pick(a)
  <2>1. UNCHANGED <<task, bare>> /\ saved' = saved
    BY <1>8 DEF Pick, task_vars, history
  <2>2. CASE proc[a].mode = "restore" /\ MayPick(a)
    <3>1. folder' = [folder EXCEPT !.pending = Choice(a)]
      BY <1>8, <2>2 DEF Pick
    <3>2. /\ folder'.pending = Choice(a)
          /\ folder'.counted = folder.counted /\ folder'.listed = folder.listed
      BY <1>0, <3>1 DEF Folders
    <3>3. proc[a].seen \subseteq Kept
      BY <1>0, <1>8, <2>2 DEF Pick, Pc, WorkersOK, WorkerOK, RestoreOK, Restoring
    <3>4. Held(folder) \subseteq Held(folder') \cup Secured
      BY <3>2, <3>3, FilesWithout DEF Held, Secured, Choice
    <3> QED BY <1>2, <2>1, <3>2, <3>4
  <2>3. CASE ~(proc[a].mode = "restore" /\ MayPick(a))
    <3>1. folder' = folder
      BY <1>8, <2>3 DEF Pick
    <3> QED BY <1>2, <1>3, <2>1, <3>1
  <2> QED BY <2>2, <2>3
<1>9. CASE Skip(a)
  <2>1. PICK e : /\ e.file \in disk /\ skips
                 /\ folder' = IF InMemory THEN [folder EXCEPT !.pending = Without(@, {e.file})]
                                         ELSE folder
    BY <1>9 DEF Skip
  <2>2. UNCHANGED <<task, bare>> /\ saved' = saved
    BY <1>9 DEF Skip, task_vars, history
  <2>3. CASE ~InMemory
    BY <1>2, <1>3, <2>1, <2>2, <2>3
  <2>4. CASE InMemory
    <3>1. /\ folder'.pending = Without(folder.pending, {e.file})
          /\ folder'.counted = folder.counted /\ folder'.listed = folder.listed
      BY <1>0, <2>1, <2>4 DEF Folders
    <3>2. e.file \in Secured
      BY <2>1 DEF Secured, Had
    <3>3. Held(folder) \subseteq Held(folder') \cup Secured
      BY <3>1, <3>2, FilesWithout DEF Held
    <3> QED BY <1>2, <2>2, <3>1, <3>3
  <2> QED BY <2>3, <2>4
<1>10. CASE Make(a)
  <2>1. PICK e \in Firsts(proc[a].files), at \in {"link", "queue", "idle"} :
             /\ ~(skips /\ e.file \in disk)
             /\ task' = Append(task, NewTask(e.file, IF at = "idle" THEN "Paused" ELSE "Pending", at))
    BY <1>10 DEF Make
  <2> DEFINE r == NewTask(e.file, IF at = "idle" THEN "Paused" ELSE "Pending", at)
  <2>2. UNCHANGED <<folder, saved, bare>>
    BY <1>10 DEF Make, folder_vars, history
  <2>3. Had' = Had
    BY <1>1 DEF Had
  <2>4. TaskOK(r, Known, Had) /\ ~Holds(r)
    BY <2>1 DEF NewTask, TaskOK, Holds, Had
  <2> HIDE DEF r
  <2>5. /\ Len(task') = Len(task) + 1 /\ Len(task) \in Nat
        /\ \A t \in 1..Len(task) : task'[t] = task[t]
        /\ task'[Len(task) + 1] = r
    <3> DEFINE S == Subtasks \cup {r}
    <3>1. task \in Seq(S) /\ r \in S
      BY DEF TypeOK
    <3> HIDE DEF S
    <3> QED BY <2>1, <3>1 DEF r
  <2>6. TasksOK'
    <3>1. \A t \in 1..Len(task') : TaskOK(task'[t], Known, Had)
      BY <1>0, <2>4, <2>5 DEF TasksOK
    <3>2. Known' = Known
      BY <1>1, <2>2 DEF Known
    <3> QED BY <2>3, <3>1, <3>2 DEF TasksOK, TaskOK
  <2>7. Kept \subseteq Kept'
    <3>1. \A t \in 1..Len(task) : Holds(task[t]) => Holds(task'[t]) /\ task'[t].file = task[t].file
      BY <2>5
    <3>2. \A t \in 1..Len(task') : Holds(task'[t]) => task'[t].file \in Kept'
      <4>1. (\A t \in 1..Len(task) : Holds(task[t]) => task[t].file \in Kept)'
        BY KeptFiles, PTL
      <4> QED BY <4>1 DEF Holds
    <3> QED BY <2>5, <3>1, <3>2, KeptFiles
  <2>8. Secured \subseteq Secured'
    BY <1>1, <2>3, <2>7 DEF Secured
  <2>9. Found'
    BY <1>0, <2>2, <2>8, FoundKept
  <2> QED BY <1>0, <2>6, <2>9 DEF FindInv
<1> QED BY <1>4, <1>5, <1>6, <1>7, <1>8, <1>9, <1>10 DEF Creates

\* Whoever has its file on disk keeps it, or has it in the history.
LEMMA HoldersStay ==
    ASSUME \A t \in 1..Len(task) :
              /\ t \in 1..Len(task')
              /\ Holds(task[t]) => \/ Holds(task'[t]) /\ task'[t].file = task[t].file
                                   \/ task[t].file \in archived'
    PROVE  Kept \subseteq Kept' \cup archived'
<1>1. (\A t \in 1..Len(task) : Holds(task[t]) => task[t].file \in Kept)'
  BY KeptFiles, PTL
<1>2. \A t \in 1..Len(task') : Holds(task'[t]) => task'[t].file \in Kept'
  BY <1>1 DEF Holds
<1> QED BY <1>2, KeptFiles

\* A step that changes one task, and perhaps takes its file from the queue when that is secured.
LEMMA SetFinds ==
    ASSUME TypeOK, FindInv, ~Restoring, NEW t \in 1..Len(task), NEW r \in Subtasks, Set(t, r),
           UNCHANGED <<proc, cancelled>>, archived \subseteq archived',
           bare \subseteq bare', Had \subseteq Had' \cup Known', Had' \subseteq Had \cup Known',
           TaskOK(r, Known', Had'),
           Holds(task[t]) => (Holds(r) /\ r.file = task[t].file) \/ task[t].file \in archived',
           folder'.listed = folder.listed,
           Held(folder) \subseteq Held(folder') \cup Kept,
           saved' \in {saved, Persisted(folder')}
    PROVE  FindInv'
<1>0. Found /\ TasksOK /\ WorkersOK
  BY DEF FindInv
<1>1. Len(task') = Len(task) /\ \A u \in 1..Len(task) : task'[u] = IF u = t THEN r ELSE task[u]
  <2> HIDE DEF Subtasks
  <2> QED BY DEF TypeOK, Set
<1>2. Kept \subseteq Kept' \cup archived'
  BY <1>1, HoldersStay
<1>3. Secured \subseteq Secured' \cup bare'
  BY <1>2 DEF Secured, Known
<1>4. Found'
  <2>1. Held(folder) \subseteq Held(folder') \cup Secured' \cup bare'
    BY <1>2 DEF Secured
  <2> QED BY <1>0, <1>3, <2>1, FoundKept
<1>5. TasksOK'
  <2>1. Known \subseteq Known'
    BY DEF Known
  <2>2. \A u \in 1..Len(task') : TaskOK(task'[u], Known', Had')
    BY <1>0, <1>1, <2>1 DEF TasksOK, TaskOK
  <2> QED BY <2>2 DEF TasksOK, TaskOK
<1>6. WorkersOK' /\ RestoreOK'
  BY <1>0, WorkersSame, NotRestoring
<1> QED BY <1>4, <1>5, <1>6 DEF FindInv

\* The tasks: what leaves the WAL is in the history, what leaves the queue is in the WAL.
LEMMA TaskFinds ==
    ASSUME TypeOK, FindInv, NEW t \in 1..Len(task), TaskStep(t)
    PROVE  FindInv'
<1>0. /\ task[t] \in Subtasks /\ folder \in Folders
      /\ TaskOK(task[t], Known, Had) /\ RestoreOK
  BY DEF TypeOK, FindInv, TasksOK
<1>1. UNCHANGED <<proc, cancelled, skips>> /\ (bare' = bare \/ Finish(t))
  BY DEF TaskStep, Launch, Prepared, NotPrepared, Keep, DropPending, NotKept, Finish, Report, Break,
         fixed, history
<1>2. ~Restoring
  <2>1. \/ task[t].at \in {"queue", "link", "file", "kept", "run"}
        \/ task[t].st = "Completed"
    BY DEF TaskStep, Launch, Prepared, NotPrepared, Keep, DropPending, NotKept, Finish, Report, Break
  <2>2. ~Still(task[t])
    BY <1>0, <2>1 DEF Still, TaskOK
  <2> QED BY <1>0, <2>2 DEF RestoreOK, Quiet
<1>3. ASSUME NEW r \in Subtasks, Set(t, r), UNCHANGED <<folder, saved, disk, archived, bare>>,
             r.file = task[t].file, r.st = "Completed" => ~r.kept,
             r.st \in {"gone", "Completed"} => r.at = "idle", r.at = "kept" => r.kept, Holds(task[t]) => Holds(r)
      PROVE  FindInv'
  <2>1. Had' = Had /\ Known' = Known
    BY <1>1, <1>3 DEF Had, Known
  <2>2. TaskOK(r, Known', Had')
    BY <1>0, <1>3, <2>1 DEF TaskOK
  <2>3. Held(folder') = Held(folder)
    BY <1>3
  <2> QED BY <1>1, <1>2, <1>3, <2>1, <2>2, <2>3, SetFinds
<1>4. CASE Launch(t)
  <2> DEFINE r == [task[t] EXCEPT !.at = "link"]
  <2>1. r \in Subtasks /\ r.at = "link" /\ r.file = task[t].file /\ r.st = task[t].st /\ r.kept = task[t].kept
    BY <1>0 DEF Subtasks
  <2>2. Set(t, r) /\ task[t].at = "queue" /\ UNCHANGED <<folder, saved, disk, archived, bare>>
    BY <1>4 DEF Launch, folder_vars, history
  <2> HIDE DEF r
  <2> QED BY <1>0, <1>3, <2>1, <2>2 DEF Holds, TaskOK
<1>5. CASE Prepared(t)
  <2> DEFINE r == [task[t] EXCEPT !.st = "Downloading", !.at = "file"]
  <2>1. /\ r \in Subtasks /\ r.at = "file" /\ r.file = task[t].file /\ r.st = "Downloading"
        /\ r.kept = task[t].kept
    BY <1>0 DEF Subtasks
  <2>2. /\ Set(t, r) /\ UNCHANGED <<folder, saved, archived, bare>> /\ disk' = disk \ {task[t].file}
    BY <1>5 DEF Prepared, folder_vars, history
  <2> HIDE DEF r
  <2>3. Known' = Known /\ Had' \subseteq Had /\ Had \subseteq Had' \cup Known'
    BY <1>0, <1>1, <2>2 DEF Had, TaskOK, Known
  <2>4. TaskOK(r, Known', Had') /\ (Holds(task[t]) => Holds(r))
    BY <1>0, <2>1, <2>2, <2>3 DEF TaskOK, Holds
  <2>5. Held(folder') = Held(folder)
    BY <2>2
  <2> QED BY <1>1, <1>2, <2>1, <2>2, <2>3, <2>4, <2>5, SetFinds
<1>6. CASE NotPrepared(t)
  <2>1. UNCHANGED <<folder, saved, disk, archived, bare>>
    BY <1>6 DEF NotPrepared, folder_vars, history
  <2>2. CASE task[t].tries < StartRetries
    <3>1. PICK n \in Nat : n = task[t].tries + 1
      BY <1>0 DEF Subtasks
    <3> DEFINE r == [task[t] EXCEPT !.st = "Pending", !.at = "queue", !.tries = n]
    <3>2. /\ r \in Subtasks /\ r.at = "queue" /\ r.file = task[t].file /\ r.st = "Pending"
          /\ r.kept = task[t].kept
      BY <1>0 DEF Subtasks
    <3>3. Set(t, r)
      BY <1>6, <2>2, <3>1 DEF NotPrepared
    <3> HIDE DEF r
    <3> QED BY <1>3, <2>1, <3>2, <3>3 DEF Holds
  <2>3. CASE ~(task[t].tries < StartRetries)
    <3> DEFINE r == [task[t] EXCEPT !.st = "Failed", !.at = "idle"]
    <3>1. /\ r \in Subtasks /\ r.at = "idle" /\ r.file = task[t].file /\ r.st = "Failed"
          /\ r.kept = task[t].kept
      BY <1>0 DEF Subtasks
    <3>2. Set(t, r)
      BY <1>6, <2>3 DEF NotPrepared, Ends
    <3> HIDE DEF r
    <3> QED BY <1>3, <2>1, <3>1, <3>2 DEF Holds
  <2> QED BY <2>2, <2>3
<1>7. CASE Keep(t)
  <2> DEFINE r == [task[t] EXCEPT !.kept = TRUE, !.at = "kept"]
  <2>1. r \in Subtasks /\ r.at = "kept" /\ r.file = task[t].file /\ r.st = task[t].st /\ r.kept
    BY <1>0 DEF Subtasks
  <2>2. /\ Set(t, r) /\ task[t].at = "file" /\ task[t].st # "Completed"
        /\ UNCHANGED <<folder, saved, disk, archived, bare>>
    BY <1>0, <1>7 DEF Keep, TaskOK, folder_vars, history
  <2> HIDE DEF r
  <2>3. Had' = Had /\ Known' = Known /\ Held(folder') = Held(folder)
    BY <1>1, <2>2 DEF Had, Known
  <2>4. TaskOK(r, Known', Had')
    BY <1>0, <2>1, <2>2, <2>3 DEF TaskOK
  <2> QED BY <1>1, <1>2, <2>1, <2>2, <2>3, <2>4, SetFinds DEF Holds
<1>8. CASE DropPending(t)
  <2>1. PICK at \in {"run", "idle"} : Set(t, [task[t] EXCEPT !.tries = 0, !.at = at])
    BY <1>8 DEF DropPending, Started
  <2> DEFINE r == [task[t] EXCEPT !.tries = 0, !.at = at]
  <2>2. /\ r \in Subtasks /\ r.at = at /\ r.file = task[t].file /\ r.st = task[t].st
        /\ r.kept = task[t].kept
    BY <1>0 DEF Subtasks
  <2>3. Set(t, r) /\ task[t].at = "kept" /\ UNCHANGED <<disk, archived, bare>>
    BY <1>8, <2>1 DEF DropPending, history
  <2> HIDE DEF r
  <2>4. Had' = Had /\ Known' = Known
    BY <1>1, <2>3 DEF Had, Known
  <2>5. Holds(task[t]) /\ task[t].file \in Kept
    BY <1>0, <2>3, KeptFiles DEF TaskOK, Holds
  <2>6. TaskOK(r, Known', Had') /\ Holds(r)
    BY <1>0, <2>2, <2>3, <2>4, <2>5 DEF TaskOK, Holds
  <2>7. /\ folder'.listed = folder.listed /\ Held(folder) \subseteq Held(folder') \cup Kept
        /\ saved' \in {saved, Persisted(folder')}
    <3>1. \/ folder' = folder /\ saved' = saved
          \/ /\ folder' = [folder EXCEPT !.pending = Without(@, {task[t].file})]
             /\ saved' = Persisted(folder')
      BY <1>8 DEF DropPending, Save, folder_vars
    <3>2. CASE folder' = folder /\ saved' = saved
      BY <3>2
    <3>3. CASE /\ folder' = [folder EXCEPT !.pending = Without(@, {task[t].file})]
               /\ saved' = Persisted(folder')
      <4>1. /\ folder'.pending = Without(folder.pending, {task[t].file})
            /\ folder'.counted = folder.counted /\ folder'.listed = folder.listed
        BY <1>0, <3>3 DEF Folders
      <4> QED BY <2>5, <3>3, <4>1, FilesWithout DEF Held
    <3> QED BY <3>1, <3>2, <3>3
  <2> QED BY <1>1, <1>2, <2>2, <2>3, <2>4, <2>6, <2>7, SetFinds
<1>9. CASE Finish(t)
  <2> DEFINE r == [task[t] EXCEPT !.st = "Completed", !.at = "idle", !.kept = FALSE]
  <2>1. r \in Subtasks /\ r.at = "idle" /\ r.file = task[t].file /\ r.st = "Completed" /\ ~r.kept
    BY <1>0 DEF Subtasks
  <2>2. /\ Set(t, r) /\ UNCHANGED <<folder, saved>>
        /\ archived \subseteq archived' /\ bare \subseteq bare' /\ disk' = disk \cup {task[t].file}
        /\ task[t].kept => task[t].file \in archived'
        /\ skips => task[t].file \in Known'
    BY <1>9 DEF Finish, folder_vars, Known
  <2> HIDE DEF r
  <2>3. Had \subseteq Had' /\ Had' \subseteq Had \cup Known' /\ Held(folder') = Held(folder)
    BY <1>1, <2>2 DEF Had
  <2>4. TaskOK(r, Known', Had')
    <3>1. Had' # {} => skips
      BY <1>1 DEF Had
    <3> QED BY <2>1, <2>2, <3>1 DEF TaskOK
  <2> QED BY <1>1, <1>2, <2>1, <2>2, <2>3, <2>4, SetFinds DEF Holds
<1>10. CASE Report(t)
  <2> DEFINE r == [task[t] EXCEPT !.st = "gone", !.at = "idle"]
  <2>1. /\ r \in Subtasks /\ r.at = "idle" /\ r.file = task[t].file /\ r.st = "gone"
        /\ r.kept = task[t].kept
    BY <1>0 DEF Subtasks
  <2>2. Set(t, r) /\ UNCHANGED <<folder, saved, disk, archived, bare>> /\ ~task[t].kept
    BY <1>0, <1>10 DEF Report, Ends, TaskOK, folder_vars, history
  <2> HIDE DEF r
  <2> QED BY <1>3, <2>1, <2>2 DEF Holds
<1>11. CASE Break(t)
  <2> DEFINE r == [task[t] EXCEPT !.st = "Failed", !.at = "idle"]
  <2>1. /\ r \in Subtasks /\ r.at = "idle" /\ r.file = task[t].file /\ r.st = "Failed"
        /\ r.kept = task[t].kept
    BY <1>0 DEF Subtasks
  <2>2. Set(t, r) /\ UNCHANGED <<folder, saved, disk, archived, bare>>
    BY <1>11 DEF Break, Ends, folder_vars, history
  <2> HIDE DEF r
  <2> QED BY <1>3, <2>1, <2>2 DEF Holds
<1>12. CASE NotKept(t)
  <2>1. PICK at \in {"run", "idle"} : Set(t, [task[t] EXCEPT !.tries = 0, !.at = at])
    BY <1>12 DEF NotKept, Started
  <2> DEFINE r == [task[t] EXCEPT !.tries = 0, !.at = at]
  <2>2. /\ r \in Subtasks /\ r.at = at /\ r.file = task[t].file /\ r.st = task[t].st
        /\ r.kept = task[t].kept
    BY <1>0 DEF Subtasks
  <2>3. Set(t, r) /\ task[t].at = "file" /\ UNCHANGED <<folder, saved, disk, archived, bare>>
    BY <1>12, <2>1 DEF NotKept, folder_vars, history
  <2> HIDE DEF r
  <2> QED BY <1>0, <1>3, <2>2, <2>3 DEF Holds, TaskOK
<1> QED BY <1>4, <1>5, <1>6, <1>7, <1>8, <1>9, <1>10, <1>11, <1>12 DEF TaskStep

\* A success is held by the folder, and nothing is let go.
LEMMA SucceededHeld ==
    ASSUME NEW fo \in Folders, NEW t, NEW f
    PROVE  /\ Succeeded(fo, t, f).listed = fo.listed
           /\ Held(fo) \subseteq Held(Succeeded(fo, t, f))
<1> DEFINE marked == MarkCompleted(fo, f)
           clear  == Cleared(marked, t, f)
           new    == Succeeded(fo, t, f)
           Names  == {"status", "pending", "scanned", "total", "completed", "counted", "skipped",
                      "listed", "failed", "failed_tasks", "failed_files", "retries"}
<1>1. /\ marked.pending = Without(fo.pending, {f}) /\ marked.counted = fo.counted \cup {f}
      /\ marked.listed = fo.listed /\ DOMAIN marked = Names
  BY DEF MarkCompleted, Folders
<1>2. /\ clear.pending = marked.pending /\ clear.counted = marked.counted
      /\ clear.listed = marked.listed /\ DOMAIN clear = Names
  <2> HIDE DEF marked
  <2>1. clear = [marked EXCEPT !.failed_tasks = @ \ {t}, !.failed_files = @ \ {f},
                   !.failed = IF (t \in marked.failed_tasks \/ f \in marked.failed_files) /\ @ > 0
                              THEN @ - 1 ELSE @]
    BY DEF Cleared, clear
  <2> HIDE DEF clear
  <2> QED BY <1>1, <2>1
<1>3. /\ new.pending = clear.pending /\ new.counted = clear.counted /\ new.listed = clear.listed
  <2> HIDE DEF clear
  <2>1. new = [clear EXCEPT !.retries[t] = 0,
                            !.completed = IF f \in fo.counted THEN @ ELSE @ + 1]
    BY DEF Succeeded, clear, new
  <2> HIDE DEF new
  <2> QED BY <1>2, <2>1
<1> HIDE DEF new, clear, marked
<1>4. new.listed = fo.listed /\ Held(fo) \subseteq Held(new)
  BY <1>1, <1>2, <1>3, FilesWithout DEF Held
<1> QED BY <1>4 DEF new

\* The listener and the loop move no file out of a hand.
LEMMA ListenFinds ==
    ASSUME TypeOK, FindInv, Listen \/ Tick
    PROVE  FindInv'
<1> USE NamedActors
<1>0. /\ folder \in Folders /\ Found /\ TasksOK /\ WorkersOK /\ RestoreOK
      /\ proc["listener"] \in Workers /\ proc["ticker"] \in Workers
  BY DEF TypeOK, FindInv
<1>1. UNCHANGED <<disk, archived, skips, bare, cancelled>>
  BY DEF Listen, Judge, Hear, Retry, Restart, Tick, task_vars, fixed, history
<1>2. ~Restoring
  BY <1>0 DEF Listen, Judge, Hear, Retry, Restart, Tick, Pc, RestoreOK, Quiet
<1>3. ASSUME NEW a \in {"listener", "ticker"}, NEW r, Goes(a, r), WorkerOK(a, r, cancelled)
      PROVE  WorkersOK' /\ RestoreOK'
  <2>1. WorkersOK'
    BY <1>0, <1>1, <1>3, WorkersWent
  <2>2. proc'["user"] = proc["user"]
    BY <1>3, OthersWent
  <2> QED BY <1>2, <2>1, <2>2, NotRestoring
<1>4. ASSUME UNCHANGED task, folder'.listed = folder.listed, Held(folder) \subseteq Held(folder'),
             saved' \in {saved, Persisted(folder')}, WorkersOK' /\ RestoreOK'
      PROVE  FindInv'
  BY <1>0, <1>1, <1>4, SecuredSame, TasksSame, FoundKept DEF FindInv
<1>5. /\ WorkerOK("listener", Idle, cancelled)
      /\ \A n : /\ WorkerOK("listener", [Idle EXCEPT !.pc = "retry", !.arg = n], cancelled)
                /\ WorkerOK("listener", [Idle EXCEPT !.pc = "look", !.arg = n], cancelled)
      /\ WorkerOK("listener", [Idle EXCEPT !.pc = "look"], cancelled)
      /\ WorkerOK("listener", [Idle EXCEPT !.pc = "leave"], cancelled)
      /\ WorkerOK("ticker", [Idle EXCEPT !.pc = "look", !.mode = "fill"], cancelled)
  BY DEF Idle, WorkerOK
<1>6. \A pc \in {"pick", "restart"} :
         WorkerOK("listener", [proc["listener"] EXCEPT !.pc = pc], cancelled)
  BY <1>0 DEF WorkersOK, WorkerOK, Workers
<1>7. CASE Judge
  <2>1. folder' = folder \/ \E st : folder' = [folder EXCEPT !.status = st]
    BY <1>7 DEF Judge, folder_vars
  <2>2. /\ folder'.pending = folder.pending /\ folder'.counted = folder.counted
        /\ folder'.listed = folder.listed
    BY <1>0, <2>1 DEF Folders
  <2>3. Held(folder) \subseteq Held(folder')
    BY <2>2 DEF Held
  <2>4. saved' \in {saved, Persisted(folder')} /\ UNCHANGED task
    BY <1>7 DEF Judge, Save, folder_vars, task_vars
  <2>5. \E r : Goes("listener", r) /\ WorkerOK("listener", r, cancelled)
    BY <1>5, <1>6, <1>7 DEF Judge, Done, To
  <2>6. WorkersOK' /\ RestoreOK'
    BY <1>3, <2>5
  <2> QED BY <1>4, <2>2, <2>3, <2>4, <2>6
<1>8. CASE Hear
  <2>1. UNCHANGED <<saved, task>>
    BY <1>8 DEF Hear
  <2>2. CASE ~InMemory
    <3>1. UNCHANGED <<folder, proc>>
      BY <1>8, <2>2 DEF Hear
    <3>2. WorkersOK' /\ RestoreOK'
      BY <1>0, <1>1, <1>2, <3>1, WorkersSame, NotRestoring
    <3>3. folder'.listed = folder.listed /\ Held(folder) \subseteq Held(folder')
      BY <3>1
    <3> QED BY <1>4, <2>1, <3>2, <3>3
  <2>3. CASE InMemory
    <3>1. \E r : Goes("listener", r) /\ WorkerOK("listener", r, cancelled)
      <4>1. \E n : \/ Goes("listener", [Idle EXCEPT !.pc = "retry", !.arg = n])
                   \/ Goes("listener", [Idle EXCEPT !.pc = "look", !.arg = n])
        BY <1>8, <2>3 DEF Hear
      <4> QED BY <1>5, <4>1
    <3>2. WorkersOK' /\ RestoreOK'
      BY <1>3, <3>1
    <3>3. \/ folder' = folder
          \/ \E t, f : folder' = Succeeded(folder, t, f)
          \/ \E t : folder' = [folder EXCEPT !.retries[t] = @ + 1]
          \/ \E t, f : folder' = GivenUp(folder, t, f)
      BY <1>8, <2>3 DEF Hear
    <3>4. ASSUME folder'.pending = folder.pending, folder'.counted = folder.counted,
                 folder'.listed = folder.listed
          PROVE  folder'.listed = folder.listed /\ Held(folder) \subseteq Held(folder')
      BY <3>4 DEF Held
    <3>5. folder'.listed = folder.listed /\ Held(folder) \subseteq Held(folder')
      <4>1. CASE folder' = folder
        BY <3>4, <4>1
      <4>2. ASSUME NEW t, NEW f, folder' = Succeeded(folder, t, f)
            PROVE  folder'.listed = folder.listed /\ Held(folder) \subseteq Held(folder')
        BY <1>0, <4>2, SucceededHeld
      <4>3. ASSUME NEW t, folder' = [folder EXCEPT !.retries[t] = @ + 1]
            PROVE  folder'.listed = folder.listed /\ Held(folder) \subseteq Held(folder')
        <5>1. /\ folder'.pending = folder.pending /\ folder'.counted = folder.counted
              /\ folder'.listed = folder.listed
          BY <1>0, <4>3 DEF Folders
        <5> QED BY <3>4, <5>1
      <4>4. ASSUME NEW t, NEW f, folder' = GivenUp(folder, t, f)
            PROVE  folder'.listed = folder.listed /\ Held(folder) \subseteq Held(folder')
        <5>1. /\ folder'.pending = folder.pending /\ folder'.counted = folder.counted
              /\ folder'.listed = folder.listed
          BY <1>0, <4>4 DEF Folders, GivenUp
        <5> QED BY <3>4, <5>1
      <4> QED BY <3>3, <4>1, <4>2, <4>3, <4>4
    <3> QED BY <1>4, <2>1, <3>2, <3>5
  <2> QED BY <2>2, <2>3
<1>9. ASSUME UNCHANGED folder_vars
      PROVE  folder'.listed = folder.listed /\ Held(folder) \subseteq Held(folder') /\ saved' = saved
  BY <1>9 DEF folder_vars
<1>10. CASE Retry
  <2>1. \E r : Goes("listener", r) /\ WorkerOK("listener", r, cancelled)
    BY <1>5, <1>6, <1>10 DEF Retry, To
  <2>2. WorkersOK' /\ RestoreOK'
    BY <1>3, <2>1
  <2>3. UNCHANGED <<folder_vars, task>>
    BY <1>10 DEF Retry, task_vars
  <2> QED BY <1>4, <1>9, <2>2, <2>3
<1>11. CASE Tick
  <2>1. Goes("ticker", [Idle EXCEPT !.pc = "look", !.mode = "fill"])
    BY <1>11 DEF Tick
  <2>2. WorkersOK' /\ RestoreOK'
    BY <1>3, <1>5, <2>1
  <2>3. UNCHANGED <<folder_vars, task>>
    BY <1>11 DEF Tick, task_vars
  <2> QED BY <1>4, <1>9, <2>2, <2>3
<1>12. CASE Restart
  <2>1. WorkersOK' /\ RestoreOK'
    BY <1>3, <1>5, <1>12 DEF Restart
  <2>2. UNCHANGED folder_vars
    BY <1>12 DEF Restart
  <2>3. CASE UNCHANGED task
    BY <1>4, <1>9, <2>1, <2>2, <2>3
  <2>4. CASE ~UNCHANGED task
    <3> DEFINE t == proc["listener"].arg
    <3>1. PICK at \in {"link", "queue"} : task' = [task EXCEPT ![t] = [task[t] EXCEPT !.st = "Pending", !.at = at]]
      BY <1>12, <2>4 DEF Restart
    <3>2. There(t) /\ task[t].st \in {"Paused", "Failed"}
      BY <1>12, <2>4 DEF Restart
    <3> DEFINE r == [task[t] EXCEPT !.st = "Pending", !.at = at]
    <3>3. /\ Len(task') = Len(task)
          /\ \A u \in 1..Len(task) : task'[u] = IF u = t THEN r ELSE task[u]
      <4> HIDE DEF Subtasks, r, t
      <4>1. task \in Seq(Subtasks)
        BY DEF TypeOK
      <4>2. task' = [task EXCEPT ![t] = r]
        BY <3>1 DEF r, t
      <4> QED BY <4>1, <4>2
    <3>4. t \in 1..Len(task) => /\ r.at = at /\ r.st = "Pending" /\ r.kept = task[t].kept
                                /\ r.file = task[t].file
      <4>1. t \in 1..Len(task) => task[t] \in Subtasks
        BY DEF TypeOK
      <4> HIDE DEF t
      <4> QED BY <4>1 DEF Subtasks
    <3> HIDE DEF r, t
    <3>5. Had' = Had
      BY <1>1 DEF Had
    <3>6. Kept \subseteq Kept' \cup archived'
      <4>1. \A u \in 1..Len(task) : Holds(task[u]) => Holds(task'[u]) /\ task'[u].file = task[u].file
        BY <3>2, <3>3, <3>4 DEF Holds
      <4> QED BY <3>3, <4>1, HoldersStay
    <3>7. Secured \subseteq Secured'
      BY <1>1, <3>5, <3>6 DEF Secured
    <3>8. Found'
      BY <1>0, <1>1, <1>9, <2>2, <3>7, FoundKept
    <3>9. TasksOK'
      <4>1. \A u \in 1..Len(task') : TaskOK(task'[u], Known, Had)
        BY <1>0, <3>3, <3>4 DEF TasksOK, TaskOK
      <4>2. Known' = Known
        BY <1>1 DEF Known
      <4> QED BY <1>1, <3>5, <4>1, <4>2 DEF TasksOK, TaskOK
    <3> QED BY <2>1, <3>8, <3>9 DEF FindInv
  <2> QED BY <2>3, <2>4
<1> QED BY <1>7, <1>8, <1>10, <1>11, <1>12 DEF Listen

\* A step that changes every task: each keeps its file and whether it is on disk.
LEMMA EachFinds ==
    ASSUME TypeOK, NEW new, task' = [t \in DOMAIN task |-> new[t]],
           \A t \in DOMAIN task : TaskOK(new[t], Known, Had),
           UNCHANGED <<disk, archived, skips, bare>>
    PROVE  /\ TasksOK'
           /\ (\A t \in DOMAIN task : Holds(task[t]) => Holds(new[t]) /\ new[t].file = task[t].file)
                => Secured \subseteq Secured'
<1>1. /\ DOMAIN task = 1..Len(task) /\ Len(task') = Len(task) /\ Had' = Had /\ Known' = Known
      /\ \A t \in 1..Len(task) : task'[t] = new[t]
  <2>1. task \in Seq(Subtasks)
    BY DEF TypeOK
  <2>2. DOMAIN task = 1..Len(task) /\ Len(task) \in Nat
    BY <2>1
  <2>3. task' = [t \in 1..Len(task) |-> new[t]]
    BY <2>2
  <2> QED BY <2>2, <2>3 DEF Had, Known
<1>2. TasksOK'
  <2>1. \A t \in 1..Len(task') : TaskOK(task'[t], Known, Had)
    BY <1>1
  <2> QED BY <1>1, <2>1 DEF TasksOK, TaskOK
<1>3. ASSUME \A t \in DOMAIN task : Holds(task[t]) => Holds(new[t]) /\ new[t].file = task[t].file
      PROVE  Secured \subseteq Secured'
  <2>1. Kept \subseteq Kept' \cup archived'
    BY <1>1, <1>3, HoldersStay
  <2> QED BY <1>1, <2>1 DEF Secured
<1> QED BY <1>2, <1>3

\* The user: tasks that are paused or resumed stay on disk, and only a cancel deletes them.
LEMMA UserFinds ==
    ASSUME TypeOK, FindInv, UserStep
    PROVE  FindInv'
<1> USE NamedActors
<1>0. /\ folder \in Folders /\ Found /\ TasksOK /\ WorkersOK /\ RestoreOK
      /\ proc["user"] \in Workers
      /\ \A t \in DOMAIN task : task[t] \in Subtasks /\ TaskOK(task[t], Known, Had)
  BY DEF TypeOK, FindInv, TasksOK
<1>1. UNCHANGED <<disk, archived, skips, bare>> /\ (cancelled => cancelled')
  <2>1. UNCHANGED <<disk, archived, skips, bare>>
    BY DEF UserStep, Pause, PauseTasks, Resume, ResumeTasks, Cancel, CancelTasks, Forget, task_vars,
           fixed, history
  <2>2. cancelled' \/ cancelled' = cancelled
    BY DEF UserStep, Pause, PauseTasks, Resume, ResumeTasks, Cancel, CancelTasks, Forget, history
  <2> QED BY <2>1, <2>2
<1>2. ASSUME NEW pc \in {"pausing", "idle", "deleting", "forgetting"}, To("user", pc),
             pc = "deleting" => cancelled'
      PROVE  WorkersOK' /\ RestoreOK'
  <2>1. proc'["user"].pc = pc
    BY <1>0, <1>2 DEF To, Goes, TypeOK, Workers
  <2>2. RestoreOK'
    BY <2>1, UserElsewhere
  <2> QED BY <1>0, <1>1, <1>2, <2>2, WorkersTo
<1>3. ASSUME NEW r, Goes("user", r), r.mode # "restore", r.pc # "deleting"
      PROVE  WorkersOK' /\ RestoreOK'
  <2>1. WorkerOK("user", r, cancelled')
    BY <1>3 DEF WorkerOK
  <2>2. proc'["user"] = r
    BY <1>3 DEF Goes, TypeOK
  <2> QED BY <1>0, <1>1, <1>3, <2>1, <2>2, WorkersWent, UserElsewhere
<1>4. ASSUME folder'.pending = folder.pending, folder'.counted = folder.counted,
             folder'.listed = folder.listed, Secured \subseteq Secured',
             saved' \in {saved, Persisted(folder), Persisted(folder')}
      PROVE  Found'
  <2>1. Held(folder) = Held(folder')
    BY <1>4 DEF Held
  <2> QED BY <1>0, <1>1, <1>4, <2>1, FoundKept
<1>5. CASE Pause
  <2>1. /\ folder'.pending = folder.pending /\ folder'.counted = folder.counted
        /\ folder'.listed = folder.listed
    BY <1>0, <1>5 DEF Pause, Folders
  <2>2. UNCHANGED <<task, saved>> /\ WorkersOK' /\ RestoreOK'
    BY <1>2, <1>5 DEF Pause, task_vars
  <2> QED BY <1>0, <1>1, <1>4, <2>1, <2>2, SecuredSame, TasksSame DEF FindInv
<1>6. CASE PauseTasks
  <2>1. WorkersOK' /\ RestoreOK' /\ folder' = folder /\ saved' \in {saved, Persisted(folder)}
    BY <1>2, <1>6 DEF PauseTasks
  <2>2. PICK late : task' = [t \in DOMAIN task |-> Halted(task[t], t \in late)]
    BY <1>6 DEF PauseTasks
  <2> DEFINE new == [t \in DOMAIN task |-> Halted(task[t], t \in late)]
  <2>3. ASSUME NEW t \in DOMAIN task
        PROVE  /\ TaskOK(new[t], Known, Had)
               /\ Holds(task[t]) => Holds(new[t]) /\ new[t].file = task[t].file
    <3>1. task[t] \in Subtasks /\ TaskOK(task[t], Known, Had)
      BY <1>0
    <3> QED BY <3>1 DEF Halted, TaskOK, Holds, Subtasks
  <2>4. task' = [t \in DOMAIN task |-> new[t]]
    BY <2>2
  <2> HIDE DEF new
  <2>5. TasksOK' /\ Secured \subseteq Secured'
    BY <1>1, <2>3, <2>4, EachFinds
  <2> QED BY <1>4, <2>1, <2>5 DEF FindInv
<1>7. CASE Resume
  <2>1. /\ folder'.pending = folder.pending /\ folder'.counted = folder.counted
        /\ folder'.listed = folder.listed
    <3>1. \E st : \/ folder' = [folder EXCEPT !.status = st]
                  \/ folder' = [[folder EXCEPT !.failed = 0, !.failed_tasks = {},
                                               !.retries = [t \in Tasks |-> 0]]
                                  EXCEPT !.status = st]
      BY <1>7 DEF Resume
    <3> QED BY <1>0, <3>1 DEF Folders
  <2>2. PICK live : Goes("user", [Idle EXCEPT !.pc = "resuming", !.live = live])
    BY <1>7 DEF Resume
  <2> DEFINE r == [Idle EXCEPT !.pc = "resuming", !.live = live]
  <2>3. r.mode = "feed" /\ r.pc = "resuming" /\ Goes("user", r)
    BY <2>2 DEF Idle
  <2> HIDE DEF r
  <2>4. UNCHANGED <<task, saved>> /\ WorkersOK' /\ RestoreOK'
    BY <1>3, <1>7, <2>3 DEF Resume, task_vars
  <2> QED BY <1>0, <1>1, <1>4, <2>1, <2>4, SecuredSame, TasksSame DEF FindInv
<1>8. CASE ResumeTasks
  <2>1. folder' = folder /\ saved' \in {saved, Persisted(folder)}
    BY <1>8 DEF ResumeTasks
  <2>2. WorkersOK' /\ RestoreOK'
    <3>1. CASE Goes("user", [Idle EXCEPT !.pc = "cover", !.mode = "fill"])
      <4> DEFINE r == [Idle EXCEPT !.pc = "cover", !.mode = "fill"]
      <4>1. r.mode = "fill" /\ r.pc = "cover" /\ Goes("user", r)
        BY <3>1 DEF Idle
      <4> HIDE DEF r
      <4> QED BY <1>3, <4>1
    <3>2. ASSUME NEW s \in Scans, proc' = [proc EXCEPT ![s].pc = "spawned", !["user"] = Idle]
          PROVE  WorkersOK' /\ RestoreOK'
      <4>1. /\ proc[s] \in Workers /\ WorkerOK(s, proc[s], cancelled) /\ s # "user"
            /\ WorkerOK("user", Idle, cancelled)
        BY <1>0, FolderAssumption DEF TypeOK, WorkersOK, Idle, WorkerOK
      <4>2. WorkerOK(s, [proc[s] EXCEPT !.pc = "spawned"], cancelled)
        BY <4>1 DEF Workers, WorkerOK
      <4>3. /\ proc'["user"] = Idle /\ proc'[s] = [proc[s] EXCEPT !.pc = "spawned"]
            /\ \A a \in Actors : a \notin {s, "user"} => proc'[a] = proc[a]
        BY <3>2, <4>1 DEF TypeOK
      <4>4. \A a \in Actors : WorkerOK(a, proc'[a], cancelled')
        BY <1>0, <1>1, <4>1, <4>2, <4>3 DEF WorkersOK, WorkerOK
      <4>5. WorkersOK'
        BY <4>4 DEF WorkersOK, WorkerOK
      <4>6. RestoreOK'
        BY <4>3, UserElsewhere DEF Idle
      <4> QED BY <4>5, <4>6
    <3> QED BY <1>8, <3>1, <3>2 DEF ResumeTasks
  <2>3. PICK slots : task' = [t \in DOMAIN task |-> Again(task[t], t \in slots)]
    BY <1>8 DEF ResumeTasks
  <2> DEFINE new == [t \in DOMAIN task |-> Again(task[t], t \in slots)]
  <2>4. ASSUME NEW t \in DOMAIN task
        PROVE  /\ TaskOK(new[t], Known, Had)
               /\ Holds(task[t]) => Holds(new[t]) /\ new[t].file = task[t].file
    <3>1. task[t] \in Subtasks /\ TaskOK(task[t], Known, Had)
      BY <1>0
    <3> QED BY <3>1 DEF Again, TaskOK, Holds, Subtasks
  <2>5. task' = [t \in DOMAIN task |-> new[t]]
    BY <2>3
  <2> HIDE DEF new
  <2>6. TasksOK' /\ Secured \subseteq Secured'
    BY <1>1, <2>4, <2>5, EachFinds
  <2> QED BY <1>4, <2>1, <2>2, <2>6 DEF FindInv
<1>9. CASE Cancel
  <2>1. cancelled' /\ UNCHANGED task /\ To("user", "deleting")
    BY <1>9 DEF Cancel, task_vars
  <2>2. WorkersOK' /\ RestoreOK' /\ Found' /\ TasksOK'
    BY <1>0, <1>1, <1>2, <2>1, TasksSame DEF Found
  <2> QED BY <2>2 DEF FindInv
<1>10. CASE CancelTasks
  <2>1. cancelled' /\ WorkersOK' /\ RestoreOK'
    BY <1>0, <1>1, <1>2, <1>10 DEF CancelTasks, Pc, WorkersOK, WorkerOK
  <2> DEFINE new == [t \in DOMAIN task |-> [task[t] EXCEPT !.st = "gone", !.at = "idle",
                                                           !.kept = FALSE]]
  <2>2. ASSUME NEW t \in DOMAIN task PROVE TaskOK(new[t], Known, Had)
    BY <1>0 DEF TaskOK, Subtasks
  <2>3. task' = [t \in DOMAIN task |-> new[t]]
    BY <1>10 DEF CancelTasks
  <2> HIDE DEF new
  <2>4. TasksOK'
    BY <1>1, <2>2, <2>3, EachFinds
  <2> QED BY <2>1, <2>4 DEF FindInv, Found
<1>11. CASE Forget
  <2>1. /\ folder'.pending = folder.pending /\ folder'.counted = folder.counted
        /\ folder'.listed = folder.listed
    BY <1>0, <1>11 DEF Forget, Folders
  <2>2. UNCHANGED task /\ saved' = Persisted(folder') /\ WorkersOK' /\ RestoreOK'
    BY <1>2, <1>11 DEF Forget, task_vars
  <2> QED BY <1>0, <1>1, <1>4, <2>1, <2>2, SecuredSame, TasksSame DEF FindInv
<1> QED BY <1>5, <1>6, <1>7, <1>8, <1>9, <1>10, <1>11 DEF UserStep

\* A restart: the folder is what was saved, the tasks are those on disk.
LEMMA CrashFinds ==
    ASSUME TypeOK, FindInv, Crash
    PROVE  FindInv'
<1>0. /\ Found /\ WorkersOK /\ saved \in Records /\ Restored(saved) \in Folders
      /\ \A t \in DOMAIN task : task[t] \in Subtasks /\ TaskOK(task[t], Known, Had)
      /\ DOMAIN task = 1..Len(task) /\ Len(task) \in Nat
  BY RestoredType DEF TypeOK, FindInv, TasksOK
<1>1. UNCHANGED <<disk, archived, skips, bare, cancelled>> /\ saved' = Persisted(folder')
  BY DEF Crash, Save, fixed, history
<1> DEFINE new == [t \in DOMAIN task |->
                    IF task[t].kept THEN [task[t] EXCEPT !.st = "Paused", !.at = "idle", !.tries = 0]
                    ELSE [task[t] EXCEPT !.st = "gone", !.at = "idle"]]
<1>2. task' = [t \in DOMAIN task |-> new[t]]
  BY DEF Crash
<1>3. ASSUME NEW t \in DOMAIN task
      PROVE  /\ TaskOK(new[t], Known, Had) /\ Still(new[t])
             /\ Holds(task[t]) => Holds(new[t]) /\ new[t].file = task[t].file
  <2>1. ASSUME NEW r \in Subtasks, TaskOK(r, Known, Had)
        PROVE  LET n == IF r.kept THEN [r EXCEPT !.st = "Paused", !.at = "idle", !.tries = 0]
                        ELSE [r EXCEPT !.st = "gone", !.at = "idle"]
               IN  /\ TaskOK(n, Known, Had) /\ Still(n)
                   /\ Holds(r) => Holds(n) /\ n.file = r.file
    BY <2>1 DEF TaskOK, Holds, Still, Subtasks
  <2> QED BY <1>0, <2>1
<1> HIDE DEF new
<1>4. TasksOK' /\ Secured \subseteq Secured'
  BY <1>1, <1>2, <1>3, EachFinds
<1>5. Found'
  <2>1. \E st : folder' = [Restored(saved) EXCEPT !.status = st]
    BY DEF Crash
  <2>2. Held(folder') = Held(saved) /\ folder'.listed = saved.listed
    <3>1. /\ folder'.pending = saved.pending /\ folder'.counted = saved.counted
          /\ folder'.listed = saved.listed
      BY <1>0, <2>1 DEF Restored, Folders
    <3> QED BY <3>1 DEF Held
  <2>3. Held(folder)' = Held(folder') /\ Held(saved)' = Held(saved')
    BY DEF Held, FilesOf
  <2> QED BY <1>0, <1>1, <1>4, <2>2, <2>3, PersistedHeld DEF Found, Finds
<1> DEFINE Where(a) == CASE a \in Scans -> IF Pc(a, "new") THEN proc[a] ELSE Over
                         [] a = "user" /\ folder'.status = "Paused" /\ saved.scanned
                                       /\ saved.pending # {} ->
                              [Idle EXCEPT !.pc = "cover", !.mode = "restore"]
                         [] OTHER -> Idle
<1>6. proc' = [a \in Actors |-> Where(a)]
  BY DEF Crash
<1>7. /\ \A a \in Actors : WorkerOK(a, Where(a), cancelled)
      /\ Where("listener").pc = "idle" /\ Where("ticker").pc = "idle"
      /\ \A s \in Scans : Where(s).pc \in {"over", "new"}
      /\ Where("user").mode = "restore" => folder'.status = "Paused" /\ Where("user").pc = "cover"
  <2>1. /\ \A a \in Actors : WorkerOK(a, Idle, cancelled) /\ WorkerOK(a, Over, cancelled)
        /\ WorkerOK("user", [Idle EXCEPT !.pc = "cover", !.mode = "restore"], cancelled)
        /\ \A a \in Actors : WorkerOK(a, proc[a], cancelled)
        /\ Idle.pc = "idle" /\ Over.pc = "over" /\ Idle.mode = "feed"
        /\ [Idle EXCEPT !.pc = "cover", !.mode = "restore"].pc = "cover"
    BY <1>0 DEF Idle, Over, WorkerOK, WorkersOK
  <2>2. "listener" \notin Scans /\ "ticker" \notin Scans /\ "user" \notin Scans
    BY FolderAssumption
  <2> QED BY <2>1, <2>2 DEF Pc
<1> HIDE DEF Where
<1>8. WorkersOK'
  <2>1. \A a \in Actors : WorkerOK(a, proc'[a], cancelled')
    BY <1>1, <1>6, <1>7
  <2> QED BY <2>1 DEF WorkersOK, WorkerOK
<1>9. RestoreOK'
  <2>1. \A t \in 1..Len(task') : Still(task'[t])
    <3>1. Len(task') = Len(task) /\ \A t \in 1..Len(task) : task'[t] = new[t]
      <4>1. task' = [t \in 1..Len(task) |-> new[t]]
        BY <1>0, <1>2
      <4> QED BY <1>0, <4>1
    <3> QED BY <1>0, <1>3, <3>1
  <2>2. sent' = <<>>
    BY DEF Crash
  <2>3. proc'["user"].mode = "restore" => Quiet' /\ proc'["user"].pc = "cover"
    BY <1>6, <1>7, <2>1, <2>2, NamedActors DEF Quiet, Still
  <2> QED BY <2>3 DEF RestoreOK, Restoring
<1> QED BY <1>4, <1>5, <1>8, <1>9 DEF FindInv

\* At first nothing was found.
LEMMA InitFinds == Init => FindInv
<1> SUFFICES ASSUME Init PROVE FindInv
  OBVIOUS
<1>1. Found
  <2>1. folder.listed = {} /\ saved.listed = {}
    BY DEF Init, Restored, New
  <2> QED BY <2>1 DEF Found, Finds
<1>2. TasksOK
  BY DEF Init, TasksOK
<1>3. \A a \in Actors : proc[a].mode = "feed" /\ proc[a].pc # "deleting"
  <2>1. /\ Idle.mode = "feed" /\ Idle.pc = "idle"
        /\ [Idle EXCEPT !.pc = "list", !.arg = 1].mode = "feed"
        /\ [Idle EXCEPT !.pc = "list", !.arg = 1].pc = "list"
        /\ [Idle EXCEPT !.pc = "new"].mode = "feed" /\ [Idle EXCEPT !.pc = "new"].pc = "new"
    BY DEF Idle
  <2>2. \A a \in Actors : proc[a] \in {Idle, [Idle EXCEPT !.pc = "list", !.arg = 1],
                                       [Idle EXCEPT !.pc = "new"]}
    BY DEF Init
  <2> QED BY <2>1, <2>2
<1>4. WorkersOK /\ RestoreOK
  BY <1>3, NamedActors DEF WorkersOK, WorkerOK, RestoreOK, Restoring
<1> QED BY <1>1, <1>2, <1>4 DEF FindInv

\* Every step of the folder keeps the invariant.
LEMMA NextFinds == TypeOK /\ FindInv /\ [Next]_vars => FindInv'
<1> SUFFICES ASSUME TypeOK, FindInv, [Next]_vars PROVE FindInv'
  OBVIOUS
<1>1. CASE UNCHANGED vars
  <2>1. /\ UNCHANGED <<folder, saved, task, sent, disk, archived, proc, skips, bare, cancelled>>
    BY <1>1 DEF vars, folder_vars, task_vars, scan_vars, fixed, history
  <2>2. Found' /\ TasksOK' /\ WorkersOK'
    BY <2>1, SecuredSame, FoundKept, TasksSame, WorkersSame DEF FindInv
  <2>3. RestoreOK'
    BY <2>1, SecuredSame DEF FindInv, RestoreOK, Restoring, Quiet, Still
  <2> QED BY <2>2, <2>3 DEF FindInv
<1>2. CASE Progress
  <2>1. UNCHANGED <<folder, task, sent, disk, archived, proc, skips, bare, cancelled>>
        /\ saved' = Persisted(folder)
    BY <1>2 DEF Progress, task_vars, fixed, history
  <2>2. Found' /\ TasksOK' /\ WorkersOK'
    BY <2>1, SecuredSame, FoundKept, TasksSame, WorkersSame DEF FindInv
  <2>3. RestoreOK'
    BY <2>1, SecuredSame DEF FindInv, RestoreOK, Restoring, Quiet, Still
  <2> QED BY <2>2, <2>3 DEF FindInv
<1> QED BY <1>1, <1>2, ScanFinds, CreatesFinds, ListenFinds, TaskFinds, UserFinds, CrashFinds DEF Next

\* The invariant holds with those it rests on.
LEMMA SpecFinds == Spec => []FindInv
<1>1. Init => TypeOK /\ CountInv /\ FindInv
  BY InitTypes, InitCounts, InitFinds
<1>2. TypeOK /\ CountInv /\ FindInv /\ [Next]_vars => TypeOK' /\ CountInv' /\ FindInv'
  BY NextTypes, NextCounts, NextFinds
<1> QED BY <1>1, <1>2, PTL DEF Spec

\* NothingDropped holds in every behaviour: whatever is in flight between the listener, the
\* loop, scans, the user, the tasks and restarts, a file that a scan found is in the queue, has
\* a task, or is done, except those a reconciliation took for a task not on disk ("bare").
THEOREM NoFileDropped == Spec => []NothingDropped
<1>1. FindInv => NothingDropped
  <2>1. Kept \subseteq Covered
    BY DEF Kept, Covered
  <2> QED BY <2>1 DEF FindInv, Found, Finds, Held, Secured, Had, NothingDropped
<1> QED BY <1>1, SpecFinds, PTL

\* RestartFindsAll holds in every behaviour: the program may stop between any two steps, and
\* what it has on disk then gives every file back, with the same exception.
THEOREM RestartLosesNone == Spec => []RestartFindsAll
<1>1. FindInv => RestartFindsAll
  BY DEF FindInv, Found, Finds, Held, Secured, Had, RestartFindsAll, OnDisk
<1> QED BY <1>1, SpecFinds, PTL

-----------------------------------------------------------------------------
(* The backups of a configuration                                          *)

-----------------------------------------------------------------------------
(* The invariant.                                                          *)

Origins   == Backup!Drivers \cup {"none"}
Stages    == {"idle", "start", "adopting", "preparing", "merging", "extending", "filling",
              "starting", "resolving", "queued", "scanning", "creating", "registering",
              "settling", "saving", "removing", "end", "stopping"}
Engaged   == Stages \ {"idle", "start", "adopting", "end", "stopping"}
BackupStates == {"absent"} \cup Backup!Active \cup Backup!Ended

\* The netdisk has a version of a file, or a later one.
Has(f, v) == \E w \in remote[f] : w >= v

\* What is kept of a file names an upload of that file, if any, and a version that the
\* disk has had: a scan reads it from the disk, and versions only grow.  What is called
\* done, or names an upload that was completed (Whole), is on the netdisk.
Whole      == {"done", "archived"}
FileRecs   == [st : {"none", "open", "done", "failed"}, ver : Nat, up : 0..Len(upload),
               by : Origins]
Fits(f, x) == /\ x.ver <= source[f]
              /\ x.st = "done" => Has(f, x.ver)
              /\ x.up # 0 => /\ upload[x.up].file = f
                             /\ upload[x.up].st \in Whole => Has(f, x.ver)
FileMaps   == {fs \in [Files -> FileRecs] : \A f \in Files : Fits(f, fs[f])}
BackupRecs == [st : BackupStates, files : FileMaps, pend : SUBSET (1..Len(upload)),
               done : Nat, failed : Nat]
DriverRecs == [pc : Stages, mode : {"none", "new", "merge", "manual"},
               task : 0..MaxBackups, todo : SUBSET Files, made : BOOLEAN,
               files : FileMaps]
UploadRecs == {x \in [task : Backup!TaskIds, file : Files,
                      st : {"running", "paused", "failed", "done", "archived", "gone"},
                      by : Origins, ver : Nat] : x.ver <= source[x.file]}
NoteRecs   == [up : 1..Len(upload), ok : BOOLEAN]
CallRecs   == {Backup!NoCall} \cup [op : {"pause", "resume", "cancel", "clear", "remove"},
                                   task : Backup!TaskIds, had : BOOLEAN]
NoticeRecs == {Backup!NoNotice} \cup
              [pc : {"recording", "filing", "saving", "clearing", "removing"},
               task : Backup!TaskIds, file : Files, by : Origins, ver : Nat,
               ok : BOOLEAN, last : BOOLEAN]
TaskMaps   == [Backup!TaskIds -> BackupRecs]
DriverMaps == {dm \in [Backup!Drivers -> DriverRecs] :
                 \A d \in Backup!Drivers : dm[d].pc \in Engaged => dm[d].task \in Backup!TaskIds}

\* A type invariant that is inductive: a driver that is at work, the consumer and a call
\* of the user that is under way have a task.
DiskTyped   == /\ source \in [Files -> Nat] /\ remote \in [Files -> SUBSET Nat]
               /\ cache \in [Files -> Nat] /\ recorded \in [Files -> SUBSET Nat]
TasksTyped  == backup \in TaskMaps /\ row \in TaskMaps
WorkTyped   == upload \in Seq(UploadRecs) /\ notes \in Seq(NoteRecs)
DriverTyped == driver \in DriverMaps
CallTyped   == caller \in CallRecs /\ consumer \in NoticeRecs
BackupTypes == DiskTyped /\ TasksTyped /\ WorkTyped /\ DriverTyped /\ CallTyped

\* A driver that is about to register an upload has made one for its next file.  That one,
\* and any later one for the same task and file, brings what the driver saw or more.
IsFor(u, d) == upload[u].task = driver[d].task /\ upload[u].file = Backup!Next(d)
Brings(u, d) == upload[u].st \in Whole => Has(Backup!Next(d), driver[d].files[Backup!Next(d)].ver)
Awaits(u, d) == IsFor(u, d) /\ \A v \in DOMAIN upload : v >= u /\ IsFor(v, d) => Brings(v, d)
Registered ==
    \A d \in Backup!Drivers : driver[d].pc = "registering" =>
        driver[d].todo # {} /\ \E u \in DOMAIN upload : Awaits(u, d)

\* A notification of success tells the truth: the netdisk has the version that was
\* scanned for that upload, or a later one.  So does what the consumer will record.
NotesTrue ==
    \A i \in DOMAIN notes : notes[i].ok => Has(upload[notes[i].up].file, upload[notes[i].up].ver)
NoticeTrue == consumer.pc = "recording" => Has(consumer.file, consumer.ver)

BackupInv == BackupTypes /\ Registered /\ NotesTrue /\ NoticeTrue /\ Backup!RecordsAreTrue

-----------------------------------------------------------------------------
(* Files in order, and uploads in order.                                   *)

\* A set of numbers that is not empty has a smallest one.
LEMMA Smallest ==
    ASSUME NEW S \in SUBSET Nat, S # {}
    PROVE  \E f \in S : \A g \in S : f <= g
<1> DEFINE R == OpToRel(<, Nat)
<1>1. IsWellFoundedOn(R, Nat)
  BY NatLessThanWellFounded
<1>2. \A x, y \in Nat : y < x => <<y, x>> \in R
  BY DEF OpToRel
<1> HIDE DEF R
<1>3. PICK x \in S : \A y \in S : ~(<<y, x>> \in R)
  BY <1>1, WFMin
<1>4. \A y \in S : ~(y < x)
  BY <1>2, <1>3
<1>5. \A y \in S : x <= y
  BY <1>4
<1> QED BY <1>5

\* A set of positions that is not empty has a last one.
LEMMA Largest ==
    ASSUME NEW n \in Nat, NEW S \in SUBSET (1..n), S # {}
    PROVE  \E u \in S : \A v \in S : v <= u
<1> DEFINE T == {x \in Nat : \E u \in S : x = n - u}
<1>1. \A u \in S : u \in Nat /\ n - u \in T
  OBVIOUS
<1>2. T \in SUBSET Nat /\ T # {}
  BY <1>1
<1> HIDE DEF T
<1>3. PICK x \in T : \A y \in T : x <= y
  BY <1>2, Smallest
<1>4. PICK u \in S : x = n - u
  BY <1>3 DEF T
<1>5. \A v \in S : v <= u
  <2> TAKE v \in S
  <2>1. x <= n - v
    BY <1>1, <1>3
  <2> QED BY <1>1, <1>4, <2>1
<1> QED BY <1>5

\* First picks a member.
LEMMA FirstIsIn ==
    ASSUME NEW S \in SUBSET Nat, S # {}
    PROVE  Backup!First(S) \in S
BY Smallest DEF Backup!First

\* The next file of a driver is one of those that it has to do.
LEMMA NextIsDue ==
    ASSUME BackupTypes, NEW d \in Backup!Drivers, driver[d].todo # {}
    PROVE  Backup!Next(d) \in driver[d].todo /\ Backup!Next(d) \in Files
<1>1. driver[d].todo \in SUBSET Files
  BY DEF BackupTypes, DriverTyped, DriverMaps, DriverRecs
<1>2. driver[d].todo \in SUBSET Nat
  BY <1>1, BackupAssumption
<1> QED BY <1>1, <1>2, FirstIsIn DEF Backup!Next

\* The upload that a driver registers exists and is for its task and file; once it is
\* done, the netdisk has what the driver saw.
LEMMA MadeIsThere ==
    ASSUME BackupTypes, Registered, NEW d \in Backup!Drivers, driver[d].pc = "registering"
    PROVE  Backup!Made(d) \in 1..Len(upload) /\ IsFor(Backup!Made(d), d) /\ Brings(Backup!Made(d), d)
<1> DEFINE S == {u \in 1..Len(upload) : IsFor(u, d)}
<1>1. DOMAIN upload = 1..Len(upload) /\ Len(upload) \in Nat
  BY DEF BackupTypes, WorkTyped
<1>2. PICK w \in DOMAIN upload : Awaits(w, d)
  BY DEF Registered
<1>3. S # {}
  BY <1>1, <1>2 DEF Awaits
<1>4. PICK u \in S : \A v \in S : v <= u
  BY <1>1, <1>3, Largest
<1>5. \A v \in DOMAIN upload : v > u => ~IsFor(v, d)
  BY <1>1, <1>4
<1>6. u \in DOMAIN upload /\ IsFor(u, d)
  BY <1>1, <1>4
<1>7. Backup!Made(d) \in DOMAIN upload /\ IsFor(Backup!Made(d), d)
      /\ \A v \in DOMAIN upload : v > Backup!Made(d) => ~IsFor(v, d)
  BY <1>5, <1>6 DEF Backup!Made, IsFor
<1>8. w >= Backup!Made(d) => w = Backup!Made(d)
  BY <1>1, <1>2, <1>7 DEF Awaits
<1>9. Backup!Made(d) >= w
  BY <1>1, <1>7, <1>8
<1>10. Brings(Backup!Made(d), d)
  BY <1>2, <1>7, <1>9 DEF Awaits
<1> QED BY <1>1, <1>7, <1>10

-----------------------------------------------------------------------------
(* The parts of a step.                                                    *)

\* The record of a task that is not there, of a driver that waits.
LEMMA EmptyTyped ==
    ASSUME BackupTypes
    PROVE  /\ [f \in Files |-> Backup!NoFile] \in FileMaps
           /\ Backup!Absent \in BackupRecs /\ Backup!Absent.files \in FileMaps
           /\ Backup!Idle \in DriverRecs
<1>1. 0 \in 0..Len(upload)
  BY DEF BackupTypes, WorkTyped
<1>2. Backup!NoFile \in FileRecs
  BY <1>1 DEF FileRecs, Backup!NoFile, Origins
<1>3. [f \in Files |-> Backup!NoFile] \in [Files -> FileRecs]
  BY <1>2
<1>4. Backup!NoFile.ver = 0 /\ Backup!NoFile.st = "none" /\ Backup!NoFile.up = 0
  BY DEF Backup!NoFile
<1>5. \A f \in Files : Fits(f, Backup!NoFile)
  BY <1>4 DEF Fits, BackupTypes, DiskTyped
<1>6. [f \in Files |-> Backup!NoFile] \in FileMaps
  BY <1>3, <1>5 DEF FileMaps
<1>7. Backup!Absent \in BackupRecs /\ Backup!Absent.files \in FileMaps
  BY <1>6 DEF Backup!Absent, BackupRecs, BackupStates
<1>8. Backup!Idle \in DriverRecs
  BY <1>6, BackupAssumption DEF Backup!Idle, DriverRecs, Stages
<1> QED BY <1>6, <1>7, <1>8

\* A task is replaced by another record.
LEMMA TaskAt ==
    ASSUME NEW m \in TaskMaps, NEW t \in Backup!TaskIds, NEW r \in BackupRecs
    PROVE  [m EXCEPT ![t] = r] \in TaskMaps
BY DEF TaskMaps

\* The files of a task are replaced.
LEMMA FilesAt ==
    ASSUME NEW m \in TaskMaps, NEW t \in Backup!TaskIds, NEW fs \in FileMaps
    PROVE  [m EXCEPT ![t].files = fs] \in TaskMaps
<1>1. m[t] \in BackupRecs
  BY DEF TaskMaps
<1>2. [m[t] EXCEPT !.files = fs] \in BackupRecs
  BY <1>1 DEF BackupRecs
<1> QED BY <1>2, TaskAt

\* One file of a map of files is replaced by one that fits.
LEMMA FileAt ==
    ASSUME NEW fs \in FileMaps, NEW f \in Files, NEW file \in FileRecs, Fits(f, file)
    PROVE  [fs EXCEPT ![f] = file] \in FileMaps
BY DEF FileMaps

\* Of two maps of files, each file may come from either.
LEMMA FilesMix ==
    ASSUME NEW fs \in FileMaps, NEW gs \in FileMaps, NEW S
    PROVE  [f \in Files |-> IF f \in S THEN fs[f] ELSE gs[f]] \in FileMaps
BY DEF FileMaps

\* save_task.
LEMMA SavedTyped ==
    ASSUME BackupTypes, NEW t \in Backup!TaskIds, NEW r \in BackupRecs
    PROVE  Backup!Saved(t, r) \in TaskMaps
<1> DEFINE q == [row[t] EXCEPT !.st = r.st, !.done = r.done, !.failed = r.failed]
<1>1. row \in TaskMaps
  BY DEF BackupTypes, TasksTyped
<1>2. row[t] \in BackupRecs
  BY <1>1 DEF TaskMaps
<1>3. q \in BackupRecs
  BY <1>2 DEF BackupRecs
<1>4. Backup!Saved(t, r) = [row EXCEPT ![t] = q]
  BY DEF Backup!Saved
<1> HIDE DEF q
<1> QED BY <1>1, <1>3, <1>4, TaskAt

\* A task is saved as it is now, if it is still there.
LEMMA SavedNowTyped ==
    ASSUME BackupTypes, NEW t \in Backup!TaskIds
    PROVE  Backup!SavedNow(t) \in TaskMaps
<1>1. row \in TaskMaps /\ backup[t] \in BackupRecs
  BY DEF BackupTypes, TasksTyped, TaskMaps
<1> QED BY <1>1, SavedTyped DEF Backup!SavedNow

\* A task is removed.
LEMMA RemovedTyped ==
    ASSUME BackupTypes, NEW t \in Backup!TaskIds
    PROVE  Backup!Removed(t) \in TaskMaps
BY EmptyTyped, TaskAt DEF Backup!Removed, BackupTypes, TasksTyped

\* The row of a file.
LEMMA SavedFileTyped ==
    ASSUME BackupTypes, NEW t \in Backup!TaskIds, NEW f \in Files, NEW file \in FileRecs,
           Fits(f, file)
    PROVE  Backup!SavedFile(t, f, file) \in TaskMaps
<1> DEFINE fs == [row[t].files EXCEPT ![f] = file]
<1>1. row \in TaskMaps
  BY DEF BackupTypes, TasksTyped
<1>2. row[t].files \in FileMaps
  BY <1>1 DEF TaskMaps, BackupRecs
<1>3. fs \in FileMaps
  BY <1>2, FileAt
<1>4. Backup!SavedFile(t, f, file) = row \/ Backup!SavedFile(t, f, file) = [row EXCEPT ![t].files = fs]
  BY DEF Backup!SavedFile
<1> HIDE DEF fs
<1> QED BY <1>1, <1>3, <1>4, FilesAt

\* The rows of the files of a scan.
LEMMA SavedFilesTyped ==
    ASSUME BackupTypes, NEW t \in Backup!TaskIds, NEW fs \in FileMaps
    PROVE  Backup!SavedFiles(t, fs) \in TaskMaps
<1> DEFINE S  == {f \in Files : fs[f].st # "none"}
           gs == [f \in Files |-> IF f \in S THEN fs[f] ELSE row[t].files[f]]
<1>1. row \in TaskMaps
  BY DEF BackupTypes, TasksTyped
<1>2. row[t].files \in FileMaps
  BY <1>1 DEF TaskMaps, BackupRecs
<1>3. [f \in Files |-> IF fs[f].st # "none" THEN fs[f] ELSE row[t].files[f]] = gs
  OBVIOUS
<1>4. Backup!SavedFiles(t, fs) = row \/ Backup!SavedFiles(t, fs) = [row EXCEPT ![t].files = gs]
  BY <1>3 DEF Backup!SavedFiles
<1> HIDE DEF S
<1>5. gs \in FileMaps
  BY <1>2, FilesMix
<1> HIDE DEF gs
<1> QED BY <1>1, <1>4, <1>5, FilesAt

\* What a step may do to the drivers, short of the beginning of a registration.
DriversMove ==
    /\ driver' \in DriverMaps
    /\ \A d \in Backup!Drivers : driver'[d].pc = "registering" => driver'[d] = driver[d]

\* One driver goes on.
LEMMA DriverAt ==
    ASSUME BackupTypes, NEW d \in Backup!Drivers, NEW x \in DriverRecs,
           x.pc # "registering", x.pc \in Engaged => x.task \in Backup!TaskIds,
           driver' = [driver EXCEPT ![d] = x]
    PROVE  DriversMove
BY DEF BackupTypes, DriverTyped, DriverMaps, DriversMove

\* A driver goes to another place.
LEMMA GoesOn ==
    ASSUME BackupTypes, NEW d \in Backup!Drivers, NEW pc \in Stages, pc # "registering",
           pc \in Engaged => driver[d].task \in Backup!TaskIds, Backup!Goes(d, pc)
    PROVE  DriversMove
<1> DEFINE x == [driver[d] EXCEPT !.pc = pc]
<1>1. driver[d] \in DriverRecs
  BY DEF BackupTypes, DriverTyped, DriverMaps
<1>2. x \in DriverRecs /\ x.pc = pc /\ x.task = driver[d].task
  BY <1>1 DEF DriverRecs
<1>3. driver' = [driver EXCEPT ![d] = x]
  BY DEF Backup!Goes
<1> HIDE DEF x
<1> QED BY <1>2, <1>3, DriverAt

\* A driver that is at work goes on with the same task.
LEMMA WorksOn ==
    ASSUME BackupTypes, NEW d \in Backup!Drivers, driver[d].pc \in Engaged,
           NEW pc \in Engaged \ {"registering"}, Backup!Goes(d, pc)
    PROVE  DriversMove
BY GoesOn DEF Engaged, BackupTypes, DriverTyped, DriverMaps

\* A driver is done.
LEMMA QuitsMoves ==
    ASSUME BackupTypes, NEW d \in Backup!Drivers, Backup!Quits(d)
    PROVE  DriversMove
<1>1. CASE d = "loop"
  <2>1. Backup!Goes(d, "end")
    BY <1>1 DEF Backup!Quits
  <2> QED BY <2>1, GoesOn DEF Stages, Engaged
<1>2. CASE d # "loop"
  <2>1. driver' = [driver EXCEPT ![d] = Backup!Idle]
    BY <1>2 DEF Backup!Quits
  <2>2. Backup!Idle \in DriverRecs /\ Backup!Idle.pc = "idle"
    BY EmptyTyped DEF Backup!Idle
  <2> QED BY <2>1, <2>2, DriverAt DEF Engaged
<1> QED BY <1>1, <1>2

\* A driver takes up a task, or what it found.
LEMMA TakesMoves ==
    ASSUME BackupTypes, NEW d \in Backup!Drivers, NEW t \in Backup!TaskIds \cup {0},
           NEW pc \in Stages \ {"registering"}, pc \in Engaged => t # 0,
           NEW mode \in {"none", "new", "merge", "manual"}, NEW fs \in FileMaps,
           Backup!Takes(d, pc, t, mode, fs)
    PROVE  DriversMove
<1> DEFINE todo == {f \in Files : fs[f].st # "none"}
           x == [pc |-> pc, mode |-> mode, task |-> t, made |-> FALSE, files |-> fs, todo |-> todo]
<1>1. t \in 0..MaxBackups
  BY BackupAssumption DEF Backup!TaskIds
<1>2. driver' = [driver EXCEPT ![d] = x]
  BY DEF Backup!Takes
<1>3. todo \in SUBSET Files
  OBVIOUS
<1> HIDE DEF todo
<1>4. x \in DriverRecs /\ x.pc = pc /\ x.task = t
  BY <1>1, <1>3 DEF DriverRecs
<1> HIDE DEF x
<1> QED BY <1>2, <1>4, DriverAt

\* A scan lists files as they are on the disk.
LEMMA SeenTyped ==
    ASSUME BackupTypes, NEW d \in Backup!Drivers, NEW S
    PROVE  Backup!Seen(d, S) \in FileMaps
<1> DEFINE gs == [f \in Files |-> Backup!NewFile(d, f)]
           ns == [f \in Files |-> Backup!NoFile]
<1>1. \A f \in Files : source[f] \in Nat
  BY DEF BackupTypes, DiskTyped
<1>2. 0 \in 0..Len(upload)
  BY DEF BackupTypes, WorkTyped
<1>3. \A f \in Files : Backup!NewFile(d, f) \in FileRecs /\ Fits(f, Backup!NewFile(d, f))
  BY <1>1, <1>2 DEF Backup!NewFile, FileRecs, Fits, Origins
<1>4. gs \in FileMaps
  BY <1>3 DEF FileMaps
<1>5. ns \in FileMaps
  BY EmptyTyped
<1>6. Backup!Seen(d, S) = [f \in Files |-> IF f \in S THEN gs[f] ELSE ns[f]]
  BY DEF Backup!Seen
<1> HIDE DEF gs, ns
<1> QED BY <1>4, <1>5, <1>6, FilesMix

\* A driver has done with a file.
LEMMA StepsMoves ==
    ASSUME BackupTypes, NEW d \in Backup!Drivers, driver[d].pc \in Engaged, NEW f \in Files,
           NEW file \in FileRecs, Fits(f, file), Backup!Steps(d, f, file)
    PROVE  DriversMove
<1> DEFINE fs == [driver[d].files EXCEPT ![f] = file]
           x  == [driver[d] EXCEPT !.pc = "creating", !.todo = driver[d].todo \ {f}, !.files = fs]
<1>1. driver[d] \in DriverRecs /\ driver[d].task \in Backup!TaskIds
  BY DEF BackupTypes, DriverTyped, DriverMaps
<1>2. fs \in FileMaps
  BY <1>1, FileAt DEF DriverRecs
<1>3. driver' = [driver EXCEPT ![d] = x]
  BY DEF Backup!Steps
<1> HIDE DEF fs
<1>4. x \in DriverRecs /\ x.pc = "creating" /\ x.task = driver[d].task
  BY <1>1, <1>2 DEF DriverRecs, Stages
<1> HIDE DEF x
<1> QED BY <1>1, <1>3, <1>4, DriverAt

-----------------------------------------------------------------------------
(* What a step does to each part of the state.                             *)

\* The disk and the netdisk: files are edited, versions arrive.
DiskMoves ==
    /\ source' \in [Files -> Nat] /\ \A f \in Files : source[f] <= source'[f]
    /\ remote' \in [Files -> SUBSET Nat] /\ \A f \in Files : remote[f] \subseteq remote'[f]
    /\ cache' \in [Files -> Nat]

\* The uploads: there may be more, none of them done; one that gets done has brought the
\* file as it is on the disk.
UploadsMove ==
    /\ upload' \in Seq(UploadRecs') /\ Len(upload) <= Len(upload')
    /\ \A u \in 1..Len(upload) :
          /\ upload'[u].task = upload[u].task /\ upload'[u].file = upload[u].file
          /\ upload'[u].ver = upload[u].ver
          /\ upload'[u].st \in Whole => \/ upload[u].st \in Whole
                                       \/ source[upload[u].file] \in remote'[upload[u].file]
    /\ \A u \in 1..Len(upload') : u > Len(upload) => upload'[u].st \notin Whole

\* The tasks in memory and their rows.
TasksMove == backup' \in TaskMaps /\ row' \in TaskMaps

\* The notifications.
NotesMove == notes' \in Seq(NoteRecs') /\ NotesTrue'

\* The call of the user and the consumer.
CallsMove == caller' \in CallRecs /\ consumer' \in NoticeRecs /\ NoticeTrue'

\* What the netdisk has, it keeps.
LEMMA HasStays ==
    ASSUME DiskMoves, NEW f \in Files, NEW v, Has(f, v)
    PROVE  Has(f, v)'
BY DEF DiskMoves, Has

\* An upload has a file, and a version of it.
LEMMA UploadIs ==
    ASSUME BackupTypes, NEW u \in 1..Len(upload)
    PROVE  /\ upload[u] \in UploadRecs /\ upload[u].file \in Files /\ upload[u].ver \in Nat
           /\ upload[u].ver <= source[upload[u].file] /\ source[upload[u].file] \in Nat
<1>1. upload \in Seq(UploadRecs) /\ source \in [Files -> Nat]
  BY DEF BackupTypes, WorkTyped, DiskTyped
<1>2. upload[u] \in UploadRecs
  BY <1>1
<1> QED BY <1>1, <1>2 DEF UploadRecs

\* What was a record of a file stays one.
LEMMA FitsStays ==
    ASSUME BackupTypes, DiskMoves, UploadsMove, NEW f \in Files, NEW x \in FileRecs, Fits(f, x)
    PROVE  x \in FileRecs' /\ Fits(f, x)'
<1>1. /\ Len(upload) \in Nat /\ Len(upload') \in Nat /\ Len(upload) <= Len(upload')
      /\ source[f] \in Nat /\ source'[f] \in Nat /\ source[f] <= source'[f]
      /\ x.ver \in Nat /\ x.up \in 0..Len(upload)
  BY DEF BackupTypes, WorkTyped, DiskTyped, DiskMoves, UploadsMove, FileRecs
<1>2. x \in FileRecs'
  <2>1. 0..Len(upload) \subseteq 0..Len(upload')
    BY <1>1
  <2> QED BY <2>1 DEF FileRecs
<1>3. x.ver <= source'[f]
  BY <1>1 DEF Fits
<1>4. x.st = "done" => Has(f, x.ver)'
  BY HasStays DEF Fits
<1>5. ASSUME x.up # 0
      PROVE  /\ upload'[x.up].file = f
             /\ upload'[x.up].st \in Whole => Has(f, x.ver)'
  <2>1. x.up \in 1..Len(upload) /\ upload[x.up].file = f
    BY <1>1, <1>5 DEF Fits
  <2>2. upload'[x.up].file = f
    BY <2>1 DEF UploadsMove
  <2>3. CASE upload[x.up].st \in Whole
    BY <1>5, <2>2, <2>3, HasStays DEF Fits
  <2>4. CASE upload'[x.up].st \in Whole /\ upload[x.up].st \notin Whole
    <3>1. source[f] \in remote'[f]
      BY <2>1, <2>4 DEF UploadsMove
    <3>2. source[f] >= x.ver
      BY <1>1 DEF Fits
    <3> QED BY <2>2, <3>1, <3>2 DEF Has
  <2> QED BY <2>2, <2>3, <2>4
<1> QED BY <1>2, <1>3, <1>4, <1>5 DEF Fits

\* The same of all records.
LEMMA MoreRecords ==
    ASSUME BackupTypes, DiskMoves, UploadsMove
    PROVE  /\ TaskMaps \subseteq TaskMaps' /\ DriverMaps \subseteq DriverMaps'
           /\ NoteRecs \subseteq NoteRecs' /\ CallRecs = CallRecs' /\ NoticeRecs = NoticeRecs'
<1>1. FileMaps \subseteq FileMaps'
  <2> SUFFICES ASSUME NEW fs \in FileMaps PROVE fs \in FileMaps'
    OBVIOUS
  <2>1. fs \in [Files -> FileRecs] /\ \A f \in Files : Fits(f, fs[f])
    BY DEF FileMaps
  <2>2. \A f \in Files : fs[f] \in FileRecs' /\ Fits(f, fs[f])'
    BY <2>1, FitsStays
  <2>3. fs \in [Files -> FileRecs']
    BY <2>1, <2>2
  <2> QED BY <2>2, <2>3 DEF FileMaps
<1>2. 1..Len(upload) \subseteq 1..Len(upload')
  BY DEF BackupTypes, WorkTyped, UploadsMove
<1>3. BackupRecs \subseteq BackupRecs'
  BY <1>1, <1>2 DEF BackupRecs
<1>4. DriverRecs \subseteq DriverRecs'
  BY <1>1 DEF DriverRecs
<1>5. TaskMaps \subseteq TaskMaps'
  BY <1>3 DEF TaskMaps
<1>6. DriverMaps \subseteq DriverMaps'
  BY <1>4 DEF DriverMaps
<1>7. NoteRecs \subseteq NoteRecs'
  BY <1>2 DEF NoteRecs
<1>8. CallRecs = CallRecs' /\ NoticeRecs = NoticeRecs'
  BY DEF CallRecs, NoticeRecs
<1> QED BY <1>5, <1>6, <1>7, <1>8

\* A step whose parts are known keeps the invariant.
LEMMA WorkStep ==
    ASSUME BackupInv, DiskMoves, UploadsMove, TasksMove, NotesMove, CallsMove,
           driver' \in DriverMaps, Registered',
           recorded' \in [Files -> SUBSET Nat], Backup!RecordsAreTrue'
    PROVE  BackupInv'
<1>1. /\ TaskMaps \subseteq TaskMaps' /\ DriverMaps \subseteq DriverMaps'
      /\ CallRecs = CallRecs' /\ NoticeRecs = NoticeRecs'
  BY MoreRecords DEF BackupInv
<1>2. DiskTyped'
  BY DEF DiskTyped, DiskMoves
<1>3. TasksTyped' /\ DriverTyped' /\ CallTyped'
  BY <1>1 DEF TasksMove, CallsMove, TasksTyped, DriverTyped, CallTyped
<1>4. WorkTyped'
  BY DEF WorkTyped, UploadsMove, NotesMove
<1> QED BY <1>2, <1>3, <1>4 DEF BackupInv, BackupTypes, NotesMove, CallsMove

\* A registration that is due stays due.
LEMMA RegisteredStays ==
    ASSUME BackupInv, DiskMoves, UploadsMove, DriversMove
    PROVE  Registered'
<1> SUFFICES ASSUME NEW d \in Backup!Drivers, driver'[d].pc = "registering"
             PROVE  driver'[d].todo # {} /\ \E u \in DOMAIN upload' : Awaits(u, d)'
  BY DEF Registered
<1>1. driver'[d] = driver[d]
  BY DEF DriversMove
<1>2. Backup!Next(d)' = Backup!Next(d)
  BY <1>1 DEF Backup!Next
<1>3. driver[d].todo # {}
  BY <1>1 DEF BackupInv, Registered
<1>4. PICK u \in DOMAIN upload : Awaits(u, d)
  BY <1>1 DEF BackupInv, Registered
<1>5. /\ DOMAIN upload = 1..Len(upload) /\ DOMAIN upload' = 1..Len(upload')
      /\ Len(upload) \in Nat /\ Len(upload') \in Nat /\ Len(upload) <= Len(upload')
  BY DEF BackupInv, BackupTypes, WorkTyped, UploadsMove
<1>6. \A v \in DOMAIN upload : v \in DOMAIN upload' /\ (IsFor(v, d)' <=> IsFor(v, d))
  BY <1>1, <1>2, <1>5 DEF IsFor, UploadsMove
<1>7. /\ Backup!Next(d) \in Files
      /\ driver[d].files[Backup!Next(d)] \in FileRecs
      /\ Fits(Backup!Next(d), driver[d].files[Backup!Next(d)])
  <2>1. Backup!Next(d) \in Files
    BY <1>3, NextIsDue DEF BackupInv
  <2>2. driver[d].files \in FileMaps
    BY DEF BackupInv, BackupTypes, DriverTyped, DriverMaps, DriverRecs
  <2> QED BY <2>1, <2>2 DEF FileMaps
<1>8. ASSUME NEW v \in DOMAIN upload', v >= u, IsFor(v, d)'
      PROVE  Brings(v, d)'
  <2> DEFINE f == Backup!Next(d)
             n == driver[d].files[f].ver
  <2>0. Brings(v, d)' <=> (upload'[v].st \in Whole => \E w \in remote'[f] : w >= n)
    BY <1>1, <1>2 DEF Brings, Has
  <2>9. n \in Nat /\ n <= source[f] /\ source[f] \in Nat
    BY <1>7 DEF FileRecs, Fits, BackupInv, BackupTypes, DiskTyped
  <2>1. CASE v \in DOMAIN upload
    <3>1. IsFor(v, d)
      BY <1>6, <1>8, <2>1
    <3>2. Brings(v, d)
      BY <1>4, <1>8, <2>1, <3>1 DEF Awaits
    <3>3. CASE upload[v].st \in Whole
      <4>1. Has(f, n)
        BY <3>2, <3>3 DEF Brings
      <4>2. f \in Files
        BY <1>7
      <4> HIDE DEF f, n
      <4>3. \E w \in remote'[f] : w >= n
        BY <4>1, <4>2 DEF Has, DiskMoves
      <4> QED BY <2>0, <4>3
    <3>4. CASE upload'[v].st \in Whole /\ upload[v].st \notin Whole
      <4>1. v \in 1..Len(upload)
        BY <1>5, <2>1
      <4>2. source[upload[v].file] \in remote'[upload[v].file]
        BY <3>4, <4>1 DEF UploadsMove
      <4>3. upload[v].file = f
        BY <3>1 DEF IsFor
      <4> HIDE DEF f, n
      <4>4. \E w \in remote'[f] : w >= n
        BY <2>9, <4>2, <4>3
      <4> QED BY <2>0, <4>4
    <3> QED BY <2>0, <3>3, <3>4
  <2>2. CASE v \notin DOMAIN upload
    <3>1. upload'[v].st \notin Whole
      BY <1>5, <2>2 DEF UploadsMove
    <3> QED BY <2>0, <3>1
  <2> QED BY <2>1, <2>2
<1>9. Awaits(u, d)'
  BY <1>4, <1>6, <1>8 DEF Awaits
<1> QED BY <1>1, <1>3, <1>4, <1>6, <1>9

\* Notifications stay true, and one of a failure may follow them.
LEMMA NotesStay ==
    ASSUME BackupInv, DiskMoves, UploadsMove, NEW s \in Seq(NoteRecs'),
           \A i \in DOMAIN s : ~s[i].ok, notes' = notes \o s
    PROVE  NotesMove
<1>1. notes \in Seq(NoteRecs) /\ NoteRecs \subseteq NoteRecs'
  BY MoreRecords DEF BackupInv, BackupTypes, WorkTyped
<1>2. notes \in Seq(NoteRecs')
  BY <1>1
<1>3. notes' \in Seq(NoteRecs')
  BY <1>2
<1>4. ASSUME NEW i \in DOMAIN notes', notes'[i].ok
      PROVE  Has(upload[notes[i].up].file, upload[notes[i].up].ver)'
  <2>1. \/ i \in DOMAIN notes /\ notes'[i] = notes[i]
        \/ i - Len(notes) \in DOMAIN s /\ notes'[i] = s[i - Len(notes)]
    BY <1>2
  <2>2. i \in DOMAIN notes /\ notes'[i] = notes[i]
    BY <1>4, <2>1
  <2> DEFINE u == notes[i].up
  <2>3. notes[i] \in NoteRecs
    BY <1>1, <2>2
  <2>4. u \in 1..Len(upload)
    BY <2>3 DEF NoteRecs
  <2>5. Has(upload[u].file, upload[u].ver)
    BY <1>4, <2>2 DEF BackupInv, NotesTrue
  <2>6. upload[u].file \in Files /\ upload'[u].file = upload[u].file /\ upload'[u].ver = upload[u].ver
    BY <2>4, UploadIs DEF BackupInv, UploadsMove
  <2> DEFINE g == upload[u].file
             n == upload[u].ver
  <2>7. g \in Files /\ Has(g, n)
    BY <2>5, <2>6
  <2>8. \E w \in remote'[g] : w >= n
    <3> HIDE DEF g, n
    <3> QED BY <2>7 DEF Has, DiskMoves
  <2> QED BY <2>2, <2>6, <2>8 DEF Has
<1>5. NotesTrue'
  <2> SUFFICES ASSUME NEW i \in DOMAIN notes', notes'[i].ok
               PROVE  Has(upload[notes[i].up].file, upload[notes[i].up].ver)'
    BY DEF NotesTrue
  <2> QED BY <1>4
<1> QED BY <1>3, <1>5 DEF NotesMove

\* No notification, or one of a failure.
LEMMA NotesMoved ==
    ASSUME BackupInv, DiskMoves, UploadsMove,
           \/ notes' = notes
           \/ \E u \in 1..Len(upload) : notes' = Append(notes, [up |-> u, ok |-> FALSE])
    PROVE  NotesMove
<1>1. notes \in Seq(NoteRecs) /\ NoteRecs \subseteq NoteRecs'
  BY MoreRecords DEF BackupInv, BackupTypes, WorkTyped
<1>2. CASE notes' = notes
  <2>1. <<>> \in Seq(NoteRecs') /\ notes' = notes \o <<>> /\ \A i \in DOMAIN <<>> : ~<<>>[i].ok
    BY <1>1, <1>2
  <2> QED BY <2>1, NotesStay
<1>3. ASSUME NEW u \in 1..Len(upload), notes' = Append(notes, [up |-> u, ok |-> FALSE])
      PROVE  NotesMove
  <2> DEFINE n == [up |-> u, ok |-> FALSE]
  <2>1. n \in NoteRecs'
    BY <1>1 DEF NoteRecs
  <2>2. ~n.ok
    OBVIOUS
  <2> HIDE DEF n
  <2>3. notes' = Append(notes, n) /\ notes \in Seq(NoteRecs')
    BY <1>1, <1>3 DEF n
  <2>5. notes' = notes \o <<n>>
    BY <2>1, <2>3
  <2>4. <<n>> \in Seq(NoteRecs') /\ \A i \in DOMAIN <<n>> : ~<<n>>[i].ok
    BY <2>1, <2>2
  <2> QED BY <2>4, <2>5, NotesStay
<1> QED BY <1>2, <1>3

\* The parts that a step leaves alone.
LEMMA TasksRest == ASSUME BackupInv, backup' = backup, row' = row PROVE TasksMove
BY DEF BackupInv, BackupTypes, TasksTyped, TasksMove

\* A step that leaves the drivers alone moves none of them.
LEMMA DriversRest == ASSUME BackupInv, driver' = driver PROVE DriversMove
BY DEF BackupInv, BackupTypes, DriverTyped, DriversMove

\* A step that touches no file, local or remote, leaves the disk as the invariant needs it.
LEMMA DiskRests ==
    ASSUME BackupInv, source' = source, remote' = remote, cache' \in [Files -> Nat]
    PROVE  DiskMoves
<1>1. source \in [Files -> Nat] /\ remote \in [Files -> SUBSET Nat]
  BY DEF BackupInv, BackupTypes, DiskTyped
<1>2. \A f \in Files : source[f] <= source[f]
  BY <1>1
<1> QED BY <1>1, <1>2 DEF DiskMoves

\* A step that leaves the uploads alone moves none of them.
LEMMA UploadsRest ==
    ASSUME BackupInv, DiskMoves, upload' = upload
    PROVE  UploadsMove
<1>1. upload \in Seq(UploadRecs) /\ source \in [Files -> Nat] /\ Len(upload) \in Nat
  BY DEF BackupInv, BackupTypes, WorkTyped, DiskTyped
<1>2. UploadRecs \subseteq UploadRecs'
  BY <1>1 DEF UploadRecs, DiskMoves
<1>3. upload' \in Seq(UploadRecs')
  BY <1>1, <1>2
<1> QED BY <1>1, <1>3 DEF UploadsMove

\* A step that begins or leaves the call at hand, or takes it to another of its
\* points, keeps the calls typed.
LEMMA CallsRest ==
    ASSUME BackupInv, DiskMoves, caller' = caller \/ caller' \in CallRecs, consumer' = consumer
    PROVE  CallsMove
<1>1. caller \in CallRecs /\ consumer \in NoticeRecs
  BY DEF BackupInv, BackupTypes, CallTyped
<1>2. ASSUME consumer.pc = "recording" PROVE Has(consumer.file, consumer.ver)'
  <2>1. consumer.file \in Files
    BY <1>1, <1>2 DEF NoticeRecs, Backup!NoNotice
  <2> DEFINE g == consumer.file
             n == consumer.ver
  <2>2. g \in Files /\ Has(g, n)
    BY <1>2, <2>1 DEF BackupInv, NoticeTrue
  <2>3. \E w \in remote'[g] : w >= n
    <3> HIDE DEF g, n
    <3> QED BY <2>2 DEF Has, DiskMoves
  <2> QED BY <2>3 DEF Has
<1> QED BY <1>1, <1>2 DEF CallsMove, NoticeTrue

\* A step that writes no record keeps the records true.
LEMMA RecordsRest ==
    ASSUME BackupInv, DiskMoves, recorded' = recorded
    PROVE  recorded' \in [Files -> SUBSET Nat] /\ Backup!RecordsAreTrue'
BY DEF BackupInv, BackupTypes, DiskTyped, DiskMoves, Backup!RecordsAreTrue

\* A step that may change the disk, states of uploads, tasks, drivers and the call.
LEMMA MovesStep ==
    ASSUME BackupInv, DiskMoves, UploadsMove, TasksMove, DriversMove,
           \/ notes' = notes
           \/ \E u \in 1..Len(upload) : notes' = Append(notes, [up |-> u, ok |-> FALSE]),
           recorded' = recorded, caller' = caller \/ caller' \in CallRecs, consumer' = consumer
    PROVE  BackupInv'
BY NotesMoved, CallsRest, RecordsRest, RegisteredStays, WorkStep DEF DriversMove

\* A step of a driver, of the controller or of the user that leaves uploads alone.
LEMMA QuietStep ==
    ASSUME BackupInv, source' = source, remote' = remote, recorded' = recorded,
           cache' = cache \/ cache' \in [Files -> Nat], upload' = upload, notes' = notes,
           TasksMove, DriversMove, caller' = caller \/ caller' \in CallRecs, consumer' = consumer
    PROVE  BackupInv'
<1>1. cache' \in [Files -> Nat]
  BY DEF BackupInv, BackupTypes, DiskTyped
<1> QED BY <1>1, DiskRests, UploadsRest, MovesStep

\* The records of a task in memory and of its row.
LEMMA TaskTyped ==
    ASSUME BackupInv, NEW t \in Backup!TaskIds
    PROVE  /\ backup[t] \in BackupRecs /\ backup[t].files \in FileMaps
           /\ row[t] \in BackupRecs /\ row[t].files \in FileMaps
BY DEF BackupInv, BackupTypes, TasksTyped, TaskMaps, BackupRecs

\* The record of a driver.
LEMMA DriverIs ==
    ASSUME BackupInv, NEW d \in Backup!Drivers
    PROVE  /\ driver[d] \in DriverRecs /\ driver[d].files \in FileMaps
           /\ driver[d].todo \in SUBSET Files
           /\ driver[d].mode \in {"none", "new", "merge", "manual"}
           /\ driver[d].pc \in Engaged => driver[d].task \in Backup!TaskIds
BY DEF BackupInv, BackupTypes, DriverTyped, DriverMaps, DriverRecs

\* One task changes in memory.
LEMMA MemoryMoves ==
    ASSUME BackupInv, NEW t \in Backup!TaskIds, NEW r \in BackupRecs,
           backup' = backup \/ backup' = [backup EXCEPT ![t] = r],
           row' = row \/ row' \in TaskMaps
    PROVE  TasksMove
<1>1. backup \in TaskMaps /\ row \in TaskMaps
  BY DEF BackupInv, BackupTypes, TasksTyped
<1> QED BY <1>1, TaskAt DEF TasksMove

-----------------------------------------------------------------------------
(* The controller, and how the drivers find work.                          *)

\* Marks and wake-ups leave the tasks alone.
LEMMA ControlStep ==
    ASSUME BackupInv,
           \/ Backup!Trigger \/ Backup!TriggerMarks \/ Backup!LoopWakes \/ Backup!LoopStops
           \/ Backup!LoopLooks \/ Backup!LoopSkips
    PROVE  BackupInv'
<1> USE DEF Backup!disks
<1>0. /\ "loop" \in Backup!Drivers
      /\ {"start", "stopping", "idle"} \subseteq Stages \ (Engaged \cup {"registering"})
  BY DEF Backup!Drivers, Stages, Engaged
<1>1. /\ source' = source /\ remote' = remote /\ recorded' = recorded /\ cache' = cache
      /\ backup' = backup /\ row' = row /\ upload' = upload /\ notes' = notes
      /\ caller' = caller /\ consumer' = consumer
  BY DEF Backup!Trigger, Backup!TriggerMarks, Backup!LoopWakes, Backup!LoopStops,
         Backup!LoopLooks, Backup!LoopSkips
<1>2. DriversMove
  <2>1. CASE Backup!Trigger \/ Backup!TriggerMarks
    BY <2>1, DriversRest DEF Backup!Trigger, Backup!TriggerMarks
  <2>2. CASE Backup!LoopWakes
    <3>1. Backup!Goes("loop", "start")
      BY <2>2 DEF Backup!LoopWakes, Backup!Goes
    <3> QED BY <1>0, <3>1, GoesOn DEF BackupInv
  <2>3. CASE Backup!LoopStops
    <3> DEFINE x == [Backup!Idle EXCEPT !.pc = "stopping"]
    <3>1. driver' = [driver EXCEPT !["loop"] = x]
      BY <2>3 DEF Backup!LoopStops
    <3>2. x \in DriverRecs /\ x.pc = "stopping"
      BY <1>0, EmptyTyped DEF BackupInv, DriverRecs
    <3> HIDE DEF x
    <3> QED BY <1>0, <3>1, <3>2, DriverAt DEF BackupInv
  <2>4. CASE Backup!LoopLooks
    <3>1. Backup!Goes("loop", "start") \/ Backup!Goes("loop", "idle")
      BY <2>4 DEF Backup!LoopLooks, Backup!Goes
    <3> QED BY <1>0, <3>1, GoesOn DEF BackupInv
  <2>5. CASE Backup!LoopSkips
    BY <1>0, <2>5, QuitsMoves DEF BackupInv, Backup!LoopSkips
  <2> QED BY <2>1, <2>2, <2>3, <2>4, <2>5
<1> QED BY <1>1, <1>2, TasksRest, QuietStep

\* The loop takes up a queued task.
LEMMA LoopResumesStep ==
    ASSUME BackupInv, Backup!LoopResumes
    PROVE  BackupInv'
<1>1. /\ source' = source /\ remote' = remote /\ recorded' = recorded /\ cache' = cache
      /\ row' = row /\ upload' = upload /\ notes' = notes /\ caller' = caller /\ consumer' = consumer
  BY DEF Backup!LoopResumes, Backup!disks
<1>2. PICK t \in Backup!Restored :
         /\ backup' = [backup EXCEPT ![t].st = "preparing"]
         /\ Backup!Takes("loop", "preparing", t, "new", backup[t].files)
  BY DEF Backup!LoopResumes
<1>3. t \in Backup!TaskIds /\ t # 0
  BY DEF Backup!Restored, Backup!Some, Backup!TaskIds
<1>4. [backup[t] EXCEPT !.st = "preparing"] \in BackupRecs
  BY <1>3, TaskTyped DEF BackupRecs, BackupStates, Backup!Active
<1>5. TasksMove
  BY <1>1, <1>2, <1>3, <1>4, MemoryMoves
<1>6. DriversMove
  <2>1. "preparing" \in Stages \ {"registering"} /\ "loop" \in Backup!Drivers
    BY DEF Stages, Backup!Drivers
  <2> QED BY <1>2, <1>3, <2>1, TaskTyped, TakesMoves DEF BackupInv
<1> QED BY <1>1, <1>5, <1>6, QuietStep

\* The loop scans, after it has dropped the queued tasks.
LEMMA LoopScansStep ==
    ASSUME BackupInv, Backup!LoopScans
    PROVE  BackupInv'
<1> DEFINE Q == Backup!Some({"queued"})
<1>1. /\ source' = source /\ remote' = remote /\ recorded' = recorded
      /\ upload' = upload /\ notes' = notes /\ caller' = caller /\ consumer' = consumer
  BY DEF Backup!LoopScans
<1>2. cache' \in [Files -> Nat]
  BY DEF Backup!LoopScans, BackupInv, BackupTypes, DiskTyped
<1>3. /\ backup' = [t \in Backup!TaskIds |-> IF t \in Q THEN Backup!Absent ELSE backup[t]]
      /\ row' = [t \in Backup!TaskIds |-> IF t \in Q THEN Backup!Absent ELSE row[t]]
  BY DEF Backup!LoopScans
<1>4. DriversMove
  <2>1. PICK S \in SUBSET Files :
           Backup!Quits("loop") \/ Backup!Takes("loop", "adopting", 0, "new", Backup!Seen("loop", S))
    BY DEF Backup!LoopScans
  <2>2. /\ "loop" \in Backup!Drivers /\ "adopting" \in Stages \ {"registering"}
        /\ "adopting" \notin Engaged
    BY DEF Backup!Drivers, Stages, Engaged
  <2>3. Backup!Seen("loop", S) \in FileMaps
    BY <2>2, SeenTyped DEF BackupInv
  <2> QED BY <2>1, <2>2, <2>3, QuitsMoves, TakesMoves DEF BackupInv
<1> HIDE DEF Q
<1>5. TasksMove
  BY <1>3, EmptyTyped DEF TasksMove, BackupInv, BackupTypes, TasksTyped, TaskMaps
<1> QED BY <1>1, <1>2, <1>4, <1>5, QuietStep

\* The loop and the consumer of watch events decide where what they found belongs.
LEMMA FoundStep ==
    ASSUME BackupInv,
           Backup!LoopMerges \/ \E f \in Files : Backup!WatchMerges(f) \/ Backup!WatchMakes(f)
    PROVE  BackupInv'
<1>1. /\ source' = source /\ remote' = remote /\ recorded' = recorded /\ cache' = cache
      /\ backup' = backup /\ row' = row /\ upload' = upload /\ notes' = notes
      /\ caller' = caller /\ consumer' = consumer
  BY DEF Backup!LoopMerges, Backup!WatchMerges, Backup!WatchMakes, Backup!disks
<1>2. /\ "loop" \in Backup!Drivers /\ "watch" \in Backup!Drivers
      /\ {"merging", "adopting"} \subseteq Stages \ {"registering"} /\ "adopting" \notin Engaged
      /\ \A t \in Backup!TaskIds : t # 0
  BY DEF Backup!Drivers, Stages, Engaged, Backup!TaskIds
<1>3. PICK d \in Backup!Drivers, fs \in FileMaps, t \in Backup!TaskIds \cup {0},
           pc \in {"merging", "adopting"}, mode \in {"new", "merge"} :
         Backup!Takes(d, pc, t, mode, fs) /\ (t = 0 => pc = "adopting")
  <2>1. CASE Backup!LoopMerges
    <3>1. PICK t \in Backup!TaskIds : Backup!Takes("loop", "merging", t, "merge", driver["loop"].files)
      BY <2>1 DEF Backup!LoopMerges, Backup!Some
    <3>2. driver["loop"].files \in FileMaps
      BY <1>2, DriverIs
    <3> QED BY <1>2, <3>1, <3>2
  <2>2. CASE \E f \in Files : Backup!WatchMerges(f) \/ Backup!WatchMakes(f)
    <3>1. PICK f \in Files : Backup!WatchMerges(f) \/ Backup!WatchMakes(f)
      BY <2>2
    <3>2. Backup!Seen("watch", {f}) \in FileMaps
      BY <1>2, SeenTyped DEF BackupInv
    <3>3. \/ \E t \in Backup!TaskIds :
                Backup!Takes("watch", "merging", t, "merge", Backup!Seen("watch", {f}))
          \/ Backup!Takes("watch", "adopting", 0, "new", Backup!Seen("watch", {f}))
      BY <3>1 DEF Backup!WatchMerges, Backup!WatchMakes, Backup!Some
    <3> QED BY <1>2, <3>2, <3>3
  <2> QED BY <2>1, <2>2
<1>4. DriversMove
  BY <1>2, <1>3, TakesMoves DEF BackupInv
<1> QED BY <1>1, <1>4, TasksRest, QuietStep

\* New files are to be merged: the rows of those that the task does not know are saved.
LEMMA MergesStep ==
    ASSUME BackupInv, NEW d \in Backup!Drivers, Backup!Merges(d)
    PROVE  BackupInv'
<1> DEFINE t    == driver[d].task
           none == [f \in Files |-> Backup!NoFile]
           new  == [f \in Files |-> IF f \in Backup!Given(backup[t]) THEN Backup!NoFile
                                    ELSE driver[d].files[f]]
           mix  == [f \in Files |-> IF f \in Backup!Given(backup[t]) THEN none[f]
                                    ELSE driver[d].files[f]]
<1>1. /\ source' = source /\ remote' = remote /\ recorded' = recorded /\ cache' = cache
      /\ backup' = backup /\ upload' = upload /\ notes' = notes
      /\ caller' = caller /\ consumer' = consumer
  BY DEF Backup!Merges, Backup!disks
<1>2. /\ t \in Backup!TaskIds /\ t # 0
      /\ "extending" \in Stages \ {"registering"}
  BY DriverIs DEF Backup!Merges, Engaged, Stages, Backup!TaskIds
<1>3. \/ Backup!Quits(d) /\ row' = row
      \/ Backup!Takes(d, "extending", t, "merge", new) /\ row' = Backup!SavedFiles(t, new)
  BY DEF Backup!Merges
<1>4. new = mix
  OBVIOUS
<1>5. none \in FileMaps
  BY EmptyTyped DEF BackupInv
<1> HIDE DEF none
<1>6. mix \in FileMaps
  BY <1>5, DriverIs, FilesMix
<1>7. new \in FileMaps
  BY <1>4, <1>6
<1> HIDE DEF t, new
<1>8. Backup!SavedFiles(t, new) \in TaskMaps
  BY <1>2, <1>7, SavedFilesTyped DEF BackupInv
<1>9. TasksMove
  BY <1>1, <1>3, <1>8 DEF TasksMove, BackupInv, BackupTypes, TasksTyped
<1>10. DriversMove
  BY <1>2, <1>3, <1>7, QuitsMoves, TakesMoves DEF BackupInv
<1> QED BY <1>1, <1>9, <1>10, QuietStep

\* The new files go to the task in memory.
LEMMA ExtendsStep ==
    ASSUME BackupInv, NEW d \in Backup!Drivers, Backup!Extends(d)
    PROVE  BackupInv'
<1> DEFINE t  == driver[d].task
           S  == {f \in Files : driver[d].files[f].st # "none"}
           fs == [f \in Files |-> IF driver[d].files[f].st # "none" THEN driver[d].files[f]
                                  ELSE backup[t].files[f]]
           gs == [f \in Files |-> IF f \in S THEN driver[d].files[f] ELSE backup[t].files[f]]
           r  == [backup[t] EXCEPT !.files = fs]
<1>1. /\ source' = source /\ remote' = remote /\ recorded' = recorded /\ cache' = cache
      /\ upload' = upload /\ notes' = notes /\ caller' = caller /\ consumer' = consumer
  BY DEF Backup!Extends, Backup!disks
<1>2. driver[d].pc \in Engaged /\ t \in Backup!TaskIds
  BY DriverIs DEF Backup!Extends, Engaged, Stages
<1>3. \/ backup' = [backup EXCEPT ![t] = r] /\ row' = Backup!Saved(t, r)
      \/ backup' = backup /\ row' = row
  BY DEF Backup!Extends
<1>4. fs = gs
  OBVIOUS
<1> HIDE DEF S
<1>5. gs \in FileMaps
  BY <1>2, DriverIs, TaskTyped, FilesMix
<1>6. fs \in FileMaps
  BY <1>4, <1>5
<1> HIDE DEF t, fs
<1>7. r \in BackupRecs
  BY <1>2, <1>6, TaskTyped DEF BackupRecs
<1> HIDE DEF r
<1>8. TasksMove
  BY <1>2, <1>3, <1>7, SavedTyped, MemoryMoves DEF BackupInv
<1>9. DriversMove
  <2>1. "resolving" \in Engaged \ {"registering"} /\ Backup!Goes(d, "resolving")
    BY DEF Engaged, Stages, Backup!Extends
  <2> QED BY <1>2, <2>1, WorksOn DEF BackupInv
<1> QED BY <1>1, <1>8, <1>9, QuietStep

\* A driver makes a task, or reuses a queued one.
LEMMA AdoptStep ==
    ASSUME BackupInv, NEW d \in Backup!Drivers, Backup!Adopt(d)
    PROVE  BackupInv'
<1> DEFINE reuse == IF d = "loop" THEN Backup!Some({"queued"}) ELSE {}
           from  == IF reuse # {} THEN reuse ELSE Backup!Unused
           t     == Backup!First(from)
           r     == IF reuse # {} THEN [backup[t] EXCEPT !.pend = {}]
                    ELSE [Backup!Absent EXCEPT !.st = "queued"]
<1>1. /\ source' = source /\ remote' = remote /\ recorded' = recorded /\ cache' = cache
      /\ upload' = upload /\ notes' = notes /\ caller' = caller /\ consumer' = consumer
  BY DEF Backup!Adopt, Backup!disks
<1>2. /\ from # {}
      /\ backup' = [backup EXCEPT ![t] = r] /\ row' = Backup!Saved(t, r)
      /\ Backup!Takes(d, "preparing", t, "new", driver[d].files)
  BY DEF Backup!Adopt
<1>3. from \in SUBSET Backup!TaskIds /\ Backup!TaskIds \subseteq Nat \ {0}
  BY DEF Backup!Some, Backup!Unused, Backup!TaskIds
<1>4. t \in from /\ t \in Backup!TaskIds /\ t # 0
  BY <1>2, <1>3, FirstIsIn
<1>5. r \in BackupRecs
  <2>1. CASE reuse # {}
    <3>1. r = [backup[t] EXCEPT !.pend = {}]
      BY <2>1
    <3> HIDE DEF t, r
    <3> QED BY <1>4, <3>1, TaskTyped DEF BackupRecs
  <2>2. CASE reuse = {}
    <3>1. r = [Backup!Absent EXCEPT !.st = "queued"]
      BY <2>2
    <3> HIDE DEF r
    <3> QED BY <3>1, EmptyTyped DEF BackupInv, BackupRecs, BackupStates, Backup!Active
  <2> QED BY <2>1, <2>2
<1> HIDE DEF t, r
<1>6. TasksMove
  BY <1>2, <1>4, <1>5, SavedTyped, MemoryMoves DEF BackupInv
<1>7. DriversMove
  <2>1. "preparing" \in Stages \ {"registering"}
    BY DEF Stages
  <2> QED BY <1>2, <1>4, <2>1, DriverIs, TakesMoves DEF BackupInv
<1> QED BY <1>1, <1>6, <1>7, QuietStep

\* A driver puts its task in transfer, in four steps.
LEMMA PreparesStep ==
    ASSUME BackupInv, NEW d \in Backup!Drivers, Backup!Prepares(d)
    PROVE  BackupInv'
<1> DEFINE t == driver[d].task
           r == [backup[t] EXCEPT !.st = "preparing"]
<1>1. /\ source' = source /\ remote' = remote /\ recorded' = recorded /\ cache' = cache
      /\ upload' = upload /\ notes' = notes /\ caller' = caller /\ consumer' = consumer
  BY DEF Backup!Prepares, Backup!disks
<1>2. driver[d].pc \in Engaged /\ t \in Backup!TaskIds
  BY DriverIs DEF Backup!Prepares, Engaged, Stages
<1>3. /\ backup' = backup \/ backup' = [backup EXCEPT ![t] = r]
      /\ row' = Backup!SavedFiles(t, driver[d].files)
      /\ Backup!Goes(d, "filling") /\ "filling" \in Engaged \ {"registering"}
  BY DEF Backup!Prepares, Engaged, Stages
<1> HIDE DEF t
<1>4. r \in BackupRecs
  BY <1>2, TaskTyped DEF BackupRecs, BackupStates, Backup!Active
<1> HIDE DEF r
<1>5. row' \in TaskMaps
  BY <1>2, <1>3, DriverIs, SavedFilesTyped DEF BackupInv
<1>6. TasksMove /\ DriversMove
  BY <1>2, <1>3, <1>4, <1>5, MemoryMoves, WorksOn DEF BackupInv
<1> QED BY <1>1, <1>6, QuietStep

\* The files go to the task.
LEMMA FillsStep ==
    ASSUME BackupInv, NEW d \in Backup!Drivers, Backup!Fills(d)
    PROVE  BackupInv'
<1> DEFINE t == driver[d].task
           r == [backup[t] EXCEPT !.st = "transferring", !.files = driver[d].files]
<1>1. /\ source' = source /\ remote' = remote /\ recorded' = recorded /\ cache' = cache /\ row' = row
      /\ upload' = upload /\ notes' = notes /\ caller' = caller /\ consumer' = consumer
  BY DEF Backup!Fills, Backup!disks
<1>2. driver[d].pc \in Engaged /\ t \in Backup!TaskIds
  BY DriverIs DEF Backup!Fills, Engaged, Stages
<1>3. /\ backup' = backup \/ backup' = [backup EXCEPT ![t] = r]
      /\ Backup!Goes(d, "starting") /\ "starting" \in Engaged \ {"registering"}
  BY DEF Backup!Fills, Engaged, Stages
<1> HIDE DEF t
<1>4. r \in BackupRecs
  BY <1>2, TaskTyped, DriverIs DEF BackupRecs, BackupStates, Backup!Active
<1> HIDE DEF r
<1>5. TasksMove /\ DriversMove
  BY <1>1, <1>2, <1>3, <1>4, MemoryMoves, WorksOn DEF BackupInv
<1> QED BY <1>1, <1>5, QuietStep

\* The row of the task; the driver goes on with the files that the task has.
LEMMA StartsStep ==
    ASSUME BackupInv, NEW d \in Backup!Drivers, Backup!Starts(d)
    PROVE  BackupInv'
<1> DEFINE t  == driver[d].task
           fs == IF Backup!Kept(t) \/ driver[d].mode # "manual" THEN backup[t].files ELSE driver[d].files
<1>1. /\ source' = source /\ remote' = remote /\ recorded' = recorded /\ cache' = cache
      /\ backup' = backup
      /\ upload' = upload /\ notes' = notes /\ caller' = caller /\ consumer' = consumer
  BY DEF Backup!Starts, Backup!disks
<1>2. t \in Backup!TaskIds /\ t # 0
  BY DriverIs DEF Backup!Starts, Engaged, Stages, Backup!TaskIds
<1>3. row' = Backup!SavedNow(t) /\ Backup!Takes(d, "resolving", t, driver[d].mode, fs)
  BY DEF Backup!Starts
<1>4. fs \in FileMaps
  BY <1>2, TaskTyped, DriverIs
<1> HIDE DEF t, fs
<1>5. TasksMove
  BY <1>1, <1>2, <1>3, SavedNowTyped DEF TasksMove, BackupInv, BackupTypes, TasksTyped
<1>6. DriversMove
  <2>1. "resolving" \in Stages \ {"registering"}
    BY DEF Stages
  <2> QED BY <1>2, <1>3, <1>4, <2>1, DriverIs, TakesMoves DEF BackupInv
<1> QED BY <1>1, <1>5, <1>6, QuietStep

\* The user starts a backup.
LEMMA ManualStep ==
    ASSUME BackupInv, Backup!Manual
    PROVE  BackupInv'
<1> DEFINE t == Backup!First(Backup!Unused)
           r == [Backup!Absent EXCEPT !.st = "queued"]
<1>1. /\ source' = source /\ remote' = remote /\ recorded' = recorded /\ cache' = cache
      /\ upload' = upload /\ notes' = notes /\ caller' = caller /\ consumer' = consumer
  BY DEF Backup!Manual, Backup!disks
<1>2. /\ Backup!Unused # {}
      /\ backup' = [backup EXCEPT ![t] = r] /\ row' = Backup!Saved(t, r)
      /\ Backup!Takes("manual", "queued", t, "manual", Backup!Absent.files)
  BY DEF Backup!Manual
<1>3. Backup!Unused \in SUBSET Backup!TaskIds /\ Backup!TaskIds \subseteq Nat \ {0}
  BY DEF Backup!Unused, Backup!TaskIds
<1>4. t \in Backup!TaskIds /\ t # 0
  BY <1>2, <1>3, FirstIsIn
<1> HIDE DEF t
<1>5. r \in BackupRecs
  BY EmptyTyped DEF BackupInv, BackupRecs, BackupStates, Backup!Active
<1> HIDE DEF r
<1>6. TasksMove
  BY <1>2, <1>4, <1>5, SavedTyped, MemoryMoves DEF BackupInv
<1>7. DriversMove
  <2>1. "queued" \in Stages \ {"registering"} /\ "manual" \in Backup!Drivers
    BY DEF Stages, Backup!Drivers
  <2> QED BY <1>2, <1>4, <2>1, EmptyTyped, TakesMoves DEF BackupInv
<1> QED BY <1>1, <1>6, <1>7, QuietStep

\* The backup of the user begins.
LEMMA ManualBeginsStep ==
    ASSUME BackupInv, Backup!ManualBegins
    PROVE  BackupInv'
<1> DEFINE t == driver["manual"].task
           r == [backup[t] EXCEPT !.st = "preparing"]
<1>1. /\ source' = source /\ remote' = remote /\ recorded' = recorded /\ cache' = cache /\ row' = row
      /\ upload' = upload /\ notes' = notes /\ caller' = caller /\ consumer' = consumer
  BY DEF Backup!ManualBegins, Backup!disks
<1>2. /\ "manual" \in Backup!Drivers /\ t \in Backup!TaskIds /\ t # 0
      /\ {"scanning", "resolving"} \subseteq Stages \ {"registering"}
  BY DriverIs DEF Backup!ManualBegins, Engaged, Stages, Backup!Drivers, Backup!TaskIds
<1>3. PICK pc \in {"scanning", "resolving"} : Backup!Takes("manual", pc, t, "manual", backup[t].files)
  BY DEF Backup!ManualBegins
<1>4. backup' = backup \/ backup' = [backup EXCEPT ![t] = r]
  BY DEF Backup!ManualBegins
<1> HIDE DEF t
<1>5. r \in BackupRecs
  BY <1>2, TaskTyped DEF BackupRecs, BackupStates, Backup!Active
<1> HIDE DEF r
<1>6. TasksMove
  BY <1>1, <1>2, <1>4, <1>5, MemoryMoves
<1>7. DriversMove
  BY <1>2, <1>3, TaskTyped, TakesMoves DEF BackupInv
<1> QED BY <1>1, <1>6, <1>7, QuietStep

\* The backup of the user scans.
LEMMA ManualScansStep ==
    ASSUME BackupInv, Backup!ManualScans
    PROVE  BackupInv'
<1> DEFINE t  == driver["manual"].task
           fs == Backup!Seen("manual", {f \in Files : source[f] \notin recorded[f] \cup {0}})
<1>1. /\ source' = source /\ remote' = remote /\ recorded' = recorded /\ cache' = cache
      /\ backup' = backup
      /\ upload' = upload /\ notes' = notes /\ caller' = caller /\ consumer' = consumer
  BY DEF Backup!ManualScans, Backup!disks
<1>2. /\ "manual" \in Backup!Drivers /\ t \in Backup!TaskIds /\ t # 0
      /\ "filling" \in Stages \ {"registering"}
  BY DriverIs DEF Backup!ManualScans, Engaged, Stages, Backup!Drivers, Backup!TaskIds
<1>3. Backup!Takes("manual", "filling", t, "manual", fs) /\ row' = Backup!SavedFiles(t, fs)
  BY DEF Backup!ManualScans
<1>4. fs \in FileMaps
  BY <1>2, SeenTyped DEF BackupInv
<1> HIDE DEF t, fs
<1>5. TasksMove
  BY <1>1, <1>2, <1>3, <1>4, SavedFilesTyped DEF TasksMove, BackupInv, BackupTypes, TasksTyped
<1>6. DriversMove
  BY <1>2, <1>3, <1>4, TakesMoves DEF BackupInv
<1> QED BY <1>1, <1>5, <1>6, QuietStep

\* What ends in memory only.
LEMMA EndsMoves ==
    ASSUME BackupInv, NEW t \in Backup!TaskIds, NEW st \in BackupStates, Backup!EndsInMemory(t, st)
    PROVE  TasksMove
<1> DEFINE r == [backup[t] EXCEPT !.st = st]
<1>1. (backup' = backup \/ backup' = [backup EXCEPT ![t] = r]) /\ row' = row
  BY DEF Backup!EndsInMemory
<1>2. r \in BackupRecs
  BY TaskTyped DEF BackupRecs
<1> HIDE DEF r
<1> QED BY <1>1, <1>2, MemoryMoves

\* A manual backup that ends before it makes an upload, or another one that stops there.
LEMMA StopsStep ==
    ASSUME BackupInv, NEW d \in Backup!Drivers,
           \/ d = "manual" /\ (Backup!ManualScanFails \/ Backup!ManualFindsNothing)
           \/ Backup!NoUploader(d)
    PROVE  BackupInv'
<1>1. /\ source' = source /\ remote' = remote /\ recorded' = recorded /\ cache' = cache
      /\ upload' = upload /\ notes' = notes /\ caller' = caller /\ consumer' = consumer
      /\ Backup!Quits(d)
  BY DEF Backup!ManualScanFails, Backup!ManualFindsNothing, Backup!NoUploader, Backup!disks
<1>2. driver[d].task \in Backup!TaskIds
  BY DriverIs DEF Backup!ManualScanFails, Backup!ManualFindsNothing, Backup!NoUploader, Engaged, Stages
<1>3. \/ backup' = backup /\ row' = row
      \/ \E st \in {"failed", "completed", backup[driver[d].task].st} :
            Backup!EndsInMemory(driver[d].task, st)
  BY DEF Backup!ManualScanFails, Backup!ManualFindsNothing, Backup!NoUploader
<1>4. {"failed", "completed", backup[driver[d].task].st} \subseteq BackupStates
  BY <1>2, TaskTyped DEF BackupRecs, BackupStates, Backup!Ended
<1>5. TasksMove
  BY <1>2, <1>3, <1>4, EndsMoves, TasksRest
<1>6. DriversMove
  BY <1>1, QuitsMoves DEF BackupInv
<1> QED BY <1>1, <1>5, <1>6, QuietStep

\* The upload manager is there.
LEMMA ResolvesStep ==
    ASSUME BackupInv, NEW d \in Backup!Drivers, Backup!Resolves(d)
    PROVE  BackupInv'
<1>1. /\ source' = source /\ remote' = remote /\ recorded' = recorded /\ cache' = cache
      /\ backup' = backup /\ row' = row
      /\ upload' = upload /\ notes' = notes /\ caller' = caller /\ consumer' = consumer
  BY DEF Backup!Resolves, Backup!disks
<1>2. /\ driver[d].pc \in Engaged /\ "creating" \in Engaged \ {"registering"}
      /\ Backup!Goes(d, "creating")
  BY DEF Backup!Resolves, Engaged, Stages
<1>3. DriversMove
  BY <1>2, WorksOn DEF BackupInv
<1> QED BY <1>1, <1>3, TasksRest, QuietStep

-----------------------------------------------------------------------------
(* The drivers create uploads.                                             *)

\* A result is put where the task still has that file.
LEMMA PutTyped ==
    ASSUME NEW r \in BackupRecs, NEW f \in Files, NEW file \in FileRecs, Fits(f, file)
    PROVE  Backup!Put(r, f, file) \in BackupRecs
<1> DEFINE fs == [r.files EXCEPT ![f] = file]
<1>1. r.files \in FileMaps
  BY DEF BackupRecs
<1>2. fs \in FileMaps
  BY <1>1, FileAt
<1>3. Backup!Put(r, f, file) = r \/ Backup!Put(r, f, file) = [r EXCEPT !.files = fs]
  BY DEF Backup!Put
<1> HIDE DEF fs
<1>4. [r EXCEPT !.files = fs] \in BackupRecs
  BY <1>2 DEF BackupRecs
<1> QED BY <1>3, <1>4

\* The file that a working driver is at.
LEMMA FileAtHand ==
    ASSUME BackupInv, NEW d \in Backup!Drivers, driver[d].todo # {}, driver[d].pc \in Engaged
    PROVE  /\ Backup!Next(d) \in Files /\ driver[d].task \in Backup!TaskIds
           /\ driver[d].files[Backup!Next(d)] \in FileRecs
           /\ Fits(Backup!Next(d), driver[d].files[Backup!Next(d)])
<1>1. Backup!Next(d) \in Files
  BY NextIsDue DEF BackupInv
<1> QED BY <1>1, DriverIs DEF FileMaps

\* A file whose upload failed, or that names none any more, fits as before.
LEMMA FitsLess ==
    ASSUME BackupInv, NEW f \in Files, NEW x \in FileRecs, Fits(f, x)
    PROVE  /\ [x EXCEPT !.st = "failed"] \in FileRecs /\ Fits(f, [x EXCEPT !.st = "failed"])
           /\ [x EXCEPT !.up = 0] \in FileRecs /\ Fits(f, [x EXCEPT !.up = 0])
<1>1. 0 \in 0..Len(upload)
  BY DEF BackupInv, BackupTypes, WorkTyped
<1> QED BY <1>1 DEF FileRecs, Fits

\* A failure is noted.
LEMMA FailsMoves ==
    ASSUME BackupInv, NEW d \in Backup!Drivers, driver[d].todo # {}, driver[d].pc \in Engaged,
           Backup!Fails(d), row' = row
    PROVE  TasksMove /\ DriversMove
<1> DEFINE t    == driver[d].task
           f    == Backup!Next(d)
           file == [driver[d].files[f] EXCEPT !.st = "failed"]
           p    == IF driver[d].mode = "manual" THEN Backup!Put(backup[t], f, file) ELSE backup[t]
           r    == [p EXCEPT !.failed = p.failed + 1]
<1>1. /\ f \in Files /\ t \in Backup!TaskIds
      /\ driver[d].files[f] \in FileRecs /\ Fits(f, driver[d].files[f])
  BY FileAtHand
<1>2. /\ backup' = backup \/ backup' = [backup EXCEPT ![t] = r]
      /\ Backup!Steps(d, f, file)
  BY DEF Backup!Fails, Backup!Notes
<1>3. file \in FileRecs /\ Fits(f, file)
  BY <1>1, FitsLess
<1> HIDE DEF t, f, file
<1>4. p \in BackupRecs
  BY <1>1, <1>3, TaskTyped, PutTyped
<1> HIDE DEF p
<1>5. r \in BackupRecs
  BY <1>4 DEF BackupRecs
<1> HIDE DEF r
<1> QED BY <1>1, <1>2, <1>3, <1>5, MemoryMoves, StepsMoves DEF BackupInv

\* An upload cannot be created.
LEMMA CannotCreateStep ==
    ASSUME BackupInv, NEW d \in Backup!Drivers, Backup!CannotCreate(d)
    PROVE  BackupInv'
<1>1. /\ source' = source /\ remote' = remote /\ recorded' = recorded /\ cache' = cache
      /\ upload' = upload /\ notes' = notes /\ caller' = caller /\ consumer' = consumer /\ row' = row
      /\ Backup!Fails(d)
  BY DEF Backup!CannotCreate, Backup!disks
<1>2. driver[d].pc \in Engaged /\ driver[d].todo # {}
  BY DEF Backup!CannotCreate, Backup!NeedsUpload, Backup!Working, Engaged, Stages
<1> QED BY <1>1, <1>2, FailsMoves, QuietStep

\* An upload is made that is not done.
LEMMA Appended ==
    ASSUME BackupInv, DiskMoves, source' = source,
           NEW d \in Backup!Drivers, NEW st \in {"running", "paused"}, Backup!Creates(d, st)
    PROVE  /\ driver[d].todo # {} /\ driver[d].pc \in Engaged
           /\ DOMAIN upload' = 1..(Len(upload) + 1)
           /\ \A u \in 1..Len(upload) : upload'[u] = upload[u]
           /\ upload'[Len(upload) + 1].task = driver[d].task
           /\ upload'[Len(upload) + 1].file = Backup!Next(d)
           /\ upload'[Len(upload) + 1].st = st
           /\ UploadsMove
<1> DEFINE f == Backup!Next(d)
           x == [task |-> driver[d].task, file |-> f, st |-> st,
                 by |-> driver[d].files[f].by, ver |-> driver[d].files[f].ver]
<1>1. driver[d].pc \in Engaged /\ driver[d].todo # {}
  BY DEF Backup!Creates, Backup!NeedsUpload, Backup!Working, Engaged, Stages
<1>2. /\ f \in Files /\ driver[d].task \in Backup!TaskIds
      /\ driver[d].files[f] \in FileRecs /\ Fits(f, driver[d].files[f])
  BY <1>1, FileAtHand
<1>3. upload' = Append(upload, x)
  BY DEF Backup!Creates
<1> HIDE DEF f
<1>4. x \in UploadRecs
  BY <1>2 DEF UploadRecs, FileRecs, Fits
<1>5. x.task = driver[d].task /\ x.file = f /\ x.st = st
  OBVIOUS
<1> HIDE DEF x
<1>6. upload \in Seq(UploadRecs) /\ Len(upload) \in Nat /\ UploadRecs' = UploadRecs
  BY DEF BackupInv, BackupTypes, WorkTyped, UploadRecs
<1>7. /\ upload' \in Seq(UploadRecs') /\ Len(upload') = Len(upload) + 1
      /\ DOMAIN upload' = 1..(Len(upload) + 1)
      /\ \A u \in 1..Len(upload) : upload'[u] = upload[u]
      /\ upload'[Len(upload) + 1] = x
  BY <1>3, <1>4, <1>6
<1>8. UploadsMove
  <2>1. \A u \in 1..Len(upload') : u > Len(upload) => u = Len(upload) + 1
    BY <1>6, <1>7
  <2> QED BY <1>5, <1>6, <1>7, <2>1 DEF UploadsMove, Whole
<1> QED BY <1>1, <1>5, <1>7, <1>8 DEF f

\* An upload is made, but cannot be started.
LEMMA CannotStartStep ==
    ASSUME BackupInv, NEW d \in Backup!Drivers, Backup!CannotStart(d)
    PROVE  BackupInv'
<1>1. /\ source' = source /\ remote' = remote /\ recorded' = recorded /\ cache' = cache
      /\ notes' = notes /\ caller' = caller /\ consumer' = consumer /\ row' = row
      /\ Backup!Fails(d) /\ Backup!Creates(d, "paused")
  BY DEF Backup!CannotStart, Backup!disks
<1>2. DiskMoves
  BY <1>1, DiskRests DEF BackupInv, BackupTypes, DiskTyped
<1>3. driver[d].pc \in Engaged /\ driver[d].todo # {} /\ UploadsMove
  BY <1>1, <1>2, Appended
<1> QED BY <1>1, <1>2, <1>3, FailsMoves, MovesStep

\* An upload is made; its driver is about to register it.
LEMMA CreatesOneStep ==
    ASSUME BackupInv, NEW d \in Backup!Drivers, Backup!CreatesOne(d)
    PROVE  BackupInv'
<1> DEFINE y == [driver[d] EXCEPT !.pc = "registering"]
<1>0. PICK n \in Nat : n = Len(upload) + 1
  BY DEF BackupInv, BackupTypes, WorkTyped
<1>1. /\ source' = source /\ remote' = remote /\ recorded' = recorded /\ cache' = cache
      /\ backup' = backup /\ row' = row /\ notes' = notes /\ caller' = caller /\ consumer' = consumer
      /\ Backup!Creates(d, "running")
      /\ driver' = [driver EXCEPT ![d] = y]
  BY DEF Backup!CreatesOne, Backup!Goes, Backup!disks
<1>2. DiskMoves
  BY <1>1, DiskRests DEF BackupInv, BackupTypes, DiskTyped
<1>3. /\ driver[d].todo # {} /\ driver[d].pc \in Engaged
      /\ DOMAIN upload' = 1..n /\ \A u \in 1..Len(upload) : upload'[u] = upload[u]
      /\ upload'[n].task = driver[d].task /\ upload'[n].file = Backup!Next(d)
      /\ upload'[n].st = "running" /\ UploadsMove
  BY <1>0, <1>1, <1>2, Appended
<1>4. /\ y \in DriverRecs /\ y.pc = "registering" /\ y.task = driver[d].task
      /\ y.todo = driver[d].todo /\ y.files = driver[d].files /\ y.task \in Backup!TaskIds
  BY <1>3, DriverIs DEF DriverRecs, Stages
<1> HIDE DEF y
<1>5. driver \in DriverMaps
  BY DEF BackupInv, BackupTypes, DriverTyped
<1>6. /\ driver' \in DriverMaps /\ driver'[d] = y
      /\ \A e \in Backup!Drivers : e # d => driver'[e] = driver[e]
  BY <1>1, <1>4, <1>5 DEF DriverMaps
<1>7. Backup!Next(d)' = Backup!Next(d)
  BY <1>4, <1>6 DEF Backup!Next
<1>8. Len(upload) \in Nat /\ DOMAIN upload = 1..Len(upload)
  BY DEF BackupInv, BackupTypes, WorkTyped
<1>9. Registered'
  <2> SUFFICES ASSUME NEW e \in Backup!Drivers, driver'[e].pc = "registering"
               PROVE  driver'[e].todo # {} /\ \E u \in DOMAIN upload' : Awaits(u, e)'
    BY DEF Registered
  <2>1. CASE e = d
    <3>1. n \in DOMAIN upload' /\ IsFor(n, d)'
      BY <1>0, <1>3, <1>4, <1>6, <1>7, <1>8 DEF IsFor
    <3>2. \A v \in DOMAIN upload' : v >= n => Brings(v, d)'
      BY <1>0, <1>3, <1>8 DEF Brings, Whole
    <3>3. Awaits(n, d)'
      BY <3>1, <3>2 DEF Awaits
    <3> QED BY <1>3, <1>4, <1>6, <2>1, <3>1, <3>3
  <2>2. CASE e # d
    <3>1. driver'[e] = driver[e]
      BY <1>6, <2>2
    <3>2. Backup!Next(e)' = Backup!Next(e)
      BY <3>1 DEF Backup!Next
    <3>3. driver[e].todo # {}
      BY <3>1 DEF BackupInv, Registered
    <3>4. PICK u \in DOMAIN upload : Awaits(u, e)
      BY <3>1 DEF BackupInv, Registered
    <3>5. \A v \in DOMAIN upload : /\ v \in DOMAIN upload' /\ (IsFor(v, e)' <=> IsFor(v, e))
                                   /\ (Brings(v, e)' <=> Brings(v, e))
      BY <1>0, <1>1, <1>3, <1>8, <3>1, <3>2 DEF IsFor, Brings, Has
    <3>6. \A v \in DOMAIN upload' : v \notin DOMAIN upload => Brings(v, e)'
      BY <1>0, <1>3, <1>8 DEF Brings, Whole
    <3>7. Awaits(u, e)'
      BY <3>4, <3>5, <3>6 DEF Awaits
    <3> QED BY <3>1, <3>3, <3>4, <3>5, <3>7
  <2> QED BY <2>1, <2>2
<1>10. TasksMove /\ NotesMove /\ CallsMove
  BY <1>1, <1>2, <1>3, TasksRest, NotesMoved, CallsRest
<1> QED BY <1>1, <1>2, <1>3, <1>6, <1>9, <1>10, RecordsRest, WorkStep

\* The uploads of a task that are pending are one more or one less.
LEMMA PendTyped ==
    ASSUME NEW r \in BackupRecs, NEW u \in 1..Len(upload), NEW n \in Nat
    PROVE  /\ [r EXCEPT !.pend = r.pend \cup {u}] \in BackupRecs
           /\ [r EXCEPT !.pend = r.pend \ {u}] \in BackupRecs
           /\ [r EXCEPT !.pend = r.pend \ {u}, !.failed = r.failed + n] \in BackupRecs
<1>1. r.pend \in SUBSET (1..Len(upload)) /\ r.failed \in Nat
  BY DEF BackupRecs
<1>2. r.pend \cup {u} \in SUBSET (1..Len(upload)) /\ r.pend \ {u} \in SUBSET (1..Len(upload))
  BY <1>1
<1>3. r.failed + n \in Nat
  BY <1>1
<1>4. \A q \in SUBSET (1..Len(upload)), k \in Nat :
         [r EXCEPT !.pend = q] \in BackupRecs /\ [r EXCEPT !.pend = q, !.failed = k] \in BackupRecs
  BY DEF BackupRecs
<1> QED BY <1>2, <1>3, <1>4

\* An upload is registered.
LEMMA RegistersStep ==
    ASSUME BackupInv, NEW d \in Backup!Drivers, Backup!Registers(d)
    PROVE  BackupInv'
<1> DEFINE t    == driver[d].task
           f    == Backup!Next(d)
           u    == Backup!Made(d)
           file == [driver[d].files[f] EXCEPT !.up = u]
           p    == IF driver[d].mode = "manual" THEN Backup!Put(backup[t], f, file) ELSE backup[t]
           r    == [p EXCEPT !.pend = p.pend \cup {u}]
           fs   == [driver[d].files EXCEPT ![f] = file]
           x    == [driver[d] EXCEPT !.pc = "creating", !.todo = driver[d].todo \ {f},
                                     !.files = fs, !.made = TRUE]
<1>1. /\ source' = source /\ remote' = remote /\ recorded' = recorded /\ cache' = cache
      /\ upload' = upload /\ notes' = notes /\ caller' = caller /\ consumer' = consumer
  BY DEF Backup!Registers, Backup!disks
<1>2. driver[d].pc = "registering" /\ driver[d].pc \in Engaged /\ driver[d].todo # {}
  BY DEF Backup!Registers, BackupInv, Registered, Engaged, Stages
<1>3. /\ f \in Files /\ t \in Backup!TaskIds
      /\ driver[d].files[f] \in FileRecs /\ Fits(f, driver[d].files[f])
  BY <1>2, FileAtHand
<1>4. u \in 1..Len(upload) /\ IsFor(u, d) /\ Brings(u, d)
  BY <1>2, MadeIsThere DEF BackupInv
<1>5. backup' = backup \/ backup' = [backup EXCEPT ![t] = r]
  <2>1. CASE driver[d].mode = "manual"
    BY <2>1, SMTT(90) DEF Backup!Registers
  <2>2. CASE driver[d].mode # "manual"
    BY <2>2, SMTT(90) DEF Backup!Registers
  <2> QED BY <2>1, <2>2
<1>6. row' = row \/ row' = Backup!SavedFile(t, f, file)
  BY DEF Backup!Registers
<1>7. driver' = [driver EXCEPT ![d] = x]
  BY DEF Backup!Registers
<1>8. upload[u].file = f /\ (upload[u].st \in Whole => Has(f, driver[d].files[f].ver))
  BY <1>4 DEF IsFor, Brings
<1> HIDE DEF t, f, u
<1>9. file \in FileRecs /\ Fits(f, file)
  BY <1>3, <1>4, <1>8 DEF FileRecs, Fits
<1> HIDE DEF file
<1>10. p \in BackupRecs
  BY <1>3, <1>9, TaskTyped, PutTyped
<1> HIDE DEF p
<1>11. r \in BackupRecs
  BY <1>4, <1>10, PendTyped
<1> HIDE DEF r
<1>12. fs \in FileMaps
  BY <1>3, <1>9, DriverIs, FileAt
<1> HIDE DEF fs
<1>13. x \in DriverRecs /\ x.pc = "creating" /\ x.task = t
  BY <1>3, <1>12, DriverIs DEF DriverRecs, Stages, t
<1> HIDE DEF x
<1>14. DriversMove
  BY <1>3, <1>7, <1>13, DriverAt DEF BackupInv
<1>15. TasksMove
  BY <1>3, <1>5, <1>6, <1>9, <1>11, SavedFileTyped, MemoryMoves DEF BackupInv
<1> QED BY <1>1, <1>14, <1>15, QuietStep

\* An upload changes its state: only one that has brought the file gets done.
LEMMA UploadAt ==
    ASSUME BackupInv, DiskMoves, NEW u \in 1..Len(upload),
           NEW st \in {"running", "paused", "failed", "done", "gone"},
           st \in Whole => source[upload[u].file] \in remote'[upload[u].file],
           upload' = [upload EXCEPT ![u].st = st]
    PROVE  UploadsMove
<1>1. upload \in Seq(UploadRecs) /\ source \in [Files -> Nat] /\ Len(upload) \in Nat
  BY DEF BackupInv, BackupTypes, WorkTyped, DiskTyped
<1>2. upload[u] \in UploadRecs
  BY <1>1
<1> DEFINE x == [upload[u] EXCEPT !.st = st]
<1>3. /\ x \in UploadRecs /\ x.task = upload[u].task /\ x.file = upload[u].file
      /\ x.ver = upload[u].ver /\ x.st = st
  BY <1>2 DEF UploadRecs
<1>4. upload' = [upload EXCEPT ![u] = x]
  OBVIOUS
<1> HIDE DEF x
<1>5. UploadRecs \subseteq UploadRecs'
  BY <1>1 DEF UploadRecs, DiskMoves
<1>6. upload' \in Seq(UploadRecs') /\ Len(upload') = Len(upload)
  BY <1>1, <1>3, <1>4, <1>5, SMTT(30)
<1>7. \A v \in 1..Len(upload) : upload'[v] = IF v = u THEN x ELSE upload[v]
  BY <1>1, <1>4, SMTT(30)
<1> QED BY <1>1, <1>3, <1>6, <1>7 DEF UploadsMove

\* A driver comes to a file that names an upload.
LEMMA ReusesStep ==
    ASSUME BackupInv, NEW d \in Backup!Drivers, Backup!Reuses(d)
    PROVE  BackupInv'
<1> DEFINE t    == driver[d].task
           f    == Backup!Next(d)
           u    == driver[d].files[f].up
           lost == [driver[d].files[f] EXCEPT !.up = 0]
           bad  == [lost EXCEPT !.st = "failed"]
           fs   == [driver[d].files EXCEPT ![f] = lost]
           x    == [driver[d] EXCEPT !.files = fs]
           less == [backup[t] EXCEPT !.pend = backup[t].pend \ {u}]
           more == [backup[t] EXCEPT !.pend = backup[t].pend \cup {u}]
           fail == [backup[t] EXCEPT !.pend = backup[t].pend \ {u}, !.failed = backup[t].failed + 1]
           Result(r) == backup' = backup \/ backup' = [backup EXCEPT ![t] = r]
<1>1. /\ source' = source /\ remote' = remote /\ recorded' = recorded /\ cache' = cache
      /\ notes' = notes /\ caller' = caller /\ consumer' = consumer
  BY DEF Backup!Reuses, Backup!disks
<1>2. /\ driver[d].pc = "creating" /\ driver[d].pc \in Engaged /\ driver[d].todo # {}
      /\ u # 0
  BY DEF Backup!Reuses, Backup!Working, Engaged, Stages
<1>3. /\ f \in Files /\ t \in Backup!TaskIds
      /\ driver[d].files[f] \in FileRecs /\ Fits(f, driver[d].files[f])
  BY <1>2, FileAtHand
<1>4. \/ /\ Result(less) /\ row' = Backup!SavedFile(t, f, lost) /\ upload' = upload
         /\ driver' = [driver EXCEPT ![d] = x]
      \/ /\ upload' = [upload EXCEPT ![u].st = "running"]
         /\ Result(more) /\ row' = row
         /\ Backup!Steps(d, f, driver[d].files[f])
      \/ /\ Result(fail) /\ row' = Backup!SavedFile(t, f, bad) /\ upload' = upload
         /\ Backup!Steps(d, f, bad)
  BY DEF Backup!Reuses
<1>5. u \in 1..Len(upload)
  BY <1>2, <1>3 DEF FileRecs, BackupInv, BackupTypes, WorkTyped
<1> HIDE DEF t, f, u
<1>6. lost \in FileRecs /\ Fits(f, lost)
  BY <1>3, FitsLess
<1> HIDE DEF lost
<1>7. bad \in FileRecs /\ Fits(f, bad)
  BY <1>3, <1>6, FitsLess
<1> HIDE DEF bad
<1>8. less \in BackupRecs /\ more \in BackupRecs /\ fail \in BackupRecs
  BY <1>3, <1>5, TaskTyped, PendTyped
<1>9. fs \in FileMaps
  BY <1>3, <1>6, DriverIs, FileAt
<1> HIDE DEF fs, less, more, fail
<1>10. x \in DriverRecs /\ x.pc = "creating" /\ x.task = t
  BY <1>2, <1>9, DriverIs DEF DriverRecs, t
<1> HIDE DEF x
<1>11. row' = row \/ row' \in TaskMaps
  BY <1>3, <1>4, <1>6, <1>7, SavedFileTyped DEF BackupInv
<1>12. PICK r \in BackupRecs : Result(r)
  BY <1>4, <1>8
<1>13. TasksMove
  BY <1>3, <1>11, <1>12, MemoryMoves
<1>14. DiskMoves
  BY <1>1, DiskRests DEF BackupInv, BackupTypes, DiskTyped
<1>15. UploadsMove
  <2>1. upload' = upload \/ upload' = [upload EXCEPT ![u].st = "running"]
    BY <1>4
  <2> QED BY <1>5, <1>14, <2>1, UploadsRest, UploadAt DEF Whole
<1>16. DriversMove
  <2>1. \/ driver' = [driver EXCEPT ![d] = x]
        \/ Backup!Steps(d, f, driver[d].files[f])
        \/ Backup!Steps(d, f, bad)
    BY <1>4
  <2>2. ASSUME NEW file \in FileRecs, Fits(f, file), Backup!Steps(d, f, file)
        PROVE  DriversMove
    BY <1>2, <1>3, <2>2, StepsMoves DEF BackupInv
  <2>3. ASSUME driver' = [driver EXCEPT ![d] = x] PROVE DriversMove
    BY <1>3, <1>10, <2>3, DriverAt DEF BackupInv
  <2> QED BY <1>3, <1>7, <2>1, <2>2, <2>3
<1> QED BY <1>1, <1>13, <1>14, <1>15, <1>16, MovesStep

\* A manual backup deletes an upload that it cannot resume.
LEMMA ManualReplacesStep ==
    ASSUME BackupInv, Backup!ManualReplaces
    PROVE  BackupInv'
<1> DEFINE d    == "manual"
           t    == driver[d].task
           f    == Backup!Next(d)
           u    == driver[d].files[f].up
           file == [driver[d].files[f] EXCEPT !.up = 0]
           fs   == [driver[d].files EXCEPT ![f] = file]
           x    == [driver[d] EXCEPT !.files = fs]
           p    == Backup!Put(backup[t], f, file)
           r    == [p EXCEPT !.pend = p.pend \ {u}]
<1>1. /\ source' = source /\ remote' = remote /\ recorded' = recorded /\ cache' = cache
      /\ row' = row /\ caller' = caller /\ consumer' = consumer
  BY DEF Backup!ManualReplaces, Backup!disks
<1>2. /\ driver[d].pc = "creating" /\ driver[d].pc \in Engaged /\ driver[d].todo # {}
      /\ u # 0 /\ d \in Backup!Drivers
  BY DEF Backup!ManualReplaces, Backup!Working, Engaged, Stages, Backup!Drivers
<1>3. /\ f \in Files /\ t \in Backup!TaskIds
      /\ driver[d].files[f] \in FileRecs /\ Fits(f, driver[d].files[f])
  BY <1>2, FileAtHand
<1>4. /\ upload' = [upload EXCEPT ![u].st = "gone"]
      /\ notes' = Append(notes, [up |-> u, ok |-> FALSE])
      /\ backup' = backup \/ backup' = [backup EXCEPT ![t] = r]
      /\ driver' = [driver EXCEPT ![d] = x]
  BY DEF Backup!ManualReplaces
<1>5. u \in 1..Len(upload)
  BY <1>2, <1>3 DEF FileRecs, BackupInv, BackupTypes, WorkTyped
<1> HIDE DEF t, f, u
<1>6. file \in FileRecs /\ Fits(f, file)
  BY <1>3, FitsLess
<1> HIDE DEF file
<1>7. p \in BackupRecs
  BY <1>3, <1>6, TaskTyped, PutTyped
<1> HIDE DEF p
<1>8. r \in BackupRecs
  BY <1>5, <1>7, PendTyped
<1>9. fs \in FileMaps
  BY <1>2, <1>3, <1>6, DriverIs, FileAt
<1> HIDE DEF r, fs
<1>10. x \in DriverRecs /\ x.pc = "creating" /\ x.task = t
  BY <1>2, <1>9, DriverIs DEF DriverRecs, t
<1> HIDE DEF x, d
<1>11. DriversMove
  BY <1>2, <1>3, <1>4, <1>10, DriverAt DEF BackupInv
<1>12. TasksMove
  BY <1>1, <1>3, <1>4, <1>8, MemoryMoves
<1>13. DiskMoves
  BY <1>1, DiskRests DEF BackupInv, BackupTypes, DiskTyped
<1>14. UploadsMove
  BY <1>4, <1>5, <1>13, UploadAt DEF Whole
<1> QED BY <1>1, <1>4, <1>5, <1>11, <1>12, <1>13, <1>14, MovesStep

\* The driver's files go back to the task.
LEMMA FinishesStep ==
    ASSUME BackupInv, NEW d \in Backup!Drivers, Backup!Finishes(d)
    PROVE  BackupInv'
<1> DEFINE t == driver[d].task
           r == [backup[t] EXCEPT !.files = driver[d].files]
<1>1. /\ source' = source /\ remote' = remote /\ recorded' = recorded /\ cache' = cache /\ row' = row
      /\ upload' = upload /\ notes' = notes /\ caller' = caller /\ consumer' = consumer
  BY DEF Backup!Finishes, Backup!disks
<1>2. driver[d].pc \in Engaged /\ t \in Backup!TaskIds /\ "settling" \in Engaged \ {"registering"}
  BY DriverIs DEF Backup!Finishes, Engaged, Stages
<1>3. /\ backup' = backup \/ backup' = [backup EXCEPT ![t] = r]
      /\ Backup!Goes(d, "settling") \/ Backup!Quits(d)
  BY DEF Backup!Finishes
<1> HIDE DEF t
<1>4. r \in BackupRecs
  BY <1>2, TaskTyped, DriverIs DEF BackupRecs
<1> HIDE DEF r
<1>5. TasksMove
  BY <1>1, <1>2, <1>3, <1>4, MemoryMoves
<1>6. DriversMove
  BY <1>2, <1>3, WorksOn, QuitsMoves DEF BackupInv
<1> QED BY <1>1, <1>5, <1>6, QuietStep

\* A task that waits for nothing ends.
LEMMA SettlesStep ==
    ASSUME BackupInv, NEW d \in Backup!Drivers, Backup!Settles(d)
    PROVE  BackupInv'
<1> DEFINE t == driver[d].task
           r == [backup[t] EXCEPT !.st = Backup!Verdict(backup[t])]
<1>1. /\ source' = source /\ remote' = remote /\ recorded' = recorded /\ cache' = cache
      /\ upload' = upload /\ notes' = notes /\ caller' = caller /\ consumer' = consumer
  BY DEF Backup!Settles, Backup!disks
<1>2. driver[d].pc \in Engaged /\ t \in Backup!TaskIds /\ "saving" \in Engaged \ {"registering"}
  BY DriverIs DEF Backup!Settles, Engaged, Stages
<1>3. \/ backup' = [backup EXCEPT ![t] = r] /\ row' = Backup!Saved(t, r) /\ Backup!Goes(d, "saving")
      \/ Backup!Quits(d) /\ backup' = backup /\ row' = row
  BY DEF Backup!Settles
<1>4. Backup!Verdict(backup[t]) \in BackupStates
  BY DEF BackupStates, Backup!Verdict, Backup!Ended
<1> HIDE DEF t
<1>5. r \in BackupRecs
  BY <1>2, <1>4, TaskTyped DEF BackupRecs
<1> HIDE DEF r
<1>6. TasksMove
  BY <1>2, <1>3, <1>5, SavedTyped, MemoryMoves DEF BackupInv
<1>7. DriversMove
  BY <1>2, <1>3, WorksOn, QuitsMoves DEF BackupInv
<1> QED BY <1>1, <1>6, <1>7, QuietStep

\* A manual backup that made no upload ends in memory.
LEMMA ManualSettlesStep ==
    ASSUME BackupInv, Backup!ManualSettles
    PROVE  BackupInv'
<1>1. /\ source' = source /\ remote' = remote /\ recorded' = recorded /\ cache' = cache
      /\ upload' = upload /\ notes' = notes /\ caller' = caller /\ consumer' = consumer
  BY DEF Backup!ManualSettles, Backup!disks
<1>2. "manual" \in Backup!Drivers
  BY DEF Backup!Drivers
<1>3. /\ driver["manual"].pc \in Engaged /\ driver["manual"].task \in Backup!TaskIds
      /\ "saving" \in Engaged \ {"registering"}
  BY <1>2, DriverIs DEF Backup!ManualSettles, Engaged, Stages
<1>4. \/ backup' = backup /\ row' = row
      \/ \E st \in {"partial", "completed"} : Backup!EndsInMemory(driver["manual"].task, st)
  BY DEF Backup!ManualSettles
<1>5. {"partial", "completed"} \subseteq BackupStates
  BY DEF BackupStates, Backup!Ended
<1>6. TasksMove
  BY <1>3, <1>4, <1>5, EndsMoves, TasksRest
<1>7. Backup!Goes("manual", "saving")
  BY DEF Backup!ManualSettles
<1>8. DriversMove
  BY <1>2, <1>3, <1>7, WorksOn DEF BackupInv
<1> QED BY <1>1, <1>6, <1>8, QuietStep

\* A driver saves its task and removes it.
LEMMA DriverClearsStep ==
    ASSUME BackupInv, NEW d \in Backup!Drivers, Backup!DriverSaves(d) \/ Backup!DriverRemoves(d)
    PROVE  BackupInv'
<1>1. /\ source' = source /\ remote' = remote /\ recorded' = recorded /\ cache' = cache
      /\ upload' = upload /\ notes' = notes /\ caller' = caller /\ consumer' = consumer
  BY DEF Backup!DriverSaves, Backup!DriverRemoves, Backup!disks
<1>2. /\ driver[d].pc \in Engaged /\ driver[d].task \in Backup!TaskIds
      /\ "removing" \in Engaged \ {"registering"}
  BY DriverIs DEF Backup!DriverSaves, Backup!DriverRemoves, Engaged, Stages
<1>3. \/ row' = Backup!SavedNow(driver[d].task) /\ backup' = backup /\ Backup!Goes(d, "removing")
      \/ backup' = Backup!Removed(driver[d].task) /\ row' = row /\ Backup!Quits(d)
  BY DEF Backup!DriverSaves, Backup!DriverRemoves
<1>4. TasksMove
  BY <1>2, <1>3, SavedNowTyped, RemovedTyped DEF TasksMove, BackupInv, BackupTypes, TasksTyped
<1>5. DriversMove
  BY <1>2, <1>3, WorksOn, QuitsMoves DEF BackupInv
<1> QED BY <1>1, <1>4, <1>5, QuietStep

-----------------------------------------------------------------------------
(* Uploads, their notifications, the user and the directory.               *)

\* A file is edited.
LEMMA EditStep ==
    ASSUME BackupInv, NEW f \in Files, Backup!Edit(f)
    PROVE  BackupInv'
<1>1. /\ source \in [Files -> Nat] /\ remote \in [Files -> SUBSET Nat] /\ cache \in [Files -> Nat]
  BY DEF BackupInv, BackupTypes, DiskTyped
<1>2. /\ remote' = remote /\ recorded' = recorded /\ cache' = cache /\ backup' = backup
      /\ row' = row /\ notes' = notes /\ caller' = caller /\ upload' = upload
      /\ driver' = driver /\ consumer' = consumer
  BY DEF Backup!Edit
<1>3. source' \in [Files -> Nat] /\ \A g \in Files : source[g] <= source'[g]
  BY <1>1 DEF Backup!Edit
<1>4. DiskMoves
  BY <1>1, <1>2, <1>3 DEF DiskMoves
<1> QED BY <1>2, <1>4, TasksRest, DriversRest, UploadsRest, MovesStep

\* An upload succeeds.
LEMMA UploadedStep ==
    ASSUME BackupInv, NEW u \in DOMAIN upload, Backup!Uploaded(u)
    PROVE  BackupInv'
<1> DEFINE f == upload[u].file
           n == [up |-> u, ok |-> TRUE]
<1>1. /\ source' = source /\ recorded' = recorded /\ cache' = cache
      /\ backup' = backup /\ row' = row /\ driver' = driver /\ caller' = caller /\ consumer' = consumer
  BY DEF Backup!Uploaded
<1>2. /\ upload' = [upload EXCEPT ![u].st = "done"]
      /\ notes' = Append(notes, n)
      /\ remote' = [remote EXCEPT ![f] = remote[f] \cup {source[f]}]
  BY DEF Backup!Uploaded, Backup!Ends
<1>3. /\ notes \in Seq(NoteRecs) /\ u \in 1..Len(upload)
      /\ source \in [Files -> Nat] /\ remote \in [Files -> SUBSET Nat] /\ cache \in [Files -> Nat]
  BY DEF BackupInv, BackupTypes, WorkTyped, DiskTyped
<1>4. /\ f \in Files /\ upload[u].ver \in Nat /\ upload[u].ver <= source[f] /\ source[f] \in Nat
  BY <1>3, UploadIs DEF BackupInv
<1>5. /\ remote' \in [Files -> SUBSET Nat] /\ \A g \in Files : remote[g] \subseteq remote'[g]
      /\ source[f] \in remote'[f]
  BY <1>2, <1>3, <1>4
<1>6. DiskMoves
  <2>1. \A g \in Files : source[g] <= source[g]
    BY <1>3
  <2> QED BY <1>1, <1>3, <1>5, <2>1 DEF DiskMoves
<1>7. UploadsMove
  BY <1>2, <1>3, <1>5, <1>6, UploadAt
<1>8. NotesMove
  <2>1. n \in NoteRecs /\ n.up = u
    BY <1>3 DEF NoteRecs
  <2>2. notes \in Seq(NoteRecs') /\ n \in NoteRecs'
    BY <1>3, <1>6, <1>7, <2>1, MoreRecords DEF BackupInv
  <2> HIDE DEF n
  <2>3. notes' \in Seq(NoteRecs')
    BY <1>2, <2>2
  <2>4. NotesTrue'
    <3> SUFFICES ASSUME NEW i \in DOMAIN notes', notes'[i].ok
                 PROVE  \E w \in remote'[upload'[notes'[i].up].file] : w >= upload'[notes'[i].up].ver
      BY DEF NotesTrue, Has
    <3>1. CASE i \in DOMAIN notes
      <4>1. notes'[i] = notes[i] /\ notes[i] \in NoteRecs
        BY <1>2, <1>3, <2>2, <3>1
      <4> DEFINE v == notes[i].up
      <4>2. v \in 1..Len(upload) /\ Has(upload[v].file, upload[v].ver)
        BY <3>1, <4>1 DEF BackupInv, NotesTrue, NoteRecs
      <4>3. upload[v].file \in Files /\ upload'[v].file = upload[v].file /\ upload'[v].ver = upload[v].ver
        BY <1>7, <4>2, UploadIs DEF BackupInv, UploadsMove
      <4> QED BY <1>5, <4>1, <4>2, <4>3 DEF Has
    <3>2. CASE i \notin DOMAIN notes
      <4>1. notes'[i] = n
        BY <1>2, <1>3, <2>2, <3>2
      <4>2. upload'[u].file = f /\ upload'[u].ver = upload[u].ver
        BY <1>3, <1>7 DEF UploadsMove
      <4> QED BY <1>4, <1>5, <2>1, <4>1, <4>2
    <3> QED BY <3>1, <3>2
  <2> QED BY <2>3, <2>4 DEF NotesMove
<1>9. Registered'
  BY <1>1, <1>6, <1>7, DriversRest, RegisteredStays
<1> QED BY <1>1, <1>6, <1>7, <1>8, <1>9, TasksRest, DriversRest, CallsRest, RecordsRest, WorkStep
        DEF DriversMove

\* An upload fails or is deleted.
LEMMA UploadEndsStep ==
    ASSUME BackupInv, NEW u \in DOMAIN upload, Backup!UploadFails(u) \/ Backup!UploadDeleted(u)
    PROVE  BackupInv'
<1>1. /\ source' = source /\ remote' = remote /\ recorded' = recorded /\ cache' = cache
      /\ backup' = backup /\ row' = row /\ driver' = driver /\ caller' = caller /\ consumer' = consumer
  BY DEF Backup!UploadFails, Backup!UploadDeleted, Backup!disks
<1>2. PICK st \in {"failed", "gone"} : /\ upload' = [upload EXCEPT ![u].st = st]
                                       /\ notes' = Append(notes, [up |-> u, ok |-> FALSE])
  BY DEF Backup!UploadFails, Backup!UploadDeleted, Backup!Ends
<1>3. u \in 1..Len(upload)
  BY DEF BackupInv, BackupTypes, WorkTyped
<1>4. DiskMoves
  BY <1>1, DiskRests DEF BackupInv, BackupTypes, DiskTyped
<1>5. UploadsMove
  BY <1>2, <1>3, <1>4, UploadAt DEF Whole
<1> QED BY <1>1, <1>2, <1>3, <1>4, <1>5, TasksRest, DriversRest, MovesStep

\* A notification is counted; a file it calls done is on the netdisk.
LEMMA CountedTyped ==
    ASSUME BackupInv, NEW r \in BackupRecs, NEW u \in 1..Len(upload), NEW ok \in BOOLEAN,
           ok => Has(upload[u].file, upload[u].ver)
    PROVE  Backup!Counted(r, u, ok) \in BackupRecs
<1> DEFINE f  == upload[u].file
           st == IF ok THEN "done" ELSE "failed"
           x  == [r.files[f] EXCEPT !.st = st]
           fs == [r.files EXCEPT ![f] = x]
           p  == [r EXCEPT !.pend = r.pend \ {u}]
           m  == IF ok THEN p.done + 1 ELSE p.done
           n  == IF ok THEN p.failed ELSE p.failed + 1
           q  == [p EXCEPT !.files = fs, !.done = m, !.failed = n]
<1>1. /\ r.files \in FileMaps /\ r.files \in [Files -> FileRecs] /\ r.done \in Nat /\ r.failed \in Nat
      /\ r.pend \ {u} \in SUBSET (1..Len(upload)) /\ f \in Files
  BY UploadIs DEF BackupRecs, FileMaps, BackupInv
<1>2. p \in BackupRecs
  BY <1>1 DEF BackupRecs
<1>3. r.files[f] \in FileRecs /\ Fits(f, r.files[f])
  BY <1>1 DEF FileMaps
<1>4. Backup!Counted(r, u, ok) = p \/ (Backup!Knows(r, u) /\ Backup!Counted(r, u, ok) = q)
  BY DEF Backup!Counted
<1>5. ASSUME Backup!Knows(r, u) PROVE q \in BackupRecs
  <2>1. r.files[f].ver = upload[u].ver
    BY <1>5 DEF Backup!Knows, Backup!Same
  <2>2. ok => Has(f, r.files[f].ver)
    BY <2>1
  <2> HIDE DEF f
  <2>3. x \in FileRecs /\ Fits(f, x)
    BY <1>3, <2>2 DEF FileRecs, Fits
  <2> HIDE DEF x
  <2>4. fs \in FileMaps
    BY <1>1, <2>3, FileAt
  <2> HIDE DEF fs, p
  <2>5. p.done \in Nat /\ p.failed \in Nat
    BY <1>2 DEF BackupRecs
  <2>6. m \in Nat /\ n \in Nat
    BY <2>5
  <2> HIDE DEF m, n
  <2> QED BY <1>2, <2>4, <2>6 DEF BackupRecs
<1> QED BY <1>2, <1>4, <1>5

\* A step of the consumer that leaves uploads and drivers alone.
LEMMA ConsumerStep ==
    ASSUME BackupInv, source' = source, remote' = remote, cache' \in [Files -> Nat],
           upload' = upload, driver' = driver, caller' = caller, TasksMove,
           notes' = notes \/ (notes # <<>> /\ notes' = Tail(notes)),
           consumer' \in NoticeRecs, NoticeTrue',
           recorded' \in [Files -> SUBSET Nat], Backup!RecordsAreTrue'
    PROVE  BackupInv'
<1>1. DiskMoves
  BY DiskRests
<1>2. UploadsMove
  BY <1>1, UploadsRest
<1>3. NotesMove
  <2>1. CASE notes' = notes
    BY <1>1, <1>2, <2>1, NotesMoved
  <2>2. CASE notes # <<>> /\ notes' = Tail(notes)
    <3>1. notes \in Seq(NoteRecs) /\ NoteRecs' = NoteRecs
      BY DEF BackupInv, BackupTypes, WorkTyped, NoteRecs
    <3>2. /\ notes' \in Seq(NoteRecs')
          /\ \A i \in DOMAIN notes' : i + 1 \in DOMAIN notes /\ notes'[i] = notes[i + 1]
      BY <2>2, <3>1
    <3>3. NotesTrue'
      BY <3>2 DEF BackupInv, NotesTrue, Has
    <3> QED BY <3>2, <3>3 DEF NotesMove
  <2> QED BY <2>1, <2>2
<1>4. CallsMove
  BY DEF CallsMove, BackupInv, BackupTypes, CallTyped
<1>5. DriversMove
  BY DriversRest
<1> QED BY <1>1, <1>2, <1>3, <1>4, <1>5, RegisteredStays, WorkStep DEF DriversMove

\* The consumer receives a notification: what it will record, the netdisk has.
LEMMA ReceivesStep ==
    ASSUME BackupInv, Backup!Receives
    PROVE  BackupInv'
<1> DEFINE u  == Head(notes).up
           ok == Head(notes).ok
           N(t) == [pc |-> IF ~Backup!Knows(backup[t], u) THEN "saving"
                           ELSE IF ok THEN "recording" ELSE "filing",
                    task |-> t, file |-> upload[u].file, by |-> upload[u].by,
                    ver |-> upload[u].ver, ok |-> ok,
                    last |-> Backup!Counted(backup[t], u, ok).pend = {}]
           R(t) == Backup!Counted(backup[t], u, ok)
<1>1. /\ source' = source /\ remote' = remote /\ recorded' = recorded /\ cache' = cache
      /\ row' = row /\ upload' = upload /\ driver' = driver /\ caller' = caller
      /\ notes' = Tail(notes) /\ notes # <<>>
  BY DEF Backup!Receives, Backup!disks
<1>2. notes \in Seq(NoteRecs) /\ cache \in [Files -> Nat]
  BY DEF BackupInv, BackupTypes, WorkTyped, DiskTyped
<1>3. Head(notes) \in NoteRecs /\ Head(notes) = notes[1] /\ 1 \in DOMAIN notes
  BY <1>1, <1>2
<1>4. u \in 1..Len(upload) /\ ok \in BOOLEAN
  BY <1>3 DEF NoteRecs
<1>5. /\ upload[u].file \in Files /\ upload[u].ver \in Nat /\ upload[u].by \in Origins
      /\ ok => Has(upload[u].file, upload[u].ver)
  BY <1>3, <1>4, UploadIs DEF BackupInv, NotesTrue, UploadRecs
<1>6. /\ backup' = backup \/ \E t \in Backup!TaskIds :
            \/ backup' = [backup EXCEPT ![t] = R(t)]
            \/ backup' = [backup EXCEPT ![t] = [R(t) EXCEPT !.st = Backup!Verdict(R(t))]]
      /\ \/ consumer' = consumer \/ consumer' = Backup!NoNotice
         \/ \E t \in Backup!TaskIds : consumer' = N(t)
  <2>1. CASE Backup!Waiting(u) = {}
    BY <2>1 DEF Backup!Receives
  <2>2. CASE Backup!Waiting(u) # {}
    <3>1. PICK t \in Backup!Waiting(u) :
             /\ backup' = [backup EXCEPT ![t] = IF R(t).pend = {}
                                                THEN [R(t) EXCEPT !.st = Backup!Verdict(R(t))] ELSE R(t)]
             /\ consumer' = IF ~Backup!Knows(backup[t], u) /\ ~(R(t).pend = {})
                            THEN Backup!NoNotice ELSE N(t)
      BY <2>2 DEF Backup!Receives
    <3>2. t \in Backup!TaskIds
      BY <3>1 DEF Backup!Waiting
    <3> QED BY <3>1, <3>2
  <2> QED BY <2>1, <2>2
<1> HIDE DEF N, R
<1>7. \A t \in Backup!TaskIds : R(t) \in BackupRecs
  BY <1>4, <1>5, TaskTyped, CountedTyped DEF R
<1>8. \A t \in Backup!TaskIds : [R(t) EXCEPT !.st = Backup!Verdict(R(t))] \in BackupRecs
  BY <1>7 DEF BackupRecs, BackupStates, Backup!Verdict, Backup!Ended
<1>9. TasksMove
  BY <1>1, <1>6, <1>7, <1>8, TasksRest, MemoryMoves
<1>10. consumer' \in NoticeRecs /\ NoticeTrue'
  <2>1. CASE consumer' = consumer
    BY <1>1, <2>1 DEF BackupInv, BackupTypes, CallTyped, NoticeTrue, Has
  <2>2. CASE consumer' = Backup!NoNotice
    BY <2>2 DEF NoticeTrue, NoticeRecs, Backup!NoNotice
  <2>3. ASSUME NEW t \in Backup!TaskIds, consumer' = N(t)
        PROVE  consumer' \in NoticeRecs /\ NoticeTrue'
    <3>1. consumer' \in NoticeRecs
      BY <1>4, <1>5, <2>3 DEF N, NoticeRecs
    <3>2. consumer'.pc = "recording" => ok
      BY <2>3 DEF N
    <3>3. consumer'.file = upload[u].file /\ consumer'.ver = upload[u].ver
      BY <2>3 DEF N
    <3> QED BY <1>1, <1>5, <3>1, <3>2, <3>3 DEF NoticeTrue, Has
  <2> QED BY <1>6, <2>1, <2>2, <2>3
<1>11. recorded' \in [Files -> SUBSET Nat] /\ Backup!RecordsAreTrue'
  BY <1>1 DEF BackupInv, BackupTypes, DiskTyped, Backup!RecordsAreTrue
<1> QED BY <1>1, <1>2, <1>9, <1>10, <1>11, ConsumerStep

\* The consumer records a backup that the netdisk has.
LEMMA RecordsStep ==
    ASSUME BackupInv, Backup!RecordsUpload
    PROVE  BackupInv'
<1> DEFINE f == consumer.file
<1>1. /\ source' = source /\ remote' = remote /\ backup' = backup
      /\ row' = row /\ upload' = upload /\ notes' = notes /\ driver' = driver /\ caller' = caller
      /\ consumer.pc = "recording" /\ consumer' = [consumer EXCEPT !.pc = "filing"]
      /\ recorded' = [recorded EXCEPT ![f] = recorded[f] \cup {consumer.ver}]
      /\ cache' = [cache EXCEPT ![f] = source[f]]
  BY DEF Backup!RecordsUpload
<1>2. /\ source \in [Files -> Nat] /\ remote \in [Files -> SUBSET Nat]
      /\ cache \in [Files -> Nat] /\ recorded \in [Files -> SUBSET Nat]
  BY DEF BackupInv, BackupTypes, DiskTyped
<1>3. /\ f \in Files /\ consumer.ver \in Nat /\ Has(f, consumer.ver)
      /\ consumer' \in NoticeRecs /\ consumer'.pc = "filing"
  BY <1>1 DEF BackupInv, BackupTypes, CallTyped, NoticeRecs, NoticeTrue, Backup!NoNotice
<1>4. NoticeTrue'
  BY <1>3 DEF NoticeTrue
<1>5. recorded' \in [Files -> SUBSET Nat] /\ cache' \in [Files -> Nat]
  BY <1>1, <1>2, <1>3
<1>6. Backup!RecordsAreTrue'
  <2> SUFFICES ASSUME NEW g \in Files, NEW v \in recorded'[g]
               PROVE  \E w \in remote[g] : w >= v
    BY <1>1 DEF Backup!RecordsAreTrue
  <2>1. v \in recorded[g] \/ (g = f /\ v = consumer.ver)
    BY <1>1, <1>2, <1>3
  <2> QED BY <1>3, <2>1 DEF BackupInv, Backup!RecordsAreTrue, Has
<1> QED BY <1>1, <1>3, <1>4, <1>5, <1>6, TasksRest, ConsumerStep

\* The consumer saves the row of the file, the row of the task, and removes the task.
LEMMA ClearsStep ==
    ASSUME BackupInv, Backup!FilesRow \/ Backup!ConsumerSaves \/ Backup!ConsumerRemoves
    PROVE  BackupInv'
<1> DEFINE t == consumer.task
           f == consumer.file
<1>1. /\ source' = source /\ remote' = remote /\ recorded' = recorded /\ cache' = cache
      /\ upload' = upload /\ notes' = notes /\ driver' = driver /\ caller' = caller
  BY DEF Backup!FilesRow, Backup!ConsumerSaves, Backup!ConsumerRemoves, Backup!disks
<1>2. consumer \in NoticeRecs
  BY DEF BackupInv, BackupTypes, CallTyped
<1>3. /\ t \in Backup!TaskIds /\ f \in Files
      /\ \A pc \in {"saving", "clearing", "removing"} : [consumer EXCEPT !.pc = pc] \in NoticeRecs
  BY <1>2 DEF Backup!FilesRow, Backup!ConsumerSaves, Backup!ConsumerRemoves, NoticeRecs, Backup!NoNotice
<1>4. \/ consumer' = Backup!NoNotice
      \/ \E pc \in {"saving", "clearing", "removing"} : consumer' = [consumer EXCEPT !.pc = pc]
  BY DEF Backup!FilesRow, Backup!ConsumerSaves, Backup!ConsumerRemoves
<1>5. consumer' \in NoticeRecs /\ consumer'.pc # "recording"
  BY <1>2, <1>3, <1>4 DEF NoticeRecs, Backup!NoNotice
<1>6. TasksMove
  <2>1. CASE Backup!FilesRow
    <3>1. backup' = backup /\ (row' = row \/ row' = Backup!SavedFile(t, f, backup[t].files[f]))
      BY <2>1 DEF Backup!FilesRow
    <3>2. backup[t].files[f] \in FileRecs /\ Fits(f, backup[t].files[f])
      BY <1>3, TaskTyped DEF FileMaps
    <3> QED BY <1>3, <3>1, <3>2, SavedFileTyped DEF TasksMove, BackupInv, BackupTypes, TasksTyped
  <2>2. CASE Backup!ConsumerSaves
    BY <1>3, <2>2, SavedNowTyped
       DEF Backup!ConsumerSaves, TasksMove, BackupInv, BackupTypes, TasksTyped
  <2>3. CASE Backup!ConsumerRemoves
    BY <1>3, <2>3, RemovedTyped
       DEF Backup!ConsumerRemoves, TasksMove, BackupInv, BackupTypes, TasksTyped
  <2> QED BY <2>1, <2>2, <2>3
<1>7. NoticeTrue'
  BY <1>5 DEF NoticeTrue
<1>8. recorded' \in [Files -> SUBSET Nat] /\ Backup!RecordsAreTrue' /\ cache' \in [Files -> Nat]
  BY <1>1 DEF BackupInv, BackupTypes, DiskTyped, Backup!RecordsAreTrue
<1> QED BY <1>1, <1>5, <1>6, <1>7, <1>8, ConsumerStep

\* A call of the user reaches the uploads that are pending.
LEMMA ReachMoves ==
    ASSUME BackupInv, DiskMoves, NEW t \in Backup!TaskIds, NEW from,
           NEW st \in {"running", "paused", "gone"}, upload' = Backup!Reach(t, from, st)
    PROVE  UploadsMove
<1>1. /\ upload \in Seq(UploadRecs) /\ DOMAIN upload = 1..Len(upload) /\ Len(upload) \in Nat
      /\ source \in [Files -> Nat]
  BY DEF BackupInv, BackupTypes, WorkTyped, DiskTyped
<1>2. \A x \in UploadRecs : /\ [x EXCEPT !.st = st] \in UploadRecs
                            /\ [x EXCEPT !.st = st].task = x.task
                            /\ [x EXCEPT !.st = st].file = x.file
                            /\ [x EXCEPT !.st = st].ver = x.ver
                            /\ [x EXCEPT !.st = st].st = st
  BY DEF UploadRecs
<1>3. /\ DOMAIN upload' = 1..Len(upload)
      /\ \A u \in 1..Len(upload) : upload'[u] = upload[u] \/ upload'[u] = [upload[u] EXCEPT !.st = st]
      /\ upload' = [u \in 1..Len(upload) |-> upload'[u]]
  BY <1>1 DEF Backup!Reach
<1>4. \A u \in 1..Len(upload) : upload[u] \in UploadRecs
  BY <1>1
<1>5. \A u \in 1..Len(upload) : /\ upload'[u] \in UploadRecs
                                /\ upload'[u].task = upload[u].task
                                /\ upload'[u].file = upload[u].file
                                /\ upload'[u].ver = upload[u].ver
                                /\ (upload'[u].st \in Whole => upload[u].st \in Whole)
  <2> TAKE u \in 1..Len(upload)
  <2>1. CASE upload'[u] = upload[u]
    BY <2>1, <1>4
  <2>2. CASE upload'[u] = [upload[u] EXCEPT !.st = st]
    <3>1. st \notin Whole
      BY DEF Whole
    <3> QED BY <2>2, <3>1, <1>2, <1>4
  <2> QED BY <2>1, <2>2, <1>3
<1>6. UploadRecs \subseteq UploadRecs'
  BY <1>1 DEF UploadRecs, DiskMoves
<1>7. upload' \in [1..Len(upload) -> UploadRecs']
  BY <1>3, <1>5, <1>6
<1>8. upload' \in Seq(UploadRecs') /\ Len(upload') = Len(upload)
  BY <1>1, <1>7
<1> QED BY <1>1, <1>5, <1>8 DEF UploadsMove

\* The call of a user that is under way.
LEMMA CallsTyped ==
    ASSUME BackupInv, NEW t \in Backup!TaskIds, NEW op \in {"pause", "resume", "cancel"},
           Backup!Calls(op, t)
    PROVE  caller' \in CallRecs
BY DEF Backup!Calls, CallRecs

\* The user pauses or resumes a task.
LEMMA PauseResumeStep ==
    ASSUME BackupInv, NEW t \in Backup!TaskIds, Backup!Pause(t) \/ Backup!Resume(t)
    PROVE  BackupInv'
<1>1. /\ source' = source /\ remote' = remote /\ recorded' = recorded /\ cache' = cache
      /\ backup' = backup /\ row' = row /\ driver' = driver /\ notes' = notes /\ consumer' = consumer
  BY DEF Backup!Pause, Backup!Resume, Backup!disks
<1>2. \/ upload' = Backup!Reach(t, {"running"}, "paused") /\ Backup!Calls("pause", t)
      \/ upload' = Backup!Reach(t, {"paused", "failed"}, "running") /\ Backup!Calls("resume", t)
  BY DEF Backup!Pause, Backup!Resume
<1>3. DiskMoves
  BY <1>1, DiskRests DEF BackupInv, BackupTypes, DiskTyped
<1>4. UploadsMove /\ caller' \in CallRecs
  BY <1>2, <1>3, ReachMoves, CallsTyped
<1> QED BY <1>1, <1>3, <1>4, TasksRest, DriversRest, MovesStep

\* BackupTask counts as this module does.
LEMMA SameCardinality ==
    ASSUME NEW S
    PROVE  Backup!Cardinality(S) = Cardinality(S)
BY DEF Cardinality, Backup!Cardinality

\* A finite set has its elements in a sequence.
LEMMA InSequence ==
    ASSUME NEW S, IsFiniteSet(S)
    PROVE  Backup!SetToSeq(S) \in Seq(S)
<1> DEFINE n == Cardinality(S)
<1>1. n \in Nat /\ ExistsBijection(1..n, S)
  BY FS_CardinalityType
<1>2. PICK g : g \in Bijection(1..n, S)
  BY <1>1 DEF ExistsBijection
<1>3. g \in [1..n -> S] /\ \A a, b \in 1..n : g[a] = g[b] => a = b
  BY <1>2 DEF Bijection, Injection, IsInjective
<1>4. DOMAIN g = 1..n
  BY <1>3
<1>5. \E h \in [1..n -> S] : Backup!IsInjective(h)
  BY <1>3, <1>4 DEF Backup!IsInjective
<1>6. Backup!SetToSeq(S) \in [1..n -> S]
  BY <1>5, SameCardinality DEF Backup!SetToSeq
<1> HIDE DEF n
<1> QED BY <1>1, <1>6

\* The user cancels a task: each of its uploads that is left is told to have failed.
LEMMA CancelStep ==
    ASSUME BackupInv, NEW t \in Backup!TaskIds, Backup!Cancel(t)
    PROVE  BackupInv'
<1> DEFINE live == {u \in backup[t].pend : upload[u].st # "gone"}
           S    == {[up |-> u, ok |-> FALSE] : u \in live}
           s    == Backup!SetToSeq(S)
<1>1. /\ source' = source /\ remote' = remote /\ recorded' = recorded /\ cache' = cache
      /\ backup' = backup /\ row' = row /\ driver' = driver /\ consumer' = consumer
  BY DEF Backup!Cancel, Backup!disks
<1>2. /\ upload' = Backup!Reach(t, {"running", "paused", "failed", "done", "archived"}, "gone")
      /\ notes' = notes \o s
      /\ Backup!Calls("cancel", t)
  BY DEF Backup!Cancel
<1>3. DiskMoves
  BY <1>1, DiskRests DEF BackupInv, BackupTypes, DiskTyped
<1>4. UploadsMove /\ caller' \in CallRecs
  BY <1>2, <1>3, ReachMoves, CallsTyped
<1>5. live \subseteq 1..Len(upload) /\ Len(upload) \in Nat
  BY TaskTyped DEF BackupRecs, BackupInv, BackupTypes, WorkTyped
<1>6. IsFiniteSet(live)
  <2>1. IsFiniteSet(1..Len(upload))
    BY <1>5, FS_Interval
  <2> HIDE DEF live
  <2> QED BY <1>5, <2>1, FS_Subset
<1> HIDE DEF live
<1>7. IsFiniteSet(S)
  <2> DEFINE g == [u \in live |-> [up |-> u, ok |-> FALSE]]
  <2>1. g \in Surjection(live, S)
    BY DEF Surjection
  <2> HIDE DEF g, S
  <2> QED BY <1>6, <2>1, FS_Surjection
<1>8. S \subseteq NoteRecs /\ \A x \in S : ~x.ok
  <2> SUFFICES ASSUME NEW x \in S PROVE x \in NoteRecs /\ ~x.ok
    OBVIOUS
  <2>1. PICK u \in live : x = [up |-> u, ok |-> FALSE]
    OBVIOUS
  <2> QED BY <1>5, <2>1 DEF NoteRecs
<1>9. s \in Seq(S)
  BY <1>7, InSequence
<1>10. NoteRecs \subseteq NoteRecs'
  BY <1>3, <1>4, MoreRecords DEF BackupInv
<1> HIDE DEF S, s
<1>11. s \in Seq(NoteRecs') /\ \A i \in DOMAIN s : ~s[i].ok
  BY <1>8, <1>9, <1>10
<1>12. NotesMove
  BY <1>2, <1>3, <1>4, <1>11, NotesStay
<1>13. DriversMove
  BY <1>1, DriversRest
<1> QED BY <1>1, <1>3, <1>4, <1>12, <1>13, TasksRest, RegisteredStays, CallsRest, RecordsRest, WorkStep
        DEF DriversMove

\* The last steps of a call of the user.
LEMMA CallStep ==
    ASSUME BackupInv, Backup!CallEnds \/ Backup!CancelSaves \/ Backup!CancelRemoves
    PROVE  BackupInv'
<1> DEFINE t  == caller.task
           st == CASE caller.op = "pause"  -> "paused"
                   [] caller.op = "cancel" -> "cancelled"
                   [] OTHER -> IF caller.had THEN "transferring" ELSE "queued"
           r  == [backup[t] EXCEPT !.st = st]
<1>1. /\ source' = source /\ remote' = remote /\ recorded' = recorded /\ cache' = cache
      /\ upload' = upload /\ notes' = notes /\ driver' = driver /\ consumer' = consumer
  BY DEF Backup!CallEnds, Backup!CancelSaves, Backup!CancelRemoves, Backup!disks
<1>2. /\ t \in Backup!TaskIds
      /\ \A op \in {"clear", "remove"} : [caller EXCEPT !.op = op] \in CallRecs
  BY DEF Backup!CallEnds, Backup!CancelSaves, Backup!CancelRemoves, BackupInv, BackupTypes,
         CallTyped, CallRecs, Backup!NoCall
<1>3. \/ caller' = Backup!NoCall
      \/ \E op \in {"clear", "remove"} : caller' = [caller EXCEPT !.op = op]
  BY DEF Backup!CallEnds, Backup!CancelSaves, Backup!CancelRemoves
<1>4. caller' \in CallRecs
  BY <1>2, <1>3 DEF CallRecs
<1>5. \/ backup' = [backup EXCEPT ![t] = r] /\ row' = Backup!Saved(t, r)
      \/ backup' = backup /\ row' = row
      \/ row' = Backup!SavedNow(t) /\ backup' = backup
      \/ backup' = Backup!Removed(t) /\ row' = row
  BY DEF Backup!CallEnds, Backup!CancelSaves, Backup!CancelRemoves
<1>6. st \in BackupStates
  BY DEF BackupStates, Backup!Active, Backup!Ended
<1> HIDE DEF t, st
<1>7. r \in BackupRecs
  BY <1>2, <1>6, TaskTyped DEF BackupRecs
<1> HIDE DEF r
<1>8. TasksMove
  BY <1>2, <1>5, <1>7, SavedTyped, SavedNowTyped, RemovedTyped, TaskAt
     DEF TasksMove, BackupInv, BackupTypes, TasksTyped
<1> QED BY <1>1, <1>4, <1>8, DriversRest, QuietStep

\* A file that failed waits again.
LEMMA RetryStep ==
    ASSUME BackupInv, NEW t \in Backup!TaskIds, NEW f \in Files, Backup!RetryFile(t, f)
    PROVE  BackupInv'
<1> DEFINE x  == [backup[t].files[f] EXCEPT !.st = "open"]
           fs == [backup[t].files EXCEPT ![f] = x]
           r  == [backup[t] EXCEPT !.files = fs]
<1>1. /\ source' = source /\ remote' = remote /\ recorded' = recorded /\ cache' = cache
      /\ row' = row /\ upload' = upload /\ notes' = notes /\ driver' = driver
      /\ caller' = caller /\ consumer' = consumer
      /\ backup' = [backup EXCEPT ![t] = r]
  BY DEF Backup!RetryFile, Backup!disks
<1>2. backup[t].files \in FileMaps /\ backup[t].files[f] \in FileRecs /\ Fits(f, backup[t].files[f])
  BY TaskTyped DEF FileMaps
<1>3. x \in FileRecs /\ Fits(f, x)
  BY <1>2 DEF FileRecs, Fits
<1> HIDE DEF x
<1>4. fs \in FileMaps
  BY <1>2, <1>3, FileAt
<1> HIDE DEF fs
<1>5. r \in BackupRecs
  BY <1>4, TaskTyped DEF BackupRecs
<1> HIDE DEF r
<1>6. TasksMove
  BY <1>1, <1>5, MemoryMoves
<1> QED BY <1>1, <1>6, DriversRest, QuietStep

\* The row of a task, brought up to the history of the uploads: an upload that was completed
\* has brought the version that its file names.
LEMMA SyncedTyped ==
    ASSUME BackupInv, NEW r \in BackupRecs
    PROVE  Backup!Synced(r) \in BackupRecs
<1> DEFINE hits == {f \in Backup!Given(r) : r.files[f].up # 0 /\ upload[r.files[f].up].st \in Whole}
           fs   == [f \in Files |-> IF f \in hits THEN [r.files[f] EXCEPT !.st = "done"] ELSE r.files[f]]
           done   == Cardinality({f \in Files : fs[f].st = "done"})
           failed == Cardinality({f \in Files : fs[f].st = "failed"})
           n    == [r EXCEPT !.files = fs, !.done = done, !.failed = failed]
           last == [n EXCEPT !.st = Backup!Verdict(n)]
<1>1. r.files \in FileMaps
  BY DEF BackupRecs
<1>2. fs \in FileMaps
  <2>1. \A f \in Files : r.files[f] \in FileRecs /\ Fits(f, r.files[f])
    BY <1>1 DEF FileMaps
  <2>2. ASSUME NEW f \in Files PROVE fs[f] \in FileRecs /\ Fits(f, fs[f])
    <3>1. CASE f \in hits
      <4> DEFINE x == r.files[f]
      <4>1. fs[f] = [x EXCEPT !.st = "done"] /\ x.up # 0 /\ upload[x.up].st \in Whole
        BY <3>1
      <4>2. x \in FileRecs /\ Fits(f, x)
        BY <2>1
      <4> HIDE DEF x, fs, hits
      <4> QED BY <4>1, <4>2 DEF FileRecs, Fits
    <3>2. CASE f \notin hits
      BY <2>1, <3>2
    <3> QED BY <3>1, <3>2
  <2>3. DOMAIN fs = Files /\ fs = [f \in Files |-> fs[f]]
    OBVIOUS
  <2> HIDE DEF fs
  <2> QED BY <2>2, <2>3 DEF FileMaps
<1>3. done \in Nat /\ failed \in Nat
  <2>1. \A S \in SUBSET Files : Cardinality(S) \in Nat
    BY BackupAssumption, FS_Subset, FS_CardinalityType
  <2> HIDE DEF fs
  <2> QED BY <2>1
<1>4. Backup!Synced(r) = r \/ Backup!Synced(r) = n \/ Backup!Synced(r) = last
  BY SameCardinality DEF Backup!Synced, Backup!SyncedFrom, Whole
<1> HIDE DEF fs, done, failed
<1>5. n \in BackupRecs
  BY <1>1, <1>2, <1>3 DEF BackupRecs
<1> HIDE DEF n
<1>6. last \in BackupRecs
  BY <1>5 DEF BackupRecs, BackupStates, Backup!Verdict, Backup!Ended
<1> QED BY <1>1, <1>4, <1>5, <1>6

\* A row that is taken up again is a queued task, and one that has ended none.
LEMMA ReloadedTyped ==
    ASSUME BackupInv, NEW r \in BackupRecs
    PROVE  Backup!Reloaded(r) \in BackupRecs
<1> DEFINE fs == [f \in Files |-> IF f \in Backup!Open(r) THEN r.files[f] ELSE Backup!NoFile]
           pend == {r.files[f].up : f \in {g \in Backup!Open(r) : r.files[g].up # 0}}
           q == [r EXCEPT !.st = "queued", !.files = fs, !.pend = pend]
<1>1. Backup!Absent \in BackupRecs
  BY EmptyTyped DEF BackupInv
<1>2. r.files \in FileMaps /\ \A f \in Files : r.files[f].up \in 0..Len(upload)
  BY DEF BackupRecs, FileMaps, FileRecs
<1>3. fs \in FileMaps
  <2> DEFINE none == [f \in Files |-> Backup!NoFile]
  <2>1. none \in FileMaps
    BY EmptyTyped DEF BackupInv
  <2>2. fs = [f \in Files |-> IF f \in Backup!Open(r) THEN r.files[f] ELSE none[f]]
    OBVIOUS
  <2> HIDE DEF none, fs
  <2> QED BY <1>2, <2>1, <2>2, FilesMix
<1>4. pend \in SUBSET (1..Len(upload))
  <2> SUFFICES ASSUME NEW u \in pend PROVE u \in 1..Len(upload)
    OBVIOUS
  <2>1. PICK f \in Files : u = r.files[f].up /\ u # 0
    BY DEF Backup!Open
  <2>2. Len(upload) \in Nat
    BY DEF BackupInv, BackupTypes, WorkTyped
  <2> QED BY <1>2, <2>1, <2>2
<1>5. Backup!Reloaded(r) = IF r.st \in Backup!Active THEN q ELSE Backup!Absent
  BY DEF Backup!Reloaded
<1> HIDE DEF fs, pend
<1>6. q \in BackupRecs
  BY <1>3, <1>4 DEF BackupRecs, BackupStates, Backup!Active
<1> HIDE DEF q
<1> QED BY <1>1, <1>5, <1>6

\* The program stops and starts again.
LEMMA RestartStep ==
    ASSUME BackupInv, Backup!Restart
    PROVE  BackupInv'
<1> DEFINE Paused(u) == [upload[u] EXCEPT !.st = CASE @ = "running" -> "paused"
                                                [] @ = "done" -> "archived" [] OTHER -> @]
           Row(t) == Backup!Synced(Backup!Requeued(row[t]))
<1>1. /\ source' = source /\ remote' = remote /\ recorded' = recorded /\ cache' = cache
      /\ notes' = <<>> /\ driver' = [d \in Backup!Drivers |-> Backup!Idle]
      /\ caller' = Backup!NoCall /\ consumer' = Backup!NoNotice
  BY DEF Backup!Restart, Backup!disks
<1>2. /\ backup' = [t \in Backup!TaskIds |-> Backup!Reloaded(row[t])]
      /\ row' = [t \in Backup!TaskIds |-> Row(t)]
      /\ upload' = [u \in DOMAIN upload |-> Paused(u)]
  BY DEF Backup!Restart
<1>3. upload \in Seq(UploadRecs) /\ Len(upload) \in Nat /\ DOMAIN upload = 1..Len(upload)
  BY DEF BackupInv, BackupTypes, WorkTyped
<1>4. DiskMoves
  BY <1>1, DiskRests DEF BackupInv, BackupTypes, DiskTyped
<1>5. \A u \in 1..Len(upload) : /\ Paused(u) \in UploadRecs /\ Paused(u).task = upload[u].task
                                /\ Paused(u).file = upload[u].file /\ Paused(u).ver = upload[u].ver
                                /\ (Paused(u).st \in Whole => upload[u].st \in Whole)
  <2> TAKE u \in 1..Len(upload)
  <2>1. upload[u] \in UploadRecs
    BY <1>3
  <2> QED BY <2>1 DEF UploadRecs, Whole
<1> HIDE DEF Paused
<1>6. UploadsMove
  <2>1. UploadRecs' = UploadRecs
    BY <1>1 DEF UploadRecs
  <2>2. upload' \in [1..Len(upload) -> UploadRecs']
    BY <1>2, <1>3, <1>5, <2>1
  <2>3. upload' \in Seq(UploadRecs') /\ Len(upload') = Len(upload)
    BY <1>3, <2>2
  <2> QED BY <1>2, <1>3, <1>5, <2>3 DEF UploadsMove
<1>7. \A t \in Backup!TaskIds : Row(t) \in BackupRecs /\ Backup!Reloaded(row[t]) \in BackupRecs
  <2> TAKE t \in Backup!TaskIds
  <2>1. row[t] \in BackupRecs
    BY TaskTyped
  <2>2. Backup!Requeued(row[t]) \in BackupRecs
    BY <2>1 DEF Backup!Requeued, BackupRecs, BackupStates, Backup!Active
  <2> QED BY <2>1, <2>2, SyncedTyped, ReloadedTyped
<1> HIDE DEF Row
<1>8. TasksMove
  BY <1>2, <1>7 DEF TasksMove, TaskMaps
<1>9. DriversMove
  <2>1. Backup!Idle \in DriverRecs /\ Backup!Idle.pc = "idle"
    BY EmptyTyped DEF BackupInv, Backup!Idle
  <2> QED BY <1>1, <2>1 DEF DriversMove, DriverMaps, Engaged
<1>10. NotesMove
  BY <1>1 DEF NotesMove, NotesTrue
<1>11. CallsMove
  BY <1>1 DEF CallsMove, CallRecs, NoticeRecs, NoticeTrue, Backup!NoNotice
<1> QED BY <1>1, <1>4, <1>6, <1>8, <1>9, <1>10, <1>11, RegisteredStays, RecordsRest, WorkStep
        DEF DriversMove

-----------------------------------------------------------------------------
(* The theorems.                                                           *)

\* At the start nothing is recorded and nothing runs.
LEMMA BackupStarts == Backup!Init => BackupInv
<1> SUFFICES ASSUME Backup!Init PROVE BackupInv
  OBVIOUS
<1>1. /\ source \in [Files -> 0..1] /\ remote = [f \in Files |-> {}]
      /\ cache = [f \in Files |-> 0] /\ recorded = [f \in Files |-> {}]
      /\ backup = [t \in Backup!TaskIds |-> Backup!Absent]
      /\ row = [t \in Backup!TaskIds |-> Backup!Absent]
      /\ upload = <<>> /\ notes = <<>> /\ caller = Backup!NoCall /\ consumer = Backup!NoNotice
      /\ driver = [d \in Backup!Drivers |-> Backup!Idle]
  BY DEF Backup!Init
<1>2. DiskTyped /\ WorkTyped /\ CallTyped
  BY <1>1 DEF DiskTyped, WorkTyped, CallTyped, CallRecs, NoticeRecs
<1>3. /\ Backup!NoFile \in FileRecs /\ Backup!NoFile.ver = 0
      /\ Backup!NoFile.st = "none" /\ Backup!NoFile.up = 0
  BY <1>1 DEF FileRecs, Backup!NoFile, Origins
<1>4. \A f \in Files : Fits(f, Backup!NoFile)
  BY <1>1, <1>3 DEF Fits
<1>5. [f \in Files |-> Backup!NoFile] \in FileMaps
  BY <1>3, <1>4 DEF FileMaps
<1>6. Backup!Absent \in BackupRecs
  BY <1>5 DEF Backup!Absent, BackupRecs, BackupStates
<1>7. Backup!Idle \in DriverRecs /\ Backup!Idle.pc = "idle"
  BY <1>5, BackupAssumption DEF Backup!Idle, DriverRecs, Stages
<1>8. TasksTyped /\ DriverTyped
  BY <1>1, <1>6, <1>7 DEF TasksTyped, TaskMaps, DriverTyped, DriverMaps, Engaged
<1>9. Registered /\ NotesTrue
  BY <1>1, <1>7 DEF Registered, NotesTrue
<1>10. NoticeTrue /\ Backup!RecordsAreTrue
  BY <1>1 DEF NoticeTrue, Backup!NoNotice, Backup!RecordsAreTrue
<1> QED BY <1>2, <1>8, <1>9, <1>10 DEF BackupInv, BackupTypes

\* Every step of a driver keeps the invariant.
LEMMA DriverSteps ==
    ASSUME BackupInv, NEW d \in Backup!Drivers, Backup!DriverStep(d) \/ Backup!Faults(d)
    PROVE  BackupInv'
<1>1. CASE Backup!Finds(d)
  BY <1>1, AdoptStep, MergesStep, ExtendsStep, PreparesStep, FillsStep, StartsStep, ResolvesStep
     DEF Backup!Finds
<1>2. CASE Backup!Uploads(d)
  BY <1>2, CreatesOneStep, RegistersStep, ReusesStep, FinishesStep, SettlesStep, DriverClearsStep
     DEF Backup!Uploads
<1>3. CASE Backup!Faults(d)
  BY <1>3, CannotCreateStep, CannotStartStep, StopsStep DEF Backup!Faults
<1> QED BY <1>1, <1>2, <1>3 DEF Backup!DriverStep

\* Every step keeps the invariant.
LEMMA BackupSteps ==
    ASSUME BackupInv, Backup!NextStep
    PROVE  BackupInv'
<1>1. CASE Backup!Trigger \/ Backup!TriggerMarks \/ Backup!LoopStep
  BY <1>1, ControlStep, LoopResumesStep, LoopScansStep, FoundStep DEF Backup!LoopStep
<1>2. CASE \E f \in Files : Backup!WatchMerges(f) \/ Backup!WatchMakes(f) \/ Backup!Edit(f)
  BY <1>2, FoundStep, EditStep
<1>3. CASE Backup!Manual \/ Backup!ManualStep \/ Backup!ManualScanFails
  <2>1. "manual" \in Backup!Drivers
    BY DEF Backup!Drivers
  <2> QED BY <1>3, <2>1, ManualStep, ManualBeginsStep, ManualScansStep, StopsStep,
             ManualReplacesStep, ManualSettlesStep DEF Backup!ManualStep
<1>4. CASE \E d \in Backup!Drivers : Backup!DriverStep(d) \/ Backup!Faults(d)
  BY <1>4, DriverSteps
<1>5. CASE \E u \in DOMAIN upload :
             Backup!Uploaded(u) \/ Backup!UploadFails(u) \/ Backup!UploadDeleted(u)
  BY <1>5, UploadedStep, UploadEndsStep
<1>6. CASE Backup!ConsumerStep
  BY <1>6, ReceivesStep, RecordsStep, ClearsStep DEF Backup!ConsumerStep
<1>7. CASE \E t \in Backup!TaskIds : \/ Backup!Pause(t) \/ Backup!Resume(t) \/ Backup!Cancel(t)
                                     \/ \E f \in Files : Backup!RetryFile(t, f)
  BY <1>7, PauseResumeStep, CancelStep, RetryStep
<1>8. CASE Backup!CallStep \/ Backup!Restart
  BY <1>8, CallStep, RestartStep DEF Backup!CallStep
<1> QED BY <1>1, <1>2, <1>3, <1>4, <1>5, <1>6, <1>7, <1>8 DEF Backup!NextStep

\* A step that leaves the backups alone.
LEMMA BackupRests ==
    ASSUME BackupInv, UNCHANGED backup_part
    PROVE  BackupInv'
<1>1. /\ source' = source /\ remote' = remote /\ recorded' = recorded /\ cache' = cache
      /\ backup' = backup /\ row' = row /\ upload' = upload /\ notes' = notes
      /\ driver' = driver /\ caller' = caller /\ consumer' = consumer
  BY DEF backup_part
<1> QED BY <1>1, TasksRest, DriversRest, QuietStep

\* The invariant holds in the behaviours that are about backups.
PartInv == part = "backup" => BackupInv

\* Every step of the pair keeps the invariant of the backups.
LEMMA PartKept == PartInv /\ [PartNext]_<<part, backup_part, folder_part>> => PartInv'
<1> SUFFICES ASSUME PartInv, [PartNext]_<<part, backup_part, folder_part>>, part' = "backup"
             PROVE  BackupInv'
  BY DEF PartInv
<1>1. CASE part = "backup" /\ Backup!NextStep /\ UNCHANGED <<part, folder_part>>
  BY <1>1, BackupSteps DEF PartInv
<1>2. CASE part = "folder" /\ Next /\ UNCHANGED <<part, backup_part>>
  BY <1>2
<1>3. CASE UNCHANGED <<part, backup_part, folder_part>>
  BY <1>3, BackupRests DEF PartInv
<1> QED BY <1>1, <1>2, <1>3 DEF PartNext

\* So it holds in every behaviour of the pair.
LEMMA PartHolds == PartSpec => []PartInv
<1>1. PartInit => PartInv
  BY BackupStarts DEF PartInit, PartInv
<1> QED BY <1>1, PartKept, PTL DEF PartSpec

\* The types of the backups, whatever fails, is cancelled, edited or restarted.
THEOREM BackupsTyped == PartSpec => [](part = "backup" => BackupTypes)
<1>1. PartInv => (part = "backup" => BackupTypes)
  BY DEF PartInv, BackupInv
<1> QED BY <1>1, PartHolds, PTL

\* A record says that a backup exists: the netdisk has the recorded version or a later one.
THEOREM RecordsHold == PartSpec => []RecordsTrue
<1>1. PartInv => RecordsTrue
  BY DEF PartInv, BackupInv, RecordsTrue
<1> QED BY <1>1, PartHolds, PTL

\* A file that a task or its row calls done is on the netdisk, in the version that the task
\* scanned or a later one, through twin drivers, late notifications and restarts.
THEOREM DoneHolds == PartSpec => []DoneHere
<1>1. ASSUME BackupInv PROVE Backup!DoneIsBackedUp
  <2>1. \A fs \in FileMaps : Backup!Backed(fs)
    BY DEF FileMaps, Fits, Has, Backup!Backed
  <2> QED BY <1>1, <2>1, TaskTyped DEF Backup!DoneIsBackedUp
<1>2. PartInv => DoneHere
  BY <1>1 DEF PartInv, DoneHere
<1> QED BY <1>2, PartHolds, PTL
=============================================================================
