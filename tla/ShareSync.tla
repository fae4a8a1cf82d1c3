------------------------------- MODULE ShareSync -------------------------------
(***************************************************************************)
(* One share-sync subscription with a local target                         *)
(* (backend/src/share_sync/manager.rs, executor.rs and persistence.rs).    *)
(* A run takes a snapshot of the share, saves it as a candidate, submits   *)
(* what differs from the baseline, waits for the downloads and, when all   *)
(* of it landed, promotes the candidate to be the baseline.                *)
(*                                                                         *)
(* Runs start from the scheduler's tick, from a manual trigger and from    *)
(* the start-up recovery, which takes an interrupted run over when its     *)
(* downloads are still there and runs anew when they are not.  The rows,   *)
(* the snapshots, the items and the downloads survive a restart; the       *)
(* in-flight flag and the actors do not.                                   *)
(*                                                                         *)
(* The files are top nodes of the share, each a work unit of its own; all  *)
(* the versions of a file have one size.  Netdisk legs, folders split in   *)
(* two, link failures, events and the deletion of the subscription are     *)
(* left out.                                                               *)
(***************************************************************************)
EXTENDS Integers, Sequences, FiniteSets

CONSTANTS Files,        \* the paths of the share
          Triggers,     \* manual triggers
          None,         \* no snapshot
          MaxRuns,      \* bound: runs
          MaxVersions,  \* bound: versions of a file
          MaxMishaps    \* bound: restarts, and failed requests, downloads and saves

Runs    == 1..MaxRuns
Actors  == Triggers \cup {"tick", "startup"}
NoRun   == 0
Content == [Files -> 0..MaxVersions]  \* the version of each file, 0 when it is absent

ASSUME ShareSyncAssumption ==
    /\ Files # {} /\ IsFiniteSet(Files) /\ {"tick", "startup"} \cap Triggers = {}
    /\ MaxRuns \in Nat \ {0} /\ MaxVersions \in Nat \ {0}
    /\ MaxMishaps \in Nat /\ None \notin Content

VARIABLES landed,     \* what the local directory holds
          row,        \* share_sync_runs: the status of each run
          candidate,  \* the snapshot saved for each run
          baseline,   \* the snapshot of no run
          item,       \* share_sync_run_items
          download,   \* the download task of each run and file
          captured,   \* the snapshot each run took: its downloads ask for these versions
          running,    \* the in-flight flag of the subscription
          at,         \* where each actor is
          leaf,       \* the work unit of each file in the run an actor executes
          mishaps

stored == <<row, candidate, baseline, item>>
vars == <<landed, stored, download, captured, running, at, leaf, mishaps>>

Idle       == [pc |-> "idle", run |-> NoRun]
Stage(a)   == at[a].pc
RunOf(a)   == at[a].run
Unfinished == {"active", "paused"}
Busy       == {"resolving", "sweeping", "scanning", "applying", "promoting", "resuming"}
Minted     == {r \in Runs : row[r] # "unused"}
NextRun    == Cardinality(Minted) + 1
CanRun     == NextRun \in Runs
NoLeaves   == [f \in Files |-> "none"]
NoTasks    == [r \in Runs |-> NoLeaves]

TypeOK ==
    /\ landed \in Content
    /\ row \in [Runs -> {"unused", "running", "interrupted", "completed", "errors", "failed"}]
    /\ candidate \in [Runs -> Content \cup {None}]
    /\ captured \in [Runs -> Content \cup {None}]
    /\ baseline \in Content \cup {None}
    /\ item \in [Runs -> [Files -> {"none", "flight", "completed", "failed", "skipped"}]]
    /\ download \in [Runs -> [Files -> {"none", "active", "paused", "done", "failed"}]]
    /\ running \in BOOLEAN
    /\ \A a \in Actors :
         \/ at[a] \in [pc : Busy \cup {"idle", "asking", "entering", "taking"},
                       run : Runs \cup {NoRun}]
         \/ at[a] \in [pc : {"recovering", "probing", "purging"}, run : {NoRun},
                       fresh : SUBSET Runs, stale : SUBSET Runs]
    /\ leaf \in [Actors -> [Files -> {"none", "todo", "again", "submitted", "waiting", "remove",
                                      "completed", "failed", "skipped"}]]
    /\ mishaps \in 0..MaxMishaps

Init ==
    /\ landed = [f \in Files |-> 0]
    /\ row = [r \in Runs |-> "unused"]
    /\ candidate = [r \in Runs |-> None] /\ captured = candidate /\ baseline = None
    /\ item = NoTasks /\ download = NoTasks
    /\ running = FALSE /\ at = [a \in Actors |-> Idle] /\ leaf = [a \in Actors |-> NoLeaves]
    /\ mishaps = 0

Goes(a, pc, r) == at' = [at EXCEPT ![a] = [pc |-> pc, run |-> r]]
Fault          == mishaps < MaxMishaps /\ mishaps' = mishaps + 1

-----------------------------------------------------------------------------
(* Entering a run                                                          *)

\* A bug: a refused run keeps its row running.
FailsSilently(r) == UNCHANGED <<row, candidate>>

\* fail_run, for the run an entry was given.
FailsRun(r) ==
    IF r = NoRun THEN UNCHANGED <<row, candidate>>
    ELSE /\ row' = [row EXCEPT ![r] = "failed"]
         /\ candidate' = [candidate EXCEPT ![r] = None]

StartsRow(r) == row' = [row EXCEPT ![r] = "running"]

Tick ==
    /\ at["tick"] = Idle /\ CanRun
    /\ Goes("tick", "entering", NoRun)
    /\ UNCHANGED <<landed, stored, download, captured, running, leaf, mishaps>>

\* trigger_one looks at the flag before it awaits the managers ...
Trigger(t) ==
    /\ at[t] = Idle /\ CanRun /\ ~running
    /\ Goes(t, "asking", NoRun)
    /\ UNCHANGED <<landed, stored, download, captured, running, leaf, mishaps>>

\* ... and creates the row of the run before the spawned execution takes it.
TriggerStarts(t) ==
    /\ Stage(t) = "asking"
    /\ IF CanRun THEN StartsRow(NextRun) /\ Goes(t, "entering", NextRun)
                 ELSE UNCHANGED row /\ Goes(t, "idle", NoRun)
    /\ UNCHANGED <<landed, candidate, baseline, item, download, captured, running, leaf,
                   mishaps>>

TriggerRefused(t) ==
    /\ Stage(t) = "asking" /\ Fault
    /\ Goes(t, "idle", NoRun)
    /\ UNCHANGED <<landed, stored, download, captured, running, leaf>>

\* A bug: the flag is only read, and set by the next step.
EnterUnchecked(a) ==
    /\ Stage(a) = "entering"
    /\ running' = TRUE /\ Goes(a, "resolving", RunOf(a)) /\ UNCHANGED <<row, candidate>>
    /\ UNCHANGED <<landed, baseline, item, download, captured, leaf, mishaps>>

\* execute_one_with_run_id: one insertion both tests and sets the flag.
Enter(a) ==
    /\ Stage(a) = "entering"
    /\ IF running
       THEN FailsRun(RunOf(a)) /\ Goes(a, "idle", NoRun) /\ UNCHANGED running
       ELSE running' = TRUE /\ Goes(a, "resolving", RunOf(a)) /\ UNCHANGED <<row, candidate>>
    /\ UNCHANGED <<landed, baseline, item, download, captured, leaf, mishaps>>

\* A bug: the flag is cleared by the scheduler only.
LeavesHeld(a) == Goes(a, "idle", NoRun) /\ running' = (a # "tick")

\* Leaving drops the guard of the flag.
Leaves(a) == Goes(a, "idle", NoRun) /\ running' = FALSE

Resolve(a) ==
    /\ Stage(a) = "resolving"
    /\ IF RunOf(a) # NoRun THEN Goes(a, "sweeping", RunOf(a)) /\ UNCHANGED <<row, running>>
       ELSE IF CanRun THEN StartsRow(NextRun) /\ Goes(a, "sweeping", NextRun) /\ UNCHANGED running
       ELSE Leaves(a) /\ UNCHANGED row
    /\ UNCHANGED <<landed, candidate, baseline, item, download, captured, leaf, mishaps>>

\* The owner is not logged in, or its transfer manager is not ready.
ResolveFails(a) ==
    /\ Stage(a) = "resolving" /\ Fault
    /\ FailsRun(RunOf(a)) /\ Leaves(a)
    /\ UNCHANGED <<landed, baseline, item, download, captured, leaf>>

-----------------------------------------------------------------------------
(* Executing a run                                                         *)

HasUnfinished == \E r \in Runs, f \in Files : download[r][f] \in Unfinished

\* A bug: the downloads an earlier run left are not swept.
Swept(tasks) == tasks

\* sweep_residual_subtasks: everything goes when anything is unfinished.
SweptAll(tasks) == IF HasUnfinished THEN NoTasks ELSE tasks

Sweep(a) ==
    /\ Stage(a) = "sweeping"
    /\ download' = SweptAll(download)
    /\ Goes(a, "scanning", RunOf(a))
    /\ UNCHANGED <<landed, stored, captured, running, leaf, mishaps>>

Known(f) == IF baseline = None THEN 0 ELSE baseline[f]

\* diff_snapshots, and the files a local check finds missing (the sizes agree otherwise).
Differs(share, f) == share[f] # Known(f)
Missing(share, f) == share[f] # 0 /\ landed[f] = 0
WorkOf(share, f)  ==
    CASE Differs(share, f) /\ share[f] = 0          -> "remove"
      [] share[f] # 0 /\ (Differs(share, f) \/ Missing(share, f)) -> "todo"
      [] OTHER                                      -> "none"

\* What the share holds now is captured, saved (a failure only warns) and compared.
Scan(a) ==
    /\ Stage(a) = "scanning"
    /\ \E share \in Content :
         /\ \/ candidate' = [candidate EXCEPT ![RunOf(a)] = share] /\ UNCHANGED mishaps
            \/ Fault /\ UNCHANGED candidate
         /\ captured' = [captured EXCEPT ![RunOf(a)] = share]
         /\ leaf' = [leaf EXCEPT ![a] = [f \in Files |-> WorkOf(share, f)]]
    /\ Goes(a, "applying", RunOf(a))
    /\ UNCHANGED <<landed, row, baseline, item, download, running>>

ScanFails(a) ==
    /\ Stage(a) = "scanning" /\ Fault
    /\ FailsRun(RunOf(a)) /\ Leaves(a)
    /\ UNCHANGED <<landed, baseline, item, download, captured, leaf>>

Unit(a, f, from) == Stage(a) = "applying" /\ leaf[a][f] \in from
Moves(a, f, to)  == leaf' = [leaf EXCEPT ![a][f] = to]
Notes(a, f, st)  == item' = [item EXCEPT ![RunOf(a)][f] = st]
Task(a, f, st)   == download' = [download EXCEPT ![RunOf(a)][f] = st]

\* transfer_node_set: a file whose size is on disk is complete, whatever its version.
SkipExisting(a, f) ==
    /\ Unit(a, f, {"todo"}) /\ landed[f] # 0
    /\ Moves(a, f, "completed") /\ Notes(a, f, "completed")
    /\ UNCHANGED <<landed, row, candidate, baseline, download, captured, running, at, mishaps>>

Submit(a, f) ==
    /\ Unit(a, f, {"todo", "again"}) /\ (leaf[a][f] = "todo" => landed[f] = 0)
    /\ Task(a, f, "active") /\ Moves(a, f, "submitted")
    /\ UNCHANGED <<landed, stored, captured, running, at, mishaps>>

\* The task id is written down before the wait: a restart finds the run by it.
Record(a, f) ==
    /\ Unit(a, f, {"submitted"})
    /\ Notes(a, f, "flight") /\ Moves(a, f, "waiting")
    /\ UNCHANGED <<landed, row, candidate, baseline, download, captured, running, at, mishaps>>

WaitEnds(a, f) ==
    /\ Unit(a, f, {"waiting"}) /\ download[RunOf(a)][f] = "done"
    /\ Moves(a, f, "completed") /\ Notes(a, f, "completed")
    /\ UNCHANGED <<landed, row, candidate, baseline, download, captured, running, at, mishaps>>

\* The task failed or is gone.
Broken(a, f) == download[RunOf(a)][f] \in {"failed", "none"}

Discards(a, f) == Task(a, f, "none")

\* A temporary error, or the idle limit: the task is discarded and submitted again.
Retry(a, f) ==
    /\ Unit(a, f, {"waiting"}) /\ download[RunOf(a)][f] # "done" /\ Fault
    /\ Discards(a, f) /\ Moves(a, f, "again")
    /\ UNCHANGED <<landed, stored, captured, running, at>>

\* The attempts are used up: the file may be there all the same; a full disk, a full
\* quota or a temporary error skips it, any other failure fails it.
GivesUp(a, f, to) ==
    /\ Unit(a, f, {"waiting", "todo", "again"})
    /\ IF leaf[a][f] = "waiting" /\ Broken(a, f) THEN UNCHANGED mishaps ELSE Fault
    /\ Discards(a, f)
    /\ to \in IF landed[f] # 0 THEN {"completed"} ELSE {"failed", "skipped"}
    /\ Moves(a, f, to) /\ Notes(a, f, to)
    /\ UNCHANGED <<landed, row, candidate, baseline, captured, running, at>>

\* process_removed, after the files that are fetched; delete_missing is on.
Remove(a, f) ==
    /\ Unit(a, f, {"remove"})
    /\ \A g \in Files : leaf[a][g] \notin {"todo", "again", "submitted", "waiting"}
    /\ \/ landed' = [landed EXCEPT ![f] = 0] /\ Moves(a, f, "completed") /\ Notes(a, f, "completed")
          /\ UNCHANGED mishaps
       \/ Moves(a, f, "failed") /\ Notes(a, f, "failed") /\ Fault /\ UNCHANGED landed
    /\ UNCHANGED <<row, candidate, baseline, download, captured, running, at>>

Has(a, st) == \E f \in Files : leaf[a][f] = st

\* finish_run: a skipped file does not spoil the status.
Finish(a) ==
    /\ Stage(a) = "applying"
    /\ \A f \in Files : leaf[a][f] \in {"none", "completed", "failed", "skipped"}
    /\ row' = [row EXCEPT ![RunOf(a)] = IF Has(a, "failed") THEN "errors" ELSE "completed"]
    /\ Goes(a, "promoting", RunOf(a))
    /\ UNCHANGED <<landed, candidate, baseline, item, download, captured, running, leaf, mishaps>>

\* A bug: the status alone decides.
ByStatus(a) == row[RunOf(a)] = "completed"

Advances(a) == row[RunOf(a)] = "completed" /\ ~Has(a, "skipped")

\* promote_snapshot replaces the baseline by the candidate in one transaction.
Promotes(r) ==
    /\ baseline' = IF candidate[r] = None THEN baseline ELSE candidate[r]
    /\ candidate' = [candidate EXCEPT ![r] = None]

Drops(r) == candidate' = [candidate EXCEPT ![r] = None] /\ UNCHANGED baseline

Promote(a) ==
    /\ Stage(a) = "promoting"
    /\ IF Advances(a) THEN Promotes(RunOf(a)) ELSE Drops(RunOf(a))
    /\ Leaves(a) /\ leaf' = [leaf EXCEPT ![a] = NoLeaves]
    /\ UNCHANGED <<landed, row, item, download, captured, mishaps>>

-----------------------------------------------------------------------------
(* Restart and recovery                                                    *)

\* A bug: only the runs marked by this start are looked at.
OlderNone(r) == FALSE

Older(r) == row[r] = "interrupted"

Restored(st) == CASE st = "active" -> "paused" [] st = "done" -> "none" [] OTHER -> st

\* new(): running rows become interrupted; the downloads come back paused.
Restart ==
    /\ Fault
    /\ row' = [r \in Runs |-> IF row[r] = "running" THEN "interrupted" ELSE row[r]]
    /\ download' = [r \in Runs |-> [f \in Files |-> Restored(download[r][f])]]
    /\ running' = FALSE /\ leaf' = [a \in Actors |-> NoLeaves]
    /\ LET fresh == {r \in Runs : row[r] = "running"}
           stale == {r \in Runs : Older(r)}
       IN at' = [a \in Actors |->
                   IF a = "startup" /\ fresh \cup stale # {}
                   THEN [pc |-> "recovering", run |-> NoRun, fresh |-> fresh, stale |-> stale]
                   ELSE Idle]
    /\ UNCHANGED <<landed, candidate, baseline, item, captured>>

Recovers(pc) == at' = [at EXCEPT !["startup"].pc = pc]

\* The account may stay away for two minutes; a run in flight is left alone.
Recover ==
    /\ Stage("startup") = "recovering"
    /\ \/ ~running /\ Recovers("probing") /\ UNCHANGED mishaps
       \/ running /\ Goes("startup", "idle", NoRun) /\ UNCHANGED mishaps
       \/ Fault /\ Goes("startup", "idle", NoRun)
    /\ UNCHANGED <<landed, stored, download, captured, running, leaf>>

\* probe_resumable_run: a candidate, an item in flight and an unfinished download.
Resumable(r) ==
    candidate[r] # None /\ (\E f \in Files : item[r][f] = "flight") /\ HasUnfinished

Newest(S) == CHOOSE r \in S : \A q \in S : q <= r

Probe ==
    /\ Stage("startup") = "probing"
    /\ LET fresh == {r \in at["startup"].fresh : Resumable(r)}
           stale == {r \in at["startup"].stale : Resumable(r)}
       IN \/ \E r \in fresh : Goes("startup", "taking", r) /\ UNCHANGED candidate
          \/ /\ fresh = {} /\ stale # {}
             /\ Goes("startup", "taking", Newest(stale)) /\ UNCHANGED candidate
          \/ /\ fresh \cup stale = {} /\ at["startup"].fresh = {}
             /\ Goes("startup", "idle", NoRun) /\ UNCHANGED candidate
          \/ /\ fresh \cup stale = {} /\ at["startup"].fresh # {}
             /\ candidate' = [r \in Runs |->
                                IF r \in at["startup"].fresh THEN None ELSE candidate[r]]
             /\ Recovers("purging")
    /\ UNCHANGED <<landed, row, baseline, item, download, captured, running, leaf, mishaps>>

\* delete_tasks_for_backup_config, then a run from the beginning.
Purge ==
    /\ Stage("startup") = "purging"
    /\ download' = NoTasks
    /\ Goes("startup", "entering", NoRun)
    /\ UNCHANGED <<landed, stored, captured, running, leaf, mishaps>>

MarkRunning(r) == row' = [row EXCEPT ![r] = IF @ = "interrupted" THEN "running" ELSE @]

\* resume_run_in_place takes the flag.  It gives up when the flag is up already, or
\* when its account has no transfer manager: then the flag is down again at once.
TakeOver ==
    /\ Stage("startup") = "taking"
    /\ \/ /\ running
          /\ Goes("startup", "idle", NoRun) /\ UNCHANGED <<row, running, mishaps>>
       \/ /\ ~running /\ Fault
          /\ Goes("startup", "idle", NoRun) /\ UNCHANGED <<row, running>>
       \/ /\ ~running /\ running' = TRUE
          /\ MarkRunning(RunOf("startup"))
          /\ Goes("startup", "resuming", RunOf("startup")) /\ UNCHANGED mishaps
    /\ UNCHANGED <<landed, candidate, baseline, item, download, captured, leaf>>

\* Both waits wake the paused downloads of the subscription.
Wake(a) ==
    /\ Stage(a) = "resuming" \/ \E f \in Files : Unit(a, f, {"waiting"})
    /\ \E r \in Runs, f \in Files : download[r][f] = "paused"
    /\ download' = [r \in Runs |-> [f \in Files |->
                      IF download[r][f] = "paused" THEN "active" ELSE download[r][f]]]
    /\ UNCHANGED <<landed, stored, captured, running, at, leaf, mishaps>>

\* finalize_resumed_run: one verdict for all the items in flight.
Settled(r, st) == item' = [item EXCEPT ![r] = [f \in Files |-> IF @[f] = "flight" THEN st ELSE @[f]]]

FinalizeResumed ==
    LET r     == RunOf("startup")
        wrong == \E q \in Runs, f \in Files : download[q][f] = "failed"
        bad   == wrong \/ \E f \in Files : item[r][f] = "failed"
    IN
    /\ Stage("startup") = "resuming"
    /\ HasUnfinished => Fault   \* the hard limit
    /\ ~HasUnfinished => UNCHANGED mishaps
    /\ Settled(r, IF wrong THEN "failed" ELSE "completed")
    /\ row' = [row EXCEPT ![r] = IF bad THEN "errors" ELSE "completed"]
    /\ IF bad THEN Drops(r) ELSE Promotes(r)
    /\ Leaves("startup")
    /\ UNCHANGED <<landed, download, captured, leaf>>

-----------------------------------------------------------------------------
(* The download manager                                                    *)

DownloadEnds(r, f) ==
    /\ download[r][f] = "active"
    /\ \/ /\ download' = [download EXCEPT ![r][f] = "done"]
          /\ landed' = [landed EXCEPT ![f] = captured[r][f]] /\ UNCHANGED mishaps
       \/ /\ download' = [download EXCEPT ![r][f] = "failed"]
          /\ Fault /\ UNCHANGED landed
    /\ UNCHANGED <<stored, captured, running, at, leaf>>

-----------------------------------------------------------------------------

Starts(a)  == Enter(a) \/ Resolve(a) \/ ResolveFails(a) \/ Sweep(a) \/ Scan(a) \/ ScanFails(a)
Applies(a) ==
    \/ \E f \in Files : SkipExisting(a, f) \/ Submit(a, f) \/ Record(a, f) \/ WaitEnds(a, f)
                        \/ Retry(a, f) \/ Remove(a, f)
                        \/ \E to \in {"completed", "failed", "skipped"} : GivesUp(a, f, to)
    \/ Wake(a) \/ Finish(a) \/ Promote(a)
Recovery   == Recover \/ Probe \/ Purge \/ TakeOver \/ FinalizeResumed
Downloads  == \E r \in Runs, f \in Files : DownloadEnds(r, f)

Next ==
    \/ Tick \/ Restart \/ Recovery \/ Downloads
    \/ \E t \in Triggers : Trigger(t) \/ TriggerStarts(t) \/ TriggerRefused(t)
    \/ \E a \in Actors : Starts(a) \/ Applies(a)

Spec == Init /\ [][Next]_vars

\* The runtime polls what it has spawned, and every download ends; ticks, triggers
\* and restarts owe nothing.
Fairness ==
    /\ WF_vars(Recovery) /\ WF_vars(Downloads)
    /\ \A t \in Triggers : WF_vars(TriggerStarts(t))
    /\ \A a \in Actors : WF_vars(Starts(a) \/ Applies(a))

FairSpec == Spec /\ Fairness

-----------------------------------------------------------------------------
(* Properties                                                              *)

\* The in-flight flag is up exactly while one actor drives a run: a tick, a trigger and a
\* take-over that all saw it down never run the subscription twice.
OneDriver ==
    Cardinality({a \in Actors : Stage(a) \in Busy}) = IF running THEN 1 ELSE 0

\* A row that says running has an actor that will close it: the run a trigger created and
\* the flag refused, the failed scan and the resumed run included.
NoOrphanRow ==
    \A r \in Runs : row[r] = "running" => \E a \in Actors : RunOf(a) = r

\* No file has two unfinished downloads, through retries, new runs and restarts.
NoTwins ==
    \A f \in Files : Cardinality({r \in Runs : download[r][f] \in Unfinished}) <= 1

\* A run that was not interrupted makes its snapshot the baseline only when every file of
\* it is in the directory: nothing failed, skipped or removed is taken for synchronised.
\* Which version is there is not told: a file whose size agrees counts as fetched.
PromotesWhatLanded ==
    [][\A a \in Actors :
         Stage(a) = "promoting" /\ baseline' # baseline =>
             \A f \in Files : baseline'[f] # 0 => landed[f] # 0]_vars

\* A start that settles without a take-over leaves no interrupted run that could be taken
\* over, however often the process was killed before.
NoneLeftBehind ==
    [][(Restart \/ Probe) /\ at'["startup"] = Idle =>
         ~\E r \in Runs : row'[r] = "interrupted" /\ Resumable(r)']_vars

\* The subscription does not stay in flight for ever: every wait, refusal and take-over
\* comes to an end and gives the flag back, or no tick could run the subscription again.
FlagIsFreed == running ~> ~running

\* What latest_snapshot promises: a snapshot becomes the baseline only once it landed, or the
\* next difference would miss what did not (this ignores how the run came to its end).
BaselineLanded ==
    [][baseline' # baseline => \A f \in Files : baseline'[f] # 0 => landed[f] = baseline'[f]]_vars

\* The recovery deletes no download of a run that is being executed.
RecoverySparesLiveRun ==
    [][Purge => \A a \in Actors : Stage(a) = "applying" =>
                  download'[RunOf(a)] = download[RunOf(a)]]_vars
=============================================================================
