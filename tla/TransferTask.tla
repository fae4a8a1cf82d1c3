----------------------------- MODULE TransferTask -----------------------------
(***************************************************************************)
(* One transfer task (backend/src/transfer/manager.rs): the items of a     *)
(* share are saved to the own netdisk in batches, batches over the size    *)
(* limit are split and expanded, then the saved items are downloaded and a *)
(* watcher concludes the task.  A direct task saves to a temporary         *)
(* directory, which is deleted once it is no longer needed.                *)
(*                                                                         *)
(* The execution, the watcher and the user's cancel or removal interleave  *)
(* at their awaits; the program may stop and restart between any two       *)
(* steps.  Requests fail at will.  Retries of one request, the choice of   *)
(* names and paths, quota limits of requests and events are left out; so   *)
(* is recover_from_conflict, which no error of the batches reaches.        *)
(* What a listing leaves out is lost without a word in the code; the model *)
(* keeps it in cut, so that the properties can speak of everything else.   *)
(***************************************************************************)
EXTENDS Integers, Sequences, FiniteSets

CONSTANTS Tree,         \* the children of each node of the share; {} of a file
          Batches,      \* the selected nodes, grouped as they are submitted
          Kinds,        \* the kinds of task: [auto, direct, sync, ids]
          AutoCleanup, CleanupOnFailure,  \* share_direct_download.*
          MaxDepth,     \* MAX_DEPTH of a split
          MaxTries,     \* restarts of failed downloads of a share-sync task
          MaxMishaps,   \* bound: restarts, timeouts and calls of the user
          MaxWhims      \* bound: pauses and resumes of downloads by the user

Nodes    == DOMAIN Tree
Selected == UNION {Batches[i] : i \in DOMAIN Batches}

ASSUME TransferAssumption ==
    /\ IsFiniteSet(Nodes) /\ \A n \in Nodes : Tree[n] \subseteq Nodes \ {n}
    /\ Batches \in Seq((SUBSET Nodes) \ {{}})
    /\ Kinds \subseteq [auto : BOOLEAN, direct : BOOLEAN, sync : BOOLEAN, ids : BOOLEAN]
    /\ {AutoCleanup, CleanupOnFailure} \subseteq BOOLEAN
    /\ {MaxDepth, MaxTries, MaxMishaps, MaxWhims} \subseteq Nat

VARIABLES kind,      \* what was asked for; ids: the items are given by their ids alone
          task,      \* the TransferTask and its cancellation token
          meta,      \* the metadata file
          temp,      \* the temporary directory
          saved,     \* the nodes the results of the batches name
          cut,       \* history: the nodes a listing has left out
          exec,      \* execute_task
          watch,     \* start_download_status_watcher, or the cleanup of a restored task
          user,      \* one call of cancel_task, remove_task or discard_task
          download,  \* the download task of each node
          mishaps, whims

bounds == <<mishaps, whims>>
vars   == <<kind, task, meta, temp, saved, cut, exec, watch, user, download, bounds>>

Final    == {"transferred", "transfer_failed", "download_failed", "completed"}  \* is_terminal
Statuses == Final \cup {"queued", "checking_share", "transferring", "downloading", "cleaning"}
NoExec   == [pc |-> "off", picked |-> {}, next |-> 1, stack |-> <<>>, got |-> {}, bad |-> FALSE,
             won |-> FALSE, lost |-> FALSE, todo |-> {}, made |-> {}]
NoWatch  == [pc |-> "off", tries |-> 0, verdict |-> "none"]
NoCall   == [pc |-> "idle", seen |-> "none"]
Gone     == [kept |-> FALSE, complete |-> FALSE, status |-> "none", ids |-> {}, warned |-> FALSE]

TypeOK ==
    /\ kind \in Kinds
    /\ task \in [listed : BOOLEAN, status : Statuses, token : BOOLEAN, warned : BOOLEAN,
                 ids : SUBSET Nodes, timed : BOOLEAN]
    /\ meta \in [kept : BOOLEAN, complete : BOOLEAN, status : Statuses \cup {"none"},
                 ids : SUBSET Nodes, warned : BOOLEAN]
    /\ temp \in {"none", "made", "deleted"} /\ saved \cup cut \subseteq Nodes
    /\ exec.pc \in {"off", "queued", "listing", "preparing", "batches", "submitting",
                    "splitting", "merging", "rejecting", "marking", "creating",
                    "downloading", "storing", "watching", "persisting", "failing", "cleaning"}
    /\ exec.next \in 1..Len(Batches) + 1 /\ exec.picked \cup exec.got \subseteq Nodes
    /\ exec.stack \in Seq([items : SUBSET Nodes, depth : 0..MaxDepth])
    /\ {exec.bad, exec.won, exec.lost} \subseteq BOOLEAN
    /\ exec.todo \cup exec.made \subseteq Nodes
    /\ watch \in [pc : {"off", "polling", "judged", "cleaning", "giving_up", "recleaning"},
                  tries : 0..MaxTries, verdict : Statuses \cup {"none"}]
    /\ user \in [pc : {"idle", "cancelling", "stopping", "cleaning", "purging"},
                 seen : Statuses \cup {"none"}]
    /\ download \in [Nodes -> {"none", "running", "paused", "failed", "done", "gone"}]
    /\ mishaps \in 0..MaxMishaps /\ whims \in 0..MaxWhims

\* create_task inserts and registers the task before it spawns the execution.
Init ==
    /\ kind \in Kinds
    /\ task = [listed |-> TRUE, status |-> "queued", token |-> FALSE, warned |-> FALSE,
               ids |-> {}, timed |-> FALSE]
    /\ meta = [Gone EXCEPT !.kept = TRUE, !.status = "checking_share"]
    /\ temp = "none" /\ saved = {} /\ cut = {}
    /\ exec = [NoExec EXCEPT !.pc = "queued"] /\ watch = NoWatch /\ user = NoCall
    /\ download = [n \in Nodes |-> "none"]
    /\ mishaps = 0 /\ whims = 0

Mishap == mishaps < MaxMishaps /\ mishaps' = mishaps + 1 /\ UNCHANGED whims
Whim   == whims < MaxWhims /\ whims' = whims + 1 /\ UNCHANGED mishaps

Goes(pc)      == exec' = [exec EXCEPT !.pc = pc]
Marks(status) == task' = [task EXCEPT !.status = status]

\* update_metadata: a file that is gone stays gone.
Stores(status) == meta' = IF meta.kept THEN [meta EXCEPT !.status = status] ELSE meta
Archives(status) ==
    meta' = IF meta.kept THEN [meta EXCEPT !.status = status, !.complete = TRUE] ELSE meta

\* cleanup_temp_dir_internal: the delete may time out or be refused.
Cleans == temp' \in {temp, IF temp = "made" THEN "deleted" ELSE temp}

-----------------------------------------------------------------------------
(* The execution: save                                                     *)

execOnly == <<kind, saved, cut, watch, user, download, bounds>>

\* The status is written before the token is looked at.
Check ==
    /\ exec.pc = "queued"
    /\ IF task.listed THEN Marks("checking_share") /\ Goes(IF task.token THEN "off" ELSE "listing")
                      ELSE Goes("failing") /\ UNCHANGED task
    /\ UNCHANGED <<execOnly, meta, temp>>

\* Items given by their ids alone are looked for in the first page of the share: the
\* others are dropped without a word.
List ==
    /\ exec.pc = "listing"
    /\ \/ /\ \E missed \in (IF kind.ids THEN SUBSET Selected ELSE {{}}) :
               /\ cut' = cut \cup missed
               /\ exec' = [exec EXCEPT !.picked = Selected \ missed,
                                       !.pc = IF task.token THEN "off" ELSE "preparing"]
          /\ Marks("transferring") /\ Stores("transferring")
       \/ Goes("failing") /\ UNCHANGED <<task, meta, cut>>
    /\ UNCHANGED <<kind, temp, saved, watch, user, download, bounds>>

MakeDir ==
    /\ exec.pc = "preparing"
    /\ \/ temp' = (IF kind.direct THEN "made" ELSE temp) /\ Goes("batches")
       \/ kind.direct /\ Goes("failing") /\ UNCHANGED temp
    /\ UNCHANGED <<execOnly, task, meta>>

NextBatch ==
    /\ exec.pc = "batches"
    /\ Goes(IF task.token \/ exec.next > Len(Batches) THEN "merging" ELSE "submitting")
    /\ UNCHANGED <<execOnly, task, meta, temp>>

\* Missing directories are made again, so that a batch may land in a deleted one.
Lands == temp' = IF kind.direct THEN "made" ELSE temp

\* The result of one batch: the nodes it names and whether some were left behind.
BatchEnds(nodes, bad) ==
    /\ saved' = saved \cup nodes
    /\ exec' = [exec EXCEPT !.pc = "batches", !.next = @ + 1, !.stack = <<>>, !.got = {},
                            !.bad = FALSE, !.won = @ \/ nodes # {}, !.lost = @ \/ bad]

\* The groups are made of the items that were found: there is none of no items.
Batch == Batches[exec.next] \cap exec.picked

SubmitBatch ==
    /\ exec.pc = "submitting"
    /\ \/ Batch = {} /\ BatchEnds({}, FALSE) /\ UNCHANGED temp
       \/ /\ Batch # {}
          /\ \/ BatchEnds(Batch, FALSE) /\ Lands
             \/ BatchEnds({}, TRUE) /\ UNCHANGED temp
             \/ /\ exec' = [exec EXCEPT !.pc = "splitting",
                                        !.stack = <<[items |-> Batch, depth |-> 0]>>]
                /\ UNCHANGED <<saved, temp>>
    /\ UNCHANGED <<kind, task, meta, cut, watch, user, download, bounds>>

-----------------------------------------------------------------------------
(* The execution: split a batch the netdisk finds too large                *)

Rest  == SubSeq(exec.stack, 1, Len(exec.stack) - 1)
Piece == exec.stack[Len(exec.stack)]
Splits(stack) == exec' = [exec EXCEPT !.stack = stack]
GivesUp       == exec' = [exec EXCEPT !.stack = Rest, !.bad = TRUE] /\ UNCHANGED cut

\* A bug: the pieces a full netdisk leaves are abandoned without a note.
NetdiskFullSilently == exec' = [exec EXCEPT !.stack = <<>>] /\ UNCHANGED cut

\* No space: the remaining pieces are abandoned.
NetdiskFull == exec' = [exec EXCEPT !.stack = <<>>, !.bad = TRUE] /\ UNCHANGED cut

\* Too large: halve the items, or go down into the one directory.  Its listing stops at a
\* number of pages (MAX_PAGES), which is only logged: it may be any part of the children.
TooLarge ==
    LET items == Piece.items
        Sub(s) == [items |-> s, depth |-> Piece.depth + 1]
    IN \/ Piece.depth = MaxDepth /\ GivesUp
       \/ /\ Piece.depth < MaxDepth /\ Cardinality(items) >= 2
          /\ \E left \in SUBSET items :
               /\ Cardinality(left) = Cardinality(items) \div 2
               /\ Splits(Rest \o <<Sub(items \ left), Sub(left)>>)
          /\ UNCHANGED cut
       \/ /\ Piece.depth < MaxDepth /\ Cardinality(items) = 1
          /\ LET only == CHOOSE n \in items : TRUE
             IN \/ \E part \in (SUBSET Tree[only]) \ {{}} :
                     /\ Splits(Append(Rest, Sub(part)))
                     /\ cut' = cut \cup (Tree[only] \ part)
                \/ GivesUp

SplitBatch ==
    /\ exec.pc = "splitting" /\ exec.stack # <<>>
    /\ \/ /\ exec' = [exec EXCEPT !.stack = Rest, !.got = @ \cup Piece.items]
          /\ Lands /\ UNCHANGED <<saved, cut>>
       \/ (TooLarge \/ GivesUp \/ NetdiskFull) /\ UNCHANGED <<saved, temp>>
       \/ BatchEnds({}, TRUE) /\ UNCHANGED <<temp, cut>>  \* the request itself failed
    /\ UNCHANGED <<kind, task, meta, watch, user, download, bounds>>

SplitEnds ==
    /\ exec.pc = "splitting" /\ exec.stack = <<>>
    /\ BatchEnds(exec.got, exec.bad)
    /\ UNCHANGED <<kind, task, meta, temp, cut, watch, user, download, bounds>>

-----------------------------------------------------------------------------
(* The execution: conclude, or start the downloads                         *)

\* merge_batch_results: one batch that landed makes the transfer a success.
Merge ==
    /\ exec.pc = "merging"
    /\ IF task.token \/ ~exec.won
       THEN Goes("rejecting") /\ UNCHANGED <<task, meta>>
       ELSE /\ Goes(IF kind.auto THEN "creating" ELSE "marking")
            /\ task' = [task EXCEPT !.warned = exec.lost]
            /\ meta' = IF meta.kept THEN [meta EXCEPT !.warned = exec.lost] ELSE meta
    /\ UNCHANGED <<execOnly, temp>>

Reject ==
    /\ exec.pc = "rejecting"
    /\ Marks("transfer_failed") /\ Stores("transfer_failed")
    /\ Goes(IF kind.direct THEN "cleaning" ELSE "off")
    /\ UNCHANGED <<execOnly, temp>>

RejectCleans ==
    /\ exec.pc = "cleaning"
    /\ Cleans /\ Goes("off")
    /\ UNCHANGED <<execOnly, task, meta>>

Mark ==
    /\ exec.pc = "marking"
    /\ Marks("transferred") /\ Archives("transferred") /\ Goes("off")
    /\ UNCHANGED <<execOnly, temp>>

\* Without a directory to ask for, the task waits as transferred, and the request for one
\* takes the place of its warning.  The directory may not be made.
StartDownloads ==
    /\ exec.pc = "creating"
    /\ \/ Goes("failing") /\ UNCHANGED task
       \/ /\ task.listed
          /\ \/ /\ task' = [task EXCEPT !.status = "transferred", !.warned = FALSE]
                /\ Goes("persisting")
             \/ exec' = [exec EXCEPT !.pc = "downloading", !.todo = saved] /\ UNCHANGED task
    /\ UNCHANGED <<execOnly, meta, temp>>

\* The token is never looked at here.  A share-sync download may be skipped.
CreateDownload ==
    /\ exec.pc = "downloading"
    /\ \E n \in exec.todo :
         \/ /\ exec' = [exec EXCEPT !.todo = @ \ {n}, !.made = @ \cup {n}]
            /\ download' = [download EXCEPT ![n] = "running"]
         \/ exec' = [exec EXCEPT !.todo = @ \ {n}] /\ UNCHANGED download
    /\ UNCHANGED <<kind, task, meta, temp, saved, cut, watch, user, bounds>>

MarkDownloading ==
    /\ exec.pc = "downloading" /\ exec.todo = {}
    /\ IF exec.made = {}
       THEN Marks("transferred") /\ Archives("completed") /\ Goes("persisting")
       ELSE /\ task' = [task EXCEPT !.status = "downloading", !.ids = exec.made, !.timed = TRUE]
            /\ Goes("storing") /\ UNCHANGED meta
    /\ UNCHANGED <<execOnly, temp>>

\* The status and the ids are stored under two locks.
StoreStatus ==
    /\ exec.pc = "storing"
    /\ Stores("downloading") /\ Goes("watching")
    /\ UNCHANGED <<execOnly, task, temp>>

StartWatcher ==
    /\ exec.pc = "watching"
    /\ meta' = IF meta.kept THEN [meta EXCEPT !.ids = exec.made] ELSE meta
    /\ watch' = [NoWatch EXCEPT !.pc = "polling"] /\ Goes("persisting")
    /\ UNCHANGED <<kind, task, temp, saved, cut, user, download, bounds>>

\* The transfer is stored as completed as soon as its downloads have started.
Persist ==
    /\ exec.pc = "persisting"
    /\ Archives("completed") /\ Goes("off")
    /\ UNCHANGED <<execOnly, task, temp>>

\* The error branch of spawn_task_execution.
Fail ==
    /\ exec.pc = "failing"
    /\ IF task.listed THEN Marks("transfer_failed") ELSE UNCHANGED task
    /\ Stores("transfer_failed") /\ Goes("off")
    /\ UNCHANGED <<execOnly, temp>>

Execute ==
    \/ Check \/ List \/ MakeDir \/ NextBatch \/ SubmitBatch \/ SplitBatch \/ SplitEnds \/ Merge
    \/ Reject \/ RejectCleans \/ Mark \/ StartDownloads \/ CreateDownload \/ MarkDownloading
    \/ StoreStatus \/ StartWatcher \/ Persist \/ Fail

-----------------------------------------------------------------------------
(* The watcher                                                             *)

watchOnly == <<kind, saved, cut, exec, user>>
WatcherGoes(pc) == watch' = [watch EXCEPT !.pc = pc]

With(statuses) == {n \in task.ids : download[n] \in statuses}

\* aggregate_download_status; "none" is to keep on polling.
Verdict ==
    IF With({"running"}) # {} \/ With({"paused"}) = task.ids THEN "none"
    ELSE IF With({"done"}) = task.ids THEN "completed"
    ELSE IF With({"gone"}) = task.ids THEN "transferred"
    ELSE IF With({"failed"}) # {} THEN "download_failed"
    ELSE IF With({"done"}) # {} THEN "completed" ELSE "none"

Abandoned == task.token \/ ~task.listed \/ task.status # "downloading"

WatcherLeaves ==
    /\ watch.pc = "polling" /\ Abandoned
    /\ WatcherGoes("off")
    /\ UNCHANGED <<watchOnly, task, meta, temp, download, bounds>>

\* More than 24 hours; the start is not restored after a restart.
WatcherTimesOut ==
    /\ watch.pc = "polling" /\ ~Abandoned /\ task.timed /\ Mishap
    /\ Marks("download_failed")
    /\ WatcherGoes(IF kind.direct /\ CleanupOnFailure THEN "giving_up" ELSE "off")
    /\ UNCHANGED <<watchOnly, meta, temp, download>>

\* A bug: the restarts are not counted.
RestartFailedAlways ==
    /\ watch.pc = "polling" /\ ~Abandoned /\ kind.sync /\ watch.tries < MaxTries
    /\ \E some \in (SUBSET With({"failed"})) \ {{}} :
         download' = [n \in Nodes |-> IF n \in some THEN "running" ELSE download[n]]
    /\ UNCHANGED <<watchOnly, watch, task, meta, temp, bounds>>

\* restart_failed_downloads_once, for tasks of a share-sync subscription.
RestartFailed ==
    /\ watch.pc = "polling" /\ ~Abandoned /\ kind.sync /\ watch.tries < MaxTries
    /\ \E some \in (SUBSET With({"failed"})) \ {{}} :
         download' = [n \in Nodes |-> IF n \in some THEN "running" ELSE download[n]]
    /\ watch' = [watch EXCEPT !.tries = @ + 1]
    /\ UNCHANGED <<watchOnly, task, meta, temp, bounds>>

Judge ==
    /\ watch.pc = "polling" /\ ~Abandoned /\ Verdict # "none"
    /\ watch' = [watch EXCEPT !.pc = "judged", !.verdict = Verdict]
    /\ UNCHANGED <<watchOnly, task, meta, temp, download, bounds>>

\* The status is written without another look at the task.
Conclude ==
    /\ watch.pc = "judged"
    /\ IF kind.direct /\ watch.verdict = "completed" /\ AutoCleanup
       THEN Marks("cleaning") /\ Stores("cleaning") /\ WatcherGoes("cleaning")
       ELSE /\ Marks(watch.verdict)
            /\ CASE kind.direct /\ watch.verdict = "completed" -> Archives("completed")
                 [] kind.direct /\ watch.verdict = "download_failed" -> Stores("download_failed")
                 [] OTHER -> UNCHANGED meta
            /\ WatcherGoes(IF /\ kind.direct /\ CleanupOnFailure
                              /\ watch.verdict = "download_failed" THEN "giving_up" ELSE "off")
    /\ UNCHANGED <<watchOnly, temp, download, bounds>>

\* A direct task ends with its directory, and forgets its completed downloads.
CleanUp ==
    /\ watch.pc = "cleaning"
    /\ Cleans /\ Marks("completed") /\ Archives("completed")
    /\ download' = [n \in Nodes |-> IF n \in task.ids /\ download[n] = "done" THEN "gone"
                                                                            ELSE download[n]]
    /\ WatcherGoes("off")
    /\ UNCHANGED <<watchOnly, bounds>>

GiveUp ==
    /\ watch.pc = "giving_up"
    /\ Cleans /\ WatcherGoes("off")
    /\ UNCHANGED <<watchOnly, task, meta, download, bounds>>

\* The cleanup that restore_task repeats.
CleanAgain ==
    /\ watch.pc = "recleaning"
    /\ Cleans /\ WatcherGoes("off")
    /\ IF task.listed THEN Marks("completed") ELSE UNCHANGED task
    /\ UNCHANGED <<watchOnly, meta, download, bounds>>

Watch == WatcherLeaves \/ RestartFailed \/ Judge \/ Conclude \/ CleanUp \/ GiveUp \/ CleanAgain

-----------------------------------------------------------------------------
(* The user's calls                                                        *)

userOnly == <<kind, saved, cut, exec, watch>>
Calls(pc) == user' = [user EXCEPT !.pc = pc]

Cancel ==
    /\ user.pc = "idle" /\ task.listed /\ Mishap
    /\ user' = [pc |-> "cancelling", seen |-> task.status]
    /\ UNCHANGED <<userOnly, task, meta, temp, download>>

\* cancel_task acts on the status it has read.
CancelRefused ==
    /\ user.pc = "cancelling" /\ user.seen \in Final \cup {"cleaning"}
    /\ Calls("idle")
    /\ UNCHANGED <<userOnly, task, meta, temp, download, bounds>>

CancelTransfer ==
    /\ user.pc = "cancelling" /\ user.seen \in {"queued", "checking_share", "transferring"}
    /\ task' = [task EXCEPT !.token = TRUE, !.status = "transfer_failed"]
    /\ Calls(IF user.seen = "transferring" /\ kind.direct /\ CleanupOnFailure THEN "cleaning"
                                                                            ELSE "idle")
    /\ UNCHANGED <<userOnly, meta, temp, download, bounds>>

\* cancel_task_without_delete pauses the downloads.
CancelDownloads ==
    /\ user.pc = "cancelling" /\ user.seen = "downloading"
    /\ task' = [task EXCEPT !.token = TRUE]
    /\ download' = [n \in Nodes |-> IF n \in With({"running"}) THEN "paused" ELSE download[n]]
    /\ Calls("stopping")
    /\ UNCHANGED <<userOnly, meta, temp, bounds>>

CancelMarks ==
    /\ user.pc = "stopping"
    /\ Marks("download_failed")
    /\ Calls(IF kind.direct /\ CleanupOnFailure THEN "cleaning" ELSE "idle")
    /\ UNCHANGED <<userOnly, meta, temp, download, bounds>>

CancelCleans ==
    /\ user.pc = "cleaning"
    /\ Cleans /\ Calls("idle")
    /\ UNCHANGED <<userOnly, task, meta, download, bounds>>

\* remove_task, alone or as the first half of discard_task.
Remove ==
    /\ user.pc = "idle" /\ task.listed /\ Mishap
    /\ task' = [task EXCEPT !.listed = FALSE, !.token = TRUE] /\ meta' = Gone
    /\ \E pc \in {"idle", "purging"} : Calls(pc)
    /\ UNCHANGED <<userOnly, temp, download>>

\* The second half of discard_task: the downloads that exist by now.
Purge ==
    /\ user.pc = "purging"
    /\ download' = [n \in Nodes |-> IF download[n] = "none" THEN "none" ELSE "gone"]
    /\ Calls("idle")
    /\ UNCHANGED <<userOnly, task, meta, temp, bounds>>

-----------------------------------------------------------------------------
(* Downloads and restarts                                                  *)

downloadOnly == <<kind, task, meta, temp, saved, cut, exec, watch, user>>

\* A direct download needs the temporary directory.
Ends(n) ==
    /\ download[n] = "running"
    /\ \/ (kind.direct => temp = "made") /\ download' = [download EXCEPT ![n] = "done"]
       \/ download' = [download EXCEPT ![n] = "failed"]
    /\ UNCHANGED <<downloadOnly, bounds>>

PauseOrResume(n) ==
    /\ Whim
    /\ \/ download[n] = "running" /\ download' = [download EXCEPT ![n] = "paused"]
       \/ download[n] \in {"paused", "failed"} /\ download' = [download EXCEPT ![n] = "running"]
    /\ UNCHANGED downloadOnly

\* restore_task, after the start-up has archived what is stored as complete.
Restart ==
    /\ Mishap
    /\ LET stored == IF meta.complete THEN Gone ELSE meta
           back   == stored.kept /\ stored.status # "completed"
           held   == stored.status \in {"transferred", "downloading", "cleaning"}
       IN /\ meta' = stored
          /\ task' = [listed |-> back, token |-> FALSE, warned |-> FALSE, timed |-> FALSE,
                      status |-> IF back /\ held THEN stored.status ELSE "transfer_failed",
                      ids |-> IF back /\ stored.status = "downloading" THEN stored.ids ELSE {}]
          /\ watch' = [NoWatch EXCEPT !.pc =
                         IF back /\ stored.status = "downloading" /\ stored.ids # {} THEN "polling"
                         ELSE IF back /\ stored.status = "cleaning" THEN "recleaning" ELSE "off"]
    /\ exec' = NoExec /\ user' = NoCall
    /\ download' = [n \in Nodes |-> IF download[n] = "running" THEN "paused" ELSE download[n]]
    /\ UNCHANGED <<kind, temp, saved, cut>>

Next ==
    \/ Execute \/ Watch \/ WatcherTimesOut
    \/ Cancel \/ CancelRefused \/ CancelTransfer \/ CancelDownloads \/ CancelMarks \/ CancelCleans
    \/ Remove \/ Purge
    \/ \E n \in Nodes : Ends(n) \/ PauseOrResume(n)
    \/ Restart

Spec == Init /\ [][Next]_vars

\* The runtime polls a ready task again; a download that runs ends one way or the other.
FairSpec ==
    /\ Spec /\ WF_vars(Execute) /\ WF_vars(Watch) /\ \A n \in Nodes : WF_vars(Ends(n))

-----------------------------------------------------------------------------
(* Properties                                                              *)

\* The files under the given nodes: the childless members of every set of nodes that
\* holds the given ones and the children of its members.
Files(nodes) ==
    {n \in Nodes : /\ Tree[n] = {}
                   /\ \A S \in SUBSET Nodes :
                         nodes \subseteq S /\ (\A m \in S : Tree[m] \subseteq S) => n \in S}

\* No file that was listed is lost in silence (merge_batch_results, "也要如实报出来"): a
\* transfer that did not fail has saved every selected file that no listing left out, or
\* its metadata carry a warning, through refused batches, halvings, descents, a full
\* netdisk and restarts.  Of the files under what a listing left out it says nothing.
NoSilentLoss ==
    task.listed /\ task.status \in {"transferred", "downloading", "cleaning", "completed"} =>
        meta.warned \/ Files(Selected) \subseteq Files(saved) \cup Files(cut)

\* The same of every selected file, listed or not.
SelectionWhole ==
    task.listed /\ task.status \in {"transferred", "downloading", "cleaning", "completed"} =>
        meta.warned \/ Files(Selected) \subseteq Files(saved)

\* A watcher does not watch for ever: unless the user leaves a download paused,
\* it concludes, even though it restarts failed downloads itself.
WatcherConcludes == watch.pc = "polling" ~> watch.pc # "polling" \/ With({"paused"}) # {}

\* The agreement of temporary directory and downloads (aggregate_download_status,
\* "混合状态（部分完成+部分取消），视为完成"): the completion of a direct task does not
\* delete the directory a paused download still needs.
PausedKeepsDir ==
    [][watch.pc = "cleaning" /\ temp = "made" /\ temp' = "deleted" =>
         With({"running", "paused"}) = {}]_vars

\* discard_task: "它正是 start_auto_download 这个「下载子任务生产者」的停止信号".
\* A cancelled task creates no further download.
DiscardStopsProducer == [][exec.made # exec'.made /\ exec'.made # {} => ~task.token]_vars

\* restore_task: a task whose downloads or cleanup were under way comes back.
InFlightSurvives ==
    [][Restart /\ task.listed /\ task.status \in {"downloading", "cleaning"} => task'.listed]_vars

\* cancel_task: a cancelled task stays failed.
CancelledStays ==
    [][task.token /\ task'.token /\ task.status = "transfer_failed" =>
         task'.status = "transfer_failed"]_vars
=============================================================================
