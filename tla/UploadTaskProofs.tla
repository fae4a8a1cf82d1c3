---------------------------- MODULE UploadTaskProofs ----------------------------
(***************************************************************************)
(* Proofs about UploadTask, for any number of chunks, transfers and        *)
(* registrations, with or without encryption and preemption: create_file   *)
(* is under way at most once for a registration, and a chunk marked        *)
(* uploading has exactly one transfer that will clear the mark.            *)
(***************************************************************************)
EXTENDS UploadTask, FiniteSetTheorems, TLAPS

\* What a transfer may be at: a chunk, or the merge of the run.
Sends  == [pc : {"queued", "sending", "sent", "failed", "succeeded", "erred", "failing"},
           run : Runs, chunk : Chunks]
Merges == [pc : {"creating", "settling"}, run : Runs, ok : BOOLEAN]
Jobs   == {Idle} \cup Sends \cup Merges

\* The scheduling loop is idle, looks at a run, or merges one.
LoopAts == {Idle} \cup [pc : {"clear", "none", "drop"}, run : Runs] \cup Merges

\* The part of the types the invariant needs.
Shapes ==
    /\ worker \in [Workers -> Jobs]
    /\ loop \in LoopAts
    /\ entry \in {0} \cup Runs
    /\ chunk \in [Runs -> [Chunks -> {"free", "uploading", "completed"}]]
    /\ is_merging \in [Runs -> BOOLEAN]

\* The flag of a run is up while create_file is called for it, and one of the
\* transfers and the loop calls it.
MergeInv ==
    /\ \A w \in Workers : worker[w].pc = "creating" => is_merging[worker[w].run]
    /\ \A w, v \in Workers :
          worker[w].pc = "creating" /\ worker[v].pc = "creating"
          /\ worker[w].run = worker[v].run => w = v
    /\ loop.pc = "creating" =>
          /\ is_merging[loop.run]
          /\ \A w \in Workers : worker[w].pc = "creating" => worker[w].run # loop.run

\* A transfer that still owes its chunk the end of the mark.
Owes(x) == x.pc \in {"queued", "sending", "failed", "erred"}

\* Marks and the transfers that owe them belong together, one to one; a
\* cancelled task may leave marks behind, but never has two transfers for one.
MarkInv ==
    /\ \A w \in Workers : Owes(worker[w]) => chunk[worker[w].run][worker[w].chunk] = "uploading"
    /\ \A w, v \in Workers :
          Owes(worker[w]) /\ Owes(worker[v]) /\ worker[w].run = worker[v].run
          /\ worker[w].chunk = worker[v].chunk => w = v
    /\ ~cancelled => \A r \in Runs : \A c \in Chunks : chunk[r][c] = "uploading" =>
          \E w \in Workers : Owes(worker[w]) /\ worker[w].run = r /\ worker[w].chunk = c

UploadInv == Shapes /\ MergeInv /\ MarkInv

\* What the fields of a transfer and of the loop are.
LEMMA JobFields ==
    /\ Idle.pc = "idle"
    /\ \A x \in Sends : x.run \in Runs /\ x.chunk \in Chunks /\ x.pc # "creating" /\ x.pc # "settling" /\ x.pc # "idle"
    /\ \A x \in Merges : x.run \in Runs /\ x.ok \in BOOLEAN /\ x.pc \in {"creating", "settling"}
    /\ \A x \in Jobs : Owes(x) => x \in Sends
    /\ \A x \in Jobs : x.pc \in {"creating", "settling"} => x \in Merges
    /\ \A x \in Jobs : x.pc \notin {"creating", "settling", "idle"} => x \in Sends
BY DEF Idle, Sends, Merges, Jobs, Owes

\* The invariant holds at the start.
LEMMA InitUpload == Init => UploadInv
<1> SUFFICES ASSUME Init PROVE UploadInv
  OBVIOUS
<1>1. \A w \in Workers : worker[w] = Idle
  BY DEF Init
<1>2. Idle \in Jobs /\ Idle \in LoopAts /\ Idle.pc = "idle"
  BY DEF Idle, Jobs, LoopAts
<1>3. Shapes
  BY <1>2 DEF Init, Shapes
<1>4. MergeInv
  BY <1>1, <1>2 DEF Init, MergeInv
<1>5. MarkInv
  BY <1>1, <1>2 DEF Init, MarkInv, Owes
<1> QED BY <1>3, <1>4, <1>5 DEF UploadInv

\* A step that moves no transfer, mark or flag keeps the invariant; the loop may
\* go anywhere but to a merge, and the task may be cancelled.
LEMMA QuietKeeps ==
    ASSUME UploadInv, UNCHANGED <<worker, chunk, is_merging>>,
           entry' \in {0} \cup Runs, cancelled => cancelled',
           loop' = loop \/ (loop' \in LoopAts /\ loop'.pc # "creating")
    PROVE  UploadInv'
<1>1. Shapes'
  BY DEF UploadInv, Shapes
<1>2. MergeInv'
  BY DEF UploadInv, MergeInv
<1>3. MarkInv'
  BY DEF UploadInv, MarkInv, Owes
<1> QED BY <1>1, <1>2, <1>3 DEF UploadInv

\* A transfer goes on without touching its mark or its duty, and starts no merge.
LEMMA GoesOn ==
    ASSUME UploadInv, NEW w \in Workers, NEW x \in Jobs, worker' = [worker EXCEPT ![w] = x],
           UNCHANGED <<chunk, is_merging, loop, cancelled>>, entry' \in {0} \cup Runs,
           x.pc # "creating",
           cancelled \/ (Owes(worker[w]) => Owes(x)),
           Owes(x) => /\ Owes(worker[w]) /\ x.run = worker[w].run
                      /\ x.chunk = worker[w].chunk
    PROVE  UploadInv'
<1> USE DEF UploadInv
<1>1. /\ worker \in [Workers -> Jobs]
      /\ worker' \in [Workers -> Jobs] /\ worker'[w] = x
      /\ \A v \in Workers : v # w => worker'[v] = worker[v]
  BY DEF Shapes
<1>2. Shapes'
  BY <1>1 DEF Shapes
<1>3. MergeInv'
  BY <1>1 DEF MergeInv
<1>4. MarkInv'
  <2>1. \A v \in Workers : Owes(worker[v])' <=> Owes(worker'[v])
    BY DEF Owes
  <2>2. \A v \in Workers : Owes(worker'[v]) =>
           /\ Owes(worker[v]) /\ worker'[v].run = worker[v].run
           /\ worker'[v].chunk = worker[v].chunk
    BY <1>1
  <2>3. ~cancelled => \A v \in Workers : Owes(worker[v]) => Owes(worker'[v])
    BY <1>1
  <2> QED BY <2>1, <2>2, <2>3 DEF MarkInv
<1> QED BY <1>2, <1>3, <1>4

\* A transfer clears its own mark and leaves, or has no duty any more.
LEMMA ClearsMark ==
    ASSUME UploadInv, NEW w \in Workers, NEW x \in Jobs, worker' = [worker EXCEPT ![w] = x],
           NEW m \in {"free", "completed"}, Mark(w, m), Owes(worker[w]),
           UNCHANGED <<is_merging, loop, entry, cancelled>>,
           x.pc # "creating", ~Owes(x)
    PROVE  UploadInv'
<1> USE DEF UploadInv
<1> DEFINE r == worker[w].run
           c == worker[w].chunk
<1>1. /\ worker \in [Workers -> Jobs]
      /\ worker' \in [Workers -> Jobs] /\ worker'[w] = x
      /\ \A v \in Workers : v # w => worker'[v] = worker[v]
  BY DEF Shapes
<1>2. r \in Runs /\ c \in Chunks
  BY <1>1, JobFields
<1>3. /\ chunk' \in [Runs -> [Chunks -> {"free", "uploading", "completed"}]]
      /\ chunk'[r][c] = m
      /\ \A q \in Runs : \A d \in Chunks : q # r \/ d # c => chunk'[q][d] = chunk[q][d]
  BY <1>2 DEF Mark, Shapes
<1>4. Shapes'
  BY <1>1, <1>3 DEF Shapes
<1>5. MergeInv'
  BY <1>1 DEF MergeInv
<1>6. MarkInv'
  <2>1. \A v \in Workers : Owes(worker[v])' <=> Owes(worker'[v])
    BY DEF Owes
  <2>2. \A v \in Workers : Owes(worker'[v]) => v # w /\ worker'[v] = worker[v] /\ Owes(worker[v])
    BY <1>1
  <2>3. \A v \in Workers : v # w /\ Owes(worker[v]) => worker[v].run # r \/ worker[v].chunk # c
    BY DEF MarkInv
  <2>4. \A v \in Workers : Owes(worker'[v]) => worker'[v].run \in Runs /\ worker'[v].chunk \in Chunks
    BY <1>1, JobFields
  <2>5. \A v \in Workers : Owes(worker'[v]) => chunk'[worker'[v].run][worker'[v].chunk] = "uploading"
    BY <1>3, <2>2, <2>3, <2>4 DEF MarkInv
  <2>6. \A v, u \in Workers :
          Owes(worker'[v]) /\ Owes(worker'[u]) /\ worker'[v].run = worker'[u].run
          /\ worker'[v].chunk = worker'[u].chunk => v = u
    BY <2>2 DEF MarkInv
  <2>7. ASSUME ~cancelled, NEW q \in Runs, NEW d \in Chunks, chunk'[q][d] = "uploading"
        PROVE  \E v \in Workers : Owes(worker'[v]) /\ worker'[v].run = q /\ worker'[v].chunk = d
    <3>1. (q # r \/ d # c) /\ chunk[q][d] = "uploading"
      BY <1>3, <2>7
    <3>2. PICK v \in Workers : Owes(worker[v]) /\ worker[v].run = q /\ worker[v].chunk = d
      BY <3>1, <2>7 DEF MarkInv
    <3>3. v # w
      BY <3>1, <3>2
    <3> QED BY <3>2, <3>3, <1>1
  <2> QED BY <2>1, <2>5, <2>6, <2>7 DEF MarkInv
<1> QED BY <1>4, <1>5, <1>6

\* One more call of create_file needs a flag that was down.
LEMMA TransferMerges ==
    ASSUME UploadInv, NEW w \in Workers, SuccessMerges(w)
    PROVE  UploadInv'
<1> USE DEF UploadInv
<1> DEFINE r == worker[w].run
           x == [pc |-> "creating", run |-> r, ok |-> TRUE]
<1>1. /\ worker' = [worker EXCEPT ![w] = x] /\ worker[w].pc = "succeeded"
      /\ ~is_merging[r] /\ is_merging' = [is_merging EXCEPT ![r] = TRUE]
      /\ UNCHANGED <<entry, chunk, loop, cancelled>>
  BY DEF SuccessMerges, StartsMerge, task
<1>2. worker[w] \in Jobs /\ r \in Runs
  BY <1>1, JobFields DEF Shapes
<1>3. x \in Jobs /\ x.pc = "creating" /\ x.run = r
  BY <1>2 DEF Jobs, Merges
<1>4. /\ worker' \in [Workers -> Jobs] /\ worker'[w] = x
      /\ \A v \in Workers : v # w => worker'[v] = worker[v]
  BY <1>1, <1>3 DEF Shapes
<1>5. /\ is_merging' \in [Runs -> BOOLEAN] /\ is_merging'[r]
      /\ \A q \in Runs : is_merging[q] => is_merging'[q]
  BY <1>1, <1>2 DEF Shapes
<1>6. Shapes'
  BY <1>1, <1>4, <1>5 DEF Shapes
<1>7. \A v \in Workers : worker[v].pc = "creating" => worker[v].run \in Runs /\ worker[v].run # r
  BY <1>1, JobFields DEF MergeInv, Shapes
<1>8. loop.pc = "creating" => loop.run \in Runs /\ loop.run # r
  <2>1. loop.pc = "creating" => loop \in Merges
    BY DEF Shapes, LoopAts, Idle
  <2> QED BY <2>1, <1>1, JobFields DEF MergeInv
<1>9. MergeInv'
  BY <1>1, <1>3, <1>4, <1>5, <1>7, <1>8 DEF MergeInv
<1>10. MarkInv'
  <2>1. ~Owes(x) /\ ~Owes(worker[w])
    BY <1>1, <1>3 DEF Owes
  <2>2. \A v \in Workers : Owes(worker[v])' <=> Owes(worker'[v])
    BY DEF Owes
  <2>3. \A v \in Workers : Owes(worker'[v]) => worker'[v] = worker[v]
    BY <1>4, <2>1
  <2>4. \A v \in Workers : Owes(worker[v]) => worker'[v] = worker[v]
    BY <1>4, <2>1
  <2>5. \A v \in Workers : Owes(worker'[v]) <=> Owes(worker[v])
    BY <2>3, <2>4
  <2>6. ASSUME NEW v \in Workers, Owes(worker'[v])
        PROVE  chunk'[worker'[v].run][worker'[v].chunk] = "uploading"
    <3>1. worker'[v] = worker[v] /\ Owes(worker[v])
      BY <2>3, <2>6
    <3>2. chunk[worker[v].run][worker[v].chunk] = "uploading"
      BY <3>1 DEF MarkInv
    <3>3. chunk' = chunk
      BY <1>1
    <3> QED BY <3>1, <3>2, <3>3
  <2>7. \A v, u \in Workers :
          Owes(worker'[v]) /\ Owes(worker'[u]) /\ worker'[v].run = worker'[u].run
          /\ worker'[v].chunk = worker'[u].chunk => v = u
    BY <2>3, <2>5 DEF MarkInv
  <2>8. ASSUME ~cancelled', NEW q \in Runs, NEW d \in Chunks, chunk'[q][d] = "uploading"
        PROVE  \E v \in Workers : Owes(worker'[v]) /\ worker'[v].run = q /\ worker'[v].chunk = d
    BY <1>1, <2>4, <2>5, <2>8 DEF MarkInv
  <2> QED BY <2>2, <2>6, <2>7, <2>8 DEF MarkInv
<1> QED BY <1>6, <1>9, <1>10

\* So does the loop's own call.
LEMMA LoopCalls ==
    ASSUME UploadInv, LoopMerges
    PROVE  UploadInv'
<1> USE DEF UploadInv
<1> DEFINE r == loop.run
           x == [pc |-> "creating", run |-> r, ok |-> AllCompleted(r)]
<1>1. /\ loop' = x /\ loop.pc = "none"
      /\ ~is_merging[r] /\ is_merging' = [is_merging EXCEPT ![r] = TRUE]
      /\ UNCHANGED <<entry, chunk, worker, cancelled>>
  BY DEF LoopMerges, StartsMerge, task
<1>2. r \in Runs
  BY <1>1 DEF Shapes, LoopAts, Idle, Merges
<1>3. AllCompleted(r) \in BOOLEAN
  BY DEF AllCompleted
<1>4. x \in LoopAts /\ x.run = r
  BY <1>2, <1>3 DEF LoopAts, Merges
<1>5. /\ is_merging' \in [Runs -> BOOLEAN] /\ is_merging'[r]
      /\ \A q \in Runs : is_merging[q] => is_merging'[q]
  BY <1>1, <1>2 DEF Shapes
<1>6. Shapes'
  BY <1>1, <1>4, <1>5 DEF Shapes
<1>7. \A v \in Workers : worker[v].pc = "creating" => worker[v].run \in Runs /\ worker[v].run # r
  BY <1>1, JobFields DEF MergeInv, Shapes
<1>8. MergeInv'
  BY <1>1, <1>4, <1>5, <1>7 DEF MergeInv
<1>9. MarkInv'
  BY <1>1 DEF MarkInv, Owes
<1> QED BY <1>6, <1>8, <1>9

\* The loop marks a free chunk and spawns the one transfer that owes it.
LEMMA LoopSpawns ==
    ASSUME UploadInv, NEW w \in Workers, LoopPicks(w)
    PROVE  UploadInv'
<1> USE DEF UploadInv
<1> DEFINE r == loop.run
<1>1. PICK c \in Free(r) :
        /\ chunk' = [chunk EXCEPT ![r][c] = "uploading"]
        /\ worker' = [worker EXCEPT ![w] = [pc |-> "queued", run |-> r, chunk |-> c]]
  BY DEF LoopPicks
<1> DEFINE x == [pc |-> "queued", run |-> r, chunk |-> c]
<1>2. /\ loop.pc = "clear" /\ worker[w] = Idle /\ loop' = Idle
      /\ UNCHANGED <<entry, is_merging, cancelled>>
  BY DEF LoopPicks, task
<1>3. r \in Runs /\ c \in Chunks /\ chunk[r][c] = "free"
  BY <1>1, <1>2 DEF Shapes, LoopAts, Idle, Merges, Free
<1>4. x \in Jobs /\ x.pc = "queued" /\ x.run = r /\ x.chunk = c
  BY <1>3 DEF Jobs, Sends
<1>5. /\ worker' \in [Workers -> Jobs] /\ worker'[w] = x
      /\ \A v \in Workers : v # w => worker'[v] = worker[v]
  BY <1>1, <1>4 DEF Shapes
<1>6. /\ chunk' \in [Runs -> [Chunks -> {"free", "uploading", "completed"}]]
      /\ chunk'[r][c] = "uploading"
      /\ \A q \in Runs : \A d \in Chunks : q # r \/ d # c => chunk'[q][d] = chunk[q][d]
  BY <1>1, <1>3 DEF Shapes
<1>7. Shapes'
  BY <1>2, <1>5, <1>6 DEF Shapes, LoopAts
<1>8. MergeInv'
  BY <1>2, <1>4, <1>5 DEF MergeInv, Idle
<1>9. MarkInv'
  <2>1. \A v \in Workers : Owes(worker[v])' <=> Owes(worker'[v])
    BY DEF Owes
  <2>2. Owes(x) /\ ~Owes(worker[w])
    BY <1>2, <1>4 DEF Owes, Idle
  <2>3. \A v \in Workers : Owes(worker'[v]) => v = w \/ (worker'[v] = worker[v] /\ Owes(worker[v]))
    BY <1>5
  <2>4. \A v \in Workers : Owes(worker[v]) =>
          /\ v # w /\ worker[v].run \in Runs /\ worker[v].chunk \in Chunks
          /\ worker[v].run # r \/ worker[v].chunk # c
    <3>1. \A v \in Workers : Owes(worker[v]) => chunk[worker[v].run][worker[v].chunk] = "uploading"
      BY DEF MarkInv
    <3> QED BY <3>1, <1>3, <2>2, JobFields DEF Shapes
  <2>5. \A v \in Workers : Owes(worker'[v]) => chunk'[worker'[v].run][worker'[v].chunk] = "uploading"
    BY <1>4, <1>5, <1>6, <2>3, <2>4 DEF MarkInv
  <2>6. \A v, u \in Workers :
          Owes(worker'[v]) /\ Owes(worker'[u]) /\ worker'[v].run = worker'[u].run
          /\ worker'[v].chunk = worker'[u].chunk => v = u
    BY <1>4, <1>5, <2>3, <2>4 DEF MarkInv
  <2>7. ASSUME ~cancelled, NEW q \in Runs, NEW d \in Chunks, chunk'[q][d] = "uploading"
        PROVE  \E v \in Workers : Owes(worker'[v]) /\ worker'[v].run = q /\ worker'[v].chunk = d
    <3>1. CASE q = r /\ d = c
      BY <3>1, <1>4, <1>5, <2>2
    <3>2. CASE q # r \/ d # c
      <4>1. chunk[q][d] = "uploading"
        BY <3>2, <1>6, <2>7
      <4>2. PICK v \in Workers : Owes(worker[v]) /\ worker[v].run = q /\ worker[v].chunk = d
        BY <4>1, <2>7 DEF MarkInv
      <4> QED BY <4>2, <2>4, <1>5
    <3> QED BY <3>1, <3>2
  <2> QED BY <2>1, <2>5, <2>6, <2>7, <1>2 DEF MarkInv
<1> QED BY <1>7, <1>8, <1>9

\* What start, the waiting queue, the user, the competitor and a lost slot do
\* changes neither transfers nor marks; it may forget the registration and
\* cancel the task.
LEMMA ManagerKeeps ==
    ASSUME UploadInv, StartStep \/ PumpStep \/ UserStep \/ OtherStep \/ EvictStep
    PROVE  UploadInv'
<1>1. UNCHANGED <<worker, chunk, is_merging, loop>>
  <2>1. CASE StartStep
    BY <2>1 DEF StartStep, StartReads, StartInvalid, StartWithSlot, StartLostSlot, StartAllocates,
                StartQueues, Begin, registry, execution
  <2>2. CASE PumpStep
    BY <2>2 DEF PumpStep, PumpSkips, PumpPops, PumpAllocates, PumpPutsBack, PumpFindsDeleted,
                Begin, registry, execution
  <2>3. CASE UserStep
    BY <2>3 DEF UserStep, PauseUploading, PausePending, PauseRefused, Resume, Delete, registry, execution
  <2>4. CASE OtherStep
    BY <2>4 DEF OtherStep, OtherTakes, OtherLeaves, Preempt, StaleRelease, registry, execution
  <2>5. CASE EvictStep
    BY <2>5 DEF EvictStep, PreemptMarks, PreemptRequeues, StaleNotice, registry, execution
  <2> QED BY <2>1, <2>2, <2>3, <2>4, <2>5
<1>2. entry' = entry \/ entry' = 0
  <2>1. CASE StartStep
    BY <2>1 DEF StartStep, StartReads, StartInvalid, StartWithSlot, StartLostSlot, StartAllocates,
                StartQueues, Begin, registry
  <2>2. CASE PumpStep
    BY <2>2 DEF PumpStep, PumpSkips, PumpPops, PumpAllocates, PumpPutsBack, PumpFindsDeleted,
                Begin, registry
  <2>3. CASE UserStep
    BY <2>3 DEF UserStep, PauseUploading, PausePending, PauseRefused, Resume, Delete, registry
  <2>4. CASE OtherStep
    BY <2>4 DEF OtherStep, OtherTakes, OtherLeaves, Preempt, StaleRelease, registry
  <2>5. CASE EvictStep
    BY <2>5 DEF EvictStep, PreemptMarks, PreemptRequeues, StaleNotice, registry
  <2> QED BY <2>1, <2>2, <2>3, <2>4, <2>5
<1>3. cancelled => cancelled'
  <2>1. CASE StartStep
    BY <2>1 DEF StartStep, StartReads, StartInvalid, StartWithSlot, StartLostSlot, StartAllocates,
                StartQueues, task
  <2>2. CASE PumpStep
    BY <2>2 DEF PumpStep, PumpSkips, PumpPops, PumpAllocates, PumpPutsBack, PumpFindsDeleted, task
  <2>3. CASE UserStep
    BY <2>3 DEF UserStep, PauseUploading, PausePending, PauseRefused, Resume, Delete
  <2>4. CASE OtherStep
    BY <2>4 DEF OtherStep, OtherTakes, OtherLeaves, Preempt, StaleRelease
  <2>5. CASE EvictStep
    BY <2>5 DEF EvictStep, PreemptMarks, PreemptRequeues, StaleNotice
  <2> QED BY <2>1, <2>2, <2>3, <2>4, <2>5
<1> QED BY <1>1, <1>2, <1>3, QuietKeeps DEF UploadInv, Shapes

\* A preparation may register its run, and does no more that matters here.
LEMMA PrepKeeps ==
    ASSUME UploadInv, NEW r \in Runs, PrepStep(r)
    PROVE  UploadInv'
<1>1. UNCHANGED <<worker, chunk, is_merging, loop, cancelled>>
  BY DEF PrepStep, PrepMarks, PrepEncrypts, PrepReuses, PrepEncrypted, PrepEncryptFails,
         PrepFails, PrepRapid, PrepRegisters, task, execution
<1>2. entry' = entry \/ entry' = r
  BY DEF PrepStep, PrepMarks, PrepEncrypts, PrepReuses, PrepEncrypted, PrepEncryptFails,
         PrepFails, PrepRapid, PrepRegisters
<1> QED BY <1>1, <1>2, QuietKeeps DEF UploadInv, Shapes

\* The loop looks, passes, drops or spawns; its merges are LoopCalls.
LEMMA LoopKeeps ==
    ASSUME UploadInv, LoopStep
    PROVE  UploadInv'
<1>1. entry \in {0} \cup Runs /\ loop \in LoopAts
  BY DEF UploadInv, Shapes
<1>2. CASE \/ LoopSees \/ LoopSeesCancelled \/ LoopDrops \/ LoopFindsNone \/ LoopPasses
          \/ LoopReturns \/ LoopSettles
  <2>1. UNCHANGED <<worker, chunk, is_merging, cancelled>>
    BY <1>2 DEF LoopSees, LoopSeesCancelled, LoopDrops, LoopFindsNone, LoopPasses, LoopReturns,
                LoopSettles, Settled, task, registry
  <2>2. entry' = entry \/ entry' = 0
    BY <1>2 DEF LoopSees, LoopSeesCancelled, LoopDrops, LoopFindsNone, LoopPasses, LoopReturns,
                LoopSettles, registry
  <2>3. loop' \in LoopAts /\ loop'.pc # "creating"
    <3>1. CASE LoopSees \/ LoopSeesCancelled
      <4>1. entry \in Runs
        BY <1>1, <3>1 DEF LoopSees, LoopSeesCancelled
      <4> QED BY <3>1, <4>1 DEF LoopSees, LoopSeesCancelled, LoopAts
    <3>2. CASE LoopDrops \/ LoopPasses \/ LoopSettles
      BY <3>2 DEF LoopDrops, LoopPasses, LoopSettles, LoopAts, Idle
    <3>3. CASE LoopFindsNone
      <4>1. loop \in [pc : {"clear", "none", "drop"}, run : Runs]
        BY <1>1, <3>3 DEF LoopFindsNone, LoopAts, Idle, Merges
      <4> QED BY <3>3, <4>1 DEF LoopFindsNone, LoopAts
    <3>4. CASE LoopReturns
      <4>1. loop \in Merges
        BY <1>1, <3>4 DEF LoopReturns, LoopAts, Idle
      <4>2. PICK good \in {loop.ok} \cup {FALSE} :
                loop' = [loop EXCEPT !.pc = "settling", !.ok = good]
        BY <3>4 DEF LoopReturns
      <4>3. good \in BOOLEAN
        BY <4>1, JobFields
      <4> QED BY <4>1, <4>2, <4>3 DEF LoopAts, Merges
    <3> QED BY <1>2, <3>1, <3>2, <3>3, <3>4
  <2> QED BY <1>1, <2>1, <2>2, <2>3, QuietKeeps
<1>3. CASE LoopMerges
  BY <1>3, LoopCalls
<1>4. CASE \E w \in Workers : LoopPicks(w)
  BY <1>4, LoopSpawns
<1> QED BY <1>2, <1>3, <1>4 DEF LoopStep

\* A transfer at each of its steps.
LEMMA WorkerKeeps ==
    ASSUME UploadInv, NEW w \in Workers, WorkerStep(w)
    PROVE  UploadInv'
<1>1. worker \in [Workers -> Jobs] /\ worker[w] \in Jobs /\ entry \in {0} \cup Runs
  BY DEF UploadInv, Shapes
<1>2. ASSUME NEW pc, worker[w] \in Sends,
             pc \in {"queued", "sending", "sent", "failed", "succeeded", "erred", "failing"}
      PROVE  LET x == [worker[w] EXCEPT !.pc = pc]
             IN  /\ [worker EXCEPT ![w].pc = pc] = [worker EXCEPT ![w] = x]
                 /\ x \in Jobs /\ x.pc = pc
                 /\ x.run = worker[w].run /\ x.chunk = worker[w].chunk
  BY <1>1, <1>2 DEF Sends, Jobs
<1>3. Idle \in Jobs /\ Idle.pc = "idle" /\ ~Owes(Idle)
  BY DEF Idle, Jobs, Owes
<1>4. CASE PermitGranted(w) \/ SendFails(w) \/ CountsDown(w)
  <2>1. PICK pc \in {"sending", "failed", "succeeded", "erred"} :
          /\ worker' = [worker EXCEPT ![w].pc = pc]
          /\ (pc = "succeeded") = (worker[w].pc = "sent")
          /\ worker[w].pc \in {"queued", "sending", "sent", "failed"}
    BY <1>4 DEF PermitGranted, SendFails, CountsDown, Step
  <2>2. UNCHANGED <<chunk, is_merging, loop, entry, cancelled>>
    BY <1>4 DEF PermitGranted, SendFails, CountsDown, task, registry
  <2>3. worker[w] \in Sends
    BY <1>1, <2>1, JobFields
  <2>4. pc \in {"queued", "sending", "sent", "failed", "succeeded", "erred", "failing"}
    OBVIOUS
  <2> DEFINE x == [worker[w] EXCEPT !.pc = pc]
  <2>5. /\ worker' = [worker EXCEPT ![w] = x] /\ x \in Jobs /\ x.pc = pc
        /\ x.run = worker[w].run /\ x.chunk = worker[w].chunk
    BY <1>2, <2>1, <2>3, <2>4
  <2>6. Owes(x) <=> Owes(worker[w])
    BY <2>1, <2>5 DEF Owes
  <2>7. x.pc # "creating"
    BY <2>5
  <2> HIDE DEF x
  <2> QED BY <1>1, <2>2, <2>5, <2>6, <2>7, GoesOn
<1>5. CASE PermitRefused(w)
  <2>1. /\ worker' = [worker EXCEPT ![w] = Idle] /\ Mark(w, "free") /\ Owes(worker[w])
        /\ UNCHANGED <<is_merging, loop, entry, cancelled>>
    BY <1>5 DEF PermitRefused, Leaves, Owes, task
  <2> QED BY <1>3, <2>1, ClearsMark
<1>6. CASE SendSucceeds(w)
  <2>1. /\ worker' = [worker EXCEPT ![w].pc = "sent"] /\ Mark(w, "completed")
        /\ worker[w].pc = "sending" /\ Owes(worker[w])
        /\ UNCHANGED <<is_merging, loop, entry, cancelled>>
    BY <1>6 DEF SendSucceeds, Step, Owes, task
  <2>2. worker[w] \in Sends
    BY <1>1, <2>1, JobFields
  <2> DEFINE x == [worker[w] EXCEPT !.pc = "sent"]
  <2>3. worker' = [worker EXCEPT ![w] = x] /\ x \in Jobs /\ x.pc = "sent"
    BY <1>2, <2>1, <2>2
  <2>4. x.pc # "creating" /\ ~Owes(x)
    BY <2>3 DEF Owes
  <2> HIDE DEF x
  <2> QED BY <2>1, <2>3, <2>4, ClearsMark
<1>7. CASE FailureCancelled(w)
  <2>1. /\ worker' = [worker EXCEPT ![w] = Idle] /\ cancelled
        /\ UNCHANGED <<chunk, is_merging, loop, entry, cancelled>>
    BY <1>7 DEF FailureCancelled, Leaves, task, registry
  <2> QED BY <1>1, <1>3, <2>1, GoesOn
<1>8. CASE FailureRecorded(w)
  <2>1. /\ Mark(w, "free") /\ worker[w].pc = "erred" /\ Owes(worker[w])
        /\ UNCHANGED <<is_merging, loop, entry, cancelled>>
        /\ \/ worker' = [worker EXCEPT ![w] = Idle]
           \/ worker' = [worker EXCEPT ![w].pc = "failing"]
    BY <1>8 DEF FailureRecorded, Leaves, Step, Owes
  <2>2. CASE worker' = [worker EXCEPT ![w] = Idle]
    BY <1>3, <2>1, <2>2, ClearsMark
  <2>3. CASE worker' = [worker EXCEPT ![w].pc = "failing"]
    <3>1. worker[w] \in Sends
      BY <1>1, <2>1, JobFields
    <3> DEFINE x == [worker[w] EXCEPT !.pc = "failing"]
    <3>2. worker' = [worker EXCEPT ![w] = x] /\ x \in Jobs /\ x.pc = "failing"
      BY <1>2, <2>3, <3>1
    <3>3. x.pc # "creating" /\ ~Owes(x)
      BY <3>2 DEF Owes
    <3> HIDE DEF x
    <3> QED BY <2>1, <3>2, <3>3, ClearsMark
  <2> QED BY <2>1, <2>2, <2>3
<1>9. CASE FailureRemoves(w) \/ SuccessLeaves(w) \/ MergeSettles(w)
  <2>1. /\ worker' = [worker EXCEPT ![w] = Idle] /\ ~Owes(worker[w])
        /\ UNCHANGED <<chunk, is_merging, loop, cancelled>>
        /\ entry' = entry \/ entry' = 0
    BY <1>9 DEF FailureRemoves, SuccessLeaves, MergeSettles, Settled, Leaves, Owes, task, registry
  <2> QED BY <1>1, <1>3, <2>1, GoesOn
<1>10. CASE MergeReturns(w)
  <2>1. PICK good \in BOOLEAN : worker' = [worker EXCEPT ![w].pc = "settling", ![w].ok = good]
    BY <1>10 DEF MergeReturns
  <2>2. /\ worker[w].pc = "creating" /\ entry' = 0
        /\ UNCHANGED <<chunk, is_merging, loop, cancelled>>
    BY <1>10 DEF MergeReturns
  <2>3. worker[w] \in Merges
    BY <1>1, <2>2, JobFields
  <2> DEFINE x == [worker[w] EXCEPT !.pc = "settling", !.ok = good]
  <2>4. worker' = [worker EXCEPT ![w] = x] /\ x \in Jobs /\ x.pc = "settling"
    BY <1>1, <2>1, <2>3 DEF Merges, Jobs
  <2>5. x.pc # "creating" /\ ~Owes(x) /\ ~Owes(worker[w])
    BY <2>2, <2>4 DEF Owes
  <2> HIDE DEF x
  <2> QED BY <2>2, <2>4, <2>5, GoesOn
<1>11. CASE SuccessMerges(w)
  BY <1>11, TransferMerges
<1> QED BY <1>4, <1>5, <1>6, <1>7, <1>8, <1>9, <1>10, <1>11 DEF WorkerStep

\* Every step keeps the invariant.
LEMMA NextUpload == UploadInv /\ [Next]_vars => UploadInv'
<1> SUFFICES ASSUME UploadInv, [Next]_vars PROVE UploadInv'
  OBVIOUS
<1>1. CASE UNCHANGED vars
  <2>1. UNCHANGED <<worker, chunk, is_merging, loop, entry, cancelled>>
    BY <1>1 DEF vars, task, registry, execution
  <2> QED BY <2>1, QuietKeeps DEF UploadInv, Shapes
<1> QED BY <1>1, ManagerKeeps, PrepKeeps, LoopKeeps, WorkerKeeps DEF Next

\* Merging is counted by at most one transfer, and by the loop only without one.
LEMMA MergeCounts == UploadInv => OneMergePerRun
<1> SUFFICES ASSUME UploadInv, NEW r \in Runs
             PROVE  Cardinality(Merging(r)) + (IF LoopMerging(r) THEN 1 ELSE 0) <= 1
  BY DEF OneMergePerRun
<1>1. CASE Merging(r) = {}
  <2>1. Cardinality(Merging(r)) = 0
    BY <1>1, FS_EmptySet
  <2> QED BY <2>1
<1>2. CASE Merging(r) # {}
  <2>1. PICK w \in Merging(r) : TRUE
    BY <1>2
  <2>2. Merging(r) = {w}
    BY <2>1 DEF Merging, UploadInv, MergeInv
  <2>3. Cardinality({w}) = 1
    BY FS_Singleton
  <2>4. ~LoopMerging(r)
    BY <2>1 DEF Merging, LoopMerging, UploadInv, MergeInv
  <2> QED BY <2>2, <2>3, <2>4
<1> QED BY <1>1, <1>2

\* What owes a mark is what holds the chunk.
LEMMA MarkCounts == UploadInv => NoChunkStranded
<1> SUFFICES ASSUME UploadInv, ~cancelled, NEW r \in Runs, NEW c \in Chunks,
                    chunk[r][c] = "uploading"
             PROVE  Cardinality({w \in Workers : Holds(w, r, c)}) = 1
  BY DEF NoChunkStranded
<1>1. \A w \in Workers : Holds(w, r, c) <=> /\ Owes(worker[w])
                                          /\ worker[w].run = r /\ worker[w].chunk = c
  <2>1. \A w \in Workers : worker[w].pc \in {"idle", "queued", "sending", "sent", "failed",
                                "succeeded", "erred", "failing", "creating", "settling"}
    BY DEF UploadInv, Shapes, Jobs, Sends, Merges, Idle
  <2> QED BY <2>1 DEF Holds, Owes
<1>2. PICK w \in Workers : Owes(worker[w]) /\ worker[w].run = r /\ worker[w].chunk = c
  BY DEF UploadInv, MarkInv
<1>3. {v \in Workers : Holds(v, r, c)} = {w}
  BY <1>1, <1>2 DEF UploadInv, MarkInv
<1> QED BY <1>3, FS_Singleton

\* OneMergePerRun holds in every behaviour: the loop and the transfers that find the last
\* chunk done never call create_file twice for one registration, however pauses, resumes,
\* preemptions and the merges of older registrations interleave.
THEOREM MergedOnce == Spec => []OneMergePerRun
<1>1. Init => UploadInv
  BY InitUpload
<1>2. UploadInv /\ [Next]_vars => UploadInv'
  BY NextUpload
<1>3. UploadInv => OneMergePerRun
  BY MergeCounts
<1> QED BY <1>1, <1>2, <1>3, PTL DEF Spec

\* NoChunkStranded holds in every behaviour: until the task is cancelled no failure, refusal
\* or later registration leaves a chunk marked uploading with nobody to clear the mark.
THEOREM MarksOwed == Spec => []NoChunkStranded
<1>1. Init => UploadInv
  BY InitUpload
<1>2. UploadInv /\ [Next]_vars => UploadInv'
  BY NextUpload
<1>3. UploadInv => NoChunkStranded
  BY MarkCounts
<1> QED BY <1>1, <1>2, <1>3, PTL DEF Spec
=============================================================================
