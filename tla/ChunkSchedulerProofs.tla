------------------------- MODULE ChunkSchedulerProofs -------------------------
(***************************************************************************)
(* Proofs about ChunkScheduler, for any number of chunks, transfers and    *)
(* runs and all limits: the counters are exact, no chunk is stranded, no   *)
(* limit is passed unnoticed, and a run is finalized when it is whole.     *)
(***************************************************************************)
EXTENDS ChunkScheduler, FiniteSetTheorems, TLAPS

Marks  == [completed : BOOLEAN, downloading : BOOLEAN, deferred : BOOLEAN,
           cooling : BOOLEAN, retries : Nat]
Turns  == [pc : LoopPC, run : Runs \cup {NoRun}, left : Int]
Errors == {"none", "Refused", "Cancelled", "Transient", "Fatal"}
Jobs   == [pc : WorkerPC, run : Runs \cup {NoRun}, chunk : 0..NChunks, error : Errors,
           count : Nat]

\* The part of the types the invariants need.
Shapes ==
    /\ registered \in Runs \cup {NoRun} /\ started \in 0..MaxRuns
    /\ cancelled \in [Runs -> BOOLEAN]
    /\ chunk \in [Runs -> [Chunks -> Marks]]
    /\ task_active \in [Runs -> Int] /\ active_chunk_count \in Int
    /\ failures \in [Runs -> Nat]
    /\ worker \in [Workers -> Jobs]
    /\ loop \in Turns
    /\ finalizing \subseteq Runs

\* Nobody works on a run that was not started yet.
Begun ==
    /\ registered \in 0..started
    /\ \A w \in Workers : worker[w].pc # "idle" =>
          worker[w].run \in 1..started /\ worker[w].chunk \in Chunks
    /\ loop.pc \notin {"round", "fetch"} => loop.run \in 1..started
    /\ finalizing \subseteq 1..started

\* A transfer that will still clear the mark of its chunk.
Owes(x) == \/ x.pc \in {"permit", "unmark", "transfer"}
           \/ /\ x.pc \in {"ended", "counted", "result", "blame"}
              /\ x.error \in {"Cancelled", "Transient", "Fatal"}

MarkInv ==
    \A r \in Runs : \A k \in Chunks :
        chunk[r][k].downloading /\ ~cancelled[r]
        => \E w \in Workers : Owes(worker[w]) /\ worker[w].run = r /\ worker[w].chunk = k

\* While the failures of a run are at the limit, the transfer that added the last of
\* them has not compared yet.
LimitInv ==
    \A r \in Runs :
        failures[r] >= FailureLimit /\ ~cancelled[r]
        => \E w \in Workers : /\ worker[w].pc \in {"limit", "swap"}
                              /\ worker[w].run = r /\ worker[w].count = failures[r]

\* Between the loop's look at the chunks and at the count, and afterwards, the run it
\* has in hand stays as it was seen.
Ended(r) == \A w \in Workers : worker[w].run = r => ~HasTask(w)
Whole(r) == Remaining(r) = {} /\ Ended(r)
WholeInv ==
    /\ \A r \in finalizing : Whole(r)
    /\ loop.pc \in {"done", "finish"} => Remaining(loop.run) = {}
    /\ loop.pc = "finish" => Ended(loop.run)

Known == Shapes /\ Begun

\* What the loop hands to a transfer.
Sent(r, k) == [Idle EXCEPT !.pc = "permit", !.run = r, !.chunk = k]

-----------------------------------------------------------------------------
(* Types                                                                   *)

\* At the start everything is of its type, and nothing has begun.
LEMMA InitKnown == Init => Known
<1> SUFFICES ASSUME Init PROVE Known
  OBVIOUS
<1>1. MaxRuns \in Nat /\ NChunks \in Nat
  BY SchedulerAssumption
<1>2. Fresh \in Marks /\ Idle \in Jobs /\ Idle.pc = "idle"
  BY <1>1 DEF Fresh, Marks, Idle, Jobs, WorkerPC, Errors
<1>3. Waiting \in Turns /\ Waiting.pc = "round"
  BY DEF Waiting, LoopPC, Turns
<1>4. Shapes
  BY <1>1, <1>2, <1>3 DEF Init, Shapes
<1>5. Begun
  BY <1>1, <1>2, <1>3 DEF Init, Begun, NoRun
<1> QED BY <1>4, <1>5 DEF Known

\* A transfer that takes a step keeps its run and its chunk, or leaves.
LEMMA TransferMoves ==
    ASSUME Known, NEW w \in Workers, Transfer(w)
    PROVE  /\ worker[w].pc # "idle"
           /\ \E x \in Jobs : /\ worker' = [worker EXCEPT ![w] = x]
                              /\ x.pc # "idle" => x.run = worker[w].run /\ x.chunk = worker[w].chunk
<1> DEFINE r == worker[w].run
<1>1. /\ worker \in [Workers -> Jobs] /\ worker[w] \in Jobs /\ Idle \in Jobs /\ Idle.pc = "idle"
      /\ MaxRuns \in Nat /\ NChunks \in Nat
  BY SchedulerAssumption DEF Known, Shapes, Idle, Jobs, WorkerPC, Errors
<1>2. worker[w].pc # "idle"
  BY DEF Transfer, Permit, NoPermit, Unmark, Succeed, Fail, GiveGlobal, GiveTask, ResultOk,
         ResultError, Blame, Defer, Add, AtLimit, Swap, Of
<1>3. r \in Runs /\ failures \in [Runs -> Nat] /\ failures[r] \in Nat
  BY <1>2, SchedulerAssumption DEF Known, Shapes, Begun, Runs
<1>4. \/ \E pc \in WorkerPC, e \in Errors : worker' = [worker EXCEPT ![w].pc = pc, ![w].error = e]
      \/ \E pc \in WorkerPC, n \in Nat : worker' = [worker EXCEPT ![w].pc = pc, ![w].count = n]
      \/ \E pc \in WorkerPC : worker' = [worker EXCEPT ![w].pc = pc]
      \/ worker' = [worker EXCEPT ![w] = Idle]
  <2>1. CASE Permit(w) \/ Unmark(w) \/ Succeed(w) \/ GiveGlobal(w) \/ GiveTask(w) \/ ResultOk(w)
             \/ ResultError(w) \/ Blame(w) \/ Defer(w) \/ AtLimit(w) \/ Swap(w)
    <3>1. \/ \E pc \in WorkerPC : Move(w, pc)
          \/ Leave(w)
      BY <2>1 DEF Permit, Unmark, Succeed, GiveGlobal, GiveTask, ResultOk, ResultError, Blame,
                  Defer, AtLimit, Swap, WorkerPC
    <3> QED BY <3>1 DEF Move, Leave
  <2>2. CASE NoPermit(w)
    BY <2>2 DEF NoPermit, WorkerPC, Errors
  <2>3. CASE Fail(w)
    BY <2>3 DEF Fail, WorkerPC, Errors
  <2>4. CASE Add(w)
    <3>1. failures'[r] \in Nat
      BY <1>3, <2>4 DEF Add
    <3>2. \/ worker' = [worker EXCEPT ![w] = Idle]
          \/ worker' = [worker EXCEPT ![w] = [worker[w] EXCEPT !.pc = "limit", !.count = failures'[r]]]
      BY <2>4 DEF Add
    <3>3. "limit" \in WorkerPC
      BY DEF WorkerPC
    <3> HIDE DEF r
    <3>4. [worker EXCEPT ![w] = [worker[w] EXCEPT !.pc = "limit", !.count = failures'[r]]]
            = [worker EXCEPT ![w].pc = "limit", ![w].count = failures'[r]]
      OBVIOUS
    <3> QED BY <3>1, <3>2, <3>3, <3>4
  <2> QED BY <2>1, <2>2, <2>3, <2>4 DEF Transfer
<1>5. ASSUME NEW pc \in WorkerPC, NEW e \in Errors, NEW n \in Nat
      PROVE  /\ [worker[w] EXCEPT !.pc = pc, !.error = e] \in Jobs
             /\ [worker[w] EXCEPT !.pc = pc, !.count = n] \in Jobs
             /\ [worker[w] EXCEPT !.pc = pc] \in Jobs
  BY <1>1 DEF Jobs
<1>6. CASE \E pc \in WorkerPC, e \in Errors : worker' = [worker EXCEPT ![w].pc = pc, ![w].error = e]
  <2>1. PICK pc \in WorkerPC, e \in Errors : worker' = [worker EXCEPT ![w].pc = pc, ![w].error = e]
    BY <1>6
  <2> DEFINE x == [worker[w] EXCEPT !.pc = pc, !.error = e]
  <2>2. x \in Jobs /\ x.run = worker[w].run /\ x.chunk = worker[w].chunk
    BY <1>1, <1>5 DEF Jobs
  <2>3. worker' = [worker EXCEPT ![w] = x]
    BY <2>1
  <2> QED BY <1>2, <2>2, <2>3
<1>7. CASE \E pc \in WorkerPC, n \in Nat : worker' = [worker EXCEPT ![w].pc = pc, ![w].count = n]
  <2>1. PICK pc \in WorkerPC, n \in Nat : worker' = [worker EXCEPT ![w].pc = pc, ![w].count = n]
    BY <1>7
  <2> DEFINE x == [worker[w] EXCEPT !.pc = pc, !.count = n]
  <2>2. x \in Jobs
    <3>1. "none" \in Errors
      BY DEF Errors
    <3> QED BY <3>1, <1>5
  <2>4. x.run = worker[w].run /\ x.chunk = worker[w].chunk
    BY <1>1 DEF Jobs
  <2>3. worker' = [worker EXCEPT ![w] = x]
    BY <2>1
  <2> QED BY <1>2, <2>2, <2>3, <2>4
<1>8. CASE \E pc \in WorkerPC : worker' = [worker EXCEPT ![w].pc = pc]
  <2>1. PICK pc \in WorkerPC : worker' = [worker EXCEPT ![w].pc = pc]
    BY <1>8
  <2> DEFINE x == [worker[w] EXCEPT !.pc = pc]
  <2>2. x \in Jobs /\ x.run = worker[w].run /\ x.chunk = worker[w].chunk
    BY <1>1 DEF Jobs
  <2>3. worker' = [worker EXCEPT ![w] = x]
    BY <2>1
  <2> QED BY <1>2, <2>2, <2>3
<1>9. CASE worker' = [worker EXCEPT ![w] = Idle]
  BY <1>1, <1>2, <1>9
<1> QED BY <1>4, <1>6, <1>7, <1>8, <1>9

\* A transfer that takes a step touches no other one, and keeps its type.
LEMMA TransferFrame ==
    ASSUME Known, NEW w \in Workers, Transfer(w)
    PROVE  /\ worker[w].pc # "idle" /\ worker[w].run \in 1..started
           /\ worker[w].run \in Runs /\ worker[w].chunk \in Chunks
           /\ worker' \in [Workers -> Jobs]
           /\ \A v \in Workers : v # w => worker'[v] = worker[v]
           /\ worker'[w].pc # "idle" => /\ worker'[w].run = worker[w].run
                                        /\ worker'[w].chunk = worker[w].chunk
<1>1. /\ worker[w].pc # "idle"
      /\ \E x \in Jobs : /\ worker' = [worker EXCEPT ![w] = x]
                         /\ x.pc # "idle" => x.run = worker[w].run /\ x.chunk = worker[w].chunk
  BY TransferMoves
<1>2. worker \in [Workers -> Jobs] /\ started \in 0..MaxRuns /\ MaxRuns \in Nat
  BY SchedulerAssumption DEF Known, Shapes
<1>3. worker[w].run \in 1..started /\ worker[w].chunk \in Chunks
  BY <1>1 DEF Known, Begun
<1>4. worker[w].run \in Runs
  BY <1>2, <1>3 DEF Runs
<1>5. PICK x \in Jobs : /\ worker' = [worker EXCEPT ![w] = x]
                       /\ x.pc # "idle" => x.run = worker[w].run /\ x.chunk = worker[w].chunk
  BY <1>1
<1> QED BY <1>1, <1>2, <1>3, <1>4, <1>5

\* Where a transfer is after it moves on, or leaves.
LEMMA TransferPlace ==
    ASSUME Known, NEW w \in Workers, NEW pc
    PROVE  /\ Move(w, pc) => /\ worker'[w].pc = pc /\ worker'[w].error = worker[w].error
                             /\ worker'[w].count = worker[w].count
           /\ Leave(w) => worker'[w].pc = "idle"
<1>1. worker \in [Workers -> Jobs] /\ worker[w] \in Jobs
  BY DEF Known, Shapes
<1>2. /\ [worker[w] EXCEPT !.pc = pc].pc = pc /\ [worker[w] EXCEPT !.pc = pc].error = worker[w].error
      /\ [worker[w] EXCEPT !.pc = pc].count = worker[w].count
  BY <1>1 DEF Jobs
<1>3. Move(w, pc) => worker'[w] = [worker[w] EXCEPT !.pc = pc]
  BY <1>1 DEF Move
<1>4. Leave(w) => worker'[w].pc = "idle"
  BY <1>1 DEF Leave, Idle
<1> QED BY <1>2, <1>3, <1>4

\* A transfer completes chunks and clears marks, and does neither the other way.
LEMMA TransferChunks ==
    ASSUME Known, NEW w \in Workers, Transfer(w)
    PROVE  /\ chunk' \in [Runs -> [Chunks -> Marks]]
           /\ \A r \in Runs, k \in Chunks :
                /\ chunk[r][k].completed => chunk'[r][k].completed
                /\ chunk'[r][k].downloading => chunk[r][k].downloading
           /\ Unmark(w) \/ Succeed(w) \/ Blame(w) \/ Defer(w)
              => ~chunk'[worker[w].run][worker[w].chunk].downloading
<1> DEFINE r == worker[w].run
           k == worker[w].chunk
<1>1. r \in Runs /\ k \in Chunks /\ chunk \in [Runs -> [Chunks -> Marks]]
  BY TransferFrame DEF Known, Shapes
<1>2. Held(w) = chunk[r][k] /\ Held(w) \in Marks
  BY <1>1 DEF Held
<1>3. \/ chunk' = chunk /\ ~(Unmark(w) \/ Succeed(w) \/ Blame(w) \/ Defer(w))
      \/ \E c \in Marks : /\ chunk' = [chunk EXCEPT ![r][k] = c]
                          /\ ~c.downloading
                          /\ Held(w).completed => c.completed
  <2>1. CASE Unmark(w) \/ Succeed(w) \/ Defer(w)
    <3> DEFINE c1 == [Held(w) EXCEPT !.downloading = FALSE]
               c2 == [Held(w) EXCEPT !.completed = TRUE, !.downloading = FALSE]
               c3 == [Held(w) EXCEPT !.deferred = TRUE, !.downloading = FALSE, !.cooling = FALSE]
    <3>1. /\ c1 \in Marks /\ ~c1.downloading /\ (Held(w).completed => c1.completed)
          /\ c2 \in Marks /\ ~c2.downloading /\ (Held(w).completed => c2.completed)
          /\ c3 \in Marks /\ ~c3.downloading /\ (Held(w).completed => c3.completed)
      BY <1>2 DEF Marks
    <3>2. \/ chunk' = [chunk EXCEPT ![r][k] = c1]
          \/ chunk' = [chunk EXCEPT ![r][k] = c2]
          \/ chunk' = [chunk EXCEPT ![r][k] = c3]
      BY <2>1 DEF Unmark, Succeed, Defer, SetHeld
    <3> HIDE DEF c1, c2, c3, r, k
    <3> QED BY <3>1, <3>2
  <2>2. CASE Blame(w)
    <3> DEFINE fatal == worker[w].error = "Fatal"
               n == Held(w).retries + 1
               c == [Held(w) EXCEPT !.downloading = FALSE, !.retries = n,
                                    !.deferred = fatal, !.cooling = ~fatal]
    <3>1. n \in Nat
      BY <1>2 DEF Marks
    <3>2. fatal \in BOOLEAN /\ (~fatal) \in BOOLEAN
      OBVIOUS
    <3>3. chunk' = [chunk EXCEPT ![r][k] = c]
      BY <2>2 DEF Blame, SetHeld
    <3> HIDE DEF n, fatal
    <3>4. c \in Marks /\ ~c.downloading /\ (Held(w).completed => c.completed)
      BY <1>2, <3>1, <3>2 DEF Marks
    <3> HIDE DEF c, r, k
    <3> QED BY <3>3, <3>4
  <2>3. CASE ~(Unmark(w) \/ Succeed(w) \/ Blame(w) \/ Defer(w))
    BY <2>3 DEF Transfer, Permit, NoPermit, Fail, GiveGlobal, GiveTask, ResultOk,
               ResultError, Add, AtLimit, Swap
  <2> QED BY <2>1, <2>2, <2>3
<1>4. CASE chunk' = chunk /\ ~(Unmark(w) \/ Succeed(w) \/ Blame(w) \/ Defer(w))
  BY <1>1, <1>4
<1>5. ASSUME NEW c \in Marks, chunk' = [chunk EXCEPT ![r][k] = c],
             ~c.downloading, Held(w).completed => c.completed
      PROVE  /\ chunk' \in [Runs -> [Chunks -> Marks]]
             /\ \A q \in Runs, j \in Chunks :
                  /\ chunk[q][j].completed => chunk'[q][j].completed
                  /\ chunk'[q][j].downloading => chunk[q][j].downloading
             /\ ~chunk'[r][k].downloading
  <2>1. chunk' = [chunk EXCEPT ![r] = [chunk[r] EXCEPT ![k] = c]]
    BY <1>5
  <2> HIDE DEF r, k
  <2>2. [chunk[r] EXCEPT ![k] = c] \in [Chunks -> Marks]
    BY <1>1
  <2>3. chunk' \in [Runs -> [Chunks -> Marks]]
    BY <1>1, <2>1, <2>2
  <2>4. \A q \in Runs, j \in Chunks : chunk'[q][j] = IF q = r /\ j = k THEN c ELSE chunk[q][j]
    BY <1>1, <2>1, <2>2
  <2>5. chunk[r][k].completed => c.completed
    BY <1>2, <1>5
  <2> QED BY <1>1, <1>5, <2>3, <2>4, <2>5
<1> HIDE DEF r, k
<1>6. CASE \E c \in Marks : /\ chunk' = [chunk EXCEPT ![r][k] = c]
                            /\ ~c.downloading
                            /\ Held(w).completed => c.completed
  BY <1>5, <1>6 DEF r, k
<1> QED BY <1>3, <1>4, <1>6 DEF r, k

\* Thawing the deferred chunks completes none and marks none.
LEMMA ThawMoves ==
    ASSUME NEW cs \in [Chunks -> Marks]
    PROVE  /\ UndeferAll(cs) \in [Chunks -> Marks]
           /\ \A k \in Chunks : /\ UndeferAll(cs)[k].completed = cs[k].completed
                                /\ UndeferAll(cs)[k].downloading = cs[k].downloading
<1>1. \A k \in Chunks : cs[k] \in Marks
  OBVIOUS
<1>2. ASSUME NEW c \in Marks
      PROVE  LET d == [c EXCEPT !.deferred = FALSE, !.retries = 0, !.cooling = FALSE]
             IN  d \in Marks /\ d.completed = c.completed /\ d.downloading = c.downloading
  BY DEF Marks
<1> QED BY <1>1, <1>2 DEF UndeferAll

\* A dispatch marks one chunk that is not complete and gives it to one idle transfer.
LEMMA DispatchMoves ==
    ASSUME Known, At("pick"), NEW cs \in [Chunks -> Marks], NEW k \in Chunks, Dispatch(k, cs),
           ~cs[k].completed,
           \A j \in Chunks : /\ cs[j].completed = chunk[loop.run][j].completed
                             /\ cs[j].downloading = chunk[loop.run][j].downloading
    PROVE  /\ chunk' \in [Runs -> [Chunks -> Marks]]
           /\ \A r \in Runs, j \in Chunks :
                /\ chunk'[r][j].completed = chunk[r][j].completed
                /\ chunk'[r][j].downloading
                   => chunk[r][j].downloading \/ (r = loop.run /\ j = k)
           /\ loop' \in Turns /\ loop'.pc \in {"round", "fetch"}
           /\ loop.run \in Runs /\ loop.run \in 1..started
           /\ active_chunk_count' = active_chunk_count + 1
           /\ task_active' = [task_active EXCEPT ![loop.run] = @ + 1]
           /\ \E w \in Workers : /\ worker[w] = Idle
                                 /\ worker' = [worker EXCEPT ![w] = Sent(loop.run, k)]
<1>1. /\ loop \in Turns /\ chunk \in [Runs -> [Chunks -> Marks]]
      /\ started \in 0..MaxRuns /\ MaxRuns \in Nat
  BY SchedulerAssumption DEF Known, Shapes
<1>2. loop.run \in 1..started /\ loop.run \in Runs
  BY <1>1 DEF At, Known, Begun, Runs
<1> DEFINE r == loop.run
           c == [cs[k] EXCEPT !.downloading = TRUE]
<1>3. chunk' = [chunk EXCEPT ![r] = [cs EXCEPT ![k] = c]]
  BY DEF Dispatch
<1>4. c \in Marks /\ c.completed = cs[k].completed
  BY DEF Marks
<1>5. loop' \in Turns /\ loop'.pc \in {"round", "fetch"}
  BY <1>1 DEF Dispatch, Turns, EndRound, Waiting, LoopPC
<1> HIDE DEF c
<1>6. [cs EXCEPT ![k] = c] \in [Chunks -> Marks]
  BY <1>4
<1>7. chunk' \in [Runs -> [Chunks -> Marks]]
  BY <1>1, <1>3, <1>6
<1>8. \A q \in Runs, j \in Chunks :
        chunk'[q][j] = IF q = r THEN (IF j = k THEN c ELSE cs[j]) ELSE chunk[q][j]
  BY <1>1, <1>2, <1>3, <1>6
<1>9. \A q \in Runs, j \in Chunks :
        /\ chunk'[q][j].completed = chunk[q][j].completed
        /\ chunk'[q][j].downloading => chunk[q][j].downloading \/ (q = r /\ j = k)
  BY <1>4, <1>8
<1> QED BY <1>2, <1>5, <1>7, <1>9 DEF Dispatch, Sent

\* A pick dispatches, or thaws chunks and sends the loop to look whether all is done.
LEMMA PickMoves ==
    ASSUME Known, PickReady \/ PickThawed
    PROVE  /\ At("pick")
           /\ \/ \E k \in Chunks, cs \in [Chunks -> Marks] :
                   /\ Dispatch(k, cs) /\ ~cs[k].completed
                   /\ \A j \in Chunks : /\ cs[j].completed = chunk[loop.run][j].completed
                                        /\ cs[j].downloading = chunk[loop.run][j].downloading
              \/ /\ UNCHANGED <<cnt_vars, worker>> /\ loop' = [loop EXCEPT !.pc = "none"]
                 /\ chunk' \in [Runs -> [Chunks -> Marks]]
                 /\ \A r \in Runs, j \in Chunks :
                      /\ chunk'[r][j].completed = chunk[r][j].completed
                      /\ chunk'[r][j].downloading = chunk[r][j].downloading
<1>1. At("pick")
  BY DEF PickReady, PickThawed
<1>2. loop.run \in Runs /\ chunk \in [Runs -> [Chunks -> Marks]]
  BY <1>1, SchedulerAssumption DEF Known, Shapes, Begun, At, Runs
<1> DEFINE cs == chunk[loop.run]
           th == UndeferAll(cs)
<1>3. cs \in [Chunks -> Marks]
  BY <1>2
<1>4. /\ th \in [Chunks -> Marks]
      /\ \A j \in Chunks : /\ th[j].completed = cs[j].completed
                           /\ th[j].downloading = cs[j].downloading
  BY <1>3, ThawMoves
<1>5. CASE PickReady
  <2>1. PICK k \in Lowest(Ready(cs)) : Dispatch(k, cs)
    BY <1>5 DEF PickReady
  <2>2. k \in Chunks /\ ~cs[k].completed
    BY DEF Lowest, Ready
  <2> QED BY <1>1, <1>3, <2>1, <2>2
<1>6. CASE PickThawed /\ ReadyOrCooling(th) # {}
  <2> HIDE DEF th
  <2>1. PICK k \in Lowest(ReadyOrCooling(th)) : Dispatch(k, th)
    BY <1>6 DEF PickThawed, th
  <2>2. k \in Chunks /\ ~th[k].completed
    BY DEF Lowest, ReadyOrCooling
  <2> QED BY <1>1, <1>4, <2>1, <2>2
<1>7. CASE PickThawed /\ ReadyOrCooling(th) = {}
  <2>1. /\ chunk' = [chunk EXCEPT ![loop.run] = th] /\ LoopTo("none")
        /\ UNCHANGED <<cnt_vars, worker>>
    BY <1>7 DEF PickThawed
  <2> HIDE DEF th
  <2>2. \A r \in Runs : chunk'[r] = IF r = loop.run THEN th ELSE chunk[r]
    BY <1>2, <2>1
  <2>3. chunk' \in [Runs -> [Chunks -> Marks]]
    BY <1>2, <1>4, <2>1
  <2> QED BY <1>1, <1>4, <2>1, <2>2, <2>3 DEF LoopTo
<1> QED BY <1>5, <1>6, <1>7

\* A transfer leaves the manager's side and the loop alone.
LEMMA TransferKeeps ==
    ASSUME NEW w \in Workers, Transfer(w)
    PROVE  UNCHANGED <<registered, started, cancelled, loop, finalizing>>
BY DEF Transfer, Permit, NoPermit, Unmark, Succeed, Fail, GiveGlobal, GiveTask, ResultOk,
       ResultError, Blame, Defer, Add, AtLimit, Swap, run_vars

\* A transfer keeps the types.
LEMMA TransferKnown ==
    ASSUME Known, NEW w \in Workers, Transfer(w)
    PROVE  Known'
<1> DEFINE r == worker[w].run
<1>1. UNCHANGED <<registered, started, cancelled, loop, finalizing>>
  BY TransferKeeps
<1>2. /\ r \in Runs /\ r \in 1..started /\ worker[w].chunk \in Chunks
      /\ worker' \in [Workers -> Jobs]
      /\ \A v \in Workers : v # w => worker'[v] = worker[v]
      /\ worker'[w].pc # "idle" => worker'[w].run = r /\ worker'[w].chunk = worker[w].chunk
  BY TransferFrame
<1>3. chunk' \in [Runs -> [Chunks -> Marks]]
  BY TransferChunks
<1>4. /\ task_active \in [Runs -> Int] /\ active_chunk_count \in Int
      /\ failures \in [Runs -> Nat]
  BY DEF Known, Shapes
<1> HIDE DEF r
<1>5. task_active' \in [Runs -> Int] /\ active_chunk_count' \in Int
  <2>1. CASE GiveGlobal(w)
    BY <1>4, <2>1 DEF GiveGlobal
  <2>2. CASE GiveTask(w)
    BY <1>2, <1>4, <2>2 DEF GiveTask, r
  <2> QED BY <1>4, <2>1, <2>2 DEF Transfer, Permit, NoPermit, Unmark, Succeed, Fail, ResultOk,
               ResultError, Blame, Defer, Add, AtLimit, Swap, cnt_vars
<1>6. failures' \in [Runs -> Nat]
  <2>1. CASE Add(w)
    BY <1>2, <1>4, <2>1 DEF Add, r
  <2>2. CASE Swap(w)
    BY <1>2, <1>4, <2>2 DEF Swap, r
  <2>3. CASE ResultOk(w)
    BY <1>2, <1>4, <2>3 DEF ResultOk, r
  <2> QED BY <1>4, <2>1, <2>2, <2>3 DEF Transfer, Permit, NoPermit, Unmark, Succeed, Fail,
               GiveGlobal, GiveTask, ResultError, Blame, Defer, AtLimit
<1>7. Shapes'
  BY <1>1, <1>2, <1>3, <1>5, <1>6 DEF Known, Shapes, Runs, Chunks, Marks, Jobs, Turns
<1>8. Begun'
  BY <1>1, <1>2 DEF Known, Begun, Chunks
<1> QED BY <1>7, <1>8 DEF Known

\* The loop keeps the types.
LEMMA LoopKnown ==
    ASSUME Known, Loop
    PROVE  Known'
<1>1. /\ registered \in Runs \cup {NoRun} /\ started \in 0..MaxRuns /\ registered \in 0..started
      /\ cancelled \in [Runs -> BOOLEAN] /\ chunk \in [Runs -> [Chunks -> Marks]]
      /\ task_active \in [Runs -> Int] /\ active_chunk_count \in Int
      /\ loop \in Turns /\ finalizing \subseteq 1..started
      /\ MaxRuns \in Nat /\ MaxThreads \in Nat
      /\ loop.pc \notin {"round", "fetch"} => loop.run \in 1..started
  BY SchedulerAssumption DEF Known, Shapes, Begun
<1>2. Waiting \in Turns /\ Waiting.pc = "round"
  BY DEF Turns, Waiting, LoopPC
<1>3. ASSUME NEW pc \in LoopPC PROVE [loop EXCEPT !.pc = pc] \in Turns
  BY <1>1 DEF Turns
<1>4. CASE PickReady \/ PickThawed
  <2>1. At("pick") /\ UNCHANGED <<run_vars, failures, finalizing>>
    BY <1>4 DEF PickReady, PickThawed
  <2>2. loop.run \in 1..started /\ loop.run \in Runs
    BY <1>1, <2>1 DEF At, Runs
  <2>3. CASE /\ UNCHANGED <<cnt_vars, worker>> /\ loop' = [loop EXCEPT !.pc = "none"]
             /\ chunk' \in [Runs -> [Chunks -> Marks]]
    <3>1. loop' \in Turns /\ loop'.run = loop.run
      BY <1>1, <1>3, <2>3 DEF Turns, LoopPC
    <3> QED BY <2>1, <2>2, <2>3, <3>1 DEF Known, Shapes, Begun, run_vars, cnt_vars
  <2>4. ASSUME NEW k \in Chunks, NEW cs \in [Chunks -> Marks], Dispatch(k, cs), ~cs[k].completed,
               \A j \in Chunks : /\ cs[j].completed = chunk[loop.run][j].completed
                                 /\ cs[j].downloading = chunk[loop.run][j].downloading
        PROVE  Known'
    <3>1. /\ chunk' \in [Runs -> [Chunks -> Marks]]
          /\ loop' \in Turns /\ loop'.pc \in {"round", "fetch"}
          /\ active_chunk_count' = active_chunk_count + 1
          /\ task_active' = [task_active EXCEPT ![loop.run] = @ + 1]
      BY <2>1, <2>4, DispatchMoves
    <3>2. PICK w \in Workers : worker' = [worker EXCEPT ![w] = Sent(loop.run, k)]
      BY <2>1, <2>4, DispatchMoves
    <3>3. /\ Sent(loop.run, k) \in Jobs /\ Sent(loop.run, k).run = loop.run
          /\ Sent(loop.run, k).chunk = k
      <4>1. loop.run \in Runs \cup {NoRun} /\ k \in 0..NChunks
        BY <2>2, SchedulerAssumption DEF Chunks
      <4>2. "permit" \in WorkerPC /\ "none" \in Errors /\ 0 \in Nat
        BY DEF WorkerPC, Errors
      <4>3. ASSUME NEW x \in Jobs
            PROVE  LET y == [x EXCEPT !.pc = "permit", !.run = loop.run, !.chunk = k]
                   IN  y \in Jobs /\ y.run = loop.run /\ y.chunk = k
        BY <4>1, <4>2 DEF Jobs
      <4>4. Idle \in Jobs
        BY SchedulerAssumption DEF Idle, Jobs, WorkerPC, Errors
      <4> QED BY <4>3, <4>4 DEF Sent
    <3>4. /\ active_chunk_count' \in Int /\ task_active' \in [Runs -> Int]
      BY <1>1, <2>2, <3>1
    <3>5. worker \in [Workers -> Jobs]
      BY DEF Known, Shapes
    <3>6. worker' \in [Workers -> Jobs]
      BY <3>2, <3>3, <3>5
    <3>7. Shapes'
      BY <2>1, <3>1, <3>4, <3>6 DEF Known, Shapes, run_vars
    <3>8. \A v \in Workers : worker'[v].pc # "idle" =>
             worker'[v].run \in 1..started /\ worker'[v].chunk \in Chunks
      BY <2>2, <3>2, <3>3, <3>5 DEF Known, Begun
    <3>9. Begun'
      BY <2>1, <3>1, <3>8 DEF Known, Begun, run_vars
    <3> QED BY <3>7, <3>9 DEF Known
  <2> QED BY <1>4, <2>3, <2>4, PickMoves
<1>5. CASE ~(PickReady \/ PickThawed)
  <2>1. UNCHANGED <<started, chunk, cnt_vars, failures, worker>>
    BY <1>5 DEF Loop, StartRound, Fetch, Check, Evict, PickNone, AllDone, CountTransfers,
                LookForCooling, RequeueSlow, Finish, run_vars
  <2>2. /\ loop' \in Turns
        /\ loop'.pc \notin {"round", "fetch"} => loop'.run \in 1..started
    <3>1. CASE StartRound
      BY <1>1, <3>1 DEF StartRound, Turns, LoopPC
    <3>2. CASE Fetch
      <4>1. CASE registered = NoRun
        BY <1>2, <3>2, <4>1 DEF Fetch, EndRound
      <4>2. CASE registered # NoRun
        <5>1. loop' = [loop EXCEPT !.pc = "check", !.run = registered] /\ registered \in 1..started
          BY <1>1, <3>2, <4>2 DEF Fetch, NoRun
        <5> QED BY <1>1, <5>1 DEF Turns, LoopPC
      <4> QED BY <4>1, <4>2
    <3>3. CASE EndRound
      BY <1>2, <3>3 DEF EndRound
    <3>4. ASSUME NEW pc \in LoopPC, LoopTo(pc), loop.pc \notin {"round", "fetch"}
          PROVE  /\ loop' \in Turns
                 /\ loop'.pc \notin {"round", "fetch"} => loop'.run \in 1..started
      BY <1>1, <1>3, <3>4 DEF LoopTo, Turns
    <3>5. CASE Check \/ Evict \/ PickNone \/ AllDone \/ CountTransfers \/ LookForCooling
               \/ RequeueSlow \/ Finish
      <4>1. EndRound \/ \E pc \in LoopPC : LoopTo(pc)
        BY <3>5 DEF Check, Evict, PickNone, AllDone, CountTransfers, LookForCooling,
                    RequeueSlow, Finish, LoopPC
      <4>2. loop.pc \notin {"round", "fetch"}
        BY <3>5 DEF Check, Evict, PickNone, AllDone, CountTransfers, LookForCooling,
                    RequeueSlow, Finish, At
      <4> QED BY <3>3, <3>4, <4>1, <4>2
    <3> QED BY <1>5, <3>1, <3>2, <3>5 DEF Loop
  <2>3. registered' \in 0..started /\ registered' \in Runs \cup {NoRun}
    BY <1>1, <1>5 DEF Loop, StartRound, Fetch, Check, Evict, PickNone, AllDone, CountTransfers,
                LookForCooling, RequeueSlow, Finish, run_vars, NoRun
  <2>4. cancelled' \in [Runs -> BOOLEAN]
    <3>1. CASE Finish
      BY <1>1, <3>1 DEF Finish
    <3> QED BY <1>1, <1>5, <3>1 DEF Loop, StartRound, Fetch, Check, Evict, PickNone, AllDone,
                CountTransfers, LookForCooling, RequeueSlow, run_vars
  <2>5. finalizing' \subseteq 1..started
    <3>1. CASE Finish
      BY <1>1, <3>1 DEF Finish, At
    <3> QED BY <1>1, <1>5, <3>1 DEF Loop, StartRound, Fetch, Check, Evict, PickNone, AllDone,
                CountTransfers, LookForCooling, RequeueSlow
  <2>6. 1..started \subseteq Runs
    BY <1>1 DEF Runs
  <2>7. Shapes'
    BY <1>1, <2>1, <2>2, <2>3, <2>4, <2>5, <2>6 DEF Known, Shapes, cnt_vars
  <2>8. Begun'
    BY <2>1, <2>2, <2>3, <2>5 DEF Known, Begun
  <2> QED BY <2>7, <2>8 DEF Known
<1> QED BY <1>4, <1>5

\* The manager and the clock keep the types.
LEMMA ManagerKnown ==
    ASSUME Known, \/ StartRun \/ Pause \/ Resume \/ HandleRequeue
                  \/ \E r \in Runs : Finalize(r) \/ \E k \in Chunks : Expire(r, k)
    PROVE  Known'
<1>1. /\ registered \in Runs \cup {NoRun} /\ started \in 0..MaxRuns /\ registered \in 0..started
      /\ cancelled \in [Runs -> BOOLEAN] /\ chunk \in [Runs -> [Chunks -> Marks]]
      /\ finalizing \subseteq Runs /\ MaxRuns \in Nat
  BY SchedulerAssumption DEF Known, Shapes, Begun
<1>2. CASE StartRun
  <2> DEFINE r == started + 1
             fresh == [k \in Chunks |-> [Fresh EXCEPT !.completed = k \in saved]]
  <2>1. /\ r \in Runs /\ started' = r /\ registered' = r
        /\ chunk' = [chunk EXCEPT ![r] = fresh]
        /\ UNCHANGED <<cancelled, cnt_vars, failures, worker, loop, finalizing>>
    BY <1>1, <1>2 DEF StartRun, Runs
  <2>2. ASSUME NEW b \in BOOLEAN PROVE [Fresh EXCEPT !.completed = b] \in Marks
    BY DEF Fresh, Marks
  <2>3. \A k \in Chunks : (k \in saved) \in BOOLEAN
    OBVIOUS
  <2>4. fresh \in [Chunks -> Marks]
    BY <2>2, <2>3
  <2> HIDE DEF fresh
  <2>5. Shapes'
    BY <1>1, <2>1, <2>4 DEF Known, Shapes, Runs, cnt_vars
  <2>6. Begun'
    BY <1>1, <2>1 DEF Known, Begun
  <2> QED BY <2>5, <2>6 DEF Known
<1>3. CASE Pause \/ Requeue
  <2>1. /\ UNCHANGED <<started, chunk, cnt_vars, failures, worker, loop, finalizing>>
        /\ registered' \in {registered, NoRun} /\ cancelled' \in [Runs -> BOOLEAN]
    BY <1>1, <1>3 DEF Pause, Requeue
  <2> QED BY <1>1, <2>1 DEF Known, Shapes, Begun, cnt_vars, NoRun
<1>4. CASE Resume \/ RequeueSkipped \/ RequeueExhausted
  BY <1>4 DEF Resume, RequeueSkipped, RequeueExhausted, Known, Shapes, Begun, run_vars, cnt_vars
<1>5. ASSUME NEW r \in Runs, Finalize(r) PROVE Known'
  BY <1>5 DEF Finalize, Known, Shapes, Begun, run_vars, cnt_vars
<1>6. ASSUME NEW r \in Runs, NEW k \in Chunks, Expire(r, k) PROVE Known'
  <2>1. UNCHANGED <<run_vars, cnt_vars, failures, worker, loop, finalizing>>
    BY <1>6 DEF Expire
  <2>2. chunk' = [chunk EXCEPT ![r] = [chunk[r] EXCEPT ![k] = [chunk[r][k] EXCEPT !.cooling = FALSE]]]
    BY <1>6 DEF Expire
  <2>3. [chunk[r][k] EXCEPT !.cooling = FALSE] \in Marks
    <3>1. chunk[r][k] \in Marks
      BY <1>1
    <3> QED BY <3>1 DEF Marks
  <2>4. chunk' \in [Runs -> [Chunks -> Marks]]
    BY <1>1, <2>2, <2>3
  <2> QED BY <2>1, <2>4 DEF Known, Shapes, Begun, run_vars, cnt_vars
<1> QED BY <1>2, <1>3, <1>4, <1>5, <1>6 DEF HandleRequeue

\* Every step keeps the types.
LEMMA StepKnown == Known /\ [Next]_vars => Known'
<1>1. Known /\ UNCHANGED vars => Known'
  BY DEF Known, Shapes, Begun, vars, run_vars, cnt_vars
<1> QED BY <1>1, TransferKnown, LoopKnown, ManagerKnown DEF Next

-----------------------------------------------------------------------------
(* The counters                                                            *)

Global == {w \in Workers : HasGlobal(w)}
Counted(r) == {w \in Workers : worker[w].run = r /\ HasTask(w)}

\* Sets of transfers are finite.
LEMMA FiniteTransfers ==
    ASSUME NEW S \in SUBSET Workers
    PROVE  /\ IsFiniteSet(S) /\ Cardinality(S) \in Nat
           /\ \A w \in S : Cardinality(S \ {w}) = Cardinality(S) - 1
           /\ \A w : w \notin S => Cardinality(S \cup {w}) = Cardinality(S) + 1
<1>1. IsFiniteSet(S)
  BY SchedulerAssumption, FS_Subset
<1> QED BY <1>1, FS_CardinalityType, FS_AddElement, FS_RemoveElement

\* The counters are exact at the start.
LEMMA InitCount == Init => CountersExact
<1> SUFFICES ASSUME Init PROVE CountersExact
  OBVIOUS
<1>1. \A w \in Workers : ~HasGlobal(w) /\ ~HasTask(w)
  BY DEF Init, Idle, HasGlobal, HasTask, Of
<1>2. Cardinality({}) = 0
  BY FS_EmptySet
<1>3. {w \in Workers : HasGlobal(w)} = {}
  BY <1>1
<1>4. \A r \in Runs : {w \in Workers : worker[w].run = r /\ HasTask(w)} = {}
  BY <1>1
<1>5. active_chunk_count = 0 /\ \A r \in Runs : task_active[r] = 0
  BY DEF Init
<1> QED BY <1>2, <1>3, <1>4, <1>5 DEF CountersExact

\* A step that changes neither the counters nor what the transfers have taken.
LEMMA CountsSame ==
    ASSUME CountersExact, UNCHANGED cnt_vars,
           \A w \in Workers : /\ HasGlobal(w)' <=> HasGlobal(w)
                              /\ HasTask(w)' <=> HasTask(w)
                              /\ HasTask(w) => worker'[w].run = worker[w].run
    PROVE  CountersExact'
<1>1. Global' = Global
  BY DEF Global
<1>2. \A r \in Runs : Counted(r)' = Counted(r)
  BY DEF Counted
<1>3. task_active' = task_active /\ active_chunk_count' = active_chunk_count
  BY DEF cnt_vars
<1> QED BY <1>1, <1>2, <1>3 DEF CountersExact, Global, Counted

\* A transfer gives back what it has taken, once.
LEMMA TransferCount ==
    ASSUME Known, CountersExact, NEW w \in Workers, Transfer(w)
    PROVE  CountersExact'
<1>0. PICK r \in Runs : r = worker[w].run
  BY TransferFrame
<1>1. /\ r = worker[w].run
      /\ worker \in [Workers -> Jobs] /\ worker' \in [Workers -> Jobs]
      /\ \A v \in Workers : v # w => worker'[v] = worker[v]
      /\ worker'[w].pc # "idle" => worker'[w].run = r
  BY <1>0, TransferFrame DEF Known, Shapes
<1>2. \A v \in Workers : v # w => /\ HasGlobal(v)' <=> HasGlobal(v)
                                  /\ HasTask(v)' <=> HasTask(v)
  BY <1>1 DEF HasGlobal, HasTask, Of
<1>3. /\ task_active \in [Runs -> Int] /\ active_chunk_count = Cardinality(Global)
      /\ \A q \in Runs : task_active[q] = Cardinality(Counted(q))
  BY DEF Known, Shapes, CountersExact, Global, Counted
<1>4. Global \in SUBSET Workers /\ \A q \in Runs : Counted(q) \in SUBSET Workers
  BY DEF Global, Counted
<1>5. CASE GiveGlobal(w)
  <2>1. /\ worker[w].pc = "ended" /\ worker'[w].pc = "counted"
        /\ active_chunk_count' = active_chunk_count - 1 /\ task_active' = task_active
    BY <1>1, <1>5 DEF GiveGlobal, Of, Move
  <2>2. HasGlobal(w) /\ HasTask(w) /\ ~HasGlobal(w)' /\ HasTask(w)' /\ worker'[w].run = r
    BY <1>1, <2>1 DEF HasGlobal, HasTask, Of
  <2>3. Global' = Global \ {w} /\ w \in Global
    BY <1>2, <2>2 DEF Global
  <2>4. \A q \in Runs : Counted(q)' = Counted(q)
    BY <1>1, <1>2, <2>2 DEF Counted
  <2>5. active_chunk_count' = Cardinality(Global')
    BY <1>3, <1>4, <2>1, <2>3, FiniteTransfers
  <2>6. \A q \in Runs : task_active'[q] = Cardinality(Counted(q)')
    BY <1>3, <2>1, <2>4
  <2> QED BY <2>5, <2>6 DEF CountersExact, Global, Counted
<1>6. CASE GiveTask(w)
  <2>1. /\ worker[w].pc = "counted" /\ worker'[w].pc \in {"idle", "result"}
        /\ active_chunk_count' = active_chunk_count
        /\ task_active' = [task_active EXCEPT ![r] = @ - 1]
    BY <1>1, <1>6, TransferPlace DEF GiveTask, Of
  <2>2. ~HasGlobal(w) /\ HasTask(w) /\ ~HasGlobal(w)' /\ ~HasTask(w)'
    BY <2>1 DEF HasGlobal, HasTask, Of
  <2>3. Global' = Global
    BY <1>2, <2>2 DEF Global
  <2>4. Counted(r)' = Counted(r) \ {w} /\ w \in Counted(r)
    BY <1>1, <1>2, <2>2 DEF Counted
  <2>5. \A q \in Runs : q # r => Counted(q)' = Counted(q)
    BY <1>1, <1>2, <2>2 DEF Counted
  <2>6. active_chunk_count' = Cardinality(Global')
    BY <1>3, <2>1, <2>3
  <2>7. Cardinality(Counted(r)') = Cardinality(Counted(r)) - 1
    BY <1>1, <1>4, <2>4, FiniteTransfers
  <2>8. \A q \in Runs : task_active'[q] = Cardinality(Counted(q)')
    BY <1>1, <1>3, <2>1, <2>5, <2>7
  <2> QED BY <2>6, <2>8 DEF CountersExact, Global, Counted
<1>7. CASE ~GiveGlobal(w) /\ ~GiveTask(w)
  <2>1. UNCHANGED cnt_vars
    BY <1>7 DEF Transfer, Permit, NoPermit, Unmark, Succeed, Fail, ResultOk, ResultError,
                Blame, Defer, Add, AtLimit, Swap
  <2>2. \/ /\ worker[w].pc \in {"permit", "unmark", "transfer", "ended"}
           /\ worker'[w].pc \in {"permit", "unmark", "transfer", "ended"}
        \/ /\ worker[w].pc \in {"result", "blame", "defer", "add", "limit", "swap"}
           /\ worker'[w].pc \in {"idle", "blame", "defer", "add", "limit", "swap"}
    <3>1. CASE Permit(w) \/ NoPermit(w) \/ Unmark(w) \/ Succeed(w) \/ Fail(w)
      BY <1>1, <3>1, TransferPlace DEF Permit, NoPermit, Unmark, Succeed, Fail, Of, Jobs
    <3>2. CASE ResultOk(w) \/ ResultError(w) \/ Blame(w) \/ Defer(w) \/ AtLimit(w) \/ Swap(w)
      BY <1>1, <3>2, TransferPlace DEF ResultOk, ResultError, Blame, Defer, AtLimit, Swap, Of
    <3>3. CASE Add(w)
      BY <1>1, <3>3 DEF Add, Of, Idle
    <3> QED BY <1>7, <3>1, <3>2, <3>3 DEF Transfer
  <2>3. /\ HasGlobal(w)' <=> HasGlobal(w)
        /\ HasTask(w)' <=> HasTask(w)
        /\ HasTask(w) => worker'[w].run = worker[w].run
    BY <1>1, <2>2 DEF HasGlobal, HasTask, Of
  <2>4. \A v \in Workers : /\ HasGlobal(v)' <=> HasGlobal(v)
                           /\ HasTask(v)' <=> HasTask(v)
                           /\ HasTask(v) => worker'[v].run = worker[v].run
    BY <1>1, <1>2, <2>3
  <2> QED BY <2>1, <2>4, CountsSame
<1> QED BY <1>5, <1>6, <1>7

\* Every step keeps the counters exact.
LEMMA StepCount == Known /\ CountersExact /\ [Next]_vars => CountersExact'
<1> SUFFICES ASSUME Known, CountersExact, [Next]_vars PROVE CountersExact'
  OBVIOUS
<1>1. CASE UNCHANGED <<cnt_vars, worker>>
  <2>1. \A w \in Workers : /\ HasGlobal(w)' <=> HasGlobal(w)
                           /\ HasTask(w)' <=> HasTask(w)
                           /\ HasTask(w) => worker'[w].run = worker[w].run
    BY <1>1 DEF HasGlobal, HasTask, Of
  <2> QED BY <1>1, <2>1, CountsSame
<1>2. ASSUME NEW k \in Chunks, NEW cs \in [Chunks -> Marks], At("pick"), Dispatch(k, cs),
             ~cs[k].completed,
             \A j \in Chunks : /\ cs[j].completed = chunk[loop.run][j].completed
                               /\ cs[j].downloading = chunk[loop.run][j].downloading
      PROVE  CountersExact'
  <2>0. PICK r \in Runs : r = loop.run
    BY <1>2, DispatchMoves
  <2>1. /\ r = loop.run /\ active_chunk_count' = active_chunk_count + 1
        /\ task_active' = [task_active EXCEPT ![r] = @ + 1]
    BY <1>2, <2>0, DispatchMoves
  <2>2. PICK w \in Workers : worker[w] = Idle /\ worker' = [worker EXCEPT ![w] = Sent(r, k)]
    BY <1>2, <2>0, DispatchMoves
  <2>3. Sent(r, k).pc = "permit" /\ Sent(r, k).run = r /\ Idle.pc = "idle"
    BY DEF Sent, Idle
  <2>4. worker \in [Workers -> Jobs] /\ task_active \in [Runs -> Int]
    BY DEF Known, Shapes
  <2>5. \A v \in Workers : worker'[v] = IF v = w THEN Sent(r, k) ELSE worker[v]
    BY <2>2, <2>4
  <2>6. Global' = Global \cup {w} /\ w \notin Global
    BY <2>2, <2>3, <2>5 DEF Global, HasGlobal
  <2>7. Counted(r)' = Counted(r) \cup {w} /\ w \notin Counted(r)
    BY <2>2, <2>3, <2>5 DEF Counted, HasTask, HasGlobal, Of
  <2>8. \A q \in Runs : q # r => Counted(q)' = Counted(q)
    BY <2>2, <2>3, <2>5 DEF Counted, HasTask, HasGlobal, Of
  <2>9. Global \in SUBSET Workers /\ Counted(r) \in SUBSET Workers
    BY DEF Global, Counted
  <2>10. /\ active_chunk_count = Cardinality(Global)
         /\ \A q \in Runs : task_active[q] = Cardinality(Counted(q))
    BY DEF CountersExact, Global, Counted
  <2>11. /\ Cardinality(Global') = Cardinality(Global) + 1
         /\ Cardinality(Counted(r)') = Cardinality(Counted(r)) + 1
    BY <2>6, <2>7, <2>9, FiniteTransfers
  <2>12. \A q \in Runs : task_active'[q] = Cardinality(Counted(q)')
    BY <2>1, <2>4, <2>8, <2>10, <2>11
  <2> QED BY <2>1, <2>10, <2>11, <2>12 DEF CountersExact, Global, Counted
<1>3. CASE PickReady \/ PickThawed
  BY <1>1, <1>2, <1>3, PickMoves
<1>4. CASE \E w \in Workers : Transfer(w)
  BY <1>4, TransferCount
<1>5. CASE ~(PickReady \/ PickThawed) /\ ~(\E w \in Workers : Transfer(w))
  <2>1. CASE Loop
    BY <1>1, <1>5, <2>1 DEF Loop, StartRound, Fetch, Check, Evict, PickNone, AllDone,
                CountTransfers, LookForCooling, RequeueSlow, Finish
  <2>2. CASE StartRun \/ Pause \/ Resume \/ HandleRequeue
    BY <1>1, <2>2 DEF StartRun, Pause, Resume, HandleRequeue, RequeueSkipped, RequeueExhausted,
                Requeue
  <2>3. CASE \E r \in Runs : Finalize(r) \/ \E k \in Chunks : Expire(r, k)
    BY <1>1, <2>3 DEF Finalize, Expire
  <2>4. CASE UNCHANGED vars
    BY <1>1, <2>4 DEF vars
  <2> QED BY <1>5, <2>1, <2>2, <2>3, <2>4 DEF Next
<1> QED BY <1>3, <1>4, <1>5

\* The scheduler's counter and the task's never drift from the transfers in flight.
THEOREM CountersExactOK == Spec => []CountersExact
<1>1. Init => Known /\ CountersExact
  BY InitKnown, InitCount
<1>2. (Known /\ CountersExact) /\ [Next]_vars => (Known /\ CountersExact)'
  BY StepKnown, StepCount
<1> QED BY <1>1, <1>2, PTL DEF Spec

-----------------------------------------------------------------------------
(* The marks                                                               *)

\* A step that moves no transfer, sets no mark and takes back no cancellation.
LEMMA MarksSame ==
    ASSUME MarkInv, worker' = worker,
           \A r \in Runs, k \in Chunks :
             /\ chunk'[r][k].downloading => chunk[r][k].downloading
             /\ cancelled[r] => cancelled'[r]
    PROVE  MarkInv'
BY DEF MarkInv, Owes

\* A transfer clears the mark it owes, or its run is cancelled, before it is done.
LEMMA TransferMark ==
    ASSUME Known, MarkInv, NEW w \in Workers, Transfer(w)
    PROVE  MarkInv'
<1> SUFFICES ASSUME NEW r \in Runs, NEW k \in Chunks, chunk'[r][k].downloading, ~cancelled'[r]
             PROVE  \E v \in Workers : /\ Owes(worker'[v]) /\ worker'[v].run = r
                                       /\ worker'[v].chunk = k
  BY DEF MarkInv, Owes
<1>1. /\ worker \in [Workers -> Jobs] /\ worker' \in [Workers -> Jobs]
      /\ \A v \in Workers : v # w => worker'[v] = worker[v]
      /\ worker'[w].pc # "idle" => worker'[w].run = worker[w].run /\ worker'[w].chunk = worker[w].chunk
  BY TransferFrame DEF Known, Shapes
<1>2. chunk[r][k].downloading /\ ~cancelled[r]
  BY TransferChunks, TransferKeeps
<1>3. PICK v \in Workers : Owes(worker[v]) /\ worker[v].run = r /\ worker[v].chunk = k
  BY <1>2 DEF MarkInv
<1>4. CASE v # w
  BY <1>1, <1>3, <1>4
<1>5. CASE v = w
  <2>1. ~(Unmark(w) \/ Succeed(w) \/ Blame(w) \/ Defer(w))
    BY <1>3, <1>5, TransferChunks
  <2>2. ~(ResultOk(w) \/ Add(w) \/ AtLimit(w) \/ Swap(w))
    BY <1>3, <1>5 DEF Owes, ResultOk, Add, AtLimit, Swap, Of
  <2>3. Owes(worker'[w])
    <3>1. CASE Permit(w)
      BY <3>1, TransferPlace DEF Permit, Owes
    <3>2. CASE NoPermit(w)
      <4>1. worker'[w] = [worker[w] EXCEPT !.pc = "unmark", !.error = "Refused"]
        BY <1>1, <3>2 DEF NoPermit
      <4>2. worker'[w].pc = "unmark"
        BY <1>1, <4>1 DEF Jobs
      <4> QED BY <4>2 DEF Owes
    <3>3. CASE Fail(w)
      <4>1. PICK e \in {"Cancelled", "Transient", "Fatal"} :
               worker' = [worker EXCEPT ![w].pc = "ended", ![w].error = e]
        BY <3>3 DEF Fail
      <4>2. worker'[w] = [worker[w] EXCEPT !.pc = "ended", !.error = e]
        BY <1>1, <4>1
      <4>3. worker'[w].pc = "ended" /\ worker'[w].error = e
        BY <1>1, <4>2 DEF Jobs
      <4> QED BY <4>3 DEF Owes
    <3>4. CASE GiveGlobal(w)
      BY <1>3, <1>5, <3>4, TransferPlace DEF GiveGlobal, Owes, Of
    <3>5. CASE GiveTask(w)
      BY <1>3, <1>5, <3>5, TransferPlace DEF GiveTask, Owes, Of
    <3>6. CASE ResultError(w)
      BY <1>2, <1>3, <1>5, <3>6, TransferPlace DEF ResultError, Owes, Of
    <3> QED BY <2>1, <2>2, <3>1, <3>2, <3>3, <3>4, <3>5, <3>6 DEF Transfer
  <2>4. worker'[w].pc # "idle"
    BY <2>3 DEF Owes
  <2> QED BY <1>1, <1>3, <1>5, <2>3, <2>4
<1> QED BY <1>4, <1>5

\* Every step leaves each mark of a run that is not cancelled with a transfer that owes it.
LEMMA StepMark == Known /\ MarkInv /\ [Next]_vars => MarkInv'
<1> SUFFICES ASSUME Known, MarkInv, [Next]_vars PROVE MarkInv'
  OBVIOUS
<1>1. /\ cancelled \in [Runs -> BOOLEAN] /\ chunk \in [Runs -> [Chunks -> Marks]]
      /\ worker \in [Workers -> Jobs] /\ MaxRuns \in Nat /\ started \in 0..MaxRuns
  BY SchedulerAssumption DEF Known, Shapes
<1>2. ASSUME NEW k \in Chunks, NEW cs \in [Chunks -> Marks], At("pick"), Dispatch(k, cs),
             ~cs[k].completed, UNCHANGED run_vars,
             \A j \in Chunks : /\ cs[j].completed = chunk[loop.run][j].completed
                               /\ cs[j].downloading = chunk[loop.run][j].downloading
      PROVE  MarkInv'
  <2>1. \A r \in Runs, j \in Chunks :
          chunk'[r][j].downloading => chunk[r][j].downloading \/ (r = loop.run /\ j = k)
    BY <1>2, DispatchMoves
  <2>2. PICK w \in Workers : /\ worker[w] = Idle
                             /\ worker' = [worker EXCEPT ![w] = Sent(loop.run, k)]
    BY <1>2, DispatchMoves
  <2>3. /\ Sent(loop.run, k).pc = "permit" /\ Sent(loop.run, k).run = loop.run
        /\ Sent(loop.run, k).chunk = k /\ Idle.pc = "idle"
    BY DEF Sent, Idle
  <2>4. \A v \in Workers : worker'[v] = IF v = w THEN Sent(loop.run, k) ELSE worker[v]
    BY <1>1, <2>2
  <2>5. ASSUME NEW r \in Runs, NEW j \in Chunks, chunk'[r][j].downloading, ~cancelled'[r]
        PROVE  \E v \in Workers : /\ Owes(worker'[v]) /\ worker'[v].run = r
                                  /\ worker'[v].chunk = j
    <3>1. CASE r = loop.run /\ j = k
      BY <2>3, <2>4, <3>1 DEF Owes
    <3>2. CASE chunk[r][j].downloading
      <4>1. PICK v \in Workers : Owes(worker[v]) /\ worker[v].run = r /\ worker[v].chunk = j
        BY <1>2, <2>5, <3>2 DEF MarkInv, run_vars
      <4>2. v # w
        BY <2>2, <2>3, <4>1 DEF Owes
      <4> QED BY <2>4, <4>1, <4>2
    <3> QED BY <2>1, <2>5, <3>1, <3>2
  <2> QED BY <2>5 DEF MarkInv, Owes
<1>3. CASE PickReady \/ PickThawed
  <2>1. UNCHANGED run_vars
    BY <1>3 DEF PickReady, PickThawed
  <2>2. CASE /\ UNCHANGED <<cnt_vars, worker>>
             /\ \A r \in Runs, j \in Chunks : chunk'[r][j].downloading = chunk[r][j].downloading
    BY <2>1, <2>2, MarksSame DEF run_vars
  <2> QED BY <1>2, <1>3, <2>1, <2>2, PickMoves
<1>4. CASE \E w \in Workers : Transfer(w)
  BY <1>4, TransferMark
<1>5. CASE StartRun
  <2>1. /\ worker' = worker /\ cancelled' = cancelled
        /\ chunk' = [chunk EXCEPT ![started + 1] =
                        [k \in Chunks |-> [Fresh EXCEPT !.completed = k \in saved]]]
    BY <1>5 DEF StartRun
  <2>2. ASSUME NEW b \in BOOLEAN PROVE ~[Fresh EXCEPT !.completed = b].downloading
    BY DEF Fresh
  <2>3. \A r \in Runs, k \in Chunks : chunk'[r][k].downloading => chunk[r][k].downloading
    BY <1>1, <2>1, <2>2
  <2> QED BY <2>1, <2>3, MarksSame
<1>6. ASSUME NEW r \in Runs, NEW k \in Chunks, Expire(r, k) PROVE MarkInv'
  <2>1. /\ worker' = worker /\ cancelled' = cancelled
        /\ chunk' = [chunk EXCEPT ![r] = [chunk[r] EXCEPT ![k] =
                                             [chunk[r][k] EXCEPT !.cooling = FALSE]]]
    BY <1>6 DEF Expire, run_vars
  <2>2. [chunk[r][k] EXCEPT !.cooling = FALSE].downloading = chunk[r][k].downloading
    <3>1. chunk[r][k] \in Marks
      BY <1>1
    <3> QED BY <3>1 DEF Marks
  <2>3. \A q \in Runs, j \in Chunks : chunk'[q][j].downloading => chunk[q][j].downloading
    BY <1>1, <2>1, <2>2
  <2> QED BY <2>1, <2>3, MarksSame
<1>7. CASE Pause \/ Requeue \/ Finish
  <2>1. /\ worker' = worker /\ chunk' = chunk
        /\ \A r \in Runs : cancelled[r] => cancelled'[r]
    BY <1>1, <1>7 DEF Pause, Requeue, Finish
  <2> QED BY <2>1, MarksSame
<1>8. CASE UNCHANGED <<worker, chunk, cancelled>>
  BY <1>8, MarksSame
<1>9. CASE Loop /\ ~(PickReady \/ PickThawed \/ Finish)
  BY <1>8, <1>9 DEF Loop, StartRound, Fetch, Check, Evict, PickNone, AllDone, CountTransfers,
              LookForCooling, RequeueSlow, run_vars
<1>10. CASE Resume \/ RequeueSkipped \/ RequeueExhausted \/ \E r \in Runs : Finalize(r)
  BY <1>8, <1>10 DEF Resume, RequeueSkipped, RequeueExhausted, Finalize, run_vars
<1>11. CASE UNCHANGED vars
  BY <1>8, <1>11 DEF vars, run_vars
<1> QED BY <1>3, <1>4, <1>5, <1>6, <1>7, <1>9, <1>10, <1>11 DEF Next, HandleRequeue, Loop

\* No chunk of a run that is not cancelled is marked as downloading without a transfer
\* that will clear it: the run can always pick it again.
THEOREM ChunkNotStrandedOK == Spec => []ChunkNotStranded
<1>1. Init => Known /\ MarkInv
  <2>1. Init => \A r \in Runs, k \in Chunks : ~chunk[r][k].downloading
    BY DEF Init, Fresh
  <2> QED BY <2>1, InitKnown DEF MarkInv
<1>2. (Known /\ MarkInv) /\ [Next]_vars => (Known /\ MarkInv)'
  BY StepKnown, StepMark
<1>3. MarkInv => ChunkNotStranded
  BY DEF MarkInv, ChunkNotStranded, Owes
<1> QED BY <1>1, <1>2, <1>3, PTL DEF Spec

-----------------------------------------------------------------------------
(* The limit on failures                                                   *)

\* A step that moves no transfer and leaves the failures alone.
LEMMA LimitSame ==
    ASSUME LimitInv, UNCHANGED <<failures, worker>>, \A r \in Runs : cancelled[r] => cancelled'[r]
    PROVE  LimitInv'
BY DEF LimitInv

\* The transfer that brings the failures to the limit stays until it compared, and its
\* comparison fails only when another one has added since.
LEMMA TransferLimit ==
    ASSUME Known, LimitInv, NEW w \in Workers, Transfer(w)
    PROVE  LimitInv'
<1> SUFFICES ASSUME NEW r \in Runs, failures'[r] >= FailureLimit, ~cancelled'[r]
             PROVE  \E v \in Workers : /\ worker'[v].pc \in {"limit", "swap"}
                                       /\ worker'[v].run = r /\ worker'[v].count = failures'[r]
  BY DEF LimitInv
<1>1. /\ worker \in [Workers -> Jobs] /\ worker' \in [Workers -> Jobs] /\ worker[w].run \in Runs
      /\ \A v \in Workers : v # w => worker'[v] = worker[v]
      /\ worker'[w].pc # "idle" => worker'[w].run = worker[w].run
      /\ failures \in [Runs -> Nat] /\ ~cancelled[r]
      /\ FailureLimit \in Nat /\ FailureLimit > 0
  BY TransferFrame, TransferKeeps, SchedulerAssumption DEF Known, Shapes
<1>2. failures[r] >= FailureLimit =>
        \E v \in Workers : /\ worker[v].pc \in {"limit", "swap"}
                           /\ worker[v].run = r /\ worker[v].count = failures[r]
  BY <1>1 DEF LimitInv
<1>3. ASSUME failures'[r] = failures[r], worker[w].run # r \/ worker[w].pc \notin {"limit", "swap"}
                                         \/ worker[w].count # failures[r]
      PROVE  \E v \in Workers : /\ worker'[v].pc \in {"limit", "swap"}
                                /\ worker'[v].run = r /\ worker'[v].count = failures'[r]
  BY <1>1, <1>2, <1>3
<1>4. CASE Add(w)
  <2>1. CASE worker[w].run = r
    <3>1. worker'[w] = [worker[w] EXCEPT !.pc = "limit", !.count = failures'[r]]
      BY <1>1, <1>4, <2>1 DEF Add
    <3>2. worker'[w].pc = "limit" /\ worker'[w].count = failures'[r] /\ worker'[w].run = r
      BY <1>1, <2>1, <3>1 DEF Jobs
    <3> QED BY <3>2
  <2>2. CASE worker[w].run # r
    <3>1. failures'[r] = failures[r]
      BY <1>1, <1>4, <2>2 DEF Add
    <3> QED BY <1>3, <2>2, <3>1
  <2> QED BY <2>1, <2>2
<1>5. CASE Swap(w)
  <2>1. CASE worker[w].run = r /\ failures[r] = worker[w].count
    <3>1. failures'[r] = 0
      BY <1>1, <1>5, <2>1 DEF Swap
    <3> QED BY <1>1, <3>1
  <2>2. CASE worker[w].run # r \/ failures[r] # worker[w].count
    <3>1. failures'[r] = failures[r]
      BY <1>1, <1>5, <2>2 DEF Swap
    <3> QED BY <1>3, <2>2, <3>1
  <2> QED BY <2>1, <2>2
<1>6. CASE ResultOk(w)
  <2>1. CASE worker[w].run = r
    <3>1. failures'[r] = 0
      BY <1>1, <1>6, <2>1 DEF ResultOk
    <3> QED BY <1>1, <3>1
  <2>2. CASE worker[w].run # r
    <3>1. failures'[r] = failures[r]
      BY <1>1, <1>6, <2>2 DEF ResultOk
    <3> QED BY <1>3, <2>2, <3>1
  <2> QED BY <2>1, <2>2
<1>7. CASE AtLimit(w)
  <2>1. failures' = failures
    BY <1>7 DEF AtLimit
  <2>2. CASE worker[w].run = r
    <3>1. worker'[w].pc = "swap" /\ worker'[w].count = worker[w].count
      BY <1>1, <1>7, <2>2, TransferPlace DEF AtLimit
    <3>2. worker'[w].run = r
      BY <1>1, <2>2, <3>1
    <3> QED BY <1>1, <1>2, <2>1, <3>1, <3>2
  <2>3. CASE worker[w].run # r
    BY <1>3, <2>1, <2>3
  <2> QED BY <2>2, <2>3
<1>8. CASE ~(Add(w) \/ Swap(w) \/ ResultOk(w) \/ AtLimit(w))
  <2>1. failures' = failures
    BY <1>8 DEF Transfer, Permit, NoPermit, Unmark, Succeed, Fail, GiveGlobal, GiveTask,
                ResultError, Blame, Defer
  <2>2. worker[w].pc \notin {"limit", "swap"}
    BY <1>8 DEF Transfer, Permit, NoPermit, Unmark, Succeed, Fail, GiveGlobal, GiveTask,
                ResultError, Blame, Defer, Of
  <2> QED BY <1>3, <2>1, <2>2
<1> QED BY <1>4, <1>5, <1>6, <1>7, <1>8

\* Every step leaves a full count of failures with the transfer that is to see it.
LEMMA StepLimit == Known /\ LimitInv /\ [Next]_vars => LimitInv'
<1> SUFFICES ASSUME Known, LimitInv, [Next]_vars PROVE LimitInv'
  OBVIOUS
<1>1. cancelled \in [Runs -> BOOLEAN] /\ worker \in [Workers -> Jobs]
  BY DEF Known, Shapes
<1>2. ASSUME NEW k \in Chunks, NEW cs \in [Chunks -> Marks], At("pick"), Dispatch(k, cs),
             ~cs[k].completed, UNCHANGED <<run_vars, failures>>,
             \A j \in Chunks : /\ cs[j].completed = chunk[loop.run][j].completed
                               /\ cs[j].downloading = chunk[loop.run][j].downloading
      PROVE  LimitInv'
  <2>1. PICK w \in Workers : /\ worker[w] = Idle
                             /\ worker' = [worker EXCEPT ![w] = Sent(loop.run, k)]
    BY <1>2, DispatchMoves
  <2>2. worker[w].pc = "idle" /\ \A v \in Workers : v # w => worker'[v] = worker[v]
    BY <1>1, <2>1 DEF Idle
  <2>3. \A v \in Workers : worker[v].pc \in {"limit", "swap"} => worker'[v] = worker[v]
    BY <2>2
  <2>4. failures' = failures /\ cancelled' = cancelled
    BY <1>2 DEF run_vars
  <2> QED BY <2>3, <2>4 DEF LimitInv
<1>3. CASE PickReady \/ PickThawed
  <2>1. UNCHANGED <<run_vars, failures>>
    BY <1>3 DEF PickReady, PickThawed
  <2>2. CASE UNCHANGED <<cnt_vars, worker>>
    BY <2>1, <2>2, LimitSame DEF run_vars
  <2> QED BY <1>2, <1>3, <2>1, <2>2, PickMoves
<1>4. CASE \E w \in Workers : Transfer(w)
  BY <1>4, TransferLimit
<1>5. CASE Pause \/ Requeue \/ Finish
  <2>1. /\ UNCHANGED <<failures, worker>>
        /\ \A r \in Runs : cancelled[r] => cancelled'[r]
    BY <1>1, <1>5 DEF Pause, Requeue, Finish
  <2> QED BY <2>1, LimitSame
<1>6. CASE UNCHANGED <<failures, worker, cancelled>>
  BY <1>6, LimitSame
<1>7. CASE Loop /\ ~(PickReady \/ PickThawed \/ Finish)
  BY <1>6, <1>7 DEF Loop, StartRound, Fetch, Check, Evict, PickNone, AllDone, CountTransfers,
              LookForCooling, RequeueSlow, run_vars
<1>8. CASE \/ StartRun \/ Resume \/ RequeueSkipped \/ RequeueExhausted
           \/ \E r \in Runs : Finalize(r) \/ \E k \in Chunks : Expire(r, k)
  BY <1>6, <1>8 DEF StartRun, Resume, RequeueSkipped, RequeueExhausted, Finalize, Expire, run_vars
<1>9. CASE UNCHANGED vars
  BY <1>6, <1>9 DEF vars, run_vars
<1> QED BY <1>3, <1>4, <1>5, <1>7, <1>8, <1>9 DEF Next, HandleRequeue, Loop

\* The limit on consecutive failures is never passed without some transfer on its way to
\* send the task back, whatever order the failing transfers add and compare in.
THEOREM LimitNoticedOK == Spec => []LimitNoticed
<1>0. FailureLimit \in Nat /\ FailureLimit > 0
  BY SchedulerAssumption
<1>1. Init => Known /\ LimitInv
  <2>1. Init => \A r \in Runs : failures[r] = 0
    BY DEF Init
  <2> QED BY <1>0, <2>1, InitKnown DEF LimitInv
<1>2. (Known /\ LimitInv) /\ [Next]_vars => (Known /\ LimitInv)'
  BY StepKnown, StepLimit
<1>3. Known /\ LimitInv => LimitNoticed
  <2> SUFFICES ASSUME Known, LimitInv, NEW r \in Runs, ~cancelled[r],
                      \A w \in Workers : worker[w].run = r => worker[w].pc \notin {"limit", "swap"}
               PROVE  failures[r] < FailureLimit
    BY DEF LimitNoticed
  <2>1. failures[r] \in Nat
    BY DEF Known, Shapes
  <2>2. ~(failures[r] >= FailureLimit)
    BY DEF LimitInv
  <2> QED BY <1>0, <2>1, <2>2
<1> QED BY <1>1, <1>2, <1>3, PTL DEF Spec

-----------------------------------------------------------------------------
(* Finalization                                                            *)

\* A transfer that has given back the task's count never takes it again.
LEMMA TransferEnds ==
    ASSUME Known, NEW w \in Workers, Transfer(w)
    PROVE  \A v \in Workers : HasTask(v)' => HasTask(v) /\ worker'[v].run = worker[v].run
<1>1. /\ worker \in [Workers -> Jobs]
      /\ \A v \in Workers : v # w => worker'[v] = worker[v]
      /\ worker'[w].pc # "idle" => worker'[w].run = worker[w].run
  BY TransferFrame DEF Known, Shapes
<1>2. CASE HasTask(w)
  BY <1>1, <1>2 DEF HasTask, HasGlobal, Of
<1>3. CASE ~HasTask(w)
  <2>1. worker'[w].pc \in {"idle", "blame", "defer", "add", "limit", "swap"}
    <3>1. CASE ResultOk(w) \/ ResultError(w) \/ Blame(w) \/ Defer(w) \/ AtLimit(w) \/ Swap(w)
      BY <3>1, TransferPlace DEF ResultOk, ResultError, Blame, Defer, AtLimit, Swap
    <3>2. CASE Add(w)
      BY <1>1, <3>2 DEF Add, Idle
    <3> QED BY <1>3, <3>1, <3>2 DEF Transfer, HasTask, HasGlobal, Of, Permit, NoPermit, Unmark,
                 Succeed, Fail, GiveGlobal, GiveTask
  <2> QED BY <1>1, <2>1 DEF HasTask, HasGlobal, Of
<1> QED BY <1>2, <1>3

\* A step that finalizes nothing, starts no transfer and completes what is complete.
LEMMA WholeSame ==
    ASSUME Known, WholeInv, finalizing' \subseteq finalizing,
           loop' = loop \/ loop'.pc \notin {"done", "finish"},
           \A r \in 1..started, k \in Chunks : chunk[r][k].completed => chunk'[r][k].completed,
           \A v \in Workers : HasTask(v)' => HasTask(v) /\ worker'[v].run = worker[v].run
    PROVE  WholeInv'
<1>1. ASSUME NEW r \in 1..started, Remaining(r) = {} PROVE Remaining(r)' = {}
  BY <1>1 DEF Remaining
<1>2. ASSUME NEW r, Ended(r) PROVE Ended(r)'
  BY <1>2 DEF Ended
<1>3. finalizing \subseteq 1..started
  BY DEF Known, Begun
<1>4. \A r \in finalizing' : Whole(r)'
  <2> SUFFICES ASSUME NEW CONSTANT r, r \in finalizing' PROVE Whole(r)'
    OBVIOUS
  <2>1. r \in 1..started /\ Remaining(r) = {} /\ Ended(r)
    BY <1>3 DEF WholeInv, Whole
  <2> QED BY <1>1, <1>2, <2>1 DEF Whole
<1>5. CASE loop'.pc \notin {"done", "finish"}
  BY <1>4, <1>5 DEF WholeInv
<1>6. CASE loop' = loop /\ loop.pc \in {"done", "finish"}
  <2>1. PICK r \in 1..started : r = loop.run
    BY <1>6 DEF Known, Begun
  <2>2. Remaining(r) = {} /\ (loop.pc = "finish" => Ended(r))
    BY <1>6, <2>1 DEF WholeInv
  <2>3. Remaining(r)' = {} /\ (loop.pc = "finish" => Ended(r)')
    BY <1>1, <1>2, <2>2
  <2>4. loop'.run = r
    BY <1>6, <2>1
  <2> QED BY <1>4, <1>6, <2>3, <2>4 DEF WholeInv, Remaining, Ended
<1> QED BY <1>5, <1>6

\* Every step finalizes whole runs only, and keeps them whole.
LEMMA StepWhole == Known /\ CountersExact /\ WholeInv /\ [Next]_vars => WholeInv'
<1> SUFFICES ASSUME Known, CountersExact, WholeInv, [Next]_vars PROVE WholeInv'
  OBVIOUS
<1>1. /\ chunk \in [Runs -> [Chunks -> Marks]] /\ worker \in [Workers -> Jobs]
      /\ MaxRuns \in Nat /\ started \in 0..MaxRuns /\ loop \in Turns
      /\ finalizing \subseteq 1..started
      /\ loop.pc \notin {"round", "fetch"} => loop.run \in 1..started
      /\ 1..started \subseteq Runs
  BY SchedulerAssumption DEF Known, Shapes, Begun, Runs
<1>2. ASSUME UNCHANGED worker
      PROVE  \A v \in Workers : HasTask(v)' => HasTask(v) /\ worker'[v].run = worker[v].run
  BY <1>2 DEF HasTask, HasGlobal, Of
<1>3. ASSUME UNCHANGED <<worker, chunk>>, finalizing' \subseteq finalizing,
             loop' = loop \/ loop'.pc \notin {"done", "finish"}
      PROVE  WholeInv'
  BY <1>2, <1>3, WholeSame
<1>4. ASSUME NEW k \in Chunks, NEW cs \in [Chunks -> Marks], At("pick"), Dispatch(k, cs),
             ~cs[k].completed, UNCHANGED finalizing,
             \A j \in Chunks : /\ cs[j].completed = chunk[loop.run][j].completed
                               /\ cs[j].downloading = chunk[loop.run][j].downloading
      PROVE  WholeInv'
  <2>1. /\ \A r \in Runs, j \in Chunks : chunk'[r][j].completed = chunk[r][j].completed
        /\ loop'.pc \in {"round", "fetch"}
    BY <1>4, DispatchMoves
  <2>2. PICK w \in Workers : worker' = [worker EXCEPT ![w] = Sent(loop.run, k)]
    BY <1>4, DispatchMoves
  <2>3. \A v \in Workers : worker'[v] = worker[v] \/ worker'[v].run = loop.run
    BY <1>1, <2>2 DEF Sent, Idle
  <2>4. ASSUME NEW CONSTANT r, r \in finalizing PROVE Whole(r)'
    <3>1. r \in Runs /\ Remaining(r) = {} /\ Ended(r)
      BY <1>1, <2>4 DEF WholeInv, Whole
    <3>2. r # loop.run
      BY <1>4, <3>1 DEF Remaining
    <3>3. Remaining(r)' = {}
      BY <2>1, <3>1 DEF Remaining
    <3>4. Ended(r)'
      BY <2>3, <3>1, <3>2 DEF Ended, HasTask, HasGlobal, Of
    <3> QED BY <3>3, <3>4 DEF Whole
  <2> QED BY <1>4, <2>1, <2>4 DEF WholeInv
<1>5. CASE PickReady \/ PickThawed
  <2>1. UNCHANGED finalizing
    BY <1>5 DEF PickReady, PickThawed
  <2>2. CASE /\ UNCHANGED <<cnt_vars, worker>> /\ loop' = [loop EXCEPT !.pc = "none"]
             /\ \A r \in Runs, j \in Chunks : chunk'[r][j].completed = chunk[r][j].completed
    <3>1. loop'.pc = "none"
      BY <1>1, <2>2 DEF Turns
    <3> QED BY <1>1, <1>2, <2>1, <2>2, <3>1, WholeSame
  <2> QED BY <1>4, <1>5, <2>1, <2>2, PickMoves
<1>6. CASE \E w \in Workers : Transfer(w)
  <2>1. PICK w \in Workers : Transfer(w)
    BY <1>6
  <2>2. \A r \in Runs, k \in Chunks : chunk[r][k].completed => chunk'[r][k].completed
    BY <2>1, TransferChunks
  <2>3. UNCHANGED <<loop, finalizing>>
    BY <2>1, TransferKeeps
  <2> QED BY <1>1, <2>1, <2>2, <2>3, TransferEnds, WholeSame
<1>7. CASE AllDone
  <2>1. PICK r \in Runs : r = loop.run
    BY <1>1, <1>7 DEF AllDone, At
  <2>2. /\ UNCHANGED <<worker, chunk, finalizing>> /\ loop'.run = r
        /\ loop'.pc = IF Remaining(r) = {} THEN "done" ELSE "stuck"
    BY <1>1, <1>7, <2>1 DEF AllDone, LoopTo, Turns
  <2>3. \A q : Whole(q) => Whole(q)'
    BY <2>2 DEF Whole, Remaining, Ended, HasTask, HasGlobal, Of
  <2>4. Remaining(r)' = Remaining(r)
    BY <2>2 DEF Remaining
  <2> QED BY <2>2, <2>3, <2>4 DEF WholeInv, Remaining
<1>8. CASE CountTransfers
  <2>1. PICK r \in Runs : r = loop.run
    BY <1>1, <1>8 DEF CountTransfers, At
  <2>2. UNCHANGED <<worker, chunk, finalizing>>
    BY <1>8 DEF CountTransfers
  <2>3. CASE loop'.pc # "finish"
    <3>1. loop'.pc \notin {"done", "finish"}
      BY <1>1, <1>8, <2>3 DEF CountTransfers, LoopTo, EndRound, Waiting, Turns
    <3> QED BY <1>3, <2>2, <3>1
  <2>4. CASE loop'.pc = "finish"
    <3>1. loop.pc = "done" /\ task_active[r] = 0 /\ loop'.run = r
      BY <1>1, <1>8, <2>1, <2>4 DEF CountTransfers, LoopTo, EndRound, Waiting, Turns, At
    <3>2. Counted(r) \in SUBSET Workers /\ Cardinality(Counted(r)) = 0
      BY <3>1 DEF CountersExact, Counted
    <3>3. Counted(r) = {}
      BY <3>2, FiniteTransfers, FS_EmptySet
    <3>4. Ended(r) /\ Remaining(r) = {}
      BY <2>1, <3>1, <3>3 DEF Counted, Ended, WholeInv
    <3>5. \A q : Whole(q) => Whole(q)'
      BY <2>2 DEF Whole, Remaining, Ended, HasTask, HasGlobal, Of
    <3>6. Remaining(r)' = {} /\ Ended(r)'
      BY <3>4, <3>5 DEF Whole
    <3> QED BY <2>2, <3>1, <3>5, <3>6 DEF WholeInv, Remaining, Ended
  <2> QED BY <2>3, <2>4
<1>9. CASE Finish
  <2>1. /\ UNCHANGED <<worker, chunk>> /\ finalizing' = finalizing \cup {loop.run}
        /\ loop'.pc = "round"
    BY <1>9 DEF Finish, EndRound, Waiting
  <2>2. Whole(loop.run)
    BY <1>9 DEF Finish, At, WholeInv, Whole
  <2>3. \A q : Whole(q) => Whole(q)'
    BY <2>1 DEF Whole, Remaining, Ended, HasTask, HasGlobal, Of
  <2>4. \A q \in finalizing' : Whole(q)
    BY <2>1, <2>2 DEF WholeInv
  <2> QED BY <2>1, <2>3, <2>4 DEF WholeInv
<1>10. CASE StartRun
  <2>1. /\ UNCHANGED <<worker, loop, finalizing>>
        /\ \E f : chunk' = [chunk EXCEPT ![started + 1] = f]
    BY <1>10 DEF StartRun
  <2>2. \A r \in 1..started : chunk'[r] = chunk[r]
    BY <1>1, <2>1
  <2> QED BY <1>2, <2>1, <2>2, WholeSame
<1>11. ASSUME NEW r \in Runs, NEW k \in Chunks, Expire(r, k) PROVE WholeInv'
  <2>1. /\ UNCHANGED <<worker, loop, finalizing>>
        /\ chunk' = [chunk EXCEPT ![r] = [chunk[r] EXCEPT ![k] =
                                             [chunk[r][k] EXCEPT !.cooling = FALSE]]]
    BY <1>11 DEF Expire
  <2>2. [chunk[r][k] EXCEPT !.cooling = FALSE].completed = chunk[r][k].completed
    <3>1. chunk[r][k] \in Marks
      BY <1>1
    <3> QED BY <3>1 DEF Marks
  <2>3. \A q \in Runs, j \in Chunks : chunk'[q][j].completed = chunk[q][j].completed
    BY <1>1, <2>1, <2>2
  <2> QED BY <1>1, <1>2, <2>1, <2>3, WholeSame
<1>12. CASE StartRound \/ Fetch \/ Check \/ Evict \/ PickNone \/ LookForCooling \/ RequeueSlow
  <2>1. UNCHANGED <<worker, chunk, finalizing>> /\ loop'.pc \notin {"done", "finish"}
    <3>1. UNCHANGED <<worker, chunk, finalizing>>
      BY <1>12 DEF StartRound, Fetch, Check, Evict, PickNone, LookForCooling, RequeueSlow
    <3>2. EndRound => loop'.pc = "round"
      BY DEF EndRound, Waiting
    <3>3. \A pc : LoopTo(pc) => loop'.pc = pc
      BY <1>1 DEF LoopTo, Turns
    <3>4. CASE StartRound
      BY <3>1, <3>4 DEF StartRound
    <3>5. CASE Fetch
      BY <1>1, <3>1, <3>2, <3>5 DEF Fetch, Turns
    <3>6. CASE Check \/ Evict \/ PickNone \/ LookForCooling \/ RequeueSlow
      BY <3>1, <3>2, <3>3, <3>6 DEF Check, Evict, PickNone, LookForCooling, RequeueSlow
    <3> QED BY <1>12, <3>4, <3>5, <3>6
  <2> QED BY <1>3, <2>1
<1>13. CASE Pause \/ Resume \/ HandleRequeue \/ \E r \in Runs : Finalize(r)
  BY <1>3, <1>13 DEF Pause, Resume, HandleRequeue, RequeueSkipped, RequeueExhausted, Requeue,
              Finalize
<1>14. CASE UNCHANGED vars
  BY <1>3, <1>14 DEF vars
<1> QED BY <1>5, <1>6, <1>7, <1>8, <1>9, <1>10, <1>11, <1>12, <1>13, <1>14 DEF Next, Loop

\* A run handed to finalization has all its chunks, and no transfer of it still counts.
THEOREM FinalizesWholeOK == Spec => []FinalizesWhole
<1>1. Init => Known /\ CountersExact /\ WholeInv
  <2>1. Init => WholeInv
    BY DEF Init, WholeInv, Waiting
  <2> QED BY <2>1, InitKnown, InitCount
<1>2. (Known /\ CountersExact /\ WholeInv) /\ [Next]_vars => (Known /\ CountersExact /\ WholeInv)'
  BY StepKnown, StepCount, StepWhole
<1>3. WholeInv => FinalizesWhole
  BY DEF WholeInv, FinalizesWhole, Whole, Ended
<1> QED BY <1>1, <1>2, <1>3, PTL DEF Spec

-----------------------------------------------------------------------------
(* The requests of the fast path                                           *)

\* Each request stands for FailureLimit failures that are not in the count any more, and
\* who is about to compare has seen that many.
RequestInv ==
    /\ \A r \in Runs : fast[r] \in Nat /\ failed[r] \in Nat
    /\ \A r \in Runs : fast[r] * FailureLimit + failures[r] <= failed[r]
    /\ \A w \in Workers : worker[w].pc \in {"limit", "swap"} => worker[w].count >= FailureLimit

\* A step that leaves the failures and the requests alone and sends nobody to compare.
LEMMA RequestSame ==
    ASSUME RequestInv, UNCHANGED <<failures, hist_vars>>,
           \A w \in Workers : worker'[w].pc \in {"limit", "swap"}
                              => /\ worker[w].pc \in {"limit", "swap"}
                                 /\ worker'[w].count = worker[w].count
    PROVE  RequestInv'
BY DEF RequestInv, hist_vars

\* A transfer asks for a requeue only when it takes a full count of failures away.
LEMMA TransferRequest ==
    ASSUME Known, RequestInv, NEW w \in Workers, Transfer(w),
           failed \in [Runs -> Nat], fast \in [Runs -> Nat]
    PROVE  RequestInv' /\ failed' \in [Runs -> Nat] /\ fast' \in [Runs -> Nat]
<1>0. PICK q \in Runs : q = worker[w].run
  BY TransferFrame
<1>1. /\ worker \in [Workers -> Jobs] /\ worker' \in [Workers -> Jobs]
      /\ \A v \in Workers : v # w => worker'[v] = worker[v]
      /\ failures \in [Runs -> Nat] /\ failures' \in [Runs -> Nat]
      /\ FailureLimit \in Nat
  BY TransferFrame, TransferKnown, SchedulerAssumption DEF Known, Shapes
<1>2. CASE Add(w)
  <2>1. /\ failures' = [failures EXCEPT ![q] = @ + 1] /\ failed' = [failed EXCEPT ![q] = @ + 1]
        /\ fast' = fast
    BY <1>0, <1>2 DEF Add
  <2>2. failed' \in [Runs -> Nat] /\ fast' \in [Runs -> Nat]
    BY <2>1
  <2>3. ASSUME NEW r \in Runs PROVE fast'[r] * FailureLimit + failures'[r] <= failed'[r]
    <3>1. \E n \in Int : n = fast[r] * FailureLimit /\ n + failures[r] <= failed[r]
      BY <1>1 DEF RequestInv
    <3>2. fast'[r] = fast[r]
      BY <2>1
    <3>3. \/ failures'[r] = failures[r] + 1 /\ failed'[r] = failed[r] + 1
          \/ failures'[r] = failures[r] /\ failed'[r] = failed[r]
      BY <1>1, <2>1
    <3>4. failures[r] \in Nat /\ failed[r] \in Nat
      BY <1>1
    <3> QED BY <3>1, <3>2, <3>3, <3>4
  <2>4. worker'[w].pc \in {"limit", "swap"} => worker'[w].count >= FailureLimit
    <3>1. CASE failures'[q] >= FailureLimit
      <4>1. worker'[w] = [worker[w] EXCEPT !.pc = "limit", !.count = failures'[q]]
        BY <1>0, <1>1, <1>2, <3>1 DEF Add
      <4>2. worker'[w].count = failures'[q]
        BY <1>1, <4>1 DEF Jobs
      <4> QED BY <3>1, <4>2
    <3>2. CASE ~(failures'[q] >= FailureLimit)
      BY <1>0, <1>1, <1>2, <3>2 DEF Add, Idle
    <3> QED BY <3>1, <3>2
  <2>5. RequestInv'
    BY <1>1, <2>2, <2>3, <2>4 DEF RequestInv
  <2> QED BY <2>2, <2>5
<1>3. CASE Swap(w) /\ failures[q] = worker[w].count
  <2>1. /\ failures' = [failures EXCEPT ![q] = 0] /\ failed' = failed
        /\ fast' = [fast EXCEPT ![q] = @ + 1] /\ Leave(w)
        /\ failures[q] >= FailureLimit
    BY <1>0, <1>3 DEF Swap, RequestInv, Of
  <2>2. failed' \in [Runs -> Nat] /\ fast' \in [Runs -> Nat]
    BY <2>1
  <2>3. ASSUME NEW r \in Runs PROVE fast'[r] * FailureLimit + failures'[r] <= failed'[r]
    <3>1. fast[r] * FailureLimit + failures[r] <= failed[r] /\ failures[r] \in Nat
          /\ failed[r] \in Nat /\ fast[r] \in Nat
      BY <1>1 DEF RequestInv
    <3>2. CASE r = q
      <4>1. failures'[r] = 0 /\ fast'[r] = fast[r] + 1 /\ failed'[r] = failed[r]
        BY <1>1, <2>1, <3>2
      <4>2. (fast[r] + 1) * FailureLimit = fast[r] * FailureLimit + FailureLimit
        BY <1>1, <3>1
      <4>3. fast[r] * FailureLimit \in Nat /\ failures[r] >= FailureLimit
        BY <1>1, <2>1, <3>1, <3>2
      <4> HIDE DEF Runs
      <4>4. ASSUME NEW n \in Nat, NEW f \in Nat, NEW t \in Nat, n + f <= t, f >= FailureLimit
            PROVE  n + FailureLimit + 0 <= t
        BY <1>1, <4>4
      <4>5. fast[r] * FailureLimit + FailureLimit + 0 <= failed[r]
        BY <3>1, <4>3, <4>4
      <4> QED BY <4>1, <4>2, <4>5
    <3>3. CASE r # q
      <4>1. failures'[r] = failures[r] /\ fast'[r] = fast[r] /\ failed'[r] = failed[r]
        BY <1>1, <2>1, <3>3
      <4> QED BY <3>1, <4>1
    <3> QED BY <3>2, <3>3
  <2>4. worker'[w].pc = "idle"
    BY <2>1, TransferPlace
  <2>5. RequestInv'
    BY <1>1, <2>2, <2>3, <2>4 DEF RequestInv
  <2> QED BY <2>2, <2>5
<1>4. CASE Swap(w) /\ failures[q] # worker[w].count
  <2>1. UNCHANGED <<failures, hist_vars>> /\ Leave(w)
    BY <1>0, <1>1, <1>4 DEF Swap, hist_vars
  <2>2. worker'[w].pc = "idle"
    BY <2>1, TransferPlace
  <2> QED BY <1>1, <2>1, <2>2, RequestSame DEF hist_vars
<1>5. CASE ResultOk(w)
  <2>1. failures' = [failures EXCEPT ![q] = 0] /\ UNCHANGED hist_vars /\ Leave(w)
    BY <1>0, <1>5 DEF ResultOk
  <2>2. worker'[w].pc = "idle"
    BY <2>1, TransferPlace
  <2>3. ASSUME NEW r \in Runs PROVE fast'[r] * FailureLimit + failures'[r] <= failed'[r]
    <3>1. \E n \in Int : n = fast[r] * FailureLimit /\ n + failures[r] <= failed[r]
      BY <1>1 DEF RequestInv
    <3>2. fast'[r] = fast[r] /\ failed'[r] = failed[r] /\ failures'[r] <= failures[r]
          /\ failures[r] \in Nat /\ failures'[r] \in Nat /\ failed[r] \in Nat
      BY <1>1, <2>1 DEF hist_vars
    <3> QED BY <3>1, <3>2
  <2>4. RequestInv'
    BY <1>1, <2>1, <2>2, <2>3 DEF RequestInv, hist_vars
  <2> QED BY <2>1, <2>4 DEF hist_vars
<1>6. CASE AtLimit(w)
  <2>1. /\ UNCHANGED <<failures, hist_vars>> /\ worker[w].pc = "limit"
        /\ worker'[w].pc = "idle" \/ worker'[w].count = worker[w].count
    BY <1>6, TransferPlace DEF AtLimit, Of
  <2>2. \A v \in Workers : worker'[v].pc \in {"limit", "swap"}
                           => /\ worker[v].pc \in {"limit", "swap"}
                              /\ worker'[v].count = worker[v].count
    BY <1>1, <2>1
  <2> QED BY <2>1, <2>2, RequestSame DEF hist_vars
<1>7. CASE ~(Add(w) \/ Swap(w) \/ ResultOk(w) \/ AtLimit(w))
  <2>1. UNCHANGED <<failures, hist_vars>>
    BY <1>7 DEF Transfer, Permit, NoPermit, Unmark, Succeed, Fail, GiveGlobal, GiveTask,
                ResultError, Blame, Defer
  <2>2. worker'[w].pc \notin {"limit", "swap"}
    <3>1. CASE NoPermit(w) \/ Fail(w)
      BY <1>1, <3>1 DEF NoPermit, Fail, Jobs
    <3> QED BY <1>7, <3>1, TransferPlace DEF Transfer, Permit, Unmark, Succeed, GiveGlobal,
                 GiveTask, ResultError, Blame, Defer
  <2> QED BY <1>1, <2>1, <2>2, RequestSame DEF hist_vars
<1> QED BY <1>2, <1>3, <1>4, <1>5, <1>6, <1>7

\* Every step keeps the requests paid for.
LEMMA StepRequest ==
    ASSUME Known, RequestInv, [Next]_vars, failed \in [Runs -> Nat], fast \in [Runs -> Nat]
    PROVE  RequestInv' /\ failed' \in [Runs -> Nat] /\ fast' \in [Runs -> Nat]
<1>1. worker \in [Workers -> Jobs]
  BY DEF Known, Shapes
<1>2. CASE UNCHANGED <<failures, hist_vars, worker>>
  BY <1>2, RequestSame DEF hist_vars
<1>3. CASE PickReady \/ PickThawed
  <2>1. UNCHANGED <<failures, hist_vars>>
    BY <1>3 DEF PickReady, PickThawed
  <2>2. CASE UNCHANGED <<cnt_vars, worker>>
    BY <1>2, <2>1, <2>2
  <2>3. ASSUME NEW k \in Chunks, NEW cs \in [Chunks -> Marks], At("pick"), Dispatch(k, cs),
               ~cs[k].completed,
               \A j \in Chunks : /\ cs[j].completed = chunk[loop.run][j].completed
                                 /\ cs[j].downloading = chunk[loop.run][j].downloading
        PROVE  RequestInv' /\ failed' \in [Runs -> Nat] /\ fast' \in [Runs -> Nat]
    <3>1. PICK w \in Workers : worker' = [worker EXCEPT ![w] = Sent(loop.run, k)]
      BY <2>3, DispatchMoves
    <3>2. Sent(loop.run, k).pc = "permit"
      BY DEF Sent, Idle
    <3>3. \A v \in Workers : worker'[v] = worker[v] \/ worker'[v].pc = "permit"
      BY <1>1, <3>1, <3>2
    <3> QED BY <2>1, <3>3, RequestSame DEF hist_vars
  <2> QED BY <1>3, <2>2, <2>3, PickMoves
<1>4. CASE \E w \in Workers : Transfer(w)
  BY <1>4, TransferRequest
<1>5. CASE Loop /\ ~(PickReady \/ PickThawed)
  BY <1>2, <1>5 DEF Loop, StartRound, Fetch, Check, Evict, PickNone, AllDone, CountTransfers,
              LookForCooling, RequeueSlow, Finish
<1>6. CASE \/ StartRun \/ Pause \/ Resume \/ HandleRequeue
           \/ \E r \in Runs : Finalize(r) \/ \E k \in Chunks : Expire(r, k)
  BY <1>2, <1>6 DEF StartRun, Pause, Resume, HandleRequeue, RequeueSkipped, RequeueExhausted,
              Requeue, Finalize, Expire
<1>7. CASE UNCHANGED vars
  BY <1>2, <1>7 DEF vars
<1> QED BY <1>3, <1>4, <1>5, <1>6, <1>7 DEF Next

\* Several transfers that see the limit together send one request: no run sends more
\* requests for consecutive failures than it has had FailureLimit failures.
THEOREM OneRequestPerLimitOK == Spec => []OneRequestPerLimit
<1> DEFINE Inv == Known /\ RequestInv /\ failed \in [Runs -> Nat] /\ fast \in [Runs -> Nat]
<1>0. FailureLimit \in Nat
  BY SchedulerAssumption
<1>1. Init => Inv
  <2> SUFFICES ASSUME Init PROVE Inv
    OBVIOUS
  <2>1. failed \in [Runs -> Nat] /\ fast \in [Runs -> Nat]
    BY DEF Init
  <2>2. \A r \in Runs : fast[r] = 0 /\ failed[r] = 0 /\ failures[r] = 0
    BY DEF Init
  <2>3. \A w \in Workers : worker[w].pc = "idle"
    BY DEF Init, Idle
  <2>4. RequestInv
    BY <1>0, <2>2, <2>3 DEF RequestInv
  <2> QED BY <2>1, <2>4, InitKnown
<1>2. Inv /\ [Next]_vars => Inv'
  BY StepKnown, StepRequest
<1>3. Inv => OneRequestPerLimit
  <2> SUFFICES ASSUME Inv, NEW r \in Runs PROVE fast[r] * FailureLimit <= failed[r]
    BY DEF OneRequestPerLimit
  <2>1. \E n \in Int : n = fast[r] * FailureLimit /\ n + failures[r] <= failed[r]
    BY <1>0 DEF RequestInv
  <2>2. failures[r] \in Nat /\ failed[r] \in Nat
    BY DEF Known, Shapes
  <2> QED BY <2>1, <2>2
<1> QED BY <1>1, <1>2, <1>3, PTL DEF Spec
=============================================================================
