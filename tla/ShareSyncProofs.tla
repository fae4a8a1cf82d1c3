---------------------------- MODULE ShareSyncProofs ----------------------------
(***************************************************************************)
(* Proofs about ShareSync, for any files, triggers and bounds: the flag of *)
(* the subscription is up exactly while one actor drives a run; two runs   *)
(* never download the same file; a baseline is only recorded for files     *)
(* that are on the disk; and a start-up leaves no interrupted run behind.  *)
(***************************************************************************)
EXTENDS ShareSync, FiniteSetTheorems, TLAPS

\* Where the actors are is a record for each of them.
StagesKnown ==
    /\ DOMAIN at = Actors
    /\ \A a \in Actors : "pc" \in DOMAIN at[a]

\* OneDriver without counting: nobody drives while the flag is down, and while
\* it is up somebody does and nobody else.
FlagInv ==
    /\ StagesKnown
    /\ running \in BOOLEAN
    /\ ~running => \A a \in Actors : Stage(a) \notin Busy
    /\ running => \E a \in Actors : /\ Stage(a) \in Busy
                                    /\ \A b \in Actors : Stage(b) \in Busy => b = a

\* The flag is down and nobody drives at the start.
LEMMA InitFlag == Init => FlagInv
<1> SUFFICES ASSUME Init PROVE FlagInv
  OBVIOUS
<1>1. \A a \in Actors : at[a] = [pc |-> "idle", run |-> NoRun]
  BY DEF Init, Idle
<1>2. DOMAIN at = Actors
  BY DEF Init
<1>3. DOMAIN [pc |-> "idle", run |-> NoRun] = {"pc", "run"}
  OBVIOUS
<1>4. \A a \in Actors : Stage(a) = "idle"
  BY <1>1 DEF Stage
<1> QED BY <1>1, <1>2, <1>3, <1>4 DEF Init, FlagInv, StagesKnown, Busy

\* The invariant says what is counted.
LEMMA FlagCounts == FlagInv => OneDriver
<1> SUFFICES ASSUME FlagInv PROVE OneDriver
  OBVIOUS
<1> DEFINE D == {a \in Actors : Stage(a) \in Busy}
<1>1. CASE running
  <2>1. PICK a \in Actors : /\ Stage(a) \in Busy
                            /\ \A b \in Actors : Stage(b) \in Busy => b = a
    BY <1>1 DEF FlagInv
  <2>2. D = {a}
    BY <2>1
  <2>3. Cardinality({a}) = 1
    BY FS_Singleton
  <2> QED BY <1>1, <2>2, <2>3 DEF OneDriver
<1>2. CASE ~running
  <2>1. D = {}
    BY <1>2 DEF FlagInv
  <2> QED BY <1>2, <2>1, FS_EmptySet DEF OneDriver
<1> QED BY <1>1, <1>2

\* A step after which the same actors drive keeps the invariant.
LEMMA SameDrivers ==
    ASSUME FlagInv, running' = running, StagesKnown',
           \A a \in Actors : (Stage(a) \in Busy)' <=> Stage(a) \in Busy
    PROVE  FlagInv'
BY DEF FlagInv

\* What moving one actor does to the others.
LEMMA Moved ==
    ASSUME StagesKnown, NEW a \in Actors, NEW pc, NEW r, Goes(a, pc, r)
    PROVE  /\ StagesKnown'
           /\ Stage(a)' = pc
           /\ \A b \in Actors : b # a => Stage(b)' = Stage(b)
BY DEF StagesKnown, Goes, Stage

\* Moving between two stages of the same kind changes no driver.
LEMMA MovedKeeps ==
    ASSUME FlagInv, running' = running, NEW a \in Actors, NEW pc, NEW r, Goes(a, pc, r),
           pc \in Busy <=> Stage(a) \in Busy
    PROVE  FlagInv'
<1>1. StagesKnown
  BY DEF FlagInv
<1> QED BY <1>1, Moved, SameDrivers

\* Nobody moves.
LEMMA StillKeeps == ASSUME FlagInv, UNCHANGED <<running, at>> PROVE FlagInv'
BY DEF FlagInv, StagesKnown, Stage

\* The driver leaves and takes the flag down.
LEMMA LeavesKeeps ==
    ASSUME FlagInv, NEW a \in Actors, Stage(a) \in Busy, Leaves(a)
    PROVE  FlagInv'
<1>1. StagesKnown /\ Goes(a, "idle", NoRun) /\ running' = FALSE
  BY DEF FlagInv, Leaves
<1>2. /\ StagesKnown'
      /\ Stage(a)' = "idle"
      /\ \A b \in Actors : b # a => Stage(b)' = Stage(b)
  BY <1>1, Moved
<1>3. \A b \in Actors : Stage(b) \in Busy => b = a
  BY DEF FlagInv
<1>4. \A b \in Actors : Stage(b)' \notin Busy
  BY <1>2, <1>3 DEF Busy
<1> QED BY <1>1, <1>2, <1>4 DEF FlagInv, Busy

\* An actor that finds the flag down puts it up and drives.
LEMMA TakesKeeps ==
    ASSUME FlagInv, ~running, running' = TRUE,
           NEW a \in Actors, NEW pc \in Busy, NEW r, Goes(a, pc, r)
    PROVE  FlagInv'
<1>1. StagesKnown /\ \A b \in Actors : Stage(b) \notin Busy
  BY DEF FlagInv
<1>2. /\ StagesKnown'
      /\ Stage(a)' = pc
      /\ \A b \in Actors : b # a => Stage(b)' = Stage(b)
  BY <1>1, Moved
<1> QED BY <1>1, <1>2 DEF FlagInv, Busy

\* The start-up goes from stage to stage; none of them drives a run.
LEMMA RecoversKeeps ==
    ASSUME FlagInv, running' = running, "startup" \in Actors, NEW pc, pc \notin Busy,
           Stage("startup") \notin Busy, Recovers(pc)
    PROVE  FlagInv'
<1>1. StagesKnown
  BY DEF FlagInv
<1>2. /\ StagesKnown'
      /\ Stage("startup")' = pc
      /\ \A b \in Actors : b # "startup" => Stage(b)' = Stage(b)
  BY <1>1 DEF StagesKnown, Recovers, Stage
<1> QED BY <1>2, SameDrivers

\* A restart: everybody is idle, but for a start-up that recovers.
LEMMA RestartKeeps == ASSUME Restart PROVE FlagInv'
<1> DEFINE fresh == {r \in Runs : row[r] = "running"}
           stale == {r \in Runs : Older(r)}
           rec   == [pc |-> "recovering", run |-> NoRun, fresh |-> fresh, stale |-> stale]
<1>1. /\ running' = FALSE
      /\ at' = [a \in Actors |-> IF a = "startup" /\ fresh \cup stale # {} THEN rec ELSE Idle]
  BY DEF Restart
<1>2. DOMAIN at' = Actors /\ \A a \in Actors : at'[a] = rec \/ at'[a] = Idle
  BY <1>1
<1>3. rec.pc = "recovering" /\ "pc" \in DOMAIN rec
  OBVIOUS
<1>4. Idle.pc = "idle" /\ "pc" \in DOMAIN Idle
  BY DEF Idle
<1>5. \A a \in Actors : at'[a].pc \in {"recovering", "idle"} /\ "pc" \in DOMAIN at'[a]
  BY <1>2, <1>3, <1>4
<1>6. \A a \in Actors : Stage(a)' \notin Busy
  BY <1>5 DEF Stage, Busy
<1> QED BY <1>1, <1>2, <1>5, <1>6 DEF FlagInv, StagesKnown, Busy

\* The names of the two actors that are no trigger.
LEMMA NamedActors == "tick" \in Actors /\ "startup" \in Actors
BY DEF Actors

\* What starts a run takes the flag in one step, or leaves it alone.
LEMMA StartsKeeps ==
    ASSUME FlagInv, NEW a \in Actors, Starts(a)
    PROVE  FlagInv'
<1>1. CASE Enter(a)
  <2>1. CASE running
    <3>1. Goes(a, "idle", NoRun) /\ running' = running /\ Stage(a) = "entering"
      BY <1>1, <2>1 DEF Enter
    <3> QED BY <3>1, MovedKeeps DEF Busy
  <2>2. CASE ~running
    <3>1. Goes(a, "resolving", RunOf(a)) /\ running' = TRUE
      BY <1>1, <2>2 DEF Enter
    <3>2. "resolving" \in Busy
      BY DEF Busy
    <3> QED BY <2>2, <3>1, <3>2, TakesKeeps
  <2> QED BY <2>1, <2>2
<1>2. CASE Resolve(a)
  <2>1. Stage(a) = "resolving" /\ Stage(a) \in Busy /\ "sweeping" \in Busy
    BY <1>2 DEF Resolve, Busy
  <2>2. CASE RunOf(a) # NoRun
    <3>1. Goes(a, "sweeping", RunOf(a)) /\ running' = running
      BY <1>2, <2>2 DEF Resolve
    <3> QED BY <2>1, <3>1, MovedKeeps
  <2>3. CASE RunOf(a) = NoRun /\ CanRun
    <3>1. Goes(a, "sweeping", NextRun) /\ running' = running
      BY <1>2, <2>3 DEF Resolve
    <3> QED BY <2>1, <3>1, MovedKeeps
  <2>4. CASE RunOf(a) = NoRun /\ ~CanRun
    <3>1. Leaves(a)
      BY <1>2, <2>4 DEF Resolve
    <3> QED BY <2>1, <3>1, LeavesKeeps
  <2> QED BY <2>2, <2>3, <2>4
<1>3. CASE ResolveFails(a) \/ ScanFails(a)
  <2>1. Leaves(a) /\ Stage(a) \in Busy
    BY <1>3 DEF ResolveFails, ScanFails, Busy
  <2> QED BY <2>1, LeavesKeeps
<1>4. CASE Sweep(a)
  <2>1. /\ Goes(a, "scanning", RunOf(a)) /\ running' = running
        /\ "scanning" \in Busy /\ Stage(a) \in Busy
    BY <1>4 DEF Sweep, Busy
  <2> QED BY <2>1, MovedKeeps
<1>5. CASE Scan(a)
  <2>1. /\ Goes(a, "applying", RunOf(a)) /\ running' = running
        /\ "applying" \in Busy /\ Stage(a) \in Busy
    BY <1>5 DEF Scan, Busy
  <2> QED BY <2>1, MovedKeeps
<1> QED BY <1>1, <1>2, <1>3, <1>4, <1>5 DEF Starts

\* The work on the files moves nobody; its end gives the flag back.
LEMMA AppliesKeeps ==
    ASSUME FlagInv, NEW a \in Actors, Applies(a)
    PROVE  FlagInv'
<1>1. CASE Finish(a)
  <2>1. /\ Goes(a, "promoting", RunOf(a)) /\ running' = running
        /\ "promoting" \in Busy /\ Stage(a) \in Busy
    BY <1>1 DEF Finish, Busy
  <2> QED BY <2>1, MovedKeeps
<1>2. CASE Promote(a)
  <2>1. Leaves(a) /\ Stage(a) \in Busy
    BY <1>2 DEF Promote, Busy
  <2> QED BY <2>1, LeavesKeeps
<1>3. ASSUME NEW f \in Files,
             \/ SkipExisting(a, f) \/ Submit(a, f) \/ Record(a, f) \/ WaitEnds(a, f)
             \/ Retry(a, f) \/ Remove(a, f)
             \/ \E to \in {"completed", "failed", "skipped"} : GivesUp(a, f, to)
      PROVE  FlagInv'
  <2>1. UNCHANGED <<running, at>>
    BY <1>3 DEF SkipExisting, Submit, Record, WaitEnds, Retry, Remove, GivesUp
  <2> QED BY <2>1, StillKeeps
<1>4. CASE Wake(a)
  BY <1>4, StillKeeps DEF Wake
<1> QED BY <1>1, <1>2, <1>3, <1>4 DEF Applies

\* The start-up recovery takes the flag as every other entry does.
LEMMA RecoveryKeeps == ASSUME FlagInv, Recovery PROVE FlagInv'
<1> USE NamedActors
<1>1. CASE Recover
  <2>1. Stage("startup") \notin Busy /\ "idle" \notin Busy /\ "probing" \notin Busy
    BY <1>1 DEF Recover, Busy
  <2>2. running' = running /\ (Recovers("probing") \/ Goes("startup", "idle", NoRun))
    BY <1>1 DEF Recover
  <2> QED BY <2>1, <2>2, MovedKeeps, RecoversKeeps
<1>2. CASE Probe
  <2>1. /\ Stage("startup") \notin Busy
        /\ "idle" \notin Busy /\ "taking" \notin Busy /\ "purging" \notin Busy
    BY <1>2 DEF Probe, Busy
  <2>2. /\ running' = running
        /\ \/ \E r : Goes("startup", "taking", r)
           \/ Goes("startup", "idle", NoRun)
           \/ Recovers("purging")
    BY <1>2 DEF Probe
  <2> QED BY <2>1, <2>2, MovedKeeps, RecoversKeeps
<1>3. CASE Purge
  <2>1. /\ Stage("startup") \notin Busy /\ "entering" \notin Busy
        /\ running' = running /\ Goes("startup", "entering", NoRun)
    BY <1>3 DEF Purge, Busy
  <2> QED BY <2>1, MovedKeeps
<1>4. CASE TakeOver
  <2>1. CASE Goes("startup", "idle", NoRun) /\ running' = running
    <3>1. Stage("startup") \notin Busy /\ "idle" \notin Busy
      BY <1>4 DEF TakeOver, Busy
    <3> QED BY <2>1, <3>1, MovedKeeps
  <2>2. CASE ~running /\ running' = TRUE /\ Goes("startup", "resuming", RunOf("startup"))
    <3>1. "resuming" \in Busy
      BY DEF Busy
    <3> QED BY <2>2, <3>1, TakesKeeps
  <2> QED BY <1>4, <2>1, <2>2 DEF TakeOver
<1>5. CASE FinalizeResumed
  <2>1. Stage("startup") \in Busy /\ Leaves("startup")
    BY <1>5 DEF FinalizeResumed, Busy
  <2> QED BY <2>1, LeavesKeeps
<1> QED BY <1>1, <1>2, <1>3, <1>4, <1>5 DEF Recovery

\* No step of the subscription, and no stutter, breaks the invariant.
LEMMA NextFlag == FlagInv /\ [Next]_vars => FlagInv'
<1> SUFFICES ASSUME FlagInv, [Next]_vars PROVE FlagInv'
  OBVIOUS
<1>1. CASE Tick
  <2>1. /\ "tick" \in Actors /\ Stage("tick") \notin Busy /\ "entering" \notin Busy
        /\ running' = running /\ Goes("tick", "entering", NoRun)
    BY <1>1, NamedActors DEF Tick, Stage, Idle, Busy
  <2> QED BY <2>1, MovedKeeps
<1>2. ASSUME NEW t \in Triggers, Trigger(t) \/ TriggerStarts(t) \/ TriggerRefused(t)
      PROVE  FlagInv'
  <2>1. t \in Actors
    BY DEF Actors
  <2>2. /\ Stage(t) \notin Busy /\ running' = running
        /\ "idle" \notin Busy /\ "asking" \notin Busy /\ "entering" \notin Busy
    BY <1>2 DEF Trigger, TriggerStarts, TriggerRefused, Stage, Idle, Busy
  <2>3. \/ Goes(t, "asking", NoRun) \/ Goes(t, "idle", NoRun) \/ Goes(t, "entering", NextRun)
    BY <1>2 DEF Trigger, TriggerStarts, TriggerRefused
  <2> QED BY <2>1, <2>2, <2>3, MovedKeeps
<1>3. CASE Downloads
  <2>1. UNCHANGED <<running, at>>
    BY <1>3 DEF Downloads, DownloadEnds
  <2> QED BY <2>1, StillKeeps
<1>4. CASE UNCHANGED vars
  BY <1>4, StillKeeps DEF vars
<1> QED BY <1>1, <1>2, <1>3, <1>4, RestartKeeps, RecoveryKeeps, StartsKeeps, AppliesKeeps
        DEF Next

\* OneDriver holds in every behaviour, whatever the files, the triggers and the bounds: a
\* tick, a trigger and a take-over that all saw the flag down never run the subscription
\* twice, and no way out of a run forgets to take the flag down.
THEOREM FlagExact == Spec => []OneDriver
<1>1. Init => FlagInv
  BY InitFlag
<1>2. FlagInv /\ [Next]_vars => FlagInv'
  BY NextFlag
<1>3. FlagInv => OneDriver
  BY FlagCounts
<1> QED BY <1>1, <1>2, <1>3, PTL DEF Spec

-----------------------------------------------------------------------------
(* Types                                                                   *)

Places     == [pc : Busy \cup {"idle", "asking", "entering", "taking"}, run : Runs \cup {NoRun}]
Recoveries == [pc : {"recovering", "probing", "purging"}, run : {NoRun},
               fresh : SUBSET Runs, stale : SUBSET Runs]

\* Every actor is at a place of a run, or in the recovery.
Placed == \A a \in Actors : at[a] \in Places \/ at[a] \in Recoveries

Rows      == {"unused", "running", "interrupted", "completed", "errors", "failed"}
Items     == {"none", "flight", "completed", "failed", "skipped"}
Tasks     == {"none", "active", "paused", "done", "failed"}
Leaves_   == {"none", "todo", "again", "submitted", "waiting", "remove",
              "completed", "failed", "skipped"}
Snapshots == Content \cup {None}

\* The variables other than the places of the actors.
DataOK ==
    /\ landed \in Content
    /\ row \in [Runs -> Rows]
    /\ candidate \in [Runs -> Snapshots]
    /\ captured \in [Runs -> Snapshots]
    /\ baseline \in Snapshots
    /\ item \in [Runs -> [Files -> Items]]
    /\ download \in [Runs -> [Files -> Tasks]]
    /\ running \in BOOLEAN
    /\ leaf \in [Actors -> [Files -> Leaves_]]
    /\ mishaps \in 0..MaxMishaps

\* The type invariant is these two.
LEMMA TypeParts == TypeOK <=> DataOK /\ Placed
BY DEF TypeOK, DataOK, Placed, Places, Recoveries, Rows, Items, Tasks, Leaves_, Snapshots

\* What Goes does to the places: the actor is at the given one, nobody else moves.
LEMMA GoesThere ==
    ASSUME StagesKnown, NEW a \in Actors, NEW pc, NEW r, Goes(a, pc, r)
    PROVE  /\ at'[a] = [pc |-> pc, run |-> r]
           /\ Stage(a)' = pc /\ RunOf(a)' = r
           /\ \A b \in Actors : b # a =>
                 at'[b] = at[b] /\ Stage(b)' = Stage(b) /\ RunOf(b)' = RunOf(b)
BY DEF StagesKnown, Goes, Stage, RunOf

\* An actor that goes to a place of a run keeps the places typed.
LEMMA GoesPlaced ==
    ASSUME StagesKnown, Placed, NEW a \in Actors,
           NEW pc \in Busy \cup {"idle", "asking", "entering", "taking"},
           NEW r \in Runs \cup {NoRun}, Goes(a, pc, r)
    PROVE  Placed'
<1>1. [pc |-> pc, run |-> r] \in Places
  BY DEF Places
<1> QED BY <1>1, GoesThere DEF Placed

\* The run of an actor is a run, or none.
LEMMA RunTyped == ASSUME Placed, NEW a \in Actors PROVE RunOf(a) \in Runs \cup {NoRun}
BY DEF Placed, Places, Recoveries, RunOf

\* The start-up moves within its recovery.
LEMMA RecoversPlaced ==
    ASSUME StagesKnown, Placed, NEW pc \in {"recovering", "probing", "purging"},
           Stage("startup") \in {"recovering", "probing", "purging"}, Recovers(pc)
    PROVE  /\ Placed'
           /\ at'["startup"].fresh = at["startup"].fresh
           /\ at'["startup"].stale = at["startup"].stale
           /\ Stage("startup")' = pc /\ RunOf("startup")' = NoRun
           /\ \A b \in Actors : b # "startup" =>
                 at'[b] = at[b] /\ Stage(b)' = Stage(b) /\ RunOf(b)' = RunOf(b)
<1>1. at["startup"] \in Recoveries
  BY NamedActors DEF Placed, Places, Busy, Stage
<1>2. at' = [at EXCEPT !["startup"] = [at["startup"] EXCEPT !.pc = pc]]
  BY DEF Recovers
<1> DEFINE x == [at["startup"] EXCEPT !.pc = pc]
<1>3. /\ x \in Recoveries /\ x.pc = pc /\ x.run = NoRun
      /\ x.fresh = at["startup"].fresh /\ x.stale = at["startup"].stale
  BY <1>1 DEF Recoveries
<1>4. at'["startup"] = x /\ \A b \in Actors : b # "startup" => at'[b] = at[b]
  BY <1>2, NamedActors DEF StagesKnown
<1> HIDE DEF x
<1> QED BY <1>3, <1>4 DEF Placed, Stage, RunOf

\* A map of maps stays typed when one entry is replaced, in its domain or not.
LEMMA PutType ==
    ASSUME NEW A, NEW B, NEW C, NEW g \in [A -> [B -> C]], NEW x, NEW y, NEW c \in C
    PROVE  [g EXCEPT ![x][y] = c] \in [A -> [B -> C]]
OBVIOUS

\* The largest of some runs is one of them.
LEMMA NewestIs == ASSUME NEW S \in SUBSET Runs, S # {} PROVE Newest(S) \in S
<1> DEFINE Gaps == {MaxRuns - q : q \in S}
<1>1. \A q \in S : q \in Nat /\ MaxRuns - q \in Nat
  BY ShareSyncAssumption DEF Runs
<1>2. Gaps \subseteq Nat /\ Gaps # {}
  BY <1>1
<1> DEFINE R == {p \in Nat \X Nat : p[1] < p[2]}
<1>3. IsWellFoundedOn(R, Nat)
  BY NatLessThanWellFounded DEF OpToRel
<1>4. PICK g \in Gaps : \A h \in Gaps : <<h, g>> \notin R
  <2> HIDE DEF Gaps, R
  <2> QED BY <1>2, <1>3, WFMin
<1>5. \A h \in Gaps : ~(h < g)
  BY <1>2, <1>4
<1>6. PICK r \in S : g = MaxRuns - r
  OBVIOUS
<1>7. \A q \in S : q <= r
  <2> SUFFICES ASSUME NEW q \in S PROVE q <= r
    OBVIOUS
  <2>1. MaxRuns - q \in Gaps
    OBVIOUS
  <2>2. ~(MaxRuns - q < MaxRuns - r)
    BY <1>5, <1>6, <2>1
  <2>3. MaxRuns \in Nat /\ q \in Nat /\ r \in Nat
    BY ShareSyncAssumption, <1>1
  <2> HIDE DEF Gaps
  <2> QED BY <2>2, <2>3
<1> HIDE DEF Gaps
<1> QED BY <1>6, <1>7 DEF Newest
\* fail_run and the start of a row keep the types of what they change.
LEMMA RowTypes ==
    ASSUME DataOK, NEW r
    PROVE  /\ FailsRun(r) => row' \in [Runs -> Rows] /\ candidate' \in [Runs -> Snapshots]
           /\ StartsRow(r) => row' \in [Runs -> Rows]
           /\ Drops(r) => candidate' \in [Runs -> Snapshots] /\ baseline' \in Snapshots
<1>1. /\ row \in [Runs -> Rows] /\ candidate \in [Runs -> Snapshots] /\ baseline \in Snapshots
      /\ "failed" \in Rows /\ "running" \in Rows /\ None \in Snapshots
  BY DEF DataOK, Rows, Snapshots
<1> QED BY <1>1 DEF FailsRun, StartsRow, Drops

\* Promotes too, for a run.
LEMMA PromotesTypes ==
    ASSUME DataOK, NEW r \in Runs, Promotes(r)
    PROVE  candidate' \in [Runs -> Snapshots] /\ baseline' \in Snapshots
<1>1. /\ candidate \in [Runs -> Snapshots] /\ baseline \in Snapshots /\ None \in Snapshots
  BY DEF DataOK, Snapshots
<1> QED BY <1>1 DEF Promotes

\* Starting a run keeps the types of the data.
LEMMA StartsData ==
    ASSUME DataOK, NEW a \in Actors, Starts(a)
    PROVE  DataOK'
<1>0. mishaps \in Nat /\ (Fault => mishaps' \in 0..MaxMishaps)
  BY ShareSyncAssumption DEF DataOK, Fault
<1>1. CASE Enter(a)
  BY <1>1, RowTypes DEF Enter, DataOK
<1>2. CASE Resolve(a)
  BY <1>2, RowTypes DEF Resolve, Leaves, DataOK
<1>3. CASE ResolveFails(a) \/ ScanFails(a)
  BY <1>0, <1>3, RowTypes DEF ResolveFails, ScanFails, Leaves, DataOK
<1>4. CASE Sweep(a)
  <2>1. NoTasks \in [Runs -> [Files -> Tasks]]
    BY DEF NoTasks, NoLeaves, Tasks
  <2> QED BY <1>4, <2>1 DEF Sweep, SweptAll, DataOK, stored
<1>5. CASE Scan(a)
  <2>1. PICK share \in Content :
          /\ \/ candidate' = [candidate EXCEPT ![RunOf(a)] = share] /\ UNCHANGED mishaps
             \/ Fault /\ UNCHANGED candidate
          /\ captured' = [captured EXCEPT ![RunOf(a)] = share]
          /\ leaf' = [leaf EXCEPT ![a] = [f \in Files |-> WorkOf(share, f)]]
    BY <1>5 DEF Scan
  <2>2. [f \in Files |-> WorkOf(share, f)] \in [Files -> Leaves_]
    BY DEF WorkOf, Leaves_
  <2>3. share \in Snapshots
    BY DEF Snapshots
  <2>4. /\ candidate' \in [Runs -> Snapshots] /\ captured' \in [Runs -> Snapshots]
        /\ mishaps' \in 0..MaxMishaps
    BY <1>0, <2>1, <2>3 DEF DataOK
  <2>5. leaf' \in [Actors -> [Files -> Leaves_]]
    BY <2>1, <2>2 DEF DataOK
  <2> QED BY <1>5, <2>4, <2>5 DEF Scan, DataOK
<1> QED BY <1>1, <1>2, <1>3, <1>4, <1>5 DEF Starts

\* So does the work on a file.
LEMMA UnitData ==
    ASSUME DataOK, NEW a \in Actors, NEW f \in Files,
           \/ SkipExisting(a, f) \/ Submit(a, f) \/ Record(a, f) \/ WaitEnds(a, f)
           \/ Retry(a, f) \/ Remove(a, f)
           \/ \E to \in {"completed", "failed", "skipped"} : GivesUp(a, f, to)
    PROVE  DataOK'
<1>0. mishaps \in Nat /\ (Fault => mishaps' \in 0..MaxMishaps)
  BY ShareSyncAssumption DEF DataOK, Fault
<1>1. ASSUME NEW to \in Leaves_, Moves(a, f, to) PROVE leaf' \in [Actors -> [Files -> Leaves_]]
  BY <1>1, PutType DEF Moves, DataOK
<1>2. ASSUME NEW st \in Items, Notes(a, f, st) PROVE item' \in [Runs -> [Files -> Items]]
  BY <1>2, PutType DEF Notes, DataOK
<1>3. ASSUME NEW st \in Tasks, Task(a, f, st) PROVE download' \in [Runs -> [Files -> Tasks]]
  BY <1>3, PutType DEF Task, DataOK
<1>4. /\ {"completed", "failed", "skipped", "submitted", "waiting", "again"} \subseteq Leaves_
      /\ {"completed", "failed", "skipped", "flight"} \subseteq Items
      /\ "active" \in Tasks /\ "none" \in Tasks
  BY DEF Leaves_, Items, Tasks
<1>5. CASE SkipExisting(a, f) \/ Record(a, f) \/ WaitEnds(a, f)
  <2>1. /\ leaf' \in [Actors -> [Files -> Leaves_]]
        /\ item' \in [Runs -> [Files -> Items]]
        /\ UNCHANGED <<landed, row, candidate, baseline, download, captured, running, mishaps>>
    BY <1>1, <1>2, <1>4, <1>5 DEF SkipExisting, Record, WaitEnds
  <2> QED BY <2>1 DEF DataOK
<1>6. CASE Submit(a, f) \/ Retry(a, f)
  <2>1. /\ leaf' \in [Actors -> [Files -> Leaves_]]
        /\ download' \in [Runs -> [Files -> Tasks]]
        /\ mishaps' \in 0..MaxMishaps
        /\ UNCHANGED <<landed, row, candidate, baseline, item, captured, running>>
    BY <1>0, <1>1, <1>3, <1>4, <1>6 DEF Submit, Retry, Discards, stored, DataOK
  <2> QED BY <2>1 DEF DataOK
<1>7. CASE Remove(a, f)
  <2>1. landed' \in Content
    BY <1>7, ShareSyncAssumption DEF Remove, DataOK, Content
  <2>2. /\ leaf' \in [Actors -> [Files -> Leaves_]]
        /\ item' \in [Runs -> [Files -> Items]]
        /\ mishaps' \in 0..MaxMishaps
        /\ UNCHANGED <<row, candidate, baseline, download, captured, running>>
    BY <1>0, <1>1, <1>2, <1>4, <1>7 DEF Remove, DataOK
  <2> QED BY <2>1, <2>2 DEF DataOK
<1>8. ASSUME NEW to \in {"completed", "failed", "skipped"}, GivesUp(a, f, to) PROVE DataOK'
  <2>1. /\ leaf' \in [Actors -> [Files -> Leaves_]]
        /\ item' \in [Runs -> [Files -> Items]]
        /\ download' \in [Runs -> [Files -> Tasks]]
        /\ mishaps' \in 0..MaxMishaps
        /\ UNCHANGED <<landed, row, candidate, baseline, captured, running>>
    BY <1>0, <1>1, <1>2, <1>3, <1>4, <1>8 DEF GivesUp, Discards, DataOK
  <2> QED BY <2>1 DEF DataOK
<1> QED BY <1>5, <1>6, <1>7, <1>8

\* So do the wake-up, the end of a run and what becomes of its snapshot.
LEMMA AppliesData ==
    ASSUME DataOK, Placed, NEW a \in Actors, Applies(a), Stage(a) = "promoting" => RunOf(a) \in Runs
    PROVE  DataOK'
<1>1. CASE Wake(a)
  <2>1. download' \in [Runs -> [Files -> Tasks]]
    BY <1>1 DEF Wake, DataOK, Tasks
  <2> QED BY <1>1, <2>1 DEF Wake, DataOK, stored
<1>2. CASE Finish(a)
  <2>1. row' \in [Runs -> Rows]
    BY <1>2 DEF Finish, DataOK, Rows
  <2> QED BY <1>2, <2>1 DEF Finish, DataOK
<1>3. CASE Promote(a)
  <2>1. candidate' \in [Runs -> Snapshots] /\ baseline' \in Snapshots
    BY <1>3, RowTypes, PromotesTypes DEF Promote
  <2>2. leaf' \in [Actors -> [Files -> Leaves_]]
    <3>1. NoLeaves \in [Files -> Leaves_]
      BY DEF NoLeaves, Leaves_
    <3> QED BY <1>3, <3>1 DEF Promote, DataOK
  <2> QED BY <1>3, <2>1, <2>2 DEF Promote, Leaves, DataOK
<1> QED BY <1>1, <1>2, <1>3, UnitData DEF Applies

\* The start-up and a restart keep the types of the data.
LEMMA RecoveryData ==
    ASSUME DataOK, Recovery \/ Restart, Stage("startup") = "resuming" => RunOf("startup") \in Runs
    PROVE  DataOK'
<1>0. mishaps \in Nat /\ (Fault => mishaps' \in 0..MaxMishaps)
  BY ShareSyncAssumption DEF DataOK, Fault
<1>1. CASE Recover
  BY <1>0, <1>1 DEF Recover, DataOK, stored
<1>2. CASE Probe
  <2>1. \/ candidate' = candidate
        \/ candidate' = [r \in Runs |->
                            IF r \in at["startup"].fresh THEN None ELSE candidate[r]]
    BY <1>2 DEF Probe
  <2>2. candidate' \in [Runs -> Snapshots]
    BY <2>1 DEF DataOK, Snapshots
  <2> QED BY <1>2, <2>2 DEF Probe, DataOK
<1>3. CASE Purge
  <2>1. NoTasks \in [Runs -> [Files -> Tasks]]
    BY DEF NoTasks, NoLeaves, Tasks
  <2> QED BY <1>3, <2>1 DEF Purge, DataOK, stored
<1>4. CASE TakeOver
  <2>1. row' \in [Runs -> Rows]
    BY <1>4 DEF TakeOver, MarkRunning, DataOK, Rows
  <2>2. mishaps' \in 0..MaxMishaps
    BY <1>0, <1>4 DEF TakeOver, DataOK
  <2>3. running' \in BOOLEAN
    BY <1>4 DEF TakeOver, DataOK
  <2> QED BY <1>4, <2>1, <2>2, <2>3 DEF TakeOver, DataOK
<1>5. CASE FinalizeResumed
  <2> DEFINE r == RunOf("startup")
  <2>1. r \in Runs
    BY <1>5 DEF FinalizeResumed
  <2>2. PICK st \in {"failed", "completed"}, verdict \in {"errors", "completed"} :
           /\ Settled(r, st) /\ row' = [row EXCEPT ![r] = verdict]
           /\ Drops(r) \/ Promotes(r)
    BY <1>5 DEF FinalizeResumed
  <2>3. row' \in [Runs -> Rows] /\ candidate' \in [Runs -> Snapshots] /\ baseline' \in Snapshots
    <3> HIDE DEF r
    <3>1. row' \in [Runs -> Rows]
      BY <2>2 DEF DataOK, Rows
    <3> QED BY <2>1, <2>2, <3>1, RowTypes, PromotesTypes
  <2>4. item' \in [Runs -> [Files -> Items]]
    <3>1. item \in [Runs -> [Files -> Items]] /\ st \in Items
      BY DEF DataOK, Items
    <3>2. item' = [item EXCEPT ![r] = [f \in Files |-> IF item[r][f] = "flight" THEN st
                                                       ELSE item[r][f]]]
      BY <2>2 DEF Settled
    <3>3. [f \in Files |-> IF item[r][f] = "flight" THEN st ELSE item[r][f]] \in [Files -> Items]
      BY <2>1, <3>1
    <3> QED BY <3>1, <3>2, <3>3
  <2>5. mishaps' \in 0..MaxMishaps
    BY <1>0, <1>5 DEF FinalizeResumed, DataOK
  <2> QED BY <1>5, <2>3, <2>4, <2>5 DEF FinalizeResumed, Leaves, DataOK
<1>6. CASE Restart
  <2>1. row' \in [Runs -> Rows] /\ download' \in [Runs -> [Files -> Tasks]]
    BY <1>6 DEF Restart, Restored, DataOK, Rows, Tasks
  <2>2. leaf' \in [Actors -> [Files -> Leaves_]]
    BY <1>6 DEF Restart, NoLeaves, Leaves_
  <2> QED BY <1>0, <1>6, <2>1, <2>2 DEF Restart, DataOK
<1> QED BY <1>1, <1>2, <1>3, <1>4, <1>5, <1>6 DEF Recovery

\* A download that ends puts a version of the file there.
LEMMA DownloadData ==
    ASSUME DataOK, NEW r \in Runs, NEW f \in Files, DownloadEnds(r, f), captured[r] # None
    PROVE  DataOK'
<1>0. mishaps \in Nat /\ (Fault => mishaps' \in 0..MaxMishaps)
  BY ShareSyncAssumption DEF DataOK, Fault
<1>1. captured[r] \in Content
  BY DEF DataOK, Snapshots
<1>2. landed' \in Content
  BY <1>1 DEF DownloadEnds, DataOK, Content
<1>3. download' \in [Runs -> [Files -> Tasks]]
  <2>1. download \in [Runs -> [Files -> Tasks]]
    BY DEF DataOK
  <2>2. PICK st \in {"done", "failed"} : download' = [download EXCEPT ![r][f] = st]
    BY DEF DownloadEnds
  <2>3. st \in Tasks
    BY DEF Tasks
  <2> QED BY <2>1, <2>2, <2>3, PutType
<1> QED BY <1>0, <1>2, <1>3 DEF DownloadEnds, DataOK, stored

\* No step that starts a run, works on it or recovers one leaves the places.
LEMMA StartsPlaced ==
    ASSUME FlagInv, Placed, NEW a \in Actors, Starts(a) \/ Applies(a)
    PROVE  Placed'
<1>0. /\ StagesKnown /\ RunOf(a) \in Runs \cup {NoRun}
      /\ {"idle", "resolving", "sweeping", "scanning", "applying", "promoting"} \subseteq
            Busy \cup {"idle", "asking", "entering", "taking"}
  BY RunTyped DEF FlagInv, Busy
<1>1. \/ at' = at
      \/ \E pc \in {"idle", "resolving", "sweeping", "scanning", "applying", "promoting"},
            r \in Runs \cup {NoRun} : Goes(a, pc, r)
  <2>1. CASE Starts(a)
    <3>1. CASE Enter(a)
      BY <1>0, <3>1 DEF Enter
    <3>2. CASE Resolve(a)
      BY <1>0, <3>2 DEF Resolve, Leaves, CanRun
    <3>3. CASE ResolveFails(a) \/ ScanFails(a)
      BY <1>0, <3>3 DEF ResolveFails, ScanFails, Leaves
    <3>4. CASE Sweep(a) \/ Scan(a)
      BY <1>0, <3>4 DEF Sweep, Scan
    <3> QED BY <2>1, <3>1, <3>2, <3>3, <3>4 DEF Starts
  <2>2. CASE Applies(a)
    <3>1. CASE Finish(a) \/ Promote(a)
      BY <1>0, <3>1 DEF Finish, Promote, Leaves
    <3>2. CASE ~(Finish(a) \/ Promote(a))
      BY <2>2, <3>2 DEF Applies, SkipExisting, Submit, Record, WaitEnds, Retry, Remove, GivesUp, Wake
    <3> QED BY <3>1, <3>2
  <2> QED BY <2>1, <2>2
<1>2. CASE at' = at
  BY <1>2 DEF Placed
<1> QED BY <1>0, <1>1, <1>2, GoesPlaced

\* Nor does the recovery, the restart or an entry.
LEMMA RecoveryPlaced ==
    ASSUME FlagInv, Placed, Recovery \/ Restart
    PROVE  Placed'
<1> USE NamedActors
<1>0. /\ StagesKnown /\ RunOf("startup") \in Runs \cup {NoRun} /\ NoRun \in Runs \cup {NoRun}
      /\ {"idle", "taking", "entering", "resuming"} \subseteq
            Busy \cup {"idle", "asking", "entering", "taking"}
  BY RunTyped DEF FlagInv, Busy
<1>1. CASE Recover
  <2>1. \/ Goes("startup", "idle", NoRun)
        \/ Recovers("probing") /\ Stage("startup") = "recovering"
    BY <1>1 DEF Recover
  <2> QED BY <1>0, <2>1, GoesPlaced, RecoversPlaced
<1>2. CASE Probe
  <2>1. at["startup"] \in Recoveries
    BY <1>2 DEF Probe, Placed, Places, Busy, Stage
  <2>2. at["startup"].fresh \subseteq Runs /\ at["startup"].stale \subseteq Runs
    BY <2>1 DEF Recoveries
  <2>3. \/ \E r \in Runs : Goes("startup", "taking", r)
        \/ Goes("startup", "idle", NoRun)
        \/ Recovers("purging") /\ Stage("startup") = "probing"
    <3> DEFINE fresh == {r \in at["startup"].fresh : Resumable(r)}
               stale == {r \in at["startup"].stale : Resumable(r)}
    <3>1. \/ \E r \in fresh : Goes("startup", "taking", r)
          \/ stale # {} /\ Goes("startup", "taking", Newest(stale))
          \/ Goes("startup", "idle", NoRun)
          \/ Recovers("purging") /\ Stage("startup") = "probing"
      BY <1>2 DEF Probe
    <3>2. stale # {} => Newest(stale) \in Runs
      BY <2>2, NewestIs
    <3> QED BY <2>2, <3>1, <3>2
  <2> QED BY <1>0, <2>3, GoesPlaced, RecoversPlaced
<1>3. CASE Purge \/ TakeOver \/ FinalizeResumed
  <2>1. \E pc \in {"idle", "entering", "resuming"}, r \in {NoRun, RunOf("startup")} :
           Goes("startup", pc, r)
    BY <1>3 DEF Purge, TakeOver, FinalizeResumed, Leaves
  <2> QED BY <1>0, <2>1, GoesPlaced
<1>4. CASE Restart
  <2> DEFINE fresh == {r \in Runs : row[r] = "running"}
             stale == {r \in Runs : Older(r)}
             rec   == [pc |-> "recovering", run |-> NoRun, fresh |-> fresh, stale |-> stale]
  <2>1. at' = [a \in Actors |-> IF a = "startup" /\ fresh \cup stale # {} THEN rec ELSE Idle]
    BY <1>4 DEF Restart
  <2>2. rec \in Recoveries
    BY DEF Recoveries
  <2>3. Idle \in Places
    BY DEF Idle, Places
  <2> HIDE DEF rec, fresh, stale
  <2> QED BY <2>1, <2>2, <2>3 DEF Placed
<1> QED BY <1>1, <1>2, <1>3, <1>4 DEF Recovery

LEMMA EntriesPlaced ==
    ASSUME FlagInv, Placed,
           Tick \/ \E t \in Triggers : Trigger(t) \/ TriggerStarts(t) \/ TriggerRefused(t)
    PROVE  Placed'
<1>1. \E a \in Actors, pc \in {"idle", "asking", "entering"}, r \in Runs \cup {NoRun} :
         Goes(a, pc, r)
  BY DEF Tick, Trigger, TriggerStarts, TriggerRefused, Actors, CanRun
<1>2. StagesKnown
  BY DEF FlagInv
<1> QED BY <1>1, <1>2, GoesPlaced

-----------------------------------------------------------------------------
(* Runs and their actors                                                   *)

Interrupted == {r \in Runs : row[r] = "interrupted"}

\* Runs are numbered in the order of their rows; an actor drives a row that was made, and no
\* other actor drives it; a row is marked interrupted only as long as nobody drives it, and
\* the start-up looks at all of those.
RunInv ==
    /\ \E k \in 0..MaxRuns : Minted = 1..k
    /\ \A a \in Actors : RunOf(a) # NoRun => RunOf(a) \in Minted
    /\ \A a \in Actors : RunOf(a) # NoRun /\ Stage(a) # "taking" => RunOf(a) \notin Interrupted
    /\ \A a \in Actors : Stage(a) = "taking" => a = "startup"
    /\ \A a, b \in Actors : RunOf(a) = RunOf(b) /\ RunOf(a) # NoRun => a = b
    /\ \A a \in Actors :
          Stage(a) \in {"sweeping", "scanning", "applying", "promoting", "taking", "resuming"} =>
              RunOf(a) # NoRun
    /\ Stage("startup") \in {"recovering", "probing"} =>
          Interrupted = at["startup"].fresh \cup at["startup"].stale

\* The next run is the first whose row is unused; its start makes it the last that is used.
LEMMA NextIsFresh ==
    ASSUME RunInv, CanRun
    PROVE  NextRun \in Runs \ Minted /\ Minted \cup {NextRun} = 1..NextRun
<1>1. PICK k \in 0..MaxRuns : Minted = 1..k
  BY DEF RunInv
<1>2. k \in Nat
  BY ShareSyncAssumption
<1>3. Cardinality(1..k) = k
  BY <1>2, FS_Interval
<1>4. NextRun = k + 1
  BY <1>1, <1>3 DEF NextRun
<1> QED BY <1>1, <1>2, <1>4 DEF CanRun

\* What a change of one row does to the sets.
LEMMA RowSets ==
    ASSUME DataOK, NEW r \in Runs, NEW st \in Rows \ {"unused", "interrupted"},
           row' = [row EXCEPT ![r] = st]
    PROVE  /\ Minted' = Minted \cup {r}
           /\ Interrupted' = Interrupted \ {r}
BY DEF DataOK, Minted, Interrupted

\* No row changes, or one that is used does; one actor goes on with its run or leaves it.
LEMMA RunStays ==
    ASSUME RunInv, StagesKnown, Minted' = Minted, NEW a \in Actors, NEW pc, NEW r, Goes(a, pc, r),
           r \in {NoRun, RunOf(a)}, pc \notin {"recovering", "probing", "taking"},
           pc \in {"sweeping", "scanning", "applying", "promoting", "resuming"} => r # NoRun,
           \/ Interrupted' = Interrupted /\ (Stage(a) = "taking" => pc = "idle" /\ r = NoRun)
           \/ Interrupted' = Interrupted \ {RunOf(a)} /\ Stage(a) = "taking" /\ a = "startup"
    PROVE  RunInv'
<1>1. /\ Stage(a)' = pc /\ RunOf(a)' = r
      /\ \A b \in Actors : b # a =>
            at'[b] = at[b] /\ Stage(b)' = Stage(b) /\ RunOf(b)' = RunOf(b)
  BY GoesThere
<1>2. \A b, c \in Actors : RunOf(b)' = RunOf(c)' /\ RunOf(b)' # NoRun => b = c
  BY <1>1 DEF RunInv
<1>3. \A b \in Actors : RunOf(b)' # NoRun => RunOf(b)' \in Minted'
  BY <1>1 DEF RunInv
<1>4. ASSUME NEW b \in Actors, RunOf(b)' # NoRun, Stage(b)' # "taking"
      PROVE  RunOf(b)' \notin Interrupted'
  <2>1. CASE b = a
    BY <1>1, <1>4, <2>1 DEF RunInv
  <2>2. CASE b # a
    <3>1. RunOf(b) \notin Interrupted
      BY <1>1, <1>4, <2>2 DEF RunInv
    <3> QED BY <1>1, <2>2, <3>1
  <2> QED BY <2>1, <2>2
<1>5. \A b \in Actors :
        Stage(b)' \in {"sweeping", "scanning", "applying", "promoting", "taking", "resuming"} =>
            RunOf(b)' # NoRun
  BY <1>1 DEF RunInv
<1>6. ASSUME Stage("startup")' \in {"recovering", "probing"}
      PROVE  Interrupted' = at'["startup"].fresh \cup at'["startup"].stale
  <2>1. a # "startup"
    BY <1>1, <1>6
  <2>2. at'["startup"] = at["startup"] /\ Stage("startup")' = Stage("startup")
    BY <1>1, <2>1, NamedActors
  <2>3. Interrupted' = Interrupted
    BY <2>1
  <2> QED BY <1>6, <2>2, <2>3 DEF RunInv
<1>7. \A b \in Actors : Stage(b)' = "taking" => b = "startup"
  BY <1>1 DEF RunInv
<1> QED BY <1>2, <1>3, <1>4, <1>5, <1>6, <1>7 DEF RunInv

\* An actor that starts a row drives it alone.
LEMMA RunStarts ==
    ASSUME DataOK, RunInv, StagesKnown, CanRun, StartsRow(NextRun), NEW a \in Actors,
           NEW pc \in {"entering", "sweeping"}, Goes(a, pc, NextRun)
    PROVE  RunInv'
<1> DEFINE n == NextRun
<1>1. n \in Runs \ Minted /\ Minted \cup {n} = 1..n
  BY NextIsFresh
<1> HIDE DEF n
<1>2. row' = [row EXCEPT ![n] = "running"]
  BY DEF StartsRow, n
<1>3. Minted' = Minted \cup {n} /\ Interrupted' = Interrupted \ {n}
  <2>1. "running" \in Rows \ {"unused", "interrupted"}
    BY DEF Rows
  <2> QED BY <1>1, <1>2, <2>1, RowSets
<1>4. n \notin Interrupted /\ n # NoRun
  BY <1>1 DEF Minted, Interrupted, Runs, NoRun
<1>5. /\ Stage(a)' = pc /\ RunOf(a)' = n
      /\ \A b \in Actors : b # a =>
            at'[b] = at[b] /\ Stage(b)' = Stage(b) /\ RunOf(b)' = RunOf(b)
  BY GoesThere DEF n
<1>6. \E k \in 0..MaxRuns : Minted' = 1..k
  BY <1>1, <1>3 DEF Runs
<1>7. \A b \in Actors : RunOf(b) # NoRun => RunOf(b) # n
  BY <1>1 DEF RunInv
<1>8. \A b \in Actors : RunOf(b)' # NoRun => RunOf(b)' \in Minted'
  BY <1>3, <1>5 DEF RunInv
<1>9. \A b \in Actors : RunOf(b)' # NoRun /\ Stage(b)' # "taking" => RunOf(b)' \notin Interrupted'
  BY <1>3, <1>5 DEF RunInv
<1>10. \A b, c \in Actors : RunOf(b)' = RunOf(c)' /\ RunOf(b)' # NoRun => b = c
  BY <1>5, <1>7 DEF RunInv
<1>11. \A b \in Actors :
         Stage(b)' \in {"sweeping", "scanning", "applying", "promoting", "taking", "resuming"} =>
             RunOf(b)' # NoRun
  BY <1>4, <1>5 DEF RunInv
<1>12. ASSUME Stage("startup")' \in {"recovering", "probing"}
       PROVE  Interrupted' = at'["startup"].fresh \cup at'["startup"].stale
  <2>1. a # "startup"
    BY <1>5, <1>12
  <2>2. at'["startup"] = at["startup"] /\ Stage("startup")' = Stage("startup")
    BY <1>5, <2>1, NamedActors
  <2>3. Interrupted' = Interrupted
    BY <1>3, <1>4
  <2> QED BY <1>12, <2>2, <2>3 DEF RunInv
<1>13. \A b \in Actors : Stage(b)' = "taking" => b = "startup"
  BY <1>5 DEF RunInv
<1> QED BY <1>6, <1>8, <1>9, <1>10, <1>11, <1>12, <1>13 DEF RunInv

\* The row of an actor that drives is never marked interrupted nor unused.
LEMMA RowKept ==
    ASSUME DataOK, RunInv, NEW a \in Actors, Stage(a) # "taking",
           \/ row' = row
           \/ RunOf(a) # NoRun /\ \E st \in {"failed", "errors", "completed"} :
                                     row' = [row EXCEPT ![RunOf(a)] = st]
    PROVE  Minted' = Minted /\ Interrupted' = Interrupted
<1>1. CASE row' = row
  BY <1>1 DEF Minted, Interrupted
<1>2. ASSUME RunOf(a) # NoRun, NEW st \in {"failed", "errors", "completed"},
             row' = [row EXCEPT ![RunOf(a)] = st]
      PROVE  Minted' = Minted /\ Interrupted' = Interrupted
  <2> DEFINE r == RunOf(a)
  <2>1. r \in Minted /\ r \notin Interrupted
    BY <1>2 DEF RunInv
  <2>2. r \in Runs /\ st \in Rows \ {"unused", "interrupted"}
    BY <2>1 DEF Minted, Rows
  <2>3. Minted' = Minted \cup {r} /\ Interrupted' = Interrupted \ {r}
    <3>1. row' = [row EXCEPT ![r] = st]
      BY <1>2
    <3> HIDE DEF r
    <3> QED BY <2>2, <3>1, RowSets
  <2> QED BY <2>1, <2>3
<1> QED BY <1>1, <1>2

\* Nobody moves, no row changes.
LEMMA RunStill == ASSUME RunInv, UNCHANGED <<row, at>> PROVE RunInv'
BY DEF RunInv, Minted, Interrupted, RunOf, Stage

\* Starting a run and working on it keep runs and actors together.
LEMMA StartsRun ==
    ASSUME FlagInv, DataOK, RunInv, NEW a \in Actors, Starts(a) \/ Applies(a)
    PROVE  RunInv'
<1>0. StagesKnown
  BY DEF FlagInv
<1>1. CASE Resolve(a) /\ RunOf(a) = NoRun /\ CanRun
  <2>1. StartsRow(NextRun) /\ Goes(a, "sweeping", NextRun)
    BY <1>1 DEF Resolve
  <2> QED BY <1>0, <1>1, <2>1, RunStarts
<1>2. CASE \/ Enter(a) \/ (Resolve(a) /\ ~(RunOf(a) = NoRun /\ CanRun)) \/ ResolveFails(a)
           \/ Sweep(a) \/ Scan(a) \/ ScanFails(a) \/ Finish(a) \/ Promote(a)
  <2>1. /\ \/ row' = row
           \/ RunOf(a) # NoRun /\ \E st \in {"failed", "errors", "completed"} :
                                     row' = [row EXCEPT ![RunOf(a)] = st]
        /\ Stage(a) # "taking"
    <3>1. CASE Enter(a) \/ ResolveFails(a) \/ ScanFails(a)
      BY <3>1 DEF Enter, ResolveFails, ScanFails, FailsRun
    <3>2. CASE Resolve(a) /\ ~(RunOf(a) = NoRun /\ CanRun)
      BY <3>2 DEF Resolve
    <3>3. CASE Finish(a)
      BY <3>3 DEF Finish, RunInv
    <3>4. CASE Sweep(a) \/ Scan(a) \/ Promote(a)
      BY <3>4 DEF Sweep, Scan, Promote, stored
    <3> QED BY <1>2, <3>1, <3>2, <3>3, <3>4
  <2>2. Minted' = Minted /\ Interrupted' = Interrupted
    BY <2>1, RowKept
  <2>3. \/ Goes(a, "idle", NoRun)
        \/ /\ \E pc \in {"resolving", "sweeping", "scanning", "applying", "promoting"} :
                 Goes(a, pc, RunOf(a)) /\ (pc # "resolving" => RunOf(a) # NoRun)
    <3>1. CASE \/ Enter(a) \/ (Resolve(a) /\ ~(RunOf(a) = NoRun /\ CanRun))
               \/ ResolveFails(a) \/ ScanFails(a)
      BY <3>1 DEF Enter, Resolve, ResolveFails, ScanFails, Leaves
    <3>2. CASE Sweep(a) \/ Scan(a) \/ Finish(a)
      BY <3>2 DEF Sweep, Scan, Finish, RunInv
    <3>3. CASE Promote(a)
      BY <3>3 DEF Promote, Leaves
    <3> QED BY <1>2, <3>1, <3>2, <3>3
  <2> QED BY <1>0, <2>1, <2>2, <2>3, RunStays
<1>3. CASE \/ Wake(a)
           \/ \E f \in Files :
                 \/ SkipExisting(a, f) \/ Submit(a, f) \/ Record(a, f) \/ WaitEnds(a, f)
                 \/ Retry(a, f) \/ Remove(a, f)
                 \/ \E to \in {"completed", "failed", "skipped"} : GivesUp(a, f, to)
  <2>1. UNCHANGED <<row, at>>
    BY <1>3 DEF Wake, SkipExisting, Submit, Record, WaitEnds, Retry, Remove, GivesUp, stored
  <2> QED BY <2>1, RunStill
<1> QED BY <1>1, <1>2, <1>3 DEF Starts, Applies

\* So does the recovery, whose take-over is the only one that finds a row interrupted.
LEMMA RecoveryRun ==
    ASSUME FlagInv, DataOK, Placed, RunInv, Recovery
    PROVE  RunInv'
<1> USE NamedActors
<1>0. StagesKnown
  BY DEF FlagInv
<1>1. CASE Recover \/ Purge
  <2>1. row' = row /\ Stage("startup") # "taking"
    BY <1>1 DEF Recover, Purge, stored
  <2>2. Minted' = Minted /\ Interrupted' = Interrupted
    BY <2>1, RowKept
  <2>3. CASE Goes("startup", "idle", NoRun) \/ Goes("startup", "entering", NoRun)
    BY <1>0, <2>1, <2>2, <2>3, RunStays
  <2>4. CASE Recovers("probing") /\ Stage("startup") = "recovering"
    <3>1. /\ at'["startup"].fresh = at["startup"].fresh
          /\ at'["startup"].stale = at["startup"].stale
          /\ Stage("startup")' = "probing" /\ RunOf("startup")' = NoRun
          /\ \A b \in Actors : b # "startup" =>
                at'[b] = at[b] /\ Stage(b)' = Stage(b) /\ RunOf(b)' = RunOf(b)
      BY <1>0, <2>4, RecoversPlaced
    <3> QED BY <2>2, <2>4, <3>1 DEF RunInv
  <2> QED BY <1>1, <2>3, <2>4 DEF Recover, Purge
<1>2. CASE Probe
  <2>1. row' = row /\ Stage("startup") = "probing" /\ Interrupted = at["startup"].fresh \cup at["startup"].stale
    BY <1>2 DEF Probe, RunInv
  <2>2. Minted' = Minted /\ Interrupted' = Interrupted
    BY <2>1, RowKept
  <2>3. \/ \E r \in Interrupted : Goes("startup", "taking", r)
        \/ Goes("startup", "idle", NoRun)
        \/ Recovers("purging")
    <3> DEFINE fresh == {r \in at["startup"].fresh : Resumable(r)}
               stale == {r \in at["startup"].stale : Resumable(r)}
    <3>1. \/ \E r \in fresh : Goes("startup", "taking", r)
          \/ stale # {} /\ Goes("startup", "taking", Newest(stale))
          \/ Goes("startup", "idle", NoRun)
          \/ Recovers("purging")
      BY <1>2 DEF Probe
    <3>2. stale # {} => Newest(stale) \in stale
      BY <2>1, NewestIs DEF Interrupted
    <3> QED BY <2>1, <3>1, <3>2
  <2>4. CASE Goes("startup", "idle", NoRun)
    BY <1>0, <2>1, <2>2, <2>4, RunStays
  <2>5. CASE Recovers("purging")
    <3>1. /\ Stage("startup")' = "purging" /\ RunOf("startup")' = NoRun
          /\ \A b \in Actors : b # "startup" =>
                at'[b] = at[b] /\ Stage(b)' = Stage(b) /\ RunOf(b)' = RunOf(b)
      BY <1>0, <2>1, <2>5, RecoversPlaced
    <3> QED BY <2>2, <3>1 DEF RunInv
  <2>6. ASSUME NEW r \in Interrupted, Goes("startup", "taking", r) PROVE RunInv'
    <3>1. /\ Stage("startup")' = "taking" /\ RunOf("startup")' = r
          /\ \A b \in Actors : b # "startup" =>
                at'[b] = at[b] /\ Stage(b)' = Stage(b) /\ RunOf(b)' = RunOf(b)
      BY <1>0, <2>6, GoesThere
    <3>2. r \in Minted /\ r # NoRun
      BY DEF Interrupted, Minted, Runs, NoRun
    <3>3. \A b \in Actors : b # "startup" => RunOf(b) # r
      BY <3>2 DEF RunInv
    <3>4. \A b, c \in Actors : RunOf(b)' = RunOf(c)' /\ RunOf(b)' # NoRun => b = c
      BY <3>1, <3>3 DEF RunInv
    <3> QED BY <2>2, <3>1, <3>2, <3>4 DEF RunInv
  <2> QED BY <2>3, <2>4, <2>5, <2>6
<1>3. CASE TakeOver /\ Goes("startup", "idle", NoRun) /\ UNCHANGED row
  <2>1. row' = row /\ Stage("startup") = "taking" /\ Goes("startup", "idle", NoRun)
    BY <1>3 DEF TakeOver
  <2>2. Minted' = Minted /\ Interrupted' = Interrupted
    BY <2>1 DEF Minted, Interrupted
  <2> QED BY <1>0, <2>1, <2>2, RunStays
<1>4. CASE TakeOver /\ MarkRunning(RunOf("startup")) /\ Goes("startup", "resuming", RunOf("startup"))
  <2> DEFINE r == RunOf("startup")
  <2>1. /\ Stage("startup") = "taking" /\ Goes("startup", "resuming", r)
        /\ row' = [row EXCEPT ![r] = IF row[r] = "interrupted" THEN "running" ELSE row[r]]
    BY <1>4 DEF TakeOver, MarkRunning
  <2>2. r \in Minted /\ r # NoRun
    BY <2>1 DEF RunInv
  <2> HIDE DEF r
  <2>3. Minted' = Minted /\ Interrupted' = Interrupted \ {r}
    BY <2>1, <2>2 DEF Minted, Interrupted, DataOK
  <2> QED BY <1>0, <2>1, <2>2, <2>3, RunStays DEF r
<1>5. CASE FinalizeResumed
  <2>1. /\ \E st \in {"failed", "errors", "completed"} :
              row' = [row EXCEPT ![RunOf("startup")] = st]
        /\ Stage("startup") = "resuming" /\ Goes("startup", "idle", NoRun)
    BY <1>5 DEF FinalizeResumed, Leaves
  <2>2. Minted' = Minted /\ Interrupted' = Interrupted
    BY <2>1, RowKept DEF RunInv
  <2> QED BY <1>0, <2>1, <2>2, RunStays
<1> QED BY <1>1, <1>2, <1>3, <1>4, <1>5 DEF Recovery, TakeOver

\* A restart leaves every run to the start-up.
LEMMA RestartRun ==
    ASSUME DataOK, RunInv, Restart
    PROVE  RunInv'
<1> USE NamedActors
<1> DEFINE fresh == {r \in Runs : row[r] = "running"}
           stale == {r \in Runs : Older(r)}
           rec   == [pc |-> "recovering", run |-> NoRun, fresh |-> fresh, stale |-> stale]
<1>1. /\ row' = [r \in Runs |-> IF row[r] = "running" THEN "interrupted" ELSE row[r]]
      /\ at' = [a \in Actors |-> IF a = "startup" /\ fresh \cup stale # {} THEN rec ELSE Idle]
  BY DEF Restart
<1>2. Minted' = Minted
  BY <1>1 DEF Minted
<1>3. Interrupted' = fresh \cup stale
  BY <1>1 DEF Interrupted, Older
<1>4. /\ rec.pc = "recovering" /\ rec.run = NoRun /\ rec.fresh = fresh /\ rec.stale = stale
      /\ Idle.pc = "idle" /\ Idle.run = NoRun
  BY DEF Idle
<1> HIDE DEF rec, fresh, stale
<1>5. \A a \in Actors : RunOf(a)' = NoRun /\ Stage(a)' \in {"idle", "recovering"}
  BY <1>1, <1>4 DEF RunOf, Stage
<1>6. Stage("startup")' = "recovering" => at'["startup"] = rec
  BY <1>1, <1>4 DEF Stage
<1>7. Stage("startup")' \in {"recovering", "probing"} =>
         Interrupted' = at'["startup"].fresh \cup at'["startup"].stale
  BY <1>3, <1>4, <1>5, <1>6
<1> QED BY <1>2, <1>5, <1>7 DEF RunInv

\* So do the entries, of which the trigger starts its row at once.
LEMMA EntriesRun ==
    ASSUME FlagInv, DataOK, RunInv,
           Tick \/ \E t \in Triggers : Trigger(t) \/ TriggerStarts(t) \/ TriggerRefused(t)
    PROVE  RunInv'
<1>0. StagesKnown
  BY DEF FlagInv
<1>1. CASE \E t \in Triggers : TriggerStarts(t) /\ CanRun
  <2>1. \E a \in Actors : StartsRow(NextRun) /\ Goes(a, "entering", NextRun) /\ CanRun
    BY <1>1 DEF TriggerStarts, Actors
  <2> QED BY <1>0, <2>1, RunStarts
<1>2. CASE Tick \/ \E t \in Triggers : Trigger(t) \/ TriggerRefused(t) \/ (TriggerStarts(t) /\ ~CanRun)
  <2>1. PICK a \in Actors, pc \in {"idle", "asking", "entering"} :
           Goes(a, pc, NoRun) /\ row' = row /\ Stage(a) # "taking"
    <3>1. CASE Tick
      BY <3>1, NamedActors DEF Tick, Stage, Idle, stored
    <3>2. CASE \E t \in Triggers : Trigger(t) \/ TriggerRefused(t) \/ (TriggerStarts(t) /\ ~CanRun)
      BY <3>2 DEF Trigger, TriggerStarts, TriggerRefused, Actors, Stage, Idle, stored
    <3> QED BY <1>2, <3>1, <3>2
  <2>2. Minted' = Minted /\ Interrupted' = Interrupted
    BY <2>1, RowKept
  <2> QED BY <1>0, <2>1, <2>2, RunStays
<1> QED BY <1>1, <1>2

-----------------------------------------------------------------------------
(* No file is downloaded twice at a time                                   *)

Live(r, f) == download[r][f] \in Unfinished

\* All the unfinished downloads are of one run; there are none when a run looks at the share,
\* and they are its own while it applies what it saw.
TwinInv ==
    /\ \A r, q \in Runs, f, g \in Files : Live(r, f) /\ Live(q, g) => r = q
    /\ \A a \in Actors : Stage(a) = "scanning" => ~HasUnfinished
    /\ \A a \in Actors, r \in Runs, f \in Files :
          Stage(a) = "applying" /\ Live(r, f) => r = RunOf(a)

\* Unfinished downloads are those that are live.
LEMMA UnfinishedLive == HasUnfinished <=> \E r \in Runs, f \in Files : Live(r, f)
BY DEF HasUnfinished, Live

\* A file has a twin only in two runs.
LEMMA TwinCounts == TwinInv => NoTwins
<1> SUFFICES ASSUME TwinInv, NEW f \in Files
             PROVE  Cardinality({r \in Runs : download[r][f] \in Unfinished}) <= 1
  BY DEF NoTwins
<1> DEFINE L == {r \in Runs : download[r][f] \in Unfinished}
<1>1. CASE L = {}
  BY <1>1, FS_EmptySet
<1>2. ASSUME NEW r \in L PROVE Cardinality(L) <= 1
  <2>1. L = {r}
    BY DEF TwinInv, Live
  <2>2. Cardinality({r}) = 1
    BY FS_Singleton
  <2> HIDE DEF L
  <2> QED BY <2>1, <2>2
<1> QED BY <1>1, <1>2

\* No download becomes live, and nobody enters a scan or an application.
LEMMA TwinStays ==
    ASSUME TwinInv, \A r \in Runs, f \in Files : Live(r, f)' => Live(r, f),
           \A b \in Actors : Stage(b)' \in {"scanning", "applying"} =>
               Stage(b)' = Stage(b) /\ RunOf(b)' = RunOf(b)
    PROVE  TwinInv'
<1>1. HasUnfinished' => HasUnfinished
  <2>1. HasUnfinished' <=> \E r \in Runs, f \in Files : Live(r, f)'
    BY DEF HasUnfinished, Live
  <2> QED BY <2>1, UnfinishedLive
<1> QED BY <1>1 DEF TwinInv

\* An actor goes elsewhere, the downloads stay or go.
LEMMA TwinGoes ==
    ASSUME StagesKnown, TwinInv, \A r \in Runs, f \in Files : Live(r, f)' => Live(r, f),
           NEW a \in Actors, NEW pc, NEW r, pc \notin {"scanning", "applying"}, Goes(a, pc, r)
    PROVE  TwinInv'
<1>1. \A b \in Actors : Stage(b)' \in {"scanning", "applying"} =>
         Stage(b)' = Stage(b) /\ RunOf(b)' = RunOf(b)
  BY GoesThere
<1> QED BY <1>1, TwinStays

\* What a change of one download does to the live ones.
LEMMA TaskLive ==
    ASSUME DataOK, NEW r \in Runs, NEW f \in Files, NEW q, NEW g, NEW st,
           download' = [download EXCEPT ![q][g] = st]
    PROVE  Live(r, f)' <=> IF r = q /\ f = g THEN st \in Unfinished ELSE Live(r, f)
BY DEF DataOK, Live

\* Sweeping before the scan, and submitting for one's own run only, keep one run live.
LEMMA StartsTwin ==
    ASSUME FlagInv, DataOK, TwinInv, NEW a \in Actors, Starts(a)
    PROVE  TwinInv'
<1>0. StagesKnown
  BY DEF FlagInv
<1>1. CASE Enter(a) \/ Resolve(a) \/ ResolveFails(a) \/ ScanFails(a)
  <2>1. download' = download
    BY <1>1 DEF Enter, Resolve, ResolveFails, ScanFails
  <2>2. \E pc \in {"idle", "resolving", "sweeping"} : \E r : Goes(a, pc, r)
    BY <1>1 DEF Enter, Resolve, ResolveFails, ScanFails, Leaves
  <2>3. \A r \in Runs, f \in Files : Live(r, f)' => Live(r, f)
    BY <2>1 DEF Live
  <2> QED BY <1>0, <2>2, <2>3, TwinGoes
<1>2. CASE Sweep(a)
  <2>1. /\ Stage(a) = "sweeping" /\ Goes(a, "scanning", RunOf(a))
        /\ download' = IF HasUnfinished THEN NoTasks ELSE download
    BY <1>2 DEF Sweep, SweptAll
  <2>2. ASSUME NEW r \in Runs, NEW f \in Files PROVE ~Live(r, f)'
    <3>1. CASE HasUnfinished
      <4>1. download'[r][f] = "none"
        BY <2>1, <3>1 DEF NoTasks, NoLeaves
      <4> QED BY <4>1 DEF Live, Unfinished
    <3>2. CASE ~HasUnfinished
      <4>1. download' = download /\ ~Live(r, f)
        BY <2>1, <3>2 DEF HasUnfinished, Live
      <4> QED BY <4>1 DEF Live
    <3> QED BY <3>1, <3>2
  <2>3. ~HasUnfinished'
    BY <2>2 DEF HasUnfinished, Live
  <2> QED BY <2>2, <2>3 DEF TwinInv
<1>3. CASE Scan(a)
  <2>1. /\ Stage(a) = "scanning" /\ download' = download
    BY <1>3 DEF Scan
  <2>2. ~HasUnfinished
    BY <2>1 DEF TwinInv
  <2>3. \A r \in Runs, f \in Files : ~Live(r, f)'
    BY <2>1, <2>2 DEF HasUnfinished, Live
  <2>4. ~HasUnfinished'
    BY <2>3 DEF HasUnfinished, Live
  <2> QED BY <2>3, <2>4 DEF TwinInv
<1> QED BY <1>1, <1>2, <1>3 DEF Starts

\* The work on the files adds downloads to the run of its actor only.
LEMMA AppliesTwin ==
    ASSUME FlagInv, DataOK, TwinInv, NEW a \in Actors, Applies(a)
    PROVE  TwinInv'
<1>0. StagesKnown
  BY DEF FlagInv
<1>1. CASE Finish(a) \/ Promote(a)
  <2>1. download' = download /\ \E pc \in {"idle", "promoting"} : \E r : Goes(a, pc, r)
    BY <1>1 DEF Finish, Promote, Leaves
  <2>2. \A r \in Runs, f \in Files : Live(r, f)' => Live(r, f)
    BY <2>1 DEF Live
  <2> QED BY <1>0, <2>1, <2>2, TwinGoes
<1>2. CASE Wake(a)
  <2>1. at' = at /\ \A r \in Runs, f \in Files :
           download'[r][f] = IF download[r][f] = "paused" THEN "active" ELSE download[r][f]
    BY <1>2 DEF Wake
  <2>2. \A r \in Runs, f \in Files : Live(r, f)' => Live(r, f)
    BY <2>1 DEF Live, Unfinished
  <2>3. \A b \in Actors : Stage(b)' = Stage(b) /\ RunOf(b)' = RunOf(b)
    BY <2>1 DEF Stage, RunOf
  <2> QED BY <2>2, <2>3, TwinStays
<1>3. ASSUME NEW f \in Files,
             \/ SkipExisting(a, f) \/ Submit(a, f) \/ Record(a, f) \/ WaitEnds(a, f)
             \/ Retry(a, f) \/ Remove(a, f)
             \/ \E to \in {"completed", "failed", "skipped"} : GivesUp(a, f, to)
      PROVE  TwinInv'
  <2>1. at' = at /\ Stage(a) = "applying"
    BY <1>3 DEF SkipExisting, Submit, Record, WaitEnds, Retry, Remove, GivesUp, Unit
  <2>2. \A b \in Actors : Stage(b)' = Stage(b) /\ RunOf(b)' = RunOf(b)
    BY <2>1 DEF Stage, RunOf
  <2>3. CASE Submit(a, f)
    <3>1. download' = [download EXCEPT ![RunOf(a)][f] = "active"]
      BY <2>3 DEF Submit, Task
    <3>2. \A r \in Runs, g \in Files : Live(r, g)' => Live(r, g) \/ r = RunOf(a)
      BY <3>1, TaskLive
    <3>3. \A r \in Runs, g \in Files : Live(r, g)' => r = RunOf(a)
      BY <2>1, <3>2 DEF TwinInv
    <3>4. \A b \in Actors : Stage(b) \in {"scanning", "applying"} => b = a
      BY <2>1 DEF FlagInv, Busy
    <3>5. \A b \in Actors : Stage(b)' = "scanning" => FALSE
      BY <2>1, <2>2, <3>4
    <3>6. \A b \in Actors : Stage(b)' = "applying" => RunOf(b)' = RunOf(a)
      BY <2>2, <3>4
    <3> QED BY <3>3, <3>5, <3>6 DEF TwinInv
  <2>4. CASE ~Submit(a, f)
    <3>1. download' = download \/ download' = [download EXCEPT ![RunOf(a)][f] = "none"]
      BY <1>3, <2>4 DEF SkipExisting, Record, WaitEnds, Retry, Remove, GivesUp, Discards, Task
    <3>2. CASE download' = download
      <4>1. \A r \in Runs, g \in Files : Live(r, g)' => Live(r, g)
        BY <3>2 DEF Live
      <4> QED BY <2>2, <4>1, TwinStays
    <3>3. CASE download' = [download EXCEPT ![RunOf(a)][f] = "none"]
      <4>1. \A r \in Runs, g \in Files : Live(r, g)' => Live(r, g)
        <5>1. "none" \notin Unfinished
          BY DEF Unfinished
        <5> QED BY <3>3, <5>1, TaskLive
      <4> QED BY <2>2, <4>1, TwinStays
    <3> QED BY <3>1, <3>2, <3>3
  <2> QED BY <2>3, <2>4
<1> QED BY <1>1, <1>2, <1>3 DEF Applies

\* No step of the recovery, no entry and no end of a download makes one live.
LEMMA OthersTwin ==
    ASSUME FlagInv, DataOK, Placed, TwinInv,
           \/ Recovery \/ Restart \/ Downloads \/ Tick
           \/ \E t \in Triggers : Trigger(t) \/ TriggerStarts(t) \/ TriggerRefused(t)
    PROVE  TwinInv'
<1> USE NamedActors
<1>0. StagesKnown
  BY DEF FlagInv
<1>1. CASE Recovery
  <2>1. \A r \in Runs, f \in Files : Live(r, f)' => Live(r, f)
    <3>1. download' = download \/ download' = NoTasks
      BY <1>1 DEF Recovery, Recover, Probe, Purge, TakeOver, FinalizeResumed
    <3> QED BY <3>1 DEF Live, NoTasks, NoLeaves, Unfinished
  <2>2. \/ \E pc \in {"idle", "taking", "entering", "resuming"} : \E r : Goes("startup", pc, r)
        \/ /\ \E pc \in {"probing", "purging"} : Recovers(pc)
           /\ Stage("startup") \in {"recovering", "probing"}
    <3>1. CASE Recover \/ Purge \/ TakeOver \/ FinalizeResumed
      BY <3>1 DEF Recover, Purge, TakeOver, FinalizeResumed, Leaves
    <3>2. CASE Probe
      BY <3>2 DEF Probe
    <3> QED BY <1>1, <3>1, <3>2 DEF Recovery
  <2>3. CASE \E pc \in {"probing", "purging"} : Recovers(pc)
    <3>1. \A b \in Actors : Stage(b)' \in {"scanning", "applying"} =>
             Stage(b)' = Stage(b) /\ RunOf(b)' = RunOf(b)
      BY <1>0, <2>2, <2>3 DEF Recovers, StagesKnown, Stage, RunOf
    <3> QED BY <2>1, <3>1, TwinStays
  <2> QED BY <1>0, <2>1, <2>2, <2>3, TwinGoes
<1>2. CASE Restart
  <2> DEFINE rec == [pc |-> "recovering", run |-> NoRun,
                     fresh |-> {r \in Runs : row[r] = "running"}, stale |-> {r \in Runs : Older(r)}]
  <2>1. \A a \in Actors : at'[a] = rec \/ at'[a] = Idle
    BY <1>2 DEF Restart
  <2>2. rec.pc = "recovering" /\ Idle.pc = "idle"
    BY DEF Idle
  <2> HIDE DEF rec
  <2>3. \A a \in Actors : Stage(a)' \notin {"scanning", "applying"}
    BY <2>1, <2>2 DEF Stage
  <2>4. \A r \in Runs, f \in Files : Live(r, f)' => Live(r, f)
    BY <1>2 DEF Restart, Restored, Live, Unfinished
  <2> QED BY <2>3, <2>4, TwinStays
<1>3. CASE Downloads
  <2>1. PICK r \in Runs, f \in Files : DownloadEnds(r, f)
    BY <1>3 DEF Downloads
  <2>2. PICK st \in {"done", "failed"} : download' = [download EXCEPT ![r][f] = st]
    BY <2>1 DEF DownloadEnds
  <2>3. \A q \in Runs, g \in Files : Live(q, g)' => Live(q, g)
    <3>1. st \notin Unfinished
      BY DEF Unfinished
    <3> QED BY <2>2, <3>1, TaskLive
  <2>4. \A b \in Actors : Stage(b)' = Stage(b) /\ RunOf(b)' = RunOf(b)
    BY <2>1 DEF DownloadEnds, Stage, RunOf
  <2> QED BY <2>3, <2>4, TwinStays
<1>4. CASE Tick \/ \E t \in Triggers : Trigger(t) \/ TriggerStarts(t) \/ TriggerRefused(t)
  <2>1. /\ download' = download
        /\ \E a \in Actors, pc \in {"idle", "asking", "entering"} : \E r : Goes(a, pc, r)
    BY <1>4 DEF Tick, Trigger, TriggerStarts, TriggerRefused, Actors
  <2>2. \A r \in Runs, f \in Files : Live(r, f)' => Live(r, f)
    BY <2>1 DEF Live
  <2> QED BY <1>0, <2>1, <2>2, TwinGoes
<1> QED BY <1>1, <1>2, <1>3, <1>4

-----------------------------------------------------------------------------
(* The candidate of a run                                                  *)

Early    == {"entering", "resolving", "sweeping", "scanning"}
Working  == {"applying", "promoting"}

\* A run has no candidate before its scan; what its actor promotes is what it captured.
CandidateInv ==
    /\ \A r \in Runs : row[r] = "unused" => candidate[r] = None
    /\ \A a \in Actors : Stage(a) \in Early /\ RunOf(a) # NoRun => candidate[RunOf(a)] = None
    /\ \A a \in Actors : Stage(a) \in Working =>
          /\ captured[RunOf(a)] # None
          /\ candidate[RunOf(a)] \in {None, captured[RunOf(a)]}

\* Nothing is captured, candidates only go, and nobody gets ahead with a run.
LEMMA CandidateStays ==
    ASSUME CandidateInv, RunInv, captured' = captured,
           \A r \in Runs : candidate'[r] \in {candidate[r], None},
           \A r \in Runs : row'[r] = "unused" => row[r] = "unused",
           \A b \in Actors : Stage(b)' \in Early =>
               \/ RunOf(b)' = NoRun
               \/ Stage(b) \in Early /\ RunOf(b)' = RunOf(b)
               \/ RunOf(b)' \in Runs \ Minted,
           \A b \in Actors : Stage(b)' \in Working => Stage(b) \in Working /\ RunOf(b)' = RunOf(b)
    PROVE  CandidateInv'
<1>1. \A r \in Runs : row'[r] = "unused" => candidate'[r] = None
  BY DEF CandidateInv
<1>2. \A b \in Actors : RunOf(b) # NoRun => RunOf(b) \in Runs
  BY DEF RunInv, Minted
<1>3. ASSUME NEW b \in Actors, Stage(b)' \in Early, RunOf(b)' # NoRun
      PROVE  candidate'[RunOf(b)'] = None
  <2>1. CASE Stage(b) \in Early /\ RunOf(b)' = RunOf(b)
    BY <1>2, <1>3, <2>1 DEF CandidateInv
  <2>2. CASE RunOf(b)' \in Runs \ Minted
    BY <2>2 DEF CandidateInv, Minted
  <2> QED BY <1>3, <2>1, <2>2
<1>4. ASSUME NEW b \in Actors, Stage(b)' \in Working
      PROVE  /\ captured'[RunOf(b)'] # None
             /\ candidate'[RunOf(b)'] \in {None, captured'[RunOf(b)']}
  <2>1. Stage(b) \in Working /\ RunOf(b)' = RunOf(b) /\ RunOf(b) \in Runs
    BY <1>2, <1>4 DEF RunInv, Working
  <2> QED BY <2>1 DEF CandidateInv
<1> QED BY <1>1, <1>3, <1>4 DEF CandidateInv

\* The same, for one actor that goes.
LEMMA CandidateGoes ==
    ASSUME CandidateInv, RunInv, StagesKnown, captured' = captured,
           \A r \in Runs : candidate'[r] \in {candidate[r], None},
           \A r \in Runs : row'[r] = "unused" => row[r] = "unused",
           NEW a \in Actors, NEW pc, NEW r, Goes(a, pc, r),
           pc \in Early =>
               \/ r = NoRun
               \/ Stage(a) \in Early /\ r = RunOf(a)
               \/ r \in Runs \ Minted,
           pc \in Working => Stage(a) \in Working /\ r = RunOf(a)
    PROVE  CandidateInv'
<1>1. /\ Stage(a)' = pc /\ RunOf(a)' = r
      /\ \A b \in Actors : b # a => Stage(b)' = Stage(b) /\ RunOf(b)' = RunOf(b)
  BY GoesThere
<1>2. \A b \in Actors : Stage(b)' \in Early =>
               \/ RunOf(b)' = NoRun
               \/ Stage(b) \in Early /\ RunOf(b)' = RunOf(b)
               \/ RunOf(b)' \in Runs \ Minted
  BY <1>1
<1>3. \A b \in Actors : Stage(b)' \in Working => Stage(b) \in Working /\ RunOf(b)' = RunOf(b)
  BY <1>1
<1> QED BY <1>2, <1>3, CandidateStays

\* What a run that starts or fails does to rows and candidates.
LEMMA RowsOnly ==
    ASSUME DataOK, NEW r \in Runs, NEW q
    PROVE  /\ FailsRun(q) => candidate'[r] \in {candidate[r], None}
                             /\ (row'[r] = "unused" => row[r] = "unused")
                             /\ (row'[r] = "completed" => row[r] = "completed")
           /\ StartsRow(q) => /\ row'[r] = "unused" => row[r] = "unused"
                              /\ row'[r] = "completed" => row[r] = "completed"
           /\ Drops(q) \/ Promotes(q) => candidate'[r] \in {candidate[r], None}
BY DEF DataOK, FailsRun, StartsRow, Drops, Promotes

\* Starting a run: its candidate is written by its scan only.
LEMMA StartsCandidate ==
    ASSUME FlagInv, DataOK, RunInv, CandidateInv, NEW a \in Actors, Starts(a)
    PROVE  CandidateInv'
<1>0. StagesKnown
  BY DEF FlagInv
<1>1. CASE Enter(a) \/ Resolve(a) \/ ResolveFails(a) \/ Sweep(a) \/ ScanFails(a)
  <2>1. captured' = captured
    BY <1>1 DEF Enter, Resolve, ResolveFails, Sweep, ScanFails
  <2>2. \A r \in Runs : /\ candidate'[r] \in {candidate[r], None}
                        /\ row'[r] = "unused" => row[r] = "unused"
    <3> SUFFICES ASSUME NEW r \in Runs
                 PROVE  /\ candidate'[r] \in {candidate[r], None}
                        /\ row'[r] = "unused" => row[r] = "unused"
      OBVIOUS
    <3>1. \/ FailsRun(RunOf(a)) \/ UNCHANGED <<row, candidate>>
          \/ StartsRow(NextRun) /\ UNCHANGED candidate
      BY <1>1 DEF Enter, Resolve, ResolveFails, Sweep, ScanFails, stored
    <3> QED BY <3>1, RowsOnly
  <2>3. \/ Goes(a, "idle", NoRun)
        \/ \E pc \in {"resolving", "sweeping", "scanning"} : Goes(a, pc, RunOf(a)) /\ Stage(a) \in Early
        \/ Goes(a, "sweeping", NextRun) /\ CanRun
    BY <1>1 DEF Enter, Resolve, ResolveFails, Sweep, ScanFails, Leaves, Early
  <2>4. CanRun => NextRun \in Runs \ Minted
    BY NextIsFresh
  <2> QED BY <1>0, <2>1, <2>2, <2>3, <2>4, CandidateGoes DEF Early, Working
<1>2. CASE Scan(a)
  <2> DEFINE r == RunOf(a)
  <2>1. r \in Runs /\ r \in Minted /\ candidate[r] = None /\ Stage(a) = "scanning"
    BY <1>2 DEF Scan, RunInv, CandidateInv, Early, Minted
  <2>2. PICK share \in Content :
          /\ candidate' = [candidate EXCEPT ![r] = share] \/ candidate' = candidate
          /\ captured' = [captured EXCEPT ![r] = share]
    BY <1>2 DEF Scan
  <2>3. row' = row /\ Goes(a, "applying", r)
    BY <1>2 DEF Scan
  <2> HIDE DEF r
  <2>4. share # None /\ captured'[r] = share /\ candidate'[r] \in {None, share}
    BY <2>1, <2>2, ShareSyncAssumption DEF DataOK
  <2>5. \A q \in Runs : q # r => candidate'[q] = candidate[q]
    BY <2>2 DEF DataOK
  <2>6. /\ Stage(a)' = "applying" /\ RunOf(a)' = r
        /\ \A b \in Actors : b # a => Stage(b)' = Stage(b) /\ RunOf(b)' = RunOf(b)
    BY <1>0, <2>3, GoesThere
  <2>7. \A b \in Actors : b # a => RunOf(b) # r
    BY <2>1 DEF RunInv, r, Minted, Runs, NoRun
  <2>8. \A b \in Actors : Stage(b) \in Working => b = a
    BY <2>1 DEF FlagInv, Busy, Working
  <2>9. \A q \in Runs : row'[q] = "unused" => candidate'[q] = None
    BY <2>1, <2>3, <2>5 DEF CandidateInv, Minted
  <2>10. ASSUME NEW b \in Actors, Stage(b)' \in Early, RunOf(b)' # NoRun
         PROVE  candidate'[RunOf(b)'] = None
    <3>1. b # a /\ RunOf(b)' = RunOf(b) /\ Stage(b) \in Early
      BY <2>6, <2>10 DEF Early
    <3>2. RunOf(b) \in Runs /\ RunOf(b) # r /\ candidate[RunOf(b)] = None
      BY <2>7, <2>10, <3>1 DEF RunInv, Minted, CandidateInv
    <3> QED BY <2>5, <3>1, <3>2
  <2>11. \A b \in Actors : Stage(b)' \in Working =>
            captured'[RunOf(b)'] # None /\ candidate'[RunOf(b)'] \in {None, captured'[RunOf(b)']}
    BY <2>4, <2>6, <2>8
  <2> QED BY <2>9, <2>10, <2>11 DEF CandidateInv
<1> QED BY <1>1, <1>2 DEF Starts

\* The work on the files leaves candidates alone, its end takes the run's.
LEMMA AppliesCandidate ==
    ASSUME FlagInv, DataOK, RunInv, CandidateInv, NEW a \in Actors, Applies(a)
    PROVE  CandidateInv'
<1>0. StagesKnown
  BY DEF FlagInv
<1>1. CASE Finish(a)
  <2>1. /\ captured' = captured /\ candidate' = candidate
        /\ Stage(a) \in Working /\ Goes(a, "promoting", RunOf(a))
    BY <1>1 DEF Finish, Working
  <2>2. \A r \in Runs : row'[r] = "unused" => row[r] = "unused"
    BY <1>1 DEF Finish, DataOK
  <2> QED BY <1>0, <2>1, <2>2, CandidateGoes DEF Early
<1>2. CASE Promote(a)
  <2>1. captured' = captured /\ row' = row /\ Goes(a, "idle", NoRun)
    BY <1>2 DEF Promote, Leaves
  <2>2. \A r \in Runs : candidate'[r] \in {candidate[r], None}
    BY <1>2, RowsOnly DEF Promote
  <2> QED BY <1>0, <2>1, <2>2, CandidateGoes DEF Early, Working
<1>3. CASE ~Finish(a) /\ ~Promote(a)
  <2>1. UNCHANGED <<row, candidate, captured, at>>
    BY <1>3 DEF Applies, Wake, SkipExisting, Submit, Record, WaitEnds, Retry, Remove, GivesUp, stored
  <2> QED BY <2>1 DEF CandidateInv, Stage, RunOf
<1> QED BY <1>1, <1>2, <1>3

\* Nor do recovery, restart, entries and downloads write a candidate.
LEMMA OthersCandidate ==
    ASSUME FlagInv, DataOK, Placed, RunInv, CandidateInv,
           \/ Recovery \/ Restart \/ Downloads \/ Tick
           \/ \E t \in Triggers : Trigger(t) \/ TriggerStarts(t) \/ TriggerRefused(t)
    PROVE  CandidateInv'
<1> USE NamedActors
<1>0. StagesKnown
  BY DEF FlagInv
<1>1. CASE Recovery
  <2>1. captured' = captured
    BY <1>1 DEF Recovery, Recover, Probe, Purge, TakeOver, FinalizeResumed
  <2>2. ASSUME NEW r \in Runs
        PROVE  candidate'[r] \in {candidate[r], None} /\ (row'[r] = "unused" => row[r] = "unused")
    <3>1. CASE Recover \/ Purge
      BY <3>1 DEF Recover, Purge, stored
    <3>2. CASE Probe
      BY <3>2 DEF Probe
    <3>3. CASE TakeOver
      BY <3>3 DEF TakeOver, MarkRunning, DataOK
    <3>4. CASE FinalizeResumed
      <4>1. Drops(RunOf("startup")) \/ Promotes(RunOf("startup"))
        BY <3>4 DEF FinalizeResumed
      <4>2. row'[r] = "unused" => row[r] = "unused"
        BY <3>4 DEF FinalizeResumed, DataOK
      <4> QED BY <4>1, <4>2, RowsOnly
    <3> QED BY <1>1, <3>1, <3>2, <3>3, <3>4 DEF Recovery
  <2>3. \/ \E pc \in {"idle", "taking", "resuming"} : \E r : Goes("startup", pc, r)
        \/ Goes("startup", "entering", NoRun)
        \/ /\ \E pc \in {"probing", "purging"} : Recovers(pc)
           /\ Stage("startup") \in {"recovering", "probing"}
    <3>1. CASE Recover \/ Purge \/ TakeOver \/ FinalizeResumed
      BY <3>1 DEF Recover, Purge, TakeOver, FinalizeResumed, Leaves
    <3>2. CASE Probe
      BY <3>2 DEF Probe
    <3> QED BY <1>1, <3>1, <3>2 DEF Recovery
  <2>4. CASE \E pc \in {"probing", "purging"} : Recovers(pc) /\ Stage("startup") \in {"recovering", "probing"}
    <3>1. \A b \in Actors : Stage(b)' \in {"probing", "purging"} \/ (Stage(b)' = Stage(b) /\ RunOf(b)' = RunOf(b))
      BY <1>0, <2>4, RecoversPlaced
    <3>2. /\ "probing" \notin Early /\ "probing" \notin Working
          /\ "purging" \notin Early /\ "purging" \notin Working
      BY DEF Early, Working
    <3>3. \A b \in Actors : Stage(b)' \in Early \cup Working => Stage(b)' = Stage(b) /\ RunOf(b)' = RunOf(b)
      BY <3>1, <3>2
    <3> QED BY <2>1, <2>2, <3>3, CandidateStays
  <2> QED BY <1>0, <2>1, <2>2, <2>3, <2>4, CandidateGoes DEF Early, Working
<1>2. CASE Restart
  <2> DEFINE rec == [pc |-> "recovering", run |-> NoRun,
                     fresh |-> {r \in Runs : row[r] = "running"}, stale |-> {r \in Runs : Older(r)}]
  <2>1. \A a \in Actors : at'[a] = rec \/ at'[a] = Idle
    BY <1>2 DEF Restart
  <2>2. rec.pc = "recovering" /\ Idle.pc = "idle"
    BY DEF Idle
  <2> HIDE DEF rec
  <2>3. \A a \in Actors : Stage(a)' \notin Early /\ Stage(a)' \notin Working
    BY <2>1, <2>2 DEF Stage, Early, Working
  <2>4. /\ captured' = captured /\ candidate' = candidate
        /\ \A r \in Runs : row'[r] = "unused" => row[r] = "unused"
    BY <1>2 DEF Restart
  <2> QED BY <2>3, <2>4, CandidateStays
<1>3. CASE Downloads
  <2>1. UNCHANGED <<row, candidate, captured, at>>
    BY <1>3 DEF Downloads, DownloadEnds, stored
  <2> QED BY <2>1 DEF CandidateInv, Stage, RunOf
<1>4. CASE Tick \/ \E t \in Triggers : Trigger(t) \/ TriggerStarts(t) \/ TriggerRefused(t)
  <2>1. /\ captured' = captured /\ candidate' = candidate
        /\ row' = row \/ StartsRow(NextRun)
    BY <1>4 DEF Tick, Trigger, TriggerStarts, TriggerRefused, stored
  <2>2. \/ \E a \in Actors, pc \in {"idle", "asking", "entering"} : Goes(a, pc, NoRun)
        \/ \E a \in Actors : Goes(a, "entering", NextRun) /\ CanRun
    BY <1>4 DEF Tick, Trigger, TriggerStarts, TriggerRefused, Actors
  <2>3. \A r \in Runs : row'[r] = "unused" => row[r] = "unused"
    BY <2>1, RowsOnly
  <2>4. CanRun => NextRun \in Runs \ Minted
    BY NextIsFresh
  <2> QED BY <1>0, <2>1, <2>2, <2>3, <2>4, CandidateGoes DEF Working
<1> QED BY <1>1, <1>2, <1>3, <1>4

-----------------------------------------------------------------------------
(* What landed                                                             *)

\* What an actor knows of a file it is applying or has applied: it works on those of the
\* snapshot and removes the others, and what it is done with is in the directory.
Handled(a, f) ==
    LET wanted == captured[RunOf(a)][f] # 0
    IN  /\ leaf[a][f] \in {"todo", "again", "submitted", "waiting"} => wanted
        /\ leaf[a][f] = "remove" => ~wanted
        /\ wanted /\ leaf[a][f] \in {"none", "completed"} => landed[f] # 0
        /\ leaf[a][f] \in {"submitted", "waiting"} /\ download[RunOf(a)][f] = "done" => landed[f] # 0

\* Nothing is left to do when a snapshot may be promoted, nothing failed in a completed run.
Concluded(a, f) ==
    /\ leaf[a][f] \in {"none", "completed", "failed", "skipped"}
    /\ row[RunOf(a)] = "completed" => leaf[a][f] # "failed"

LandInv ==
    /\ \A r \in Runs, f \in Files : Live(r, f) => captured[r] # None /\ captured[r][f] # 0
    /\ \A a \in Actors, f \in Files : Stage(a) \in Working => Handled(a, f)
    /\ \A a \in Actors, f \in Files : Stage(a) = "promoting" => Concluded(a, f)

\* Nothing is downloaded, and nobody who works on a run is touched.
LEMMA LandStays ==
    ASSUME LandInv, UNCHANGED <<captured, landed>>,
           \A r \in Runs, f \in Files : Live(r, f)' => Live(r, f),
           \A b \in Actors : Stage(b)' \in Working =>
               /\ Stage(b)' = Stage(b) /\ RunOf(b)' = RunOf(b) /\ leaf'[b] = leaf[b]
               /\ \A f \in Files : download'[RunOf(b)][f] = "done" => download[RunOf(b)][f] = "done"
               /\ row'[RunOf(b)] = "completed" => row[RunOf(b)] = "completed"
    PROVE  LandInv'
<1>1. \A r \in Runs, f \in Files : Live(r, f)' => captured'[r] # None /\ captured'[r][f] # 0
  BY DEF LandInv
<1>2. ASSUME NEW b \in Actors, NEW f \in Files, Stage(b)' \in Working
      PROVE  Handled(b, f)'
  <2>1. Handled(b, f)
    BY <1>2 DEF LandInv
  <2>2. RunOf(b)' = RunOf(b) /\ leaf'[b] = leaf[b]
        /\ (download'[RunOf(b)][f] = "done" => download[RunOf(b)][f] = "done")
    BY <1>2
  <2> QED BY <2>1, <2>2 DEF Handled
<1>3. ASSUME NEW b \in Actors, NEW f \in Files, Stage(b)' = "promoting"
      PROVE  Concluded(b, f)'
  <2>1. Stage(b)' \in Working
    BY <1>3 DEF Working
  <2>2. /\ RunOf(b)' = RunOf(b) /\ leaf'[b] = leaf[b] /\ Stage(b) = "promoting"
        /\ row'[RunOf(b)] = "completed" => row[RunOf(b)] = "completed"
    BY <1>3, <2>1
  <2>3. Concluded(b, f)
    BY <2>2 DEF LandInv
  <2> QED BY <2>2, <2>3 DEF Concluded
<1> QED BY <1>1, <1>2, <1>3 DEF LandInv

\* An actor that does not work on a run, and will not, goes.
LEMMA LandGoes ==
    ASSUME LandInv, StagesKnown, UNCHANGED <<captured, landed, leaf>>,
           \A r \in Runs, f \in Files : Live(r, f)' => Live(r, f),
           NEW a \in Actors, NEW pc, NEW r, Goes(a, pc, r), pc \notin Working,
           \A b \in Actors : b # a /\ Stage(b) \in Working =>
               /\ \A f \in Files : download'[RunOf(b)][f] = "done" => download[RunOf(b)][f] = "done"
               /\ row'[RunOf(b)] = "completed" => row[RunOf(b)] = "completed"
    PROVE  LandInv'
<1>1. /\ Stage(a)' = pc
      /\ \A b \in Actors : b # a => Stage(b)' = Stage(b) /\ RunOf(b)' = RunOf(b)
  BY GoesThere
<1>2. ASSUME NEW b \in Actors, Stage(b)' \in Working
      PROVE  /\ Stage(b)' = Stage(b) /\ RunOf(b)' = RunOf(b) /\ leaf'[b] = leaf[b]
             /\ \A f \in Files : download'[RunOf(b)][f] = "done" => download[RunOf(b)][f] = "done"
             /\ row'[RunOf(b)] = "completed" => row[RunOf(b)] = "completed"
  <2>1. b # a
    BY <1>1, <1>2
  <2> QED BY <1>1, <1>2, <2>1
<1> QED BY <1>2, LandStays

\* The run of an actor that works on one is a run, and its snapshot holds versions.
LEMMA WorkersRun ==
    ASSUME DataOK, RunInv, CandidateInv, NEW a \in Actors, Stage(a) \in Working
    PROVE  RunOf(a) \in Runs /\ captured[RunOf(a)] \in Content
<1>1. RunOf(a) \in Runs
  BY DEF RunInv, Minted, Working
<1>2. captured[RunOf(a)] # None
  BY DEF CandidateInv
<1> QED BY <1>1, <1>2 DEF DataOK, Snapshots

\* Starting a run: the scan sorts the files by what is wanted and what is there.
LEMMA StartsLand ==
    ASSUME FlagInv, DataOK, TwinInv, RunInv, CandidateInv, LandInv, NEW a \in Actors, Starts(a)
    PROVE  LandInv'
<1>0. StagesKnown
  BY DEF FlagInv
<1>1. CASE Enter(a) \/ Resolve(a) \/ ResolveFails(a) \/ ScanFails(a)
  <2>1. UNCHANGED <<captured, landed, leaf, download>>
    BY <1>1 DEF Enter, Resolve, ResolveFails, ScanFails
  <2>2. \E pc \in {"idle", "resolving", "sweeping"} : \E r : Goes(a, pc, r)
    BY <1>1 DEF Enter, Resolve, ResolveFails, ScanFails, Leaves
  <2>3. ASSUME NEW b \in Actors, Stage(b) \in Working
        PROVE  row'[RunOf(b)] = "completed" => row[RunOf(b)] = "completed"
    <3>1. row' = row \/ FailsRun(RunOf(a)) \/ StartsRow(NextRun)
      BY <1>1 DEF Enter, Resolve, ResolveFails, ScanFails
    <3>2. RunOf(b) \in Runs
      BY <2>3, WorkersRun
    <3> QED BY <3>1, <3>2, RowsOnly
  <2>4. \A r \in Runs, f \in Files : Live(r, f)' => Live(r, f)
    BY <2>1 DEF Live
  <2> QED BY <1>0, <2>1, <2>2, <2>3, <2>4, LandGoes DEF Working
<1>2. CASE Sweep(a)
  <2>1. /\ UNCHANGED <<captured, landed, leaf, row>>
        /\ Goes(a, "scanning", RunOf(a)) /\ Stage(a) \in Busy
        /\ download' = download \/ download' = NoTasks
    BY <1>2 DEF Sweep, SweptAll, stored, Busy
  <2>2. \A r \in Runs, f \in Files : Live(r, f)' => Live(r, f)
    BY <2>1 DEF Live, NoTasks, NoLeaves, Unfinished
  <2>3. \A b \in Actors : Stage(b) \in Working => b = a
    BY <2>1 DEF FlagInv, Busy, Working
  <2>4. "scanning" \notin Working
    BY DEF Working
  <2> QED BY <1>0, <2>1, <2>2, <2>3, <2>4, LandGoes
<1>3. CASE Scan(a)
  <2> DEFINE r == RunOf(a)
  <2>1. r \in Runs /\ Stage(a) = "scanning" /\ Stage(a) \in Busy
    BY <1>3 DEF Scan, RunInv, Minted, Busy
  <2>2. PICK share \in Content :
          /\ captured' = [captured EXCEPT ![r] = share]
          /\ leaf' = [leaf EXCEPT ![a] = [f \in Files |-> WorkOf(share, f)]]
    BY <1>3 DEF Scan
  <2>3. Goes(a, "applying", r) /\ UNCHANGED <<landed, download>>
    BY <1>3 DEF Scan
  <2> HIDE DEF r
  <2>4. \A q \in Runs, f \in Files : ~Live(q, f)'
    <3>1. ~HasUnfinished
      BY <2>1 DEF TwinInv
    <3> QED BY <2>3, <3>1 DEF HasUnfinished, Live
  <2>5. /\ Stage(a)' = "applying" /\ RunOf(a)' = r
        /\ \A b \in Actors : b # a => Stage(b)' = Stage(b) /\ RunOf(b)' = RunOf(b)
    BY <1>0, <2>3, GoesThere
  <2>6. \A b \in Actors : Stage(b)' \in Working => b = a
    <3>1. \A b \in Actors : Stage(b) \in Working => b = a
      BY <2>1 DEF FlagInv, Busy, Working
    <3> QED BY <2>5, <3>1
  <2>7. ASSUME NEW f \in Files PROVE Handled(a, f)'
    <3>1. leaf'[a][f] = WorkOf(share, f) /\ captured'[r] = share
      BY <2>1, <2>2 DEF DataOK
    <3>2. share[f] \in Nat /\ landed[f] \in Nat
      BY ShareSyncAssumption DEF DataOK, Content
    <3>3. /\ WorkOf(share, f) \in {"none", "todo", "remove"}
          /\ WorkOf(share, f) = "todo" => share[f] # 0
          /\ WorkOf(share, f) = "remove" => share[f] = 0
          /\ WorkOf(share, f) = "none" /\ share[f] # 0 => landed[f] # 0
      BY DEF WorkOf, Missing
    <3> QED BY <2>3, <2>5, <3>1, <3>3 DEF Handled
  <2>8. \A f \in Files, b \in Actors : Stage(b)' \in Working => Handled(b, f)'
    BY <2>6, <2>7
  <2>9. \A b \in Actors : Stage(b)' # "promoting"
    BY <2>5, <2>6 DEF Working
  <2> QED BY <2>4, <2>8, <2>9 DEF LandInv
<1> QED BY <1>1, <1>2, <1>3 DEF Starts

\* An actor that works is the only one.
LEMMA LoneWorker ==
    ASSUME FlagInv, NEW a \in Actors, Stage(a) \in Busy, NEW b \in Actors, Stage(b) \in Working
    PROVE  b = a
<1>1. Stage(b) \in Busy
  BY DEF Working, Busy
<1> QED BY <1>1 DEF FlagInv

\* A step of an application that touches one file only.
LEMMA UnitLand ==
    ASSUME FlagInv, DataOK, LandInv, NEW a \in Actors, NEW f \in Files, NEW to,
           Stage(a) = "applying", UNCHANGED <<at, captured>>, Moves(a, f, to),
           \A g \in Files : g # f => /\ landed'[g] = landed[g]
                                     /\ download'[RunOf(a)][g] = download[RunOf(a)][g],
           \A r \in Runs, g \in Files : Live(r, g)' => Live(r, g) \/ (r = RunOf(a) /\ g = f),
           download'[RunOf(a)][f] \in Unfinished =>
               captured[RunOf(a)] # None /\ captured[RunOf(a)][f] # 0,
           leaf'[a][f] = to => Handled(a, f)'
    PROVE  LandInv'
<1>1. \A b \in Actors : Stage(b)' = Stage(b) /\ RunOf(b)' = RunOf(b)
  BY DEF Stage, RunOf
<1>2. \A b \in Actors : Stage(b) \in Working => b = a
  BY LoneWorker DEF Busy
<1>3. /\ leaf'[a][f] = to
      /\ \A g \in Files : g # f => leaf'[a][g] = leaf[a][g]
  BY DEF Moves, DataOK
<1>4. ASSUME NEW b \in Actors, NEW g \in Files, Stage(b)' \in Working PROVE Handled(b, g)'
  <2>1. b = a
    BY <1>1, <1>2, <1>4
  <2>2. CASE g = f
    BY <1>3, <2>1, <2>2
  <2>3. CASE g # f
    <3>1. Handled(a, g)
      BY DEF LandInv, Working
    <3>2. /\ leaf'[a][g] = leaf[a][g] /\ landed'[g] = landed[g] /\ RunOf(a)' = RunOf(a)
          /\ download'[RunOf(a)][g] = download[RunOf(a)][g] /\ captured' = captured
      BY <1>1, <1>3, <2>3
    <3> QED BY <2>1, <3>1, <3>2 DEF Handled
  <2> QED BY <2>2, <2>3
<1>5. \A b \in Actors : Stage(b)' # "promoting"
  <2>1. \A b \in Actors : Stage(b) = "promoting" => b = a
    BY <1>2 DEF Working
  <2> QED BY <1>1, <2>1
<1>6. \A r \in Runs, g \in Files : Live(r, g)' => captured'[r] # None /\ captured'[r][g] # 0
  BY DEF LandInv, Live
<1> QED BY <1>4, <1>5, <1>6 DEF LandInv

\* Each step of an application keeps what the actor knows of the file true.
LEMMA FilesLand ==
    ASSUME FlagInv, DataOK, RunInv, CandidateInv, LandInv, NEW a \in Actors, NEW f \in Files,
           \/ SkipExisting(a, f) \/ Submit(a, f) \/ Record(a, f) \/ WaitEnds(a, f)
           \/ Retry(a, f) \/ Remove(a, f)
           \/ \E to \in {"completed", "failed", "skipped"} : GivesUp(a, f, to)
    PROVE  LandInv'
<1> DEFINE r == RunOf(a)
<1>1. Stage(a) = "applying" /\ UNCHANGED <<at, captured>>
  BY DEF SkipExisting, Submit, Record, WaitEnds, Retry, Remove, GivesUp, Unit
<1>2. Handled(a, f)
  BY <1>1 DEF LandInv, Working
<1>3. r \in Runs /\ captured[r] # None /\ r' = r
  BY <1>1, WorkersRun DEF CandidateInv, Working, RunOf
<1> HIDE DEF r
<1>4. CASE SkipExisting(a, f) \/ Record(a, f) \/ WaitEnds(a, f)
  <2>1. PICK to \in {"completed", "waiting"} :
          /\ Moves(a, f, to) /\ UNCHANGED <<landed, download>>
          /\ \/ to = "completed" /\ leaf[a][f] = "todo" /\ landed[f] # 0
             \/ to = "waiting" /\ leaf[a][f] = "submitted"
             \/ to = "completed" /\ leaf[a][f] = "waiting" /\ download[r][f] = "done"
    BY <1>4 DEF SkipExisting, Record, WaitEnds, Unit, r
  <2>2. leaf'[a][f] = to => Handled(a, f)'
    BY <1>1, <1>2, <1>3, <2>1 DEF Handled, r
  <2>3. \A q \in Runs, g \in Files : Live(q, g)' <=> Live(q, g)
    BY <2>1 DEF Live
  <2>4. download'[r][f] \in Unfinished => captured[r] # None /\ captured[r][f] # 0
    BY <1>3, <2>1 DEF LandInv, Live
  <2> QED BY <1>1, <2>1, <2>2, <2>3, <2>4, UnitLand DEF r
<1>5. CASE Submit(a, f)
  <2>1. /\ download' = [download EXCEPT ![r][f] = "active"] /\ Moves(a, f, "submitted")
        /\ leaf[a][f] \in {"todo", "again"} /\ landed' = landed
    BY <1>5 DEF Submit, Task, Unit, r
  <2>2. captured[r][f] # 0
    BY <1>2, <2>1 DEF Handled, r
  <2>3. /\ download'[r][f] = "active"
        /\ \A g \in Files : g # f => download'[r][g] = download[r][g]
    BY <1>3, <2>1 DEF DataOK
  <2>4. \A q \in Runs, g \in Files : Live(q, g)' => Live(q, g) \/ (q = r /\ g = f)
    BY <2>1, TaskLive
  <2>5. leaf'[a][f] = "submitted" => Handled(a, f)'
    BY <1>1, <1>3, <2>2, <2>3 DEF Handled, r
  <2> QED BY <1>1, <1>3, <2>1, <2>2, <2>3, <2>4, <2>5, UnitLand DEF r
<1>6. CASE Retry(a, f) \/ \E to \in {"completed", "failed", "skipped"} : GivesUp(a, f, to)
  <2>1. PICK to \in {"again", "completed", "failed", "skipped"} :
          /\ download' = [download EXCEPT ![r][f] = "none"] /\ Moves(a, f, to)
          /\ leaf[a][f] \in {"waiting", "todo", "again"} /\ landed' = landed
          /\ to = "completed" => landed[f] # 0
    BY <1>6 DEF Retry, GivesUp, Discards, Task, Unit, r
  <2>2. captured[r][f] # 0
    BY <1>2, <2>1 DEF Handled, r
  <2>3. /\ download'[r][f] = "none"
        /\ \A g \in Files : g # f => download'[r][g] = download[r][g]
    BY <1>3, <2>1 DEF DataOK
  <2>4. \A q \in Runs, g \in Files : Live(q, g)' => Live(q, g) \/ (q = r /\ g = f)
    BY <2>1, TaskLive
  <2>5. leaf'[a][f] = to => Handled(a, f)'
    BY <1>1, <1>3, <2>1, <2>2, <2>3 DEF Handled, r
  <2> QED BY <1>1, <1>3, <2>1, <2>2, <2>3, <2>4, <2>5, UnitLand DEF r
<1>7. CASE Remove(a, f)
  <2>1. PICK to \in {"completed", "failed"} :
          /\ Moves(a, f, to) /\ leaf[a][f] = "remove" /\ download' = download
          /\ landed' = landed \/ landed' = [landed EXCEPT ![f] = 0]
    BY <1>7 DEF Remove, Unit
  <2>2. captured[r][f] = 0
    BY <1>2, <2>1 DEF Handled, r
  <2>3. leaf'[a][f] = to => Handled(a, f)'
    BY <1>1, <1>3, <2>1, <2>2 DEF Handled, r
  <2>4. \A q \in Runs, g \in Files : Live(q, g)' <=> Live(q, g)
    BY <2>1 DEF Live
  <2>5. download'[r][f] \in Unfinished => captured[r] # None /\ captured[r][f] # 0
    BY <1>3, <2>1 DEF LandInv, Live
  <2>6. \A g \in Files : g # f => landed'[g] = landed[g]
    BY <2>1 DEF DataOK, Content
  <2> QED BY <1>1, <2>1, <2>3, <2>4, <2>5, <2>6, UnitLand DEF r
<1> QED BY <1>4, <1>5, <1>6, <1>7

\* The end of an application concludes every file; what was promoted is forgotten.
LEMMA AppliesLand ==
    ASSUME FlagInv, DataOK, RunInv, CandidateInv, LandInv, NEW a \in Actors, Applies(a)
    PROVE  LandInv'
<1>0. StagesKnown
  BY DEF FlagInv
<1>1. CASE Finish(a)
  <2> DEFINE r == RunOf(a)
  <2>1. /\ Stage(a) = "applying" /\ Goes(a, "promoting", r)
        /\ \A f \in Files : leaf[a][f] \in {"none", "completed", "failed", "skipped"}
        /\ row' = [row EXCEPT ![r] = IF Has(a, "failed") THEN "errors" ELSE "completed"]
        /\ UNCHANGED <<landed, captured, download, leaf>>
    BY <1>1 DEF Finish
  <2>2. r \in Runs
    BY <2>1, WorkersRun DEF Working
  <2> HIDE DEF r
  <2>3. row'[r] = "completed" => \A f \in Files : leaf[a][f] # "failed"
    BY <2>1, <2>2 DEF DataOK, Has
  <2>4. /\ Stage(a)' = "promoting" /\ RunOf(a)' = r
        /\ \A b \in Actors : b # a => Stage(b)' = Stage(b) /\ RunOf(b)' = RunOf(b)
    BY <1>0, <2>1, GoesThere
  <2>5. \A b \in Actors : Stage(b)' \in Working => b = a
    <3>1. \A b \in Actors : Stage(b) \in Working => b = a
      BY <2>1, LoneWorker DEF Busy
    <3> QED BY <2>4, <3>1
  <2>6. ASSUME NEW f \in Files PROVE Handled(a, f)' /\ Concluded(a, f)'
    <3>1. Handled(a, f)
      BY <2>1 DEF LandInv, Working
    <3>2. Handled(a, f)'
      BY <2>1, <2>4, <3>1 DEF Handled, r
    <3>3. Concluded(a, f)'
      BY <2>1, <2>3, <2>4 DEF Concluded
    <3> QED BY <3>2, <3>3
  <2>7. \A q \in Runs, f \in Files : Live(q, f)' => captured'[q] # None /\ captured'[q][f] # 0
    BY <2>1 DEF LandInv, Live
  <2>8. \A b \in Actors : Stage(b)' = "promoting" => b = a
    BY <2>5 DEF Working
  <2>9. \A b \in Actors, f \in Files : Stage(b)' \in Working => Handled(b, f)'
    BY <2>5, <2>6
  <2>10. \A b \in Actors, f \in Files : Stage(b)' = "promoting" => Concluded(b, f)'
    BY <2>8, <2>6
  <2> QED BY <2>7, <2>9, <2>10 DEF LandInv
<1>2. CASE Promote(a)
  <2>1. /\ Goes(a, "idle", NoRun) /\ Stage(a) = "promoting"
        /\ UNCHANGED <<landed, captured, download, row>>
    BY <1>2 DEF Promote, Leaves
  <2>2. \A b \in Actors : Stage(b)' \notin Working
    <3>1. \A b \in Actors : Stage(b) \in Working => b = a
      BY <2>1, LoneWorker DEF Busy
    <3>2. Stage(a)' = "idle" /\ \A b \in Actors : b # a => Stage(b)' = Stage(b)
      BY <1>0, <2>1, GoesThere
    <3> QED BY <3>1, <3>2 DEF Working
  <2>3. \A r \in Runs, f \in Files : Live(r, f)' => Live(r, f)
    BY <2>1 DEF Live
  <2> QED BY <2>1, <2>2, <2>3, LandStays
<1>3. CASE Wake(a)
  <2>1. UNCHANGED <<landed, captured, row, leaf, at>>
    BY <1>3 DEF Wake, stored
  <2>2. \A r \in Runs, f \in Files :
           download'[r][f] = IF download[r][f] = "paused" THEN "active" ELSE download[r][f]
    BY <1>3 DEF Wake
  <2>3. \A r \in Runs, f \in Files : Live(r, f)' => Live(r, f)
    BY <2>2 DEF Live, Unfinished
  <2>4. ASSUME NEW b \in Actors, Stage(b)' \in Working
        PROVE  /\ Stage(b)' = Stage(b) /\ RunOf(b)' = RunOf(b) /\ leaf'[b] = leaf[b]
               /\ \A f \in Files : download'[RunOf(b)][f] = "done" => download[RunOf(b)][f] = "done"
               /\ row'[RunOf(b)] = "completed" => row[RunOf(b)] = "completed"
    <3>1. Stage(b)' = Stage(b) /\ RunOf(b)' = RunOf(b)
      BY <2>1 DEF Stage, RunOf
    <3>2. RunOf(b) \in Runs
      BY <2>4, <3>1, WorkersRun
    <3> QED BY <2>1, <2>2, <3>1, <3>2
  <2> QED BY <2>1, <2>3, <2>4, LandStays
<1> QED BY <1>1, <1>2, <1>3, FilesLand DEF Applies

\* A download ends for a version of its run; whoever works on a run finds more there than before.
LEMMA DownloadLand ==
    ASSUME DataOK, RunInv, CandidateInv, LandInv, NEW r \in Runs, NEW f \in Files, DownloadEnds(r, f)
    PROVE  LandInv'
<1>1. captured[r] # None /\ captured[r][f] # 0
  BY DEF LandInv, Live, DownloadEnds, Unfinished
<1>2. UNCHANGED <<at, leaf, captured, row>>
  BY DEF DownloadEnds, stored
<1>3. /\ \A q \in Runs, g \in Files : download'[q][g] = "done" =>
            download[q][g] = "done" \/ landed'[g] # 0
      /\ \A g \in Files : landed[g] # 0 => landed'[g] # 0
  <2>1. /\ download \in [Runs -> [Files -> Tasks]]
        /\ landed \in [Files -> 0..MaxVersions]
    BY DEF DataOK, Content
  <2>2. CASE /\ download' = [download EXCEPT ![r][f] = "done"]
             /\ landed' = [landed EXCEPT ![f] = captured[r][f]]
    <3>1. \A g \in Files : landed'[g] = IF g = f THEN captured[r][f] ELSE landed[g]
      BY <2>1, <2>2
    <3>2. \A q \in Runs, g \in Files :
             download'[q][g] = IF q = r /\ g = f THEN "done" ELSE download[q][g]
      BY <2>1, <2>2
    <3> QED BY <1>1, <3>1, <3>2
  <2>3. CASE /\ download' = [download EXCEPT ![r][f] = "failed"]
             /\ landed' = landed
    <3>1. \A q \in Runs, g \in Files :
             download'[q][g] = IF q = r /\ g = f THEN "failed" ELSE download[q][g]
      BY <2>1, <2>3
    <3> QED BY <2>3, <3>1
  <2> QED BY <2>2, <2>3 DEF DownloadEnds
<1>4. \A q \in Runs, g \in Files : Live(q, g)' => Live(q, g)
  <2>1. PICK st \in {"done", "failed"} : download' = [download EXCEPT ![r][f] = st]
    BY DEF DownloadEnds
  <2>2. st \notin Unfinished
    BY DEF Unfinished
  <2> QED BY <2>1, <2>2, TaskLive
<1>5. ASSUME NEW b \in Actors, NEW g \in Files, Stage(b)' \in Working PROVE Handled(b, g)'
  <2>1. Stage(b) \in Working /\ RunOf(b)' = RunOf(b)
    BY <1>2, <1>5 DEF Stage, RunOf
  <2>2. Handled(b, g) /\ RunOf(b) \in Runs
    BY <2>1, WorkersRun DEF LandInv
  <2> QED BY <1>2, <1>3, <2>1, <2>2 DEF Handled
<1>6. ASSUME NEW b \in Actors, NEW g \in Files, Stage(b)' = "promoting" PROVE Concluded(b, g)'
  <2>1. Stage(b) = "promoting" /\ RunOf(b)' = RunOf(b)
    BY <1>2, <1>6 DEF Stage, RunOf
  <2>2. Concluded(b, g)
    BY <2>1 DEF LandInv
  <2> QED BY <1>2, <2>1, <2>2 DEF Concluded
<1>7. \A q \in Runs, g \in Files : Live(q, g)' => captured'[q] # None /\ captured'[q][g] # 0
  BY <1>2, <1>4 DEF LandInv
<1> QED BY <1>5, <1>6, <1>7 DEF LandInv

\* Recovery, restart and entries touch nobody who works on a run.
LEMMA OthersLand ==
    ASSUME FlagInv, DataOK, Placed, RunInv, CandidateInv, LandInv,
           \/ Recovery \/ Restart \/ Tick
           \/ \E t \in Triggers : Trigger(t) \/ TriggerStarts(t) \/ TriggerRefused(t)
    PROVE  LandInv'
<1> USE NamedActors
<1>0. StagesKnown
  BY DEF FlagInv
<1>1. CASE Recovery
  <2>1. UNCHANGED <<landed, captured, leaf>>
    BY <1>1 DEF Recovery, Recover, Probe, Purge, TakeOver, FinalizeResumed
  <2>2. download' = download \/ download' = NoTasks
    BY <1>1 DEF Recovery, Recover, Probe, Purge, TakeOver, FinalizeResumed
  <2>3. \A r \in Runs, f \in Files : /\ Live(r, f)' => Live(r, f)
                                     /\ download'[r][f] = "done" => download[r][f] = "done"
    BY <2>2 DEF Live, NoTasks, NoLeaves, Unfinished
  <2>4. ASSUME NEW b \in Actors, b # "startup", Stage(b) \in Working
        PROVE  /\ \A f \in Files : download'[RunOf(b)][f] = "done" => download[RunOf(b)][f] = "done"
               /\ row'[RunOf(b)] = "completed" => row[RunOf(b)] = "completed"
    <3>1. RunOf(b) \in Runs
      BY <2>4, WorkersRun
    <3>2. ~FinalizeResumed
      <4>1. Stage("startup") \notin Busy
        BY <2>4, LoneWorker
      <4> QED BY <4>1 DEF FinalizeResumed, Busy
    <3>3. row' = row \/ MarkRunning(RunOf("startup"))
      BY <1>1, <3>2 DEF Recovery, Recover, Probe, Purge, TakeOver, stored
    <3> QED BY <2>3, <3>1, <3>3 DEF MarkRunning, DataOK
  <2>5. \/ \E pc \in {"idle", "taking", "resuming", "entering"} : \E r : Goes("startup", pc, r)
        \/ /\ \E pc \in {"probing", "purging"} : Recovers(pc)
           /\ Stage("startup") \in {"recovering", "probing"}
    <3>1. CASE Recover \/ Purge \/ TakeOver \/ FinalizeResumed
      BY <3>1 DEF Recover, Purge, TakeOver, FinalizeResumed, Leaves
    <3>2. CASE Probe
      BY <3>2 DEF Probe
    <3> QED BY <1>1, <3>1, <3>2 DEF Recovery
  <2>6. CASE \E pc \in {"probing", "purging"} :
                Recovers(pc) /\ Stage("startup") \in {"recovering", "probing"}
    <3>1. /\ Stage("startup")' \in {"probing", "purging"}
          /\ \A b \in Actors : b # "startup" => Stage(b)' = Stage(b) /\ RunOf(b)' = RunOf(b)
      BY <1>0, <2>6, RecoversPlaced
    <3>2. \A b \in Actors : Stage(b)' \in Working => b # "startup" /\ Stage(b) \in Working
      BY <3>1 DEF Working
    <3>3. \A b \in Actors : Stage(b)' \in Working =>
             /\ Stage(b)' = Stage(b) /\ RunOf(b)' = RunOf(b) /\ leaf'[b] = leaf[b]
             /\ \A f \in Files : download'[RunOf(b)][f] = "done" => download[RunOf(b)][f] = "done"
             /\ row'[RunOf(b)] = "completed" => row[RunOf(b)] = "completed"
      BY <2>1, <2>4, <3>1, <3>2
    <3> QED BY <2>1, <2>3, <3>3, LandStays
  <2> QED BY <1>0, <2>1, <2>3, <2>4, <2>5, <2>6, LandGoes DEF Working
<1>2. CASE Restart
  <2> DEFINE rec == [pc |-> "recovering", run |-> NoRun,
                     fresh |-> {r \in Runs : row[r] = "running"}, stale |-> {r \in Runs : Older(r)}]
  <2>1. \A a \in Actors : at'[a] = rec \/ at'[a] = Idle
    BY <1>2 DEF Restart
  <2>2. rec.pc = "recovering" /\ Idle.pc = "idle"
    BY DEF Idle
  <2> HIDE DEF rec
  <2>3. \A a \in Actors : Stage(a)' \notin Working
    BY <2>1, <2>2 DEF Stage, Working
  <2>4. \A r \in Runs, f \in Files : Live(r, f)' => Live(r, f)
    BY <1>2 DEF Restart, Restored, Live, Unfinished
  <2>5. UNCHANGED <<captured, landed>>
    BY <1>2 DEF Restart
  <2> QED BY <2>3, <2>4, <2>5, LandStays
<1>3. CASE Tick \/ \E t \in Triggers : Trigger(t) \/ TriggerStarts(t) \/ TriggerRefused(t)
  <2>1. /\ UNCHANGED <<captured, landed, leaf, download>>
        /\ row' = row \/ StartsRow(NextRun)
    BY <1>3 DEF Tick, Trigger, TriggerStarts, TriggerRefused, stored
  <2>2. \E a \in Actors, pc \in {"idle", "asking", "entering"} : \E r : Goes(a, pc, r)
    BY <1>3 DEF Tick, Trigger, TriggerStarts, TriggerRefused, Actors
  <2>3. ASSUME NEW b \in Actors, Stage(b) \in Working
        PROVE  row'[RunOf(b)] = "completed" => row[RunOf(b)] = "completed"
    <3>1. RunOf(b) \in Runs
      BY <2>3, WorkersRun
    <3> QED BY <2>1, <3>1, RowsOnly
  <2>4. \A r \in Runs, f \in Files : Live(r, f)' => Live(r, f)
    BY <2>1 DEF Live
  <2> QED BY <1>0, <2>1, <2>2, <2>3, <2>4, LandGoes DEF Working
<1> QED BY <1>1, <1>2, <1>3

-----------------------------------------------------------------------------
(* The subscription                                                        *)

\* The inductive invariant: the flag, the types, and who owns downloads, runs and snapshots.
SyncInv == FlagInv /\ TypeOK /\ TwinInv /\ RunInv /\ CandidateInv /\ LandInv

\* Nothing has happened at the start.
LEMMA InitSync == Init => SyncInv
<1> SUFFICES ASSUME Init PROVE SyncInv
  OBVIOUS
<1>1. \A a \in Actors : at[a] = Idle
  BY DEF Init
<1>2. Idle.pc = "idle" /\ Idle.run = NoRun /\ Idle \in Places
  BY DEF Idle, Places
<1>3. \A a \in Actors : Stage(a) = "idle" /\ RunOf(a) = NoRun
  BY <1>1, <1>2 DEF Stage, RunOf
<1>4. DataOK
  <2>1. NoTasks \in [Runs -> [Files -> Tasks]] /\ NoTasks \in [Runs -> [Files -> Items]]
    BY DEF NoTasks, NoLeaves, Tasks, Items
  <2>2. NoLeaves \in [Files -> Leaves_]
    BY DEF NoLeaves, Leaves_
  <2>3. landed \in Content
    BY ShareSyncAssumption DEF Init, Content
  <2>4. 0 \in 0..MaxMishaps
    BY ShareSyncAssumption
  <2> QED BY <2>1, <2>2, <2>3, <2>4 DEF Init, DataOK, Rows, Snapshots
<1>5. Placed
  BY <1>1, <1>2 DEF Placed
<1>6. \A r \in Runs, f \in Files : ~Live(r, f)
  BY DEF Init, NoTasks, NoLeaves, Live, Unfinished
<1>7. TwinInv
  BY <1>3, <1>6 DEF TwinInv
<1>8. RunInv
  <2>1. Minted = {}
    BY DEF Init, Minted
  <2>2. 0 \in 0..MaxRuns /\ 1..0 = {}
    BY ShareSyncAssumption
  <2> QED BY <1>3, <2>1, <2>2, NamedActors DEF RunInv
<1>9. CandidateInv
  BY <1>3 DEF CandidateInv, Early, Working, Init
<1>10. LandInv
  BY <1>3, <1>6 DEF LandInv, Working
<1> QED BY <1>4, <1>5, <1>7, <1>8, <1>9, <1>10, InitFlag, TypeParts DEF SyncInv

\* Every step keeps the invariant.
LEMMA NextSync == SyncInv /\ [Next]_vars => SyncInv'
<1> SUFFICES ASSUME SyncInv, [Next]_vars PROVE SyncInv'
  OBVIOUS
<1>0. FlagInv /\ DataOK /\ Placed /\ TwinInv /\ RunInv /\ CandidateInv /\ LandInv
  BY TypeParts DEF SyncInv
<1>1. FlagInv'
  BY <1>0, NextFlag
<1>2. ASSUME DataOK', Placed', TwinInv', RunInv', CandidateInv', LandInv' PROVE SyncInv'
  <2>1. TypeOK'
    BY <1>2 DEF TypeOK, DataOK, Placed, Places, Recoveries, Rows, Items, Tasks, Leaves_, Snapshots
  <2> QED BY <1>1, <1>2, <2>1 DEF SyncInv
<1>3. ASSUME NEW a \in Actors, Starts(a) PROVE SyncInv'
  BY <1>0, <1>2, <1>3, StartsData, StartsPlaced, StartsTwin, StartsRun, StartsCandidate, StartsLand
<1>4. ASSUME NEW a \in Actors, Applies(a) PROVE SyncInv'
  <2>1. Stage(a) = "promoting" => RunOf(a) \in Runs
    BY <1>0 DEF RunInv, Minted
  <2> QED BY <1>0, <1>2, <1>4, <2>1, AppliesData, StartsPlaced, AppliesTwin, StartsRun,
             AppliesCandidate, AppliesLand
<1>5. CASE Recovery \/ Restart
  <2>1. Stage("startup") = "resuming" => RunOf("startup") \in Runs
    BY <1>0, NamedActors DEF RunInv, Minted
  <2> QED BY <1>0, <1>2, <1>5, <2>1, RecoveryData, RecoveryPlaced, OthersTwin, RecoveryRun,
             RestartRun, OthersCandidate, OthersLand
<1>6. CASE Downloads
  <2>1. PICK r \in Runs, f \in Files : DownloadEnds(r, f)
    BY <1>6 DEF Downloads
  <2>2. captured[r] # None
    BY <1>0, <2>1 DEF LandInv, Live, DownloadEnds, Unfinished
  <2>3. DataOK' /\ LandInv'
    BY <1>0, <2>1, <2>2, DownloadData, DownloadLand
  <2>4. at' = at /\ row' = row
    BY <2>1 DEF DownloadEnds, stored
  <2>5. Placed' /\ RunInv'
    BY <1>0, <2>4, RunStill DEF Placed
  <2> QED BY <1>0, <1>2, <1>6, <2>3, <2>5, OthersTwin, OthersCandidate
<1>7. CASE Tick \/ \E t \in Triggers : Trigger(t) \/ TriggerStarts(t) \/ TriggerRefused(t)
  <2>1. DataOK'
    <3>1. row' \in [Runs -> Rows] /\ mishaps' \in 0..MaxMishaps
      <4>1. row' = row \/ StartsRow(NextRun)
        BY <1>7 DEF Tick, Trigger, TriggerStarts, TriggerRefused, stored
      <4>2. mishaps' = mishaps \/ Fault
        BY <1>7 DEF Tick, Trigger, TriggerStarts, TriggerRefused
      <4>3. row' \in [Runs -> Rows]
        BY <1>0, <4>1, RowTypes DEF DataOK
      <4>4. mishaps' \in 0..MaxMishaps
        BY <1>0, <4>2, ShareSyncAssumption DEF DataOK, Fault
      <4> QED BY <4>3, <4>4
    <3>2. UNCHANGED <<landed, candidate, baseline, item, download, captured, running, leaf>>
      BY <1>7 DEF Tick, Trigger, TriggerStarts, TriggerRefused, stored
    <3> QED BY <1>0, <3>1, <3>2 DEF DataOK
  <2> QED BY <1>0, <1>2, <1>7, <2>1, EntriesPlaced, OthersTwin, EntriesRun, OthersCandidate, OthersLand
<1>8. CASE UNCHANGED vars
  <2>1. DataOK' /\ Placed' /\ RunInv'
    BY <1>0, <1>8, RunStill DEF DataOK, Placed, vars, stored
  <2>2. \A b \in Actors : Stage(b)' = Stage(b) /\ RunOf(b)' = RunOf(b)
    BY <1>8 DEF vars, Stage, RunOf
  <2>3. \A r \in Runs, f \in Files : Live(r, f)' => Live(r, f)
    BY <1>8 DEF vars, Live
  <2>4. UNCHANGED <<landed, row, candidate, download, captured, leaf>>
    BY <1>8 DEF vars, stored
  <2>5. TwinInv'
    BY <1>0, <2>2, <2>3, TwinStays
  <2>6. CandidateInv'
    BY <1>0, <2>2, <2>4, CandidateStays
  <2>7. LandInv'
    BY <1>0, <2>2, <2>3, <2>4, LandStays
  <2> QED BY <1>2, <2>1, <2>5, <2>6, <2>7
<1> QED BY <1>3, <1>4, <1>5, <1>6, <1>7, <1>8 DEF Next

\* The invariant holds throughout.
LEMMA SyncAlways == Spec => []SyncInv
<1> QED BY InitSync, NextSync, PTL DEF Spec

\* The variables keep their types.
THEOREM SyncTypes == Spec => []TypeOK
<1>1. SyncInv => TypeOK
  BY DEF SyncInv
<1> QED BY <1>1, SyncAlways, PTL

\* NoTwins holds in every behaviour: through retries, new runs, restarts and take-overs no
\* file of the share ever has two unfinished downloads, in one run or in two.
THEOREM TwinsNever == Spec => []NoTwins
<1>1. SyncInv => NoTwins
  BY TwinCounts DEF SyncInv
<1> QED BY <1>1, SyncAlways, PTL

\* A step that promotes after an application promotes what landed.
LEMMA PromotesStep ==
    ASSUME SyncInv, Next, NEW a \in Actors, Stage(a) = "promoting", baseline' # baseline,
           NEW f \in Files, baseline'[f] # 0
    PROVE  landed[f] # 0
<1>0. FlagInv /\ DataOK /\ RunInv /\ CandidateInv /\ LandInv
  BY TypeParts DEF SyncInv
<1>1. Promote(a)
  <2>1. \A b \in Actors : Stage(b) \in Working => b = a
    BY <1>0, LoneWorker DEF Busy
  <2>2. ~FinalizeResumed
    <3>1. ASSUME Stage("startup") = "resuming" PROVE FALSE
      BY <1>0, <3>1, LoneWorker, NamedActors DEF Busy, Working
    <3> QED BY <3>1 DEF FinalizeResumed
  <2>3. \E b \in Actors : Promote(b)
    <3>1. ASSUME NEW b \in Actors, Starts(b) PROVE FALSE
      BY <3>1 DEF Starts, Enter, Resolve, ResolveFails, Sweep, Scan, ScanFails, stored
    <3>2. ASSUME NEW b \in Actors, Applies(b), ~Promote(b) PROVE FALSE
      BY <3>2 DEF Applies, Wake, Finish, SkipExisting, Submit, Record, WaitEnds, Retry, Remove,
                  GivesUp, stored
    <3>3. ~Recovery
      BY <2>2 DEF Recovery, Recover, Probe, Purge, TakeOver, stored
    <3>4. ~Tick /\ ~Restart /\ ~Downloads /\ ~\E t \in Triggers : Trigger(t) \/ TriggerStarts(t) \/ TriggerRefused(t)
      BY DEF Tick, Restart, Downloads, DownloadEnds, Trigger, TriggerStarts, TriggerRefused, stored
    <3> QED BY <3>1, <3>2, <3>3, <3>4 DEF Next
  <2> QED BY <2>1, <2>3 DEF Promote, Working
<1>2. Advances(a) /\ candidate[RunOf(a)] # None /\ baseline' = candidate[RunOf(a)]
  BY <1>1 DEF Promote, Promotes, Drops
<1>3. candidate[RunOf(a)] = captured[RunOf(a)]
  BY <1>0, <1>2 DEF CandidateInv, Working
<1>4. Handled(a, f) /\ Concluded(a, f)
  BY <1>0 DEF LandInv, Working
<1>5. leaf[a][f] \in {"none", "completed"}
  BY <1>2, <1>4 DEF Concluded, Advances, Has
<1> QED BY <1>2, <1>3, <1>4, <1>5 DEF Handled

\* PromotesWhatLanded holds in every behaviour, whatever fails, restarts and runs beside it: a
\* run that was applied makes its snapshot the baseline only when each of its files is there.
THEOREM PromotesLanded == Spec => PromotesWhatLanded
<1>1. SyncInv /\ [Next]_vars =>
         [\A a \in Actors :
            Stage(a) = "promoting" /\ baseline' # baseline =>
                \A f \in Files : baseline'[f] # 0 => landed[f] # 0]_vars
  BY PromotesStep
<1> QED BY <1>1, SyncAlways, PTL DEF Spec, PromotesWhatLanded

\* A restart or a look of the start-up that ends without a take-over leaves no run behind.
LEMMA NoneBehindStep ==
    ASSUME SyncInv, Restart \/ Probe, at'["startup"] = Idle, NEW r \in Runs,
           row'[r] = "interrupted"
    PROVE  ~Resumable(r)'
<1> USE NamedActors
<1>0. StagesKnown /\ RunInv /\ Placed
  BY TypeParts DEF SyncInv, FlagInv
<1>1. CASE Restart
  <2> DEFINE fresh == {q \in Runs : row[q] = "running"}
             stale == {q \in Runs : Older(q)}
             rec   == [pc |-> "recovering", run |-> NoRun, fresh |-> fresh, stale |-> stale]
  <2>1. at'["startup"] = IF fresh \cup stale # {} THEN rec ELSE Idle
    BY <1>1 DEF Restart
  <2>2. r \in fresh \cup stale
    BY <1>1 DEF Restart, Older
  <2>3. rec.pc # Idle.pc
    BY DEF Idle
  <2> HIDE DEF fresh, stale, rec
  <2> QED BY <2>1, <2>2, <2>3
<1>2. CASE Probe
  <2> DEFINE fresh == {q \in at["startup"].fresh : Resumable(q)}
             stale == {q \in at["startup"].stale : Resumable(q)}
  <2>1. /\ Stage("startup") = "probing"
        /\ UNCHANGED <<row, item, download>>
    BY <1>2 DEF Probe
  <2>2. Stage("startup")' = "idle"
    BY DEF Stage, Idle
  <2>3. fresh \cup stale = {} /\ candidate' = candidate
    <3>1. ASSUME NEW q, Goes("startup", "taking", q) PROVE FALSE
      <4>1. Stage("startup")' = "taking"
        BY <1>0, <3>1, GoesThere, NamedActors
      <4> QED BY <2>2, <4>1
    <3>2. ~Recovers("purging")
      BY <1>0, <2>1, <2>2, RecoversPlaced
    <3> QED BY <1>2, <3>1, <3>2 DEF Probe
  <2>4. r \in at["startup"].fresh \cup at["startup"].stale
    BY <1>0, <2>1 DEF RunInv, Interrupted
  <2>5. ~Resumable(r)
    BY <2>3, <2>4
  <2> QED BY <2>1, <2>3, <2>5 DEF Resumable, HasUnfinished
<1> QED BY <1>1, <1>2

\* NoneLeftBehind holds in every behaviour: however often the process is killed, between the
\* mark and the take-over too, the start-up that settles has looked at every interrupted run.
THEOREM NoneBehind == Spec => NoneLeftBehind
<1>1. SyncInv /\ [Next]_vars =>
         [(Restart \/ Probe) /\ at'["startup"] = Idle =>
              ~\E r \in Runs : row'[r] = "interrupted" /\ Resumable(r)']_vars
  <2> SUFFICES ASSUME SyncInv, [Next]_vars, Restart \/ Probe, at'["startup"] = Idle,
                      NEW r \in Runs, row'[r] = "interrupted"
               PROVE  ~Resumable(r)'
    OBVIOUS
  <2> QED BY NoneBehindStep
<1> QED BY <1>1, SyncAlways, PTL DEF Spec, NoneLeftBehind

=============================================================================
