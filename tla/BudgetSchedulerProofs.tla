----------------------- MODULE BudgetSchedulerProofs -----------------------
(***************************************************************************)
(* The budget scheduler for any number of accounts, requests and threads:  *)
(* its machine budget is enforced by a priority semaphore used by the      *)
(* book, `used` counts exactly the requests it stands for, only the first  *)
(* `base` requests of an account go P0, and no permit of an account is     *)
(* ever lost.                                                              *)
(***************************************************************************)
EXTENDS BudgetScheduler, FiniteSetTheorems, TLAPS

-----------------------------------------------------------------------------
(***************************************************************************)
(* The budget and the capacity of the global semaphore.                    *)
(***************************************************************************)
\* The job is a record: its fields are read after an EXCEPT.
JobIsRecord ==
    job = [phase |-> job.phase, todo |-> job.todo, slot |-> job.slot, n |-> job.n]

\* While the holder of the lock has swapped the budget and not yet resized the
\* semaphore, the two differ by the figure it carries; at any other time they
\* are equal.  That the figure is a legal resize follows from both ranges.
BudgetInv ==
    /\ machine_budget \in 1..MaxBudget
    /\ capacity \in 1..MaxBudget
    /\ job.phase # "resize" => capacity = machine_budget
    /\ job.phase = "resize" => job.n = machine_budget - capacity
    /\ JobIsRecord

\* Actions that leave the budget, the capacity and the resize phase alone.
KeepsBudget ==
    /\ UNCHANGED <<machine_budget, capacity>>
    /\ job.phase # "resize" \/ UNCHANGED job
    /\ job'.phase # "resize" \/ UNCHANGED job
    /\ JobIsRecord'

\* A step that touches neither budget nor lock keeps the invariant.
LEMMA KeepsBudgetSafe ==
    ASSUME BudgetInv, KeepsBudget
    PROVE  BudgetInv'
  BY DEF BudgetInv, KeepsBudget

\* A request moves the semaphore by one step of its own, or not at all.
LEMMA CallStepUsesSemaphore ==
    ASSUME NEW c \in Calls, CallStep(c)
    PROVE  /\ GlobalSem!Step(c) \/ UNCHANGED sem_vars
           /\ UNCHANGED <<capacity, machine_budget, job>>
  <1>1. CASE \/ LookUp(c) \/ EnterAccount(c) \/ CountUsed(c) \/ CancelAccount(c)
             \/ PayDebt(c) \/ Uncount(c) \/ ReturnAccount(c)
    BY <1>1 DEF LookUp, EnterAccount, CountUsed, CancelAccount, PayDebt, Uncount,
                ReturnAccount, sem_vars, conf_vars
  <1>2. CASE RequestGlobal(c)
    <2> DEFINE p == IF prev[c] < base[slot_of[c]] THEN "P0" ELSE "P1"
    <2>1. GlobalSem!Acquire(c, p) /\ UNCHANGED <<conf_vars, job>>
      BY <1>2 DEF RequestGlobal
    <2>2. p \in GlobalSem!Priority
      BY DEF GlobalSem!Priority
    <2> HIDE DEF p
    <2>3. GlobalSem!Step(c)
      BY <2>1, <2>2 DEF GlobalSem!Step
    <2>4. UNCHANGED capacity
      BY <2>1 DEF GlobalSem!Acquire, GlobalSem!AcquireFast, GlobalSem!AcquireSlow
    <2> QED
      BY <2>1, <2>3, <2>4 DEF conf_vars
  <1>3. CASE ReceiveGlobal(c)
    BY <1>3 DEF ReceiveGlobal, GlobalSem!Step, GlobalSem!Receive, conf_vars
  <1>4. CASE CancelGlobal(c)
    BY <1>4 DEF CancelGlobal, GlobalSem!Step, GlobalSem!CancelWaiting,
                GlobalSem!DropNow, GlobalSem!DropLater, conf_vars
  <1>5. CASE ReturnGlobal(c)
    BY <1>5 DEF ReturnGlobal, GlobalSem!Step, GlobalSem!DropNow,
                GlobalSem!DropLater, conf_vars
  <1>6. CASE SpawnedRelease(c)
    BY <1>6 DEF SpawnedRelease, GlobalSem!Step, GlobalSem!SpawnedRelease, conf_vars
  <1> QED
    BY <1>1, <1>2, <1>3, <1>4, <1>5, <1>6 DEF CallStep, Progress, Drop

\* Every mutator but the swap of the budget, and every part of a recompute but
\* the resize, keeps what BudgetInv speaks of.
LEMMA RestKeepsBudget ==
    ASSUME BudgetInv,
           \/ ChangeCaps \/ AddAccount \/ RemoveAccount
           \/ VisitAccount \/ GrowCancelDebt \/ GrowAdd
           \/ ShrinkRead \/ ShrinkForget \/ ShrinkOwe \/ Unlock
    PROVE  KeepsBudget /\ UNCHANGED sem_vars
  <1>1. CASE ChangeCaps
    BY <1>1 DEF ChangeCaps, KeepsBudget, JobIsRecord, Locked, NoJob, sem_vars, conf_vars
  <1>2. CASE AddAccount
    BY <1>2 DEF AddAccount, KeepsBudget, JobIsRecord, Locked, NoJob, sem_vars, conf_vars
  <1>3. CASE RemoveAccount
    BY <1>3 DEF RemoveAccount, KeepsBudget, JobIsRecord, Locked, NoJob, sem_vars, conf_vars
  <1>4. CASE VisitAccount
    <2>1. \E phase \in {"grow", "shrink", "accounts"} : \E todo, slot, n :
             job' = [phase |-> phase, todo |-> todo, slot |-> slot, n |-> n]
      BY <1>4 DEF VisitAccount, Locked
    <2>2. JobIsRecord' /\ job'.phase # "resize"
      BY <2>1 DEF JobIsRecord
    <2> QED
      BY <1>4, <2>2 DEF VisitAccount, KeepsBudget, sem_vars, conf_vars
  <1>5. CASE GrowCancelDebt
    BY <1>5 DEF BudgetInv, GrowCancelDebt, KeepsBudget, JobIsRecord, sem_vars, conf_vars
  <1>6. CASE GrowAdd
    BY <1>6 DEF GrowAdd, KeepsBudget, JobIsRecord, Locked, sem_vars, conf_vars
  <1>7. CASE ShrinkRead
    BY <1>7 DEF BudgetInv, ShrinkRead, KeepsBudget, JobIsRecord, sem_vars, conf_vars
  <1>8. CASE ShrinkForget
    BY <1>8 DEF BudgetInv, ShrinkForget, KeepsBudget, JobIsRecord, sem_vars, conf_vars
  <1>9. CASE ShrinkOwe
    BY <1>9 DEF ShrinkOwe, KeepsBudget, JobIsRecord, Locked, sem_vars, conf_vars
  <1>10. CASE Unlock
    BY <1>10 DEF Unlock, KeepsBudget, JobIsRecord, NoJob, sem_vars, conf_vars
  <1> QED
    BY <1>1, <1>2, <1>3, <1>4, <1>5, <1>6, <1>7, <1>8, <1>9, <1>10

\* The resize is one of the semaphore's own, by the figure the swap left.
LEMMA ResizeSafe ==
    ASSUME BudgetInv, ResizeGlobal
    PROVE  BudgetInv' /\ (GlobalSem!Resize \/ UNCHANGED sem_vars)
  <1>1. /\ job.phase = "resize" /\ job.n = machine_budget - capacity
        /\ machine_budget \in 1..MaxBudget /\ capacity \in 1..MaxBudget
        /\ MaxBudget \in Nat /\ job.n \in Int
    BY SchedulerAssumption DEF ResizeGlobal, BudgetInv
  <1>2. job'.phase = "accounts" /\ JobIsRecord' /\ machine_budget' = machine_budget
    BY DEF ResizeGlobal, Locked, JobIsRecord, conf_vars
  <1>3. CASE job.n > 0
    <2>1. GlobalSem!AddPermits(job.n)
      BY <1>1, <1>3 DEF ResizeGlobal
    <2>2. job.n \in 1..(MaxBudget - 1)
      BY <1>1, <1>3
    <2>3. capacity' = capacity + job.n
      BY <2>1 DEF GlobalSem!AddPermits
    <2>4. GlobalSem!Resize
      BY <2>1, <2>2 DEF GlobalSem!Resize
    <2> QED
      BY <1>1, <1>2, <2>3, <2>4 DEF BudgetInv
  <1>4. CASE job.n < 0
    <2>1. GlobalSem!ForgetPermits(-job.n)
      BY <1>1, <1>4 DEF ResizeGlobal
    <2>2. -job.n \in 1..(MaxBudget - 1)
      BY <1>1, <1>4
    <2>3. capacity' = capacity - (-job.n)
      BY <2>1 DEF GlobalSem!ForgetPermits
    <2>4. GlobalSem!Resize
      BY <2>1, <2>2 DEF GlobalSem!Resize
    <2> QED
      BY <1>1, <1>2, <2>3, <2>4 DEF BudgetInv
  <1>5. CASE job.n = 0
    <2>1. UNCHANGED sem_vars
      BY <1>1, <1>5 DEF ResizeGlobal
    <2> QED
      BY <1>1, <1>2, <1>5, <2>1 DEF BudgetInv, sem_vars
  <1> QED
    BY <1>1, <1>3, <1>4, <1>5

\* The step theorem of the refinement, with the invariant it needs.
LEMMA BudgetStep ==
    ASSUME BudgetInv, [Next]_vars
    PROVE  BudgetInv' /\ [GlobalSem!Next]_sem_vars
  <1>1. ASSUME NEW c \in Calls, CallStep(c)
        PROVE  BudgetInv' /\ [GlobalSem!Next]_sem_vars
    <2>1. GlobalSem!Step(c) \/ UNCHANGED sem_vars
      BY <1>1, CallStepUsesSemaphore
    <2>2. KeepsBudget
      BY <1>1, CallStepUsesSemaphore DEF KeepsBudget, BudgetInv, JobIsRecord
    <2> QED
      BY <2>1, <2>2, KeepsBudgetSafe DEF GlobalSem!Next
  <1>2. CASE SwapBudget
    BY <1>2, SchedulerAssumption
       DEF SwapBudget, BudgetInv, Locked, NoJob, JobIsRecord, sem_vars
  <1>3. CASE ResizeGlobal
    BY <1>3, ResizeSafe DEF GlobalSem!Next
  <1>4. CASE \/ ChangeCaps \/ AddAccount \/ RemoveAccount
             \/ VisitAccount \/ GrowCancelDebt \/ GrowAdd
             \/ ShrinkRead \/ ShrinkForget \/ ShrinkOwe \/ Unlock
    BY <1>4, RestKeepsBudget, KeepsBudgetSafe
  <1>5. CASE UNCHANGED vars
    BY <1>5 DEF vars, sem_vars, conf_vars, BudgetInv, JobIsRecord
  <1> QED
    BY <1>1, <1>2, <1>3, <1>4, <1>5 DEF Next, Mutate, Recompute

\* The invariant holds at the start,
LEMMA InitBudgetInv == Init => BudgetInv
  BY SchedulerAssumption DEF Init, GlobalSem!Init, BudgetInv, JobIsRecord, NoJob

\* and in every state.
LEMMA BudgetInvHolds == Spec => []BudgetInv
  <1>1. BudgetInv /\ [Next]_vars => BudgetInv'
    BY BudgetStep
  <1> QED
    BY <1>1, InitBudgetInv, PTL DEF Spec

\* The budget the algorithm divides is the capacity of the semaphore that
\* enforces it, whenever no resize is under way.
THEOREM BudgetEnforced == Spec => []BudgetIsCapacity
  <1>1. BudgetInv => BudgetIsCapacity
    BY DEF BudgetInv, BudgetIsCapacity
  <1> QED
    BY <1>1, BudgetInvHolds, PTL

\* The scheduler implements the priority semaphore: whatever its requests,
\* cancellations, drops and updates do, the global semaphore only ever makes
\* steps of its own specification.
THEOREM SemaphoreImplemented == Spec => ImplementsSemaphore
  <1>1. Init => GlobalSem!Init
    BY DEF Init
  <1>2. BudgetInv /\ [Next]_vars => [GlobalSem!Next]_GlobalSem!vars
    BY BudgetStep DEF GlobalSem!vars, sem_vars
  <1> QED
    BY <1>1, <1>2, BudgetInvHolds, PTL DEF Spec, GlobalSem!Spec, ImplementsSemaphore

-----------------------------------------------------------------------------
(***************************************************************************)
(* `used`.                                                                 *)
(***************************************************************************)
CountedPC == {"counted", "global", "transfer", "uncount"}

\* Counting needs to know that a request that is under way has the slot it will
\* be subtracted from: fetch_sub goes to the slot fetch_add went to.
UsedInv ==
    /\ pc \in [Calls -> PC]
    /\ slot_of \in [Calls -> Slots \cup {NoSlot}]
    /\ accounts \in [Uids -> Slots \cup {NoSlot}]
    /\ used \in [Slots -> Nat]
    /\ \A c \in Calls : pc[c] \notin {"out", "last"} => slot_of[c] \in Slots
    /\ UsedIsExact

\* Finitely many requests are counted in a slot.
LEMMA CountedFinite ==
    ASSUME NEW s
    PROVE  IsFiniteSet(Counted(s)) /\ Cardinality(Counted(s)) \in Nat
  BY RequestsAssumption, FS_Subset, FS_CardinalityType DEF Counted

\* A step that keeps who is counted and where keeps the count.
LEMMA NobodyCounted ==
    ASSUME UsedInv,
           pc' \in [Calls -> PC],
           slot_of' \in [Calls -> Slots \cup {NoSlot}],
           accounts' \in [Uids -> Slots \cup {NoSlot}],
           used' = used,
           \A d \in Calls :
               /\ pc'[d] \in CountedPC <=> pc[d] \in CountedPC
               /\ pc[d] \in CountedPC => slot_of'[d] = slot_of[d]
               /\ pc'[d] \notin {"out", "last"} => slot_of'[d] \in Slots
    PROVE  UsedInv'
  <1>1. ASSUME NEW s \in Slots
        PROVE  Counted(s)' = Counted(s)
    BY DEF Counted, CountedPC
  <1> QED
    BY <1>1 DEF UsedInv, UsedIsExact

\* What permits that come back to an account do to the requests: `at` places
\* them, and some that wait for this slot enter.
LEMMA GiveAccountMoves ==
    ASSUME NEW s, NEW n, NEW at \in [Calls -> PC], GiveAccount(s, n, at)
    PROVE  /\ pc' \in [Calls -> PC]
           /\ \A d \in Calls : \/ pc'[d] = at[d]
                               \/ pc[d] = "account" /\ pc'[d] = "entered"
  BY DEF GiveAccount, PC

\* A request that neither adds to `used` nor subtracts from it.
LEMMA UncountedStep ==
    ASSUME UsedInv, NEW c \in Calls,
           \/ LookUp(c) \/ EnterAccount(c) \/ CancelAccount(c) \/ RequestGlobal(c)
           \/ ReceiveGlobal(c) \/ CancelGlobal(c) \/ PayDebt(c) \/ ReturnAccount(c)
           \/ ReturnGlobal(c) \/ SpawnedRelease(c)
    PROVE  UsedInv'
  <1> USE DEF PC, CountedPC
  <1>0. /\ pc \in [Calls -> PC] /\ slot_of \in [Calls -> Slots \cup {NoSlot}]
        /\ accounts \in [Uids -> Slots \cup {NoSlot}]
        /\ \A d \in Calls : pc[d] \notin {"out", "last"} => slot_of[d] \in Slots
    BY DEF UsedInv
  <1>1. CASE LookUp(c)
    <2>1. PICK u \in Uids : /\ accounts[u] # NoSlot
                            /\ slot_of' = [slot_of EXCEPT ![c] = accounts[u]]
      BY <1>1 DEF LookUp
    <2>2. /\ pc[c] = "out" /\ pc' = [pc EXCEPT ![c] = "looked"]
          /\ UNCHANGED <<used, accounts>>
      BY <1>1 DEF LookUp, Goto, slot_vars, conf_vars
    <2>3. accounts[u] \in Slots
      BY <1>0, <2>1
    <2> QED
      BY <1>0, <2>1, <2>2, <2>3, NobodyCounted
  <1>2. CASE EnterAccount(c)
    <2>1. /\ pc[c] = "looked" /\ UNCHANGED <<slot_of, accounts, used>>
          /\ pc' = [pc EXCEPT ![c] = "entered"] \/ pc' = [pc EXCEPT ![c] = "account"]
      BY <1>2 DEF EnterAccount, Goto, conf_vars
    <2> QED
      BY <1>0, <2>1, NobodyCounted
  <1>3. CASE CancelAccount(c)
    <2>1. /\ slot_of' = [slot_of EXCEPT ![c] = NoSlot]
          /\ UNCHANGED <<accounts, used>> /\ pc[c] \in {"account", "entered"}
      BY <1>3 DEF CancelAccount, conf_vars
    <2>2. CASE pc' = [pc EXCEPT ![c] = "out"]
      BY <1>0, <2>1, <2>2, NobodyCounted
    <2>3. CASE pc[c] = "entered" /\ GiveAccount(slot_of[c], 1, [pc EXCEPT ![c] = "out"])
      <3> DEFINE at == [pc EXCEPT ![c] = "out"]
      <3>1. at \in [Calls -> PC] /\ GiveAccount(slot_of[c], 1, at)
        BY <1>0, <2>3
      <3> HIDE DEF at
      <3>2. /\ pc' \in [Calls -> PC]
            /\ \A d \in Calls : \/ pc'[d] = at[d]
                                \/ pc[d] = "account" /\ pc'[d] = "entered"
        BY <3>1, GiveAccountMoves, Zenon
      <3> QED
        BY <1>0, <2>1, <2>3, <3>2, NobodyCounted DEF at
    <2> QED
      BY <1>3, <2>2, <2>3 DEF CancelAccount, Goto
  <1>4. CASE RequestGlobal(c)
    <2>1. /\ pc[c] = "counted" /\ UNCHANGED <<slot_of, accounts, used>>
          /\ pc' = [pc EXCEPT ![c] = "transfer"] \/ pc' = [pc EXCEPT ![c] = "global"]
      BY <1>4 DEF RequestGlobal, Goto, slot_vars, conf_vars
    <2> QED
      BY <1>0, <2>1, NobodyCounted
  <1>5. CASE ReceiveGlobal(c) \/ CancelGlobal(c) \/ PayDebt(c)
    <2>1. /\ pc[c] \in {"global", "transfer"} /\ UNCHANGED <<slot_of, accounts, used>>
          /\ pc' = [pc EXCEPT ![c] = "transfer"] \/ pc' = [pc EXCEPT ![c] = "uncount"]
      BY <1>5 DEF ReceiveGlobal, CancelGlobal, PayDebt, Goto, slot_vars, conf_vars
    <2> QED
      BY <1>0, <2>1, NobodyCounted
  <1>6. CASE ReturnAccount(c)
    <2>1. PICK then \in {"last", "out"} :
            \/ GiveAccount(slot_of[c], 1, [pc EXCEPT ![c] = then])
            \/ pc' = [pc EXCEPT ![c] = then]
      BY <1>6 DEF ReturnAccount, Goto
    <2>2. /\ slot_of' = [slot_of EXCEPT ![c] = NoSlot]
          /\ UNCHANGED <<accounts, used>> /\ pc[c] = "giveback"
      BY <1>6 DEF ReturnAccount, conf_vars
    <2> DEFINE at == [pc EXCEPT ![c] = then]
    <2>3. at \in [Calls -> PC] /\ (GiveAccount(slot_of[c], 1, at) \/ pc' = at)
      BY <1>0, <2>1
    <2> HIDE DEF at
    <2>4. /\ pc' \in [Calls -> PC]
          /\ \A d \in Calls : \/ pc'[d] = at[d]
                              \/ pc[d] = "account" /\ pc'[d] = "entered"
      <3>1. CASE GiveAccount(slot_of[c], 1, at)
        BY <2>3, <3>1, GiveAccountMoves, Zenon
      <3>2. CASE pc' = at
        BY <2>3, <3>2
      <3> QED
        BY <2>3, <3>1, <3>2
    <2> QED
      BY <1>0, <2>2, <2>4, NobodyCounted DEF at
  <1>7. CASE ReturnGlobal(c)
    <2>1. /\ pc[c] = "last" /\ UNCHANGED <<slot_of, accounts, used>>
          /\ pc' = [pc EXCEPT ![c] = "out"]
      BY <1>7 DEF ReturnGlobal, Goto, slot_vars, conf_vars
    <2> QED
      BY <1>0, <2>1, NobodyCounted
  <1>8. CASE SpawnedRelease(c)
    <2>1. UNCHANGED <<pc, slot_of, accounts, used>>
      BY <1>8 DEF SpawnedRelease, slot_vars, call_vars, conf_vars
    <2> QED
      BY <1>0, <2>1, NobodyCounted
  <1> QED
    BY <1>1, <1>2, <1>3, <1>4, <1>5, <1>6, <1>7, <1>8

\* fetch_add and fetch_sub: one request joins or leaves the count of its slot.
LEMMA CountingStep ==
    ASSUME UsedInv, NEW c \in Calls, CountUsed(c) \/ Uncount(c)
    PROVE  UsedInv'
  <1> USE DEF PC, CountedPC
  <1>1. /\ pc \in [Calls -> PC] /\ slot_of' = slot_of /\ accounts' = accounts
        /\ slot_of \in [Calls -> Slots \cup {NoSlot}]
        /\ used \in [Slots -> Nat]
        /\ \A s \in Slots : used[s] = Cardinality(Counted(s))
        /\ \A d \in Calls : pc[d] \notin {"out", "last"} => slot_of[d] \in Slots
    BY DEF UsedInv, UsedIsExact, CountUsed, Uncount, conf_vars
  <1>2. PICK t \in Slots : t = slot_of[c]
    BY <1>1 DEF CountUsed, Uncount
  <1>3. CASE CountUsed(c)
    <2>1. /\ pc[c] = "entered" /\ pc' = [pc EXCEPT ![c] = "counted"]
          /\ used' = [used EXCEPT ![t] = @ + 1]
      BY <1>2, <1>3 DEF CountUsed, Goto
    <2>2. Counted(t)' = Counted(t) \cup {c} /\ c \notin Counted(t)
      BY <1>1, <1>2, <2>1 DEF Counted
    <2>3. \A s \in Slots \ {t} : Counted(s)' = Counted(s)
      BY <1>1, <1>2, <2>1 DEF Counted
    <2>4. Cardinality(Counted(t)') = Cardinality(Counted(t)) + 1
      BY <2>2, CountedFinite, FS_AddElement
    <2>5. UsedIsExact' /\ used' \in [Slots -> Nat]
      BY <1>1, <2>1, <2>3, <2>4 DEF UsedIsExact
    <2> QED
      BY <1>1, <2>1, <2>5 DEF UsedInv
  <1>4. CASE Uncount(c)
    <2>1. /\ pc[c] = "uncount" /\ pc' = [pc EXCEPT ![c] = "giveback"]
          /\ used' = [used EXCEPT ![t] = @ - 1]
      BY <1>2, <1>4 DEF Uncount, Goto
    <2>2. Counted(t)' = Counted(t) \ {c} /\ c \in Counted(t)
      BY <1>1, <1>2, <2>1 DEF Counted
    <2>3. \A s \in Slots \ {t} : Counted(s)' = Counted(s)
      BY <1>1, <1>2, <2>1 DEF Counted
    <2>4. /\ Cardinality(Counted(t)') = Cardinality(Counted(t)) - 1
          /\ Cardinality(Counted(t)') \in Nat
      BY <2>2, CountedFinite, FS_RemoveElement, FS_CardinalityType
    <2>5. UsedIsExact' /\ used' \in [Slots -> Nat]
      BY <1>1, <2>1, <2>3, <2>4 DEF UsedIsExact
    <2> QED
      BY <1>1, <2>1, <2>5 DEF UsedInv
  <1> QED
    BY <1>3, <1>4

\* A new account gets a slot nobody was ever counted in or nobody is any more.
LEMMA AddAccountCounts ==
    ASSUME UsedInv, AddAccount
    PROVE  UsedInv'
  <1>1. PICK u \in Uids, s \in Slots :
            /\ \A c \in Calls : slot_of[c] # s
            /\ accounts' = [accounts EXCEPT ![u] = s]
            /\ used' = [used EXCEPT ![s] = 0]
    BY DEF AddAccount
  <1>2. UNCHANGED <<pc, slot_of>>
    BY DEF AddAccount, call_vars
  <1>3. \A t \in Slots : Counted(t)' = Counted(t)
    BY <1>2 DEF Counted
  <1>4. Counted(s) = {}
    BY <1>1 DEF Counted
  <1>5. Cardinality(Counted(s)) = 0
    BY <1>4, FS_EmptySet
  <1>6. UsedIsExact' /\ used' \in [Slots -> Nat]
    BY <1>1, <1>3, <1>5 DEF UsedInv, UsedIsExact
  <1> QED
    BY <1>1, <1>2, <1>6 DEF UsedInv

\* The other mutators and the recompute leave `used` alone; a growth lets
\* waiting requests enter.
LEMMA RecomputeCounts ==
    ASSUME UsedInv,
           \/ ChangeCaps \/ RemoveAccount \/ SwapBudget \/ Recompute \/ UNCHANGED vars
    PROVE  UsedInv'
  <1> USE DEF PC, CountedPC
  <1>1. CASE GrowAdd
    <2>1. GiveAccount(job.slot, job.n, pc) /\ UNCHANGED <<slot_of, accounts, used>>
      BY <1>1 DEF GrowAdd, conf_vars
    <2>2. /\ pc' \in [Calls -> PC]
          /\ \A d \in Calls : pc'[d] = pc[d] \/ (pc[d] = "account" /\ pc'[d] = "entered")
      BY <2>1, GiveAccountMoves DEF UsedInv
    <2> QED
      BY <2>1, <2>2, NobodyCounted DEF UsedInv
  <1>2. CASE RemoveAccount
    <2>1. /\ UNCHANGED <<pc, slot_of, used>>
          /\ \E u \in Uids : accounts' = [accounts EXCEPT ![u] = NoSlot]
      BY <1>2 DEF RemoveAccount, call_vars, slot_vars
    <2> QED
      BY <2>1, NobodyCounted DEF UsedInv
  <1>3. CASE UNCHANGED <<pc, slot_of, accounts, used>>
    BY <1>3, NobodyCounted DEF UsedInv
  <1>4. ASSUME \/ ChangeCaps \/ SwapBudget \/ ResizeGlobal \/ VisitAccount
               \/ GrowCancelDebt \/ ShrinkRead \/ ShrinkForget \/ ShrinkOwe \/ Unlock
               \/ UNCHANGED vars
        PROVE  UNCHANGED <<pc, slot_of, accounts, used>>
    BY <1>4 DEF ChangeCaps, SwapBudget, ResizeGlobal, VisitAccount, GrowCancelDebt,
                ShrinkRead, ShrinkForget, ShrinkOwe, Unlock, vars, slot_vars,
                call_vars, conf_vars
  <1> QED
    BY <1>1, <1>2, <1>3, <1>4 DEF Recompute

\* Every step keeps the count exact.
LEMMA UsedStep ==
    ASSUME UsedInv, [Next]_vars
    PROVE  UsedInv'
  <1>1. ASSUME NEW c \in Calls, CallStep(c)
        PROVE  UsedInv'
    BY <1>1, UncountedStep, CountingStep DEF CallStep, Progress, Drop
  <1> QED
    BY <1>1, AddAccountCounts, RecomputeCounts DEF Next, Mutate

\* At the start nobody is counted.
LEMMA InitUsedInv == Init => UsedInv
  <1> SUFFICES ASSUME Init PROVE UsedInv
    OBVIOUS
  <1>1. \A s \in Slots : Counted(s) = {}
    BY DEF Init, Counted
  <1>2. \A s \in Slots : Cardinality(Counted(s)) = 0
    BY <1>1, FS_EmptySet
  <1> QED
    BY <1>2 DEF Init, UsedInv, UsedIsExact, PC

\* `used` is exactly the number of requests between their fetch_add and their
\* fetch_sub, for any number of accounts, requests and threads, whatever is
\* cancelled: it neither leaks nor underflows.
THEOREM UsedExact == Spec => []UsedIsExact
  <1>1. UsedInv => UsedIsExact
    BY DEF UsedInv
  <1>2. UsedInv /\ [Next]_vars => UsedInv'
    BY UsedStep
  <1> QED
    BY <1>1, <1>2, InitUsedInv, PTL DEF Spec

-----------------------------------------------------------------------------
(***************************************************************************)
(* The first `base` requests of an account, and only they, go P0.          *)
(***************************************************************************)
\* The counted requests of s whose seat is k at most: one that has its place in
\* `used` and has not read base yet sits there, one that goes P0 sits below the
\* largest base, one that goes P1 has no seat.
Early(s, k) ==
    {c \in Counted(s) : IF pc[c] = "counted"
                        THEN prev[c] <= k
                        ELSE priority[c] = "P0" /\ max_base[s] <= k + 1}

\* No more requests sit in the seats 0..k than there are such seats, although
\* base grows and shrinks, and seats are vacated, between fetch_add and the read.
SeatInv ==
    /\ prev \in [Calls -> Nat]
    /\ priority \in [Calls -> {"P0", "P1"}]
    /\ base \in [Slots -> Nat]
    /\ max_base \in [Slots -> Nat \ {0}]
    /\ \A s \in Slots : base[s] <= max_base[s]
    /\ \A s \in Slots, k \in Nat : Cardinality(Early(s, k)) <= k + 1

\* The types of SeatInv and the ranges of base.
SeatTypes ==
    /\ prev \in [Calls -> Nat]
    /\ priority \in [Calls -> {"P0", "P1"}]
    /\ base \in [Slots -> Nat]
    /\ max_base \in [Slots -> Nat \ {0}]
    /\ \A s \in Slots : base[s] <= max_base[s]

\* Finitely many requests have a seat.
LEMMA EarlyFinite ==
    ASSUME NEW s, NEW k
    PROVE  IsFiniteSet(Early(s, k)) /\ Cardinality(Early(s, k)) \in Nat
  BY RequestsAssumption, FS_Subset, FS_CardinalityType DEF Early, Counted

\* In a step that seats nobody anew, the seats still suffice.
LEMMA NobodySeated ==
    ASSUME SeatInv, SeatTypes',
           \A s \in Slots, k \in Nat : Early(s, k)' \subseteq Early(s, k)
    PROVE  SeatInv'
  <1>1. ASSUME NEW s \in Slots, NEW k \in Nat
        PROVE  Cardinality(Early(s, k)') <= k + 1
    <2>1. Early(s, k)' \subseteq Early(s, k)
      OBVIOUS
    <2>2. Cardinality(Early(s, k)') <= Cardinality(Early(s, k))
      BY <2>1, EarlyFinite, FS_Subset
    <2>3. IsFiniteSet(Early(s, k)')
      BY <2>1, EarlyFinite, FS_Subset
    <2>4. Cardinality(Early(s, k)') \in Nat
      BY <2>3, FS_CardinalityType
    <2> QED
      BY <2>2, <2>4, EarlyFinite DEF SeatInv
  <1> QED
    BY <1>1 DEF SeatInv, SeatTypes

\* What a request may do without taking a seat: stay as it is, stop being
\* counted, or decide: for P1, or for P0 from a place below the base.
KeepsSeat(d) ==
    \/ pc'[d] \notin CountedPC
    \/ /\ pc[d] \in CountedPC /\ pc'[d] \in CountedPC
       /\ slot_of'[d] = slot_of[d]
       /\ \/ pc[d] = "counted" /\ pc'[d] = "counted" /\ prev'[d] = prev[d]
          \/ /\ pc[d] = "counted" /\ pc'[d] # "counted"
             /\ priority'[d] = "P0" => prev[d] < base[slot_of[d]]
          \/ pc[d] # "counted" /\ pc'[d] # "counted" /\ priority'[d] = priority[d]

\* Such steps of all requests, while the largest bases only grow, seat nobody.
LEMMA SeatsKept ==
    ASSUME SeatInv, SeatTypes',
           \A d \in Calls : KeepsSeat(d),
           \A s \in Slots : max_base[s] <= max_base'[s]
    PROVE  SeatInv'
  <1>1. ASSUME NEW s \in Slots, NEW k \in Nat, NEW d \in Early(s, k)'
        PROVE  d \in Early(s, k)
    <2>1. /\ d \in Calls /\ slot_of'[d] = s /\ pc'[d] \in CountedPC
          /\ IF pc'[d] = "counted" THEN prev'[d] <= k
             ELSE priority'[d] = "P0" /\ max_base'[s] <= k + 1
      BY <1>1 DEF Early, Counted, CountedPC
    <2>2. KeepsSeat(d) /\ max_base[s] <= max_base'[s] /\ base[s] <= max_base[s]
      BY <2>1 DEF SeatInv
    <2>3. /\ prev[d] \in Nat /\ base[s] \in Nat
          /\ max_base[s] \in Nat /\ max_base'[s] \in Nat
      BY <2>1 DEF SeatInv, SeatTypes
    <2>4. slot_of[d] = s /\ pc[d] \in CountedPC
      BY <2>1, <2>2 DEF KeepsSeat
    <2>5. IF pc[d] = "counted" THEN prev[d] <= k
          ELSE priority[d] = "P0" /\ max_base[s] <= k + 1
      BY <2>1, <2>2, <2>3, <2>4 DEF KeepsSeat
    <2> QED
      BY <2>1, <2>4, <2>5 DEF Early, Counted, CountedPC
  <1> QED
    BY <1>1, NobodySeated

\* A request whose own step leaves bases and places alone: who is counted keeps
\* what it has.
LEMMA StillSeated ==
    ASSUME SeatInv,
           UNCHANGED <<prev, base, max_base>>,
           priority' \in [Calls -> {"P0", "P1"}],
           \A d \in Calls :
               \/ pc'[d] \notin CountedPC
               \/ /\ pc[d] = "counted" <=> pc'[d] = "counted"
                  /\ pc[d] \in CountedPC /\ slot_of'[d] = slot_of[d]
                  /\ priority'[d] = priority[d]
    PROVE  SeatInv'
  <1>1. SeatTypes'
    BY DEF SeatInv, SeatTypes
  <1>2. \A d \in Calls : KeepsSeat(d)
    BY DEF KeepsSeat
  <1>3. \A s \in Slots : max_base[s] <= max_base'[s]
    BY DEF SeatInv
  <1> QED
    BY <1>1, <1>2, <1>3, SeatsKept

\* The requests' steps other than fetch_add and the decision.
LEMMA OtherSeats ==
    ASSUME UsedInv, SeatInv, NEW c \in Calls,
           \/ LookUp(c) \/ EnterAccount(c) \/ CancelAccount(c) \/ ReceiveGlobal(c)
           \/ CancelGlobal(c) \/ PayDebt(c) \/ Uncount(c) \/ ReturnAccount(c)
           \/ ReturnGlobal(c) \/ SpawnedRelease(c)
    PROVE  SeatInv'
  <1> USE DEF CountedPC
  <1>0. pc \in [Calls -> PC] /\ slot_of \in [Calls -> Slots \cup {NoSlot}]
        /\ priority \in [Calls -> {"P0", "P1"}]
    BY DEF UsedInv, SeatInv
  <1>1. CASE LookUp(c)
    <2>1. /\ pc' = [pc EXCEPT ![c] = "looked"] /\ UNCHANGED <<prev, base, max_base, priority>>
          /\ \E s : slot_of' = [slot_of EXCEPT ![c] = s]
      BY <1>1 DEF LookUp, Goto, slot_vars
    <2> QED
      BY <1>0, <2>1, StillSeated
  <1>2. CASE EnterAccount(c)
    <2>1. /\ UNCHANGED <<slot_of, prev, base, max_base, priority>>
          /\ pc' = [pc EXCEPT ![c] = "entered"] \/ pc' = [pc EXCEPT ![c] = "account"]
      BY <1>2 DEF EnterAccount, Goto
    <2> QED
      BY <1>0, <2>1, StillSeated
  <1>3. CASE CancelAccount(c) \/ ReturnAccount(c)
    <2>1. PICK then \in {"last", "out"} :
            \/ GiveAccount(slot_of[c], 1, [pc EXCEPT ![c] = then])
            \/ pc' = [pc EXCEPT ![c] = then]
      BY <1>3 DEF CancelAccount, ReturnAccount, Goto
    <2>2. /\ slot_of' = [slot_of EXCEPT ![c] = NoSlot]
          /\ UNCHANGED <<prev, base, max_base, priority>>
      BY <1>3 DEF CancelAccount, ReturnAccount
    <2> DEFINE at == [pc EXCEPT ![c] = then]
    <2>3. at \in [Calls -> PC] /\ (GiveAccount(slot_of[c], 1, at) \/ pc' = at)
      BY <1>0, <2>1 DEF PC
    <2> HIDE DEF at
    <2>4. \A d \in Calls : \/ pc'[d] = at[d]
                           \/ pc[d] = "account" /\ pc'[d] = "entered"
      <3>1. CASE GiveAccount(slot_of[c], 1, at)
        BY <2>3, <3>1, GiveAccountMoves, Zenon
      <3>2. CASE pc' = at
        BY <2>3, <3>2
      <3> QED
        BY <2>3, <3>1, <3>2
    <2>5. \A d \in Calls : pc'[d] \notin CountedPC \/ (d # c /\ pc'[d] = pc[d])
      BY <1>0, <2>4 DEF at
    <2> QED
      BY <1>0, <2>2, <2>5, StillSeated
  <1>4. CASE ReceiveGlobal(c) \/ CancelGlobal(c) \/ PayDebt(c)
    <2>1. /\ pc[c] \in {"global", "transfer"}
          /\ UNCHANGED <<slot_of, prev, base, max_base, priority>>
          /\ pc' = [pc EXCEPT ![c] = "transfer"] \/ pc' = [pc EXCEPT ![c] = "uncount"]
      BY <1>4 DEF ReceiveGlobal, CancelGlobal, PayDebt, Goto, slot_vars
    <2> QED
      BY <1>0, <2>1, StillSeated
  <1>5. CASE Uncount(c)
    <2>1. /\ pc' = [pc EXCEPT ![c] = "giveback"]
          /\ priority' = [priority EXCEPT ![c] = "P0"]
          /\ UNCHANGED <<slot_of, prev, base, max_base>>
      BY <1>5 DEF Uncount, Goto
    <2> QED
      BY <1>0, <2>1, StillSeated
  <1>6. CASE ReturnGlobal(c)
    <2>1. /\ pc' = [pc EXCEPT ![c] = "out"]
          /\ UNCHANGED <<slot_of, prev, base, max_base, priority>>
      BY <1>6 DEF ReturnGlobal, Goto, slot_vars
    <2> QED
      BY <1>0, <2>1, StillSeated
  <1>7. CASE SpawnedRelease(c)
    <2>1. UNCHANGED <<pc, slot_of, prev, base, max_base, priority>>
      BY <1>7 DEF SpawnedRelease, slot_vars, call_vars
    <2> QED
      BY <1>0, <2>1, StillSeated
  <1> QED
    BY <1>1, <1>2, <1>3, <1>4, <1>5, <1>6, <1>7

\* The decision: P0 only from a place below the base that is read.
LEMMA DecisionSeats ==
    ASSUME UsedInv, SeatInv, NEW c \in Calls, RequestGlobal(c)
    PROVE  SeatInv'
  <1>0. pc \in [Calls -> PC]
        /\ prev \in [Calls -> Nat] /\ priority \in [Calls -> {"P0", "P1"}]
    BY DEF UsedInv, SeatInv
  <1>1. PICK p \in {"P0", "P1"} :
            /\ priority' = [priority EXCEPT ![c] = p]
            /\ p = "P0" => prev[c] < base[slot_of[c]]
    BY DEF RequestGlobal
  <1>2. /\ pc[c] = "counted" /\ UNCHANGED <<slot_of, base, max_base>>
        /\ prev' = [prev EXCEPT ![c] = 0]
        /\ pc' = [pc EXCEPT ![c] = "transfer"] \/ pc' = [pc EXCEPT ![c] = "global"]
    BY DEF RequestGlobal, Goto, slot_vars
  <1>3. SeatTypes'
    BY <1>0, <1>1, <1>2 DEF SeatInv, SeatTypes
  <1>4. \A d \in Calls : KeepsSeat(d)
    BY <1>0, <1>1, <1>2 DEF KeepsSeat, CountedPC
  <1>5. \A s \in Slots : max_base[s] <= max_base'[s]
    BY <1>2 DEF SeatInv
  <1> QED
    BY <1>3, <1>4, <1>5, SeatsKept

\* fetch_add: the newcomer sits at the number of those counted.  Up to there
\* everybody counted has room, below it nothing changes.
LEMMA NewcomerSeats ==
    ASSUME UsedInv, SeatInv, NEW c \in Calls, CountUsed(c)
    PROVE  SeatInv'
  <1>1. /\ pc \in [Calls -> PC] /\ used \in [Slots -> Nat]
        /\ prev \in [Calls -> Nat] /\ slot_of[c] \in Slots
        /\ \A s \in Slots : used[s] = Cardinality(Counted(s))
    BY DEF UsedInv, UsedIsExact, SeatInv, CountUsed, PC
  <1>2. PICK t \in Slots : t = slot_of[c]
    BY <1>1
  <1>3. /\ pc[c] = "entered" /\ pc' = [pc EXCEPT ![c] = "counted"]
        /\ prev' = [prev EXCEPT ![c] = used[t]]
        /\ UNCHANGED <<slot_of, base, max_base, priority>>
    BY <1>2 DEF CountUsed, Goto
  <1>4. SeatTypes'
    BY <1>1, <1>3 DEF SeatInv, SeatTypes
  <1>5. ASSUME NEW s \in Slots, NEW k \in Nat
        PROVE  Early(s, k)' \subseteq Early(s, k) \cup {c}
    BY <1>1, <1>3 DEF Early, Counted
  <1>6. ASSUME NEW s \in Slots, NEW k \in Nat, s # t \/ k < used[t]
        PROVE  Early(s, k)' \subseteq Early(s, k)
    <2>1. c \notin Early(s, k)'
      BY <1>1, <1>2, <1>3, <1>6 DEF Early, Counted
    <2> QED
      BY <1>5, <2>1
  <1>7. ASSUME NEW s \in Slots, NEW k \in Nat
        PROVE  Cardinality(Early(s, k)') <= k + 1
    <2>1. Cardinality(Early(s, k)) <= k + 1
      BY DEF SeatInv
    <2>2. CASE s # t \/ k < used[t]
      <3>1. Early(s, k)' \subseteq Early(s, k)
        BY <1>6, <2>2
      <3>2. /\ Cardinality(Early(s, k)') <= Cardinality(Early(s, k))
            /\ IsFiniteSet(Early(s, k)')
        BY <3>1, EarlyFinite, FS_Subset
      <3>3. Cardinality(Early(s, k)') \in Nat
        BY <3>2, FS_CardinalityType
      <3> QED
        BY <2>1, <3>2, <3>3, EarlyFinite
    <2>3. CASE s = t /\ used[t] <= k
      <3> DEFINE everybody == Counted(t) \cup {c}
      <3>1. c \notin Counted(t)
        BY <1>3 DEF Counted
      <3>2. IsFiniteSet(everybody) /\ Cardinality(everybody) = used[t] + 1
        BY <1>1, <3>1, CountedFinite, FS_AddElement
      <3>3. Early(s, k)' \subseteq everybody
        BY <1>5, <2>3 DEF Early
      <3> HIDE DEF everybody
      <3>4. /\ Cardinality(Early(s, k)') <= Cardinality(everybody)
            /\ IsFiniteSet(Early(s, k)')
        BY <3>2, <3>3, FS_Subset
      <3>5. Cardinality(Early(s, k)') \in Nat /\ used[t] \in Nat
        BY <1>1, <3>4, FS_CardinalityType
      <3> QED
        BY <2>3, <3>2, <3>4, <3>5
    <2> QED
      BY <1>1, <2>2, <2>3
  <1> QED
    BY <1>4, <1>7 DEF SeatInv, SeatTypes

\* A new account has a new slot, in which nobody sits.
LEMMA AddAccountSeats ==
    ASSUME UsedInv, SeatInv, AddAccount
    PROVE  SeatInv'
  <1>1. PICK u \in Uids, s \in Slots :
            /\ \A c \in Calls : slot_of[c] # s
            /\ base' = [base EXCEPT ![s] = 1]
            /\ max_base' = [max_base EXCEPT ![s] = 1]
    BY DEF AddAccount
  <1>2. UNCHANGED <<pc, slot_of, prev, priority>>
    BY DEF AddAccount, call_vars
  <1>3. SeatTypes'
    BY <1>1, <1>2 DEF SeatInv, SeatTypes
  <1>4. ASSUME NEW t \in Slots, NEW k \in Nat PROVE Early(t, k)' \subseteq Early(t, k)
    <2>1. CASE t = s
      BY <1>1, <1>2, <2>1 DEF Early, Counted
    <2>2. CASE t # s
      <3>1. max_base'[t] = max_base[t]
        BY <1>1, <2>2 DEF SeatInv
      <3> QED
        BY <1>2, <3>1 DEF Early, Counted
    <2> QED
      BY <2>1, <2>2
  <1> QED
    BY <1>3, <1>4, NobodySeated

\* A recompute that reaches an account stores any base, the largest is kept.
LEMMA VisitSeats ==
    ASSUME UsedInv, SeatInv, VisitAccount
    PROVE  SeatInv'
  <1>1. PICK s \in job.todo, b \in 1..MaxCap :
            /\ base' = [base EXCEPT ![s] = b]
            /\ max_base' = [max_base EXCEPT ![s] = IF b > @ THEN b ELSE @]
    BY DEF VisitAccount
  <1>2. UNCHANGED <<pc, slot_of, prev, priority>>
    BY DEF VisitAccount, call_vars
  <1>3. b \in Nat \ {0}
    BY SchedulerAssumption
  <1>4. SeatTypes' /\ \A t \in Slots : max_base[t] <= max_base'[t]
    <2>1. /\ base \in [Slots -> Nat] /\ max_base \in [Slots -> Nat \ {0}]
          /\ \A t \in Slots : base[t] <= max_base[t]
      BY DEF SeatInv
    <2>2. /\ base' \in [Slots -> Nat] /\ max_base' \in [Slots -> Nat \ {0}]
          /\ \A t \in Slots : t # s => base'[t] = base[t] /\ max_base'[t] = max_base[t]
      BY <1>1, <1>3, <2>1
    <2>3. s \in Slots => /\ base'[s] = b
                         /\ max_base'[s] = IF b > max_base[s] THEN b ELSE max_base[s]
      BY <1>1, <2>1
    <2>4. \A t \in Slots : base'[t] <= max_base'[t] /\ max_base[t] <= max_base'[t]
      BY <1>3, <2>1, <2>2, <2>3
    <2> QED
      BY <1>2, <2>2, <2>4 DEF SeatInv, SeatTypes
  <1>5. \A d \in Calls : KeepsSeat(d)
    BY <1>2 DEF KeepsSeat, UsedInv, PC, CountedPC
  <1> QED
    BY <1>4, <1>5, SeatsKept

\* What touches neither requests nor bases, and a growth, which lets waiting
\* requests enter.
LEMMA RecomputeSeats ==
    ASSUME UsedInv, SeatInv,
           \/ ChangeCaps \/ RemoveAccount \/ SwapBudget \/ Recompute \/ UNCHANGED vars
    PROVE  SeatInv'
  <1>1. CASE GrowAdd
    <2>1. /\ GiveAccount(job.slot, job.n, pc)
          /\ UNCHANGED <<slot_of, prev, base, max_base, priority>>
      BY <1>1 DEF GrowAdd
    <2>2. \A d \in Calls : pc'[d] = pc[d] \/ (pc[d] = "account" /\ pc'[d] = "entered")
      BY <2>1, GiveAccountMoves DEF UsedInv
    <2> QED
      BY <2>1, <2>2, StillSeated DEF SeatInv, CountedPC
  <1>2. CASE VisitAccount
    BY <1>2, VisitSeats
  <1>3. CASE UNCHANGED <<pc, slot_of, prev, base, max_base, priority>>
    BY <1>3, StillSeated DEF SeatInv
  <1>4. ASSUME \/ ChangeCaps \/ RemoveAccount \/ SwapBudget \/ ResizeGlobal
               \/ GrowCancelDebt \/ ShrinkRead \/ ShrinkForget \/ ShrinkOwe \/ Unlock
               \/ UNCHANGED vars
        PROVE  UNCHANGED <<pc, slot_of, prev, base, max_base, priority>>
    BY <1>4 DEF ChangeCaps, RemoveAccount, SwapBudget, ResizeGlobal, GrowCancelDebt,
                ShrinkRead, ShrinkForget, ShrinkOwe, Unlock, vars, slot_vars,
                call_vars, conf_vars
  <1> QED
    BY <1>1, <1>2, <1>3, <1>4 DEF Recompute

\* Every step keeps the seats.
LEMMA SeatStep ==
    ASSUME UsedInv, SeatInv, [Next]_vars
    PROVE  SeatInv'
  <1>1. ASSUME NEW c \in Calls, CallStep(c)
        PROVE  SeatInv'
    BY <1>1, OtherSeats, DecisionSeats, NewcomerSeats DEF CallStep, Progress, Drop
  <1> QED
    BY <1>1, AddAccountSeats, RecomputeSeats DEF Next, Mutate

\* At the start nobody has a seat.
LEMMA InitSeatInv == Init => SeatInv
  <1> SUFFICES ASSUME Init PROVE SeatInv
    OBVIOUS
  <1>1. ASSUME NEW s \in Slots, NEW k \in Nat PROVE Cardinality(Early(s, k)) <= k + 1
    <2>1. Early(s, k) = {}
      BY DEF Init, Early, Counted
    <2> QED
      BY <2>1, FS_EmptySet
  <1> QED
    BY <1>1 DEF Init, SeatInv

\* Those that went P0 sit below the largest base, so there are no more of them.
LEMMA SeatsBoundP0 ==
    ASSUME SeatInv
    PROVE  P0WithinBase
  <1> SUFFICES ASSUME NEW s \in Slots
               PROVE  Cardinality({c \in Counted(s) :
                          pc[c] \in {"global", "transfer", "uncount"}
                             /\ priority[c] = "P0"}) <= max_base[s]
    BY DEF P0WithinBase
  <1> DEFINE first == {c \in Counted(s) : pc[c] \in {"global", "transfer", "uncount"}
                                             /\ priority[c] = "P0"}
             k == max_base[s] - 1
  <1>1. max_base[s] \in Nat \ {0}
    BY DEF SeatInv
  <1>2. k \in Nat /\ max_base[s] = k + 1
    BY <1>1
  <1>3. first \subseteq Early(s, k)
    BY <1>2 DEF Early
  <1>4. Cardinality(Early(s, k)) <= k + 1
    BY <1>2 DEF SeatInv
  <1> HIDE DEF first, k
  <1>5. Cardinality(first) <= Cardinality(Early(s, k)) /\ IsFiniteSet(first)
    BY <1>3, EarlyFinite, FS_Subset
  <1>6. Cardinality(first) \in Nat
    BY <1>5, FS_CardinalityType
  <1>7. Cardinality(first) <= max_base[s]
    BY <1>2, <1>4, <1>5, <1>6, EarlyFinite
  <1> QED
    BY <1>7 DEF first

\* Only the first `base` requests of an account go P0, also when base is changed
\* between the fetch_add of a request and its read of base, and whatever is
\* cancelled or dropped meanwhile: never more than the largest base of the slot.
THEOREM P0Bounded == Spec => []P0WithinBase
  <1>1. UsedInv /\ SeatInv /\ [Next]_vars => (UsedInv /\ SeatInv)'
    BY UsedStep, SeatStep
  <1> QED
    BY <1>1, InitUsedInv, InitSeatInv, SeatsBoundP0, PTL DEF Spec

-----------------------------------------------------------------------------
(***************************************************************************)
(* The account semaphores: no sequence of requests, cancellations, drops   *)
(* and cap changes loses a permit of an account, although a shrink reads,  *)
(* forgets and owes in separate steps.                                     *)
(***************************************************************************)

OnSlot == {"grow", "add", "shrink", "forget", "owe"}

\* What the permits of s have to cover.  While the lock holder works on s the
\* cap is the old one until the last step, and the figure it carries is what
\* the remaining steps will add, or enter as debt.
Owed(s) ==
    IF job.slot # s \/ job.phase \notin {"add", "owe"}
    THEN effective_cap[s] + shrink_debt[s]
    ELSE IF job.phase = "add"
    THEN NewCap(s) + shrink_debt[s] - job.n
    ELSE NewCap(s) + shrink_debt[s] + job.n

\* The figure the lock holder carries from step to step.
Figure ==
    /\ job.phase = "grow"   => job.n = NewCap(job.slot) - effective_cap[job.slot]
    /\ job.phase = "shrink" => job.n = effective_cap[job.slot] - NewCap(job.slot)
    /\ job.phase = "forget" => job.n <= effective_cap[job.slot] - NewCap(job.slot)

JobInv ==
    /\ JobIsRecord
    /\ job.todo \subseteq Registered
    /\ job.phase \in {"free", "resize", "accounts"} \cup OnSlot
    /\ job.phase \in {"free", "resize", "accounts"} => job.slot = NoSlot
    /\ job.phase \in OnSlot => job.slot \in Registered /\ job.n \in Nat
    /\ Figure

AccountTypes ==
    /\ acc_available \in [Slots -> Nat]
    /\ effective_cap \in [Slots -> Int]
    /\ shrink_debt \in [Slots -> Nat]
    /\ vip_cap \in [Uids -> Int]
    /\ keep \in [Calls -> BOOLEAN]

Covered == \A s \in Registered : RealCapacity(s) >= Owed(s)

AccountInv == UsedInv /\ AccountTypes /\ JobInv /\ Covered

-----------------------------------------------------------------------------
\* Finitely many requests hold permits of a slot.
LEMMA HoldersFinite ==
    ASSUME NEW s
    PROVE  IsFiniteSet(Holders(s)) /\ Cardinality(Holders(s)) \in Nat
  BY RequestsAssumption, FS_Subset, FS_CardinalityType DEF Holders

\* Disjoint finite sets add up.
LEMMA DisjointUnion ==
    ASSUME NEW A, NEW B, IsFiniteSet(A), IsFiniteSet(B), A \cap B = {}
    PROVE  Cardinality(A \cup B) = Cardinality(A) + Cardinality(B)
  <1>1. Cardinality(A \cup B) = Cardinality(A) + Cardinality(B) - Cardinality(A \cap B)
    BY FS_Union
  <1>2. Cardinality(A \cap B) = 0
    BY FS_EmptySet
  <1>3. Cardinality(A) \in Nat /\ Cardinality(B) \in Nat
    BY FS_CardinalityType
  <1> QED
    BY <1>1, <1>2, <1>3

\* The slots in use are slots.
LEMMA RegisteredAreSlots ==
    ASSUME UsedInv
    PROVE  Registered \subseteq Slots
  BY DEF UsedInv, Registered

\* The cap a recompute is to set is a number.
LEMMA NewCapIsInt ==
    ASSUME AccountTypes, NEW s \in Registered
    PROVE  NewCap(s) \in Int
  <1>1. \E u \in Uids : accounts[u] = s
    BY DEF Registered
  <1> QED
    BY <1>1 DEF NewCap, AccountTypes

\* Permits that come back are handed to waiting requests of the account or stay.
Enter(served, s, n, at) ==
    /\ \A d \in served : pc[d] = "account" /\ slot_of[d] = s
    /\ IsFiniteSet(served) /\ Cardinality(served) \in Nat
    /\ Cardinality(served) <= n
    /\ pc' = [d \in Calls |-> IF d \in served THEN "entered" ELSE at[d]]
    /\ acc_available' = [acc_available EXCEPT ![s] = @ + n - Cardinality(served)]
    /\ acc_available' \in [Slots -> Nat]

\* Returned permits let some of those that wait in.
LEMMA GiveAccountServes ==
    ASSUME acc_available \in [Slots -> Nat], NEW s \in Slots, NEW n \in Nat,
           NEW at, GiveAccount(s, n, at)
    PROVE  \E served \in SUBSET Calls : Enter(served, s, n, at)
  <1> DEFINE waiting == {d \in Calls : pc[d] = "account" /\ slot_of[d] = s}
  <1>1. PICK served \in SUBSET waiting :
            /\ Cardinality(served) = AtMost(n, Cardinality(waiting))
            /\ pc' = [d \in Calls |-> IF d \in served THEN "entered" ELSE at[d]]
            /\ acc_available' =
                  [acc_available EXCEPT ![s] = @ + n - Cardinality(served)]
    BY DEF GiveAccount
  <1>2. /\ IsFiniteSet(waiting) /\ Cardinality(waiting) \in Nat
        /\ IsFiniteSet(served) /\ Cardinality(served) \in Nat
    BY RequestsAssumption, FS_Subset, FS_CardinalityType
  <1>3. Cardinality(served) <= n
    BY <1>1, <1>2 DEF AtMost
  <1>4. acc_available' \in [Slots -> Nat]
    BY <1>1, <1>2, <1>3
  <1> QED
    BY <1>1, <1>2, <1>3, <1>4 DEF Enter

-----------------------------------------------------------------------------
(***************************************************************************)
(* Requests: a permit moves between the semaphore and its holder, or pays  *)
(* a unit of debt.                                                         *)
(***************************************************************************)
\* What the permits have beyond the debt stays the same, account by account.
Balanced ==
    /\ acc_available' \in [Slots -> Nat]
    /\ shrink_debt' \in [Slots -> Nat]
    /\ keep' \in [Calls -> BOOLEAN]
    /\ \A s \in Slots : RealCapacity(s)' - shrink_debt'[s] = RealCapacity(s) - shrink_debt[s]

\* A step that changes no holder, no free permit and no debt changes no balance.
LEMMA SameHolders ==
    ASSUME AccountTypes, keep' \in [Calls -> BOOLEAN],
           UNCHANGED <<acc_available, shrink_debt>>,
           \A s \in Slots : Holders(s)' = Holders(s)
    PROVE  Balanced
  BY HoldersFinite DEF Balanced, AccountTypes, RealCapacity

\* A request c gives up its permit of s, and the semaphore takes one back.
LEMMA PermitReturned ==
    ASSUME AccountTypes, NEW s \in Slots, NEW c \in Calls, NEW to, NEW at,
           c \in Holders(s), slot_of[c] = s, pc \in [Calls -> PC],
           slot_of \in [Calls -> Slots \cup {NoSlot}],
           at = [pc EXCEPT ![c] = to], to \in {"out", "last"},
           GiveAccount(s, 1, at),
           slot_of' = [slot_of EXCEPT ![c] = NoSlot],
           keep' \in [Calls -> BOOLEAN],
           \A d \in Calls \ {c} : keep'[d] = keep[d],
           UNCHANGED shrink_debt
    PROVE  Balanced
  <1>0. 1 \in Nat /\ acc_available \in [Slots -> Nat]
    BY DEF AccountTypes
  <1>1. PICK served \in SUBSET Calls : Enter(served, s, 1, at)
    BY <1>0, GiveAccountServes, Zenon
  <1>2. Holders(s)' = (Holders(s) \ {c}) \cup served
    BY <1>1 DEF Holders, PC, Enter
  <1>3. (Holders(s) \ {c}) \cap served = {}
    BY <1>1 DEF Holders, Enter
  <1>4. /\ IsFiniteSet(Holders(s) \ {c})
        /\ Cardinality(Holders(s) \ {c}) = Cardinality(Holders(s)) - 1
    BY HoldersFinite, FS_RemoveElement
  <1>5. Cardinality(Holders(s)') = Cardinality(Holders(s)) - 1 + Cardinality(served)
    BY <1>1, <1>2, <1>3, <1>4, DisjointUnion DEF Enter
  <1>6. \A t \in Slots \ {s} : Holders(t)' = Holders(t)
    BY <1>1 DEF Holders, PC, Enter
  <1>7. RealCapacity(s)' = RealCapacity(s)
    BY <1>1, <1>5, HoldersFinite DEF RealCapacity, AccountTypes, Enter
  <1>8. \A t \in Slots \ {s} : RealCapacity(t)' = RealCapacity(t)
    BY <1>1, <1>6 DEF RealCapacity, AccountTypes, Enter
  <1> QED
    BY <1>1, <1>7, <1>8 DEF Balanced, AccountTypes, Enter

\* A request that moves no permit.
LEMMA HoldersKept ==
    ASSUME UsedInv, AccountTypes, NEW c \in Calls,
           \/ LookUp(c) \/ CountUsed(c) \/ RequestGlobal(c) \/ ReceiveGlobal(c)
           \/ CancelGlobal(c) \/ Uncount(c) \/ ReturnGlobal(c) \/ SpawnedRelease(c)
    PROVE  Balanced
  <1> USE DEF PC
  <1>0. /\ pc \in [Calls -> PC] /\ slot_of \in [Calls -> Slots \cup {NoSlot}]
        /\ keep \in [Calls -> BOOLEAN]
    BY DEF UsedInv, AccountTypes
  <1>1. CASE LookUp(c)
    <2>1. /\ UNCHANGED <<acc_available, shrink_debt, keep>>
          /\ pc[c] = "out" /\ pc' = [pc EXCEPT ![c] = "looked"]
          /\ \A d \in Calls \ {c} : slot_of'[d] = slot_of[d]
      BY <1>0, <1>1 DEF LookUp, Goto, slot_vars
    <2>2. \A s \in Slots : Holders(s)' = Holders(s)
      BY <1>0, <2>1 DEF Holders
    <2> QED
      BY <1>0, <2>1, <2>2, SameHolders
  <1>2. CASE CountUsed(c) \/ RequestGlobal(c) \/ ReceiveGlobal(c)
    <2>1. /\ UNCHANGED <<acc_available, shrink_debt, keep, slot_of>>
          /\ pc[c] \in {"entered", "counted", "global"}
          /\ \E to \in {"counted", "global", "transfer"} : pc' = [pc EXCEPT ![c] = to]
      BY <1>2 DEF CountUsed, RequestGlobal, ReceiveGlobal, Goto, slot_vars
    <2>2. \A s \in Slots : Holders(s)' = Holders(s)
      BY <1>0, <2>1 DEF Holders
    <2> QED
      BY <1>0, <2>1, <2>2, SameHolders
  <1>3. CASE CancelGlobal(c)
    <2>1. /\ UNCHANGED <<acc_available, shrink_debt, slot_of>>
          /\ keep' = [keep EXCEPT ![c] = TRUE]
          /\ pc[c] = "global" /\ pc' = [pc EXCEPT ![c] = "uncount"]
      BY <1>3 DEF CancelGlobal, Goto, slot_vars
    <2>2. \A s \in Slots : Holders(s)' = Holders(s)
      BY <1>0, <2>1 DEF Holders
    <2>3. keep' \in [Calls -> BOOLEAN]
      BY <1>0, <2>1
    <2> QED
      BY <2>1, <2>2, <2>3, SameHolders
  <1>4. CASE Uncount(c)
    <2>1. /\ UNCHANGED <<acc_available, shrink_debt, keep, slot_of>>
          /\ pc[c] = "uncount" /\ pc' = [pc EXCEPT ![c] = "giveback"]
      BY <1>4 DEF Uncount, Goto
    <2>2. \A s \in Slots : Holders(s)' = Holders(s)
      BY <1>0, <2>1 DEF Holders
    <2> QED
      BY <1>0, <2>1, <2>2, SameHolders
  <1>5. CASE ReturnGlobal(c)
    <2>1. /\ UNCHANGED <<acc_available, shrink_debt, keep, slot_of>>
          /\ pc[c] = "last" /\ pc' = [pc EXCEPT ![c] = "out"]
      BY <1>5 DEF ReturnGlobal, Goto, slot_vars
    <2>2. \A s \in Slots : Holders(s)' = Holders(s)
      BY <1>0, <2>1 DEF Holders
    <2> QED
      BY <1>0, <2>1, <2>2, SameHolders
  <1>6. CASE SpawnedRelease(c)
    <2>1. UNCHANGED <<acc_available, shrink_debt, keep, slot_of, pc>>
      BY <1>6 DEF SpawnedRelease, slot_vars, call_vars
    <2>2. \A s \in Slots : Holders(s)' = Holders(s)
      BY <2>1 DEF Holders
    <2> QED
      BY <1>0, <2>1, <2>2, SameHolders
  <1> QED
    BY <1>1, <1>2, <1>3, <1>4, <1>5, <1>6

\* The account semaphore lets a request in, or queues it.
LEMMA EnterBalanced ==
    ASSUME UsedInv, AccountTypes, NEW c \in Calls, EnterAccount(c)
    PROVE  Balanced
  <1> USE DEF PC
  <1>0. /\ pc \in [Calls -> PC] /\ slot_of \in [Calls -> Slots \cup {NoSlot}]
        /\ keep \in [Calls -> BOOLEAN] /\ acc_available \in [Slots -> Nat]
        /\ pc[c] = "looked" /\ UNCHANGED <<shrink_debt, keep, slot_of>>
        /\ slot_of[c] \in Slots
    BY DEF UsedInv, AccountTypes, EnterAccount
  <1>1. PICK s \in Slots : s = slot_of[c]
    BY <1>0
  <1>2. CASE acc_available[s] > 0
    <2>1. /\ acc_available' = [acc_available EXCEPT ![s] = @ - 1]
          /\ pc' = [pc EXCEPT ![c] = "entered"]
      BY <1>1, <1>2 DEF EnterAccount, Goto
    <2>2. Holders(s)' = Holders(s) \cup {c} /\ c \notin Holders(s)
      BY <1>0, <1>1, <2>1 DEF Holders
    <2>3. \A t \in Slots \ {s} : Holders(t)' = Holders(t)
      BY <1>0, <1>1, <2>1 DEF Holders
    <2>4. Cardinality(Holders(s)') = Cardinality(Holders(s)) + 1
      BY <2>2, HoldersFinite, FS_AddElement
    <2>5. acc_available' \in [Slots -> Nat]
      BY <1>0, <1>2, <2>1
    <2>6. RealCapacity(s)' = RealCapacity(s)
      BY <1>0, <2>1, <2>4, HoldersFinite DEF RealCapacity
    <2>7. \A t \in Slots \ {s} : RealCapacity(t)' = RealCapacity(t)
      BY <1>0, <2>1, <2>3 DEF RealCapacity
    <2> QED
      BY <1>0, <2>5, <2>6, <2>7 DEF Balanced, AccountTypes
  <1>3. CASE ~(acc_available[s] > 0)
    <2>1. UNCHANGED acc_available /\ pc' = [pc EXCEPT ![c] = "account"]
      BY <1>1, <1>3 DEF EnterAccount, Goto
    <2>2. \A t \in Slots : Holders(t)' = Holders(t)
      BY <1>0, <2>1 DEF Holders
    <2> QED
      BY <1>0, <2>1, <2>2, SameHolders
  <1> QED
    BY <1>2, <1>3

\* A dropped ChunkPermit pays a unit of debt with its account permit, or keeps
\* the permit to give it back.
LEMMA PayDebtBalanced ==
    ASSUME UsedInv, AccountTypes, NEW c \in Calls, PayDebt(c)
    PROVE  Balanced
  <1> USE DEF PC
  <1>0. /\ pc \in [Calls -> PC] /\ slot_of \in [Calls -> Slots \cup {NoSlot}]
        /\ keep \in [Calls -> BOOLEAN] /\ acc_available \in [Slots -> Nat]
        /\ shrink_debt \in [Slots -> Nat]
        /\ pc[c] = "transfer" /\ UNCHANGED <<acc_available, slot_of>>
        /\ slot_of[c] \in Slots /\ pc' = [pc EXCEPT ![c] = "uncount"]
    BY DEF UsedInv, AccountTypes, PayDebt, Goto
  <1>1. PICK s \in Slots : s = slot_of[c]
    BY <1>0
  <1>2. keep' = [keep EXCEPT ![c] = (shrink_debt[s] = 0)]
    BY <1>1 DEF PayDebt
  <1>3. /\ keep' \in [Calls -> BOOLEAN]
        /\ keep'[c] <=> shrink_debt[s] = 0
        /\ \A d \in Calls \ {c} : keep'[d] = keep[d]
    BY <1>0, <1>2
  <1>4. shrink_debt' = [shrink_debt EXCEPT ![s] = IF @ > 0 THEN @ - 1 ELSE 0]
    BY <1>1 DEF PayDebt
  <1>5. CASE shrink_debt[s] > 0
    <2>1. shrink_debt' = [shrink_debt EXCEPT ![s] = @ - 1]
      BY <1>0, <1>4, <1>5
    <2>2. Holders(s)' = Holders(s) \ {c} /\ c \in Holders(s)
      BY <1>0, <1>1, <1>3, <1>5 DEF Holders
    <2>3. \A t \in Slots \ {s} : Holders(t)' = Holders(t)
      BY <1>0, <1>1, <1>3, <1>5 DEF Holders
    <2>4. Cardinality(Holders(s)') = Cardinality(Holders(s)) - 1
      BY <2>2, HoldersFinite, FS_RemoveElement
    <2>5. shrink_debt' \in [Slots -> Nat]
      BY <1>0, <1>5, <2>1
    <2>6. RealCapacity(s)' - shrink_debt'[s] = RealCapacity(s) - shrink_debt[s]
      BY <1>0, <2>1, <2>4, HoldersFinite DEF RealCapacity
    <2>7. \A t \in Slots \ {s} :
             RealCapacity(t)' - shrink_debt'[t] = RealCapacity(t) - shrink_debt[t]
      BY <1>0, <2>1, <2>3 DEF RealCapacity
    <2> QED
      BY <1>0, <1>3, <2>5, <2>6, <2>7 DEF Balanced
  <1>6. CASE shrink_debt[s] = 0
    <2>1. UNCHANGED shrink_debt
      BY <1>0, <1>4, <1>6
    <2>2. \A t \in Slots : Holders(t)' = Holders(t)
      BY <1>0, <1>1, <1>3, <1>6 DEF Holders
    <2> QED
      BY <1>0, <1>3, <2>1, <2>2, SameHolders
  <1> QED
    BY <1>0, <1>5, <1>6

\* The account permit goes back, or was the payment of a unit of debt.
LEMMA ReturnBalanced ==
    ASSUME UsedInv, AccountTypes, NEW c \in Calls, CancelAccount(c) \/ ReturnAccount(c)
    PROVE  Balanced
  <1> USE DEF PC
  <1>0. /\ pc \in [Calls -> PC] /\ slot_of \in [Calls -> Slots \cup {NoSlot}]
        /\ keep \in [Calls -> BOOLEAN] /\ UNCHANGED shrink_debt
        /\ slot_of' = [slot_of EXCEPT ![c] = NoSlot]
        /\ slot_of[c] \in Slots /\ NoSlot \notin Slots
    BY SchedulerAssumption DEF UsedInv, AccountTypes, CancelAccount, ReturnAccount
  <1>1. keep' \in [Calls -> BOOLEAN] /\ \A d \in Calls \ {c} : keep'[d] = keep[d]
    BY <1>0 DEF CancelAccount, ReturnAccount
  <1>2. CASE \E to \in {"out", "last"} :
               /\ pc' = [pc EXCEPT ![c] = to] /\ UNCHANGED acc_available
               /\ pc[c] = "account" \/ (pc[c] = "giveback" /\ ~keep[c])
    <2>1. \A s \in Slots : Holders(s)' = Holders(s)
      BY <1>0, <1>1, <1>2 DEF Holders
    <2> QED
      BY <1>0, <1>1, <1>2, <2>1, SameHolders
  <1>3. ASSUME NEW to \in {"out", "last"},
               GiveAccount(slot_of[c], 1, [pc EXCEPT ![c] = to]),
               pc[c] = "entered" \/ (pc[c] = "giveback" /\ keep[c])
        PROVE  Balanced
    <2>1. c \in Holders(slot_of[c])
      BY <1>3 DEF Holders
    <2> QED
      BY <1>0, <1>1, <1>3, <2>1, PermitReturned
  <1>4. CASE CancelAccount(c)
    BY <1>2, <1>3, <1>4 DEF CancelAccount, Goto
  <1>5. CASE ReturnAccount(c)
    <2>1. PICK to \in {"out", "last"} :
            /\ pc[c] = "giveback"
            /\ IF keep[c]
               THEN GiveAccount(slot_of[c], 1, [pc EXCEPT ![c] = to])
               ELSE pc' = [pc EXCEPT ![c] = to] /\ UNCHANGED acc_available
      BY <1>5 DEF ReturnAccount, Goto
    <2> QED
      BY <1>2, <1>3, <2>1
  <1> QED
    BY <1>4, <1>5

\* Each step of a request leaves the balance of every slot as it was.
LEMMA CallBalanced ==
    ASSUME UsedInv, AccountTypes, NEW c \in Calls, CallStep(c)
    PROVE  Balanced
  BY HoldersKept, EnterBalanced, PayDebtBalanced, ReturnBalanced
     DEF CallStep, Progress, Drop

\* The real capacity is a number.
LEMMA RealIsNat ==
    ASSUME AccountTypes, NEW s \in Slots
    PROVE  RealCapacity(s) \in Nat
  BY HoldersFinite DEF RealCapacity, AccountTypes

\* A step of a request keeps the invariant.
LEMMA CallStepSafe ==
    ASSUME AccountInv, NEW c \in Calls, CallStep(c)
    PROVE  AccountInv'
  <1>1. UNCHANGED <<job, accounts, vip_cap, effective_cap>>
    BY DEF CallStep, Progress, Drop, LookUp, EnterAccount, CountUsed, RequestGlobal,
           ReceiveGlobal, CancelAccount, CancelGlobal, PayDebt, Uncount, ReturnAccount,
           ReturnGlobal, SpawnedRelease, slot_vars, conf_vars
  <1>2. UsedInv /\ AccountTypes /\ JobInv /\ Covered
    BY DEF AccountInv
  <1>3. UsedInv'
    BY <1>2, UsedStep DEF Next
  <1>4. Balanced
    BY <1>2, CallBalanced
  <1>5. AccountTypes'
    BY <1>1, <1>2, <1>4 DEF AccountTypes, Balanced
  <1>6. Registered' = Registered /\ \A s : NewCap(s)' = NewCap(s)
    BY <1>1 DEF Registered, NewCap
  <1>7. JobInv'
    BY <1>1, <1>2, <1>6 DEF JobInv, JobIsRecord, Figure
  <1>8. ASSUME NEW s \in Registered
        PROVE  RealCapacity(s)' >= Owed(s)'
    <2>1. s \in Slots /\ RealCapacity(s) >= Owed(s)
      BY <1>2, RegisteredAreSlots DEF Covered
    <2>2. /\ RealCapacity(s)' - shrink_debt'[s] = RealCapacity(s) - shrink_debt[s]
          /\ shrink_debt'[s] \in Nat /\ shrink_debt[s] \in Nat
      BY <1>2, <1>4, <2>1 DEF Balanced, AccountTypes
    <2>3. RealCapacity(s) \in Nat /\ RealCapacity(s)' \in Nat
      <3>1. Cardinality(Holders(s)') \in Nat
        BY RequestsAssumption, FS_Subset, FS_CardinalityType DEF Holders
      <3>2. acc_available'[s] \in Nat
        BY <1>5, <2>1 DEF AccountTypes
      <3> QED
        BY <1>2, <2>1, <3>1, <3>2, RealIsNat DEF RealCapacity
    <2>4. NewCap(s) \in Int /\ effective_cap[s] \in Int
      BY <1>2, <2>1, NewCapIsInt DEF AccountTypes
    <2>5. job.slot = s /\ job.phase \in {"add", "owe"} => job.n \in Nat
      BY <1>2 DEF JobInv, OnSlot
    <2>6. /\ Owed(s)' - shrink_debt'[s] = Owed(s) - shrink_debt[s]
          /\ Owed(s) \in Int /\ Owed(s)' \in Int
      BY <1>1, <1>6, <2>2, <2>4, <2>5 DEF Owed
    <2> QED
      BY <2>1, <2>2, <2>3, <2>6
  <1> QED
    BY <1>3, <1>5, <1>6, <1>7, <1>8 DEF AccountInv, Covered

-----------------------------------------------------------------------------
(***************************************************************************)
(* The lock holder: its steps move the cap, the debt and the permits so    *)
(* that what is covered before each step is covered after it.              *)
(***************************************************************************)
\* A step that moves no permit and leaves what is owed as it was.
LEMMA NothingMoves ==
    ASSUME AccountInv, UsedInv', JobInv',
           vip_cap' \in [Uids -> Int],
           UNCHANGED <<slot_vars, call_vars>>,
           Registered' \subseteq Registered,
           \A s \in Registered : Owed(s)' = Owed(s)
    PROVE  AccountInv'
  <1>1. AccountTypes'
    BY DEF AccountInv, AccountTypes, slot_vars, call_vars
  <1>2. \A s : RealCapacity(s)' = RealCapacity(s)
    BY DEF RealCapacity, Holders, slot_vars, call_vars
  <1> QED
    BY <1>1, <1>2 DEF AccountInv, Covered

\* With no slot in work, a slot is owed its cap and its debt.
LEMMA NoSlotInWork ==
    ASSUME NEW s, s # job.slot
    PROVE  Owed(s) = effective_cap[s] + shrink_debt[s]
  BY DEF Owed

\* The changes of a setting before the recompute keep the invariant.
LEMMA MutatorSafe ==
    ASSUME AccountInv, ChangeCaps \/ RemoveAccount \/ SwapBudget
    PROVE  AccountInv'
  <1>1. /\ job = NoJob /\ UNCHANGED <<slot_vars, call_vars>>
        /\ UsedInv /\ AccountTypes
    BY DEF AccountInv, ChangeCaps, RemoveAccount, SwapBudget
  <1>2. UsedInv'
    BY <1>1, UsedStep DEF Next, Mutate
  <1>3. vip_cap' \in [Uids -> Int]
    BY <1>1, SchedulerAssumption
       DEF AccountTypes, ChangeCaps, RemoveAccount, SwapBudget, conf_vars
  <1>4. Registered' \subseteq Registered /\ job'.todo \subseteq Registered'
    <2>1. CASE ChangeCaps \/ SwapBudget
      BY <2>1 DEF ChangeCaps, SwapBudget, Registered, Locked
    <2>2. CASE RemoveAccount
      <3>1. PICK u \in Uids : /\ accounts' = [accounts EXCEPT ![u] = NoSlot]
                              /\ job' = Locked("accounts", Registered \ {accounts[u]}, 0)
        BY <2>2 DEF RemoveAccount
      <3>2. \A v \in Uids : accounts'[v] = IF v = u THEN NoSlot ELSE accounts[v]
        BY <1>1, <3>1 DEF UsedInv
      <3>3. Registered' = {accounts'[v] : v \in Uids} \ {NoSlot}
        BY DEF Registered
      <3>4. job'.todo = Registered \ {accounts[u]}
        BY <3>1 DEF Locked
      <3> QED
        BY <3>2, <3>3, <3>4 DEF Registered
    <2> QED
      BY <2>1, <2>2
  <1>5. /\ JobIsRecord' /\ job'.slot = NoSlot /\ job'.phase \in {"resize", "accounts"}
    BY DEF ChangeCaps, RemoveAccount, SwapBudget, Locked, JobIsRecord
  <1>6. JobInv'
    BY <1>4, <1>5 DEF JobInv, OnSlot, Figure
  <1>7. ASSUME NEW s \in Registered
        PROVE  Owed(s)' = Owed(s)
    <2>1. s # NoSlot /\ job.slot = NoSlot
      BY <1>1 DEF Registered, NoJob
    <2> QED
      BY <1>1, <1>5, <2>1 DEF Owed, slot_vars
  <1> QED
    BY <1>1, <1>2, <1>3, <1>4, <1>6, <1>7, NothingMoves

\* A new account starts with its permits complete.
LEMMA AddAccountSafe ==
    ASSUME AccountInv, AddAccount
    PROVE  AccountInv'
  <1>1. PICK u \in Uids, s \in Slots, k \in 1..MaxCap :
          /\ accounts[u] = NoSlot
          /\ s \notin Registered /\ \A c \in Calls : slot_of[c] # s
          /\ vip_cap' = [vip_cap EXCEPT ![u] = k]
          /\ accounts' = [accounts EXCEPT ![u] = s]
          /\ effective_cap' = [effective_cap EXCEPT ![s] = k]
          /\ acc_available' = [acc_available EXCEPT ![s] = k]
          /\ shrink_debt' = [shrink_debt EXCEPT ![s] = 0]
          /\ job' = Locked("accounts", Registered \cup {s}, 0)
    BY DEF AddAccount
  <1>2. /\ job = NoJob /\ UNCHANGED <<pc, slot_of, keep>>
        /\ UsedInv /\ AccountTypes /\ Covered
    BY DEF AccountInv, AddAccount, call_vars
  <1>3. UsedInv'
    BY <1>2, UsedStep DEF Next, Mutate
  <1>4. AccountTypes' /\ k \in Nat
    BY <1>1, <1>2, SchedulerAssumption DEF AccountTypes
  <1>5. Registered' = Registered \cup {s}
    BY <1>1, <1>2, SchedulerAssumption DEF Registered, UsedInv
  <1>6. JobInv'
    BY <1>1, <1>5 DEF JobInv, JobIsRecord, Locked, OnSlot, Figure
  <1>7. \A t \in Registered' : Owed(t)' = effective_cap'[t] + shrink_debt'[t]
    BY <1>1 DEF Owed, Locked, Registered
  <1>8. RealCapacity(s)' >= Owed(s)'
    <2>1. Holders(s)' = {}
      BY <1>1, <1>2 DEF Holders
    <2>2. Cardinality(Holders(s)') = 0
      BY <2>1, FS_EmptySet
    <2>3. Owed(s)' = k /\ RealCapacity(s)' = k
      BY <1>1, <1>2, <1>4, <1>5, <1>7, <2>2 DEF RealCapacity, AccountTypes
    <2> QED
      BY <1>4, <2>3
  <1>9. ASSUME NEW t \in Registered
        PROVE  RealCapacity(t)' >= Owed(t)'
    <2>1. t \in Slots /\ t # s /\ t # NoSlot /\ job.slot = NoSlot
      BY <1>1, <1>2, RegisteredAreSlots DEF Registered, NoJob
    <2>2. RealCapacity(t) >= effective_cap[t] + shrink_debt[t]
      BY <1>2, <2>1, NoSlotInWork DEF Covered
    <2>3. Holders(t)' = Holders(t)
      BY <1>2 DEF Holders
    <2>4. RealCapacity(t)' = RealCapacity(t)
      BY <1>1, <1>2, <2>1, <2>3 DEF RealCapacity, AccountTypes
    <2> QED
      BY <1>1, <1>2, <1>5, <1>7, <2>1, <2>2, <2>4 DEF AccountTypes
  <1> QED
    BY <1>3, <1>4, <1>5, <1>6, <1>8, <1>9 DEF AccountInv, Covered

\* What every step of a recompute starts from; s is the slot in work.
LEMMA RecomputeKeeps ==
    ASSUME AccountInv, Recompute
    PROVE  /\ UsedInv /\ AccountTypes /\ JobInv /\ Covered /\ UsedInv'
           /\ UNCHANGED <<accounts, vip_cap>>
           /\ Registered' = Registered
           /\ \A s : NewCap(s)' = NewCap(s)
  <1>1. UsedInv /\ AccountTypes /\ JobInv /\ Covered
    BY DEF AccountInv
  <1>2. UsedInv'
    BY <1>1, UsedStep DEF Next
  <1>3. UNCHANGED <<accounts, vip_cap>>
    BY DEF Recompute, ResizeGlobal, VisitAccount, GrowCancelDebt, GrowAdd, ShrinkRead,
           ShrinkForget, ShrinkOwe, Unlock, conf_vars
  <1> QED
    BY <1>1, <1>2, <1>3 DEF Registered, NewCap

\* The steps of the lock holder that touch no slot keep the invariant.
LEMMA VisitSafe ==
    ASSUME AccountInv, VisitAccount \/ ResizeGlobal \/ Unlock
    PROVE  AccountInv'
  <1>1. /\ UsedInv /\ AccountTypes /\ JobInv /\ Covered /\ UsedInv'
        /\ UNCHANGED <<accounts, vip_cap>> /\ Registered' = Registered
        /\ \A s : NewCap(s)' = NewCap(s)
    BY RecomputeKeeps DEF Recompute
  <1>2. /\ UNCHANGED <<acc_available, effective_cap, shrink_debt, call_vars>>
        /\ job.slot = NoSlot
    BY <1>1 DEF VisitAccount, ResizeGlobal, Unlock, JobInv, NoJob, slot_vars
  <1>3. \A s \in Registered : s \in Slots /\ NewCap(s) \in Int /\ effective_cap[s] \in Int
    BY <1>1, RegisteredAreSlots, NewCapIsInt DEF AccountTypes
  <1>4. JobInv' /\ job'.phase \notin {"add", "owe"}
    <2>1. CASE ResizeGlobal \/ Unlock
      BY <1>1, <2>1 DEF ResizeGlobal, Unlock, Locked, NoJob, JobInv, JobIsRecord, OnSlot,
                        Figure
    <2>2. CASE VisitAccount
      <3>1. PICK s \in job.todo :
              LET diff == NewCap(s) - effective_cap[s]
                  at(phase, n) == [phase |-> phase, todo |-> job.todo \ {s},
                                   slot |-> s, n |-> n]
              IN  \/ diff > 0 /\ job' = at("grow", diff)
                  \/ diff < 0 /\ job' = at("shrink", -diff)
                  \/ diff = 0 /\ job' = Locked("accounts", job.todo \ {s}, 0)
        BY <2>2 DEF VisitAccount
      <3> DEFINE diff == NewCap(s) - effective_cap[s]
      <3>2. s \in Registered /\ diff \in Int /\ job.todo \subseteq Registered
        BY <1>1, <1>3 DEF JobInv
      <3>3. CASE /\ diff > 0
                 /\ job' = [phase |-> "grow", todo |-> job.todo \ {s}, slot |-> s, n |-> diff]
        BY <1>1, <1>2, <3>2, <3>3 DEF JobInv, JobIsRecord, OnSlot, Figure
      <3>4. CASE /\ diff < 0
                 /\ job' = [phase |-> "shrink", todo |-> job.todo \ {s}, slot |-> s, n |-> -diff]
        <4>1. -diff \in Nat /\ -diff = effective_cap[s] - NewCap(s)
          BY <1>3, <3>2, <3>4
        <4> HIDE DEF diff
        <4> QED
          BY <1>1, <1>2, <3>2, <3>4, <4>1 DEF JobInv, JobIsRecord, OnSlot, Figure
      <3>5. CASE job' = Locked("accounts", job.todo \ {s}, 0)
        BY <1>1, <3>2, <3>5 DEF JobInv, JobIsRecord, Locked, OnSlot, Figure
      <3> QED
        BY <3>1, <3>3, <3>4, <3>5
    <2> QED
      BY <2>1, <2>2
  <1>5. AccountTypes'
    BY <1>1, <1>2 DEF AccountTypes, call_vars
  <1>6. ASSUME NEW s \in Registered
        PROVE  RealCapacity(s)' >= Owed(s)'
    <2>1. s # job.slot /\ RealCapacity(s) >= effective_cap[s] + shrink_debt[s]
      BY <1>1, <1>2, <1>6, NoSlotInWork DEF Registered, Covered
    <2>2. Owed(s)' = effective_cap[s] + shrink_debt[s]
      BY <1>2, <1>4 DEF Owed
    <2>3. RealCapacity(s)' = RealCapacity(s)
      BY <1>2 DEF RealCapacity, Holders, call_vars
    <2> QED
      BY <2>1, <2>2, <2>3
  <1> QED
    BY <1>1, <1>4, <1>5, <1>6 DEF AccountInv, Covered

\* The steps on the slot in work leave every other slot alone.
LEMMA OthersCovered ==
    ASSUME AccountInv, AccountTypes', NEW s, s = job.slot,
           Registered' = Registered,
           job'.slot \in {s, NoSlot},
           \A d \in Calls : /\ slot_of'[d] = slot_of[d] /\ keep'[d] = keep[d]
                            /\ slot_of[d] # s => pc'[d] = pc[d],
           \A t \in Slots \ {s} : /\ acc_available'[t] = acc_available[t]
                                  /\ effective_cap'[t] = effective_cap[t]
                                  /\ shrink_debt'[t] = shrink_debt[t],
           RealCapacity(s)' >= Owed(s)'
    PROVE  Covered'
  <1>1. ASSUME NEW t \in Registered, t # s
        PROVE  RealCapacity(t)' >= Owed(t)'
    <2>1. t \in Slots \ {s} /\ t # NoSlot
      BY <1>1, RegisteredAreSlots DEF AccountInv, Registered
    <2>2. Holders(t)' = Holders(t)
      BY <2>1 DEF Holders
    <2>3. RealCapacity(t)' = RealCapacity(t)
      BY <2>1, <2>2 DEF RealCapacity
    <2>4. Owed(t)' = effective_cap[t] + shrink_debt[t]
      BY <2>1 DEF Owed
    <2>5. RealCapacity(t) >= effective_cap[t] + shrink_debt[t]
      BY <1>1, NoSlotInWork DEF AccountInv, Covered
    <2> QED
      BY <2>3, <2>4, <2>5
  <1> QED
    BY <1>1 DEF Covered

\* What the lock holder works on is a slot with numbers.
LEMMA SlotInWork ==
    ASSUME AccountInv, job.phase \in OnSlot
    PROVE  /\ job.slot \in Registered /\ job.slot \in Slots /\ job.n \in Nat
           /\ NewCap(job.slot) \in Int /\ effective_cap[job.slot] \in Int
           /\ shrink_debt[job.slot] \in Nat /\ acc_available[job.slot] \in Nat
           /\ RealCapacity(job.slot) \in Nat
           /\ RealCapacity(job.slot) >= Owed(job.slot)
           /\ job.todo \subseteq Registered
  <1>1. /\ job.slot \in Registered /\ job.n \in Nat /\ job.todo \subseteq Registered
        /\ AccountTypes /\ UsedInv
    BY DEF AccountInv, JobInv
  <1>2. job.slot \in Slots
    BY <1>1, RegisteredAreSlots
  <1> QED
    BY <1>1, <1>2, NewCapIsInt, RealIsNat DEF AccountInv, AccountTypes, Covered

\* Cancelling debt at a growth covers what it promises.
LEMMA GrowCancelDebtSafe ==
    ASSUME AccountInv, GrowCancelDebt
    PROVE  AccountInv'
  <1>1. /\ UsedInv /\ AccountTypes /\ JobInv /\ UsedInv'
        /\ UNCHANGED <<accounts, vip_cap>> /\ Registered' = Registered
        /\ \A t : NewCap(t)' = NewCap(t)
    BY RecomputeKeeps DEF Recompute
  <1>2. PICK s \in Registered :
        /\ s = job.slot /\ job.phase = "grow" /\ s \in Slots /\ job.n \in Nat
        /\ NewCap(s) \in Int /\ effective_cap[s] \in Int /\ shrink_debt[s] \in Nat
        /\ RealCapacity(s) \in Nat /\ RealCapacity(s) >= Owed(s)
        /\ job.todo \subseteq Registered
    BY SlotInWork DEF GrowCancelDebt, OnSlot
  <1> DEFINE take == AtMost(job.n, shrink_debt[s])
  <1>3. /\ take \in Nat /\ job.n - take \in Nat /\ shrink_debt[s] - take \in Nat
    BY <1>2 DEF AtMost
  <1>4. /\ shrink_debt' = [shrink_debt EXCEPT ![s] = @ - take]
        /\ job' = [job EXCEPT !.phase = "add", !.n = @ - take]
        /\ UNCHANGED <<effective_cap, acc_available, call_vars>>
    BY <1>2 DEF GrowCancelDebt
  <1>5. /\ job' = [phase |-> "add", todo |-> job.todo, slot |-> s, n |-> job.n - take]
    BY <1>1, <1>2, <1>4 DEF JobInv, JobIsRecord
  <1> HIDE DEF take
  <1>6. JobInv'
    BY <1>1, <1>2, <1>3, <1>5 DEF JobInv, JobIsRecord, OnSlot, Figure
  <1>7. AccountTypes'
    BY <1>1, <1>2, <1>3, <1>4 DEF AccountTypes, call_vars
  <1>8. RealCapacity(s)' >= Owed(s)'
    <2>1. RealCapacity(s)' = RealCapacity(s)
      BY <1>4, <1>5 DEF RealCapacity, Holders, call_vars
    <2>2. Owed(s) = effective_cap[s] + shrink_debt[s]
      BY <1>2 DEF Owed
    <2>3. Owed(s)' = NewCap(s) + (shrink_debt[s] - take) - (job.n - take)
      BY <1>1, <1>2, <1>4, <1>5 DEF Owed, AccountTypes
    <2>4. job.n = NewCap(s) - effective_cap[s]
      BY <1>1, <1>2 DEF JobInv, Figure
    <2> QED
      BY <1>2, <1>3, <2>1, <2>2, <2>3, <2>4
  <1>9. Covered'
    BY <1>1, <1>2, <1>4, <1>5, <1>7, <1>8, OthersCovered DEF call_vars, AccountTypes
  <1> QED
    BY <1>1, <1>6, <1>7, <1>9 DEF AccountInv

\* Adding the rest of a growth covers what it promises.
LEMMA GrowAddSafe ==
    ASSUME AccountInv, GrowAdd
    PROVE  AccountInv'
  <1>1. /\ UsedInv /\ AccountTypes /\ JobInv /\ UsedInv'
        /\ UNCHANGED <<accounts, vip_cap>> /\ Registered' = Registered
        /\ \A t : NewCap(t)' = NewCap(t)
    BY RecomputeKeeps DEF Recompute
  <1>2. PICK s \in Registered :
        /\ s = job.slot /\ job.phase = "add" /\ s \in Slots /\ job.n \in Nat
        /\ NewCap(s) \in Int /\ effective_cap[s] \in Int
        /\ shrink_debt[s] \in Nat /\ acc_available[s] \in Nat
        /\ RealCapacity(s) \in Nat /\ RealCapacity(s) >= Owed(s)
        /\ job.todo \subseteq Registered
    BY SlotInWork DEF GrowAdd, OnSlot
  <1>3. /\ effective_cap' = [effective_cap EXCEPT ![s] = NewCap(s)]
        /\ job' = Locked("accounts", job.todo, 0)
        /\ UNCHANGED <<shrink_debt, slot_of, keep>>
        /\ GiveAccount(s, job.n, pc)
    BY <1>2 DEF GrowAdd
  <1>4. JobInv'
    BY <1>1, <1>2, <1>3 DEF Locked, JobInv, JobIsRecord, OnSlot, Figure
  <1>5. PICK served \in SUBSET Calls : Enter(served, s, job.n, pc)
    <2>1. acc_available \in [Slots -> Nat]
      BY <1>1 DEF AccountTypes
    <2> QED
      BY <1>2, <1>3, <2>1, GiveAccountServes
  <1>6. AccountTypes'
    BY <1>1, <1>2, <1>3, <1>5 DEF AccountTypes, Enter
  <1>7. RealCapacity(s)' = RealCapacity(s) + job.n
    <2>1. /\ Holders(s)' = Holders(s) \cup served /\ Holders(s) \cap served = {}
      BY <1>1, <1>2, <1>3, <1>5 DEF Holders, Enter, UsedInv, PC, Locked
    <2>2. Cardinality(Holders(s)') = Cardinality(Holders(s)) + Cardinality(served)
      BY <1>5, <2>1, HoldersFinite, DisjointUnion DEF Enter
    <2>3. /\ acc_available'[s] = acc_available[s] + job.n - Cardinality(served)
          /\ Cardinality(served) \in Nat /\ Cardinality(Holders(s)) \in Nat
      BY <1>1, <1>2, <1>5, HoldersFinite DEF Enter, AccountTypes
    <2> QED
      BY <1>2, <2>2, <2>3 DEF RealCapacity
  <1>8. RealCapacity(s)' >= Owed(s)'
    <2>1. Owed(s) = NewCap(s) + shrink_debt[s] - job.n
      BY <1>2 DEF Owed
    <2>2. Owed(s)' = NewCap(s) + shrink_debt[s]
      BY <1>1, <1>2, <1>3 DEF Owed, AccountTypes, Locked
    <2> QED
      BY <1>2, <1>7, <2>1, <2>2
  <1>9. \A d \in Calls : slot_of[d] # s => pc'[d] = pc[d]
    BY <1>5 DEF Enter
  <1>10. Covered'
    <2>1. job'.slot = NoSlot
      BY <1>3 DEF Locked
    <2>2. \A t \in Slots \ {s} : /\ acc_available'[t] = acc_available[t]
                                 /\ effective_cap'[t] = effective_cap[t]
      BY <1>1, <1>3, <1>5 DEF Enter, AccountTypes
    <2> QED
      BY <1>1, <1>2, <1>3, <1>6, <1>8, <1>9, <2>1, <2>2, OthersCovered
  <1> QED
    BY <1>1, <1>4, <1>6, <1>10 DEF AccountInv

\* Reading the free permits keeps the invariant.
LEMMA ShrinkReadSafe ==
    ASSUME AccountInv, ShrinkRead
    PROVE  AccountInv'
  <1>1. /\ UsedInv /\ AccountTypes /\ JobInv /\ UsedInv'
        /\ UNCHANGED <<accounts, vip_cap>> /\ Registered' = Registered
        /\ \A t : NewCap(t)' = NewCap(t)
    BY RecomputeKeeps DEF Recompute
  <1>2. PICK s \in Registered :
        /\ s = job.slot /\ job.phase = "shrink" /\ s \in Slots /\ job.n \in Nat
        /\ NewCap(s) \in Int /\ effective_cap[s] \in Int
        /\ shrink_debt[s] \in Nat /\ acc_available[s] \in Nat
        /\ RealCapacity(s) \in Nat /\ RealCapacity(s) >= Owed(s)
        /\ job.todo \subseteq Registered
    BY SlotInWork DEF ShrinkRead, OnSlot
  <1>3. /\ job' = [phase |-> "forget", todo |-> job.todo, slot |-> s,
                   n |-> AtMost(job.n, acc_available[s])]
        /\ UNCHANGED <<slot_vars, call_vars, vip_cap>>
    BY <1>1, <1>2 DEF ShrinkRead, JobInv, JobIsRecord, conf_vars
  <1>4. /\ AtMost(job.n, acc_available[s]) \in Nat
        /\ AtMost(job.n, acc_available[s]) <= effective_cap[s] - NewCap(s)
    BY <1>1, <1>2 DEF AtMost, JobInv, Figure
  <1>5. JobInv'
    BY <1>1, <1>2, <1>3, <1>4 DEF slot_vars, JobInv, JobIsRecord, OnSlot, Figure
  <1>6. \A t \in Registered : Owed(t)' = Owed(t)
    BY <1>2, <1>3 DEF Owed, slot_vars
  <1> QED
    BY <1>1, <1>3, <1>5, <1>6, NothingMoves DEF AccountTypes

\* Forgetting what was read, or less if it is gone meanwhile, keeps the invariant.
LEMMA ShrinkForgetSafe ==
    ASSUME AccountInv, ShrinkForget
    PROVE  AccountInv'
  <1>1. /\ UsedInv /\ AccountTypes /\ JobInv /\ UsedInv'
        /\ UNCHANGED <<accounts, vip_cap>> /\ Registered' = Registered
        /\ \A t : NewCap(t)' = NewCap(t)
    BY RecomputeKeeps DEF Recompute
  <1>2. PICK s \in Registered :
        /\ s = job.slot /\ job.phase = "forget" /\ s \in Slots /\ job.n \in Nat
        /\ NewCap(s) \in Int /\ effective_cap[s] \in Int
        /\ shrink_debt[s] \in Nat /\ acc_available[s] \in Nat
        /\ RealCapacity(s) \in Nat /\ RealCapacity(s) >= Owed(s)
        /\ job.todo \subseteq Registered
    BY SlotInWork DEF ShrinkForget, OnSlot
  <1> DEFINE taken == AtMost(job.n, acc_available[s])
             rest == effective_cap[s] - NewCap(s) - job.n
  <1>3. /\ acc_available' = [acc_available EXCEPT ![s] = @ - taken]
        /\ UNCHANGED <<effective_cap, shrink_debt, call_vars>>
        /\ job' = [phase |-> "owe", todo |-> job.todo, slot |-> s, n |-> rest]
    BY <1>1, <1>2 DEF ShrinkForget, JobInv, JobIsRecord
  <1>4. /\ taken \in Nat /\ taken <= job.n /\ acc_available[s] - taken \in Nat
    BY <1>2 DEF AtMost
  <1>5. rest \in Nat
    BY <1>1, <1>2 DEF JobInv, Figure
  <1>6. JobInv'
    BY <1>1, <1>2, <1>3, <1>5 DEF JobInv, JobIsRecord, OnSlot, Figure
  <1> HIDE DEF taken
  <1>7. AccountTypes'
    BY <1>1, <1>2, <1>3, <1>4 DEF AccountTypes, call_vars
  <1>8. RealCapacity(s)' >= Owed(s)'
    <2>1. Holders(s)' = Holders(s)
      BY <1>3 DEF Holders, call_vars
    <2>2. acc_available'[s] = acc_available[s] - taken
      BY <1>1, <1>2, <1>3 DEF AccountTypes
    <2>3. RealCapacity(s)' = RealCapacity(s) - taken
      BY <1>2, <1>3, <1>4, <2>1, <2>2, HoldersFinite DEF RealCapacity
    <2>4. Owed(s) = effective_cap[s] + shrink_debt[s]
      BY <1>2 DEF Owed
    <2>5. Owed(s)' = NewCap(s) + shrink_debt[s] + rest
      BY <1>1, <1>2, <1>3 DEF Owed
    <2> QED
      BY <1>2, <1>4, <1>5, <2>3, <2>4, <2>5
  <1>9. Covered'
    BY <1>1, <1>2, <1>3, <1>7, <1>8, OthersCovered DEF call_vars, AccountTypes
  <1> QED
    BY <1>1, <1>6, <1>7, <1>9 DEF AccountInv

\* Entering the rest as debt keeps the invariant.
LEMMA ShrinkOweSafe ==
    ASSUME AccountInv, ShrinkOwe
    PROVE  AccountInv'
  <1>1. /\ UsedInv /\ AccountTypes /\ JobInv /\ UsedInv'
        /\ UNCHANGED <<accounts, vip_cap>> /\ Registered' = Registered
        /\ \A t : NewCap(t)' = NewCap(t)
    BY RecomputeKeeps DEF Recompute
  <1>2. PICK s \in Registered :
        /\ s = job.slot /\ job.phase = "owe" /\ s \in Slots /\ job.n \in Nat
        /\ NewCap(s) \in Int /\ effective_cap[s] \in Int
        /\ shrink_debt[s] \in Nat /\ acc_available[s] \in Nat
        /\ RealCapacity(s) \in Nat /\ RealCapacity(s) >= Owed(s)
        /\ job.todo \subseteq Registered
    BY SlotInWork DEF ShrinkOwe, OnSlot
  <1>3. /\ shrink_debt' = [shrink_debt EXCEPT ![s] = @ + job.n]
        /\ effective_cap' = [effective_cap EXCEPT ![s] = NewCap(s)]
        /\ job' = Locked("accounts", job.todo, 0)
        /\ UNCHANGED <<acc_available, call_vars>>
    BY <1>2 DEF ShrinkOwe
  <1>4. JobInv'
    BY <1>1, <1>2, <1>3 DEF Locked, JobInv, JobIsRecord, OnSlot, Figure
  <1>5. AccountTypes'
    BY <1>1, <1>2, <1>3 DEF AccountTypes, call_vars
  <1>6. RealCapacity(s)' >= Owed(s)'
    <2>1. RealCapacity(s)' = RealCapacity(s)
      BY <1>3 DEF RealCapacity, Holders, call_vars
    <2>2. Owed(s) = NewCap(s) + shrink_debt[s] + job.n
      BY <1>2 DEF Owed
    <2>3. Owed(s)' = NewCap(s) + (shrink_debt[s] + job.n)
      BY <1>1, <1>2, <1>3 DEF Owed, AccountTypes, Locked
    <2> QED
      BY <1>2, <2>1, <2>2, <2>3
  <1>7. job'.slot = NoSlot
    BY <1>3 DEF Locked
  <1>8. Covered'
    BY <1>1, <1>2, <1>3, <1>5, <1>6, <1>7, OthersCovered DEF call_vars, AccountTypes
  <1> QED
    BY <1>1, <1>4, <1>5, <1>8 DEF AccountInv

-----------------------------------------------------------------------------
\* Every step keeps the invariant.
LEMMA AccountStep ==
    ASSUME AccountInv, [Next]_vars
    PROVE  AccountInv'
  <1>1. CASE UNCHANGED vars
    <2>1. UNCHANGED <<slot_vars, call_vars, job, accounts, vip_cap>>
      BY <1>1 DEF vars, conf_vars
    <2>2. UsedInv'
      BY <1>1, UsedStep DEF AccountInv
    <2>3. Registered' = Registered /\ \A s : NewCap(s)' = NewCap(s)
      BY <2>1 DEF Registered, NewCap
    <2>4. JobInv' /\ \A s \in Registered : Owed(s)' = Owed(s)
      BY <2>1, <2>3 DEF AccountInv, JobInv, JobIsRecord, Figure, Owed, slot_vars
    <2> QED
      BY <2>1, <2>2, <2>3, <2>4, NothingMoves DEF AccountInv, AccountTypes
  <1> QED
    BY <1>1, CallStepSafe, MutatorSafe, AddAccountSafe, VisitSafe, GrowCancelDebtSafe,
       GrowAddSafe, ShrinkReadSafe, ShrinkForgetSafe, ShrinkOweSafe
       DEF Next, Mutate, Recompute

\* The invariant holds at the start.
LEMMA InitAccountInv == Init => AccountInv
  <1> SUFFICES ASSUME Init PROVE AccountInv
    OBVIOUS
  <1>1. UsedInv
    BY InitUsedInv
  <1>2. Registered = {}
    BY DEF Init, Registered
  <1>3. AccountTypes
    BY SchedulerAssumption DEF Init, AccountTypes
  <1> QED
    BY <1>1, <1>2, <1>3
       DEF Init, AccountInv, JobInv, JobIsRecord, NoJob, OnSlot, Figure, Covered

\* No permit of an account is ever lost: for any number of accounts, requests
\* and threads the real capacity of an account's semaphore is at least the cap
\* the scheduler believes in plus the debt, however shrinks, growths, drops and
\* cancellations interleave.
THEOREM NoAccountPermitLost == Spec => []AccountNeverShort
  <1>1. AccountInv => AccountNeverShort
    <2> SUFFICES ASSUME AccountInv, NEW s \in Registered, job.slot # s
                 PROVE  RealCapacity(s) >= effective_cap[s] + shrink_debt[s]
      BY DEF AccountNeverShort
    <2> QED
      BY NoSlotInWork DEF AccountInv, Covered
  <1>2. AccountInv /\ [Next]_vars => AccountInv'
    BY AccountStep
  <1> QED
    BY <1>1, <1>2, InitAccountInv, PTL DEF Spec
=============================================================================
