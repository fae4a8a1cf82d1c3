--------------------------- MODULE BudgetScheduler ---------------------------
(***************************************************************************)
(* backend/src/downloader/budget_scheduler.rs: the two-level quota of one  *)
(* track (download or upload; the two tracks share nothing but the lock).  *)
(* A chunk needs a permit of its account's semaphore (the account's VIP    *)
(* cap) and one of the machine-wide PrioritySemaphore (the budget M).      *)
(*                                                                         *)
(* Changes of the budget, of the VIP table or of the accounts run one at a *)
(* time under recompute_lock; acquire_chunk_permit and ChunkPermit::drop   *)
(* take no lock and meet them through atomics, one atomic per step here.   *)
(* With Parallel = FALSE the runtime has one thread (as in #[tokio::test]) *)
(* and a step sequence without await is not interleaved with any other.    *)
(***************************************************************************)
EXTENDS Integers, Sequences, FiniteSets, Functions

CONSTANTS
    Uids,         \* accounts
    Slots,        \* identities of AccountSlot objects
    NoSlot,       \* accounts.get(uid) = None
    Calls,        \* chunk requests
    InitBudget,   \* M when the scheduler is built
    MaxBudget,    \* bound: the largest M (the setters raise 0 to 1)
    MaxCap,       \* bound: the largest VIP cap
    Parallel,     \* more than one worker thread (#[tokio::main])
    Cancellable   \* whether a waiting acquire_chunk_permit may be dropped

ASSUME SchedulerAssumption ==
    /\ NoSlot \notin Slots
    /\ MaxBudget \in Nat \ {0} /\ InitBudget \in 1..MaxBudget
    /\ MaxCap \in Nat \ {0}
    /\ Parallel \in BOOLEAN /\ Cancellable \in BOOLEAN

ASSUME RequestsAssumption == IsFiniteSet(Calls)

VARIABLES
    available, forgotten, p0_waiters, p1_waiters, state, capacity,
                     \* global_sem: the state of a PrioritySemaphore
    machine_budget,  \* Track.machine_budget
    accounts,        \* Track.accounts: the slot of each account
    vip_cap,         \* the cap the VIP table gives each account (config)
    effective_cap,   \* AccountSlot.effective_cap of each slot
    acc_available,   \* AccountSlot.sem.available_permits()
    used,            \* AccountSlot.used
    base,            \* AccountSlot.base
    shrink_debt,     \* AccountSlot.shrink_debt
    pc,              \* where each chunk request is
    slot_of,         \* the slot it looked up
    prev,            \* what its fetch_add on `used` returned
    priority,        \* the priority it asked the global semaphore with
    keep,            \* its account permit is still to be returned
    job,             \* what the holder of recompute_lock is doing
    max_base         \* history: the largest base a slot has had

sem_vars  == <<available, forgotten, p0_waiters, p1_waiters, state, capacity>>
slot_vars == <<effective_cap, acc_available, used, base, shrink_debt, max_base>>
call_vars == <<pc, slot_of, prev, priority, keep>>
conf_vars == <<machine_budget, accounts, vip_cap>>
vars == <<sem_vars, slot_vars, call_vars, conf_vars, job>>

GlobalSem == INSTANCE PrioritySemaphore
             WITH InitPermits <- InitBudget, MinCapacity <- 1,
                  MaxCapacity <- MaxBudget

(***************************************************************************)
(* The states of a request.                                                *)
(*   out       no future and no permit                                     *)
(*   looked    it has its slot, its account semaphore is not polled yet    *)
(*   account   queued on the account semaphore                             *)
(*   entered   it has the account permit                                   *)
(*   counted   it has done used.fetch_add, base is not read yet            *)
(*   global    queued on the global semaphore                              *)
(*   transfer  it holds a ChunkPermit                                      *)
(*   uncount   its `used` is still to be given back                        *)
(*   giveback  its account permit is still to be given back                *)
(*   last      its global permit is still to be given back                 *)
(***************************************************************************)
PC == {"out", "looked", "account", "entered", "counted", "global",
       "transfer", "uncount", "giveback", "last"}

Phase == {"free", "resize", "accounts", "grow", "add", "shrink", "forget", "owe"}

NoJob == [phase |-> "free", todo |-> {}, slot |-> NoSlot, n |-> 0]

Registered == {accounts[u] : u \in Uids} \ {NoSlot}

\* Requests holding an account permit of s.  A permit consumed by the debt no
\* longer is one (OwnedSemaphorePermit::forget).
Holders(s) ==
    {c \in Calls : slot_of[c] = s /\
        \/ pc[c] \in {"entered", "counted", "global", "transfer"}
        \/ pc[c] \in {"uncount", "giveback"} /\ keep[c]}

\* Requests counted in `used` of s.
Counted(s) ==
    {c \in Calls : slot_of[c] = s /\ pc[c] \in {"counted", "global", "transfer", "uncount"}}

AtMost(a, b) == IF a <= b THEN a ELSE b

TypeOK ==
    /\ GlobalSem!TypeOK
    /\ machine_budget \in 1..MaxBudget
    /\ accounts \in [Uids -> Slots \cup {NoSlot}]
    /\ vip_cap \in [Uids -> 1..MaxCap]
    /\ effective_cap \in [Slots -> 1..MaxCap]
    /\ acc_available \in [Slots -> Nat]
    /\ used \in [Slots -> Nat]
    /\ base \in [Slots -> 1..MaxCap]
    /\ max_base \in [Slots -> 1..MaxCap]
    /\ shrink_debt \in [Slots -> Nat]
    /\ pc \in [Calls -> PC]
    /\ slot_of \in [Calls -> Slots \cup {NoSlot}]
    /\ prev \in [Calls -> Nat]
    /\ priority \in [Calls -> {"P0", "P1"}]
    /\ keep \in [Calls -> BOOLEAN]
    /\ job \in [phase : Phase, todo : SUBSET Slots,
                slot : Slots \cup {NoSlot}, n : Int]

Init ==
    /\ GlobalSem!Init
    /\ machine_budget = InitBudget
    /\ accounts = [u \in Uids |-> NoSlot]
    /\ vip_cap = [u \in Uids |-> MaxCap]
    /\ effective_cap = [s \in Slots |-> 1]
    /\ acc_available = [s \in Slots |-> 0]
    /\ used = [s \in Slots |-> 0]
    /\ base = [s \in Slots |-> 1]
    /\ max_base = [s \in Slots |-> 1]
    /\ shrink_debt = [s \in Slots |-> 0]
    /\ pc = [c \in Calls |-> "out"]
    /\ slot_of = [c \in Calls |-> NoSlot]
    /\ prev = [c \in Calls |-> 0]
    /\ priority = [c \in Calls |-> "P0"]
    /\ keep = [c \in Calls |-> FALSE]
    /\ job = NoJob

-----------------------------------------------------------------------------
(***************************************************************************)
(* Scheduling: on one thread a request or a recompute in the middle of a   *)
(* sequence without await runs to the end of it.                           *)
(***************************************************************************)
InSequence(c) == pc[c] \in {"looked", "counted", "uncount", "giveback", "last"}

JobInSequence == job.phase \notin {"free", "resize"}

CallRuns(c) ==
    Parallel \/ (~JobInSequence /\ \A d \in Calls \ {c} : ~InSequence(d))

JobRuns == Parallel \/ \A d \in Calls : ~InSequence(d)

Goto(c, to) == pc' = [pc EXCEPT ![c] = to]

\* n permits come back to the account semaphore of s (tokio hands them to its
\* waiters first): `at` is where the other requests are by then.
GiveAccount(s, n, at) ==
    LET waiting == {c \in Calls : pc[c] = "account" /\ slot_of[c] = s}
    IN  \E served \in SUBSET waiting :
            /\ Cardinality(served) = AtMost(n, Cardinality(waiting))
            /\ pc' = [c \in Calls |-> IF c \in served THEN "entered" ELSE at[c]]
            /\ acc_available' =
                  [acc_available EXCEPT ![s] = @ + n - Cardinality(served)]

-----------------------------------------------------------------------------
(***************************************************************************)
(* acquire_chunk_permit                                                    *)
(***************************************************************************)
\* The account is looked up; an unknown one yields None and nothing changes.
LookUp(c) ==
    /\ CallRuns(c)
    /\ pc[c] = "out" /\ state[c] = "idle"
    /\ \E u \in Uids :
        /\ accounts[u] # NoSlot
        /\ slot_of' = [slot_of EXCEPT ![c] = accounts[u]]
    /\ Goto(c, "looked")
    /\ UNCHANGED <<sem_vars, slot_vars, prev, priority, keep, conf_vars, job>>

\* The account semaphore is polled.
EnterAccount(c) ==
    /\ CallRuns(c)
    /\ pc[c] = "looked"
    /\ IF acc_available[slot_of[c]] > 0
       THEN /\ acc_available' = [acc_available EXCEPT ![slot_of[c]] = @ - 1]
            /\ Goto(c, "entered")
       ELSE /\ Goto(c, "account")
            /\ UNCHANGED acc_available
    /\ UNCHANGED <<sem_vars, effective_cap, used, base, shrink_debt, max_base,
                   slot_of, prev, priority, keep, conf_vars, job>>

\* prev = used.fetch_add(1)
CountUsed(c) ==
    /\ CallRuns(c)
    /\ pc[c] = "entered"
    /\ prev' = [prev EXCEPT ![c] = used[slot_of[c]]]
    /\ used' = [used EXCEPT ![slot_of[c]] = @ + 1]
    /\ Goto(c, "counted")
    /\ UNCHANGED <<sem_vars, effective_cap, acc_available, base, shrink_debt,
                   max_base, slot_of, priority, keep, conf_vars, job>>

\* A bug: the request that is number base + 1 still goes P0.
RequestGlobalOneMore(c) ==
    LET p == IF prev[c] <= base[slot_of[c]] THEN "P0" ELSE "P1"
    IN  /\ CallRuns(c)
        /\ pc[c] = "counted"
        /\ GlobalSem!Acquire(c, p)
        /\ priority' = [priority EXCEPT ![c] = p]
        /\ Goto(c, IF state'[c] = "held" THEN "transfer" ELSE "global")
        /\ prev' = [prev EXCEPT ![c] = 0]
        /\ UNCHANGED <<slot_vars, slot_of, keep, conf_vars, job>>

\* base is read, and with it the priority decided; the global semaphore is
\* polled in the same breath.
RequestGlobal(c) ==
    LET p == IF prev[c] < base[slot_of[c]] THEN "P0" ELSE "P1"
    IN  /\ CallRuns(c)
        /\ pc[c] = "counted"
        /\ GlobalSem!Acquire(c, p)
        /\ priority' = [priority EXCEPT ![c] = p]
        /\ Goto(c, IF state'[c] = "held" THEN "transfer" ELSE "global")
        /\ prev' = [prev EXCEPT ![c] = 0]   \* a local that is dead from here on
        /\ UNCHANGED <<slot_vars, slot_of, keep, conf_vars, job>>

\* The wake token arrives and the ChunkPermit is built.
ReceiveGlobal(c) ==
    /\ CallRuns(c)
    /\ pc[c] = "global"
    /\ GlobalSem!Receive(c)
    /\ Goto(c, "transfer")
    /\ UNCHANGED <<slot_vars, slot_of, prev, priority, keep, conf_vars, job>>

\* The future is dropped on the account semaphore, before or after it was
\* handed a permit.
CancelAccount(c) ==
    /\ Cancellable /\ CallRuns(c)
    /\ \/ /\ pc[c] = "account"
          /\ Goto(c, "out")
          /\ UNCHANGED acc_available
       \/ /\ pc[c] = "entered"
          /\ GiveAccount(slot_of[c], 1, [pc EXCEPT ![c] = "out"])
    /\ slot_of' = [slot_of EXCEPT ![c] = NoSlot]
    /\ UNCHANGED <<sem_vars, effective_cap, used, base, shrink_debt, max_base,
                   prev, priority, keep, conf_vars, job>>

\* A bug: no UsedGuard covers the wait on the global semaphore.
CancelGlobalUnguarded(c) ==
    /\ Cancellable /\ CallRuns(c)
    /\ pc[c] = "global"
    /\ GlobalSem!CancelWaiting(c) \/ GlobalSem!DropNow(c) \/ GlobalSem!DropLater(c)
    /\ keep' = [keep EXCEPT ![c] = TRUE]
    /\ Goto(c, "giveback")
    /\ UNCHANGED <<slot_vars, slot_of, prev, priority, conf_vars, job>>

\* The future is dropped on the global semaphore: the queue entry dies or the
\* token is released, then UsedGuard and the account permit follow.
CancelGlobal(c) ==
    /\ Cancellable /\ CallRuns(c)
    /\ pc[c] = "global"
    /\ \/ GlobalSem!CancelWaiting(c)
       \/ GlobalSem!DropNow(c)
       \/ GlobalSem!DropLater(c)
    /\ keep' = [keep EXCEPT ![c] = TRUE]
    /\ Goto(c, "uncount")
    /\ UNCHANGED <<slot_vars, slot_of, prev, priority, conf_vars, job>>

-----------------------------------------------------------------------------
(***************************************************************************)
(* ChunkPermit::drop                                                       *)
(***************************************************************************)
\* A bug: the permit is forgotten, the debt is not reduced.
PayDebtTwice(c) ==
    LET s == slot_of[c]
    IN  /\ CallRuns(c)
        /\ pc[c] = "transfer"
        /\ keep' = [keep EXCEPT ![c] = shrink_debt[s] = 0]
        /\ Goto(c, "uncount")
        /\ UNCHANGED <<sem_vars, slot_vars, slot_of, prev, priority, conf_vars, job>>

\* One unit of shrink debt is paid with the account permit, if any is owed.
PayDebt(c) ==
    LET s == slot_of[c]
    IN  /\ CallRuns(c)
        /\ pc[c] = "transfer"
        /\ keep' = [keep EXCEPT ![c] = shrink_debt[s] = 0]
        /\ shrink_debt' = [shrink_debt EXCEPT ![s] = IF @ > 0 THEN @ - 1 ELSE 0]
        /\ Goto(c, "uncount")
        /\ UNCHANGED <<sem_vars, effective_cap, acc_available, used, base,
                       max_base, slot_of, prev, priority, conf_vars, job>>

\* A bug: both ChunkPermit::drop and UsedGuard::drop subtract.
UncountTwice(c) ==
    /\ CallRuns(c)
    /\ pc[c] = "uncount"
    /\ used' = [used EXCEPT ![slot_of[c]] = @ - 2]
    /\ Goto(c, "giveback")
    /\ priority' = [priority EXCEPT ![c] = "P0"]
    /\ UNCHANGED <<sem_vars, effective_cap, acc_available, base, shrink_debt,
                   max_base, slot_of, prev, keep, conf_vars, job>>

\* used.fetch_sub(1), by ChunkPermit::drop or by UsedGuard::drop.
Uncount(c) ==
    /\ CallRuns(c)
    /\ pc[c] = "uncount"
    /\ used' = [used EXCEPT ![slot_of[c]] = @ - 1]
    /\ Goto(c, "giveback")
    /\ priority' = [priority EXCEPT ![c] = "P0"]   \* dead as well
    /\ UNCHANGED <<sem_vars, effective_cap, acc_available, base, shrink_debt,
                   max_base, slot_of, prev, keep, conf_vars, job>>

\* The account permit is dropped, unless it paid the debt.
ReturnAccount(c) ==
    LET then == IF state[c] = "held" THEN "last" ELSE "out"
    IN  /\ CallRuns(c)
        /\ pc[c] = "giveback"
        /\ IF keep[c]
           THEN GiveAccount(slot_of[c], 1, [pc EXCEPT ![c] = then])
           ELSE Goto(c, then) /\ UNCHANGED acc_available
        /\ keep' = [keep EXCEPT ![c] = FALSE]
        /\ slot_of' = [slot_of EXCEPT ![c] = NoSlot]
        /\ UNCHANGED <<sem_vars, effective_cap, used, base, shrink_debt,
                       max_base, prev, priority, conf_vars, job>>

\* A bug: the permit is put back without waking the next waiter.
ReturnGlobalSilently(c) ==
    /\ CallRuns(c)
    /\ pc[c] = "last"
    /\ available' = available + 1
    /\ state' = [state EXCEPT ![c] = "idle"]
    /\ Goto(c, "out")
    /\ UNCHANGED <<forgotten, p0_waiters, p1_waiters, capacity,
                   slot_vars, slot_of, prev, priority, keep, conf_vars, job>>

\* The global permit is dropped.
ReturnGlobal(c) ==
    /\ CallRuns(c)
    /\ pc[c] = "last"
    /\ GlobalSem!DropNow(c) \/ GlobalSem!DropLater(c)
    /\ Goto(c, "out")
    /\ UNCHANGED <<slot_vars, slot_of, prev, priority, keep, conf_vars, job>>

\* The release task a drop may have spawned.
SpawnedRelease(c) ==
    /\ CallRuns(c)
    /\ GlobalSem!SpawnedRelease(c)
    /\ UNCHANGED <<slot_vars, call_vars, conf_vars, job>>

-----------------------------------------------------------------------------
(***************************************************************************)
(* The mutators, each under recompute_lock and ending in a recompute.      *)
(***************************************************************************)
Locked(phase, todo, n) ==
    [phase |-> phase, todo |-> todo, slot |-> NoSlot, n |-> n]

\* update_recommended, update_weights, update_account_request, and add_account
\* of a known account: other caps, other bases or neither, then a recompute.
ChangeCaps ==
    /\ JobRuns /\ job = NoJob /\ Registered # {}
    /\ \E u \in Uids, k \in 1..MaxCap : vip_cap' = [vip_cap EXCEPT ![u] = k]
    /\ job' = Locked("accounts", Registered, 0)
    /\ UNCHANGED <<sem_vars, slot_vars, call_vars, machine_budget, accounts>>

\* add_account of a new account: a new slot, its semaphore full.
AddAccount ==
    /\ JobRuns /\ job = NoJob
    /\ \E u \in Uids, s \in Slots, k \in 1..MaxCap :
        /\ accounts[u] = NoSlot
        /\ s \notin Registered /\ \A c \in Calls : slot_of[c] # s
        /\ vip_cap' = [vip_cap EXCEPT ![u] = k]
        /\ accounts' = [accounts EXCEPT ![u] = s]
        /\ effective_cap' = [effective_cap EXCEPT ![s] = k]
        /\ acc_available' = [acc_available EXCEPT ![s] = k]
        /\ used' = [used EXCEPT ![s] = 0]
        /\ base' = [base EXCEPT ![s] = 1]
        /\ max_base' = [max_base EXCEPT ![s] = 1]
        /\ shrink_debt' = [shrink_debt EXCEPT ![s] = 0]
        /\ job' = Locked("accounts", Registered \cup {s}, 0)
    /\ UNCHANGED <<sem_vars, call_vars, machine_budget>>

\* remove_account: requests in flight keep the slot they looked up.
RemoveAccount ==
    /\ JobRuns /\ job = NoJob
    /\ \E u \in Uids :
        /\ accounts[u] # NoSlot
        /\ accounts' = [accounts EXCEPT ![u] = NoSlot]
        /\ job' = Locked("accounts", Registered \ {accounts[u]}, 0)
    /\ UNCHANGED <<sem_vars, slot_vars, call_vars, machine_budget, vip_cap>>

\* update_machine_budget and update_budget_config: machine_budget.swap, ...
SwapBudget ==
    /\ JobRuns /\ job = NoJob
    /\ \E m \in 1..MaxBudget :
        /\ machine_budget' = m
        /\ job' = Locked("resize", Registered, m - machine_budget)
    /\ UNCHANGED <<sem_vars, slot_vars, call_vars, accounts, vip_cap>>

\* A bug: a smaller budget never reaches the global semaphore.
ResizeGlobalUpOnly ==
    /\ JobRuns /\ job.phase = "resize"
    /\ IF job.n > 0 THEN GlobalSem!AddPermits(job.n) ELSE UNCHANGED sem_vars
    /\ job' = Locked("accounts", job.todo, 0)
    /\ UNCHANGED <<slot_vars, call_vars, conf_vars>>

\* ... then the global semaphore follows (adjust_track_capacity).
ResizeGlobal ==
    /\ JobRuns /\ job.phase = "resize"
    /\ \/ job.n > 0 /\ GlobalSem!AddPermits(job.n)
       \/ job.n < 0 /\ GlobalSem!ForgetPermits(-job.n)
       \/ job.n = 0 /\ UNCHANGED sem_vars
    /\ job' = Locked("accounts", job.todo, 0)
    /\ UNCHANGED <<slot_vars, call_vars, conf_vars>>

\* recompute_locked_inner reaches an account: its new base is stored and its cap
\* compared.  The base is any value BudgetShares can give it.
NewCap(s) == vip_cap[CHOOSE u \in Uids : accounts[u] = s]

VisitAccount ==
    /\ JobRuns /\ job.phase = "accounts"
    /\ \E s \in job.todo, b \in 1..MaxCap :
        /\ b <= NewCap(s)
        /\ base' = [base EXCEPT ![s] = b]
        /\ max_base' = [max_base EXCEPT ![s] = IF b > @ THEN b ELSE @]
        /\ LET diff == NewCap(s) - effective_cap[s]
               at(phase, n) == [phase |-> phase, todo |-> job.todo \ {s},
                                slot |-> s, n |-> n]
           IN  \/ diff > 0 /\ job' = at("grow", diff)
               \/ diff < 0 /\ job' = at("shrink", -diff)
               \/ diff = 0 /\ job' = Locked("accounts", job.todo \ {s}, 0)
    /\ UNCHANGED <<sem_vars, effective_cap, acc_available, used, shrink_debt,
                   call_vars, conf_vars>>

\* Up: the debt is cancelled first ...
GrowCancelDebt ==
    /\ JobRuns /\ job.phase = "grow"
    /\ LET take == AtMost(job.n, shrink_debt[job.slot])
       IN  /\ shrink_debt' = [shrink_debt EXCEPT ![job.slot] = @ - take]
           /\ job' = [job EXCEPT !.phase = "add", !.n = @ - take]
    /\ UNCHANGED <<sem_vars, effective_cap, acc_available, used, base, max_base,
                   call_vars, conf_vars>>

\* ... and the rest is added (effective_cap is only read under the lock).
GrowAdd ==
    /\ JobRuns /\ job.phase = "add"
    /\ GiveAccount(job.slot, job.n, pc)
    /\ effective_cap' = [effective_cap EXCEPT ![job.slot] = NewCap(job.slot)]
    /\ job' = Locked("accounts", job.todo, 0)
    /\ UNCHANGED <<sem_vars, used, base, shrink_debt, max_base, slot_of, prev,
                   priority, keep, conf_vars>>

\* Down: available_permits() is read: that many are to be forgotten now ...
ShrinkRead ==
    /\ JobRuns /\ job.phase = "shrink"
    /\ job' = [job EXCEPT !.phase = "forget",
                          !.n = AtMost(@, acc_available[job.slot])]
    /\ UNCHANGED <<sem_vars, slot_vars, call_vars, conf_vars>>

\* A bug: the whole decrease becomes debt, what was forgotten included.
ShrinkForgetTwice ==
    /\ JobRuns /\ job.phase = "forget"
    /\ acc_available' = [acc_available EXCEPT ![job.slot] = @ - AtMost(job.n, @)]
    /\ job' = [job EXCEPT !.phase = "owe",
                          !.n = effective_cap[job.slot] - NewCap(job.slot)]
    /\ UNCHANGED <<sem_vars, effective_cap, used, base, shrink_debt, max_base,
                   call_vars, conf_vars>>

\* A bug: the free permits stay, the whole decrease becomes debt.
ShrinkForgetNothing ==
    /\ JobRuns /\ job.phase = "forget"
    /\ job' = [job EXCEPT !.phase = "owe",
                          !.n = effective_cap[job.slot] - NewCap(job.slot)]
    /\ UNCHANGED <<sem_vars, slot_vars, call_vars, conf_vars>>

\* ... forget_permits takes what is there of them by then ...
ShrinkForget ==
    /\ JobRuns /\ job.phase = "forget"
    /\ acc_available' = [acc_available EXCEPT ![job.slot] = @ - AtMost(job.n, @)]
    /\ job' = [job EXCEPT !.phase = "owe",
                          !.n = effective_cap[job.slot] - NewCap(job.slot) - @]
    /\ UNCHANGED <<sem_vars, effective_cap, used, base, shrink_debt, max_base,
                   call_vars, conf_vars>>

\* ... and the rest of the decrease, fixed at the read, becomes debt.
ShrinkOwe ==
    /\ JobRuns /\ job.phase = "owe"
    /\ shrink_debt' = [shrink_debt EXCEPT ![job.slot] = @ + job.n]
    /\ effective_cap' = [effective_cap EXCEPT ![job.slot] = NewCap(job.slot)]
    /\ job' = Locked("accounts", job.todo, 0)
    /\ UNCHANGED <<sem_vars, acc_available, used, base, max_base, call_vars, conf_vars>>

Unlock ==
    /\ JobRuns /\ job.phase = "accounts" /\ job.todo = {}
    /\ job' = NoJob
    /\ UNCHANGED <<sem_vars, slot_vars, call_vars, conf_vars>>

-----------------------------------------------------------------------------
Drop(c) == PayDebt(c) \/ Uncount(c) \/ ReturnAccount(c) \/ ReturnGlobal(c)

Progress(c) ==
    \/ EnterAccount(c) \/ CountUsed(c) \/ RequestGlobal(c) \/ ReceiveGlobal(c)
    \/ Drop(c) \/ SpawnedRelease(c)

CallStep(c) ==
    LookUp(c) \/ Progress(c) \/ CancelAccount(c) \/ CancelGlobal(c)

Mutate == ChangeCaps \/ AddAccount \/ RemoveAccount \/ SwapBudget

Recompute ==
    \/ ResizeGlobal \/ VisitAccount \/ GrowCancelDebt \/ GrowAdd
    \/ ShrinkRead \/ ShrinkForget \/ ShrinkOwe \/ Unlock

Next == (\E c \in Calls : CallStep(c)) \/ Mutate \/ Recompute

Spec == Init /\ [][Next]_vars

\* The runtime polls every woken task (its run queue is first in, first out, so
\* that on one thread a stream of other work does not keep a task out: strong
\* fairness); a transfer ends (timeouts) and drops its permit; the lock holder
\* finishes.  No request, cancellation or change has to come.
Fairness ==
    /\ WF_vars(Recompute)
    /\ \A c \in Calls : SF_vars(Progress(c))

FairSpec == Spec /\ Fairness

-----------------------------------------------------------------------------
(***************************************************************************)
(* Properties.                                                             *)
(***************************************************************************)
\* The composition never drives the global semaphore outside its own protocol:
\* what is proved of PrioritySemaphore (grants within the budget, strict order,
\* no lost permit) holds of the scheduler's machine-wide limit.
ImplementsSemaphore == GlobalSem!Spec

\* The budget the algorithm divides is the capacity of the semaphore that
\* enforces it, whenever the lock is free (no double add or forget).
BudgetIsCapacity == job.phase # "resize" => capacity = machine_budget

\* `used` counts exactly the requests between fetch_add and fetch_sub, also when
\* a future is dropped on the global semaphore: no leak and no underflow.
UsedIsExact == \A s \in Slots : used[s] = Cardinality(Counted(s))

\* acquire_chunk_permit's comment: only the first `base` requests of an account
\* go P0.  At most the largest base the slot has had are in flight as P0.
P0WithinBase ==
    \A s \in Slots :
        Cardinality({c \in Counted(s) : pc[c] \in {"global", "transfer", "uncount"}
                                          /\ priority[c] = "P0"}) <= max_base[s]

\* Real capacity of an account's semaphore: permits free plus permits out.
RealCapacity(s) == acc_available[s] + Cardinality(Holders(s))

\* No permit of an account is ever lost: the real capacity is at least what the
\* scheduler believes plus what is still owed, even when a shrink races with
\* requests and drops.
AccountNeverShort ==
    \A s \in Registered :
        job.slot # s => RealCapacity(s) >= effective_cap[s] + shrink_debt[s]

\* AccountSlot.effective_cap's documented invariant, once no debt is owed and no
\* recompute is under way: it is the semaphore's total capacity.
EffectiveCapIsCapacity ==
    job = NoJob => \A s \in Registered :
        shrink_debt[s] = 0 => effective_cap[s] = RealCapacity(s)

\* The account's risk line: no request is let in by the account semaphore while
\* the account's permits out are already at the cap in force (a shrink stops new
\* requests at once although it revokes nothing).
Entering(s) ==
    {c \in Calls : slot_of'[c] = s /\ pc[c] \in {"looked", "account"} /\ pc'[c] = "entered"}

EntersWithinCap ==
    [][\A s \in Slots :
        Entering(s) # {} => Cardinality(Holders(s)') <= effective_cap'[s]]_vars

\* The module doc's machine limit, taken literally: the sum of `used` is at most M
\* once every request that was in flight under a larger M is back.
SumUsedWithinBudget ==
    forgotten = 0 /\ job = NoJob => SumFunction(used) <= machine_budget

\* The debt of a shrink is paid by the drops of the permits that were out.
ShrinkTakesEffect == \A s \in Slots : shrink_debt[s] > 0 ~> shrink_debt[s] = 0
=============================================================================
