-------------------------- MODULE PrioritySemaphore --------------------------
(***************************************************************************)
(* backend/src/downloader/priority_semaphore.rs: the two-level priority    *)
(* semaphore that bounds how many chunks the whole machine transfers.      *)
(*                                                                         *)
(* A call is one acquire() future together with the permit it returns.     *)
(* Every critical section of `inner` (a tokio Mutex held with no await     *)
(* inside) is one action.  A permit or a wake token dropped while another  *)
(* task holds the mutex is given back by a task spawned for it, at any     *)
(* later moment: the call is then "returning".                             *)
(***************************************************************************)
EXTENDS Integers, Sequences, FiniteSets

CONSTANTS
    Calls,        \* identities of acquire() calls; an identity is reused once
                  \* its permit is back and its queue entry is gone
    InitPermits,  \* the argument of PrioritySemaphore::new
    MinCapacity,  \* bound: the capacity is never taken below this
    MaxCapacity   \* bound: the capacity is never raised above this

ASSUME CapacityAssumption ==
    /\ InitPermits \in Nat
    /\ MinCapacity \in Int
    /\ MaxCapacity \in Int

ASSUME CallsAssumption == IsFiniteSet(Calls)

Priority == {"P0", "P1"}

VARIABLES
    available,   \* Inner.available
    forgotten,   \* Inner.forgotten: permits to destroy when they come back
    p0_waiters,  \* Inner.p0_waiters, oldest first; a cancelled waiter stays in it
    p1_waiters,  \* Inner.p1_waiters
    state,       \* where each call is
    capacity     \* history: permits created minus permits destroyed, what the
                 \* callers of new, add_permits and forget_permits asked for

vars == <<available, forgotten, p0_waiters, p1_waiters, state, capacity>>

(***************************************************************************)
(* The states of a call.                                                   *)
(*   idle       no future and no permit                                    *)
(*   waiting    its Waiter is queued and its receiver is alive             *)
(*   dead       the future was dropped, its Waiter is still queued         *)
(*   token      a WakeToken was sent to it and it has not run since        *)
(*   held       it has its PriorityPermit                                  *)
(*   returning  permit or token dropped, its release task is spawned       *)
(***************************************************************************)
CallState == {"idle", "waiting", "dead", "token", "held", "returning"}

Owning == {"token", "held", "returning"}

\* The calls a permit is with: in a guard, in a token, or in a release task.
Owners == {c \in Calls : state[c] \in Owning}

\* The order in which try_wake_one_with_inner pops: all of P0, then all of P1.
Queue == p0_waiters \o p1_waiters

Queued(q) == {q[i] : i \in 1..Len(q)}

Live(q) == {c \in Queued(q) : state[c] = "waiting"}

TypeOK ==
    /\ available \in Nat
    /\ forgotten \in Nat
    /\ p0_waiters \in Seq(Calls)
    /\ p1_waiters \in Seq(Calls)
    /\ state \in [Calls -> CallState]
    /\ capacity \in Int

Init ==
    /\ available = InitPermits
    /\ forgotten = 0
    /\ p0_waiters = << >>
    /\ p1_waiters = << >>
    /\ state = [c \in Calls |-> "idle"]
    /\ capacity = InitPermits

-----------------------------------------------------------------------------
(***************************************************************************)
(* Giving permits back.                                                    *)
(***************************************************************************)
\* A bug: popping n entries removes only n - 1 of them.
DropOneLess(q, n) == IF n >= Len(q) THEN q ELSE SubSeq(q, n, Len(q))

DropFirst(q, n) == IF n >= Len(q) THEN << >> ELSE SubSeq(q, n + 1, Len(q))

\* The calls woken when the first m entries of the queue are popped.
Woken(m) == {c \in Calls : state[c] = "waiting" /\ \E i \in 1..m : Queue[i] = c}

\* Popping m entries is what repeated try_wake_one_with_inner does with n
\* permits: it stops at the n-th live waiter, or when the queue is empty.
Pops(m, n) ==
    /\ Cardinality(Woken(m)) <= n
    /\ Cardinality(Woken(m)) < n => m = Len(Queue)
    /\ Cardinality(Woken(m)) = n /\ m > 0 => state[Queue[m]] = "waiting"

\* The state of each call once the first m entries are popped, `from` being the
\* call whose permit or token goes away (or none of them).
AfterPop(m, from) ==
    [c \in Calls |->
        IF c \in Woken(m) THEN "token"
        ELSE IF c \in from \/ \E i \in 1..m : Queue[i] = c THEN "idle"
        ELSE state[c]]

Smaller(a, b) == IF a <= b THEN a ELSE b

\* A bug: the permits go to waiters although a debt is owed.
GiveBackInDebt(n, from) ==
    /\ forgotten' = forgotten
    /\ \E m \in 0..Len(Queue) :
        /\ Pops(m, n)
        /\ available' = available + n - Cardinality(Woken(m))
        /\ state' = AfterPop(m, from)
        /\ p0_waiters' = DropFirst(p0_waiters, m)
        /\ p1_waiters' = IF m <= Len(p0_waiters) THEN p1_waiters
                         ELSE DropFirst(p1_waiters, m - Len(p0_waiters))

\* n permits come back: they cancel the forgotten debt first, then go straight
\* to waiters, and only what nobody waits for becomes available.  This is
\* release_one for n = 1 and add_permits(n) in general.
GiveBack(n, from) ==
    LET paid == Smaller(n, forgotten)
        rest == n - paid
    IN  /\ forgotten' = forgotten - paid
        /\ \E m \in 0..Len(Queue) :
            /\ Pops(m, rest)
            /\ available' = available + rest - Cardinality(Woken(m))
            /\ state' = AfterPop(m, from)
            /\ p0_waiters' = DropFirst(p0_waiters, m)
            /\ p1_waiters' = IF m <= Len(p0_waiters) THEN p1_waiters
                             ELSE DropFirst(p1_waiters, m - Len(p0_waiters))

-----------------------------------------------------------------------------
(***************************************************************************)
(* acquire(priority)                                                       *)
(***************************************************************************)
\* A bug: the conditions are bracketed the other way round.
CanFastBarging(p) == p = "P0" \/ (available > 0 /\ p0_waiters = << >>)

\* P1 takes a free permit only while no P0 entry is queued.
CanFast(p) == available > 0 /\ (p = "P0" \/ p0_waiters = << >>)

AcquireFast(c, p) ==
    /\ state[c] = "idle"
    /\ CanFast(p)
    /\ available' = available - 1
    /\ state' = [state EXCEPT ![c] = "held"]
    /\ UNCHANGED <<forgotten, p0_waiters, p1_waiters, capacity>>

Enqueue(c, p) ==
    /\ p0_waiters' = IF p = "P0" THEN Append(p0_waiters, c) ELSE p0_waiters
    /\ p1_waiters' = IF p = "P1" THEN Append(p1_waiters, c) ELSE p1_waiters

AcquireSlow(c, p) ==
    /\ state[c] = "idle"
    /\ ~CanFast(p)
    /\ Enqueue(c, p)
    /\ state' = [state EXCEPT ![c] = "waiting"]
    /\ UNCHANGED <<available, forgotten, capacity>>

Acquire(c, p) == AcquireFast(c, p) \/ AcquireSlow(c, p)

\* rx.await yields the token: it is consumed and the PriorityPermit is built.
Receive(c) ==
    /\ state[c] = "token"
    /\ state' = [state EXCEPT ![c] = "held"]
    /\ UNCHANGED <<available, forgotten, p0_waiters, p1_waiters, capacity>>

\* The future is dropped at rx.await before a token was sent.
CancelWaiting(c) ==
    /\ state[c] = "waiting"
    /\ state' = [state EXCEPT ![c] = "dead"]
    /\ UNCHANGED <<available, forgotten, p0_waiters, p1_waiters, capacity>>

\* WakeToken::drop and PriorityPermit::drop with try_lock succeeding: a token
\* of a future dropped before it ran, or the permit of a call that is done.
DropNow(c) ==
    /\ state[c] \in {"token", "held"}
    /\ GiveBack(1, {c})
    /\ UNCHANGED capacity

\* A bug: nothing is spawned when try_lock fails, and the permit is gone.
DropUnlocked(c) ==
    /\ state[c] \in {"token", "held"}
    /\ state' = [state EXCEPT ![c] = "idle"]
    /\ UNCHANGED <<available, forgotten, p0_waiters, p1_waiters, capacity>>

\* The same two drops with the mutex taken: the release is spawned.
DropLater(c) ==
    /\ state[c] \in {"token", "held"}
    /\ state' = [state EXCEPT ![c] = "returning"]
    /\ UNCHANGED <<available, forgotten, p0_waiters, p1_waiters, capacity>>

\* A bug: the release task puts the permit back and wakes nobody.
SilentRelease(c) ==
    /\ state[c] = "returning"
    /\ state' = [state EXCEPT ![c] = "idle"]
    /\ available' = available + 1
    /\ UNCHANGED <<forgotten, p0_waiters, p1_waiters, capacity>>

\* The spawned task gets the mutex.
SpawnedRelease(c) ==
    /\ state[c] = "returning"
    /\ GiveBack(1, {c})
    /\ UNCHANGED capacity

\* PriorityPermit::forget: the permit is destroyed with its guard.
Forget(c) ==
    /\ state[c] = "held"
    /\ capacity > MinCapacity
    /\ state' = [state EXCEPT ![c] = "idle"]
    /\ capacity' = capacity - 1
    /\ UNCHANGED <<available, forgotten, p0_waiters, p1_waiters>>

\* A bug: new permits become available without a look at the queues.
AddSilently(n) ==
    /\ capacity + n <= MaxCapacity
    /\ available' = available + n
    /\ capacity' = capacity + n
    /\ UNCHANGED <<forgotten, p0_waiters, p1_waiters, state>>

AddPermits(n) ==
    /\ capacity + n <= MaxCapacity
    /\ GiveBack(n, {})
    /\ capacity' = capacity + n

\* A bug: what is free is taken without a limit.
ForgetTooMany(n) ==
    /\ capacity - n >= MinCapacity
    /\ available' = available - n
    /\ capacity' = capacity - n
    /\ UNCHANGED <<forgotten, p0_waiters, p1_waiters, state>>

ForgetPermits(n) ==
    /\ capacity - n >= MinCapacity
    /\ LET take == Smaller(n, available)
       IN  /\ available' = available - take
           /\ forgotten' = forgotten + (n - take)
    /\ capacity' = capacity - n
    /\ UNCHANGED <<p0_waiters, p1_waiters, state>>

Step(c) ==
    \/ \E p \in Priority : Acquire(c, p)
    \/ Receive(c)
    \/ CancelWaiting(c)
    \/ DropNow(c)
    \/ DropLater(c)
    \/ SpawnedRelease(c)
    \/ Forget(c)

Resize == \E n \in 1..(MaxCapacity - MinCapacity) : AddPermits(n) \/ ForgetPermits(n)

Next == (\E c \in Calls : Step(c)) \/ Resize

Spec == Init /\ [][Next]_vars

\* A woken future is polled, a permit is dropped when its chunk ends (every
\* download has a timeout), and a spawned release task runs.  Nothing forces a
\* new acquire, a cancellation or a resize.
Fairness ==
    \A c \in Calls :
        /\ WF_vars(Receive(c))
        /\ WF_vars(state[c] = "held" /\ (DropNow(c) \/ DropLater(c)))
        /\ WF_vars(SpawnedRelease(c))

FairSpec == Spec /\ Fairness

-----------------------------------------------------------------------------
(***************************************************************************)
(* Safety.                                                                 *)
(***************************************************************************)
\* No permit is lost or invented, whatever is cancelled, deferred, added or
\* forgotten: what is free and what is with a call is the capacity asked for
\* plus the debt still to be collected (module doc, "cancellation safety").
PermitsConserved == available + Cardinality(Owners) = capacity + forgotten

\* No wake-up is lost: a free permit means that nobody is queued, in either
\* queue, so that a call never sleeps beside a permit it could have.
NoIdlePermitWhileQueued == available > 0 => Queue = << >>

\* The shrink debt is collected from free permits first.
DebtOnlyWhenExhausted == forgotten > 0 => available = 0

\* A queue entry belongs to exactly one waiting (or cancelled) call.
QueueWellFormed ==
    /\ \A i, j \in 1..Len(Queue) : Queue[i] = Queue[j] => i = j
    /\ \A c \in Calls : c \in Queued(Queue) <=> state[c] \in {"waiting", "dead"}

(***************************************************************************)
(* Action properties.                                                      *)
(***************************************************************************)
\* A permit is granted only within the capacity in force at that moment, the
\* forgotten ones included: a shrink stops new grants until the calls in
\* flight are back under the new capacity.
Granted == {c \in Calls : state[c] \notin Owning /\ state'[c] \in Owning}

GrantWithinCapacity == [][Granted # {} => Cardinality(Owners') <= capacity']_vars

\* No grant overtakes: when a call is granted a permit, no live waiter stays
\* queued ahead of it (every P0 is ahead of every P1, older ahead of newer),
\* and a newcomer takes a free permit only when no live waiter is queued.
Ahead(a, b) ==
    \E i, j \in 1..Len(Queue) : i < j /\ Queue[i] = a /\ Queue[j] = b

NoOvertaking ==
    [][\A b \in Granted :
        \A a \in Live(Queue) \ Granted :
            b \in Live(Queue) /\ ~Ahead(a, b)]_vars

(***************************************************************************)
(* Liveness.                                                               *)
(***************************************************************************)
\* A P0 waiter leaves the queue: with a permit, or cancelled by its owner.
P0Served ==
    \A c \in Calls :
        (state[c] = "waiting" /\ c \in Queued(p0_waiters)) ~> state[c] # "waiting"

\* A shrink takes effect: the debt is paid by the calls that were in flight.
DebtCollected == forgotten > 0 ~> forgotten = 0

=============================================================================
