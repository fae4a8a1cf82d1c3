----------------------- MODULE PrioritySemaphoreProofs -----------------------
(***************************************************************************)
(* Safety of the priority semaphore for any set of calls and any capacity. *)
(* The inductive invariant relates the counters, the queues and the calls: *)
(* conservation of permits needs the queue to be well formed (an entry     *)
(* popped twice would wake a call that already owns a permit), and the     *)
(* capacity theorem needs the two facts about when permits are free.       *)
(***************************************************************************)
EXTENDS PrioritySemaphore, FiniteSetTheorems, TLAPS

Inv ==
    /\ TypeOK
    /\ PermitsConserved
    /\ NoIdlePermitWhileQueued
    /\ DebtOnlyWhenExhausted
    /\ QueueWellFormed

\* What the second queue keeps when m entries are popped from a, then from b.
RestOf(a, b, m) == IF m <= Len(a) THEN b ELSE DropFirst(b, m - Len(a))

\* Popping the first m entries of a \o b from the two queues separately leaves
\* the rest of a \o b, in order (try_wake_one_with_inner pops P0 before P1).
LEMMA PopBoth ==
    ASSUME NEW a \in Seq(Calls), NEW b \in Seq(Calls), NEW m \in 0..Len(a \o b)
    PROVE  /\ DropFirst(a, m) \in Seq(Calls)
           /\ RestOf(a, b, m) \in Seq(Calls)
           /\ Len(DropFirst(a, m) \o RestOf(a, b, m)) = Len(a \o b) - m
           /\ \A i \in 1..Len(DropFirst(a, m) \o RestOf(a, b, m)) :
                 (DropFirst(a, m) \o RestOf(a, b, m))[i] = (a \o b)[i + m]
  <1> USE DEF RestOf
  <1>1. CASE m < Len(a)
    <2>1. DropFirst(a, m) = SubSeq(a, m + 1, Len(a))
      BY <1>1 DEF DropFirst
    <2>2. m <= Len(a)
      BY <1>1
    <2>3. /\ SubSeq(a, m + 1, Len(a)) \in Seq(Calls)
          /\ Len(SubSeq(a, m + 1, Len(a))) = Len(a) - m
          /\ \A i \in 1..(Len(a) - m) : SubSeq(a, m + 1, Len(a))[i] = a[i + m]
      BY <1>1
    <2> QED
      BY <1>1, <2>1, <2>2, <2>3
  <1>2. CASE m = Len(a)
    <2>1. DropFirst(a, m) = << >>
      BY <1>2 DEF DropFirst
    <2> QED
      BY <1>2, <2>1
  <1>3. CASE m > Len(a)
    <2>1. DropFirst(a, m) = << >> /\ ~(m <= Len(a))
      BY <1>3 DEF DropFirst
    <2>2. CASE m - Len(a) = Len(b)
      <3>1. DropFirst(b, m - Len(a)) = << >>
        BY <2>2 DEF DropFirst
      <3> QED
        BY <1>3, <2>1, <2>2, <3>1
    <2>3. CASE m - Len(a) < Len(b)
      <3>1. DropFirst(b, m - Len(a)) = SubSeq(b, m - Len(a) + 1, Len(b))
        BY <2>3, <1>3 DEF DropFirst
      <3>2. /\ SubSeq(b, m - Len(a) + 1, Len(b)) \in Seq(Calls)
            /\ Len(SubSeq(b, m - Len(a) + 1, Len(b))) = Len(b) - (m - Len(a))
            /\ \A i \in 1..(Len(b) - (m - Len(a))) :
                  SubSeq(b, m - Len(a) + 1, Len(b))[i] = b[i + (m - Len(a))]
        BY <1>3, <2>3
      <3> DEFINE b2 == DropFirst(b, m - Len(a))
      <3>3. /\ b2 \in Seq(Calls) /\ Len(b2) = Len(b) - (m - Len(a))
            /\ \A i \in 1..Len(b2) : b2[i] = b[i + (m - Len(a))]
        BY <3>1, <3>2
      <3> HIDE DEF b2
      <3>4. << >> \o b2 = b2
        BY <3>3
      <3>5. ASSUME NEW i \in 1..Len(b2) PROVE b2[i] = (a \o b)[i + m]
        <4>1. i + m \in Nat /\ i + m > Len(a) /\ i + m <= Len(a) + Len(b)
          BY <1>3, <3>3, <3>5
        <4>2. (a \o b)[i + m] = b[(i + m) - Len(a)]
          BY <4>1
        <4>3. (i + m) - Len(a) = i + (m - Len(a))
          BY <1>3
        <4> QED
          BY <3>3, <3>5, <4>2, <4>3
      <3>6. Len(b2) = Len(a \o b) - m
        BY <3>3
      <3>7. DropFirst(a, m) = << >> /\ RestOf(a, b, m) = b2
        BY <2>1 DEF b2
      <3>8. DropFirst(a, m) \in Seq(Calls)
        BY <3>7
      <3>9. DropFirst(a, m) \o RestOf(a, b, m) = b2
        BY <3>4, <3>7
      <3> QED
        BY <3>3, <3>5, <3>6, <3>7, <3>8, <3>9
    <2>4. m - Len(a) = Len(b) \/ m - Len(a) < Len(b)
      BY <1>3
    <2> QED
      BY <2>2, <2>3, <2>4
  <1>4. m < Len(a) \/ m = Len(a) \/ m > Len(a)
    OBVIOUS
  <1> QED
    BY <1>1, <1>2, <1>3, <1>4

\* Finitely many calls own a permit.
LEMMA OwnersFinite ==
    /\ IsFiniteSet(Owners)
    /\ Cardinality(Owners) \in Nat
  BY CallsAssumption, FS_Subset, FS_CardinalityType DEF Owners

\* What giving back n permits does, `from` being the owners that give them up:
\* permits stay conserved, a free permit still means an empty queue, debt still
\* means no free permit, and a call is woken only when the debt is paid.
LEMMA GiveBackSafe ==
    ASSUME Inv, NEW n \in Nat, NEW from \in SUBSET Owners, IsFiniteSet(from),
           GiveBack(n, from)
    PROVE  /\ available' \in Nat
           /\ forgotten' \in Nat
           /\ p0_waiters' \in Seq(Calls)
           /\ p1_waiters' \in Seq(Calls)
           /\ state' \in [Calls -> CallState]
           /\ available' + Cardinality(Owners') =
                 capacity + forgotten' + n - Cardinality(from)
           /\ NoIdlePermitWhileQueued'
           /\ DebtOnlyWhenExhausted'
           /\ QueueWellFormed'
           /\ Granted # {} => forgotten' = 0
           /\ \A b \in Granted : \A a \in Live(Queue) \ Granted :
                 b \in Live(Queue) /\ ~Ahead(a, b)
  <1> DEFINE paid == Smaller(n, forgotten)
  <1> DEFINE rest == n - paid
  <1>1. /\ paid \in Nat /\ rest \in Nat
        /\ forgotten' = forgotten - paid /\ forgotten' \in Nat
        /\ rest > 0 => forgotten' = 0
        /\ forgotten' > 0 => forgotten > 0 /\ rest = 0
        /\ paid + rest = n
    BY DEF GiveBack, Smaller, Inv, TypeOK
  <1>2. PICK m \in 0..Len(Queue) :
            /\ Pops(m, rest)
            /\ available' = available + rest - Cardinality(Woken(m))
            /\ state' = AfterPop(m, from)
            /\ p0_waiters' = DropFirst(p0_waiters, m)
            /\ p1_waiters' = IF m <= Len(p0_waiters) THEN p1_waiters
                             ELSE DropFirst(p1_waiters, m - Len(p0_waiters))
    BY DEF GiveBack
  <1> DEFINE W == Woken(m)
  <1> HIDE DEF paid, rest
  <1>3. /\ Queue \in Seq(Calls)
        /\ p0_waiters \in Seq(Calls) /\ p1_waiters \in Seq(Calls)
    BY DEF Inv, TypeOK, Queue
  <1>4. /\ p0_waiters' \in Seq(Calls)
        /\ p1_waiters' \in Seq(Calls)
        /\ Len(Queue') = Len(Queue) - m
        /\ \A i \in 1..Len(Queue') : Queue'[i] = Queue[i + m]
    <2>1. m \in 0..Len(p0_waiters \o p1_waiters)
      BY DEF Queue
    <2>2. Queue' = p0_waiters' \o p1_waiters'
      BY DEF Queue
    <2> DEFINE a2 == DropFirst(p0_waiters, m)
    <2> DEFINE b2 == RestOf(p0_waiters, p1_waiters, m)
    <2>3. /\ a2 \in Seq(Calls)
          /\ b2 \in Seq(Calls)
          /\ Len(a2 \o b2) = Len(p0_waiters \o p1_waiters) - m
          /\ \A i \in 1..Len(a2 \o b2) :
                (a2 \o b2)[i] = (p0_waiters \o p1_waiters)[i + m]
      BY <1>3, <2>1, PopBoth
    <2>4. p0_waiters' = a2 /\ p1_waiters' = b2
      BY <1>2 DEF RestOf
    <2> HIDE DEF a2, b2
    <2> QED
      BY <2>2, <2>3, <2>4 DEF Queue
  <1>5. IsFiniteSet(W) /\ Cardinality(W) \in Nat /\ W \subseteq Calls
    BY CallsAssumption, FS_Subset, FS_CardinalityType DEF Woken
  <1>6. Cardinality(W) <= rest /\ (Cardinality(W) < rest => m = Len(Queue))
    BY <1>2 DEF Pops
  <1>7. \A c \in Calls : /\ c \in W => state[c] = "waiting"
                         /\ c \in from => state[c] \in Owning
                         /\ (\E i \in 1..m : Queue[i] = c) =>
                               state[c] \in {"waiting", "dead"}
    <2>1. \A i \in 1..m : Queue[i] \in Queued(Queue)
      BY <1>3 DEF Queued
    <2>2. \A c \in Calls : c \in Queued(Queue) => state[c] \in {"waiting", "dead"}
      BY DEF Inv, QueueWellFormed
    <2>3. \A c \in W : state[c] = "waiting"
      BY DEF Woken
    <2>4. \A c \in from : state[c] \in Owning
      BY DEF Owners
    <2> QED
      BY <2>1, <2>2, <2>3, <2>4
  <1>8. /\ state' \in [Calls -> CallState]
        /\ \A c \in Calls :
              state'[c] = IF c \in W THEN "token"
                          ELSE IF c \in from \/ \E i \in 1..m : Queue[i] = c THEN "idle"
                          ELSE state[c]
    BY <1>2 DEF AfterPop, Inv, TypeOK, CallState
  <1>9. Owners' = (Owners \ from) \cup W
    BY <1>7, <1>8, <1>5 DEF Owners, Owning
  <1>10. Cardinality(Owners') = Cardinality(Owners) - Cardinality(from) + Cardinality(W)
    <2>1. from \cap Owners = from /\ Owners \cap from = from
      OBVIOUS
    <2>2. (Owners \ from) \cap W = {}
      BY <1>7, <1>5 DEF Owners, Owning
    <2>3. /\ IsFiniteSet(Owners \ from)
          /\ Cardinality(Owners \ from) = Cardinality(Owners) - Cardinality(from)
      <3>1. IsFiniteSet(Owners)
        BY OwnersFinite
      <3>2. /\ IsFiniteSet(Owners \ from)
            /\ Cardinality(Owners \ from) =
                  Cardinality(Owners) - Cardinality(Owners \cap from)
        BY <3>1, FS_Difference, Zenon
      <3> QED
        BY <2>1, <3>2
    <2>4. Cardinality((Owners \ from) \cup W) =
             Cardinality(Owners \ from) + Cardinality(W) - Cardinality({})
      BY <2>2, <2>3, <1>5, FS_Union
    <2>5. Cardinality(Owners) \in Nat /\ Cardinality(from) \in Nat
      BY OwnersFinite, FS_CardinalityType
    <2> QED
      BY <1>5, <1>9, <2>3, <2>4, <2>5, FS_EmptySet
  <1>11. available' \in Nat
    BY <1>1, <1>2, <1>5, <1>6 DEF Inv, TypeOK
  <1>12. available' + Cardinality(Owners') =
            capacity + forgotten' + n - Cardinality(from)
    <2>1. Cardinality(Owners) \in Nat /\ Cardinality(from) \in Nat
      BY OwnersFinite, FS_CardinalityType
    <2>2. available' + Cardinality(Owners') =
              available + rest + Cardinality(Owners) - Cardinality(from)
      BY <1>1, <1>2, <1>5, <1>10, <2>1 DEF Inv, TypeOK
    <2>3. available + Cardinality(Owners) = capacity + forgotten
      BY DEF Inv, PermitsConserved
    <2>4. forgotten = forgotten' + paid
      BY <1>1 DEF Inv, TypeOK
    <2>5. available \in Nat /\ capacity \in Int /\ forgotten \in Nat
      BY DEF Inv, TypeOK
    <2>6. available + rest + Cardinality(Owners) - Cardinality(from)
             = capacity + (forgotten' + paid) + rest - Cardinality(from)
      BY <1>1, <2>1, <2>3, <2>4, <2>5
    <2>7. capacity + (forgotten' + paid) + rest - Cardinality(from)
             = capacity + forgotten' + n - Cardinality(from)
      BY <1>1, <2>1, <2>5
    <2> QED
      BY <2>2, <2>6, <2>7
  <1>13. NoIdlePermitWhileQueued'
    <2>1. SUFFICES ASSUME available' > 0 PROVE Len(Queue') = 0
      BY <1>3, <1>4 DEF NoIdlePermitWhileQueued, Queue
    <2>2. CASE available > 0
      <3>1. Queue = << >>
        BY <2>2 DEF Inv, NoIdlePermitWhileQueued
      <3> QED
        BY <3>1, <1>4
    <2>3. CASE available = 0
      BY <1>1, <1>2, <1>3, <1>4, <1>5, <1>6, <2>1, <2>3
    <2> QED
      BY <2>2, <2>3 DEF Inv, TypeOK
  <1>14. DebtOnlyWhenExhausted'
    <2>1. SUFFICES ASSUME forgotten' > 0 PROVE available' = 0
      BY DEF DebtOnlyWhenExhausted
    <2>2. available = 0 /\ rest = 0
      BY <1>1, <2>1 DEF Inv, DebtOnlyWhenExhausted
    <2> QED
      BY <1>2, <1>5, <1>6, <2>2
  <1>15. QueueWellFormed'
    <2>1. ASSUME NEW i \in 1..Len(Queue'), NEW j \in 1..Len(Queue'),
                 Queue'[i] = Queue'[j]
          PROVE  i = j
      <3>1. i + m \in 1..Len(Queue) /\ j + m \in 1..Len(Queue)
        BY <1>3, <1>4
      <3>2. Queue[i + m] = Queue[j + m]
        BY <1>4, <2>1
      <3>3. i + m = j + m
        BY <3>1, <3>2 DEF Inv, QueueWellFormed
      <3> QED
        BY <3>3
    <2>2. ASSUME NEW c \in Calls, NEW i \in 1..Len(Queue'), Queue'[i] = c
          PROVE  state'[c] \in {"waiting", "dead"}
      <3>1. i + m \in 1..Len(Queue) /\ Queue[i + m] = c
        BY <1>3, <1>4, <2>2
      <3>2. ASSUME NEW j \in 1..m, Queue[j] = c PROVE FALSE
        <4>1. \A k, l \in 1..Len(Queue) : Queue[k] = Queue[l] => k = l
          BY DEF Inv, QueueWellFormed
        <4>2. j \in 1..Len(Queue) /\ i + m \in 1..Len(Queue) /\ j # i + m
          BY <1>3, <3>1
        <4> QED
          BY <3>1, <3>2, <4>1, <4>2
      <3>3. state[c] \in {"waiting", "dead"}
        BY <3>1 DEF Inv, QueueWellFormed, Queued
      <3>4. c \notin W
        BY <3>2 DEF Woken
      <3>5. c \notin from
        BY <3>3 DEF Owners, Owning
      <3> QED
        BY <3>2, <3>3, <3>4, <3>5, <1>8
    <2>3. ASSUME NEW c \in Calls, state'[c] \in {"waiting", "dead"}
          PROVE  \E i \in 1..Len(Queue') : Queue'[i] = c
      <3>1. /\ state'[c] = state[c]
            /\ \A j \in 1..m : Queue[j] # c
        BY <1>8, <2>3
      <3>2. PICK k \in 1..Len(Queue) : Queue[k] = c
        BY <2>3, <3>1 DEF Inv, QueueWellFormed, Queued
      <3>3. k > m
        BY <3>1, <3>2
      <3>4. k - m \in 1..Len(Queue')
        BY <3>2, <3>3, <1>3, <1>4
      <3>5. (k - m) + m = k
        BY <3>2
      <3>6. Queue'[k - m] = c
        BY <3>2, <3>4, <3>5, <1>4
      <3> QED
        BY <3>4, <3>6
    <2> QED
      BY <2>1, <2>2, <2>3 DEF QueueWellFormed, Queued
  <1>16. Granted # {} => forgotten' = 0
    <2>1. SUFFICES ASSUME NEW c \in Granted PROVE forgotten' = 0
      OBVIOUS
    <2>2. c \in W
      BY <1>8 DEF Granted, Owning
    <2>3. Cardinality(W) # 0
      BY <2>2, <1>5, FS_EmptySet
    <2>4. rest > 0
      BY <2>3, <1>5, <1>6, <1>1
    <2> QED
      BY <2>4, <1>1
  <1>17. ASSUME NEW b \in Granted, NEW a \in Live(Queue) \ Granted
         PROVE  b \in Live(Queue) /\ ~Ahead(a, b)
    <2>1. b \in W /\ b \in Calls
      BY <1>8, <1>17 DEF Granted, Owning
    <2>2. PICK j \in 1..m : Queue[j] = b
      BY <2>1 DEF Woken
    <2>3. j \in 1..Len(Queue)
      BY <1>3, <2>2
    <2>4. b \in Live(Queue)
      BY <1>7, <2>1, <2>2, <2>3 DEF Live, Queued
    <2>5. a \in Calls /\ state[a] = "waiting"
      BY <1>3, <1>17 DEF Live, Queued
    <2>6. a \notin W
      BY <1>8, <1>17, <2>5 DEF Granted, Owning
    <2>7. \A i \in 1..m : Queue[i] # a
      BY <2>5, <2>6 DEF Woken
    <2>8. ~Ahead(a, b)
      <3>1. SUFFICES ASSUME NEW i \in 1..Len(Queue), NEW k \in 1..Len(Queue),
                            i < k, Queue[i] = a, Queue[k] = b
                     PROVE  FALSE
        BY DEF Ahead
      <3>2. k = j
        BY <2>2, <2>3, <3>1 DEF Inv, QueueWellFormed
      <3>3. i \in 1..m
        BY <2>2, <3>1, <3>2, <1>3
      <3> QED
        BY <2>7, <3>1, <3>3
    <2> QED
      BY <2>4, <2>8
  <1> QED
    BY <1>1, <1>4, <1>8, <1>11, <1>12, <1>13, <1>14, <1>15, <1>16, <1>17

\* The invariant and both action properties' bodies, for one step.
Safe ==
    /\ Granted # {} => Cardinality(Owners') <= capacity'
    /\ \A b \in Granted : \A a \in Live(Queue) \ Granted :
          b \in Live(Queue) /\ ~Ahead(a, b)

\* The invariant holds at the start.
LEMMA InitEstablishesInv ==
    ASSUME Init
    PROVE  Inv
  <1>1. Queue = << >>
    BY DEF Init, Queue
  <1>2. Owners = {} /\ Cardinality(Owners) = 0
    BY FS_EmptySet DEF Init, Owners, Owning
  <1>3. TypeOK
    BY CapacityAssumption DEF Init, TypeOK, CallState
  <1> QED
    BY <1>1, <1>2, <1>3, CapacityAssumption
       DEF Init, Inv, PermitsConserved, NoIdlePermitWhileQueued,
           DebtOnlyWhenExhausted, QueueWellFormed, Queued

\* A step that moves one call from one state to another, without touching the
\* queues: the queue stays well formed when neither state is a queued one, or
\* both are.
LEMMA MoveKeepsQueue ==
    ASSUME Inv, NEW c \in Calls, NEW s \in CallState,
           state' = [state EXCEPT ![c] = s],
           state[c] \in {"waiting", "dead"} <=> s \in {"waiting", "dead"},
           UNCHANGED <<p0_waiters, p1_waiters>>
    PROVE  QueueWellFormed' /\ Queue' = Queue /\ state' \in [Calls -> CallState]
  <1>1. Queue' = Queue
    BY DEF Queue
  <1>2. state' \in [Calls -> CallState]
    BY DEF Inv, TypeOK
  <1>3. \A d \in Calls : state'[d] = IF d = c THEN s ELSE state[d]
    BY DEF Inv, TypeOK
  <1>4. QueueWellFormed'
    BY <1>1, <1>3 DEF Inv, QueueWellFormed, Queued
  <1> QED
    BY <1>1, <1>2, <1>4

\* A call that becomes an owner adds one to the owners, one that stops being an
\* owner takes one away, and any other move leaves them as they are.
LEMMA MoveOwners ==
    ASSUME Inv, NEW c \in Calls, NEW s \in CallState,
           state' = [state EXCEPT ![c] = s]
    PROVE  /\ s \in Owning /\ state[c] \notin Owning =>
                 Cardinality(Owners') = Cardinality(Owners) + 1
           /\ s \notin Owning /\ state[c] \in Owning =>
                 Cardinality(Owners') = Cardinality(Owners) - 1
           /\ (s \in Owning <=> state[c] \in Owning) =>
                 Cardinality(Owners') = Cardinality(Owners)
  <1>1. \A d \in Calls : state'[d] = IF d = c THEN s ELSE state[d]
    BY DEF Inv, TypeOK
  <1>2. Cardinality(Owners) \in Nat
    BY OwnersFinite
  <1>3. CASE s \in Owning
    <2>1. Owners' = Owners \cup {c}
      BY <1>1, <1>3 DEF Owners
    <2>2. c \in Owners <=> state[c] \in Owning
      BY DEF Owners
    <2>3. Cardinality(Owners \cup {c}) =
             IF c \in Owners THEN Cardinality(Owners) ELSE Cardinality(Owners) + 1
      BY OwnersFinite, FS_AddElement
    <2> QED
      BY <1>2, <1>3, <2>1, <2>2, <2>3
  <1>4. CASE s \notin Owning
    <2>1. Owners' = Owners \ {c}
      BY <1>1, <1>4 DEF Owners
    <2>2. c \in Owners <=> state[c] \in Owning
      BY DEF Owners
    <2>3. Cardinality(Owners \ {c}) =
             IF c \in Owners THEN Cardinality(Owners) - 1 ELSE Cardinality(Owners)
      BY OwnersFinite, FS_RemoveElement
    <2> QED
      BY <1>2, <1>4, <2>1, <2>2, <2>3
  <1> QED
    BY <1>3, <1>4

-----------------------------------------------------------------------------
\* A step that grants nothing satisfies both action properties.
LEMMA NoGrantIsSafe ==
    ASSUME Granted = {}
    PROVE  Safe
  BY DEF Safe

\* acquire: a permit taken at once leaves the pool, a call that has to wait
\* joins the end of one queue.
LEMMA AcquireSafe ==
    ASSUME Inv, NEW c \in Calls, NEW p \in Priority, Acquire(c, p)
    PROVE  Inv' /\ Safe
  <1>1. CASE AcquireFast(c, p)
    <2>1. /\ state[c] = "idle" /\ available > 0
          /\ available' = available - 1
          /\ state' = [state EXCEPT ![c] = "held"]
          /\ UNCHANGED <<forgotten, p0_waiters, p1_waiters, capacity>>
      BY <1>1 DEF AcquireFast, CanFast
    <2>2. QueueWellFormed' /\ Queue' = Queue /\ state' \in [Calls -> CallState]
      <3>1. "held" \in CallState
        BY DEF CallState
      <3> QED
        BY <2>1, <3>1, MoveKeepsQueue
    <2>3. Queue = << >> /\ forgotten = 0
      BY <2>1 DEF Inv, TypeOK, NoIdlePermitWhileQueued, DebtOnlyWhenExhausted
    <2>4. Cardinality(Owners') = Cardinality(Owners) + 1
      <3>1. /\ "held" \in CallState /\ "held" \in Owning
            /\ state[c] \notin Owning
        BY <2>1 DEF CallState, Owning
      <3> QED
        BY <2>1, <3>1, MoveOwners
    <2>5. TypeOK'
      BY <2>1, <2>2 DEF Inv, TypeOK
    <2>6. PermitsConserved'
      BY <2>1, <2>4, OwnersFinite DEF Inv, TypeOK, PermitsConserved
    <2>7. NoIdlePermitWhileQueued' /\ DebtOnlyWhenExhausted'
      BY <2>1, <2>2, <2>3 DEF NoIdlePermitWhileQueued, DebtOnlyWhenExhausted
    <2>8. Cardinality(Owners') <= capacity'
      BY <2>1, <2>3, <2>4, <2>6, OwnersFinite DEF Inv, TypeOK, PermitsConserved
    <2>9. Live(Queue) = {}
      BY <2>3 DEF Live, Queued
    <2> QED
      BY <2>2, <2>5, <2>6, <2>7, <2>8, <2>9 DEF Inv, Safe
  <1>2. CASE AcquireSlow(c, p)
    <2>1. /\ state[c] = "idle" /\ ~CanFast(p)
          /\ state' = [state EXCEPT ![c] = "waiting"]
          /\ Enqueue(c, p)
          /\ UNCHANGED <<available, forgotten, capacity>>
      BY <1>2 DEF AcquireSlow
    <2>2. available = 0
      <3>1. available > 0 => p0_waiters = << >>
        <4>1. available > 0 => Len(Queue) = 0
          BY DEF Inv, NoIdlePermitWhileQueued
        <4> QED
          BY <4>1 DEF Inv, TypeOK, Queue
      <3> QED
        BY <2>1, <3>1 DEF CanFast, Inv, TypeOK
    <2>3. "waiting" \in CallState /\ "waiting" \notin Owning
          /\ state[c] \notin Owning
      BY <2>1 DEF CallState, Owning
    <2>4. Cardinality(Owners') = Cardinality(Owners)
      BY <2>1, <2>3, MoveOwners
    <2>5. \A d \in Calls : state'[d] = IF d = c THEN "waiting" ELSE state[d]
      BY <2>1 DEF Inv, TypeOK
    <2>6. TypeOK'
      BY <2>1, <2>3 DEF Inv, TypeOK, Enqueue
    <2>7. /\ \A i \in 1..Len(Queue) : Queue[i] # c
          /\ Queue \in Seq(Calls)
      BY <2>1 DEF Inv, QueueWellFormed, Queued, TypeOK, Queue
    <2>8. QueueWellFormed'
      <3>1. CASE p = "P1"
        <4>1. Queue' = Append(Queue, c)
          BY <2>1, <3>1 DEF Enqueue, Queue, Inv, TypeOK
        <4>2. \A i, j \in 1..Len(Queue') : Queue'[i] = Queue'[j] => i = j
          BY <2>7, <4>1 DEF Inv, QueueWellFormed
        <4>3. \A d \in Calls : d \in Queued(Queue') <=> (d \in Queued(Queue) \/ d = c)
          BY <2>7, <4>1 DEF Queued
        <4> QED
          BY <2>5, <4>2, <4>3 DEF Inv, QueueWellFormed
      <3>2. CASE p = "P0"
        <4> DEFINE k == Len(p0_waiters) + 1
        <4>1. /\ Queue' = Append(p0_waiters, c) \o p1_waiters
              /\ p0_waiters \in Seq(Calls) /\ p1_waiters \in Seq(Calls)
          BY <2>1, <3>2 DEF Enqueue, Queue, Inv, TypeOK
        <4>2. /\ k \in 1..Len(Queue') /\ Len(Queue') = Len(Queue) + 1
              /\ Queue'[k] = c
              /\ \A i \in 1..Len(Queue') :
                    /\ i < k => i \in 1..Len(Queue) /\ Queue'[i] = Queue[i]
                    /\ i > k => i - 1 \in 1..Len(Queue) /\ Queue'[i] = Queue[i - 1]
          BY <4>1 DEF Queue
        <4>3. \A i \in 1..Len(Queue) :
                    /\ i < k => i \in 1..Len(Queue') /\ Queue'[i] = Queue[i]
                    /\ i >= k => i + 1 \in 1..Len(Queue') /\ Queue'[i + 1] = Queue[i]
          BY <4>1 DEF Queue
        <4>4. k \in Nat
          BY <4>1
        <4> HIDE DEF k
        <4>5. ASSUME NEW i \in 1..Len(Queue'), NEW j \in 1..Len(Queue'),
                     Queue'[i] = Queue'[j]
              PROVE  i = j
          <5>1. \A x, y \in 1..Len(Queue) : Queue[x] = Queue[y] => x = y
            BY DEF Inv, QueueWellFormed
          <5>2. i # k => Queue'[i] # c
            <6>1. CASE i < k
              BY <2>7, <4>2, <6>1
            <6>2. CASE i > k
              BY <2>7, <4>2, <6>2
            <6> QED
              BY <4>4, <6>1, <6>2
          <5>3. j # k => Queue'[j] # c
            <6>1. CASE j < k
              BY <2>7, <4>2, <6>1
            <6>2. CASE j > k
              BY <2>7, <4>2, <6>2
            <6> QED
              BY <4>4, <6>1, <6>2
          <5>4. CASE i = k \/ j = k
            BY <4>2, <4>5, <5>2, <5>3, <5>4
          <5>5. CASE i < k /\ j < k
            BY <4>2, <4>5, <5>1, <5>5
          <5>6. CASE i < k /\ j > k
            <6>1. /\ i \in 1..Len(Queue) /\ j - 1 \in 1..Len(Queue)
                  /\ Queue[i] = Queue[j - 1]
              BY <4>2, <4>5, <5>6
            <6>2. i # j - 1
              BY <4>4, <4>5, <5>6, <6>1, <5>1, <4>2
            <6> QED
              BY <5>1, <6>1, <6>2
          <5>7. CASE i > k /\ j < k
            <6>1. /\ i - 1 \in 1..Len(Queue) /\ j \in 1..Len(Queue)
                  /\ Queue[i - 1] = Queue[j]
              BY <4>2, <4>5, <5>7
            <6>2. i - 1 # j
              BY <4>4, <5>7
            <6> QED
              BY <5>1, <6>1, <6>2
          <5>8. CASE i > k /\ j > k
            <6>1. /\ i - 1 \in 1..Len(Queue) /\ j - 1 \in 1..Len(Queue)
                  /\ Queue[i - 1] = Queue[j - 1]
              BY <4>2, <4>5, <5>8
            <6>2. i - 1 = j - 1
              BY <5>1, <6>1
            <6> QED
              BY <6>2
          <5> QED
            BY <4>4, <5>4, <5>5, <5>6, <5>7, <5>8
        <4>6. \A d \in Calls : d \in Queued(Queue') <=> (d \in Queued(Queue) \/ d = c)
          <5>1. ASSUME NEW i \in 1..Len(Queue') PROVE Queue'[i] \in Queued(Queue) \cup {c}
            <6>1. CASE i = k
              BY <4>2, <6>1
            <6>2. CASE i < k
              BY <4>2, <6>2 DEF Queued
            <6>3. CASE i > k
              BY <4>2, <6>3 DEF Queued
            <6> QED
              BY <4>4, <6>1, <6>2, <6>3
          <5>2. ASSUME NEW i \in 1..Len(Queue) PROVE Queue[i] \in Queued(Queue')
            <6>1. CASE i < k
              BY <4>3, <6>1 DEF Queued
            <6>2. CASE i >= k
              BY <4>3, <6>2 DEF Queued
            <6> QED
              BY <4>4, <6>1, <6>2
          <5>3. c \in Queued(Queue')
            BY <4>2 DEF Queued
          <5> QED
            BY <5>1, <5>2, <5>3 DEF Queued
        <4> QED
          BY <2>5, <4>5, <4>6 DEF Inv, QueueWellFormed
      <3> QED
        BY <3>1, <3>2 DEF Priority
    <2>9. PermitsConserved' /\ NoIdlePermitWhileQueued' /\ DebtOnlyWhenExhausted'
      BY <2>1, <2>2, <2>4
         DEF Inv, PermitsConserved, NoIdlePermitWhileQueued, DebtOnlyWhenExhausted
    <2>10. Granted = {}
      BY <2>3, <2>5 DEF Granted
    <2> QED
      BY <2>6, <2>8, <2>9, <2>10, NoGrantIsSafe DEF Inv
  <1> QED
    BY <1>1, <1>2 DEF Acquire

\* The moves of one call that touch neither the counters nor the queues: a token
\* received, a waiter cancelled, a release deferred to a spawned task.
LEMMA MoveSafe ==
    ASSUME Inv, NEW c \in Calls,
           Receive(c) \/ CancelWaiting(c) \/ DropLater(c)
    PROVE  Inv' /\ Safe
  <1>1. PICK s \in CallState :
            /\ state' = [state EXCEPT ![c] = s]
            /\ state[c] \in Owning <=> s \in Owning
            /\ state[c] \in {"waiting", "dead"} <=> s \in {"waiting", "dead"}
            /\ UNCHANGED <<available, forgotten, p0_waiters, p1_waiters, capacity>>
    <2>1. CASE Receive(c)
      BY <2>1 DEF Receive, CallState, Owning
    <2>2. CASE CancelWaiting(c)
      BY <2>2 DEF CancelWaiting, CallState, Owning
    <2>3. CASE DropLater(c)
      BY <2>3 DEF DropLater, CallState, Owning
    <2> QED
      BY <2>1, <2>2, <2>3
  <1>2. Cardinality(Owners') = Cardinality(Owners)
    BY <1>1, MoveOwners
  <1>3. QueueWellFormed' /\ Queue' = Queue /\ state' \in [Calls -> CallState]
    BY <1>1, MoveKeepsQueue
  <1>4. Granted = {}
    BY <1>1 DEF Granted, Inv, TypeOK
  <1> QED
    BY <1>1, <1>2, <1>3, <1>4, NoGrantIsSafe
       DEF Inv, TypeOK, PermitsConserved, NoIdlePermitWhileQueued, DebtOnlyWhenExhausted

\* release_one, from a drop or from a spawned task.
LEMMA ReleaseSafe ==
    ASSUME Inv, NEW c \in Calls, DropNow(c) \/ SpawnedRelease(c)
    PROVE  Inv' /\ Safe
  <1>1. /\ c \in Owners /\ GiveBack(1, {c}) /\ capacity' = capacity
    BY DEF DropNow, SpawnedRelease, Owners, Owning
  <1>2. {c} \in SUBSET Owners /\ IsFiniteSet({c}) /\ Cardinality({c}) = 1 /\ 1 \in Nat
    BY <1>1, FS_Singleton
  <1>3. /\ available' \in Nat /\ forgotten' \in Nat
        /\ p0_waiters' \in Seq(Calls) /\ p1_waiters' \in Seq(Calls)
        /\ state' \in [Calls -> CallState]
        /\ available' + Cardinality(Owners') = capacity + forgotten' + 1 - 1
        /\ NoIdlePermitWhileQueued' /\ DebtOnlyWhenExhausted' /\ QueueWellFormed'
        /\ Granted # {} => forgotten' = 0
        /\ \A b \in Granted : \A a \in Live(Queue) \ Granted :
              b \in Live(Queue) /\ ~Ahead(a, b)
    BY <1>1, <1>2, GiveBackSafe
  <1>4. capacity \in Int
    BY DEF Inv, TypeOK
  <1>5. PermitsConserved' /\ TypeOK'
    BY <1>1, <1>3, <1>4 DEF PermitsConserved, TypeOK
  <1>6. Cardinality(Owners') \in Nat
    BY OwnersFinite, CallsAssumption, FS_Subset, FS_CardinalityType DEF Owners
  <1>7. Safe
    BY <1>3, <1>5, <1>6 DEF Safe, PermitsConserved, TypeOK
  <1> QED
    BY <1>3, <1>5, <1>7 DEF Inv

\* add_permits: the same release, with the capacity raised by as much.
LEMMA AddPermitsSafe ==
    ASSUME Inv, NEW n \in Nat, AddPermits(n)
    PROVE  Inv' /\ Safe
  <1>1. GiveBack(n, {}) /\ capacity' = capacity + n
    BY DEF AddPermits
  <1>2. {} \in SUBSET Owners /\ IsFiniteSet({}) /\ Cardinality({}) = 0
    BY FS_EmptySet
  <1>3. /\ available' \in Nat /\ forgotten' \in Nat
        /\ p0_waiters' \in Seq(Calls) /\ p1_waiters' \in Seq(Calls)
        /\ state' \in [Calls -> CallState]
        /\ available' + Cardinality(Owners') = capacity + forgotten' + n - 0
        /\ NoIdlePermitWhileQueued' /\ DebtOnlyWhenExhausted' /\ QueueWellFormed'
        /\ Granted # {} => forgotten' = 0
        /\ \A b \in Granted : \A a \in Live(Queue) \ Granted :
              b \in Live(Queue) /\ ~Ahead(a, b)
    BY <1>1, <1>2, GiveBackSafe
  <1>4. capacity \in Int
    BY DEF Inv, TypeOK
  <1>5. PermitsConserved' /\ TypeOK'
    BY <1>1, <1>3, <1>4 DEF PermitsConserved, TypeOK
  <1>6. Cardinality(Owners') \in Nat
    BY CallsAssumption, FS_Subset, FS_CardinalityType DEF Owners
  <1>7. Safe
    BY <1>3, <1>5, <1>6 DEF Safe, PermitsConserved, TypeOK
  <1> QED
    BY <1>3, <1>5, <1>7 DEF Inv

\* forget_permits and PriorityPermit::forget: permits leave, nobody is woken.
LEMMA ForgetSafe ==
    ASSUME Inv,
           (\E n \in Nat : ForgetPermits(n)) \/ (\E c \in Calls : Forget(c))
    PROVE  Inv' /\ Safe
  <1>1. ASSUME NEW n \in Nat, ForgetPermits(n)
        PROVE  Inv' /\ Safe
    <2>1. /\ UNCHANGED <<p0_waiters, p1_waiters, state>>
          /\ capacity' = capacity - n
          /\ available' = available - Smaller(n, available)
          /\ forgotten' = forgotten + (n - Smaller(n, available))
      BY <1>1 DEF ForgetPermits
    <2>2. Owners' = Owners /\ Queue' = Queue /\ Granted = {}
      BY <2>1 DEF Owners, Queue, Granted
    <2>3. TypeOK'
      BY <2>1 DEF Inv, TypeOK, Smaller
    <2>4. PermitsConserved' /\ DebtOnlyWhenExhausted'
      <3> DEFINE take == Smaller(n, available)
      <3>1. /\ take \in Nat /\ available \in Nat /\ forgotten \in Nat
            /\ take < n => take = available
            /\ take <= n /\ take <= available /\ capacity \in Int
        BY DEF Inv, TypeOK, Smaller
      <3> HIDE DEF take
      <3>2. PermitsConserved'
        BY <2>1, <2>2, <3>1, OwnersFinite DEF Inv, PermitsConserved, take
      <3>3. DebtOnlyWhenExhausted'
        <4>1. available' = available - take /\ forgotten' = forgotten + (n - take)
          BY <2>1 DEF take
        <4>2. CASE take < n
          BY <3>1, <4>1, <4>2 DEF DebtOnlyWhenExhausted
        <4>3. CASE take = n
          <5>1. forgotten' = forgotten
            BY <3>1, <4>1, <4>3
          <5>2. available = 0 => available' = 0
            BY <3>1, <4>1
          <5> QED
            BY <5>1, <5>2 DEF Inv, DebtOnlyWhenExhausted
        <4> QED
          BY <3>1, <4>2, <4>3
      <3> QED
        BY <3>2, <3>3
    <2>5. NoIdlePermitWhileQueued'
      BY <2>1, <2>2 DEF Inv, TypeOK, NoIdlePermitWhileQueued, Smaller
    <2>6. QueueWellFormed'
      BY <2>1, <2>2 DEF Inv, QueueWellFormed, Queued
    <2> QED
      BY <2>2, <2>3, <2>4, <2>5, <2>6, NoGrantIsSafe DEF Inv
  <1>2. ASSUME NEW c \in Calls, Forget(c)
        PROVE  Inv' /\ Safe
    <2>1. /\ state[c] = "held" /\ state' = [state EXCEPT ![c] = "idle"]
          /\ capacity' = capacity - 1
          /\ UNCHANGED <<available, forgotten, p0_waiters, p1_waiters>>
      BY <1>2 DEF Forget
    <2>2. /\ "idle" \in CallState /\ "idle" \notin Owning
          /\ state[c] \in Owning
      BY <2>1 DEF CallState, Owning
    <2>3. Cardinality(Owners') = Cardinality(Owners) - 1
      BY <2>1, <2>2, MoveOwners
    <2>4. QueueWellFormed' /\ Queue' = Queue /\ state' \in [Calls -> CallState]
      BY <2>1, <2>2, MoveKeepsQueue
    <2>5. Granted = {}
      BY <2>1, <2>2 DEF Granted, Inv, TypeOK
    <2>6. TypeOK'
      BY <2>1, <2>4 DEF Inv, TypeOK
    <2>7. PermitsConserved'
      <3>1. /\ available + Cardinality(Owners) = capacity + forgotten
            /\ available \in Nat /\ forgotten \in Nat /\ capacity \in Int
        BY DEF Inv, TypeOK, PermitsConserved
      <3> QED
        BY <2>1, <2>3, <3>1, OwnersFinite DEF PermitsConserved
    <2>8. NoIdlePermitWhileQueued' /\ DebtOnlyWhenExhausted'
      BY <2>1, <2>4 DEF Inv, NoIdlePermitWhileQueued, DebtOnlyWhenExhausted
    <2> QED
      BY <2>4, <2>5, <2>6, <2>7, <2>8, NoGrantIsSafe DEF Inv
  <1> QED
    BY <1>1, <1>2

\* Every step keeps the invariant and satisfies both action properties.
LEMMA StepSafe ==
    ASSUME Inv, [Next]_vars
    PROVE  Inv' /\ Safe
  <1>1. ASSUME NEW c \in Calls, Step(c)
        PROVE  Inv' /\ Safe
    <2>1. CASE \E p \in Priority : Acquire(c, p)
      BY <2>1, AcquireSafe
    <2>2. CASE Receive(c) \/ CancelWaiting(c) \/ DropLater(c)
      BY <2>2, MoveSafe
    <2>3. CASE DropNow(c) \/ SpawnedRelease(c)
      BY <2>3, ReleaseSafe
    <2>4. CASE Forget(c)
      BY <2>4, ForgetSafe
    <2> QED
      BY <1>1, <2>1, <2>2, <2>3, <2>4 DEF Step
  <1>2. CASE Resize
    <2>1. PICK n \in 1..(MaxCapacity - MinCapacity) : AddPermits(n) \/ ForgetPermits(n)
      BY <1>2 DEF Resize
    <2>2. n \in Nat
      BY CapacityAssumption
    <2> QED
      BY <2>1, <2>2, AddPermitsSafe, ForgetSafe
  <1>3. CASE UNCHANGED vars
    <2>1. Owners' = Owners /\ Queue' = Queue /\ Granted = {}
      BY <1>3 DEF vars, Owners, Queue, Granted
    <2> QED
      BY <1>3, <2>1, NoGrantIsSafe
         DEF vars, Inv, TypeOK, PermitsConserved, NoIdlePermitWhileQueued,
             DebtOnlyWhenExhausted, QueueWellFormed, Queued
  <1> QED
    BY <1>1, <1>2, <1>3 DEF Next

\* The invariant holds in every state.
LEMMA InvHolds == Spec => []Inv
  <1>1. Init => Inv
    BY InitEstablishesInv
  <1>2. Inv /\ [Next]_vars => Inv'
    BY StepSafe
  <1> QED
    BY <1>1, <1>2, PTL DEF Spec

\* Type correctness of the semaphore's state.
THEOREM TypeCorrect == Spec => []TypeOK
  <1>1. Inv => TypeOK
    BY DEF Inv
  <1> QED
    BY <1>1, InvHolds, PTL

\* Cancellation, deferred release, growth and shrink neither lose a permit nor
\* invent one, for any number of calls and any capacity.
THEOREM Conservation == Spec => []PermitsConserved
  <1>1. Inv => PermitsConserved
    BY DEF Inv
  <1> QED
    BY <1>1, InvHolds, PTL

\* No call is ever left queued beside a free permit.
THEOREM NoLostWakeup == Spec => []NoIdlePermitWhileQueued
  <1>1. Inv => NoIdlePermitWhileQueued
    BY DEF Inv
  <1> QED
    BY <1>1, InvHolds, PTL

\* A grant never takes the number of owners above the capacity in force, even
\* while a shrink is still waiting for permits to come back.
THEOREM GrantsBounded == Spec => GrantWithinCapacity
  <1>1. Inv /\ [Next]_vars =>
           [Granted # {} => Cardinality(Owners') <= capacity']_vars
    BY StepSafe DEF Safe
  <1> QED
    BY <1>1, InvHolds, PTL DEF Spec, GrantWithinCapacity

\* Strict order: P0 before P1, first come first served within a priority.
THEOREM StrictOrder == Spec => NoOvertaking
  <1>1. Inv /\ [Next]_vars =>
           [\A b \in Granted :
               \A a \in Live(Queue) \ Granted :
                   b \in Live(Queue) /\ ~Ahead(a, b)]_vars
    BY StepSafe DEF Safe
  <1> QED
    BY <1>1, InvHolds, PTL DEF Spec, NoOvertaking

=============================================================================
