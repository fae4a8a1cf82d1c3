----------------------------- MODULE PoolsProofs -----------------------------
(***************************************************************************)
(* Proofs about the task slots, the chunk slot ids and the split of the    *)
(* machine budget, as the behaviours of MCPools have them, for any tasks,  *)
(* callers, transfers, accounts, weights and bounds.                       *)
(***************************************************************************)
EXTENDS MCPools, FiniteSetTheorems, TLAPS

-----------------------------------------------------------------------------
(* The invariant.                                                          *)

\* Who holds a slot and of which type it is: what is borrowed is a folder's and cannot be
\* evicted, a file has one slot and a fixed one, which is no older than its last progress.
Holding ==
    /\ \A k \in DOMAIN slots :
         /\ slots[k].slot_type = "Borrowed" => slots[k].task_id \in Folders /\ slots[k].priority = Normal
         /\ slots[k].task_id \in Files => slots[k].age <= silent[slots[k].task_id]
    /\ \A j, k \in DOMAIN slots : slots[j].task_id \in Files /\ slots[j].task_id = slots[k].task_id => j = k

SlotsInv == TypeOK /\ SlotsOrdered /\ Holding

\* The caller that has the pool to itself still knows the limit.
LimitKnown == \A c \in Callers : job[c].pc = "loaded" => job[c].max = max_slots

\* A record that is not written yet names what the folder has; a record of what a folder has
\* no more is about to be erased.
Struck(f, i) ==
    \E c \in Callers : \/ job[c].pc = "strike" /\ job[c].folder = f /\ i \in job[c].ids
                       \/ job[c].pc = "forget" /\ f \in job[c].tasks
Recorded ==
    /\ \A c \in Callers : job[c].pc = "record" => job[c].ids \subseteq BorrowedBy(job[c].folder)
    /\ \A f \in Folders : \A i \in borrowed_map[f] : i \in BorrowedBy(f) \/ Struck(f, i)

OneBusy  == \A c, d \in Busy : c = d
AloneInv == alone => OneBusy /\ LimitCovered /\ LimitKnown /\ Recorded

IdsInv == ChunkIds!TypeOK /\ ChunkIds!StackClean /\ ChunkIds!NoSlotLost

\* A base or a wish per account.
Figures == [Accounts -> Nat]

\* The inputs of a split are numbers, a request is between one and the cap, and the result is
\* that of these inputs.
SharesInv ==
    /\ m \in Nat /\ cap \in Figures /\ requested \in Figures /\ weight \in Figures
    /\ \A a \in Accounts : requested[a] \in 1..cap[a]
    /\ result = Shares!None \/ result = Shares!Shares(m, cap, requested, weight)

PoolsInv == alone \in BOOLEAN /\ SlotsInv /\ AloneInv /\ IdsInv /\ SharesInv

-----------------------------------------------------------------------------
(* Vectors                                                                 *)

\* A numbering without repetition of a finite set uses every number.
LEMMA NumbersAll ==
    ASSUME NEW P, IsFiniteSet(P), NEW r \in [P -> 1..Cardinality(P)],
           \A j, k \in P : r[j] = r[k] => j = k
    PROVE  \A n \in 1..Cardinality(P) : \E k \in P : r[k] = n
<1>1. r \in Injection(P, 1..Cardinality(P))
  BY DEF Injection, IsInjective
<1>2. Cardinality(P) \in Nat
  BY FS_CardinalityType
<1>3. IsFiniteSet(1..Cardinality(P)) /\ Cardinality(1..Cardinality(P)) = Cardinality(P)
  BY <1>2, FS_Interval
<1>4. r \in Surjection(P, 1..Cardinality(P))
  BY <1>1, <1>3, FS_Injection
<1> QED BY <1>4 DEF Surjection

\* The members of a set of positions up to one of them, as a number.
LEMMA RankGrows ==
    ASSUME NEW P, IsFiniteSet(P), NEW Below, NEW Above, Below \subseteq Above,
           Above \subseteq P, NEW x \in Above \ Below
    PROVE  /\ Cardinality(Below) \in Nat /\ Cardinality(Above) \in 1..Cardinality(P)
           /\ Cardinality(Below) < Cardinality(Above)
<1>1. IsFiniteSet(Above) /\ Cardinality(Above) <= Cardinality(P)
  BY FS_Subset
<1>2. IsFiniteSet(Below) /\ Cardinality(Below) <= Cardinality(Above)
  BY <1>1, FS_Subset
<1>3. Cardinality(Below) # Cardinality(Above)
  BY <1>1, FS_Subset
<1>4. Cardinality(P) \in Nat /\ Cardinality(Above) \in Nat /\ Cardinality(Below) \in Nat
  BY <1>1, <1>2, FS_CardinalityType
<1> QED BY <1>1, <1>2, <1>3, <1>4

\* Nth counts the positions off in their order.
LEMMA NthCounts ==
    ASSUME NEW P \in SUBSET Nat, IsFiniteSet(P)
    PROVE  /\ \A n \in 1..Cardinality(P) : Nth(P, n) \in P
           /\ \A k \in P : \E n \in 1..Cardinality(P) : Nth(P, n) = k
           /\ \A i, n \in 1..Cardinality(P) : i < n => Nth(P, i) < Nth(P, n)
<1> DEFINE Upto(k) == {j \in P : j <= k}
           r == [k \in P |-> Cardinality(Upto(k))]
<1>1. ASSUME NEW j \in P, NEW k \in P, j < k
      PROVE  r[j] < r[k]
  <2>0. j \in Nat /\ k \in Nat /\ \A i \in P : i \in Nat
    OBVIOUS
  <2>3. k <= k /\ ~(k <= j) /\ \A i \in P : i <= j => i <= k
    BY <1>1, <2>0
  <2>1. Upto(j) \subseteq Upto(k) /\ Upto(k) \subseteq P /\ k \in Upto(k) \ Upto(j)
    BY <2>3, Zenon
  <2>2. Cardinality(Upto(j)) < Cardinality(Upto(k))
    BY <2>1, RankGrows
  <2> QED BY <2>2
<1>2. r \in [P -> 1..Cardinality(P)]
  <2> SUFFICES ASSUME NEW k \in P PROVE Cardinality(Upto(k)) \in 1..Cardinality(P)
    OBVIOUS
  <2>1. {} \subseteq Upto(k) /\ Upto(k) \subseteq P /\ k \in Upto(k) \ {}
    OBVIOUS
  <2> QED BY <2>1, RankGrows
<1>3. \A j, k \in P : r[j] = r[k] => j = k
  BY <1>1, <1>2
<1>4. \A n \in 1..Cardinality(P) : \E k \in P : r[k] = n
  <2> HIDE DEF r
  <2> QED BY <1>2, <1>3, NumbersAll
<1>5. \A n \in 1..Cardinality(P) : Nth(P, n) \in P /\ r[Nth(P, n)] = n
  BY <1>4 DEF Nth
<1>6. \A k \in P : Nth(P, r[k]) = k
  BY <1>2, <1>3, <1>5
<1> HIDE DEF r
<1>7. ASSUME NEW i \in 1..Cardinality(P), NEW n \in 1..Cardinality(P), i < n
      PROVE  Nth(P, i) < Nth(P, n)
  <2>1. Nth(P, i) \in Nat /\ Nth(P, n) \in Nat /\ r[Nth(P, i)] = i /\ r[Nth(P, n)] = n
    BY <1>5
  <2>2. ~(Nth(P, n) < Nth(P, i)) /\ Nth(P, n) # Nth(P, i)
    BY <1>1, <1>5, <1>7, <2>1
  <2> QED BY <2>1, <2>2
<1> QED BY <1>2, <1>5, <1>6, <1>7

\* So does it the positions of a vector.
LEMMA NthOf ==
    ASSUME NEW S, NEW s \in Seq(S), NEW P \in SUBSET DOMAIN s
    PROVE  /\ Cardinality(P) \in Nat
           /\ \A n \in 1..Cardinality(P) : Nth(P, n) \in P
           /\ \A k \in P : \E n \in 1..Cardinality(P) : Nth(P, n) = k
           /\ \A i, n \in 1..Cardinality(P) : i < n => Nth(P, i) < Nth(P, n)
<1>1. DOMAIN s = 1..Len(s) /\ Len(s) \in Nat
  OBVIOUS
<1>2. P \in SUBSET Nat /\ IsFiniteSet(P)
  <2>1. IsFiniteSet(1..Len(s)) /\ 1..Len(s) \subseteq Nat
    BY <1>1, FS_Interval
  <2> QED BY <1>1, <2>1, FS_Subset
<1>3. Cardinality(P) \in Nat
  BY <1>2, FS_CardinalityType
<1> QED BY <1>2, <1>3, NthCounts

\* The ids of a vector are distinct.
Distinct(s) == \A j, k \in DOMAIN s : s[j].id = s[k].id => j = k
Ascending(s) == \A j, k \in DOMAIN s : j < k => s[j].id < s[k].id

\* A vector with distinct ids is sorted in earnest, with the same slots.
LEMMA SortedById ==
    ASSUME NEW s \in Seq(TaskSlots), Distinct(s)
    PROVE  /\ ById(s) \in Seq(TaskSlots) /\ Ascending(ById(s))
           /\ \A k \in DOMAIN s : \E n \in DOMAIN ById(s) : ById(s)[n] = s[k]
           /\ \A n \in DOMAIN ById(s) : \E k \in DOMAIN s : ById(s)[n] = s[k]
<1> DEFINE P == DOMAIN s
           Before(k) == {j \in P : s[j].id < s[k].id \/ (s[j].id = s[k].id /\ j <= k)}
           r == [k \in P |-> Cardinality(Before(k))]
<1>1. P = 1..Len(s) /\ Len(s) \in Nat /\ IsFiniteSet(P) /\ Cardinality(P) = Len(s)
  <2>1. P = 1..Len(s) /\ Len(s) \in Nat
    OBVIOUS
  <2> QED BY <2>1, FS_Interval
<1>2. \A k \in P : k \in Nat /\ s[k] \in TaskSlots /\ s[k].id \in Int
  <2> SUFFICES ASSUME NEW k \in P PROVE k \in Nat /\ s[k] \in TaskSlots /\ s[k].id \in Int
    OBVIOUS
  <2>1. k \in Nat /\ s[k] \in TaskSlots
    BY <1>1
  <2> QED BY <2>1, PoolAssumption DEF TaskSlots, Ids
<1>3. ASSUME NEW j \in P, NEW k \in P, s[j].id < s[k].id
      PROVE  r[j] < r[k]
  <2>1. Before(j) \subseteq Before(k) /\ Before(k) \subseteq P /\ k \in Before(k) \ Before(j)
    BY <1>2, <1>3
  <2>2. Cardinality(Before(j)) < Cardinality(Before(k))
    BY <1>1, <2>1, RankGrows
  <2> QED BY <2>2
<1>4. r \in [P -> 1..Cardinality(P)]
  <2> SUFFICES ASSUME NEW k \in P PROVE Cardinality(Before(k)) \in 1..Cardinality(P)
    OBVIOUS
  <2>1. {} \subseteq Before(k) /\ Before(k) \subseteq P /\ k \in Before(k) \ {}
    BY <1>2
  <2> QED BY <1>1, <2>1, RankGrows
<1>5. \A j, k \in P : r[j] = r[k] => j = k
  <2> HIDE DEF r
  <2> SUFFICES ASSUME NEW j \in P, NEW k \in P, r[j] = r[k] PROVE j = k
    OBVIOUS
  <2>0. r[j] \in 1..Len(s) /\ r[k] \in 1..Len(s) /\ Len(s) \in Nat
    BY <1>1, <1>4
  <2>1. ~(r[j] < r[k]) /\ ~(r[k] < r[j])
    BY <2>0
  <2>2. ~(s[j].id < s[k].id) /\ ~(s[k].id < s[j].id)
    BY <1>3, <2>1
  <2>3. s[j].id = s[k].id
    BY <1>2, <2>2
  <2> QED BY <2>3 DEF Distinct
<1>6. \A n \in 1..Cardinality(P) : \E k \in P : r[k] = n
  <2>1. IsFiniteSet(P)
    BY <1>1
  <2> HIDE DEF r, P
  <2> QED BY <1>4, <1>5, <2>1, NumbersAll
<1> DEFINE e(n) == CHOOSE k \in P : Place(s, k) = n
<1>7. \A k \in P : Place(s, k) = r[k]
  BY DEF Place
<1> HIDE DEF r
<1>8. \A n \in P : e(n) \in P /\ r[e(n)] = n
  BY <1>1, <1>6, <1>7
<1>9. DOMAIN ById(s) = P /\ \A n \in P : ById(s)[n] = s[e(n)]
  BY DEF ById
<1> HIDE DEF e
<1>10. \A k \in P : r[k] \in P /\ e(r[k]) = k
  BY <1>1, <1>4, <1>5, <1>8
<1>11. ById(s) \in Seq(TaskSlots)
  <2>1. ById(s) = [n \in 1..Len(s) |-> s[e(n)]]
    BY <1>1 DEF ById, e
  <2>2. \A n \in 1..Len(s) : s[e(n)] \in TaskSlots
    BY <1>1, <1>2, <1>8
  <2> QED BY <1>1, <2>1, <2>2
<1>12. ASSUME NEW i \in P, NEW n \in P, i < n PROVE s[e(i)].id < s[e(n)].id
  <2>1. ~(s[e(n)].id < s[e(i)].id)
    BY <1>1, <1>3, <1>8, <1>12
  <2>2. s[e(n)].id # s[e(i)].id
    BY <1>1, <1>8, <1>12 DEF Distinct
  <2> QED BY <1>2, <1>8, <2>1, <2>2
<1>13. Ascending(ById(s))
  BY <1>9, <1>12 DEF Ascending
<1>14. \A k \in P : ById(s)[r[k]] = s[k]
  BY <1>9, <1>10
<1> QED BY <1>8, <1>9, <1>10, <1>11, <1>13, <1>14

-----------------------------------------------------------------------------
(* Changing the capacity                                                   *)

\* Slots that are in order have distinct ids.
LEMMA OrderedDistinct ==
    ASSUME NEW s \in Seq(TaskSlots), Ascending(s)
    PROVE  Distinct(s)
<1> SUFFICES ASSUME NEW j \in DOMAIN s, NEW k \in DOMAIN s, s[j].id = s[k].id PROVE j = k
  BY DEF Distinct
<1>1. j \in Int /\ k \in Int
  OBVIOUS
<1>2. s[j].id \in Int
  <2>1. s[j] \in TaskSlots
    OBVIOUS
  <2> QED BY <2>1, PoolAssumption DEF TaskSlots, Ids
<1>3. ~(j < k) /\ ~(k < j)
  BY <1>2 DEF Ascending
<1> QED BY <1>1, <1>3

\* A set as a sequence lists each member once.
LEMMA Listed ==
    ASSUME NEW F, IsFiniteSet(F)
    PROVE  /\ SetToSeq(F) \in Seq(F)
           /\ \A x \in F : \E n \in DOMAIN SetToSeq(F) : SetToSeq(F)[n] = x
           /\ \A j, k \in DOMAIN SetToSeq(F) : SetToSeq(F)[j] = SetToSeq(F)[k] => j = k
<1>1. Cardinality(F) \in Nat /\ ExistsBijection(1..Cardinality(F), F)
  BY FS_CardinalityType
<1>2. PICK g \in Bijection(1..Cardinality(F), F) : TRUE
  BY <1>1 DEF ExistsBijection
<1>3. g \in [1..Cardinality(F) -> F] /\ IsInjective(g)
  BY <1>2 DEF Bijection, Injection
<1>4. SetToSeq(F) \in [1..Cardinality(F) -> F] /\ IsInjective(SetToSeq(F))
  BY <1>3 DEF SetToSeq
<1>5. IsFiniteSet(1..Cardinality(F)) /\ Cardinality(1..Cardinality(F)) = Cardinality(F)
  BY <1>1, FS_Interval
<1>6. SetToSeq(F) \in Injection(1..Cardinality(F), F)
  BY <1>4 DEF Injection
<1>7. SetToSeq(F) \in Surjection(1..Cardinality(F), F)
  BY <1>5, <1>6, FS_Injection
<1>8. SetToSeq(F) \in Seq(F)
  BY <1>1, <1>4
<1> QED BY <1>4, <1>7, <1>8 DEF Surjection, IsInjective

\* A growth keeps the slots there are, and adds free ones with the ids it misses.
LEMMA GrownSlots ==
    ASSUME slots \in Seq(TaskSlots), SlotsOrdered, NEW old \in 1..MaxSlots, NEW new \in 1..MaxSlots
    PROVE  /\ Grown(old, new) \in Seq(TaskSlots) /\ Ascending(Grown(old, new))
           /\ \A k \in DOMAIN slots : \E n \in DOMAIN Grown(old, new) : Grown(old, new)[n] = slots[k]
           /\ \A n \in DOMAIN Grown(old, new) :
                 \/ \E k \in DOMAIN slots : Grown(old, new)[n] = slots[k]
                 \/ \E i \in Ids : Grown(old, new)[n] = FreeSlot(i)
           /\ \A i \in old..(new - 1) : \E n \in DOMAIN Grown(old, new) : Grown(old, new)[n].id = i
<1> DEFINE missing == {i \in old..(new - 1) : \A k \in DOMAIN slots : slots[k].id # i}
           F == {FreeSlot(i) : i \in missing}
           q == SetToSeq(F)
           v == slots \o q
<1>1. IsFiniteSet(missing)
  <2>1. IsFiniteSet(old..(new - 1))
    BY FS_Interval, PoolAssumption
  <2> QED BY <2>1, FS_Subset
<1>2. IsFiniteSet(F)
  <2>1. [i \in missing |-> FreeSlot(i)] \in Surjection(missing, F)
    BY DEF Surjection
  <2> QED BY <1>1, <2>1, FS_Surjection
<1>3. /\ q \in Seq(F)
      /\ \A x \in F : \E n \in DOMAIN q : q[n] = x
      /\ \A j, k \in DOMAIN q : q[j] = q[k] => j = k
  BY <1>2, Listed
<1>4. missing \subseteq Ids
  BY PoolAssumption DEF Ids
<1>5. \A i \in missing : FreeSlot(i) \in TaskSlots /\ FreeSlot(i).id = i
  BY <1>4, PoolAssumption DEF FreeSlot, TaskSlots, SlotTypes, Normal, SubTask, Backup
<1> HIDE DEF q, missing
<1>6. /\ v \in Seq(TaskSlots) /\ DOMAIN v = 1..(Len(slots) + Len(q))
      /\ \A k \in DOMAIN slots : k \in DOMAIN v /\ v[k] = slots[k]
      /\ \A n \in DOMAIN q : Len(slots) + n \in DOMAIN v /\ v[Len(slots) + n] = q[n]
      /\ \A k \in DOMAIN v : k \in DOMAIN slots \/ \E n \in DOMAIN q : k = Len(slots) + n
  <2>1. q \in Seq(TaskSlots)
    BY <1>3, <1>5
  <2>2. Len(slots) \in Nat /\ Len(q) \in Nat /\ DOMAIN slots = 1..Len(slots) /\ DOMAIN q = 1..Len(q)
    BY <2>1
  <2>3. v \in Seq(TaskSlots) /\ DOMAIN v = 1..(Len(slots) + Len(q))
    BY <2>1
  <2>4. \A k \in DOMAIN slots : k \in DOMAIN v /\ v[k] = slots[k]
    BY <2>1, <2>2
  <2>5. \A n \in DOMAIN q : Len(slots) + n \in DOMAIN v /\ v[Len(slots) + n] = q[n]
    BY <2>1, <2>2
  <2>6. ASSUME NEW k \in DOMAIN v, k \notin DOMAIN slots PROVE \E n \in DOMAIN q : k = Len(slots) + n
    <3>1. k - Len(slots) \in DOMAIN q /\ k = Len(slots) + (k - Len(slots))
      BY <2>2, <2>3, <2>6
    <3> QED BY <3>1
  <2> QED BY <2>3, <2>4, <2>5, <2>6
<1> HIDE DEF v
<1>7. \A n \in DOMAIN q : \E i \in missing : q[n] = FreeSlot(i)
  <2>1. \A n \in DOMAIN q : q[n] \in F
    BY <1>3
  <2> QED BY <2>1
<1>8. Distinct(slots)
  BY OrderedDistinct DEF SlotsOrdered, Ascending
<1>9. Distinct(v)
  <2> SUFFICES ASSUME NEW j \in DOMAIN v, NEW k \in DOMAIN v, v[j].id = v[k].id PROVE j = k
    BY DEF Distinct
  <2>1. CASE j \in DOMAIN slots /\ k \in DOMAIN slots
    BY <1>6, <1>8, <2>1 DEF Distinct
  <2>2. ASSUME NEW x \in DOMAIN slots, NEW n \in DOMAIN q PROVE slots[x].id # q[n].id
    BY <1>5, <1>7 DEF missing
  <2>3. ASSUME NEW l \in DOMAIN q, NEW n \in DOMAIN q, q[l].id = q[n].id PROVE l = n
    BY <1>3, <1>5, <1>7, <2>3
  <2> QED BY <1>6, <2>1, <2>2, <2>3
<1>10. Grown(old, new) = ById(v)
  BY DEF Grown, v, q, F, missing
<1>11. /\ ById(v) \in Seq(TaskSlots) /\ Ascending(ById(v))
       /\ \A k \in DOMAIN v : \E n \in DOMAIN ById(v) : ById(v)[n] = v[k]
       /\ \A n \in DOMAIN ById(v) : \E k \in DOMAIN v : ById(v)[n] = v[k]
  BY <1>6, <1>9, SortedById
<1> HIDE DEF F
<1>12. \A k \in DOMAIN slots : \E n \in DOMAIN ById(v) : ById(v)[n] = slots[k]
  BY <1>6, <1>11
<1>13. ASSUME NEW n \in DOMAIN ById(v)
       PROVE  \/ \E k \in DOMAIN slots : ById(v)[n] = slots[k]
              \/ \E i \in Ids : ById(v)[n] = FreeSlot(i)
  BY <1>4, <1>6, <1>7, <1>11
<1>14. ASSUME NEW i \in old..(new - 1) PROVE \E n \in DOMAIN ById(v) : ById(v)[n].id = i
  <2>1. CASE i \in missing
    <3>1. PICK x \in DOMAIN q : q[x] = FreeSlot(i)
      BY <1>3, <2>1 DEF F
    <3>2. Len(slots) + x \in DOMAIN v /\ v[Len(slots) + x].id = i
      BY <1>5, <1>6, <2>1, <3>1
    <3>3. PICK n \in DOMAIN ById(v) : ById(v)[n] = v[Len(slots) + x]
      BY <1>11, <3>2
    <3> QED BY <3>2, <3>3
  <2>2. CASE i \notin missing
    BY <1>12, <2>2 DEF missing
  <2> QED BY <2>1, <2>2
<1> QED BY <1>10, <1>11, <1>12, <1>13, <1>14

\* A shrink keeps the slots that are taken or below the new limit, in their order.
LEMMA ShrunkSlots ==
    ASSUME slots \in Seq(TaskSlots), SlotsOrdered, NEW new \in 1..MaxSlots
    PROVE  /\ Shrunk(new) \in Seq(TaskSlots) /\ Ascending(Shrunk(new))
           /\ \A k \in DOMAIN slots : slots[k].id < new \/ ~IsFree(slots[k]) =>
                 \E n \in DOMAIN Shrunk(new) : Shrunk(new)[n] = slots[k]
           /\ \A n \in DOMAIN Shrunk(new) : \E k \in DOMAIN slots : Shrunk(new)[n] = slots[k]
<1> DEFINE P == {k \in DOMAIN slots : slots[k].id < new \/ ~IsFree(slots[k])}
           v == [n \in 1..Cardinality(P) |-> slots[Nth(P, n)]]
<1>1. Shrunk(new) = v
  BY DEF Shrunk, Retain
<1>2. P \in SUBSET DOMAIN slots
  OBVIOUS
<1>3. DOMAIN v = 1..Cardinality(P) /\ \A n \in DOMAIN v : v[n] = slots[Nth(P, n)]
  OBVIOUS
<1>4. \A k \in DOMAIN slots : slots[k].id < new \/ ~IsFree(slots[k]) => k \in P
  OBVIOUS
<1> HIDE DEF v, P
<1>8. /\ Cardinality(P) \in Nat
      /\ \A n \in 1..Cardinality(P) : Nth(P, n) \in P
      /\ \A k \in P : \E n \in 1..Cardinality(P) : Nth(P, n) = k
      /\ \A i, n \in 1..Cardinality(P) : i < n => Nth(P, i) < Nth(P, n)
  BY <1>2, NthOf
<1>5. /\ Cardinality(P) \in Nat
      /\ \A k \in P : \E n \in DOMAIN v : v[n] = slots[k]
      /\ \A n \in DOMAIN v : \E k \in P : v[n] = slots[k]
      /\ \A i, n \in DOMAIN v : i < n => \E j, k \in P : j < k /\ v[i] = slots[j] /\ v[n] = slots[k]
  BY <1>3, <1>8
<1>6. v \in Seq(TaskSlots)
  <2>1. \A n \in 1..Cardinality(P) : slots[Nth(P, n)] \in TaskSlots
    BY <1>2, <1>8
  <2> QED BY <1>8, <2>1 DEF v
<1>7. Ascending(v)
  BY <1>2, <1>5 DEF Ascending, SlotsOrdered
<1> QED BY <1>1, <1>2, <1>4, <1>5, <1>6, <1>7

-----------------------------------------------------------------------------
(* The slots                                                               *)

LEMMA SlotFields ==
    ASSUME NEW k \in DOMAIN slots, slots \in Seq(TaskSlots)
    PROVE  /\ slots[k] \in TaskSlots /\ slots[k].id \in Ids /\ slots[k].id \in Int
           /\ slots[k].task_id \in Tasks \cup {NoTask} /\ slots[k].age \in 0..MaxAge
<1>1. slots[k] \in TaskSlots
  OBVIOUS
<1> QED BY <1>1, PoolAssumption DEF TaskSlots, Ids

LEMMA FreeFields ==
    ASSUME NEW i \in Ids
    PROVE  /\ FreeSlot(i) \in TaskSlots
           /\ FreeSlot(i).id = i /\ FreeSlot(i).task_id = NoTask /\ FreeSlot(i).slot_type = "Fixed"
BY PoolAssumption DEF FreeSlot, TaskSlots, SlotTypes, Normal, SubTask, Backup

LEMMA TakenFields ==
    ASSUME NEW s \in TaskSlots, NEW t \in Tasks, NEW type \in SlotTypes,
           NEW prio \in {Normal, SubTask, Backup}
    PROVE  /\ Taken(s, t, type, prio) \in TaskSlots
           /\ Taken(s, t, type, prio).id = s.id /\ Taken(s, t, type, prio).task_id = t
           /\ Taken(s, t, type, prio).slot_type = type /\ Taken(s, t, type, prio).priority = prio
           /\ Taken(s, t, type, prio).age = 0
<1>1. 0 \in 0..MaxAge /\ t \in Tasks \cup {NoTask}
  BY PoolAssumption
<1> QED BY <1>1 DEF Taken, TaskSlots

\* The part of the invariant that is about the vector.
VectorInv == slots \in Seq(TaskSlots) /\ SlotsOrdered /\ Holding

\* A step that changes slots where they are leaves them in order.
SlotsMove == /\ slots' = [k \in DOMAIN slots |-> slots'[k]]
             /\ \A k \in DOMAIN slots : slots'[k] \in TaskSlots /\ slots'[k].id = slots[k].id

LEMMA InPlace ==
    ASSUME VectorInv, SlotsMove
    PROVE  slots' \in Seq(TaskSlots) /\ SlotsOrdered' /\ DOMAIN slots' = DOMAIN slots
<1>1. DOMAIN slots' = DOMAIN slots
  BY DEF SlotsMove
<1>2. slots' \in Seq(TaskSlots)
  <2>1. slots' = [k \in 1..Len(slots) |-> slots'[k]] /\ Len(slots) \in Nat
    BY DEF SlotsMove, VectorInv
  <2>2. \A k \in 1..Len(slots) : slots'[k] \in TaskSlots
    BY DEF SlotsMove, VectorInv
  <2> QED BY <2>1, <2>2
<1>3. SlotsOrdered'
  BY <1>1 DEF SlotsMove, VectorInv, SlotsOrdered
<1> QED BY <1>1, <1>2, <1>3

\* Freeing slots, or nothing at all.
Frees == /\ slots' = [k \in DOMAIN slots |-> slots'[k]]
         /\ \A k \in DOMAIN slots : slots'[k] = slots[k] \/ slots'[k] = FreeSlot(slots[k].id)

LEMMA FreesKeeps ==
    ASSUME VectorInv, Frees, silent' = silent
    PROVE  VectorInv' /\ SlotsMove
<1>1. \A k \in DOMAIN slots :
         /\ slots[k] \in TaskSlots /\ slots[k].id \in Ids
         /\ FreeSlot(slots[k].id) \in TaskSlots
         /\ FreeSlot(slots[k].id).id = slots[k].id /\ FreeSlot(slots[k].id).task_id = NoTask
         /\ FreeSlot(slots[k].id).slot_type = "Fixed"
  BY SlotFields, FreeFields DEF VectorInv
<1>2. SlotsMove
  BY <1>1 DEF Frees, SlotsMove
<1>3. slots' \in Seq(TaskSlots) /\ SlotsOrdered' /\ DOMAIN slots' = DOMAIN slots
  BY <1>2, InPlace
<1>4. NoTask \notin Files
  BY PoolAssumption DEF Tasks
<1>5. Holding'
  BY <1>1, <1>3, <1>4 DEF VectorInv, Holding, Frees
<1> QED BY <1>2, <1>3, <1>5 DEF VectorInv

\* The first of some positions are some of them.
LEMMA FirstIn == ASSUME NEW S, NEW n PROVE First(S, n) \subseteq S
BY DEF First

\* A file that had no fixed slot gets one slot, if any.
LEMMA GiveKeeps ==
    ASSUME VectorInv, NEW c \in Callers, NEW t \in Tasks, NEW S \in SUBSET DOMAIN slots,
           ~OwnsFixed(t), silent \in [Tasks -> 0..MaxAge], GiveFixed(c, t, First(S, 1))
    PROVE  VectorInv' /\ SlotsMove
<1> DEFINE pick == First(S, 1)
           new(k) == Taken(slots[k], t, "Fixed", PriorityOf[t])
<1>1. pick \subseteq DOMAIN slots
  BY FirstIn
<1>2. \A j, k \in pick : j = k
  <2> SUFFICES ASSUME NEW j \in pick, NEW k \in pick, j < k PROVE FALSE
    BY <1>1 DEF VectorInv
  <2>1. {i \in S : i <= k} \in SUBSET (1..k) /\ k \in Nat /\ j \in {i \in S : i <= k} /\ k \in {i \in S : i <= k}
    BY <1>1 DEF VectorInv, First
  <2>2. IsFiniteSet({i \in S : i <= k})
    <3>1. IsFiniteSet(1..k)
      BY <2>1, FS_Interval
    <3> QED BY <2>1, <3>1, FS_Subset
  <2>3. Cardinality({i \in S : i <= k}) <= 1 /\ Cardinality({i \in S : i <= k}) \in Nat
    BY <2>2, FS_CardinalityType DEF First
  <2>4. Cardinality({i \in S : i <= k}) # 0
    BY <2>1, <2>2, FS_EmptySet
  <2>5. Cardinality({i \in S : i <= k}) = 1
    BY <2>3, <2>4
  <2>6. PICK x : {i \in S : i <= k} = {x}
    BY <2>2, <2>5, FS_Singleton
  <2>7. j = x /\ k = x
    BY <2>1, <2>6
  <2> QED BY <1>1, <2>7 DEF VectorInv
<1> HIDE DEF pick
<1>3. /\ slots' = [k \in DOMAIN slots |-> IF k \in pick THEN new(k) ELSE slots[k]]
      /\ silent' = [silent EXCEPT ![t] = 0]
  BY DEF GiveFixed, Replace, pick
<1>4. \A k \in DOMAIN slots :
         /\ slots[k] \in TaskSlots /\ new(k) \in TaskSlots /\ new(k).id = slots[k].id
         /\ new(k).task_id = t /\ new(k).slot_type = "Fixed" /\ new(k).age = 0
  <2>1. PriorityOf[t] \in {Normal, SubTask, Backup}
    BY PoolAssumption
  <2>2. "Fixed" \in SlotTypes
    BY DEF SlotTypes
  <2>3. \A k \in DOMAIN slots : slots[k] \in TaskSlots
    BY DEF VectorInv
  <2> QED BY <2>1, <2>2, <2>3, TakenFields
<1> HIDE DEF new
<1>5. SlotsMove
  BY <1>3, <1>4 DEF SlotsMove
<1>6. slots' \in Seq(TaskSlots) /\ SlotsOrdered' /\ DOMAIN slots' = DOMAIN slots
  BY <1>5, InPlace
<1>7. t \in Files => \A k \in DOMAIN slots : slots[k].task_id # t
  <2> SUFFICES ASSUME t \in Files, NEW k \in DOMAIN slots, slots[k].task_id = t PROVE FALSE
    OBVIOUS
  <2>1. slots[k].slot_type # "Borrowed"
    BY PoolAssumption DEF VectorInv, Holding
  <2>2. slots[k].slot_type = "Fixed"
    BY <1>4, <2>1 DEF TaskSlots, SlotTypes
  <2> QED BY <2>2 DEF OwnsFixed
<1>8. \A u \in Tasks : silent'[u] = IF u = t THEN 0 ELSE silent[u]
  BY <1>3
<1>9. Holding'
  BY <1>2, <1>3, <1>4, <1>6, <1>7, <1>8 DEF VectorInv, Holding, Tasks
<1> QED BY <1>5, <1>6, <1>9 DEF VectorInv

\* A folder borrows: none of the slots is a file's afterwards.
LEMMA BorrowKeeps ==
    ASSUME VectorInv, NEW f \in Folders, NEW S \in SUBSET DOMAIN slots, silent' = silent,
           slots' = Replace(S, LAMBDA s : Taken(s, f, "Borrowed", Normal))
    PROVE  /\ VectorInv' /\ SlotsMove
           /\ \A k \in DOMAIN slots : k \notin S => slots'[k] = slots[k]
           /\ \A k \in S : slots'[k].task_id = f /\ slots'[k].slot_type = "Borrowed"
<1> DEFINE new(k) == Taken(slots[k], f, "Borrowed", Normal)
<1>1. slots' = [k \in DOMAIN slots |-> IF k \in S THEN new(k) ELSE slots[k]]
  BY DEF Replace
<1>2. \A k \in DOMAIN slots :
         /\ slots[k] \in TaskSlots /\ new(k) \in TaskSlots /\ new(k).id = slots[k].id
         /\ new(k).task_id = f /\ new(k).slot_type = "Borrowed" /\ new(k).priority = Normal
  <2>1. "Borrowed" \in SlotTypes /\ f \in Tasks /\ Normal \in {Normal, SubTask, Backup}
    BY DEF SlotTypes, Tasks
  <2>2. \A k \in DOMAIN slots : slots[k] \in TaskSlots
    BY DEF VectorInv
  <2> QED BY <2>1, <2>2, TakenFields
<1> HIDE DEF new
<1>3. SlotsMove
  BY <1>1, <1>2 DEF SlotsMove
<1>4. slots' \in Seq(TaskSlots) /\ SlotsOrdered' /\ DOMAIN slots' = DOMAIN slots
  BY <1>3, InPlace
<1>5. f \notin Files
  BY PoolAssumption
<1>6. ASSUME NEW k \in DOMAIN slots, slots'[k].task_id \in Files
      PROVE  slots'[k] = slots[k]
  BY <1>1, <1>2, <1>5, <1>6
<1>7. ASSUME NEW k \in DOMAIN slots, slots'[k].slot_type = "Borrowed"
      PROVE  slots'[k].task_id \in Folders /\ slots'[k].priority = Normal
  BY <1>1, <1>2, <1>7 DEF VectorInv, Holding
<1>8. Holding'
  BY <1>4, <1>6, <1>7 DEF VectorInv, Holding
<1> QED BY <1>1, <1>2, <1>3, <1>4, <1>8 DEF VectorInv

LEMMA OlderAge ==
    ASSUME NEW a \in 0..MaxAge, NEW b \in 0..MaxAge, a <= b
    PROVE  Older(a) \in 0..MaxAge /\ Older(a) <= Older(b)
BY PoolAssumption DEF Older

\* Slots and silences age together.
LEMMA TickKeeps ==
    ASSUME VectorInv, silent \in [Tasks -> 0..MaxAge], Tick
    PROVE  /\ VectorInv' /\ SlotsMove
           /\ \A k \in DOMAIN slots : /\ slots'[k].task_id = slots[k].task_id
                                      /\ slots'[k].slot_type = slots[k].slot_type
<1> DEFINE new(k) == IF IsFree(slots[k]) THEN slots[k]
                     ELSE [slots[k] EXCEPT !.age = Older(slots[k].age)]
<1>1. /\ slots' = [k \in DOMAIN slots |-> new(k)]
      /\ silent' = [t \in Tasks |-> Older(silent[t])]
  BY DEF Tick
<1>2. ASSUME NEW k \in DOMAIN slots
      PROVE  /\ slots[k] \in TaskSlots /\ new(k) \in TaskSlots /\ new(k).id = slots[k].id
             /\ new(k).task_id = slots[k].task_id /\ new(k).slot_type = slots[k].slot_type
             /\ new(k).priority = slots[k].priority
             /\ slots[k].task_id \in Files => new(k).age = Older(slots[k].age)
             /\ slots[k].age \in 0..MaxAge
  <2>1. slots[k] \in TaskSlots /\ slots[k].age \in 0..MaxAge
    BY SlotFields DEF VectorInv
  <2>2. Older(slots[k].age) \in 0..MaxAge
    BY <2>1, OlderAge
  <2>3. NoTask \notin Files
    BY PoolAssumption DEF Tasks
  <2> QED BY <2>1, <2>2, <2>3 DEF TaskSlots, IsFree
<1> HIDE DEF new
<1>3. SlotsMove
  BY <1>1, <1>2 DEF SlotsMove
<1>4. slots' \in Seq(TaskSlots) /\ SlotsOrdered' /\ DOMAIN slots' = DOMAIN slots
  BY <1>3, InPlace
<1>5. ASSUME NEW k \in DOMAIN slots, slots[k].task_id \in Files
      PROVE  slots'[k].age <= silent'[slots'[k].task_id]
  <2>1. slots[k].age <= silent[slots[k].task_id] /\ slots[k].task_id \in Tasks
    BY <1>5 DEF VectorInv, Holding, Tasks
  <2>2. Older(slots[k].age) <= Older(silent[slots[k].task_id])
    BY <1>2, <2>1, OlderAge
  <2> QED BY <1>1, <1>2, <1>5, <2>1, <2>2
<1>6. \A k \in DOMAIN slots : /\ slots'[k].task_id = slots[k].task_id
                              /\ slots'[k].slot_type = slots[k].slot_type
                              /\ slots'[k].priority = slots[k].priority
  BY <1>1, <1>2
<1>7. Holding'
  BY <1>4, <1>5, <1>6 DEF VectorInv, Holding
<1> QED BY <1>3, <1>4, <1>6, <1>7 DEF VectorInv

\* A touch of a file reaches the one slot it has.
LEMMA TouchKeeps ==
    ASSUME VectorInv, silent \in [Tasks -> 0..MaxAge], NEW t \in Tasks, Touch(t)
    PROVE  /\ VectorInv' /\ SlotsMove
           /\ \A k \in DOMAIN slots : /\ slots'[k].task_id = slots[k].task_id
                                      /\ slots'[k].slot_type = slots[k].slot_type
<1> DEFINE S == {k \in DOMAIN slots : slots[k].task_id = t}
           pick == First(S, 1)
           new(k) == [slots[k] EXCEPT !.age = 0]
<1>1. /\ slots' = [k \in DOMAIN slots |-> IF k \in pick THEN new(k) ELSE slots[k]]
      /\ silent' = [silent EXCEPT ![t] = 0]
  BY DEF Touch, Replace
<1>2. ASSUME NEW k \in DOMAIN slots
      PROVE  /\ slots[k] \in TaskSlots /\ new(k) \in TaskSlots /\ new(k).id = slots[k].id
             /\ new(k).task_id = slots[k].task_id /\ new(k).slot_type = slots[k].slot_type
             /\ new(k).priority = slots[k].priority /\ new(k).age = 0
  <2>1. slots[k] \in TaskSlots /\ 0 \in 0..MaxAge
    BY PoolAssumption DEF VectorInv
  <2> QED BY <2>1 DEF TaskSlots
<1>3. t \in Files => \A k \in S : k \in pick
  <2> SUFFICES ASSUME t \in Files, NEW k \in S PROVE k \in pick
    OBVIOUS
  <2>1. \A j \in S : j = k
    BY DEF VectorInv, Holding
  <2>2. {j \in S : j <= k} \subseteq {k} /\ IsFiniteSet({k}) /\ Cardinality({k}) = 1
    BY <2>1, FS_Singleton
  <2>3. Cardinality({j \in S : j <= k}) <= 1
    BY <2>2, FS_Subset
  <2> QED BY <2>3 DEF First
<1> HIDE DEF new, pick
<1>4. SlotsMove
  BY <1>1, <1>2 DEF SlotsMove
<1>5. slots' \in Seq(TaskSlots) /\ SlotsOrdered' /\ DOMAIN slots' = DOMAIN slots
  BY <1>4, InPlace
<1>6. ASSUME NEW k \in DOMAIN slots, slots[k].task_id \in Files
      PROVE  slots'[k].age <= silent'[slots[k].task_id]
  <2>1. slots[k].age <= silent[slots[k].task_id] /\ slots[k].task_id \in Tasks
    BY <1>6 DEF VectorInv, Holding, Tasks
  <2>2. CASE slots[k].task_id = t
    BY <1>1, <1>2, <1>3, <1>6, <2>1, <2>2
  <2>3. CASE slots[k].task_id # t
    <3>1. k \notin pick
      BY <2>3, FirstIn DEF pick
    <3> QED BY <1>1, <2>1, <2>3, <3>1
  <2> QED BY <2>2, <2>3
<1>7. \A k \in DOMAIN slots : /\ slots'[k].task_id = slots[k].task_id
                              /\ slots'[k].slot_type = slots[k].slot_type
                              /\ slots'[k].priority = slots[k].priority
  BY <1>1, <1>2
<1>8. Holding'
  BY <1>5, <1>6, <1>7 DEF VectorInv, Holding
<1> QED BY <1>4, <1>5, <1>7, <1>8 DEF VectorInv

\* A resize leaves every task its slots.
LEMMA ResizeSlots ==
    ASSUME VectorInv, silent' = silent, NEW old \in 1..MaxSlots, NEW new \in 1..MaxSlots,
           slots' = IF new > old THEN Grown(old, new) ELSE Shrunk(new)
    PROVE  /\ VectorInv'
           /\ \A k \in DOMAIN slots : slots[k].id < new \/ ~IsFree(slots[k]) =>
                 \E n \in DOMAIN slots' : slots'[n] = slots[k]
           /\ \A n \in DOMAIN slots' : IsFree(slots'[n]) \/ \E k \in DOMAIN slots : slots'[n] = slots[k]
           /\ new > old => \A i \in old..(new - 1) : \E n \in DOMAIN slots' : slots'[n].id = i
           /\ new > old => \A k \in DOMAIN slots : \E n \in DOMAIN slots' : slots'[n] = slots[k]
<1>1. old \in Nat /\ new \in Nat
  BY PoolAssumption
<1>2. /\ slots' \in Seq(TaskSlots) /\ Ascending(slots')
      /\ \A k \in DOMAIN slots : slots[k].id < new \/ ~IsFree(slots[k]) =>
            \E n \in DOMAIN slots' : slots'[n] = slots[k]
      /\ \A n \in DOMAIN slots' : \/ \E k \in DOMAIN slots : slots'[n] = slots[k]
                                  \/ \E i \in Ids : slots'[n] = FreeSlot(i)
  <2>1. CASE new > old
    BY <2>1, GrownSlots DEF VectorInv
  <2>2. CASE ~(new > old)
    BY <2>2, ShrunkSlots DEF VectorInv
  <2> QED BY <2>1, <2>2
<1>3. \A i \in Ids : FreeSlot(i).task_id = NoTask /\ FreeSlot(i).slot_type = "Fixed"
  BY FreeFields
<1>4. NoTask \notin Files
  BY PoolAssumption DEF Tasks
<1>5. SlotsOrdered' /\ Distinct(slots')
  BY <1>2, OrderedDistinct DEF SlotsOrdered, Ascending
<1>6. ASSUME NEW j \in DOMAIN slots', NEW k \in DOMAIN slots', slots'[j].task_id \in Files,
             slots'[j].task_id = slots'[k].task_id
      PROVE  j = k
  <2>1. PICK a \in DOMAIN slots : slots'[j] = slots[a]
    BY <1>2, <1>3, <1>4, <1>6
  <2>2. PICK b \in DOMAIN slots : slots'[k] = slots[b]
    BY <1>2, <1>3, <1>4, <1>6
  <2>3. a = b
    BY <1>6, <2>1, <2>2 DEF VectorInv, Holding
  <2> QED BY <1>5, <2>1, <2>2, <2>3 DEF Distinct
<1>7. ASSUME NEW k \in DOMAIN slots'
      PROVE  /\ slots'[k].slot_type = "Borrowed" => slots'[k].task_id \in Folders /\ slots'[k].priority = Normal
             /\ slots'[k].task_id \in Files => slots'[k].age <= silent'[slots'[k].task_id]
  BY <1>2, <1>3, <1>4, <1>7 DEF VectorInv, Holding
<1>8. Holding'
  BY <1>6, <1>7 DEF Holding
<1>9. \A n \in DOMAIN slots' : IsFree(slots'[n]) \/ \E k \in DOMAIN slots : slots'[n] = slots[k]
  BY <1>2, <1>3 DEF IsFree
<1>10. new > old => /\ \A i \in old..(new - 1) : \E n \in DOMAIN slots' : slots'[n].id = i
                    /\ \A k \in DOMAIN slots : \E n \in DOMAIN slots' : slots'[n] = slots[k]
  BY GrownSlots DEF VectorInv
<1> QED BY <1>2, <1>5, <1>8, <1>9, <1>10 DEF VectorInv

-----------------------------------------------------------------------------
(* The callers                                                             *)

\* The part of the type invariant that is not about the vector.
Rest == /\ max_slots \in 1..MaxSlots /\ borrowed_map \in [Folders -> SUBSET Ids]
        /\ job \in [Callers -> Jobs] /\ silent \in [Tasks -> 0..MaxAge]

LEMMA InvParts == /\ SlotsInv => VectorInv /\ Rest
                  /\ VectorInv' /\ Rest' => SlotsInv'
BY DEF SlotsInv, VectorInv, Rest, TypeOK

\* What a caller has in hand, by where it is.
LEMMA JobIs ==
    ASSUME Rest, NEW c \in Callers
    PROVE  /\ job[c] \in Jobs
           /\ job[c] = Idle => job[c].pc = "idle"
           /\ job[c].pc = "loaded" => job[c].max \in 1..MaxSlots
           /\ job[c].pc \in {"record", "strike"} => job[c].folder \in Folders /\ job[c].ids \in SUBSET Ids
           /\ job[c].pc = "forget" => job[c].tasks \in SUBSET Tasks
           /\ job[c].pc \in {"idle", "loaded", "record", "strike", "forget"}
<1>1. job[c] \in Jobs
  BY DEF Rest
<1>2. CASE job[c] = Idle
  BY <1>1, <1>2 DEF Idle
<1>3. CASE job[c] \in [pc : {"loaded"}, max : 1..MaxSlots]
  BY <1>1, <1>3 DEF Idle
<1>4. CASE job[c] \in [pc : {"record", "strike"}, folder : Folders, ids : SUBSET Ids]
  BY <1>1, <1>4 DEF Idle
<1>5. CASE job[c] \in [pc : {"forget"}, tasks : SUBSET Tasks]
  BY <1>1, <1>5 DEF Idle
<1> QED BY <1>1, <1>2, <1>3, <1>4, <1>5 DEF Jobs

\* A caller takes something else in hand.
LEMMA JobAt ==
    ASSUME Rest, NEW c \in Callers, NEW j \in Jobs, job' = [job EXCEPT ![c] = j]
    PROVE  /\ job' \in [Callers -> Jobs] /\ job'[c] = j
           /\ \A d \in Callers : d # c => job'[d] = job[d]
BY DEF Rest

LEMMA JobsMade ==
    /\ Idle \in Jobs
    /\ \A n \in 1..MaxSlots : [pc |-> "loaded", max |-> n] \in Jobs
    /\ \A p \in {"record", "strike"}, f \in Folders, S \in SUBSET Ids :
          [pc |-> p, folder |-> f, ids |-> S] \in Jobs
    /\ \A S \in SUBSET Tasks : [pc |-> "forget", tasks |-> S] \in Jobs
BY DEF Jobs

\* Nothing happens to the slots.
LEMMA StillKeeps ==
    ASSUME VectorInv, slots' = slots, silent' = silent
    PROVE  VectorInv' /\ Frees
<1>1. Frees
  BY DEF VectorInv, Frees
<1> QED BY <1>1, FreesKeeps

\* Putting free slots in the places of some.
LEMMA ReplaceFrees ==
    ASSUME NEW S, slots' = Replace(S, Released)
    PROVE  /\ Frees
           /\ \A k \in DOMAIN slots : k \notin S => slots'[k] = slots[k]
           /\ \A k \in DOMAIN slots : k \in S => slots'[k] = FreeSlot(slots[k].id)
BY DEF Replace, Released, Frees

LEMMA LoadSlots ==
    ASSUME SlotsInv, NEW c \in Callers, LoadMax(c)
    PROVE  SlotsInv' /\ Frees
<1>0. VectorInv /\ Rest
  BY InvParts
<1>1. VectorInv' /\ Frees
  BY <1>0, StillKeeps DEF LoadMax
<1>2. job' \in [Callers -> Jobs]
  <2>1. max_slots \in 1..MaxSlots
    BY <1>0 DEF Rest
  <2> QED BY <1>0, <2>1, JobAt, JobsMade DEF LoadMax
<1>3. Rest'
  BY <1>0, <1>2 DEF Rest, LoadMax
<1> QED BY <1>1, <1>3, InvParts

LEMMA RefusedSlots ==
    ASSUME SlotsInv, NEW c \in Callers, Refused(c)
    PROVE  SlotsInv' /\ Frees
<1>0. VectorInv /\ Rest
  BY InvParts
<1>1. VectorInv' /\ Frees
  BY <1>0, StillKeeps DEF Refused
<1>2. job' \in [Callers -> Jobs]
  <2>1. max_slots \in 1..MaxSlots
    BY <1>0 DEF Rest
  <2> QED BY <1>0, <2>1, JobAt, JobsMade DEF Refused, Done
<1>3. Rest'
  BY <1>0, <1>2 DEF Rest, Refused
<1> QED BY <1>1, <1>3, InvParts

\* What the caller and the memory of the pool make of a fixed slot.
LEMMA GiveRest ==
    ASSUME Rest, NEW c \in Callers, NEW t \in Tasks, NEW S, GiveFixed(c, t, S)
    PROVE  Rest'
<1>1. 0 \in 0..MaxAge
  BY PoolAssumption
<1>2. job' \in [Callers -> Jobs]
  BY JobAt, JobsMade DEF GiveFixed, Done
<1> QED BY <1>1, <1>2 DEF Rest, GiveFixed

LEMMA AllocateSlots ==
    ASSUME SlotsInv, NEW c \in Callers, NEW t \in Tasks,
           AllocateFree(c, t) \/ AllocatePreempting(c, t)
    PROVE  SlotsInv' /\ SlotsMove
<1>0. VectorInv /\ Rest
  BY InvParts
<1>1. PICK S \in SUBSET DOMAIN slots : GiveFixed(c, t, First(S, 1))
  BY DEF AllocateFree, AllocatePreempting, FreeBelow, PreemptableBelow
<1>2. ~OwnsFixed(t) /\ silent \in [Tasks -> 0..MaxAge]
  BY <1>0 DEF AllocateFree, AllocatePreempting, Requests, Rest
<1>3. VectorInv' /\ SlotsMove
  BY <1>0, <1>1, <1>2, GiveKeeps
<1>4. Rest'
  BY <1>0, <1>1, GiveRest
<1> QED BY <1>3, <1>4, InvParts

LEMMA IdsAtIn ==
    ASSUME VectorInv, NEW S \in SUBSET DOMAIN slots
    PROVE  IdsAt(S) \in SUBSET Ids
BY SlotFields DEF VectorInv, IdsAt

LEMMA PicksIn ==
    ASSUME NEW f, NEW max, NEW n
    PROVE  BorrowPicks(f, max, n) \subseteq FreeBelow(max) \cup PreemptableBelow(max)
BY FirstIn DEF BorrowPicks

LEMMA BorrowSlots ==
    ASSUME SlotsInv, NEW c \in Callers, NEW f \in Folders, NEW n \in 1..MaxSlots,
           AllocateBorrowed(c, f, n)
    PROVE  SlotsInv' /\ SlotsMove
<1> DEFINE S == BorrowPicks(f, job[c].max, n)
<1>0. VectorInv /\ Rest
  BY InvParts
<1>1. S \in SUBSET DOMAIN slots
  BY PicksIn DEF FreeBelow, PreemptableBelow
<1>2. /\ slots' = Replace(S, LAMBDA s : Taken(s, f, "Borrowed", Normal))
      /\ job' = [job EXCEPT ![c] = [pc |-> "record", folder |-> f, ids |-> IdsAt(S)]]
      /\ UNCHANGED <<max_slots, borrowed_map, silent>>
  BY DEF AllocateBorrowed
<1> HIDE DEF S
<1>3. VectorInv' /\ SlotsMove
  BY <1>0, <1>1, <1>2, BorrowKeeps
<1>4. job' \in [Callers -> Jobs]
  BY <1>0, <1>1, <1>2, IdsAtIn, JobAt, JobsMade
<1>5. Rest'
  BY <1>0, <1>2, <1>4 DEF Rest
<1> QED BY <1>3, <1>5, InvParts

LEMMA RecordSlots ==
    ASSUME SlotsInv, NEW c \in Callers, RecordBorrowed(c) \/ StrikeBorrowed(c) \/ ForgetBorrowed(c)
    PROVE  SlotsInv' /\ Frees
<1>0. VectorInv /\ Rest
  BY InvParts
<1>1. slots' = slots /\ silent' = silent /\ max_slots' = max_slots /\ job' = [job EXCEPT ![c] = Idle]
  BY DEF RecordBorrowed, StrikeBorrowed, ForgetBorrowed, Done
<1>2. VectorInv' /\ Frees
  BY <1>0, <1>1, StillKeeps
<1>3. job' \in [Callers -> Jobs]
  BY <1>0, <1>1, JobAt, JobsMade
<1>4. borrowed_map' \in [Folders -> SUBSET Ids]
  <2>1. CASE RecordBorrowed(c)
    BY <1>0, <2>1, JobIs DEF RecordBorrowed, Rest
  <2>2. CASE StrikeBorrowed(c)
    BY <1>0, <2>2 DEF StrikeBorrowed, Rest
  <2>3. CASE ForgetBorrowed(c)
    BY <1>0, <2>3 DEF ForgetBorrowed, Rest
  <2> QED BY <2>1, <2>2, <2>3
<1>5. Rest'
  BY <1>0, <1>1, <1>3, <1>4 DEF Rest
<1> QED BY <1>2, <1>5, InvParts

LEMMA ReleaseSlots ==
    ASSUME SlotsInv, NEW c \in Callers,
           \/ \E t \in Tasks : ReleaseFixed(c, t)
           \/ \E f \in Folders : ReleaseAll(c, f) \/ \E i \in Ids : ReleaseBorrowed(c, f, i)
           \/ CleanupStale(c)
    PROVE  SlotsInv' /\ Frees
<1>0. VectorInv /\ Rest
  BY InvParts
<1>1. UNCHANGED <<max_slots, borrowed_map, silent>> /\ \E S : slots' = Replace(S, Released)
  BY DEF ReleaseFixed, ReleaseAll, ReleaseBorrowed, CleanupStale
<1>2. VectorInv' /\ Frees
  BY <1>0, <1>1, ReplaceFrees, FreesKeeps
<1>3. job' \in [Callers -> Jobs]
  <2>1. ASSUME NEW t \in Tasks, ReleaseFixed(c, t) PROVE job' \in [Callers -> Jobs]
    BY <1>0, <2>1 DEF ReleaseFixed, Rest
  <2>2. ASSUME NEW f \in Folders, ReleaseAll(c, f) PROVE job' \in [Callers -> Jobs]
    <3>1. {f} \in SUBSET Tasks
      BY DEF Tasks
    <3> QED BY <1>0, <2>2, <3>1, JobAt, JobsMade DEF ReleaseAll
  <2>3. ASSUME NEW f \in Folders, NEW i \in Ids, ReleaseBorrowed(c, f, i)
        PROVE  job' \in [Callers -> Jobs]
    <3>1. {i} \in SUBSET Ids
      OBVIOUS
    <3> QED BY <1>0, <2>3, <3>1, JobAt, JobsMade DEF ReleaseBorrowed
  <2>4. ASSUME CleanupStale(c) PROVE job' \in [Callers -> Jobs]
    <3> DEFINE S == {slots[k].task_id : k \in StaleBelow(job[c].max)}
    <3>1. \A k \in StaleBelow(job[c].max) : slots[k].task_id \in Tasks
      BY <1>0, SlotFields DEF StaleBelow, IsFree, VectorInv
    <3>2. S \in SUBSET Tasks
      BY <3>1
    <3>3. job' = [job EXCEPT ![c] = [pc |-> "forget", tasks |-> S]]
      BY <2>4 DEF CleanupStale
    <3> HIDE DEF S
    <3> QED BY <1>0, <3>2, <3>3, JobAt, JobsMade
  <2> QED BY <2>1, <2>2, <2>3, <2>4
<1>4. Rest'
  BY <1>0, <1>1, <1>3 DEF Rest
<1> QED BY <1>2, <1>4, InvParts

LEMMA ResizedSlots ==
    ASSUME SlotsInv, NEW c \in Callers, NEW n \in 1..MaxSlots, Resize(c, n)
    PROVE  SlotsInv'
<1>0. VectorInv /\ Rest
  BY InvParts
<1>1. job[c].max \in 1..MaxSlots
  BY <1>0, JobIs DEF Resize, Loaded
<1>2. VectorInv'
  BY <1>0, <1>1, ResizeSlots DEF Resize
<1>3. job' \in [Callers -> Jobs]
  BY <1>0, JobAt, JobsMade DEF Resize, Done
<1>4. Rest'
  BY <1>0, <1>3 DEF Rest, Resize
<1> QED BY <1>2, <1>4, InvParts

LEMMA ClockSlots ==
    ASSUME SlotsInv, Tick \/ \E t \in Tasks : Touch(t)
    PROVE  /\ SlotsInv' /\ SlotsMove
           /\ \A k \in DOMAIN slots : /\ slots'[k].task_id = slots[k].task_id
                                      /\ slots'[k].slot_type = slots[k].slot_type
<1>0. VectorInv /\ Rest
  BY InvParts
<1>1. silent \in [Tasks -> 0..MaxAge]
  BY <1>0 DEF Rest
<1>2. /\ VectorInv' /\ SlotsMove
      /\ \A k \in DOMAIN slots : /\ slots'[k].task_id = slots[k].task_id
                                 /\ slots'[k].slot_type = slots[k].slot_type
  BY <1>0, <1>1, TickKeeps, TouchKeeps
<1>3. silent' \in [Tasks -> 0..MaxAge]
  <2>1. CASE Tick
    <3>1. \A t \in Tasks : silent[t] \in 0..MaxAge /\ silent[t] <= silent[t]
      BY <1>1, PoolAssumption
    <3>2. \A t \in Tasks : Older(silent[t]) \in 0..MaxAge
      BY <3>1, OlderAge
    <3> QED BY <2>1, <3>2 DEF Tick
  <2>2. CASE \E t \in Tasks : Touch(t)
    <3>1. 0 \in 0..MaxAge
      BY PoolAssumption
    <3> QED BY <1>1, <2>2, <3>1 DEF Touch
  <2> QED BY <2>1, <2>2
<1>4. Rest'
  BY <1>0, <1>3 DEF Rest, Tick, Touch
<1> QED BY <1>2, <1>4, InvParts

\* Every step of the pool keeps the slots.
LEMMA NextSlots ==
    ASSUME SlotsInv, Next
    PROVE  SlotsInv'
<1>1. ASSUME NEW c \in Callers, CallerStep(c) PROVE SlotsInv'
  BY <1>1, LoadSlots, RefusedSlots, AllocateSlots, BorrowSlots, RecordSlots, ReleaseSlots,
     ResizedSlots DEF CallerStep
<1> QED BY <1>1, ClockSlots DEF Next

-----------------------------------------------------------------------------
(* A caller that has the pool to itself                                    *)

AloneCore == OneBusy /\ LimitCovered /\ LimitKnown /\ Recorded

\* An id is there if a slot has it, and a folder has it if that slot is borrowed by it.
LEMMA IdsThere == \A i : i \in IdsAt(DOMAIN slots) <=> \E k \in DOMAIN slots : slots[k].id = i
BY DEF IdsAt

Borrows(k, f) == slots[k].task_id = f /\ slots[k].slot_type = "Borrowed"

LEMMA BorrowedThere ==
    ASSUME NEW f, NEW i
    PROVE  i \in BorrowedBy(f) <=> \E k \in DOMAIN slots : Borrows(k, f) /\ slots[k].id = i
BY DEF BorrowedBy, Owned, Borrows

LEMMA BorrowedThen ==
    ASSUME NEW f, NEW i
    PROVE  i \in BorrowedBy(f)' <=>
              \E k \in DOMAIN slots' : Borrows(k, f)' /\ slots'[k].id = i
BY DEF BorrowedBy, Owned, Borrows

\* A step that changes slots where they are leaves the ids.
LEMMA MoveCovers ==
    ASSUME SlotsMove, max_slots' = max_slots, LimitCovered
    PROVE  LimitCovered'
<1>1. DOMAIN slots' = DOMAIN slots /\ \A k \in DOMAIN slots : slots'[k].id = slots[k].id
  BY DEF SlotsMove
<1> QED BY <1>1 DEF LimitCovered, IdsAt

LEMMA FreesMove ==
    ASSUME VectorInv, Frees
    PROVE  SlotsMove
BY SlotFields, FreeFields DEF VectorInv, Frees, SlotsMove

\* Each borrowed slot stays with its folder.
BorrowsStay == \A f \in Folders : BorrowedBy(f) \subseteq BorrowedBy(f)'

LEMMA StaysInPlace ==
    ASSUME SlotsMove,
           \A k \in DOMAIN slots : slots[k].slot_type = "Borrowed" =>
              slots'[k].slot_type = "Borrowed" /\ slots'[k].task_id = slots[k].task_id
    PROVE  BorrowsStay
<1> SUFFICES ASSUME NEW f \in Folders, NEW i \in BorrowedBy(f) PROVE i \in BorrowedBy(f)'
  BY DEF BorrowsStay
<1>1. PICK k \in DOMAIN slots : Borrows(k, f) /\ slots[k].id = i
  BY BorrowedThere
<1>2. k \in DOMAIN slots' /\ Borrows(k, f)' /\ slots'[k].id = i
  BY <1>1 DEF SlotsMove, Borrows
<1> QED BY <1>2, BorrowedThen

\* Nobody begins to record or forgets to erase.
LEMMA RecordStays ==
    ASSUME Recorded, BorrowsStay, borrowed_map' = borrowed_map, Rest,
           \A d \in Callers : job'[d].pc = "record" => job'[d] = job[d],
           \A d \in Callers : job[d].pc \in {"strike", "forget"} => job'[d] = job[d]
    PROVE  Recorded'
<1>1. ASSUME NEW d \in Callers, job'[d].pc = "record"
      PROVE  job'[d].ids \subseteq BorrowedBy(job[d].folder)' /\ job'[d] = job[d]
  BY <1>1, JobIs DEF Recorded, BorrowsStay
<1>2. ASSUME NEW f \in Folders, NEW i \in borrowed_map'[f]
      PROVE  i \in BorrowedBy(f)' \/ Struck(f, i)'
  <2>1. i \in BorrowedBy(f) \/ Struck(f, i)
    BY <1>2 DEF Recorded
  <2>2. CASE i \in BorrowedBy(f)
    BY <2>2 DEF BorrowsStay
  <2>3. CASE Struck(f, i)
    <3>1. Struck(f, i)'
      BY <2>3 DEF Struck
    <3> QED BY <3>1
  <2> QED BY <2>1, <2>2, <2>3
<1> QED BY <1>1, <1>2 DEF Recorded

\* The limit stays, and whoever begins to know it has just read it.
LEMMA LimitStays ==
    ASSUME LimitKnown, max_slots' = max_slots,
           \A d \in Callers : job'[d].pc = "loaded" => job'[d] = job[d] \/ job'[d].max = max_slots
    PROVE  LimitKnown'
BY DEF LimitKnown

LEMMA OneAtATime ==
    ASSUME Rest, Cardinality(Busy') <= 1
    PROVE  OneBusy'
<1>1. IsFiniteSet(Busy')
  <2>1. Busy' \in SUBSET Callers
    BY DEF Busy
  <2> QED BY <2>1, FS_Subset, InstanceAssumption
<1>2. Cardinality(Busy') = 0 \/ Cardinality(Busy') = 1
  BY <1>1, FS_CardinalityType
<1>3. CASE Cardinality(Busy') = 0
  BY <1>1, <1>3, FS_EmptySet DEF OneBusy
<1>4. CASE Cardinality(Busy') = 1
  <2>1. PICK x : Busy' = {x}
    BY <1>1, <1>4, FS_Singleton
  <2> QED BY <2>1 DEF OneBusy
<1> QED BY <1>2, <1>3, <1>4

\* One caller makes the step, and no other has anything in hand afterwards.
LEMMA OthersIdle ==
    ASSUME Rest, OneBusy', NEW c \in Callers, job'[c] # Idle, NEW d \in Callers, d # c
    PROVE  job'[d] = Idle /\ job'[d].pc = "idle"
BY DEF OneBusy, Busy, Idle

\* Slots that may be taken are not borrowed.
LEMMA TakesNoBorrowed ==
    ASSUME VectorInv, NEW max, NEW k \in FreeBelow(max) \cup PreemptableBelow(max)
    PROVE  k \in DOMAIN slots /\ slots[k].slot_type # "Borrowed"
<1>1. NoTask \notin Folders /\ Normal # Backup
  BY PoolAssumption DEF Tasks, Normal, Backup
<1> QED BY <1>1 DEF FreeBelow, PreemptableBelow, IsFree, IsPreemptable, VectorInv, Holding

\* Two callers that have something in hand are one.
LEMMA BothBusy ==
    ASSUME OneBusy, NEW c \in Callers, NEW d \in Callers, job[c].pc # "idle", job[d].pc # "idle"
    PROVE  c = d
BY DEF OneBusy, Busy, Idle

\* A step that leaves borrowed slots, the record and what is to be erased alone.
LEMMA AloneStays ==
    ASSUME VectorInv, Rest, AloneCore, SlotsMove, UNCHANGED <<max_slots, borrowed_map>>,
           \A k \in DOMAIN slots : slots[k].slot_type = "Borrowed" =>
              slots'[k].slot_type = "Borrowed" /\ slots'[k].task_id = slots[k].task_id,
           \A d \in Callers : \/ job'[d] = job[d]
                              \/ job'[d] = Idle /\ job[d].pc = "loaded"
                              \/ job'[d].pc = "loaded" /\ job'[d].max = max_slots /\ job[d] = Idle
    PROVE  LimitCovered' /\ LimitKnown' /\ Recorded'
<1>1. LimitCovered'
  BY MoveCovers DEF AloneCore
<1>2. LimitKnown'
  BY DEF AloneCore, LimitKnown, Idle
<1>3. BorrowsStay
  BY StaysInPlace
<1>4. /\ \A d \in Callers : job'[d].pc = "record" => job'[d] = job[d]
      /\ \A d \in Callers : job[d].pc \in {"strike", "forget"} => job'[d] = job[d]
  BY DEF Idle
<1>5. Recorded'
  BY <1>3, <1>4, RecordStays DEF AloneCore
<1> QED BY <1>1, <1>2, <1>5

\* Slots are freed, and the caller goes on to erase their record.
LEMMA FreesRecorded ==
    ASSUME VectorInv, Rest, AloneCore, OneBusy', NEW c \in Callers, NEW S, NEW j,
           slots' = Replace(S, Released), UNCHANGED <<max_slots, borrowed_map>>,
           job[c].pc \in {"idle", "loaded"}, j.pc \in {"strike", "forget"},
           job' = [job EXCEPT ![c] = j],
           \A f \in Folders : \A k \in DOMAIN slots : k \in S /\ Borrows(k, f) =>
              \/ j.pc = "strike" /\ j.folder = f /\ slots[k].id \in j.ids
              \/ j.pc = "forget" /\ f \in j.tasks
    PROVE  LimitCovered' /\ LimitKnown' /\ Recorded'
<1>1. Frees /\ \A k \in DOMAIN slots : k \notin S => slots'[k] = slots[k]
  BY ReplaceFrees
<1>2. SlotsMove
  BY <1>1, FreesMove
<1>3. LimitCovered'
  BY <1>2, MoveCovers DEF AloneCore
<1>4. job'[c] = j /\ \A d \in Callers : d # c => job'[d] = job[d]
  BY DEF Rest
<1>5. \A d \in Callers : d # c => job'[d].pc = "idle" /\ job[d].pc = "idle"
  BY <1>4, OthersIdle DEF Idle, OneBusy, Busy
<1>6. LimitKnown'
  BY <1>4, <1>5 DEF LimitKnown
<1>7. ~(\E d \in Callers : job[d].pc \in {"strike", "forget"})
  BY <1>5
<1>8. ASSUME NEW f \in Folders, NEW i \in borrowed_map'[f]
      PROVE  i \in BorrowedBy(f)' \/ Struck(f, i)'
  <2>1. i \in BorrowedBy(f)
    BY <1>7, <1>8 DEF AloneCore, Recorded, Struck
  <2>2. PICK k \in DOMAIN slots : Borrows(k, f) /\ slots[k].id = i
    BY <2>1, BorrowedThere
  <2>3. CASE k \in S
    <3>1. \/ j.pc = "strike" /\ j.folder = f /\ i \in j.ids
          \/ j.pc = "forget" /\ f \in j.tasks
      BY <2>2, <2>3
    <3> QED BY <1>4, <3>1 DEF Struck
  <2>4. CASE k \notin S
    <3>1. k \in DOMAIN slots' /\ Borrows(k, f)' /\ slots'[k].id = i
      BY <1>1, <1>2, <2>2, <2>4 DEF SlotsMove, Borrows
    <3> QED BY <3>1, BorrowedThen
  <2> QED BY <2>3, <2>4
<1>9. ASSUME NEW d \in Callers PROVE job'[d].pc # "record"
  BY <1>4, <1>5
<1>10. Recorded'
  BY <1>8, <1>9 DEF Recorded
<1> QED BY <1>3, <1>6, <1>10

\* The record is written: what was borrowed is added, what was given back goes.
LEMMA WritesRecorded ==
    ASSUME VectorInv, Rest, AloneCore, NEW c \in Callers,
           RecordBorrowed(c) \/ StrikeBorrowed(c) \/ ForgetBorrowed(c)
    PROVE  LimitCovered' /\ LimitKnown' /\ Recorded'
<1>1. /\ slots' = slots /\ max_slots' = max_slots /\ job' = [job EXCEPT ![c] = Idle]
      /\ job[c].pc \in {"record", "strike", "forget"}
  BY DEF RecordBorrowed, StrikeBorrowed, ForgetBorrowed, Done
<1>2. job'[c] = Idle /\ \A d \in Callers : d # c => job'[d] = job[d] /\ job[d].pc = "idle"
  BY <1>1, BothBusy DEF Rest, AloneCore
<1>3. \A d \in Callers : job'[d].pc = "idle"
  BY <1>2 DEF Idle
<1>4. LimitKnown' /\ LimitCovered'
  BY <1>1, <1>3 DEF AloneCore, LimitKnown, LimitCovered, IdsAt
<1>5. \A f \in Folders : BorrowedBy(f)' = BorrowedBy(f)
  BY <1>1 DEF BorrowedBy, Owned
<1>6. \A f \in Folders : \A i \in borrowed_map[f] :
         \/ i \in BorrowedBy(f)
         \/ job[c].pc = "strike" /\ job[c].folder = f /\ i \in job[c].ids
         \/ job[c].pc = "forget" /\ f \in job[c].tasks
  BY <1>2 DEF AloneCore, Recorded, Struck
<1>7. \A f \in Folders : \A i \in borrowed_map'[f] : i \in BorrowedBy(f)
  <2>1. CASE RecordBorrowed(c)
    <3>1. job[c].folder \in Folders /\ job[c].ids \subseteq BorrowedBy(job[c].folder)
      BY <2>1, JobIs DEF RecordBorrowed, AloneCore, Recorded
    <3> QED BY <1>6, <2>1, <3>1 DEF RecordBorrowed, Rest
  <2>2. CASE StrikeBorrowed(c)
    BY <1>6, <2>2 DEF StrikeBorrowed, Rest
  <2>3. CASE ForgetBorrowed(c)
    BY <1>6, <2>3 DEF ForgetBorrowed, Rest
  <2> QED BY <1>1, <2>1, <2>2, <2>3
<1>8. Recorded'
  BY <1>3, <1>5, <1>7 DEF Recorded
<1> QED BY <1>4, <1>8

LEMMA ReplaceTaken ==
    ASSUME VectorInv, NEW max, NEW S \in SUBSET (FreeBelow(max) \cup PreemptableBelow(max)),
           \A k \in DOMAIN slots : k \notin S => slots'[k] = slots[k]
    PROVE  \A k \in DOMAIN slots : slots[k].slot_type = "Borrowed" => slots'[k] = slots[k]
BY TakesNoBorrowed

\* A caller that reads the limit, is refused, or takes a fixed slot.
LEMMA AloneTakes ==
    ASSUME SlotsInv, AloneCore, NEW c \in Callers,
           LoadMax(c) \/ Refused(c) \/ \E t \in Tasks : AllocateFree(c, t) \/ AllocatePreempting(c, t)
    PROVE  LimitCovered' /\ LimitKnown' /\ Recorded'
<1>0. VectorInv /\ Rest
  BY InvParts
<1>1. CASE LoadMax(c)
  <2>1. SlotsMove /\ slots' = slots /\ UNCHANGED <<max_slots, borrowed_map>>
    BY <1>0, <1>1, LoadSlots, FreesMove DEF LoadMax
  <2>2. \A d \in Callers : \/ job'[d] = job[d]
                           \/ job'[d].pc = "loaded" /\ job'[d].max = max_slots /\ job[d] = Idle
    BY <1>0, <1>1 DEF LoadMax, Rest
  <2> QED BY <1>0, <2>1, <2>2, AloneStays
<1>2. CASE Refused(c)
  <2>1. SlotsMove /\ slots' = slots /\ UNCHANGED <<max_slots, borrowed_map>>
    BY <1>0, <1>2, RefusedSlots, FreesMove DEF Refused
  <2>2. \A d \in Callers : job'[d] = job[d] \/ (job'[d] = Idle /\ job[d].pc = "loaded")
    BY <1>0, <1>2 DEF Refused, Loaded, Done, Rest
  <2> QED BY <1>0, <2>1, <2>2, AloneStays
<1>3. ASSUME NEW t \in Tasks, AllocateFree(c, t) \/ AllocatePreempting(c, t)
      PROVE  LimitCovered' /\ LimitKnown' /\ Recorded'
  <2>1. SlotsMove
    BY <1>3, AllocateSlots
  <2>2. PICK S \in SUBSET (FreeBelow(job[c].max) \cup PreemptableBelow(job[c].max)) :
           GiveFixed(c, t, S)
    BY <1>3, FirstIn DEF AllocateFree, AllocatePreempting
  <2>3. /\ UNCHANGED <<max_slots, borrowed_map>>
        /\ \A k \in DOMAIN slots : k \notin S => slots'[k] = slots[k]
    BY <2>2 DEF GiveFixed, Replace
  <2>4. \A k \in DOMAIN slots : slots[k].slot_type = "Borrowed" => slots'[k] = slots[k]
    BY <1>0, <2>3, ReplaceTaken
  <2>5. \A d \in Callers : job'[d] = job[d] \/ (job'[d] = Idle /\ job[d].pc = "loaded")
    BY <1>0, <1>3, <2>2 DEF AllocateFree, AllocatePreempting, Requests, Loaded, GiveFixed, Done, Rest
  <2> QED BY <1>0, <2>1, <2>3, <2>4, <2>5, AloneStays
<1> QED BY <1>1, <1>2, <1>3

\* A folder borrows, and has the slots before they are recorded.
LEMMA AloneBorrows ==
    ASSUME SlotsInv, AloneCore, OneBusy', NEW c \in Callers, NEW f \in Folders,
           NEW n \in 1..MaxSlots, AllocateBorrowed(c, f, n)
    PROVE  LimitCovered' /\ LimitKnown' /\ Recorded'
<1> DEFINE S == BorrowPicks(f, job[c].max, n)
<1>0. VectorInv /\ Rest
  BY InvParts
<1>1. S \in SUBSET (FreeBelow(job[c].max) \cup PreemptableBelow(job[c].max))
  BY PicksIn
<1>2. /\ slots' = Replace(S, LAMBDA s : Taken(s, f, "Borrowed", Normal))
      /\ job' = [job EXCEPT ![c] = [pc |-> "record", folder |-> f, ids |-> IdsAt(S)]]
      /\ UNCHANGED <<max_slots, borrowed_map, silent>> /\ job[c].pc = "loaded" /\ silent' = silent
  BY DEF AllocateBorrowed, Loaded
<1> HIDE DEF S
<1>3. S \in SUBSET DOMAIN slots
  BY <1>1 DEF FreeBelow, PreemptableBelow
<1>4. /\ VectorInv' /\ SlotsMove
      /\ \A k \in DOMAIN slots : k \notin S => slots'[k] = slots[k]
      /\ \A k \in S : slots'[k].task_id = f /\ slots'[k].slot_type = "Borrowed"
  <2>1. /\ slots' = Replace(S, LAMBDA s : Taken(s, f, "Borrowed", Normal))
        /\ silent' = silent /\ VectorInv
    BY <1>0, <1>2
  <2> QED BY <1>3, <2>1, BorrowKeeps
<1>5. \A k \in DOMAIN slots : slots[k].slot_type = "Borrowed" => slots'[k] = slots[k]
  BY <1>0, <1>1, <1>4, ReplaceTaken
<1>6. LimitCovered'
  BY <1>2, <1>4, MoveCovers DEF AloneCore
<1>7. /\ job'[c].pc = "record" /\ job'[c].folder = f /\ job'[c].ids = IdsAt(S)
      /\ \A d \in Callers : d # c => job'[d] = job[d]
  BY <1>0, <1>2 DEF Rest
<1>8. \A d \in Callers : d # c => job'[d].pc = "idle" /\ job[d].pc = "idle"
  BY <1>2, <1>7, BothBusy DEF AloneCore
<1>9. LimitKnown'
  BY <1>7, <1>8 DEF LimitKnown
<1>10. BorrowsStay
  BY <1>4, <1>5, StaysInPlace
<1>11. IdsAt(S) \subseteq BorrowedBy(f)'
  <2> SUFFICES ASSUME NEW k \in S PROVE slots[k].id \in BorrowedBy(f)'
    BY DEF IdsAt
  <2>1. k \in DOMAIN slots' /\ Borrows(k, f)' /\ slots'[k].id = slots[k].id
    BY <1>3, <1>4 DEF SlotsMove, Borrows
  <2> QED BY <2>1, BorrowedThen
<1>12. ASSUME NEW g \in Folders, NEW i \in borrowed_map'[g] PROVE i \in BorrowedBy(g)'
  <2>1. ~Struck(g, i)
    BY <1>2, <1>8 DEF Struck
  <2>2. i \in BorrowedBy(g)
    BY <1>2, <1>12, <2>1 DEF AloneCore, Recorded
  <2> QED BY <1>10, <2>2 DEF BorrowsStay
<1>13. \A d \in Callers : job'[d].pc = "record" => d = c
  BY <1>8
<1>14. Recorded'
  BY <1>7, <1>11, <1>12, <1>13 DEF Recorded
<1> QED BY <1>6, <1>9, <1>14

\* A task gives back what it has, or the cleanup takes it.
LEMMA AloneFrees ==
    ASSUME SlotsInv, AloneCore, OneBusy', NEW c \in Callers,
           \/ \E t \in Tasks : ReleaseFixed(c, t)
           \/ \E f \in Folders : ReleaseAll(c, f) \/ \E i \in Ids : ReleaseBorrowed(c, f, i)
           \/ CleanupStale(c)
    PROVE  LimitCovered' /\ LimitKnown' /\ Recorded'
<1>0. VectorInv /\ Rest
  BY InvParts
<1>1. ASSUME NEW t \in Tasks, ReleaseFixed(c, t)
      PROVE  LimitCovered' /\ LimitKnown' /\ Recorded'
  <2> DEFINE S == First({k \in DOMAIN slots : slots[k].task_id = t /\ slots[k].slot_type = "Fixed"}, 1)
  <2>1. slots' = Replace(S, Released) /\ UNCHANGED <<max_slots, borrowed_map, job>>
    BY <1>1 DEF ReleaseFixed
  <2>2. \A k \in S : slots[k].slot_type = "Fixed"
    BY FirstIn
  <2> HIDE DEF S
  <2>3. SlotsMove
    BY <1>0, <2>1, ReplaceFrees, FreesMove
  <2>4. \A k \in DOMAIN slots : slots[k].slot_type = "Borrowed" => slots'[k] = slots[k]
    BY <2>1, <2>2, ReplaceFrees
  <2> QED BY <1>0, <2>1, <2>3, <2>4, AloneStays
<1>2. ASSUME NEW f \in Folders, ReleaseAll(c, f)
      PROVE  LimitCovered' /\ LimitKnown' /\ Recorded'
  <2> DEFINE S == {k \in DOMAIN slots : slots[k].task_id = f}
             j == [pc |-> "forget", tasks |-> {f}]
  <2>1. /\ slots' = Replace(S, Released) /\ UNCHANGED <<max_slots, borrowed_map>>
        /\ job' = [job EXCEPT ![c] = j] /\ job[c].pc = "idle"
    BY <1>2 DEF ReleaseAll, Idle
  <2>2. \A k \in S : slots[k].task_id = f
    OBVIOUS
  <2>3. j.pc = "forget" /\ j.tasks = {f}
    OBVIOUS
  <2> HIDE DEF S, j
  <2>4. \A g \in Folders : \A k \in DOMAIN slots : k \in S /\ Borrows(k, g) =>
           j.pc = "forget" /\ g \in j.tasks
    BY <2>2, <2>3 DEF Borrows
  <2> QED BY <1>0, <2>1, <2>3, <2>4, FreesRecorded
<1>3. ASSUME NEW f \in Folders, NEW i \in Ids, ReleaseBorrowed(c, f, i)
      PROVE  LimitCovered' /\ LimitKnown' /\ Recorded'
  <2> DEFINE S == First({k \in DOMAIN slots : slots[k].id = i /\ slots[k].task_id = f}, 1)
             j == [pc |-> "strike", folder |-> f, ids |-> {i}]
  <2>1. /\ slots' = Replace(S, Released) /\ UNCHANGED <<max_slots, borrowed_map>>
        /\ job' = [job EXCEPT ![c] = j] /\ job[c].pc = "idle"
    BY <1>3 DEF ReleaseBorrowed, Idle
  <2>2. \A k \in S : slots[k].task_id = f /\ slots[k].id = i
    BY FirstIn
  <2>3. j.pc = "strike" /\ j.folder = f /\ j.ids = {i}
    OBVIOUS
  <2> HIDE DEF S, j
  <2>4. \A g \in Folders : \A k \in DOMAIN slots : k \in S /\ Borrows(k, g) =>
           j.pc = "strike" /\ j.folder = g /\ slots[k].id \in j.ids
    BY <2>2, <2>3 DEF Borrows
  <2> QED BY <1>0, <2>1, <2>3, <2>4, FreesRecorded
<1>4. CASE CleanupStale(c)
  <2> DEFINE S == StaleBelow(job[c].max)
             j == [pc |-> "forget", tasks |-> {slots[k].task_id : k \in S}]
  <2>1. /\ slots' = Replace(S, Released) /\ UNCHANGED <<max_slots, borrowed_map>>
        /\ job' = [job EXCEPT ![c] = j] /\ job[c].pc = "loaded"
    BY <1>4 DEF CleanupStale, Loaded
  <2>2. j.pc = "forget" /\ \A k \in S : slots[k].task_id \in j.tasks
    OBVIOUS
  <2> HIDE DEF S, j
  <2>3. \A g \in Folders : \A k \in DOMAIN slots : k \in S /\ Borrows(k, g) =>
           j.pc = "forget" /\ g \in j.tasks
    BY <2>2 DEF Borrows
  <2> QED BY <1>0, <2>1, <2>2, <2>3, FreesRecorded
<1> QED BY <1>1, <1>2, <1>3, <1>4

\* The limit changes: what it newly covers is added, what is taken or covered stays.
LEMMA AloneResizes ==
    ASSUME SlotsInv, AloneCore, NEW c \in Callers, NEW new \in 1..MaxSlots, Resize(c, new)
    PROVE  LimitCovered' /\ LimitKnown' /\ Recorded'
<1>0. VectorInv /\ Rest
  BY InvParts
<1> DEFINE old == job[c].max
<1>1. /\ job[c].pc = "loaded" /\ old = max_slots /\ old \in 1..MaxSlots /\ max_slots' = new
      /\ slots' = (IF new > old THEN Grown(old, new) ELSE Shrunk(new))
      /\ UNCHANGED <<borrowed_map, silent>>
  BY <1>0, JobIs DEF Resize, Loaded, AloneCore, LimitKnown
<1> HIDE DEF old
<1>2. /\ \A k \in DOMAIN slots : slots[k].id < new \/ ~IsFree(slots[k]) =>
            \E n \in DOMAIN slots' : slots'[n] = slots[k]
      /\ new > old => \A i \in old..(new - 1) : \E n \in DOMAIN slots' : slots'[n].id = i
      /\ new > old => \A k \in DOMAIN slots : \E n \in DOMAIN slots' : slots'[n] = slots[k]
  BY <1>0, <1>1, ResizeSlots
<1>3. old \in Nat /\ new \in Nat
  BY <1>1, PoolAssumption
<1>4. ASSUME NEW i \in 0..(new - 1) PROVE \E n \in DOMAIN slots' : slots'[n].id = i
  <2>1. CASE i \in old..(new - 1)
    BY <1>2, <1>3, <2>1
  <2>2. CASE i \in 0..(old - 1)
    <3>1. PICK k \in DOMAIN slots : slots[k].id = i
      BY <1>1, <2>2, IdsThere DEF AloneCore, LimitCovered
    <3> QED BY <1>2, <1>3, <1>4, <3>1
  <2> QED BY <1>3, <1>4, <2>1, <2>2
<1>5. LimitCovered'
  BY <1>1, <1>4 DEF LimitCovered, IdsAt
<1>6. job'[c] = Idle /\ \A d \in Callers : d # c => job'[d] = job[d] /\ job[d].pc = "idle"
  BY <1>0, <1>1, BothBusy DEF Resize, Done, Rest, AloneCore
<1>7. \A d \in Callers : job'[d].pc = "idle"
  BY <1>6 DEF Idle
<1>8. LimitKnown'
  BY <1>7 DEF LimitKnown
<1>9. BorrowsStay
  <2> SUFFICES ASSUME NEW f \in Folders, NEW i \in BorrowedBy(f) PROVE i \in BorrowedBy(f)'
    BY DEF BorrowsStay
  <2>1. PICK k \in DOMAIN slots : Borrows(k, f) /\ slots[k].id = i
    BY BorrowedThere
  <2>2. f # NoTask
    BY PoolAssumption DEF Tasks
  <2>3. PICK n \in DOMAIN slots' : slots'[n] = slots[k]
    BY <1>2, <2>1, <2>2 DEF Borrows, IsFree
  <2>4. Borrows(n, f)' /\ slots'[n].id = i
    BY <2>1, <2>3 DEF Borrows
  <2> QED BY <2>4, BorrowedThen
<1>10. \A d \in Callers : job[d].pc \notin {"strike", "forget"}
  BY <1>1, <1>6
<1>11. Recorded'
  BY <1>0, <1>1, <1>7, <1>9, <1>10, RecordStays DEF AloneCore
<1> QED BY <1>5, <1>8, <1>11

LEMMA NextAlone ==
    ASSUME SlotsInv, AloneCore, OneBusy', Next
    PROVE  AloneCore'
<1>0. VectorInv /\ Rest
  BY InvParts
<1>1. ASSUME NEW c \in Callers, CallerStep(c) PROVE LimitCovered' /\ LimitKnown' /\ Recorded'
  BY <1>0, <1>1, AloneTakes, AloneBorrows, AloneFrees, WritesRecorded, AloneResizes DEF CallerStep
<1>2. CASE Tick \/ \E t \in Tasks : Touch(t)
  <2>1. UNCHANGED <<max_slots, borrowed_map>> /\ job' = job
    BY <1>2 DEF Tick, Touch
  <2>2. /\ SlotsMove
        /\ \A k \in DOMAIN slots : slots[k].slot_type = "Borrowed" =>
              slots'[k].slot_type = "Borrowed" /\ slots'[k].task_id = slots[k].task_id
    BY <1>2, ClockSlots
  <2>3. \A d \in Callers : job'[d] = job[d]
    BY <2>1
  <2>4. LimitCovered' /\ LimitKnown' /\ Recorded'
    BY <1>0, <2>1, <2>2, <2>3, AloneStays
  <2> QED BY <2>4 DEF AloneCore
<1> QED BY <1>1, <1>2 DEF Next, AloneCore

-----------------------------------------------------------------------------
(* The chunk slot ids                                                      *)

\* An id is on the stack at some position.
LEMMA OnStack ==
    ASSUME NEW S, NEW s \in Seq(S), NEW i
    PROVE  ChunkIds!Contains(s, i) <=> \E k \in DOMAIN s : s[k] = i
BY DEF ChunkIds!Contains

\* The operators of the instance are those of the library.
LEMMA SameNth == \A P, n : /\ ChunkIds!Cardinality(P) = Cardinality(P)
                           /\ ChunkIds!Nth(P, n) = Nth(P, n)
BY DEF ChunkIds!Nth, Nth, ChunkIds!Cardinality, Cardinality, ChunkIds!IsFiniteSet, IsFiniteSet

LEMMA ElementsIn ==
    ASSUME NEW S, NEW s \in Seq(S)
    PROVE  \A k \in DOMAIN s : s[k] \in S
OBVIOUS

LEMMA ListIn ==
    ASSUME NEW S, NEW n \in Nat, NEW s, s = [k \in 1..n |-> s[k]], \A k \in 1..n : s[k] \in S
    PROVE  s \in Seq(S)
OBVIOUS

\* A stack without its top.
LEMMA TopOff ==
    ASSUME NEW S, NEW s \in Seq(S), s # << >>
    PROVE  /\ Len(s) \in Nat /\ Len(s) # 0 /\ DOMAIN s = 1..Len(s) /\ s[Len(s)] \in S
           /\ SubSeq(s, 1, Len(s) - 1) \in Seq(S)
           /\ DOMAIN SubSeq(s, 1, Len(s) - 1) = 1..(Len(s) - 1)
           /\ \A k \in 1..(Len(s) - 1) : SubSeq(s, 1, Len(s) - 1)[k] = s[k]
<1>1. Len(s) \in Nat /\ Len(s) # 0 /\ DOMAIN s = 1..Len(s)
  OBVIOUS
<1>2. Len(s) \in DOMAIN s /\ \A k \in DOMAIN s : s[k] \in S
  BY <1>1
<1>3. /\ SubSeq(s, 1, Len(s) - 1) \in Seq(S)
      /\ DOMAIN SubSeq(s, 1, Len(s) - 1) = 1..(Len(s) - 1)
      /\ \A k \in 1..(Len(s) - 1) : SubSeq(s, 1, Len(s) - 1)[k] = s[k]
  BY <1>1
<1> QED BY <1>1, <1>2, <1>3

\* What Descending lists.
LEMMA DescendingLists ==
    ASSUME NEW lo \in 1..MaxMax, NEW hi \in 1..MaxMax
    PROVE  LET v == ChunkIds!Descending(lo, hi)
           IN  /\ v \in Seq(lo..hi) /\ v \in Seq(Int)
               /\ \A k \in DOMAIN v : v[k] \in lo..hi
               /\ \A j, k \in DOMAIN v : v[j] = v[k] => j = k
               /\ \A i \in lo..hi : \E k \in DOMAIN v : v[k] = i
<1> DEFINE v == ChunkIds!Descending(lo, hi)
<1>0. lo \in Nat /\ hi \in Nat
  BY InstanceAssumption
<1>1. v = [i \in 1..(hi - lo + 1) |-> hi - i + 1]
  BY DEF ChunkIds!Descending
<1> HIDE DEF v
<1>2. DOMAIN v = 1..(hi - lo + 1) /\ \A k \in DOMAIN v : v[k] = hi - k + 1
  BY <1>1
<1>3. \A k \in DOMAIN v : v[k] \in lo..hi
  BY <1>0, <1>2
<1>4. v \in Seq(lo..hi) /\ v \in Seq(Int)
  <2>1. CASE hi - lo + 1 \in Nat
    <3>1. \A i \in 1..(hi - lo + 1) : hi - i + 1 \in lo..hi /\ hi - i + 1 \in Int
      BY <1>0
    <3> QED BY <1>1, <2>1, <3>1
  <2>2. CASE hi - lo + 1 \notin Nat
    <3>1. 1..(hi - lo + 1) = 1..0
      BY <1>0, <2>2
    <3>2. v = << >>
      BY <1>1, <3>1
    <3> QED BY <3>2
  <2> QED BY <2>1, <2>2
<1>5. \A j, k \in DOMAIN v : v[j] = v[k] => j = k
  BY <1>0, <1>2
<1>6. ASSUME NEW i \in lo..hi PROVE \E k \in DOMAIN v : v[k] = i
  <2>1. hi - i + 1 \in DOMAIN v /\ v[hi - i + 1] = i
    BY <1>0, <1>2
  <2> QED BY <2>1
<1> QED BY <1>3, <1>4, <1>5, <1>6 DEF v

\* The stack, in terms of its positions.
StackInv ==
    /\ available \in Seq(1..MaxMax) /\ max_ids \in 1..MaxMax
    /\ slot_id \in [Transfers -> 0..(MaxMax + 1)]
    /\ \A j, k \in DOMAIN available : available[j] = available[k] => j = k
    /\ \A k \in DOMAIN available : available[k] <= max_ids
    /\ \A i \in 1..max_ids : (\E k \in DOMAIN available : available[k] = i)
                             \/ (\E t \in Transfers : slot_id[t] = i)

LEMMA StackIs == (IdsInv <=> StackInv) /\ (IdsInv' <=> StackInv')
<1>1. IdsInv <=> StackInv
  BY OnStack DEF IdsInv, StackInv, ChunkIds!TypeOK, ChunkIds!StackClean, ChunkIds!NoSlotLost
<1>2. IdsInv' <=> StackInv'
  BY OnStack DEF IdsInv, StackInv, ChunkIds!TypeOK, ChunkIds!StackClean, ChunkIds!NoSlotLost
<1> QED BY <1>1, <1>2

LEMMA StackBegins ==
    ASSUME ChunkIds!Init
    PROVE  StackInv
<1>1. /\ available = ChunkIds!Descending(1, InitMax) /\ max_ids = InitMax
      /\ slot_id = [t \in Transfers |-> 0]
  BY DEF ChunkIds!Init, ChunkIds!NoSlot
<1>2. MaxMax \in Nat /\ InitMax \in 1..MaxMax /\ 1 \in 1..MaxMax /\ 0 \in 0..(MaxMax + 1)
  BY InstanceAssumption
<1>3. /\ available \in Seq(1..InitMax)
      /\ \A k \in DOMAIN available : available[k] \in 1..InitMax
      /\ \A j, k \in DOMAIN available : available[j] = available[k] => j = k
      /\ \A i \in 1..InitMax : \E k \in DOMAIN available : available[k] = i
  <2> DEFINE v == ChunkIds!Descending(1, InitMax)
  <2>1. /\ v \in Seq(1..InitMax)
        /\ \A k \in DOMAIN v : v[k] \in 1..InitMax
        /\ \A j, k \in DOMAIN v : v[j] = v[k] => j = k
        /\ \A i \in 1..InitMax : \E k \in DOMAIN v : v[k] = i
    BY <1>2, DescendingLists
  <2>2. available = v
    BY <1>1
  <2> HIDE DEF v
  <2> QED BY <2>1, <2>2
<1>4. available \in Seq(1..MaxMax)
  BY <1>2, <1>3
<1>5. slot_id \in [Transfers -> 0..(MaxMax + 1)]
  BY <1>1, <1>2
<1>6. \A k \in DOMAIN available : available[k] <= max_ids
  BY <1>1, <1>2, <1>3
<1> QED BY <1>1, <1>2, <1>3, <1>4, <1>5, <1>6 DEF StackInv

LEMMA StackAcquires ==
    ASSUME StackInv, NEW t \in Transfers, ChunkIds!Acquire(t)
    PROVE  StackInv'
<1>0. MaxMax \in Nat /\ max_ids \in Nat
  BY InstanceAssumption DEF StackInv
<1>1. slot_id[t] = 0 /\ max_ids' = max_ids
  BY DEF ChunkIds!Acquire, ChunkIds!NoSlot
<1>2. CASE available = << >>
  <2>1. available' = available /\ slot_id' = [slot_id EXCEPT ![t] = max_ids + 1]
    BY <1>2 DEF ChunkIds!Acquire
  <2>2. max_ids + 1 \in 0..(MaxMax + 1)
    BY <1>0 DEF StackInv
  <2>3. slot_id' \in [Transfers -> 0..(MaxMax + 1)] /\ \A u \in Transfers : u # t => slot_id'[u] = slot_id[u]
    BY <2>1, <2>2 DEF StackInv
  <2> QED BY <1>0, <1>1, <2>1, <2>3 DEF StackInv
<1>3. CASE available # << >>
  <2> DEFINE n == Len(available)
  <2>1. n \in Nat /\ n # 0 /\ DOMAIN available = 1..n /\ available[n] \in 1..MaxMax
    BY <1>3, TopOff DEF StackInv
  <2>2. available' = SubSeq(available, 1, n - 1) /\ slot_id' = [slot_id EXCEPT ![t] = available[n]]
    BY <1>3 DEF ChunkIds!Acquire, ChunkIds!Last, ChunkIds!Front
  <2>3. /\ available' \in Seq(1..MaxMax) /\ DOMAIN available' = 1..(n - 1)
        /\ \A k \in 1..(n - 1) : available'[k] = available[k]
    BY <1>3, <2>2, TopOff DEF StackInv
  <2>4. /\ slot_id' \in [Transfers -> 0..(MaxMax + 1)] /\ slot_id'[t] = available[n]
        /\ \A u \in Transfers : u # t => slot_id'[u] = slot_id[u]
    BY <1>0, <2>1, <2>2 DEF StackInv
  <2> HIDE DEF n
  <2>5. ASSUME NEW i \in 1..max_ids
        PROVE  (\E k \in DOMAIN available' : available'[k] = i) \/ (\E u \in Transfers : slot_id'[u] = i)
    <3>1. CASE \E k \in DOMAIN available : available[k] = i
      <4>1. PICK k \in 1..n : available[k] = i
        BY <2>1, <3>1
      <4>2. k = n \/ k \in 1..(n - 1)
        BY <2>1
      <4> QED BY <2>3, <2>4, <4>1, <4>2
    <3>2. CASE \E u \in Transfers : slot_id[u] = i
      BY <1>0, <1>1, <2>4, <3>2
    <3> QED BY <3>1, <3>2 DEF StackInv
  <2>6. \A k \in DOMAIN available' : k \in DOMAIN available /\ available'[k] = available[k]
    BY <2>1, <2>3
  <2> QED BY <1>1, <2>3, <2>4, <2>5, <2>6 DEF StackInv
<1> QED BY <1>2, <1>3

LEMMA StackReleases ==
    ASSUME StackInv, NEW t \in Transfers, ChunkIds!Release(t)
    PROVE  StackInv'
<1> DEFINE x == slot_id[t]
           n == Len(available)
<1>0. MaxMax \in Nat /\ max_ids \in 1..MaxMax /\ x \in 1..(MaxMax + 1)
  BY InstanceAssumption DEF StackInv, ChunkIds!Release, ChunkIds!NoSlot
<1>1. /\ slot_id' \in [Transfers -> 0..(MaxMax + 1)] /\ max_ids' = max_ids
      /\ \A u \in Transfers : u # t => slot_id'[u] = slot_id[u]
  BY <1>0 DEF StackInv, ChunkIds!Release, ChunkIds!NoSlot
<1>2. n \in Nat /\ DOMAIN available = 1..n /\ available \in Seq(1..MaxMax)
  BY DEF StackInv
<1>3. CASE x <= max_ids /\ ~(\E k \in DOMAIN available : available[k] = x)
  <2>1. available' = Append(available, x)
    BY <1>2, <1>3, OnStack DEF ChunkIds!Release, ChunkIds!Push
  <2>2. /\ available' \in Seq(1..MaxMax) /\ DOMAIN available' = 1..(n + 1)
        /\ available'[n + 1] = x /\ \A k \in 1..n : available'[k] = available[k]
    BY <1>0, <1>2, <1>3, <2>1 DEF StackInv
  <2> HIDE DEF n, x
  <2>3. n + 1 \in DOMAIN available' /\ \A k \in DOMAIN available' : k \in 1..n \/ k = n + 1
    BY <1>2, <2>2
  <2>4. \A j, k \in DOMAIN available' : available'[j] = available'[k] => j = k
    BY <1>2, <1>3, <2>2, <2>3 DEF StackInv
  <2>5. ASSUME NEW i \in 1..max_ids
        PROVE  (\E k \in DOMAIN available' : available'[k] = i) \/ (\E u \in Transfers : slot_id'[u] = i)
    <3>1. CASE i = x
      BY <2>2, <2>3, <3>1
    <3>2. CASE i # x
      <4>1. (\E k \in 1..n : available[k] = i) \/ (\E u \in Transfers : u # t /\ slot_id[u] = i)
        BY <1>2, <3>2 DEF StackInv, x
      <4>2. \A k \in 1..n : k \in DOMAIN available'
        BY <1>2, <2>2
      <4> QED BY <1>1, <2>2, <4>1, <4>2
    <3> QED BY <3>1, <3>2
  <2>6. \A k \in DOMAIN available' : available'[k] <= max_ids
    BY <1>2, <1>3, <2>2, <2>3 DEF StackInv
  <2> QED BY <1>0, <1>1, <2>2, <2>4, <2>5, <2>6 DEF StackInv
<1>4. CASE ~(x <= max_ids) \/ \E k \in DOMAIN available : available[k] = x
  <2>0. ChunkIds!Contains(available, x) <=> \E k \in DOMAIN available : available[k] = x
    BY <1>2, OnStack
  <2>1. available' = available
    BY <1>4, <2>0 DEF ChunkIds!Release, ChunkIds!Push
  <2>2. ASSUME NEW i \in 1..max_ids
        PROVE  (\E k \in DOMAIN available : available[k] = i) \/ (\E u \in Transfers : slot_id'[u] = i)
    BY <1>0, <1>1, <1>4 DEF StackInv
  <2> QED BY <1>1, <2>1, <2>2 DEF StackInv
<1> QED BY <1>3, <1>4

LEMMA StackResizes ==
    ASSUME StackInv, NEW new \in 1..MaxMax, ChunkIds!Resize(new)
    PROVE  StackInv'
<1>0. MaxMax \in Nat /\ max_ids \in 1..MaxMax /\ new \in Nat /\ max_ids \in Nat
  BY InstanceAssumption DEF StackInv
<1>1. new # max_ids /\ available' = ChunkIds!Resized(new) /\ max_ids' = new /\ slot_id' = slot_id
  BY DEF ChunkIds!Resize
<1>2. CASE new > max_ids
  <2> DEFINE v == ChunkIds!Descending(max_ids + 1, new)
             n == Len(available)
  <2>0. max_ids + 1 \in 1..MaxMax
    BY <1>0, <1>2
  <2>1. /\ v \in Seq((max_ids + 1)..new)
        /\ \A k \in DOMAIN v : v[k] \in (max_ids + 1)..new
        /\ \A j, k \in DOMAIN v : v[j] = v[k] => j = k
        /\ \A i \in (max_ids + 1)..new : \E k \in DOMAIN v : v[k] = i
    BY <2>0, DescendingLists
  <2>2. available' = available \o v
    BY <1>1, <1>2 DEF ChunkIds!Resized
  <2> HIDE DEF v
  <2>3. n \in Nat /\ DOMAIN available = 1..n /\ Len(v) \in Nat /\ DOMAIN v = 1..Len(v)
    BY <2>1 DEF StackInv
  <2>4. v \in Seq(1..MaxMax)
    BY <1>0, <2>1
  <2>5. available' \in Seq(1..MaxMax) /\ DOMAIN available' = 1..(n + Len(v))
    BY <2>2, <2>4 DEF StackInv
  <2>6. \A k \in DOMAIN available : k \in DOMAIN available' /\ available'[k] = available[k]
    BY <2>2, <2>3, <2>4 DEF StackInv
  <2>7. \A k \in DOMAIN v : n + k \in DOMAIN available' /\ available'[n + k] = v[k]
    BY <2>2, <2>3, <2>4 DEF StackInv
  <2>8. ASSUME NEW k \in DOMAIN available', k \notin DOMAIN available
        PROVE  \E i \in DOMAIN v : k = n + i
    <3>1. k - n \in DOMAIN v /\ k = n + (k - n)
      BY <2>3, <2>5, <2>8
    <3> QED BY <3>1
  <2> HIDE DEF n
  <2>9. ASSUME NEW j \in DOMAIN available', NEW k \in DOMAIN available', available'[j] = available'[k]
        PROVE  j = k
    <3>1. \A i \in DOMAIN available : available[i] <= max_ids /\ available[i] \in Nat
      BY <1>0 DEF StackInv
    <3>2. \A i \in DOMAIN available, l \in DOMAIN v : available[i] # v[l]
      BY <1>0, <2>1, <3>1
    <3>3. CASE j \in DOMAIN available /\ k \in DOMAIN available
      BY <2>6, <2>9, <3>3 DEF StackInv
    <3>4. CASE j \in DOMAIN available /\ k \notin DOMAIN available
      BY <2>6, <2>7, <2>8, <2>9, <3>2, <3>4
    <3>5. CASE j \notin DOMAIN available /\ k \in DOMAIN available
      BY <2>6, <2>7, <2>8, <2>9, <3>2, <3>5
    <3>6. CASE j \notin DOMAIN available /\ k \notin DOMAIN available
      <4>1. PICK i \in DOMAIN v : j = n + i
        BY <2>8, <3>6
      <4>2. PICK l \in DOMAIN v : k = n + l
        BY <2>8, <3>6
      <4>3. i = l
        BY <2>1, <2>7, <2>9, <4>1, <4>2
      <4> QED BY <4>1, <4>2, <4>3
    <3> QED BY <3>3, <3>4, <3>5, <3>6
  <2>10. \A k \in DOMAIN available' : available'[k] <= new
    <3>1. \A k \in DOMAIN available : available[k] <= new
      <4>1. \A k \in DOMAIN available : available[k] <= max_ids /\ available[k] \in Nat
        BY <1>0 DEF StackInv
      <4> QED BY <1>0, <1>2, <4>1
    <3>2. \A k \in DOMAIN v : v[k] <= new
      BY <1>0, <2>1
    <3> QED BY <2>6, <2>7, <2>8, <3>1, <3>2
  <2>11. ASSUME NEW i \in 1..new
         PROVE  (\E k \in DOMAIN available' : available'[k] = i) \/ (\E u \in Transfers : slot_id[u] = i)
    <3>1. i \in 1..max_ids \/ i \in (max_ids + 1)..new
      BY <1>0
    <3>2. CASE i \in 1..max_ids
      BY <2>6, <3>2 DEF StackInv
    <3>3. CASE i \in (max_ids + 1)..new
      BY <2>1, <2>7, <3>3
    <3> QED BY <3>1, <3>2, <3>3
  <2> QED BY <1>0, <1>1, <2>5, <2>9, <2>10, <2>11 DEF StackInv
<1>3. CASE ~(new > max_ids)
  <2> DEFINE P == {k \in DOMAIN available : available[k] <= new}
             v == [n \in 1..ChunkIds!Cardinality(P) |-> available[ChunkIds!Nth(P, n)]]
  <2>1. available' = v
    BY <1>1, <1>3 DEF ChunkIds!Resized, ChunkIds!Retain
  <2>2. P \in SUBSET DOMAIN available /\ \A k \in P : available[k] <= new
    OBVIOUS
  <2>3. \A k \in DOMAIN available : available[k] <= new => k \in P
    OBVIOUS
  <2>4. DOMAIN v = 1..ChunkIds!Cardinality(P) /\ \A n \in DOMAIN v : v[n] = available[ChunkIds!Nth(P, n)]
    OBVIOUS
  <2> HIDE DEF P
  <2>5. \A n : ChunkIds!Nth(P, n) = Nth(P, n) /\ ChunkIds!Cardinality(P) = Cardinality(P)
    BY SameNth
  <2>6. DOMAIN v = 1..Cardinality(P) /\ \A n \in DOMAIN v : v[n] = available[Nth(P, n)]
    <3> HIDE DEF v
    <3> QED BY <2>4, <2>5
  <2>7. /\ Cardinality(P) \in Nat
        /\ \A n \in 1..Cardinality(P) : Nth(P, n) \in P
        /\ \A k \in P : \E n \in 1..Cardinality(P) : Nth(P, n) = k
        /\ \A i, n \in 1..Cardinality(P) : i < n => Nth(P, i) < Nth(P, n)
    BY <2>2, NthOf DEF StackInv
  <2>8. v \in Seq(1..MaxMax)
    <3>0. \A k \in DOMAIN available : available[k] \in 1..MaxMax
      <4>1. available \in Seq(1..MaxMax)
        BY DEF StackInv
      <4> QED BY <4>1, ElementsIn
    <3>1. ChunkIds!Cardinality(P) \in Nat /\ ChunkIds!Cardinality(P) = Cardinality(P)
      BY <2>5, <2>7
    <3>2. \A n \in 1..Cardinality(P) : ChunkIds!Nth(P, n) \in P
      BY <2>5, <2>7
    <3>3. \A n \in 1..ChunkIds!Cardinality(P) : available[ChunkIds!Nth(P, n)] \in 1..MaxMax
      BY <2>2, <3>0, <3>1, <3>2
    <3>4. v = [n \in 1..ChunkIds!Cardinality(P) |-> v[n]] /\ \A n \in 1..ChunkIds!Cardinality(P) : v[n] \in 1..MaxMax
      BY <3>3
    <3> HIDE DEF v
    <3> QED BY <3>1, <3>4, ListIn
  <2> HIDE DEF v
  <2>9. ASSUME NEW j \in DOMAIN v, NEW k \in DOMAIN v, v[j] = v[k] PROVE j = k
    <3>1. Nth(P, j) = Nth(P, k)
      BY <2>2, <2>6, <2>7, <2>9 DEF StackInv
    <3>2. ~(Nth(P, j) < Nth(P, k)) /\ ~(Nth(P, k) < Nth(P, j))
      <4>1. Nth(P, j) \in Nat
        BY <2>2, <2>6, <2>7 DEF StackInv
      <4> QED BY <3>1, <4>1
    <3>3. j \in Nat /\ k \in Nat /\ ~(j < k) /\ ~(k < j)
      BY <2>6, <2>7, <3>2
    <3> QED BY <3>3
  <2>10. \A k \in DOMAIN v : v[k] <= new
    BY <2>2, <2>6, <2>7
  <2>11. ASSUME NEW i \in 1..new
         PROVE  (\E k \in DOMAIN v : v[k] = i) \/ (\E u \in Transfers : slot_id[u] = i)
    <3>1. i \in 1..max_ids /\ i <= new
      BY <1>0, <1>3
    <3>2. ASSUME NEW k \in DOMAIN available, available[k] = i PROVE \E n \in DOMAIN v : v[n] = i
      BY <2>3, <2>6, <2>7, <3>1, <3>2
    <3> QED BY <3>1, <3>2 DEF StackInv
  <2> QED BY <1>0, <1>1, <2>1, <2>8, <2>9, <2>10, <2>11 DEF StackInv
<1> QED BY <1>2, <1>3

-----------------------------------------------------------------------------
(* Sums over accounts                                                      *)

Total(f, T) == Shares!SumFunctionOnSet(f, T)

\* The sum of f over T, as a set with f[x] members for every x in T.
Tokens(f, T) == {p \in T \X Nat : p[2] \in 1..f[p[1]]}

\* What the fold behind the sum computes for every subset of T.
Adds(iter, f, T) ==
    iter = [s \in SUBSET T |-> IF s = {} THEN 0
                               ELSE f[CHOOSE x \in s : TRUE] + iter[s \ {CHOOSE x \in s : TRUE}]]

\* What holds of no account and of one more account whenever it holds without it, holds
\* of every set of accounts.
LEMMA SetsGrow ==
    ASSUME NEW T, IsFiniteSet(T), NEW Good, {} \in Good,
           \A s \in SUBSET T : s # {} /\ (\A x \in s : s \ {x} \in Good) => s \in Good
    PROVE  SUBSET T \subseteq Good
<1> SUFFICES ASSUME NEW s0 \in SUBSET T, s0 \notin Good PROVE FALSE
  OBVIOUS
<1> DEFINE Bad == {s \in SUBSET T : s \notin Good}
<1>1. IsWellFoundedOn(StrictSubsetOrdering(T), SUBSET T)
  <2>1. FiniteSubsetsOf(T) = SUBSET T
    BY FS_FiniteSubsetsOfFinite
  <2>2. IsWellFoundedOn(StrictSubsetOrdering(T), FiniteSubsetsOf(T))
    BY FS_StrictSubsetOrderingWellFounded
  <2> QED BY <2>1, <2>2
<1>2. Bad \subseteq SUBSET T /\ Bad # {}
  OBVIOUS
<1> HIDE DEF Bad
<1>3. PICK s \in Bad : \A u \in Bad : <<u, s>> \notin StrictSubsetOrdering(T)
  BY <1>1, <1>2, WFMin
<1>4. s \in SUBSET T /\ s \notin Good
  BY <1>3 DEF Bad
<1>5. PICK x \in s : s \ {x} \notin Good
  BY <1>4
<1>6. s \ {x} \in SUBSET T /\ s \ {x} \notin Good
  BY <1>4, <1>5
<1>7. <<s \ {x}, s>> \in StrictSubsetOrdering(T)
  <2>1. <<s \ {x}, s>> \in (SUBSET T) \X (SUBSET T) /\ s \ {x} \subseteq s /\ s \ {x} # s
    BY <1>4, <1>5
  <2> QED BY <2>1 DEF StrictSubsetOrdering
<1> QED BY <1>3, <1>6, <1>7 DEF Bad

\* The tokens of an account more.
LEMMA TokensTake ==
    ASSUME NEW T, IsFiniteSet(T), NEW f, \A x \in T : f[x] \in Nat
    PROVE  /\ Tokens(f, {}) = {} /\ Cardinality(Tokens(f, {})) = 0
           /\ \A s \in SUBSET T :
                 /\ IsFiniteSet(Tokens(f, s)) /\ Cardinality(Tokens(f, s)) \in Nat
                 /\ \A x \in s : Cardinality(Tokens(f, s)) = f[x] + Cardinality(Tokens(f, s \ {x}))
<1>1. Tokens(f, {}) = {} /\ Cardinality(Tokens(f, {})) = 0 /\ IsFiniteSet(Tokens(f, {}))
  BY FS_EmptySet DEF Tokens
<1> DEFINE Own(x) == {x} \X (1..f[x])
<1>2. ASSUME NEW s \in SUBSET T, NEW x \in s
      PROVE  Tokens(f, s) = Own(x) \cup Tokens(f, s \ {x}) /\ Own(x) \cap Tokens(f, s \ {x}) = {}
  BY DEF Tokens
<1>3. ASSUME NEW x \in T
      PROVE  IsFiniteSet(Own(x)) /\ Cardinality(Own(x)) = f[x]
  <2> DEFINE n == f[x]
             I == 1..n
  <2>0. n \in Nat /\ 1 \in Int /\ n \in Int
    OBVIOUS
  <2> HIDE DEF n
  <2>1. IsFiniteSet(I) /\ Cardinality(I) = IF 1 > n THEN 0 ELSE n - 1 + 1
    BY <2>0, FS_Interval
  <2>2. Cardinality(I) = n
    BY <2>0, <2>1
  <2>3. IsFiniteSet({x}) /\ Cardinality({x}) = 1
    BY FS_Singleton
  <2> HIDE DEF I
  <2>4. IsFiniteSet({x} \X I) /\ Cardinality({x} \X I) = Cardinality({x}) * Cardinality(I)
    BY <2>1, <2>3, FS_Product
  <2>5. IsFiniteSet({x} \X I) /\ Cardinality({x} \X I) = n
    BY <2>0, <2>2, <2>3, <2>4
  <2> QED BY <2>5 DEF I, n
<1> HIDE DEF Own
<1> DEFINE Good == {s \in SUBSET T : IsFiniteSet(Tokens(f, s))}
<1>4. SUBSET T \subseteq Good
  <2>1. {} \in Good
    BY <1>1
  <2>2. ASSUME NEW s \in SUBSET T, NEW x \in s, s \ {x} \in Good PROVE s \in Good
    <3>1. IsFiniteSet(Own(x)) /\ IsFiniteSet(Tokens(f, s \ {x}))
      BY <1>3, <2>2
    <3>2. IsFiniteSet(Own(x) \cup Tokens(f, s \ {x}))
      BY <3>1, FS_Union
    <3> QED BY <1>2, <3>2
  <2> HIDE DEF Good
  <2>3. ASSUME NEW s \in SUBSET T, s # {}, \A x \in s : s \ {x} \in Good PROVE s \in Good
    <3>1. PICK x \in s : TRUE
      BY <2>3
    <3> QED BY <2>2, <2>3, <3>1
  <2> QED BY <2>1, <2>3, SetsGrow
<1>5. ASSUME NEW s \in SUBSET T, NEW x \in s
      PROVE  Cardinality(Tokens(f, s)) = f[x] + Cardinality(Tokens(f, s \ {x}))
  <2>1. IsFiniteSet(Tokens(f, s \ {x})) /\ IsFiniteSet(Own(x)) /\ Cardinality(Own(x)) = f[x]
    BY <1>3, <1>4
  <2>2. /\ Cardinality(Own(x) \cup Tokens(f, s \ {x})) =
             Cardinality(Own(x)) + Cardinality(Tokens(f, s \ {x})) - Cardinality(Own(x) \cap Tokens(f, s \ {x}))
    BY <2>1, FS_Union
  <2>3. Cardinality(Own(x) \cap Tokens(f, s \ {x})) = 0
    BY <1>2, FS_EmptySet
  <2>4. Cardinality(Tokens(f, s \ {x})) \in Nat /\ f[x] \in Nat
    BY <2>1, FS_CardinalityType
  <2>5. Cardinality(Tokens(f, s)) = Cardinality(Own(x) \cup Tokens(f, s \ {x}))
    BY <1>2
  <2> QED BY <2>1, <2>2, <2>3, <2>4, <2>5
<1>6. \A s \in SUBSET T : IsFiniteSet(Tokens(f, s)) /\ Cardinality(Tokens(f, s)) \in Nat
  BY <1>4, FS_CardinalityType
<1> QED BY <1>1, <1>5, <1>6

\* The fold takes one element after the other, in any order: it counts the tokens.
LEMMA TotalIs ==
    ASSUME NEW T, IsFiniteSet(T), NEW f, \A x \in T : f[x] \in Nat
    PROVE  Total(f, T) = Cardinality(Tokens(f, T))
<1> DEFINE first(s) == CHOOSE x \in s : TRUE
           count    == [s \in SUBSET T |-> Cardinality(Tokens(f, s))]
           iter     == CHOOSE i : Adds(i, f, T)
<1>1. Total(f, T) = iter[T]
  BY DEF Total, Shares!SumFunctionOnSet, Shares!FoldFunctionOnSet, Shares!MapThenFoldSet, Adds
<1>2. \A s \in SUBSET T : s # {} => first(s) \in s
  OBVIOUS
<1> HIDE DEF first
<1>3. /\ \A s \in SUBSET T : s # {} =>
            Cardinality(Tokens(f, s)) = f[first(s)] + Cardinality(Tokens(f, s \ {first(s)}))
      /\ Cardinality(Tokens(f, {})) = 0
  BY <1>2, TokensTake
<1>4. Adds(count, f, T)
  <2>1. \A s \in SUBSET T : count[s] = IF s = {} THEN 0 ELSE f[first(s)] + count[s \ {first(s)}]
    BY <1>3
  <2>2. count = [s \in SUBSET T |-> count[s]]
    OBVIOUS
  <2> HIDE DEF count
  <2>3. count = [s \in SUBSET T |-> IF s = {} THEN 0 ELSE f[first(s)] + count[s \ {first(s)}]]
    BY <2>1, <2>2
  <2> QED BY <2>3 DEF Adds, first
<1>5. Adds(iter, f, T)
  BY <1>4
<1> HIDE DEF iter
<1>6. \A s \in SUBSET T : iter[s] = IF s = {} THEN 0 ELSE f[first(s)] + iter[s \ {first(s)}]
  BY <1>5 DEF Adds, first
<1> DEFINE Good == {s \in SUBSET T : iter[s] = Cardinality(Tokens(f, s))}
<1>7. SUBSET T \subseteq Good
  <2>1. {} \in Good
    BY <1>3, <1>6
  <2>2. ASSUME NEW s \in SUBSET T, s # {}, \A x \in s : s \ {x} \in Good PROVE s \in Good
    BY <1>2, <1>3, <1>6, <2>2
  <2> HIDE DEF Good
  <2> QED BY <2>1, <2>2, SetsGrow
<1> QED BY <1>1, <1>7

\* A sum over no account is nothing, and one more account adds its figure, in any order.
LEMMA TotalTakes ==
    ASSUME NEW T, IsFiniteSet(T), NEW f, \A x \in T : f[x] \in Nat
    PROVE  /\ Total(f, {}) = 0
           /\ \A s \in SUBSET T :
                 /\ Total(f, s) \in Nat
                 /\ \A x \in s : Total(f, s) = f[x] + Total(f, s \ {x})
<1>1. \A s \in SUBSET T : Total(f, s) = Cardinality(Tokens(f, s))
  BY FS_Subset, TotalIs
<1>2. /\ Cardinality(Tokens(f, {})) = 0
      /\ \A s \in SUBSET T :
            /\ Cardinality(Tokens(f, s)) \in Nat
            /\ \A x \in s : Cardinality(Tokens(f, s)) = f[x] + Cardinality(Tokens(f, s \ {x}))
  BY TokensTake
<1>3. {} \in SUBSET T /\ \A s \in SUBSET T : \A x \in s : s \ {x} \in SUBSET T
  OBVIOUS
<1> QED BY <1>1, <1>2, <1>3

\* The sum of sums.
LEMMA TotalAdds ==
    ASSUME NEW T, IsFiniteSet(T), NEW f, NEW g, NEW h,
           \A x \in T : f[x] \in Nat /\ g[x] \in Nat /\ h[x] = f[x] + g[x]
    PROVE  Total(h, T) = Total(f, T) + Total(g, T)
<1> DEFINE Good == {s \in SUBSET T : Total(h, s) = Total(f, s) + Total(g, s)}
<1>0. \A x \in T : f[x] \in Nat /\ g[x] \in Nat /\ h[x] \in Nat
  OBVIOUS
<1>1. {} \in Good
  BY <1>0, TotalTakes
<1>2. ASSUME NEW s \in SUBSET T, s # {}, \A x \in s : s \ {x} \in Good
      PROVE  s \in Good
  <2>1. PICK x \in s : s \ {x} \in Good
    BY <1>2
  <2>2. /\ Total(f, s) = f[x] + Total(f, s \ {x}) /\ Total(f, s \ {x}) \in Nat
        /\ Total(g, s) = g[x] + Total(g, s \ {x}) /\ Total(g, s \ {x}) \in Nat
        /\ Total(h, s) = h[x] + Total(h, s \ {x})
    BY <1>0, TotalTakes
  <2>3. f[x] \in Nat /\ g[x] \in Nat /\ h[x] = f[x] + g[x]
    BY <1>2
  <2>4. Total(h, s \ {x}) = Total(f, s \ {x}) + Total(g, s \ {x})
    BY <2>1
  <2> QED BY <2>2, <2>3, <2>4
<1> HIDE DEF Good
<1>3. SUBSET T \subseteq Good
  BY <1>1, <1>2, SetsGrow
<1> QED BY <1>3 DEF Good

\* One each.
LEMMA TotalOnes ==
    ASSUME NEW T, IsFiniteSet(T), NEW f, \A x \in T : f[x] = 1
    PROVE  Total(f, T) = Cardinality(T)
<1> DEFINE Good == {s \in SUBSET T : Total(f, s) = Cardinality(s)}
<1>0. \A x \in T : f[x] \in Nat
  OBVIOUS
<1>1. {} \in Good
  BY <1>0, TotalTakes, FS_EmptySet
<1>2. ASSUME NEW s \in SUBSET T, s # {}, \A x \in s : s \ {x} \in Good
      PROVE  s \in Good
  <2>1. PICK x \in s : s \ {x} \in Good
    BY <1>2
  <2>2. Total(f, s) = 1 + Total(f, s \ {x})
    BY <1>0, TotalTakes
  <2>3. IsFiniteSet(s) /\ Cardinality(s) \in Nat
    BY FS_Subset, FS_CardinalityType
  <2>4. Cardinality(s \ {x}) = Cardinality(s) - 1
    BY <2>3, FS_RemoveElement
  <2> QED BY <2>1, <2>2, <2>3, <2>4
<1> HIDE DEF Good
<1>3. SUBSET T \subseteq Good
  BY <1>1, <1>2, SetsGrow
<1> QED BY <1>3 DEF Good

\* Shares that are each within the proportion of the weights are within it together.
LEMMA TotalWithin ==
    ASSUME NEW T, IsFiniteSet(T), NEW takers, NEW w, NEW g, NEW t \in Nat, NEW p \in Nat,
           \A x \in T : w[x] \in Nat /\ g[x] \in Nat,
           \A x \in T : IF x \in takers THEN t * g[x] <= p * w[x] ELSE g[x] = 0
    PROVE  t * Total(g, T) <= p * Total(w, T \cap takers)
<1> DEFINE Good == {s \in SUBSET T : t * Total(g, s) <= p * Total(w, s \cap takers)}
<1>1. {} \in Good
  BY TotalTakes
<1>2. ASSUME NEW s \in SUBSET T, s # {}, \A x \in s : s \ {x} \in Good
      PROVE  s \in Good
  <2>1. PICK x \in s : s \ {x} \in Good
    BY <1>2
  <2> DEFINE G == Total(g, s \ {x})
             W == Total(w, (s \ {x}) \cap takers)
  <2>2. G \in Nat /\ W \in Nat /\ Total(g, s) = g[x] + G /\ g[x] \in Nat /\ w[x] \in Nat
    BY TotalTakes
  <2>3. t * G <= p * W
    BY <2>1
  <2>4. CASE x \in takers
    <3>1. Total(w, s \cap takers) = w[x] + W
      <4>1. (s \cap takers) \ {x} = (s \ {x}) \cap takers /\ x \in s \cap takers /\ s \cap takers \in SUBSET T
        BY <2>4
      <4> QED BY <4>1, TotalTakes
    <3>2. t * g[x] <= p * w[x]
      BY <2>4
    <3> HIDE DEF G, W
    <3>3. t * (g[x] + G) = t * g[x] + t * G /\ p * (w[x] + W) = p * w[x] + p * W
      BY <2>2
    <3>4. t * g[x] \in Nat /\ t * G \in Nat /\ p * w[x] \in Nat /\ p * W \in Nat
      BY <2>2
    <3>5. t * Total(g, s) <= p * Total(w, s \cap takers)
      BY <2>2, <2>3, <3>1, <3>2, <3>3, <3>4
    <3> QED BY <3>5
  <2>5. CASE x \notin takers
    <3>1. (s \ {x}) \cap takers = s \cap takers /\ g[x] = 0
      BY <2>5
    <3>2. Total(g, s) = G
      BY <2>2, <3>1
    <3> QED BY <2>3, <3>1, <3>2
  <2> QED BY <2>4, <2>5
<1> HIDE DEF Good
<1>3. SUBSET T \subseteq Good
  BY <1>1, <1>2, SetsGrow
<1>4. T \in Good
  BY <1>3
<1> QED BY <1>4 DEF Good

-----------------------------------------------------------------------------
(* The split of the machine budget                                         *)

\* Rounding down hands out no more than the proportion, and more to a larger weight.
LEMMA Proportion ==
    ASSUME NEW p \in Nat, NEW w \in Nat, NEW t \in Nat \ {0}
    PROVE  /\ (p * w) \div t \in Nat /\ t * ((p * w) \div t) <= p * w
           /\ \A v \in Nat : v <= w => (p * v) \div t <= (p * w) \div t
<1>1. p * w \in Nat
  OBVIOUS
<1>2. \A n \in Nat : n \div t \in Nat /\ t * (n \div t) <= n /\ n < t * (n \div t) + t
  OBVIOUS
<1>3. ASSUME NEW v \in Nat, v <= w PROVE (p * v) \div t <= (p * w) \div t
  <2>1. p * v \in Nat /\ p * v <= p * w
    BY <1>3
  <2>2. \A n, k \in Nat : n <= k => n \div t <= k \div t
    OBVIOUS
  <2> QED BY <1>1, <2>1, <2>2
<1> QED BY <1>1, <1>2, <1>3

\* What is within the proportion of the whole weight is within the pot.
LEMMA WithinPot ==
    ASSUME NEW g \in Nat, NEW p \in Nat, NEW t \in Nat \ {0}, t * g <= p * t
    PROVE  g <= p
<1> SUFFICES ASSUME g >= p + 1 PROVE FALSE
  OBVIOUS
<1>1. t * g >= t * (p + 1)
  OBVIOUS
<1>2. t * (p + 1) = p * t + t
  OBVIOUS
<1> QED BY <1>1, <1>2

Grows(b, c) == \A a \in Accounts : b[a] <= c[a]

\* A taker gets its proportion of the pot or all it wants, the others nothing.
Gains(b, p, S, w, n, c) ==
    \A a \in Accounts :
        c[a] = b[a] + (IF a \in S THEN Shares!AtMost((p * w[a]) \div Total(w, S), n[a]) ELSE 0)

\* A pass hands out part of the pot and keeps the rest: nothing is lost or handed out twice.
LEMMA PassGives ==
    ASSUME NEW b \in Figures, NEW p \in Nat, NEW S \in SUBSET Accounts, NEW w \in Figures,
           NEW n \in Figures, Total(w, S) > 0, NEW r, r = Shares!Pass(b, p, S, w, n)
    PROVE  /\ r.base \in Figures /\ r.left \in Nat
           /\ Total(r.base, Accounts) + r.left = Total(b, Accounts) + p
           /\ Gains(b, p, S, w, n, r.base)
<1> DEFINE t == Total(w, S)
           g == [a \in Accounts |-> IF a \in S THEN Shares!AtMost((p * w[a]) \div t, n[a]) ELSE 0]
           c == [a \in Accounts |-> b[a] + g[a]]
<1>1. IsFiniteSet(Accounts) /\ IsFiniteSet(S)
  BY InstanceAssumption, FS_Subset
<1>2. t \in Nat \ {0}
  BY <1>1, TotalTakes DEF Figures
<1>3. r = [base |-> c, left |-> Shares!SatSub(p, Total(g, Accounts))]
  <2>1. DOMAIN b = Accounts /\ DOMAIN g = Accounts
    BY DEF Figures
  <2> QED BY <2>1 DEF Shares!Pass, Shares!SumFunction, Total
<1>4. /\ \A a \in Accounts : g[a] = IF a \in S THEN Shares!AtMost((p * w[a]) \div t, n[a]) ELSE 0
      /\ \A a \in Accounts : c[a] = b[a] + g[a]
      /\ DOMAIN c = Accounts /\ c = [a \in Accounts |-> c[a]]
  OBVIOUS
<1> HIDE DEF t, g, c
<1>5. ASSUME NEW a \in Accounts
      PROVE  g[a] \in Nat /\ (IF a \in S THEN t * g[a] <= p * w[a] ELSE g[a] = 0)
  <2>1. w[a] \in Nat /\ n[a] \in Nat
    BY DEF Figures
  <2> DEFINE q == (p * w[a]) \div t
  <2>2. q \in Nat /\ t * q <= p * w[a]
    BY <1>2, <2>1, Proportion
  <2> HIDE DEF q
  <2>3. CASE a \in S
    <3>1. g[a] = Shares!AtMost(q, n[a])
      BY <1>4, <2>3 DEF q
    <3>2. g[a] \in Nat /\ g[a] <= q
      BY <2>1, <2>2, <3>1 DEF Shares!AtMost
    <3>3. t * g[a] <= t * q
      BY <1>2, <2>2, <3>2
    <3>4. t * g[a] \in Nat /\ t * q \in Nat /\ p * w[a] \in Nat
      BY <1>2, <2>1, <2>2, <3>2
    <3> QED BY <2>2, <2>3, <3>2, <3>3, <3>4
  <2>4. CASE a \notin S
    BY <1>4, <2>4
  <2> QED BY <2>3, <2>4
<1>6. Total(g, Accounts) \in Nat /\ Total(g, Accounts) <= p
  <2>1. Total(g, Accounts) \in Nat
    BY <1>1, <1>5, TotalTakes
  <2>2. \A a \in Accounts : w[a] \in Nat
    BY DEF Figures
  <2>3. t * Total(g, Accounts) <= p * Total(w, Accounts \cap S)
    BY <1>1, <1>2, <1>5, <2>2, TotalWithin
  <2>4. Accounts \cap S = S
    OBVIOUS
  <2>5. t * Total(g, Accounts) <= p * t
    BY <2>3, <2>4 DEF t
  <2> QED BY <1>2, <2>1, <2>5, WithinPot
<1>7. r.left = p - Total(g, Accounts) /\ r.base = c
  BY <1>3, <1>6 DEF Shares!SatSub
<1>8. Total(c, Accounts) = Total(b, Accounts) + Total(g, Accounts)
  <2>1. \A a \in Accounts : b[a] \in Nat
    BY DEF Figures
  <2> QED BY <1>1, <1>4, <1>5, <2>1, TotalAdds
<1>9. Total(b, Accounts) \in Nat
  BY <1>1, TotalTakes DEF Figures
<1>10. c \in Figures
  <2>1. \A a \in Accounts : c[a] \in Nat
    BY <1>4, <1>5 DEF Figures
  <2> QED BY <1>4, <2>1 DEF Figures
<1>11. Gains(b, p, S, w, n, c)
  BY <1>4 DEF Gains, t
<1> QED BY <1>6, <1>7, <1>8, <1>9, <1>10, <1>11 DEF t

\* Of two accounts, the one with no less weight and no smaller request has no less, unless it
\* has all it asked for.
Ordered(b, q, w) ==
    \A a, d \in Accounts : w[a] >= w[d] /\ q[a] >= q[d] => b[a] >= b[d] \/ b[a] = q[a]

\* A pass that leaves out no account below its request keeps that order.
LEMMA GainsOrdered ==
    ASSUME NEW b \in Figures, NEW p \in Nat, NEW S \in SUBSET Accounts, NEW w \in Figures, NEW v \in Figures,
           NEW q \in Figures, NEW n \in Figures, NEW c, Gains(b, p, S, v, n, c), Total(v, S) > 0,
           \A a \in Accounts : b[a] <= q[a] /\ n[a] = q[a] - b[a] /\ (n[a] > 0 => a \in S),
           \A a, d \in Accounts : w[a] >= w[d] => v[a] >= v[d],
           Ordered(b, q, w)
    PROVE  Ordered(c, q, w)
<1> SUFFICES ASSUME NEW a \in Accounts, NEW d \in Accounts, w[a] >= w[d], q[a] >= q[d]
             PROVE  c[a] >= c[d] \/ c[a] = q[a]
  BY DEF Ordered
<1> DEFINE e(x) == (p * v[x]) \div Total(v, S)
<1>0. Total(v, S) \in Nat \ {0}
  <2>1. IsFiniteSet(S) /\ \A x \in S : v[x] \in Nat
    BY InstanceAssumption, FS_Subset DEF Figures
  <2> QED BY <2>1, TotalTakes
<1>1. \A x \in Accounts : /\ b[x] \in Nat /\ w[x] \in Nat /\ v[x] \in Nat /\ q[x] \in Nat /\ n[x] \in Nat
  BY DEF Figures
<1>2. e(a) \in Nat /\ e(d) \in Nat /\ e(d) <= e(a)
  BY <1>0, <1>1, Proportion
<1>3. \A x \in Accounts : /\ x \in S => c[x] = b[x] + Shares!AtMost(e(x), n[x])
                          /\ x \notin S => c[x] = b[x] /\ b[x] = q[x]
  BY <1>1 DEF Gains
<1> HIDE DEF e
<1>4. b[a] >= b[d] \/ b[a] = q[a]
  BY DEF Ordered
<1>5. CASE a \notin S
  BY <1>3, <1>5
<1>6. CASE a \in S /\ n[a] = 0
  BY <1>1, <1>2, <1>3, <1>6 DEF Shares!AtMost
<1>7. CASE a \in S /\ n[a] # 0
  <2>1. b[a] >= b[d] /\ n[a] = q[a] - b[a] /\ n[a] > 0
    BY <1>1, <1>4, <1>7
  <2>2. c[a] = q[a] \/ c[a] = b[a] + e(a)
    BY <1>1, <1>2, <1>3, <1>7, <2>1 DEF Shares!AtMost
  <2>3. CASE d \in S
    <3>1. c[d] <= b[d] + e(d) /\ c[d] \in Nat
      BY <1>1, <1>2, <1>3, <2>3 DEF Shares!AtMost
    <3> QED BY <1>1, <1>2, <2>1, <2>2, <3>1
  <2>4. CASE d \notin S
    BY <1>1, <1>2, <1>3, <2>1, <2>2, <2>4
  <2> QED BY <2>3, <2>4
<1> QED BY <1>5, <1>6, <1>7

\* What the rounds keep: figures, their sum with the remainder, no base beyond the request,
\* and the order of the accounts.
Split(g, total, q, w) ==
    /\ g.base \in Figures /\ g.left \in Nat
    /\ Total(g.base, Accounts) + g.left = total
    /\ Grows(g.base, q) /\ Ordered(g.base, q, w)

\* A round hands the remainder on: it keeps the total, takes nothing away and stops at the
\* requests.
LEMMA RoundKeeps ==
    ASSUME NEW k \in Figures, NEW q \in Figures, Grows(q, k), NEW w \in Figures, NEW total,
           NEW g, Split(g, total, q, w), NEW r, r = Shares!Round(g, k, q, w)
    PROVE  Split(r, total, q, w) /\ Grows(g.base, r.base)
<1> DEFINE n == [a \in Accounts |-> Shares!SatSub(Shares!AtMost(q[a], k[a]), g.base[a])]
           S == {a \in Accounts : n[a] > 0}
           v == [a \in Accounts |-> Shares!AtLeast(w[a], 1)]
<1>1. \A a \in Accounts : q[a] \in Nat /\ k[a] \in Nat /\ w[a] \in Nat /\ g.base[a] \in Nat /\ q[a] <= k[a]
                          /\ g.base[a] <= q[a]
  BY DEF Figures, Split, Grows
<1>2. \A a \in Accounts : n[a] = q[a] - g.base[a] /\ n[a] \in Nat /\ v[a] \in Nat \ {0}
  BY <1>1 DEF Shares!SatSub, Shares!AtMost, Shares!AtLeast
<1>3. r = IF g.left = 0 \/ S = {} THEN g ELSE Shares!Pass(g.base, g.left, S, v, n)
  <2>1. DOMAIN k = Accounts
    BY DEF Figures
  <2> QED BY <2>1 DEF Shares!Round
<1>4. n \in Figures /\ v \in Figures /\ S \in SUBSET Accounts
  <2>1. /\ n = [a \in Accounts |-> n[a]] /\ v = [a \in Accounts |-> v[a]]
        /\ \A a \in Accounts : n[a] \in Nat /\ v[a] \in Nat
    BY <1>2
  <2> HIDE DEF n, v
  <2> QED BY <2>1 DEF Figures
<1> HIDE DEF n, S, v
<1>5. CASE g.left = 0 \/ S = {}
  BY <1>1, <1>3, <1>5 DEF Grows
<1>6. CASE ~(g.left = 0 \/ S = {})
  <2>1. PICK x \in S : TRUE
    BY <1>6
  <2>2. Total(v, S) > 0
    <3>1. IsFiniteSet(S)
      BY <1>4, InstanceAssumption, FS_Subset
    <3>2. \A a \in S : v[a] \in Nat
      BY <1>2, <1>4
    <3>3. Total(v, S) = v[x] + Total(v, S \ {x}) /\ Total(v, S \ {x}) \in Nat
      BY <2>1, <3>1, <3>2, TotalTakes
    <3> QED BY <1>2, <1>4, <2>1, <3>3
  <2>3. r = Shares!Pass(g.base, g.left, S, v, n)
    BY <1>3, <1>6
  <2>4. g.base \in Figures /\ g.left \in Nat /\ Total(g.base, Accounts) + g.left = total
    BY DEF Split
  <2>5. /\ r.base \in Figures /\ r.left \in Nat
        /\ Total(r.base, Accounts) + r.left = Total(g.base, Accounts) + g.left
        /\ Gains(g.base, g.left, S, v, n, r.base)
    BY <1>4, <2>2, <2>3, <2>4, PassGives
  <2>6. ASSUME NEW a \in Accounts PROVE g.base[a] <= r.base[a] /\ r.base[a] <= q[a]
    <3>1. (g.left * v[a]) \div Total(v, S) \in Nat
      <4>1. Total(v, S) \in Nat \ {0}
        <5>1. IsFiniteSet(S) /\ \A b \in S : v[b] \in Nat
          BY <1>2, <1>4, InstanceAssumption, FS_Subset
        <5> QED BY <2>2, <5>1, TotalTakes
      <4> QED BY <1>2, <2>4, <4>1, Proportion
    <3> QED BY <1>1, <1>2, <2>5, <3>1 DEF Gains, Shares!AtMost
  <2>7. Ordered(r.base, q, w)
    <3>1. \A a, d \in Accounts : w[a] >= w[d] => v[a] >= v[d]
      BY <1>1 DEF v, Shares!AtLeast
    <3>2. \A a \in Accounts : g.base[a] <= q[a] /\ n[a] = q[a] - g.base[a] /\ (n[a] > 0 => a \in S)
      BY <1>1, <1>2 DEF S
    <3>3. Ordered(g.base, q, w)
      BY DEF Split
    <3> QED BY <1>4, <2>2, <2>4, <2>5, <3>1, <3>2, <3>3, GainsOrdered
  <2> QED BY <2>4, <2>5, <2>6, <2>7 DEF Split, Grows
<1> QED BY <1>5, <1>6

\* The rounds behind Shares, from the result of the first pass.
Rounds(first, k, q, w) ==
    CHOOSE h : h = [n \in 0..Shares!MaxRounds |->
                       IF n = 0 THEN first ELSE Shares!Round(h[n - 1], k, q, w)]

\* The remainder goes through four rounds, one after the other.
LEMMA RoundsFollow ==
    ASSUME NEW first, NEW k, NEW q, NEW w
    PROVE  /\ Rounds(first, k, q, w)[0] = first
           /\ \A n \in 0..3 : Rounds(first, k, q, w)[n + 1] = Shares!Round(Rounds(first, k, q, w)[n], k, q, w)
<1> DEFINE R(g) == Shares!Round(g, k, q, w)
           h    == Rounds(first, k, q, w)
<1>1. h = CHOOSE i : i = [n \in 0..4 |-> IF n = 0 THEN first ELSE R(i[n - 1])]
  BY DEF Rounds, Shares!MaxRounds
<1> HIDE DEF h
<1> HIDE DEF R
<1> DEFINE e == [n \in 0..4 |-> CASE n = 0 -> first [] n = 1 -> R(first) [] n = 2 -> R(R(first))
                                  [] n = 3 -> R(R(R(first))) [] n = 4 -> R(R(R(R(first))))]
<1>2. e = [n \in 0..4 |-> IF n = 0 THEN first ELSE R(e[n - 1])]
  <2>1. ASSUME NEW n \in 0..4 PROVE e[n] = IF n = 0 THEN first ELSE R(e[n - 1])
    <3>1. n = 0 \/ n = 1 \/ n = 2 \/ n = 3 \/ n = 4
      OBVIOUS
    <3>2. e[0] = first /\ e[1] = R(e[0]) /\ e[2] = R(e[1]) /\ e[3] = R(e[2]) /\ e[4] = R(e[3])
      OBVIOUS
    <3> HIDE DEF e
    <3> QED BY <3>1, <3>2
  <2>2. e = [n \in 0..4 |-> e[n]]
    OBVIOUS
  <2> HIDE DEF e
  <2> QED BY <2>1, <2>2
<1> HIDE DEF e
<1>3. h = [n \in 0..4 |-> IF n = 0 THEN first ELSE R(h[n - 1])]
  BY <1>1, <1>2
<1>4. \A n \in 0..4 : h[n] = IF n = 0 THEN first ELSE R(h[n - 1])
  BY <1>3
<1>5. ASSUME NEW n \in 0..3 PROVE h[n + 1] = R(h[n])
  BY <1>4
<1> QED BY <1>4, <1>5 DEF R, h

\* One thread each.
LEMMA MinimumIs == Shares!MIN_PER_ACCOUNT = 1 /\ (IsFiniteSet(Accounts) => Shares!TotalMin(Accounts) = Cardinality(Accounts))
<1>1. Shares!Cardinality(Accounts) = Cardinality(Accounts)
  BY DEF Shares!Cardinality, Cardinality, Shares!IsFiniteSet, IsFiniteSet
<1>2. IsFiniteSet(Accounts) => Cardinality(Accounts) \in Nat
  BY FS_CardinalityType
<1> QED BY <1>1, <1>2 DEF Shares!MIN_PER_ACCOUNT, Shares!TotalMin

\* What the split of a budget starts from: one each, and their proportion of the rest.
Proportional(b, q, w, a) ==
    1 + Shares!AtMost(((b - Cardinality(Accounts)) * w[a]) \div Total(w, Accounts), q[a] - 1)

\* The first pass, over every account.
LEMMA FirstGives ==
    ASSUME NEW k \in Figures, NEW q \in Figures, NEW w \in Figures, \A a \in Accounts : q[a] \in 1..k[a],
           NEW b \in Nat, b > Cardinality(Accounts), Total(w, Accounts) > 0,
           NEW g, g = Shares!FirstPass(b, k, q, w)
    PROVE  Split(g, b, q, w) /\ \A a \in Accounts : g.base[a] = Proportional(b, q, w, a)
<1> DEFINE c == [a \in Accounts |-> 1]
           n == [a \in Accounts |-> Shares!AtMost(q[a] - 1, k[a] - 1)]
<1>0. IsFiniteSet(Accounts) /\ Cardinality(Accounts) \in Nat
  BY InstanceAssumption, FS_CardinalityType
<1>1. \A a \in Accounts : q[a] \in Nat /\ k[a] \in Nat /\ w[a] \in Nat /\ 1 <= q[a] /\ q[a] <= k[a]
  BY DEF Figures
<1>2. \A a \in Accounts : n[a] = q[a] - 1 /\ n[a] \in Nat
  BY <1>1 DEF Shares!AtMost
<1>3. n \in Figures /\ c \in Figures
  <2>1. n = [a \in Accounts |-> n[a]] /\ \A a \in Accounts : n[a] \in Nat
    BY <1>2
  <2> HIDE DEF n
  <2> QED BY <2>1 DEF Figures
<1>4. g = Shares!Pass(c, b - Cardinality(Accounts), Accounts, w, n)
  <2>1. DOMAIN k = Accounts
    BY DEF Figures
  <2>2. Shares!MIN_PER_ACCOUNT = 1 /\ Shares!TotalMin(Accounts) = Cardinality(Accounts)
    BY <1>0, MinimumIs
  <2>3. Shares!SatSub(b, Cardinality(Accounts)) = b - Cardinality(Accounts)
    BY <1>0 DEF Shares!SatSub
  <2> QED BY <2>1, <2>2, <2>3 DEF Shares!FirstPass
<1>5. Total(c, Accounts) = Cardinality(Accounts)
  BY <1>0, TotalOnes
<1>6. \A a \in Accounts : c[a] = 1
  OBVIOUS
<1> HIDE DEF c, n
<1>7. b - Cardinality(Accounts) \in Nat
  BY <1>0
<1>8. /\ g.base \in Figures /\ g.left \in Nat
      /\ Total(g.base, Accounts) + g.left = Total(c, Accounts) + (b - Cardinality(Accounts))
      /\ Gains(c, b - Cardinality(Accounts), Accounts, w, n, g.base)
  <2>1. Accounts \in SUBSET Accounts
    OBVIOUS
  <2> QED BY <1>3, <1>4, <1>7, <2>1, PassGives
<1>9. Total(g.base, Accounts) + g.left = b
  BY <1>0, <1>5, <1>8
<1>10. \A a \in Accounts : g.base[a] = Proportional(b, q, w, a)
  BY <1>2, <1>6, <1>8 DEF Proportional, Gains
<1>11. ASSUME NEW a \in Accounts PROVE g.base[a] <= q[a]
  <2>1. Total(w, Accounts) \in Nat \ {0}
    BY <1>0, <1>1, TotalTakes
  <2>2. ((b - Cardinality(Accounts)) * w[a]) \div Total(w, Accounts) \in Nat
    BY <1>1, <1>7, <2>1, Proportion
  <2> QED BY <1>1, <1>10, <2>2 DEF Proportional, Shares!AtMost
<1>12. Ordered(g.base, q, w)
  <2>1. Ordered(c, q, w)
    BY <1>6 DEF Ordered
  <2>2. \A a \in Accounts : c[a] <= q[a] /\ n[a] = q[a] - c[a] /\ (n[a] > 0 => a \in Accounts)
    BY <1>1, <1>2, <1>6
  <2>3. Accounts \in SUBSET Accounts
    OBVIOUS
  <2>4. \A a, d \in Accounts : w[a] >= w[d] => w[a] >= w[d]
    OBVIOUS
  <2> QED BY <1>3, <1>7, <1>8, <2>1, <2>2, <2>3, <2>4, GainsOrdered
<1> QED BY <1>8, <1>9, <1>10, <1>11, <1>12 DEF Split, Grows

\* Either there is something to hand out in proportion, and nothing is lost on the way, or
\* everybody has one.
LEMMA SharesSplit ==
    ASSUME NEW k \in Figures, NEW q \in Figures, NEW w \in Figures, \A a \in Accounts : q[a] \in 1..k[a],
           NEW b \in Nat, NEW r, r = Shares!Shares(b, k, q, w)
    PROVE  IF Total(w, Accounts) > 0 /\ b > Cardinality(Accounts)
           THEN Split(r, b, q, w) /\ \A a \in Accounts : Proportional(b, q, w, a) <= r.base[a]
           ELSE /\ r.base = [a \in Accounts |-> 1]
                /\ r.left = Shares!SatSub(b, Cardinality(Accounts))
<1> DEFINE first == Shares!FirstPass(b, k, q, w)
           h     == Rounds(first, k, q, w)
<1>0. DOMAIN k = Accounts /\ DOMAIN w = Accounts /\ Cardinality(Accounts) \in Nat
  BY InstanceAssumption, FS_CardinalityType DEF Figures
<1>1. Shares!MIN_PER_ACCOUNT = 1 /\ Shares!TotalMin(Accounts) = Cardinality(Accounts)
  BY InstanceAssumption, MinimumIs
<1>2. r = IF Total(w, Accounts) > 0 /\ b > Cardinality(Accounts) THEN h[Shares!MaxRounds]
          ELSE [base |-> [a \in Accounts |-> 1], left |-> Shares!SatSub(b, Cardinality(Accounts))]
  BY <1>0, <1>1 DEF Shares!Shares, Shares!SumFunction, Total, Rounds
<1>3. CASE ~(Total(w, Accounts) > 0 /\ b > Cardinality(Accounts))
  <2> HIDE DEF h
  <2> QED BY <1>2, <1>3
<1>4. CASE Total(w, Accounts) > 0 /\ b > Cardinality(Accounts)
  <2>0. Shares!MaxRounds = 4
    BY DEF Shares!MaxRounds
  <2>1. h[0] = first /\ \A n \in 0..3 : h[n + 1] = Shares!Round(h[n], k, q, w)
    <3> HIDE DEF first
    <3> QED BY RoundsFollow
  <2>2. Split(first, b, q, w) /\ \A a \in Accounts : first.base[a] = Proportional(b, q, w, a)
    BY <1>4, FirstGives
  <2> HIDE DEF first, h
  <2>3. Grows(q, k)
    BY DEF Grows, Figures
  <2>4. ASSUME NEW n \in 0..3, Split(h[n], b, q, w) PROVE Split(h[n + 1], b, q, w) /\ Grows(h[n].base, h[n + 1].base)
    BY <2>1, <2>3, <2>4, RoundKeeps
  <2>5. Split(h[0], b, q, w) /\ Split(h[1], b, q, w) /\ Split(h[2], b, q, w) /\ Split(h[3], b, q, w) /\ Split(h[4], b, q, w)
    <3>1. Split(h[0], b, q, w)
      BY <2>1, <2>2
    <3>2. Split(h[0 + 1], b, q, w)
      BY <2>4, <3>1
    <3>3. Split(h[1 + 1], b, q, w)
      BY <2>4, <3>2
    <3>4. Split(h[2 + 1], b, q, w)
      BY <2>4, <3>3
    <3>5. Split(h[3 + 1], b, q, w)
      BY <2>4, <3>4
    <3> QED BY <3>1, <3>2, <3>3, <3>4, <3>5
  <2>6. ASSUME NEW a \in Accounts PROVE h[0].base[a] <= h[4].base[a]
    <3>1. /\ h[0].base[a] <= h[0 + 1].base[a] /\ h[1].base[a] <= h[1 + 1].base[a]
          /\ h[2].base[a] <= h[2 + 1].base[a] /\ h[3].base[a] <= h[3 + 1].base[a]
      <4>1. Grows(h[0].base, h[0 + 1].base) /\ Grows(h[1].base, h[1 + 1].base)
        BY <2>4, <2>5
      <4>2. Grows(h[2].base, h[2 + 1].base) /\ Grows(h[3].base, h[3 + 1].base)
        BY <2>4, <2>5
      <4> QED BY <4>1, <4>2 DEF Grows
    <3>2. /\ h[0].base[a] \in Nat /\ h[1].base[a] \in Nat /\ h[2].base[a] \in Nat
          /\ h[3].base[a] \in Nat /\ h[4].base[a] \in Nat
      BY <2>5 DEF Split, Figures
    <3> QED BY <3>1, <3>2
  <2>7. r = h[4]
    BY <1>2, <1>4, <2>0
  <2>8. \A a \in Accounts : Proportional(b, q, w, a) <= r.base[a]
    BY <2>1, <2>2, <2>6, <2>7
  <2> QED BY <1>4, <2>5, <2>7, <2>8
<1> QED BY <1>3, <1>4

\* Requests as the code reads them lie between one and the cap.
LEMMA SharesBegin ==
    ASSUME Shares!Init
    PROVE  SharesInv
<1>1. m \in Nat /\ result = Shares!None
  BY InstanceAssumption DEF Shares!Init
<1>2. PICK level \in [Accounts -> Levels], threads \in ThreadsOf, weights \in WeightOf :
         /\ cap = [a \in Accounts |-> Shares!VipCap(threads[level[a]])]
         /\ weight = [a \in Accounts |-> weights[level[a]]]
  BY DEF Shares!Init
<1>3. PICK source \in [Accounts -> Sources] :
         requested = [a \in Accounts |-> Shares!Requested(source[a], cap[a])]
  BY DEF Shares!Init
<1>4. ASSUME NEW a \in Accounts
      PROVE  /\ cap[a] \in Nat /\ 1 <= cap[a] /\ weight[a] \in Nat
             /\ requested[a] \in Nat /\ 1 <= requested[a] /\ requested[a] <= cap[a]
  <2>1. threads[level[a]] \in Nat /\ weights[level[a]] \in Nat /\ source[a] \in Nat
    BY InstanceAssumption
  <2>2. cap[a] = Shares!VipCap(threads[level[a]]) /\ weight[a] = weights[level[a]]
        /\ requested[a] = Shares!Requested(source[a], cap[a])
    BY <1>2, <1>3
  <2>3. cap[a] \in Nat /\ 1 <= cap[a]
    BY <2>1, <2>2 DEF Shares!VipCap, Shares!AtLeast, Shares!MIN_PER_ACCOUNT
  <2> QED BY <2>1, <2>2, <2>3 DEF Shares!Requested, Shares!AtLeast, Shares!AtMost, Shares!MIN_PER_ACCOUNT, Shares!Auto
<1>5. cap \in Figures /\ weight \in Figures /\ requested \in Figures
  BY <1>2, <1>3, <1>4 DEF Figures
<1>6. \A a \in Accounts : requested[a] \in 1..cap[a]
  BY <1>4
<1> QED BY <1>1, <1>5, <1>6 DEF SharesInv

\* The behaviours of the other pools keep a split of one thread that nobody makes.
LEMMA SharesIdle ==
    ASSUME m = 1, result = Shares!None, cap = [a \in Accounts |-> 1], requested = cap, weight = cap
    PROVE  SharesInv
<1>1. \A a \in Accounts : cap[a] = 1
  OBVIOUS
<1>2. cap \in Figures
  BY DEF Figures
<1> QED BY <1>1, <1>2 DEF SharesInv

\* A recomputation reads its inputs once and changes nothing but the result.
LEMMA SharesStep ==
    ASSUME SharesInv, Shares!Recompute
    PROVE  SharesInv'
BY DEF SharesInv, Shares!Recompute, Figures

\* The other pools do not touch the split.
LEMMA SharesRest ==
    ASSUME SharesInv, UNCHANGED shares_vars
    PROVE  SharesInv'
BY DEF SharesInv, Figures, shares_vars

\* What the invariant says of a split that was made.
LEMMA SplitMade ==
    ASSUME SharesInv, Shares!Done
    PROVE  /\ IF Total(weight, Accounts) > 0 /\ m > Cardinality(Accounts)
              THEN /\ Split(result, m, requested, weight)
                   /\ \A a \in Accounts : Proportional(m, requested, weight, a) <= result.base[a]
              ELSE /\ result.base = [a \in Accounts |-> 1]
                   /\ result.left = Shares!SatSub(m, Cardinality(Accounts))
           /\ Shares!TotalMin(Accounts) = Cardinality(Accounts) /\ Cardinality(Accounts) \in Nat
           /\ Shares!MIN_PER_ACCOUNT = 1
           /\ Shares!Sum(result.base) = Total(result.base, Accounts)
           /\ Shares!Sum(weight) = Total(weight, Accounts) /\ Total(weight, Accounts) \in Nat
           /\ \A a \in Accounts : requested[a] \in Nat /\ cap[a] \in Nat /\ weight[a] \in Nat
                                  /\ 1 <= requested[a] /\ requested[a] <= cap[a]
<1>1. /\ m \in Nat /\ cap \in Figures /\ requested \in Figures /\ weight \in Figures
      /\ \A a \in Accounts : requested[a] \in 1..cap[a]
      /\ result = Shares!Shares(m, cap, requested, weight)
  BY DEF SharesInv, Shares!Done
<1>2. IF Total(weight, Accounts) > 0 /\ m > Cardinality(Accounts)
      THEN /\ Split(result, m, requested, weight)
           /\ \A a \in Accounts : Proportional(m, requested, weight, a) <= result.base[a]
      ELSE /\ result.base = [a \in Accounts |-> 1]
           /\ result.left = Shares!SatSub(m, Cardinality(Accounts))
  BY <1>1, SharesSplit
<1>3. DOMAIN result.base = Accounts /\ DOMAIN weight = Accounts
  BY <1>1, <1>2 DEF Split, Figures
<1>4. Shares!Sum(result.base) = Total(result.base, Accounts) /\ Shares!Sum(weight) = Total(weight, Accounts)
  BY <1>3 DEF Shares!Sum, Shares!SumFunction, Total
<1>5. \A a \in Accounts : requested[a] \in Nat /\ cap[a] \in Nat /\ weight[a] \in Nat
                          /\ 1 <= requested[a] /\ requested[a] <= cap[a]
  BY <1>1 DEF Figures
<1>6. Total(weight, Accounts) \in Nat
  BY <1>5, InstanceAssumption, TotalTakes
<1> QED BY <1>2, <1>4, <1>5, <1>6, InstanceAssumption, MinimumIs, FS_CardinalityType

\* The four properties of a split, from the invariant.
LEMMA SplitSound ==
    ASSUME SharesInv
    PROVE  Shares!SplitsExactly /\ Shares!ProportionalFloor /\ Shares!BaseWithinRequest /\ Shares!WeightMonotone
<1> SUFFICES ASSUME Shares!Done
             PROVE  Shares!SplitsExactly /\ Shares!ProportionalFloor /\ Shares!BaseWithinRequest /\ Shares!WeightMonotone
  BY DEF Shares!SplitsExactly, Shares!ProportionalFloor, Shares!BaseWithinRequest, Shares!WeightMonotone
<1> DEFINE n == Cardinality(Accounts)
           t == Total(weight, Accounts)
<1>1. /\ n \in Nat /\ t \in Nat /\ Shares!MIN_PER_ACCOUNT = 1 /\ m \in Nat
      /\ Shares!Enough <=> m >= n
      /\ Shares!Sum(result.base) = Total(result.base, Accounts) /\ Shares!Sum(weight) = t
  BY SplitMade DEF Shares!Enough, SharesInv
<1>2. \A a \in Accounts : requested[a] \in Nat /\ cap[a] \in Nat /\ weight[a] \in Nat
                          /\ 1 <= requested[a] /\ requested[a] <= cap[a]
  BY SplitMade
<1>3. CASE t > 0 /\ m > n
  <2>1. /\ result.base \in Figures /\ result.left \in Nat
        /\ Total(result.base, Accounts) + result.left = m
        /\ Grows(result.base, requested) /\ Ordered(result.base, requested, weight)
        /\ \A a \in Accounts : Proportional(m, requested, weight, a) <= result.base[a]
    BY <1>3, SplitMade DEF Split
  <2> DEFINE e(a) == ((m - n) * weight[a]) \div t
  <2>2. \A a \in Accounts : /\ e(a) \in Nat /\ result.base[a] \in Nat /\ result.base[a] <= requested[a]
                            /\ 1 + Shares!AtMost(e(a), requested[a] - 1) <= result.base[a]
    <3>1. t \in Nat \ {0} /\ m - n \in Nat
      BY <1>1, <1>3
    <3>2. \A a \in Accounts : e(a) \in Nat
      BY <1>2, <3>1, Proportion
    <3> QED BY <2>1, <3>2 DEF Figures, Grows, Proportional
  <2> HIDE DEF e
  <2>3. \A a \in Accounts : 1 <= result.base[a] /\ (result.base[a] = requested[a] \/ result.base[a] >= 1 + e(a))
    BY <1>2, <2>2 DEF Shares!AtMost
  <2>4. Shares!SplitsExactly
    BY <1>1, <2>1 DEF Shares!SplitsExactly
  <2>5. Shares!ProportionalFloor
    <3>1. Shares!TotalMin(Accounts) = n
      BY SplitMade
    <3> QED BY <1>1, <2>3, <3>1 DEF Shares!ProportionalFloor, e
  <2>6. Shares!BaseWithinRequest
    BY <1>1, <1>2, <2>2, <2>3 DEF Shares!BaseWithinRequest, Shares!AtMost
  <2>7. Shares!WeightMonotone
    BY <2>1 DEF Ordered, Shares!WeightMonotone
  <2> QED BY <2>4, <2>5, <2>6, <2>7
<1>4. CASE ~(t > 0 /\ m > n)
  <2>1. result.base = [a \in Accounts |-> 1] /\ result.left = Shares!SatSub(m, n)
    BY <1>4, SplitMade
  <2>2. \A a \in Accounts : result.base[a] = 1
    BY <2>1
  <2>3. Shares!SplitsExactly
    <3>1. Total(result.base, Accounts) = n
      BY <2>2, InstanceAssumption, TotalOnes
    <3> QED BY <1>1, <2>1, <3>1 DEF Shares!SplitsExactly, Shares!SatSub
  <2>4. Shares!ProportionalFloor
    <3> SUFFICES ASSUME m >= n, t > 0, NEW a \in Accounts
                 PROVE  result.base[a] >= 1 + ((m - n) * weight[a]) \div t
      <4>1. Shares!TotalMin(Accounts) = n
        BY SplitMade
      <4> QED BY <1>1, <4>1 DEF Shares!ProportionalFloor
    <3>1. m - n = 0
      BY <1>1, <1>4
    <3>2. (m - n) * weight[a] = 0
      BY <1>2, <3>1
    <3>3. 0 \div t = 0
      BY <1>1
    <3> QED BY <2>2, <3>2, <3>3
  <2>5. Shares!BaseWithinRequest
    BY <1>1, <1>2, <2>2 DEF Shares!BaseWithinRequest, Shares!AtMost
  <2>6. Shares!WeightMonotone
    BY <2>2 DEF Shares!WeightMonotone
  <2> QED BY <2>3, <2>4, <2>5, <2>6
<1> QED BY <1>3, <1>4

-----------------------------------------------------------------------------
(* The behaviours                                                          *)

\* The pool is created in order, free, and as large as it says.
LEMMA SlotsBegin ==
    ASSUME Init
    PROVE  SlotsInv /\ AloneCore
<1>1. InitSlots \in 1..MaxSlots /\ MaxSlots \in Nat /\ InitSlots \in Nat
  BY PoolAssumption
<1>2. /\ slots = [k \in 1..InitSlots |-> FreeSlot(k - 1)]
      /\ DOMAIN slots = 1..InitSlots /\ \A k \in DOMAIN slots : slots[k] = FreeSlot(k - 1)
  BY DEF Init
<1>3. \A k \in 1..InitSlots : k - 1 \in Ids
  BY <1>1 DEF Ids
<1>4. \A k \in DOMAIN slots :
         /\ slots[k] \in TaskSlots /\ slots[k].id = k - 1 /\ slots[k].task_id = NoTask
         /\ slots[k].slot_type = "Fixed"
  BY <1>2, <1>3, FreeFields
<1>5. slots \in Seq(TaskSlots)
  BY <1>1, <1>2, <1>4, ListIn
<1>6. SlotsOrdered
  BY <1>1, <1>2, <1>4 DEF SlotsOrdered
<1>7. Holding
  <2>1. NoTask \notin Files
    BY PoolAssumption DEF Tasks
  <2> QED BY <1>4, <2>1 DEF Holding
<1>8. Rest
  <2>1. 0 \in 0..MaxAge
    BY PoolAssumption
  <2> QED BY <1>1, <2>1, JobsMade DEF Init, Rest
<1>9. SlotsInv
  BY <1>5, <1>6, <1>7, <1>8 DEF SlotsInv, TypeOK, Rest
<1>10. \A c \in Callers : job[c] = Idle /\ job[c].pc = "idle"
  BY DEF Init, Idle
<1>11. LimitCovered
  <2> SUFFICES ASSUME NEW i \in 0..(max_slots - 1) PROVE \E k \in DOMAIN slots : slots[k].id = i
    BY DEF LimitCovered, IdsAt
  <2>1. max_slots = InitSlots
    BY DEF Init
  <2>2. i + 1 \in DOMAIN slots
    BY <1>1, <1>2, <2>1
  <2>3. slots[i + 1].id = i
    BY <1>1, <1>4, <2>1, <2>2
  <2> QED BY <2>2, <2>3
<1>12. OneBusy /\ LimitKnown /\ Recorded
  <2>1. \A f \in Folders : borrowed_map[f] = {}
    BY DEF Init
  <2> QED BY <1>10, <2>1 DEF OneBusy, Busy, LimitKnown, Recorded
<1> QED BY <1>9, <1>11, <1>12 DEF AloneCore

\* A step is one of the task slots, of the chunk slot ids, or of the budget.
LEMMA StepsSplit ==
    ASSUME PoolsNext
    PROVE  \/ /\ Next /\ (alone => Cardinality(Busy') <= 1)
              /\ UNCHANGED <<alone, ids_vars, shares_vars>>
           \/ /\ \/ \E t \in Transfers : ChunkIds!Acquire(t) \/ ChunkIds!Release(t)
                 \/ \E n \in 1..MaxMax : ChunkIds!Resize(n)
              /\ UNCHANGED <<pools_vars, shares_vars>>
           \/ Shares!Recompute /\ UNCHANGED <<pools_vars, ids_vars>>
<1>1. ASSUME NEW c \in Callers,
             \/ OfTasks(LoadMax(c)) \/ OfTasks(Refused(c))
             \/ \E t \in Tasks : \/ OfTasks(AllocateFree(c, t))
                                 \/ OfTasks(AllocatePreempting(c, t))
                                 \/ OfTasks(ReleaseFixed(c, t))
             \/ \E f \in Folders : \/ OfTasks(ReleaseAll(c, f))
                                   \/ \E n \in 1..MaxSlots : OfTasks(AllocateBorrowed(c, f, n))
                                   \/ \E i \in Ids : OfTasks(ReleaseBorrowed(c, f, i))
             \/ OfTasks(RecordBorrowed(c)) \/ OfTasks(StrikeBorrowed(c))
             \/ OfTasks(ForgetBorrowed(c)) \/ OfTasks(CleanupStale(c))
             \/ \E n \in 1..MaxSlots : OfTasks((alone \/ n <= MaxShared) /\ Resize(c, n))
      PROVE  /\ Next /\ (alone => Cardinality(Busy') <= 1)
             /\ UNCHANGED <<alone, ids_vars, shares_vars>>
  <2>1. (alone => Cardinality(Busy') <= 1) /\ UNCHANGED <<alone, ids_vars, shares_vars>>
    BY <1>1 DEF OfTasks
  <2>2. CallerStep(c)
    BY <1>1 DEF OfTasks, CallerStep
  <2> QED BY <2>1, <2>2 DEF Next
<1>2. CASE OfTasks(Tick) \/ \E t \in Tasks : OfTasks(Touch(t))
  BY <1>2 DEF OfTasks, Next
<1>3. CASE \/ \E t \in Transfers : OfChunks(ChunkIds!Acquire(t)) \/ OfChunks(ChunkIds!Release(t))
           \/ \E n \in 1..MaxMax : OfChunks(ChunkIds!Resize(n))
  BY <1>3 DEF OfChunks
<1>4. CASE OfShares(Shares!Recompute)
  BY <1>4 DEF OfShares
<1> QED BY <1>1, <1>2, <1>3, <1>4 DEF PoolsNext

LEMMA InvInit == PoolsInit => PoolsInv
<1> SUFFICES ASSUME PoolsInit PROVE PoolsInv
  OBVIOUS
<1>1. Init /\ ChunkIds!Init /\ alone \in BOOLEAN
  BY DEF PoolsInit
<1>2. SlotsInv /\ AloneCore
  BY <1>1, SlotsBegin
<1>3. IdsInv
  BY <1>1, StackBegins, StackIs
<1>4. SharesInv
  BY SharesBegin, SharesIdle DEF PoolsInit
<1> QED BY <1>1, <1>2, <1>3, <1>4 DEF PoolsInv, AloneInv, AloneCore

LEMMA InvNext == PoolsInv /\ [PoolsNext]_<<part, pools_vars, ids_vars, shares_vars>> => PoolsInv'
<1> SUFFICES ASSUME PoolsInv, [PoolsNext]_<<part, pools_vars, ids_vars, shares_vars>>
             PROVE  PoolsInv'
  OBVIOUS
<1>0. alone \in BOOLEAN /\ SlotsInv /\ (alone => AloneCore) /\ StackInv /\ Rest /\ SharesInv
  BY StackIs, InvParts DEF PoolsInv, AloneInv, AloneCore
<1>1. CASE Next /\ (alone => Cardinality(Busy') <= 1) /\ UNCHANGED <<alone, ids_vars, shares_vars>>
  <2>1. SlotsInv'
    BY <1>0, <1>1, NextSlots
  <2>2. alone => AloneCore'
    BY <1>0, <1>1, OneAtATime, NextAlone
  <2>3. StackInv'
    BY <1>0, <1>1 DEF StackInv, ids_vars
  <2>4. SharesInv'
    BY <1>0, <1>1, SharesRest
  <2> QED BY <1>0, <1>1, <2>1, <2>2, <2>3, <2>4, StackIs DEF PoolsInv, AloneInv, AloneCore
<1>2. CASE UNCHANGED pools_vars
  <2>1. UNCHANGED vars /\ alone' = alone
    BY <1>2 DEF pools_vars
  <2>2. SlotsInv'
    BY <1>0, <2>1 DEF SlotsInv, TypeOK, SlotsOrdered, Holding, vars
  <2>3. AloneInv'
    BY <2>1 DEF PoolsInv, AloneInv, OneBusy, Busy, LimitCovered, IdsAt, LimitKnown, Recorded, BorrowedBy,
                Owned, Struck, vars
  <2>4. StackInv'
    <3>1. CASE \E t \in Transfers : ChunkIds!Acquire(t) \/ ChunkIds!Release(t)
      BY <1>0, <3>1, StackAcquires, StackReleases
    <3>2. CASE \E n \in 1..MaxMax : ChunkIds!Resize(n)
      BY <1>0, <3>2, StackResizes
    <3>3. CASE UNCHANGED ids_vars
      BY <1>0, <3>3 DEF StackInv, ids_vars
    <3>4. CASE UNCHANGED <<part, pools_vars, ids_vars, shares_vars>>
      BY <3>3, <3>4
    <3> QED BY <1>2, <3>1, <3>2, <3>3, <3>4, StepsSplit
  <2>5. SharesInv'
    <3>1. CASE Shares!Recompute
      BY <1>0, <3>1, SharesStep
    <3>2. CASE UNCHANGED shares_vars
      BY <1>0, <3>2, SharesRest
    <3> QED BY <3>1, <3>2, StepsSplit
  <2> QED BY <1>0, <2>1, <2>2, <2>3, <2>4, <2>5, StackIs DEF PoolsInv
<1> QED BY <1>1, <1>2, StepsSplit

LEMMA PoolsInvAlways == PoolsSpec => []PoolsInv
BY InvInit, InvNext, PTL DEF PoolsSpec

\* task_slot_pool.rs, resize and the allocators: the vector of slots stays sorted by id and
\* no id has two slots, for any tasks, callers and limits and however the callers interleave.
\* A growth meets the ids that an earlier shrink left behind with their owners.
THEOREM SlotsInOrder == PoolsSpec => []SlotsOrdered
<1>1. PoolsInv => SlotsOrdered
  BY DEF PoolsInv, SlotsInv
<1> QED BY <1>1, PoolsInvAlways, PTL

\* resize: a caller that has the pool to itself leaves a slot for every id below the limit,
\* after any sequence of growths, of shrinks that keep work, and of releases in between.
THEOREM CapacityThere == PoolsSpec => []LimitCoveredAlone
<1>1. PoolsInv => LimitCoveredAlone
  BY DEF PoolsInv, AloneInv, LimitCoveredAlone
<1> QED BY <1>1, PoolsInvAlways, PTL

\* borrowed_map and the slots are under two locks: with one caller at a time, and nobody
\* inside, the map names no slot that the folder does not have, through borrowing, giving
\* back, the release of all slots and the cleanup.
THEOREM RecordsNoGhost == PoolsSpec => []NoGhostBorrowAlone
<1>1. PoolsInv => NoGhostBorrowAlone
  <2> SUFFICES ASSUME PoolsInv, alone, Quiet, NEW f \in Folders, NEW i \in borrowed_map[f]
               PROVE  i \in BorrowedBy(f)
    BY DEF NoGhostBorrowAlone, NoGhostBorrow
  <2>1. i \in BorrowedBy(f) \/ Struck(f, i)
    BY DEF PoolsInv, AloneInv, Recorded
  <2>2. \A c \in Callers : job[c].pc = "idle"
    BY DEF Quiet, Idle
  <2> QED BY <2>1, <2>2 DEF Struck
<1> QED BY <1>1, PoolsInvAlways, PTL

\* scheduler.rs, ChunkSlotPool: no chunk slot id is on the stack twice or beyond the limit,
\* and none below the limit is lost, for any number of transfers, through resizes that find
\* ids in use and the return of spare ids and of ids from before a shrink.
THEOREM StackSound == PoolsSpec => []ChunkIdsSound
<1>1. PoolsInv => ChunkIdsSound
  BY DEF PoolsInv, IdsInv, ChunkIdsSound
<1> QED BY <1>1, PoolsInvAlways, PTL

\* Only a resize changes the limit.
LEMMA LimitChanges ==
    ASSUME Next, max_slots' # max_slots
    PROVE  \E c \in Callers : \E n \in 1..MaxSlots : Resize(c, n)
<1>1. ASSUME NEW c \in Callers, CallerStep(c) PROVE \E n \in 1..MaxSlots : Resize(c, n)
  BY <1>1 DEF CallerStep, LoadMax, Refused, AllocateFree, AllocatePreempting, GiveFixed, ReleaseFixed,
              ReleaseAll, AllocateBorrowed, ReleaseBorrowed, RecordBorrowed, StrikeBorrowed,
              ForgetBorrowed, CleanupStale
<1> QED BY <1>1 DEF Next, Tick, Touch

LEMMA KeepsWork ==
    ASSUME SlotsInv, NEW c \in Callers, NEW new \in 1..MaxSlots, Resize(c, new), NEW t \in Tasks
    PROVE  {slots[k].id : k \in Owned(t)} = {slots'[k].id : k \in Owned(t)'}
<1>0. VectorInv /\ Rest
  BY InvParts
<1> DEFINE old == job[c].max
<1>1. /\ old \in 1..MaxSlots /\ silent' = silent
      /\ slots' = (IF new > old THEN Grown(old, new) ELSE Shrunk(new))
  BY <1>0, JobIs DEF Resize, Loaded
<1> HIDE DEF old
<1>2. /\ \A k \in DOMAIN slots : slots[k].id < new \/ ~IsFree(slots[k]) =>
            \E n \in DOMAIN slots' : slots'[n] = slots[k]
      /\ \A n \in DOMAIN slots' : IsFree(slots'[n]) \/ \E k \in DOMAIN slots : slots'[n] = slots[k]
  BY <1>0, <1>1, ResizeSlots
<1>3. t # NoTask
  BY PoolAssumption
<1>4. ASSUME NEW k \in Owned(t) PROVE \E n \in Owned(t)' : slots'[n].id = slots[k].id
  <2>1. k \in DOMAIN slots /\ slots[k].task_id = t /\ ~IsFree(slots[k])
    BY <1>3 DEF Owned, IsFree
  <2>2. PICK n \in DOMAIN slots' : slots'[n] = slots[k]
    BY <1>2, <2>1
  <2> QED BY <2>1, <2>2 DEF Owned
<1>5. ASSUME NEW n \in Owned(t)' PROVE \E k \in Owned(t) : slots[k].id = slots'[n].id
  <2>1. n \in DOMAIN slots' /\ slots'[n].task_id = t /\ ~IsFree(slots'[n])
    BY <1>3 DEF Owned, IsFree
  <2>2. PICK k \in DOMAIN slots : slots'[n] = slots[k]
    BY <1>2, <2>1
  <2> QED BY <2>1, <2>2 DEF Owned
<1> QED BY <1>4, <1>5

\* resize: a change of the capacity interrupts nobody.  Every task, file or folder, owns the
\* same slots after it as before, also those beyond the new limit.
THEOREM ResizeSpares == PoolsSpec => ResizeKeepsWork
<1> DEFINE Kept == \A t \in Tasks : {slots[k].id : k \in Owned(t)} = {slots'[k].id : k \in Owned(t)'}
<1>1. ASSUME PoolsInv, [PoolsNext]_<<part, pools_vars, ids_vars, shares_vars>>
      PROVE  [max_slots' # max_slots => Kept]_vars
  <2> SUFFICES ASSUME max_slots' # max_slots, NEW t \in Tasks
               PROVE  {slots[k].id : k \in Owned(t)} = {slots'[k].id : k \in Owned(t)'}
    OBVIOUS
  <2>1. Next
    BY <1>1, StepsSplit DEF pools_vars, vars
  <2>2. PICK c \in Callers, n \in 1..MaxSlots : Resize(c, n)
    BY <2>1, LimitChanges
  <2> QED BY <1>1, <2>2, KeepsWork DEF PoolsInv
<1> QED BY <1>1, PoolsInvAlways, PTL DEF PoolsSpec, ResizeKeepsWork

\* cleanup_stale_slots: a single task that made progress during the last period keeps its
\* slot, whatever other callers did between its progress and the cleanup.
THEOREM ActiveFilesKeep == PoolsSpec => ActiveFileKept
<1> DEFINE Kept == \A c \in Callers : CleanupStale(c) =>
                      \A t \in Files : silent[t] < MaxAge => Owned(t)' = Owned(t)
<1>1. ASSUME PoolsInv
      PROVE  Kept
  <2> SUFFICES ASSUME NEW c \in Callers, CleanupStale(c), NEW t \in Files, silent[t] < MaxAge
               PROVE  Owned(t)' = Owned(t)
    OBVIOUS
  <2>0. VectorInv /\ Rest
    BY <1>1, InvParts DEF PoolsInv
  <2> DEFINE S == StaleBelow(job[c].max)
  <2>1. slots' = Replace(S, Released)
    BY DEF CleanupStale
  <2>2. \A k \in DOMAIN slots : slots[k].task_id = t => k \notin S
    <3> SUFFICES ASSUME NEW k \in DOMAIN slots, slots[k].task_id = t PROVE ~(slots[k].age >= MaxAge)
      BY DEF StaleBelow
    <3>1. slots[k].age <= silent[t]
      BY <2>0 DEF VectorInv, Holding
    <3>2. slots[k].age \in Nat /\ silent[t] \in Nat /\ MaxAge \in Nat
      BY <2>0, SlotFields, PoolAssumption DEF VectorInv, Rest, Tasks
    <3> QED BY <3>1, <3>2
  <2> HIDE DEF S
  <2>3. /\ DOMAIN slots' = DOMAIN slots
        /\ \A k \in DOMAIN slots : k \notin S => slots'[k] = slots[k]
        /\ \A k \in DOMAIN slots : k \in S => slots'[k].task_id = NoTask
    <3>1. \A k \in DOMAIN slots : FreeSlot(slots[k].id).task_id = NoTask
      BY DEF FreeSlot
    <3> QED BY <2>1, <3>1, ReplaceFrees DEF Frees
  <2>4. t # NoTask
    BY PoolAssumption DEF Tasks
  <2> QED BY <2>2, <2>3, <2>4 DEF Owned
<1> QED BY <1>1, PoolsInvAlways, PTL DEF ActiveFileKept

\* recompute_locked_inner: what the accounts are guaranteed and what nobody gets add up to the
\* machine budget exactly, for any number of accounts, any weights, zeros included, any VIP
\* table and any requests, and through all the rounds that hand the remainder on.
THEOREM SplitAddsUp == PoolsSpec => []SplitsExactly
<1>1. PoolsInv => SplitsExactly
  BY SplitSound DEF PoolsInv, SplitsExactly
<1> QED BY <1>1, PoolsInvAlways, PTL

\* An account below its request has at least its proportional share, rounded down: the rounding
\* of the first pass and the competition of the later rounds cost nobody more than that.
THEOREM FloorHolds == PoolsSpec => []ProportionalFloor
<1>1. PoolsInv => ProportionalFloor
  BY SplitSound DEF PoolsInv, ProportionalFloor
<1> QED BY <1>1, PoolsInvAlways, PTL

\* No round gives an account more than it asked for or than its VIP level allows, and none
\* leaves an account without its one thread.
THEOREM BaseBounded == PoolsSpec => []Shares!BaseWithinRequest
<1>1. PoolsInv => Shares!BaseWithinRequest
  BY SplitSound DEF PoolsInv
<1> QED BY <1>1, PoolsInvAlways, PTL

\* Of two accounts, the one with no less weight and no smaller request is guaranteed no less,
\* unless it has all it asked for: the rounds never turn the order of the VIP levels around.
THEOREM WeightsRespected == PoolsSpec => []Shares!WeightMonotone
<1>1. PoolsInv => Shares!WeightMonotone
  BY SplitSound DEF PoolsInv
<1> QED BY <1>1, PoolsInvAlways, PTL
=============================================================================
