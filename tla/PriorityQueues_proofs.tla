------------------------ MODULE PriorityQueues_proofs ------------------------
(***************************************************************************)
(* What the operations on priority queues return, for queues of any length *)
(* and entries of any kind: the lemmas the proofs about the schedulers     *)
(* rest on.                                                                *)
(***************************************************************************)
EXTENDS PriorityQueues, FiniteSetTheorems, TLAPS

\* A set of naturals that is not empty has a least element: among the intervals
\* 0..k that end in the set one includes no other.
LEMMA LeastNatural ==
  ASSUME NEW S \in SUBSET Nat, S # {}
  PROVE  \E m \in S : \A k \in S : m <= k
<1> DEFINE T == {0..k : k \in S}
<1>1. T \subseteq FiniteSubsetsOf(Nat) /\ T # {}
  <2>1. \A k \in Nat : IsFiniteSet(0..k) /\ 0..k \in SUBSET Nat
    BY FS_Interval
  <2>2. \A k \in S : 0..k \in FiniteSubsetsOf(Nat)
    BY <2>1 DEF FiniteSubsetsOf
  <2> QED BY <2>2
<1>2. \E x \in T : \A y \in T : ~ (<<y, x>> \in StrictSubsetOrdering(Nat))
  <2> HIDE DEF T
  <2> QED BY <1>1, FS_StrictSubsetOrderingWellFounded, WFMin
<1>3. PICK m \in S : \A y \in T : ~ (<<y, 0..m>> \in StrictSubsetOrdering(Nat))
  BY <1>2
<1>4. ASSUME NEW k \in S, k < m PROVE <<0..k, 0..m>> \in StrictSubsetOrdering(Nat)
  <2>1. 0..k \subseteq 0..m /\ m \in 0..m /\ m \notin 0..k
    BY <1>4
  <2>2. 0..k \in SUBSET Nat /\ 0..m \in SUBSET Nat /\ 0..k # 0..m
    BY <2>1
  <2> QED BY <2>1, <2>2 DEF StrictSubsetOrdering
<1>5. \A k \in S : ~ (k < m)
  BY <1>3, <1>4
<1> QED
  BY <1>5

\* The loop of PRIORITYQUEUE_ENQUEUE finds a position.
LEMMA PositionFound ==
  ASSUME NEW Id, NEW q \in Seq(Entry(Id)), NEW ascending, NEW pri \in Int
  PROVE  LET k == Position(q, ascending, pri)
         IN  /\ k \in 1..(Len(q) + 1)
             /\ k <= Len(q) => Before(ascending, pri, q[k].pri)
             /\ \A j \in 1..(k - 1) : ~ Before(ascending, pri, q[j].pri)
<1> DEFINE Stops == {k \in 1..(Len(q) + 1) : k <= Len(q) => Before(ascending, pri, q[k].pri)}
<1>1. Len(q) \in Nat
  OBVIOUS
<1>2. Stops \in SUBSET Nat /\ Len(q) + 1 \in Stops
  BY <1>1
<1>3. PICK k \in Stops : \A j \in Stops : k <= j
  <2> HIDE DEF Stops
  <2> QED BY <1>2, LeastNatural
<1>4. \A j \in 1..(k - 1) : ~ Before(ascending, pri, q[j].pri)
  BY <1>1, <1>3
<1> QED
  BY <1>3, <1>4 DEF Position

LEMMA InsertType ==
  ASSUME NEW Id, NEW q \in Seq(Entry(Id)), NEW k \in 1..(Len(q) + 1), NEW e \in Entry(Id)
  PROVE  /\ Insert(q, k, e) \in Seq(Entry(Id))
         /\ Len(Insert(q, k, e)) = Len(q) + 1
         /\ \A i \in 1..(Len(q) + 1) :
              Insert(q, k, e)[i] = IF i < k THEN q[i] ELSE IF i = k THEN e ELSE q[i - 1]
<1>1. Len(q) \in Nat /\ \A i \in 1..Len(q) : q[i] \in Entry(Id)
  OBVIOUS
<1>2. \A i \in 1..(Len(q) + 1) :
        (IF i < k THEN q[i] ELSE IF i = k THEN e ELSE q[i - 1]) \in Entry(Id)
  BY <1>1
<1> QED
  BY <1>1, <1>2 DEF Insert

LEMMA DequeueType ==
  ASSUME NEW Id, NEW q \in Seq(Entry(Id)), NEW p
  PROVE  /\ Dequeue(q, p) \in Seq(Entry(Id))
         /\ Enqueued(q, p) =>
              /\ IndexOf(q, p) \in 1..Len(q) /\ q[IndexOf(q, p)].id = p
              /\ Len(Dequeue(q, p)) = Len(q) - 1
              /\ \A i \in 1..(Len(q) - 1) :
                   Dequeue(q, p)[i] = IF i < IndexOf(q, p) THEN q[i] ELSE q[i + 1]
<1>1. CASE ~ Enqueued(q, p)
  BY <1>1 DEF Dequeue
<1>2. CASE Enqueued(q, p)
  <2>1. Len(q) \in Nat /\ \A i \in 1..Len(q) : q[i] \in Entry(Id)
    OBVIOUS
  <2>2. IndexOf(q, p) \in 1..Len(q) /\ q[IndexOf(q, p)].id = p
    BY <1>2 DEF Enqueued, IndexOf
  <2>3. Len(q) - 1 \in Nat
    BY <2>1, <2>2
  <2>4. \A i \in 1..(Len(q) - 1) : (IF i < IndexOf(q, p) THEN q[i] ELSE q[i + 1]) \in Entry(Id)
    BY <2>1, <2>2
  <2> QED
    BY <1>2, <2>1, <2>2, <2>3, <2>4 DEF Dequeue
<1> QED
  BY <1>1, <1>2

LEMMA EnqueueType ==
  ASSUME NEW Id, NEW q \in Seq(Entry(Id)), NEW ascending, NEW p \in Id, NEW pri \in Int
  PROVE  Enqueue(q, ascending, p, pri) \in Seq(Entry(Id))
<1> DEFINE e == [id |-> p, pri |-> pri]
<1>1. e \in Entry(Id)
  BY DEF Entry
<1>2. Rekey(q, p, pri) \in Seq(Entry(Id))
  <2>1. Len(q) \in Nat /\ DOMAIN q = 1..Len(q) /\ \A i \in 1..Len(q) : q[i] \in Entry(Id)
    OBVIOUS
  <2>2. \A i \in 1..Len(q) : (IF q[i].id = p THEN e ELSE q[i]) \in Entry(Id)
    BY <1>1, <2>1
  <2> QED
    BY <2>1, <2>2 DEF Rekey
<1>3. Insert(q, Position(q, ascending, pri), e) \in Seq(Entry(Id))
  BY <1>1, PositionFound, InsertType
<1> QED
  BY <1>2, <1>3 DEF Enqueue

-----------------------------------------------------------------------------
(* Who is in a queue, with which key, and in which order, afterwards.      *)

Entries(q) == {q[i] : i \in DOMAIN q}

LEMMA InsertEntries ==
  ASSUME NEW Id, NEW q \in Seq(Entry(Id)), NEW k \in 1..(Len(q) + 1), NEW e \in Entry(Id)
  PROVE  Entries(Insert(q, k, e)) = Entries(q) \cup {e}
<1> DEFINE s == Insert(q, k, e)
<1>1. /\ Len(q) \in Nat /\ DOMAIN q = 1..Len(q) /\ DOMAIN s = 1..(Len(q) + 1)
      /\ \A i \in 1..(Len(q) + 1) : s[i] = IF i < k THEN q[i] ELSE IF i = k THEN e ELSE q[i - 1]
  BY InsertType
<1> HIDE DEF s
<1>2. \A i \in 1..(Len(q) + 1) : s[i] \in Entries(q) \cup {e}
  BY <1>1 DEF Entries
<1>3. e \in Entries(s)
  BY <1>1 DEF Entries
<1>4. \A i \in 1..Len(q) : q[i] \in Entries(s)
  <2> TAKE i \in 1..Len(q)
  <2>1. CASE i < k
    BY <1>1, <2>1 DEF Entries
  <2>2. CASE i >= k
    <3>1. i + 1 \in DOMAIN s /\ s[i + 1] = q[i]
      BY <1>1, <2>2
    <3> QED BY <3>1 DEF Entries
  <2> QED BY <2>1, <2>2
<1>5. Entries(s) \subseteq Entries(q) \cup {e}
  BY <1>1, <1>2 DEF Entries
<1>6. Entries(q) \subseteq Entries(s)
  BY <1>1, <1>4 DEF Entries
<1> QED
  BY <1>3, <1>5, <1>6 DEF s

\* A process that is not linked is added, with the key of the call.
LEMMA EnqueueEntries ==
  ASSUME NEW Id, NEW q \in Seq(Entry(Id)), NEW ascending, NEW p \in Id, NEW pri \in Int,
         ~ Enqueued(q, p)
  PROVE  Entries(Enqueue(q, ascending, p, pri)) = Entries(q) \cup {[id |-> p, pri |-> pri]}
<1>1. [id |-> p, pri |-> pri] \in Entry(Id)
  BY DEF Entry
<1> QED
  BY <1>1, PositionFound, InsertEntries DEF Enqueue

LEMMA IdsOfEntries ==
  ASSUME NEW q
  PROVE  Ids(q) = {e.id : e \in Entries(q)}
BY DEF Ids, Entries

LEMMA EnqueuedIsInIds ==
  ASSUME NEW q, NEW p
  PROVE  Enqueued(q, p) <=> p \in Ids(q)
BY DEF Enqueued, Ids

LEMMA EnqueueIds ==
  ASSUME NEW Id, NEW q \in Seq(Entry(Id)), NEW ascending, NEW p \in Id, NEW pri \in Int
  PROVE  Ids(Enqueue(q, ascending, p, pri)) = Ids(q) \cup {p}
<1>1. CASE ~ Enqueued(q, p)
  <2>1. Entries(Enqueue(q, ascending, p, pri)) = Entries(q) \cup {[id |-> p, pri |-> pri]}
    BY <1>1, EnqueueEntries
  <2> DEFINE e == [id |-> p, pri |-> pri]
             s == Enqueue(q, ascending, p, pri)
  <2>2. e.id = p /\ Entries(s) = Entries(q) \cup {e}
    BY <2>1
  <2> HIDE DEF e, s
  <2>3. \A x : (\E a \in Entries(s) : x = a.id) <=> x = p \/ \E a \in Entries(q) : x = a.id
    BY <2>2
  <2>4. \A x : x \in Ids(s) <=> x = p \/ x \in Ids(q)
    BY <2>3, IdsOfEntries
  <2>5. Ids(s) = Ids(q) \cup {p}
    BY <2>4
  <2> QED
    BY <2>5 DEF s
<1>2. CASE Enqueued(q, p)
  <2>1. /\ DOMAIN Rekey(q, p, pri) = DOMAIN q
        /\ \A i \in DOMAIN q : Rekey(q, p, pri)[i].id = q[i].id
    BY DEF Rekey
  <2>2. Ids(Rekey(q, p, pri)) = Ids(q)
    BY <2>1 DEF Ids
  <2> QED
    BY <1>2, <2>2, EnqueuedIsInIds DEF Enqueue
<1> QED
  BY <1>1, <1>2

LEMMA EnqueueDistinct ==
  ASSUME NEW Id, NEW q \in Seq(Entry(Id)), NEW ascending, NEW p \in Id, NEW pri \in Int,
         DistinctIds(q)
  PROVE  DistinctIds(Enqueue(q, ascending, p, pri))
<1>1. CASE Enqueued(q, p)
  <2>1. /\ DOMAIN Rekey(q, p, pri) = DOMAIN q
        /\ \A i \in DOMAIN q : Rekey(q, p, pri)[i].id = q[i].id
    BY DEF Rekey
  <2> QED
    BY <1>1, <2>1 DEF Enqueue, DistinctIds
<1>2. CASE ~ Enqueued(q, p)
  <2> DEFINE k == Position(q, ascending, pri)
             e == [id |-> p, pri |-> pri]
             s == Insert(q, k, e)
  <2>1. k \in 1..(Len(q) + 1) /\ e \in Entry(Id) /\ e.id = p
    BY PositionFound DEF Entry
  <2> HIDE DEF k, e
  <2>2. /\ Len(q) \in Nat /\ DOMAIN q = 1..Len(q) /\ DOMAIN s = 1..(Len(q) + 1)
        /\ \A i \in 1..(Len(q) + 1) : s[i] = IF i < k THEN q[i] ELSE IF i = k THEN e ELSE q[i - 1]
    BY <2>1, InsertType
  <2>3. \A i \in 1..Len(q) : q[i].id # p
    BY <1>2, <2>2 DEF Enqueued
  <2> HIDE DEF s
  <2>4. SUFFICES ASSUME NEW i \in DOMAIN s, NEW j \in DOMAIN s, s[i].id = s[j].id PROVE i = j
    BY <1>2 DEF Enqueue, DistinctIds, s, k, e
  <2> DEFINE Old(n) == IF n < k THEN n ELSE n - 1
  <2>5. \A n \in DOMAIN s : n # k => Old(n) \in DOMAIN q /\ s[n] = q[Old(n)]
    BY <2>1, <2>2
  <2>6. i = k <=> j = k
    BY <2>1, <2>2, <2>3, <2>4, <2>5
  <2>7. CASE i # k /\ j # k
    <3>1. Old(i) = Old(j)
      BY <2>4, <2>5, <2>7 DEF DistinctIds
    <3> QED BY <2>1, <2>2, <2>7, <3>1
  <2> QED BY <2>6, <2>7
<1> QED
  BY <1>1, <1>2

\* The process is taken out and nobody else.
LEMMA DequeueEntries ==
  ASSUME NEW Id, NEW q \in Seq(Entry(Id)), NEW p, DistinctIds(q)
  PROVE  /\ Entries(Dequeue(q, p)) = {e \in Entries(q) : e.id # p}
         /\ Ids(Dequeue(q, p)) = Ids(q) \ {p}
         /\ DistinctIds(Dequeue(q, p))
<1>1. CASE ~ Enqueued(q, p)
  <2>1. Dequeue(q, p) = q /\ p \notin Ids(q)
    BY <1>1 DEF Dequeue, Enqueued, Ids
  <2>2. Entries(q) = {e \in Entries(q) : e.id # p}
    BY <1>1 DEF Enqueued, Entries
  <2> QED BY <2>1, <2>2
<1>2. CASE Enqueued(q, p)
  <2> DEFINE k == IndexOf(q, p)
             s == Dequeue(q, p)
  <2>1. /\ Len(q) \in Nat /\ DOMAIN q = 1..Len(q) /\ k \in 1..Len(q) /\ q[k].id = p
        /\ DOMAIN s = 1..(Len(q) - 1)
        /\ \A i \in 1..(Len(q) - 1) : s[i] = IF i < k THEN q[i] ELSE q[i + 1]
    BY <1>2, DequeueType
  <2> HIDE DEF k, s
  <2> DEFINE Old(n) == IF n < k THEN n ELSE n + 1
  <2>2. \A n \in DOMAIN s : Old(n) \in DOMAIN q /\ Old(n) # k /\ s[n] = q[Old(n)]
    BY <2>1
  <2>3. \A m \in DOMAIN q : m # k => \E n \in DOMAIN s : Old(n) = m
    <3> TAKE m \in DOMAIN q
    <3>1. CASE m < k
      BY <2>1, <3>1
    <3>2. CASE m > k
      <4>1. m - 1 \in DOMAIN s /\ Old(m - 1) = m
        BY <2>1, <3>2
      <4> QED BY <4>1
    <3> QED BY <2>1, <3>1, <3>2
  <2>4. \A m \in DOMAIN q : q[m].id = p => m = k
    BY <2>1 DEF DistinctIds
  <2> DEFINE others == {e \in Entries(q) : e.id # p}
  <2>5. Entries(s) \subseteq others
    BY <2>2, <2>4 DEF Entries
  <2>6. others \subseteq Entries(s)
    BY <2>1, <2>2, <2>3 DEF Entries
  <2>7. DistinctIds(s)
    <3>1. \A m, n \in DOMAIN s : Old(m) = Old(n) => m = n
      BY <2>1
    <3> QED BY <2>2, <3>1 DEF DistinctIds
  <2>8. Entries(s) = others
    BY <2>5, <2>6
  <2>9. Ids(s) = Ids(q) \ {p}
    BY <2>8, IdsOfEntries
  <2> QED BY <2>7, <2>8, <2>9 DEF s
<1> QED
  BY <1>1, <1>2

\* PRIORITYQUEUE_ENQUEUE keeps a queue in order, if the process is not linked.
LEMMA EnqueueSorted ==
  ASSUME NEW Id, NEW q \in Seq(Entry(Id)), NEW ascending \in BOOLEAN, NEW p \in Id,
         NEW pri \in Int, ~ Enqueued(q, p), Sorted(q, ascending)
  PROVE  Sorted(Enqueue(q, ascending, p, pri), ascending)
<1> DEFINE k == Position(q, ascending, pri)
           e == [id |-> p, pri |-> pri]
           s == Insert(q, k, e)
<1>1. /\ k \in 1..(Len(q) + 1) /\ e \in Entry(Id) /\ e.pri = pri
      /\ k <= Len(q) => Before(ascending, pri, q[k].pri)
      /\ \A j \in 1..(k - 1) : ~ Before(ascending, pri, q[j].pri)
  BY PositionFound DEF Entry
<1> HIDE DEF k, e
<1>2. /\ Len(q) \in Nat /\ DOMAIN q = 1..Len(q) /\ DOMAIN s = 1..(Len(q) + 1)
      /\ \A i \in 1..(Len(q) + 1) : s[i] = IF i < k THEN q[i] ELSE IF i = k THEN e ELSE q[i - 1]
  <2>1. Len(q) \in Nat /\ DOMAIN q = 1..Len(q)
    OBVIOUS
  <2>2. /\ s \in Seq(Entry(Id)) /\ Len(s) = Len(q) + 1
        /\ \A i \in 1..(Len(q) + 1) : s[i] = IF i < k THEN q[i] ELSE IF i = k THEN e ELSE q[i - 1]
    <3>1. k \in 1..(Len(q) + 1) /\ e \in Entry(Id)
      BY <1>1
    <3>2. s \in Seq(Entry(Id))
      BY <3>1, InsertType
    <3>3. Len(s) = Len(q) + 1
      BY <3>1, InsertType
    <3>4. \A i \in 1..(Len(q) + 1) : s[i] = IF i < k THEN q[i] ELSE IF i = k THEN e ELSE q[i - 1]
      BY <3>1, InsertType
    <3> QED BY <3>2, <3>3, <3>4
  <2> HIDE DEF s
  <2> QED BY <2>1, <2>2
<1>3. \A i \in 1..Len(q) : q[i].pri \in Int
  <2>1. \A i \in 1..Len(q) : q[i] \in Entry(Id)
    OBVIOUS
  <2> QED BY <2>1 DEF Entry
<1> HIDE DEF s
<1>4. SUFFICES ASSUME NEW i \in DOMAIN s, NEW j \in DOMAIN s, i < j
               PROVE  ~ Before(ascending, s[j].pri, s[i].pri)
  BY DEF Enqueue, Sorted, s, k, e
<1>5. \A m, n \in DOMAIN q : m < n => ~ Before(ascending, q[n].pri, q[m].pri)
  BY DEF Sorted
<1>6. CASE i # k /\ j # k
  <2> DEFINE Old(a) == IF a < k THEN a ELSE a - 1
  <2>1. Old(i) \in DOMAIN q /\ s[i] = q[Old(i)]
    BY <1>1, <1>2, <1>6
  <2>2. Old(j) \in DOMAIN q /\ s[j] = q[Old(j)]
    BY <1>1, <1>2, <1>6
  <2>3. Old(i) < Old(j)
    BY <1>1, <1>2, <1>4, <1>6
  <2> HIDE DEF Old
  <2> QED BY <1>5, <2>1, <2>2, <2>3
<1>7. CASE i = k
  <2>1. s[i].pri = pri /\ j - 1 \in DOMAIN q /\ s[j] = q[j - 1] /\ k <= j - 1 /\ k \in DOMAIN q
    BY <1>1, <1>2, <1>4, <1>7
  <2>2. Before(ascending, pri, q[k].pri)
    BY <1>1, <1>2, <2>1
  <2>3. k = j - 1 \/ ~ Before(ascending, q[j - 1].pri, q[k].pri)
    BY <1>1, <1>2, <1>5, <2>1
  <2> QED BY <1>2, <1>3, <2>1, <2>2, <2>3 DEF Before
<1>8. CASE j = k
  <2>1. s[j].pri = pri /\ i \in 1..(k - 1) /\ s[i] = q[i]
    BY <1>1, <1>2, <1>4, <1>8
  <2> QED BY <1>1, <2>1
<1> QED
  BY <1>6, <1>7, <1>8

LEMMA DequeueSorted ==
  ASSUME NEW Id, NEW q \in Seq(Entry(Id)), NEW ascending, NEW p, Sorted(q, ascending)
  PROVE  Sorted(Dequeue(q, p), ascending)
<1>1. CASE ~ Enqueued(q, p)
  BY <1>1 DEF Dequeue
<1>2. CASE Enqueued(q, p)
  <2> DEFINE k == IndexOf(q, p)
             s == Dequeue(q, p)
             Old(n) == IF n < k THEN n ELSE n + 1
  <2>1. /\ Len(q) \in Nat /\ DOMAIN q = 1..Len(q) /\ k \in 1..Len(q)
        /\ DOMAIN s = 1..(Len(q) - 1)
        /\ \A i \in 1..(Len(q) - 1) : s[i] = IF i < k THEN q[i] ELSE q[i + 1]
    BY <1>2, DequeueType
  <2> HIDE DEF k, s
  <2>2. \A n \in DOMAIN s : Old(n) \in DOMAIN q /\ s[n] = q[Old(n)]
    BY <2>1
  <2>3. \A m, n \in DOMAIN s : m < n => Old(m) < Old(n)
    BY <2>1
  <2> QED BY <2>2, <2>3 DEF Sorted, s
<1> QED
  BY <1>1, <1>2

-----------------------------------------------------------------------------
(* The two orders the schedulers use.                                      *)

LEMMA EnqueueAscending ==
  ASSUME NEW Id, NEW q \in Seq(Entry(Id)), NEW p \in Id, NEW pri \in Int
  PROVE  LET r == Enqueue(q, TRUE, p, pri)
         IN  /\ r \in Seq(Entry(Id)) /\ Ids(r) = Ids(q) \cup {p}
             /\ DistinctIds(q) => DistinctIds(r)
             /\ ~ Enqueued(q, p) => /\ Entries(r) = Entries(q) \cup {[id |-> p, pri |-> pri]}
                                    /\ Sorted(q, TRUE) => Sorted(r, TRUE)
<1>1. \A asc \in BOOLEAN :
        LET r == Enqueue(q, asc, p, pri)
        IN  /\ r \in Seq(Entry(Id)) /\ Ids(r) = Ids(q) \cup {p}
            /\ DistinctIds(q) => DistinctIds(r)
            /\ ~ Enqueued(q, p) => /\ Entries(r) = Entries(q) \cup {[id |-> p, pri |-> pri]}
                                   /\ Sorted(q, asc) => Sorted(r, asc)
  BY EnqueueType, EnqueueIds, EnqueueDistinct, EnqueueEntries, EnqueueSorted
<1> QED
  BY <1>1

LEMMA EnqueueDescending ==
  ASSUME NEW Id, NEW q \in Seq(Entry(Id)), NEW p \in Id, NEW pri \in Int
  PROVE  LET r == Enqueue(q, FALSE, p, pri)
         IN  /\ r \in Seq(Entry(Id)) /\ Ids(r) = Ids(q) \cup {p}
             /\ DistinctIds(q) => DistinctIds(r)
             /\ ~ Enqueued(q, p) => /\ Entries(r) = Entries(q) \cup {[id |-> p, pri |-> pri]}
                                    /\ Sorted(q, FALSE) => Sorted(r, FALSE)
<1>1. \A asc \in BOOLEAN :
        LET r == Enqueue(q, asc, p, pri)
        IN  /\ r \in Seq(Entry(Id)) /\ Ids(r) = Ids(q) \cup {p}
            /\ DistinctIds(q) => DistinctIds(r)
            /\ ~ Enqueued(q, p) => /\ Entries(r) = Entries(q) \cup {[id |-> p, pri |-> pri]}
                                   /\ Sorted(q, asc) => Sorted(r, asc)
  BY EnqueueType, EnqueueIds, EnqueueDistinct, EnqueueEntries, EnqueueSorted
<1> QED
  BY <1>1
=============================================================================
