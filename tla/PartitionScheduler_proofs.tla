---------------------- MODULE PartitionScheduler_proofs ----------------------
(***************************************************************************)
(* Theorems about the partition scheduler, for every number of partitions  *)
(* and every window table; those about isolation, for every table in which *)
(* windows are in order and do not overlap.                                *)
(***************************************************************************)
EXTENDS PartitionIsolation, PriorityQueues_proofs

-----------------------------------------------------------------------------
(* The queue a major frame begins with.                                    *)

\* One round of the loop that queues the partitions of S.
Add(S, q, n) ==
  IF n = 0 THEN <<>>
  ELSE IF Sequence[n] \in S
       THEN Enqueue(q, TRUE, Sequence[n], First(Sequence[n]))
       ELSE q

\* f gives the queue after each of the first m rounds.
Rounds(S, f, m) == f = [n \in 0..m |-> Add(S, f[n - 1], n)]

LEMMA AssumptionFacts ==
  /\ Len(Sequence) \in Nat
  /\ \A n \in 1..Len(Sequence) : Sequence[n] \in Part
  /\ \A p \in Part :
       /\ Len(Window[p]) \in Nat /\ 1 \in DOMAIN Window[p] /\ DOMAIN Window[p] = 1..Len(Window[p])
       /\ \A i \in DOMAIN Window[p] :
            /\ Window[p][i].start \in Nat /\ Window[p][i].duration \in Nat \ {0}
       /\ First(p) \in Nat
<1>1. Len(Sequence) \in Nat /\ \A n \in 1..Len(Sequence) : Sequence[n] \in Part
  BY PartitionSchedulerAssumption
<1>2. ASSUME NEW p \in Part
      PROVE  /\ Len(Window[p]) \in Nat /\ 1 \in DOMAIN Window[p] /\ DOMAIN Window[p] = 1..Len(Window[p])
             /\ \A i \in DOMAIN Window[p] : Window[p][i] \in [start : Nat, duration : Nat \ {0}]
  <2>1. Window[p] \in Seq([start : Nat, duration : Nat \ {0}]) /\ Window[p] # <<>>
    BY PartitionSchedulerAssumption
  <2> DEFINE T == [start : Nat, duration : Nat \ {0}]
  <2> HIDE DEF T
  <2>2. ASSUME NEW w \in Seq(T), w # <<>>
        PROVE  /\ Len(w) \in Nat /\ 1 \in DOMAIN w /\ DOMAIN w = 1..Len(w)
               /\ \A i \in DOMAIN w : w[i] \in T
    BY <2>2
  <2> QED BY <2>1, <2>2 DEF T
<1>3. ASSUME NEW p \in Part
      PROVE  /\ \A i \in DOMAIN Window[p] :
                  /\ Window[p][i].start \in Nat /\ Window[p][i].duration \in Nat \ {0}
             /\ First(p) \in Nat
  BY <1>2 DEF First
<1> QED
  BY <1>1, <1>2, <1>3

LEMMA RoundsExist ==
  ASSUME NEW S, NEW m \in 0..Len(Sequence)
  PROVE  \E f : Rounds(S, f, m)
<1> DEFINE Bad == {n \in 0..Len(Sequence) : ~ \E f : Rounds(S, f, n)}
<1>1. SUFFICES ASSUME Bad # {} PROVE FALSE
  OBVIOUS
<1>2. Bad \in SUBSET Nat
  BY AssumptionFacts
<1>3. PICK k \in Bad : \A n \in Bad : k <= n
  <2> HIDE DEF Bad
  <2> QED BY <1>1, <1>2, LeastNatural
<1>4. ASSUME NEW q, NEW r PROVE Add(S, q, 0) = Add(S, r, 0)
  BY DEF Add
<1>5. k # 0
  <2> DEFINE f == [n \in 0..0 |-> <<>>]
  <2>1. f = [n \in 0..0 |-> Add(S, f[n - 1], n)]
    BY DEF Add
  <2>2. \E g : Rounds(S, g, 0)
    BY <2>1 DEF Rounds
  <2> QED BY <1>3, <2>2
<1>6. k \in 1..Len(Sequence)
  BY <1>3, <1>5, AssumptionFacts
<1>7. PICK g : Rounds(S, g, k - 1)
  <2>1. k - 1 \in 0..Len(Sequence) /\ ~ (k <= k - 1)
    BY <1>6, AssumptionFacts
  <2>2. k - 1 \notin Bad
    BY <1>3, <2>1
  <2> QED BY <2>1, <2>2
<1> DEFINE f == [n \in 0..k |-> IF n = k THEN Add(S, g[k - 1], k) ELSE g[n]]
<1>8. \A n \in 0..(k - 1) : g[n] = Add(S, g[n - 1], n)
  BY <1>7 DEF Rounds
<1>9. \A n \in 0..k : f[n] = Add(S, f[n - 1], n)
  <2> TAKE n \in 0..k
  <2>1. CASE n = k
    BY <1>6, <2>1
  <2>2. CASE n # k /\ n # 0
    BY <1>6, <1>8, <2>2
  <2>3. CASE n = 0
    <3>1. f[0] = g[0] /\ g[0] = Add(S, g[0 - 1], 0)
      BY <1>6, <1>8
    <3> QED BY <1>4, <2>3, <3>1
  <2> QED BY <2>1, <2>2, <2>3
<1>10. Rounds(S, f, k)
  BY <1>9 DEF Rounds
<1> QED
  BY <1>3, <1>10

LEMMA QueuedRounds ==
  ASSUME NEW S
  PROVE  \E f : Rounds(S, f, Len(Sequence)) /\ Queued(S) = f[Len(Sequence)]
<1> DEFINE f == CHOOSE g : Rounds(S, g, Len(Sequence))
<1>1. Rounds(S, f, Len(Sequence))
  BY RoundsExist, AssumptionFacts
<1>2. Queued(S) = f[Len(Sequence)]
  BY DEF Queued, Add, Rounds
<1> QED
  BY <1>1, <1>2

\* The queue holds the partitions of S, each once and for its first window, in
\* order of these windows.
QueuedSoFar(S, q, n) ==
  /\ q \in Seq(Entry(Part)) /\ DistinctIds(q) /\ Sorted(q, TRUE)
  /\ \A e \in Entries(q) : e.id \in S /\ e.pri = First(e.id)
  /\ Ids(q) = {Sequence[i] : i \in 1..n} \cap S

LEMMA AddOne ==
  ASSUME NEW S \in SUBSET Part, NEW n \in 1..Len(Sequence), NEW q, QueuedSoFar(S, q, n - 1)
  PROVE  QueuedSoFar(S, Add(S, q, n), n)
<1> DEFINE p == Sequence[n]
<1>1. p \in Part /\ First(p) \in Int /\ n # 0
  BY AssumptionFacts
<1>2. p \notin Ids(q)
  BY PartitionSchedulerAssumption, AssumptionFacts DEF QueuedSoFar
<1>3. {Sequence[i] : i \in 1..n} = {Sequence[i] : i \in 1..(n - 1)} \cup {p}
  <2>1. 1..n = 1..(n - 1) \cup {n}
    BY AssumptionFacts
  <2> QED BY <2>1
<1>4. CASE p \notin S
  BY <1>1, <1>3, <1>4 DEF Add, QueuedSoFar
<1>5. CASE p \in S
  <2> DEFINE r == Enqueue(q, TRUE, p, First(p))
             e == [id |-> p, pri |-> First(p)]
  <2>1. r \in Seq(Entry(Part)) /\ DistinctIds(r) /\ Sorted(r, TRUE)
    BY <1>1, <1>2, EnqueueType, EnqueueDistinct, EnqueueSorted, EnqueuedIsInIds DEF QueuedSoFar
  <2>2. q \in Seq(Entry(Part)) /\ ~ Enqueued(q, p)
    BY <1>2, EnqueuedIsInIds DEF QueuedSoFar
  <2>3. Entries(r) = Entries(q) \cup {e}
    <3>1. \A ascending : Entries(Enqueue(q, ascending, p, First(p))) = Entries(q) \cup {e}
      BY <1>1, <2>2, EnqueueEntries
    <3> QED BY <3>1
  <2>4. Ids(r) = Ids(q) \cup {p}
    <3>1. \A ascending : Ids(Enqueue(q, ascending, p, First(p))) = Ids(q) \cup {p}
      BY <1>1, <2>2, EnqueueIds
    <3> QED BY <3>1
  <2>5. e.id = p /\ e.pri = First(p)
    OBVIOUS
  <2>6. Add(S, q, n) = r
    BY <1>1, <1>5 DEF Add
  <2> HIDE DEF r, e
  <2> QED BY <1>3, <1>5, <2>1, <2>3, <2>4, <2>5, <2>6 DEF QueuedSoFar
<1> QED
  BY <1>4, <1>5

LEMMA QueuedFacts ==
  ASSUME NEW S \in SUBSET Part
  PROVE  QueuedSoFar(S, Queued(S), Len(Sequence)) /\ Ids(Queued(S)) = S
<1>1. PICK f : Rounds(S, f, Len(Sequence)) /\ Queued(S) = f[Len(Sequence)]
  BY QueuedRounds
<1>2. \A n \in 0..Len(Sequence) : f[n] = Add(S, f[n - 1], n)
  BY <1>1 DEF Rounds
<1> DEFINE Bad == {n \in 0..Len(Sequence) : ~ QueuedSoFar(S, f[n], n)}
<1>3. Bad = {}
  <2>1. SUFFICES ASSUME Bad # {} PROVE FALSE
    OBVIOUS
  <2>2. Bad \in SUBSET Nat
    BY AssumptionFacts
  <2>3. PICK k \in Bad : \A n \in Bad : k <= n
    <3> HIDE DEF Bad
    <3> QED BY <2>1, <2>2, LeastNatural
  <2>4. k # 0
    <3>1. f[0] = <<>>
      <4>1. 0 \in 0..Len(Sequence) /\ Add(S, f[0 - 1], 0) = <<>>
        BY AssumptionFacts DEF Add
      <4> QED BY <1>2, <4>1
    <3>2. QueuedSoFar(S, <<>>, 0)
      BY DEF QueuedSoFar, DistinctIds, Sorted, Entries, Ids
    <3> QED BY <2>3, <3>1, <3>2
  <2>5. k \in 1..Len(Sequence) /\ k - 1 \in 0..Len(Sequence) /\ ~ (k <= k - 1)
    BY <2>3, <2>4, AssumptionFacts
  <2>6. QueuedSoFar(S, f[k - 1], k - 1)
    BY <2>3, <2>5
  <2>7. QueuedSoFar(S, f[k], k)
    BY <1>2, <2>5, <2>6, AddOne
  <2> QED BY <2>3, <2>7
<1>4. QueuedSoFar(S, Queued(S), Len(Sequence))
  BY <1>1, <1>3, AssumptionFacts
<1>5. {Sequence[i] : i \in 1..Len(Sequence)} = Part
  <2>1. \A p \in Part : \E i \in 1..Len(Sequence) : Sequence[i] = p
    BY PartitionSchedulerAssumption, AssumptionFacts
  <2> QED BY <2>1, AssumptionFacts
<1> QED
  BY <1>4, <1>5 DEF QueuedSoFar

-----------------------------------------------------------------------------
(* The ready queue of partitions. The invariant is stated entry by entry.  *)

\* An entry stands for the window that ix gives its partition, which is not idle.
Fits(e, idle, ix) ==
  /\ e.id \in Part /\ e.id \notin idle
  /\ ix[e.id] \in DOMAIN Window[e.id] /\ e.pri = Window[e.id][ix[e.id]].start

QueueOK(q, idle, ix) ==
  /\ q \in Seq(Entry(Part)) /\ DistinctIds(q) /\ Sorted(q, TRUE)
  /\ \A e \in Entries(q) : Fits(e, idle, ix)

Inv == TypeOK /\ QueueOK(ready, Idle, index)

LEMMA InvImplies == Inv => ReadyMatchesIndex
<1> SUFFICES ASSUME Inv, NEW i \in DOMAIN ready
             PROVE  LET p == ready[i].id
                    IN  p \notin Idle /\ index[p] \in DOMAIN Window[p] /\ ready[i].pri = Start(p)
  BY DEF Inv, QueueOK, ReadyMatchesIndex
<1>1. Fits(ready[i], Idle, index)
  BY DEF Inv, QueueOK, Entries
<1> QED
  BY <1>1 DEF Fits, Start

\* The initial queue and that of every new frame.
LEMMA FrameQueue ==
  ASSUME NEW idle \in SUBSET Part
  PROVE  QueueOK(Queued(Part \ idle), idle, [p \in Part |-> 1])
<1> DEFINE q == Queued(Part \ idle)
           ix == [p \in Part |-> 1]
<1>1. QueuedSoFar(Part \ idle, q, Len(Sequence))
  BY QueuedFacts
<1> HIDE DEF q
<1>2. ASSUME NEW e \in Entries(q) PROVE Fits(e, idle, ix)
  <2>1. e.id \in Part \ idle /\ e.pri = First(e.id)
    BY <1>1 DEF QueuedSoFar
  <2>2. ix[e.id] = 1 /\ 1 \in DOMAIN Window[e.id]
    BY <2>1, AssumptionFacts
  <2> HIDE DEF ix
  <2> QED BY <2>1, <2>2 DEF Fits, First
<1> QED
  BY <1>1, <1>2 DEF QueueOK, QueuedSoFar, q

\* Taking a partition out lets its index and its mode change.
LEMMA QueueWithout ==
  ASSUME NEW q, NEW idle, NEW ix, NEW p, NEW idle2, NEW ix2, QueueOK(q, idle, ix),
         \A x \in Part \ {p} : ix2[x] = ix[x] /\ (x \notin idle => x \notin idle2)
  PROVE  QueueOK(Dequeue(q, p), idle2, ix2) /\ ~ Enqueued(Dequeue(q, p), p)
<1>1. q \in Seq(Entry(Part)) /\ DistinctIds(q) /\ Sorted(q, TRUE)
  BY DEF QueueOK
<1> DEFINE r == Dequeue(q, p)
<1>2. r \in Seq(Entry(Part))
  BY <1>1, DequeueType
<1>3. DistinctIds(r) /\ Entries(r) = {e \in Entries(q) : e.id # p} /\ Ids(r) = Ids(q) \ {p}
  BY <1>1, DequeueEntries
<1>4. Sorted(r, TRUE)
  <2>1. \A ascending : Sorted(q, ascending) => Sorted(Dequeue(q, p), ascending)
    BY <1>1, DequeueSorted
  <2> QED BY <1>1, <2>1
<1> HIDE DEF r
<1>5. ASSUME NEW e \in Entries(r) PROVE Fits(e, idle2, ix2)
  <2>1. Fits(e, idle, ix) /\ e.id # p
    BY <1>3 DEF QueueOK
  <2> QED BY <2>1 DEF Fits
<1>6. ~ Enqueued(r, p)
  BY <1>3, EnqueuedIsInIds
<1> QED
  BY <1>2, <1>3, <1>4, <1>5, <1>6 DEF QueueOK, r

LEMMA QueueWith ==
  ASSUME NEW q, NEW idle, NEW ix, NEW p \in Part \ idle, NEW n, QueueOK(q, idle, ix),
         ~ Enqueued(q, p), ix[p] = n, n \in DOMAIN Window[p]
  PROVE  QueueOK(Enqueue(q, TRUE, p, Window[p][n].start), idle, ix)
<1> DEFINE start == Window[p][n].start
           e == [id |-> p, pri |-> start]
           r == Enqueue(q, TRUE, p, start)
<1>1. q \in Seq(Entry(Part)) /\ DistinctIds(q) /\ Sorted(q, TRUE)
  BY DEF QueueOK
<1>2. Fits(e, idle, ix) /\ start \in Int
  BY AssumptionFacts DEF Fits
<1> HIDE DEF start
<1>3. r \in Seq(Entry(Part)) /\ DistinctIds(r) /\ Sorted(r, TRUE) /\ Entries(r) = Entries(q) \cup {e}
  <2>1. r \in Seq(Entry(Part)) /\ DistinctIds(r)
    BY <1>1, <1>2, EnqueueAscending
  <2>2. Entries(r) = Entries(q) \cup {e}
    <3>1. \A ascending : Entries(Enqueue(q, ascending, p, start)) = Entries(q) \cup {e}
      BY <1>1, <1>2, EnqueueEntries
    <3> QED BY <3>1
  <2>3. Sorted(r, TRUE)
    BY <1>1, <1>2, EnqueueAscending
  <2> QED BY <2>1, <2>2, <2>3
<1> HIDE DEF r, e
<1>4. QueueOK(r, idle, ix)
  BY <1>2, <1>3 DEF QueueOK
<1> QED
  BY <1>4 DEF r, start

\* Whoever heads the queue has its current window as key.
LEMMA HeadFacts ==
  ASSUME Inv, ready # <<>>
  PROVE  /\ Head(ready) \in Entries(ready) /\ Head(ready).id \in Part \ Idle
         /\ index[Head(ready).id] \in DOMAIN Window[Head(ready).id]
<1>1. ready \in Seq(Entry(Part))
  BY DEF Inv, QueueOK
<1>2. Head(ready) = ready[1] /\ 1 \in DOMAIN ready
  BY <1>1
<1>3. Head(ready) \in Entries(ready)
  BY <1>2 DEF Entries
<1>4. Fits(Head(ready), Idle, index)
  BY <1>3 DEF Inv, QueueOK
<1> QED
  BY <1>3, <1>4 DEF Fits

-----------------------------------------------------------------------------
(* The invariant is inductive.                                             *)

LEMMA InitInv == Init => Inv
<1> SUFFICES ASSUME Init PROVE Inv
  OBVIOUS
<1>1. Idle = {}
  BY DEF Init, Idle
<1>2. QueueOK(ready, Idle, index)
  <2>1. Part \ {} = Part
    OBVIOUS
  <2> QED BY <1>1, <2>1, FrameQueue DEF Init
<1>3. ready \in Seq(Entry(Part))
  BY <1>2 DEF QueueOK
<1>4. time \in 0..(Frame - 1)
  BY PartitionSchedulerAssumption DEF Init
<1>5. /\ index \in [Part -> Nat \ {0}] /\ owner \in Part \cup {NoPart}
      /\ mode \in [Part -> {"FIRST", "START", "NORMAL", "IDLE"}]
      /\ hm \in [start : BOOLEAN, stop : BOOLEAN, running : BOOLEAN]
      /\ moduleIdle \in BOOLEAN /\ pc \in {"rest", "out", "in", "entered"}
  <2>1. index \in [Part -> Nat \ {0}]
    <3>1. 1 \in Nat \ {0} /\ index = [p \in Part |-> 1]
      BY DEF Init
    <3> QED BY <3>1
  <2>2. mode \in [Part -> {"FIRST", "START", "NORMAL", "IDLE"}]
    BY DEF Init
  <2>3. hm \in [start : BOOLEAN, stop : BOOLEAN, running : BOOLEAN]
    BY DEF Init
  <2> QED BY <2>1, <2>2, <2>3 DEF Init
<1> QED
  BY <1>2, <1>3, <1>4, <1>5 DEF Inv, TypeOK

LEMMA TickInv ==
  ASSUME Inv, TICK
  PROVE  Inv'
<1>1. Idle' = Idle /\ Idle \in SUBSET Part
  BY DEF TICK, Idle
<1>2. QueueOK(ready, Idle, index)' /\ index' \in [Part -> Nat \ {0}]
  <2>1. CASE UNCHANGED <<ready, index>>
    BY <1>1, <2>1 DEF Inv, TypeOK
  <2>2. CASE index' = [p \in Part |-> 1] /\ ready' = Queued(Part \ Idle)
    BY <1>1, <2>2, FrameQueue
  <2> QED BY <2>1, <2>2 DEF TICK
<1>3. ready' \in Seq(Entry(Part))
  BY <1>2 DEF QueueOK
<1>4. time' \in 0..(Frame - 1)
  BY PartitionSchedulerAssumption DEF TICK, FrameEnds, Inv, TypeOK
<1> QED
  BY <1>2, <1>3, <1>4 DEF TICK, Inv, TypeOK

LEMMA ReinitializeInv ==
  ASSUME Inv, NEW m \in {"START", "IDLE"}, Reinitialize(m),
         UNCHANGED <<time, owner, hm, moduleIdle>>, pc' \in {"rest", "out"}
  PROVE  Inv'
<1>1. owner \in Part
  BY DEF Reinitialize, Running, HandlesEvents, Inv, TypeOK
<1>2. \A x \in Part \ {owner} : index'[x] = index[x] /\ (x \notin Idle => x \notin Idle')
  BY <1>1 DEF Reinitialize, Inv, TypeOK, Idle
<1>3. QueueOK(ready', Idle', index')
  BY <1>2, QueueWithout DEF Reinitialize, Inv
<1>4. ready' \in Seq(Entry(Part))
  BY <1>3 DEF QueueOK
<1>5. index' \in [Part -> Nat \ {0}]
  <2>1. 1 \in Nat \ {0} /\ index' = [index EXCEPT ![owner] = 1]
    BY DEF Reinitialize
  <2> QED BY <2>1 DEF Inv, TypeOK
<1>6. mode' \in [Part -> {"FIRST", "START", "NORMAL", "IDLE"}]
  <2>1. mode' = [mode EXCEPT ![owner] = m] /\ m \in {"FIRST", "START", "NORMAL", "IDLE"}
    BY DEF Reinitialize
  <2> QED BY <2>1 DEF Inv, TypeOK
<1> QED
  BY <1>3, <1>4, <1>5, <1>6 DEF Inv, TypeOK

LEMMA LeaveInv ==
  ASSUME Inv, LeaveWindow, UNCHANGED <<time, mode, hm, moduleIdle>>, pc' = "in"
  PROVE  Inv'
<1> DEFINE n == index[owner]
           r == Dequeue(ready, owner)
<1>1. owner \in Part \ Idle /\ n \in DOMAIN Window[owner]
  BY HeadFacts DEF LeaveWindow
<1>2. Idle' = Idle
  BY DEF Idle
<1>3. index' \in [Part -> Nat \ {0}] /\ index'[owner] = n + 1
  BY <1>1 DEF LeaveWindow, Inv, TypeOK
<1>4. \A x \in Part \ {owner} : index'[x] = index[x] /\ (x \notin Idle => x \notin Idle')
  BY <1>1, <1>2 DEF LeaveWindow, Inv, TypeOK
<1>5. QueueOK(r, Idle', index') /\ ~ Enqueued(r, owner)
  BY <1>4, QueueWithout DEF Inv
<1>6. QueueOK(ready', Idle', index')
  <2>1. CASE n < Len(Window[owner])
    <3>1. n + 1 \in DOMAIN Window[owner]
      BY <1>1, <2>1, AssumptionFacts
    <3>2. ready' = Enqueue(r, TRUE, owner, Window[owner][n + 1].start)
      BY <2>1 DEF LeaveWindow
    <3> HIDE DEF r, n
    <3> QED BY <1>1, <1>2, <1>3, <1>5, <3>1, <3>2, QueueWith
  <2>2. CASE ~ (n < Len(Window[owner]))
    BY <1>5, <2>2 DEF LeaveWindow
  <2> QED BY <2>1, <2>2
<1>7. ready' \in Seq(Entry(Part))
  BY <1>6 DEF QueueOK
<1> QED
  BY <1>3, <1>6, <1>7 DEF LeaveWindow, Inv, TypeOK

LEMMA NextInv == Inv /\ [Next]_vars => Inv'
<1> SUFFICES ASSUME Inv, [Next]_vars PROVE Inv'
  OBVIOUS
<1>1. CASE TICK
  BY <1>1, TickInv
<1>2. CASE Restart
  BY <1>2, ReinitializeInv DEF Restart
<1>3. CASE GoIdle
  BY <1>3, ReinitializeInv DEF GoIdle
<1>4. ASSUME UNCHANGED <<ready, index>>, Idle' = Idle PROVE QueueOK(ready, Idle, index)'
  BY <1>4 DEF Inv
<1>5. ASSUME UNCHANGED mode PROVE Idle' = Idle
  BY <1>5 DEF Idle
<1>6. CASE SCHEDULEPARTITIONOUT
  <2>1. CASE LeaveWindow /\ UNCHANGED hm
    BY <1>6, <2>1, LeaveInv DEF SCHEDULEPARTITIONOUT
  <2>2. CASE UNCHANGED <<ready, index>> /\ owner' \in {owner, NoPart}
    <3>1. UNCHANGED <<time, mode, moduleIdle>> /\ pc' = "in"
      BY <1>6 DEF SCHEDULEPARTITIONOUT
    <3>2. hm' \in [start : BOOLEAN, stop : BOOLEAN, running : BOOLEAN]
      BY <1>6 DEF SCHEDULEPARTITIONOUT, StopCallback, Inv, TypeOK
    <3> QED BY <1>4, <1>5, <2>2, <3>1, <3>2 DEF Inv, TypeOK
  <2> QED
    BY <1>6, <2>1, <2>2 DEF SCHEDULEPARTITIONOUT, StopCallback, GiveWay, Stay
<1>7. CASE SCHEDULEPARTITIONIN
  <2>1. owner' \in Part \cup {NoPart}
    BY <1>7, HeadFacts
    DEF SCHEDULEPARTITIONIN, StartCallback, Enter, MayEnter, NobodyEnters, Inv, TypeOK
  <2> QED
    BY <1>4, <1>5, <1>7, <2>1
    DEF SCHEDULEPARTITIONIN, StartCallback, Enter, NobodyEnters, Inv, TypeOK
<1>8. CASE SetNormalMode
  <2>1. mode' \in [Part -> {"FIRST", "START", "NORMAL", "IDLE"}] /\ Idle' = Idle
    BY <1>8 DEF SetNormalMode, Idle, Inv, TypeOK
  <2> QED
    BY <1>4, <1>8, <2>1 DEF SetNormalMode, Inv, TypeOK
<1>9. CASE Yield \/ RaiseModuleError \/ CallbackReturns \/ Entered \/ UNCHANGED vars
  <2>1. UNCHANGED <<ready, index, mode, time, owner>>
    BY <1>9 DEF Yield, RaiseModuleError, CallbackReturns, Entered, vars
  <2>2. hm' \in [start : BOOLEAN, stop : BOOLEAN, running : BOOLEAN]
    BY <1>9 DEF Yield, RaiseModuleError, CallbackReturns, Entered, vars, Inv, TypeOK
  <2>3. moduleIdle' \in BOOLEAN /\ pc' \in {"rest", "out", "in", "entered"}
    BY <1>9, PartitionSchedulerAssumption
    DEF Yield, RaiseModuleError, CallbackReturns, Entered, vars, Inv, TypeOK
  <2> QED
    BY <1>4, <1>5, <2>1, <2>2, <2>3 DEF Inv, TypeOK
<1> QED
  BY <1>1, <1>2, <1>3, <1>6, <1>7, <1>8, <1>9 DEF Next, Scheduler

\* The variables keep their types: the queue is one of partitions, an index counts
\* from one, and time stays in the frame.
THEOREM TypeCorrect == Spec => []TypeOK
<1>1. Inv => TypeOK
  BY DEF Inv
<1> QED
  BY <1>1, InitInv, NextInv, PTL DEF Spec

\* Whatever is restarted, idled, interrupted or shut down in between, the ready
\* queue holds each partition at most once, in the order of their windows, none
\* that is IDLE, and each for the window SCHEDULE_WINDOW_INDEX points to.
THEOREM ReadyQueueCorrect == Spec => []ReadyMatchesIndex
BY InvImplies, InitInv, NextInv, PTL DEF Spec

-----------------------------------------------------------------------------
(* The window table. What follows rests on two properties of the tables in *)
(* configuration.c that the code takes for granted and never tests.        *)

Begins(p, i) == Window[p][i].start
Ends(p, i) == Window[p][i].start + Window[p][i].duration

\* The SCHEDULE_WINDOW array of a partition lists its windows in their order in time.
WindowsInOrder ==
  \A p \in Part : \A i, j \in DOMAIN Window[p] : i < j => Ends(p, i) <= Begins(p, j)

\* The windows of two partitions do not overlap.
WindowsDisjoint ==
  \A p, q \in Part : \A i \in DOMAIN Window[p] : \A j \in DOMAIN Window[q] :
    p # q => Ends(p, i) <= Begins(q, j) \/ Ends(q, j) <= Begins(p, i)

LEMMA WindowFacts ==
  ASSUME NEW p \in Part
  PROVE  \A i \in DOMAIN Window[p] :
           /\ i \in Nat \ {0} /\ Begins(p, i) \in Nat /\ Ends(p, i) \in Nat
           /\ Begins(p, i) < Ends(p, i)
<1>1. /\ Len(Window[p]) \in Nat /\ DOMAIN Window[p] = 1..Len(Window[p])
      /\ \A i \in DOMAIN Window[p] :
           /\ Window[p][i].start \in Nat /\ Window[p][i].duration \in Nat \ {0}
  BY AssumptionFacts
<1> SUFFICES ASSUME NEW i \in DOMAIN Window[p]
             PROVE  /\ i \in Nat \ {0} /\ Begins(p, i) \in Nat /\ Ends(p, i) \in Nat
                    /\ Begins(p, i) < Ends(p, i)
  OBVIOUS
<1> DEFINE s == Window[p][i].start
           d == Window[p][i].duration
<1>2. s \in Nat /\ d \in Nat \ {0}
  BY <1>1
<1>3. i \in Nat \ {0}
  BY <1>1
<1>4. Begins(p, i) = s /\ Ends(p, i) = s + d
  BY DEF Begins, Ends
<1> HIDE DEF s, d
<1> QED BY <1>2, <1>3, <1>4

LEMMA InWindowMeans ==
  ASSUME NEW p \in Part
  PROVE  InWindow(p) <=> \E i \in DOMAIN Window[p] : Begins(p, i) <= time /\ time < Ends(p, i)
BY DEF InWindow, Begins, Ends

\* Who is queued is so for a window of its own, and the head for the earliest one.
LEMMA QueuedOne ==
  ASSUME NEW r, NEW idle, NEW ix, NEW q, QueueOK(r, idle, ix), Enqueued(r, q)
  PROVE  /\ q \in Part \ idle /\ ix[q] \in DOMAIN Window[q]
         /\ r # <<>> /\ Head(r).id \in Part \ idle /\ Enqueued(r, Head(r).id)
         /\ ix[Head(r).id] \in DOMAIN Window[Head(r).id]
         /\ Begins(Head(r).id, ix[Head(r).id]) <= Begins(q, ix[q])
<1>1. PICK k \in DOMAIN r : r[k].id = q
  BY DEF Enqueued
<1>2. r \in Seq(Entry(Part)) /\ Sorted(r, TRUE)
  BY DEF QueueOK
<1>3. r # <<>> /\ Head(r) = r[1] /\ 1 \in DOMAIN r /\ DOMAIN r = 1..Len(r) /\ Len(r) \in Nat
  BY <1>1, <1>2
<1>4. Fits(r[1], idle, ix) /\ Fits(r[k], idle, ix)
  BY <1>1, <1>3 DEF QueueOK, Entries
<1>5. /\ q \in Part \ idle /\ ix[q] \in DOMAIN Window[q] /\ r[k].pri = Begins(q, ix[q])
      /\ r[1].id \in Part \ idle /\ ix[r[1].id] \in DOMAIN Window[r[1].id]
      /\ r[1].pri = Begins(r[1].id, ix[r[1].id])
  BY <1>1, <1>4 DEF Fits, Begins
<1>6. r[1].pri <= r[k].pri
  <2>1. r[1].pri \in Nat /\ r[k].pri \in Nat
    BY <1>5, WindowFacts
  <2>2. 1 < k => ~ Before(TRUE, r[k].pri, r[1].pri)
    BY <1>1, <1>2, <1>3 DEF Sorted
  <2>3. 1 < k => ~ (r[k].pri < r[1].pri)
    BY <2>2 DEF Before
  <2>4. k = 1 \/ 1 < k
    BY <1>3
  <2> QED BY <2>1, <2>3, <2>4
<1>7. Enqueued(r, r[1].id)
  BY <1>3 DEF Enqueued
<1> QED
  BY <1>3, <1>5, <1>6, <1>7

-----------------------------------------------------------------------------
(* A queued partition holds the processor in its windows. The invariant    *)
(* says that its earlier windows are over and that nobody holds it only as *)
(* long as the window of the head is still to come.                        *)

Past ==
  \A q \in Part : Enqueued(ready, q) =>
    \A i \in DOMAIN Window[q] : i < index[q] => Ends(q, i) <= time

NotYet == \A q \in Part : Enqueued(ready, q) => time < Begins(q, index[q])

Turn ==
  /\ pc = "entered" => owner # NoPart
  /\ pc = "rest" /\ owner = NoPart /\ ~ moduleIdle /\ ~ hm.running => NotYet

WindowInv == Inv /\ Past /\ Turn

LEMMA InitWindow == Init => WindowInv
<1> SUFFICES ASSUME Init PROVE WindowInv
  OBVIOUS
<1>1. Inv
  BY InitInv
<1>2. Turn
  BY DEF Init, Turn
<1>3. Past
  <2>1. \A q \in Part : index[q] = 1
    BY DEF Init
  <2>2. \A q \in Part : \A i \in DOMAIN Window[q] : ~ (i < 1)
    BY WindowFacts
  <2> QED BY <2>1, <2>2 DEF Past
<1> QED
  BY <1>1, <1>2, <1>3 DEF WindowInv

\* What a step has to leave alone for Past: time grows, whoever stays queued keeps
\* its index, or has left a window that is over.
LEMMA PastKept ==
  ASSUME Inv, Past, Inv', time <= time',
         \A q \in Part : Enqueued(ready', q) =>
           \/ Enqueued(ready, q) /\ index'[q] = index[q]
           \/ /\ Enqueued(ready, q) /\ index[q] \in DOMAIN Window[q]
              /\ index'[q] = index[q] + 1 /\ Ends(q, index[q]) <= time
  PROVE  Past'
<1> SUFFICES ASSUME NEW q \in Part, Enqueued(ready', q), NEW i \in DOMAIN Window[q], i < index'[q]
             PROVE  Ends(q, i) <= time'
  BY DEF Past
<1>1. i \in Nat /\ Ends(q, i) \in Nat /\ index[q] \in Nat /\ time \in Nat /\ time' \in Nat
  <2>1. time \in 0..(Frame - 1) /\ time' \in 0..(Frame - 1) /\ index[q] \in Nat
    BY DEF Inv, TypeOK
  <2> QED BY <2>1, WindowFacts
<1>2. CASE Enqueued(ready, q) /\ i < index[q]
  BY <1>1, <1>2 DEF Past
<1>3. CASE i = index[q] /\ Ends(q, index[q]) <= time
  BY <1>1, <1>3
<1> QED
  BY <1>1, <1>2, <1>3

LEMMA EnqueuedAfter ==
  ASSUME NEW r, NEW idle, NEW ix, QueueOK(r, idle, ix), NEW p \in Part
  PROVE  /\ \A q : Enqueued(Dequeue(r, p), q) <=> Enqueued(r, q) /\ q # p
         /\ \A n \in Int : \A q :
              Enqueued(Enqueue(Dequeue(r, p), TRUE, p, n), q) <=> Enqueued(r, q) \/ q = p
<1>1. r \in Seq(Entry(Part)) /\ DistinctIds(r)
  BY DEF QueueOK
<1>2. Dequeue(r, p) \in Seq(Entry(Part)) /\ Ids(Dequeue(r, p)) = Ids(r) \ {p}
  BY <1>1, DequeueType, DequeueEntries
<1>3. ASSUME NEW n \in Int
      PROVE  Ids(Enqueue(Dequeue(r, p), TRUE, p, n)) = Ids(Dequeue(r, p)) \cup {p}
  <2>1. \A ascending : Ids(Enqueue(Dequeue(r, p), ascending, p, n)) = Ids(Dequeue(r, p)) \cup {p}
    BY <1>2, EnqueueIds
  <2> QED BY <2>1
<1> QED
  BY <1>2, <1>3, EnqueuedIsInIds

LEMMA LeaveQueues ==
  ASSUME Inv, LeaveWindow
  PROVE  /\ owner \in Part /\ Enqueued(ready, owner) /\ index[owner] \in DOMAIN Window[owner]
         /\ Ends(owner, index[owner]) <= time
         /\ index'[owner] = index[owner] + 1
         /\ \A q \in Part \ {owner} :
              index'[q] = index[q] /\ (Enqueued(ready', q) <=> Enqueued(ready, q))
<1>1. /\ owner \in Part /\ index[owner] \in DOMAIN Window[owner] /\ Head(ready) \in Entries(ready)
      /\ Head(ready).id = owner
  BY HeadFacts DEF LeaveWindow
<1>2. Enqueued(ready, owner)
  BY <1>1 DEF Entries, Enqueued
<1>3. Ends(owner, index[owner]) <= time
  <2>1. End(owner) = Ends(owner, index[owner])
    BY DEF End, Ends
  <2>2. time \in Int /\ Ends(owner, index[owner]) \in Int
    <3>1. time \in 0..(Frame - 1)
      BY DEF Inv, TypeOK
    <3> QED BY <1>1, <3>1, WindowFacts
  <2>3. time >= End(owner)
    BY DEF LeaveWindow
  <2> QED BY <2>1, <2>2, <2>3
<1>4. index'[owner] = index[owner] + 1 /\ \A q \in Part \ {owner} : index'[q] = index[q]
  BY <1>1 DEF LeaveWindow, Inv, TypeOK
<1>5. ASSUME NEW q \in Part \ {owner} PROVE Enqueued(ready', q) <=> Enqueued(ready, q)
  <2>1. QueueOK(ready, Idle, index)
    BY DEF Inv
  <2>2. CASE index[owner] < Len(Window[owner])
    <3>1. index[owner] + 1 \in DOMAIN Window[owner]
      <4>1. index[owner] \in Nat /\ index[owner] \in 1..Len(Window[owner]) /\ Len(Window[owner]) \in Nat
        BY <1>1, AssumptionFacts
      <4>2. index[owner] + 1 \in 1..Len(Window[owner])
        BY <2>2, <4>1
      <4> QED BY <1>1, <4>2, AssumptionFacts
    <3> DEFINE n == Window[owner][index[owner] + 1].start
    <3>2. n \in Int
      BY <1>1, <3>1, AssumptionFacts
    <3>3. ready' = Enqueue(Dequeue(ready, owner), TRUE, owner, n)
      BY <2>2 DEF LeaveWindow
    <3> HIDE DEF n
    <3> QED BY <1>1, <2>1, <3>2, <3>3, EnqueuedAfter
  <2>3. CASE ~ (index[owner] < Len(Window[owner]))
    <3>1. ready' = Dequeue(ready, owner)
      BY <2>3 DEF LeaveWindow
    <3> QED BY <1>1, <2>1, <3>1, EnqueuedAfter
  <2> QED BY <2>2, <2>3
<1> QED
  BY <1>1, <1>2, <1>3, <1>4, <1>5

LEMMA NextPast == Inv /\ Past /\ [Next]_vars => Past'
<1> SUFFICES ASSUME Inv, Past, [Next]_vars PROVE Past'
  OBVIOUS
<1>1. Inv'
  BY NextInv
<1>2. time \in Nat
  BY DEF Inv, TypeOK
<1>3. CASE TICK /\ ~ FrameEnds
  BY <1>1, <1>2, <1>3, PastKept DEF TICK
<1>4. CASE TICK /\ FrameEnds
  <2>1. \A q \in Part : index'[q] = 1
    BY <1>4 DEF TICK
  <2>2. \A q \in Part : \A i \in DOMAIN Window[q] : ~ (i < 1)
    BY WindowFacts
  <2> QED BY <2>1, <2>2 DEF Past
<1>5. CASE Restart \/ GoIdle
  <2>1. /\ ready' = Dequeue(ready, owner) /\ index' = [index EXCEPT ![owner] = 1]
        /\ owner # NoPart /\ UNCHANGED time
    BY <1>5 DEF Restart, GoIdle, Reinitialize, Running, HandlesEvents
  <2>2. owner \in Part /\ QueueOK(ready, Idle, index) /\ index \in [Part -> Nat \ {0}]
    BY <2>1 DEF Inv, TypeOK
  <2>3. \A q \in Part : Enqueued(ready', q) => Enqueued(ready, q) /\ index'[q] = index[q]
    BY <2>1, <2>2, EnqueuedAfter
  <2> QED BY <1>1, <1>2, <2>1, <2>3, PastKept
<1>6. CASE LeaveWindow /\ UNCHANGED time
  <2>1. \A q \in Part : Enqueued(ready', q) =>
           \/ Enqueued(ready, q) /\ index'[q] = index[q]
           \/ /\ Enqueued(ready, q) /\ index[q] \in DOMAIN Window[q]
              /\ index'[q] = index[q] + 1 /\ Ends(q, index[q]) <= time
    BY <1>6, LeaveQueues
  <2> QED BY <1>1, <1>2, <1>6, <2>1, PastKept
<1>7. CASE UNCHANGED <<ready, index, time>>
  BY <1>1, <1>2, <1>7, PastKept
<1> QED
  BY <1>3, <1>4, <1>5, <1>6, <1>7
  DEF Next, Scheduler, SCHEDULEPARTITIONOUT, SCHEDULEPARTITIONIN, StopCallback, GiveWay, Stay,
      Yield, SetNormalMode, RaiseModuleError, CallbackReturns, Entered, vars

LEMMA NextTurn == Inv /\ Turn /\ [Next]_vars => Turn'
<1> SUFFICES ASSUME Inv, Turn, [Next]_vars PROVE Turn'
  OBVIOUS
<1>1. CASE pc' = "rest" /\ NobodyEnters /\ SCHEDULEPARTITIONIN
  <2> SUFFICES ASSUME owner = NoPart, ~ moduleIdle, ~ hm.running PROVE NotYet'
    BY <1>1 DEF Turn, NobodyEnters, SCHEDULEPARTITIONIN
  <2>1. ready # <<>> => ~ (time >= Start(Head(ready).id))
    BY <1>1 DEF NobodyEnters, MayEnter
  <2>2. UNCHANGED <<ready, index, time>>
    BY <1>1 DEF SCHEDULEPARTITIONIN
  <2>3. ASSUME NEW q \in Part, Enqueued(ready, q) PROVE time < Begins(q, index[q])
    <3> DEFINE h == Head(ready).id
    <3>1. /\ ready # <<>> /\ h \in Part /\ index[h] \in DOMAIN Window[h]
          /\ index[q] \in DOMAIN Window[q] /\ Begins(h, index[h]) <= Begins(q, index[q])
      BY <2>3, QueuedOne DEF Inv
    <3>2. Start(h) = Begins(h, index[h]) /\ ~ (time >= Start(h))
      BY <2>1, <3>1 DEF Start, Begins
    <3> HIDE DEF h
    <3>3. time \in Nat /\ Begins(h, index[h]) \in Nat /\ Begins(q, index[q]) \in Nat
      BY <3>1, WindowFacts DEF Inv, TypeOK
    <3> QED BY <3>1, <3>2, <3>3
  <2> QED BY <2>2, <2>3 DEF NotYet
<1>2. CASE Enter /\ SCHEDULEPARTITIONIN
  <2>1. Head(ready).id \in Part
    BY <1>2, HeadFacts DEF Enter, MayEnter
  <2>2. owner' # NoPart /\ pc' = "entered"
    BY <1>2, <2>1, PartitionSchedulerAssumption DEF Enter
  <2> QED BY <2>2 DEF Turn
<1>3. CASE SCHEDULEPARTITIONIN /\ StartCallback
  <2>1. pc' = "rest" /\ hm'.running
    BY <1>3 DEF StartCallback, Inv, TypeOK
  <2> QED BY <2>1 DEF Turn
<1>4. CASE Entered \/ Restart
  <2>1. pc' = "rest" /\ owner' # NoPart
    BY <1>4 DEF Entered, Restart, Reinitialize, Running, HandlesEvents, Turn
  <2> QED BY <2>1 DEF Turn
<1>5. CASE RaiseModuleError
  <2>1. owner' # NoPart /\ pc' # "rest"
    BY <1>5 DEF RaiseModuleError, Running, HandlesEvents
  <2> QED BY <2>1 DEF Turn
<1>6. CASE pc' \in {"out", "in"}
  BY <1>6 DEF Turn
<1>7. CASE UNCHANGED vars
  BY <1>7 DEF Turn, NotYet, vars
<1> QED
  BY <1>1, <1>2, <1>3, <1>4, <1>5, <1>6, <1>7
  DEF Next, Scheduler, SCHEDULEPARTITIONOUT, SCHEDULEPARTITIONIN, NobodyEnters,
      TICK, Yield, SetNormalMode, GoIdle, CallbackReturns

LEMMA NextWindow == WindowInv /\ [Next]_vars => WindowInv'
BY NextInv, NextPast, NextTurn DEF WindowInv

\* A queued partition is in one of its windows only when it is in the one it is
\* queued for, since the others are over or still to come.
LEMMA WindowIsTheNext ==
  ASSUME WindowsInOrder, Inv, Past, NEW q \in Part, Enqueued(ready, q), InWindow(q)
  PROVE  /\ index[q] \in DOMAIN Window[q]
         /\ Begins(q, index[q]) <= time
<1>1. PICK i \in DOMAIN Window[q] : Begins(q, i) <= time /\ time < Ends(q, i)
  BY InWindowMeans
<1> DEFINE n == index[q]
<1>2. n \in DOMAIN Window[q]
  BY QueuedOne DEF Inv
<1>3. i < n => Ends(q, i) <= time
  BY DEF Past
<1> HIDE DEF n
<1>4. n < i => Ends(q, n) <= Begins(q, i)
  BY <1>1, <1>2 DEF WindowsInOrder
<1>5. /\ time \in Nat /\ i \in Nat /\ n \in Nat /\ Begins(q, i) \in Nat /\ Ends(q, i) \in Nat
      /\ Begins(q, n) \in Nat /\ Ends(q, n) \in Nat /\ Begins(q, n) < Ends(q, n)
  BY <1>2, WindowFacts DEF Inv, TypeOK
<1>6. Begins(q, n) <= time
  <2>1. CASE i < n
    BY <1>1, <1>3, <1>5, <2>1
  <2>2. CASE i = n
    BY <1>1, <2>2
  <2>3. CASE n < i
    BY <1>1, <1>4, <1>5, <2>3
  <2> QED BY <1>5, <2>1, <2>2, <2>3
<1> QED
  BY <1>2, <1>6 DEF n

LEMMA WindowInvImplies ==
  ASSUME WindowsInOrder, WindowInv
  PROVE  WindowUsed
<1> SUFFICES ASSUME pc = "rest", owner = NoPart, ~ moduleIdle, ~ hm.running,
                    NEW q \in Part, Enqueued(ready, q), InWindow(q)
             PROVE  FALSE
  BY DEF WindowUsed
<1>1. Begins(q, index[q]) <= time /\ index[q] \in DOMAIN Window[q]
  BY WindowIsTheNext DEF WindowInv
<1>2. time < Begins(q, index[q])
  BY DEF WindowInv, Turn, NotYet
<1>3. time \in Nat /\ Begins(q, index[q]) \in Nat
  BY <1>1, WindowFacts DEF WindowInv, Inv, TypeOK
<1> QED BY <1>1, <1>2, <1>3

\* Also where windows overlap, and in frames that a restart or a callback disturbs: when
\* SCHEDULER has run and nobody owns the processor, no queued partition is in a window
\* of its own.
THEOREM WindowsAreUsed ==
  ASSUME WindowsInOrder
  PROVE  Spec => []WindowUsed
<1>1. WindowInv => WindowUsed
  BY WindowInvImplies
<1> QED
  BY <1>1, InitWindow, NextWindow, PTL DEF Spec

-----------------------------------------------------------------------------
(* How isolation recovers. While nothing has disturbed it, every queued    *)
(* partition's window is still to end (Due), except that the one which     *)
(* owns the processor has to leave when its window has just ended; and the *)
(* owner is in a window of its own, or nobody's window has begun yet.      *)

HoldsOn(q) == q = owner /\ Head(ready).id = q /\ time = Ends(q, index[q])

Due ==
  \A q \in Part : Enqueued(ready, q) =>
    time < Ends(q, index[q]) \/ (pc = "out" /\ HoldsOn(q))

\* Nobody but p has been in a window yet in this frame.
Untouched(p) ==
  \A q \in Part \ (Idle \cup {p}) : Enqueued(ready, q) /\ index[q] = 1 /\ time < Begins(q, 1)

OwnerInPlace ==
  owner # NoPart =>
    /\ pc # "out" => InWindow(owner) \/ Untouched(owner)
    /\ pc = "out" /\ ready # <<>> /\ Head(ready).id = owner /\ time < Begins(owner, index[owner])
         => Untouched(owner)

Quiet == ~ disturbed => ~ hm.start /\ ~ hm.running

RecoveryInv ==
  /\ WindowInv /\ Quiet
  /\ ~ disturbed /\ ~ moduleIdle => Due /\ OwnerInPlace

\* The queue of a new frame: nobody's first window is over.
LEMMA FrameRecovers ==
  ASSUME time' = 0, index' = [p \in Part |-> 1], ready' = Queued(Part \ Idle'),
         Idle' \in SUBSET Part, pc' = "out", owner' \in Part \cup {NoPart}
  PROVE  Due' /\ OwnerInPlace'
<1>1. QueueOK(ready', Idle', index')
  BY FrameQueue
<1>2. \A q \in Part : index'[q] = 1
  OBVIOUS
<1>3. \A q \in Part : 1 \in DOMAIN Window[q] /\ 0 < Ends(q, 1)
  <2> TAKE q \in Part
  <2>1. 1 \in DOMAIN Window[q]
    BY AssumptionFacts
  <2>2. Begins(q, 1) \in Nat /\ Ends(q, 1) \in Nat /\ Begins(q, 1) < Ends(q, 1)
    BY <2>1, WindowFacts
  <2> QED BY <2>1, <2>2
<1>4. Due'
  BY <1>2, <1>3 DEF Due
<1>5. ASSUME owner' # NoPart, ready' # <<>>, Head(ready').id = owner', 0 < Begins(owner', 1)
      PROVE  Untouched(owner)'
  <2> SUFFICES ASSUME NEW q \in Part \ Idle' PROVE Enqueued(ready', q) /\ 0 < Begins(q, 1)
    BY <1>2 DEF Untouched
  <2>1. Enqueued(ready', q)
    <3>1. Ids(ready') = Part \ Idle'
      BY QueuedFacts
    <3> QED BY <3>1, EnqueuedIsInIds
  <2>2. Begins(owner', 1) <= Begins(q, 1)
    <3>1. Begins(Head(ready').id, index'[Head(ready').id]) <= Begins(q, index'[q])
      BY <1>1, <2>1, QueuedOne
    <3> QED BY <1>2, <1>5, <3>1
  <2>3. Begins(owner', 1) \in Nat /\ Begins(q, 1) \in Nat
    BY <1>3, <1>5, WindowFacts
  <2> QED BY <1>5, <2>1, <2>2, <2>3
<1> QED
  BY <1>2, <1>4, <1>5 DEF OwnerInPlace

LEMMA InitRecovery == IsolationInit => RecoveryInv
<1> SUFFICES ASSUME IsolationInit PROVE RecoveryInv
  OBVIOUS
<1>1. WindowInv /\ Quiet
  BY InitWindow DEF IsolationInit, Init, Quiet
<1>2. OwnerInPlace
  BY DEF IsolationInit, Init, OwnerInPlace
<1>3. Due
  <2> SUFFICES ASSUME NEW q \in Part PROVE 0 < Ends(q, 1)
    BY DEF Due, IsolationInit, Init
  <2>1. 1 \in DOMAIN Window[q]
    BY AssumptionFacts
  <2>2. Begins(q, 1) \in Nat /\ Ends(q, 1) \in Nat /\ Begins(q, 1) < Ends(q, 1)
    BY <2>1, WindowFacts
  <2> QED BY <2>2
<1> QED
  BY <1>1, <1>2, <1>3 DEF RecoveryInv

\* Before an interrupt or a service enters SCHEDULER the partition that owns the
\* processor is in place; then it also is when SCHEDULER looks at the queue, now
\* or, if nothing but the time has changed, a tick later.
LEMMA OwnerEnters ==
  ASSUME WindowsInOrder, WindowInv, OwnerInPlace, pc = "rest", pc' = "out",
         UNCHANGED <<owner, ready, index>>, Idle' = Idle,
         time' \in Nat, time <= time'
  PROVE  OwnerInPlace'
<1> SUFFICES ASSUME owner # NoPart, ready # <<>>, Head(ready).id = owner,
                    time' < Begins(owner, index[owner])
             PROVE  Untouched(owner)'
  BY DEF OwnerInPlace
<1>1. owner \in Part /\ Enqueued(ready, owner) /\ index[owner] \in DOMAIN Window[owner]
  <2>1. Head(ready) \in Entries(ready) /\ owner \in Part /\ index[owner] \in DOMAIN Window[owner]
    BY HeadFacts DEF WindowInv
  <2> QED BY <2>1 DEF Entries, Enqueued
<1>2. time \in Nat /\ Begins(owner, index[owner]) \in Nat
  BY <1>1, WindowFacts DEF WindowInv, Inv, TypeOK
<1>3. ~ InWindow(owner)
  <2>1. ~ (Begins(owner, index[owner]) <= time)
    BY <1>2
  <2> QED BY <1>1, <2>1, WindowIsTheNext DEF WindowInv
<1>4. Untouched(owner)
  BY <1>3 DEF OwnerInPlace
<1> SUFFICES ASSUME NEW q \in Part \ (Idle \cup {owner}) PROVE time' < Begins(q, 1)
  BY <1>4 DEF Untouched
<1>5. Enqueued(ready, q) /\ index[q] = 1
  BY <1>4 DEF Untouched
<1>6. Begins(owner, index[owner]) <= Begins(q, 1)
  <2>1. Begins(Head(ready).id, index[Head(ready).id]) <= Begins(q, index[q])
    BY <1>5, QueuedOne DEF WindowInv, Inv
  <2> QED BY <1>5, <2>1
<1>7. Begins(q, 1) \in Nat
  <2>1. 1 \in DOMAIN Window[q]
    BY AssumptionFacts
  <2> QED BY <2>1, WindowFacts
<1> QED
  BY <1>2, <1>6, <1>7

\* Who is in the window it is queued for owns the processor and heads the queue.
LEMMA OnlyTheOwner ==
  ASSUME WindowsInOrder, WindowsDisjoint, WindowInv, Due, OwnerInPlace,
         pc = "rest", ~ moduleIdle, ~ hm.running,
         NEW q \in Part, Enqueued(ready, q), Begins(q, index[q]) <= time
  PROVE  owner = q /\ Head(ready).id = q
<1> DEFINE n == index[q]
           h == Head(ready).id
<1>1. /\ n \in DOMAIN Window[q] /\ q \in Part \ Idle /\ h \in Part \ Idle /\ Enqueued(ready, h)
      /\ index[h] \in DOMAIN Window[h] /\ Begins(h, index[h]) <= Begins(q, n)
  BY QueuedOne DEF WindowInv, Inv
<1>2. time \in Nat /\ Begins(q, n) \in Nat /\ Begins(h, index[h]) \in Nat
  BY <1>1, WindowFacts DEF WindowInv, Inv, TypeOK
<1>3. InWindow(q) /\ InWindow(h)
  <2>1. time < Ends(q, n) /\ time < Ends(h, index[h])
    BY <1>1 DEF Due
  <2>2. Begins(h, index[h]) <= time
    <3> HIDE DEF n, h
    <3> QED BY <1>1, <1>2 DEF n
  <2> QED BY <1>1, <2>1, <2>2, InWindowMeans
<1> HIDE DEF h
<1>4. ASSUME NEW x \in Part, InWindow(x) PROVE x = q
  <2> SUFFICES ASSUME x # q PROVE FALSE
    OBVIOUS
  <2>1. PICK i \in DOMAIN Window[x] : Begins(x, i) <= time /\ time < Ends(x, i)
    BY <1>4, InWindowMeans
  <2>2. PICK j \in DOMAIN Window[q] : Begins(q, j) <= time /\ time < Ends(q, j)
    BY <1>3, InWindowMeans
  <2>3. Ends(x, i) <= Begins(q, j) \/ Ends(q, j) <= Begins(x, i)
    BY DEF WindowsDisjoint
  <2>4. Begins(x, i) \in Nat /\ Ends(x, i) \in Nat /\ Begins(q, j) \in Nat /\ Ends(q, j) \in Nat
    BY WindowFacts
  <2> QED BY <1>2, <2>1, <2>2, <2>3, <2>4
<1>5. h = q
  BY <1>1, <1>3, <1>4
<1>6. owner # NoPart
  <2>1. ~ (time < Begins(q, n))
    BY <1>2
  <2> QED BY <2>1 DEF WindowInv, Turn, NotYet
<1>7. ~ Untouched(owner) \/ owner = q
  <2> SUFFICES ASSUME Untouched(owner), owner # q PROVE FALSE
    OBVIOUS
  <2>1. n = 1 /\ time < Begins(q, 1)
    BY <1>1 DEF Untouched
  <2> QED BY <1>2, <2>1
<1>8. owner = q
  <2>1. owner \in Part
    BY <1>6 DEF WindowInv, Inv, TypeOK
  <2> QED BY <1>4, <1>6, <1>7, <2>1 DEF OwnerInPlace
<1> QED
  BY <1>5, <1>8 DEF h

\* A step of a frame that nothing disturbs. A tick may end the window of the
\* partition that owns the processor, never that of another one.
LEMMA TickRecovery ==
  ASSUME WindowsInOrder, WindowsDisjoint, RecoveryInv, ~ disturbed, ~ moduleIdle, TICK
  PROVE  Due' /\ OwnerInPlace'
<1>1. Idle' = Idle /\ Idle \in SUBSET Part
  BY DEF TICK, Idle
<1>2. pc = "rest" /\ pc' = "out" /\ UNCHANGED owner /\ owner \in Part \cup {NoPart}
  BY DEF TICK, RecoveryInv, WindowInv, Inv, TypeOK
<1>3. CASE FrameEnds
  <2>1. time' = 0 /\ index' = [p \in Part |-> 1] /\ ready' = Queued(Part \ Idle')
    BY <1>1, <1>3 DEF TICK
  <2> QED BY <1>1, <1>2, <2>1, FrameRecovers
<1>4. CASE ~ FrameEnds
  <2>1. time' = time + 1 /\ UNCHANGED <<ready, index>>
    BY <1>4 DEF TICK
  <2>2. time \in Nat
    BY DEF RecoveryInv, WindowInv, Inv, TypeOK
  <2>3. WindowInv /\ Due /\ OwnerInPlace /\ ~ hm.running
    BY DEF RecoveryInv, Quiet
  <2>4. OwnerInPlace'
    <3>1. time' \in Nat /\ time <= time'
      BY <2>1, <2>2
    <3> QED BY <1>1, <1>2, <2>1, <2>3, <3>1, OwnerEnters
  <2>5. Due'
    <3> SUFFICES ASSUME NEW q \in Part, Enqueued(ready, q), ~ (time + 1 < Ends(q, index[q]))
                 PROVE  q = owner /\ Head(ready).id = q /\ time + 1 = Ends(q, index[q])
      BY <1>2, <2>1 DEF Due, HoldsOn
    <3>1. index[q] \in DOMAIN Window[q]
      BY <2>3, QueuedOne DEF WindowInv, Inv
    <3> DEFINE n == index[q]
    <3>2. /\ Begins(q, n) \in Nat /\ Ends(q, n) \in Nat /\ Begins(q, n) < Ends(q, n)
          /\ time < Ends(q, n) /\ ~ (time + 1 < Ends(q, n))
      BY <1>2, <2>3, <3>1, WindowFacts DEF Due
    <3> HIDE DEF n
    <3>3. time + 1 = Ends(q, n) /\ Begins(q, n) <= time
      BY <2>2, <3>2
    <3> QED BY <1>2, <2>3, <3>3, OnlyTheOwner DEF n
  <2> QED BY <2>4, <2>5
<1> QED
  BY <1>3, <1>4

\* The partition that owns the processor reinitializes itself.
LEMMA ReinitializeRecovery ==
  ASSUME RecoveryInv, ~ disturbed, ~ moduleIdle, pc = "rest", NEW m \in {"START", "IDLE"},
         Reinitialize(m), UNCHANGED <<time, owner>>, m = "START" => pc' = "rest"
  PROVE  Due' /\ OwnerInPlace'
<1>1. Inv /\ Due /\ OwnerInPlace /\ owner \in Part /\ QueueOK(ready, Idle, index)
  BY DEF RecoveryInv, WindowInv, Reinitialize, Running, HandlesEvents, Inv, TypeOK
<1>2. \A q : Enqueued(ready', q) <=> Enqueued(ready, q) /\ q # owner
  BY <1>1, EnqueuedAfter DEF Reinitialize
<1>3. \A q \in Part \ {owner} : index'[q] = index[q]
  BY <1>1 DEF Reinitialize, Inv, TypeOK
<1>4. Due'
  BY <1>1, <1>2, <1>3 DEF Due
<1>5. CASE m = "START"
  <2>1. Idle' = Idle
    BY <1>1, <1>5 DEF Reinitialize, Idle, Inv, TypeOK
  <2>2. InWindow(owner)' <=> InWindow(owner)
    BY DEF InWindow
  <2>3. Untouched(owner) => Untouched(owner)'
    BY <1>2, <1>3, <2>1 DEF Untouched
  <2> QED BY <1>1, <1>4, <1>5, <2>2, <2>3 DEF OwnerInPlace
<1>6. CASE m = "IDLE"
  <2>1. Idle' = Idle \cup {owner}
    BY <1>1, <1>6 DEF Reinitialize, Idle, Inv, TypeOK
  <2>2. InWindow(owner)' <=> InWindow(owner)
    BY DEF InWindow
  <2>3. Untouched(owner) => Untouched(owner)'
    BY <1>2, <1>3, <2>1 DEF Untouched
  <2>4. ready' # <<>> => Head(ready').id # owner
    <3> SUFFICES ASSUME ready' # <<>>, Head(ready').id = owner PROVE FALSE
      OBVIOUS
    <3>1. ready' \in Seq(Entry(Part))
      BY <1>1, DequeueType DEF Reinitialize, QueueOK
    <3>2. Enqueued(ready', Head(ready').id)
      BY <3>1 DEF Enqueued
    <3> QED BY <1>2, <3>2
  <2> QED BY <1>1, <1>4, <2>2, <2>3, <2>4 DEF OwnerInPlace
<1> QED
  BY <1>5, <1>6

\* The partition in charge leaves when its window is over, and its next window
\* begins no earlier.
LEMMA LeaveRecovery ==
  ASSUME WindowsInOrder, RecoveryInv, ~ disturbed, ~ moduleIdle, LeaveWindow,
         UNCHANGED <<time, mode, hm, moduleIdle>>, pc' = "in"
  PROVE  Due' /\ OwnerInPlace'
<1>1. OwnerInPlace'
  BY DEF LeaveWindow, OwnerInPlace
<1>2. Inv' /\ Inv /\ Due
  BY LeaveInv DEF RecoveryInv, WindowInv
<1> SUFFICES ASSUME NEW q \in Part, Enqueued(ready', q) PROVE time < Ends(q, index'[q])
  BY <1>1 DEF Due
<1>3. CASE q # owner
  BY <1>2, <1>3, LeaveQueues DEF Due, HoldsOn
<1>4. CASE q = owner
  <2> DEFINE n == index[owner]
  <2>1. owner \in Part /\ Enqueued(ready, owner) /\ n \in DOMAIN Window[owner]
        /\ Ends(owner, n) <= time /\ index'[owner] = n + 1
    BY <1>2, LeaveQueues
  <2>2. n + 1 \in DOMAIN Window[owner]
    <3>1. index'[q] \in DOMAIN Window[q]
      BY <1>2, QueuedOne DEF Inv
    <3> QED BY <1>4, <2>1, <3>1
  <2>3. time < Ends(owner, n) \/ time = Ends(owner, n)
    BY <1>2, <2>1 DEF Due, HoldsOn
  <2> HIDE DEF n
  <2>4. n \in Nat /\ Begins(owner, n + 1) \in Nat /\ Ends(owner, n + 1) \in Nat
        /\ Begins(owner, n + 1) < Ends(owner, n + 1) /\ Ends(owner, n) \in Nat /\ time \in Nat
    BY <1>2, <2>1, <2>2, WindowFacts DEF Inv, TypeOK
  <2>5. n < n + 1
    BY <2>4
  <2>6. Ends(owner, n) <= Begins(owner, n + 1)
    BY <2>1, <2>2, <2>5 DEF WindowsInOrder
  <2>7. time < Ends(owner, n + 1)
    BY <2>3, <2>4, <2>6
  <2> QED BY <1>4, <2>1, <2>7
<1> QED
  BY <1>3, <1>4

LEMMA OutRecovery ==
  ASSUME WindowsInOrder, RecoveryInv, ~ disturbed, ~ moduleIdle, SCHEDULEPARTITIONOUT
  PROVE  Due' /\ OwnerInPlace'
<1>1. /\ Inv /\ Due /\ OwnerInPlace /\ ~ hm.running /\ ~ hm.start
      /\ pc = "out" /\ pc' = "in" /\ UNCHANGED <<time, mode, moduleIdle>>
  BY DEF RecoveryInv, WindowInv, Quiet, SCHEDULEPARTITIONOUT
<1>2. CASE LeaveWindow /\ UNCHANGED hm
  BY <1>1, <1>2, LeaveRecovery
<1>3. CASE owner # NoPart /\ GiveWay
  <2>1. owner' = NoPart /\ UNCHANGED <<ready, index>> /\ (ready # <<>> => Head(ready).id # owner)
    BY <1>1, <1>3 DEF GiveWay
  <2>2. Due'
    <3> SUFFICES ASSUME NEW q \in Part, Enqueued(ready, q) PROVE time < Ends(q, index[q])
      BY <1>1, <2>1 DEF Due
    <3>1. ready # <<>>
      BY <1>1, QueuedOne DEF Inv
    <3> QED BY <1>1, <2>1, <3>1 DEF Due, HoldsOn
  <2> QED BY <2>1, <2>2 DEF OwnerInPlace
<1>4. CASE Stay
  <2>1. UNCHANGED <<owner, ready, index>>
    BY <1>4 DEF Stay
  <2>2. CASE owner = NoPart
    <3>1. NoPart \notin Part
      BY PartitionSchedulerAssumption
    <3> QED BY <1>1, <2>1, <2>2, <3>1 DEF Due, OwnerInPlace, HoldsOn
  <2>3. CASE ready # <<>> /\ Head(ready).id = owner /\ time < End(owner) /\ owner # NoPart
    <3> DEFINE n == index[owner]
    <3>1. owner \in Part /\ n \in DOMAIN Window[owner] /\ time \in Nat
      BY <1>1, <2>3, HeadFacts DEF Inv, TypeOK
    <3>2. time < Ends(owner, n) /\ Begins(owner, n) \in Nat /\ Ends(owner, n) \in Nat
      BY <2>3, <3>1, WindowFacts DEF End, Ends
    <3>3. Due'
      <4> SUFFICES ASSUME NEW q \in Part, Enqueued(ready, q) PROVE time < Ends(q, index[q])
        BY <1>1, <2>1 DEF Due
      <4> QED BY <1>1, <3>1, <3>2 DEF Due, HoldsOn
    <3>4. InWindow(owner) \/ Untouched(owner)
      <4>1. CASE Begins(owner, n) <= time
        BY <3>1, <3>2, <4>1, InWindowMeans
      <4>2. CASE time < Begins(owner, n)
        BY <1>1, <2>3, <4>2 DEF OwnerInPlace
      <4> HIDE DEF n
      <4> QED BY <3>1, <3>2, <4>1, <4>2
    <3>5. InWindow(owner)' \/ Untouched(owner)'
      BY <1>1, <2>1, <3>4 DEF InWindow, Untouched, Idle
    <3> QED BY <1>1, <3>3, <3>5 DEF OwnerInPlace
  <2> QED BY <1>4, <2>2, <2>3 DEF Stay
<1> QED
  BY <1>1, <1>2, <1>3, <1>4 DEF SCHEDULEPARTITIONOUT, StopCallback

LEMMA InRecovery ==
  ASSUME RecoveryInv, ~ disturbed, ~ moduleIdle, SCHEDULEPARTITIONIN, ~ StartCallback
  PROVE  Due' /\ OwnerInPlace'
<1>1. /\ Inv /\ Due /\ OwnerInPlace /\ pc = "in" /\ pc' # "out"
      /\ UNCHANGED <<time, mode, ready, index>>
  BY DEF RecoveryInv, WindowInv, SCHEDULEPARTITIONIN, Enter, NobodyEnters
<1>2. Due'
  BY <1>1 DEF Due
<1>3. CASE NobodyEnters
  BY <1>1, <1>2, <1>3 DEF NobodyEnters, OwnerInPlace, InWindow, Untouched, Idle
<1>4. CASE Enter
  <2>1. PICK p \in Part : p = Head(ready).id
    BY <1>1, <1>4, HeadFacts DEF Enter, MayEnter
  <2> DEFINE n == index[p]
  <2>2. n \in DOMAIN Window[p] /\ Enqueued(ready, p) /\ time >= Start(p)
    <3>1. Head(ready) \in Entries(ready) /\ n \in DOMAIN Window[p]
      BY <1>1, <1>4, <2>1, HeadFacts DEF Enter, MayEnter
    <3> QED BY <1>4, <2>1, <3>1 DEF Enter, MayEnter, Entries, Enqueued
  <2>3. time < Ends(p, n) /\ Begins(p, n) = Start(p)
    BY <1>1, <2>2 DEF Due, Begins, Start
  <2> HIDE DEF n
  <2>4. Begins(p, n) \in Nat /\ time \in Nat
    BY <1>1, <2>2, WindowFacts DEF Inv, TypeOK
  <2>5. Begins(p, n) <= time
    BY <2>2, <2>3, <2>4
  <2>6. InWindow(p)
    BY <2>2, <2>3, <2>5, InWindowMeans
  <2>7. owner' = p /\ UNCHANGED time
    BY <1>1, <1>4, <2>1 DEF Enter
  <2>8. InWindow(owner)'
    BY <2>6, <2>7 DEF InWindow
  <2> QED BY <1>1, <1>2, <2>8 DEF OwnerInPlace
<1> QED
  BY <1>3, <1>4 DEF SCHEDULEPARTITIONIN

LEMMA NextRecovery ==
  ASSUME WindowsInOrder, WindowsDisjoint, RecoveryInv, [IsolationNext]_isolationVars
  PROVE  RecoveryInv'
<1>1. WindowInv'
  BY NextWindow DEF RecoveryInv, IsolationNext, isolationVars
<1>2. Quiet'
  BY DEF RecoveryInv, Quiet, IsolationNext, isolationVars, vars
<1> SUFFICES ASSUME ~ disturbed', ~ moduleIdle' PROVE Due' /\ OwnerInPlace'
  BY <1>1, <1>2 DEF RecoveryInv
<1>3. CASE UNCHANGED isolationVars
  BY <1>3 DEF isolationVars, vars, RecoveryInv, Due, HoldsOn, OwnerInPlace, InWindow, Untouched, Idle
<1> SUFFICES ASSUME IsolationNext PROVE Due' /\ OwnerInPlace'
  BY <1>3
<1>4. /\ Next /\ ~ hm'.start /\ ~ hm'.running /\ (pc # "rest" => mode' = mode)
      /\ disturbed => NewFrame
  BY DEF IsolationNext
<1>5. ~ moduleIdle
  BY <1>4 DEF Next, Scheduler, TICK, Yield, SetNormalMode, Restart, GoIdle, RaiseModuleError,
              CallbackReturns, SCHEDULEPARTITIONOUT, SCHEDULEPARTITIONIN, Entered
<1>6. CASE disturbed
  <2>1. NewFrame /\ time \in Nat
    BY <1>4, <1>6 DEF RecoveryInv, WindowInv, Inv, TypeOK
  <2>2. TICK /\ FrameEnds
    <3>1. TICK
      BY <1>4, <2>1 DEF NewFrame, Next, Scheduler, TICK, Yield, SetNormalMode, Restart, GoIdle,
        RaiseModuleError, CallbackReturns, SCHEDULEPARTITIONOUT, SCHEDULEPARTITIONIN, Entered
    <3>2. FrameEnds
      BY <2>1, <3>1 DEF NewFrame, TICK
    <3> QED BY <3>1, <3>2
  <2>3. Idle' = Idle /\ Idle \in SUBSET Part
    BY <2>2 DEF TICK, Idle
  <2>4. /\ time' = 0 /\ index' = [p \in Part |-> 1] /\ ready' = Queued(Part \ Idle')
        /\ pc' = "out" /\ owner' = owner /\ owner \in Part \cup {NoPart}
    BY <2>2, <2>3 DEF TICK, RecoveryInv, WindowInv, Inv, TypeOK
  <2> QED BY <2>3, <2>4, FrameRecovers
<1> SUFFICES ASSUME ~ disturbed PROVE Due' /\ OwnerInPlace'
  BY <1>6
<1>7. ~ hm.start /\ ~ hm.running /\ WindowInv /\ Inv /\ Due /\ OwnerInPlace
  BY <1>5 DEF RecoveryInv, Quiet, WindowInv
<1>8. CASE TICK
  BY <1>5, <1>8, TickRecovery
<1>9. CASE Yield \/ SetNormalMode
  <2>1. pc = "rest" /\ pc' = "out" /\ UNCHANGED <<time, ready, index, owner>>
    BY <1>9 DEF Yield, SetNormalMode
  <2>2. Idle' = Idle
    BY <1>7, <1>9 DEF Yield, SetNormalMode, Idle, Inv, TypeOK
  <2>3. time \in Nat /\ time <= time
    BY <1>7 DEF Inv, TypeOK
  <2>4. OwnerInPlace'
    BY <1>7, <2>1, <2>2, <2>3, OwnerEnters
  <2>5. Due'
    BY <1>7, <2>1 DEF Due
  <2> QED BY <2>4, <2>5
<1>10. CASE Restart \/ GoIdle
  <2>1. PICK m \in {"START", "IDLE"} :
          Reinitialize(m) /\ UNCHANGED <<time, owner>> /\ (m = "START" => pc' = "rest")
    BY <1>10 DEF Restart, GoIdle
  <2>2. pc = "rest"
    <3> SUFFICES ASSUME pc # "rest" PROVE FALSE
      OBVIOUS
    <3>1. mode' = mode
      BY <1>4
    <3>2. owner \in Part /\ mode[owner] = "NORMAL" /\ mode' = [mode EXCEPT ![owner] = m]
      BY <1>7, <2>1 DEF Reinitialize, Running, HandlesEvents, Inv, TypeOK
    <3>3. mode'[owner] = m
      BY <1>7, <3>2 DEF Inv, TypeOK
    <3> QED BY <3>1, <3>2, <3>3
  <2> QED BY <1>5, <2>1, <2>2, ReinitializeRecovery
<1>11. CASE RaiseModuleError
  <2>1. hm'.start \/ moduleIdle'
    BY <1>7, <1>11 DEF RaiseModuleError, Inv, TypeOK
  <2> QED BY <1>4, <2>1
<1>12. CASE CallbackReturns
  BY <1>7, <1>12 DEF CallbackReturns
<1>13. CASE SCHEDULEPARTITIONOUT
  BY <1>5, <1>13, OutRecovery
<1>14. CASE SCHEDULEPARTITIONIN
  <2>1. ~ StartCallback
    BY <1>4, <1>7 DEF StartCallback
  <2> QED BY <1>5, <1>14, <2>1, InRecovery
<1>15. CASE Entered
  BY <1>7, <1>15 DEF Entered, Due, HoldsOn, OwnerInPlace, InWindow, Untouched, Idle
<1> QED
  BY <1>4, <1>8, <1>9, <1>10, <1>11, <1>12, <1>13, <1>14, <1>15 DEF Next, Scheduler

LEMMA RecoveryInvImplies ==
  ASSUME WindowsInOrder, WindowsDisjoint, RecoveryInv
  PROVE  IsolationRecovers
<1> SUFFICES ASSUME ~ disturbed, pc = "rest", owner # NoPart, ~ moduleIdle,
                    NEW q \in Part \ (Idle \cup {owner}), InWindow(q)
             PROVE  FALSE
  BY DEF IsolationRecovers, Isolation
<1>1. owner \in Part /\ time \in Nat
  BY DEF RecoveryInv, WindowInv, Inv, TypeOK
<1>2. PICK j \in DOMAIN Window[q] : Begins(q, j) <= time /\ time < Ends(q, j)
  BY InWindowMeans
<1>3. Begins(q, j) \in Nat /\ Ends(q, j) \in Nat
  BY WindowFacts
<1>4. CASE InWindow(owner)
  <2>1. PICK i \in DOMAIN Window[owner] : Begins(owner, i) <= time /\ time < Ends(owner, i)
    BY <1>1, <1>4, InWindowMeans
  <2>2. Ends(owner, i) <= Begins(q, j) \/ Ends(q, j) <= Begins(owner, i)
    BY <1>1 DEF WindowsDisjoint
  <2>3. Begins(owner, i) \in Nat /\ Ends(owner, i) \in Nat
    BY <1>1, WindowFacts
  <2> QED BY <1>1, <1>2, <1>3, <2>1, <2>2, <2>3
<1>5. CASE Untouched(owner)
  <2>1. Enqueued(ready, q) /\ index[q] = 1 /\ time < Begins(q, 1)
    BY <1>5 DEF Untouched
  <2>2. Begins(q, 1) <= time
    BY <2>1, WindowIsTheNext DEF RecoveryInv, WindowInv
  <2>3. Begins(q, 1) \in Nat
    <3>1. 1 \in DOMAIN Window[q]
      BY AssumptionFacts
    <3> QED BY <3>1, WindowFacts
  <2> QED BY <1>1, <2>1, <2>2, <2>3
<1> QED BY <1>4, <1>5 DEF RecoveryInv, OwnerInPlace

\* Whatever went wrong in earlier frames, restarts out of SCHEDULER and callbacks in
\* somebody's window included: unless such a thing has happened in this frame, no
\* partition holds the processor in another one's window.
THEOREM IsolationIsRecovered ==
  ASSUME WindowsInOrder, WindowsDisjoint
  PROVE  IsolationSpec => []IsolationRecovers
<1>1. RecoveryInv => IsolationRecovers
  BY RecoveryInvImplies
<1>2. RecoveryInv /\ [IsolationNext]_isolationVars => RecoveryInv'
  BY NextRecovery
<1> QED
  BY <1>1, <1>2, InitRecovery, PTL DEF IsolationSpec

\* In a frame that nothing has disturbed each queued partition owns the processor
\* throughout its windows: it is not unowned there, and nobody else owns it.
THEOREM WindowsAreGranted ==
  ASSUME WindowsInOrder, WindowsDisjoint
  PROVE  IsolationSpec => []WindowGranted
<1>1. RecoveryInv => WindowGranted
  <2> SUFFICES ASSUME RecoveryInv PROVE WindowGranted
    OBVIOUS
  <2>1. WindowUsed
    BY WindowInvImplies DEF RecoveryInv
  <2>2. ASSUME ~ disturbed, pc = "rest", ~ moduleIdle,
               NEW q \in Part, Enqueued(ready, q), InWindow(q), owner # q
        PROVE  FALSE
    <3>1. ~ hm.running
      BY <2>2 DEF RecoveryInv, Quiet
    <3>2. owner # NoPart
      BY <2>1, <2>2, <3>1 DEF WindowUsed
    <3>3. q \notin Idle
      BY <2>2, QueuedOne DEF RecoveryInv, WindowInv, Inv
    <3> QED BY <2>2, <3>2, <3>3, RecoveryInvImplies DEF IsolationRecovers, Isolation
  <2> QED BY <2>1, <2>2 DEF WindowGranted
<1>2. RecoveryInv /\ [IsolationNext]_isolationVars => RecoveryInv'
  BY NextRecovery
<1> QED
  BY <1>1, <1>2, InitRecovery, PTL DEF IsolationSpec
=============================================================================
