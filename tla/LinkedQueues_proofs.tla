------------------------- MODULE LinkedQueues_proofs -------------------------
(***************************************************************************)
(* The linked lists of arinc653_priorityqueue.c implement queues that are  *)
(* sequences, for any number of entries and records.                       *)
(*                                                                         *)
(* The properties that are checked of the lists are not inductive: what a  *)
(* step does to the walk along ENT_NEXT cannot be told from membership     *)
(* alone. The invariant is that there are sequences of which the pointers  *)
(* are the links. Each operation is an operation on these sequences, and   *)
(* the walk from a head follows one of them.                               *)
(***************************************************************************)
EXTENDS LinkedQueues, PriorityQueues_proofs

-----------------------------------------------------------------------------
(* The sequences that the pointers stand for.                              *)

\* s is linked as the list of r.
LinkedAs(r, s) ==
  /\ count[r] = Len(s)
  /\ head[r] = IF Len(s) = 0 THEN Null ELSE s[1]
  /\ \A i \in 1..Len(s) :
       /\ enqueued[s[i]] = r
       /\ next[s[i]] = IF i < Len(s) THEN s[i + 1] ELSE Null
       /\ previous[s[i]] = IF i > 1 THEN s[i - 1] ELSE Null
  /\ \A i, j \in 1..Len(s) : s[i] = s[j] => i = j

\* q gives the list of each record, and every entry enqueued is in its record's.
Lists(q) ==
  /\ q \in [Rec -> Seq(Elem)]
  /\ \A r \in Rec : LinkedAs(r, q[r])
  /\ \A e \in Elem : enqueued[e] # Null => \E i \in 1..Len(q[enqueued[e]]) : q[enqueued[e]][i] = e

Shape ==
  /\ head \in [Rec -> Elem \cup {Null}] /\ count \in [Rec -> Nat]
  /\ next \in [Elem -> Elem \cup {Null}] /\ previous \in [Elem -> Elem \cup {Null}]
  /\ enqueued \in [Elem -> Rec \cup {Null}] /\ key \in [Elem -> Keys]

IInv == Shape /\ \E q : Lists(q)

LEMMA SequenceOf ==
  ASSUME NEW s \in Seq(Elem)
  PROVE  /\ Len(s) \in Nat /\ DOMAIN s = 1..Len(s)
         /\ \A i \in 1..Len(s) : s[i] \in Elem /\ s[i] # Null
BY LinkedQueuesAssumption

\* A list is not longer than there are entries.
LEMMA ListFits ==
  ASSUME NEW s \in Seq(Elem), \A i, j \in 1..Len(s) : s[i] = s[j] => i = j
  PROVE  Len(s) <= Cardinality(Elem) /\ Cardinality(Elem) \in Nat
<1>1. Len(s) \in Nat /\ s \in [1..Len(s) -> Elem]
  BY SequenceOf
<1>2. s \in Injection(1..Len(s), Elem)
  BY <1>1 DEF Injection, IsInjective
<1>3. IsFiniteSet(Elem)
  BY LinkedQueuesAssumption
<1>4. Cardinality(1..Len(s)) = Len(s)
  BY <1>1, FS_Interval
<1> QED
  BY <1>2, <1>3, <1>4, FS_Injection, FS_CardinalityType

-----------------------------------------------------------------------------
(* The walk along ENT_NEXT.                                                *)

Along(s) == [n \in 0..Cardinality(Elem) |-> IF n < Len(s) THEN s[n + 1] ELSE Null]

LEMMA WalkIs ==
  ASSUME NEW r \in Rec, NEW s \in Seq(Elem), LinkedAs(r, s)
  PROVE  Walk(head[r]) = Along(s)
<1> DEFINE C == Cardinality(Elem)
           Step(f, n) == IF n = 0 THEN head[r] ELSE IF f[n - 1] = Null THEN Null ELSE next[f[n - 1]]
           a == Along(s)
<1>1. C \in Nat /\ Len(s) \in Nat /\ Len(s) <= C
  BY ListFits, SequenceOf DEF LinkedAs
<1>2. \A n \in 0..C : a[n] = IF n < Len(s) THEN s[n + 1] ELSE Null
  BY DEF Along
<1>3. ASSUME NEW n \in 0..C PROVE a[n] = Step(a, n)
  <2>1. CASE n = 0
    BY <1>1, <1>2, <2>1 DEF LinkedAs
  <2>2. CASE n # 0 /\ n - 1 < Len(s)
    <3>1. n - 1 \in 0..C /\ n \in 1..Len(s)
      BY <1>1, <2>2
    <3>2. a[n - 1] = s[n] /\ s[n] # Null
      BY <1>1, <1>2, <2>2, <3>1, SequenceOf
    <3>3. next[s[n]] = IF n < Len(s) THEN s[n + 1] ELSE Null
      BY <3>1 DEF LinkedAs
    <3> QED BY <1>2, <2>2, <3>2, <3>3
  <2>3. CASE n # 0 /\ ~ (n - 1 < Len(s))
    <3>1. n - 1 \in 0..C /\ ~ (n < Len(s))
      BY <1>1, <2>3
    <3> QED BY <1>2, <2>3, <3>1
  <2> QED BY <2>1, <2>2, <2>3
<1>4. a = [n \in 0..C |-> Step(a, n)]
  BY <1>3 DEF Along
<1>5. ASSUME NEW f, f = [n \in 0..C |-> Step(f, n)] PROVE f = a
  <2> DEFINE Bad == {n \in 0..C : f[n] # a[n]}
  <2>1. CASE Bad = {}
    BY <1>5, <2>1 DEF Along
  <2>2. ASSUME Bad # {} PROVE FALSE
    <3>1. PICK k \in Bad : \A n \in Bad : k <= n
      <4>1. Bad \in SUBSET Nat
        BY <1>1
      <4> HIDE DEF Bad
      <4> QED BY <2>2, <4>1, LeastNatural
    <3>2. f[k] = Step(f, k) /\ a[k] = Step(a, k)
      BY <1>3, <1>5, <3>1
    <3>3. CASE k = 0
      BY <3>1, <3>2, <3>3
    <3>4. CASE k # 0
      <4>1. k - 1 \in 0..C /\ ~ (k <= k - 1)
        BY <1>1, <3>1, <3>4
      <4>2. f[k - 1] = a[k - 1]
        BY <3>1, <4>1
      <4> HIDE DEF a
      <4> QED BY <3>1, <3>2, <3>4, <4>2
    <3> QED BY <3>3, <3>4
  <2> QED BY <2>1, <2>2
<1>6. Walk(head[r]) = CHOOSE f : f = [n \in 0..C |-> Step(f, n)]
  BY DEF Walk
<1> HIDE DEF a, Step, C
<1> QED
  BY <1>4, <1>5, <1>6 DEF a

LEMMA LinkedIs ==
  ASSUME NEW r \in Rec, NEW s \in Seq(Elem), LinkedAs(r, s)
  PROVE  /\ Linked(r) = 0..(Len(s) - 1) /\ Cardinality(Linked(r)) = Len(s)
         /\ \A n \in Linked(r) : Walk(head[r])[n] = s[n + 1]
         /\ {Walk(head[r])[n] : n \in Linked(r)} = {s[i] : i \in 1..Len(s)}
         /\ Walk(head[r])[Cardinality(Elem)] = Null
         /\ Queue(r) = [i \in 1..Len(s) |-> [id |-> s[i], pri |-> key[s[i]]]]
<1>1. /\ Cardinality(Elem) \in Nat /\ Len(s) \in Nat /\ Len(s) <= Cardinality(Elem)
      /\ \A i \in 1..Len(s) : s[i] # Null
  BY ListFits, SequenceOf DEF LinkedAs
<1>2. PICK w : w = Walk(head[r])
  OBVIOUS
<1>3. \A n \in 0..Cardinality(Elem) : w[n] = IF n < Len(s) THEN s[n + 1] ELSE Null
  BY <1>2, WalkIs DEF Along
<1>4. Linked(r) = {n \in 0..Cardinality(Elem) : w[n] # Null}
  BY <1>2 DEF Linked
<1>5. Linked(r) = 0..(Len(s) - 1)
  BY <1>1, <1>3, <1>4
<1>6. Cardinality(Linked(r)) = Len(s)
  <2>1. Len(s) - 1 \in Int /\ 0 \in Int
    BY <1>1
  <2>2. Cardinality(0..(Len(s) - 1)) = IF 0 > Len(s) - 1 THEN 0 ELSE (Len(s) - 1) - 0 + 1
    BY <2>1, FS_Interval
  <2> QED BY <1>1, <1>5, <2>2
<1>7. \A n \in Linked(r) : w[n] = s[n + 1]
  BY <1>1, <1>3, <1>5
<1>8. {w[n] : n \in Linked(r)} = {s[i] : i \in 1..Len(s)}
  <2>1. \A i \in 1..Len(s) : i - 1 \in Linked(r) /\ (i - 1) + 1 = i
    BY <1>1, <1>5
  <2>2. \A n \in Linked(r) : n + 1 \in 1..Len(s)
    BY <1>1, <1>5
  <2> QED BY <1>7, <2>1, <2>2
<1>9. \A i \in 1..Len(s) : w[i - 1] = s[i]
  <2>1. \A i \in 1..Len(s) : i - 1 \in Linked(r) /\ (i - 1) + 1 = i
    BY <1>1, <1>5
  <2> QED BY <1>7, <2>1
<1>10. Queue(r) = [i \in 1..Len(s) |-> [id |-> w[i - 1], pri |-> key[w[i - 1]]]]
  BY <1>2, <1>6 DEF Queue
<1>11. w[Cardinality(Elem)] = Null
  BY <1>1, <1>3
<1>12. Queue(r) = [i \in 1..Len(s) |-> [id |-> s[i], pri |-> key[s[i]]]]
  BY <1>9, <1>10
<1>13. {Walk(head[r])[n] : n \in Linked(r)} = {s[i] : i \in 1..Len(s)}
  BY <1>2, <1>8
<1> QED
  BY <1>2, <1>5, <1>6, <1>7, <1>11, <1>12, <1>13

-----------------------------------------------------------------------------
(* ENQUEUE inserts.                                                        *)

LEMMA StopAt ==
  ASSUME NEW r \in Rec, NEW s \in Seq(Elem), LinkedAs(r, s), Len(s) # 0, NEW k
  PROVE  \E m \in 1..Len(s) :
           /\ Stop(r, k) = s[m]
           /\ Before(r \in Ascending, k, key[s[m]]) \/ m = Len(s)
           /\ \A j \in 1..(m - 1) : ~ Before(r \in Ascending, k, key[s[j]])
<1> DEFINE B(e) == Before(r \in Ascending, k, key[e])
           Hit(n) == B(s[n + 1]) \/ n + 1 = Len(s)
           Hits == {n \in 0..(Len(s) - 1) : Hit(n)}
<1>1. Len(s) \in Nat /\ \A i \in 1..Len(s) : s[i] # Null
  BY SequenceOf
<1>2. PICK w : w = Walk(head[r])
  OBVIOUS
<1>3. Linked(r) = 0..(Len(s) - 1) /\ \A n \in 0..(Len(s) - 1) : w[n] = s[n + 1]
  BY <1>2, LinkedIs
<1>4. \A n \in 0..(Len(s) - 1) : next[w[n]] = Null <=> n + 1 = Len(s)
  <2> SUFFICES ASSUME NEW n \in 0..(Len(s) - 1) PROVE next[w[n]] = Null <=> n + 1 = Len(s)
    OBVIOUS
  <2>1. n + 1 \in 1..Len(s) /\ n \in Int
    BY <1>1
  <2>2. next[s[n + 1]] = IF n + 1 < Len(s) THEN s[n + 1 + 1] ELSE Null
    BY <2>1 DEF LinkedAs
  <2>3. n + 1 < Len(s) => n + 1 + 1 \in 1..Len(s)
    BY <1>1, <2>1
  <2> QED BY <1>1, <1>3, <2>1, <2>2, <2>3
<1>5. PICK n \in Hits : \A j \in Hits : n <= j
  <2>1. Len(s) - 1 \in Hits /\ Hits \in SUBSET Nat
    BY <1>1
  <2> HIDE DEF Hits
  <2> QED BY <2>1, LeastNatural
<1>6. \A j \in 0..(n - 1) : ~ Hit(j)
  <2> SUFFICES ASSUME NEW j \in 0..(n - 1), Hit(j) PROVE FALSE
    OBVIOUS
  <2>1. j \in 0..(Len(s) - 1) /\ ~ (n <= j)
    BY <1>1, <1>5
  <2> QED BY <1>5, <2>1
<1> DEFINE Found(x) == /\ Before(r \in Ascending, k, key[w[x]]) \/ next[w[x]] = Null
                       /\ \A j \in 0..(x - 1) :
                            ~ (Before(r \in Ascending, k, key[w[j]]) \/ next[w[j]] = Null)
<1>7. ASSUME NEW x \in 0..(Len(s) - 1) PROVE Found(x) <=> Hit(x) /\ \A j \in 0..(x - 1) : ~ Hit(j)
  <2>1. \A j \in 0..x : (Before(r \in Ascending, k, key[w[j]]) \/ next[w[j]] = Null) <=> Hit(j)
    BY <1>1, <1>3, <1>4
  <2>2. x \in 0..x /\ \A j \in 0..(x - 1) : j \in 0..x
    BY <1>1
  <2> HIDE DEF Hit
  <2> QED BY <2>1, <2>2
<1>8. Stop(r, k) = w[CHOOSE x \in Linked(r) : Found(x)]
  BY <1>2 DEF Stop
<1>9. PICK x \in 0..(Len(s) - 1) : x = (CHOOSE y \in Linked(r) : Found(y)) /\ Found(x)
  <2>1. Found(n) /\ n \in Linked(r)
    BY <1>3, <1>5, <1>6, <1>7
  <2> HIDE DEF Found
  <2> QED BY <1>3, <2>1
<1>10. Hit(x) /\ \A j \in 0..(x - 1) : ~ Hit(j)
  <2> HIDE DEF Found, Hit
  <2> QED BY <1>7, <1>9
<1>11. Stop(r, k) = s[x + 1] /\ x + 1 \in 1..Len(s)
  BY <1>1, <1>3, <1>8, <1>9
<1>12. \A j \in 1..((x + 1) - 1) : ~ Before(r \in Ascending, k, key[s[j]])
  <2> SUFFICES ASSUME NEW j \in 1..((x + 1) - 1) PROVE ~ B(s[j])
    OBVIOUS
  <2>1. j - 1 \in 0..(x - 1) /\ (j - 1) + 1 = j
    BY <1>1
  <2>2. ~ Hit(j - 1)
    BY <1>10, <2>1
  <2> HIDE DEF B
  <2> QED BY <2>1, <2>2
<1> QED
  BY <1>10, <1>11, <1>12

LEMMA InsertInto ==
  ASSUME NEW s \in Seq(Elem), NEW k \in 1..(Len(s) + 1), NEW e \in Elem
  PROVE  /\ Insert(s, k, e) \in Seq(Elem) /\ Len(Insert(s, k, e)) = Len(s) + 1
         /\ \A i \in 1..(Len(s) + 1) :
              Insert(s, k, e)[i] = IF i < k THEN s[i] ELSE IF i = k THEN e ELSE s[i - 1]
<1>1. Len(s) \in Nat /\ \A i \in 1..Len(s) : s[i] \in Elem
  BY SequenceOf
<1>2. \A i \in 1..(Len(s) + 1) : (IF i < k THEN s[i] ELSE IF i = k THEN e ELSE s[i - 1]) \in Elem
  BY <1>1
<1> QED
  BY <1>1, <1>2 DEF Insert

\* The pointers after e has been linked in front of the entry at m.
LinkedAt(r, s, m, e) ==
  /\ next'[e] = IF m <= Len(s) THEN s[m] ELSE Null
  /\ previous'[e] = IF m > 1 THEN s[m - 1] ELSE Null
  /\ \A i \in 1..Len(s) : /\ next'[s[i]] = IF i = m - 1 THEN e ELSE next[s[i]]
                          /\ previous'[s[i]] = IF i = m THEN e ELSE previous[s[i]]
  /\ \A x \in Elem : enqueued[x] \notin {r, Null} => next'[x] = next[x] /\ previous'[x] = previous[x]
  /\ head'[r] = IF m = 1 THEN e ELSE head[r]
  /\ \A x \in Rec \ {r} : head'[x] = head[x]

LEMMA InsertLinks ==
  ASSUME Shape, NEW r \in Rec, NEW e \in Elem, NEW s \in Seq(Elem), LinkedAs(r, s),
         enqueued[e] = Null, enqueued'[e] = r, \A x \in Elem \ {e} : enqueued'[x] = enqueued[x],
         count'[r] = count[r] + 1, NEW m \in 1..(Len(s) + 1), LinkedAt(r, s, m, e)
  PROVE  LinkedAs(r, Insert(s, m, e))'
<1>1. PICK t \in Seq(Elem) :
        /\ t = Insert(s, m, e) /\ Len(t) = Len(s) + 1
        /\ \A i \in 1..(Len(s) + 1) : t[i] = IF i < m THEN s[i] ELSE IF i = m THEN e ELSE s[i - 1]
  BY InsertInto
<1>2. /\ Len(t) = Len(s) + 1
      /\ \A i \in 1..(Len(s) + 1) : t[i] = IF i < m THEN s[i] ELSE IF i = m THEN e ELSE s[i - 1]
  BY <1>1
<1>3. Len(s) \in Nat /\ m \in Nat /\ \A i \in 1..Len(s) : s[i] \in Elem /\ s[i] # e /\ enqueued[s[i]] = r
  BY SequenceOf, LinkedQueuesAssumption DEF LinkedAs
<1>4. count'[r] = Len(t)
  BY <1>2 DEF LinkedAs
<1>5. head'[r] = IF Len(t) = 0 THEN Null ELSE t[1]
  BY <1>2, <1>3 DEF LinkedAs, LinkedAt
<1>6. ASSUME NEW i \in 1..Len(t)
      PROVE  /\ enqueued'[t[i]] = r
             /\ next'[t[i]] = IF i < Len(t) THEN t[i + 1] ELSE Null
             /\ previous'[t[i]] = IF i > 1 THEN t[i - 1] ELSE Null
  <2>1. CASE i < m
    <3>1. i \in 1..Len(s) /\ i + 1 \in 1..(Len(s) + 1) /\ i \in 1..(Len(s) + 1)
          /\ (i > 1 => i - 1 \in 1..(Len(s) + 1)) /\ (i # m - 1 => i < Len(s)) /\ i < Len(t)
      BY <1>2, <1>3, <2>1
    <3>2. t[i] = s[i] /\ t[i + 1] = (IF i = m - 1 THEN e ELSE s[i + 1]) /\ (i > 1 => t[i - 1] = s[i - 1])
      BY <1>2, <1>3, <2>1, <3>1
    <3>3. /\ next'[s[i]] = IF i = m - 1 THEN e ELSE next[s[i]]
          /\ previous'[s[i]] = previous[s[i]]
          /\ next[s[i]] = IF i < Len(s) THEN s[i + 1] ELSE Null
          /\ previous[s[i]] = IF i > 1 THEN s[i - 1] ELSE Null
      BY <1>3, <2>1, <3>1 DEF LinkedAs, LinkedAt
    <3> QED BY <1>3, <3>1, <3>2, <3>3
  <2>2. CASE i = m
    <3>1. (i < Len(t) => i + 1 \in 1..(Len(s) + 1) /\ i <= Len(s)) /\ (i > 1 => i - 1 \in 1..(Len(s) + 1))
          /\ i \in 1..(Len(s) + 1) /\ (~ (i < Len(t)) => ~ (i <= Len(s)))
      BY <1>2, <1>3, <2>2
    <3>2. t[i] = e /\ (i < Len(t) => t[i + 1] = s[i]) /\ (i > 1 => t[i - 1] = s[i - 1])
      BY <1>2, <1>3, <2>2, <3>1
    <3> QED BY <2>2, <3>1, <3>2 DEF LinkedAt
  <2>3. CASE i > m
    <3>1. i - 1 \in 1..Len(s) /\ i \in 1..(Len(s) + 1) /\ i > 1 /\ i # m /\ i - 1 # m - 1
          /\ (i < Len(t) <=> i - 1 < Len(s)) /\ (i < Len(t) => i + 1 \in 1..(Len(s) + 1)) /\ i - 1 + 1 = i
          /\ (i - 1 # m => i - 1 > 1 /\ i - 1 > m) /\ i + 1 - 1 = i
      BY <1>2, <1>3, <2>3
    <3>2. t[i] = s[i - 1] /\ (i < Len(t) => t[i + 1] = s[i]) /\ t[i - 1] = (IF i - 1 = m THEN e ELSE s[i - 1 - 1])
      BY <1>2, <1>3, <2>3, <3>1
    <3>3. /\ next'[s[i - 1]] = next[s[i - 1]]
          /\ previous'[s[i - 1]] = IF i - 1 = m THEN e ELSE previous[s[i - 1]]
          /\ next[s[i - 1]] = IF i - 1 < Len(s) THEN s[i - 1 + 1] ELSE Null
          /\ previous[s[i - 1]] = IF i - 1 > 1 THEN s[i - 1 - 1] ELSE Null
      BY <3>1 DEF LinkedAs, LinkedAt
    <3> QED BY <1>3, <3>1, <3>2, <3>3
  <2> QED BY <1>2, <1>3, <2>1, <2>2, <2>3
<1>7. \A i, j \in 1..Len(t) : t[i] = t[j] => i = j
  <2> SUFFICES ASSUME NEW i \in 1..Len(t), NEW j \in 1..Len(t), i # j PROVE t[i] # t[j]
    OBVIOUS
  <2> DEFINE Old(n) == IF n < m THEN n ELSE n - 1
  <2>1. \A n \in 1..Len(t) : n # m => Old(n) \in 1..Len(s) /\ t[n] = s[Old(n)]
    BY <1>2, <1>3
  <2>2. i # m /\ j # m => Old(i) # Old(j)
    BY <1>2, <1>3
  <2>3. t[m] = e
    BY <1>2, <1>3
  <2>4. \A a, b \in 1..Len(s) : a # b => s[a] # s[b]
    BY DEF LinkedAs
  <2>5. CASE i = m \/ j = m
    <3> HIDE DEF Old
    <3> QED BY <1>3, <2>1, <2>3, <2>5
  <2>6. CASE i # m /\ j # m
    <3> HIDE DEF Old
    <3> QED BY <2>1, <2>2, <2>4, <2>6
  <2> QED BY <2>5, <2>6
<1> QED
  BY <1>1, <1>4, <1>5, <1>6, <1>7 DEF LinkedAs

\* A list that a step does not touch.
LEMMA SameList ==
  ASSUME NEW r \in Rec, NEW s \in Seq(Elem), LinkedAs(r, s), count'[r] = count[r], head'[r] = head[r],
         \A e \in Elem : enqueued[e] = r =>
           enqueued'[e] = r /\ next'[e] = next[e] /\ previous'[e] = previous[e]
  PROVE  LinkedAs(r, s)'
<1>1. \A i \in 1..Len(s) : s[i] \in Elem /\ enqueued[s[i]] = r
  BY SequenceOf DEF LinkedAs
<1>2. \A i \in 1..Len(s) : enqueued'[s[i]] = r /\ next'[s[i]] = next[s[i]] /\ previous'[s[i]] = previous[s[i]]
  BY <1>1
<1> QED
  BY <1>2 DEF LinkedAs

\* A step that changes the list of r.
LEMMA OneList ==
  ASSUME NEW q, Lists(q), NEW r \in Rec, NEW t \in Seq(Elem), LinkedAs(r, t)',
         \A x \in Rec \ {r} : count'[x] = count[x] /\ head'[x] = head[x],
         \A e \in Elem : enqueued[e] \notin {r, Null} =>
           enqueued'[e] = enqueued[e] /\ next'[e] = next[e] /\ previous'[e] = previous[e],
         enqueued' \in [Elem -> Rec \cup {Null}],
         \A e \in Elem : enqueued'[e] \notin {r, Null} => enqueued'[e] = enqueued[e],
         \A e \in Elem : enqueued'[e] = r => \E i \in 1..Len(t) : t[i] = e
  PROVE  Lists([q EXCEPT ![r] = t])'
<1>1. PICK p : p = [q EXCEPT ![r] = t]
  OBVIOUS
<1>2. q \in [Rec -> Seq(Elem)] /\ p \in [Rec -> Seq(Elem)] /\ p[r] = t /\ \A x \in Rec \ {r} : p[x] = q[x]
  BY <1>1 DEF Lists
<1>3. ASSUME NEW x \in Rec PROVE LinkedAs(x, p[x])'
  <2>1. CASE x = r
    BY <1>2, <2>1
  <2>2. CASE x # r
    <3>1. LinkedAs(x, q[x]) /\ q[x] \in Seq(Elem)
      BY <1>2 DEF Lists
    <3>2. \A e \in Elem : enqueued[e] = x =>
            enqueued'[e] = x /\ next'[e] = next[e] /\ previous'[e] = previous[e]
      BY <2>2, LinkedQueuesAssumption
    <3>3. LinkedAs(x, q[x])'
      BY <2>2, <3>1, <3>2, SameList
    <3> QED BY <1>2, <2>2, <3>3
  <2> QED BY <2>1, <2>2
<1>4. ASSUME NEW e \in Elem, enqueued'[e] # Null
      PROVE  \E i \in 1..Len(p[enqueued'[e]]) : p[enqueued'[e]][i] = e
  <2>1. CASE enqueued'[e] = r
    BY <1>2, <2>1
  <2>2. CASE enqueued'[e] # r
    <3>1. enqueued'[e] = enqueued[e] /\ enqueued'[e] \in Rec \ {r}
      BY <1>4, <2>2
    <3>2. \E i \in 1..Len(q[enqueued[e]]) : q[enqueued[e]][i] = e
      BY <1>4, <3>1 DEF Lists
    <3> QED BY <1>2, <3>1, <3>2
  <2> QED BY <2>1, <2>2
<1>5. Lists(p)'
  BY <1>2, <1>3, <1>4 DEF Lists
<1> QED
  BY <1>1, <1>5

\* Where ENQUEUE puts a new entry.
Place(r, s, k, m) ==
  /\ m \in 1..(Len(s) + 1)
  /\ m <= Len(s) => Before(r \in Ascending, k, key[s[m]])
  /\ \A j \in 1..(m - 1) : ~ Before(r \in Ascending, k, key[s[j]])

LEMMA EnqueueLists ==
  ASSUME Shape, NEW q, Lists(q), NEW r \in Rec, NEW e \in Elem, NEW k \in Keys,
         ENQUEUE(r, e, k), enqueued[e] = Null
  PROVE  \E m \in 1..(Len(q[r]) + 1) :
           /\ Place(r, q[r], IF r \in Prioritized THEN k ELSE MinPriority, m)
           /\ Lists([q EXCEPT ![r] = Insert(q[r], m, e)])'
<1>1. PICK s \in Seq(Elem) : s = q[r] /\ LinkedAs(r, s)
  BY DEF Lists
<1>2. PICK eff \in Keys : eff = IF r \in Prioritized THEN k ELSE MinPriority
  BY LinkedQueuesAssumption
<1>3. /\ \/ head[r] = Null /\ LinkAlone(r, e)
         \/ /\ head[r] # Null
            /\ IF Before(r \in Ascending, eff, key[Stop(r, eff)])
               THEN LinkBefore(r, e, Stop(r, eff)) ELSE LinkAfter(r, e, Stop(r, eff))
      /\ count' = [count EXCEPT ![r] = @ + 1] /\ enqueued' = [enqueued EXCEPT ![e] = r]
  BY <1>2 DEF ENQUEUE
<1>4. Len(s) \in Nat /\ \A i \in 1..Len(s) : s[i] \in Elem /\ s[i] # Null /\ s[i] # e /\ enqueued[s[i]] = r
  BY <1>1, SequenceOf, LinkedQueuesAssumption DEF LinkedAs
<1>5. head[r] = Null <=> Len(s) = 0
  BY <1>1, <1>4 DEF LinkedAs
<1>6. \E m \in 1..(Len(s) + 1) : Place(r, s, eff, m) /\ LinkedAt(r, s, m, e)
  <2>1. CASE head[r] = Null
    <3>1. LinkAlone(r, e) /\ Len(s) = 0
      BY <1>3, <1>5, <2>1
    <3>2. LinkedAt(r, s, 1, e)
      BY <3>1, LinkedQueuesAssumption DEF LinkAlone, LinkedAt, Shape
    <3>3. Place(r, s, eff, 1) /\ 1 \in 1..(Len(s) + 1)
      BY <3>1 DEF Place
    <3> QED BY <3>2, <3>3
  <2>2. CASE head[r] # Null
    <3>1. PICK m \in 1..Len(s) :
            /\ Stop(r, eff) = s[m]
            /\ Before(r \in Ascending, eff, key[s[m]]) \/ m = Len(s)
            /\ \A j \in 1..(m - 1) : ~ Before(r \in Ascending, eff, key[s[j]])
      BY <1>1, <1>5, <2>2, StopAt
    <3>2. /\ next[s[m]] = IF m < Len(s) THEN s[m + 1] ELSE Null
          /\ previous[s[m]] = IF m > 1 THEN s[m - 1] ELSE Null
          /\ head[r] = s[1] /\ s[m] \in Elem /\ s[m] # e
      BY <1>1, <1>4, <3>1 DEF LinkedAs
    <3>3. \A i \in 1..Len(s) : (s[i] = s[m] <=> i = m) /\ (m > 1 => (s[i] = s[m - 1] <=> i = m - 1))
      <4>1. \A a, b \in 1..Len(s) : s[a] = s[b] => a = b
        BY <1>1 DEF LinkedAs
      <4>2. m > 1 => m - 1 \in 1..Len(s)
        BY <1>4
      <4> QED BY <4>1, <4>2
    <3>4. CASE Before(r \in Ascending, eff, key[s[m]])
      <4>1. LinkBefore(r, e, s[m])
        BY <1>3, <2>2, <3>1, <3>4
      <4>2. Place(r, s, eff, m) /\ m \in 1..(Len(s) + 1)
        BY <1>4, <3>1, <3>4 DEF Place
      <4>3. previous'[e] = previous[s[m]] /\ previous'[s[m]] = e /\ \A x \in Elem \ {e, s[m]} : previous'[x] = previous[x]
        BY <3>2, <4>1 DEF LinkBefore, Shape
      <4>4. \A x \in Elem : next'[x] = IF x = e THEN s[m] ELSE IF x = previous[s[m]] THEN e ELSE next[x]
        BY <4>1 DEF LinkBefore
      <4>5. head'[r] = (IF m = 1 THEN e ELSE head[r]) /\ \A x \in Rec \ {r} : head'[x] = head[x]
        BY <1>4, <3>1, <3>2, <3>3, <4>1 DEF LinkBefore, Shape
      <4>6. \A i \in 1..Len(s) : /\ next'[s[i]] = IF i = m - 1 THEN e ELSE next[s[i]]
                                 /\ previous'[s[i]] = IF i = m THEN e ELSE previous[s[i]]
        BY <1>4, <3>1, <3>2, <3>3, <4>3, <4>4
      <4>7. next'[e] = (IF m <= Len(s) THEN s[m] ELSE Null) /\ previous'[e] = IF m > 1 THEN s[m - 1] ELSE Null
        BY <3>1, <3>2, <4>3, <4>4
      <4>8. \A x \in Elem : enqueued[x] \notin {r, Null} => next'[x] = next[x] /\ previous'[x] = previous[x]
        <5>1. previous[s[m]] # Null => enqueued[previous[s[m]]] = r
          BY <1>4, <3>1, <3>2
        <5>2. enqueued[s[m]] = r
          BY <1>4, <3>1
        <5> QED BY <4>3, <4>4, <5>1, <5>2, LinkedQueuesAssumption
      <4> QED BY <4>2, <4>5, <4>6, <4>7, <4>8 DEF LinkedAt
    <3>5. CASE ~ Before(r \in Ascending, eff, key[s[m]])
      <4>1. LinkAfter(r, e, s[m]) /\ m = Len(s) /\ next[s[m]] = Null
        BY <1>3, <2>2, <3>1, <3>2, <3>5
      <4> DEFINE n == Len(s) + 1
      <4>2. Place(r, s, eff, n) /\ n \in 1..(Len(s) + 1)
        <5>1. \A j \in 1..(n - 1) : j = m \/ j \in 1..(m - 1)
          BY <1>4, <4>1
        <5> QED BY <1>4, <3>1, <3>5, <5>1 DEF Place
      <4>3. next'[e] = Null /\ next'[s[m]] = e /\ \A x \in Elem \ {e, s[m]} : next'[x] = next[x]
        BY <3>2, <4>1 DEF LinkAfter, Shape
      <4>4. \A x \in Elem : previous'[x] = IF x = e THEN s[m] ELSE previous[x]
        BY <4>1, LinkedQueuesAssumption DEF LinkAfter
      <4>5. head' = head /\ n # 1
        BY <1>4, <3>1, <4>1 DEF LinkAfter
      <4>6. \A i \in 1..Len(s) : /\ next'[s[i]] = IF i = n - 1 THEN e ELSE next[s[i]]
                                 /\ previous'[s[i]] = IF i = n THEN e ELSE previous[s[i]]
        BY <1>4, <3>1, <3>2, <3>3, <4>1, <4>3, <4>4
      <4>7. next'[e] = (IF n <= Len(s) THEN s[n] ELSE Null) /\ previous'[e] = IF n > 1 THEN s[n - 1] ELSE Null
        BY <1>4, <3>1, <4>1, <4>3, <4>4
      <4>8. \A x \in Elem : enqueued[x] \notin {r, Null} => next'[x] = next[x] /\ previous'[x] = previous[x]
        BY <1>4, <3>1, <4>3, <4>4
      <4> QED BY <4>2, <4>5, <4>6, <4>7, <4>8 DEF LinkedAt
    <3> QED BY <3>4, <3>5
  <2> QED BY <2>1, <2>2
<1>7. PICK m \in 1..(Len(s) + 1) : Place(r, s, eff, m) /\ LinkedAt(r, s, m, e)
  BY <1>6
<1>8. /\ enqueued'[e] = r /\ \A x \in Elem \ {e} : enqueued'[x] = enqueued[x]
      /\ enqueued' \in [Elem -> Rec \cup {Null}]
      /\ count'[r] = count[r] + 1 /\ \A x \in Rec \ {r} : count'[x] = count[x]
  BY <1>3 DEF Shape
<1>9. PICK t \in Seq(Elem) :
        /\ t = Insert(s, m, e) /\ Len(t) = Len(s) + 1
        /\ \A i \in 1..(Len(s) + 1) : t[i] = IF i < m THEN s[i] ELSE IF i = m THEN e ELSE s[i - 1]
  BY InsertInto
<1>10. LinkedAs(r, t)'
  BY <1>1, <1>8, <1>7, <1>9, InsertLinks
<1>11. \A x \in Elem : enqueued'[x] = r => \E i \in 1..Len(t) : t[i] = x
  <2> SUFFICES ASSUME NEW x \in Elem, enqueued'[x] = r PROVE \E i \in 1..Len(t) : t[i] = x
    OBVIOUS
  <2>1. CASE x = e
    BY <1>4, <1>9, <2>1
  <2>2. CASE x # e
    <3>1. enqueued[x] = r
      BY <1>8, <2>2
    <3>2. PICK i \in 1..Len(s) : s[i] = x
      BY <1>1, <3>1, LinkedQueuesAssumption DEF Lists
    <3>3. CASE i < m
      <4>1. i \in 1..(Len(s) + 1) /\ t[i] = s[i]
        BY <1>4, <1>9, <3>3
      <4> QED BY <1>9, <3>2, <4>1
    <3>4. CASE ~ (i < m)
      <4>1. i + 1 \in 1..(Len(s) + 1) /\ ~ (i + 1 < m) /\ i + 1 # m /\ i + 1 - 1 = i
        BY <1>4, <3>4
      <4>2. t[i + 1] = s[i]
        BY <1>9, <4>1
      <4> QED BY <1>9, <3>2, <4>1, <4>2
    <3> QED BY <3>3, <3>4
  <2> QED BY <2>1, <2>2
<1>12. Lists([q EXCEPT ![r] = t])'
  <2>1. \A x \in Rec \ {r} : count'[x] = count[x] /\ head'[x] = head[x]
    BY <1>7, <1>8 DEF LinkedAt
  <2>2. \A x \in Elem : enqueued[x] \notin {r, Null} =>
          enqueued'[x] = enqueued[x] /\ next'[x] = next[x] /\ previous'[x] = previous[x]
    BY <1>7, <1>8 DEF LinkedAt
  <2>3. \A x \in Elem : enqueued'[x] \notin {r, Null} => enqueued'[x] = enqueued[x]
    BY <1>8
  <2> QED BY <1>8, <1>10, <1>11, <2>1, <2>2, <2>3, OneList
<1> QED
  BY <1>1, <1>2, <1>7, <1>9, <1>12

-----------------------------------------------------------------------------
(* REMOVE deletes, CLEAR empties.                                          *)

Removed(s, k) == [i \in 1..(Len(s) - 1) |-> IF i < k THEN s[i] ELSE s[i + 1]]

LEMMA RemovedFrom ==
  ASSUME NEW s \in Seq(Elem), NEW k \in 1..Len(s)
  PROVE  /\ Removed(s, k) \in Seq(Elem) /\ Len(Removed(s, k)) = Len(s) - 1
         /\ \A i \in 1..(Len(s) - 1) : Removed(s, k)[i] = IF i < k THEN s[i] ELSE s[i + 1]
<1>1. Len(s) \in Nat /\ Len(s) - 1 \in Nat /\ \A i \in 1..Len(s) : s[i] \in Elem
  BY SequenceOf
<1>2. \A i \in 1..(Len(s) - 1) : (IF i < k THEN s[i] ELSE s[i + 1]) \in Elem
  BY <1>1
<1> QED
  BY <1>1, <1>2 DEF Removed

LEMMA RemoveLists ==
  ASSUME Shape, NEW q, Lists(q), NEW e \in Elem, REMOVE(e)
  PROVE  \E r \in Rec : \E k \in 1..Len(q[r]) :
           /\ r = enqueued[e] /\ q[r][k] = e
           /\ Lists([q EXCEPT ![r] = Removed(q[r], k)])'
<1>1. PICK r \in Rec : r = enqueued[e]
  BY DEF REMOVE, Shape
<1>2. PICK s \in Seq(Elem) : s = q[r] /\ LinkedAs(r, s)
  BY DEF Lists
<1>3. PICK k \in 1..Len(s) : s[k] = e
  BY <1>1, <1>2, LinkedQueuesAssumption DEF Lists
<1>4. Len(s) \in Nat /\ k \in Nat /\ \A i \in 1..Len(s) : s[i] \in Elem /\ s[i] # Null /\ enqueued[s[i]] = r
  BY <1>2, SequenceOf DEF LinkedAs
<1>5. \A a, b \in 1..Len(s) : s[a] = s[b] => a = b
  BY <1>2 DEF LinkedAs
<1>6. \A i \in 1..Len(s) : /\ next[s[i]] = IF i < Len(s) THEN s[i + 1] ELSE Null
                           /\ previous[s[i]] = IF i > 1 THEN s[i - 1] ELSE Null
  BY <1>2 DEF LinkedAs
<1>7. /\ \A x \in Elem : /\ previous'[x] = IF x = next[e] THEN previous[e] ELSE previous[x]
                         /\ next'[x] = IF x = previous[e] THEN next[e] ELSE next[x]
      /\ head' = [head EXCEPT ![r] = IF head[r] = e THEN next[e] ELSE head[r]]
      /\ count' = [count EXCEPT ![r] = count[r] - 1]
      /\ enqueued' = [enqueued EXCEPT ![e] = Null]
  BY <1>1 DEF REMOVE
<1>8. /\ head'[r] = (IF head[r] = e THEN next[e] ELSE head[r]) /\ count'[r] = count[r] - 1
      /\ \A x \in Rec \ {r} : head'[x] = head[x] /\ count'[x] = count[x]
      /\ enqueued'[e] = Null /\ \A x \in Elem \ {e} : enqueued'[x] = enqueued[x]
      /\ enqueued' \in [Elem -> Rec \cup {Null}]
  BY <1>7 DEF Shape
<1>9. /\ next[e] = IF k < Len(s) THEN s[k + 1] ELSE Null
      /\ previous[e] = IF k > 1 THEN s[k - 1] ELSE Null
  BY <1>3, <1>6
<1>10. PICK t \in Seq(Elem) :
         /\ t = Removed(s, k) /\ Len(t) = Len(s) - 1
         /\ \A i \in 1..(Len(s) - 1) : t[i] = IF i < k THEN s[i] ELSE s[i + 1]
  BY RemovedFrom
<1>11. \A i \in 1..Len(s) : i # k =>
         /\ enqueued'[s[i]] = r
         /\ next'[s[i]] = IF i = k - 1 THEN next[e] ELSE next[s[i]]
         /\ previous'[s[i]] = IF i = k + 1 THEN previous[e] ELSE previous[s[i]]
  <2> SUFFICES ASSUME NEW i \in 1..Len(s), i # k
               PROVE  /\ enqueued'[s[i]] = r
                      /\ next'[s[i]] = IF i = k - 1 THEN next[e] ELSE next[s[i]]
                      /\ previous'[s[i]] = IF i = k + 1 THEN previous[e] ELSE previous[s[i]]
    OBVIOUS
  <2>1. s[i] # e /\ s[i] \in Elem /\ s[i] # Null
    BY <1>3, <1>4, <1>5
  <2>2. s[i] = next[e] <=> i = k + 1
    <3>1. k < Len(s) => k + 1 \in 1..Len(s)
      BY <1>4
    <3> QED BY <1>4, <1>5, <1>9, <2>1, <3>1
  <2>3. s[i] = previous[e] <=> i = k - 1
    <3>1. k > 1 => k - 1 \in 1..Len(s)
      BY <1>4
    <3> QED BY <1>4, <1>5, <1>9, <2>1, <3>1
  <2> QED BY <1>4, <1>7, <1>8, <2>1, <2>2, <2>3
<1>12. LinkedAs(r, t)'
  <2>1. count'[r] = Len(t)
    BY <1>2, <1>8, <1>10 DEF LinkedAs
  <2>2. head'[r] = IF Len(t) = 0 THEN Null ELSE t[1]
    <3>1. head[r] = s[1] /\ 1 \in 1..Len(s)
      BY <1>2, <1>4 DEF LinkedAs
    <3>2. s[1] = e <=> k = 1
      BY <1>3, <1>5, <3>1
    <3>3. CASE k = 1
      BY <1>4, <1>8, <1>9, <1>10, <3>1, <3>2, <3>3
    <3>4. CASE k # 1
      BY <1>4, <1>8, <1>10, <3>1, <3>2, <3>4
    <3> QED BY <3>3, <3>4
  <2>3. ASSUME NEW i \in 1..Len(t)
        PROVE  /\ enqueued'[t[i]] = r
               /\ next'[t[i]] = IF i < Len(t) THEN t[i + 1] ELSE Null
               /\ previous'[t[i]] = IF i > 1 THEN t[i - 1] ELSE Null
    <3>1. CASE i < k
      <4>1. Len(t) = Len(s) - 1 /\ k <= Len(s)
        BY <1>10
      <4>2. Len(s) \in Nat /\ k \in Nat /\ i \in Nat /\ 1 <= i /\ i < k
        BY <1>4, <1>10, <3>1
      <4>3. /\ i \in 1..Len(s) /\ i \in 1..(Len(s) - 1) /\ i # k /\ i # k + 1 /\ i < Len(s)
            /\ i > 1 => i - 1 \in 1..(Len(s) - 1) /\ i - 1 < k
        BY <4>1, <4>2
      <4>4. /\ i < Len(t) => i + 1 \in 1..(Len(s) - 1)
            /\ i + 1 < k <=> i # k - 1
        BY <4>1, <4>2
      <4>5. /\ i = k - 1 => k = i + 1 /\ (k < Len(s) <=> i < Len(t))
            /\ i # k - 1 => i < Len(t)
        BY <4>1, <4>2
      <4>6. /\ i \in 1..Len(s) /\ i \in 1..(Len(s) - 1) /\ i # k /\ i # k + 1 /\ i < Len(s)
            /\ i > 1 => i - 1 \in 1..(Len(s) - 1) /\ i - 1 < k
            /\ i < Len(t) => i + 1 \in 1..(Len(s) - 1)
            /\ i + 1 < k <=> i # k - 1
            /\ i = k - 1 => k = i + 1 /\ (k < Len(s) <=> i < Len(t))
            /\ i # k - 1 => i < Len(t)
        BY <4>3, <4>4, <4>5
      <4>7. t[i] = s[i] /\ (i > 1 => t[i - 1] = s[i - 1])
            /\ (i < Len(t) => t[i + 1] = IF i # k - 1 THEN s[i + 1] ELSE s[k + 1])
        BY <1>10, <3>1, <4>6
      <4>8. /\ enqueued'[s[i]] = r
            /\ next'[s[i]] = IF i = k - 1 THEN next[e] ELSE next[s[i]]
            /\ previous'[s[i]] = previous[s[i]]
            /\ next[s[i]] = s[i + 1]
            /\ previous[s[i]] = IF i > 1 THEN s[i - 1] ELSE Null
        BY <1>6, <1>11, <4>6
      <4> QED BY <1>9, <4>6, <4>7, <4>8
    <3>2. CASE ~ (i < k)
      <4>1. /\ i + 1 \in 1..Len(s) /\ i \in 1..(Len(s) - 1) /\ i + 1 # k /\ i + 1 # k - 1
            /\ i + 1 = k + 1 <=> i = k
            /\ i > 1 => i - 1 \in 1..(Len(s) - 1)
            /\ i - 1 < k <=> i = k
            /\ i < Len(t) <=> i + 1 < Len(s)
            /\ i < Len(t) => i + 1 \in 1..(Len(s) - 1) /\ ~ (i + 1 < k)
            /\ i - 1 + 1 = i /\ i + 1 - 1 = i /\ i + 1 > 1
        BY <1>4, <1>10, <3>2
      <4>2. t[i] = s[i + 1] /\ (i > 1 => t[i - 1] = IF i = k THEN s[i - 1] ELSE s[i])
            /\ (i < Len(t) => t[i + 1] = s[i + 1 + 1])
        BY <1>10, <3>2, <4>1
      <4>3. /\ enqueued'[s[i + 1]] = r
            /\ next'[s[i + 1]] = next[s[i + 1]]
            /\ previous'[s[i + 1]] = IF i = k THEN previous[e] ELSE previous[s[i + 1]]
            /\ next[s[i + 1]] = IF i + 1 < Len(s) THEN s[i + 1 + 1] ELSE Null
            /\ previous[s[i + 1]] = s[i]
        BY <1>6, <1>11, <4>1
      <4>4. i # k => i > 1
        BY <1>4, <3>2
      <4> QED BY <1>9, <4>1, <4>2, <4>3, <4>4
    <3> QED BY <3>1, <3>2
  <2>4. \A i, j \in 1..Len(t) : t[i] = t[j] => i = j
    <3> SUFFICES ASSUME NEW i \in 1..Len(t), NEW j \in 1..Len(t), t[i] = t[j] PROVE i = j
      OBVIOUS
    <3> DEFINE Old(n) == IF n < k THEN n ELSE n + 1
    <3>1. Len(t) = Len(s) - 1 /\ Len(s) \in Nat
      BY <1>4, <1>10
    <3>2. \A n \in 1..Len(t) : Old(n) \in 1..Len(s) /\ t[n] = s[Old(n)]
      <4> SUFFICES ASSUME NEW n \in 1..Len(t) PROVE Old(n) \in 1..Len(s) /\ t[n] = s[Old(n)]
        OBVIOUS
      <4>1. n \in 1..(Len(s) - 1)
        BY <3>1
      <4>2. t[n] = s[Old(n)]
        BY <1>10, <4>1
      <4>3. Old(n) \in 1..Len(s)
        BY <3>1, <4>1
      <4> QED BY <4>2, <4>3
    <3>3. Old(i) = Old(j) => i = j
      <4>1. i \in Nat /\ j \in Nat
        OBVIOUS
      <4> QED BY <1>4, <4>1
    <3> HIDE DEF Old
    <3> QED BY <1>5, <3>2, <3>3
  <2> QED BY <2>1, <2>2, <2>3, <2>4 DEF LinkedAs
<1>13. \A x \in Elem : enqueued'[x] = r => \E i \in 1..Len(t) : t[i] = x
  <2> SUFFICES ASSUME NEW x \in Elem, enqueued'[x] = r PROVE \E i \in 1..Len(t) : t[i] = x
    OBVIOUS
  <2>1. x # e /\ enqueued[x] = r
    BY <1>8, LinkedQueuesAssumption
  <2>2. PICK i \in 1..Len(s) : s[i] = x
    BY <1>2, <2>1, LinkedQueuesAssumption DEF Lists
  <2>3. CASE i < k
    <3>1. i \in 1..(Len(s) - 1)
      BY <1>4, <2>3
    <3> QED BY <1>10, <2>2, <2>3, <3>1
  <2>4. CASE ~ (i < k)
    <3>1. i # k
      BY <1>3, <2>1, <2>2
    <3>2. i - 1 \in 1..(Len(s) - 1) /\ ~ (i - 1 < k) /\ i - 1 + 1 = i
      BY <1>4, <2>4, <3>1
    <3>3. t[i - 1] = s[i]
      BY <1>10, <3>2
    <3> QED BY <1>10, <2>2, <3>2, <3>3
  <2> QED BY <2>3, <2>4
<1>14. Lists([q EXCEPT ![r] = t])'
  <2>1. \A x \in Elem : enqueued[x] \notin {r, Null} =>
          enqueued'[x] = enqueued[x] /\ next'[x] = next[x] /\ previous'[x] = previous[x]
    <3>1. enqueued[e] = r /\ (next[e] # Null => enqueued[next[e]] = r) /\ (previous[e] # Null => enqueued[previous[e]] = r)
      BY <1>1, <1>4, <1>9
    <3> QED BY <1>7, <1>8, <3>1, LinkedQueuesAssumption
  <2>2. \A x \in Elem : enqueued'[x] \notin {r, Null} => enqueued'[x] = enqueued[x]
    BY <1>8
  <2> QED BY <1>8, <1>12, <1>13, <2>1, <2>2, OneList
<1>15. \E n \in 1..Len(q[r]) : q[r][n] = e /\ Lists([q EXCEPT ![r] = Removed(q[r], n)])'
  <2>1. k \in 1..Len(q[r]) /\ q[r][k] = e /\ t = Removed(q[r], k)
    BY <1>2, <1>3, <1>10
  <2> QED BY <1>14, <2>1
<1> QED
  BY <1>1, <1>15

LEMMA ClearLists ==
  ASSUME Shape, NEW q, Lists(q), NEW r \in Rec, CLEAR(r)
  PROVE  Lists([q EXCEPT ![r] = <<>>])' /\ enqueued' \in [Elem -> Rec \cup {Null}]
<1>1. PICK s \in Seq(Elem) : s = q[r] /\ LinkedAs(r, s)
  BY DEF Lists
<1>2. {Walk(head[r])[n] : n \in Linked(r)} = {s[i] : i \in 1..Len(s)}
  BY <1>1, LinkedIs
<1>3. \A x \in Elem : x \in {s[i] : i \in 1..Len(s)} <=> enqueued[x] = r
  BY <1>1, LinkedQueuesAssumption DEF Lists, LinkedAs
<1>4. /\ \A x \in Elem : previous'[x] = IF enqueued[x] = r THEN previous[head[r]] ELSE previous[x]
      /\ enqueued' = [x \in Elem |-> IF enqueued[x] = r THEN Null ELSE enqueued[x]]
      /\ head'[r] = Null /\ count'[r] = 0 /\ next' = next
      /\ \A x \in Rec \ {r} : head'[x] = head[x] /\ count'[x] = count[x]
  BY <1>2, <1>3 DEF CLEAR, Shape
<1>5. \A x \in Elem : enqueued'[x] = IF enqueued[x] = r THEN Null ELSE enqueued[x]
  BY <1>4
<1>6. enqueued' \in [Elem -> Rec \cup {Null}]
  BY <1>4 DEF Shape
<1>7. LinkedAs(r, <<>>)' /\ <<>> \in Seq(Elem)
  BY <1>4 DEF LinkedAs
<1>8. \A x \in Elem : enqueued'[x] # r
  BY <1>5, LinkedQueuesAssumption
<1>9. \A x \in Elem : enqueued[x] \notin {r, Null} =>
        enqueued'[x] = enqueued[x] /\ next'[x] = next[x] /\ previous'[x] = previous[x]
  BY <1>4, <1>5
<1>10. \A x \in Elem : enqueued'[x] \notin {r, Null} => enqueued'[x] = enqueued[x]
  BY <1>5
<1> QED
  BY <1>4, <1>6, <1>7, <1>8, <1>9, <1>10, OneList

-----------------------------------------------------------------------------
(* The invariant and the theorems about it.                                *)

LEMMA InitLists == Init => IInv
<1> SUFFICES ASSUME Init PROVE IInv
  OBVIOUS
<1>1. Shape
  BY LinkedQueuesAssumption DEF Init, Shape
<1> DEFINE q == [r \in Rec |-> <<>>]
<1>2. q \in [Rec -> Seq(Elem)]
  OBVIOUS
<1>3. \A r \in Rec : LinkedAs(r, q[r])
  BY DEF Init, LinkedAs
<1>4. \A e \in Elem : enqueued[e] = Null
  BY DEF Init
<1>5. Lists(q)
  BY <1>2, <1>3, <1>4 DEF Lists
<1> QED
  BY <1>1, <1>5 DEF IInv

LEMMA EnqueueShape ==
  ASSUME Shape, NEW q, Lists(q), NEW r \in Rec, NEW e \in Elem, NEW k \in Keys,
         ENQUEUE(r, e, k), enqueued[e] = Null
  PROVE  Shape'
<1>1. PICK s \in Seq(Elem) : s = q[r] /\ LinkedAs(r, s)
  BY DEF Lists
<1>2. PICK eff \in Keys : eff = IF r \in Prioritized THEN k ELSE MinPriority
  BY LinkedQueuesAssumption
<1>3. /\ key' = [key EXCEPT ![e] = eff]
      /\ \/ head[r] = Null /\ LinkAlone(r, e)
         \/ /\ head[r] # Null
            /\ IF Before(r \in Ascending, eff, key[Stop(r, eff)])
               THEN LinkBefore(r, e, Stop(r, eff)) ELSE LinkAfter(r, e, Stop(r, eff))
      /\ count' = [count EXCEPT ![r] = @ + 1] /\ enqueued' = [enqueued EXCEPT ![e] = r]
  BY <1>2 DEF ENQUEUE
<1>4. Len(s) \in Nat /\ (head[r] # Null => Len(s) # 0)
  BY <1>1 DEF LinkedAs
<1>5. head[r] # Null => Stop(r, eff) \in Elem
  <2>1. head[r] # Null => \E m \in 1..Len(s) : Stop(r, eff) = s[m]
    BY <1>1, <1>4, StopAt
  <2> QED BY <2>1
<1>6. /\ key' \in [Elem -> Keys] /\ count' \in [Rec -> Nat]
      /\ enqueued' \in [Elem -> Rec \cup {Null}]
  BY <1>3 DEF Shape
<1>7. /\ head' \in [Rec -> Elem \cup {Null}]
      /\ next' \in [Elem -> Elem \cup {Null}] /\ previous' \in [Elem -> Elem \cup {Null}]
  <2>1. CASE head[r] = Null
    BY <1>3, <2>1 DEF LinkAlone, Shape
  <2>2. CASE head[r] # Null /\ LinkBefore(r, e, Stop(r, eff))
    BY <1>5, <2>2 DEF LinkBefore, Shape
  <2>3. CASE head[r] # Null /\ LinkAfter(r, e, Stop(r, eff))
    BY <1>5, <2>3 DEF LinkAfter, Shape
  <2> QED BY <1>3, <2>1, <2>2, <2>3
<1> QED
  BY <1>6, <1>7 DEF Shape

LEMMA RemoveShape ==
  ASSUME Shape, NEW q, Lists(q), NEW e \in Elem, REMOVE(e)
  PROVE  Shape'
<1>1. PICK r \in Rec : r = enqueued[e]
  BY DEF REMOVE, Shape
<1>2. /\ previous' = [x \in Elem |-> IF x = next[e] THEN previous[e] ELSE previous[x]]
      /\ next' = [x \in Elem |-> IF x = previous[e] THEN next[e] ELSE next[x]]
      /\ head' = [head EXCEPT ![r] = IF @ = e THEN next[e] ELSE @]
      /\ count' = [count EXCEPT ![r] = @ - 1] /\ count[r] # 0
      /\ enqueued' = [enqueued EXCEPT ![e] = Null] /\ key' = key
  BY <1>1 DEF REMOVE
<1>3. count[r] - 1 \in Nat
  <2>1. PICK n \in Nat : n = count[r] /\ n # 0
    BY <1>2 DEF Shape
  <2>2. n - 1 \in Nat
    BY <2>1
  <2> QED BY <2>1, <2>2
<1>4. count' \in [Rec -> Nat] /\ head' \in [Rec -> Elem \cup {Null}]
  BY <1>2, <1>3 DEF Shape
<1> QED
  BY <1>2, <1>4 DEF Shape

LEMMA ClearShape ==
  ASSUME Shape, NEW q, Lists(q), NEW r \in Rec, CLEAR(r)
  PROVE  Shape'
<1>1. enqueued' \in [Elem -> Rec \cup {Null}]
  BY ClearLists
<1>2. head[r] \in Elem
  BY DEF CLEAR, Shape
<1>3. /\ previous' = [x \in Elem |-> IF x \in {Walk(head[r])[n] : n \in Linked(r)}
                                     THEN previous[head[r]] ELSE previous[x]]
      /\ head' = [head EXCEPT ![r] = Null] /\ count' = [count EXCEPT ![r] = 0]
      /\ next' = next /\ key' = key
  BY DEF CLEAR
<1> QED
  BY <1>1, <1>2, <1>3 DEF Shape

\* A step that only gives an entry another key.
LEMMA TouchLists ==
  ASSUME Shape, NEW q, Lists(q), UNCHANGED <<head, count, next, previous, enqueued>>
  PROVE  Lists(q)' /\ (key' \in [Elem -> Keys] => Shape')
<1>1. \A r \in Rec : LinkedAs(r, q[r])'
  BY DEF Lists, LinkedAs
<1>2. Lists(q)'
  BY <1>1 DEF Lists
<1> QED
  BY <1>2 DEF Shape

LEMMA IInvInductive == IInv /\ [Next]_vars => IInv'
<1> SUFFICES ASSUME IInv, [Next]_vars PROVE IInv'
  OBVIOUS
<1>1. PICK q : Shape /\ Lists(q)
  BY DEF IInv
<1>2. ASSUME NEW r \in Rec, NEW e \in Elem, NEW k \in Keys, ENQUEUE(r, e, k) PROVE IInv'
  <2>1. CASE enqueued[e] # Null
    <3>1. key' \in [Elem -> Keys] /\ UNCHANGED <<head, count, next, previous, enqueued>>
      BY <1>1, <1>2, <2>1 DEF ENQUEUE, Shape
    <3> QED BY <1>1, <3>1, TouchLists DEF IInv
  <2>2. CASE enqueued[e] = Null
    <3>1. \E t : Lists(t)'
      BY <1>1, <1>2, <2>2, EnqueueLists
    <3>2. Shape'
      BY <1>1, <1>2, <2>2, EnqueueShape
    <3> QED BY <3>1, <3>2 DEF IInv
  <2> QED BY <2>1, <2>2
<1>3. ASSUME NEW e \in Elem, REMOVE(e) PROVE IInv'
  <2>1. \E t : Lists(t)'
    BY <1>1, <1>3, RemoveLists
  <2>2. Shape'
    BY <1>1, <1>3, RemoveShape
  <2> QED BY <2>1, <2>2 DEF IInv
<1>4. ASSUME NEW r \in Rec, CLEAR(r) PROVE IInv'
  <2>1. \E t : Lists(t)'
    BY <1>1, <1>4, ClearLists
  <2>2. Shape'
    BY <1>1, <1>4, ClearShape
  <2> QED BY <2>1, <2>2 DEF IInv
<1>5. CASE UNCHANGED vars
  <2>1. key' \in [Elem -> Keys] /\ UNCHANGED <<head, count, next, previous, enqueued>>
    BY <1>1, <1>5 DEF vars, Shape
  <2> QED BY <1>1, <2>1, TouchLists DEF IInv
<1> QED
  BY <1>2, <1>3, <1>4, <1>5 DEF Next

\* At any time there are sequences of which the pointers are the links.
THEOREM QueuesAreLinked == Spec => []IInv
BY InitLists, IInvInductive, PTL DEF Spec

LEMMA ListsAre ==
  ASSUME IInv
  PROVE  TypeOK /\ ListsMatchMembership /\ PreviousInvertsNext
<1>1. PICK q : Shape /\ Lists(q)
  BY DEF IInv
<1>2. ASSUME NEW r \in Rec
      PROVE  /\ count[r] \in 0..Cardinality(Elem) /\ count[r] = Cardinality(Linked(r))
             /\ {Walk(head[r])[n] : n \in Linked(r)} = {e \in Elem : enqueued[e] = r}
             /\ Walk(head[r])[Cardinality(Elem)] = Null
  <2>1. PICK s \in Seq(Elem) : s = q[r] /\ LinkedAs(r, s)
    BY <1>1 DEF Lists
  <2>2. Len(s) \in Nat /\ Len(s) <= Cardinality(Elem) /\ Cardinality(Elem) \in Nat
    BY <2>1, ListFits, SequenceOf DEF LinkedAs
  <2>3. count[r] = Len(s)
    BY <2>1 DEF LinkedAs
  <2>4. {s[i] : i \in 1..Len(s)} = {e \in Elem : enqueued[e] = r}
    <3>1. \A e \in Elem : enqueued[e] = r => \E i \in 1..Len(s) : s[i] = e
      BY <1>1, <2>1, LinkedQueuesAssumption DEF Lists
    <3>2. \A i \in 1..Len(s) : s[i] \in Elem /\ enqueued[s[i]] = r
      BY <2>1, SequenceOf DEF LinkedAs
    <3> QED BY <3>1, <3>2
  <2>5. /\ Cardinality(Linked(r)) = Len(s) /\ Walk(head[r])[Cardinality(Elem)] = Null
        /\ {Walk(head[r])[n] : n \in Linked(r)} = {s[i] : i \in 1..Len(s)}
    BY <2>1, LinkedIs
  <2>6. count[r] \in 0..Cardinality(Elem)
    BY <2>2, <2>3
  <2> QED BY <2>3, <2>4, <2>5, <2>6
<1>3. TypeOK
  <2>1. count \in [Rec -> 0..Cardinality(Elem)]
    BY <1>1, <1>2 DEF Shape
  <2> QED BY <1>1, <2>1 DEF Shape, TypeOK
<1>4. ListsMatchMembership
  BY <1>2 DEF ListsMatchMembership
<1>5. ASSUME NEW e \in Elem, enqueued[e] # Null
      PROVE  /\ next[e] # Null => previous[next[e]] = e
             /\ previous[e] = Null <=> head[enqueued[e]] = e
  <2>1. PICK r \in Rec : r = enqueued[e]
    BY <1>1, <1>5 DEF Shape
  <2>2. PICK s \in Seq(Elem) : s = q[r] /\ LinkedAs(r, s)
    BY <1>1 DEF Lists
  <2>3. PICK i \in 1..Len(s) : s[i] = e
    BY <1>1, <1>5, <2>1, <2>2 DEF Lists
  <2>4. Len(s) \in Nat /\ \A j \in 1..Len(s) : s[j] # Null
    BY SequenceOf
  <2>5. /\ \A j \in 1..Len(s) : /\ next[s[j]] = IF j < Len(s) THEN s[j + 1] ELSE Null
                                /\ previous[s[j]] = IF j > 1 THEN s[j - 1] ELSE Null
        /\ \A a, b \in 1..Len(s) : s[a] = s[b] => a = b
        /\ head[r] = s[1]
    BY <2>2, <2>3, <2>4 DEF LinkedAs
  <2>6. next[e] # Null => previous[next[e]] = e
    <3>1. i < Len(s) => i + 1 \in 1..Len(s) /\ i + 1 > 1 /\ i + 1 - 1 = i
      BY <2>4
    <3> QED BY <2>3, <2>5, <3>1
  <2>7. previous[e] = Null <=> i = 1
    <3>1. i > 1 => i - 1 \in 1..Len(s)
      BY <2>4
    <3>2. i # 1 => i > 1
      BY <2>4
    <3> QED BY <2>3, <2>4, <2>5, <3>1, <3>2
  <2>8. head[r] = e <=> i = 1
    <3>1. 1 \in 1..Len(s)
      BY <2>4
    <3> QED BY <2>3, <2>5, <3>1
  <2> QED BY <2>1, <2>6, <2>7, <2>8
<1>6. PreviousInvertsNext
  BY <1>5 DEF PreviousInvertsNext
<1> QED
  BY <1>3, <1>4, <1>6

\* Every pointer points where its type says, and SIZ_COUNT never exceeds the
\* number of entries.
THEOREM TypeCorrect == Spec => []TypeOK
BY QueuesAreLinked, ListsAre, PTL

\* The entries met along ENT_NEXT from a head are those whose REC_ENQUEUED is
\* the record, SIZ_COUNT of them, and the walk ends.
THEOREM ListsAreMembership == Spec => []ListsMatchMembership
BY QueuesAreLinked, ListsAre, PTL

\* REMOVE may trust ENT_PREVIOUS: it inverts ENT_NEXT, and is null at the head.
THEOREM PreviousIsInverse == Spec => []PreviousInvertsNext
BY QueuesAreLinked, ListsAre, PTL

-----------------------------------------------------------------------------
(* The linked lists implement the abstract queues.                         *)

\* The entries of s with their keys.
Keyed(s, f) == [i \in 1..Len(s) |-> [id |-> s[i], pri |-> f[s[i]]]]

LEMMA KeyedIs ==
  ASSUME NEW s \in Seq(Elem), NEW f
  PROVE  /\ Len(s) \in Nat /\ Len(Keyed(s, f)) = Len(s) /\ DOMAIN Keyed(s, f) = 1..Len(s)
         /\ \A i \in 1..Len(s) : /\ Keyed(s, f)[i] = [id |-> s[i], pri |-> f[s[i]]]
                                 /\ Keyed(s, f)[i].id = s[i] /\ Keyed(s, f)[i].pri = f[s[i]]
<1>1. Len(s) \in Nat
  BY SequenceOf
<1> QED
  BY <1>1 DEF Keyed

\* Following the pointers reads off the sequences of which they are the links.
ReadOff == \A q : Lists(q) => [r \in Rec |-> Queue(r)] = [r \in Rec |-> Keyed(q[r], key)]

LEMMA ReadsOff == ReadOff
<1> SUFFICES ASSUME NEW q, Lists(q)
             PROVE  [r \in Rec |-> Queue(r)] = [r \in Rec |-> Keyed(q[r], key)]
  BY DEF ReadOff
<1>1. ASSUME NEW r \in Rec PROVE Queue(r) = Keyed(q[r], key)
  BY LinkedIs DEF Lists, Keyed
<1> QED
  BY <1>1

\* m is the place for key k in s, whose entries have the keys f.
PlaceIn(s, f, asc, k, m) ==
  /\ m <= Len(s) => Before(asc, k, f[s[m]])
  /\ \A j \in 1..(m - 1) : ~ Before(asc, k, f[s[j]])

\* e is not in s, and g gives the entries of s the keys that f gives them.
NewTo(s, e, f, g) == \A i \in 1..Len(s) : s[i] # e /\ g[s[i]] = f[s[i]]

LEMMA PutInto ==
  ASSUME NEW s \in Seq(Elem), NEW m \in 1..(Len(s) + 1), NEW e \in Elem, NEW f, NEW g,
         NewTo(s, e, f, g)
  PROVE  \A asc : PlaceIn(s, f, asc, g[e], m) =>
           Keyed(Insert(s, m, e), g) = Abstract!Enqueue(Keyed(s, f), asc, e, g[e])
<1> SUFFICES ASSUME NEW asc, PlaceIn(s, f, asc, g[e], m)
             PROVE  Keyed(Insert(s, m, e), g) = Abstract!Enqueue(Keyed(s, f), asc, e, g[e])
  OBVIOUS
<1> DEFINE k == g[e]
<1> HIDE DEF k
<1>1. /\ \A i \in 1..Len(s) : s[i] # e /\ g[s[i]] = f[s[i]]
      /\ m <= Len(s) => Before(asc, k, f[s[m]])
      /\ \A j \in 1..(m - 1) : ~ Before(asc, k, f[s[j]])
  BY DEF NewTo, PlaceIn, k
<1>2. g[e] = k
  BY DEF k
<1>3. PICK v : v = Keyed(s, f)
  OBVIOUS
<1>4. /\ Len(s) \in Nat /\ Len(v) = Len(s) /\ DOMAIN v = 1..Len(s)
      /\ \A i \in 1..Len(s) : /\ v[i] = [id |-> s[i], pri |-> f[s[i]]]
                              /\ v[i].id = s[i] /\ v[i].pri = f[s[i]]
  BY <1>3, KeyedIs
<1>5. PICK t \in Seq(Elem) :
        /\ t = Insert(s, m, e) /\ Len(t) = Len(s) + 1
        /\ \A i \in 1..(Len(s) + 1) : t[i] = IF i < m THEN s[i] ELSE IF i = m THEN e ELSE s[i - 1]
  <2>1. PICK t : t = Insert(s, m, e)
    OBVIOUS
  <2>2. t \in Seq(Elem) /\ Len(t) = Len(s) + 1
    BY <2>1, InsertInto
  <2>3. \A i \in 1..(Len(s) + 1) : t[i] = IF i < m THEN s[i] ELSE IF i = m THEN e ELSE s[i - 1]
    BY <2>1 DEF Insert
  <2> QED BY <2>1, <2>2, <2>3
<1>6. ~ Abstract!Enqueued(v, e)
  BY <1>4, <1>1 DEF Abstract!Enqueued
<1> DEFINE Here(n) == /\ n <= Len(v) => Before(asc, k, v[n].pri)
                      /\ \A j \in 1..(n - 1) : ~ Before(asc, k, v[j].pri)
<1>7. Here(m)
  <2>1. m <= Len(s) => m \in 1..Len(s)
    BY <1>4
  <2>2. \A j \in 1..(m - 1) : j \in 1..Len(s)
    BY <1>4
  <2> QED BY <1>4, <1>1, <2>1, <2>2
<1>8. ASSUME NEW n \in 1..(Len(v) + 1), Here(n) PROVE n = m
  <2>1. CASE n < m
    <3>1. n <= Len(v) /\ n \in 1..(m - 1) /\ n \in 1..Len(s)
      BY <1>4, <2>1
    <3>2. Before(asc, k, f[s[n]]) /\ ~ Before(asc, k, f[s[n]])
      BY <1>4, <1>8, <1>1, <3>1
    <3> QED BY <3>2
  <2>2. CASE m < n
    <3>1. m <= Len(s) /\ m \in 1..(n - 1) /\ m \in 1..Len(s)
      BY <1>4, <2>2
    <3>2. Before(asc, k, f[s[m]]) /\ ~ Before(asc, k, f[s[m]])
      BY <1>4, <1>8, <1>1, <3>1
    <3> QED BY <3>2
  <2>3. n \in Int /\ m \in Int
    BY <1>4
  <2> QED BY <2>1, <2>2, <2>3
<1>9. Abstract!Position(v, asc, k) = m
  <2>1. Abstract!Position(v, asc, k) = CHOOSE n \in 1..(Len(v) + 1) : Here(n)
    BY DEF Abstract!Position, Abstract!Before, Before
  <2>2. m \in 1..(Len(v) + 1)
    BY <1>4
  <2> HIDE DEF Here
  <2> QED BY <1>7, <1>8, <2>1, <2>2
<1> DEFINE new == [id |-> e, pri |-> k]
<1>10. Abstract!Enqueue(v, asc, e, k) =
        [i \in 1..(Len(s) + 1) |-> IF i < m THEN v[i] ELSE IF i = m THEN new ELSE v[i - 1]]
  BY <1>4, <1>6, <1>9 DEF Abstract!Enqueue, Abstract!Insert
<1>11. ASSUME NEW i \in 1..(Len(s) + 1)
      PROVE  [id |-> t[i], pri |-> g[t[i]]] = IF i < m THEN v[i] ELSE IF i = m THEN new ELSE v[i - 1]
  <2>1. CASE i < m
    <3>1. i \in 1..Len(s)
      BY <1>4, <2>1
    <3>2. t[i] = s[i] /\ g[s[i]] = f[s[i]] /\ v[i] = [id |-> s[i], pri |-> f[s[i]]]
      BY <1>4, <1>5, <1>1, <2>1, <3>1
    <3> HIDE DEF new
    <3> QED BY <2>1, <3>2
  <2>2. CASE i = m
    BY <1>4, <1>5, <1>2, <2>2
  <2>3. CASE i > m
    <3>1. i - 1 \in 1..Len(s) /\ ~ (i < m) /\ i # m
      BY <1>4, <2>3
    <3>2. /\ t[i] = s[i - 1] /\ g[s[i - 1]] = f[s[i - 1]]
          /\ v[i - 1] = [id |-> s[i - 1], pri |-> f[s[i - 1]]]
      BY <1>4, <1>5, <1>1, <3>1
    <3> HIDE DEF new
    <3> QED BY <3>1, <3>2
  <2>4. i \in Int /\ m \in Int
    BY <1>4
  <2> QED BY <2>1, <2>2, <2>3, <2>4
<1>12. Keyed(t, g) = [i \in 1..(Len(s) + 1) |-> [id |-> t[i], pri |-> g[t[i]]]]
  BY <1>5 DEF Keyed
<1> QED
  BY <1>3, <1>5, <1>10, <1>11, <1>12, <1>2

\* A key changes no sequence that does not hold its entry.
LEMMA KeyedSame ==
  ASSUME NEW s \in Seq(Elem), NEW f, NEW g, \A i \in 1..Len(s) : g[s[i]] = f[s[i]]
  PROVE  Keyed(s, g) = Keyed(s, f)
BY DEF Keyed

LEMMA TouchIn ==
  ASSUME NEW s \in Seq(Elem), NEW e \in Elem, NEW f, NEW k, NEW g,
         g[e] = k, \A x \in Elem \ {e} : g[x] = f[x]
  PROVE  Keyed(s, g) = Abstract!Rekey(Keyed(s, f), e, k)
<1>1. PICK v : v = Keyed(s, f)
  OBVIOUS
<1>2. /\ Len(s) \in Nat /\ DOMAIN v = 1..Len(s)
      /\ \A i \in 1..Len(s) : v[i] = [id |-> s[i], pri |-> f[s[i]]] /\ v[i].id = s[i]
  BY <1>1, KeyedIs
<1>3. \A i \in 1..Len(s) : s[i] \in Elem
  BY SequenceOf
<1>4. \A i \in 1..Len(s) :
        [id |-> s[i], pri |-> g[s[i]]] = IF v[i].id = e THEN [id |-> e, pri |-> k] ELSE v[i]
  BY <1>2, <1>3
<1>5. Keyed(s, g) = [i \in 1..Len(s) |-> [id |-> s[i], pri |-> g[s[i]]]]
  BY DEF Keyed
<1> QED
  BY <1>1, <1>2, <1>4, <1>5 DEF Abstract!Rekey

LEMMA TakeFrom ==
  ASSUME NEW s \in Seq(Elem), NEW e \in Elem, NEW f, NEW k \in 1..Len(s), s[k] = e,
         \A i, j \in 1..Len(s) : s[i] = s[j] => i = j
  PROVE  Keyed(Removed(s, k), f) = Abstract!Dequeue(Keyed(s, f), e)
<1>1. PICK v : v = Keyed(s, f)
  OBVIOUS
<1>2. /\ Len(s) \in Nat /\ Len(v) = Len(s) /\ DOMAIN v = 1..Len(s)
      /\ \A i \in 1..Len(s) : v[i] = [id |-> s[i], pri |-> f[s[i]]] /\ v[i].id = s[i]
  BY <1>1, KeyedIs
<1>3. Abstract!Enqueued(v, e)
  BY <1>2 DEF Abstract!Enqueued
<1>4. Abstract!IndexOf(v, e) = k
  <2>1. \A i \in DOMAIN v : v[i].id = e <=> i = k
    BY <1>2
  <2> QED BY <1>2, <2>1 DEF Abstract!IndexOf
<1>5. Abstract!Dequeue(v, e) = [i \in 1..(Len(s) - 1) |-> IF i < k THEN v[i] ELSE v[i + 1]]
  BY <1>2, <1>3, <1>4 DEF Abstract!Dequeue
<1>6. PICK t \in Seq(Elem) :
        /\ t = Removed(s, k) /\ Len(t) = Len(s) - 1
        /\ \A i \in 1..(Len(s) - 1) : t[i] = IF i < k THEN s[i] ELSE s[i + 1]
  BY RemovedFrom
<1>7. Keyed(t, f) = [i \in 1..(Len(s) - 1) |-> [id |-> t[i], pri |-> f[t[i]]]]
  BY <1>6 DEF Keyed
<1>8. \A i \in 1..(Len(s) - 1) : i \in 1..Len(s) /\ i + 1 \in 1..Len(s)
  BY <1>2
<1>9. \A i \in 1..(Len(s) - 1) : [id |-> t[i], pri |-> f[t[i]]] = IF i < k THEN v[i] ELSE v[i + 1]
  BY <1>2, <1>6, <1>8
<1> QED
  BY <1>1, <1>5, <1>6, <1>7, <1>9

\* Nothing is taken from a sequence that does not hold the entry.
LEMMA TakeNothing ==
  ASSUME NEW s \in Seq(Elem), NEW e, NEW f, \A i \in 1..Len(s) : s[i] # e
  PROVE  Abstract!Dequeue(Keyed(s, f), e) = Keyed(s, f)
<1>1. PICK v : v = Keyed(s, f)
  OBVIOUS
<1>2. DOMAIN v = 1..Len(s) /\ \A i \in 1..Len(s) : v[i].id = s[i]
  BY <1>1, KeyedIs
<1> QED
  BY <1>1, <1>2 DEF Abstract!Dequeue, Abstract!Enqueued

\* The entries of the abstract queues.
LEMMA AbstractLinked ==
  ASSUME Shape, NEW q, Lists(q), NEW e \in Elem
  PROVE  (\E r \in Rec : Abstract!Enqueued(Keyed(q[r], key), e)) <=> enqueued[e] # Null
<1>1. \A r \in Rec : Abstract!Enqueued(Keyed(q[r], key), e) <=> \E i \in 1..Len(q[r]) : q[r][i] = e
  <2> SUFFICES ASSUME NEW r \in Rec
               PROVE  Abstract!Enqueued(Keyed(q[r], key), e) <=> \E i \in 1..Len(q[r]) : q[r][i] = e
    OBVIOUS
  <2>1. q[r] \in Seq(Elem)
    BY DEF Lists
  <2>2. PICK s \in Seq(Elem) : s = q[r]
    BY <2>1
  <2>3. PICK v : v = Keyed(s, key)
    OBVIOUS
  <2>4. DOMAIN v = 1..Len(s) /\ \A i \in 1..Len(s) : v[i].id = s[i]
    BY <2>3, KeyedIs
  <2> QED BY <2>2, <2>3, <2>4 DEF Abstract!Enqueued
<1>2. \A r \in Rec : (\E i \in 1..Len(q[r]) : q[r][i] = e) <=> enqueued[e] = r
  BY LinkedQueuesAssumption DEF Lists, LinkedAs
<1>3. enqueued[e] # Null <=> \E r \in Rec : enqueued[e] = r
  BY LinkedQueuesAssumption DEF Shape
<1> QED
  BY <1>1, <1>2, <1>3

\* The abstract queues before and after a step that makes the lists q the lists p.
LEMMA ImageOfStep ==
  ASSUME NEW q, NEW p, Lists(q), Lists(p)'
  PROVE  /\ [r \in Rec |-> Queue(r)] = [r \in Rec |-> Keyed(q[r], key)]
         /\ [r \in Rec |-> Queue(r)]' = [r \in Rec |-> Keyed(p[r], key')]
<1>1. [r \in Rec |-> Queue(r)] = [r \in Rec |-> Keyed(q[r], key)]
  BY ReadsOff DEF ReadOff
<1>2. ReadOff'
  BY ReadsOff, PTL
<1>3. [r \in Rec |-> Queue(r)]' = [r \in Rec |-> Keyed(p[r], key)]'
  BY <1>2 DEF ReadOff
<1> QED
  BY <1>1, <1>3

LEMMA PutImplements ==
  ASSUME Shape, NEW q, Lists(q), NEW r \in Rec, NEW e \in Elem, NEW k \in Keys,
         ENQUEUE(r, e, k), enqueued[e] = Null
  PROVE  Abstract!Put(r, e, k)
<1>1. PICK eff \in Keys : eff = IF r \in Prioritized THEN k ELSE MinPriority
  BY LinkedQueuesAssumption
<1>2. PICK m \in 1..(Len(q[r]) + 1) : Place(r, q[r], eff, m) /\ Lists([q EXCEPT ![r] = Insert(q[r], m, e)])'
  BY <1>1, EnqueueLists
<1>3. PICK s \in Seq(Elem) : s = q[r] /\ LinkedAs(r, s)
  BY DEF Lists
<1>4. PICK p : p = [q EXCEPT ![r] = Insert(s, m, e)]
  OBVIOUS
<1>5. q \in [Rec -> Seq(Elem)] /\ p[r] = Insert(s, m, e) /\ \A x \in Rec \ {r} : p[x] = q[x]
  BY <1>4 DEF Lists
<1>6. PICK v : v = [x \in Rec |-> Queue(x)] /\ v = [x \in Rec |-> Keyed(q[x], key)]
  BY ReadsOff DEF ReadOff
<1>7. PICK w : w = [x \in Rec |-> Queue(x)]' /\ w = [x \in Rec |-> Keyed(p[x], key')]
  <2>1. Lists(p)'
    BY <1>2, <1>3, <1>4
  <2>2. [x \in Rec |-> Queue(x)]' = [x \in Rec |-> Keyed(p[x], key')]
    BY <2>1, ImageOfStep
  <2> QED BY <2>2
<1>8. key'[e] = eff /\ \A x \in Elem \ {e} : key'[x] = key[x]
  BY <1>1 DEF ENQUEUE, Shape
<1>9. ASSUME NEW x \in Rec, NEW i \in 1..Len(q[x]) PROVE q[x][i] # e /\ key'[q[x][i]] = key[q[x][i]]
  <2>1. PICK t \in Seq(Elem) : t = q[x] /\ LinkedAs(x, t)
    BY DEF Lists
  <2>2. t[i] \in Elem /\ enqueued[t[i]] = x
    BY <2>1, SequenceOf DEF LinkedAs
  <2>3. t[i] # e
    BY <2>2, LinkedQueuesAssumption
  <2> QED BY <1>8, <2>1, <2>2, <2>3
<1>10. w[r] = Abstract!Enqueue(v[r], r \in Ascending, e, eff)
  <2>1. m \in 1..(Len(s) + 1) /\ (m <= Len(s) => Before(r \in Ascending, eff, key[s[m]]))
        /\ \A j \in 1..(m - 1) : ~ Before(r \in Ascending, eff, key[s[j]])
    BY <1>2, <1>3 DEF Place
  <2>2. \A i \in 1..Len(s) : s[i] # e /\ key'[s[i]] = key[s[i]]
    BY <1>3, <1>9
  <2>3. Keyed(Insert(s, m, e), key') = Abstract!Enqueue(Keyed(s, key), r \in Ascending, e, eff)
    <3>1. PICK f, g : f = key /\ g = key'
      OBVIOUS
    <3>2. NewTo(s, e, f, g) /\ g[e] = eff
      BY <1>8, <2>2, <3>1 DEF NewTo
    <3>3. PlaceIn(s, f, r \in Ascending, g[e], m) /\ m \in 1..(Len(s) + 1)
      BY <2>1, <3>1, <3>2 DEF PlaceIn
    <3>4. PICK a : a = Keyed(Insert(s, m, e), g)
      OBVIOUS
    <3>5. PICK b : b = Keyed(s, f)
      OBVIOUS
    <3>6. \A asc : PlaceIn(s, f, asc, g[e], m) => a = Abstract!Enqueue(b, asc, e, g[e])
      BY <3>2, <3>3, <3>4, <3>5, PutInto
    <3>7. a = Abstract!Enqueue(b, r \in Ascending, e, g[e])
      BY <3>3, <3>6
    <3> QED BY <3>1, <3>2, <3>7, <3>4, <3>5
  <2> QED BY <1>3, <1>5, <1>6, <1>7, <2>3
<1>11. ASSUME NEW x \in Rec \ {r} PROVE w[x] = v[x]
  <2>1. q[x] \in Seq(Elem) /\ \A i \in 1..Len(q[x]) : key'[q[x][i]] = key[q[x][i]]
    BY <1>5, <1>9
  <2>2. Keyed(q[x], key') = Keyed(q[x], key)
    BY <2>1, KeyedSame
  <2>3. v[x] = Keyed(q[x], key)
    BY <1>6
  <2>4. w[x] = Keyed(p[x], key')
    BY <1>7
  <2>5. p[x] = q[x]
    BY <1>5
  <2> QED BY <2>2, <2>3, <2>4, <2>5
<1>12. w = [v EXCEPT ![r] = Abstract!Enqueue(v[r], r \in Ascending, e, eff)]
  BY <1>6, <1>7, <1>10, <1>11
<1>13. ~ Abstract!Linked(e)
  <2>1. \A x \in Rec : ~ Abstract!Enqueued(v[x], e)
    BY <1>6, AbstractLinked
  <2> QED BY <1>6, <2>1 DEF Abstract!Linked
<1>14. eff = IF r \in Prioritized THEN k ELSE Abstract!MinPriority
  BY <1>1 DEF MinPriority, Abstract!MinPriority
<1> QED
  BY <1>6, <1>7, <1>12, <1>13, <1>14 DEF Abstract!Put

LEMMA TouchImplements ==
  ASSUME Shape, NEW q, Lists(q), NEW r \in Rec, NEW e \in Elem, NEW k \in Keys,
         ENQUEUE(r, e, k), enqueued[e] # Null
  PROVE  Abstract!Touch(e, k)
<1>1. UNCHANGED <<head, count, next, previous, enqueued>> /\ key' = [key EXCEPT ![e] = k]
  BY DEF ENQUEUE
<1>2. Lists(q)'
  BY <1>1, TouchLists
<1>3. PICK v : v = [x \in Rec |-> Queue(x)] /\ v = [x \in Rec |-> Keyed(q[x], key)]
  BY ReadsOff DEF ReadOff
<1>4. PICK w : w = [x \in Rec |-> Queue(x)]' /\ w = [x \in Rec |-> Keyed(q[x], key')]
  BY <1>2, ImageOfStep
<1>5. key'[e] = k /\ \A x \in Elem \ {e} : key'[x] = key[x]
  BY <1>1 DEF Shape
<1>6. ASSUME NEW x \in Rec PROVE w[x] = Abstract!Rekey(v[x], e, k)
  <2>1. q[x] \in Seq(Elem)
    BY DEF Lists
  <2>2. Keyed(q[x], key') = Abstract!Rekey(Keyed(q[x], key), e, k)
    BY <1>5, <2>1, TouchIn
  <2> QED BY <1>3, <1>4, <2>2
<1>7. w = [x \in Rec |-> Abstract!Rekey(v[x], e, k)]
  BY <1>4, <1>6
<1>8. Abstract!Linked(e)
  <2>1. \E x \in Rec : Abstract!Enqueued(v[x], e)
    BY <1>3, AbstractLinked
  <2> QED BY <1>3, <2>1 DEF Abstract!Linked
<1> QED
  BY <1>3, <1>4, <1>7, <1>8 DEF Abstract!Touch

LEMMA TakeImplements ==
  ASSUME Shape, NEW q, Lists(q), NEW e \in Elem, REMOVE(e)
  PROVE  Abstract!Take(e)
<1>1. PICK r \in Rec : \E k \in 1..Len(q[r]) :
        r = enqueued[e] /\ q[r][k] = e /\ Lists([q EXCEPT ![r] = Removed(q[r], k)])'
  BY RemoveLists
<1>2. PICK k \in 1..Len(q[r]) : q[r][k] = e /\ Lists([q EXCEPT ![r] = Removed(q[r], k)])'
  BY <1>1
<1>3. PICK s \in Seq(Elem) : s = q[r] /\ LinkedAs(r, s)
  BY DEF Lists
<1>4. PICK p : p = [q EXCEPT ![r] = Removed(s, k)]
  OBVIOUS
<1>5. q \in [Rec -> Seq(Elem)] /\ p[r] = Removed(s, k) /\ \A x \in Rec \ {r} : p[x] = q[x]
  BY <1>4 DEF Lists
<1>6. PICK v : v = [x \in Rec |-> Queue(x)] /\ v = [x \in Rec |-> Keyed(q[x], key)]
  BY ReadsOff DEF ReadOff
<1>7. PICK w : w = [x \in Rec |-> Queue(x)]' /\ w = [x \in Rec |-> Keyed(p[x], key')]
  <2>1. Lists(p)'
    BY <1>2, <1>3, <1>4
  <2>2. [x \in Rec |-> Queue(x)]' = [x \in Rec |-> Keyed(p[x], key')]
    BY <2>1, ImageOfStep
  <2> QED BY <2>2
<1>8. key' = key
  BY DEF REMOVE
<1>9. w[r] = Abstract!Dequeue(v[r], e)
  <2>1. k \in 1..Len(s) /\ s[k] = e /\ \A i, j \in 1..Len(s) : s[i] = s[j] => i = j
    BY <1>2, <1>3 DEF LinkedAs
  <2>2. Keyed(Removed(s, k), key) = Abstract!Dequeue(Keyed(s, key), e)
    BY <2>1, TakeFrom
  <2> QED BY <1>3, <1>5, <1>6, <1>7, <1>8, <2>2
<1>10. ASSUME NEW x \in Rec \ {r} PROVE w[x] = Abstract!Dequeue(v[x], e)
  <2>1. PICK t \in Seq(Elem) : t = q[x] /\ LinkedAs(x, t)
    BY DEF Lists
  <2>2. \A i \in 1..Len(t) : t[i] # e
    BY <1>1, <2>1 DEF LinkedAs
  <2>3. Abstract!Dequeue(Keyed(t, key), e) = Keyed(t, key)
    BY <2>2, TakeNothing
  <2> QED BY <1>5, <1>6, <1>7, <1>8, <2>1, <2>3
<1>11. w = [x \in Rec |-> Abstract!Dequeue(v[x], e)]
  BY <1>7, <1>9, <1>10
<1>12. Abstract!Linked(e)
  <2>1. \E x \in Rec : Abstract!Enqueued(v[x], e)
    BY <1>1, <1>6, AbstractLinked, LinkedQueuesAssumption
  <2> QED BY <1>6, <2>1 DEF Abstract!Linked
<1> QED
  BY <1>6, <1>7, <1>11, <1>12 DEF Abstract!Take

LEMMA EmptyImplements ==
  ASSUME Shape, NEW q, Lists(q), NEW r \in Rec, CLEAR(r)
  PROVE  Abstract!Empty(r)
<1>1. PICK p : p = [q EXCEPT ![r] = <<>>] /\ Lists(p)'
  BY ClearLists
<1>2. q \in [Rec -> Seq(Elem)] /\ p[r] = <<>> /\ \A x \in Rec \ {r} : p[x] = q[x]
  BY <1>1 DEF Lists
<1>3. PICK v : v = [x \in Rec |-> Queue(x)] /\ v = [x \in Rec |-> Keyed(q[x], key)]
  BY ReadsOff DEF ReadOff
<1>4. PICK w : w = [x \in Rec |-> Queue(x)]' /\ w = [x \in Rec |-> Keyed(p[x], key')]
  <2>1. Lists(p)'
    BY <1>1
  <2>2. [x \in Rec |-> Queue(x)]' = [x \in Rec |-> Keyed(p[x], key')]
    BY <2>1, ImageOfStep
  <2> QED BY <2>2
<1>5. key' = key
  BY DEF CLEAR
<1>6. Keyed(<<>>, key) = <<>>
  BY DEF Keyed
<1>7. w[r] = <<>> /\ \A x \in Rec \ {r} : w[x] = v[x]
  BY <1>2, <1>3, <1>4, <1>5, <1>6
<1>8. w = [v EXCEPT ![r] = <<>>]
  BY <1>3, <1>4, <1>7
<1> QED
  BY <1>3, <1>4, <1>8 DEF Abstract!Empty

LEMMA InitImplements == Init => Abstract!Init
<1> SUFFICES ASSUME Init PROVE Abstract!Init
  OBVIOUS
<1> DEFINE q == [r \in Rec |-> <<>>]
<1>1. Lists(q)
  <2>1. \A e \in Elem : enqueued[e] = Null
    BY DEF Init
  <2>2. \A r \in Rec : LinkedAs(r, q[r])
    BY DEF Init, LinkedAs
  <2> QED BY <2>1, <2>2 DEF Lists
<1>2. [r \in Rec |-> Queue(r)] = [r \in Rec |-> Keyed(q[r], key)]
  BY <1>1, ReadsOff DEF ReadOff
<1>3. Keyed(<<>>, key) = <<>>
  BY DEF Keyed
<1> QED
  BY <1>2, <1>3 DEF Abstract!Init

LEMMA StepImplements ==
  IInv /\ [Next]_vars => [Abstract!Next]_[r \in Rec |-> Queue(r)]
<1> SUFFICES ASSUME IInv, [Next]_vars
             PROVE  Abstract!Next \/ UNCHANGED [r \in Rec |-> Queue(r)]
  OBVIOUS
<1>1. PICK q : Shape /\ Lists(q)
  BY DEF IInv
<1>2. ASSUME NEW r \in Rec, NEW e \in Elem, NEW k \in Keys, ENQUEUE(r, e, k) PROVE Abstract!Next
  <2>1. CASE enqueued[e] = Null
    BY <1>1, <1>2, <2>1, PutImplements DEF Abstract!Next
  <2>2. CASE enqueued[e] # Null
    BY <1>1, <1>2, <2>2, TouchImplements DEF Abstract!Next
  <2> QED BY <2>1, <2>2
<1>3. ASSUME NEW e \in Elem, REMOVE(e) PROVE Abstract!Next
  BY <1>1, <1>3, TakeImplements DEF Abstract!Next
<1>4. ASSUME NEW r \in Rec, CLEAR(r) PROVE Abstract!Next
  BY <1>1, <1>4, EmptyImplements DEF Abstract!Next
<1>5. CASE UNCHANGED vars
  <2>1. Lists(q)' /\ key' = key
    BY <1>1, <1>5, TouchLists DEF vars
  <2>2. [r \in Rec |-> Queue(r)]' = [r \in Rec |-> Queue(r)]
    BY <1>1, <2>1, ImageOfStep
  <2> QED BY <2>2
<1> QED
  BY <1>2, <1>3, <1>4, <1>5 DEF Next

\* The linked lists implement queues that are sequences.
THEOREM QueuesAreSequences == Spec => ImplementsQueues
<1>1. Spec => Abstract!Init
  BY InitImplements, PTL DEF Spec
<1>2. Spec => [][Abstract!Next]_[r \in Rec |-> Queue(r)]
  BY QueuesAreLinked, StepImplements, PTL DEF Spec
<1> QED
  BY <1>1, <1>2, PTL DEF ImplementsQueues, Abstract!Spec
=============================================================================
