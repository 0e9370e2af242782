--------------------------- MODULE PriorityQueues ---------------------------
(***************************************************************************)
(* The kernel's priority queues (arinc653_priorityqueue.c) as sequences.   *)
(* A queue is the sequence of its entries from ENT_HEAD on; an entry keeps *)
(* the process it stands for (VAL_VALUE) and its key (PRI_PRIORITY).       *)
(* Module LinkedQueues models the doubly linked lists of the C code and    *)
(* is checked to implement these operators.                                *)
(***************************************************************************)
EXTENDS Integers, Sequences

\* The key every entry of a queue that is not PRIORITIZED gets.
MinPriority == 1

Entry(S) == [id : S, pri : Int]

Ids(q) == {q[i].id : i \in DOMAIN q}

Enqueued(q, p) == \E i \in DOMAIN q : q[i].id = p

IndexOf(q, p) == CHOOSE i \in DOMAIN q : q[i].id = p

\* Does an entry with key a go in front of an entry with key b?
Before(ascending, a, b) == IF ascending THEN a < b ELSE a > b

\* Mutant: the position lookup is missing.
BadPosition(q, ascending, pri) == Len(q) + 1

\* Where ENQUEUE puts a new entry: in front of the first entry it precedes,
\* at the tail when it precedes none, hence after the entries of its own key.
Position(q, ascending, pri) ==
  CHOOSE k \in 1..(Len(q) + 1) :
    /\ k <= Len(q) => Before(ascending, pri, q[k].pri)
    /\ \A j \in 1..(k - 1) : ~ Before(ascending, pri, q[j].pri)

\* The first k-1 entries, then e, then the rest.
Insert(q, k, e) ==
  [i \in 1..(Len(q) + 1) |-> IF i < k THEN q[i] ELSE IF i = k THEN e ELSE q[i - 1]]

\* Overwriting PRI_PRIORITY of an entry that is still linked.
Rekey(q, p, pri) ==
  [i \in DOMAIN q |-> IF q[i].id = p THEN [id |-> p, pri |-> pri] ELSE q[i]]

\* Callers store the key in the entry and then call PRIORITYQUEUE_ENQUEUE. When
\* the entry is already linked the call returns at once: the entry keeps its
\* place although its key has changed.
Enqueue(q, ascending, p, pri) ==
  IF Enqueued(q, p) THEN Rekey(q, p, pri)
                    ELSE Insert(q, Position(q, ascending, pri), [id |-> p, pri |-> pri])

\* Mutant: removing the head does not move ENT_HEAD.
BadDequeue(q, p) ==
  IF Enqueued(q, p) /\ IndexOf(q, p) > 1
  THEN LET k == IndexOf(q, p)
       IN  [i \in 1..(Len(q) - 1) |-> IF i < k THEN q[i] ELSE q[i + 1]]
  ELSE q

\* PRIORITYQUEUE_REMOVE of p's entry; nothing happens when it is not linked.
Dequeue(q, p) ==
  IF Enqueued(q, p)
  THEN LET k == IndexOf(q, p)
       IN  [i \in 1..(Len(q) - 1) |-> IF i < k THEN q[i] ELSE q[i + 1]]
  ELSE q

-----------------------------------------------------------------------------
(* What the users of the queues rely on.                                   *)

\* No process has two entries in a queue.
DistinctIds(q) == \A i, j \in DOMAIN q : q[i].id = q[j].id => i = j

\* No entry belongs in front of an entry nearer to the head.
Sorted(q, ascending) ==
  \A i, j \in DOMAIN q : i < j => ~ Before(ascending, q[j].pri, q[i].pri)
=============================================================================
