---------------------------- MODULE LinkedQueues ----------------------------
(***************************************************************************)
(* The doubly linked lists of arinc653_priorityqueue.c. Every entry can be *)
(* linked into at most one of several records: ENT_PROCESSWAITING_RESOURCE *)
(* is shared by all the semaphores, events, buffers, blackboards and ports *)
(* of a partition.                                                         *)
(***************************************************************************)
EXTENDS PriorityQueues, FiniteSets

CONSTANTS Elem,         \* the entries (one per process)
          Rec,          \* the queue records
          Null,         \* the null pointer
          Prioritized,  \* the records whose entries are ordered by key
          Ascending,    \* the records ordered by ascending key
          Keys          \* the keys callers use

ASSUME LinkedQueuesAssumption ==
  /\ IsFiniteSet(Elem) /\ Elem # {}
  /\ Null \notin Elem \cup Rec
  /\ Prioritized \subseteq Rec /\ Ascending \subseteq Rec
  /\ Keys \subseteq Int /\ MinPriority \in Keys

VARIABLES head,      \* ENT_HEAD of a record
          count,     \* SIZ_COUNT of a record
          next,      \* ENT_NEXT of an entry
          previous,  \* ENT_PREVIOUS of an entry
          enqueued,  \* REC_ENQUEUED of an entry
          key        \* PRI_PRIORITY of an entry

vars == <<head, count, next, previous, enqueued, key>>

TypeOK ==
  /\ head \in [Rec -> Elem \cup {Null}]
  /\ count \in [Rec -> 0..Cardinality(Elem)]
  /\ next \in [Elem -> Elem \cup {Null}]
  /\ previous \in [Elem -> Elem \cup {Null}]
  /\ enqueued \in [Elem -> Rec \cup {Null}]
  /\ key \in [Elem -> Keys]

Init ==
  /\ head = [r \in Rec |-> Null]
  /\ count = [r \in Rec |-> 0]
  /\ next = [e \in Elem |-> Null]
  /\ previous = [e \in Elem |-> Null]
  /\ enqueued = [e \in Elem |-> Null]
  /\ key = [e \in Elem |-> MinPriority]

\* The n-th entry of the list that starts at e, found by following ENT_NEXT.
Walk(e) ==
  LET step[n \in 0..Cardinality(Elem)] ==
        IF n = 0 THEN e ELSE IF step[n - 1] = Null THEN Null ELSE next[step[n - 1]]
  IN  step

Linked(r) == {n \in 0..Cardinality(Elem) : Walk(head[r])[n] # Null}

\* Mutant: an entry goes in front of those of its own key.
BadStop(r, k) ==
  LET walk == Walk(head[r])
      Hit(n) == ~ Before(r \in Ascending, key[walk[n]], k) \/ next[walk[n]] = Null
  IN  walk[CHOOSE n \in Linked(r) : Hit(n) /\ \A m \in 0..(n - 1) : ~ Hit(m)]

\* The entry at which the position lookup loop of ENQUEUE stops: the first one
\* the new key precedes, or else the last one.
Stop(r, k) ==
  LET walk == Walk(head[r])
      Hit(n) == Before(r \in Ascending, k, key[walk[n]]) \/ next[walk[n]] = Null
  IN  walk[CHOOSE n \in Linked(r) : Hit(n) /\ \A m \in 0..(n - 1) : ~ Hit(m)]

\* Mutants: one of the pointers the entry last had in a list is kept.
BadNextAlone(r, e) ==
  /\ head' = [head EXCEPT ![r] = e]
  /\ previous' = [previous EXCEPT ![e] = Null]
  /\ UNCHANGED next
BadPreviousAlone(r, e) ==
  /\ head' = [head EXCEPT ![r] = e]
  /\ next' = [next EXCEPT ![e] = Null]
  /\ UNCHANGED previous

LinkAlone(r, e) ==
  /\ head' = [head EXCEPT ![r] = e]
  /\ next' = [next EXCEPT ![e] = Null]
  /\ previous' = [previous EXCEPT ![e] = Null]

\* e in front of s, which may be the head.
LinkBefore(r, e, s) ==
  /\ previous' = [previous EXCEPT ![e] = previous[s], ![s] = e]
  /\ next' = [x \in Elem |-> IF x = e THEN s
                             ELSE IF x = previous[s] THEN e ELSE next[x]]
  /\ head' = [head EXCEPT ![r] = IF @ = s THEN e ELSE @]

\* e behind s, which is the last entry.
LinkAfter(r, e, s) ==
  /\ next' = [next EXCEPT ![e] = next[s], ![s] = e]
  /\ previous' = [x \in Elem |-> IF x = e THEN s
                                 ELSE IF x = next[s] THEN e ELSE previous[x]]
  /\ UNCHANGED head

\* A caller stores key k in entry e and enqueues it in r.
ENQUEUE(r, e, k) ==
  \/ /\ enqueued[e] # Null
     /\ key' = [key EXCEPT ![e] = k]
     /\ UNCHANGED <<head, count, next, previous, enqueued>>
  \/ LET eff == IF r \in Prioritized THEN k ELSE MinPriority
     IN  /\ enqueued[e] = Null
         /\ key' = [key EXCEPT ![e] = eff]
         /\ \/ head[r] = Null /\ LinkAlone(r, e)
            \/ /\ head[r] # Null
               /\ LET s == Stop(r, eff)
                  IN  IF Before(r \in Ascending, eff, key[s])
                      THEN LinkBefore(r, e, s) ELSE LinkAfter(r, e, s)
         /\ count' = [count EXCEPT ![r] = @ + 1]
         /\ enqueued' = [enqueued EXCEPT ![e] = r]

\* Unlinking leaves the entry's own pointers as they were.
REMOVE(e) ==
  LET r == enqueued[e]
  IN  /\ r # Null
      /\ count[r] # 0
      /\ previous' = [x \in Elem |-> IF x = next[e] THEN previous[e] ELSE previous[x]]
      /\ next' = [x \in Elem |-> IF x = previous[e] THEN next[e] ELSE next[x]]
      /\ head' = [head EXCEPT ![r] = IF @ = e THEN next[e] ELSE @]
      /\ count' = [count EXCEPT ![r] = @ - 1]
      /\ enqueued' = [enqueued EXCEPT ![e] = Null]
      /\ UNCHANGED key

\* Mutant: SIZ_COUNT is not reset.
BadCLEAR(r) ==
  /\ head[r] # Null
  /\ head' = [head EXCEPT ![r] = Null]
  /\ enqueued' = [x \in Elem |-> IF enqueued[x] = r THEN Null ELSE enqueued[x]]
  /\ UNCHANGED <<next, previous, count, key>>

\* Removes the head until the list is empty. Removing the head sets the
\* ENT_PREVIOUS of the next entry to null and touches no ENT_NEXT.
CLEAR(r) ==
  /\ head[r] # Null
  /\ LET gone == {Walk(head[r])[n] : n \in Linked(r)}
     IN  /\ previous' = [x \in Elem |-> IF x \in gone THEN previous[head[r]] ELSE previous[x]]
         /\ enqueued' = [x \in Elem |-> IF x \in gone THEN Null ELSE enqueued[x]]
  /\ head' = [head EXCEPT ![r] = Null]
  /\ count' = [count EXCEPT ![r] = 0]
  /\ UNCHANGED <<next, key>>

Next ==
  \/ \E r \in Rec, e \in Elem, k \in Keys : ENQUEUE(r, e, k)
  \/ \E e \in Elem : REMOVE(e)
  \/ \E r \in Rec : CLEAR(r)

Spec == Init /\ [][Next]_vars

-----------------------------------------------------------------------------
\* Following ENT_NEXT from the head of a record meets exactly the entries whose
\* REC_ENQUEUED is that record, SIZ_COUNT of them, and never runs in a circle.
ListsMatchMembership ==
  \A r \in Rec :
    /\ {Walk(head[r])[n] : n \in Linked(r)} = {e \in Elem : enqueued[e] = r}
    /\ count[r] = Cardinality(Linked(r))
    /\ Walk(head[r])[Cardinality(Elem)] = Null

\* Inside a list ENT_PREVIOUS inverts ENT_NEXT and is null at the head: what
\* REMOVE needs to unlink an entry without walking the list.
PreviousInvertsNext ==
  \A e \in Elem : enqueued[e] # Null =>
    /\ next[e] # Null => previous[next[e]] = e
    /\ previous[e] = Null <=> head[enqueued[e]] = e

\* The abstract queues: each record as the sequence of its entries.
Queue(r) == [i \in 1..Cardinality(Linked(r)) |->
               LET e == Walk(head[r])[i - 1] IN [id |-> e, pri |-> key[e]]]

Abstract == INSTANCE AbstractQueues WITH queue <- [r \in Rec |-> Queue(r)]

\* The linked lists implement queues that are sequences.
ImplementsQueues == Abstract!Spec
=============================================================================
