--------------------------- MODULE AbstractQueues ---------------------------
(***************************************************************************)
(* What a set of priority queues promises its users: every record is a     *)
(* sequence of entries, an entry is in at most one of them, and a linked   *)
(* entry that is enqueued again only changes its key.                      *)
(***************************************************************************)
EXTENDS PriorityQueues

CONSTANTS Elem, Rec, Prioritized, Ascending, Keys

VARIABLE queue

Init == queue = [r \in Rec |-> <<>>]

Linked(e) == \E r \in Rec : Enqueued(queue[r], e)

\* A new entry goes to its place; in a queue that is not PRIORITIZED to the tail.
Put(r, e, k) ==
  /\ ~ Linked(e)
  /\ queue' = [queue EXCEPT ![r] =
       Enqueue(@, r \in Ascending, e, IF r \in Prioritized THEN k ELSE MinPriority)]

\* Enqueueing a linked entry, in whatever record, rekeys it where it is.
Touch(e, k) ==
  /\ Linked(e)
  /\ queue' = [r \in Rec |-> Rekey(queue[r], e, k)]

Take(e) ==
  /\ Linked(e)
  /\ queue' = [r \in Rec |-> Dequeue(queue[r], e)]

Empty(r) == queue' = [queue EXCEPT ![r] = <<>>]

Next ==
  \/ \E r \in Rec, e \in Elem, k \in Keys : Put(r, e, k)
  \/ \E e \in Elem, k \in Keys : Touch(e, k)
  \/ \E e \in Elem : Take(e)
  \/ \E r \in Rec : Empty(r)

Spec == Init /\ [][Next]_queue
=============================================================================
