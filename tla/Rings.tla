-------------------------------- MODULE Rings -------------------------------
(***************************************************************************)
(* The ring of messages that buffers and queuing ports keep: MESSAGES,     *)
(* NEXT_MESSAGE_INDEX and MESSAGE_COUNT of BUFFER_INFORMATION_TYPE and of  *)
(* QUEUINGPORT_INFORMATION_TYPE (arinc653_core.h).                         *)
(***************************************************************************)
EXTENDS Integers, Sequences

\* Rings of max messages out of S, and the ring that CREATE_PARTITION leaves.
Ring(max, S) == [slot : [0..(max - 1) -> S], next : 0..(max - 1), count : 0..max]

EmptyRing(max, none) == [slot |-> [i \in 0..(max - 1) |-> none], next |-> 0, count |-> 0]

\* Indices past the end begin anew, by one comparison and one subtraction.
Wrap(max, i) == IF i >= max THEN i - max ELSE i

Oldest(ring) == ring.slot[ring.next]

\* Mutant: messages go where they would in a ring that has not been turned.
BadStore(ring, max, m) == [ring EXCEPT !.slot[ring.count] = m, !.count = @ + 1]

Store(ring, max, m) ==
  [ring EXCEPT !.slot[Wrap(max, ring.next + ring.count)] = m, !.count = @ + 1]

\* Mutant: the next index is not wrapped.
BadDrop(ring, max) == [ring EXCEPT !.count = @ - 1, !.next = @ + 1]

Drop(ring, max) == [ring EXCEPT !.count = @ - 1, !.next = Wrap(max, @ + 1)]

\* The messages in a ring, the oldest first.
Contents(ring, max) ==
  [i \in 1..ring.count |-> ring.slot[Wrap(max, ring.next + i - 1)]]
=============================================================================
