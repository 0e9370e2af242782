-------------------------- MODULE AbstractChannels --------------------------
(***************************************************************************)
(* What a buffer, and a queuing port, promises to those who send to it and *)
(* receive from it: a FIFO channel of bounded capacity that loses, invents *)
(* and reorders nothing. Waiting is not visible here.                      *)
(***************************************************************************)
EXTENDS Integers, Sequences

CONSTANTS
  Channel,       \* the channels
  Capacity,      \* how many messages each can hold
  Message, None  \* the messages, and no message yet

VARIABLES
  content,   \* the messages in each channel
  delivered  \* the last message each channel has delivered

Init ==
  /\ content = [c \in Channel |-> <<>>]
  /\ delivered = [c \in Channel |-> None]

Accept(c, m) ==
  /\ Len(content[c]) < Capacity[c]
  /\ content' = [content EXCEPT ![c] = Append(@, m)]
  /\ UNCHANGED delivered

Deliver(c) ==
  /\ content[c] # <<>>
  /\ delivered' = [delivered EXCEPT ![c] = Head(content[c])]
  /\ content' = [content EXCEPT ![c] = Tail(@)]

\* A receiver has been waiting: the message goes straight to it.
HandOver(c, m) ==
  /\ content[c] = <<>>
  /\ delivered' = [delivered EXCEPT ![c] = m]
  /\ UNCHANGED content

\* A sender has been waiting: its message takes the place of the one delivered.
Exchange(c, m) ==
  /\ Len(content[c]) = Capacity[c]
  /\ delivered' = [delivered EXCEPT ![c] = Head(content[c])]
  /\ content' = [content EXCEPT ![c] = Append(Tail(@), m)]

Next ==
  \E c \in Channel :
    \/ Deliver(c)
    \/ \E m \in Message : Accept(c, m) \/ HandOver(c, m) \/ Exchange(c, m)

Spec == Init /\ [][Next]_<<content, delivered>>
=============================================================================
