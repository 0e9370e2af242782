---------------------------- MODULE QueuingPorts ----------------------------
(***************************************************************************)
(* Queuing ports (arinc653_interpartitionCommunication_queuingPort.c). The *)
(* processes of a partition send to a SOURCE port and receive from a       *)
(* DESTINATION port; the I/O partition takes from the one and puts into    *)
(* the other (module SystemPartitionIO). Whoever waits for a port does its *)
(* part of the transfer itself when it runs again, without looking at      *)
(* MESSAGE_COUNT a second time.                                            *)
(*                                                                         *)
(* A message is the number, modulo Numbering, under which its source port  *)
(* has accepted it.                                                        *)
(***************************************************************************)
EXTENDS CommunicationObjects, Rings

CONSTANTS
  QueuingPort,   \* the queuing ports among the objects
  Source,        \* the ports with PORT_DIRECTION SOURCE
  MaxNbMessage,  \* MAX_NB_MESSAGE of each
  Numbering,     \* how many numbers messages have, more than are ever in a channel
  SizeLimit      \* what SIZE_TYPE wraps at, 2^32 in the code, more than memory holds

ASSUME QueuingPortsAssumption ==
  /\ QueuingPort \subseteq Resource
  /\ MaxNbMessage \in [QueuingPort -> Nat \ {0}]
  /\ Numbering \in Nat \ {0} /\ Message = 0..(Numbering - 1)
  /\ SizeLimit \in Nat /\ \A q \in QueuingPort : MaxNbMessage[q] + 1 < SizeLimit

VARIABLES
  ring,      \* MESSAGES, NEXT_MESSAGE_INDEX and MESSAGE_COUNT of each port
  overflow,  \* the ports with their OVERFLOW set
  accepted,  \* auxiliary: the number that the next message of a source gets
  delivered  \* auxiliary: the last message each port has given away

queuingVars == <<ring, overflow, accepted, delivered>>

\* Only CREATE_PARTITION empties a port; a restart keeps messages and OVERFLOW.
QueuingPortsInit ==
  /\ ring = [q \in QueuingPort |-> EmptyRing(MaxNbMessage[q], None)]
  /\ overflow = {}
  /\ accepted = [q \in QueuingPort \cap Source |-> 0]
  /\ delivered = [q \in QueuingPort |-> None]

Following(m) == (m + 1) % Numbering

Full(q) == ring[q].count >= MaxNbMessage[q]

\* The message is copied behind the others and counted.
Put(q, m) == ring' = [ring EXCEPT ![q] = Store(@, MaxNbMessage[q], m)]

\* The oldest message is copied out and no longer counted.
Get(q) ==
  LET rest == Drop(ring[q], MaxNbMessage[q])
  IN  /\ delivered' = [delivered EXCEPT ![q] = Oldest(ring[q])]
      /\ ring' = [ring EXCEPT ![q] = [rest EXCEPT !.count = @ % SizeLimit]]

\* SIGNAL_RESOURCE, if anyone waits.
PassOn(q) ==
  IF queue[q] = <<>> THEN UNCHANGED objectVars
                     ELSE Signal(q) /\ UNCHANGED <<normal, objects, call>>

\* A process whose wait was granted does its part and signals the next who waits.
ReturnAndPassOn(p, q) ==
  LET back == [wait EXCEPT ![p] = "none"]
  IN  /\ wait[p] = "granted"
      /\ call' = [call EXCEPT ![p] = NoCall]
      /\ IF queue[q] = <<>>
         THEN wait' = back /\ UNCHANGED queue
         ELSE wait' = [back EXCEPT ![Head(queue[q])] = "granted"]
              /\ queue' = [queue EXCEPT ![q] = Tail(@)]

CREATE_QUEUING_PORT(q) == Create(q) /\ UNCHANGED queuingVars

Sending(q) == [service |-> "SEND_QUEUING_MESSAGE", object |-> q]
Receiving(q) == [service |-> "RECEIVE_QUEUING_MESSAGE", object |-> q]

Accept(q) ==
  /\ Put(q, accepted[q])
  /\ accepted' = [accepted EXCEPT ![q] = Following(@)]

SEND_QUEUING_MESSAGE(p, q, kind) ==
  /\ q \in Source /\ MayCall(p, q)
  /\ \/ /\ ~ Full(q) /\ queue[q] = <<>>
        /\ Accept(q)
        /\ UNCHANGED <<objectVars, overflow, delivered>>
     \/ /\ Full(q) \/ queue[q] # <<>>
        /\ Block(p, q, kind, Sending(q))
        /\ UNCHANGED <<normal, objects, queuingVars>>

SendReturns(p) ==
  LET q == call[p].object
  IN  /\ call[p].service = "SEND_QUEUING_MESSAGE"
      /\ \/ /\ wait[p] = "granted"
            /\ Accept(q)
            /\ ReturnAndPassOn(p, q)
            /\ UNCHANGED <<overflow, delivered>>
         \/ /\ wait[p] = "expired"
            /\ Comeback(p)
            /\ UNCHANGED queuingVars
      /\ UNCHANGED <<normal, objects>>

RECEIVE_QUEUING_MESSAGE(p, q, kind) ==
  /\ q \notin Source /\ MayCall(p, q)
  /\ \/ /\ ring[q].count > 0
        /\ Get(q)
        /\ overflow' = overflow \ {q}
        /\ UNCHANGED <<objectVars, accepted>>
     \/ /\ ring[q].count = 0
        /\ Block(p, q, kind, Receiving(q))
        /\ UNCHANGED <<normal, objects, queuingVars>>

\* The message is taken by whoever was woken for it; OVERFLOW stays as it is.
ReceiveReturns(p) ==
  LET q == call[p].object
  IN  /\ call[p].service = "RECEIVE_QUEUING_MESSAGE"
      /\ \/ /\ wait[p] = "granted"
            /\ Get(q)
            /\ ReturnAndPassOn(p, q)
            /\ UNCHANGED <<overflow, accepted>>
         \/ /\ wait[p] = "expired"
            /\ Comeback(p)
            /\ UNCHANGED queuingVars
      /\ UNCHANGED <<normal, objects>>

\* The services for the I/O partition: a full port refuses, and remembers it.
SEND_PARTITION_QUEUING_MESSAGE(q, m) ==
  /\ q \notin Source /\ q \in objects
  /\ \/ /\ Full(q)
        /\ overflow' = overflow \cup {q}
        /\ UNCHANGED <<objectVars, ring>>
     \/ /\ ~ Full(q)
        /\ Put(q, m)
        /\ PassOn(q)
        /\ UNCHANGED overflow
  /\ UNCHANGED <<accepted, delivered>>

\* Whether RECEIVE_PARTITION_QUEUING_MESSAGE has a message; PEEK is all it does then.
Available(q) == q \in Source \cap objects /\ ring[q].count > 0

\* Mutant: those who wait to send are not signalled.
BadRECEIVE_PARTITION_QUEUING_MESSAGE(q) ==
  /\ Available(q)
  /\ Get(q)
  /\ UNCHANGED <<objectVars, overflow, accepted>>

RECEIVE_PARTITION_QUEUING_MESSAGE(q) ==
  /\ Available(q)
  /\ Get(q)
  /\ PassOn(q)
  /\ UNCHANGED <<overflow, accepted>>

QueuingPortServices ==
  \/ \E q \in QueuingPort :
       \/ CREATE_QUEUING_PORT(q)
       \/ \E p \in Proc, kind \in Waits :
            SEND_QUEUING_MESSAGE(p, q, kind) \/ RECEIVE_QUEUING_MESSAGE(p, q, kind)
  \/ \E p \in Proc : SendReturns(p) \/ ReceiveReturns(p)

-----------------------------------------------------------------------------
\* What arinc653_core.h says of the two numbers, "Maximum number of messages" and
\* "Current number of messages": a port never holds more messages than it has places.
WithinCapacity == \A q \in QueuingPort : ring[q].count <= MaxNbMessage[q]

\* Processes wait to send only while the port is full, and to receive only while it is
\* empty, over time-outs, stops and restarts on either side of the channel.
WaitsOnlyIfBlocked ==
  \A q \in QueuingPort : queue[q] # <<>> =>
    IF q \in Source THEN Full(q) ELSE ring[q].count = 0

Channels == INSTANCE AbstractChannels WITH
  Channel <- QueuingPort,
  Capacity <- MaxNbMessage,
  content <- [q \in QueuingPort |-> Contents(ring[q], MaxNbMessage[q])]

\* With one sender and one receiver each port is a FIFO channel, although those who
\* wait store and take only when they run again.
ImplementsChannels == Channels!Spec
=============================================================================
