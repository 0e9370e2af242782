------------------------------- MODULE Buffers ------------------------------
(***************************************************************************)
(* Buffers (arinc653_intrapartitionCommunication_buffer.c). The one queue  *)
(* of a buffer holds the senders of a full buffer or the receivers of an   *)
(* empty one, and the services take its head for the one or the other      *)
(* without looking: whoever frees a place or brings a message finishes the *)
(* service of the head, in the memory of the process that waits.           *)
(***************************************************************************)
EXTENDS CommunicationObjects, Rings

CONSTANTS
  Buffer,        \* the buffers among the objects
  MaxNbMessage   \* MAX_NB_MESSAGE of each

ASSUME BuffersAssumption ==
  /\ Buffer \subseteq Resource
  /\ MaxNbMessage \in [Buffer -> Nat \ {0}]

VARIABLES
  ring,      \* MESSAGES, NEXT_MESSAGE_INDEX and MESSAGE_COUNT of each buffer
  delivered  \* auxiliary: the last message each buffer has given to a receiver

bufferVars == <<ring, delivered>>

\* Only CREATE_PARTITION empties a buffer; a restart keeps its messages.
BuffersInit ==
  /\ ring = [b \in Buffer |-> EmptyRing(MaxNbMessage[b], None)]
  /\ delivered = [b \in Buffer |-> None]

CREATE_BUFFER(b) == Create(b) /\ UNCHANGED bufferVars

\* message: what BUFFER_SEND_ADDRESS points to, or what has come to where
\* BUFFER_RECEIVE_ADDRESS points. done is auxiliary: another process has taken or
\* brought the message.
Sending(b, m) == [service |-> "SEND_BUFFER", object |-> b, message |-> m, done |-> FALSE]
Receiving(b) == [service |-> "RECEIVE_BUFFER", object |-> b, message |-> None, done |-> FALSE]

Full(b) == ring[b].count >= MaxNbMessage[b]

\* Mutant: only MESSAGE_COUNT is looked at, not who waits.
BadSEND_BUFFER(p, b, m, kind) ==
  /\ MayCall(p, b)
  /\ \/ /\ ~ Full(b)
        /\ ring' = [ring EXCEPT ![b] = Store(@, MaxNbMessage[b], m)]
        /\ UNCHANGED <<objectVars, delivered>>
     \/ /\ Full(b)
        /\ Block(p, b, kind, Sending(b, m))
        /\ UNCHANGED <<normal, objects, bufferVars>>

SEND_BUFFER(p, b, m, kind) ==
  LET head == Head(queue[b])
  IN  /\ MayCall(p, b)
      /\ \/ /\ ~ Full(b) /\ queue[b] = <<>>
            /\ ring' = [ring EXCEPT ![b] = Store(@, MaxNbMessage[b], m)]
            /\ UNCHANGED <<objectVars, delivered>>
         \/ /\ ~ Full(b) /\ queue[b] # <<>>
            /\ call' = [call EXCEPT ![head].message = m, ![head].done = TRUE]
            /\ delivered' = [delivered EXCEPT ![b] = m]
            /\ Signal(b)
            /\ UNCHANGED <<normal, objects, ring>>
         \/ /\ Full(b)
            /\ Block(p, b, kind, Sending(b, m))
            /\ UNCHANGED <<normal, objects, bufferVars>>

\* Mutant: the sender is woken, but its message is not taken over.
BadRECEIVE_BUFFER(p, b, kind) ==
  /\ MayCall(p, b)
  /\ \/ /\ ring[b].count > 0
        /\ delivered' = [delivered EXCEPT ![b] = Oldest(ring[b])]
        /\ ring' = [ring EXCEPT ![b] = Drop(@, MaxNbMessage[b])]
        /\ IF queue[b] = <<>> THEN UNCHANGED objectVars
                              ELSE Signal(b) /\ UNCHANGED <<normal, objects, call>>
     \/ /\ ring[b].count = 0
        /\ Block(p, b, kind, Receiving(b))
        /\ UNCHANGED <<normal, objects, bufferVars>>

RECEIVE_BUFFER(p, b, kind) ==
  LET head == Head(queue[b])
      rest == Drop(ring[b], MaxNbMessage[b])
  IN  /\ MayCall(p, b)
      /\ \/ /\ ring[b].count > 0
            /\ delivered' = [delivered EXCEPT ![b] = Oldest(ring[b])]
            /\ \/ /\ queue[b] = <<>>
                  /\ ring' = [ring EXCEPT ![b] = rest]
                  /\ UNCHANGED objectVars
               \/ /\ queue[b] # <<>>
                  /\ ring' = [ring EXCEPT ![b] = Store(rest, MaxNbMessage[b], call[head].message)]
                  /\ call' = [call EXCEPT ![head].done = TRUE]
                  /\ Signal(b)
                  /\ UNCHANGED <<normal, objects>>
         \/ /\ ring[b].count = 0
            /\ Block(p, b, kind, Receiving(b))
            /\ UNCHANGED <<normal, objects, bufferVars>>

\* A blocked service answers what WAIT_RESOURCE answered and does nothing more.
BufferReturns(p) ==
  /\ call[p].service \in {"SEND_BUFFER", "RECEIVE_BUFFER"}
  /\ Comeback(p)
  /\ UNCHANGED <<normal, objects, bufferVars>>

BufferServices ==
  \/ \E b \in Buffer :
       \/ CREATE_BUFFER(b)
       \/ \E p \in Proc, kind \in Waits :
            RECEIVE_BUFFER(p, b, kind) \/ \E m \in Message : SEND_BUFFER(p, b, m, kind)
  \/ \E p \in Proc : BufferReturns(p)

-----------------------------------------------------------------------------
\* The head of a buffer's queue is always what the services take it for: only senders
\* wait, and the buffer is full, or only receivers wait, and it is empty, also after
\* time-outs, stops and a restart with messages left over.
OneSideWaits ==
  \A b \in Buffer : \A i \in DOMAIN queue[b] :
    LET service == call[queue[b][i]].service
    IN  \/ service = "SEND_BUFFER" /\ ring[b].count = MaxNbMessage[b]
        \/ service = "RECEIVE_BUFFER" /\ ring[b].count = 0

\* Whoever waited is told NO_ERROR exactly when its message was taken over or has
\* arrived: a sender that is told TIMED_OUT may send again without a duplicate, and
\* a message is never put into the memory of a process that no longer waits for it.
AnswerMatchesEffect ==
  \A p \in Proc : call[p].service \in {"SEND_BUFFER", "RECEIVE_BUFFER"} =>
    /\ call[p].done <=> wait[p] = "granted"
    /\ call[p].message = None <=> (call[p].service = "RECEIVE_BUFFER" /\ ~ call[p].done)

Channels == INSTANCE AbstractChannels WITH
  Channel <- Buffer,
  Capacity <- MaxNbMessage,
  content <- [b \in Buffer |-> Contents(ring[b], MaxNbMessage[b])]

\* A buffer is a FIFO channel: ring, hand-over to a waiting receiver and taking over
\* from a waiting sender together lose, invent and reorder nothing.
ImplementsChannels == Channels!Spec
=============================================================================
