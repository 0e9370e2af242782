--------------------------- MODULE SystemPartitionIO ------------------------
(***************************************************************************)
(* The processes SAMPLINGPORTS and QUEUINGPORTS of the I/O partition       *)
(* (arinc653_systempartition_io.c), which carry messages from source to    *)
(* destination ports. They peek at the source, write to the destinations,  *)
(* and take the message from the source only then: three calls of the      *)
(* core, between which any other partition runs, and a restart of it or of *)
(* the I/O partition may fall. Destinations outside the module, over       *)
(* Ethernet, are left out.                                                 *)
(***************************************************************************)
EXTENDS QueuingPorts, SamplingPorts

CONSTANTS
  QueuingChannels,   \* the connection table: a source and a destination each
  SamplingChannels   \* ... a source and a sequence of destinations each

\* The processes stop themselves if there is nothing to carry. Ports have one kind
\* and one direction, and a port is connected once.
ASSUME ConnectionTable ==
  /\ QueuingPort \cap SamplingPort = {}
  /\ QueuingChannels # <<>>
  /\ QueuingChannels \in Seq([source : QueuingPort \cap Source, destination : QueuingPort \ Source])
  /\ \A c, d \in DOMAIN QueuingChannels : c # d =>
       /\ QueuingChannels[c].source # QueuingChannels[d].source
       /\ QueuingChannels[c].destination # QueuingChannels[d].destination
  /\ SamplingChannels # <<>>
  /\ SamplingChannels \in
       Seq([source : SamplingSource, destinations : Seq(SamplingPort \ SamplingSource)])
  /\ \A c, d \in DOMAIN SamplingChannels :
       LET to == SamplingChannels[c].destinations
           others == SamplingChannels[d].destinations
       IN  /\ to # <<>>
           /\ c # d => SamplingChannels[c].source # SamplingChannels[d].source
           /\ \A i \in DOMAIN to, j \in DOMAIN others : to[i] = others[j] => c = d /\ i = j

VARIABLES
  queuingIO,   \* where QUEUINGPORTS is, with which channel, and its message
  samplingIO,  \* the same of SAMPLINGPORTS, its next destination and COMPLETED
  arrived,     \* auxiliary: the last message put into each queuing destination
  peeked,      \* auxiliary: the last message peeked at in each sampling source
  unfinished   \* auxiliary: the channels with a message passed on but not taken

ioVars == <<queuingIO, samplingIO, arrived, peeked, unfinished>>

AtStart == [at |-> "look", turn |-> 1]
Stopped == [at |-> "stopped"]

IOInit ==
  /\ queuingIO = AtStart /\ samplingIO = AtStart
  /\ arrived = [c \in DOMAIN QueuingChannels |-> Numbering - 1]
  /\ peeked = [c \in DOMAIN SamplingChannels |-> Empty]
  /\ unfinished = {}

\* The loop goes on to the next channel, and from the last one to the first.
Onward(io, table) ==
  [at |-> "look", turn |-> IF io.turn = Len(table) THEN 1 ELSE io.turn + 1]

-----------------------------------------------------------------------------
QueuingTurn == QueuingChannels[queuingIO.turn]

\* Mutant: a break for a continue, when the destination does not take the message.
BadOnwardQueuing ==
  queuingIO' = IF queuingIO.at = "send" THEN AtStart ELSE Onward(queuingIO, QueuingChannels)

OnwardQueuing == queuingIO' = Onward(queuingIO, QueuingChannels)

PeekQueuing ==
  /\ queuingIO.at = "look"
  /\ IF Available(QueuingTurn.source)
     THEN queuingIO' = [at |-> "send", turn |-> queuingIO.turn,
                        message |-> Oldest(ring[QueuingTurn.source])]
     ELSE OnwardQueuing
  /\ UNCHANGED <<objectVars, queuingVars, arrived, unfinished>>

\* Mutant: COMPLETED stays true although the destination is full.
BadSendOn ==
  LET q == QueuingTurn.destination
  IN  /\ queuingIO.at = "send"
      /\ \/ /\ SEND_PARTITION_QUEUING_MESSAGE(q, queuingIO.message)
            /\ queuingIO' = [at |-> "take", turn |-> queuingIO.turn]
            /\ arrived' = IF Full(q) THEN arrived
                          ELSE [arrived EXCEPT ![queuingIO.turn] = queuingIO.message]
         \/ /\ q \notin objects
            /\ OnwardQueuing
            /\ UNCHANGED <<objectVars, queuingVars, arrived>>
      /\ UNCHANGED unfinished

\* The destination refuses the message, or takes it, or is not there.
SendOn ==
  LET q == QueuingTurn.destination
  IN  /\ queuingIO.at = "send"
      /\ \/ /\ SEND_PARTITION_QUEUING_MESSAGE(q, queuingIO.message)
            /\ \/ /\ Full(q)
                  /\ OnwardQueuing
                  /\ UNCHANGED arrived
               \/ /\ ~ Full(q)
                  /\ queuingIO' = [at |-> "take", turn |-> queuingIO.turn]
                  /\ arrived' = [arrived EXCEPT ![queuingIO.turn] = queuingIO.message]
         \/ /\ q \notin objects
            /\ OnwardQueuing
            /\ UNCHANGED <<objectVars, queuingVars, arrived>>
      /\ UNCHANGED unfinished

\* Mutant: the second call peeks as well.
BadTakeQueuing ==
  /\ queuingIO.at = "take"
  /\ OnwardQueuing
  /\ unfinished' = IF Available(QueuingTurn.source) THEN unfinished \ {QueuingTurn}
                                                    ELSE unfinished \cup {QueuingTurn}
  /\ UNCHANGED <<objectVars, queuingVars, arrived>>

\* What the second RECEIVE_PARTITION_QUEUING_MESSAGE answers is not looked at.
TakeQueuing ==
  /\ queuingIO.at = "take"
  /\ \/ /\ RECEIVE_PARTITION_QUEUING_MESSAGE(QueuingTurn.source)
        /\ unfinished' = unfinished \ {QueuingTurn}
     \/ /\ ~ Available(QueuingTurn.source)
        /\ unfinished' = unfinished \cup {QueuingTurn}
        /\ UNCHANGED <<objectVars, queuingVars>>
  /\ OnwardQueuing
  /\ UNCHANGED arrived

QUEUINGPORTS == PeekQueuing \/ SendOn \/ TakeQueuing

\* The error handler stops the process, or the I/O partition restarts.
StopQUEUINGPORTS ==
  /\ queuingIO.at # "stopped" /\ queuingIO' = Stopped
  /\ unfinished' = IF queuingIO.at = "take" THEN unfinished \cup {QueuingTurn} ELSE unfinished
  /\ UNCHANGED <<objectVars, queuingVars, arrived>>

StartQUEUINGPORTS ==
  /\ queuingIO.at = "stopped" /\ queuingIO' = AtStart
  /\ UNCHANGED <<objectVars, queuingVars, arrived, unfinished>>

-----------------------------------------------------------------------------
SamplingTurn == SamplingChannels[samplingIO.turn]

OnwardSampling == samplingIO' = Onward(samplingIO, SamplingChannels)

PeekSampling ==
  /\ samplingIO.at = "look"
  /\ \/ /\ Unread(SamplingTurn.source)
        /\ samplingIO' = [at |-> "write", turn |-> samplingIO.turn, to |-> 1, COMPLETED |-> TRUE,
                          message |-> sample[SamplingTurn.source].message]
        /\ peeked' = [peeked EXCEPT ![samplingIO.turn] = sample[SamplingTurn.source].message]
     \/ /\ ~ Unread(SamplingTurn.source)
        /\ OnwardSampling
        /\ UNCHANGED peeked
  /\ UNCHANGED <<objectVars, samplingVars, unfinished>>

\* After the last destination the message is taken, if none was left out.
AfterWrite(completed) ==
  IF samplingIO.to < Len(SamplingTurn.destinations)
  THEN /\ samplingIO' = [samplingIO EXCEPT !.to = @ + 1, !.COMPLETED = completed]
       /\ UNCHANGED unfinished
  ELSE IF completed
  THEN /\ samplingIO' = [at |-> "take", turn |-> samplingIO.turn]
       /\ UNCHANGED unfinished
  ELSE /\ OnwardSampling
       /\ unfinished' = unfinished \cup {SamplingTurn}

\* Mutant: a destination that is not there does not count.
BadWriteOn ==
  LET s == SamplingTurn.destinations[samplingIO.to]
  IN  /\ samplingIO.at = "write"
      /\ \/ WRITE_PARTITION_SAMPLING_MESSAGE(s, samplingIO.message)
         \/ s \notin objects /\ UNCHANGED <<objectVars, samplingVars>>
      /\ AfterWrite(samplingIO.COMPLETED)
      /\ UNCHANGED peeked

WriteOn ==
  LET s == SamplingTurn.destinations[samplingIO.to]
  IN  /\ samplingIO.at = "write"
      /\ \/ /\ WRITE_PARTITION_SAMPLING_MESSAGE(s, samplingIO.message)
            /\ AfterWrite(samplingIO.COMPLETED)
         \/ /\ s \notin objects
            /\ AfterWrite(FALSE)
            /\ UNCHANGED <<objectVars, samplingVars>>
      /\ UNCHANGED peeked

TakeSampling ==
  /\ samplingIO.at = "take"
  /\ \/ /\ READ_PARTITION_SAMPLING_MESSAGE(SamplingTurn.source)
        /\ unfinished' = unfinished \ {SamplingTurn}
     \/ /\ ~ Unread(SamplingTurn.source)
        /\ unfinished' = unfinished \cup {SamplingTurn}
        /\ UNCHANGED <<objectVars, samplingVars>>
  /\ OnwardSampling
  /\ UNCHANGED peeked

SAMPLINGPORTS == PeekSampling \/ WriteOn \/ TakeSampling

StopSAMPLINGPORTS ==
  /\ samplingIO.at # "stopped" /\ samplingIO' = Stopped
  /\ unfinished' = IF samplingIO.at = "look" THEN unfinished ELSE unfinished \cup {SamplingTurn}
  /\ UNCHANGED <<objectVars, samplingVars, peeked>>

StartSAMPLINGPORTS ==
  /\ samplingIO.at = "stopped" /\ samplingIO' = AtStart
  /\ UNCHANGED <<objectVars, samplingVars, peeked, unfinished>>
=============================================================================
