-------------------- MODULE InterpartitionCommunication ---------------------
(***************************************************************************)
(* Ports and the I/O partition together: processes of several partitions   *)
(* send, receive, write and read, time out, are stopped and re-prioritized *)
(* and their partitions restart, while the I/O partition carries messages  *)
(* and is stopped and started again itself. Queuing and sampling ports     *)
(* share nothing, so that a behaviour is about the ones or the others.     *)
(***************************************************************************)
EXTENDS SystemPartitionIO

VARIABLE used  \* the ports the partitions use: the queuing or the sampling ports

vars == <<objectVars, queuingVars, samplingVars, ioVars, used>>

Init ==
  /\ ObjectsInit /\ QueuingPortsInit /\ SamplingPortsInit /\ IOInit
  /\ used \in {QueuingPort, SamplingPort}

\* The application creates the ports it uses before its partition is NORMAL. A
\* partition that uses none plays no part.
Ends ==
  \/ \E p \in Proc :
       Halt(p) \/ TimeOut(p) \/ \E r \in used : SetPriority(p, r)
  \/ \E P \in Partition :
       \/ Restart(P)
       \/ SetNormal(P) /\ ObjectsOf(P) \cap used # {} /\ ObjectsOf(P) \cap used \subseteq objects

QueuingNext ==
  /\ used = QueuingPort
  /\ \/ QUEUINGPORTS \/ StopQUEUINGPORTS \/ StartQUEUINGPORTS
     \/ (QueuingPortServices \/ (Ends /\ UNCHANGED queuingVars)) /\ UNCHANGED <<queuingIO, arrived, unfinished>>
  /\ UNCHANGED <<samplingVars, samplingIO, peeked, used>>

SamplingNext ==
  /\ used = SamplingPort
  /\ \/ SAMPLINGPORTS \/ StopSAMPLINGPORTS \/ StartSAMPLINGPORTS
     \/ (SamplingPortServices \/ Tick \/ (Ends /\ UNCHANGED samplingVars)) /\ UNCHANGED <<samplingIO, peeked, unfinished>>
  /\ UNCHANGED <<queuingVars, queuingIO, arrived, used>>

Next == QueuingNext \/ SamplingNext

Spec == Init /\ [][Next]_vars

\* The I/O partition has its windows, and the core gives it the processor in them
\* (modules PartitionScheduler and Processes), so that its loops go on.
FairSpec ==
  /\ Spec
  /\ WF_vars(used = QueuingPort /\ QUEUINGPORTS /\ UNCHANGED <<samplingVars, samplingIO, peeked, used>>)
  /\ WF_vars(used = SamplingPort /\ SAMPLINGPORTS /\ UNCHANGED <<queuingVars, queuingIO, arrived, used>>)

-----------------------------------------------------------------------------
TypeOK ==
  /\ queue \in [Resource -> Seq(Proc)]
  /\ wait \in [Proc -> {"none"} \cup Waits \cup Answers]
  /\ normal \subseteq Partition /\ objects \subseteq Resource
  /\ \A q \in QueuingPort : ring[q] \in Ring(MaxNbMessage[q], Message \cup {None})
  /\ overflow \subseteq QueuingPort \ Source
  /\ sample \in [SamplingPort ->
       [message : 0..MaxWrites, LAST_READ : {Infinite} \cup 0..MaxTime,
        LAST_WRITE : {Infinite} \cup 0..MaxTime, LAST_VALIDITY : {"VALID", "INVALID"}]]
  /\ queuingIO.at \in {"look", "send", "take", "stopped"}
  /\ samplingIO.at \in {"look", "write", "take", "stopped"}

\* A source holds exactly what it has accepted and the destination has not got yet,
\* in order; the first message may also be one that has arrived, before it is taken or
\* when that was interrupted. So nothing is lost, whatever stops or restarts where.
NothingLost ==
  \A c \in DOMAIN QueuingChannels :
    LET q == QueuingChannels[c].source
        passedOn == \/ queuingIO.at = "take" /\ queuingIO.turn = c
                    \/ QueuingChannels[c] \in unfinished
        first == IF passedOn THEN arrived[c] ELSE Following(arrived[c])
    IN  /\ Contents(ring[q], MaxNbMessage[q]) =
             [i \in 1..ring[q].count |-> (first + i - 1) % Numbering]
        /\ accepted[q] = (first + ring[q].count) % Numbering

\* A sampling source counts as read only when all destinations have the message that
\* was peeked at: a restart or a missing destination postpones it, never cancels it.
TakenMeansArrived ==
  \A c \in DOMAIN SamplingChannels :
    Taken(SamplingChannels[c].source) =>
      \A i \in DOMAIN SamplingChannels[c].destinations :
        sample[SamplingChannels[c].destinations[i]].message = peeked[c]

QueuingArrival(c) ==
  LET q == QueuingChannels[c].destination
  IN  ring'[q].count > ring[q].count =>
        \/ arrived'[c] = Following(arrived[c])
        \/ arrived'[c] = arrived[c] /\ QueuingChannels[c] \in unfinished

SamplingArrival(c, s) ==
  <<sample'[s].message, sample'[s].LAST_WRITE>> # <<sample[s].message, sample[s].LAST_WRITE>> =>
    \/ sample'[s].message > sample[s].message
    \/ sample'[s].message = sample[s].message /\ SamplingChannels[c] \in unfinished

\* Messages reach a destination in the order in which they were sent, none of them
\* twice unless a restart or a missing port kept the I/O partition from taking it.
ArrivesInOrder ==
  [][/\ \A c \in DOMAIN QueuingChannels : QueuingArrival(c)
     /\ \A c \in DOMAIN SamplingChannels : \A i \in DOMAIN SamplingChannels[c].destinations :
          SamplingArrival(c, SamplingChannels[c].destinations[i])]_vars

\* The I/O partition goes on to a message that has a place to go to, unless a port it
\* needs is not there or its process is stopped.
ForwardsQueuing(c, m) ==
  LET from == QueuingChannels[c].source
      to == QueuingChannels[c].destination
      pending == Available(from) /\ Oldest(ring[from]) = m
      hindered == from \notin objects \/ to \notin objects \/ queuingIO.at = "stopped"
  IN  pending /\ ~ Full(to) ~> ~ pending \/ hindered

ForwardsSampling(c) ==
  LET from == SamplingChannels[c].source
      hindered == \/ samplingIO.at = "stopped"
                  \/ \E i \in DOMAIN SamplingChannels[c].destinations :
                       SamplingChannels[c].destinations[i] \notin objects
  IN  Unread(from) ~> ~ Unread(from) \/ hindered

\* A message that can go on does so: the loops over the channels never get stuck with
\* a message, nobody else can keep them from taking it, and no other channel holds it
\* up, be it empty, or its destination full or not there.
Forwarded ==
  /\ \A c \in DOMAIN QueuingChannels : \A m \in Message : ForwardsQueuing(c, m)
  /\ \A c \in DOMAIN SamplingChannels : ForwardsSampling(c)
=============================================================================
