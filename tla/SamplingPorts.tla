---------------------------- MODULE SamplingPorts ---------------------------
(***************************************************************************)
(* Sampling ports (arinc653_interpartitionCommunication_samplingPort.c).   *)
(* A port holds the last message written and never makes anyone wait. The  *)
(* I/O partition takes a source's message only if it was written after the *)
(* last time it was taken, by the clock's ticks.                           *)
(*                                                                         *)
(* A message is the number of its WRITE_SAMPLING_MESSAGE, from 1 on.       *)
(***************************************************************************)
EXTENDS CommunicationObjects

CONSTANTS
  SamplingPort,   \* the sampling ports among the objects
  SamplingSource, \* those with PORT_DIRECTION SOURCE
  RefreshPeriod,  \* REFRESH_PERIOD of the others, or Infinite
  MaxTime,        \* bound: how long the clock runs
  MaxWrites       \* bound: how many messages are written

ASSUME SamplingPortsAssumption ==
  /\ SamplingPort \subseteq Resource /\ SamplingSource \subseteq SamplingPort
  /\ RefreshPeriod \in Nat \cup {-1}
  /\ MaxTime \in Nat /\ MaxWrites \in Nat

VARIABLES
  now,      \* CLOCK_GETSYSTEMTIME, in ticks
  sample,   \* what each port keeps
  written   \* auxiliary: the number of the last write

samplingVars == <<now, sample, written>>

Infinite == -1  \* INFINITE_TIME_VALUE
Empty == 0      \* EMPTY_INDICATOR is EMPTY

\* Only CREATE_PARTITION empties a port; a restart keeps its message and times.
SamplingPortsInit ==
  /\ now = 0 /\ written = 0
  /\ sample = [s \in SamplingPort |->
       [message |-> Empty, LAST_READ |-> Infinite, LAST_WRITE |-> Infinite, LAST_VALIDITY |-> "INVALID"]]

Tick ==
  /\ now < MaxTime /\ now' = now + 1
  /\ UNCHANGED <<objectVars, sample, written>>

CREATE_SAMPLING_PORT(s) == Create(s) /\ UNCHANGED samplingVars

WriteInto(s, m) == sample' = [sample EXCEPT ![s].message = m, ![s].LAST_WRITE = now]

\* Who calls is not looked at: a process, the default process, which creates the port
\* and may use it at once, or an error handler.
WRITE_SAMPLING_MESSAGE(s) ==
  /\ s \in SamplingSource \cap objects
  /\ written < MaxWrites /\ written' = written + 1
  /\ WriteInto(s, written')
  /\ UNCHANGED <<objectVars, now>>

READ_SAMPLING_MESSAGE(s) ==
  LET late == /\ RefreshPeriod # Infinite /\ sample[s].LAST_WRITE # Infinite
              /\ now - sample[s].LAST_WRITE > RefreshPeriod
  IN  /\ s \in objects \ SamplingSource
      /\ sample' = [sample EXCEPT ![s] =
           IF @.message = Empty THEN [@ EXCEPT !.LAST_VALIDITY = "INVALID"]
           ELSE [@ EXCEPT !.LAST_READ = now,
                          !.LAST_VALIDITY = IF late THEN "INVALID" ELSE "VALID"]]
      /\ UNCHANGED <<objectVars, now, written>>

\* The services for the I/O partition.
WRITE_PARTITION_SAMPLING_MESSAGE(s, m) ==
  /\ s \notin SamplingSource /\ s \in objects
  /\ WriteInto(s, m)
  /\ UNCHANGED <<objectVars, now, written>>

\* Nothing was written since the message was taken, as far as the ticks tell.
Taken(s) ==
  /\ sample[s].LAST_WRITE # Infinite /\ sample[s].LAST_READ # Infinite
  /\ sample[s].LAST_WRITE <= sample[s].LAST_READ

\* Whether READ_PARTITION_SAMPLING_MESSAGE has a message; PEEK is all it does then.
Unread(s) ==
  /\ s \in SamplingSource \cap objects
  /\ sample[s].message # Empty /\ ~ Taken(s)

READ_PARTITION_SAMPLING_MESSAGE(s) ==
  /\ Unread(s)
  /\ sample' = [sample EXCEPT ![s].LAST_READ = now]
  /\ UNCHANGED <<objectVars, now, written>>

SamplingPortServices ==
  \E s \in SamplingPort :
    CREATE_SAMPLING_PORT(s) \/ WRITE_SAMPLING_MESSAGE(s) \/ READ_SAMPLING_MESSAGE(s)
=============================================================================
