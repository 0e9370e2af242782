------------------------ MODULE CommunicationObjects ------------------------
(***************************************************************************)
(* What the communication objects have in common: a partition creates them *)
(* before it is NORMAL, its processes call their services, wait in their   *)
(* queues (module WaitQueues) and return, and STOP or a restart of the     *)
(* partition ends all that at any point.                                   *)
(*                                                                         *)
(* ENTER_CORE makes a service one action up to the PORT_YIELD of its       *)
(* WAIT_RESOURCE, and what follows that an action of its own. Who runs     *)
(* when is left open: any process that does not wait may call a service,   *)
(* and one that has its answer returns at any later time.                  *)
(***************************************************************************)
EXTENDS WaitQueues, FiniteSets

CONSTANTS
  Partition,  \* the partitions
  Home,       \* the partition of each process and object
  Message,    \* the messages
  None        \* what is no message

ASSUME CommunicationObjectsAssumption ==
  /\ \A x \in Proc \cup Resource : Home[x] \in Partition
  /\ Fifo \subseteq Resource
  /\ None \notin Message
  /\ IsFiniteSet(Proc)

VARIABLES
  normal,   \* the partitions whose OPERATING_MODE is NORMAL
  objects,  \* the objects created (SEMAPHORE_COUNT, EVENT_COUNT, ...)
  call      \* the service each process is blocked in, and its arguments

objectVars == <<queue, wait, normal, objects, call>>

NoCall == [service |-> "none"]

ProcessesOf(P) == {p \in Proc : Home[p] = P}
ObjectsOf(P) == {r \in Resource : Home[r] = P}

ObjectsInit ==
  /\ WaitInit
  /\ normal = {} /\ objects = {}
  /\ call = [p \in Proc |-> NoCall]

\* What every CREATE service does: the object is new and nobody waits for it.
Create(r) ==
  /\ Home[r] \notin normal /\ r \notin objects
  /\ objects' = objects \cup {r}
  /\ UNCHANGED <<waitVars, normal, call>>

SetNormal(P) ==
  /\ P \notin normal
  /\ normal' = normal \cup {P}
  /\ UNCHANGED <<waitVars, objects, call>>

\* A process calls a service of an object of its partition.
MayCall(p, r) ==
  /\ Home[p] \in normal /\ wait[p] = "none"
  /\ r \in objects /\ Home[r] = Home[p]

\* WAIT_RESOURCE up to its PORT_YIELD, and what its answer is when it goes on.
Block(p, r, kind, c) ==
  /\ Wait(p, r, kind)
  /\ call' = [call EXCEPT ![p] = c]

Comeback(p) ==
  /\ Return(p)
  /\ call' = [call EXCEPT ![p] = NoCall]

\* All who wait are signalled one after the other, in one masked loop.
SignalAll(r) ==
  /\ wait' = [p \in Proc |-> IF InQueue(p, r) THEN "granted" ELSE wait[p]]
  /\ queue' = [queue EXCEPT ![r] = <<>>]

\* STOP of p. It may be started again at once, so that it counts as not waiting.
Halt(p) ==
  /\ Home[p] \in normal
  /\ Stop(p)
  /\ call' = [call EXCEPT ![p] = NoCall]
  /\ UNCHANGED <<normal, objects>>

TimeOut(p) ==
  /\ Expire(p)
  /\ UNCHANGED <<normal, objects, call>>

SetPriority(p, r) ==
  /\ Move(p, r)
  /\ UNCHANGED <<normal, objects, call>>

\* SET_PARTITION_MODE to a start mode: INITIALIZE_PARTITION_INFORMATION stops the
\* processes and forgets how many objects there are, but not what is in them.
Restart(P) ==
  /\ P \in normal
  /\ StopAll(ProcessesOf(P), ObjectsOf(P))
  /\ normal' = normal \ {P}
  /\ objects' = objects \ ObjectsOf(P)
  /\ call' = [p \in Proc |-> IF Home[p] = P THEN NoCall ELSE call[p]]
=============================================================================
