-------------------- MODULE IntrapartitionCommunication ---------------------
(***************************************************************************)
(* The semaphores, events, blackboards and buffers of a partition together *)
(* with the ends that processes come to: time-outs, STOP, a change of      *)
(* priority while they wait, and a restart of the partition.               *)
(***************************************************************************)
EXTENDS Semaphores, Events, Blackboards, Buffers

CONSTANT Uses  \* the sets of objects that partitions use, of which one is chosen

VARIABLE used  \* the objects this partition's application creates

vars == <<objectVars, semaphoreVars, up, boardVars, bufferVars, used>>

ASSUME IntrapartitionAssumption ==
  /\ \A p, q \in Proc : Home[p] = Home[q]
  /\ Semaphore \cap (Event \cup Blackboard \cup Buffer) = {}
  /\ Event \cap (Blackboard \cup Buffer) = {} /\ Blackboard \cap Buffer = {}
  /\ Uses \subseteq SUBSET Resource

Init ==
  /\ ObjectsInit /\ SemaphoresInit /\ EventsInit /\ BlackboardsInit /\ BuffersInit
  /\ used \in Uses

\* A service of one kind of object leaves the other kinds alone.
Services ==
  \/ SemaphoreServices /\ UNCHANGED <<up, boardVars, bufferVars>>
  \/ EventServices /\ UNCHANGED <<semaphoreVars, boardVars, bufferVars>>
  \/ BlackboardServices /\ UNCHANGED <<semaphoreVars, up, bufferVars>>
  \/ BufferServices /\ UNCHANGED <<semaphoreVars, up, boardVars>>

\* The ends of processes, of which semaphores only see that a section is left.
Ends ==
  /\ \/ \E p \in Proc : Halt(p) /\ LeaveSections({p})
     \/ \E P \in Partition : Restart(P) /\ LeaveSections(ProcessesOf(P))
  /\ UNCHANGED <<value, up, boardVars, bufferVars>>

\* What moves waiting processes without any service of their object.
Moves ==
  /\ \/ \E p \in Proc : TimeOut(p) \/ \E r \in Resource : SetPriority(p, r)
     \/ \E P \in Partition : SetNormal(P)
  /\ UNCHANGED <<semaphoreVars, up, boardVars, bufferVars>>

\* The application creates the objects it uses before the partition is NORMAL.
Next ==
  /\ Services \/ Ends \/ Moves
  /\ objects' \subseteq used /\ (normal' # normal /\ normal' # {} => objects' = used)
  /\ UNCHANGED used

Spec == Init /\ [][Next]_vars

-----------------------------------------------------------------------------
TypeOK ==
  /\ queue \in [Resource -> Seq(Proc)]
  /\ wait \in [Proc -> {"none"} \cup Waits \cup Answers]
  /\ normal \subseteq Partition /\ objects \subseteq Resource
  /\ \A s \in Semaphore : value[s] \in 0..MaximumValue[s] /\ inside[s] \subseteq Proc
  /\ up \subseteq Event /\ occupied \subseteq Blackboard
  /\ board \in [Blackboard -> Message \cup {None}]
  /\ \A b \in Buffer : ring[b] \in Ring(MaxNbMessage[b], Message \cup {None})

\* Nobody waits for what is there: a unit, an event that is UP, a message on display.
NobodyWaitsInVain ==
  \A r \in objects : queue[r] # <<>> =>
    /\ r \in Semaphore => value[r] = 0
    /\ r \notin up /\ r \notin occupied
=============================================================================
