------------------------ MODULE Intrapartition_proofs -----------------------
(***************************************************************************)
(* Proofs about the objects of a partition (IntrapartitionCommunication):  *)
(* nobody waits for what is there, a buffer's queue holds one kind of      *)
(* process, and a buffer is a FIFO channel, for any number of processes    *)
(* and objects, whatever ends the waits.                                   *)
(***************************************************************************)
EXTENDS IntrapartitionCommunication, CommunicationObjects_proofs, FiniteSetTheorems

-----------------------------------------------------------------------------
(* The calls processes may be blocked in.                                  *)

Calls ==
  [service : {"none"}]
    \cup [service : {"WAIT_SEMAPHORE", "WAIT_EVENT"}, object : Resource]
    \cup [service : {"READ_BLACKBOARD"}, object : Resource, displayed : SUBSET Message]
    \cup [service : {"SEND_BUFFER", "RECEIVE_BUFFER"}, object : Resource,
          message : Message \cup {None}, done : BOOLEAN]

-----------------------------------------------------------------------------
(* The invariant: nobody waits in vain, and a buffer's queue has one side. *)

Shapes ==
  /\ value \in [Semaphore -> Nat] /\ \A s \in Semaphore : value[s] <= MaximumValue[s]
  /\ inside \in [Semaphore -> SUBSET Proc]
  /\ up \subseteq Event /\ occupied \subseteq Blackboard
  /\ board \in [Blackboard -> Message \cup {None}]
  /\ ring = [b \in Buffer |-> ring[b]]
  /\ \A b \in Buffer : ring[b] \in Ring(MaxNbMessage[b], Message \cup {None})
  /\ normal \subseteq Partition /\ objects \subseteq Resource

Awaited(r) == r \in objects /\ (r \in Semaphore => value[r] = 0) /\ r \notin up /\ r \notin occupied

WaitsAreDue == \A r \in Resource : queue[r] # <<>> => Awaited(r)

Side(b, c) ==
  \/ c.service = "SEND_BUFFER" /\ ring[b].count = MaxNbMessage[b] /\ c.message \in Message
  \/ c.service = "RECEIVE_BUFFER" /\ ring[b].count = 0

SameSide(b) == \A i \in DOMAIN queue[b] : Side(b, call[queue[b][i]])

Sides == \A b \in Buffer : SameSide(b)

IInv == QueueInv(Calls) /\ Shapes /\ WaitsAreDue /\ Sides

LEMMA NoCallIsOne == NoCall \in Calls
BY DEF NoCall, Calls

LEMMA Kinds ==
  /\ Semaphore \subseteq Resource /\ Event \subseteq Resource
  /\ Blackboard \subseteq Resource /\ Buffer \subseteq Resource
  /\ Semaphore \cap (Event \cup Blackboard \cup Buffer) = {}
  /\ Event \cap (Blackboard \cup Buffer) = {} /\ Blackboard \cap Buffer = {}
BY SemaphoresAssumption, EventsAssumption, BlackboardsAssumption, BuffersAssumption,
   IntrapartitionAssumption

LEMMA KeptSides ==
  ASSUME Sides, ring' = ring, \A b \in Buffer : Kept(b)
  PROVE  Sides'
BY DEF Sides, Side, SameSide, Kept

LEMMA SemaphoreStep ==
  ASSUME IInv, SemaphoreServices, UNCHANGED <<up, boardVars, bufferVars>>
  PROVE  IInv'
<1> USE DEF boardVars, bufferVars
<1>1. CASE \E s \in Semaphore : CREATE_SEMAPHORE(s)
  <2> PICK s \in Semaphore : CREATE_SEMAPHORE(s)
    BY <1>1
  <2>1. QueueInv(Calls)' /\ \A r \in Resource : Kept(r)
    BY Stutter DEF IInv, CREATE_SEMAPHORE, Create, waitVars
  <2>2. Shapes'
    BY Kinds, SemaphoresAssumption DEF IInv, Shapes, CREATE_SEMAPHORE, Create
  <2>3. queue[s] = <<>>
    BY Kinds DEF IInv, WaitsAreDue, Awaited, CREATE_SEMAPHORE, Create
  <2>4. WaitsAreDue'
    BY <2>3 DEF IInv, WaitsAreDue, Awaited, CREATE_SEMAPHORE, Create, waitVars, Shapes
  <2>5. Sides'
    BY <2>1, Kinds, KeptSides DEF IInv
  <2> QED  BY <2>1, <2>2, <2>4, <2>5 DEF IInv
<1>2. CASE \E s \in Semaphore, p \in Proc : SIGNAL_SEMAPHORE(p, s)
  <2> PICK s \in Semaphore, p \in Proc : SIGNAL_SEMAPHORE(p, s)
    BY <1>2
  <2>1. CASE queue[s] = <<>> /\ value' = [value EXCEPT ![s] = @ + 1] /\ UNCHANGED objectVars
    <3>1. QueueInv(Calls)' /\ \A r \in Resource : Kept(r)
      BY <2>1, Stutter DEF IInv, objectVars
    <3>2. Shapes'
      <4>1. value' \in [Semaphore -> Nat] /\ \A x \in Semaphore : value'[x] <= MaximumValue[x]
        BY <2>1, SemaphoresAssumption DEF IInv, Shapes, SIGNAL_SEMAPHORE
      <4>2. inside' \in [Semaphore -> SUBSET Proc]
        BY DEF IInv, Shapes, SIGNAL_SEMAPHORE
      <4> QED  BY <2>1, <4>1, <4>2 DEF IInv, Shapes, objectVars
    <3>3. WaitsAreDue'
      BY <2>1 DEF IInv, WaitsAreDue, Awaited, objectVars, Shapes
    <3> QED  BY <3>1, <3>2, <3>3, Kinds, KeptSides DEF IInv
  <2>2. CASE Signal(s) /\ UNCHANGED <<normal, objects, call, value>>
    <3>1. QueueInv(Calls)' /\ \A r \in Resource : Kept(r)
      BY <2>2, Kinds, SignalQueues DEF IInv, QueueInv, Typed
    <3>2. Shapes'
      BY <2>2 DEF IInv, Shapes, SIGNAL_SEMAPHORE
    <3>3. WaitsAreDue'
      BY <2>2, <3>1, KeptEmpty DEF IInv, WaitsAreDue, Awaited, QueueInv
    <3> QED  BY <3>1, <3>2, <3>3, Kinds, KeptSides DEF IInv
  <2> QED  BY <2>1, <2>2 DEF SIGNAL_SEMAPHORE
<1>3. CASE \E s \in Semaphore, p \in Proc, kind \in Waits : WAIT_SEMAPHORE(p, s, kind)
  <2> PICK s \in Semaphore, p \in Proc, kind \in Waits : WAIT_SEMAPHORE(p, s, kind)
    BY <1>3
  <2> DEFINE c == [service |-> "WAIT_SEMAPHORE", object |-> s]
  <2>1. CASE /\ value[s] > 0
             /\ value' = [value EXCEPT ![s] = @ - 1]
             /\ inside' = [inside EXCEPT ![s] = @ \cup {p}]
             /\ UNCHANGED objectVars
    <3>1. QueueInv(Calls)' /\ \A r \in Resource : Kept(r)
      BY <2>1, Stutter DEF IInv, objectVars
    <3>2. Shapes'
      <4>1. value' \in [Semaphore -> Nat] /\ \A x \in Semaphore : value'[x] <= MaximumValue[x]
        BY <2>1, SemaphoresAssumption DEF IInv, Shapes
      <4>2. inside' \in [Semaphore -> SUBSET Proc]
        BY <2>1 DEF IInv, Shapes
      <4> QED  BY <2>1, <4>1, <4>2 DEF IInv, Shapes, objectVars
    <3>3. WaitsAreDue'
      BY <2>1, Kinds DEF IInv, WaitsAreDue, Awaited, objectVars, Shapes
    <3> QED  BY <3>1, <3>2, <3>3, Kinds, KeptSides DEF IInv
  <2>2. CASE value[s] = 0 /\ Block(p, s, kind, c) /\ UNCHANGED <<normal, objects, semaphoreVars>>
    <3>1. c \in Calls /\ c.service # "none" /\ c.object = s /\ Home[p] = Home[s] /\ s \in objects
      BY Kinds DEF Calls, WAIT_SEMAPHORE, MayCall
    <3>2. QueueInv(Calls)' /\ \A x \in Resource \ {s} : Kept(x)
      <4> HIDE DEF c
      <4> QED  BY <2>2, <3>1, Kinds, BlockQueues DEF IInv
    <3>3. Shapes'
      BY <2>2 DEF IInv, Shapes, semaphoreVars
    <3>4. WaitsAreDue'
      <4>1. Awaited(s)'
        BY <2>2, <3>1, Kinds DEF IInv, Shapes, Awaited, semaphoreVars
      <4>2. ASSUME NEW r \in Resource \ {s}, queue'[r] # <<>>  PROVE Awaited(r)'
        BY <2>2, <3>2, <4>2, KeptEmpty DEF IInv, QueueInv, WaitsAreDue, Awaited, semaphoreVars
      <4> QED  BY <4>1, <4>2 DEF WaitsAreDue
    <3>5. Sides'
      BY <3>2, Kinds, KeptSides DEF IInv
    <3> QED  BY <3>2, <3>3, <3>4, <3>5 DEF IInv
  <2> QED  BY <2>1, <2>2 DEF WAIT_SEMAPHORE
<1>4. CASE \E p \in Proc : WaitSemaphoreReturns(p)
  <2> PICK p \in Proc : WaitSemaphoreReturns(p)
    BY <1>4
  <2>1. QueueInv(Calls)' /\ \A r \in Resource : Kept(r)
    BY ComebackQueues, NoCallIsOne DEF IInv, WaitSemaphoreReturns
  <2>2. Shapes'
    BY DEF IInv, Shapes, WaitSemaphoreReturns
  <2>3. WaitsAreDue'
    BY <2>1, KeptEmpty DEF IInv, QueueInv, WaitsAreDue, Awaited, WaitSemaphoreReturns
  <2> QED  BY <2>1, <2>2, <2>3, Kinds, KeptSides DEF IInv
<1> QED  BY <1>1, <1>2, <1>3, <1>4 DEF SemaphoreServices

\* What the calls of a step that only lets processes go do to the invariant.
LEMMA KeptInv ==
  ASSUME IInv, QueueInv(Calls)', \A r \in Resource : Kept(r), Shapes',
         UNCHANGED ring, \A r \in Resource : queue'[r] # <<>> /\ Awaited(r) => Awaited(r)'
  PROVE  IInv'
<1>1. WaitsAreDue'
  BY KeptEmpty DEF IInv, QueueInv, WaitsAreDue
<1>2. Sides'
  BY Kinds, KeptSides DEF IInv
<1> QED  BY <1>1, <1>2 DEF IInv

\* A process comes to wait for an object that is not a buffer.
LEMMA BlockInv ==
  ASSUME IInv, NEW p \in Proc, NEW r \in Resource \ Buffer, NEW kind \in Waits, NEW c \in Calls,
         c.service # "none", c.object = r, MayCall(p, r), Block(p, r, kind, c), Awaited(r),
         UNCHANGED <<normal, objects, semaphoreVars, up, boardVars, bufferVars>>
  PROVE  IInv'
<1>1. QueueInv(Calls)' /\ \A x \in Resource \ {r} : Kept(x)
  BY BlockQueues DEF IInv, MayCall
<1>2. Shapes'
  BY DEF IInv, Shapes, semaphoreVars, boardVars, bufferVars
<1>3. \A x \in Resource : Awaited(x) => Awaited(x)'
  BY DEF Awaited, semaphoreVars, boardVars
<1>4. WaitsAreDue'
  BY <1>1, <1>3, KeptEmpty DEF IInv, QueueInv, WaitsAreDue
<1>5. Sides'
  BY <1>1, Kinds, KeptSides DEF IInv, bufferVars
<1> QED  BY <1>1, <1>2, <1>4, <1>5 DEF IInv

\* A process that was answered leaves its service.
LEMMA ComebackInv ==
  ASSUME IInv, NEW p \in Proc, Comeback(p),
         UNCHANGED <<normal, objects, semaphoreVars, up, boardVars, bufferVars>>
  PROVE  IInv'
<1>1. QueueInv(Calls)' /\ \A r \in Resource : Kept(r)
  BY ComebackQueues, NoCallIsOne DEF IInv
<1>2. Shapes' /\ \A x \in Resource : Awaited(x) => Awaited(x)'
  BY DEF IInv, Shapes, Awaited, semaphoreVars, boardVars, bufferVars
<1> QED  BY <1>1, <1>2, KeptInv DEF bufferVars

LEMMA EventStep ==
  ASSUME IInv, EventServices, UNCHANGED <<semaphoreVars, boardVars, bufferVars>>
  PROVE  IInv'
<1> USE DEF semaphoreVars, boardVars, bufferVars
<1>1. CASE \E e \in Event : CREATE_EVENT(e)
  <2> PICK e \in Event : CREATE_EVENT(e)
    BY <1>1
  <2>1. QueueInv(Calls)' /\ \A r \in Resource : Kept(r)
    BY Stutter DEF IInv, CREATE_EVENT, Create, waitVars
  <2>2. Shapes' /\ \A r \in Resource : Awaited(r) => Awaited(r)'
    BY Kinds DEF IInv, Shapes, Awaited, CREATE_EVENT, Create
  <2> QED  BY <2>1, <2>2, KeptInv
<1>2. CASE \E e \in Event : SET_EVENT(e)
  <2> PICK e \in Event : SET_EVENT(e)
    BY <1>2
  <2>1. QueueInv(Calls)' /\ queue'[e] = <<>> /\ \A r \in Resource : Kept(r)
    BY Kinds, SignalAllQueues DEF IInv, QueueInv, Typed, SET_EVENT
  <2>2. Shapes'
    BY DEF IInv, Shapes, SET_EVENT
  <2>3. \A r \in Resource : queue'[r] # <<>> /\ Awaited(r) => Awaited(r)'
    BY <2>1 DEF Awaited, SET_EVENT
  <2> QED  BY <2>1, <2>2, <2>3, KeptInv
<1>3. CASE \E e \in Event : RESET_EVENT(e)
  <2> PICK e \in Event : RESET_EVENT(e)
    BY <1>3
  <2>1. QueueInv(Calls)' /\ \A r \in Resource : Kept(r)
    BY Stutter DEF IInv, RESET_EVENT, objectVars
  <2>2. Shapes' /\ \A r \in Resource : Awaited(r) => Awaited(r)'
    BY DEF IInv, Shapes, Awaited, RESET_EVENT, objectVars
  <2> QED  BY <2>1, <2>2, KeptInv
<1>4. CASE \E e \in Event, p \in Proc, kind \in Waits : WAIT_EVENT(p, e, kind)
  <2> PICK e \in Event, p \in Proc, kind \in Waits : WAIT_EVENT(p, e, kind)
    BY <1>4
  <2> DEFINE c == [service |-> "WAIT_EVENT", object |-> e]
  <2>1. c \in Calls /\ c.service # "none" /\ c.object = e /\ e \in Resource \ Buffer
    BY Kinds DEF Calls
  <2>2. Awaited(e)
    BY Kinds DEF IInv, Shapes, Awaited, WAIT_EVENT, MayCall
  <2>3. MayCall(p, e) /\ Block(p, e, kind, c) /\ UNCHANGED <<normal, objects, up>>
    BY DEF WAIT_EVENT
  <2> HIDE DEF c
  <2> QED  BY <2>1, <2>2, <2>3, BlockInv
<1>5. CASE \E p \in Proc : WaitEventReturns(p)
  BY <1>5, ComebackInv DEF WaitEventReturns
<1> QED  BY <1>1, <1>2, <1>3, <1>4, <1>5 DEF EventServices

LEMMA BlackboardStep ==
  ASSUME IInv, BlackboardServices, UNCHANGED <<semaphoreVars, up, bufferVars>>
  PROVE  IInv'
<1> USE DEF semaphoreVars, boardVars, bufferVars
<1>1. CASE \E b \in Blackboard : CREATE_BLACKBOARD(b)
  <2> PICK b \in Blackboard : CREATE_BLACKBOARD(b)
    BY <1>1
  <2>1. QueueInv(Calls)' /\ \A r \in Resource : Kept(r)
    BY Stutter DEF IInv, CREATE_BLACKBOARD, Create, waitVars
  <2>2. Shapes' /\ \A r \in Resource : Awaited(r) => Awaited(r)'
    BY Kinds DEF IInv, Shapes, Awaited, CREATE_BLACKBOARD, Create
  <2> QED  BY <2>1, <2>2, KeptInv
<1>2. CASE \E b \in Blackboard, m \in Message : DISPLAY_BLACKBOARD(b, m)
  <2> PICK b \in Blackboard, m \in Message : DISPLAY_BLACKBOARD(b, m)
    BY <1>2
  <2>1. call' = [p \in Proc |->
          IF Reading(p, b) THEN [call[p] EXCEPT !.displayed = @ \cup {m}] ELSE call[p]]
    BY DEF DISPLAY_BLACKBOARD
  <2>2. call' \in [Proc -> Calls]
    <3>1. ASSUME NEW p \in Proc, Reading(p, b)
          PROVE  [call[p] EXCEPT !.displayed = @ \cup {m}] \in Calls
      <4>1. call[p] \in [service : {"READ_BLACKBOARD"}, object : Resource, displayed : SUBSET Message]
        BY <3>1 DEF IInv, QueueInv, Typed, Calls, Reading
      <4>2. [call[p] EXCEPT !.displayed = @ \cup {m}] \in
              [service : {"READ_BLACKBOARD"}, object : Resource, displayed : SUBSET Message]
        BY <4>1
      <4> QED  BY <4>2 DEF Calls
    <3> QED  BY <2>1, <3>1 DEF IInv, QueueInv, Typed
  <2>3. \A x \in Resource \ {b} : \A i \in DOMAIN queue[x] : call'[queue[x][i]] = call[queue[x][i]]
    BY <2>1 DEF IInv, QueueInv, QueuedWaits, Typed, Reading
  <2>4. QueueInv(Calls)' /\ queue'[b] = <<>> /\ \A r \in Resource : Kept(r)
    BY <2>2, <2>3, Kinds, SignalAllQueues DEF IInv, DISPLAY_BLACKBOARD
  <2>5. Shapes'
    BY DEF IInv, Shapes, DISPLAY_BLACKBOARD
  <2>6. \A r \in Resource : queue'[r] # <<>> /\ Awaited(r) => Awaited(r)'
    BY <2>4 DEF Awaited, DISPLAY_BLACKBOARD
  <2> QED  BY <2>4, <2>5, <2>6, KeptInv
<1>3. CASE \E b \in Blackboard : CLEAR_BLACKBOARD(b)
  <2> PICK b \in Blackboard : CLEAR_BLACKBOARD(b)
    BY <1>3
  <2>1. QueueInv(Calls)' /\ \A r \in Resource : Kept(r)
    BY Stutter DEF IInv, CLEAR_BLACKBOARD, objectVars
  <2>2. Shapes' /\ \A r \in Resource : Awaited(r) => Awaited(r)'
    BY DEF IInv, Shapes, Awaited, CLEAR_BLACKBOARD, objectVars
  <2> QED  BY <2>1, <2>2, KeptInv
<1>4. CASE \E b \in Blackboard, p \in Proc, kind \in Waits : READ_BLACKBOARD(p, b, kind)
  <2> PICK b \in Blackboard, p \in Proc, kind \in Waits : READ_BLACKBOARD(p, b, kind)
    BY <1>4
  <2> DEFINE c == [service |-> "READ_BLACKBOARD", object |-> b, displayed |-> {}]
  <2>1. c \in Calls /\ c.service # "none" /\ c.object = b /\ b \in Resource \ Buffer
    BY Kinds DEF Calls
  <2>2. Awaited(b)
    BY Kinds DEF IInv, Shapes, Awaited, READ_BLACKBOARD, MayCall
  <2>3. MayCall(p, b) /\ Block(p, b, kind, c) /\ UNCHANGED <<normal, objects, boardVars>>
    BY DEF READ_BLACKBOARD
  <2> HIDE DEF c
  <2> QED  BY <2>1, <2>2, <2>3, BlockInv
<1>5. CASE \E p \in Proc : ReadBlackboardReturns(p)
  BY <1>5, ComebackInv DEF ReadBlackboardReturns
<1> QED  BY <1>1, <1>2, <1>3, <1>4, <1>5 DEF BlackboardServices

\* Time-outs, stops, restarts and changes of priority let processes go, or keep them.
LEMMA EndsAndMovesStep ==
  ASSUME IInv, Ends \/ Moves
  PROVE  IInv'
<1> USE DEF semaphoreVars, boardVars, bufferVars
<1>1. CASE \E p \in Proc : Halt(p) /\ LeaveSections({p}) /\ UNCHANGED <<value, up, boardVars, bufferVars>>
  <2>1. QueueInv(Calls)' /\ \A r \in Resource : Kept(r)
    BY <1>1, HaltQueues, NoCallIsOne DEF IInv
  <2>2. Shapes' /\ \A x \in Resource : Awaited(x) => Awaited(x)'
    BY <1>1 DEF IInv, Shapes, Awaited, LeaveSections, Halt
  <2> QED  BY <1>1, <2>1, <2>2, KeptInv
<1>2. CASE \E P \in Partition :
             Restart(P) /\ LeaveSections(ProcessesOf(P)) /\ UNCHANGED <<value, up, boardVars, bufferVars>>
  <2> PICK P \in Partition :
             Restart(P) /\ LeaveSections(ProcessesOf(P)) /\ UNCHANGED <<value, up, boardVars, bufferVars>>
    BY <1>2
  <2>1. QueueInv(Calls)' /\ \A r \in Resource : Kept(r)
    BY RestartQueues, NoCallIsOne DEF IInv
  <2>2. Shapes'
    BY DEF IInv, Shapes, LeaveSections, Restart
  <2>3. \A x \in Resource : queue'[x] # <<>> /\ Awaited(x) => Awaited(x)'
    BY DEF Awaited, Restart, StopAll, ObjectsOf
  <2> QED  BY <2>1, <2>2, <2>3, KeptInv
<1>3. CASE /\ \E p \in Proc : TimeOut(p) \/ \E r \in Resource : SetPriority(p, r)
           /\ UNCHANGED <<semaphoreVars, up, boardVars, bufferVars>>
  <2>1. QueueInv(Calls)' /\ \A r \in Resource : Kept(r)
    BY <1>3, TimeOutQueues, SetPriorityQueues DEF IInv
  <2>2. UNCHANGED <<normal, objects>>
    BY <1>3 DEF TimeOut, SetPriority
  <2>3. Shapes' /\ \A x \in Resource : Awaited(x) => Awaited(x)'
    BY <1>3, <2>2 DEF IInv, Shapes, Awaited
  <2> QED  BY <1>3, <2>1, <2>3, KeptInv
<1>4. CASE \E P \in Partition : SetNormal(P) /\ UNCHANGED <<semaphoreVars, up, boardVars, bufferVars>>
  <2>1. QueueInv(Calls)' /\ \A r \in Resource : Kept(r)
    BY <1>4, Stutter DEF IInv, SetNormal, waitVars
  <2>2. Shapes' /\ \A x \in Resource : Awaited(x) => Awaited(x)'
    BY <1>4 DEF IInv, Shapes, Awaited, SetNormal
  <2> QED  BY <1>4, <2>1, <2>2, KeptInv
<1> QED  BY <1>1, <1>2, <1>3, <1>4 DEF Ends, Moves

-----------------------------------------------------------------------------
(* The services of buffers, and the theorems.                              *)

\* A step in one buffer that changes its ring where only one side waits.
LEMMA BufferInv ==
  ASSUME IInv, QueueInv(Calls)', NEW b \in Buffer, \A r \in Resource : Kept(r),
         NEW g \in Ring(MaxNbMessage[b], Message \cup {None}), ring' = [ring EXCEPT ![b] = g],
         SameSide(b)',
         UNCHANGED <<normal, objects, semaphoreVars, up, boardVars>>
  PROVE  IInv'
<1>1. ring'[b] = g /\ \A x \in Buffer \ {b} : ring'[x] = ring[x]
  BY DEF IInv, Shapes
<1>2. Shapes'
  <2>1. ring' = [x \in Buffer |-> ring'[x]]
    BY DEF IInv, Shapes
  <2>2. \A x \in Buffer : ring'[x] \in Ring(MaxNbMessage[x], Message \cup {None})
    BY <1>1 DEF IInv, Shapes
  <2> QED  BY <2>1, <2>2 DEF IInv, Shapes, semaphoreVars, boardVars
<1>3. WaitsAreDue'
  BY KeptEmpty DEF IInv, QueueInv, WaitsAreDue, Awaited, semaphoreVars, boardVars
<1>4. \A x \in Buffer \ {b} : SameSide(x)'
  BY <1>1, Kinds DEF IInv, Sides, Side, SameSide, Kept
<1>5. Sides'
  BY <1>4 DEF Sides
<1> QED  BY <1>2, <1>3, <1>5 DEF IInv

\* A process comes to wait for a buffer, on the side where processes wait, if any do.
LEMMA BlockBufferInv ==
  ASSUME IInv, NEW p \in Proc, NEW b \in Buffer, NEW kind \in Waits, NEW c \in Calls,
         c.service # "none", c.object = b, MayCall(p, b), Block(p, b, kind, c), Side(b, c),
         UNCHANGED <<normal, objects, semaphoreVars, up, boardVars, bufferVars>>
  PROVE  IInv'
<1>1. /\ QueueInv(Calls)' /\ \A x \in Resource \ {b} : Kept(x)
      /\ \A i \in DOMAIN queue'[b] :
           \/ queue'[b][i] = p /\ call'[p] = c
           \/ \E j \in DOMAIN queue[b] :
                queue'[b][i] = queue[b][j] /\ call'[queue'[b][i]] = call[queue[b][j]]
  BY Kinds, BlockQueues DEF IInv, MayCall
<1>2. Shapes'
  BY DEF IInv, Shapes, semaphoreVars, boardVars, bufferVars
<1>3. WaitsAreDue'
  <2>1. Awaited(b)'
    BY Kinds DEF IInv, Shapes, Awaited, MayCall, semaphoreVars, boardVars
  <2>2. \A x \in Resource \ {b} : queue'[x] # <<>> => Awaited(x)'
    BY <1>1, KeptEmpty DEF IInv, QueueInv, WaitsAreDue, Awaited, semaphoreVars, boardVars
  <2> QED  BY <2>1, <2>2 DEF WaitsAreDue
<1>4. Sides'
  <2>1. SameSide(b)'
    BY <1>1 DEF IInv, Sides, Side, SameSide, bufferVars
  <2>2. \A x \in Buffer \ {b} : SameSide(x)'
    BY <1>1, Kinds DEF IInv, Sides, Side, SameSide, Kept, bufferVars
  <2> QED  BY <2>1, <2>2 DEF Sides
<1> QED  BY <1>1, <1>2, <1>3, <1>4 DEF IInv

\* Who heads a buffer's queue is in a service of that buffer.
LEMMA HeadWaits ==
  ASSUME IInv, NEW b \in Buffer, queue[b] # <<>>
  PROVE  LET head == Head(queue[b])
         IN  head \in Proc /\ Side(b, call[head]) /\ call[head].object = b /\ call[head] \in Calls
<1>1. Head(queue[b]) = queue[b][1] /\ 1 \in DOMAIN queue[b] /\ queue[b] \in Seq(Proc)
  BY Kinds, TailProperties DEF IInv, QueueInv, Typed, Distinct
<1>2. Head(queue[b]) \in Proc
  BY <1>1
<1> QED  BY <1>1, <1>2, Kinds DEF IInv, QueueInv, Typed, QueuedWaits, Sides, SameSide

LEMMA RingOf ==
  ASSUME IInv, NEW b \in Buffer
  PROVE  /\ MaxNbMessage[b] \in Nat \ {0}
         /\ ring[b] \in Ring(MaxNbMessage[b], Message \cup {None})
         /\ ring[b].count \in 0..MaxNbMessage[b]
BY BuffersAssumption DEF IInv, Shapes, Ring

LEMMA SendStep ==
  ASSUME IInv, NEW b \in Buffer, NEW p \in Proc, NEW m \in Message, NEW kind \in Waits,
         SEND_BUFFER(p, b, m, kind), UNCHANGED <<semaphoreVars, up, boardVars>>
  PROVE  IInv'
<1> DEFINE head == Head(queue[b])
           max == MaxNbMessage[b]
<1>1. /\ max \in Nat \ {0} /\ ring[b] \in Ring(max, Message \cup {None})
      /\ ring[b].count \in 0..max
  BY RingOf
<1>2. CASE /\ ~ Full(b) /\ queue[b] = <<>>
           /\ ring' = [ring EXCEPT ![b] = Store(@, max, m)]
           /\ UNCHANGED <<objectVars, delivered>>
  <2>1. QueueInv(Calls)' /\ \A r \in Resource : Kept(r)
    BY <1>2, Stutter DEF IInv, objectVars
  <2>2. Store(ring[b], max, m) \in Ring(max, Message \cup {None})
    BY <1>1, <1>2, StoreProperties DEF Full
  <2>3. SameSide(b)'
    BY <1>2 DEF objectVars, SameSide
  <2>4. UNCHANGED <<normal, objects>>
    BY <1>2 DEF objectVars
  <2> DEFINE g == Store(ring[b], max, m)
  <2>5. ring' = [ring EXCEPT ![b] = g]
    BY <1>2
  <2> HIDE DEF g
  <2>6. g \in Ring(MaxNbMessage[b], Message \cup {None})
    BY <2>2 DEF g
  <2> QED  BY <2>1, <2>3, <2>4, <2>5, <2>6, BufferInv
<1>3. CASE /\ ~ Full(b) /\ queue[b] # <<>>
           /\ call' = [call EXCEPT ![head].message = m, ![head].done = TRUE]
           /\ delivered' = [delivered EXCEPT ![b] = m]
           /\ Signal(b)
           /\ UNCHANGED <<normal, objects, ring>>
  <2>1. head \in Proc /\ call[head].service = "RECEIVE_BUFFER" /\ call[head] \in Calls
    BY <1>1, <1>3, HeadWaits DEF Full, Side
  <2>2. [call[head] EXCEPT !.message = m, !.done = TRUE] \in Calls
    <3>1. call[head] \in [service : {"SEND_BUFFER", "RECEIVE_BUFFER"}, object : Resource,
                          message : Message \cup {None}, done : BOOLEAN]
      BY <2>1 DEF Calls
    <3>2. [call[head] EXCEPT !.message = m, !.done = TRUE] \in
             [service : {"SEND_BUFFER", "RECEIVE_BUFFER"}, object : Resource,
              message : Message \cup {None}, done : BOOLEAN]
      BY <3>1
    <3> QED  BY <3>2 DEF Calls
  <2>3. call' = [call EXCEPT ![head] = [call[head] EXCEPT !.message = m, !.done = TRUE]]
    BY <1>3, <2>1 DEF IInv, QueueInv, Typed
  <2>4. call' \in [Proc -> Calls] /\ \A q \in Proc : q # head => call'[q] = call[q]
    BY <2>2, <2>3 DEF IInv, QueueInv, Typed
  <2>5. QueueInv(Calls)' /\ \A r \in Resource : Kept(r)
    BY <1>3, <2>4, Kinds, SignalQueues DEF IInv
  <2>6. Shapes' /\ \A r \in Resource : Awaited(r) => Awaited(r)'
    BY <1>3 DEF IInv, Shapes, Awaited, semaphoreVars, boardVars
  <2> QED  BY <1>3, <2>5, <2>6, KeptInv
<1>4. CASE /\ Full(b)
           /\ Block(p, b, kind, Sending(b, m))
           /\ UNCHANGED <<normal, objects, bufferVars>>
  <2> DEFINE c == Sending(b, m)
  <2>1. c \in Calls /\ c.service # "none" /\ c.object = b
    BY Kinds DEF Calls, Sending
  <2>2. Side(b, c)
    BY <1>1, <1>4 DEF Side, Full, Sending
  <2>3. MayCall(p, b) /\ Block(p, b, kind, c)
    BY <1>4 DEF SEND_BUFFER
  <2> HIDE DEF c
  <2> QED  BY <1>4, <2>1, <2>2, <2>3, BlockBufferInv
<1> QED  BY <1>2, <1>3, <1>4 DEF SEND_BUFFER

LEMMA ReceiveStep ==
  ASSUME IInv, NEW b \in Buffer, NEW p \in Proc, NEW kind \in Waits,
         RECEIVE_BUFFER(p, b, kind), UNCHANGED <<semaphoreVars, up, boardVars>>
  PROVE  IInv'
<1> DEFINE head == Head(queue[b])
           max == MaxNbMessage[b]
           rest == Drop(ring[b], max)
<1>1. /\ max \in Nat \ {0} /\ ring[b] \in Ring(max, Message \cup {None})
      /\ ring[b].count \in 0..max
  BY RingOf
<1>2. ring[b].count > 0 => rest \in Ring(max, Message \cup {None}) /\ rest.count = ring[b].count - 1
  BY <1>1, DropProperties
<1>3. CASE /\ ring[b].count > 0 /\ queue[b] = <<>>
           /\ ring' = [ring EXCEPT ![b] = rest]
           /\ UNCHANGED objectVars
  <2>1. QueueInv(Calls)' /\ \A r \in Resource : Kept(r)
    BY <1>3, Stutter DEF IInv, objectVars
  <2>2. SameSide(b)'
    BY <1>3 DEF objectVars, SameSide
  <2>3. UNCHANGED <<normal, objects>>
    BY <1>3 DEF objectVars
  <2> HIDE DEF rest
  <2> QED  BY <1>2, <1>3, <2>1, <2>2, <2>3, BufferInv
<1>4. CASE /\ ring[b].count > 0 /\ queue[b] # <<>>
           /\ ring' = [ring EXCEPT ![b] = Store(rest, max, call[head].message)]
           /\ call' = [call EXCEPT ![head].done = TRUE]
           /\ Signal(b)
           /\ UNCHANGED <<normal, objects>>
  <2>1. /\ head \in Proc /\ call[head].service = "SEND_BUFFER" /\ call[head] \in Calls
        /\ call[head].message \in Message /\ ring[b].count = max
    BY <1>1, <1>4, HeadWaits DEF Side
  <2>2. [call[head] EXCEPT !.done = TRUE] \in Calls
    <3>1. call[head] \in [service : {"SEND_BUFFER", "RECEIVE_BUFFER"}, object : Resource,
                          message : Message \cup {None}, done : BOOLEAN]
      BY <2>1 DEF Calls
    <3>2. [call[head] EXCEPT !.done = TRUE] \in
             [service : {"SEND_BUFFER", "RECEIVE_BUFFER"}, object : Resource,
              message : Message \cup {None}, done : BOOLEAN]
      BY <3>1
    <3> QED  BY <3>2 DEF Calls
  <2>3. call' = [call EXCEPT ![head] = [call[head] EXCEPT !.done = TRUE]]
    BY <1>4, <2>1 DEF IInv, QueueInv, Typed
  <2>4. call' \in [Proc -> Calls] /\ \A q \in Proc : q # head => call'[q] = call[q]
    BY <2>2, <2>3 DEF IInv, QueueInv, Typed
  <2>5. QueueInv(Calls)' /\ \A r \in Resource : Kept(r)
    BY <1>4, <2>4, Kinds, SignalQueues DEF IInv
  <2> DEFINE g == Store(rest, max, call[head].message)
  <2>6. g \in Ring(max, Message \cup {None}) /\ g.count = max
    <3> HIDE DEF rest
    <3> QED  BY <1>1, <1>2, <1>4, <2>1, StoreProperties
  <2>7. \A i \in DOMAIN queue[b] : Side(b, call[queue[b][i]])
    BY DEF IInv, Sides, SameSide
  <2>8. \A i \in DOMAIN queue'[b] : \E j \in DOMAIN queue[b] : call'[queue'[b][i]] = call[queue[b][j]]
    BY <2>5, Kinds DEF Kept
  <2>9. ring'[b] = g
    BY <1>4 DEF IInv, Shapes
  <2> HIDE DEF g
  <2>10. SameSide(b)'
    BY <2>1, <2>6, <2>7, <2>8, <2>9, <1>1 DEF Side, SameSide
  <2>11. ring' = [ring EXCEPT ![b] = g]
    BY <1>4 DEF g
  <2> QED  BY <1>4, <2>5, <2>6, <2>10, <2>11, BufferInv
<1>5. CASE /\ ring[b].count = 0
           /\ Block(p, b, kind, Receiving(b))
           /\ UNCHANGED <<normal, objects, bufferVars>>
  <2> DEFINE c == Receiving(b)
  <2>1. c \in Calls /\ c.service # "none" /\ c.object = b
    BY Kinds DEF Calls, Receiving
  <2>2. Side(b, c)
    BY <1>5 DEF Side, Receiving
  <2>3. MayCall(p, b) /\ Block(p, b, kind, c)
    BY <1>5 DEF RECEIVE_BUFFER
  <2> HIDE DEF c
  <2> QED  BY <1>5, <2>1, <2>2, <2>3, BlockBufferInv
<1> QED  BY <1>3, <1>4, <1>5 DEF RECEIVE_BUFFER
LEMMA BufferStep ==
  ASSUME IInv, BufferServices, UNCHANGED <<semaphoreVars, up, boardVars>>
  PROVE  IInv'
<1>1. CASE \E b \in Buffer : CREATE_BUFFER(b)
  <2> PICK b \in Buffer : CREATE_BUFFER(b)
    BY <1>1
  <2>1. QueueInv(Calls)' /\ \A r \in Resource : Kept(r)
    BY Stutter DEF IInv, CREATE_BUFFER, Create, waitVars
  <2>2. Shapes' /\ \A r \in Resource : Awaited(r) => Awaited(r)'
    BY Kinds DEF IInv, Shapes, Awaited, CREATE_BUFFER, Create, semaphoreVars, boardVars, bufferVars
  <2> QED  BY <2>1, <2>2, KeptInv DEF CREATE_BUFFER, bufferVars
<1>2. CASE \E b \in Buffer, p \in Proc, kind \in Waits : RECEIVE_BUFFER(p, b, kind)
  BY <1>2, ReceiveStep
<1>3. CASE \E b \in Buffer, p \in Proc, kind \in Waits, m \in Message : SEND_BUFFER(p, b, m, kind)
  BY <1>3, SendStep
<1>4. CASE \E p \in Proc : BufferReturns(p)
  BY <1>4, ComebackInv DEF BufferReturns
<1> QED  BY <1>1, <1>2, <1>3, <1>4 DEF BufferServices

LEMMA InitIInv == Init => IInv
<1> SUFFICES ASSUME Init PROVE IInv
  OBVIOUS
<1> USE DEF Init, ObjectsInit, WaitInit, SemaphoresInit, EventsInit, BlackboardsInit, BuffersInit
<1>1. QueueInv(Calls)
  BY DEF QueueInv, Typed, Distinct, QueuedWaits, Injective, Calls, NoCall
<1>2. Shapes
  <2>1. \A b \in Buffer : ring[b] \in Ring(MaxNbMessage[b], Message \cup {None})
    BY BuffersAssumption DEF Ring, EmptyRing
  <2>2. ring = [b \in Buffer |-> ring[b]]
    OBVIOUS
  <2>3. value \in [Semaphore -> Nat] /\ \A s \in Semaphore : value[s] <= MaximumValue[s]
    BY SemaphoresAssumption
  <2>4. inside \in [Semaphore -> SUBSET Proc] /\ board \in [Blackboard -> Message \cup {None}]
    OBVIOUS
  <2>5. up = {} /\ occupied = {} /\ normal = {} /\ objects = {}
    OBVIOUS
  <2> QED  BY <2>1, <2>2, <2>3, <2>4, <2>5 DEF Shapes
<1>3. WaitsAreDue /\ Sides
  BY Kinds DEF WaitsAreDue, Sides, SameSide
<1> QED  BY <1>1, <1>2, <1>3 DEF IInv

LEMMA StepIInv == IInv /\ [Next]_vars => IInv'
<1> SUFFICES ASSUME IInv, [Next]_vars PROVE IInv'
  OBVIOUS
<1>1. CASE Services
  BY <1>1, SemaphoreStep, EventStep, BlackboardStep, BufferStep DEF Services
<1>2. CASE Ends \/ Moves
  BY <1>2, EndsAndMovesStep
<1>3. CASE UNCHANGED vars
  <2>1. QueueInv(Calls)' /\ \A r \in Resource : Kept(r)
    BY <1>3, Stutter DEF IInv, vars, objectVars
  <2>2. Shapes' /\ \A r \in Resource : Awaited(r) => Awaited(r)'
    BY <1>3 DEF IInv, Shapes, Awaited, vars, objectVars, semaphoreVars, boardVars, bufferVars
  <2> QED  BY <1>3, <2>1, <2>2, KeptInv DEF vars, bufferVars
<1> QED  BY <1>1, <1>2, <1>3 DEF Next

LEMMA AlwaysIInv == Spec => []IInv
BY InitIInv, StepIInv, PTL DEF Spec

\* TypeOK: the shapes of the objects and of who waits for them.
THEOREM TypeCorrect == Spec => []TypeOK
<1>1. IInv => TypeOK
  <2> SUFFICES ASSUME IInv PROVE TypeOK
    OBVIOUS
  <2>1. \A s \in Semaphore : value[s] \in 0..MaximumValue[s] /\ inside[s] \subseteq Proc
    BY SemaphoresAssumption DEF IInv, Shapes
  <2> QED  BY <2>1 DEF IInv, QueueInv, Typed, Shapes, TypeOK
<1> QED  BY <1>1, AlwaysIInv, PTL

\* NobodyWaitsInVain: whoever waits for a semaphore, an event or a blackboard waits for
\* what is not there, after any services, time-outs, stops and restarts.
THEOREM WaitsAreJustified == Spec => []NobodyWaitsInVain
<1>1. IInv => NobodyWaitsInVain
  BY DEF IInv, WaitsAreDue, Awaited, NobodyWaitsInVain, Shapes
<1> QED  BY <1>1, AlwaysIInv, PTL

\* OneSideWaits: SEND_BUFFER and RECEIVE_BUFFER may take the head of a buffer's queue for
\* a receiver and a sender as they do.
THEOREM HeadIsWhatItIsTakenFor == Spec => []OneSideWaits
<1>1. IInv => OneSideWaits
  BY DEF IInv, Sides, SameSide, Side, OneSideWaits
<1> QED  BY <1>1, AlwaysIInv, PTL
-----------------------------------------------------------------------------
(* A buffer is a FIFO channel (AbstractChannels).                          *)

content == [b \in Buffer |-> Contents(ring[b], MaxNbMessage[b])]

\* A step that changes one ring changes the contents of one channel.
LEMMA OneContent ==
  ASSUME IInv, NEW b \in Buffer, NEW g, ring' = [ring EXCEPT ![b] = g]
  PROVE  content' = [content EXCEPT ![b] = Contents(g, MaxNbMessage[b])]
<1>1. ring'[b] = g /\ \A x \in Buffer \ {b} : ring'[x] = ring[x]
  BY DEF IInv, Shapes
<1>2. content' = [x \in Buffer |-> Contents(ring'[x], MaxNbMessage[x])]
  BY DEF content
<1>3. content = [x \in Buffer |-> Contents(ring[x], MaxNbMessage[x])]
  BY DEF content
<1> QED  BY <1>1, <1>2, <1>3

\* MESSAGE_COUNT is what the channel's length is.
LEMMA ContentOf ==
  ASSUME IInv, NEW b \in Buffer
  PROVE  /\ content[b] = Contents(ring[b], MaxNbMessage[b])
         /\ content[b] \in Seq(Message \cup {None}) /\ Len(content[b]) = ring[b].count
BY RingOf, RingContents DEF content

LEMMA SendRefines ==
  ASSUME IInv, NEW b \in Buffer, NEW p \in Proc, NEW m \in Message, NEW kind \in Waits,
         SEND_BUFFER(p, b, m, kind)
  PROVE  Channels!Next \/ UNCHANGED <<content, delivered>>
<1> DEFINE max == MaxNbMessage[b]
<1>1. /\ max \in Nat \ {0} /\ ring[b] \in Ring(max, Message \cup {None})
      /\ ring[b].count \in 0..max
  BY RingOf
<1>2. /\ content[b] = Contents(ring[b], max)
      /\ content[b] \in Seq(Message \cup {None}) /\ Len(content[b]) = ring[b].count
  BY ContentOf
<1>3. CASE /\ ~ Full(b) /\ ring' = [ring EXCEPT ![b] = Store(@, max, m)]
           /\ UNCHANGED delivered
  <2>1. Contents(Store(ring[b], max, m), max) = Append(content[b], m)
    BY <1>1, <1>2, <1>3, StoreProperties DEF Full
  <2>2. content' = [content EXCEPT ![b] = Append(content[b], m)]
    BY <1>3, <2>1, OneContent
  <2>3. Len(content[b]) < max
    BY <1>1, <1>2, <1>3 DEF Full
  <2>4. Channels!Accept(b, m)
    BY <1>3, <2>2, <2>3 DEF Channels!Accept, content
  <2> QED  BY <2>4 DEF Channels!Next
<1>4. CASE /\ ~ Full(b) /\ queue[b] # <<>>
           /\ delivered' = [delivered EXCEPT ![b] = m] /\ UNCHANGED ring
  <2>1. ring[b].count = 0
    BY <1>1, <1>4, HeadWaits DEF Full, Side
  <2>2. content[b] = <<>>
    BY <1>2, <2>1
  <2>3. content' = content
    BY <1>4 DEF content
  <2>4. Channels!HandOver(b, m)
    BY <1>4, <2>2, <2>3 DEF Channels!HandOver, content
  <2> QED  BY <2>4 DEF Channels!Next
<1>5. CASE UNCHANGED bufferVars
  BY <1>5 DEF bufferVars, content
<1> QED  BY <1>3, <1>4, <1>5 DEF SEND_BUFFER

LEMMA ReceiveRefines ==
  ASSUME IInv, NEW b \in Buffer, NEW p \in Proc, NEW kind \in Waits, RECEIVE_BUFFER(p, b, kind)
  PROVE  Channels!Next \/ UNCHANGED <<content, delivered>>
<1> DEFINE head == Head(queue[b])
           max == MaxNbMessage[b]
           rest == Drop(ring[b], max)
<1>1. /\ max \in Nat \ {0} /\ ring[b] \in Ring(max, Message \cup {None})
      /\ ring[b].count \in 0..max
  BY RingOf
<1>2. /\ content[b] = Contents(ring[b], max)
      /\ content[b] \in Seq(Message \cup {None}) /\ Len(content[b]) = ring[b].count
  BY ContentOf
<1>3. ring[b].count > 0 =>
        /\ rest \in Ring(max, Message \cup {None}) /\ rest.count = ring[b].count - 1
        /\ content[b] # <<>> /\ Head(content[b]) = Oldest(ring[b])
        /\ Contents(rest, max) = Tail(content[b])
  BY <1>1, <1>2, DropProperties
<1>4. CASE /\ ring[b].count > 0
           /\ delivered' = [delivered EXCEPT ![b] = Oldest(ring[b])]
           /\ ring' = [ring EXCEPT ![b] = rest]
  <2>1. content' = [content EXCEPT ![b] = Tail(content[b])]
    <3> HIDE DEF rest
    <3> QED  BY <1>3, <1>4, OneContent
  <2>2. Channels!Deliver(b)
    BY <1>3, <1>4, <2>1 DEF Channels!Deliver, content
  <2> QED  BY <2>2 DEF Channels!Next
<1>5. CASE /\ ring[b].count > 0 /\ queue[b] # <<>>
           /\ delivered' = [delivered EXCEPT ![b] = Oldest(ring[b])]
           /\ ring' = [ring EXCEPT ![b] = Store(rest, max, call[head].message)]
  <2> DEFINE m == call[head].message
             g == Store(rest, max, m)
  <2>1. m \in Message /\ ring[b].count = max
    BY <1>1, <1>5, HeadWaits DEF Side
  <2>2. Contents(g, max) = Append(Tail(content[b]), m)
    <3> HIDE DEF rest
    <3> HIDE DEF max, m
    <3>1. rest \in Ring(max, Message \cup {None}) /\ rest.count < max
      BY <1>1, <1>3, <1>5
    <3>2. Contents(Store(rest, max, m), max) = Append(Contents(rest, max), m)
      <4>1. max \in Nat \ {0} /\ m \in Message \cup {None}
        BY <1>1, <2>1
      <4> QED  BY <3>1, <4>1, StoreProperties
    <3> QED  BY <1>3, <1>5, <3>2
  <2>3. ring' = [ring EXCEPT ![b] = g]
    BY <1>5
  <2> HIDE DEF g, m, rest
  <2>4. content' = [content EXCEPT ![b] = Append(Tail(content[b]), m)]
    BY <2>2, <2>3, OneContent
  <2>5. Channels!Exchange(b, m)
    BY <1>2, <1>3, <1>5, <2>1, <2>4 DEF Channels!Exchange, content
  <2> QED  BY <2>1, <2>5 DEF Channels!Next
<1>6. CASE UNCHANGED bufferVars
  BY <1>6 DEF bufferVars, content
<1> QED  BY <1>4, <1>5, <1>6 DEF RECEIVE_BUFFER

LEMMA InitRefines == Init => Channels!Init
<1> SUFFICES ASSUME Init PROVE Channels!Init
  OBVIOUS
<1>1. \A b \in Buffer : Contents(ring[b], MaxNbMessage[b]) = <<>>
  BY DEF Init, BuffersInit, Contents, EmptyRing
<1> QED  BY <1>1 DEF Init, BuffersInit, Channels!Init

LEMMA StepRefines ==
  IInv /\ [Next]_vars => Channels!Next \/ UNCHANGED <<content, delivered>>
<1> SUFFICES ASSUME IInv, [Next]_vars PROVE Channels!Next \/ UNCHANGED <<content, delivered>>
  OBVIOUS
<1>1. CASE BufferServices
  <2>1. CASE \E b \in Buffer, p \in Proc, kind \in Waits : RECEIVE_BUFFER(p, b, kind)
    BY <2>1, ReceiveRefines
  <2>2. CASE \E b \in Buffer, p \in Proc, kind \in Waits, m \in Message : SEND_BUFFER(p, b, m, kind)
    BY <2>2, SendRefines
  <2>3. CASE \/ \E b \in Buffer : CREATE_BUFFER(b)
             \/ \E p \in Proc : BufferReturns(p)
    BY <2>3 DEF CREATE_BUFFER, BufferReturns, bufferVars, content
  <2> QED  BY <1>1, <2>1, <2>2, <2>3 DEF BufferServices
<1>2. CASE UNCHANGED bufferVars
  BY <1>2 DEF bufferVars, content
<1> QED  BY <1>1, <1>2 DEF Next, Services, Ends, Moves, vars

\* ImplementsChannels: CREATE_BUFFER, SEND_BUFFER and RECEIVE_BUFFER, with their hand-over to
\* those who wait, make of every buffer a FIFO channel, whatever ends the waits.
THEOREM BuffersImplementChannels == Spec => ImplementsChannels
<1>1. IInv /\ [Next]_vars =>
        [Channels!Next]_<<[b \in Buffer |-> Contents(ring[b], MaxNbMessage[b])], delivered>>
  BY StepRefines DEF content
<1> QED  BY <1>1, InitRefines, AlwaysIInv, PTL DEF Spec, ImplementsChannels, Channels!Spec

-----------------------------------------------------------------------------
(* What a service that waited tells its caller.                            *)

\* A blocked service is one of its object, and its answer fits what happened to it.
Told(c, w, messages) ==
  /\ c.service = "WAIT_SEMAPHORE" => c.object \in Semaphore
  /\ c.service = "WAIT_EVENT" => c.object \in Event
  /\ c.service = "READ_BLACKBOARD" =>
       c.object \in Blackboard /\ (w = "granted" => messages[c.object] \in c.displayed)
  /\ c.service \in {"SEND_BUFFER", "RECEIVE_BUFFER"} =>
       /\ c.object \in Buffer
       /\ c.done <=> w = "granted"
       /\ c.message = None <=> (c.service = "RECEIVE_BUFFER" /\ ~ c.done)

AllTold == \A p \in Proc : Told(call[p], wait[p], board)

LEMMA ToldNoCall == \A w, messages : Told(NoCall, w, messages)
BY DEF Told, NoCall

\* Where nobody is granted anything, calls that go on or end stay told.
LEMMA ToldKept ==
  ASSUME AllTold, board' = board,
         \A p \in Proc : \/ call'[p] = NoCall
                         \/ call'[p] = call[p] /\ (wait'[p] = "granted" <=> wait[p] = "granted")
  PROVE  AllTold'
<1> SUFFICES ASSUME NEW p \in Proc PROVE Told(call'[p], wait'[p], board)
  BY DEF AllTold, Told
<1>1. Told(call[p], wait[p], board)
  BY DEF AllTold
<1>2. CASE call'[p] = NoCall
  BY <1>2, ToldNoCall
<1>3. CASE call'[p] = call[p] /\ (wait'[p] = "granted" <=> wait[p] = "granted")
  BY <1>1, <1>3 DEF Told
<1> QED  BY <1>2, <1>3

LEMMA ToldBlock ==
  ASSUME IInv, AllTold, board' = board, NEW p \in Proc, NEW r, NEW kind \in Waits, NEW c,
         Block(p, r, kind, c), Told(c, kind, board)
  PROVE  AllTold'
<1>1. /\ wait' = [wait EXCEPT ![p] = kind] /\ call' = [call EXCEPT ![p] = c]
  BY DEF Block, Wait
<1> SUFFICES ASSUME NEW q \in Proc PROVE Told(call'[q], wait'[q], board)
  BY DEF AllTold, Told
<1>2. CASE q = p
  BY <1>1, <1>2 DEF IInv, QueueInv, Typed
<1>3. CASE q # p
  BY <1>1, <1>3 DEF IInv, QueueInv, Typed, AllTold
<1> QED  BY <1>2, <1>3

\* Comeback, Halt, TimeOut, SetPriority and Restart grant nobody anything.
LEMMA ToldEnds ==
  ASSUME IInv, AllTold, board' = board,
         \/ \E p \in Proc : Comeback(p) \/ Halt(p) \/ TimeOut(p) \/ \E r : SetPriority(p, r)
         \/ \E P : Restart(P) \/ SetNormal(P)
  PROVE  AllTold'
<1> USE DEF IInv, QueueInv, Typed
<1>1. ASSUME NEW p \in Proc, Comeback(p) \/ Halt(p)
      PROVE  \A q \in Proc : call'[q] = NoCall \/ (call'[q] = call[q] /\ wait'[q] = wait[q])
  BY <1>1 DEF Comeback, Return, Halt, Stop
<1>2. ASSUME NEW p \in Proc, TimeOut(p)
      PROVE  \A q \in Proc : call'[q] = call[q] /\ (wait'[q] = "granted" <=> wait[q] = "granted")
  BY <1>2 DEF TimeOut, Expire
<1>3. ASSUME NEW p \in Proc, NEW r, SetPriority(p, r)
      PROVE  call' = call /\ wait' = wait
  BY <1>3 DEF SetPriority, Move
<1>4. ASSUME NEW P, Restart(P)
      PROVE  \A q \in Proc : call'[q] = NoCall \/ (call'[q] = call[q] /\ wait'[q] = wait[q])
  BY <1>4 DEF Restart, StopAll, ProcessesOf
<1>5. ASSUME NEW P, SetNormal(P)
      PROVE  call' = call /\ wait' = wait
  BY <1>5 DEF SetNormal, waitVars
<1> QED  BY <1>1, <1>2, <1>3, <1>4, <1>5, ToldKept

\* Who heads the queue of an object is in a service of that object.
LEMMA HeadOf ==
  ASSUME IInv, NEW r \in Resource, queue[r] # <<>>
  PROVE  LET head == Head(queue[r])
         IN  /\ head \in Proc /\ wait[head] \in Waits
             /\ call[head].service # "none" /\ call[head].object = r /\ Home[head] = Home[r]
<1>1. Head(queue[r]) = queue[r][1] /\ 1 \in DOMAIN queue[r] /\ queue[r] \in Seq(Proc)
  BY TailProperties DEF IInv, QueueInv, Typed, Distinct
<1>2. Head(queue[r]) \in Proc
  BY <1>1
<1> QED  BY <1>1, <1>2 DEF IInv, QueueInv, QueuedWaits

\* The head of a queue is told the truth, the others stay as they are.
LEMMA ToldSignal ==
  ASSUME IInv, AllTold, board' = board, NEW r \in Resource, Signal(r),
         Told(call'[Head(queue[r])], "granted", board),
         \A p \in Proc : p # Head(queue[r]) => call'[p] = call[p]
  PROVE  AllTold'
<1> DEFINE h == Head(queue[r])
<1>1. queue[r] # <<>> /\ wait' = [wait EXCEPT ![h] = "granted"]
  BY DEF Signal
<1>2. h \in Proc
  BY <1>1, HeadOf
<1> SUFFICES ASSUME NEW q \in Proc PROVE Told(call'[q], wait'[q], board)
  BY DEF AllTold, Told
<1>3. CASE q = h
  BY <1>1, <1>2, <1>3 DEF IInv, QueueInv, Typed
<1>4. CASE q # h
  BY <1>1, <1>4 DEF IInv, QueueInv, Typed, AllTold
<1> QED  BY <1>3, <1>4

\* What waits for a semaphore or an event has nothing to be told but that it is granted.
LEMMA ToldUnits ==
  ASSUME NEW c \in Calls, NEW w, NEW messages, Told(c, w, messages), c.service # "none",
         c.object \in Semaphore \cup Event
  PROVE  /\ c.object \in Semaphore => c = [service |-> "WAIT_SEMAPHORE", object |-> c.object]
         /\ c.object \in Event => c = [service |-> "WAIT_EVENT", object |-> c.object]
         /\ Told(c, "granted", messages)
BY Kinds DEF Told, Calls

LEMMA ToldSemaphoreStep ==
  ASSUME IInv, AllTold, SemaphoreServices, UNCHANGED boardVars
  PROVE  AllTold'
<1> USE DEF boardVars
<1>1. CASE \E s \in Semaphore, p \in Proc : SIGNAL_SEMAPHORE(p, s)
  <2> PICK s \in Semaphore, p \in Proc : SIGNAL_SEMAPHORE(p, s)
    BY <1>1
  <2>1. CASE UNCHANGED objectVars
    BY <2>1, ToldKept DEF objectVars
  <2>2. CASE Signal(s) /\ UNCHANGED call
    <3> DEFINE h == Head(queue[s])
    <3>1. h \in Proc /\ call[h].service # "none" /\ call[h].object = s /\ s \in Resource
      BY <2>2, HeadOf, Kinds DEF Signal
    <3>2. Told(call'[h], "granted", board)
      <4>1. call[h] \in Calls /\ Told(call[h], wait[h], board)
        BY <3>1 DEF AllTold, IInv, QueueInv, Typed
      <4> HIDE DEF h
      <4> QED  BY <2>2, <3>1, <4>1, ToldUnits
    <3> QED  BY <2>2, <3>1, <3>2, ToldSignal
  <2> QED  BY <2>1, <2>2 DEF SIGNAL_SEMAPHORE
<1>2. CASE \E s \in Semaphore, p \in Proc, kind \in Waits : WAIT_SEMAPHORE(p, s, kind)
  <2> PICK s \in Semaphore, p \in Proc, kind \in Waits : WAIT_SEMAPHORE(p, s, kind)
    BY <1>2
  <2> DEFINE c == [service |-> "WAIT_SEMAPHORE", object |-> s]
  <2>1. CASE UNCHANGED objectVars
    BY <2>1, ToldKept DEF objectVars
  <2>2. CASE Block(p, s, kind, c)
    <3>1. Told(c, kind, board)
      BY DEF Told
    <3> QED  BY <2>2, <3>1, ToldBlock
  <2> QED  BY <2>1, <2>2 DEF WAIT_SEMAPHORE
<1>3. CASE \E s \in Semaphore : CREATE_SEMAPHORE(s)
  BY <1>3, ToldKept DEF CREATE_SEMAPHORE, Create, waitVars
<1>4. CASE \E p \in Proc : WaitSemaphoreReturns(p)
  BY <1>4, ToldEnds DEF WaitSemaphoreReturns
<1> QED  BY <1>1, <1>2, <1>3, <1>4 DEF SemaphoreServices

\* Who is in the queue of an object is in a service of it.
LEMMA QueuedCalls ==
  ASSUME IInv, NEW p \in Proc, NEW r \in Resource, InQueue(p, r)
  PROVE  call[p].object = r /\ call[p].service # "none" /\ wait[p] \in Waits
BY DEF InQueue, IInv, QueueInv, QueuedWaits

LEMMA ToldEventStep ==
  ASSUME IInv, AllTold, EventServices, UNCHANGED boardVars
  PROVE  AllTold'
<1> USE DEF boardVars
<1>1. CASE \E e \in Event : SET_EVENT(e)
  <2> PICK e \in Event : SET_EVENT(e)
    BY <1>1
  <2>1. /\ wait' = [p \in Proc |-> IF InQueue(p, e) THEN "granted" ELSE wait[p]]
        /\ call' = call
    BY DEF SET_EVENT, SignalAll
  <2>2. ASSUME NEW p \in Proc PROVE Told(call'[p], wait'[p], board)
    <3>1. call[p] \in Calls /\ Told(call[p], wait[p], board)
      BY DEF AllTold, IInv, QueueInv, Typed
    <3>2. CASE InQueue(p, e)
      <4>1. call[p].service # "none" /\ call[p].object \in Event /\ wait'[p] = "granted"
        BY <2>1, <3>2, QueuedCalls, Kinds
      <4> QED  BY <2>1, <3>1, <4>1, ToldUnits
    <3>3. CASE ~ InQueue(p, e)
      BY <2>1, <3>1, <3>3
    <3> QED  BY <3>2, <3>3
  <2> QED  BY <2>2 DEF AllTold, Told
<1>2. CASE \E e \in Event, p \in Proc, kind \in Waits : WAIT_EVENT(p, e, kind)
  <2> PICK e \in Event, p \in Proc, kind \in Waits : WAIT_EVENT(p, e, kind)
    BY <1>2
  <2> DEFINE c == [service |-> "WAIT_EVENT", object |-> e]
  <2>1. Block(p, e, kind, c) /\ Told(c, kind, board)
    BY DEF WAIT_EVENT, Told
  <2> HIDE DEF c
  <2> QED  BY <2>1, ToldBlock
<1>3. CASE \E e \in Event : CREATE_EVENT(e) \/ RESET_EVENT(e)
  BY <1>3, ToldKept DEF CREATE_EVENT, Create, waitVars, RESET_EVENT, objectVars
<1>4. CASE \E p \in Proc : WaitEventReturns(p)
  BY <1>4, ToldEnds DEF WaitEventReturns
<1> QED  BY <1>1, <1>2, <1>3, <1>4 DEF EventServices

\* Whoever waits or has been woken finds what is displayed now among what was displayed.
LEMMA ToldBlackboardStep ==
  ASSUME IInv, AllTold, BlackboardServices
  PROVE  AllTold'
<1>1. CASE \E b \in Blackboard, m \in Message : DISPLAY_BLACKBOARD(b, m)
  <2> PICK b \in Blackboard, m \in Message : DISPLAY_BLACKBOARD(b, m)
    BY <1>1
  <2>1. /\ wait' = [p \in Proc |-> IF InQueue(p, b) THEN "granted" ELSE wait[p]]
        /\ board' = [board EXCEPT ![b] = m]
        /\ call' = [p \in Proc |->
             IF Reading(p, b) THEN [call[p] EXCEPT !.displayed = @ \cup {m}] ELSE call[p]]
    BY DEF DISPLAY_BLACKBOARD, SignalAll
  <2>2. board'[b] = m /\ \A x \in Blackboard : x # b => board'[x] = board[x]
    BY <2>1 DEF IInv, Shapes
  <2>3. ASSUME NEW p \in Proc PROVE Told(call'[p], wait'[p], board')
    <3>1. call[p] \in Calls /\ Told(call[p], wait[p], board)
      BY DEF AllTold, IInv, QueueInv, Typed
    <3>2. CASE Reading(p, b)
      <4>1. /\ call[p].service = "READ_BLACKBOARD" /\ call[p].object = b
            /\ call[p] \in [service : {"READ_BLACKBOARD"}, object : Resource, displayed : SUBSET Message]
        BY <3>1, <3>2 DEF Reading, Calls
      <4>2. call'[p] = [service |-> "READ_BLACKBOARD", object |-> b,
                        displayed |-> call[p].displayed \cup {m}]
        BY <2>1, <3>2, <4>1
      <4> QED  BY <2>2, <4>2 DEF Told
    <3>3. CASE ~ Reading(p, b)
      <4>1. ~ InQueue(p, b)
        <5> SUFFICES ASSUME InQueue(p, b) PROVE FALSE
          OBVIOUS
        <5>1. call[p].object = b /\ call[p].service # "none"
          BY Kinds, QueuedCalls
        <5>2. b \in Blackboard /\ call[p].service # "READ_BLACKBOARD"
          BY <3>3, <5>1 DEF Reading
        <5> QED  BY <3>1, <5>1, <5>2, Kinds DEF Told, Calls
      <4>2. call'[p] = call[p] /\ wait'[p] = wait[p]
        BY <2>1, <3>3, <4>1
      <4>3. call[p].service = "READ_BLACKBOARD" => call[p].object # b
        BY <3>3 DEF Reading
      <4> QED  BY <2>2, <3>1, <4>2, <4>3 DEF Told
    <3> QED  BY <3>2, <3>3
  <2> QED  BY <2>3 DEF AllTold, Told
<1>2. CASE \E b \in Blackboard, p \in Proc, kind \in Waits : READ_BLACKBOARD(p, b, kind)
  <2> PICK b \in Blackboard, p \in Proc, kind \in Waits : READ_BLACKBOARD(p, b, kind)
    BY <1>2
  <2> DEFINE c == [service |-> "READ_BLACKBOARD", object |-> b, displayed |-> {}]
  <2>1. Block(p, b, kind, c) /\ Told(c, kind, board) /\ board' = board
    BY DEF READ_BLACKBOARD, Told, Waits, boardVars
  <2> HIDE DEF c
  <2> QED  BY <2>1, ToldBlock
<1>3. CASE \E b \in Blackboard : CREATE_BLACKBOARD(b) \/ CLEAR_BLACKBOARD(b)
  BY <1>3, ToldKept DEF CREATE_BLACKBOARD, Create, waitVars, CLEAR_BLACKBOARD, objectVars
<1>4. CASE \E p \in Proc : ReadBlackboardReturns(p)
  BY <1>4, ToldEnds DEF ReadBlackboardReturns, boardVars
<1> QED  BY <1>1, <1>2, <1>3, <1>4 DEF BlackboardServices

LEMMA ToldBufferStep ==
  ASSUME IInv, AllTold, BufferServices, UNCHANGED boardVars
  PROVE  AllTold'
<1> USE DEF boardVars
<1>0. ASSUME NEW b \in Buffer, queue[b] # <<>>
      PROVE  LET head == Head(queue[b])
             IN  /\ head \in Proc /\ Side(b, call[head]) /\ call[head].object = b
                 /\ call[head] \in [service : {"SEND_BUFFER", "RECEIVE_BUFFER"}, object : Resource,
                                    message : Message \cup {None}, done : BOOLEAN]
                 /\ Told(call[head], wait[head], board) /\ wait[head] \in Waits
  BY <1>0, HeadWaits, HeadOf, Kinds DEF Side, Calls, AllTold
<1>1. CASE \E b \in Buffer, p \in Proc, kind \in Waits, m \in Message : SEND_BUFFER(p, b, m, kind)
  <2> PICK b \in Buffer, p \in Proc, kind \in Waits, m \in Message : SEND_BUFFER(p, b, m, kind)
    BY <1>1
  <2> DEFINE h == Head(queue[b])
             c == Sending(b, m)
  <2>1. CASE UNCHANGED objectVars
    BY <2>1, ToldKept DEF objectVars
  <2>2. CASE /\ ~ Full(b) /\ queue[b] # <<>> /\ Signal(b)
             /\ call' = [call EXCEPT ![h].message = m, ![h].done = TRUE]
    <3>1. /\ h \in Proc /\ call[h].service = "RECEIVE_BUFFER" /\ call[h].object = b
          /\ call[h] \in [service : {"SEND_BUFFER", "RECEIVE_BUFFER"}, object : Resource,
                          message : Message \cup {None}, done : BOOLEAN]
      BY <1>0, <2>2, RingOf DEF Full, Side
    <3>2. call'[h] = [service |-> "RECEIVE_BUFFER", object |-> b, message |-> m, done |-> TRUE]
      BY <2>2, <3>1 DEF IInv, QueueInv, Typed
    <3>3. Told(call'[h], "granted", board)
      BY <3>2, CommunicationObjectsAssumption DEF Told
    <3>4. \A q \in Proc : q # h => call'[q] = call[q]
      BY <2>2, <3>1 DEF IInv, QueueInv, Typed
    <3> HIDE DEF h
    <3> QED  BY <2>2, <3>3, <3>4, Kinds, ToldSignal DEF h
  <2>3. CASE Block(p, b, kind, c)
    <3>1. Told(c, kind, board)
      BY CommunicationObjectsAssumption DEF Told, Sending, Waits
    <3> HIDE DEF c
    <3> QED  BY <2>3, <3>1, ToldBlock
  <2> QED  BY <2>1, <2>2, <2>3 DEF SEND_BUFFER
<1>2. CASE \E b \in Buffer, p \in Proc, kind \in Waits : RECEIVE_BUFFER(p, b, kind)
  <2> PICK b \in Buffer, p \in Proc, kind \in Waits : RECEIVE_BUFFER(p, b, kind)
    BY <1>2
  <2> DEFINE h == Head(queue[b])
             c == Receiving(b)
  <2>1. CASE UNCHANGED objectVars
    BY <2>1, ToldKept DEF objectVars
  <2>2. CASE /\ ring[b].count > 0 /\ queue[b] # <<>> /\ Signal(b)
             /\ call' = [call EXCEPT ![h].done = TRUE]
    <3>1. /\ h \in Proc /\ call[h].service = "SEND_BUFFER" /\ call[h].object = b
          /\ call[h].message \in Message
          /\ call[h] \in [service : {"SEND_BUFFER", "RECEIVE_BUFFER"}, object : Resource,
                          message : Message \cup {None}, done : BOOLEAN]
      BY <1>0, <2>2, RingOf DEF Side
    <3>2. call'[h] = [service |-> "SEND_BUFFER", object |-> b,
                      message |-> call[h].message, done |-> TRUE]
      BY <2>2, <3>1 DEF IInv, QueueInv, Typed
    <3>3. Told(call'[h], "granted", board)
      BY <3>1, <3>2, CommunicationObjectsAssumption DEF Told
    <3>4. \A q \in Proc : q # h => call'[q] = call[q]
      BY <2>2, <3>1 DEF IInv, QueueInv, Typed
    <3> HIDE DEF h
    <3> QED  BY <2>2, <3>3, <3>4, Kinds, ToldSignal DEF h
  <2>3. CASE Block(p, b, kind, c)
    <3>1. Told(c, kind, board)
      BY CommunicationObjectsAssumption DEF Told, Receiving, Waits
    <3> HIDE DEF c
    <3> QED  BY <2>3, <3>1, ToldBlock
  <2> QED  BY <2>1, <2>2, <2>3 DEF RECEIVE_BUFFER
<1>3. CASE \E b \in Buffer : CREATE_BUFFER(b)
  BY <1>3, ToldKept DEF CREATE_BUFFER, Create, waitVars
<1>4. CASE \E p \in Proc : BufferReturns(p)
  BY <1>4, ToldEnds DEF BufferReturns
<1> QED  BY <1>1, <1>2, <1>3, <1>4 DEF BufferServices

LEMMA StepTold == IInv /\ AllTold /\ [Next]_vars => AllTold'
<1> SUFFICES ASSUME IInv, AllTold, [Next]_vars PROVE AllTold'
  OBVIOUS
<1>1. CASE Services
  BY <1>1, ToldSemaphoreStep, ToldEventStep, ToldBlackboardStep, ToldBufferStep DEF Services
<1>2. CASE Ends \/ Moves
  BY <1>2, ToldEnds DEF Ends, Moves, boardVars
<1>3. CASE UNCHANGED vars
  BY <1>3, ToldKept DEF vars, objectVars, boardVars
<1> QED  BY <1>1, <1>2, <1>3 DEF Next

LEMMA AlwaysTold == Spec => [](IInv /\ AllTold)
<1>1. Init => AllTold
  BY ToldNoCall DEF Init, ObjectsInit, AllTold
<1>2. AllTold /\ IInv /\ [Next]_vars => AllTold'
  BY StepTold
<1> QED  BY <1>1, <1>2, AlwaysIInv, PTL DEF Spec

\* AnswerMatchesEffect: SEND_BUFFER and RECEIVE_BUFFER answer NO_ERROR exactly when the
\* message was taken over or has arrived, whatever races with the time-out.
THEOREM BufferAnswersAreTrue == Spec => []AnswerMatchesEffect
<1>1. AllTold => AnswerMatchesEffect
  BY DEF AllTold, Told, AnswerMatchesEffect
<1> QED  BY <1>1, AlwaysTold, PTL

\* ReadersFindDisplayed: READ_BLACKBOARD copies, after its wait, a message displayed
\* since it was called, though the board may have been cleared meanwhile.
THEOREM ReadersAreServed == Spec => []ReadersFindDisplayed
<1>1. AllTold => ReadersFindDisplayed
  BY DEF AllTold, Told, ReadersFindDisplayed
<1> QED  BY <1>1, AlwaysTold, PTL

-----------------------------------------------------------------------------
(* Sections guarded by semaphores.                                         *)

\* Who is inside or on the way in belongs to the partition of a semaphore that exists,
\* and together with the units left they are as many as there were units.
SectionInv ==
  \A s \in Semaphore :
    /\ \A p \in inside[s] \cup OnTheWay(s) : Home[p] = Home[s] /\ s \in objects
    /\ s \in objects =>
         Cardinality(inside[s]) + Cardinality(OnTheWay(s)) + value[s] <= CurrentValue[s]

LEMMA Finite ==
  ASSUME NEW S \in SUBSET Proc
  PROVE  IsFiniteSet(S) /\ Cardinality(S) \in Nat /\ \A T \in SUBSET S : Cardinality(T) <= Cardinality(S)
<1>1. IsFiniteSet(S)
  BY CommunicationObjectsAssumption, FS_Subset
<1> QED  BY <1>1, FS_CardinalityType, FS_Subset

\* Nobody comes into a section: not into the one that is guarded, nor on the way.
Fewer(s) == inside'[s] \subseteq inside[s] /\ OnTheWay(s)' \subseteq OnTheWay(s)

LEMMA SectionKept ==
  ASSUME IInv, IInv', SectionInv, value' = value, NEW s \in Semaphore, Fewer(s),
         s \in objects' => s \in objects,
         s \in objects /\ s \notin objects' => \A p \in Proc : Home[p] = Home[s] =>
           p \notin inside'[s] /\ p \notin OnTheWay(s)'
  PROVE  /\ \A p \in inside'[s] \cup OnTheWay(s)' : Home[p] = Home[s] /\ s \in objects'
         /\ s \in objects' =>
              Cardinality(inside'[s]) + Cardinality(OnTheWay(s)') + value'[s] <= CurrentValue[s]
<1>1. inside[s] \in SUBSET Proc /\ inside'[s] \in SUBSET Proc
  BY DEF IInv, Shapes
<1>2. OnTheWay(s) \in SUBSET Proc /\ OnTheWay(s)' \in SUBSET Proc
  BY DEF OnTheWay
<1>3. /\ Cardinality(inside[s]) \in Nat /\ Cardinality(inside'[s]) \in Nat
      /\ Cardinality(OnTheWay(s)) \in Nat /\ Cardinality(OnTheWay(s)') \in Nat
      /\ Cardinality(inside'[s]) <= Cardinality(inside[s])
      /\ Cardinality(OnTheWay(s)') <= Cardinality(OnTheWay(s))
  BY <1>1, <1>2, Finite DEF Fewer
<1>4. value[s] \in Nat /\ CurrentValue[s] \in Nat
  BY SemaphoresAssumption DEF IInv, Shapes
<1>5. \A p \in inside'[s] \cup OnTheWay(s)' : Home[p] = Home[s] /\ s \in objects'
  BY <1>1, <1>2 DEF Fewer, SectionInv
<1>6. s \in objects' =>
        Cardinality(inside'[s]) + Cardinality(OnTheWay(s)') + value'[s] <= CurrentValue[s]
  BY <1>3, <1>4 DEF SectionInv
<1> QED  BY <1>5, <1>6

\* Who is not granted a unit by this step is not on the way because of it.
LEMMA NobodyComes ==
  ASSUME \A p \in Proc : call'[p].service = "WAIT_SEMAPHORE" /\ wait'[p] = "granted" =>
           call'[p] = call[p] /\ wait[p] = "granted"
  PROVE  \A s \in Semaphore : OnTheWay(s)' \subseteq OnTheWay(s)
BY DEF OnTheWay

\* A step that only takes processes out of sections, and no semaphore away.
LEMMA SectionsKept ==
  ASSUME IInv, IInv', SectionInv, value' = value,
         \A s \in Semaphore : s \in objects' <=> s \in objects,
         \A s \in Semaphore : inside'[s] \subseteq inside[s],
         \A p \in Proc : call'[p].service = "WAIT_SEMAPHORE" /\ wait'[p] = "granted" =>
           call'[p] = call[p] /\ wait[p] = "granted"
  PROVE  SectionInv'
<1>1. \A s \in Semaphore : Fewer(s)
  BY NobodyComes DEF Fewer
<1>2. ASSUME NEW s \in Semaphore
      PROVE  /\ \A p \in inside'[s] \cup OnTheWay(s)' : Home[p] = Home[s] /\ s \in objects'
             /\ s \in objects' =>
                  Cardinality(inside'[s]) + Cardinality(OnTheWay(s)') + value'[s] <= CurrentValue[s]
  BY <1>1, SectionKept
<1> QED  BY <1>2 DEF SectionInv

LEMMA CreateSections ==
  ASSUME IInv, SectionInv, NEW s \in Semaphore, CREATE_SEMAPHORE(s)
  PROVE  SectionInv'
<1>1. /\ s \notin objects /\ objects' = objects \cup {s} /\ inside' = inside
      /\ call' = call /\ wait' = wait /\ value' = [value EXCEPT ![s] = CurrentValue[s]]
  BY DEF CREATE_SEMAPHORE, Create, waitVars
<1>2. inside[s] = {} /\ OnTheWay(s) = {}
  BY <1>1 DEF SectionInv
<1>3. Cardinality({}) = 0 /\ CurrentValue[s] \in Nat
  BY FS_EmptySet, SemaphoresAssumption
<1>4. value'[s] = CurrentValue[s] /\ \A x \in Semaphore : x # s => value'[x] = value[x]
  BY <1>1 DEF IInv, Shapes
<1>5. \A x \in Semaphore : OnTheWay(x)' = OnTheWay(x)
  BY <1>1 DEF OnTheWay
<1>6. ASSUME NEW x \in Semaphore
      PROVE  /\ \A p \in inside'[x] \cup OnTheWay(x)' : Home[p] = Home[x] /\ x \in objects'
             /\ x \in objects' =>
                  Cardinality(inside'[x]) + Cardinality(OnTheWay(x)') + value'[x] <= CurrentValue[x]
  <2>1. CASE x = s
    <3>1. inside'[s] = {} /\ OnTheWay(s)' = {}
      BY <1>1, <1>2, <1>5
    <3> QED  BY <1>3, <1>4, <2>1, <3>1
  <2>2. CASE x # s
    BY <1>1, <1>4, <1>5, <2>2 DEF SectionInv
  <2> QED  BY <2>1, <2>2
<1> QED  BY <1>6 DEF SectionInv

\* A unit that is free is taken: it moves from the value to the inside.
LEMMA EnterSections ==
  ASSUME IInv, SectionInv, NEW s \in Semaphore, NEW p \in Proc, MayCall(p, s), value[s] > 0,
         value' = [value EXCEPT ![s] = @ - 1], inside' = [inside EXCEPT ![s] = @ \cup {p}],
         UNCHANGED objectVars
  PROVE  SectionInv'
<1>1. call' = call /\ wait' = wait /\ objects' = objects /\ s \in objects /\ Home[p] = Home[s]
  BY DEF objectVars, MayCall
<1>2. \A x \in Semaphore : OnTheWay(x)' = OnTheWay(x)
  BY <1>1 DEF OnTheWay
<1>3. /\ value[s] \in Nat /\ value'[s] = value[s] - 1 /\ inside'[s] = inside[s] \cup {p}
      /\ \A x \in Semaphore : x # s => value'[x] = value[x] /\ inside'[x] = inside[x]
  BY DEF IInv, Shapes
<1>4. inside[s] \in SUBSET Proc /\ OnTheWay(s) \in SUBSET Proc /\ CurrentValue[s] \in Nat
  BY SemaphoresAssumption DEF IInv, Shapes, OnTheWay
<1>5. /\ Cardinality(inside[s]) \in Nat /\ Cardinality(OnTheWay(s)) \in Nat
      /\ Cardinality(inside'[s]) \in Nat
      /\ Cardinality(inside'[s]) <= Cardinality(inside[s]) + 1
  <2>1. inside'[s] \in SUBSET Proc
    BY <1>3, <1>4 DEF IInv
  <2> QED  BY <1>3, <1>4, <2>1, Finite, FS_AddElement
<1>6. Cardinality(inside'[s]) + Cardinality(OnTheWay(s)') + value'[s] <= CurrentValue[s]
  BY <1>1, <1>2, <1>3, <1>4, <1>5 DEF SectionInv
<1> QED  BY <1>1, <1>2, <1>3, <1>6 DEF SectionInv

\* A unit that is given back goes to the head of the queue, or to the value.
LEMMA LeaveSection ==
  ASSUME IInv, IInv', AllTold, SectionInv, NEW s \in Semaphore, NEW p \in Proc, SIGNAL_SEMAPHORE(p, s)
  PROVE  SectionInv'
<1>1. /\ inside' = [inside EXCEPT ![s] = @ \ {p}] /\ p \in inside[s] /\ s \in objects
  BY DEF SIGNAL_SEMAPHORE, MayCall
<1>2. /\ inside'[s] = inside[s] \ {p} /\ \A x \in Semaphore : x # s => inside'[x] = inside[x]
      /\ \A x \in Semaphore : inside'[x] \subseteq inside[x]
  BY <1>1 DEF IInv, Shapes
<1>3. inside[s] \in SUBSET Proc /\ OnTheWay(s) \in SUBSET Proc /\ OnTheWay(s)' \in SUBSET Proc
      /\ CurrentValue[s] \in Nat /\ value[s] \in Nat
  BY SemaphoresAssumption DEF IInv, Shapes, OnTheWay
<1>4. /\ Cardinality(inside[s]) \in Nat /\ Cardinality(OnTheWay(s)) \in Nat
      /\ Cardinality(inside'[s]) = Cardinality(inside[s]) - 1
  BY <1>1, <1>2, <1>3, Finite, FS_RemoveElement
<1>5. CASE value' = [value EXCEPT ![s] = @ + 1] /\ UNCHANGED objectVars
  <2>1. \A x \in Semaphore : OnTheWay(x)' = OnTheWay(x)
    BY <1>5 DEF OnTheWay, objectVars
  <2>2. value'[s] = value[s] + 1 /\ \A x \in Semaphore : x # s => value'[x] = value[x]
    BY <1>5 DEF IInv, Shapes
  <2>3. Cardinality(inside'[s]) + Cardinality(OnTheWay(s)') + value'[s] <= CurrentValue[s]
    BY <1>1, <1>3, <1>4, <2>1, <2>2 DEF SectionInv
  <2>4. objects' = objects
    BY <1>5 DEF objectVars
  <2>5. ASSUME NEW x \in Semaphore
        PROVE  /\ \A q \in inside'[x] \cup OnTheWay(x)' : Home[q] = Home[x] /\ x \in objects'
               /\ x \in objects' =>
                    Cardinality(inside'[x]) + Cardinality(OnTheWay(x)') + value'[x] <= CurrentValue[x]
    <3>1. CASE x = s
      BY <1>1, <1>2, <2>1, <2>3, <2>4, <3>1 DEF SectionInv
    <3>2. CASE x # s
      BY <1>2, <2>1, <2>2, <2>4, <3>2 DEF SectionInv
    <3> QED  BY <3>1, <3>2
  <2> QED  BY <2>5 DEF SectionInv
<1>6. CASE Signal(s) /\ UNCHANGED <<normal, objects, call, value>>
  <2> DEFINE h == Head(queue[s])
  <2>1. h \in Proc /\ call[h].service # "none" /\ call[h].object = s /\ Home[h] = Home[s]
    BY <1>6, HeadOf, Kinds DEF Signal
  <2>2. call[h] = [service |-> "WAIT_SEMAPHORE", object |-> s]
    <3>1. call[h] \in Calls /\ Told(call[h], wait[h], board)
      BY <2>1 DEF AllTold, IInv, QueueInv, Typed
    <3> HIDE DEF h
    <3> QED  BY <2>1, <3>1, ToldUnits
  <2>3. wait' = [wait EXCEPT ![h] = "granted"] /\ call' = call /\ objects' = objects /\ value' = value
    BY <1>6 DEF Signal
  <2> HIDE DEF h
  <2>4. \A q \in Proc : q # h => wait'[q] = wait[q]
    BY <2>3 DEF IInv, QueueInv, Typed
  <2>5. OnTheWay(s)' \subseteq OnTheWay(s) \cup {h}
    BY <2>3, <2>4 DEF OnTheWay
  <2>6. \A x \in Semaphore : x # s => OnTheWay(x)' \subseteq OnTheWay(x)
    BY <2>2, <2>3, <2>4 DEF OnTheWay
  <2>7. Cardinality(OnTheWay(s)') \in Nat /\ Cardinality(OnTheWay(s)') <= Cardinality(OnTheWay(s)) + 1
    <3>1. OnTheWay(s) \cup {h} \in SUBSET Proc
      BY <1>3, <2>1
    <3>2. /\ Cardinality(OnTheWay(s)') <= Cardinality(OnTheWay(s) \cup {h})
          /\ Cardinality(OnTheWay(s)') \in Nat /\ Cardinality(OnTheWay(s) \cup {h}) \in Nat
      BY <1>3, <2>5, <3>1, Finite
    <3>3. Cardinality(OnTheWay(s) \cup {h}) <= Cardinality(OnTheWay(s)) + 1
      BY <1>3, <1>4, Finite, FS_AddElement
    <3> QED  BY <1>4, <3>2, <3>3
  <2>8. Cardinality(inside'[s]) + Cardinality(OnTheWay(s)') + value'[s] <= CurrentValue[s]
    BY <1>1, <1>3, <1>4, <2>3, <2>7 DEF SectionInv
  <2>9. \A q \in inside'[s] \cup OnTheWay(s)' : Home[q] = Home[s] /\ s \in objects'
    BY <1>1, <1>2, <2>1, <2>3, <2>5 DEF SectionInv
  <2>10. ASSUME NEW x \in Semaphore, x # s
         PROVE  /\ \A q \in inside'[x] \cup OnTheWay(x)' : Home[q] = Home[x] /\ x \in objects'
                /\ x \in objects' =>
                     Cardinality(inside'[x]) + Cardinality(OnTheWay(x)') + value'[x] <= CurrentValue[x]
    BY <1>2, <2>3, <2>6, <2>10, SectionKept DEF Fewer
  <2> QED  BY <2>8, <2>9, <2>10 DEF SectionInv
<1> QED  BY <1>5, <1>6 DEF SIGNAL_SEMAPHORE

\* Who was on the way comes in, or goes away with TIMED_OUT.
LEMMA ArriveSections ==
  ASSUME IInv, IInv', AllTold, SectionInv, NEW p \in Proc, WaitSemaphoreReturns(p)
  PROVE  SectionInv'
<1>0. call[p].object \in Semaphore
  BY DEF WaitSemaphoreReturns, AllTold, Told
<1> PICK s \in Semaphore : s = call[p].object
  BY <1>0
<1>1. /\ wait' = [wait EXCEPT ![p] = "none"] /\ call' = [call EXCEPT ![p] = NoCall]
      /\ objects' = objects /\ value' = value
      /\ inside' = IF wait[p] = "granted" THEN [inside EXCEPT ![s] = @ \cup {p}] ELSE inside
  BY DEF WaitSemaphoreReturns, Comeback, Return
<1>2. call[p] = [service |-> "WAIT_SEMAPHORE", object |-> s] /\ s \in Semaphore
  BY DEF WaitSemaphoreReturns, IInv, QueueInv, Typed, Calls
<1>3. \A q \in Proc : call'[q].service = "WAIT_SEMAPHORE" /\ wait'[q] = "granted" =>
        call'[q] = call[q] /\ wait[q] = "granted"
  BY <1>1 DEF IInv, QueueInv, Typed, NoCall
<1>4. CASE wait[p] # "granted"
  BY <1>1, <1>3, <1>4, SectionsKept
<1>5. CASE wait[p] = "granted"
  <2>1. inside'[s] = inside[s] \cup {p} /\ \A x \in Semaphore : x # s => inside'[x] = inside[x]
    BY <1>1, <1>2, <1>5 DEF IInv, Shapes
  <2>2. p \in OnTheWay(s) /\ OnTheWay(s)' \subseteq OnTheWay(s) \ {p}
    <3>1. p \in OnTheWay(s)
      BY <1>2, <1>5 DEF OnTheWay
    <3>2. call'[p].service # "WAIT_SEMAPHORE"
      BY <1>1 DEF IInv, QueueInv, Typed, NoCall
    <3>3. OnTheWay(s)' \subseteq OnTheWay(s)
      <4>1. \A x \in Semaphore : OnTheWay(x)' \subseteq OnTheWay(x)
        BY <1>3, NobodyComes
      <4> QED  BY <1>2, <4>1, Zenon
    <3>4. p \notin OnTheWay(s)'
      BY <3>2 DEF OnTheWay
    <3> QED  BY <3>1, <3>3, <3>4
  <2>3. /\ inside[s] \in SUBSET Proc /\ OnTheWay(s) \in SUBSET Proc /\ OnTheWay(s)' \in SUBSET Proc
        /\ CurrentValue[s] \in Nat /\ value[s] \in Nat
    BY <1>2, SemaphoresAssumption DEF IInv, Shapes, OnTheWay
  <2>4. /\ Cardinality(inside[s]) \in Nat /\ Cardinality(inside'[s]) \in Nat
        /\ Cardinality(inside'[s]) <= Cardinality(inside[s]) + 1
    <3>1. inside'[s] \in SUBSET Proc
      BY <2>1, <2>3
    <3> QED  BY <2>1, <2>3, <3>1, Finite, FS_AddElement
  <2>5. /\ Cardinality(OnTheWay(s)) \in Nat /\ Cardinality(OnTheWay(s)') \in Nat
        /\ Cardinality(OnTheWay(s)') <= Cardinality(OnTheWay(s)) - 1
    <3>1. OnTheWay(s) \ {p} \in SUBSET Proc
      BY <2>3
    <3>2. Cardinality(OnTheWay(s)') <= Cardinality(OnTheWay(s) \ {p})
      BY <2>2, <2>3, <3>1, Finite
    <3>3. Cardinality(OnTheWay(s) \ {p}) = Cardinality(OnTheWay(s)) - 1
      BY <2>2, <2>3, Finite, FS_RemoveElement
    <3> QED  BY <2>3, <3>2, <3>3, Finite
  <2>6. s \in objects' =>
          Cardinality(inside'[s]) + Cardinality(OnTheWay(s)') + value'[s] <= CurrentValue[s]
    BY <1>1, <1>2, <2>3, <2>4, <2>5 DEF SectionInv
  <2>7. \A q \in inside'[s] \cup OnTheWay(s)' : Home[q] = Home[s] /\ s \in objects'
    BY <1>1, <1>2, <2>1, <2>2 DEF SectionInv
  <2>8. ASSUME NEW x \in Semaphore, x # s
        PROVE  /\ \A q \in inside'[x] \cup OnTheWay(x)' : Home[q] = Home[x] /\ x \in objects'
               /\ x \in objects' =>
                    Cardinality(inside'[x]) + Cardinality(OnTheWay(x)') + value'[x] <= CurrentValue[x]
    BY <1>1, <1>3, <2>1, <2>8, NobodyComes, SectionKept DEF Fewer
  <2>9. ASSUME NEW x \in Semaphore
        PROVE  /\ \A q \in inside'[x] \cup OnTheWay(x)' : Home[q] = Home[x] /\ x \in objects'
               /\ x \in objects' =>
                    Cardinality(inside'[x]) + Cardinality(OnTheWay(x)') + value'[x] <= CurrentValue[x]
    <3>1. CASE x = s
      BY <2>6, <2>7, <3>1
    <3>2. CASE x # s
      BY <2>8, <3>2
    <3> QED  BY <3>1, <3>2
  <2> QED  BY <2>9 DEF SectionInv
<1> QED  BY <1>4, <1>5

LEMMA SemaphoreSections ==
  ASSUME IInv, IInv', AllTold, SectionInv, SemaphoreServices
  PROVE  SectionInv'
<1>1. CASE \E s \in Semaphore, p \in Proc, kind \in Waits : WAIT_SEMAPHORE(p, s, kind)
  <2> PICK s \in Semaphore, p \in Proc, kind \in Waits : WAIT_SEMAPHORE(p, s, kind)
    BY <1>1
  <2>1. CASE value[s] > 0 /\ value' = [value EXCEPT ![s] = @ - 1]
             /\ inside' = [inside EXCEPT ![s] = @ \cup {p}] /\ UNCHANGED objectVars
    BY <2>1, EnterSections DEF WAIT_SEMAPHORE
  <2>2. CASE /\ Block(p, s, kind, [service |-> "WAIT_SEMAPHORE", object |-> s])
             /\ UNCHANGED <<normal, objects, semaphoreVars>>
    <3>1. \A q \in Proc : wait'[q] = "granted" => call'[q] = call[q] /\ wait[q] = "granted"
      BY <2>2 DEF Block, Wait, Waits, IInv, QueueInv, Typed
    <3> QED  BY <2>2, <3>1, SectionsKept DEF semaphoreVars
  <2> QED  BY <2>1, <2>2 DEF WAIT_SEMAPHORE
<1> QED  BY <1>1, CreateSections, LeaveSection, ArriveSections DEF SemaphoreServices

\* The services of other objects grant nobody a semaphore's unit.
LEMMA OtherSections ==
  ASSUME IInv, IInv', AllTold, SectionInv, UNCHANGED semaphoreVars,
         EventServices \/ BlackboardServices \/ BufferServices
  PROVE  SectionInv'
<1> USE DEF IInv, QueueInv, Typed, NoCall, Waits
<1>0. value' = value /\ inside' = inside
  BY DEF semaphoreVars
<1>1. ASSUME NEW p \in Proc, NEW r \in Resource \ Semaphore, InQueue(p, r)
      PROVE  call[p].service # "WAIT_SEMAPHORE"
  <2>1. call[p].object = r /\ Told(call[p], wait[p], board)
    BY <1>1, QueuedCalls DEF AllTold
  <2> QED  BY <1>1, <2>1 DEF Told
<1>2. ASSUME NEW r \in Resource \ Semaphore, Create(r)
      PROVE  SectionInv'
  <2>1. call' = call /\ wait' = wait /\ objects' = objects \cup {r}
    BY <1>2 DEF Create, waitVars
  <2> QED  BY <1>0, <2>1, SectionsKept
<1>3. ASSUME UNCHANGED objectVars PROVE SectionInv'
  BY <1>0, <1>3, SectionsKept DEF objectVars
<1>4. ASSUME NEW p \in Proc, Comeback(p), UNCHANGED objects PROVE SectionInv'
  <2>1. \A q \in Proc : wait'[q] = "granted" => call'[q] = call[q] /\ wait[q] = "granted"
    BY <1>4 DEF Comeback, Return
  <2> QED  BY <1>0, <1>4, <2>1, SectionsKept
<1>5. ASSUME NEW p \in Proc, NEW r, NEW kind \in Waits, NEW c, Block(p, r, kind, c), UNCHANGED objects
      PROVE  SectionInv'
  <2>1. \A q \in Proc : wait'[q] = "granted" => call'[q] = call[q] /\ wait[q] = "granted"
    BY <1>5 DEF Block, Wait
  <2> QED  BY <1>0, <1>5, <2>1, SectionsKept
<1>6. ASSUME NEW r \in Resource \ Semaphore, SignalAll(r), UNCHANGED objects,
             \A q \in Proc : call'[q] = call[q] \/ (call'[q].service # "WAIT_SEMAPHORE")
      PROVE  SectionInv'
  <2>1. \A q \in Proc : wait'[q] = IF InQueue(q, r) THEN "granted" ELSE wait[q]
    BY <1>6 DEF SignalAll
  <2>2. \A q \in Proc : call'[q].service = "WAIT_SEMAPHORE" /\ wait'[q] = "granted" =>
          call'[q] = call[q] /\ wait[q] = "granted"
    BY <1>1, <1>6, <2>1
  <2> QED  BY <1>0, <1>6, <2>2, SectionsKept
<1>7. ASSUME NEW r \in Resource \ Semaphore, Signal(r), UNCHANGED objects,
             \A q \in Proc : q # Head(queue[r]) => call'[q] = call[q],
             call'[Head(queue[r])].service = call[Head(queue[r])].service
      PROVE  SectionInv'
  <2> DEFINE h == Head(queue[r])
  <2>1. h \in Proc /\ call[h].object = r /\ wait' = [wait EXCEPT ![h] = "granted"]
    BY <1>7, HeadOf DEF Signal
  <2>2. call[h].service # "WAIT_SEMAPHORE"
    <3>1. Told(call[h], wait[h], board)
      BY <2>1 DEF AllTold
    <3> QED  BY <2>1, <3>1 DEF Told
  <2>3. \A q \in Proc : call'[q].service = "WAIT_SEMAPHORE" /\ wait'[q] = "granted" =>
          call'[q] = call[q] /\ wait[q] = "granted"
    BY <1>7, <2>1, <2>2
  <2> QED  BY <1>0, <1>7, <2>3, SectionsKept
<1>8. CASE EventServices
  <2>1. ASSUME NEW e \in Event, SET_EVENT(e) PROVE SectionInv'
    BY <1>6, <2>1, Kinds DEF SET_EVENT
  <2> QED  BY <1>2, <1>3, <1>4, <1>5, <1>8, <2>1, Kinds
           DEF EventServices, CREATE_EVENT, RESET_EVENT, WAIT_EVENT, WaitEventReturns
<1>9. CASE BlackboardServices
  <2>1. ASSUME NEW b \in Blackboard, NEW m \in Message, DISPLAY_BLACKBOARD(b, m) PROVE SectionInv'
    <3>1. \A q \in Proc : call'[q] =
            IF Reading(q, b) THEN [call[q] EXCEPT !.displayed = @ \cup {m}] ELSE call[q]
      BY <2>1 DEF DISPLAY_BLACKBOARD
    <3>2. \A q \in Proc : call'[q] = call[q] \/ call'[q].service # "WAIT_SEMAPHORE"
      <4> TAKE q \in Proc
      <4>1. CASE Reading(q, b)
        <5>1. call[q] \in [service : {"READ_BLACKBOARD"}, object : Resource, displayed : SUBSET Message]
          BY <4>1 DEF Reading, Calls
        <5> QED  BY <3>1, <4>1, <5>1
      <4> QED  BY <3>1, <4>1
    <3> QED  BY <1>6, <2>1, <3>2, Kinds DEF DISPLAY_BLACKBOARD
  <2> QED  BY <1>2, <1>3, <1>4, <1>5, <1>9, <2>1, Kinds
           DEF BlackboardServices, CREATE_BLACKBOARD, CLEAR_BLACKBOARD, READ_BLACKBOARD,
               ReadBlackboardReturns
<1>10. CASE BufferServices
  <2>1. ASSUME NEW b \in Buffer, NEW p \in Proc, NEW m \in Message, NEW kind \in Waits,
               SEND_BUFFER(p, b, m, kind)
        PROVE  SectionInv'
    <3> DEFINE h == Head(queue[b])
    <3>1. CASE /\ call' = [call EXCEPT ![h].message = m, ![h].done = TRUE]
               /\ queue[b] # <<>> /\ Signal(b) /\ UNCHANGED objects
      <4>1. h \in Proc /\ call[h] \in [service : {"SEND_BUFFER", "RECEIVE_BUFFER"}, object : Resource,
                                       message : Message \cup {None}, done : BOOLEAN]
        BY <3>1, HeadWaits DEF Side, Calls
      <4>2. call'[h].service = call[h].service /\ \A q \in Proc : q # h => call'[q] = call[q]
        BY <3>1, <4>1
      <4> QED  BY <1>7, <3>1, <4>2, Kinds
    <3> QED  BY <1>3, <1>5, <2>1, <3>1 DEF SEND_BUFFER
  <2>2. ASSUME NEW b \in Buffer, NEW p \in Proc, NEW kind \in Waits, RECEIVE_BUFFER(p, b, kind)
        PROVE  SectionInv'
    <3> DEFINE h == Head(queue[b])
    <3>1. CASE /\ call' = [call EXCEPT ![h].done = TRUE]
               /\ queue[b] # <<>> /\ Signal(b) /\ UNCHANGED objects
      <4>1. h \in Proc /\ call[h] \in [service : {"SEND_BUFFER", "RECEIVE_BUFFER"}, object : Resource,
                                       message : Message \cup {None}, done : BOOLEAN]
        BY <3>1, HeadWaits DEF Side, Calls
      <4>2. call'[h].service = call[h].service /\ \A q \in Proc : q # h => call'[q] = call[q]
        BY <3>1, <4>1
      <4> QED  BY <1>7, <3>1, <4>2, Kinds
    <3> QED  BY <1>3, <1>5, <2>2, <3>1 DEF RECEIVE_BUFFER
  <2> QED  BY <1>2, <1>4, <1>10, <2>1, <2>2, Kinds DEF BufferServices, CREATE_BUFFER, BufferReturns
<1> QED  BY <1>8, <1>9, <1>10

LEMMA EndSections ==
  ASSUME IInv, IInv', SectionInv, Ends \/ Moves
  PROVE  SectionInv'
<1> USE DEF IInv, QueueInv, Typed, NoCall
<1>1. ASSUME NEW p \in Proc, Halt(p), LeaveSections({p}), UNCHANGED value PROVE SectionInv'
  <2>1. \A q \in Proc : wait'[q] = "granted" => call'[q] = call[q] /\ wait[q] = "granted"
    BY <1>1 DEF Halt, Stop
  <2> QED  BY <1>1, <2>1, SectionsKept DEF Halt, LeaveSections
<1>2. ASSUME NEW P \in Partition, Restart(P), LeaveSections(ProcessesOf(P)), UNCHANGED value
      PROVE  SectionInv'
  <2>1. \A q \in Proc : wait'[q] = "granted" =>
          call'[q] = call[q] /\ wait[q] = "granted" /\ Home[q] # P
    BY <1>2 DEF Restart, StopAll, ProcessesOf
  <2>2. \A s \in Semaphore : inside'[s] = inside[s] \ ProcessesOf(P)
    BY <1>2 DEF LeaveSections
  <2>3. objects' = objects \ ObjectsOf(P)
    BY <1>2 DEF Restart
  <2>4. \A s \in Semaphore : Fewer(s)
    BY <2>1, <2>2, NobodyComes DEF Fewer
  <2>5. ASSUME NEW s \in Semaphore, s \in objects, s \notin objects'
        PROVE  \A p \in Proc : Home[p] = Home[s] => p \notin inside'[s] /\ p \notin OnTheWay(s)'
    <3>1. Home[s] = P
      BY <2>3, <2>5 DEF ObjectsOf
    <3> QED  BY <2>1, <2>2, <3>1 DEF ProcessesOf, OnTheWay
  <2>6. ASSUME NEW s \in Semaphore
        PROVE  /\ \A p \in inside'[s] \cup OnTheWay(s)' : Home[p] = Home[s] /\ s \in objects'
               /\ s \in objects' =>
                    Cardinality(inside'[s]) + Cardinality(OnTheWay(s)') + value'[s] <= CurrentValue[s]
    BY <1>2, <2>3, <2>4, <2>5, SectionKept
  <2> QED  BY <2>6 DEF SectionInv
<1>3. ASSUME UNCHANGED semaphoreVars, UNCHANGED <<objects, call>>,
             \A q \in Proc : wait'[q] = "granted" => wait[q] = "granted"
      PROVE  SectionInv'
  BY <1>3, SectionsKept DEF semaphoreVars
<1>4. ASSUME NEW p \in Proc, TimeOut(p), UNCHANGED semaphoreVars PROVE SectionInv'
  <2>1. \A q \in Proc : wait'[q] = "granted" => wait[q] = "granted"
    BY <1>4 DEF TimeOut, Expire
  <2> QED  BY <1>3, <1>4, <2>1 DEF TimeOut
<1>5. ASSUME NEW p \in Proc, NEW r \in Resource, SetPriority(p, r), UNCHANGED semaphoreVars
      PROVE  SectionInv'
  BY <1>3, <1>5 DEF SetPriority, Move
<1>6. ASSUME NEW P \in Partition, SetNormal(P), UNCHANGED semaphoreVars PROVE SectionInv'
  BY <1>3, <1>6 DEF SetNormal, waitVars
<1> QED  BY <1>1, <1>2, <1>4, <1>5, <1>6 DEF Ends, Moves

LEMMA StepSections == IInv /\ AllTold /\ SectionInv /\ [Next]_vars => SectionInv'
<1> SUFFICES ASSUME IInv, AllTold, SectionInv, [Next]_vars PROVE SectionInv'
  OBVIOUS
<1>1. IInv'
  BY StepIInv
<1>2. CASE Services
  BY <1>1, <1>2, SemaphoreSections, OtherSections DEF Services
<1>3. CASE Ends \/ Moves
  BY <1>1, <1>3, EndSections
<1>4. CASE UNCHANGED vars
  BY <1>4 DEF vars, objectVars, semaphoreVars, SectionInv, OnTheWay
<1> QED  BY <1>2, <1>3, <1>4 DEF Next

\* SectionsGuarded: mutual exclusion by WAIT_SEMAPHORE and SIGNAL_SEMAPHORE, for any
\* number of processes and units, whatever is stopped, timed out or restarted meanwhile.
THEOREM SemaphoresExclude == Spec => []SectionsGuarded
<1>1. Init => SectionInv
  BY DEF Init, ObjectsInit, WaitInit, SemaphoresInit, SectionInv, OnTheWay
<1>2. SectionInv => SectionsGuarded
  BY DEF SectionInv, SectionsGuarded
<1> QED  BY <1>1, <1>2, StepSections, AlwaysTold, PTL DEF Spec
=============================================================================
