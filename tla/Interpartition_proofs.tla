----------------------- MODULE Interpartition_proofs ------------------------
(***************************************************************************)
(* Proofs about ports and the I/O partition (InterpartitionCommunication), *)
(* for any number of partitions, processes, ports and channels: with one   *)
(* process a port the queuing ports keep within their capacity; wherever   *)
(* they do nothing is lost, order is kept and each port is a FIFO channel; *)
(* and a sampling message counts as read only when all have it.            *)
(***************************************************************************)
EXTENDS InterpartitionCommunication, CommunicationObjects_proofs

-----------------------------------------------------------------------------
(* Who waits for ports, in what service.                                   *)

Calls ==
  [service : {"none"}]
    \cup [service : {"SEND_QUEUING_MESSAGE"}, object : QueuingPort \cap Source]
    \cup [service : {"RECEIVE_QUEUING_MESSAGE"}, object : QueuingPort \ Source]

\* A process waits for a port of its partition.
InPlace == \A p \in Proc : call[p].service # "none" => Home[call[p].object] = Home[p]

Members ==
  /\ normal \subseteq Partition /\ objects \subseteq Resource
  /\ used \in {QueuingPort, SamplingPort}

QueuesInv == QueueInv(Calls) /\ InPlace /\ Members

LEMMA NoCallIsOne == NoCall \in Calls
BY DEF NoCall, Calls

LEMMA PortKinds ==
  /\ QueuingPort \subseteq Resource /\ SamplingPort \subseteq Resource
  /\ SamplingSource \subseteq SamplingPort /\ QueuingPort \cap SamplingPort = {}
BY QueuingPortsAssumption, SamplingPortsAssumption, ConnectionTable

\* Calls that go on or end stay in place.
LEMMA InPlaceKept ==
  ASSUME InPlace, \A p \in Proc : call'[p] = call[p] \/ call'[p] = NoCall
  PROVE  InPlace'
BY DEF InPlace, NoCall

\* PassOn: nobody waits, or the head is signalled.
LEMMA PassOnQueues ==
  ASSUME QueuesInv, NEW q \in QueuingPort, PassOn(q), used' = used
  PROVE  QueuesInv' /\ \A r \in Resource : Kept(r)
<1>1. CASE UNCHANGED objectVars
  <2>1. QueueInv(Calls)' /\ \A r \in Resource : Kept(r)
    BY <1>1, Stutter DEF QueuesInv, objectVars
  <2> QED  BY <1>1, <2>1 DEF QueuesInv, InPlace, Members, objectVars
<1>2. CASE Signal(q) /\ UNCHANGED <<normal, objects, call>>
  <2>1. QueueInv(Calls)' /\ \A r \in Resource : Kept(r)
    BY <1>2, SignalQueues, PortKinds DEF QueuesInv, QueueInv, Typed
  <2> QED  BY <1>2, <2>1 DEF QueuesInv, InPlace, Members
<1> QED  BY <1>1, <1>2 DEF PassOn

\* Who heads a queue waits for that object.
LEMMA HeadOf ==
  ASSUME QueuesInv, NEW r \in Resource, queue[r] # <<>>
  PROVE  LET head == Head(queue[r])
         IN  /\ head \in Proc /\ wait[head] \in Waits
             /\ call[head].service # "none" /\ call[head].object = r /\ Home[head] = Home[r]
             /\ Tail(queue[r]) \in Seq(Proc) /\ Injective(Tail(queue[r]))
             /\ \A i \in DOMAIN Tail(queue[r]) :
                  Tail(queue[r])[i] # head /\ \E j \in DOMAIN queue[r] : Tail(queue[r])[i] = queue[r][j]
<1>1. /\ Head(queue[r]) = queue[r][1] /\ 1 \in DOMAIN queue[r] /\ queue[r] \in Seq(Proc)
      /\ Tail(queue[r]) \in Seq(Proc) /\ Injective(Tail(queue[r]))
      /\ \A i \in DOMAIN Tail(queue[r]) :
           /\ Tail(queue[r])[i] # Head(queue[r])
           /\ \E j \in DOMAIN queue[r] : Tail(queue[r])[i] = queue[r][j]
  BY TailProperties DEF QueuesInv, QueueInv, Typed, Distinct
<1>2. Head(queue[r]) \in Proc
  BY <1>1
<1> QED  BY <1>1, <1>2 DEF QueuesInv, QueueInv, QueuedWaits

\* ReturnAndPassOn is Comeback and PassOn in one.
LEMMA ReturnAndPassOnQueues ==
  ASSUME QueuesInv, NEW p \in Proc, NEW q \in QueuingPort, ReturnAndPassOn(p, q),
         UNCHANGED <<normal, objects, used>>
  PROVE  QueuesInv' /\ \A r \in Resource : Kept(r)
<1>1. /\ wait[p] = "granted" /\ call' = [call EXCEPT ![p] = NoCall] /\ q \in Resource
  BY PortKinds DEF ReturnAndPassOn
<1>2. \A r \in Resource : \A i \in DOMAIN queue[r] : queue[r][i] # p /\ queue[r][i] \in Proc
  <2>1. \A r \in Resource : \A i \in DOMAIN queue[r] : queue[r][i] # p
    BY <1>1 DEF QueuesInv, QueueInv, QueuedWaits, Waits
  <2>2. \A r \in Resource : \A i \in DOMAIN queue[r] : queue[r][i] \in Proc
    BY DEF QueuesInv, QueueInv, Typed
  <2> QED  BY <2>1, <2>2
<1>3. InPlace' /\ Members'
  BY <1>1, InPlaceKept DEF QueuesInv, QueueInv, Typed, Members
<1>4. CASE queue[q] = <<>>
  <2>1. wait' = [wait EXCEPT ![p] = "none"] /\ queue' = queue
    BY <1>4 DEF ReturnAndPassOn
  <2>2. QueueInv(Calls)' /\ \A r \in Resource : Kept(r)
    BY <1>1, <1>2, <2>1, NoCallIsOne DEF QueuesInv, QueueInv, Typed, Distinct, QueuedWaits, Kept
  <2> QED  BY <1>3, <2>2 DEF QueuesInv
<1>5. CASE queue[q] # <<>>
  <2> DEFINE h == Head(queue[q])
             t == Tail(queue[q])
  <2>1. /\ wait' = [[wait EXCEPT ![p] = "none"] EXCEPT ![h] = "granted"]
        /\ queue' = [queue EXCEPT ![q] = t]
    BY <1>5 DEF ReturnAndPassOn
  <2>2. /\ h \in Proc /\ call[h].object = q /\ t \in Seq(Proc) /\ Injective(t)
        /\ \A i \in DOMAIN t : t[i] # h /\ \E j \in DOMAIN queue[q] : t[i] = queue[q][j]
    BY <1>1, <1>5, HeadOf
  <2>3. \A r \in Resource \ {q} : \A i \in DOMAIN queue[r] : queue[r][i] # h
    BY <2>2 DEF QueuesInv, QueueInv, QueuedWaits
  <2> HIDE DEF h, t
  <2>4. queue'[q] = t /\ \A r \in Resource \ {q} : queue'[r] = queue[r]
    BY <1>1, <2>1 DEF QueuesInv, QueueInv, Typed
  <2>5. \A x \in Proc : x # p /\ x # h => wait'[x] = wait[x] /\ call'[x] = call[x]
    BY <1>1, <2>1 DEF QueuesInv, QueueInv, Typed
  <2>6. \A r \in Resource : \A i \in DOMAIN queue'[r] :
          /\ queue'[r][i] # p /\ queue'[r][i] # h /\ queue'[r][i] \in Proc
          /\ \E j \in DOMAIN queue[r] : queue'[r][i] = queue[r][j]
    <3>1. \A i \in DOMAIN t : t[i] # p /\ t[i] \in Proc
      BY <1>1, <1>2, <2>2
    <3>2. \A i \in DOMAIN queue'[q] :
            /\ queue'[q][i] # p /\ queue'[q][i] # h /\ queue'[q][i] \in Proc
            /\ \E j \in DOMAIN queue[q] : queue'[q][i] = queue[q][j]
      BY <2>2, <2>4, <3>1
    <3>3. \A r \in Resource \ {q} : \A i \in DOMAIN queue'[r] :
            /\ queue'[r][i] # p /\ queue'[r][i] # h /\ queue'[r][i] \in Proc
            /\ \E j \in DOMAIN queue[r] : queue'[r][i] = queue[r][j]
      BY <1>2, <2>3, <2>4
    <3> QED  BY <3>2, <3>3
  <2>7. Typed(Calls)'
    BY <1>1, <2>1, <2>2, NoCallIsOne DEF QueuesInv, QueueInv, Typed, Answers
  <2>8. Distinct'
    BY <2>2, <2>4 DEF QueuesInv, QueueInv, Distinct
  <2>9. QueuedWaits'
    BY <2>5, <2>6 DEF QueuesInv, QueueInv, QueuedWaits
  <2>10. \A r \in Resource : Kept(r)
    BY <2>5, <2>6 DEF Kept
  <2> QED  BY <1>3, <2>7, <2>8, <2>9, <2>10 DEF QueuesInv, QueueInv
<1> QED  BY <1>4, <1>5

\* What a step may do to queues, waits and calls.
QueueMove ==
  \/ UNCHANGED objectVars
  \/ \E r \in QueuingPort \cup SamplingPort : Create(r)
  \/ \E p \in Proc, q \in QueuingPort, kind \in Waits :
       /\ MayCall(p, q) /\ UNCHANGED <<normal, objects>>
       /\ Block(p, q, kind, IF q \in Source THEN Sending(q) ELSE Receiving(q))
  \/ \E q \in QueuingPort : PassOn(q)
  \/ \E p \in Proc :
       /\ call[p].service # "none" /\ UNCHANGED <<normal, objects>>
       /\ Comeback(p) \/ ReturnAndPassOn(p, call[p].object)
  \/ Ends

LEMMA MovesQueues ==
  ASSUME QueuesInv, QueueMove, used' = used
  PROVE  QueuesInv'
<1>1. CASE UNCHANGED objectVars
  BY <1>1, Stutter DEF QueuesInv, InPlace, Members, objectVars
<1>2. CASE \E r \in QueuingPort \cup SamplingPort : Create(r)
  BY <1>2, Stutter, PortKinds DEF QueuesInv, InPlace, Members, Create, waitVars
<1>3. CASE \E p \in Proc, q \in QueuingPort, kind \in Waits :
             /\ MayCall(p, q) /\ UNCHANGED <<normal, objects>>
             /\ Block(p, q, kind, IF q \in Source THEN Sending(q) ELSE Receiving(q))
  <2> PICK p \in Proc, q \in QueuingPort, kind \in Waits :
             /\ MayCall(p, q) /\ UNCHANGED <<normal, objects>>
             /\ Block(p, q, kind, IF q \in Source THEN Sending(q) ELSE Receiving(q))
    BY <1>3
  <2> DEFINE c == IF q \in Source THEN Sending(q) ELSE Receiving(q)
  <2>1. c \in Calls /\ c.service # "none" /\ c.object = q
    BY DEF Calls, Sending, Receiving
  <2>2. Home[p] = Home[q] /\ q \in Resource
    BY PortKinds DEF MayCall
  <2>3. Block(p, q, kind, c)
    OBVIOUS
  <2> HIDE DEF c
  <2>4. QueueInv(Calls)'
    BY <2>1, <2>2, <2>3, BlockQueues DEF QueuesInv
  <2>5. \A x \in Proc : call'[x] = IF x = p THEN c ELSE call[x]
    BY <2>3 DEF Block, QueuesInv, QueueInv, Typed
  <2>6. InPlace'
    BY <2>1, <2>2, <2>5 DEF QueuesInv, InPlace
  <2> QED  BY <2>4, <2>6 DEF QueuesInv, Members
<1>4. CASE \E q \in QueuingPort : PassOn(q)
  BY <1>4, PassOnQueues
<1>5. CASE \E p \in Proc :
             /\ call[p].service # "none" /\ UNCHANGED <<normal, objects>>
             /\ Comeback(p) \/ ReturnAndPassOn(p, call[p].object)
  <2> PICK p \in Proc :
             /\ call[p].service # "none" /\ UNCHANGED <<normal, objects>>
             /\ Comeback(p) \/ ReturnAndPassOn(p, call[p].object)
    BY <1>5
  <2>1. CASE Comeback(p)
    <3>1. QueueInv(Calls)'
      BY <2>1, ComebackQueues, NoCallIsOne DEF QueuesInv
    <3>2. InPlace'
      BY <2>1, InPlaceKept DEF Comeback, QueuesInv, QueueInv, Typed
    <3> QED  BY <3>1, <3>2 DEF QueuesInv, Members
  <2>2. CASE ReturnAndPassOn(p, call[p].object)
    <3>1. PICK q \in QueuingPort : q = call[p].object
      BY DEF QueuesInv, QueueInv, Typed, Calls
    <3> QED  BY <2>2, <3>1, ReturnAndPassOnQueues
  <2> QED  BY <2>1, <2>2
<1>6. CASE Ends
  <2>1. ASSUME NEW p \in Proc, Halt(p) PROVE QueuesInv'
    BY <2>1, HaltQueues, NoCallIsOne, InPlaceKept DEF QueuesInv, QueueInv, Typed, Halt, Members
  <2>2. ASSUME NEW p \in Proc, TimeOut(p) PROVE QueuesInv'
    BY <2>2, TimeOutQueues DEF QueuesInv, TimeOut, InPlace, Members
  <2>3. ASSUME NEW p \in Proc, NEW r \in Resource, SetPriority(p, r) PROVE QueuesInv'
    BY <2>3, SetPriorityQueues DEF QueuesInv, SetPriority, InPlace, Members
  <2>4. ASSUME NEW P \in Partition, Restart(P) PROVE QueuesInv'
    BY <2>4, RestartQueues, NoCallIsOne, InPlaceKept DEF QueuesInv, QueueInv, Typed, Restart, Members
  <2>5. ASSUME NEW P \in Partition, SetNormal(P) PROVE QueuesInv'
    BY <2>5, Stutter DEF QueuesInv, SetNormal, waitVars, InPlace, Members
  <2>6. \A r \in used : r \in Resource
    BY PortKinds DEF QueuesInv, Members
  <2> QED  BY <1>6, <2>1, <2>2, <2>3, <2>4, <2>5, <2>6 DEF Ends
<1> QED  BY <1>1, <1>2, <1>3, <1>4, <1>5, <1>6 DEF QueueMove

-----------------------------------------------------------------------------
(* The connection table, and where the I/O partition is with it.           *)

LEMMA QueuingTable ==
  /\ \A c \in DOMAIN QueuingChannels :
       /\ QueuingChannels[c].source \in QueuingPort \cap Source
       /\ QueuingChannels[c].destination \in QueuingPort \ Source
  /\ DOMAIN QueuingChannels = 1..Len(QueuingChannels) /\ Len(QueuingChannels) \in Nat \ {0}
<1> DEFINE S == [source : QueuingPort \cap Source, destination : QueuingPort \ Source]
<1>1. QueuingChannels \in Seq(S) /\ QueuingChannels # <<>>
  BY ConnectionTable
<1> HIDE DEF S
<1>2. \A c \in DOMAIN QueuingChannels : QueuingChannels[c] \in S
  BY <1>1
<1>3. DOMAIN QueuingChannels = 1..Len(QueuingChannels) /\ Len(QueuingChannels) \in Nat \ {0}
  BY <1>1
<1> QED  BY <1>2, <1>3 DEF S

LEMMA SamplingTable ==
  /\ \A c \in DOMAIN SamplingChannels :
       /\ SamplingChannels[c].source \in SamplingSource
       /\ SamplingChannels[c].destinations \in Seq(SamplingPort \ SamplingSource)
       /\ SamplingChannels[c].destinations # <<>>
  /\ DOMAIN SamplingChannels = 1..Len(SamplingChannels) /\ Len(SamplingChannels) \in Nat \ {0}
<1> DEFINE S == [source : SamplingSource, destinations : Seq(SamplingPort \ SamplingSource)]
<1>1. SamplingChannels \in Seq(S) /\ SamplingChannels # <<>>
  BY ConnectionTable
<1>2. \A c \in DOMAIN SamplingChannels : SamplingChannels[c].destinations # <<>>
  BY ConnectionTable
<1> HIDE DEF S
<1>3. \A c \in DOMAIN SamplingChannels : SamplingChannels[c] \in S
  BY <1>1
<1>4. DOMAIN SamplingChannels = 1..Len(SamplingChannels) /\ Len(SamplingChannels) \in Nat \ {0}
  BY <1>1
<1> QED  BY <1>2, <1>3, <1>4 DEF S

QueuingTurns ==
  /\ queuingIO.at \in {"look", "send", "take", "stopped"}
  /\ queuingIO.at # "stopped" => queuingIO.turn \in DOMAIN QueuingChannels

SamplingTurns ==
  /\ samplingIO.at \in {"look", "write", "take", "stopped"}
  /\ samplingIO.at # "stopped" => samplingIO.turn \in DOMAIN SamplingChannels
  /\ samplingIO.at = "write" =>
       /\ samplingIO = [at |-> "write", turn |-> samplingIO.turn, to |-> samplingIO.to,
                        COMPLETED |-> samplingIO.COMPLETED, message |-> samplingIO.message]
       /\ samplingIO.to \in DOMAIN SamplingTurn.destinations

\* The loop stays within the table.
LEMMA OnwardInTable ==
  ASSUME NEW table, Len(table) \in Nat \ {0}, NEW io, io.turn \in 1..Len(table)
  PROVE  /\ Onward(io, table) \in [at : {"look"}, turn : 1..Len(table)]
         /\ Onward(io, table).at = "look" /\ Onward(io, table).turn \in 1..Len(table)
BY DEF Onward

LEMMA QueuingTurnsStep ==
  ASSUME QueuingTurns, [Next]_vars
  PROVE  QueuingTurns'
<1>1. ASSUME queuingIO.at # "stopped", OnwardQueuing PROVE QueuingTurns'
  <2>1. queuingIO.turn \in 1..Len(QueuingChannels) /\ Len(QueuingChannels) \in Nat \ {0}
    BY <1>1, QueuingTable DEF QueuingTurns
  <2>2. queuingIO'.at = "look" /\ queuingIO'.turn \in 1..Len(QueuingChannels)
    BY <1>1, <2>1, OnwardInTable DEF OnwardQueuing
  <2> QED  BY <2>2, QueuingTable DEF QueuingTurns
<1>2. CASE PeekQueuing
  BY <1>1, <1>2 DEF PeekQueuing, QueuingTurns
<1>3. CASE SendOn
  BY <1>1, <1>3 DEF SendOn, QueuingTurns
<1>4. CASE TakeQueuing
  BY <1>1, <1>4 DEF TakeQueuing
<1>5. CASE StopQUEUINGPORTS \/ StartQUEUINGPORTS
  BY <1>5, QueuingTable DEF StopQUEUINGPORTS, StartQUEUINGPORTS, Stopped, AtStart, QueuingTurns
<1>6. CASE UNCHANGED queuingIO
  BY <1>6 DEF QueuingTurns
<1> QED  BY <1>2, <1>3, <1>4, <1>5, <1>6
         DEF Next, QueuingNext, SamplingNext, QUEUINGPORTS, vars, ioVars

\* What a call of AfterWrite makes of the loop.
LEMMA AfterWriteIs ==
  ASSUME SamplingTurns, samplingIO.at = "write", NEW done, AfterWrite(done)
  PROVE  \/ /\ samplingIO' = [at |-> "write", turn |-> samplingIO.turn, to |-> samplingIO.to + 1,
                              COMPLETED |-> done, message |-> samplingIO.message]
            /\ samplingIO.to + 1 \in DOMAIN SamplingTurn.destinations
            /\ UNCHANGED unfinished
         \/ /\ samplingIO' = [at |-> "take", turn |-> samplingIO.turn]
            /\ done /\ samplingIO.to = Len(SamplingTurn.destinations)
            /\ UNCHANGED unfinished
         \/ /\ OnwardSampling /\ unfinished' = unfinished \cup {SamplingTurn}
<1>1. SamplingTurn.destinations \in Seq(SamplingPort \ SamplingSource)
  BY SamplingTable DEF SamplingTurns, SamplingTurn
<1>2. /\ DOMAIN SamplingTurn.destinations = 1..Len(SamplingTurn.destinations)
      /\ Len(SamplingTurn.destinations) \in Nat
  BY <1>1
<1>3. CASE samplingIO.to < Len(SamplingTurn.destinations)
  <2>1. samplingIO' = [samplingIO EXCEPT !.to = @ + 1, !.COMPLETED = done] /\ UNCHANGED unfinished
    BY <1>3 DEF AfterWrite
  <2>2. samplingIO.to + 1 \in DOMAIN SamplingTurn.destinations
    BY <1>2, <1>3 DEF SamplingTurns
  <2> QED  BY <2>1, <2>2 DEF SamplingTurns
<1>4. CASE ~ (samplingIO.to < Len(SamplingTurn.destinations))
  <2>1. samplingIO.to = Len(SamplingTurn.destinations)
    BY <1>2, <1>4 DEF SamplingTurns
  <2> QED  BY <1>4, <2>1 DEF AfterWrite
<1> QED  BY <1>3, <1>4

LEMMA SamplingTurnsStep ==
  ASSUME SamplingTurns, [Next]_vars
  PROVE  SamplingTurns'
<1>1. ASSUME samplingIO.at # "stopped", OnwardSampling PROVE SamplingTurns'
  <2>1. samplingIO.turn \in 1..Len(SamplingChannels) /\ Len(SamplingChannels) \in Nat \ {0}
    BY <1>1, SamplingTable DEF SamplingTurns
  <2>2. samplingIO'.at = "look" /\ samplingIO'.turn \in 1..Len(SamplingChannels)
    BY <1>1, <2>1, OnwardInTable DEF OnwardSampling
  <2> QED  BY <2>2, SamplingTable DEF SamplingTurns
<1>2. CASE PeekSampling
  <2>1. 1 \in DOMAIN SamplingTurn.destinations
    <3>1. /\ SamplingTurn.destinations \in Seq(SamplingPort \ SamplingSource)
          /\ SamplingTurn.destinations # <<>>
      BY <1>2, SamplingTable DEF PeekSampling, SamplingTurns, SamplingTurn
    <3> QED  BY <3>1
  <2> QED  BY <1>1, <1>2, <2>1 DEF PeekSampling, SamplingTurns, SamplingTurn
<1>3. CASE WriteOn
  <2>1. PICK done : samplingIO.at = "write" /\ AfterWrite(done)
    BY <1>3 DEF WriteOn
  <2> QED  BY <1>1, <2>1, AfterWriteIs DEF SamplingTurns, SamplingTurn
<1>4. CASE TakeSampling
  BY <1>1, <1>4 DEF TakeSampling
<1>5. CASE StopSAMPLINGPORTS \/ StartSAMPLINGPORTS
  BY <1>5, SamplingTable DEF StopSAMPLINGPORTS, StartSAMPLINGPORTS, Stopped, AtStart, SamplingTurns
<1>6. CASE UNCHANGED samplingIO
  BY <1>6 DEF SamplingTurns, SamplingTurn
<1> QED  BY <1>2, <1>3, <1>4, <1>5, <1>6
         DEF Next, QueuingNext, SamplingNext, SAMPLINGPORTS, vars, ioVars

\* Every step moves queues, waits and calls in one of these ways.
LEMMA NextMoves ==
  ASSUME QueuesInv, QueuingTurns, Next
  PROVE  QueueMove /\ used' = used
<1>0. used' = used
  BY DEF Next, QueuingNext, SamplingNext
<1>1. CASE PeekQueuing \/ StopQUEUINGPORTS \/ StartQUEUINGPORTS
  BY <1>0, <1>1 DEF PeekQueuing, StopQUEUINGPORTS, StartQUEUINGPORTS, QueueMove
<1>2. CASE SendOn \/ TakeQueuing
  <2>1. queuingIO.turn \in DOMAIN QueuingChannels
    BY <1>2 DEF SendOn, TakeQueuing, QueuingTurns
  <2>2. QueuingTurn.source \in QueuingPort /\ QueuingTurn.destination \in QueuingPort
    BY <2>1, QueuingTable DEF QueuingTurn
  <2>3. UNCHANGED objectVars \/ PassOn(QueuingTurn.source) \/ PassOn(QueuingTurn.destination)
    BY <1>2 DEF SendOn, TakeQueuing, SEND_PARTITION_QUEUING_MESSAGE, RECEIVE_PARTITION_QUEUING_MESSAGE
  <2> QED  BY <1>0, <2>2, <2>3 DEF QueueMove
<1>3. CASE QueuingPortServices
  <2>1. ASSUME NEW q \in QueuingPort, CREATE_QUEUING_PORT(q) PROVE QueueMove
    BY <2>1 DEF CREATE_QUEUING_PORT, QueueMove
  <2>2. ASSUME NEW p \in Proc, NEW q \in QueuingPort, NEW kind \in Waits,
               SEND_QUEUING_MESSAGE(p, q, kind) \/ RECEIVE_QUEUING_MESSAGE(p, q, kind)
        PROVE  QueueMove
    BY <2>2 DEF SEND_QUEUING_MESSAGE, RECEIVE_QUEUING_MESSAGE, QueueMove
  <2>3. ASSUME NEW p \in Proc, SendReturns(p) \/ ReceiveReturns(p) PROVE QueueMove
    BY <2>3 DEF SendReturns, ReceiveReturns, QueueMove
  <2> QED  BY <1>0, <1>3, <2>1, <2>2, <2>3 DEF QueuingPortServices
<1>4. CASE Ends
  BY <1>0, <1>4 DEF QueueMove
<1>5. CASE SAMPLINGPORTS \/ StopSAMPLINGPORTS \/ StartSAMPLINGPORTS \/ Tick
  BY <1>0, <1>5 DEF SAMPLINGPORTS, PeekSampling, WriteOn, TakeSampling, StopSAMPLINGPORTS,
       StartSAMPLINGPORTS, Tick, WRITE_PARTITION_SAMPLING_MESSAGE, READ_PARTITION_SAMPLING_MESSAGE,
       QueueMove
<1>6. CASE SamplingPortServices
  BY <1>0, <1>6 DEF SamplingPortServices, CREATE_SAMPLING_PORT, WRITE_SAMPLING_MESSAGE,
       READ_SAMPLING_MESSAGE, QueueMove
<1> QED  BY <1>0, <1>1, <1>2, <1>3, <1>4, <1>5, <1>6 DEF Next, QueuingNext, SamplingNext, QUEUINGPORTS

StaticInv == QueuesInv /\ QueuingTurns /\ SamplingTurns

LEMMA StepStatic == StaticInv /\ [Next]_vars => StaticInv'
<1> SUFFICES ASSUME StaticInv, [Next]_vars PROVE StaticInv'
  OBVIOUS
<1>1. QueuingTurns' /\ SamplingTurns'
  BY QueuingTurnsStep, SamplingTurnsStep DEF StaticInv
<1>2. CASE Next
  BY <1>1, <1>2, NextMoves, MovesQueues DEF StaticInv
<1>3. CASE UNCHANGED vars
  BY <1>1, <1>3, MovesQueues DEF StaticInv, QueueMove, vars
<1> QED  BY <1>2, <1>3

LEMMA InitStatic == Init => StaticInv
<1> SUFFICES ASSUME Init PROVE StaticInv
  OBVIOUS
<1>1. QueueInv(Calls)
  BY NoCallIsOne DEF Init, ObjectsInit, WaitInit, QueueInv, Typed, Distinct, QueuedWaits, Injective
<1>2. InPlace /\ Members
  BY DEF Init, ObjectsInit, InPlace, NoCall, Members
<1>3. QueuingTurns /\ SamplingTurns
  BY QueuingTable, SamplingTable DEF Init, IOInit, AtStart, QueuingTurns, SamplingTurns
<1> QED  BY <1>1, <1>2, <1>3 DEF StaticInv, QueuesInv

-----------------------------------------------------------------------------
(* Numbers modulo.                                                         *)

\* A number has one residue.
LEMMA SameResidue ==
  ASSUME NEW N \in Nat \ {0}, NEW i \in Int, NEW j \in Int,
         NEW a \in 0..(N - 1), NEW b \in 0..(N - 1), N * i + a = N * j + b
  PROVE  a = b
<1>1. N * (i - j) = b - a
  OBVIOUS
<1>2. i - j > 0 => N * (i - j) >= N
  OBVIOUS
<1>3. i - j < 0 => N * (i - j) <= -N
  OBVIOUS
<1> QED  BY <1>1, <1>2, <1>3

\* Numbers may be taken modulo before they are added to.
LEMMA ResidueOfSum ==
  ASSUME NEW N \in Nat \ {0}, NEW x \in Nat, NEW k \in Nat
  PROVE  ((x % N) + k) % N = (x + k) % N
<1> DEFINE a == x % N
<1>1. a \in 0..(N - 1) /\ x \div N \in Int /\ x = N * (x \div N) + a
  OBVIOUS
<1> HIDE DEF a
<1>2. /\ (a + k) % N \in 0..(N - 1) /\ (a + k) \div N \in Int
      /\ a + k = N * ((a + k) \div N) + ((a + k) % N)
  BY <1>1
<1>3. /\ (x + k) % N \in 0..(N - 1) /\ (x + k) \div N \in Int
      /\ x + k = N * ((x + k) \div N) + ((x + k) % N)
  OBVIOUS
<1>4. N * ((x \div N) + ((a + k) \div N)) + ((a + k) % N) = N * ((x + k) \div N) + ((x + k) % N)
  BY <1>1, <1>2, <1>3
<1>5. (a + k) % N = (x + k) % N
  <2>1. (x \div N) + ((a + k) \div N) \in Int
    BY <1>1, <1>2
  <2> QED  BY <1>2, <1>3, <1>4, <2>1, SameResidue
<1> QED  BY <1>5 DEF a

LEMMA SmallResidue ==
  ASSUME NEW N \in Nat \ {0}, NEW x \in 0..(N - 1)
  PROVE  x % N = x
OBVIOUS

-----------------------------------------------------------------------------
(* The rings of the queuing ports, where they keep within their capacity.  *)

Rings ==
  /\ ring = [q \in QueuingPort |-> ring[q]]
  /\ \A q \in QueuingPort : ring[q] \in Ring(MaxNbMessage[q], Message \cup {None})
  /\ accepted \in [QueuingPort \cap Source -> Message]
  /\ arrived \in [DOMAIN QueuingChannels -> Message]
  /\ queuingIO.at = "send" => queuingIO.message \in Message \cup {None}

LEMMA RingOf ==
  ASSUME Rings, NEW q \in QueuingPort
  PROVE  /\ MaxNbMessage[q] \in Nat \ {0} /\ MaxNbMessage[q] + 1 < SizeLimit /\ SizeLimit \in Nat
         /\ ring[q] \in Ring(MaxNbMessage[q], Message \cup {None})
         /\ ring[q].count \in 0..MaxNbMessage[q]
BY QueuingPortsAssumption DEF Rings, Ring

LEMMA FollowingIs ==
  /\ \A m \in Message : Following(m) \in Message
  /\ 0 \in Message /\ Numbering - 1 \in Message
BY QueuingPortsAssumption DEF Following

\* A message is put where there is a place.
LEMMA PutIs ==
  ASSUME Rings, NEW q \in QueuingPort, NEW m \in Message \cup {None}, Put(q, m),
         ring[q].count < MaxNbMessage[q]
  PROVE  LET max == MaxNbMessage[q]
         IN  /\ ring'[q] = Store(ring[q], max, m) /\ ring'[q].count = ring[q].count + 1
             /\ \A x \in QueuingPort \ {q} : ring'[x] = ring[x]
             /\ ring' = [x \in QueuingPort |-> ring'[x]]
             /\ \A x \in QueuingPort : ring'[x] \in Ring(MaxNbMessage[x], Message \cup {None})
<1> DEFINE max == MaxNbMessage[q]
<1>1. /\ ring'[q] = Store(ring[q], max, m) /\ \A x \in QueuingPort \ {q} : ring'[x] = ring[x]
      /\ ring' = [x \in QueuingPort |-> ring'[x]]
  BY DEF Rings, Put
<1>2. max \in Nat \ {0} /\ ring[q] \in Ring(max, Message \cup {None}) /\ ring[q].count < max
  BY RingOf
<1>3. /\ Store(ring[q], max, m) \in Ring(max, Message \cup {None})
      /\ Store(ring[q], max, m).count = ring[q].count + 1
  <2> HIDE DEF max
  <2> QED  BY <1>2, StoreProperties
<1> QED  BY <1>1, <1>3 DEF Rings

\* A port that has no place is over its capacity when a message is put into it.
LEMMA PutFits ==
  ASSUME Rings, NEW q \in QueuingPort, NEW m, Put(q, m), WithinCapacity'
  PROVE  ring[q].count < MaxNbMessage[q]
<1> DEFINE max == MaxNbMessage[q]
<1>1. ring'[q] = Store(ring[q], max, m)
  BY DEF Rings, Put
<1>2. ring[q] \in Ring(max, Message \cup {None}) /\ ring[q].count \in 0..max /\ max \in Nat
  BY RingOf
<1>3. Store(ring[q], max, m).count = ring[q].count + 1
  <2> HIDE DEF max
  <2> QED  BY <1>2 DEF Store, Ring
<1>4. ring'[q].count <= max
  BY DEF WithinCapacity
<1> QED  BY <1>1, <1>2, <1>3, <1>4

\* A message is taken where there is one.
LEMMA GetIs ==
  ASSUME Rings, NEW q \in QueuingPort, Get(q), ring[q].count > 0
  PROVE  LET max == MaxNbMessage[q]
         IN  /\ ring'[q] = Drop(ring[q], max) /\ ring'[q].count = ring[q].count - 1
             /\ \A x \in QueuingPort \ {q} : ring'[x] = ring[x]
             /\ ring' = [x \in QueuingPort |-> ring'[x]]
             /\ \A x \in QueuingPort : ring'[x] \in Ring(MaxNbMessage[x], Message \cup {None})
<1> DEFINE max == MaxNbMessage[q]
           rest == Drop(ring[q], max)
<1>1. /\ ring'[q] = [rest EXCEPT !.count = @ % SizeLimit]
      /\ \A x \in QueuingPort \ {q} : ring'[x] = ring[x]
      /\ ring' = [x \in QueuingPort |-> ring'[x]]
  BY DEF Rings, Get
<1>2. /\ max \in Nat \ {0} /\ ring[q] \in Ring(max, Message \cup {None})
      /\ ring[q].count \in 0..max /\ max + 1 < SizeLimit /\ SizeLimit \in Nat
  BY RingOf
<1>3. rest \in Ring(max, Message \cup {None}) /\ rest.count = ring[q].count - 1
  <2> HIDE DEF max
  <2> QED  BY <1>2, DropProperties
<1> HIDE DEF rest, max
<1>4. rest.count % SizeLimit = rest.count
  BY <1>2, <1>3
<1>5. [rest EXCEPT !.count = rest.count] = rest
  BY <1>3 DEF Ring
<1>6. ring'[q] = rest
  BY <1>1, <1>4, <1>5
<1>7. \A x \in QueuingPort : ring'[x] \in Ring(MaxNbMessage[x], Message \cup {None})
  BY <1>1, <1>3, <1>6 DEF Rings, max
<1> QED  BY <1>1, <1>3, <1>6, <1>7 DEF rest, max

\* The counter of an empty port wraps when a message is taken from it.
LEMMA GetFits ==
  ASSUME Rings, NEW q \in QueuingPort, Get(q), WithinCapacity'
  PROVE  ring[q].count > 0
<1> DEFINE max == MaxNbMessage[q]
           rest == Drop(ring[q], max)
<1>1. ring'[q] = [rest EXCEPT !.count = @ % SizeLimit]
  BY DEF Rings, Get
<1>2. /\ max \in Nat \ {0} /\ ring[q] \in Ring(max, Message \cup {None})
      /\ ring[q].count \in 0..max /\ max + 1 < SizeLimit /\ SizeLimit \in Nat
  BY RingOf
<1>3. ring'[q].count = (ring[q].count - 1) % SizeLimit
  <2> HIDE DEF max
  <2> QED  BY <1>1, <1>2 DEF Drop, Ring
<1>4. ring'[q].count <= max
  BY DEF WithinCapacity
<1> SUFFICES ASSUME ring[q].count = 0 PROVE FALSE
  BY <1>2
<1>5. (0 - 1) % SizeLimit = SizeLimit - 1
  <2>1. SizeLimit \in Nat /\ SizeLimit > 1
    BY <1>2
  <2>2. (0 - 1) % SizeLimit \in 0..(SizeLimit - 1)
    BY <2>1
  <2>3. 0 - 1 = SizeLimit * ((0 - 1) \div SizeLimit) + ((0 - 1) % SizeLimit)
    BY <2>1
  <2> QED  BY <2>1, <2>2, <2>3, SameResidue
<1> QED  BY <1>2, <1>3, <1>4, <1>5

-----------------------------------------------------------------------------
(* What a step may do to the rings.                                        *)

RingMove ==
  \/ UNCHANGED <<ring, accepted, delivered>>
  \/ \E q \in QueuingPort \cap Source :
       ring[q].count < MaxNbMessage[q] /\ Accept(q) /\ UNCHANGED delivered
  \/ \E q \in QueuingPort : ring[q].count > 0 /\ Get(q) /\ UNCHANGED accepted
  \/ /\ queuingIO.at = "send" /\ ring[QueuingTurn.destination].count < MaxNbMessage[QueuingTurn.destination]
     /\ Put(QueuingTurn.destination, queuingIO.message) /\ UNCHANGED <<accepted, delivered>>

\* What a step does to the rings, whether or not they can take it.
RingTry ==
  \/ UNCHANGED <<ring, accepted, delivered>>
  \/ \E q \in QueuingPort \cap Source : Accept(q) /\ UNCHANGED delivered
  \/ \E q \in QueuingPort : Get(q) /\ UNCHANGED accepted
  \/ /\ queuingIO.at = "send" /\ ring[QueuingTurn.destination].count < MaxNbMessage[QueuingTurn.destination]
     /\ Put(QueuingTurn.destination, queuingIO.message) /\ UNCHANGED <<accepted, delivered>>

LEMMA NextTries ==
  ASSUME StaticInv, Rings, [Next]_vars
  PROVE  RingTry
<1>1. CASE UNCHANGED queuingVars
  BY <1>1 DEF RingTry, queuingVars
<1>2. CASE SendOn
  <2>1. CASE SEND_PARTITION_QUEUING_MESSAGE(QueuingTurn.destination, queuingIO.message)
    <3>1. QueuingTurn.destination \in QueuingPort
      BY <1>2, QueuingTable DEF SendOn, QueuingTurn, StaticInv, QueuingTurns
    <3>2. ~ Full(QueuingTurn.destination) =>
            ring[QueuingTurn.destination].count < MaxNbMessage[QueuingTurn.destination]
      BY <3>1, RingOf DEF Full
    <3> QED  BY <1>2, <2>1, <3>2 DEF SEND_PARTITION_QUEUING_MESSAGE, SendOn, RingTry
  <2> QED  BY <1>1, <1>2, <2>1 DEF SendOn
<1>3. CASE TakeQueuing
  <2>1. CASE RECEIVE_PARTITION_QUEUING_MESSAGE(QueuingTurn.source)
    <3>1. QueuingTurn.source \in QueuingPort
      BY <1>3, QueuingTable DEF TakeQueuing, QueuingTurn, StaticInv, QueuingTurns
    <3> QED  BY <2>1, <3>1 DEF RECEIVE_PARTITION_QUEUING_MESSAGE, RingTry
  <2> QED  BY <1>1, <1>3, <2>1 DEF TakeQueuing
<1>4. CASE QueuingPortServices
  <2>1. ASSUME NEW q \in QueuingPort, CREATE_QUEUING_PORT(q) PROVE RingTry
    BY <1>1, <2>1 DEF CREATE_QUEUING_PORT
  <2>2. ASSUME NEW p \in Proc, NEW q \in QueuingPort, NEW kind \in Waits,
               SEND_QUEUING_MESSAGE(p, q, kind) \/ RECEIVE_QUEUING_MESSAGE(p, q, kind)
        PROVE  RingTry
    BY <1>1, <2>2 DEF SEND_QUEUING_MESSAGE, RECEIVE_QUEUING_MESSAGE, RingTry
  <2>3. ASSUME NEW p \in Proc, SendReturns(p) \/ ReceiveReturns(p) PROVE RingTry
    <3>1. /\ call[p].service = "SEND_QUEUING_MESSAGE" => call[p].object \in QueuingPort \cap Source
          /\ call[p].service = "RECEIVE_QUEUING_MESSAGE" => call[p].object \in QueuingPort
      BY DEF StaticInv, QueuesInv, QueueInv, Typed, Calls
    <3> QED  BY <1>1, <2>3, <3>1 DEF SendReturns, ReceiveReturns, RingTry
  <2> QED  BY <1>4, <2>1, <2>2, <2>3 DEF QueuingPortServices
<1> QED  BY <1>1, <1>2, <1>3, <1>4
         DEF Next, QueuingNext, SamplingNext, QUEUINGPORTS, PeekQueuing, StopQUEUINGPORTS,
             StartQUEUINGPORTS, vars

LEMMA TriesFit ==
  ASSUME Rings, RingTry, WithinCapacity'
  PROVE  RingMove
BY PutFits, GetFits DEF RingTry, RingMove, Accept

LEMMA MoveIs ==
  ASSUME StaticInv, Rings, RingMove
  PROVE  /\ ring' = [q \in QueuingPort |-> ring'[q]]
         /\ \A q \in QueuingPort : ring'[q] \in Ring(MaxNbMessage[q], Message \cup {None})
         /\ accepted' \in [QueuingPort \cap Source -> Message]
<1>1. CASE UNCHANGED <<ring, accepted, delivered>>
  BY <1>1 DEF Rings
<1>2. CASE \E q \in QueuingPort \cap Source :
             ring[q].count < MaxNbMessage[q] /\ Accept(q) /\ UNCHANGED delivered
  <2> PICK q \in QueuingPort \cap Source :
             ring[q].count < MaxNbMessage[q] /\ Accept(q) /\ UNCHANGED delivered
    BY <1>2
  <2>1. accepted[q] \in Message /\ Put(q, accepted[q]) /\ accepted' = [accepted EXCEPT ![q] = Following(@)]
    BY DEF Accept, Rings
  <2>2. Following(accepted[q]) \in Message
    BY <2>1, FollowingIs
  <2>3. accepted' \in [QueuingPort \cap Source -> Message]
    BY <2>1, <2>2 DEF Rings
  <2> QED  BY <2>1, <2>3, PutIs
<1>3. CASE \E q \in QueuingPort : ring[q].count > 0 /\ Get(q) /\ UNCHANGED accepted
  BY <1>3, GetIs DEF Rings
<1>4. CASE /\ queuingIO.at = "send" /\ ring[QueuingTurn.destination].count < MaxNbMessage[QueuingTurn.destination]
           /\ Put(QueuingTurn.destination, queuingIO.message) /\ UNCHANGED <<accepted, delivered>>
  <2>1. QueuingTurn.destination \in QueuingPort /\ queuingIO.message \in Message \cup {None}
    BY <1>4, QueuingTable DEF QueuingTurn, StaticInv, QueuingTurns, Rings
  <2> QED  BY <1>4, <2>1, PutIs DEF Rings
<1> QED  BY <1>1, <1>2, <1>3, <1>4 DEF RingMove


-----------------------------------------------------------------------------
(* The numbers of the messages in a source.                                *)

\* The messages of a ring are numbered on from f.
NumberedFrom(g, f, max) ==
  \A i \in 1..g.count : Contents(g, max)[i] = (f + i - 1) % Numbering

\* The oldest message has the first number.
LEMMA OldestIs ==
  ASSUME NEW max \in Nat \ {0}, NEW S, NEW g \in Ring(max, S), g.count > 0,
         NEW f \in Message, NumberedFrom(g, f, max)
  PROVE  Oldest(g) = f
<1>1. /\ g.next \in 0..(max - 1) /\ g.count \in 0..max
      /\ \A i \in 1..g.count : Contents(g, max)[i] = g.slot[Wrap(max, g.next + i - 1)]
  BY RingContents
<1>2. Contents(g, max)[1] = Oldest(g)
  BY <1>1 DEF Wrap, Oldest
<1>3. Contents(g, max)[1] = (f + 1 - 1) % Numbering
  BY <1>1 DEF NumberedFrom
<1>4. Numbering \in Nat \ {0} /\ f \in 0..(Numbering - 1)
  BY QueuingPortsAssumption
<1>5. f % Numbering = f
  BY <1>4, SmallResidue
<1> QED  BY <1>2, <1>3, <1>4, <1>5

\* The next number goes behind the others.
LEMMA NumberedStore ==
  ASSUME NEW max \in Nat \ {0}, NEW S, NEW g \in Ring(max, S), g.count < max,
         NEW f \in Message, NumberedFrom(g, f, max),
         NEW a \in S, a = (f + g.count) % Numbering
  PROVE  /\ NumberedFrom(Store(g, max, a), f, max)
         /\ Following(a) = (f + Store(g, max, a).count) % Numbering
<1> DEFINE h == Store(g, max, a)
           s == Contents(g, max)
<1>1. h.count = g.count + 1 /\ Contents(h, max) = Append(s, a)
  BY StoreProperties
<1>2. s \in Seq(S) /\ Len(s) = g.count /\ g.count \in 0..max
  BY RingContents
<1>3. Numbering \in Nat \ {0} /\ f \in Nat
  BY QueuingPortsAssumption
<1>4. \A i \in 1..g.count : s[i] = (f + i - 1) % Numbering
  BY DEF NumberedFrom
<1> HIDE DEF h, s
<1>5. Append(s, a) = [i \in 1..(g.count + 1) |-> IF i = g.count + 1 THEN a ELSE s[i]]
  BY <1>2, AppendIs
<1>6. a = (f + (g.count + 1) - 1) % Numbering
  <2>1. f + (g.count + 1) - 1 = f + g.count
    BY <1>2, <1>3
  <2> QED  BY <2>1
<1>7. \A i \in 1..(g.count + 1) : Append(s, a)[i] = (f + i - 1) % Numbering
  BY <1>2, <1>4, <1>5, <1>6
<1>8. NumberedFrom(h, f, max)
  BY <1>1, <1>7 DEF NumberedFrom
<1>9. Following(a) = (f + h.count) % Numbering
  <2>1. Following(a) = (((f + g.count) % Numbering) + 1) % Numbering
    BY DEF Following
  <2>2. f + g.count \in Nat /\ f + h.count = (f + g.count) + 1
    <3> DEFINE n == g.count
               k == h.count
    <3>1. n \in Nat /\ k = n + 1
      BY <1>1, <1>2
    <3> HIDE DEF n, k
    <3>2. f + n \in Nat /\ f + k = (f + n) + 1
      BY <1>3, <3>1
    <3> QED  BY <3>2 DEF n, k
  <2> QED  BY <1>3, <2>1, <2>2, ResidueOfSum
<1> QED  BY <1>8, <1>9 DEF h

\* When the oldest is gone the others are numbered on from the next number.
LEMMA NumberedDrop ==
  ASSUME NEW max \in Nat \ {0}, NEW S, NEW g \in Ring(max, S), g.count > 0,
         NEW f \in Message, NumberedFrom(g, f, max)
  PROVE  /\ NumberedFrom(Drop(g, max), Following(f), max)
         /\ (Following(f) + Drop(g, max).count) % Numbering = (f + g.count) % Numbering
<1> DEFINE h == Drop(g, max)
           s == Contents(g, max)
<1>1. h.count = g.count - 1 /\ Contents(h, max) = Tail(s) /\ s # <<>>
  BY DropProperties
<1>2. s \in Seq(S) /\ Len(s) = g.count /\ g.count \in 0..max
  BY RingContents
<1>3. Numbering \in Nat \ {0} /\ f \in Nat
  BY QueuingPortsAssumption
<1>4. \A i \in 1..g.count : s[i] = (f + i - 1) % Numbering
  BY DEF NumberedFrom
<1> HIDE DEF h, s
<1>5. Tail(s) = [i \in 1..(g.count - 1) |-> s[i + 1]]
  <2>1. Tail(s) = [i \in 1..(Len(s) - 1) |-> s[i + 1]]
    BY <1>1, <1>2, TailIs
  <2> QED  BY <1>2, <2>1
<1>6. ASSUME NEW k \in Nat PROVE (Following(f) + k) % Numbering = (f + (k + 1)) % Numbering
  <2> DEFINE x == f + 1
  <2>0. x \in Nat
    BY <1>3
  <2> HIDE DEF x
  <2>1. ((x % Numbering) + k) % Numbering = (x + k) % Numbering
    BY <1>3, <2>0, ResidueOfSum
  <2>2. (f + 1) + k = f + (k + 1)
    BY <1>3
  <2> QED  BY <2>1, <2>2 DEF Following, x
<1>7. ASSUME NEW i \in 1..h.count PROVE Contents(h, max)[i] = (Following(f) + i - 1) % Numbering
  <2>1. i + 1 \in 1..g.count /\ i \in 1..(g.count - 1) /\ i - 1 \in Nat /\ (i - 1) + 1 = i
    BY <1>1, <1>2
  <2>2. Contents(h, max)[i] = (f + (i + 1) - 1) % Numbering
    BY <1>1, <1>4, <1>5, <2>1
  <2>3. (Following(f) + (i - 1)) % Numbering = (f + i) % Numbering
    BY <1>6, <2>1
  <2>4. f + (i + 1) - 1 = f + i /\ Following(f) + (i - 1) = Following(f) + i - 1
    BY <1>3, <2>1, FollowingIs, QueuingPortsAssumption
  <2> QED  BY <2>2, <2>3, <2>4
<1>8. NumberedFrom(h, Following(f), max)
  BY <1>7 DEF NumberedFrom
<1>9. (Following(f) + h.count) % Numbering = (f + g.count) % Numbering
  <2>1. h.count \in Nat /\ h.count + 1 = g.count
    BY <1>1, <1>2
  <2> QED  BY <1>6, <2>1
<1> QED  BY <1>8, <1>9 DEF h


-----------------------------------------------------------------------------
(* The numbers in each source go on from what has arrived.                 *)

\* A message of the channel has been put into the destination and is not yet taken.
PassedOn(c) ==
  \/ queuingIO.at = "take" /\ queuingIO.turn = c
  \/ QueuingChannels[c] \in unfinished

First(c) == IF PassedOn(c) THEN arrived[c] ELSE Following(arrived[c])

Numbers ==
  \A c \in DOMAIN QueuingChannels :
    LET q == QueuingChannels[c].source
    IN  /\ NumberedFrom(ring[q], First(c), MaxNbMessage[q])
        /\ accepted[q] = (First(c) + ring[q].count) % Numbering

\* What the I/O partition carries is the oldest message of the source, and what has been
\* passed on is there until it is taken.
Carried ==
  /\ queuingIO.at = "send" =>
       ring[QueuingTurn.source].count > 0 /\ queuingIO.message = First(queuingIO.turn)
  /\ \A c \in DOMAIN QueuingChannels : PassedOn(c) => ring[QueuingChannels[c].source].count > 0

ChannelsInv == Rings /\ Numbers /\ Carried

LEMMA FirstIs ==
  ASSUME Rings, NEW c \in DOMAIN QueuingChannels
  PROVE  First(c) \in Message /\ arrived[c] \in Message
BY FollowingIs DEF Rings, First

\* Two channels have nothing in common.
LEMMA ChannelsDiffer ==
  ASSUME NEW c \in DOMAIN QueuingChannels, NEW d \in DOMAIN QueuingChannels, c # d
  PROVE  /\ QueuingChannels[c].source # QueuingChannels[d].source
         /\ QueuingChannels[c].destination # QueuingChannels[d].destination
         /\ QueuingChannels[c] # QueuingChannels[d]
BY ConnectionTable

\* What the processes of the partitions do to the rings.
UserRing ==
  \/ UNCHANGED <<ring, accepted, delivered>>
  \/ \E q \in QueuingPort \cap Source : Accept(q) /\ UNCHANGED delivered
  \/ \E q \in QueuingPort \ Source : Get(q) /\ UNCHANGED accepted

\* They leave the I/O partition alone, and so do the sampling ports.
UserStep ==
  /\ UserRing /\ UNCHANGED <<queuingIO, arrived>>
  /\ \A c \in DOMAIN QueuingChannels :
       QueuingChannels[c] \in unfinished' <=> QueuingChannels[c] \in unfinished

LEMMA ServicesAreUsers ==
  ASSUME StaticInv, QueuingPortServices
  PROVE  UserRing
<1>1. ASSUME NEW q \in QueuingPort, CREATE_QUEUING_PORT(q) PROVE UserRing
  BY <1>1 DEF CREATE_QUEUING_PORT, queuingVars, UserRing
<1>2. ASSUME NEW p \in Proc, NEW q \in QueuingPort, NEW kind \in Waits,
             SEND_QUEUING_MESSAGE(p, q, kind) \/ RECEIVE_QUEUING_MESSAGE(p, q, kind)
      PROVE  UserRing
  BY <1>2 DEF SEND_QUEUING_MESSAGE, RECEIVE_QUEUING_MESSAGE, queuingVars, UserRing
<1>3. ASSUME NEW p \in Proc, SendReturns(p) \/ ReceiveReturns(p) PROVE UserRing
  <2>1. /\ call[p].service = "SEND_QUEUING_MESSAGE" => call[p].object \in QueuingPort \cap Source
        /\ call[p].service = "RECEIVE_QUEUING_MESSAGE" => call[p].object \in QueuingPort \ Source
    BY DEF StaticInv, QueuesInv, QueueInv, Typed, Calls
  <2> QED  BY <1>3, <2>1 DEF SendReturns, ReceiveReturns, queuingVars, UserRing
<1> QED  BY <1>1, <1>2, <1>3 DEF QueuingPortServices

\* A step is one of QUEUINGPORTS or of others.
LEMMA NextParts ==
  ASSUME StaticInv, [Next]_vars
  PROVE  UserStep \/ PeekQueuing \/ SendOn \/ TakeQueuing \/ StopQUEUINGPORTS \/ StartQUEUINGPORTS
<1>1. CASE UNCHANGED vars
  BY <1>1 DEF vars, queuingVars, ioVars, UserStep, UserRing
<1>2. CASE QueuingPortServices /\ UNCHANGED <<queuingIO, arrived, unfinished>>
  BY <1>2, ServicesAreUsers DEF UserStep
<1>3. CASE UNCHANGED queuingVars /\ UNCHANGED <<queuingIO, arrived, unfinished>>
  BY <1>3 DEF queuingVars, UserStep, UserRing
<1>4. CASE SamplingNext
  <2>1. UNCHANGED <<ring, accepted, delivered, queuingIO, arrived>>
    BY <1>4 DEF SamplingNext, queuingVars
  <2>2. \/ unfinished' = unfinished
        \/ /\ samplingIO.turn \in DOMAIN SamplingChannels
           /\ \/ unfinished' = unfinished \cup {SamplingTurn}
              \/ unfinished' = unfinished \ {SamplingTurn}
    BY <1>4 DEF SamplingNext, SAMPLINGPORTS, PeekSampling, WriteOn, AfterWrite, TakeSampling,
         StopSAMPLINGPORTS, StartSAMPLINGPORTS, StaticInv, SamplingTurns
  <2>3. samplingIO.turn \in DOMAIN SamplingChannels => SamplingTurn.source \in SamplingPort
    BY SamplingTable, PortKinds DEF SamplingTurn
  <2>4. \A c \in DOMAIN QueuingChannels : QueuingChannels[c].source \notin SamplingPort
    BY QueuingTable, PortKinds
  <2> QED  BY <2>1, <2>2, <2>3, <2>4 DEF UserStep, UserRing
<1> QED  BY <1>1, <1>2, <1>3, <1>4 DEF Next, QueuingNext, QUEUINGPORTS


\* A source in which nothing changes keeps its numbers.
LEMMA SourceKept ==
  ASSUME ChannelsInv, NEW c \in DOMAIN QueuingChannels,
         ring'[QueuingChannels[c].source] = ring[QueuingChannels[c].source],
         accepted'[QueuingChannels[c].source] = accepted[QueuingChannels[c].source],
         First(c)' = First(c)
  PROVE  LET q == QueuingChannels[c].source
         IN  /\ NumberedFrom(ring'[q], First(c)', MaxNbMessage[q])
             /\ accepted'[q] = (First(c)' + ring'[q].count) % Numbering
BY DEF ChannelsInv, Numbers

LEMMA UsersKeepNumbers ==
  ASSUME StaticInv, ChannelsInv, UserStep, WithinCapacity'
  PROVE  Numbers' /\ Carried'
<1>1. \A c \in DOMAIN QueuingChannels :
        First(c)' = First(c) /\ PassedOn(c)' = PassedOn(c)
  BY DEF UserStep, First, PassedOn
<1>2. ASSUME \A c \in DOMAIN QueuingChannels :
               LET q == QueuingChannels[c].source IN ring'[q].count >= ring[q].count
      PROVE  Carried'
  <2>1. ASSUME NEW c \in DOMAIN QueuingChannels, ring[QueuingChannels[c].source].count > 0
        PROVE  ring'[QueuingChannels[c].source].count > 0
    <3>1. QueuingChannels[c].source \in QueuingPort
      BY QueuingTable
    <3>2. /\ ring[QueuingChannels[c].source].count \in Nat
          /\ ring'[QueuingChannels[c].source].count >= ring[QueuingChannels[c].source].count
      BY <1>2, <3>1, RingOf DEF ChannelsInv
    <3>3. ring'[QueuingChannels[c].source].count \in Nat
      <4>1. RingMove
        BY TriesFit DEF UserStep, UserRing, RingTry, ChannelsInv
      <4> QED  BY <3>1, <4>1, MoveIs, QueuingPortsAssumption DEF ChannelsInv, Ring
    <3> QED  BY <2>1, <3>2, <3>3
  <2>2. queuingIO' = queuingIO
    BY DEF UserStep
  <2>3. queuingIO'.at = "send" =>
          ring'[QueuingTurn.source].count > 0 /\ queuingIO'.message = First(queuingIO.turn)'
    <3> SUFFICES ASSUME queuingIO.at = "send"
                 PROVE  ring'[QueuingTurn.source].count > 0 /\ queuingIO'.message = First(queuingIO.turn)'
      BY <2>2
    <3>1. queuingIO.turn \in DOMAIN QueuingChannels
      BY DEF StaticInv, QueuingTurns
    <3> QED  BY <1>1, <2>1, <2>2, <3>1 DEF ChannelsInv, Carried, QueuingTurn
  <2>4. \A c \in DOMAIN QueuingChannels : PassedOn(c)' => ring'[QueuingChannels[c].source].count > 0
    BY <1>1, <2>1 DEF ChannelsInv, Carried
  <2> QED  BY <2>2, <2>3, <2>4 DEF Carried, QueuingTurn, First, PassedOn
<1>3. CASE UNCHANGED <<ring, accepted, delivered>>
  <2>1. Numbers'
    BY <1>1, <1>3, SourceKept DEF Numbers
  <2>2. \A c \in DOMAIN QueuingChannels :
          ring[QueuingChannels[c].source].count >= ring[QueuingChannels[c].source].count
    BY QueuingTable, RingOf, QueuingPortsAssumption DEF ChannelsInv
  <2> QED  BY <1>2, <1>3, <2>1, <2>2
<1>4. CASE \E q \in QueuingPort \cap Source : Accept(q) /\ UNCHANGED delivered
  <2> PICK q \in QueuingPort \cap Source : Accept(q)
    BY <1>4
  <2>1. /\ Put(q, accepted[q]) /\ accepted[q] \in Message
        /\ accepted'[q] = Following(accepted[q])
        /\ \A x \in QueuingPort \cap Source : x # q => accepted'[x] = accepted[x]
    BY DEF Accept, ChannelsInv, Rings
  <2>2. ring[q].count < MaxNbMessage[q]
    BY <2>1, PutFits DEF ChannelsInv
  <2>3. /\ ring'[q] = Store(ring[q], MaxNbMessage[q], accepted[q])
        /\ ring'[q].count = ring[q].count + 1
        /\ \A x \in QueuingPort \ {q} : ring'[x] = ring[x]
    BY <2>1, <2>2, PutIs DEF ChannelsInv
  <2>4. ASSUME NEW c \in DOMAIN QueuingChannels, QueuingChannels[c].source = q
        PROVE  /\ NumberedFrom(ring'[q], First(c)', MaxNbMessage[q])
               /\ accepted'[q] = (First(c)' + ring'[q].count) % Numbering
    <3>1. /\ NumberedFrom(ring[q], First(c), MaxNbMessage[q])
          /\ accepted[q] = (First(c) + ring[q].count) % Numbering
      BY <2>4 DEF ChannelsInv, Numbers
    <3>2. First(c) \in Message
      BY FirstIs DEF ChannelsInv
    <3>3. /\ MaxNbMessage[q] \in Nat \ {0} /\ ring[q] \in Ring(MaxNbMessage[q], Message \cup {None})
      BY RingOf DEF ChannelsInv
    <3>4. /\ NumberedFrom(Store(ring[q], MaxNbMessage[q], accepted[q]), First(c), MaxNbMessage[q])
          /\ Following(accepted[q]) =
               (First(c) + Store(ring[q], MaxNbMessage[q], accepted[q]).count) % Numbering
      BY <2>1, <2>2, <3>1, <3>2, <3>3, NumberedStore
    <3> QED  BY <1>1, <2>1, <2>3, <3>4
  <2>5. ASSUME NEW c \in DOMAIN QueuingChannels, QueuingChannels[c].source # q
        PROVE  /\ ring'[QueuingChannels[c].source] = ring[QueuingChannels[c].source]
               /\ accepted'[QueuingChannels[c].source] = accepted[QueuingChannels[c].source]
    BY <2>1, <2>3, <2>5, QueuingTable
  <2>6. Numbers'
    BY <1>1, <2>4, <2>5, SourceKept DEF Numbers
  <2>7. \A c \in DOMAIN QueuingChannels :
          ring'[QueuingChannels[c].source].count >= ring[QueuingChannels[c].source].count
    <3>1. \A x \in QueuingPort : ring[x].count \in Nat
      BY RingOf, QueuingPortsAssumption DEF ChannelsInv
    <3> QED  BY <2>3, <2>5, <3>1, QueuingTable
  <2> QED  BY <1>2, <2>6, <2>7
<1>5. CASE \E q \in QueuingPort \ Source : Get(q) /\ UNCHANGED accepted
  <2> PICK q \in QueuingPort \ Source : Get(q) /\ UNCHANGED accepted
    BY <1>5
  <2>1. ring[q].count > 0
    BY GetFits DEF ChannelsInv
  <2>2. \A x \in QueuingPort \ {q} : ring'[x] = ring[x]
    BY <2>1, GetIs DEF ChannelsInv
  <2>3. ASSUME NEW c \in DOMAIN QueuingChannels
        PROVE  /\ ring'[QueuingChannels[c].source] = ring[QueuingChannels[c].source]
               /\ accepted'[QueuingChannels[c].source] = accepted[QueuingChannels[c].source]
               /\ ring[QueuingChannels[c].source].count \in Nat
    BY <2>2, QueuingTable, RingOf, QueuingPortsAssumption DEF ChannelsInv
  <2>4. Numbers'
    BY <1>1, <2>3, SourceKept DEF Numbers
  <2> QED  BY <1>2, <2>3, <2>4
<1> QED  BY <1>3, <1>4, <1>5 DEF UserStep, UserRing


\* Where the rings stay as they are and what is passed on too.
LEMMA RingsStay ==
  ASSUME ChannelsInv, UNCHANGED <<ring, accepted>>,
         \A c \in DOMAIN QueuingChannels : First(c)' = First(c) /\ PassedOn(c)' = PassedOn(c)
  PROVE  /\ Numbers'
         /\ \A c \in DOMAIN QueuingChannels : PassedOn(c)' => ring'[QueuingChannels[c].source].count > 0
<1>1. Numbers'
  BY SourceKept DEF Numbers
<1> QED  BY <1>1 DEF ChannelsInv, Carried

LEMMA PeekKeepsNumbers ==
  ASSUME StaticInv, ChannelsInv, PeekQueuing
  PROVE  Numbers' /\ Carried'
<1>1. UNCHANGED <<ring, accepted, arrived, unfinished>> /\ queuingIO.at = "look"
  BY DEF PeekQueuing, queuingVars
<1>2. queuingIO'.at = "send" \/ queuingIO'.at = "look"
  BY DEF PeekQueuing, OnwardQueuing, Onward
<1>3. \A c \in DOMAIN QueuingChannels : First(c)' = First(c) /\ PassedOn(c)' = PassedOn(c)
  BY <1>1, <1>2 DEF First, PassedOn
<1>4. CASE Available(QueuingTurn.source)
  <2>1. PICK d \in DOMAIN QueuingChannels : d = queuingIO.turn
    BY <1>1 DEF StaticInv, QueuingTurns
  <2>2. PICK q \in QueuingPort : q = QueuingChannels[d].source
    BY QueuingTable
  <2>3. /\ queuingIO' = [at |-> "send", turn |-> d, message |-> Oldest(ring[q])]
        /\ ring[q].count > 0
    BY <1>4, <2>1, <2>2 DEF PeekQueuing, QueuingTurn, Available
  <2>4. Oldest(ring[q]) = First(d)
    <3>1. NumberedFrom(ring[q], First(d), MaxNbMessage[q]) /\ First(d) \in Message
      BY <2>2, FirstIs DEF ChannelsInv, Numbers
    <3>2. MaxNbMessage[q] \in Nat \ {0} /\ ring[q] \in Ring(MaxNbMessage[q], Message \cup {None})
      BY RingOf DEF ChannelsInv
    <3> QED  BY <2>3, <3>1, <3>2, OldestIs
  <2>5. queuingIO'.turn = d /\ queuingIO'.message = First(d)'
    BY <1>3, <2>3, <2>4
  <2>6. QueuingChannels[queuingIO'.turn].source = q /\ ring'[q].count > 0
    BY <1>1, <2>2, <2>3
  <2>7. (ring[QueuingTurn.source].count > 0)'
    BY <2>6 DEF QueuingTurn
  <2>8. (queuingIO.message = First(queuingIO.turn))'
    BY <2>5 DEF First, PassedOn
  <2> QED  BY <1>1, <1>3, <2>7, <2>8, RingsStay DEF Carried
<1>5. CASE ~ Available(QueuingTurn.source)
  <2>1. queuingIO'.at = "look"
    BY <1>5 DEF PeekQueuing, OnwardQueuing, Onward
  <2> QED  BY <1>1, <1>3, <2>1, RingsStay DEF Carried
<1> QED  BY <1>4, <1>5

\* The message put into the destination is the first of the source.
LEMMA SendIs ==
  ASSUME StaticInv, ChannelsInv, SendOn
  PROVE  \/ /\ UNCHANGED <<ring, accepted, arrived, unfinished>> /\ queuingIO'.at = "look"
         \/ \E c \in DOMAIN QueuingChannels :
              LET q == QueuingChannels[c].destination
              IN  /\ c = queuingIO.turn /\ q \in QueuingPort \ Source
                  /\ ring[q].count < MaxNbMessage[q]
                  /\ \A x \in QueuingPort \ {q} : ring'[x] = ring[x]
                  /\ ring'[q].count = ring[q].count + 1
                  /\ UNCHANGED <<accepted, unfinished>>
                  /\ queuingIO' = [at |-> "take", turn |-> c]
                  /\ arrived' = [arrived EXCEPT ![c] = First(c)]
<1>1. PICK c \in DOMAIN QueuingChannels : c = queuingIO.turn
  BY DEF SendOn, StaticInv, QueuingTurns
<1>2. PICK q \in QueuingPort \ Source : q = QueuingChannels[c].destination
  BY QueuingTable
<1>3. queuingIO.message = First(c) /\ First(c) \in Message
  BY <1>1, FirstIs DEF SendOn, ChannelsInv, Carried
<1>4. CASE q \notin objects \/ Full(q)
  <2>1. OnwardQueuing /\ UNCHANGED <<arrived, unfinished>> /\ UNCHANGED <<ring, accepted>>
    BY <1>1, <1>2, <1>4 DEF SendOn, QueuingTurn, SEND_PARTITION_QUEUING_MESSAGE, queuingVars
  <2> QED  BY <2>1 DEF OnwardQueuing, Onward
<1>5. CASE q \in objects /\ ~ Full(q)
  <2>1. /\ Put(q, First(c)) /\ UNCHANGED <<accepted, unfinished>>
        /\ queuingIO' = [at |-> "take", turn |-> c] /\ arrived' = [arrived EXCEPT ![c] = First(c)]
    BY <1>1, <1>2, <1>3, <1>5 DEF SendOn, QueuingTurn, SEND_PARTITION_QUEUING_MESSAGE
  <2>2. ring[q].count < MaxNbMessage[q]
    BY <1>5, RingOf DEF Full, ChannelsInv
  <2>3. ring'[q].count = ring[q].count + 1 /\ \A x \in QueuingPort \ {q} : ring'[x] = ring[x]
    BY <1>3, <2>1, <2>2, PutIs DEF ChannelsInv
  <2> QED  BY <1>1, <1>2, <2>1, <2>2, <2>3
<1> QED  BY <1>4, <1>5

LEMMA SendKeepsNumbers ==
  ASSUME StaticInv, ChannelsInv, SendOn
  PROVE  Numbers' /\ Carried'
<1>1. queuingIO.at = "send"
  BY DEF SendOn
<1>2. CASE UNCHANGED <<ring, accepted, arrived, unfinished>> /\ queuingIO'.at = "look"
  <2>1. \A c \in DOMAIN QueuingChannels : First(c)' = First(c) /\ PassedOn(c)' = PassedOn(c)
    BY <1>1, <1>2 DEF First, PassedOn
  <2> QED  BY <1>2, <2>1, RingsStay DEF Carried
<1>3. ASSUME NEW c \in DOMAIN QueuingChannels, NEW q \in QueuingPort \ Source,
             q = QueuingChannels[c].destination, c = queuingIO.turn,
             \A x \in QueuingPort \ {q} : ring'[x] = ring[x],
             UNCHANGED <<accepted, unfinished>>,
             queuingIO' = [at |-> "take", turn |-> c],
             arrived' = [arrived EXCEPT ![c] = First(c)]
      PROVE  Numbers' /\ Carried'
  <2>1. \A d \in DOMAIN QueuingChannels : ring'[QueuingChannels[d].source] = ring[QueuingChannels[d].source]
    BY <1>3, QueuingTable
  <2>2. arrived'[c] = First(c) /\ \A d \in DOMAIN QueuingChannels : d # c => arrived'[d] = arrived[d]
    BY <1>3 DEF ChannelsInv, Rings
  <2>3. queuingIO'.at = "take" /\ queuingIO'.turn = c
    BY <1>3
  <2>4. PassedOn(c)' /\ \A d \in DOMAIN QueuingChannels : d # c => PassedOn(d)' = PassedOn(d)
    BY <1>1, <1>3, <2>3 DEF PassedOn
  <2>5. \A d \in DOMAIN QueuingChannels : First(d)' = First(d)
    BY <2>2, <2>4 DEF First
  <2>6. Numbers'
    BY <1>3, <2>1, <2>5, SourceKept DEF Numbers
  <2>7. ring[QueuingChannels[c].source].count > 0
    BY <1>1, <1>3 DEF ChannelsInv, Carried, QueuingTurn
  <2>8. \A d \in DOMAIN QueuingChannels : PassedOn(d)' => ring'[QueuingChannels[d].source].count > 0
    BY <2>1, <2>4, <2>7 DEF ChannelsInv, Carried
  <2> QED  BY <2>3, <2>6, <2>8 DEF Carried
<1> QED  BY <1>2, <1>3, SendIs

LEMMA TakeKeepsNumbers ==
  ASSUME StaticInv, ChannelsInv, TakeQueuing
  PROVE  Numbers' /\ Carried'
<1>1. PICK c \in DOMAIN QueuingChannels : c = queuingIO.turn
  BY DEF TakeQueuing, StaticInv, QueuingTurns
<1>2. PICK q \in QueuingPort \cap Source : q = QueuingChannels[c].source
  BY QueuingTable
<1>3. /\ queuingIO.at = "take" /\ queuingIO'.at = "look" /\ UNCHANGED arrived
      /\ QueuingTurn = QueuingChannels[c]
  BY <1>1 DEF TakeQueuing, OnwardQueuing, Onward, QueuingTurn
<1>4. \A d \in DOMAIN QueuingChannels : d # c =>
        QueuingChannels[d].source # q /\ QueuingChannels[d] # QueuingChannels[c]
  BY <1>2, ChannelsDiffer
<1>5. PassedOn(c)
  BY <1>1, <1>3 DEF PassedOn
<1>6. CASE RECEIVE_PARTITION_QUEUING_MESSAGE(q) /\ unfinished' = unfinished \ {QueuingChannels[c]}
  <2>1. Get(q) /\ UNCHANGED accepted /\ ring[q].count > 0
    BY <1>6 DEF RECEIVE_PARTITION_QUEUING_MESSAGE, Available
  <2>2. ring'[q] = Drop(ring[q], MaxNbMessage[q]) /\ \A x \in QueuingPort \ {q} : ring'[x] = ring[x]
    BY <2>1, GetIs DEF ChannelsInv
  <2>3. /\ ~ PassedOn(c)'
        /\ \A d \in DOMAIN QueuingChannels : d # c => PassedOn(d)' = PassedOn(d)
    BY <1>1, <1>3, <1>4, <1>6 DEF PassedOn
  <2>4. First(c)' = Following(First(c)) /\ \A d \in DOMAIN QueuingChannels : d # c => First(d)' = First(d)
    BY <1>3, <1>5, <2>3 DEF First
  <2>5. /\ NumberedFrom(ring'[q], First(c)', MaxNbMessage[q])
        /\ accepted'[q] = (First(c)' + ring'[q].count) % Numbering
    <3>1. /\ NumberedFrom(ring[q], First(c), MaxNbMessage[q])
          /\ accepted[q] = (First(c) + ring[q].count) % Numbering
      BY <1>2 DEF ChannelsInv, Numbers
    <3>2. First(c) \in Message
      BY FirstIs DEF ChannelsInv
    <3>3. MaxNbMessage[q] \in Nat \ {0} /\ ring[q] \in Ring(MaxNbMessage[q], Message \cup {None})
      BY RingOf DEF ChannelsInv
    <3>4. /\ NumberedFrom(Drop(ring[q], MaxNbMessage[q]), Following(First(c)), MaxNbMessage[q])
          /\ (Following(First(c)) + Drop(ring[q], MaxNbMessage[q]).count) % Numbering =
               (First(c) + ring[q].count) % Numbering
      BY <2>1, <3>1, <3>2, <3>3, NumberedDrop
    <3> QED  BY <2>1, <2>2, <2>4, <3>1, <3>4
  <2>6. \A d \in DOMAIN QueuingChannels : d # c =>
          /\ ring'[QueuingChannels[d].source] = ring[QueuingChannels[d].source]
          /\ accepted'[QueuingChannels[d].source] = accepted[QueuingChannels[d].source]
    BY <1>4, <2>1, <2>2, QueuingTable
  <2>7. Numbers'
    BY <1>2, <2>4, <2>5, <2>6, SourceKept DEF Numbers
  <2>8. \A d \in DOMAIN QueuingChannels : PassedOn(d)' => ring'[QueuingChannels[d].source].count > 0
    BY <2>3, <2>6 DEF ChannelsInv, Carried
  <2> QED  BY <1>3, <2>7, <2>8 DEF Carried
<1>7. CASE UNCHANGED <<ring, accepted>> /\ unfinished' = unfinished \cup {QueuingChannels[c]}
  <2>1. \A d \in DOMAIN QueuingChannels : PassedOn(d)' = PassedOn(d)
    BY <1>1, <1>3, <1>4, <1>5, <1>7 DEF PassedOn
  <2>2. \A d \in DOMAIN QueuingChannels : First(d)' = First(d)
    BY <1>3, <2>1 DEF First
  <2> QED  BY <1>3, <1>7, <2>1, <2>2, RingsStay DEF Carried
<1> QED  BY <1>2, <1>3, <1>6, <1>7 DEF TakeQueuing, queuingVars

LEMMA StopKeepsNumbers ==
  ASSUME StaticInv, ChannelsInv, StopQUEUINGPORTS \/ StartQUEUINGPORTS
  PROVE  Numbers' /\ Carried'
<1>1. UNCHANGED <<ring, accepted, arrived>> /\ queuingIO'.at \in {"look", "stopped"}
  BY DEF StopQUEUINGPORTS, StartQUEUINGPORTS, Stopped, AtStart, queuingVars
<1>2. \A c \in DOMAIN QueuingChannels : PassedOn(c)' = PassedOn(c)
  <2>1. CASE queuingIO.at = "take"
    <3>1. PICK d \in DOMAIN QueuingChannels : d = queuingIO.turn
      BY <2>1 DEF StaticInv, QueuingTurns
    <3>2. unfinished' = unfinished \cup {QueuingChannels[d]}
      BY <2>1, <3>1 DEF StopQUEUINGPORTS, StartQUEUINGPORTS, QueuingTurn
    <3> QED  BY <1>1, <2>1, <3>1, <3>2, ChannelsDiffer DEF PassedOn
  <2>2. CASE queuingIO.at # "take"
    <3>1. unfinished' = unfinished
      BY <2>2 DEF StopQUEUINGPORTS, StartQUEUINGPORTS
    <3> QED  BY <1>1, <2>2, <3>1 DEF PassedOn
  <2> QED  BY <2>1, <2>2
<1>3. \A c \in DOMAIN QueuingChannels : First(c)' = First(c)
  BY <1>1, <1>2 DEF First
<1>4. queuingIO'.at # "send"
  BY <1>1
<1> QED  BY <1>1, <1>2, <1>3, <1>4, RingsStay DEF Carried


LEMMA ChannelsStep ==
  ASSUME StaticInv, ChannelsInv, [Next]_vars, WithinCapacity'
  PROVE  ChannelsInv'
<1>1. Numbers' /\ Carried'
  BY NextParts, UsersKeepNumbers, PeekKeepsNumbers, SendKeepsNumbers, TakeKeepsNumbers,
     StopKeepsNumbers
<1>2. /\ ring' = [q \in QueuingPort |-> ring'[q]]
      /\ \A q \in QueuingPort : ring'[q] \in Ring(MaxNbMessage[q], Message \cup {None})
      /\ accepted' \in [QueuingPort \cap Source -> Message]
  BY NextTries, TriesFit, MoveIs DEF ChannelsInv
<1>3. arrived' \in [DOMAIN QueuingChannels -> Message]
  <2>1. CASE UNCHANGED arrived
    BY <2>1 DEF ChannelsInv, Rings
  <2>2. CASE \E c \in DOMAIN QueuingChannels : arrived' = [arrived EXCEPT ![c] = First(c)]
    BY <2>2, FirstIs DEF ChannelsInv, Rings
  <2> QED  BY <2>1, <2>2, NextParts, SendIs
           DEF UserStep, PeekQueuing, TakeQueuing, StopQUEUINGPORTS, StartQUEUINGPORTS
<1>4. queuingIO'.at = "send" => queuingIO'.message \in Message \cup {None}
  <2> SUFFICES ASSUME queuingIO'.at = "send" PROVE (queuingIO.message \in Message)'
    OBVIOUS
  <2>1. PICK c \in DOMAIN QueuingChannels : c = queuingIO'.turn
    BY QueuingTurnsStep DEF StaticInv, QueuingTurns
  <2>2. (First(c) \in Message)'
    BY <1>3, <2>1, FollowingIs DEF First
  <2>3. queuingIO'.message = First(c)'
    BY <1>1, <2>1 DEF Carried, First, PassedOn
  <2> QED  BY <2>2, <2>3
<1> QED  BY <1>1, <1>2, <1>3, <1>4 DEF ChannelsInv, Rings

LEMMA InitChannels == Init => ChannelsInv
<1> SUFFICES ASSUME Init PROVE ChannelsInv
  OBVIOUS
<1>1. /\ ring = [q \in QueuingPort |-> EmptyRing(MaxNbMessage[q], None)]
      /\ accepted = [q \in QueuingPort \cap Source |-> 0]
      /\ arrived = [c \in DOMAIN QueuingChannels |-> Numbering - 1]
      /\ queuingIO.at = "look" /\ unfinished = {}
  BY DEF Init, QueuingPortsInit, IOInit, AtStart
<1>2. Rings
  <2>1. \A q \in QueuingPort : ring[q] \in Ring(MaxNbMessage[q], Message \cup {None})
    <3> TAKE q \in QueuingPort
    <3>1. MaxNbMessage[q] \in Nat \ {0}
      BY QueuingPortsAssumption
    <3> QED  BY <1>1, <3>1 DEF EmptyRing, Ring
  <2> QED  BY <1>1, <2>1, FollowingIs DEF Rings
<1>3. \A c \in DOMAIN QueuingChannels : ~ PassedOn(c) /\ First(c) = 0
  <2>1. Following(Numbering - 1) = 0
    BY QueuingPortsAssumption DEF Following
  <2> QED  BY <1>1, <2>1 DEF PassedOn, First
<1>4. Numbers
  <2> SUFFICES ASSUME NEW c \in DOMAIN QueuingChannels, NEW q \in QueuingPort \cap Source,
                      q = QueuingChannels[c].source
               PROVE  /\ NumberedFrom(ring[q], First(c), MaxNbMessage[q])
                      /\ accepted[q] = (First(c) + ring[q].count) % Numbering
    BY QueuingTable DEF Numbers
  <2>1. ring[q].count = 0 /\ accepted[q] = 0
    BY <1>1 DEF EmptyRing
  <2>2. (0 + 0) % Numbering = 0
    BY QueuingPortsAssumption
  <2> QED  BY <1>3, <2>1, <2>2 DEF NumberedFrom
<1> QED  BY <1>1, <1>2, <1>3, <1>4 DEF ChannelsInv, Carried

LEMMA NothingLostIs ==
  ASSUME ChannelsInv
  PROVE  NothingLost
<1> SUFFICES ASSUME NEW c \in DOMAIN QueuingChannels, NEW q \in QueuingPort,
                    q = QueuingChannels[c].source
             PROVE  /\ Contents(ring[q], MaxNbMessage[q]) =
                         [i \in 1..ring[q].count |-> (First(c) + i - 1) % Numbering]
                    /\ accepted[q] = (First(c) + ring[q].count) % Numbering
  BY QueuingTable DEF NothingLost, First, PassedOn
<1>1. Contents(ring[q], MaxNbMessage[q]) =
        [i \in 1..ring[q].count |-> Contents(ring[q], MaxNbMessage[q])[i]]
  BY DEF Contents
<1> QED  BY <1>1 DEF ChannelsInv, Numbers, NumberedFrom

LEMMA SpecChannels == Spec /\ []WithinCapacity => [](StaticInv /\ ChannelsInv)
<1>1. Init => StaticInv /\ ChannelsInv
  BY InitStatic, InitChannels
<1>2. StaticInv /\ ChannelsInv /\ [Next]_vars /\ WithinCapacity' => StaticInv' /\ ChannelsInv'
  BY StepStatic, ChannelsStep
<1> QED  BY <1>1, <1>2, PTL DEF Spec

\* Nothing is lost between source and destination, whatever stops, restarts or is not
\* there at whatever point: as long as no port is filled beyond its capacity, a source
\* holds exactly the messages accepted that have not arrived, in order.
THEOREM NothingIsLost == Spec /\ []WithinCapacity => []NothingLost
<1>1. StaticInv /\ ChannelsInv => NothingLost
  BY NothingLostIs
<1> QED  BY <1>1, SpecChannels, PTL


-----------------------------------------------------------------------------
(* Each port is a FIFO channel, and its messages arrive in order.          *)

content == [q \in QueuingPort |-> Contents(ring[q], MaxNbMessage[q])]

\* A step that changes one ring changes the contents of one channel.
LEMMA OneContent ==
  ASSUME NEW q \in QueuingPort, \A x \in QueuingPort \ {q} : ring'[x] = ring[x]
  PROVE  content' = [content EXCEPT ![q] = Contents(ring'[q], MaxNbMessage[q])]
BY DEF content

\* A message put into a port with a place is accepted by its channel.
LEMMA PutRefines ==
  ASSUME Rings, NEW q \in QueuingPort, NEW m \in Message, Put(q, m), UNCHANGED delivered,
         ring[q].count < MaxNbMessage[q]
  PROVE  Channels!Next
<1> DEFINE max == MaxNbMessage[q]
<1>1. max \in Nat \ {0} /\ ring[q] \in Ring(max, Message \cup {None}) /\ ring[q].count < max
  BY RingOf
<1>2. content[q] = Contents(ring[q], max)
  BY DEF content
<1>3. content' = [content EXCEPT ![q] = Append(@, m)]
  <2>1. ring'[q] = Store(ring[q], max, m) /\ \A x \in QueuingPort \ {q} : ring'[x] = ring[x]
    BY PutIs
  <2>2. Contents(Store(ring[q], max, m), max) = Append(Contents(ring[q], max), m)
    <3>1. m \in Message \cup {None}
      OBVIOUS
    <3> HIDE DEF max
    <3> QED  BY <1>1, <3>1, StoreProperties
  <2>3. content' = [content EXCEPT ![q] = Contents(ring'[q], max)]
    BY <2>1, OneContent
  <2> QED  BY <1>2, <2>1, <2>2, <2>3
<1>4. Len(content[q]) < max
  <2> HIDE DEF max
  <2> QED  BY <1>1, <1>2, RingContents
<1> QED  BY <1>3, <1>4 DEF Channels!Next, Channels!Accept, content

\* A message taken from a port is the channel's first.
LEMMA GetRefines ==
  ASSUME Rings, NEW q \in QueuingPort, Get(q), ring[q].count > 0
  PROVE  Channels!Next
<1> DEFINE max == MaxNbMessage[q]
<1>1. max \in Nat \ {0} /\ ring[q] \in Ring(max, Message \cup {None})
  BY RingOf
<1>2. content[q] = Contents(ring[q], max)
  BY DEF content
<1>3. /\ Contents(ring[q], max) # <<>> /\ Head(Contents(ring[q], max)) = Oldest(ring[q])
      /\ Contents(Drop(ring[q], max), max) = Tail(Contents(ring[q], max))
  <2> HIDE DEF max
  <2> QED  BY <1>1, DropProperties
<1>4. ring'[q] = Drop(ring[q], max) /\ \A x \in QueuingPort \ {q} : ring'[x] = ring[x]
  BY GetIs
<1>5. content' = [content EXCEPT ![q] = Tail(@)]
  <2>1. content' = [content EXCEPT ![q] = Contents(ring'[q], max)]
    BY <1>4, OneContent
  <2> QED  BY <1>2, <1>3, <1>4, <2>1
<1>6. delivered' = [delivered EXCEPT ![q] = Head(content[q])]
  BY <1>2, <1>3 DEF Get
<1> QED  BY <1>2, <1>3, <1>5, <1>6 DEF Channels!Next, Channels!Deliver, content

LEMMA StepRefines ==
  ASSUME StaticInv, ChannelsInv, [Next]_vars, WithinCapacity'
  PROVE  Channels!Next \/ UNCHANGED <<content, delivered>>
<1>1. RingMove
  BY NextTries, TriesFit DEF ChannelsInv
<1>2. CASE UNCHANGED <<ring, accepted, delivered>>
  BY <1>2 DEF content
<1>3. CASE \E q \in QueuingPort \cap Source :
             ring[q].count < MaxNbMessage[q] /\ Accept(q) /\ UNCHANGED delivered
  BY <1>3, PutRefines DEF Accept, ChannelsInv, Rings
<1>4. CASE \E q \in QueuingPort : ring[q].count > 0 /\ Get(q) /\ UNCHANGED accepted
  BY <1>4, GetRefines DEF ChannelsInv
<1>5. CASE /\ queuingIO.at = "send"
           /\ ring[QueuingTurn.destination].count < MaxNbMessage[QueuingTurn.destination]
           /\ Put(QueuingTurn.destination, queuingIO.message) /\ UNCHANGED <<accepted, delivered>>
  <2>1. PICK c \in DOMAIN QueuingChannels : c = queuingIO.turn
    BY <1>5 DEF StaticInv, QueuingTurns
  <2>2. QueuingTurn.destination \in QueuingPort /\ queuingIO.message \in Message
    BY <1>5, <2>1, QueuingTable, FirstIs DEF QueuingTurn, ChannelsInv, Carried
  <2> QED  BY <1>5, <2>2, PutRefines DEF ChannelsInv
<1> QED  BY <1>1, <1>2, <1>3, <1>4, <1>5 DEF RingMove

LEMMA InitRefines == Init => Channels!Init
<1> SUFFICES ASSUME Init PROVE Channels!Init
  OBVIOUS
<1>1. \A q \in QueuingPort : Contents(ring[q], MaxNbMessage[q]) = <<>>
  BY DEF Init, QueuingPortsInit, Contents, EmptyRing
<1> QED  BY <1>1 DEF Init, QueuingPortsInit, Channels!Init

\* Every port is a FIFO channel that loses, invents and reorders nothing, although those
\* who wait store and take their messages only when they run again: each step of ports and
\* I/O partition is one of the abstract channels or changes nothing they know of.
THEOREM PortsImplementChannels == Spec /\ []WithinCapacity => ImplementsChannels
<1>1. StaticInv /\ ChannelsInv /\ [Next]_vars /\ WithinCapacity' =>
        [Channels!Next]_<<[q \in QueuingPort |-> Contents(ring[q], MaxNbMessage[q])], delivered>>
  BY StepRefines DEF content
<1> QED  BY <1>1, InitRefines, SpecChannels, PTL DEF Spec, ImplementsChannels, Channels!Spec

\* What a step adds to a destination is its channel's next message, or once more the last
\* one that was not taken.
LEMMA QueuingInOrder ==
  ASSUME StaticInv, ChannelsInv, [Next]_vars, WithinCapacity',
         NEW c \in DOMAIN QueuingChannels
  PROVE  QueuingArrival(c)
<1> SUFFICES ASSUME NEW q \in QueuingPort \ Source, q = QueuingChannels[c].destination,
                    ring'[q].count > ring[q].count
             PROVE  \/ arrived'[c] = Following(arrived[c])
                    \/ arrived'[c] = arrived[c] /\ QueuingChannels[c] \in unfinished
  BY QueuingTable DEF QueuingArrival
<1>1. ring[q].count \in Nat
  BY RingOf, QueuingPortsAssumption DEF ChannelsInv
<1>2. ASSUME UNCHANGED ring PROVE FALSE
  BY <1>1, <1>2
<1>3. ASSUME NEW x \in QueuingPort, Get(x), x # q \/ ring[x].count > 0 PROVE FALSE
  <2>1. ring[x].count > 0
    BY <1>1, <1>3, GetFits DEF ChannelsInv
  <2>2. ring'[q] = ring[q] \/ ring'[q].count = ring[q].count - 1
    BY <1>3, <2>1, GetIs DEF ChannelsInv
  <2> QED  BY <1>1, <2>2
<1>4. ASSUME NEW x \in QueuingPort \cap Source, Accept(x) PROVE FALSE
  <2>1. Put(x, accepted[x]) /\ accepted[x] \in Message
    BY <1>4 DEF Accept, ChannelsInv, Rings
  <2>2. ring'[q] = ring[q]
    BY <2>1, PutFits, PutIs DEF ChannelsInv
  <2> QED  BY <1>1, <2>2
<1>5. CASE UserStep
  <2>1. ASSUME NEW x \in QueuingPort \ Source, Get(x) PROVE FALSE
    BY <1>3, <2>1, GetFits DEF ChannelsInv
  <2> QED  BY <1>2, <1>4, <1>5, <2>1 DEF UserStep, UserRing
<1>6. CASE PeekQueuing \/ StopQUEUINGPORTS \/ StartQUEUINGPORTS
  BY <1>2, <1>6 DEF PeekQueuing, StopQUEUINGPORTS, StartQUEUINGPORTS, queuingVars
<1>7. CASE TakeQueuing
  <2>1. QueuingTurn.source \in QueuingPort \cap Source
    BY <1>7, QueuingTable DEF TakeQueuing, StaticInv, QueuingTurns, QueuingTurn
  <2> QED  BY <1>2, <1>3, <1>7, <2>1 DEF TakeQueuing, RECEIVE_PARTITION_QUEUING_MESSAGE, queuingVars
<1>8. CASE SendOn
  <2>1. PICK d \in DOMAIN QueuingChannels :
          /\ d = queuingIO.turn
          /\ \A x \in QueuingPort \ {QueuingChannels[d].destination} : ring'[x] = ring[x]
          /\ arrived' = [arrived EXCEPT ![d] = First(d)]
    BY <1>2, <1>8, SendIs
  <2>2. d = c
    BY <1>1, <2>1, ChannelsDiffer
  <2>3. arrived'[c] = First(c)
    BY <2>1, <2>2 DEF ChannelsInv, Rings
  <2>4. queuingIO.at = "send"
    BY <1>8 DEF SendOn
  <2> QED  BY <2>3, <2>4 DEF First, PassedOn
<1> QED  BY <1>5, <1>6, <1>7, <1>8, NextParts


-----------------------------------------------------------------------------
(* With one process a port nobody finds a port different from what he was  *)
(* granted, and ports keep within their capacity.                          *)

\* The application's rule: the processes of a partition that use queuing ports are one.
OneProcessAPort ==
  \A q \in QueuingPort : \A p1, p2 \in Proc : Home[p1] = Home[q] /\ Home[p2] = Home[q] => p1 = p2

\* A process whose wait for q was granted has not returned yet.
Granted(p, q) == wait[p] = "granted" /\ call[p].service # "none" /\ call[p].object = q

\* Who waits is hindered, and who was granted is not and is alone.
PortsInv ==
  \A q \in QueuingPort :
    LET open == IF q \in Source THEN ~ Full(q) ELSE ring[q].count > 0
    IN  /\ queue[q] # <<>> => ~ open
        /\ \A p \in Proc : Granted(p, q) => open

\* Only one process can be in the queue.
LEMMA AloneInQueue ==
  ASSUME OneProcessAPort, QueuesInv, NEW q \in QueuingPort, queue[q] # <<>>
  PROVE  Tail(queue[q]) = <<>>
<1>1. q \in Resource
  BY PortKinds
<1>2. /\ Head(queue[q]) \in Proc /\ Home[Head(queue[q])] = Home[q]
      /\ Tail(queue[q]) \in Seq(Proc)
      /\ \A i \in DOMAIN Tail(queue[q]) :
           Tail(queue[q])[i] # Head(queue[q]) /\ \E j \in DOMAIN queue[q] : Tail(queue[q])[i] = queue[q][j]
  BY <1>1, HeadOf
<1>3. \A j \in DOMAIN queue[q] : queue[q][j] \in Proc /\ Home[queue[q][j]] = Home[q]
  BY <1>1 DEF QueuesInv, QueueInv, Typed, QueuedWaits
<1>4. \A i \in DOMAIN Tail(queue[q]) : FALSE
  BY <1>2, <1>3 DEF OneProcessAPort
<1> QED  BY <1>2, <1>4

\* Whoever a process is granted or waits for at q, it is the only one of its partition.
LEMMA NobodyElse ==
  ASSUME OneProcessAPort, QueuesInv, NEW q \in QueuingPort,
         NEW p \in Proc, Home[p] = Home[q], wait[p] \notin Waits
  PROVE  /\ queue[q] = <<>>
         /\ \A x \in Proc : Granted(x, q) => x = p
<1>1. q \in Resource
  BY PortKinds
<1>2. queue[q] # <<>> => Head(queue[q]) \in Proc /\ Home[Head(queue[q])] = Home[q] /\ wait[Head(queue[q])] \in Waits
  BY <1>1, HeadOf
<1>3. \A x \in Proc : Granted(x, q) => Home[x] = Home[q]
  BY DEF Granted, QueuesInv, InPlace
<1> QED  BY <1>2, <1>3 DEF OneProcessAPort

\* Where nobody comes to wait and nobody is granted anything.
LEMMA QuietPorts ==
  ASSUME PortsInv,
         \A q \in QueuingPort :
           /\ ring'[q].count = ring[q].count
           /\ queue'[q] # <<>> => queue[q] # <<>>
           /\ \A p \in Proc : Granted(p, q)' => Granted(p, q)
  PROVE  PortsInv'
BY DEF PortsInv, Full

\* What PassOn does: who waited is granted, and nobody waits any more.
LEMMA PassOnPorts ==
  ASSUME OneProcessAPort, QueuesInv, NEW q \in QueuingPort, PassOn(q)
  PROVE  /\ queue'[q] = <<>> /\ \A x \in QueuingPort \ {q} : queue'[x] = queue[x]
         /\ \A x \in QueuingPort \ {q} : \A p \in Proc : Granted(p, x)' => Granted(p, x)
         /\ queue[q] = <<>> => \A p \in Proc : Granted(p, q)' => Granted(p, q)
<1>1. CASE queue[q] = <<>>
  BY <1>1 DEF PassOn, objectVars, Granted
<1>2. CASE queue[q] # <<>>
  <2>1. q \in Resource
    BY PortKinds
  <2>2. /\ wait' = [wait EXCEPT ![Head(queue[q])] = "granted"]
        /\ queue' = [queue EXCEPT ![q] = Tail(@)] /\ call' = call
    BY <1>2 DEF PassOn, Signal
  <2>3. queue'[q] = <<>> /\ \A x \in QueuingPort \ {q} : queue'[x] = queue[x]
    BY <1>2, <2>1, <2>2, AloneInQueue, PortKinds DEF QueuesInv, QueueInv, Typed
  <2>4. call[Head(queue[q])].object = q
    BY <1>2, <2>1, HeadOf
  <2>5. \A p \in Proc : p # Head(queue[q]) => wait'[p] = wait[p]
    BY <2>2 DEF QueuesInv, QueueInv, Typed
  <2> QED  BY <1>2, <2>2, <2>3, <2>4, <2>5 DEF Granted
<1> QED  BY <1>1, <1>2

\* A process that was granted returns, and nobody else waits.
LEMMA ReturnPorts ==
  ASSUME OneProcessAPort, QueuesInv, NEW p \in Proc, NEW q \in QueuingPort,
         call[p].service # "none", call[p].object = q, ReturnAndPassOn(p, q)
  PROVE  /\ Granted(p, q) /\ queue[q] = <<>> /\ UNCHANGED queue
         /\ \A x \in Proc : ~ Granted(x, q)'
         /\ \A r \in QueuingPort \ {q} : \A x \in Proc : Granted(x, r)' => Granted(x, r)
<1>1. wait[p] = "granted" /\ call' = [call EXCEPT ![p] = NoCall] /\ Home[p] = Home[q]
  BY DEF ReturnAndPassOn, QueuesInv, InPlace
<1>2. queue[q] = <<>> /\ \A x \in Proc : Granted(x, q) => x = p
  BY <1>1, NobodyElse DEF Waits
<1>3. wait' = [wait EXCEPT ![p] = "none"] /\ UNCHANGED queue
  BY <1>2 DEF ReturnAndPassOn
<1>4. \A x \in Proc : \A r \in QueuingPort : Granted(x, r)' => x # p /\ Granted(x, r)
  BY <1>1, <1>3 DEF Granted, QueuesInv, QueueInv, Typed
<1> QED  BY <1>1, <1>2, <1>3, <1>4 DEF Granted


\* Nobody comes to wait and nobody is granted anything when waits end otherwise.
EndsWaits ==
  \/ \E r \in QueuingPort \cup SamplingPort : Create(r)
  \/ \E p \in Proc : Comeback(p) /\ UNCHANGED <<normal, objects>>
  \/ Ends
  \/ UNCHANGED objectVars

LEMMA EndsPorts ==
  ASSUME QueuesInv, QueuesInv', EndsWaits
  PROVE  \A q \in QueuingPort :
           /\ queue'[q] # <<>> => queue[q] # <<>>
           /\ \A p \in Proc : Granted(p, q)' => Granted(p, q)
<1>1. Typed(Calls) /\ Typed(Calls)' /\ QueueInv(Calls) /\ NoCall \in Calls
  BY NoCallIsOne DEF QueuesInv, QueueInv
<1>2. ASSUME \A r \in Resource : Kept(r)
      PROVE  \A q \in QueuingPort : queue'[q] # <<>> => queue[q] # <<>>
  BY <1>1, <1>2, KeptEmpty, PortKinds
<1>3. CASE UNCHANGED <<queue, wait, call>>
  BY <1>3 DEF Granted
<1>4. ASSUME NEW p \in Proc, Comeback(p)
      PROVE  UNCHANGED queue /\ \A x \in Proc, q \in QueuingPort : Granted(x, q)' => Granted(x, q)
  BY <1>1, <1>4 DEF Comeback, Return, Granted, Typed
<1>5. ASSUME NEW p \in Proc, Halt(p)
      PROVE  /\ \A r \in Resource : Kept(r)
             /\ \A x \in Proc, q \in QueuingPort : Granted(x, q)' => Granted(x, q)
  BY <1>1, <1>5, HaltQueues DEF Halt, Stop, Granted, Typed
<1>6. ASSUME NEW p \in Proc, TimeOut(p)
      PROVE  /\ \A r \in Resource : Kept(r)
             /\ \A x \in Proc, q \in QueuingPort : Granted(x, q)' => Granted(x, q)
  BY <1>1, <1>6, TimeOutQueues DEF TimeOut, Expire, Granted, Typed
<1>7. ASSUME NEW p \in Proc, NEW r \in Resource, SetPriority(p, r)
      PROVE  /\ \A x \in Resource : Kept(x)
             /\ \A x \in Proc, q \in QueuingPort : Granted(x, q)' => Granted(x, q)
  BY <1>1, <1>7, SetPriorityQueues DEF SetPriority, Move, Granted, Typed
<1>8. ASSUME NEW P \in Partition, Restart(P)
      PROVE  /\ \A r \in Resource : Kept(r)
             /\ \A x \in Proc, q \in QueuingPort : Granted(x, q)' => Granted(x, q)
  BY <1>1, <1>8, RestartQueues DEF Restart, StopAll, Granted, Typed, ProcessesOf
<1>9. \A r \in used : r \in Resource
  BY PortKinds DEF QueuesInv, Members
<1> QED  BY <1>2, <1>3, <1>4, <1>5, <1>6, <1>7, <1>8, <1>9
         DEF EndsWaits, Ends, Create, SetNormal, waitVars, objectVars

LEMMA ServicePorts ==
  ASSUME OneProcessAPort, StaticInv, StaticInv', Rings, PortsInv, QueuingPortServices
  PROVE  RingMove /\ PortsInv'
<1> USE DEF StaticInv
<1>1. ASSUME EndsWaits, UNCHANGED queuingVars PROVE RingMove /\ PortsInv'
  BY <1>1, EndsPorts, QuietPorts DEF queuingVars, RingMove
<1>2. ASSUME NEW q \in QueuingPort, CREATE_QUEUING_PORT(q) PROVE RingMove /\ PortsInv'
  BY <1>1, <1>2 DEF CREATE_QUEUING_PORT, EndsWaits
<1>3. ASSUME NEW p \in Proc, NEW q \in QueuingPort, NEW kind \in Waits, NEW c,
             MayCall(p, q), Block(p, q, kind, c), UNCHANGED queuingVars,
             IF q \in Source THEN Full(q) ELSE ~ (ring[q].count > 0)
      PROVE  RingMove /\ PortsInv'
  <2>1. q \in Resource
    BY PortKinds
  <2>2. /\ \A x \in QueuingPort \ {q} : queue'[x] = queue[x]
        /\ \A x \in Proc, r \in QueuingPort : Granted(x, r)' => Granted(x, r)
    BY <1>3, <2>1 DEF Block, Wait, Granted, QueuesInv, QueueInv, Typed, Waits
  <2>3. \A x \in Proc : ~ Granted(x, q)
    BY <1>3, NobodyElse DEF MayCall, Waits, Granted
  <2> QED  BY <1>3, <2>2, <2>3 DEF queuingVars, RingMove, PortsInv, Full
<1>4. ASSUME NEW q \in QueuingPort, UNCHANGED <<wait, call>>, queue'[q] = <<>>,
             \A x \in QueuingPort \ {q} : queue'[x] = queue[x] /\ ring'[x] = ring[x],
             \A x \in Proc : ~ Granted(x, q)
      PROVE  PortsInv'
  BY <1>4 DEF PortsInv, Granted, Full
<1>5. ASSUME NEW p \in Proc, NEW q \in QueuingPort, NEW kind \in Waits, SEND_QUEUING_MESSAGE(p, q, kind)
      PROVE  RingMove /\ PortsInv'
  <2>1. q \in QueuingPort \cap Source /\ MayCall(p, q)
    BY <1>5 DEF SEND_QUEUING_MESSAGE
  <2>2. CASE ~ Full(q) /\ queue[q] = <<>> /\ Accept(q) /\ UNCHANGED <<objectVars, overflow, delivered>>
    <3>1. ring[q].count < MaxNbMessage[q]
      BY <2>2, RingOf DEF Full
    <3>2. \A x \in QueuingPort \ {q} : ring'[x] = ring[x]
      BY <2>1, <2>2, <3>1, PutIs DEF Accept, Rings
    <3>3. \A x \in Proc : ~ Granted(x, q)
      BY <2>1, NobodyElse DEF MayCall, Waits, Granted
    <3> QED  BY <1>4, <2>1, <2>2, <3>1, <3>2, <3>3 DEF RingMove, objectVars
  <2>3. CASE (Full(q) \/ queue[q] # <<>>) /\ Block(p, q, kind, Sending(q)) /\ UNCHANGED queuingVars
    <3>1. Full(q)
      BY <2>1, <2>3 DEF PortsInv
    <3> QED  BY <1>3, <2>1, <2>3, <3>1
  <2> QED  BY <1>5, <2>2, <2>3 DEF SEND_QUEUING_MESSAGE
<1>6. ASSUME NEW p \in Proc, NEW q \in QueuingPort, NEW kind \in Waits, RECEIVE_QUEUING_MESSAGE(p, q, kind)
      PROVE  RingMove /\ PortsInv'
  <2>1. q \in QueuingPort \ Source /\ MayCall(p, q)
    BY <1>6 DEF RECEIVE_QUEUING_MESSAGE
  <2>2. CASE ring[q].count > 0 /\ Get(q) /\ UNCHANGED <<objectVars, accepted>>
    <3>1. \A x \in QueuingPort \ {q} : ring'[x] = ring[x]
      BY <2>2, GetIs
    <3>2. queue[q] = <<>> /\ \A x \in Proc : ~ Granted(x, q)
      BY <2>1, NobodyElse DEF MayCall, Waits, Granted
    <3> QED  BY <1>4, <2>1, <2>2, <3>1, <3>2 DEF RingMove, objectVars
  <2>3. CASE ring[q].count = 0 /\ Block(p, q, kind, Receiving(q)) /\ UNCHANGED queuingVars
    BY <1>3, <2>1, <2>3
  <2> QED  BY <1>6, <2>2, <2>3 DEF RECEIVE_QUEUING_MESSAGE
<1>7. ASSUME NEW p \in Proc, NEW q \in QueuingPort, call[p].service # "none", call[p].object = q,
             ReturnAndPassOn(p, q), \A x \in QueuingPort \ {q} : ring'[x] = ring[x]
      PROVE  PortsInv'
  <2>1. /\ queue[q] = <<>> /\ UNCHANGED queue
        /\ \A x \in Proc : ~ Granted(x, q)'
        /\ \A r \in QueuingPort \ {q} : \A x \in Proc : Granted(x, r)' => Granted(x, r)
    BY <1>7, ReturnPorts
  <2> QED  BY <1>7, <2>1 DEF PortsInv, Full
<1>8. ASSUME NEW p \in Proc, SendReturns(p)
      PROVE  RingMove /\ PortsInv'
  <2>1. PICK q \in QueuingPort \cap Source : q = call[p].object
    BY <1>8 DEF SendReturns, QueuesInv, QueueInv, Typed, Calls
  <2>2. CASE Accept(q) /\ ReturnAndPassOn(p, q) /\ UNCHANGED <<overflow, delivered>>
    <3>1. Granted(p, q)
      BY <1>8, <2>1, <2>2 DEF SendReturns, Granted, ReturnAndPassOn
    <3>2. ring[q].count < MaxNbMessage[q]
      BY <3>1, RingOf DEF PortsInv, Full
    <3>3. \A x \in QueuingPort \ {q} : ring'[x] = ring[x]
      BY <2>2, <3>2, PutIs DEF Accept, Rings
    <3> QED  BY <1>7, <1>8, <2>1, <2>2, <3>2, <3>3 DEF RingMove, SendReturns
  <2>3. CASE Comeback(p) /\ UNCHANGED <<normal, objects, queuingVars>>
    BY <1>1, <2>3 DEF EndsWaits
  <2> QED  BY <1>8, <2>1, <2>2, <2>3 DEF SendReturns
<1>9. ASSUME NEW p \in Proc, ReceiveReturns(p)
      PROVE  RingMove /\ PortsInv'
  <2>1. PICK q \in QueuingPort \ Source : q = call[p].object
    BY <1>9 DEF ReceiveReturns, QueuesInv, QueueInv, Typed, Calls
  <2>2. CASE Get(q) /\ ReturnAndPassOn(p, q) /\ UNCHANGED <<overflow, accepted>>
    <3>1. Granted(p, q)
      BY <1>9, <2>1, <2>2 DEF ReceiveReturns, Granted, ReturnAndPassOn
    <3>2. ring[q].count > 0
      BY <3>1 DEF PortsInv
    <3>3. \A x \in QueuingPort \ {q} : ring'[x] = ring[x]
      BY <2>2, <3>2, GetIs
    <3> QED  BY <1>7, <1>9, <2>1, <2>2, <3>2, <3>3 DEF RingMove, ReceiveReturns
  <2>3. CASE Comeback(p) /\ UNCHANGED <<normal, objects, queuingVars>>
    BY <1>1, <2>3 DEF EndsWaits
  <2> QED  BY <1>9, <2>1, <2>2, <2>3 DEF ReceiveReturns
<1> QED  BY <1>2, <1>5, <1>6, <1>8, <1>9 DEF QueuingPortServices


\* The I/O partition lets a port be open and signals who waits for it.
LEMMA OpenPorts ==
  ASSUME OneProcessAPort, QueuesInv, PortsInv, NEW q \in QueuingPort, PassOn(q),
         \A x \in QueuingPort \ {q} : ring'[x] = ring[x],
         IF q \in Source THEN ~ (ring'[q].count >= MaxNbMessage[q]) ELSE ring'[q].count > 0
  PROVE  PortsInv'
<1>1. /\ queue'[q] = <<>> /\ \A x \in QueuingPort \ {q} : queue'[x] = queue[x]
      /\ \A x \in QueuingPort \ {q} : \A p \in Proc : Granted(p, x)' => Granted(p, x)
  BY PassOnPorts
<1> QED  BY <1>1 DEF PortsInv, Full

LEMMA IOPorts ==
  ASSUME OneProcessAPort, StaticInv, StaticInv', Rings, PortsInv, QUEUINGPORTS
  PROVE  RingMove /\ PortsInv'
<1> USE DEF StaticInv
<1>1. ASSUME UNCHANGED <<objectVars, ring, accepted, delivered>> PROVE RingMove /\ PortsInv'
  BY <1>1, EndsPorts, QuietPorts DEF RingMove, EndsWaits
<1>2. CASE PeekQueuing
  BY <1>1, <1>2 DEF PeekQueuing, queuingVars
<1>3. CASE SendOn
  <2>1. PICK q \in QueuingPort \ Source : q = QueuingTurn.destination
    BY <1>3, QueuingTable DEF SendOn, QueuingTurn, QueuingTurns
  <2>2. CASE SEND_PARTITION_QUEUING_MESSAGE(q, queuingIO.message) /\ ~ Full(q)
    <3>1. /\ Put(q, queuingIO.message) /\ PassOn(q) /\ UNCHANGED <<accepted, delivered>>
          /\ queuingIO.message \in Message \cup {None} /\ queuingIO.at = "send"
      BY <1>3, <2>2 DEF SEND_PARTITION_QUEUING_MESSAGE, SendOn, Rings
    <3>2. ring[q].count < MaxNbMessage[q] /\ ring[q].count \in Nat
      BY <2>2, RingOf DEF Full
    <3>3. ring'[q].count = ring[q].count + 1 /\ \A x \in QueuingPort \ {q} : ring'[x] = ring[x]
      BY <3>1, <3>2, PutIs
    <3>4. ring'[q].count > 0
      BY <3>2, <3>3
    <3> QED  BY <2>1, <3>1, <3>2, <3>3, <3>4, OpenPorts DEF RingMove
  <2>3. CASE UNCHANGED <<objectVars, ring, accepted, delivered>>
    BY <1>1, <2>3
  <2> QED  BY <1>3, <2>1, <2>2, <2>3 DEF SendOn, SEND_PARTITION_QUEUING_MESSAGE, queuingVars
<1>4. CASE TakeQueuing
  <2>1. PICK q \in QueuingPort \cap Source : q = QueuingTurn.source
    BY <1>4, QueuingTable DEF TakeQueuing, QueuingTurn, QueuingTurns
  <2>2. CASE RECEIVE_PARTITION_QUEUING_MESSAGE(q)
    <3>1. Get(q) /\ PassOn(q) /\ ring[q].count > 0 /\ UNCHANGED accepted
      BY <2>2 DEF RECEIVE_PARTITION_QUEUING_MESSAGE, Available
    <3>2. ring'[q].count = ring[q].count - 1 /\ \A x \in QueuingPort \ {q} : ring'[x] = ring[x]
      BY <3>1, GetIs
    <3>3. ~ (ring'[q].count >= MaxNbMessage[q])
      BY <3>1, <3>2, RingOf
    <3> QED  BY <3>1, <3>2, <3>3, OpenPorts DEF RingMove
  <2>3. CASE UNCHANGED <<objectVars, queuingVars>>
    BY <1>1, <2>3 DEF queuingVars
  <2> QED  BY <1>4, <2>1, <2>2, <2>3 DEF TakeQueuing
<1> QED  BY <1>2, <1>3, <1>4 DEF QUEUINGPORTS

LEMMA PortsStep ==
  ASSUME OneProcessAPort, StaticInv, Rings, PortsInv, [Next]_vars
  PROVE  RingMove /\ PortsInv'
<1>1. StaticInv'
  BY StepStatic
<1>2. ASSUME EndsWaits, UNCHANGED queuingVars PROVE RingMove /\ PortsInv'
  BY <1>1, <1>2, EndsPorts, QuietPorts DEF queuingVars, RingMove, StaticInv
<1>3. CASE UNCHANGED vars
  BY <1>2, <1>3 DEF vars, EndsWaits
<1>4. CASE QueuingNext
  BY <1>1, <1>2, <1>4, IOPorts, ServicePorts
     DEF QueuingNext, EndsWaits, StopQUEUINGPORTS, StartQUEUINGPORTS
<1>5. CASE SamplingNext
  <2>1. UNCHANGED queuingVars
    BY <1>5 DEF SamplingNext
  <2>2. EndsWaits
    <3>1. CASE SamplingPortServices
      BY <3>1 DEF SamplingPortServices, CREATE_SAMPLING_PORT, WRITE_SAMPLING_MESSAGE,
           READ_SAMPLING_MESSAGE, EndsWaits
    <3>2. CASE SAMPLINGPORTS \/ StopSAMPLINGPORTS \/ StartSAMPLINGPORTS \/ Tick \/ Ends
      BY <3>2 DEF SAMPLINGPORTS, PeekSampling, WriteOn, TakeSampling, StopSAMPLINGPORTS,
           StartSAMPLINGPORTS, Tick, WRITE_PARTITION_SAMPLING_MESSAGE,
           READ_PARTITION_SAMPLING_MESSAGE, EndsWaits
    <3> QED  BY <1>5, <3>1, <3>2 DEF SamplingNext
  <2> QED  BY <1>2, <2>1, <2>2
<1> QED  BY <1>3, <1>4, <1>5 DEF Next

\* What a step does to the rings leaves them within their capacity.
LEMMA MoveFits ==
  ASSUME StaticInv, Rings, RingMove
  PROVE  WithinCapacity'
<1> SUFFICES ASSUME NEW q \in QueuingPort PROVE ring'[q].count <= MaxNbMessage[q]
  BY DEF WithinCapacity
<1>1. ring'[q] \in Ring(MaxNbMessage[q], Message \cup {None}) /\ MaxNbMessage[q] \in Nat
  BY MoveIs, QueuingPortsAssumption
<1> QED  BY <1>1 DEF Ring

LEMMA InitPorts == Init => PortsInv /\ WithinCapacity
<1> SUFFICES ASSUME Init PROVE PortsInv /\ WithinCapacity
  OBVIOUS
<1>1. \A q \in QueuingPort : queue[q] = <<>> /\ ring[q].count = 0
  BY PortKinds DEF Init, ObjectsInit, WaitInit, QueuingPortsInit, EmptyRing
<1>2. \A p \in Proc, q \in QueuingPort : ~ Granted(p, q)
  BY DEF Init, ObjectsInit, WaitInit, Granted
<1> QED  BY <1>1, <1>2, QueuingPortsAssumption DEF PortsInv, WithinCapacity

PortsInvs == StaticInv /\ ChannelsInv /\ PortsInv /\ WithinCapacity

LEMMA SpecPorts ==
  ASSUME OneProcessAPort
  PROVE  Spec => []PortsInvs
<1>1. Init => PortsInvs
  BY InitStatic, InitChannels, InitPorts DEF PortsInvs
<1>2. PortsInvs /\ [Next]_vars => PortsInvs'
  <2> SUFFICES ASSUME PortsInvs, [Next]_vars PROVE PortsInvs'
    OBVIOUS
  <2>1. RingMove /\ PortsInv' /\ StaticInv'
    BY PortsStep, StepStatic DEF PortsInvs, ChannelsInv
  <2>2. WithinCapacity'
    BY <2>1, MoveFits DEF PortsInvs, ChannelsInv
  <2>3. ChannelsInv'
    BY <2>2, ChannelsStep DEF PortsInvs
  <2> QED  BY <2>1, <2>2, <2>3 DEF PortsInvs
<1> QED  BY <1>1, <1>2, PTL DEF Spec

\* With one process a port, no port ever holds more messages than it has places, and a
\* granted receiver finds its message, although neither looks at MESSAGE_COUNT again.
THEOREM OneProcessKeepsCapacity ==
  ASSUME OneProcessAPort
  PROVE  Spec => []WithinCapacity
<1>1. PortsInvs => WithinCapacity
  BY DEF PortsInvs
<1> QED  BY <1>1, SpecPorts, PTL

\* With one process a port, it waits to send only while the port is full and to receive
\* only while it is empty, over time-outs, stops and restarts on either side.
THEOREM OneProcessWaitsJustly ==
  ASSUME OneProcessAPort
  PROVE  Spec => []WaitsOnlyIfBlocked
<1>1. PortsInvs => WaitsOnlyIfBlocked
  <2> SUFFICES ASSUME PortsInvs, NEW q \in QueuingPort, queue[q] # <<>>
               PROVE  IF q \in Source THEN Full(q) ELSE ring[q].count = 0
    BY DEF WaitsOnlyIfBlocked
  <2>1. ring[q].count \in Nat
    BY RingOf, QueuingPortsAssumption DEF PortsInvs, ChannelsInv
  <2> QED  BY <2>1 DEF PortsInvs, PortsInv
<1> QED  BY <1>1, SpecPorts, PTL


-----------------------------------------------------------------------------
(* The sampling ports: what they keep, and how far a message has come.     *)

Samples ==
  /\ now \in 0..MaxTime /\ written \in 0..MaxWrites
  /\ sample \in [SamplingPort ->
       [message : 0..MaxWrites, LAST_READ : {Infinite} \cup 0..now,
        LAST_WRITE : {Infinite} \cup 0..now, LAST_VALIDITY : {"VALID", "INVALID"}]]
  /\ peeked \in [DOMAIN SamplingChannels -> 0..MaxWrites]

From(c) == SamplingChannels[c].source
To(c, i) == SamplingChannels[c].destinations[i]

\* What a source has and its destinations have got: numbers only grow.
InTurn ==
  /\ \A s \in SamplingSource :
       /\ sample[s].message <= written
       /\ sample[s].LAST_WRITE = Infinite => sample[s].message = Empty /\ sample[s].LAST_READ = Infinite
  /\ \A c \in DOMAIN SamplingChannels :
       /\ peeked[c] <= sample[From(c)].message
       /\ \A i \in DOMAIN SamplingChannels[c].destinations : sample[To(c, i)].message <= peeked[c]

\* The pass of SAMPLINGPORTS over a channel: which destinations have the message, and that
\* it is not one they have had, unless a pass was broken off.
Passing ==
  LET c == samplingIO.turn
  IN  /\ samplingIO.at = "write" =>
           /\ ~ Taken(From(c)) /\ samplingIO.message = peeked[c]
           /\ \A i \in DOMAIN SamplingChannels[c].destinations :
                /\ samplingIO.COMPLETED /\ i < samplingIO.to => sample[To(c, i)].message = peeked[c]
                /\ i >= samplingIO.to /\ sample[To(c, i)].message = peeked[c] =>
                     SamplingChannels[c] \in unfinished
      /\ samplingIO.at = "take" =>
           /\ ~ Taken(From(c))
           /\ \A i \in DOMAIN SamplingChannels[c].destinations : sample[To(c, i)].message = peeked[c]

Busy(c) == samplingIO.at \in {"write", "take"} /\ samplingIO.turn = c

\* A destination that has the source's message got it in this pass, in one that was broken
\* off, or before the source was read.
HasItWhy ==
  \A c \in DOMAIN SamplingChannels : \A i \in DOMAIN SamplingChannels[c].destinations :
    sample[To(c, i)].message = sample[From(c)].message /\ sample[From(c)].message # Empty =>
      Taken(From(c)) \/ SamplingChannels[c] \in unfinished \/ Busy(c)

SamplingInv == Samples /\ InTurn /\ Passing /\ HasItWhy /\ TakenMeansArrived

LEMMA PortOf ==
  ASSUME NEW c \in DOMAIN SamplingChannels
  PROVE  /\ From(c) \in SamplingSource /\ From(c) \in SamplingPort
         /\ \A i \in DOMAIN SamplingChannels[c].destinations :
              To(c, i) \in SamplingPort \ SamplingSource /\ i \in Nat \ {0}
         /\ SamplingChannels[c] \notin {QueuingChannels[d] : d \in DOMAIN QueuingChannels}
<1>1. /\ From(c) \in SamplingSource
      /\ SamplingChannels[c].destinations \in Seq(SamplingPort \ SamplingSource)
  BY SamplingTable DEF From
<1>2. From(c) \in SamplingPort /\ From(c) \notin QueuingPort
  BY <1>1, PortKinds
<1> QED  BY <1>1, <1>2, QueuingTable DEF From, To

\* Ports are connected once.
LEMMA PortsDiffer ==
  ASSUME NEW c \in DOMAIN SamplingChannels, NEW d \in DOMAIN SamplingChannels, c # d
  PROVE  /\ From(c) # From(d) /\ SamplingChannels[c] # SamplingChannels[d]
         /\ \A i \in DOMAIN SamplingChannels[c].destinations,
               j \in DOMAIN SamplingChannels[d].destinations : To(c, i) # To(d, j)
BY ConnectionTable DEF From, To

LEMMA PlacesDiffer ==
  ASSUME NEW c \in DOMAIN SamplingChannels,
         NEW i \in DOMAIN SamplingChannels[c].destinations,
         NEW j \in DOMAIN SamplingChannels[c].destinations, i # j
  PROVE  To(c, i) # To(c, j)
BY ConnectionTable DEF To

LEMMA SampleOf ==
  ASSUME Samples, NEW s \in SamplingPort
  PROVE  /\ sample[s].message \in 0..MaxWrites /\ sample[s].message \in Nat
         /\ sample[s].LAST_READ \in {Infinite} \cup 0..now
         /\ sample[s].LAST_WRITE \in {Infinite} \cup 0..now
         /\ now \in Nat /\ MaxTime \in Nat /\ MaxWrites \in Nat /\ written \in Nat
BY SamplingPortsAssumption DEF Samples

\* What the step of another leaves as it is.
SamplesKept ==
  /\ Samples' /\ UNCHANGED <<samplingIO, peeked>> /\ written' = written
  /\ \A c \in DOMAIN SamplingChannels :
       SamplingChannels[c] \in unfinished' <=> SamplingChannels[c] \in unfinished
  /\ \A s \in SamplingPort : sample'[s].message = sample[s].message
  /\ \A s \in SamplingSource :
       sample'[s].LAST_READ = sample[s].LAST_READ /\ sample'[s].LAST_WRITE = sample[s].LAST_WRITE

LEMMA KeptSampling ==
  ASSUME SamplingInv, SamplingTurns, SamplesKept
  PROVE  SamplingInv'
<1>1. \A c \in DOMAIN SamplingChannels :
        /\ sample'[From(c)].message = sample[From(c)].message
        /\ Taken(From(c))' = Taken(From(c))
        /\ \A i \in DOMAIN SamplingChannels[c].destinations :
             sample'[To(c, i)].message = sample[To(c, i)].message
  BY PortOf DEF SamplesKept, Taken
<1>2. UNCHANGED <<samplingIO, peeked>>
  BY DEF SamplesKept
<1>3. InTurn'
  BY <1>1, <1>2, PortKinds DEF SamplesKept, SamplingInv, InTurn, From, To
<1>4. Passing'
  BY <1>1, <1>2 DEF SamplesKept, SamplingInv, Passing, SamplingTurns, From, To, Taken
<1>5. HasItWhy'
  BY <1>1, <1>2 DEF SamplesKept, SamplingInv, HasItWhy, Busy, From, To
<1>6. TakenMeansArrived'
  BY <1>1, <1>2 DEF SamplingInv, TakenMeansArrived, From, To
<1> QED  BY <1>3, <1>4, <1>5, <1>6 DEF SamplesKept, SamplingInv


\* The clock goes on: what was typed by the time now is by the time then.
LEMMA TickKeepsSamples ==
  ASSUME Samples, Tick, UNCHANGED <<samplingIO, peeked, unfinished>>
  PROVE  SamplesKept
<1>1. now' = now + 1 /\ now' \in 0..MaxTime /\ UNCHANGED <<sample, written>>
  BY SamplingPortsAssumption DEF Tick, Samples
<1>2. \A s \in SamplingPort :
        sample[s] \in [message : 0..MaxWrites, LAST_READ : {Infinite} \cup 0..now',
                       LAST_WRITE : {Infinite} \cup 0..now', LAST_VALIDITY : {"VALID", "INVALID"}]
  <2> TAKE s \in SamplingPort
  <2>1. sample[s] \in [message : 0..MaxWrites, LAST_READ : {Infinite} \cup 0..now,
                       LAST_WRITE : {Infinite} \cup 0..now, LAST_VALIDITY : {"VALID", "INVALID"}]
    BY DEF Samples
  <2>2. 0..now \subseteq 0..now'
    BY <1>1 DEF Samples
  <2> QED  BY <2>1, <2>2
<1> QED  BY <1>1, <1>2 DEF Samples, SamplesKept

LEMMA ReadKeepsSamples ==
  ASSUME Samples, NEW s \in SamplingPort, READ_SAMPLING_MESSAGE(s),
         UNCHANGED <<samplingIO, peeked, unfinished>>
  PROVE  SamplesKept
<1>1. s \notin SamplingSource /\ UNCHANGED <<now, written>>
  BY DEF READ_SAMPLING_MESSAGE
<1>2. PICK v \in {"VALID", "INVALID"} :
        sample' = [sample EXCEPT ![s] =
          IF @.message = Empty THEN [@ EXCEPT !.LAST_VALIDITY = "INVALID"]
          ELSE [@ EXCEPT !.LAST_READ = now, !.LAST_VALIDITY = v]]
  BY DEF READ_SAMPLING_MESSAGE
<1>3. sample[s] \in [message : 0..MaxWrites, LAST_READ : {Infinite} \cup 0..now,
                     LAST_WRITE : {Infinite} \cup 0..now, LAST_VALIDITY : {"VALID", "INVALID"}]
  BY DEF Samples
<1>4. /\ sample'[s] = IF sample[s].message = Empty THEN [sample[s] EXCEPT !.LAST_VALIDITY = "INVALID"]
                      ELSE [sample[s] EXCEPT !.LAST_READ = now, !.LAST_VALIDITY = v]
      /\ \A x \in SamplingPort \ {s} : sample'[x] = sample[x]
      /\ sample' = [x \in SamplingPort |-> sample'[x]]
  BY <1>2 DEF Samples
<1>5. now \in {Infinite} \cup 0..now
  BY DEF Samples
<1>6. /\ sample'[s] \in [message : 0..MaxWrites, LAST_READ : {Infinite} \cup 0..now,
                         LAST_WRITE : {Infinite} \cup 0..now, LAST_VALIDITY : {"VALID", "INVALID"}]
      /\ sample'[s].message = sample[s].message
  BY <1>3, <1>4, <1>5
<1>7. \A x \in SamplingPort : x # s => sample'[x] = sample[x]
  BY <1>4
<1>8. Samples'
  BY <1>1, <1>4, <1>6 DEF Samples
<1>9. \A x \in SamplingSource : sample'[x] = sample[x]
  BY <1>1, <1>7, PortKinds
<1> QED  BY <1>1, <1>6, <1>7, <1>8, <1>9 DEF SamplesKept

\* WriteInto changes a message and its time.
LEMMA WriteIs ==
  ASSUME Samples, NEW s \in SamplingPort, NEW m \in 0..MaxWrites, WriteInto(s, m), UNCHANGED now
  PROVE  /\ sample'[s].message = m /\ sample'[s].LAST_WRITE = now
         /\ sample'[s].LAST_READ = sample[s].LAST_READ
         /\ \A x \in SamplingPort : x # s => sample'[x] = sample[x]
         /\ sample' \in [SamplingPort ->
              [message : 0..MaxWrites, LAST_READ : {Infinite} \cup 0..now',
               LAST_WRITE : {Infinite} \cup 0..now', LAST_VALIDITY : {"VALID", "INVALID"}]]
<1>1. sample[s] \in [message : 0..MaxWrites, LAST_READ : {Infinite} \cup 0..now,
                     LAST_WRITE : {Infinite} \cup 0..now, LAST_VALIDITY : {"VALID", "INVALID"}]
  BY DEF Samples
<1>2. /\ sample'[s] = [sample[s] EXCEPT !.message = m, !.LAST_WRITE = now]
      /\ \A x \in SamplingPort : x # s => sample'[x] = sample[x]
      /\ sample' = [x \in SamplingPort |-> sample'[x]]
  BY DEF Samples, WriteInto
<1>3. now \in {Infinite} \cup 0..now
  BY DEF Samples
<1>4. /\ sample'[s].message = m /\ sample'[s].LAST_WRITE = now
      /\ sample'[s].LAST_READ = sample[s].LAST_READ
      /\ sample'[s] \in [message : 0..MaxWrites, LAST_READ : {Infinite} \cup 0..now,
                         LAST_WRITE : {Infinite} \cup 0..now, LAST_VALIDITY : {"VALID", "INVALID"}]
  BY <1>1, <1>2, <1>3
<1> QED  BY <1>2, <1>4 DEF Samples

\* A new message: no destination has it, and one written in the tick of the last reading
\* leaves it open whether the source counts as read.
LEMMA UserWriteKeeps ==
  ASSUME SamplingInv, SamplingTurns, NEW s \in SamplingPort,
         WRITE_SAMPLING_MESSAGE(s), UNCHANGED <<samplingIO, peeked, unfinished>>
  PROVE  SamplingInv'
<1>1. /\ s \in SamplingSource /\ written < MaxWrites /\ written' = written + 1
      /\ WriteInto(s, written + 1) /\ UNCHANGED now
  BY DEF WRITE_SAMPLING_MESSAGE
<1>2. written \in Nat /\ written + 1 \in 0..MaxWrites
  BY <1>1, SamplingPortsAssumption DEF SamplingInv, Samples
<1>3. /\ sample'[s].message = written + 1 /\ sample'[s].LAST_WRITE = now
      /\ sample'[s].LAST_READ = sample[s].LAST_READ
      /\ \A x \in SamplingPort : x # s => sample'[x] = sample[x]
      /\ Samples'
  BY <1>1, <1>2, WriteIs DEF SamplingInv, Samples
<1>4. Taken(s)' => Taken(s)
  <2>1. sample[s].LAST_WRITE = Infinite => sample[s].LAST_READ = Infinite
    BY <1>1 DEF SamplingInv, InTurn
  <2>2. sample[s].LAST_READ \in {Infinite} \cup 0..now /\ sample[s].LAST_WRITE \in {Infinite} \cup 0..now
        /\ now \in Nat
    BY SampleOf DEF SamplingInv
  <2> QED  BY <1>3, <2>1, <2>2 DEF Taken
<1>5. \A c \in DOMAIN SamplingChannels :
        /\ From(c) \in SamplingSource /\ From(c) \in SamplingPort
        /\ \A i \in DOMAIN SamplingChannels[c].destinations :
             /\ To(c, i) \in SamplingPort \ SamplingSource /\ To(c, i) # s
             /\ sample'[To(c, i)].message = sample[To(c, i)].message
  BY <1>1, <1>3, PortOf
<1>6. \A x \in SamplingSource : Taken(x)' => Taken(x)
  BY <1>3, <1>4, PortKinds DEF Taken
<1>7. InTurn'
  <2>1. \A x \in SamplingSource :
          /\ sample'[x].message <= written'
          /\ sample'[x].LAST_WRITE = Infinite => sample'[x].message = Empty /\ sample'[x].LAST_READ = Infinite
    <3> TAKE x \in SamplingSource
    <3>1. /\ sample[x].message <= written /\ sample[x].message \in Nat /\ now \in Nat
          /\ sample[x].LAST_WRITE = Infinite => sample[x].message = Empty /\ sample[x].LAST_READ = Infinite
      BY SampleOf, PortKinds DEF SamplingInv, InTurn
    <3>2. CASE x = s
      BY <1>1, <1>2, <1>3, <3>1, <3>2 DEF Infinite
    <3>3. CASE x # s
      <4>1. sample'[x] = sample[x]
        BY <1>3, <3>3, PortKinds
      <4> QED  BY <1>1, <1>2, <3>1, <4>1
    <3> QED  BY <3>2, <3>3
  <2>2. ASSUME NEW c \in DOMAIN SamplingChannels
        PROVE  /\ peeked[c] <= sample'[From(c)].message
               /\ \A i \in DOMAIN SamplingChannels[c].destinations : sample'[To(c, i)].message <= peeked[c]
    <3>1. /\ peeked[c] <= sample[From(c)].message /\ peeked[c] \in Nat
          /\ sample[From(c)].message <= written /\ sample[From(c)].message \in Nat
      BY <1>5, SampleOf DEF SamplingInv, InTurn, Samples
    <3>2. peeked[c] <= sample'[From(c)].message
      BY <1>2, <1>3, <1>5, <3>1
    <3> QED  BY <1>5, <3>2 DEF SamplingInv, InTurn
  <2> QED  BY <2>1, <2>2 DEF InTurn, From, To
<1>8. Passing'
  <2>1. samplingIO.at # "stopped" => samplingIO.turn \in DOMAIN SamplingChannels
    BY DEF SamplingTurns
  <2> QED  BY <1>5, <1>6, <2>1 DEF SamplingInv, Passing, From, To
<1>9. HasItWhy'
  <2>1. ASSUME NEW c \in DOMAIN SamplingChannels, From(c) # s
        PROVE  sample'[From(c)] = sample[From(c)] /\ Taken(From(c))' = Taken(From(c))
    BY <1>3, <1>5, <2>1 DEF Taken
  <2>2. ASSUME NEW c \in DOMAIN SamplingChannels, From(c) = s,
               NEW i \in DOMAIN SamplingChannels[c].destinations
        PROVE  sample'[To(c, i)].message # sample'[From(c)].message
    <3>1. /\ sample[To(c, i)].message <= peeked[c] /\ peeked[c] <= sample[s].message
          /\ sample[s].message <= written /\ peeked[c] \in Nat
      BY <1>1, <2>2 DEF SamplingInv, InTurn, Samples
    <3>2. sample[To(c, i)].message \in Nat /\ sample[s].message \in Nat
      BY <1>5, SampleOf DEF SamplingInv
    <3> QED  BY <1>2, <1>3, <1>5, <2>2, <3>1, <3>2
  <2>3. \A c \in DOMAIN SamplingChannels : \A i \in DOMAIN SamplingChannels[c].destinations :
          sample'[To(c, i)].message = sample'[From(c)].message /\ sample'[From(c)].message # Empty =>
            Taken(From(c))' \/ SamplingChannels[c] \in unfinished \/ Busy(c)
    BY <1>5, <2>1, <2>2 DEF SamplingInv, HasItWhy
  <2> QED  BY <2>3 DEF HasItWhy, Busy, From, To, Taken
<1>10. TakenMeansArrived'
  BY <1>5, <1>6 DEF SamplingInv, TakenMeansArrived, From, To
<1> QED  BY <1>3, <1>7, <1>8, <1>9, <1>10 DEF SamplingInv


\* A pass begins: a destination that has the message already has it from a pass that was
\* broken off.
LEMMA PeekSamplingKeeps ==
  ASSUME SamplingInv, SamplingTurns, PeekSampling
  PROVE  SamplingInv'
<1>1. /\ samplingIO.at = "look" /\ UNCHANGED <<sample, now, written, unfinished>>
  BY DEF PeekSampling, samplingVars
<1>2. PICK c \in DOMAIN SamplingChannels : c = samplingIO.turn
  BY <1>1 DEF SamplingTurns
<1>3. /\ From(c) \in SamplingSource /\ From(c) \in SamplingPort
      /\ \A i \in DOMAIN SamplingChannels[c].destinations :
           To(c, i) \in SamplingPort \ SamplingSource /\ i \in Nat \ {0}
  BY PortOf
<1>4. \A d \in DOMAIN SamplingChannels : ~ Busy(d)
  BY <1>1 DEF Busy
<1>5. CASE Unread(From(c))
  <2>1. /\ samplingIO' = [at |-> "write", turn |-> c, to |-> 1, COMPLETED |-> TRUE,
                          message |-> sample[From(c)].message]
        /\ peeked' = [peeked EXCEPT ![c] = sample[From(c)].message]
    BY <1>2, <1>5 DEF PeekSampling, SamplingTurn, From
  <2>2. ~ Taken(From(c)) /\ sample[From(c)].message # Empty /\ sample[From(c)].message \in 0..MaxWrites
    BY <1>3, <1>5, SampleOf DEF Unread, SamplingInv
  <2>3. /\ peeked'[c] = sample[From(c)].message /\ peeked' \in [DOMAIN SamplingChannels -> 0..MaxWrites]
        /\ \A d \in DOMAIN SamplingChannels : d # c => peeked'[d] = peeked[d]
    BY <2>1, <2>2 DEF SamplingInv, Samples
  <2>4. /\ samplingIO'.at = "write" /\ samplingIO'.turn = c /\ samplingIO'.to = 1
        /\ samplingIO'.message = sample[From(c)].message
    BY <2>1
  <2>5. Samples'
    BY <1>1, <2>3 DEF SamplingInv, Samples
  <2>6. \A i \in DOMAIN SamplingChannels[c].destinations :
          /\ sample[To(c, i)].message <= sample[From(c)].message
          /\ sample[To(c, i)].message = sample[From(c)].message => SamplingChannels[c] \in unfinished
    <3> TAKE i \in DOMAIN SamplingChannels[c].destinations
    <3>1. sample[To(c, i)].message <= peeked[c] /\ peeked[c] <= sample[From(c)].message
      BY DEF SamplingInv, InTurn
    <3>2. /\ sample[To(c, i)].message \in Nat /\ sample[From(c)].message \in Nat
          /\ peeked[c] \in Nat
      BY <1>3, SampleOf DEF SamplingInv, Samples
    <3>3. sample[To(c, i)].message = sample[From(c)].message => SamplingChannels[c] \in unfinished
      BY <1>4, <2>2 DEF SamplingInv, HasItWhy
    <3> QED  BY <3>1, <3>2, <3>3
  <2>7. InTurn'
    <3>1. \A d \in DOMAIN SamplingChannels :
            /\ peeked'[d] <= sample[From(d)].message
            /\ \A i \in DOMAIN SamplingChannels[d].destinations : sample[To(d, i)].message <= peeked'[d]
      <4>1. sample[From(c)].message <= sample[From(c)].message
        BY <2>2
      <4> QED  BY <2>3, <2>6, <4>1 DEF SamplingInv, InTurn
    <3> QED  BY <1>1, <3>1 DEF SamplingInv, InTurn, From, To
  <2>8. Passing'
    <3>1. \A i \in DOMAIN SamplingChannels[c].destinations :
            /\ ~ (i < 1)
            /\ sample[To(c, i)].message = peeked'[c] => SamplingChannels[c] \in unfinished
      BY <1>3, <2>3, <2>6
    <3>2. ~ Taken(From(c))'
      BY <1>1, <2>2 DEF Taken
    <3> QED  BY <1>1, <2>3, <2>4, <3>1, <3>2 DEF Passing, From, To
  <2>9. HasItWhy'
    BY <1>1, <1>4 DEF SamplingInv, HasItWhy, Busy, From, To, Taken
  <2>10. TakenMeansArrived'
    <3>1. \A d \in DOMAIN SamplingChannels : Taken(From(d)) =>
            \A i \in DOMAIN SamplingChannels[d].destinations : sample[To(d, i)].message = peeked'[d]
      BY <2>2, <2>3 DEF SamplingInv, TakenMeansArrived, From, To
    <3> QED  BY <1>1, <3>1 DEF TakenMeansArrived, From, To, Taken
  <2> QED  BY <2>5, <2>7, <2>8, <2>9, <2>10 DEF SamplingInv
<1>6. CASE ~ Unread(From(c))
  <2>1. /\ samplingIO'.at = "look" /\ UNCHANGED peeked
    BY <1>2, <1>6 DEF PeekSampling, SamplingTurn, From, OnwardSampling, Onward
  <2>2. HasItWhy'
    BY <1>1, <1>4 DEF SamplingInv, HasItWhy, Busy, From, To, Taken
  <2> QED  BY <1>1, <2>1, <2>2 DEF SamplingInv, Samples, InTurn, Passing, TakenMeansArrived, From, To, Taken
<1> QED  BY <1>5, <1>6

\* The message is taken, and all destinations have it; or it is not taken any more.
LEMMA TakeSamplingKeeps ==
  ASSUME SamplingInv, SamplingTurns, TakeSampling
  PROVE  SamplingInv'
<1>1. samplingIO.at = "take" /\ samplingIO'.at = "look" /\ UNCHANGED peeked
  BY DEF TakeSampling, OnwardSampling, Onward
<1>2. PICK c \in DOMAIN SamplingChannels : c = samplingIO.turn
  BY <1>1 DEF SamplingTurns
<1>3. /\ From(c) \in SamplingSource /\ From(c) \in SamplingPort /\ SamplingTurn.source = From(c)
      /\ SamplingTurn = SamplingChannels[c]
  BY <1>2, PortOf DEF SamplingTurn, From
<1>4. \A i \in DOMAIN SamplingChannels[c].destinations : sample[To(c, i)].message = peeked[c]
  BY <1>1, <1>2 DEF SamplingInv, Passing
<1>5. Passing'
  BY <1>1 DEF Passing
<1>6. \A d \in DOMAIN SamplingChannels : d # c => ~ Busy(d)
  BY <1>2 DEF Busy
<1>7. CASE READ_PARTITION_SAMPLING_MESSAGE(From(c)) /\ unfinished' = unfinished \ {SamplingChannels[c]}
  <2> DEFINE s == From(c)
  <2>1. /\ sample' = [sample EXCEPT ![s].LAST_READ = now] /\ UNCHANGED <<now, written>>
        /\ ~ Taken(s) /\ sample[s].message # Empty
    BY <1>7 DEF READ_PARTITION_SAMPLING_MESSAGE, Unread
  <2>2. s \in SamplingPort /\ s \in SamplingSource
    BY <1>3
  <2> HIDE DEF s
  <2>3. sample[s] \in [message : 0..MaxWrites, LAST_READ : {Infinite} \cup 0..now,
                       LAST_WRITE : {Infinite} \cup 0..now, LAST_VALIDITY : {"VALID", "INVALID"}]
    BY <2>2 DEF SamplingInv, Samples
  <2>4. /\ sample'[s] = [sample[s] EXCEPT !.LAST_READ = now]
        /\ \A x \in SamplingPort : x # s => sample'[x] = sample[x]
        /\ sample' = [x \in SamplingPort |-> sample'[x]]
    BY <2>1, <2>2 DEF SamplingInv, Samples
  <2>5. now \in {Infinite} \cup 0..now /\ now \in Nat
    BY DEF SamplingInv, Samples
  <2>6. /\ sample'[s] \in [message : 0..MaxWrites, LAST_READ : {Infinite} \cup 0..now,
                           LAST_WRITE : {Infinite} \cup 0..now, LAST_VALIDITY : {"VALID", "INVALID"}]
        /\ sample'[s].message = sample[s].message /\ sample'[s].LAST_READ = now
        /\ sample'[s].LAST_WRITE = sample[s].LAST_WRITE
    BY <2>3, <2>4, <2>5
  <2>7. Samples'
    BY <1>1, <2>1, <2>4, <2>6 DEF SamplingInv, Samples
  <2>8. sample[s].LAST_WRITE # Infinite
    BY <2>1, <2>2 DEF SamplingInv, InTurn
  <2>9. Taken(s)'
    BY <2>3, <2>5, <2>6, <2>8 DEF Taken, Infinite
  <2>10. \A x \in SamplingPort : sample'[x].message = sample[x].message /\ sample'[x].LAST_WRITE = sample[x].LAST_WRITE
    BY <2>4, <2>6
  <2>11. \A d \in DOMAIN SamplingChannels :
           /\ From(d) \in SamplingPort
           /\ d # c => From(d) # s /\ SamplingChannels[d] # SamplingChannels[c]
           /\ \A i \in DOMAIN SamplingChannels[d].destinations : To(d, i) \in SamplingPort
    BY PortOf, PortsDiffer DEF s
  <2>12. InTurn'
    <3>1. \A x \in SamplingSource :
            /\ sample'[x].message <= written'
            /\ sample'[x].LAST_WRITE = Infinite => sample'[x].message = Empty /\ sample'[x].LAST_READ = Infinite
      BY <2>1, <2>4, <2>8, <2>10, PortKinds DEF SamplingInv, InTurn
    <3>2. \A d \in DOMAIN SamplingChannels :
            /\ peeked'[d] <= sample'[From(d)].message
            /\ \A i \in DOMAIN SamplingChannels[d].destinations : sample'[To(d, i)].message <= peeked'[d]
      BY <1>1, <2>10, <2>11 DEF SamplingInv, InTurn
    <3> QED  BY <3>1, <3>2 DEF InTurn, From, To
  <2>13. \A d \in DOMAIN SamplingChannels : d # c => Taken(From(d))' = Taken(From(d))
    BY <2>4, <2>11 DEF Taken
  <2>14. HasItWhy'
    <3>1. \A d \in DOMAIN SamplingChannels : \A i \in DOMAIN SamplingChannels[d].destinations :
            sample'[To(d, i)].message = sample'[From(d)].message /\ sample'[From(d)].message # Empty =>
              Taken(From(d))' \/ SamplingChannels[d] \in unfinished'
      <4> TAKE d \in DOMAIN SamplingChannels
      <4> TAKE i \in DOMAIN SamplingChannels[d].destinations
      <4>1. CASE d = c
        BY <2>9, <4>1 DEF s
      <4>2. CASE d # c
        BY <1>6, <1>7, <2>10, <2>11, <2>13, <4>2 DEF SamplingInv, HasItWhy
      <4> QED  BY <4>1, <4>2
    <3> QED  BY <3>1 DEF HasItWhy, From, To, Taken, Busy
  <2>15. TakenMeansArrived'
    <3>1. \A d \in DOMAIN SamplingChannels : Taken(From(d))' =>
            \A i \in DOMAIN SamplingChannels[d].destinations : sample'[To(d, i)].message = peeked'[d]
      <4> TAKE d \in DOMAIN SamplingChannels
      <4>1. CASE d = c
        BY <1>1, <1>4, <2>10, <2>11, <4>1
      <4>2. CASE d # c
        BY <1>1, <2>10, <2>11, <2>13, <4>2 DEF SamplingInv, TakenMeansArrived, From, To
      <4> QED  BY <4>1, <4>2
    <3> QED  BY <3>1 DEF TakenMeansArrived, From, To, Taken
  <2> QED  BY <1>5, <2>7, <2>12, <2>14, <2>15 DEF SamplingInv
<1>8. CASE unfinished' = unfinished \cup {SamplingChannels[c]} /\ UNCHANGED <<sample, now, written>>
  <2>1. HasItWhy'
    BY <1>1, <1>6, <1>8 DEF SamplingInv, HasItWhy, Busy, From, To, Taken
  <2> QED  BY <1>1, <1>5, <1>8, <2>1
           DEF SamplingInv, Samples, InTurn, TakenMeansArrived, From, To, Taken
<1> QED  BY <1>3, <1>7, <1>8 DEF TakeSampling, samplingVars

LEMMA StopSamplingKeeps ==
  ASSUME SamplingInv, SamplingTurns, StopSAMPLINGPORTS \/ StartSAMPLINGPORTS
  PROVE  SamplingInv'
<1>1. /\ samplingIO'.at \in {"look", "stopped"} /\ UNCHANGED <<peeked, sample, now, written>>
  BY DEF StopSAMPLINGPORTS, StartSAMPLINGPORTS, Stopped, AtStart, samplingVars
<1>2. Passing'
  BY <1>1 DEF Passing
<1>3. \A d \in DOMAIN SamplingChannels :
        SamplingChannels[d] \in unfinished \/ Busy(d) => SamplingChannels[d] \in unfinished'
  BY DEF StopSAMPLINGPORTS, StartSAMPLINGPORTS, SamplingTurn, Busy
<1>4. HasItWhy'
  BY <1>1, <1>3 DEF SamplingInv, HasItWhy, From, To, Taken
<1> QED  BY <1>1, <1>2, <1>4
         DEF SamplingInv, Samples, InTurn, TakenMeansArrived, From, To, Taken


\* A destination gets the message, or is left out and keeps the pass from completing.
LEMMA WriteOnKeeps ==
  ASSUME SamplingInv, SamplingTurns, SamplingTurns', WriteOn
  PROVE  SamplingInv'
<1>1. samplingIO.at = "write" /\ UNCHANGED <<now, written, peeked>>
  BY DEF WriteOn, WRITE_PARTITION_SAMPLING_MESSAGE, samplingVars
<1>2. PICK c \in DOMAIN SamplingChannels : c = samplingIO.turn
  BY <1>1 DEF SamplingTurns
<1>3. PICK k \in DOMAIN SamplingChannels[c].destinations : k = samplingIO.to
  BY <1>1, <1>2 DEF SamplingTurns, SamplingTurn
<1> DEFINE s == To(c, k)
           D == DOMAIN SamplingChannels[c].destinations
<1>4. /\ s \in SamplingPort \ SamplingSource /\ SamplingTurn = SamplingChannels[c]
      /\ SamplingTurn.destinations[samplingIO.to] = s
  BY <1>2, <1>3, PortOf DEF SamplingTurn, To
<1>5. \A d \in DOMAIN SamplingChannels :
        /\ From(d) \in SamplingSource /\ From(d) \in SamplingPort /\ From(d) # s
        /\ \A i \in DOMAIN SamplingChannels[d].destinations :
             /\ To(d, i) \in SamplingPort
             /\ To(d, i) = s => d = c /\ i = k
  BY <1>4, PortOf, PortsDiffer, PlacesDiffer
<1>6. D = 1..Len(SamplingChannels[c].destinations) /\ Len(SamplingChannels[c].destinations) \in Nat
  BY SamplingTable
<1>7. samplingIO.message = peeked[c] /\ peeked[c] \in 0..MaxWrites /\ ~ Taken(From(c))
  BY <1>1, <1>2 DEF SamplingInv, Passing, Samples
<1> HIDE DEF s, D
\* Both cases: the messages of the others stay, that of s is the one peeked at or as before.
<1>8. ASSUME NEW done, AfterWrite(done), Samples',
             \A x \in SamplingPort : x # s => sample'[x] = sample[x],
             \/ sample'[s].message = peeked[c] /\ done = samplingIO.COMPLETED
             \/ sample'[s].message = sample[s].message /\ done = FALSE
      PROVE  SamplingInv'
  <2>1. \A d \in DOMAIN SamplingChannels :
          /\ sample'[From(d)] = sample[From(d)] /\ Taken(From(d))' = Taken(From(d))
          /\ d # c => \A i \in DOMAIN SamplingChannels[d].destinations : sample'[To(d, i)] = sample[To(d, i)]
    BY <1>5, <1>8 DEF Taken
  <2>2. \A i \in D : i # k => sample'[To(c, i)] = sample[To(c, i)]
    BY <1>5, <1>8 DEF D
  <2>3. /\ \/ /\ samplingIO'.at = "write" /\ samplingIO'.turn = c /\ samplingIO'.to = k + 1
              /\ samplingIO'.COMPLETED = done /\ samplingIO'.message = samplingIO.message
              /\ unfinished' = unfinished
           \/ /\ samplingIO'.at = "take" /\ samplingIO'.turn = c
              /\ done /\ k = Len(SamplingChannels[c].destinations) /\ unfinished' = unfinished
           \/ /\ samplingIO'.at = "look" /\ unfinished' = unfinished \cup {SamplingChannels[c]}
    BY <1>1, <1>2, <1>3, <1>4, <1>8, AfterWriteIs DEF OnwardSampling, Onward
  <2>4. InTurn'
    <3>1. \A i \in D : sample'[To(c, i)].message <= peeked[c]
      <4>1. \A i \in D : sample[To(c, i)].message <= peeked[c]
        BY DEF SamplingInv, InTurn, D
      <4>2. sample'[s].message <= peeked[c]
        BY <1>3, <1>7, <1>8, <4>1, SamplingPortsAssumption DEF s, D
      <4> QED  BY <2>2, <4>1, <4>2 DEF s
    <3>2. \A x \in SamplingSource : sample'[x] = sample[x]
      BY <1>4, <1>8, PortKinds
    <3> QED  BY <1>1, <2>1, <3>1, <3>2 DEF SamplingInv, InTurn, From, To, D
  <2>5. \A i \in D :
          /\ done /\ i < k + 1 => sample'[To(c, i)].message = peeked[c]
          /\ i >= k + 1 /\ sample'[To(c, i)].message = peeked[c] => SamplingChannels[c] \in unfinished
    <3> TAKE i \in D
    <3>1. /\ samplingIO.COMPLETED /\ i < k => sample[To(c, i)].message = peeked[c]
          /\ i >= k /\ sample[To(c, i)].message = peeked[c] => SamplingChannels[c] \in unfinished
          /\ i \in Nat /\ k \in Nat
      BY <1>1, <1>2, <1>3, <1>6 DEF SamplingInv, Passing, D
    <3>2. CASE i = k
      BY <1>8, <3>1, <3>2 DEF s
    <3>3. CASE i # k
      BY <1>8, <2>2, <3>1, <3>3
    <3> QED  BY <3>2, <3>3
  <2>6. Passing'
    <3>1. CASE samplingIO'.at = "write"
      <4>1. /\ samplingIO'.turn = c /\ samplingIO'.to = k + 1 /\ samplingIO'.COMPLETED = done
            /\ samplingIO'.message = peeked'[c] /\ unfinished' = unfinished
        BY <1>1, <1>7, <2>3, <3>1
      <4>2. ~ Taken(From(c))'
        BY <1>7, <2>1
      <4> QED  BY <1>1, <2>5, <3>1, <4>1, <4>2 DEF Passing, From, To, D, Taken
    <3>2. CASE samplingIO'.at = "take"
      <4>1. samplingIO'.turn = c /\ done /\ \A i \in D : i < k + 1
        BY <1>6, <2>3, <3>2
      <4>2. ~ Taken(From(c))' /\ \A i \in D : sample'[To(c, i)].message = peeked'[c]
        BY <1>1, <1>7, <2>1, <2>5, <4>1
      <4> QED  BY <3>2, <4>1, <4>2 DEF Passing, From, To, D, Taken
    <3> QED  BY <2>3, <3>1, <3>2 DEF Passing
  <2>7. HasItWhy'
    <3>1. \A d \in DOMAIN SamplingChannels : d # c => ~ Busy(d)
      BY <1>2 DEF Busy
    <3>2. Busy(c)' \/ SamplingChannels[c] \in unfinished'
      BY <2>3 DEF Busy
    <3>3. \A d \in DOMAIN SamplingChannels : SamplingChannels[d] \in unfinished => SamplingChannels[d] \in unfinished'
      BY <2>3
    <3>4. ASSUME NEW d \in DOMAIN SamplingChannels, NEW i \in DOMAIN SamplingChannels[d].destinations,
                 sample'[To(d, i)].message = sample'[From(d)].message, sample'[From(d)].message # Empty
          PROVE  Taken(From(d))' \/ SamplingChannels[d] \in unfinished' \/ Busy(d)'
      <4>1. CASE d = c
        BY <3>2, <4>1
      <4>2. CASE d # c
        BY <2>1, <3>1, <3>3, <3>4, <4>2 DEF SamplingInv, HasItWhy
      <4> QED  BY <4>1, <4>2
    <3> QED  BY <3>4 DEF HasItWhy, From, To, Taken, Busy
  <2>8. TakenMeansArrived'
    <3>1. \A d \in DOMAIN SamplingChannels : Taken(From(d))' =>
            \A i \in DOMAIN SamplingChannels[d].destinations : sample'[To(d, i)].message = peeked'[d]
      BY <1>1, <1>7, <2>1 DEF SamplingInv, TakenMeansArrived, From, To
    <3> QED  BY <3>1 DEF TakenMeansArrived, From, To, Taken
  <2> QED  BY <1>8, <2>4, <2>6, <2>7, <2>8 DEF SamplingInv
<1>9. CASE WRITE_PARTITION_SAMPLING_MESSAGE(s, samplingIO.message) /\ AfterWrite(samplingIO.COMPLETED)
  <2>1. WriteInto(s, peeked[c])
    BY <1>7, <1>9 DEF WRITE_PARTITION_SAMPLING_MESSAGE
  <2>2. /\ sample'[s].message = peeked[c] /\ \A x \in SamplingPort : x # s => sample'[x] = sample[x]
        /\ sample' \in [SamplingPort ->
              [message : 0..MaxWrites, LAST_READ : {Infinite} \cup 0..now',
               LAST_WRITE : {Infinite} \cup 0..now', LAST_VALIDITY : {"VALID", "INVALID"}]]
    BY <1>1, <1>4, <1>7, <2>1, WriteIs DEF SamplingInv
  <2>3. Samples'
    BY <1>1, <2>2 DEF SamplingInv, Samples
  <2> QED  BY <1>8, <1>9, <2>2, <2>3
<1>10. CASE AfterWrite(FALSE) /\ UNCHANGED samplingVars
  <2>1. Samples'
    BY <1>1, <1>10 DEF SamplingInv, Samples, samplingVars
  <2> QED  BY <1>8, <1>10, <2>1 DEF samplingVars
<1> QED  BY <1>4, <1>9, <1>10 DEF WriteOn

\* The steps of the queuing ports are nothing to the sampling ports.
LEMMA QueuingKeepsSamples ==
  ASSUME StaticInv, Samples, QueuingNext
  PROVE  SamplesKept
<1>1. UNCHANGED <<now, sample, written, samplingIO, peeked>>
  BY DEF QueuingNext, samplingVars
<1>2. unfinished' \cup unfinished \subseteq unfinished \cup {QueuingChannels[d] : d \in DOMAIN QueuingChannels}
  BY DEF QueuingNext, QUEUINGPORTS, PeekQueuing, SendOn, TakeQueuing, StopQUEUINGPORTS,
     StartQUEUINGPORTS, QueuingTurn, StaticInv, QueuingTurns
<1>3. \A x \in unfinished : x \in unfinished' \/ x \in {QueuingChannels[d] : d \in DOMAIN QueuingChannels}
  BY DEF QueuingNext, QUEUINGPORTS, PeekQueuing, SendOn, TakeQueuing, StopQUEUINGPORTS,
     StartQUEUINGPORTS, QueuingTurn, StaticInv, QueuingTurns
<1>4. \A c \in DOMAIN SamplingChannels :
        SamplingChannels[c] \in unfinished' <=> SamplingChannels[c] \in unfinished
  BY <1>2, <1>3, PortOf
<1>5. Samples'
  BY <1>1 DEF Samples
<1> QED  BY <1>1, <1>4, <1>5 DEF SamplesKept

LEMMA SamplingStep ==
  ASSUME StaticInv, SamplingInv, [Next]_vars
  PROVE  SamplingInv'
<1>1. SamplingTurns /\ SamplingTurns' /\ Samples
  BY SamplingTurnsStep DEF StaticInv, SamplingInv
<1>2. ASSUME UNCHANGED <<samplingVars, samplingIO, peeked, unfinished>> PROVE SamplesKept
  BY <1>1, <1>2 DEF samplingVars, SamplesKept, Samples
<1>3. CASE UNCHANGED vars
  BY <1>1, <1>2, <1>3, KeptSampling DEF vars, ioVars
<1>4. CASE QueuingNext
  BY <1>1, <1>4, QueuingKeepsSamples, KeptSampling
<1>5. CASE SamplingNext
  <2>1. CASE SAMPLINGPORTS
    BY <1>1, <2>1, PeekSamplingKeeps, WriteOnKeeps, TakeSamplingKeeps DEF SAMPLINGPORTS
  <2>2. CASE StopSAMPLINGPORTS \/ StartSAMPLINGPORTS
    BY <1>1, <2>2, StopSamplingKeeps
  <2>3. CASE (SamplingPortServices \/ Tick \/ (Ends /\ UNCHANGED samplingVars))
             /\ UNCHANGED <<samplingIO, peeked, unfinished>>
    <3>1. CASE Tick
      BY <1>1, <2>3, <3>1, TickKeepsSamples, KeptSampling
    <3>2. CASE Ends /\ UNCHANGED samplingVars
      BY <1>1, <1>2, <2>3, <3>2, KeptSampling
    <3>3. CASE \E s \in SamplingPort : CREATE_SAMPLING_PORT(s)
      BY <1>1, <1>2, <2>3, <3>3, KeptSampling DEF CREATE_SAMPLING_PORT
    <3>4. CASE \E s \in SamplingPort : READ_SAMPLING_MESSAGE(s)
      BY <1>1, <2>3, <3>4, ReadKeepsSamples, KeptSampling
    <3>5. CASE \E s \in SamplingPort : WRITE_SAMPLING_MESSAGE(s)
      BY <1>1, <2>3, <3>5, UserWriteKeeps
    <3> QED  BY <2>3, <3>1, <3>2, <3>3, <3>4, <3>5 DEF SamplingPortServices
  <2> QED  BY <1>5, <2>1, <2>2, <2>3 DEF SamplingNext
<1> QED  BY <1>3, <1>4, <1>5 DEF Next


LEMMA InitSampling == Init => SamplingInv
<1> SUFFICES ASSUME Init PROVE SamplingInv
  OBVIOUS
<1>1. /\ now = 0 /\ written = 0 /\ samplingIO.at = "look" /\ unfinished = {}
      /\ peeked = [c \in DOMAIN SamplingChannels |-> Empty]
      /\ sample = [s \in SamplingPort |-> [message |-> Empty, LAST_READ |-> Infinite,
                                           LAST_WRITE |-> Infinite, LAST_VALIDITY |-> "INVALID"]]
  BY DEF Init, SamplingPortsInit, IOInit, AtStart
<1>2. \A s \in SamplingPort : sample[s].message = 0 /\ sample[s].LAST_READ = Infinite /\ sample[s].LAST_WRITE = Infinite
  BY <1>1 DEF Empty
<1>3. Samples
  BY <1>1, SamplingPortsAssumption DEF Samples, Empty, Infinite
<1>4. \A c \in DOMAIN SamplingChannels :
        /\ peeked[c] = 0 /\ sample[From(c)].message = 0 /\ ~ Taken(From(c))
        /\ \A i \in DOMAIN SamplingChannels[c].destinations : sample[To(c, i)].message = 0
  BY <1>1, <1>2, PortOf DEF Empty, Taken
<1>5. InTurn
  BY <1>1, <1>2, <1>4, PortKinds DEF InTurn, Empty
<1>6. Passing
  BY <1>1 DEF Passing
<1>7. HasItWhy
  BY <1>4 DEF HasItWhy, Empty
<1>8. TakenMeansArrived
  BY <1>4 DEF TakenMeansArrived, From
<1> QED  BY <1>3, <1>5, <1>6, <1>7, <1>8 DEF SamplingInv

LEMMA SpecSampling == Spec => [](StaticInv /\ SamplingInv)
<1>1. Init => StaticInv /\ SamplingInv
  BY InitStatic, InitSampling
<1>2. StaticInv /\ SamplingInv /\ [Next]_vars => StaticInv' /\ SamplingInv'
  BY StepStatic, SamplingStep
<1> QED  BY <1>1, <1>2, PTL DEF Spec

\* A sampling source counts as read only when every destination has the message peeked at,
\* whatever is written meanwhile, in whatever tick, and wherever the pass is broken off.
THEOREM ReadMeansArrived == Spec => []TakenMeansArrived
<1>1. SamplingInv => TakenMeansArrived
  BY DEF SamplingInv
<1> QED  BY <1>1, SpecSampling, PTL

\* What a step writes to a destination is newer, or is once more what was not taken.
LEMMA SamplingInOrder ==
  ASSUME StaticInv, SamplingInv, [Next]_vars,
         NEW c \in DOMAIN SamplingChannels, NEW i \in DOMAIN SamplingChannels[c].destinations
  PROVE  SamplingArrival(c, To(c, i))
<1> DEFINE s == To(c, i)
<1> SUFFICES ASSUME <<sample'[s].message, sample'[s].LAST_WRITE>> # <<sample[s].message, sample[s].LAST_WRITE>>
             PROVE  \/ sample'[s].message > sample[s].message
                    \/ sample'[s].message = sample[s].message /\ SamplingChannels[c] \in unfinished
  BY DEF SamplingArrival
<1>1. s \in SamplingPort \ SamplingSource
  BY PortOf
<1> HIDE DEF s
<1>2. ASSUME sample' = sample PROVE FALSE
  BY <1>2
<1>3. ASSUME NEW x \in SamplingSource, NEW f, sample' = [sample EXCEPT ![x] = f] PROVE FALSE
  BY <1>1, <1>3, PortKinds DEF SamplingInv, Samples
<1>4. ASSUME NEW x \in SamplingPort, READ_SAMPLING_MESSAGE(x) PROVE FALSE
  <2>1. sample[s] \in [message : 0..MaxWrites, LAST_READ : {Infinite} \cup 0..now,
                       LAST_WRITE : {Infinite} \cup 0..now, LAST_VALIDITY : {"VALID", "INVALID"}]
    BY <1>1 DEF SamplingInv, Samples
  <2>2. PICK v : sample' = [sample EXCEPT ![x] =
          IF @.message = Empty THEN [@ EXCEPT !.LAST_VALIDITY = "INVALID"]
          ELSE [@ EXCEPT !.LAST_READ = now, !.LAST_VALIDITY = v]]
    BY <1>4 DEF READ_SAMPLING_MESSAGE
  <2>3. CASE x # s
    BY <1>1, <2>2, <2>3 DEF SamplingInv, Samples
  <2>4. CASE x = s
    <3>1. sample'[s] = IF sample[s].message = Empty THEN [sample[s] EXCEPT !.LAST_VALIDITY = "INVALID"]
                       ELSE [sample[s] EXCEPT !.LAST_READ = now, !.LAST_VALIDITY = v]
      BY <1>1, <2>2, <2>4 DEF SamplingInv, Samples
    <3> QED  BY <2>1, <3>1
  <2> QED  BY <2>3, <2>4
<1>5. CASE WriteOn
  <2>1. PICK d \in DOMAIN SamplingChannels : d = samplingIO.turn
    BY <1>5 DEF WriteOn, StaticInv, SamplingTurns
  <2>2. PICK k \in DOMAIN SamplingChannels[d].destinations : k = samplingIO.to
    BY <1>5, <2>1 DEF WriteOn, StaticInv, SamplingTurns, SamplingTurn
  <2>3. /\ To(d, k) \in SamplingPort /\ samplingIO.at = "write" /\ k \in Nat
        /\ SamplingTurn.destinations[samplingIO.to] = To(d, k)
    BY <1>5, <2>1, <2>2, PortOf DEF WriteOn, SamplingTurn, To
  <2>4. /\ samplingIO.message = peeked[d] /\ peeked[d] \in 0..MaxWrites
        /\ k >= samplingIO.to /\ sample[To(d, k)].message = peeked[d] => SamplingChannels[d] \in unfinished
        /\ sample[To(d, k)].message <= peeked[d] /\ sample[To(d, k)].message \in Nat /\ peeked[d] \in Nat
    BY <2>1, <2>2, <2>3, SampleOf, SamplingPortsAssumption DEF SamplingInv, Passing, Samples, InTurn
  <2>5. WriteInto(To(d, k), peeked[d]) /\ UNCHANGED now
    BY <1>2, <1>5, <2>3, <2>4 DEF WriteOn, WRITE_PARTITION_SAMPLING_MESSAGE, samplingVars
  <2>6. /\ sample'[To(d, k)].message = peeked[d]
        /\ \A x \in SamplingPort : x # To(d, k) => sample'[x] = sample[x]
    BY <2>3, <2>4, <2>5, WriteIs DEF SamplingInv
  <2>7. To(d, k) = s
    BY <1>1, <2>6
  <2>8. d = c
    BY <2>7, PortsDiffer DEF s
  <2> QED  BY <2>2, <2>3, <2>4, <2>6, <2>7, <2>8
<1>6. CASE TakeSampling
  <2>1. SamplingTurn.source \in SamplingSource
    BY <1>6, SamplingTable DEF TakeSampling, StaticInv, SamplingTurns, SamplingTurn
  <2>2. CASE READ_PARTITION_SAMPLING_MESSAGE(SamplingTurn.source)
    <3>1. PICK x \in SamplingSource : sample' = [sample EXCEPT ![x].LAST_READ = now]
      BY <2>1, <2>2 DEF READ_PARTITION_SAMPLING_MESSAGE
    <3>2. sample'[s] = sample[s]
      BY <1>1, <3>1, PortKinds DEF SamplingInv, Samples
    <3> QED  BY <3>2
  <2> QED  BY <1>2, <1>6, <2>2 DEF TakeSampling, samplingVars
<1>7. ASSUME NEW x \in SamplingPort, WRITE_SAMPLING_MESSAGE(x) PROVE FALSE
  <2>1. x \in SamplingSource /\ \E m : sample' = [sample EXCEPT ![x].message = m, ![x].LAST_WRITE = now]
    BY <1>7 DEF WRITE_SAMPLING_MESSAGE, WriteInto
  <2>2. sample'[s] = sample[s]
    BY <1>1, <2>1, PortKinds DEF SamplingInv, Samples
  <2> QED  BY <2>2
<1>8. CASE SamplingNext
  <2>1. CASE PeekSampling \/ StopSAMPLINGPORTS \/ StartSAMPLINGPORTS \/ Tick \/ UNCHANGED samplingVars
    BY <1>2, <2>1 DEF PeekSampling, StopSAMPLINGPORTS, StartSAMPLINGPORTS, Tick, samplingVars
  <2>2. CASE SamplingPortServices
    BY <1>2, <1>4, <1>7, <2>2 DEF SamplingPortServices, CREATE_SAMPLING_PORT, samplingVars
  <2> QED  BY <1>5, <1>6, <1>8, <2>1, <2>2 DEF SamplingNext, SAMPLINGPORTS
<1>9. CASE QueuingNext \/ UNCHANGED vars
  BY <1>2, <1>9 DEF QueuingNext, vars, samplingVars
<1> QED  BY <1>8, <1>9 DEF Next, s

\* Messages reach a destination in the order in which they were sent, a queuing message
\* never skipped and none twice unless a restart or a missing port kept it from being taken.
THEOREM MessagesArriveInOrder == Spec /\ []WithinCapacity => ArrivesInOrder
<1> DEFINE Arrival ==
      /\ \A c \in DOMAIN QueuingChannels : QueuingArrival(c)
      /\ \A c \in DOMAIN SamplingChannels : \A i \in DOMAIN SamplingChannels[c].destinations :
           SamplingArrival(c, SamplingChannels[c].destinations[i])
<1>1. (StaticInv /\ ChannelsInv) /\ (StaticInv /\ SamplingInv) /\ [Next]_vars /\ WithinCapacity' => [Arrival]_vars
  BY QueuingInOrder, SamplingInOrder DEF To
<1> HIDE DEF Arrival
<1>2. Spec /\ []WithinCapacity => [][Arrival]_vars
  BY <1>1, SpecChannels, SpecSampling, PTL DEF Spec
<1> QED  BY <1>2 DEF ArrivesInOrder, Arrival

-----------------------------------------------------------------------------
(* Types.                                                                  *)

LEMMA OverflowStep ==
  ASSUME StaticInv, overflow \subseteq QueuingPort \ Source, [Next]_vars
  PROVE  overflow' \subseteq QueuingPort \ Source
<1>1. CASE UNCHANGED overflow
  BY <1>1
<1>2. CASE QueuingPortServices
  BY <1>1, <1>2 DEF QueuingPortServices, CREATE_QUEUING_PORT, SEND_QUEUING_MESSAGE,
       RECEIVE_QUEUING_MESSAGE, SendReturns, ReceiveReturns, queuingVars
<1>3. CASE SendOn
  <2>1. QueuingTurn.destination \in QueuingPort \ Source
    BY <1>3, QueuingTable DEF SendOn, StaticInv, QueuingTurns, QueuingTurn
  <2> QED  BY <1>1, <1>3, <2>1 DEF SendOn, SEND_PARTITION_QUEUING_MESSAGE, queuingVars
<1>4. CASE PeekQueuing \/ TakeQueuing \/ StopQUEUINGPORTS \/ StartQUEUINGPORTS \/ UNCHANGED queuingVars
  BY <1>1, <1>4 DEF PeekQueuing, TakeQueuing, RECEIVE_PARTITION_QUEUING_MESSAGE,
       StopQUEUINGPORTS, StartQUEUINGPORTS, queuingVars
<1> QED  BY <1>1, <1>2, <1>3, <1>4 DEF Next, QueuingNext, SamplingNext, QUEUINGPORTS, vars

\* The type of everything the ports and the I/O partition keep.
THEOREM PortsTypeCorrect == Spec /\ []WithinCapacity => []TypeOK
<1> DEFINE Over == overflow \subseteq QueuingPort \ Source
<1>1. Init => Over
  BY DEF Init, QueuingPortsInit
<1>2. StaticInv /\ SamplingInv /\ Over /\ [Next]_vars => Over'
  BY OverflowStep
<1>3. (StaticInv /\ ChannelsInv) /\ (StaticInv /\ SamplingInv) /\ Over => TypeOK
  <2> SUFFICES ASSUME StaticInv, ChannelsInv, SamplingInv, Over PROVE TypeOK
    OBVIOUS
  <2>1. \A s \in SamplingPort :
          sample[s] \in [message : 0..MaxWrites, LAST_READ : {Infinite} \cup 0..MaxTime,
                         LAST_WRITE : {Infinite} \cup 0..MaxTime, LAST_VALIDITY : {"VALID", "INVALID"}]
    <3> TAKE s \in SamplingPort
    <3>1. 0..now \subseteq 0..MaxTime
      BY SamplingPortsAssumption DEF SamplingInv, Samples
    <3>2. sample[s] \in [message : 0..MaxWrites, LAST_READ : {Infinite} \cup 0..now,
                         LAST_WRITE : {Infinite} \cup 0..now, LAST_VALIDITY : {"VALID", "INVALID"}]
      BY DEF SamplingInv, Samples
    <3> QED  BY <3>1, <3>2
  <2>2. sample = [s \in SamplingPort |-> sample[s]]
    BY DEF SamplingInv, Samples
  <2> QED  BY <2>1, <2>2 DEF TypeOK, StaticInv, QueuesInv, QueueInv, Typed, Members, ChannelsInv,
                Rings, QueuingTurns, SamplingTurns
<1> HIDE DEF Over
<1> QED  BY <1>1, <1>2, <1>3, SpecChannels, SpecSampling, PTL DEF Spec
=============================================================================
