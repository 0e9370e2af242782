------------------------- MODULE PartitionScheduler -------------------------
(***************************************************************************)
(* Which partition owns the processor: the windows of the major frame,     *)
(* SCHEDULER_SCHEDULEPARTITIONOUT and _SCHEDULEPARTITIONIN, TICK, the      *)
(* module's health monitoring callback and the mode changes of partitions  *)
(* and module as far as they change who runs. What runs inside a partition *)
(* is module Processes.                                                    *)
(*                                                                         *)
(* Time is the offset in the major frame, in ticks (windows are multiples  *)
(* of PORT_TICKWINDOW); it starts anew with every frame, so that runs are  *)
(* unbounded in time.                                                      *)
(***************************************************************************)
EXTENDS PriorityQueues, FiniteSets

CONSTANTS
  Part,        \* the partitions
  NoPart,      \* a null CURRENT_PARTITION_INFORMATION
  Sequence,    \* Part in the order of CREATE_PARTITION
  Window,      \* the SCHEDULE_WINDOW array of each partition
  Frame,       \* MAJORFRAME_DURATION
  Callback,    \* does the module have a health monitoring callback?
  Shutdown,    \* may a module error shut the module down?
  DeadlineAction  \* does a missed deadline idle or restart its partition?

ASSUME PartitionSchedulerAssumption ==
  /\ IsFiniteSet(Part) /\ NoPart \notin Part
  /\ Sequence \in Seq(Part)
  /\ \A p \in Part : \E i \in DOMAIN Sequence : Sequence[i] = p
  /\ \A i, j \in DOMAIN Sequence : Sequence[i] = Sequence[j] => i = j
  /\ Frame \in Nat \ {0}
  /\ \A p \in Part :
       /\ Window[p] \in Seq([start : Nat, duration : Nat \ {0}]) /\ Window[p] # <<>>
       /\ \A i \in DOMAIN Window[p] : Window[p][i].start + Window[p][i].duration <= Frame
  /\ Callback \in BOOLEAN /\ Shutdown \in BOOLEAN /\ DeadlineAction \in BOOLEAN

VARIABLES
  time,       \* MAJOR_FRAME_TIME
  ready,      \* REC_PARTITIONREADY
  index,      \* SCHEDULE_WINDOW_INDEX of each partition, counted from 1
  owner,      \* CURRENT_PARTITION_INFORMATION
  mode,       \* OPERATING_MODE of each partition; FIRST is its very first start
  hm,         \* HEALTHMONITORINGCALLBACK_INFORMATION of the module
  moduleIdle, \* is the module's OPERATING_MODE IDLE?
  pc          \* where SCHEDULER is

vars == <<time, ready, index, owner, mode, hm, moduleIdle, pc>>

TypeOK ==
  /\ time \in 0..(Frame - 1)
  /\ ready \in Seq(Entry(Part))
  /\ index \in [Part -> Nat \ {0}]
  /\ owner \in Part \cup {NoPart}
  /\ mode \in [Part -> {"FIRST", "START", "NORMAL", "IDLE"}]
  /\ hm \in [start : BOOLEAN, stop : BOOLEAN, running : BOOLEAN]
  /\ moduleIdle \in BOOLEAN
  /\ pc \in {"rest", "out", "in", "entered"}

Idle == {p \in Part : mode[p] = "IDLE"}

First(p) == Window[p][1].start
Start(p) == Window[p][index[p]].start
\* Mutant: a window is one tick longer.
BadEnd(p) == Window[p][index[p]].start + Window[p][index[p]].duration + 1
End(p) == Window[p][index[p]].start + Window[p][index[p]].duration

\* The ready queue with the first n partitions that are not IDLE queued for their
\* first window.
Queued(S) ==
  LET add[n \in 0..Len(Sequence)] ==
        IF n = 0 THEN <<>>
        ELSE IF Sequence[n] \in S
             THEN Enqueue(add[n - 1], TRUE, Sequence[n], First(Sequence[n]))
             ELSE add[n - 1]
  IN  add[Len(Sequence)]

\* SCHEDULER_STARTPARTITIONSCHEDULER, which ends in SCHEDULER.
Init ==
  /\ time = 0
  /\ ready = Queued(Part)
  /\ index = [p \in Part |-> 1]
  /\ owner = NoPart
  /\ mode = [p \in Part |-> "FIRST"]
  /\ hm = [start |-> FALSE, stop |-> FALSE, running |-> FALSE]
  /\ moduleIdle = FALSE
  /\ pc = "out"

-----------------------------------------------------------------------------
(* What enters SCHEDULER                                                   *)

\* Mutant: the frame is one tick longer.
BadFrameEnds == time + 1 > Frame
FrameEnds == time + 1 >= Frame

\* Mutant: a new major frame queues nobody.
BadTICK ==
  /\ pc = "rest" /\ ~ moduleIdle
  /\ time' = IF FrameEnds THEN 0 ELSE time + 1
  /\ pc' = "out"
  /\ UNCHANGED <<ready, index, owner, mode, hm, moduleIdle>>

\* A new major frame queues every partition for its first window.
TICK ==
  /\ pc = "rest" /\ ~ moduleIdle
  /\ \/ /\ ~ FrameEnds
        /\ time' = time + 1
        /\ UNCHANGED <<ready, index>>
     \/ /\ FrameEnds
        /\ time' = 0
        /\ index' = [p \in Part |-> 1]
        /\ ready' = Queued(Part \ Idle)
  /\ pc' = "out"
  /\ UNCHANGED <<owner, mode, hm, moduleIdle>>

\* PORT_YIELD in a service of the partition that runs.
Yield ==
  /\ pc = "rest" /\ owner # NoPart /\ mode[owner] # "IDLE"
  /\ pc' = "out"
  /\ UNCHANGED <<time, ready, index, owner, mode, hm, moduleIdle>>

\* SET_PARTITION_MODE(NORMAL) ends in SCHEDULER when the partition has processes.
SetNormalMode ==
  /\ pc = "rest" /\ owner # NoPart /\ mode[owner] \in {"FIRST", "START"}
  /\ mode' = [mode EXCEPT ![owner] = "NORMAL"]
  /\ pc' = "out"
  /\ UNCHANGED <<time, ready, index, owner, hm, moduleIdle>>

\* Code of the partition runs, or SCHEDULER handles its process events, which it
\* does in NORMAL mode and not for a partition that a callback displaces. The mode of
\* the module is not looked at: who stays on after a shutdown still has its events.
Running == pc = "rest" /\ owner # NoPart
HandlesEvents ==
  /\ pc \in {"out", "entered"} /\ owner # NoPart /\ mode[owner] = "NORMAL"
  /\ ~ hm.start /\ ~ hm.running

\* Mutant: the partition stays queued for the window it was in.
BadReinitialize(m) ==
  /\ Running \/ (DeadlineAction /\ HandlesEvents)
  /\ mode[owner] \in {"START", "NORMAL"}
  /\ mode' = [mode EXCEPT ![owner] = m]
  /\ index' = [index EXCEPT ![owner] = 1]
  /\ UNCHANGED ready

\* SET_PARTITION_MODE by the partition itself or by the action of an error:
\* INITIALIZE_PARTITION_INFORMATION takes the partition out of the ready queue and
\* forgets its window. (Before it has been NORMAL once: see Processes!Wiped.)
Reinitialize(m) ==
  /\ Running \/ (DeadlineAction /\ HandlesEvents)
  /\ mode[owner] \in {"START", "NORMAL"}
  /\ mode' = [mode EXCEPT ![owner] = m]
  /\ ready' = Dequeue(ready, owner)
  /\ index' = [index EXCEPT ![owner] = 1]

\* The default process begins anew by PORT_SWITCH, at once and without SCHEDULER,
\* which is abandoned if it was the one to restart the partition.
Restart ==
  /\ Reinitialize("START")
  /\ pc' = "rest"
  /\ UNCHANGED <<time, owner, hm, moduleIdle>>

GoIdle ==
  /\ Reinitialize("IDLE")
  /\ pc' = "out"
  /\ UNCHANGED <<time, owner, hm, moduleIdle>>

\* A module error: the callback is due, or without one the module's action runs.
RaiseModuleError ==
  /\ Running \/ HandlesEvents
  /\ \/ /\ Callback
        /\ hm' = [hm EXCEPT !.start = TRUE, !.stop = FALSE]
        /\ pc' = IF pc = "rest" THEN "out" ELSE pc
        /\ UNCHANGED moduleIdle
     \/ /\ ~ Callback /\ Shutdown /\ ~ moduleIdle
        /\ moduleIdle' = TRUE
        /\ pc' = "out"
        /\ UNCHANGED hm
  /\ UNCHANGED <<time, ready, index, owner, mode>>

\* The callback returns; its error's action may shut the module down first.
CallbackReturns ==
  /\ pc = "rest" /\ hm.running
  /\ hm' = [hm EXCEPT !.stop = TRUE]
  /\ moduleIdle' \in {moduleIdle, Shutdown}
  /\ moduleIdle => moduleIdle'
  /\ pc' = "out"
  /\ UNCHANGED <<time, ready, index, owner, mode>>

-----------------------------------------------------------------------------
(* SCHEDULER                                                               *)

StopCallback ==
  /\ hm.running
  /\ hm' = IF hm.stop THEN [hm EXCEPT !.running = FALSE, !.stop = FALSE] ELSE hm
  /\ UNCHANGED <<ready, index, owner>>

\* A partition leaves at the end of its window, and queues for the next one of
\* the frame.
LeaveWindow ==
  /\ ~ hm.start /\ ready # <<>> /\ Head(ready).id = owner
  /\ time >= End(owner)
  /\ index' = [index EXCEPT ![owner] = @ + 1]
  /\ ready' = IF index[owner] < Len(Window[owner])
              THEN Enqueue(Dequeue(ready, owner), TRUE, owner, Window[owner][index[owner] + 1].start)
              ELSE Dequeue(ready, owner)
  /\ owner' = NoPart

\* It also leaves, its window unfinished, when another partition heads the queue,
\* none does, or the callback is due.
GiveWay ==
  /\ hm.start \/ (ready # <<>> => Head(ready).id # owner)
  /\ owner' = NoPart
  /\ UNCHANGED <<ready, index>>

Stay ==
  /\ \/ owner = NoPart
     \/ moduleIdle
     \/ ~ hm.start /\ ready # <<>> /\ Head(ready).id = owner /\ time < End(owner)
  /\ UNCHANGED <<ready, index, owner>>

SCHEDULEPARTITIONOUT ==
  /\ pc = "out"
  /\ pc' = "in"
  /\ \/ StopCallback
     \/ /\ ~ hm.running
        /\ \/ owner # NoPart /\ ~ moduleIdle /\ (LeaveWindow \/ GiveWay)
           \/ Stay
        /\ UNCHANGED hm
  /\ UNCHANGED <<time, mode, moduleIdle>>

StartCallback ==
  /\ owner = NoPart /\ ~ hm.running /\ hm.start
  /\ hm' = [hm EXCEPT !.running = TRUE, !.start = FALSE]
  /\ pc' = "rest"
  /\ UNCHANGED owner

\* Mutant: a partition enters one tick late.
BadMayEnter ==
  /\ owner = NoPart /\ ~ hm.running /\ ~ hm.start /\ ~ moduleIdle
  /\ ready # <<>> /\ time > Start(Head(ready).id)

MayEnter ==
  /\ owner = NoPart /\ ~ hm.running /\ ~ hm.start /\ ~ moduleIdle
  /\ ready # <<>> /\ time >= Start(Head(ready).id)

Enter ==
  /\ MayEnter
  /\ owner' = Head(ready).id
  /\ pc' = "entered"
  /\ UNCHANGED hm

NobodyEnters ==
  /\ owner # NoPart \/ hm.running \/ (~ hm.start /\ ~ MayEnter)
  /\ pc' = "rest"
  /\ UNCHANGED <<owner, hm>>

SCHEDULEPARTITIONIN ==
  /\ pc = "in"
  /\ StartCallback \/ Enter \/ NobodyEnters
  /\ UNCHANGED <<time, ready, index, mode, moduleIdle>>

\* The partition that entered handles its process events and runs.
Entered ==
  /\ pc = "entered"
  /\ pc' = "rest"
  /\ UNCHANGED <<time, ready, index, owner, mode, hm, moduleIdle>>

Scheduler == SCHEDULEPARTITIONOUT \/ SCHEDULEPARTITIONIN \/ Entered

Next ==
  \/ TICK \/ Yield \/ SetNormalMode \/ Restart \/ GoIdle \/ RaiseModuleError \/ CallbackReturns
  \/ Scheduler

Spec == Init /\ [][Next]_vars

\* SCHEDULER runs to its end with interrupts masked. The tick keeps coming, and one
\* that comes while interrupts are masked stays pending: whatever services the
\* partitions call, it is taken in the end.
FairSpec == Spec /\ WF_vars(Scheduler) /\ SF_vars(TICK)

-----------------------------------------------------------------------------
InWindow(p) ==
  \E i \in DOMAIN Window[p] :
    Window[p][i].start <= time /\ time < Window[p][i].start + Window[p][i].duration

\* A queued partition is queued once, not IDLE, and for the window its index says.
ReadyMatchesIndex ==
  /\ DistinctIds(ready) /\ Sorted(ready, TRUE)
  /\ \A i \in DOMAIN ready :
       LET p == ready[i].id
       IN  p \notin Idle /\ index[p] \in DOMAIN Window[p] /\ ready[i].pri = Start(p)

\* Temporal isolation: when SCHEDULER is done, no partition holds the processor in
\* a window of another one (that is not IDLE).
Isolation ==
  pc = "rest" /\ owner # NoPart /\ ~ moduleIdle =>
    \A p \in Part \ (Idle \cup {owner}) : ~ InWindow(p)

\* No window is wasted: when SCHEDULER is done and nobody owns the processor, none of
\* the queued partitions is in a window of its own.
WindowUsed ==
  pc = "rest" /\ owner = NoPart /\ ~ moduleIdle /\ ~ hm.running =>
    \A p \in Part : Enqueued(ready, p) => ~ InWindow(p)

\* No partition starves: one that is not IDLE comes to run again and again,
\* whatever the others do and however often they are restarted, until the module is
\* shut down or its callback, code of the application, runs and need not return.
NoStarvation ==
  \A p \in Part : []<>(owner = p \/ p \in Idle \/ moduleIdle \/ hm.running)
=============================================================================
