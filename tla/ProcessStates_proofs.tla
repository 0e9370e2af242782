------------------------- MODULE ProcessStates_proofs -------------------------
(***************************************************************************)
(* Processes, queues, dispatching and waits, for every set of processes    *)
(* and every configuration without a health monitoring callback. (A        *)
(* callback can interrupt the process that locked preemption while the     *)
(* error handler is still flagged as running, and SCHEDULER then leaves a  *)
(* process current that has stopped; the argument below ends there, and    *)
(* these configurations are left to the runs.)                             *)
(*                                                                         *)
(* In this order: a process's state agrees with the queues it is in; the   *)
(* most urgent process runs; who locked preemption keeps the processor;    *)
(* queues stay in order of priority; every wait has something that can end *)
(* it and is ended once; all this implements WaitQueues; the deadlines are *)
(* watched, and SCHEDULER leaves none of what is due behind.               *)
(*                                                                         *)
(* The first of these is not inductive as it stands. A service blocks the  *)
(* current process, so the current process must be able to run; the end of *)
(* the error handler makes the interrupted process RUNNING, so that one    *)
(* must have stayed able to run; and both depend on where SCHEDULER is.    *)
(***************************************************************************)
EXTENDS Processes_proofs

-----------------------------------------------------------------------------
(* The inductive invariant                                                 *)

\* No process waits for two resources.
WaitsForOne == \A r, s \in Resource : r # s => Ids(waitq[r]) \cap Ids(waitq[s]) = {}

UncreatedDormant == \A p \in Proc : p \notin Created => proc[p].state = "DORMANT"

\* Only between a service that blocks the current process and SCHEDULEPROCESSOUT
\* is the current process one that cannot run.
CurrentRunnable ==
  current # NoProc =>
    /\ mode = "NORMAL" /\ kpc # "starting"
    /\ \/ Runnable(current)
       \/ kpc \in {"events", "timeouts", "deadlines", "out"} /\ scheduled /\ ~ eh.running /\ lock = 0

\* The process the error handler interrupted: if it had locked preemption it can
\* still run when it gets the processor back.
HolderRunnable ==
  eh.preempted # NoProc =>
    /\ lock > 0 => Runnable(eh.preempted)
    /\ \/ eh.running
       \/ /\ eh.start /\ mode = "NORMAL"
          /\ kpc \in {"events", "out", "partition", "enter", "in"} \/ (kpc = "idle" /\ ~ scheduled)

\* Nothing of the partition runs while it is not scheduled.
ContextScheduled ==
  /\ ~ scheduled =>
       \/ ctx = "MODULE" /\ nextCtx \in {"none", "MODULE"}
       \/ kpc \in {"enter", "in"} /\ nextCtx = "MODULE"
  /\ kpc \in {"starting", "timeouts", "deadlines"} => scheduled /\ mode = "NORMAL"
  /\ mode = "NORMAL" => initialized

\* Until STARTPROCESSSCHEDULER has released it, a process waits for nothing.
StartingQueues ==
  mode # "NORMAL" \/ kpc = "starting" =>
    /\ \A r \in Resource : Ids(waitq[r]) = {}
    /\ Ids(timeoutQ) \subseteq {Order[i] : i \in 1..(IF kpc = "starting" THEN started ELSE 0)}

NoCallbackRuns == phm = NoCallback /\ ctx # "HMCALLBACK" /\ nextCtx # "HMCALLBACK"

Places == WaitsForOne /\ RunnableInReady /\ QueuedIsWaiting /\ UncreatedDormant
Control == CurrentRunnable /\ HolderRunnable /\ ContextScheduled /\ StartingQueues /\ NoCallbackRuns
StatesInv == TypeInv /\ Places /\ Control

-----------------------------------------------------------------------------
(* Who is in a queue after an operation.                                   *)

LEMMA QueueIds ==
  /\ Ids(<<>>) = {}
  /\ \A q \in DistinctQueue, p \in Proc, pri \in Int :
       /\ Ids(Enqueue(q, TRUE, p, pri)) = Ids(q) \cup {p}
       /\ Ids(Enqueue(q, FALSE, p, pri)) = Ids(q) \cup {p}
  /\ \A q \in DistinctQueue : \A p : Ids(Dequeue(q, p)) = Ids(q) \ {p}
  /\ \A q \in DistinctQueue : Ids(q) \subseteq Proc /\ (q # <<>> => Head(q).id \in Ids(q))
<1>1. Ids(<<>>) = {}
  BY DEF Ids
<1>2. ASSUME NEW q \in DistinctQueue, NEW p \in Proc, NEW pri \in Int
      PROVE  /\ Ids(Enqueue(q, TRUE, p, pri)) = Ids(q) \cup {p}
             /\ Ids(Enqueue(q, FALSE, p, pri)) = Ids(q) \cup {p}
  <2>1. q \in Seq(Entry(Proc))
    BY DEF DistinctQueue, Queue
  <2>2. \A ascending : Ids(Enqueue(q, ascending, p, pri)) = Ids(q) \cup {p}
    BY <2>1, EnqueueIds
  <2> QED BY <2>2
<1>3. \A q \in DistinctQueue : \A p : Ids(Dequeue(q, p)) = Ids(q) \ {p}
  BY DequeueEntries DEF DistinctQueue, Queue
<1>4. ASSUME NEW q \in DistinctQueue
      PROVE  Ids(q) \subseteq Proc /\ (q # <<>> => Head(q).id \in Ids(q))
  <2>1. q \in Seq(Entry(Proc))
    BY DEF DistinctQueue, Queue
  <2>2. \A i \in DOMAIN q : q[i] \in Entry(Proc)
    BY <2>1
  <2>3. Ids(q) \subseteq Proc
    BY <2>2 DEF Ids, Entry
  <2>4. q # <<>> => 1 \in DOMAIN q /\ Head(q) = q[1]
    BY <2>1
  <2> QED BY <2>3, <2>4 DEF Ids
<1> QED
  BY <1>1, <1>2, <1>3, <1>4

\* The same in terms of the sets of identifiers.
LEMMA PlacesIds ==
  /\ RunnableInReady <=> \A p \in Proc : proc[p].state \in {"READY", "RUNNING"} <=> p \in Ids(ready)
  /\ QueuedIsWaiting <=>
       \A p \in Proc : p \in Ids(timeoutQ) \/ (\E r \in Resource : p \in Ids(waitq[r]))
                         => proc[p].state = "WAITING"
BY EnqueuedIsInIds DEF RunnableInReady, QueuedIsWaiting, Runnable, InSomeWaitq

-----------------------------------------------------------------------------
(* The step of one process: p changes its state and its places, and what   *)
(* decides who runs is left alone. Nearly every service is such a step.    *)

\* What decides who runs stays, but for the lock and the call of SCHEDULER.
KeepsControl ==
  /\ UNCHANGED <<current, mode, initialized, count, started, eh, phm, ctx, nextCtx, scheduled>>
  /\ kpc' = kpc \/ (kpc = "idle" /\ kpc' = "events")
  /\ kpc # "idle" => lock' = lock
  /\ lock' > 0 => lock > 0 \/ eh.preempted = NoProc

MovesOnly(p) ==
  \A q \in Proc \ {p} :
    /\ proc'[q].state = proc[q].state
    /\ q \in Ids(ready') <=> q \in Ids(ready)
    /\ q \in Ids(timeoutQ') => q \in Ids(timeoutQ)
    /\ \A r \in Resource : q \in Ids(waitq'[r]) => q \in Ids(waitq[r])

\* p is where its new state says.
MovesTo(p) ==
  /\ proc'[p].state \in {"READY", "RUNNING"} <=> p \in Ids(ready')
  /\ p \in Ids(timeoutQ') => proc'[p].state = "WAITING"
  /\ \A r \in Resource : p \in Ids(waitq'[r]) =>
       proc'[p].state = "WAITING" /\ \A s \in Resource : p \in Ids(waitq'[s]) => s = r
  /\ p \in Created \/ proc'[p].state = "DORMANT"

\* What p may do if it is the current process or the one the error handler
\* interrupted, and before it is released.
MayMove(p) ==
  /\ p = current => \/ p \in Ids(ready') \/ ~ Runnable(p)
                    \/ kpc' = "events" /\ scheduled /\ ~ eh.running /\ lock' = 0
  /\ p = eh.preempted /\ lock' > 0 => p \in Ids(ready')
  /\ \/ mode = "NORMAL" /\ kpc # "starting"
     \/ /\ p \in Ids(timeoutQ') => p \in Ids(timeoutQ)
        /\ \A r \in Resource : p \in Ids(waitq'[r]) => p \in Ids(waitq[r])

LEMMA MovesPlaces ==
  ASSUME StatesInv, QueuesOK', NEW p \in Proc, MovesOnly(p), MovesTo(p), UNCHANGED count
  PROVE  Places'
<1> USE DEF MovesOnly, MovesTo
<1>1. /\ Ids(timeoutQ') \subseteq Proc
      /\ \A r \in Resource : Ids(waitq'[r]) \subseteq Proc
  BY QueueIds DEF QueuesOK
<1>2. WaitsForOne'
  BY <1>1 DEF WaitsForOne, StatesInv, Places
<1>3. RunnableInReady'
  <2>1. \A q \in Proc : proc'[q].state \in {"READY", "RUNNING"} <=> q \in Ids(ready')
    BY PlacesIds DEF StatesInv, Places
  <2> QED BY <2>1, EnqueuedIsInIds DEF RunnableInReady, Runnable
<1>4. QueuedIsWaiting'
  <2>1. \A q \in Proc : q \in Ids(timeoutQ') \/ (\E r \in Resource : q \in Ids(waitq'[r]))
                           => proc'[q].state = "WAITING"
    BY PlacesIds DEF StatesInv, Places
  <2> QED BY <2>1, EnqueuedIsInIds DEF QueuedIsWaiting, InSomeWaitq
<1>5. UncreatedDormant'
  BY DEF UncreatedDormant, Created, StatesInv, Places
<1> QED
  BY <1>2, <1>3, <1>4, <1>5 DEF Places

LEMMA OneProcess ==
  ASSUME StatesInv, QueuesOK', NEW p \in Proc, KeepsControl, MovesOnly(p), MovesTo(p), MayMove(p)
  PROVE  Places' /\ Control'
<1> USE DEF KeepsControl, MovesOnly, MovesTo, MayMove
<1>1. /\ Ids(timeoutQ') \subseteq Proc
      /\ \A r \in Resource : Ids(waitq'[r]) \subseteq Proc
  BY QueueIds DEF QueuesOK
<1>2. Places'
  BY MovesPlaces
<1>6. \A q \in Proc \ {p} : Runnable(q)' <=> Runnable(q)
  BY DEF Runnable
<1>7. p \in Ids(ready') => Runnable(p)'
  BY DEF Runnable
<1>8. CurrentRunnable'
  <2>1. current \in Proc \cup {NoProc}
    BY DEF StatesInv, TypeInv, TypeOK
  <2>2. current # NoProc => mode = "NORMAL" /\ kpc' # "starting"
    BY DEF StatesInv, Control, CurrentRunnable
  <2>3. CASE current # NoProc /\ Runnable(current)
    BY <1>6, <1>7, <2>1, <2>2, <2>3 DEF CurrentRunnable, Runnable
  <2>4. CASE current # NoProc /\ ~ Runnable(current)
    BY <2>2, <2>4 DEF CurrentRunnable, StatesInv, Control
  <2> QED BY <2>3, <2>4 DEF CurrentRunnable
<1>9. HolderRunnable'
  <2>1. eh.preempted \in Proc \cup {NoProc}
    BY DEF StatesInv, TypeInv, TypeOK
  <2>2. eh.preempted # NoProc /\ lock' > 0 => Runnable(eh.preempted)'
    BY <1>6, <1>7, <2>1 DEF StatesInv, Control, HolderRunnable, Runnable
  <2> QED BY <2>2 DEF StatesInv, Control, HolderRunnable, Runnable
<1>10. ContextScheduled'
  BY DEF StatesInv, Control, ContextScheduled
<1>11. StartingQueues'
  <2>1. CASE mode = "NORMAL" /\ kpc # "starting"
    BY <2>1 DEF StartingQueues
  <2>2. CASE ~ (mode = "NORMAL" /\ kpc # "starting")
    <3>1. /\ Ids(timeoutQ') \subseteq Ids(timeoutQ)
          /\ \A r \in Resource : Ids(waitq'[r]) \subseteq Ids(waitq[r])
      BY <1>1, <2>2
    <3>2. kpc' = "starting" <=> kpc = "starting"
      OBVIOUS
    <3>3. /\ \A r \in Resource : Ids(waitq[r]) = {}
          /\ Ids(timeoutQ) \subseteq {Order[i] : i \in 1..(IF kpc = "starting" THEN started ELSE 0)}
      BY <2>2 DEF StatesInv, Control, StartingQueues
    <3> QED BY <3>1, <3>2, <3>3 DEF StartingQueues
  <2> QED BY <2>1, <2>2
<1>12. NoCallbackRuns'
  BY DEF StatesInv, Control, NoCallbackRuns
<1> QED
  BY <1>2, <1>8, <1>9, <1>10, <1>11, <1>12 DEF Control

\* A step in which no process changes its state or its places.
LEMMA PlacesKept ==
  ASSUME Places, UNCHANGED <<ready, timeoutQ, waitq>>, \A p \in Proc : proc'[p].state = proc[p].state, Created \subseteq Created'
  PROVE  Places'
BY DEF Places, WaitsForOne, RunnableInReady, QueuedIsWaiting, UncreatedDormant, Runnable, InSomeWaitq

LEMMA NoProcess ==
  ASSUME StatesInv, KeepsControl, UNCHANGED <<ready, timeoutQ, waitq>>,
         \A p \in Proc : proc'[p].state = proc[p].state,
         kpc = "idle"
  PROVE  Places' /\ Control'
<1> USE DEF KeepsControl, StatesInv, Control
<1>1. Places'
  BY PlacesKept DEF Created
<1>2. current \in Proc \cup {NoProc} /\ eh.preempted \in Proc \cup {NoProc}
  BY DEF TypeInv, TypeOK
<1>3. CurrentRunnable'
  BY <1>2 DEF CurrentRunnable, Runnable
<1>4. HolderRunnable'
  BY <1>2 DEF HolderRunnable, Runnable
<1>5. ContextScheduled' /\ StartingQueues' /\ NoCallbackRuns'
  BY DEF ContextScheduled, StartingQueues, NoCallbackRuns
<1> QED
  BY <1>1, <1>3, <1>4, <1>5

\* Where a service starts from.
LEMMA AtCall ==
  ASSUME StatesInv, NEW service, Call(service)
  PROVE  /\ kpc = "idle" /\ scheduled
         /\ current # NoProc => current \in Proc /\ Runnable(current) /\ mode = "NORMAL" /\ current \in Created
         /\ eh.preempted # NoProc => eh.running
         /\ eh.preempted # NoProc /\ lock > 0 => Runnable(eh.preempted)
<1>1. kpc = "idle" /\ ctx \in Proc \cup {"ERRORHANDLER", "DEFAULT"}
  BY DEF Call, AtRest
<1>2. ctx # "MODULE"
  BY <1>1, ConstantTypes
<1>3. scheduled
  BY <1>1, <1>2 DEF StatesInv, Control, ContextScheduled
<1>4. current # NoProc => current \in Proc /\ Runnable(current) /\ mode = "NORMAL"
  BY <1>1 DEF StatesInv, Control, CurrentRunnable, TypeInv, TypeOK
<1>5. current # NoProc => current \in Created
  BY <1>4 DEF StatesInv, Places, UncreatedDormant, Runnable
<1> QED
  BY <1>1, <1>3, <1>4, <1>5 DEF StatesInv, Control, HolderRunnable

\* What the invariant says of the places of one process, in terms of Ids.
LEMMA PlaceOf ==
  ASSUME StatesInv, NEW p \in Proc
  PROVE  /\ Runnable(p) <=> proc[p].state \in {"READY", "RUNNING"}
         /\ proc[p].state \in {"READY", "RUNNING"} <=> p \in Ids(ready)
         /\ p \in Ids(timeoutQ) => proc[p].state = "WAITING"
         /\ \A r \in Resource : p \in Ids(waitq[r]) =>
              proc[p].state = "WAITING" /\ \A s \in Resource : p \in Ids(waitq[s]) => s = r
         /\ proc[p].state # "DORMANT" => p \in Created
         /\ proc[p] \in ProcessInfo /\ proc[p].prio \in Int /\ proc \in Table
         /\ ready \in DistinctQueue /\ timeoutQ \in DistinctQueue /\ deadlineQ \in DistinctQueue
         /\ waitq \in [Resource -> DistinctQueue]
<1>1. proc[p] \in ProcessInfo /\ proc[p].prio \in Int /\ proc \in Table
  BY ProcTypes DEF StatesInv, TypeInv
<1>2. ready \in DistinctQueue /\ timeoutQ \in DistinctQueue /\ deadlineQ \in DistinctQueue
      /\ waitq \in [Resource -> DistinctQueue]
  BY DEF StatesInv, TypeInv, QueuesOK
<1>3. \A r \in Resource : p \in Ids(waitq[r]) => \A s \in Resource : p \in Ids(waitq[s]) => s = r
  BY DEF StatesInv, Places, WaitsForOne
<1> QED
  BY <1>1, <1>2, <1>3, PlacesIds DEF StatesInv, Places, UncreatedDormant, Runnable

-----------------------------------------------------------------------------
(* The services.                                                           *)

LEMMA StopSelfStates ==
  ASSUME StatesInv, QueuesOK', STOP_SELF
  PROVE  Places' /\ Control'
<1> DEFINE p == current
<1>1. /\ kpc = "idle" /\ scheduled /\ p \in Proc /\ p \in Created /\ mode = "NORMAL"
      /\ ~ eh.running /\ eh.preempted = NoProc /\ lock' = 0 /\ kpc' = "events"
  BY AtCall DEF STOP_SELF, Yield
<1>2. /\ Ids(ready') = Ids(ready) \ {p} /\ Ids(timeoutQ') = Ids(timeoutQ) \ {p}
      /\ \A r \in Resource : Ids(waitq'[r]) = Ids(waitq[r]) \ {p}
  BY <1>1, PlaceOf, QueueIds DEF STOP_SELF, RemoveFromAll
<1>3. /\ proc'[p].state = "DORMANT"
      /\ \A q \in Proc \ {p} : proc'[q].state = proc[q].state
  BY <1>1, PlaceOf DEF STOP_SELF, ProcessInfo, Table
<1>4. UNCHANGED <<current, mode, initialized, count, started, eh, phm, ctx, nextCtx, scheduled>>
  BY DEF STOP_SELF, partition, health, core
<1> HIDE DEF p
<1>5. KeepsControl /\ MayMove(p)
  BY <1>1, <1>4, ConstantTypes DEF KeepsControl, MayMove
<1>6. MovesOnly(p) /\ MovesTo(p)
  BY <1>1, <1>2, <1>3 DEF MovesOnly, MovesTo
<1> QED
  BY <1>1, <1>5, <1>6, OneProcess

LEMMA StopStates ==
  ASSUME StatesInv, QueuesOK', NEW p \in Proc, STOP(p)
  PROVE  Places' /\ Control'
<1>1. /\ kpc = "idle" /\ p \in Created /\ p # current
      /\ eh.preempted # NoProc => eh.running
      /\ lock' = IF eh.running /\ p = eh.preempted THEN 0 ELSE lock
  BY AtCall DEF STOP, Alive
<1>2. /\ Ids(ready') = Ids(ready) \ {p} /\ Ids(timeoutQ') = Ids(timeoutQ) \ {p}
      /\ \A r \in Resource : Ids(waitq'[r]) = Ids(waitq[r]) \ {p}
  BY <1>1, PlaceOf, QueueIds DEF STOP, RemoveFromAll
<1>3. /\ proc'[p].state = "DORMANT"
      /\ \A q \in Proc \ {p} : proc'[q].state = proc[q].state
  BY <1>1, PlaceOf DEF STOP, ProcessInfo, Table
<1>4. UNCHANGED <<current, mode, initialized, count, started, eh, phm, kpc, ctx, nextCtx, scheduled>>
  BY DEF STOP, partition, health, core, kernel
<1>5. p # NoProc /\ lock \in Int
  BY ConstantTypes DEF StatesInv, TypeInv, TypeOK
<1>6. KeepsControl /\ MayMove(p)
  BY <1>1, <1>2, <1>4, <1>5 DEF KeepsControl, MayMove
<1>7. MovesOnly(p) /\ MovesTo(p)
  BY <1>1, <1>2, <1>3 DEF MovesOnly, MovesTo
<1> QED
  BY <1>6, <1>7, OneProcess

LEMMA SuspendSelfStates ==
  ASSUME StatesInv, QueuesOK', NEW t \in TimeOuts, SUSPEND_SELF(t)
  PROVE  Places' /\ Control'
<1> DEFINE p == current
           at == now + t
<1>1. /\ kpc = "idle" /\ scheduled /\ p \in Proc /\ p \in Created /\ mode = "NORMAL"
      /\ ~ eh.running /\ eh.preempted = NoProc /\ lock = 0 /\ kpc' = "events"
  BY AtCall DEF SUSPEND_SELF, MayBlock, Yield
<1>2. /\ ready' = Dequeue(ready, p) /\ waitq' = waitq
      /\ timeoutQ' = timeoutQ \/ timeoutQ' = Enqueue(timeoutQ, TRUE, p, at)
  BY DEF SUSPEND_SELF
<1>3. at \in Int
  BY ConstantTypes DEF StatesInv, TypeInv, TypeOK
<1>4. /\ proc'[p].state = "WAITING"
      /\ \A q \in Proc \ {p} : proc'[q].state = proc[q].state
  <2>1. \/ proc' = [proc EXCEPT ![p].state = "WAITING", ![p].suspended = TRUE,
                                ![p].suspendedTimeout = TRUE, ![p].woken = FALSE,
                                ![p].tail = "suspendTimed"]
        \/ proc' = [proc EXCEPT ![p].state = "WAITING", ![p].suspended = TRUE, ![p].tail = "suspend"]
    BY DEF SUSPEND_SELF
  <2> HIDE DEF p
  <2> QED BY <1>1, <2>1, PlaceOf DEF ProcessInfo, Table
<1>5. UNCHANGED <<lock, current, mode, initialized, count, started, eh, phm, ctx, nextCtx, scheduled>>
  BY DEF SUSPEND_SELF, partition, health, core, preemption
<1> HIDE DEF p, at
<1>6. KeepsControl /\ MayMove(p)
  BY <1>1, <1>5, ConstantTypes DEF KeepsControl, MayMove
<1>7. /\ Ids(ready') = Ids(ready) \ {p} /\ Ids(timeoutQ') \subseteq Ids(timeoutQ) \cup {p}
  <2>1. ready \in DistinctQueue /\ timeoutQ \in DistinctQueue
    BY <1>1, PlaceOf
  <2>2. Ids(Enqueue(timeoutQ, TRUE, p, at)) = Ids(timeoutQ) \cup {p}
    BY <1>1, <1>3, <2>1, QueueIds
  <2> QED BY <1>2, <2>1, <2>2, QueueIds
<1>8. MovesOnly(p) /\ MovesTo(p)
  BY <1>1, <1>2, <1>4, <1>7, PlaceOf DEF MovesOnly, MovesTo
<1> QED
  BY <1>1, <1>6, <1>8, OneProcess

LEMMA SuspendStates ==
  ASSUME StatesInv, QueuesOK', NEW p \in Proc, SUSPEND(p)
  PROVE  Places' /\ Control'
<1>1. /\ kpc = "idle" /\ p \in Created /\ p # current /\ ~ (lock > 0 /\ p = eh.preempted)
      /\ UNCHANGED <<timeoutQ, waitq>>
  BY AtCall DEF SUSPEND, Alive
<1>2. Ids(ready') = Ids(ready) \ {p}
  BY PlaceOf, QueueIds DEF SUSPEND
<1>3. /\ proc'[p].state = "WAITING"
      /\ \A q \in Proc \ {p} : proc'[q].state = proc[q].state
  BY PlaceOf DEF SUSPEND, ProcessInfo, Table
<1>4. UNCHANGED <<lock, current, mode, initialized, count, started, eh, phm, kpc, ctx, nextCtx, scheduled>>
  BY DEF SUSPEND, preemption, partition, health, core, kernel
<1>5. KeepsControl /\ MayMove(p)
  BY <1>1, <1>4 DEF KeepsControl, MayMove
<1>6. MovesOnly(p) /\ MovesTo(p)
  BY <1>1, <1>2, <1>3, PlaceOf DEF MovesOnly, MovesTo
<1> QED
  BY <1>5, <1>6, OneProcess

LEMMA ResumeStates ==
  ASSUME StatesInv, QueuesOK', NEW p \in Proc, RESUME(p)
  PROVE  Places' /\ Control'
<1> DEFINE T == IF proc[p].suspendedTimeout THEN Dequeue(timeoutQ, p) ELSE timeoutQ
<1>1. /\ kpc = "idle" /\ p \in Created /\ p # current /\ timeoutQ' = T /\ waitq' = waitq
      /\ proc[p].state # "DORMANT"
  BY AtCall DEF RESUME, Alive
<1>2. \/ /\ ~ StillWaits(p, T)
         /\ ready' = Enqueue(ready, FALSE, p, proc[p].prio) /\ proc'[p].state = "READY"
      \/ ready' = ready /\ proc'[p].state = proc[p].state
  BY PlaceOf DEF RESUME, ProcessInfo, Table
<1>3. \A q \in Proc \ {p} : proc'[q].state = proc[q].state
  BY PlaceOf DEF RESUME, ProcessInfo, Table
<1>4. /\ UNCHANGED <<lock, current, mode, initialized, count, started, eh, phm, ctx, nextCtx, scheduled>>
      /\ kpc' \in {kpc, "events"}
  BY DEF RESUME, preemption, partition, health, core, kernel, YieldIf, Yield
<1>5. Ids(T) \subseteq Ids(timeoutQ) /\ \A q \in Proc \ {p} : q \in Ids(T) <=> q \in Ids(timeoutQ)
  BY PlaceOf, QueueIds
<1> HIDE DEF T
<1>6. CASE ready' = ready /\ proc'[p].state = proc[p].state
  <2>1. p = eh.preempted /\ lock > 0 => p \in Ids(ready)
    BY <1>1, PlaceOf, ConstantTypes DEF StatesInv, Control, HolderRunnable
  <2>2. KeepsControl /\ MayMove(p)
    BY <1>1, <1>4, <1>5, <1>6, <2>1 DEF KeepsControl, MayMove
  <2>3. MovesOnly(p) /\ MovesTo(p)
    BY <1>1, <1>3, <1>5, <1>6, PlaceOf DEF MovesOnly, MovesTo
  <2> QED BY <2>2, <2>3, OneProcess
<1>7. CASE /\ ~ StillWaits(p, T)
           /\ ready' = Enqueue(ready, FALSE, p, proc[p].prio) /\ proc'[p].state = "READY"
  <2>1. Ids(ready') = Ids(ready) \cup {p}
    <3>1. ready \in DistinctQueue /\ proc[p].prio \in Int
      BY PlaceOf
    <3>2. Ids(Enqueue(ready, FALSE, p, proc[p].prio)) = Ids(ready) \cup {p}
      BY <3>1, QueueIds
    <3> QED BY <1>7, <3>2
  <2>2. p \notin Ids(T) /\ \A r \in Resource : p \notin Ids(waitq[r])
    BY <1>7, EnqueuedIsInIds DEF StillWaits
  <2>3. KeepsControl /\ MayMove(p)
    BY <1>1, <1>4, <1>5, <2>1 DEF KeepsControl, MayMove
  <2>4. MovesOnly(p) /\ MovesTo(p)
    BY <1>1, <1>3, <1>5, <1>7, <2>1, <2>2 DEF MovesOnly, MovesTo
  <2> QED BY <2>3, <2>4, OneProcess
<1> QED
  BY <1>2, <1>6, <1>7

LEMMA SetPriorityStates ==
  ASSUME StatesInv, QueuesOK', NEW p \in Proc, NEW prio \in Priorities, SET_PRIORITY(p, prio)
  PROVE  Places' /\ Control'
<1>1. kpc = "idle" /\ p \in Created /\ prio \in Int
  BY AtCall, ConstantTypes DEF SET_PRIORITY, Alive
<1>2. Ids(ready') = Ids(ready)
  <2>1. CASE Enqueued(ready, p)
    <3>1. Dequeue(ready, p) \in DistinctQueue /\ Ids(Dequeue(ready, p)) = Ids(ready) \ {p}
      BY PlaceOf, QueueIds, DistinctTypes
    <3>2. Ids(Enqueue(Dequeue(ready, p), FALSE, p, prio)) = Ids(Dequeue(ready, p)) \cup {p}
      BY <1>1, <3>1, QueueIds
    <3> QED BY <2>1, <3>1, <3>2, EnqueuedIsInIds DEF SET_PRIORITY
  <2>2. CASE ~ Enqueued(ready, p)
    BY <2>2 DEF SET_PRIORITY
  <2> QED BY <2>1, <2>2
<1>3. \A r \in Resource : Ids(waitq'[r]) = Ids(waitq[r])
  <2> SUFFICES ASSUME NEW r \in Resource PROVE Ids(waitq'[r]) = Ids(waitq[r])
    OBVIOUS
  <2>1. CASE r \notin Fifo /\ Enqueued(waitq[r], p)
    <3>1. Dequeue(waitq[r], p) \in DistinctQueue /\ Ids(Dequeue(waitq[r], p)) = Ids(waitq[r]) \ {p}
      BY PlaceOf, QueueIds, DistinctTypes
    <3>2. Ids(Enqueue(Dequeue(waitq[r], p), FALSE, p, prio)) = Ids(Dequeue(waitq[r], p)) \cup {p}
      BY <1>1, <3>1, QueueIds
    <3> QED BY <2>1, <3>1, <3>2, EnqueuedIsInIds DEF SET_PRIORITY
  <2>2. CASE ~ (r \notin Fifo /\ Enqueued(waitq[r], p))
    BY <2>2 DEF SET_PRIORITY
  <2> QED BY <2>1, <2>2
<1>4. \A q \in Proc : proc'[q].state = proc[q].state
  BY PlaceOf DEF SET_PRIORITY, ProcessInfo, Table
<1>5. /\ UNCHANGED <<timeoutQ, lock, current, mode, initialized, count, started, eh, phm, ctx, nextCtx, scheduled>>
      /\ kpc' \in {kpc, "events"}
  BY DEF SET_PRIORITY, preemption, partition, health, core, kernel, YieldIf, Yield
<1>6. KeepsControl /\ MayMove(p)
  <2>1. /\ p = current => p \in Ids(ready) \/ ~ Runnable(p)
        /\ p = eh.preempted /\ lock > 0 => p \in Ids(ready)
    BY PlaceOf, ConstantTypes DEF StatesInv, Control, HolderRunnable
  <2> QED BY <1>1, <1>2, <1>3, <1>5, <2>1 DEF KeepsControl, MayMove
<1>7. MovesOnly(p) /\ MovesTo(p)
  BY <1>1, <1>2, <1>3, <1>4, <1>5, PlaceOf DEF MovesOnly, MovesTo
<1> QED
  BY <1>6, <1>7, OneProcess

\* Release, in DELAYED_START and in STARTPROCESSSCHEDULER.
LEMMA ReleasePlaces ==
  ASSUME NEW p \in Proc, NEW P \in Table, NEW R \in DistinctQueue, NEW D \in DistinctQueue,
         NEW T \in DistinctQueue, now \in Nat, Release(p, P, R, D, T)
  PROVE  /\ \A q \in Proc \ {p} : proc'[q].state = P[q].state
         /\ \/ /\ proc'[p].state = "WAITING"
               /\ ready' = R /\ Ids(timeoutQ') = Ids(T) \cup {p}
            \/ /\ proc'[p].state = "READY"
               /\ Ids(ready') = Ids(R) \cup {p} /\ timeoutQ' = T
<1>1. P[p] \in ProcessInfo /\ P[p].delay \in Int /\ P[p].prio \in Int
  BY DEF Table, ProcessInfo
<1>2. \A s \in NextPeriodStart : s + P[p].delay \in Int
  BY <1>1, ConstantTypes DEF NextPeriodStart
<1>3. now + P[p].delay \in Int
  BY <1>1
<1>4. ASSUME NEW at \in Int, timeoutQ' = Enqueue(T, TRUE, p, at), ready' = R,
             proc' = [P EXCEPT ![p].state = "WAITING", ![p].release = at,
                               ![p].deadline = DeadlineAt(p, at), ![p].woken = FALSE]
      PROVE  /\ \A q \in Proc \ {p} : proc'[q].state = P[q].state
             /\ proc'[p].state = "WAITING" /\ Ids(timeoutQ') = Ids(T) \cup {p}
  <2>1. Ids(timeoutQ') = Ids(T) \cup {p}
    BY <1>4, QueueIds
  <2> DEFINE d == DeadlineAt(p, at)
  <2>2. proc' = [P EXCEPT ![p].state = "WAITING", ![p].release = at, ![p].deadline = d,
                          ![p].woken = FALSE]
    BY <1>4
  <2> HIDE DEF d
  <2> QED BY <1>1, <2>1, <2>2 DEF Table, ProcessInfo
<1>5. ASSUME ready' = Enqueue(R, FALSE, p, P[p].prio), timeoutQ' = T,
             proc' = [P EXCEPT ![p].state = "READY", ![p].release = now,
                               ![p].deadline = DeadlineAt(p, now)]
      PROVE  /\ \A q \in Proc \ {p} : proc'[q].state = P[q].state
             /\ proc'[p].state = "READY" /\ Ids(ready') = Ids(R) \cup {p}
  <2>1. Ids(ready') = Ids(R) \cup {p}
    BY <1>1, <1>5, QueueIds
  <2> DEFINE d == DeadlineAt(p, now)
  <2>2. proc' = [P EXCEPT ![p].state = "READY", ![p].release = now, ![p].deadline = d]
    BY <1>5
  <2> HIDE DEF d
  <2> QED BY <1>1, <2>1, <2>2 DEF Table, ProcessInfo
<1>6. CASE \E at \in Int : /\ timeoutQ' = Enqueue(T, TRUE, p, at) /\ ready' = R
                          /\ proc' = [P EXCEPT ![p].state = "WAITING", ![p].release = at,
                               ![p].deadline = DeadlineAt(p, at), ![p].woken = FALSE]
  BY <1>4, <1>6
<1>7. CASE /\ ready' = Enqueue(R, FALSE, p, P[p].prio) /\ timeoutQ' = T
           /\ proc' = [P EXCEPT ![p].state = "READY", ![p].release = now,
                                ![p].deadline = DeadlineAt(p, now)]
  BY <1>5, <1>7
<1> QED
  BY <1>2, <1>3, <1>6, <1>7 DEF Release

LEMMA DelayedStartStates ==
  ASSUME StatesInv, QueuesOK', NEW p \in Proc, NEW d \in Delays, DELAYED_START(p, d)
  PROVE  Places' /\ Control'
<1> DEFINE P == [proc EXCEPT ![p].suspended = FALSE, ![p].suspendedTimeout = FALSE,
                             ![p].prio = BasePriority[p], ![p].delay = d, ![p].tail = "none"]
<1>1. /\ kpc = "idle" /\ p \in Created /\ proc[p].state = "DORMANT"
  BY AtCall DEF DELAYED_START
<1>2. /\ UNCHANGED <<lock, current, mode, initialized, count, started, eh, phm, ctx, nextCtx, scheduled>>
      /\ kpc' \in {kpc, "events"}
  BY DEF DELAYED_START, preemption, partition, health, core, kernel, YieldIf, Yield
<1>3. p # current /\ ~ (p = eh.preempted /\ lock > 0)
  <2>1. /\ current # NoProc => Runnable(current)
        /\ eh.preempted # NoProc /\ lock > 0 => Runnable(eh.preempted)
    BY AtCall DEF DELAYED_START
  <2> QED BY <1>1, <2>1, ConstantTypes DEF Runnable
<1>4. P \in Table /\ \A q \in Proc : P[q].state = proc[q].state
  <2>1. P \in Table
    BY StartedTable DEF StatesInv, TypeInv
  <2> DEFINE base == BasePriority[p]
  <2>2. P = [proc EXCEPT ![p].suspended = FALSE, ![p].suspendedTimeout = FALSE,
                         ![p].prio = base, ![p].delay = d, ![p].tail = "none"]
    OBVIOUS
  <2> HIDE DEF P, base
  <2>3. \A q \in Proc : P[q].state = proc[q].state
    BY <2>2, PlaceOf DEF ProcessInfo, Table
  <2> QED BY <2>1, <2>3
<1>5. /\ Dequeue(ready, p) \in DistinctQueue /\ Dequeue(deadlineQ, p) \in DistinctQueue
      /\ Dequeue(timeoutQ, p) \in DistinctQueue
      /\ Ids(Dequeue(ready, p)) = Ids(ready) \ {p} /\ Ids(Dequeue(timeoutQ, p)) = Ids(timeoutQ) \ {p}
      /\ \A r \in Resource : Ids(Dequeue(waitq[r], p)) = Ids(waitq[r]) \ {p}
  BY PlaceOf, DistinctTypes, QueueIds
<1>6. \A r \in Resource : Ids(waitq'[r]) = Ids(waitq[r]) \ {p}
  BY <1>5 DEF DELAYED_START, RemoveFromAll
<1>7. /\ \A q \in Proc \ {p} : proc'[q].state = proc[q].state
      /\ \/ /\ proc'[p].state = "WAITING" /\ mode = "NORMAL"
            /\ Ids(ready') = Ids(ready) \ {p} /\ Ids(timeoutQ') = Ids(timeoutQ) \cup {p}
         \/ /\ proc'[p].state = "READY" /\ mode = "NORMAL"
            /\ Ids(ready') = Ids(ready) \cup {p} /\ Ids(timeoutQ') = Ids(timeoutQ) \ {p}
         \/ /\ proc'[p].state = "WAITING"
            /\ Ids(ready') = Ids(ready) \ {p} /\ Ids(timeoutQ') = Ids(timeoutQ) \ {p}
  <2>1. CASE /\ mode = "NORMAL"
             /\ Release(p, P, Dequeue(ready, p), Dequeue(deadlineQ, p), Dequeue(timeoutQ, p))
    <3> HIDE DEF P
    <3> DEFINE Done == /\ proc'[p].state = "WAITING"
                       /\ ready' = Dequeue(ready, p)
                       /\ Ids(timeoutQ') = Ids(Dequeue(timeoutQ, p)) \cup {p}
    <3>1. /\ \A q \in Proc \ {p} : proc'[q].state = P[q].state
          /\ \/ Done
             \/ /\ proc'[p].state = "READY"
                /\ Ids(ready') = Ids(Dequeue(ready, p)) \cup {p} /\ timeoutQ' = Dequeue(timeoutQ, p)
      BY <1>4, <1>5, <2>1, ReleasePlaces DEF StatesInv, TypeInv, TypeOK
    <3> QED BY <1>4, <1>5, <2>1, <3>1
  <2>2. CASE proc' = [P EXCEPT ![p].state = "WAITING"] /\ RemoveFromAll(p)
    <3> HIDE DEF P
    <3>1. /\ proc'[p].state = "WAITING"
          /\ \A q \in Proc \ {p} : proc'[q].state = P[q].state
      BY <1>4, <2>2 DEF Table, ProcessInfo
    <3> QED BY <1>4, <1>5, <2>2, <3>1 DEF RemoveFromAll
  <2> QED BY <2>1, <2>2 DEF DELAYED_START
<1> HIDE DEF P
<1>8. KeepsControl /\ MayMove(p)
  BY <1>1, <1>2, <1>3, <1>6, <1>7 DEF KeepsControl, MayMove
<1>9. MovesOnly(p) /\ MovesTo(p)
  BY <1>1, <1>6, <1>7 DEF MovesOnly, MovesTo
<1> QED
  BY <1>8, <1>9, OneProcess

LEMMA TimedWaitStates ==
  ASSUME StatesInv, QueuesOK', NEW d \in Delays, TIMED_WAIT(d)
  PROVE  Places' /\ Control'
<1> DEFINE p == current
           at == now + d
<1>1. /\ kpc = "idle" /\ scheduled /\ p \in Proc /\ p \in Created /\ mode = "NORMAL" /\ Runnable(p)
      /\ ~ eh.running /\ eh.preempted = NoProc /\ lock = 0 /\ kpc' = "events"
  BY AtCall DEF TIMED_WAIT, MayBlock, Yield
<1>2. at \in Int
  BY ConstantTypes DEF StatesInv, TypeInv, TypeOK
<1>3. UNCHANGED <<waitq, lock, current, mode, initialized, count, started, eh, phm, ctx, nextCtx, scheduled>>
  BY DEF TIMED_WAIT, partition, health, core, preemption
<1>4. /\ ready \in DistinctQueue /\ timeoutQ \in DistinctQueue /\ proc[p].prio \in Int
      /\ p \in Ids(ready) /\ p \notin Ids(timeoutQ) /\ \A r \in Resource : p \notin Ids(waitq[r])
  BY <1>1, PlaceOf
<1>5. Dequeue(ready, p) \in DistinctQueue /\ Ids(Dequeue(ready, p)) = Ids(ready) \ {p}
  BY <1>4, QueueIds, DistinctTypes
<1>6. CASE /\ ready' = Enqueue(Dequeue(ready, p), FALSE, p, proc[p].prio) /\ timeoutQ' = timeoutQ
           /\ proc' = [proc EXCEPT ![p].state = "READY"]
  <2> HIDE DEF p, at
  <2>1. Ids(Enqueue(Dequeue(ready, p), FALSE, p, proc[p].prio)) = Ids(Dequeue(ready, p)) \cup {p}
    BY <1>1, <1>4, <1>5, QueueIds
  <2>2. Ids(ready') = Ids(ready)
    BY <1>4, <1>5, <1>6, <2>1
  <2>3. proc'[p].state = "READY" /\ \A q \in Proc \ {p} : proc'[q].state = proc[q].state
    BY <1>1, <1>6, PlaceOf DEF ProcessInfo, Table
  <2>4. KeepsControl /\ MayMove(p)
    BY <1>1, <1>3, ConstantTypes DEF KeepsControl, MayMove
  <2>5. MovesOnly(p) /\ MovesTo(p)
    BY <1>1, <1>3, <1>4, <1>6, <2>2, <2>3 DEF MovesOnly, MovesTo
  <2> QED BY <1>1, <2>4, <2>5, OneProcess
<1>7. CASE /\ ready' = Dequeue(ready, p) /\ timeoutQ' = Enqueue(timeoutQ, TRUE, p, at)
           /\ proc' = [proc EXCEPT ![p].state = "WAITING", ![p].woken = FALSE, ![p].tail = "timed"]
  <2> HIDE DEF p, at
  <2>1. Ids(timeoutQ') = Ids(timeoutQ) \cup {p}
    BY <1>1, <1>2, <1>4, <1>7, QueueIds
  <2>2. proc'[p].state = "WAITING" /\ \A q \in Proc \ {p} : proc'[q].state = proc[q].state
    BY <1>1, <1>7, PlaceOf DEF ProcessInfo, Table
  <2>3. KeepsControl /\ MayMove(p)
    BY <1>1, <1>3, ConstantTypes DEF KeepsControl, MayMove
  <2>4. MovesOnly(p) /\ MovesTo(p)
    BY <1>1, <1>3, <1>4, <1>5, <1>7, <2>1, <2>2 DEF MovesOnly, MovesTo
  <2> QED BY <1>1, <2>3, <2>4, OneProcess
<1> QED
  BY <1>6, <1>7 DEF TIMED_WAIT

LEMMA PeriodicWaitStates ==
  ASSUME StatesInv, QueuesOK', PERIODIC_WAIT
  PROVE  Places' /\ Control'
<1> DEFINE p == current
           at == NextRelease(p)
           d == DeadlineAt(p, at)
<1>1. /\ kpc = "idle" /\ scheduled /\ p \in Proc /\ p \in Created /\ mode = "NORMAL"
      /\ ~ eh.running /\ eh.preempted = NoProc /\ lock = 0 /\ kpc' = "events"
  BY AtCall DEF PERIODIC_WAIT, MayBlock, Yield
<1>2. at \in Int
  BY PeriodicWaitTable DEF StatesInv, TypeInv
<1>3. UNCHANGED <<waitq, lock, current, mode, initialized, count, started, eh, phm, ctx, nextCtx, scheduled>>
  BY DEF PERIODIC_WAIT, partition, health, core, preemption
<1>4. /\ ready' = Dequeue(ready, p) /\ timeoutQ' = Enqueue(timeoutQ, TRUE, p, at)
      /\ proc' = [proc EXCEPT ![p].state = "WAITING", ![p].release = at, ![p].deadline = d,
                              ![p].woken = FALSE]
  BY DEF PERIODIC_WAIT
<1> HIDE DEF p, at, d
<1>5. ready \in DistinctQueue /\ timeoutQ \in DistinctQueue
  BY <1>1, PlaceOf
<1>6. Ids(ready') = Ids(ready) \ {p} /\ Ids(timeoutQ') = Ids(timeoutQ) \cup {p}
  BY <1>1, <1>2, <1>4, <1>5, QueueIds
<1>7. proc'[p].state = "WAITING" /\ \A q \in Proc \ {p} : proc'[q].state = proc[q].state
  BY <1>1, <1>4, PlaceOf DEF ProcessInfo, Table
<1>8. KeepsControl /\ MayMove(p)
  BY <1>1, <1>3, ConstantTypes DEF KeepsControl, MayMove
<1>9. MovesOnly(p) /\ MovesTo(p)
  BY <1>1, <1>3, <1>6, <1>7, PlaceOf DEF MovesOnly, MovesTo
<1> QED
  BY <1>1, <1>8, <1>9, OneProcess

LEMMA WaitResourceStates ==
  ASSUME StatesInv, QueuesOK', NEW r \in Resource, NEW t \in TimeOuts,
         Call("WAIT_RESOURCE"), WAIT_RESOURCE(r, t)
  PROVE  Places' /\ Control'
<1> DEFINE p == current
           at == now + t
           key == IF r \in Fifo THEN MinPriority ELSE proc[p].prio
<1>1. /\ kpc = "idle" /\ scheduled /\ p \in Proc /\ p \in Created /\ mode = "NORMAL" /\ Runnable(p)
      /\ ~ eh.running /\ eh.preempted = NoProc /\ lock = 0 /\ kpc' = "events"
  BY AtCall DEF WAIT_RESOURCE, MayBlock, Yield
<1>2. at \in Int /\ key \in Int
  BY <1>1, ConstantTypes, PlaceOf DEF MinPriority, StatesInv, TypeInv, TypeOK
<1>3. UNCHANGED <<lock, current, mode, initialized, count, started, eh, phm, ctx, nextCtx, scheduled>>
  BY DEF WAIT_RESOURCE, partition, health, core, preemption
<1>4. /\ ready' = Dequeue(ready, p)
      /\ timeoutQ' = timeoutQ \/ timeoutQ' = Enqueue(timeoutQ, TRUE, p, at)
      /\ waitq' = [waitq EXCEPT ![r] = Enqueue(@, FALSE, p, key)]
      /\ \/ proc' = [proc EXCEPT ![p].state = "WAITING", ![p].woken = FALSE, ![p].granted = FALSE,
                                 ![p].tail = "resource"]
         \/ proc' = [proc EXCEPT ![p].state = "WAITING", ![p].granted = FALSE, ![p].tail = "ever"]
  BY DEF WAIT_RESOURCE
<1> HIDE DEF p, at, key
<1>5. /\ ready \in DistinctQueue /\ timeoutQ \in DistinctQueue /\ waitq \in [Resource -> DistinctQueue]
      /\ \A s \in Resource : p \notin Ids(waitq[s])
  BY <1>1, PlaceOf
<1>6. /\ Ids(Enqueue(waitq[r], FALSE, p, key)) = Ids(waitq[r]) \cup {p}
      /\ Ids(Enqueue(timeoutQ, TRUE, p, at)) = Ids(timeoutQ) \cup {p}
      /\ Ids(Dequeue(ready, p)) = Ids(ready) \ {p}
  BY <1>1, <1>2, <1>5, QueueIds
<1>7. \A s \in Resource : waitq'[s] = IF s = r THEN Enqueue(waitq[r], FALSE, p, key) ELSE waitq[s]
  BY <1>4, <1>5
<1>8. \A s \in Resource : Ids(waitq'[s]) = IF s = r THEN Ids(waitq[r]) \cup {p} ELSE Ids(waitq[s])
  BY <1>6, <1>7
<1>9. proc'[p].state = "WAITING" /\ \A q \in Proc \ {p} : proc'[q].state = proc[q].state
  BY <1>1, <1>4, PlaceOf DEF ProcessInfo, Table
<1>10. Ids(ready') = Ids(ready) \ {p} /\ Ids(timeoutQ') \subseteq Ids(timeoutQ) \cup {p}
  BY <1>4, <1>6
<1>11. KeepsControl /\ MayMove(p)
  BY <1>1, <1>3, ConstantTypes DEF KeepsControl, MayMove
<1>12. MovesOnly(p) /\ MovesTo(p)
  BY <1>1, <1>5, <1>8, <1>9, <1>10 DEF MovesOnly, MovesTo
<1> QED
  BY <1>1, <1>11, <1>12, OneProcess

\* A process that leaves queues it waits in without changing its state, or
\* becomes READY after it has left them all.
LEMMA SignalStates ==
  ASSUME StatesInv, QueuesOK', NEW r \in Resource, NEW b, kpc = "idle", SIGNAL_RESOURCE(r, b)
  PROVE  Places' /\ Control'
<1> DEFINE p == Head(waitq[r]).id
<1>1. waitq[r] \in DistinctQueue /\ waitq[r] # <<>> /\ waitq \in [Resource -> DistinctQueue]
  BY DEF SIGNAL_RESOURCE, SignalHead, StatesInv, TypeInv, QueuesOK
<1>2. p \in Ids(waitq[r]) /\ p \in Proc
  BY <1>1, QueueIds
<1>3. /\ UNCHANGED <<lock, current, mode, initialized, count, started, eh, phm, ctx, nextCtx, scheduled>>
      /\ kpc' \in {kpc, "events"}
  BY DEF SIGNAL_RESOURCE, partition, health, core, preemption, kernel, YieldIf, Yield
<1>4. /\ timeoutQ' = Dequeue(timeoutQ, p)
      /\ waitq' = [waitq EXCEPT ![r] = Dequeue(@, p)]
      /\ \/ /\ proc' = [proc EXCEPT ![p].state = "READY", ![p].granted = TRUE]
            /\ ready' = Enqueue(ready, FALSE, p, proc[p].prio)
         \/ proc' = [proc EXCEPT ![p].granted = TRUE] /\ ready' = ready
  BY DEF SIGNAL_RESOURCE, SignalHead, MakeReady
<1> HIDE DEF p
<1>5. /\ proc[p].state = "WAITING" /\ p \in Created /\ p \notin Ids(ready)
      /\ \A s \in Resource : p \in Ids(waitq[s]) => s = r
      /\ ready \in DistinctQueue /\ timeoutQ \in DistinctQueue /\ proc[p].prio \in Int
  BY <1>2, PlaceOf
<1>6. /\ Ids(timeoutQ') = Ids(timeoutQ) \ {p}
      /\ \A s \in Resource : Ids(waitq'[s]) = Ids(waitq[s]) \ {p}
  <2>1. Ids(timeoutQ') = Ids(timeoutQ) \ {p}
    BY <1>4, <1>5, QueueIds
  <2>2. waitq'[r] = Dequeue(waitq[r], p) /\ \A s \in Resource \ {r} : waitq'[s] = waitq[s]
    BY <1>1, <1>4
  <2>3. Ids(waitq'[r]) = Ids(waitq[r]) \ {p}
    BY <1>1, <2>2, QueueIds
  <2> QED BY <1>5, <2>1, <2>2, <2>3
<1>7. \/ proc'[p].state = "READY" /\ Ids(ready') = Ids(ready) \cup {p}
      \/ proc'[p].state = "WAITING" /\ ready' = ready
  <2>1. Ids(Enqueue(ready, FALSE, p, proc[p].prio)) = Ids(ready) \cup {p}
    BY <1>2, <1>5, QueueIds
  <2>2. CASE proc' = [proc EXCEPT ![p].state = "READY", ![p].granted = TRUE]
             /\ ready' = Enqueue(ready, FALSE, p, proc[p].prio)
    <3>1. proc'[p].state = "READY"
      BY <1>2, <2>2, PlaceOf DEF ProcessInfo, Table
    <3> QED BY <2>1, <2>2, <3>1
  <2>3. CASE proc' = [proc EXCEPT ![p].granted = TRUE] /\ ready' = ready
    <3>1. proc'[p].state = proc[p].state
      BY <1>2, <2>3, PlaceOf DEF ProcessInfo, Table
    <3> QED BY <1>5, <2>3, <3>1
  <2> QED BY <1>4, <2>2, <2>3
<1>8. \A q \in Proc \ {p} : proc'[q].state = proc[q].state
  BY <1>2, <1>4, PlaceOf DEF ProcessInfo, Table
<1>9. p = eh.preempted /\ lock > 0 => FALSE
  BY <1>2, <1>5, ConstantTypes DEF StatesInv, Control, HolderRunnable, Runnable
<1>10. KeepsControl /\ MayMove(p)
  BY <1>3, <1>5, <1>6, <1>7, <1>9 DEF KeepsControl, MayMove, Runnable
<1>11. MovesOnly(p) /\ MovesTo(p)
  BY <1>5, <1>6, <1>7, <1>8 DEF MovesOnly, MovesTo
<1> QED
  BY <1>2, <1>10, <1>11, OneProcess

LEMMA TimeoutStates ==
  ASSUME StatesInv, QueuesOK', Timeout
  PROVE  Places' /\ Control'
<1> DEFINE p == Head(timeoutQ).id
<1>1. timeoutQ \in DistinctQueue /\ timeoutQ # <<>> /\ waitq \in [Resource -> DistinctQueue]
  BY DEF Timeout, Due, StatesInv, TypeInv, QueuesOK
<1>2. p \in Ids(timeoutQ) /\ p \in Proc
  BY <1>1, QueueIds
<1>3. UNCHANGED <<lock, current, mode, initialized, count, started, eh, phm, kpc, ctx, nextCtx, scheduled>>
  BY DEF Timeout, partition, health, core, preemption, kernel
<1>4. kpc = "timeouts" /\ mode = "NORMAL"
  BY DEF Timeout, StatesInv, Control, ContextScheduled
<1>5. /\ timeoutQ' = Dequeue(timeoutQ, p)
      /\ waitq' = [r \in Resource |-> Dequeue(waitq[r], p)]
  BY DEF Timeout
<1>6. \/ /\ proc' = [proc EXCEPT ![p].woken = TRUE, ![p].state = "READY"]
         /\ ready' = Enqueue(ready, FALSE, p, proc[p].prio)
      \/ proc' = [proc EXCEPT ![p].woken = TRUE, ![p].state = @] /\ ready' = ready
  BY DEF Timeout
<1> HIDE DEF p
<1>7. /\ proc[p].state = "WAITING" /\ p \in Created /\ p \notin Ids(ready)
      /\ ready \in DistinctQueue /\ proc[p].prio \in Int
  BY <1>2, PlaceOf
<1>8. /\ Ids(timeoutQ') = Ids(timeoutQ) \ {p}
      /\ \A s \in Resource : Ids(waitq'[s]) = Ids(waitq[s]) \ {p}
  BY <1>1, <1>5, QueueIds
<1>9. \/ proc'[p].state = "READY" /\ Ids(ready') = Ids(ready) \cup {p}
      \/ proc'[p].state = "WAITING" /\ ready' = ready
  <2>1. Ids(Enqueue(ready, FALSE, p, proc[p].prio)) = Ids(ready) \cup {p}
    BY <1>2, <1>7, QueueIds
  <2>2. CASE proc' = [proc EXCEPT ![p].woken = TRUE, ![p].state = "READY"]
             /\ ready' = Enqueue(ready, FALSE, p, proc[p].prio)
    <3>1. proc'[p].state = "READY"
      BY <1>2, <2>2, PlaceOf DEF ProcessInfo, Table
    <3> QED BY <2>1, <2>2, <3>1
  <2>3. CASE proc' = [proc EXCEPT ![p].woken = TRUE, ![p].state = @] /\ ready' = ready
    <3>1. proc'[p].state = proc[p].state
      BY <1>2, <2>3, PlaceOf DEF ProcessInfo, Table
    <3> QED BY <1>7, <2>3, <3>1
  <2> QED BY <1>6, <2>2, <2>3
<1>10. \A q \in Proc \ {p} : proc'[q].state = proc[q].state
  BY <1>2, <1>6, PlaceOf DEF ProcessInfo, Table
<1>11. p = eh.preempted /\ lock > 0 => FALSE
  BY <1>2, <1>7, ConstantTypes DEF StatesInv, Control, HolderRunnable, Runnable
<1>12. KeepsControl /\ MayMove(p)
  BY <1>3, <1>4, <1>7, <1>9, <1>11 DEF KeepsControl, MayMove, Runnable
<1>13. MovesOnly(p) /\ MovesTo(p)
  BY <1>7, <1>8, <1>9, <1>10 DEF MovesOnly, MovesTo
<1> QED
  BY <1>2, <1>12, <1>13, OneProcess

LEMMA ContinueStates ==
  ASSUME StatesInv, QueuesOK', NEW p \in Proc, Continue(p)
  PROVE  Places' /\ Control'
<1>1. /\ UNCHANGED <<ready, lock, current, mode, initialized, count, started, eh, phm, kpc, ctx, nextCtx, scheduled>>
      /\ kpc = "idle"
  BY DEF Continue, partition, health, core, preemption, kernel
<1>2. /\ Ids(timeoutQ') \subseteq Ids(timeoutQ)
      /\ \A q \in Proc \ {p} : q \in Ids(timeoutQ) => q \in Ids(timeoutQ')
      /\ \A r \in Resource : Ids(waitq'[r]) \subseteq Ids(waitq[r])
  BY PlaceOf, QueueIds DEF Continue
<1>3. \A q \in Proc : proc'[q].state = proc[q].state
  <2> DEFINE d == DeadlineAt(p, now)
  <2>1. \/ proc' = [proc EXCEPT ![p].tail = "none", ![p].release = now, ![p].deadline = d]
        \/ proc' = [proc EXCEPT ![p].tail = "none"]
    BY DEF Continue
  <2> HIDE DEF d
  <2> QED BY <2>1, PlaceOf DEF ProcessInfo, Table
<1>4. p = eh.preempted /\ lock > 0 => p \in Ids(ready)
  BY ConstantTypes, PlaceOf DEF StatesInv, Control, HolderRunnable
<1>5. KeepsControl /\ MayMove(p)
  BY <1>1, <1>2, <1>4, PlaceOf DEF KeepsControl, MayMove
<1>6. MovesOnly(p) /\ MovesTo(p)
  BY <1>1, <1>2, <1>3, PlaceOf DEF MovesOnly, MovesTo
<1> QED
  BY <1>5, <1>6, OneProcess

\* Services that move no process.
LEMMA QuietServices ==
  ASSUME StatesInv,
         \/ LOCK_PREEMPTION \/ UNLOCK_PREEMPTION \/ GET_ERROR_STATUS
         \/ \E b \in Budgets : REPLENISH(b)
         \/ \E r \in Resource : CREATE_RESOURCE(r)
  PROVE  Places' /\ Control'
<1>1. ASSUME LOCK_PREEMPTION PROVE Places' /\ Control'
  <2>1. kpc = "idle" /\ eh.preempted = NoProc
    BY <1>1, AtCall DEF LOCK_PREEMPTION
  <2>2. UNCHANGED <<proc, ready, timeoutQ, waitq, current, mode, initialized, count, started, eh, phm,
                    kpc, ctx, nextCtx, scheduled>>
    BY <1>1 DEF LOCK_PREEMPTION, queues, partition, health, kernel, core
  <2> QED BY <2>1, <2>2, NoProcess DEF KeepsControl
<1>2. ASSUME UNLOCK_PREEMPTION PROVE Places' /\ Control'
  <2>1. kpc = "idle" /\ lock > 0 /\ kpc' \in {kpc, "events"}
    BY <1>2, AtCall DEF UNLOCK_PREEMPTION, YieldIf, Yield, kernel
  <2>2. UNCHANGED <<proc, ready, timeoutQ, waitq, current, mode, initialized, count, started, eh, phm,
                    ctx, nextCtx, scheduled>>
    BY <1>2 DEF UNLOCK_PREEMPTION, queues, partition, health, core
  <2> QED BY <2>1, <2>2, NoProcess DEF KeepsControl
<1>3. ASSUME GET_ERROR_STATUS PROVE Places' /\ Control'
  <2>1. kpc = "idle"
    BY <1>3, AtCall DEF GET_ERROR_STATUS
  <2>2. UNCHANGED <<proc, ready, timeoutQ, waitq, lock, current, mode, initialized, count, started, eh, phm,
                    kpc, ctx, nextCtx, scheduled>>
    BY <1>3 DEF GET_ERROR_STATUS, queues, preemption, partition, kernel, core
  <2> QED BY <2>1, <2>2, NoProcess DEF KeepsControl
<1>4. ASSUME NEW r \in Resource, CREATE_RESOURCE(r) PROVE Places' /\ Control'
  <2>1. kpc = "idle"
    BY <1>4, AtCall DEF CREATE_RESOURCE
  <2>2. UNCHANGED <<proc, ready, timeoutQ, waitq, lock, current, mode, initialized, count, started, eh, phm,
                    kpc, ctx, nextCtx, scheduled>>
    BY <1>4 DEF CREATE_RESOURCE, queues, preemption, health, kernel, core
  <2> QED BY <2>1, <2>2, NoProcess DEF KeepsControl
<1>5. ASSUME NEW t \in Budgets, REPLENISH(t) PROVE Places' /\ Control'
  <2> DEFINE d == IF t = Infinite THEN Infinite ELSE now + t
  <2>1. kpc = "idle"
    BY <1>5, AtCall DEF REPLENISH
  <2>2. UNCHANGED <<ready, timeoutQ, waitq, lock, current, mode, initialized, count, started, eh, phm,
                    kpc, ctx, nextCtx, scheduled>>
    BY <1>5 DEF REPLENISH, preemption, partition, health, kernel, core
  <2>3. proc' = [proc EXCEPT ![current].deadline = d]
    BY <1>5 DEF REPLENISH
  <2> HIDE DEF d
  <2>4. \A p \in Proc : proc'[p].state = proc[p].state
    BY <2>3, PlaceOf DEF ProcessInfo, Table
  <2> QED BY <2>1, <2>2, <2>4, NoProcess DEF KeepsControl
<1> QED
  BY <1>1, <1>2, <1>3, <1>4, <1>5

\* The process being created has not been created before.
LEMMA CreateProcessStates ==
  ASSUME StatesInv, CREATE_PROCESS
  PROVE  Places' /\ Control'
<1> DEFINE p == Order[count + 1]
<1>1. /\ kpc = "idle" /\ mode # "NORMAL" /\ count < Len(Order) /\ count \in Nat
      /\ count' = count + 1 /\ proc' = [proc EXCEPT ![p].state = "DORMANT"]
  BY AtCall, ConstantTypes DEF CREATE_PROCESS, StatesInv, TypeInv, TypeOK
<1>2. UNCHANGED <<ready, timeoutQ, waitq, lock, current, mode, initialized, started, eh, phm,
                  kpc, ctx, nextCtx, scheduled>>
  BY DEF CREATE_PROCESS, queues, preemption, health, kernel, core
<1>3. p \in Proc /\ p \notin Created
  <2>1. count + 1 \in 1..Len(Order)
    BY <1>1, ConstantTypes
  <2>2. \A i \in 1..count : i \in 1..Len(Order) /\ i # count + 1
    BY <1>1, ConstantTypes
  <2>3. \A i, j \in 1..Len(Order) : Order[i] = Order[j] => i = j
    BY ProcessesAssumption
  <2> QED BY <2>1, <2>2, <2>3, ConstantTypes DEF Created
<1>4. proc[p].state = "DORMANT"
  BY <1>3 DEF StatesInv, Places, UncreatedDormant
<1> HIDE DEF p
<1>5. \A q \in Proc : proc'[q].state = proc[q].state
  BY <1>1, <1>3, <1>4, PlaceOf DEF ProcessInfo, Table
<1>6. Created \subseteq Created'
  BY <1>1 DEF Created
<1>7. Places'
  BY <1>2, <1>5, <1>6, PlacesKept DEF StatesInv
<1>8. current \in Proc \cup {NoProc} /\ eh.preempted \in Proc \cup {NoProc}
  BY DEF StatesInv, TypeInv, TypeOK
<1>9. Control'
  BY <1>1, <1>2, <1>5, <1>8
  DEF StatesInv, Control, CurrentRunnable, HolderRunnable, ContextScheduled, StartingQueues,
      NoCallbackRuns, Runnable
<1> QED
  BY <1>7, <1>9

\* The error handler comes into being before the partition is NORMAL.
LEMMA CreateHandlerStates ==
  ASSUME StatesInv, CREATE_ERROR_HANDLER
  PROVE  Places' /\ Control'
<1>1. kpc = "idle"
  BY AtCall DEF CREATE_ERROR_HANDLER
<1>2. UNCHANGED <<proc, ready, timeoutQ, waitq, lock, current, mode, initialized, count, started, phm,
                  kpc, ctx, nextCtx, scheduled>>
  BY DEF CREATE_ERROR_HANDLER, queues, preemption, partition, kernel, core
<1>3. eh'.preempted = eh.preempted /\ eh'.running = eh.running /\ eh'.start = eh.start
  BY HandlerTypes DEF CREATE_ERROR_HANDLER, StatesInv, TypeInv, TypeOK
<1>4. Places'
  BY <1>2, PlacesKept DEF StatesInv, Created
<1>5. Control'
  BY <1>1, <1>2, <1>3
  DEF StatesInv, Control, CurrentRunnable, HolderRunnable, ContextScheduled, StartingQueues,
      NoCallbackRuns, Runnable
<1> QED
  BY <1>4, <1>5

-----------------------------------------------------------------------------
(* The end of the error handler, mode changes and errors.                  *)

\* The process that gets the processor back has stayed able to run.
LEMMA StopHandlerStates ==
  ASSUME StatesInv, StopErrorHandler
  PROVE  Places' /\ Control'
<1> DEFINE holder == eh.preempted
<1>1. /\ kpc = "idle" /\ scheduled /\ mode = "NORMAL" /\ eh.running
      /\ current # NoProc => current \in Proc /\ Runnable(current)
      /\ holder # NoProc /\ lock > 0 => Runnable(holder)
  BY AtCall DEF StopErrorHandler
<1>2. UNCHANGED <<ready, timeoutQ, waitq, lock, mode, initialized, count, started, phm, nextCtx, scheduled>>
  BY DEF StopErrorHandler, queues, partition
<1>3. eh' = [eh EXCEPT !.stop = TRUE]
  BY DEF StopErrorHandler
<1>4. eh'.preempted = eh.preempted /\ eh'.running = eh.running /\ eh'.start = eh.start
  BY <1>3 DEF StatesInv, TypeInv, TypeOK
<1>5. CASE /\ lock > 0 /\ holder \in Created
           /\ proc' = [proc EXCEPT ![holder].state = "RUNNING"]
           /\ current' = holder /\ ctx' = holder /\ kpc' = kpc
  <2>1. holder \in Proc /\ holder # NoProc
    BY <1>5, ProcTypes, ConstantTypes DEF StatesInv, TypeInv
  <2>2. Runnable(holder) /\ holder \in Ids(ready) /\ holder \notin Ids(timeoutQ)
        /\ \A r \in Resource : holder \notin Ids(waitq[r])
    BY <1>1, <1>5, <2>1, PlaceOf
  <2> HIDE DEF holder
  <2>3. proc'[holder].state = "RUNNING" /\ \A q \in Proc \ {holder} : proc'[q].state = proc[q].state
    BY <1>5, <2>1, PlaceOf DEF ProcessInfo, Table
  <2>4. MovesOnly(holder) /\ MovesTo(holder)
    BY <1>2, <1>5, <2>2, <2>3 DEF MovesOnly, MovesTo
  <2>5. QueuesOK'
    BY <1>2 DEF QueuesOK, StatesInv, TypeInv, StopErrorHandler, queues
  <2>6. Places'
    BY <1>2, <2>1, <2>4, <2>5, MovesPlaces
  <2>7. proc'[eh.preempted].state = "RUNNING"
    BY <2>3 DEF holder
  <2>8. CurrentRunnable' /\ HolderRunnable'
    BY <1>1, <1>2, <1>4, <1>5, <2>7 DEF CurrentRunnable, HolderRunnable, Runnable, holder
  <2>9. ContextScheduled' /\ StartingQueues' /\ NoCallbackRuns'
    BY <1>1, <1>2, <1>5, <2>1, ConstantTypes
    DEF StatesInv, Control, ContextScheduled, StartingQueues, NoCallbackRuns
  <2> QED BY <2>6, <2>8, <2>9 DEF Control
<1>6. CASE Yield /\ UNCHANGED <<proc, current, ctx>>
  <2>1. Places'
    BY <1>2, <1>6, PlacesKept DEF StatesInv, Created
  <2>2. CurrentRunnable'
    BY <1>1, <1>2, <1>6 DEF CurrentRunnable, Runnable, Yield
  <2>3. HolderRunnable'
    BY <1>1, <1>2, <1>4, <1>6 DEF HolderRunnable, Runnable
  <2>4. ContextScheduled' /\ StartingQueues' /\ NoCallbackRuns'
    BY <1>1, <1>2, <1>6
    DEF StatesInv, Control, ContextScheduled, StartingQueues, NoCallbackRuns, Yield
  <2> QED BY <2>1, <2>2, <2>3, <2>4 DEF Control
<1> QED
  BY <1>5, <1>6 DEF StopErrorHandler, kernel

\* A mode change empties the partition, or finds it wiped.
LEMMA LeaveModeStates ==
  ASSUME StatesInv, scheduled, kpc \in {"idle", "deadlines"}, NEW m \in Modes, LeaveMode(m)
  PROVE  Places' /\ Control'
<1>1. ASSUME Reinitialize PROVE Places' /\ current' = NoProc /\ eh'.preempted = NoProc /\ phm' = NoCallback
  <2>1. /\ \A p \in Proc : proc'[p].state = "DORMANT"
        /\ Ids(ready') = {} /\ Ids(timeoutQ') = {} /\ \A r \in Resource : Ids(waitq'[r]) = {}
    BY <1>1, QueueIds DEF Reinitialize, Blank
  <2>2. RunnableInReady' /\ QueuedIsWaiting'
    BY <2>1, EnqueuedIsInIds DEF RunnableInReady, QueuedIsWaiting, Runnable, InSomeWaitq
  <2>3. WaitsForOne' /\ UncreatedDormant'
    BY <2>1 DEF WaitsForOne, UncreatedDormant
  <2> QED BY <1>1, <2>2, <2>3 DEF Places, Reinitialize, NoErrorHandler
<1>2. ASSUME Reinitialize
      PROVE  (\A r \in Resource : Ids(waitq'[r]) = {}) /\ Ids(timeoutQ') = {}
  BY <1>2, QueueIds DEF Reinitialize
<1>3. CASE ~ initialized /\ Wiped
  <2>1. mode # "NORMAL" /\ kpc = "idle"
    BY <1>3 DEF StatesInv, Control, ContextScheduled
  <2>2. UNCHANGED <<proc, ready, timeoutQ, waitq, lock, current, mode, initialized, count, started, eh, phm,
                    ctx, nextCtx, scheduled>> /\ kpc' = "fault"
    BY <1>3 DEF Wiped, queues, preemption, partition, health, core
  <2>3. Places'
    BY <2>2, PlacesKept DEF StatesInv, Created
  <2>4. CurrentRunnable' /\ HolderRunnable'
    BY <2>1, <2>2 DEF StatesInv, Control, CurrentRunnable, HolderRunnable, Runnable
  <2>5. ContextScheduled' /\ StartingQueues' /\ NoCallbackRuns'
    BY <2>1, <2>2 DEF StatesInv, Control, ContextScheduled, StartingQueues, NoCallbackRuns
  <2> QED BY <2>3, <2>4, <2>5 DEF Control
<1>4. CASE initialized /\ GoIdle
  <2>1. UNCHANGED <<initialized, started, ctx, nextCtx, scheduled>> /\ kpc' = "events" /\ Reinitialize
    BY <1>4 DEF GoIdle, Yield
  <2>2. Places' /\ CurrentRunnable' /\ HolderRunnable'
    BY <1>1, <2>1 DEF CurrentRunnable, HolderRunnable
  <2>3. StartingQueues'
    BY <1>2, <2>1 DEF StartingQueues
  <2>4. ContextScheduled' /\ NoCallbackRuns'
    BY <1>1, <1>4, <2>1 DEF StatesInv, Control, ContextScheduled, NoCallbackRuns
  <2> QED BY <2>2, <2>3, <2>4 DEF Control
<1>5. CASE initialized /\ Restart(m)
  <2>1. UNCHANGED <<initialized, started, nextCtx, scheduled>> /\ kpc' = "idle" /\ ctx' = "DEFAULT" /\ Reinitialize
    BY <1>5 DEF Restart
  <2>2. Places' /\ CurrentRunnable' /\ HolderRunnable'
    BY <1>1, <2>1 DEF CurrentRunnable, HolderRunnable
  <2>3. StartingQueues'
    BY <1>2, <2>1 DEF StartingQueues
  <2>4. ContextScheduled' /\ NoCallbackRuns'
    BY <1>1, <1>5, <2>1 DEF StatesInv, Control, ContextScheduled, NoCallbackRuns
  <2> QED BY <2>2, <2>3, <2>4 DEF Control
<1> QED
  BY <1>3, <1>4, <1>5 DEF LeaveMode

LEMMA NormalModeStates ==
  ASSUME StatesInv, SetNormalMode
  PROVE  Places' /\ Control'
<1>1. /\ kpc = "idle" /\ scheduled /\ current = NoProc /\ mode # "NORMAL"
      /\ eh.preempted # NoProc => eh.running
  BY AtCall DEF SetNormalMode
<1>2. /\ UNCHANGED <<proc, ready, timeoutQ, waitq, lock, current, count, eh, phm, ctx, nextCtx, scheduled>>
      /\ mode' = "NORMAL" /\ initialized' = TRUE /\ started' = 0
      /\ kpc' \in {"idle", "starting"}
  BY DEF SetNormalMode, queues, preemption, health, core
<1>3. Places'
  BY <1>2, PlacesKept DEF StatesInv, Created
<1>4. CurrentRunnable' /\ HolderRunnable'
  BY <1>1, <1>2 DEF StatesInv, Control, CurrentRunnable, HolderRunnable, Runnable
<1>5. ContextScheduled' /\ NoCallbackRuns'
  BY <1>1, <1>2 DEF StatesInv, Control, ContextScheduled, NoCallbackRuns
<1>6. StartingQueues'
  <2>1. (\A r \in Resource : Ids(waitq[r]) = {}) /\ Ids(timeoutQ) = {}
    BY <1>1 DEF StatesInv, Control, StartingQueues
  <2> QED BY <1>2, <2>1 DEF StartingQueues
<1> QED
  BY <1>3, <1>4, <1>5, <1>6 DEF Control

\* Without a callback an error goes to the error handler or to the partition's table.
LEMMA ErrorGoesTo ==
  ASSUME HmCallback = FALSE
  PROVE  "callback" \notin GoesTo
BY DEF GoesTo

LEMMA ApplicationErrorStates ==
  ASSUME StatesInv, HmCallback = FALSE, RAISE_APPLICATION_ERROR
  PROVE  Places' /\ Control'
<1>1. kpc = "idle" /\ scheduled /\ (eh.preempted # NoProc => eh.running)
  BY AtCall DEF RAISE_APPLICATION_ERROR
<1>2. CASE NotifyHandler /\ Yield /\ UNCHANGED <<proc, queues, preemption, partition, now, core>>
  <2>1. /\ UNCHANGED <<proc, ready, timeoutQ, waitq, lock, current, mode, initialized, count, started, phm,
                       ctx, nextCtx, scheduled>>
        /\ kpc' = "events" /\ eh' = [eh EXCEPT !.start = TRUE, !.stop = FALSE]
    BY <1>2 DEF NotifyHandler, Yield, queues, preemption, partition, core
  <2>2. eh'.preempted = eh.preempted /\ eh'.running = eh.running
    BY <2>1 DEF StatesInv, TypeInv, TypeOK
  <2>3. Places'
    BY <2>1, PlacesKept DEF StatesInv, Created
  <2>4. CurrentRunnable' /\ HolderRunnable'
    BY <1>1, <2>1, <2>2 DEF StatesInv, Control, CurrentRunnable, HolderRunnable, Runnable
  <2>5. ContextScheduled' /\ NoCallbackRuns' /\ StartingQueues'
    BY <1>1, <2>1 DEF StatesInv, Control, ContextScheduled, NoCallbackRuns, StartingQueues
  <2> QED BY <2>3, <2>4, <2>5 DEF Control
<1>3. CASE \E a \in ErrorActions \ {"IGNORE"} : LeaveMode(ActionMode(a))
  BY <1>1, <1>3, ActionModeType, LeaveModeStates
<1> QED
  BY <1>2, <1>3, ErrorGoesTo DEF RAISE_APPLICATION_ERROR

-----------------------------------------------------------------------------
(* STARTPROCESSSCHEDULER and SCHEDULER.                                    *)

\* The process of this round waits for nothing yet.
LEMMA StartNextStates ==
  ASSUME StatesInv, QueuesOK', StartNext
  PROVE  Places' /\ Control'
<1> DEFINE p == Order[started + 1]
<1>1. /\ kpc = "starting" /\ started < count /\ started \in Nat /\ count \in Nat /\ count <= Len(Order)
      /\ started' = started + 1
      /\ UNCHANGED <<waitq, lock, current, mode, initialized, count, eh, phm, kpc, ctx, nextCtx, scheduled>>
  BY ConstantTypes DEF StartNext, preemption, health, kernel, core, StatesInv, TypeInv, TypeOK
<1>2. p \in Proc /\ \A i \in 1..started : Order[i] # p
  <2>1. started + 1 \in 1..Len(Order) /\ \A i \in 1..started : i \in 1..Len(Order) /\ i # started + 1
    BY <1>1, ConstantTypes
  <2>2. \A i, j \in 1..Len(Order) : Order[i] = Order[j] => i = j
    BY ProcessesAssumption
  <2> QED BY <2>1, <2>2, ConstantTypes
<1>3. current = NoProc /\ mode = "NORMAL"
  BY <1>1 DEF StatesInv, Control, CurrentRunnable, ContextScheduled
<1>4. /\ \A r \in Resource : Ids(waitq[r]) = {}
      /\ Ids(timeoutQ) \subseteq {Order[i] : i \in 1..started}
  BY <1>1 DEF StatesInv, Control, StartingQueues
<1>5. p \notin Ids(timeoutQ)
  BY <1>2, <1>4
<1>6. {Order[i] : i \in 1..started} \cup {p} \subseteq {Order[i] : i \in 1..started'}
  <2>1. started + 1 \in 1..started' /\ \A i \in 1..started : i \in 1..started'
    BY <1>1
  <2> QED BY <2>1
<1>7. \/ UNCHANGED <<proc, ready, timeoutQ>>
      \/ /\ proc[p].state = "WAITING"
         /\ Release(p, proc, ready, deadlineQ, timeoutQ)
  BY DEF StartNext
<1> HIDE DEF p
<1>8. MovesOnly(p) /\ MovesTo(p) /\ Ids(timeoutQ') \subseteq Ids(timeoutQ) \cup {p}
      /\ \A q \in Proc : Runnable(q) => Runnable(q)'
  <2>1. CASE UNCHANGED <<proc, ready, timeoutQ>>
    BY <1>1, <1>2, <2>1, PlaceOf DEF MovesOnly, MovesTo, Runnable
  <2>2. CASE proc[p].state = "WAITING" /\ Release(p, proc, ready, deadlineQ, timeoutQ)
    <3>1. /\ \A q \in Proc \ {p} : proc'[q].state = proc[q].state
          /\ \/ /\ proc'[p].state = "WAITING"
                /\ ready' = ready /\ Ids(timeoutQ') = Ids(timeoutQ) \cup {p}
             \/ /\ proc'[p].state = "READY"
                /\ Ids(ready') = Ids(ready) \cup {p} /\ timeoutQ' = timeoutQ
      <4>1. ready \in DistinctQueue /\ deadlineQ \in DistinctQueue /\ timeoutQ \in DistinctQueue
            /\ proc \in Table /\ now \in Nat
        BY <1>2, PlaceOf DEF StatesInv, TypeInv, TypeOK
      <4> QED BY <1>2, <2>2, <4>1, ReleasePlaces
    <3>2. p \notin Ids(ready) /\ p \in Created
      BY <1>2, <2>2, PlaceOf
    <3>3. MovesOnly(p)
      BY <1>1, <3>1 DEF MovesOnly
    <3>4. MovesTo(p)
      BY <1>1, <1>4, <1>5, <3>1, <3>2 DEF MovesTo
    <3>5. \A q \in Proc : Runnable(q) => Runnable(q)'
      BY <2>2, <3>1 DEF Runnable
    <3> QED BY <3>1, <3>3, <3>4, <3>5
  <2> QED BY <1>7, <2>1, <2>2
<1>9. Places'
  BY <1>1, <1>2, <1>8, MovesPlaces
<1>10. CurrentRunnable' /\ ContextScheduled' /\ NoCallbackRuns'
  BY <1>1, <1>3 DEF StatesInv, Control, CurrentRunnable, ContextScheduled, NoCallbackRuns
<1>11. HolderRunnable'
  <2>1. eh.preempted \in Proc \cup {NoProc}
    BY DEF StatesInv, TypeInv, TypeOK
  <2> QED BY <1>1, <1>8, <2>1 DEF StatesInv, Control, HolderRunnable, Runnable
<1>12. StartingQueues'
  BY <1>1, <1>4, <1>6, <1>8 DEF StartingQueues
<1> QED
  BY <1>9, <1>10, <1>11, <1>12 DEF Control

\* The steps of SCHEDULER that move neither a process nor a context.
LEMMA QuietStates ==
  ASSUME StatesInv, StartDone \/ HandleEvents \/ TimeoutsDone \/ DeadlinesDone \/ KeepPartition
                    \/ StayOut \/ TICK \/ OtherYields
  PROVE  Places' /\ Control'
<1>1. /\ UNCHANGED <<proc, ready, timeoutQ, waitq, lock, mode, initialized, count, started, phm,
                     ctx, nextCtx, scheduled>>
  BY DEF StartDone, HandleEvents, TimeoutsDone, DeadlinesDone, KeepPartition, StayOut, TICK, OtherYields,
         queues, preemption, partition, health, core
<1>2. Places'
  BY <1>1, PlacesKept DEF StatesInv, Created
<1> USE DEF StatesInv, Control, CurrentRunnable, HolderRunnable, ContextScheduled, StartingQueues,
            NoCallbackRuns, Runnable
<1>4. CASE StartDone
  BY <1>1, <1>2, <1>4 DEF StartDone, Yield, health
<1>5. CASE HandleEvents
  <2>1. UNCHANGED current /\ eh'.preempted = eh.preempted /\ eh'.running = eh.running
        /\ (eh'.start = eh.start \/ eh'.start)
    BY <1>5 DEF HandleEvents, preemption, TypeInv, TypeOK
  <2>2. kpc = "events" /\ kpc' \in {"out", "timeouts"}
        /\ (kpc' = "timeouts" => scheduled /\ mode = "NORMAL" /\ ~ eh.start /\ ~ eh.running)
    BY <1>5 DEF HandleEvents
  <2> QED BY <1>1, <1>2, <2>1, <2>2
<1>6. CASE TimeoutsDone
  BY <1>1, <1>2, <1>6 DEF TimeoutsDone, preemption, health
<1>7. CASE DeadlinesDone
  BY <1>1, <1>2, <1>7 DEF DeadlinesDone, preemption, health
<1>8. CASE KeepPartition
  BY <1>1, <1>2, <1>8 DEF KeepPartition, preemption, health
<1>9. CASE StayOut
  BY <1>1, <1>2, <1>9 DEF StayOut, preemption, health
<1>10. CASE TICK
  BY <1>1, <1>2, <1>10 DEF TICK, AtRest, preemption, health
<1>11. CASE OtherYields
  BY <1>1, <1>2, <1>11 DEF OtherYields, preemption, health
<1> QED
  BY <1>4, <1>5, <1>6, <1>7, <1>8, <1>9, <1>10, <1>11

LEMMA DeadlineStates ==
  ASSUME StatesInv, HmCallback = FALSE, Deadline
  PROVE  Places' /\ Control'
<1>1. /\ kpc = "deadlines" /\ scheduled /\ mode = "NORMAL"
      /\ eh.preempted # NoProc => eh.running
  BY DEF Deadline, StatesInv, Control, ContextScheduled, HolderRunnable
<1>2. CASE /\ UNCHANGED <<ready, timeoutQ, waitq, preemption, partition, now, kernel, core>>
           /\ proc' = [proc EXCEPT ![Head(deadlineQ).id].deadline = Infinite]
           /\ NotifyHandler \/ UNCHANGED health
  <2>1. UNCHANGED <<ready, timeoutQ, waitq, lock, current, mode, initialized, count, started, phm, kpc,
                    ctx, nextCtx, scheduled>>
    BY <1>2 DEF NotifyHandler, preemption, partition, kernel, core, health
  <2>2. eh'.preempted = eh.preempted /\ eh'.running = eh.running
    BY <1>2 DEF NotifyHandler, health, StatesInv, TypeInv, TypeOK
  <2>3. \A p \in Proc : proc'[p].state = proc[p].state
    <3> DEFINE h == Head(deadlineQ).id
    <3>1. proc' = [proc EXCEPT ![h].deadline = Infinite]
      BY <1>2
    <3> HIDE DEF h
    <3> QED BY <3>1, PlaceOf DEF ProcessInfo, Table
  <2>4. Places'
    BY <2>1, <2>3, PlacesKept DEF StatesInv, Created
  <2>5. current \in Proc \cup {NoProc} /\ eh.preempted \in Proc \cup {NoProc}
    BY DEF StatesInv, TypeInv, TypeOK
  <2>6. CurrentRunnable'
    BY <1>1, <2>1, <2>2, <2>3, <2>5 DEF StatesInv, Control, CurrentRunnable, Runnable
  <2>7. HolderRunnable'
    BY <1>1, <2>1, <2>2, <2>3, <2>5 DEF StatesInv, Control, HolderRunnable, Runnable
  <2>8. ContextScheduled' /\ StartingQueues' /\ NoCallbackRuns'
    BY <1>1, <2>1 DEF StatesInv, Control, ContextScheduled, StartingQueues, NoCallbackRuns
  <2> QED BY <2>4, <2>6, <2>7, <2>8 DEF Control
<1>3. CASE \E a \in ErrorActions \ {"IGNORE"} : LeaveMode(ActionMode(a))
  BY <1>1, <1>3, ActionModeType, LeaveModeStates
<1> QED
  BY <1>2, <1>3, ErrorGoesTo DEF Deadline

\* The process that heads the ready queue can run, before and after its state is set.
LEMMA HeadStates ==
  ASSUME StatesInv, QueuesOK', ready # <<>>, NEW s \in {"READY", "RUNNING"},
         proc' = [proc EXCEPT ![Head(ready).id].state = s],
         UNCHANGED <<queues, count>>
  PROVE  /\ Places' /\ Head(ready).id \in Proc
         /\ Runnable(Head(ready).id) /\ proc'[Head(ready).id].state = s
         /\ \A q \in Proc : Runnable(q)' <=> Runnable(q)
<1> DEFINE p == Head(ready).id
<1>1. p \in Ids(ready) /\ p \in Proc
  BY QueueIds DEF StatesInv, TypeInv, QueuesOK
<1>2. proc' = [proc EXCEPT ![p].state = s] /\ UNCHANGED <<ready, timeoutQ, waitq>>
  BY DEF queues
<1> SUFFICES /\ Places' /\ p \in Proc
             /\ Runnable(p) /\ proc'[p].state = s
             /\ \A q \in Proc : Runnable(q)' <=> Runnable(q)
  OBVIOUS
<1> HIDE DEF p
<1>3. /\ Runnable(p) /\ p \notin Ids(timeoutQ) /\ p \in Created
      /\ \A r \in Resource : p \notin Ids(waitq[r])
  BY <1>1, PlaceOf
<1>4. proc'[p].state = s /\ \A q \in Proc \ {p} : proc'[q].state = proc[q].state
  BY <1>1, <1>2, PlaceOf DEF ProcessInfo, Table
<1>5. MovesOnly(p) /\ MovesTo(p)
  BY <1>1, <1>2, <1>3, <1>4 DEF MovesOnly, MovesTo
<1>6. Places'
  BY <1>1, <1>5, MovesPlaces
<1>7. \A q \in Proc : Runnable(q)' <=> Runnable(q)
  BY <1>1, <1>3, <1>4 DEF Runnable
<1> QED
  BY <1>1, <1>3, <1>4, <1>6, <1>7

LEMMA ProcessOutStates ==
  ASSUME StatesInv, QueuesOK', ScheduleProcessOut
  PROVE  Places' /\ Control'
<1>1. /\ kpc = "out" /\ kpc' \in {"in", "partition"}
      /\ UNCHANGED <<queues, ready, timeoutQ, waitq, lock, mode, initialized, count, started, ctx, scheduled>>
  BY DEF ScheduleProcessOut, AfterOut, queues, partition
<1>2. phm.running = FALSE /\ phm.start = FALSE
  BY DEF StatesInv, Control, NoCallbackRuns, NoCallback
<1>3. current \in Proc \cup {NoProc} /\ eh.preempted \in Proc \cup {NoProc}
  BY DEF StatesInv, TypeInv, TypeOK
<1>4. CASE UNCHANGED <<proc, current, eh, phm, nextCtx>> /\ (~ scheduled \/ StayOn)
  <2>1. Places'
    BY <1>1, <1>4, PlacesKept DEF StatesInv, Created
  <2>2. current # NoProc => Runnable(current)
    <3>1. CASE ~ scheduled
      BY <1>1, <3>1 DEF StatesInv, Control, CurrentRunnable
    <3>2. CASE lock > 0 \/ eh.running \/ mode # "NORMAL"
      BY <1>1, <3>2 DEF StatesInv, Control, CurrentRunnable
    <3>3. CASE ready # <<>> /\ Head(ready).id = current
      <4>1. current \in Ids(ready) /\ current \in Proc
        BY <3>3, QueueIds DEF StatesInv, TypeInv, QueuesOK
      <4> QED BY <4>1, PlaceOf
    <3> QED BY <1>4, <3>1, <3>2, <3>3 DEF StayOn, KeepsProcessor
  <2>3. CurrentRunnable'
    BY <1>1, <1>4, <2>2 DEF StatesInv, Control, CurrentRunnable, Runnable
  <2>4. HolderRunnable'
    BY <1>1, <1>4 DEF StatesInv, Control, HolderRunnable, Runnable
  <2>5. ContextScheduled' /\ StartingQueues' /\ NoCallbackRuns'
    BY <1>1, <1>4 DEF StatesInv, Control, ContextScheduled, StartingQueues, NoCallbackRuns
  <2> QED BY <2>1, <2>3, <2>4, <2>5 DEF Control
<1>5. CASE scheduled /\ StopHandler
  <2>1. UNCHANGED <<proc, current, phm>> /\ eh.running
        /\ nextCtx' \in {nextCtx, "DEFAULT"}
    BY <1>5 DEF StopHandler
  <2>2. \/ eh' = eh
        \/ eh'.preempted = NoProc
    BY <1>5 DEF StopHandler, StatesInv, TypeInv, TypeOK
  <2>3. Places'
    BY <1>1, <2>1, PlacesKept DEF StatesInv, Created
  <2>4. CurrentRunnable'
    BY <1>1, <2>1 DEF StatesInv, Control, CurrentRunnable, Runnable
  <2>5. HolderRunnable'
    BY <1>1, <2>1, <2>2 DEF StatesInv, Control, HolderRunnable, Runnable
  <2>6. ContextScheduled' /\ StartingQueues' /\ NoCallbackRuns'
    BY <1>1, <1>5, <2>1 DEF StatesInv, Control, ContextScheduled, StartingQueues, NoCallbackRuns
  <2> QED BY <2>3, <2>4, <2>5, <2>6 DEF Control
<1>6. CASE scheduled /\ Preempt
  <2>1. /\ mode = "NORMAL" /\ ~ eh.running /\ current # NoProc
        /\ current' = NoProc /\ nextCtx' = "DEFAULT" /\ phm' = phm
        /\ eh' = IF eh.start THEN [eh EXCEPT !.preempted = current] ELSE eh
        /\ \/ proc' = proc
           \/ /\ ~ eh.start /\ ready # <<>>
              /\ proc' = [proc EXCEPT ![Head(ready).id].state = "READY"]
    BY <1>2, <1>6 DEF Preempt
  <2>2. Places' /\ \A q \in Proc : Runnable(q)' <=> Runnable(q)
    <3>1. CASE proc' = proc
      BY <1>1, <3>1, PlacesKept DEF StatesInv, Created, Runnable
    <3>2. CASE ready # <<>> /\ proc' = [proc EXCEPT ![Head(ready).id].state = "READY"]
      BY <1>1, <3>2, HeadStates
    <3> QED BY <2>1, <3>1, <3>2
  <2>3. CurrentRunnable'
    BY <2>1 DEF CurrentRunnable
  <2>4. HolderRunnable'
    <3>1. CASE eh.start
      <4>1. eh'.preempted = current /\ eh'.start
        BY <2>1, <3>1 DEF StatesInv, TypeInv, TypeOK
      <4>2. lock > 0 => Runnable(current)
        BY <1>1, <2>1 DEF StatesInv, Control, CurrentRunnable
      <4>3. lock' > 0 => proc'[current].state \in {"READY", "RUNNING"}
        BY <1>1, <1>3, <2>1, <2>2, <4>2 DEF Runnable
      <4> QED BY <1>1, <2>1, <4>1, <4>3 DEF HolderRunnable, Runnable
    <3>2. CASE ~ eh.start
      BY <1>1, <2>1, <3>2 DEF StatesInv, Control, HolderRunnable
    <3> QED BY <3>1, <3>2
  <2>5. ContextScheduled' /\ StartingQueues' /\ NoCallbackRuns'
    BY <1>1, <1>6, <2>1 DEF StatesInv, Control, ContextScheduled, StartingQueues, NoCallbackRuns
  <2> QED BY <2>2, <2>3, <2>4, <2>5 DEF Control
<1> QED
  BY <1>2, <1>4, <1>5, <1>6 DEF ScheduleProcessOut, StopCallback, StayOn

\* The partition level moves no process.
LEMMA PartitionStates ==
  ASSUME StatesInv, SchedulePartitionOut \/ EnterPartition
  PROVE  Places' /\ Control'
<1>1. UNCHANGED <<proc, ready, timeoutQ, waitq, lock, current, mode, initialized, count, started, eh, phm, ctx>>
  BY DEF SchedulePartitionOut, EnterPartition, queues, preemption, partition, health
<1>2. Places'
  BY <1>1, PlacesKept DEF StatesInv, Created
<1>3. CASE SchedulePartitionOut
  <2>1. kpc = "partition" /\ kpc' = "enter"
        /\ \/ scheduled' = FALSE /\ nextCtx' = "MODULE"
           \/ ~ scheduled /\ UNCHANGED <<scheduled, nextCtx>>
    BY <1>3 DEF SchedulePartitionOut
  <2>2. CurrentRunnable' /\ HolderRunnable'
    BY <1>1, <2>1 DEF StatesInv, Control, CurrentRunnable, HolderRunnable, Runnable
  <2>3. ContextScheduled' /\ StartingQueues' /\ NoCallbackRuns'
    BY <1>1, <2>1 DEF StatesInv, Control, ContextScheduled, StartingQueues, NoCallbackRuns
  <2> QED BY <1>2, <2>2, <2>3 DEF Control
<1>4. CASE EnterPartition
  <2>1. kpc = "enter" /\ kpc' = "events" /\ scheduled' = TRUE
    BY <1>4 DEF EnterPartition
  <2>2. nextCtx' # "HMCALLBACK"
    BY <1>4, ConstantTypes DEF EnterPartition, StatesInv, TypeInv, TypeOK, Control, NoCallbackRuns, NoCallback
  <2>3. CurrentRunnable' /\ HolderRunnable'
    BY <1>1, <2>1 DEF StatesInv, Control, CurrentRunnable, HolderRunnable, Runnable
  <2>4. ContextScheduled' /\ StartingQueues' /\ NoCallbackRuns'
    BY <1>1, <2>1, <2>2 DEF StatesInv, Control, ContextScheduled, StartingQueues, NoCallbackRuns
  <2> QED BY <1>2, <2>3, <2>4 DEF Control
<1> QED
  BY <1>3, <1>4

LEMMA ProcessInStates ==
  ASSUME StatesInv, QueuesOK', ScheduleProcessIn
  PROVE  Places' /\ Control'
<1>1. /\ kpc = "in"
      /\ UNCHANGED <<queues, ready, timeoutQ, waitq, lock, mode, initialized, count, started, scheduled>>
  BY DEF ScheduleProcessIn, queues, partition
<1>2. phm.running = FALSE /\ phm.start = FALSE /\ nextCtx # "HMCALLBACK" /\ ctx # "HMCALLBACK"
  BY DEF StatesInv, Control, NoCallbackRuns, NoCallback
<1>3. CASE scheduled /\ StartHandler
  <2>1. /\ UNCHANGED <<proc, current, phm>> /\ kpc' = "idle" /\ ctx' = "ERRORHANDLER" /\ nextCtx' = "none"
        /\ eh' = [eh EXCEPT !.running = TRUE, !.start = FALSE]
    BY <1>3 DEF StartHandler, Switch
  <2>2. eh'.preempted = eh.preempted /\ eh'.running
    BY <2>1 DEF StatesInv, TypeInv, TypeOK
  <2>3. Places'
    BY <1>1, <2>1, PlacesKept DEF StatesInv, Created
  <2>4. CurrentRunnable' /\ HolderRunnable'
    BY <1>1, <2>1, <2>2 DEF StatesInv, Control, CurrentRunnable, HolderRunnable, Runnable
  <2>5. ContextScheduled' /\ StartingQueues' /\ NoCallbackRuns'
    BY <1>1, <1>3, <2>1 DEF StatesInv, Control, ContextScheduled, StartingQueues, NoCallbackRuns
  <2> QED BY <2>3, <2>4, <2>5 DEF Control
<1>4. CASE scheduled /\ Dispatch
  <2>1. /\ UNCHANGED <<eh, phm>> /\ current' = Head(ready).id /\ ready # <<>>
        /\ proc' = [proc EXCEPT ![Head(ready).id].state = "RUNNING"]
        /\ mode = "NORMAL" /\ ~ eh.running /\ ~ eh.start
        /\ kpc' = "idle" /\ nextCtx' = "none" /\ ctx' \in {ctx, current'}
    BY <1>4 DEF Dispatch, MayDispatch, Switch
  <2>2. Places' /\ current' \in Proc /\ proc'[current'].state = "RUNNING"
    BY <1>1, <2>1, HeadStates
  <2>3. CurrentRunnable' /\ HolderRunnable'
    BY <1>1, <2>1, <2>2 DEF StatesInv, Control, CurrentRunnable, HolderRunnable, Runnable
  <2>4. ContextScheduled' /\ StartingQueues' /\ NoCallbackRuns'
    BY <1>1, <1>2, <1>4, <2>1, <2>2, ConstantTypes
    DEF StatesInv, Control, ContextScheduled, StartingQueues, NoCallbackRuns
  <2> QED BY <2>2, <2>3, <2>4 DEF Control
<1>5. CASE NothingToStart
  <2>1. /\ UNCHANGED <<proc, current, eh, phm>> /\ kpc' = "idle" /\ nextCtx' = "none"
        /\ ctx' = IF nextCtx = "none" THEN ctx ELSE nextCtx
    BY <1>5 DEF NothingToStart, Switch
  <2>2. Places'
    BY <1>1, <2>1, PlacesKept DEF StatesInv, Created
  <2>3. CurrentRunnable'
    BY <1>1, <2>1 DEF StatesInv, Control, CurrentRunnable, Runnable
  <2>4. scheduled => mode # "NORMAL" \/ eh.running \/ ~ eh.start
    BY <1>2, <1>5 DEF NothingToStart
  <2>5. HolderRunnable'
    BY <1>1, <2>1, <2>4 DEF StatesInv, Control, HolderRunnable, Runnable
  <2>6. ContextScheduled' /\ StartingQueues' /\ NoCallbackRuns'
    BY <1>1, <1>2, <2>1 DEF StatesInv, Control, ContextScheduled, StartingQueues, NoCallbackRuns
  <2> QED BY <2>2, <2>3, <2>5, <2>6 DEF Control
<1> QED
  BY <1>2, <1>3, <1>4, <1>5 DEF ScheduleProcessIn, StartCallback

-----------------------------------------------------------------------------
(* The invariant, and what it is for.                                      *)

LEMMA StatesInvInductive ==
  ASSUME HmCallback = FALSE
  PROVE  /\ Init => StatesInv
         /\ StatesInv /\ [Next]_vars => StatesInv'
<1>1. ASSUME Init PROVE StatesInv
  <2>1. TypeInv
    BY <1>1, TypeInvInductive
  <2>2. /\ Ids(ready) = {} /\ Ids(timeoutQ) = {} /\ \A r \in Resource : Ids(waitq[r]) = {}
        /\ \A p \in Proc : proc[p].state = "DORMANT"
    BY <1>1, QueueIds DEF Init, Blank
  <2>3. RunnableInReady /\ QueuedIsWaiting
    BY <2>2, PlacesIds
  <2>4. Places
    BY <2>2, <2>3 DEF Places, WaitsForOne, UncreatedDormant
  <2>5. Control
    BY <1>1, <2>2 DEF Init, Control, CurrentRunnable, HolderRunnable, ContextScheduled, StartingQueues,
                      NoCallbackRuns, NoErrorHandler
  <2> QED BY <2>1, <2>4, <2>5 DEF StatesInv
<1>2. ASSUME StatesInv, [Next]_vars PROVE StatesInv'
  <2>1. TypeInv' /\ QueuesOK'
    BY <1>2, TypeInvInductive DEF StatesInv, TypeInv
  <2> SUFFICES Places' /\ Control'
    BY <2>1 DEF StatesInv
  <2>2. CASE Services
    <3>1. CASE CREATE_PROCESS \/ STOP_SELF \/ StopErrorHandler \/ PERIODIC_WAIT \/ SetNormalMode
               \/ CREATE_ERROR_HANDLER \/ RAISE_APPLICATION_ERROR
      BY <1>2, <2>1, <3>1, CreateProcessStates, StopSelfStates, StopHandlerStates, PeriodicWaitStates,
         NormalModeStates, CreateHandlerStates, ApplicationErrorStates
    <3>2. CASE LOCK_PREEMPTION \/ UNLOCK_PREEMPTION \/ GET_ERROR_STATUS
      BY <1>2, <3>2, QuietServices
    <3>3. CASE \E m \in {"IDLE", "COLD_START", "WARM_START"} : SetStartMode(m)
      <4>1. PICK m \in Modes : Call("RESTART") /\ LeaveMode(m)
        BY <3>3 DEF SetStartMode, Modes
      <4>2. kpc = "idle" /\ scheduled
        BY <1>2, <4>1, AtCall
      <4> QED BY <1>2, <4>1, <4>2, LeaveModeStates
    <3>4. CASE (\E t \in TimeOuts : SUSPEND_SELF(t)) \/ \E b \in Budgets : REPLENISH(b)
      BY <1>2, <2>1, <3>4, SuspendSelfStates, QuietServices
    <3>5. CASE \E d \in Delays : TIMED_WAIT(d)
      BY <1>2, <2>1, <3>5, TimedWaitStates
    <3>6. CASE \E p \in Proc :
                 \/ SUSPEND(p) \/ RESUME(p) \/ STOP(p)
                 \/ \E d \in Delays : DELAYED_START(p, d)
                 \/ \E prio \in Priorities : SET_PRIORITY(p, prio)
      BY <1>2, <2>1, <3>6, SuspendStates, ResumeStates, StopStates, DelayedStartStates, SetPriorityStates
    <3> QED BY <2>2, <3>1, <3>2, <3>3, <3>4, <3>5, <3>6 DEF Services
  <2>3. CASE Scheduler
    BY <1>2, <2>1, <2>3, StartNextStates, QuietStates, TimeoutStates, DeadlineStates, ProcessOutStates,
       PartitionStates, ProcessInStates DEF Scheduler
  <2>4. CASE ResourceServices
    <3>1. PICK r \in Resource :
            \/ \E t \in TimeOuts : Call("WAIT_RESOURCE") /\ WAIT_RESOURCE(r, t)
            \/ Call("SIGNAL_RESOURCE") /\ SIGNAL_RESOURCE(r, TRUE)
            \/ kpc = "idle" /\ SIGNAL_RESOURCE(r, FALSE)
      BY <1>2, <2>4 DEF ResourceServices, StatesInv, TypeInv, TypeOK
    <3>2. CASE \E t \in TimeOuts : Call("WAIT_RESOURCE") /\ WAIT_RESOURCE(r, t)
      BY <1>2, <2>1, <3>2, WaitResourceStates
    <3>3. CASE kpc = "idle" /\ \E b \in BOOLEAN : SIGNAL_RESOURCE(r, b)
      BY <1>2, <2>1, <3>3, SignalStates
    <3> QED BY <1>2, <3>1, <3>2, <3>3, AtCall
  <2>5. CASE Continues \/ TICK \/ OtherYields \/ \E r \in Resource : CREATE_RESOURCE(r)
    BY <1>2, <2>1, <2>5, ContinueStates, QuietStates, QuietServices DEF Continues
  <2>6. CASE CallbackReturns
    BY <1>2, <2>6 DEF CallbackReturns, StatesInv, Control, NoCallbackRuns
  <2>7. CASE UNCHANGED vars
    <3>1. Places'
      BY <1>2, <2>7, PlacesKept DEF StatesInv, Created, vars, queues, partition
    <3>2. Control'
      BY <1>2, <2>7
      DEF StatesInv, Control, CurrentRunnable, HolderRunnable, ContextScheduled, StartingQueues, NoCallbackRuns,
          Runnable, vars, queues, preemption, partition, health, kernel, core
    <3> QED BY <3>1, <3>2
  <2> QED BY <1>2, <2>2, <2>3, <2>4, <2>5, <2>6, <2>7 DEF Next, Internal
<1> QED
  BY <1>1, <1>2

\* RunnableInReady: in every partition without a callback, whatever its processes,
\* attributes and calls, the ready queue holds exactly the processes that are READY
\* or RUNNING; SCHEDULEPROCESSIN, which looks only there, finds every process that
\* can run and dispatches none that cannot.
THEOREM ReadyQueueHoldsRunnable ==
  ASSUME HmCallback = FALSE
  PROVE  Spec => []RunnableInReady
<1>1. StatesInv => RunnableInReady
  BY DEF StatesInv, Places
<1> QED
  BY <1>1, StatesInvInductive, PTL DEF Spec

\* QueuedIsWaiting: a process with a time-out pending or queued for a resource is
\* WAITING; the scheduler's loop over time-outs and SIGNAL_RESOURCE, which make the
\* head of those queues READY without looking at its state, never wake another.
THEOREM OnlyWaitingQueued ==
  ASSUME HmCallback = FALSE
  PROVE  Spec => []QueuedIsWaiting
<1>1. StatesInv => QueuedIsWaiting
  BY DEF StatesInv, Places
<1> QED
  BY <1>1, StatesInvInductive, PTL DEF Spec

\* QueuesDistinct: no process is twice in a queue or in the queues of two resources,
\* which the one ENT_PROCESSWAITING_RESOURCE of a process could not express.
THEOREM NobodyQueuedTwice ==
  ASSUME HmCallback = FALSE
  PROVE  Spec => []QueuesDistinct
<1>1. StatesInv => QueuesDistinct
  BY DEF StatesInv, Places, WaitsForOne, TypeInv, QueuesOK, DistinctQueue, QueuesDistinct
<1> QED
  BY <1>1, StatesInvInductive, PTL DEF Spec

-----------------------------------------------------------------------------
(* Priority-preemptive dispatch.                                           *)

\* The context SCHEDULER switches to when it is done, unless it starts another.
NextUp == IF nextCtx = "none" THEN ctx ELSE nextCtx

\* The error handler runs alone: not before the current process has given way to
\* it, and no process is current beside it but the one that locked preemption.
HandlerAlone ==
  /\ eh.running => mode = "NORMAL" /\ ~ eh.start
  /\ eh.start /\ (kpc \in {"idle", "partition", "enter", "in"} \/ ~ scheduled) => current = NoProc
  /\ eh.running /\ current # NoProc => lock > 0 /\ current = eh.preempted
  /\ mode # "IDLE" /\ NextUp = "ERRORHANDLER" => eh.running
  /\ mode # "NORMAL" => lock = 0

\* SCHEDULER is going to return to the current process, and to the default process
\* if there is none.
ReturnsToCurrent ==
  mode # "IDLE" /\ scheduled /\ ~ Handling /\ lock = 0 =>
    NextUp = IF current = NoProc THEN "DEFAULT" ELSE current

\* After SCHEDULEPROCESSOUT a process that is still current heads the ready queue.
StillFirst ==
  kpc \in {"partition", "enter", "in"} /\ scheduled /\ mode = "NORMAL" /\ ~ Handling /\ lock = 0 /\ current # NoProc =>
    ready # <<>> /\ Head(ready).id = current

DispatchInv == StatesInv /\ ContextInv /\ HandlerAlone /\ ReturnsToCurrent /\ StillFirst /\ PriorityDispatch

\* What a step that leaves alone who runs does to LOCK_LEVEL, the handlers' flags
\* and the ready queue. Only the error handler, by STOP, unlocks for another.
LockStep ==
  /\ kpc = "idle" /\ UNCHANGED eh
  /\ \/ /\ mode = "NORMAL" /\ ~ eh.running /\ ctx \in Proc \cup {"ERRORHANDLER"}
        /\ kpc' = "idle" => lock' # 0
     \/ eh.running /\ current # eh.preempted /\ lock' = 0

HandlerStep ==
  /\ UNCHANGED lock
  /\ eh'.running = eh.running /\ eh'.preempted = eh.preempted
  /\ \/ eh'.start = eh.start
     \/ /\ eh'.start /\ ~ eh.running
        /\ kpc' \notin {"idle", "partition", "enter", "in"} /\ (kpc = "deadlines" \/ ctx # "MODULE")

ReadyStep ==
  /\ kpc \notin {"partition", "enter", "in"}
  /\ kpc = "idle" /\ kpc' = "idle" /\ scheduled /\ mode = "NORMAL" /\ lock' = 0 =>
       UNCHANGED ready \/ \E p \in Proc : p # current /\ ready' = Dequeue(ready, p)

CalmStep == QuietStep /\ (LockStep \/ HandlerStep) /\ ReadyStep

LEMMA CallerIs ==
  ASSUME NEW service, Call(service)
  PROVE  /\ kpc = "idle" /\ "idle" \notin {"partition", "enter", "in"}
         /\ mode = "NORMAL" => ctx \in Proc \cup {"ERRORHANDLER"}
BY DEF Call, AtRest

\* A service that leaves the lock and the handlers alone, and PORT_YIELDs if it
\* changes the ready queue while preemption is not locked.
LEMMA PlainStep ==
  ASSUME kpc = "idle", UNCHANGED <<lock, eh>>, Yield \/ UNCHANGED ready \/ (YieldIf(lock = 0))
  PROVE  HandlerStep /\ ReadyStep
BY DEF HandlerStep, ReadyStep, Yield, YieldIf, kernel

LEMMA NotifyStep ==
  ASSUME TypeOK, NotifyHandler, ~ eh.running, UNCHANGED lock,
         kpc' \notin {"idle", "partition", "enter", "in"}, kpc = "deadlines" \/ ctx # "MODULE"
  PROVE  HandlerStep
BY DEF NotifyHandler, HandlerStep, TypeOK

LEMMA ServicesCalm ==
  ASSUME TypeOK, Services
  PROVE  CalmStep \/ StopErrorHandler \/ SetNormalMode \/ ModeStep
<1> USE DEF preemption, partition, health, queues
<1> SUFFICES \/ (LockStep \/ HandlerStep) /\ ReadyStep
             \/ StopErrorHandler \/ SetNormalMode \/ ModeStep
  BY ServicesControl DEF CalmStep
<1>1. CASE CREATE_PROCESS \/ CREATE_ERROR_HANDLER \/ GET_ERROR_STATUS
  BY <1>1, CallerIs DEF CREATE_PROCESS, CREATE_ERROR_HANDLER, GET_ERROR_STATUS, HandlerStep, ReadyStep, TypeOK
<1>2. CASE LOCK_PREEMPTION \/ UNLOCK_PREEMPTION
  BY <1>2, CallerIs DEF LOCK_PREEMPTION, UNLOCK_PREEMPTION, YieldIf, Yield, LockStep, ReadyStep, TypeOK
<1>3. CASE STOP_SELF
  BY <1>3, CallerIs DEF STOP_SELF, Yield, LockStep, ReadyStep
<1>4. CASE PERIODIC_WAIT
  BY <1>4, CallerIs, PlainStep DEF PERIODIC_WAIT
<1>5. CASE RAISE_APPLICATION_ERROR
  <2>1. kpc = "idle" /\ ctx # "MODULE"
    BY <1>5, CallsAtIdle DEF RAISE_APPLICATION_ERROR
  <2>2. CASE \E a \in ErrorActions \ {"IGNORE"} : LeaveMode(ActionMode(a))
    BY <1>5, <2>1, <2>2, ActionModes, CallsAtIdle DEF RAISE_APPLICATION_ERROR, ModeStep
  <2>3. CASE "handler" \in GoesTo /\ NotifyHandler /\ Yield /\ UNCHANGED <<queues, preemption>>
    BY <2>1, <2>3, NotifyStep DEF GoesTo, Yield, ReadyStep
  <2>4. CASE NotifyCallback /\ Yield /\ UNCHANGED <<queues, preemption>>
    BY <2>1, <2>4, PlainStep DEF NotifyCallback
  <2> QED BY <1>5, <2>2, <2>3, <2>4 DEF RAISE_APPLICATION_ERROR
<1>6. CASE \E m \in {"IDLE", "COLD_START", "WARM_START"} : SetStartMode(m)
  BY <1>6, CallsAtIdle DEF SetStartMode, ModeStep, Modes
<1>7. CASE (\E t \in TimeOuts : SUSPEND_SELF(t)) \/ \E b \in Budgets : REPLENISH(b)
  BY <1>7, CallerIs, PlainStep DEF SUSPEND_SELF, REPLENISH
<1>8. CASE \E d \in Delays : TIMED_WAIT(d)
  BY <1>8, CallerIs, PlainStep DEF TIMED_WAIT
<1>9. ASSUME NEW p \in Proc, SUSPEND(p) PROVE HandlerStep /\ ReadyStep
  BY <1>9, CallerIs DEF SUSPEND, HandlerStep, ReadyStep
<1>10. ASSUME NEW p \in Proc, RESUME(p) PROVE HandlerStep /\ ReadyStep
  BY <1>10, CallerIs, PlainStep DEF RESUME
<1>11. ASSUME NEW p \in Proc, STOP(p) PROVE (LockStep \/ HandlerStep) /\ ReadyStep
  BY <1>11, CallerIs DEF STOP, RemoveFromAll, LockStep, HandlerStep, ReadyStep
<1>12. ASSUME NEW p \in Proc, NEW d \in Delays, DELAYED_START(p, d) PROVE HandlerStep /\ ReadyStep
  BY <1>12, CallerIs, PlainStep DEF DELAYED_START
<1>13. ASSUME NEW p \in Proc, NEW prio \in Priorities, SET_PRIORITY(p, prio) PROVE HandlerStep /\ ReadyStep
  BY <1>13, CallerIs, PlainStep DEF SET_PRIORITY
<1> QED
  BY <1>1, <1>2, <1>3, <1>4, <1>5, <1>6, <1>7, <1>8, <1>9, <1>10, <1>11, <1>12, <1>13 DEF Services


LEMMA CalmSteps ==
  ASSUME TypeOK, Next
  PROVE  \/ CalmStep \/ ModeStep
         \/ StopErrorHandler \/ SetNormalMode \/ StartDone
         \/ HandleEvents \/ TimeoutsDone \/ DeadlinesDone
         \/ ScheduleProcessOut \/ KeepPartition \/ SchedulePartitionOut
         \/ EnterPartition \/ StayOut \/ ScheduleProcessIn
         \/ TICK \/ OtherYields \/ CallbackReturns
<1> USE DEF preemption, partition, health, queues, core, kernel
<1>1. CASE StartNext \/ Timeout
  BY <1>1 DEF StartNext, Timeout, CalmStep, QuietStep, HandlerStep, ReadyStep
<1>2. CASE Deadline
  <2>1. CASE \E a \in ErrorActions \ {"IGNORE"} : LeaveMode(ActionMode(a))
    BY <1>2, <2>1, ActionModes DEF Deadline, ModeStep
  <2>2. CASE /\ UNCHANGED <<ready, preemption, partition, kernel, core>>
             /\ \/ "handler" \in GoesTo /\ NotifyHandler
                \/ NotifyCallback
                \/ UNCHANGED health
    <3>1. kpc = "deadlines"
      BY <1>2 DEF Deadline
    <3>2. QuietStep /\ ReadyStep
      BY <2>2, <3>1 DEF QuietStep, ReadyStep
    <3>3. CASE "handler" \in GoesTo /\ NotifyHandler
      BY <2>2, <3>1, <3>2, <3>3, NotifyStep DEF GoesTo, CalmStep
    <3>4. CASE NotifyCallback \/ UNCHANGED health
      BY <2>2, <3>1, <3>2, <3>4 DEF NotifyCallback, HandlerStep, CalmStep
    <3> QED BY <2>2, <3>3, <3>4
  <2> QED BY <1>2, <2>1, <2>2 DEF Deadline
<1>3. CASE Continues
  BY <1>3 DEF Continues, Continue, CalmStep, QuietStep, HandlerStep, ReadyStep
<1>4. CASE ResourceServices
  <2>1. PICK r \in objects :
          \/ \E t \in TimeOuts : Call("WAIT_RESOURCE") /\ WAIT_RESOURCE(r, t)
          \/ Call("SIGNAL_RESOURCE") /\ SIGNAL_RESOURCE(r, TRUE)
          \/ kpc = "idle" /\ ~ scheduled /\ SIGNAL_RESOURCE(r, FALSE)
    BY <1>4 DEF ResourceServices
  <2>2. CASE \E t \in TimeOuts : Call("WAIT_RESOURCE") /\ WAIT_RESOURCE(r, t)
    BY <2>2, CallerIs, PlainStep DEF WAIT_RESOURCE, CalmStep, QuietStep
  <2>3. CASE Call("SIGNAL_RESOURCE") /\ SIGNAL_RESOURCE(r, TRUE)
    <3>1. UNCHANGED ready \/ YieldIf(lock = 0)
      BY <2>3 DEF SIGNAL_RESOURCE, SignalHead, YieldIf
    <3> QED BY <2>3, <3>1, CallerIs, PlainStep DEF SIGNAL_RESOURCE, YieldIf, CalmStep, QuietStep
  <2>4. CASE kpc = "idle" /\ ~ scheduled /\ SIGNAL_RESOURCE(r, FALSE)
    BY <2>4 DEF SIGNAL_RESOURCE, YieldIf, CalmStep, QuietStep, HandlerStep, ReadyStep
  <2> QED BY <2>1, <2>2, <2>3, <2>4
<1>5. CASE \E r \in Resource : CREATE_RESOURCE(r)
  BY <1>5, CallerIs DEF CREATE_RESOURCE, CalmStep, QuietStep, HandlerStep, ReadyStep
<1> QED
  BY <1>1, <1>2, <1>3, <1>4, <1>5, ServicesCalm DEF Next, Internal, Scheduler

\* Who is first stays first when another one leaves.
LEMMA HeadStays ==
  ASSUME NEW q \in Queue, NEW p
  PROVE  /\ q = <<>> => Dequeue(q, p) = <<>>
         /\ q # <<>> /\ Head(q).id # p => Dequeue(q, p) # <<>> /\ Head(Dequeue(q, p)) = Head(q)
<1>1. CASE ~ Enqueued(q, p)
  BY <1>1 DEF Dequeue
<1>2. CASE Enqueued(q, p)
  <2> DEFINE k == IndexOf(q, p)
             s == Dequeue(q, p)
  <2>1. q \in Seq(Entry(Proc)) /\ Len(q) \in Nat
    BY DEF Queue
  <2>2. /\ s \in Seq(Entry(Proc)) /\ k \in 1..Len(q) /\ q[k].id = p /\ Len(s) = Len(q) - 1
        /\ \A i \in 1..(Len(q) - 1) : s[i] = IF i < k THEN q[i] ELSE q[i + 1]
    BY <1>2, <2>1, DequeueType
  <2> HIDE DEF k, s
  <2>3. ASSUME q # <<>>, Head(q).id # p PROVE s # <<>> /\ Head(s) = Head(q)
    <3>1. Head(q) = q[1] /\ k # 1
      BY <2>1, <2>2, <2>3
    <3>2. 1 \in 1..(Len(q) - 1) /\ s[1] = q[1]
      BY <2>1, <2>2, <3>1
    <3> QED BY <2>1, <2>2, <3>1, <3>2
  <2>4. q # <<>>
    BY <2>1, <2>2
  <2> QED BY <2>3, <2>4 DEF s
<1> QED
  BY <1>1, <1>2


LEMMA CalmDispatch ==
  ASSUME DispatchInv, NoCallbackRuns', CalmStep
  PROVE  HandlerAlone' /\ ReturnsToCurrent' /\ StillFirst' /\ PriorityDispatch'
<1>1. /\ UNCHANGED <<current, mode, ctx, nextCtx, scheduled>>
      /\ kpc' = kpc \/ (kpc = "idle" /\ kpc' = "events")
  BY DEF CalmStep, QuietStep, core, kernel, Yield
<1>2. phm = NoCallback /\ phm' = NoCallback
  BY DEF DispatchInv, StatesInv, Control, NoCallbackRuns
<1>3. /\ eh'.running = eh.running /\ eh'.preempted = eh.preempted
      /\ \/ eh'.start = eh.start
         \/ /\ eh'.start /\ ~ eh.running /\ scheduled
            /\ kpc' \notin {"idle", "partition", "enter", "in"}
      /\ lock' = lock \/ LockStep
      /\ Handling' <=> eh'.start \/ eh'.running
      /\ Handling <=> eh.start \/ eh.running
  BY <1>2 DEF CalmStep, LockStep, HandlerStep, ReadyStep, Handling, NoCallback, DispatchInv, ContextInv, PlacedInv, Placed
<1>4. HandlerAlone /\ ReturnsToCurrent /\ StillFirst /\ PriorityDispatch /\ ContextFits /\ IdleLeaves
  BY DEF DispatchInv, ContextInv, PlacedInv
<1>5. HandlerAlone'
  BY <1>1, <1>3, <1>4 DEF HandlerAlone, NextUp, LockStep
<1>6. ~ Handling' => ~ Handling
  BY <1>3
<1>7. ReturnsToCurrent'
  <2>1. CASE lock' = lock
    BY <1>1, <1>4, <1>6, <2>1 DEF ReturnsToCurrent, NextUp
  <2>2. CASE LockStep /\ ~ Handling' /\ mode # "IDLE"
    <3>1. ~ eh.running /\ kpc = "idle" /\ nextCtx = "none" /\ ctx \in Proc \cup {"ERRORHANDLER"}
      BY <1>3, <1>4, <1>6, <2>2 DEF LockStep, ContextFits
    <3>2. ctx \in Proc /\ ctx = current
      BY <1>4, <2>2, <3>1 DEF HandlerAlone, NextUp, ContextFits, IsLeaving
    <3> QED BY <1>1, <3>1, <3>2, ConstantTypes DEF ReturnsToCurrent, NextUp
  <2> QED BY <1>1, <1>3, <2>1, <2>2 DEF ReturnsToCurrent
<1>8. StillFirst'
  BY <1>1 DEF StillFirst, CalmStep, ReadyStep
<1>9. PriorityDispatch'
  <2> SUFFICES ASSUME Settled', lock' = 0
               PROVE  (IF ready = <<>> THEN current = NoProc /\ ctx = "DEFAULT"
                                       ELSE current = Head(ready).id /\ ctx = current)'
    BY DEF PriorityDispatch
  <2>1. kpc = "idle" /\ kpc' = "idle" /\ scheduled /\ mode = "NORMAL" /\ ~ Handling /\ ~ eh.running
    BY <1>1, <1>3, <1>6 DEF Settled
  <2>2. lock = 0
    BY <1>3, <2>1 DEF LockStep
  <2>3. IF ready = <<>> THEN current = NoProc /\ ctx = "DEFAULT"
                        ELSE current = Head(ready).id /\ ctx = current
    BY <1>4, <2>1, <2>2 DEF PriorityDispatch, Settled
  <2>4. CASE UNCHANGED ready
    BY <1>1, <2>3, <2>4
  <2>5. ASSUME NEW p \in Proc, p # current, ready' = Dequeue(ready, p)
        PROVE  IF ready' = <<>> THEN current' = NoProc /\ ctx' = "DEFAULT"
                                ELSE current' = Head(ready').id /\ ctx' = current'
    <3>1. ready \in Queue
      BY ProcTypes DEF DispatchInv, StatesInv, TypeInv
    <3> QED BY <1>1, <2>3, <2>5, <3>1, HeadStays
  <2> QED BY <2>1, <2>4, <2>5 DEF CalmStep, ReadyStep
<1> QED
  BY <1>5, <1>7, <1>8, <1>9

\* A change of mode leaves nothing locked, no handler and no process.
LEMMA ModeDispatch ==
  ASSUME DispatchInv, NoCallbackRuns', ModeStep,
         kpc = "deadlines" => mode' \in {mode, "IDLE"}
  PROVE  HandlerAlone' /\ ReturnsToCurrent' /\ StillFirst' /\ PriorityDispatch'
<1>1. PICK m \in Modes \ {"NORMAL"} : LeaveMode(m) /\ (kpc = "deadlines" \/ (kpc = "idle" /\ ctx # "MODULE"))
  BY DEF ModeStep
<1>2. HandlerAlone /\ ReturnsToCurrent /\ StillFirst /\ PriorityDispatch /\ ContextFits /\ Placed
  BY DEF DispatchInv, ContextInv, PlacedInv
<1>3. CASE Wiped
  BY <1>2, <1>3
  DEF Wiped, preemption, partition, health, core, HandlerAlone, ReturnsToCurrent, StillFirst, PriorityDispatch,
      NextUp, Handling, Settled
<1>4. CASE GoIdle
  BY <1>4, ConstantTypes
  DEF GoIdle, Reinitialize, Yield, HandlerAlone, ReturnsToCurrent, StillFirst, PriorityDispatch,
      NextUp, Handling, Settled, NoErrorHandler
<1>5. CASE Restart(m) /\ m # "IDLE"
  <2>1. kpc = "idle" /\ nextCtx = "none"
    BY <1>1, <1>2, <1>5 DEF Restart, Placed, ContextFits
  <2> QED
    BY <1>5, <2>1, ConstantTypes
    DEF Restart, Reinitialize, HandlerAlone, ReturnsToCurrent, StillFirst, PriorityDispatch,
        NextUp, Handling, Settled, NoErrorHandler
<1> QED
  BY <1>1, <1>3, <1>4, <1>5 DEF LeaveMode


LEMMA StartDispatch ==
  ASSUME DispatchInv, NoCallbackRuns', StopErrorHandler \/ SetNormalMode \/ StartDone
  PROVE  HandlerAlone' /\ ReturnsToCurrent' /\ StillFirst' /\ PriorityDispatch'
<1> USE ConstantTypes DEF HandlerAlone, ReturnsToCurrent, StillFirst, PriorityDispatch, NextUp, Handling, Settled
<1>1. HandlerAlone /\ ReturnsToCurrent /\ StillFirst /\ PriorityDispatch /\ ContextFits /\ Placed /\ IdleLeaves
  BY DEF DispatchInv, ContextInv, PlacedInv
<1>2. phm = NoCallback /\ phm' = NoCallback /\ ~ phm.start /\ ~ phm.running
  BY DEF DispatchInv, StatesInv, Control, NoCallbackRuns, NoCallback
<1>3. CASE StopErrorHandler
  <2>1. /\ kpc = "idle" /\ mode = "NORMAL" /\ eh.running /\ UNCHANGED <<lock, mode, nextCtx, scheduled>>
        /\ kpc' \in {"idle", "events"}
    BY <1>3, CallsAtIdle DEF StopErrorHandler, partition, kernel, Yield
  <2>2. eh'.running /\ ~ eh'.start /\ eh'.preempted = eh.preempted
    BY <1>1, <1>3, <2>1 DEF StopErrorHandler, DispatchInv, StatesInv, TypeInv, TypeOK
  <2>3. current' # NoProc => lock > 0 /\ current' = eh.preempted
    BY <1>1, <1>3, <2>1 DEF StopErrorHandler
  <2> QED BY <1>1, <2>1, <2>2, <2>3
<1>4. CASE SetNormalMode
  <2>1. /\ kpc = "idle" /\ scheduled /\ ctx # "MODULE" /\ mode \in {"COLD_START", "WARM_START"} /\ mode' = "NORMAL"
        /\ UNCHANGED <<ready, eh, lock, current, ctx, nextCtx, scheduled, count>>
        /\ kpc' = IF count = 0 THEN "idle" ELSE "starting"
    BY <1>1, <1>4, CallsAtIdle DEF SetNormalMode, Placed, preemption, core, health, queues
  <2>2. current = NoProc /\ lock = 0 /\ nextCtx = "none"
    BY <1>1, <2>1 DEF ContextFits
  <2>3. count = 0 => ready = <<>>
    <3>1. SUFFICES ASSUME count = 0, ready # <<>> PROVE FALSE
      OBVIOUS
    <3>2. Created = {}
      BY <3>1 DEF Created
    <3>3. Head(ready).id \in Proc /\ Head(ready).id \in Ids(ready)
      BY <3>1, QueueIds DEF DispatchInv, StatesInv, TypeInv, QueuesOK
    <3> QED BY <3>2, <3>3, PlaceOf DEF DispatchInv
  <2> QED BY <1>1, <1>2, <2>1, <2>2, <2>3
<1>5. CASE StartDone
  BY <1>1, <1>2, <1>5 DEF StartDone, Yield, partition, core, health, ContextFits
<1> QED
  BY <1>3, <1>4, <1>5

LEMMA PassDispatch ==
  ASSUME DispatchInv, NoCallbackRuns',
         \/ HandleEvents \/ TimeoutsDone \/ DeadlinesDone
         \/ ScheduleProcessOut \/ KeepPartition \/ SchedulePartitionOut
         \/ EnterPartition \/ StayOut
  PROVE  HandlerAlone' /\ ReturnsToCurrent' /\ StillFirst' /\ PriorityDispatch'
<1> USE ConstantTypes DEF HandlerAlone, ReturnsToCurrent, StillFirst, PriorityDispatch, NextUp, Handling, Settled
<1>1. HandlerAlone /\ ReturnsToCurrent /\ StillFirst /\ PriorityDispatch /\ ContextFits /\ Placed /\ IdleLeaves
  BY DEF DispatchInv, ContextInv, PlacedInv
<1>2. phm = NoCallback /\ phm' = NoCallback /\ ~ phm.start /\ ~ phm.running
  BY DEF DispatchInv, StatesInv, Control, NoCallbackRuns, NoCallback
<1>0. eh \in ErrorHandlers /\ lock \in Nat
  BY ConstantTypes DEF DispatchInv, StatesInv, TypeInv, TypeOK, ErrorHandlers
<1>3. CASE HandleEvents
  <2>1. UNCHANGED <<lock, current, mode, ctx, nextCtx, scheduled>> /\ kpc = "events" /\ kpc' \in {"out", "timeouts"}
    BY <1>3 DEF HandleEvents, preemption, partition, core
  <2>2. eh' = eh \/ (eh' = [eh EXCEPT !.start = TRUE] /\ ~ eh.running /\ scheduled)
    BY <1>3 DEF HandleEvents
  <2> QED BY <1>0, <1>1, <1>2, <2>1, <2>2 DEF ErrorHandlers
<1>4. CASE TimeoutsDone \/ DeadlinesDone
  BY <1>1, <1>2, <1>4 DEF TimeoutsDone, DeadlinesDone, preemption, partition, health, core
<1>5. CASE ScheduleProcessOut
  <2>1. /\ UNCHANGED <<ready, lock, mode, ctx, scheduled>> /\ kpc = "out" /\ kpc' \in {"in", "partition"}
    BY <1>5 DEF ScheduleProcessOut, AfterOut, partition, queues
  <2>2. CASE ~ scheduled
    <3>1. UNCHANGED <<current, eh, nextCtx>>
      BY <1>5, <2>2 DEF ScheduleProcessOut, StopCallback, StopHandler, Preempt, StayOn
    <3>2. eh.start => current = NoProc
      BY <1>1, <2>2
    <3> QED BY <1>1, <1>2, <2>1, <2>2, <3>1, <3>2
  <2>3. CASE scheduled /\ StopHandler
    <3>1. UNCHANGED current /\ mode = "NORMAL" /\ eh.running /\ ~ eh.start
      BY <1>1, <2>3 DEF StopHandler
    <3>2. CASE UNCHANGED <<nextCtx, eh>>
      BY <1>1, <1>2, <2>1, <3>1, <3>2
    <3>3. CASE nextCtx' = "DEFAULT" /\ eh' = [eh EXCEPT !.running = FALSE, !.stop = FALSE, !.preempted = NoProc]
      <4>1. ~ eh'.running /\ ~ eh'.start
        BY <1>0, <3>1, <3>3 DEF ErrorHandlers
      <4>2. lock = 0 => current = NoProc
        BY <1>0, <1>1, <3>1
      <4> QED BY <1>0, <1>1, <1>2, <2>1, <3>1, <3>3, <4>1, <4>2
    <3> QED BY <2>3, <3>2, <3>3 DEF StopHandler
  <2>4. CASE scheduled /\ Preempt
    BY <1>0, <1>1, <1>2, <2>1, <2>4 DEF Preempt, ErrorHandlers
  <2>5. CASE scheduled /\ StayOn
    BY <1>0, <1>1, <1>2, <2>1, <2>5 DEF StayOn, KeepsProcessor, ContextFits
  <2> QED BY <1>2, <1>5, <2>2, <2>3, <2>4, <2>5 DEF ScheduleProcessOut, StopCallback
<1>6. CASE KeepPartition
  BY <1>1, <1>2, <1>6 DEF KeepPartition, preemption, partition, health, core, queues
<1>7. CASE SchedulePartitionOut
  <2>1. /\ UNCHANGED <<ready, lock, mode, current, eh, ctx>> /\ kpc = "partition" /\ kpc' = "enter"
    BY <1>7 DEF SchedulePartitionOut, preemption, partition, health, queues
  <2>2. ~ scheduled'
    BY <1>7, Zenon DEF SchedulePartitionOut
  <2>3. nextCtx' = "MODULE" \/ nextCtx' = nextCtx
    BY <1>7 DEF SchedulePartitionOut
  <2> QED BY <1>1, <1>2, <2>1, <2>2, <2>3
<1>8. CASE EnterPartition
  BY <1>1, <1>2, <1>8 DEF EnterPartition, preemption, partition, health, queues, DispatchInv, StatesInv, TypeInv, TypeOK
<1>9. CASE StayOut
  BY <1>1, <1>2, <1>9 DEF StayOut, preemption, partition, health, core, queues, IdleLeaves, Placed
<1> QED
  BY <1>3, <1>4, <1>5, <1>6, <1>7, <1>8, <1>9


LEMMA ProcessInDispatch ==
  ASSUME DispatchInv, NoCallbackRuns', ScheduleProcessIn
  PROVE  HandlerAlone' /\ ReturnsToCurrent' /\ StillFirst' /\ PriorityDispatch'
<1> USE ConstantTypes DEF HandlerAlone, ReturnsToCurrent, StillFirst, PriorityDispatch, NextUp, Handling, Settled
<1>1. HandlerAlone /\ ReturnsToCurrent /\ StillFirst /\ ContextFits
  BY DEF DispatchInv, ContextInv
<1>2. phm = NoCallback /\ phm' = NoCallback /\ ~ phm.start /\ ~ phm.running
  BY DEF DispatchInv, StatesInv, Control, NoCallbackRuns, NoCallback
<1>3. eh \in ErrorHandlers /\ ctx \in Contexts /\ ready \in Queue
  BY ProcTypes DEF DispatchInv, StatesInv, TypeInv, TypeOK, ErrorHandlers
<1>4. /\ UNCHANGED <<ready, lock, mode, scheduled>> /\ kpc = "in" /\ kpc' = "idle" /\ nextCtx' = "none"
  BY DEF ScheduleProcessIn, StartCallback, StartHandler, Dispatch, NothingToStart, Switch, partition, queues
<1>5. CASE scheduled /\ StartHandler
  <2>1. /\ current' = current /\ mode = "NORMAL" /\ eh.start /\ ctx' = "ERRORHANDLER"
        /\ eh' = [eh EXCEPT !.running = TRUE, !.start = FALSE]
    BY <1>5 DEF StartHandler, Switch
  <2>2. eh'.running /\ ~ eh'.start
    BY <1>3, <2>1 DEF ErrorHandlers
  <2> QED BY <1>1, <1>2, <1>4, <2>1, <2>2
<1>6. CASE scheduled /\ Dispatch
  <2>1. /\ current' = Head(ready).id /\ eh' = eh /\ mode = "NORMAL" /\ ready # <<>> /\ ~ eh.start /\ ~ eh.running
        /\ ctx' = IF current' = "none" THEN ctx ELSE current'
    BY <1>6 DEF Dispatch, MayDispatch, Switch
  <2>2. current' \in Proc
    BY <1>3, <2>1, QueueTypes
  <2>3. ctx' = current' /\ current' # NoProc
    BY <2>1, <2>2
  <2> QED BY <1>1, <1>2, <1>4, <2>1, <2>2, <2>3
<1>7. CASE NothingToStart
  <2>1. UNCHANGED <<current, eh>> /\ ctx' = NextUp
    BY <1>7 DEF NothingToStart, Switch
  <2>2. ctx' # "none"
    BY <1>3, <2>1 DEF Contexts
  <2>3. NextUp' = NextUp
    BY <1>4, <2>1
  <2>4. scheduled /\ mode = "NORMAL" /\ ~ Handling /\ lock = 0 /\ current = NoProc => ready = <<>>
    BY <1>7 DEF NothingToStart, MayDispatch
  <2>5. scheduled /\ mode = "NORMAL" /\ eh.start => eh.running
    BY <1>2, <1>7 DEF NothingToStart
  <2> QED BY <1>1, <1>2, <1>4, <2>1, <2>3, <2>4, <2>5
<1> QED
  BY <1>2, <1>5, <1>6, <1>7 DEF ScheduleProcessIn, StartCallback

LEMMA DispatchInvInductive ==
  ASSUME HmCallback = FALSE
  PROVE  /\ Init => DispatchInv
         /\ DispatchInv /\ [Next]_vars /\ [kpc = "deadlines" => mode' \in {mode, "IDLE"}]_vars => DispatchInv'
<1>1. ASSUME Init PROVE DispatchInv
  <2>1. StatesInv /\ ContextInv
    BY <1>1, StatesInvInductive, ContextInvInductive
  <2>2. HandlerAlone /\ ReturnsToCurrent /\ StillFirst /\ PriorityDispatch
    BY <1>1 DEF Init, HandlerAlone, ReturnsToCurrent, StillFirst, PriorityDispatch, Settled, NextUp, NoErrorHandler
  <2> QED BY <2>1, <2>2 DEF DispatchInv
<1>2. ASSUME DispatchInv, [Next]_vars, [kpc = "deadlines" => mode' \in {mode, "IDLE"}]_vars
      PROVE  DispatchInv'
  <2>1. StatesInv' /\ ContextInv'
    BY <1>2, StatesInvInductive, ContextInvInductive DEF DispatchInv
  <2>2. NoCallbackRuns' /\ TypeOK /\ ctx # "HMCALLBACK"
    BY <1>2, <2>1 DEF StatesInv, Control, TypeInv, DispatchInv, NoCallbackRuns
  <2> SUFFICES HandlerAlone' /\ ReturnsToCurrent' /\ StillFirst' /\ PriorityDispatch'
    BY <2>1 DEF DispatchInv
  <2>3. CASE TICK \/ OtherYields
    BY <1>2, <2>3
    DEF TICK, OtherYields, AtRest, DispatchInv, HandlerAlone, ReturnsToCurrent, StillFirst, PriorityDispatch,
        Settled, Handling, NextUp, preemption, partition, health, core
  <2>4. CASE UNCHANGED vars
    BY <1>2, <2>4
    DEF DispatchInv, HandlerAlone, ReturnsToCurrent, StillFirst, PriorityDispatch,
        Settled, Handling, NextUp, vars, queues, preemption, partition, health, kernel, core
  <2>5. CASE Next /\ (kpc = "deadlines" => mode' \in {mode, "IDLE"})
    BY <1>2, <2>2, <2>3, <2>5, CalmSteps, CalmDispatch, ModeDispatch, StartDispatch, PassDispatch,
       ProcessInDispatch DEF CallbackReturns
  <2> QED BY <1>2, <2>4, <2>5
<1> QED
  BY <1>1, <1>2

\* PriorityDispatch: in every partition without a callback, as long as no missed
\* deadline restarts it from inside SCHEDULER, a service or a tick that is over
\* leaves the processor with the first process of the highest priority, and with
\* the default process only if none can run.
THEOREM MostUrgentRuns ==
  ASSUME HmCallback = FALSE
  PROVE  Spec /\ NoRestartInPass => []PriorityDispatch
<1>1. DispatchInv => PriorityDispatch
  BY DEF DispatchInv
<1> QED
  BY <1>1, DispatchInvInductive, PTL DEF Spec, NoRestartInPass


-----------------------------------------------------------------------------
(* The process that locked preemption, in a partition without handlers.    *)
(* With an error handler it can lose the processor: the handler gives it   *)
(* back by PORT_SWITCH while it is still flagged as running, and the next  *)
(* pass of SCHEDULER switches to the default process.                      *)

NoHandler == ~ eh.exists /\ ~ eh.start /\ ~ eh.running /\ errors = 0

LEMMA NoHandlerSteps ==
  ASSUME TypeOK, NoHandler, Next
  PROVE  NoHandler' \/ CREATE_ERROR_HANDLER
<1> USE DEF NoHandler, health
<1>0. eh \in ErrorHandlers
  BY DEF TypeOK, ErrorHandlers
<1>1. ASSUME NEW m, LeaveMode(m) PROVE NoHandler'
  BY <1>1 DEF LeaveMode, Wiped, GoIdle, Restart, Reinitialize, NoErrorHandler
<1>2. ASSUME NotifyHandler, "handler" \in GoesTo PROVE FALSE
  BY <1>2 DEF GoesTo
<1>3. CASE Services
  <2>1. CASE RAISE_APPLICATION_ERROR
    BY <1>1, <1>2, <2>1 DEF RAISE_APPLICATION_ERROR, NotifyCallback
  <2>2. CASE \E m \in {"IDLE", "COLD_START", "WARM_START"} : SetStartMode(m)
    BY <1>1, <2>2 DEF SetStartMode
  <2>3. CASE CREATE_PROCESS \/ STOP_SELF \/ LOCK_PREEMPTION \/ UNLOCK_PREEMPTION \/ PERIODIC_WAIT \/ SetNormalMode
    BY <2>3 DEF CREATE_PROCESS, STOP_SELF, LOCK_PREEMPTION, UNLOCK_PREEMPTION, PERIODIC_WAIT, SetNormalMode
  <2>4. CASE StopErrorHandler \/ GET_ERROR_STATUS
    BY <2>4 DEF StopErrorHandler, GET_ERROR_STATUS
  <2>5. CASE \/ \E t \in TimeOuts : SUSPEND_SELF(t)
             \/ \E b \in Budgets : REPLENISH(b)
             \/ \E d \in Delays : TIMED_WAIT(d)
    BY <2>5 DEF SUSPEND_SELF, REPLENISH, TIMED_WAIT
  <2>6. CASE \E p \in Proc :
               \/ SUSPEND(p) \/ RESUME(p) \/ STOP(p)
               \/ \E d \in Delays : DELAYED_START(p, d)
               \/ \E prio \in Priorities : SET_PRIORITY(p, prio)
    <3>1. \A p \in Proc : SUSPEND(p) \/ RESUME(p) \/ STOP(p) => UNCHANGED health
      BY DEF SUSPEND, RESUME, STOP
    <3>2. \A p \in Proc : (\E d \in Delays : DELAYED_START(p, d)) => UNCHANGED health
      BY DEF DELAYED_START
    <3>3. \A p \in Proc : (\E prio \in Priorities : SET_PRIORITY(p, prio)) => UNCHANGED health
      BY DEF SET_PRIORITY
    <3> QED BY <2>6, <3>1, <3>2, <3>3
  <2> QED BY <1>3, <2>1, <2>2, <2>3, <2>4, <2>5, <2>6 DEF Services
<1>4. CASE Scheduler
  <2>1. CASE Deadline
    BY <1>1, <1>2, <2>1 DEF Deadline, NotifyCallback
  <2>2. CASE HandleEvents
    BY <1>0, <2>2 DEF HandleEvents
  <2>3. CASE ScheduleProcessOut
    BY <2>3 DEF ScheduleProcessOut, StopCallback, StopHandler, Preempt, StayOn
  <2>4. CASE ScheduleProcessIn
    BY <2>4 DEF ScheduleProcessIn, StartCallback, StartHandler, Dispatch, NothingToStart
  <2> QED
    BY <1>4, <2>1, <2>2, <2>3, <2>4
    DEF Scheduler, StartNext, StartDone, Timeout, TimeoutsDone, DeadlinesDone, KeepPartition,
        SchedulePartitionOut, EnterPartition, StayOut
<1>5. CASE Continues \/ TICK \/ OtherYields \/ \E r \in Resource : CREATE_RESOURCE(r)
  BY <1>5 DEF Continues, Continue, TICK, OtherYields, CREATE_RESOURCE
<1>6. CASE CallbackReturns
  BY <1>1, <1>6 DEF CallbackReturns
<1>7. CASE ResourceServices
  BY <1>7 DEF ResourceServices, WAIT_RESOURCE, SIGNAL_RESOURCE
<1> QED
  BY <1>3, <1>4, <1>5, <1>6, <1>7 DEF Next, Internal

\* SCHEDULER is going to return to whoever locked preemption.
HolderInv ==
  /\ DispatchInv /\ NoHandler
  /\ lock > 0 => current # NoProc /\ (scheduled => NextUp = current)

LEMMA HolderSteps ==
  ASSUME HolderInv, DispatchInv', Next,
         kpc = "deadlines" => mode' \in {mode, "IDLE"}
  PROVE  lock' > 0 => current' # NoProc /\ (scheduled' => NextUp' = current')
<1> SUFFICES ASSUME lock' > 0 PROVE current' # NoProc /\ (scheduled' => NextUp' = current')
  OBVIOUS
<1> USE ConstantTypes DEF NextUp
<1>1. /\ lock > 0 => current # NoProc /\ (scheduled => NextUp = current)
      /\ HandlerAlone /\ ContextFits /\ NoHandler /\ lock \in Nat
  BY ConstantTypes DEF HolderInv, DispatchInv, ContextInv, StatesInv, TypeInv, TypeOK
<1>2. phm = NoCallback /\ ~ phm.start /\ ~ phm.running /\ ctx # "HMCALLBACK"
  BY DEF HolderInv, DispatchInv, StatesInv, Control, NoCallbackRuns, NoCallback
<1>3. CASE CalmStep
  <2>1. UNCHANGED <<current, mode, ctx, nextCtx, scheduled>>
    BY <1>3 DEF CalmStep, QuietStep, core
  <2>2. CASE lock' = lock
    BY <1>1, <2>1, <2>2
  <2>3. CASE LockStep
    <3>1. mode = "NORMAL" /\ kpc = "idle" /\ nextCtx = "none" /\ ctx \in Proc \cup {"ERRORHANDLER"}
      BY <1>1, <2>3 DEF LockStep, NoHandler, ContextFits
    <3>2. ctx = current /\ ctx \in Proc
      BY <1>1, <3>1 DEF HandlerAlone, NoHandler, ContextFits, IsLeaving
    <3> QED BY <2>1, <3>1, <3>2
  <2> QED BY <1>3, <2>2, <2>3 DEF CalmStep, HandlerStep
<1>4. CASE ModeStep
  BY <1>1, <1>4 DEF ModeStep, LeaveMode, Wiped, GoIdle, Restart, Reinitialize, preemption, core
<1>5. CASE StopErrorHandler \/ SetNormalMode \/ StartDone
  BY <1>1, <1>5 DEF StopErrorHandler, SetNormalMode, StartDone, NoHandler, preemption, core, ContextFits
<1>6. CASE HandleEvents \/ TimeoutsDone \/ DeadlinesDone \/ KeepPartition \/ StayOut \/ OtherYields
  BY <1>1, <1>6 DEF HandleEvents, TimeoutsDone, DeadlinesDone, KeepPartition, StayOut, OtherYields, preemption, core
<1>7. CASE ScheduleProcessOut
  BY <1>1, <1>2, <1>7
  DEF ScheduleProcessOut, StopCallback, StopHandler, Preempt, StayOn, KeepsProcessor, NoHandler
<1>8. CASE SchedulePartitionOut
  <2>1. UNCHANGED <<lock, current, ctx>>
    BY <1>8 DEF SchedulePartitionOut, preemption
  <2>2. ~ scheduled'
    BY <1>8, Zenon DEF SchedulePartitionOut
  <2> QED BY <1>1, <2>1, <2>2
<1>9. CASE EnterPartition
  BY <1>1, <1>9 DEF EnterPartition, preemption, HolderInv, DispatchInv, StatesInv, TypeInv, TypeOK
<1>10. CASE ScheduleProcessIn
  BY <1>1, <1>2, <1>10
  DEF ScheduleProcessIn, StartCallback, StartHandler, Dispatch, MayDispatch, NothingToStart, Switch, NoHandler
<1>11. CASE TICK
  BY <1>1, <1>11 DEF TICK, preemption
<1>12. ~ CallbackReturns
  BY <1>2 DEF CallbackReturns
<1>13. TypeOK
  BY DEF HolderInv, DispatchInv, StatesInv, TypeInv
<1> QED
  BY <1>3, <1>4, <1>5, <1>6, <1>7, <1>8, <1>9, <1>10, <1>11, <1>12, <1>13, CalmSteps

\* LockHolderRuns: in a partition with neither an error handler nor a callback a
\* process that raised LOCK_LEVEL has the processor whenever its partition has it,
\* until it unlocks, blocks or stops.
THEOREM LockHolderKeepsProcessor ==
  ASSUME HmCallback = FALSE, "CREATE_ERROR_HANDLER" \notin Calls
  PROVE  Spec /\ NoRestartInPass => []LockHolderRuns
<1>1. Init => HolderInv
  <2>1. Init => DispatchInv
    BY DispatchInvInductive
  <2>2. Init => lock = 0 /\ NoHandler
    BY DEF Init, NoHandler, NoErrorHandler
  <2> QED BY <2>1, <2>2 DEF HolderInv
<1>2. HolderInv /\ [Next]_vars /\ [kpc = "deadlines" => mode' \in {mode, "IDLE"}]_vars => HolderInv'
  <2> SUFFICES ASSUME HolderInv, [Next]_vars, [kpc = "deadlines" => mode' \in {mode, "IDLE"}]_vars
               PROVE  HolderInv'
    OBVIOUS
  <2>1. DispatchInv' /\ TypeOK
    BY DispatchInvInductive DEF HolderInv, DispatchInv, StatesInv, TypeInv
  <2>2. CASE UNCHANGED vars
    BY <2>1, <2>2 DEF HolderInv, NoHandler, NextUp, vars, preemption, health, core
  <2>3. CASE Next /\ (kpc = "deadlines" => mode' \in {mode, "IDLE"})
    <3>1. NoHandler'
      BY <2>1, <2>3, NoHandlerSteps DEF HolderInv, CREATE_ERROR_HANDLER, Call
    <3> QED BY <2>1, <2>3, <3>1, HolderSteps DEF HolderInv
  <2> QED BY <2>2, <2>3
<1>3. HolderInv => LockHolderRuns
  BY ConstantTypes
  DEF HolderInv, DispatchInv, ContextInv, ContextFits, NextUp, LockHolderRuns, Settled
<1> QED
  BY <1>1, <1>2, <1>3, PTL DEF Spec, NoRestartInPass


-----------------------------------------------------------------------------
(* The order of the queues. A queue of processes is kept in order of their *)
(* current priority because every change of a priority is followed by the  *)
(* process's move in the queues it is in.                                  *)

InOrder(q, T) == Sorted(q, FALSE) /\ \A i \in DOMAIN q : q[i].pri = T[q[i].id].prio

\* What a step may do to a queue when p's priority goes from old to new.
Keyed(q, q2, p, old, new) ==
  \/ q2 = Dequeue(q, p)
  \/ q2 = Enqueue(Dequeue(q, p), FALSE, p, new)
  \/ /\ p \notin Ids(q) \/ old = new
     /\ q2 = q \/ q2 = Enqueue(q, FALSE, p, new)

LEMMA OrderIsOfEntries ==
  ASSUME NEW q, NEW T
  PROVE  InOrder(q, T) <=> Sorted(q, FALSE) /\ \A e \in Entries(q) : e.pri = T[e.id].prio
BY DEF InOrder, Entries

LEMMA KeyedInOrder ==
  ASSUME NEW q \in DistinctQueue, NEW q2, NEW p \in Proc, NEW T \in Table, NEW U \in Table,
         \A x \in Proc \ {p} : U[x].prio = T[x].prio,
         Keyed(q, q2, p, T[p].prio, U[p].prio), InOrder(q, T)
  PROVE  InOrder(q2, U)
<1> DEFINE old == T[p].prio
           new == U[p].prio
<1>1. new \in Int
  BY DEF Table, ProcessInfo
<1>2. /\ q \in Seq(Entry(Proc)) /\ DistinctIds(q) /\ Sorted(q, FALSE)
      /\ \A e \in Entries(q) : e.pri = T[e.id].prio /\ e.id \in Proc
  <2>1. q \in Seq(Entry(Proc)) /\ DistinctIds(q) /\ Sorted(q, FALSE)
    BY DEF DistinctQueue, Queue, InOrder
  <2>2. \A i \in DOMAIN q : q[i] \in Entry(Proc)
    BY <2>1
  <2>3. \A i \in DOMAIN q : q[i].id \in Proc
    BY <2>2 DEF Entry
  <2> QED BY <2>1, <2>3 DEF InOrder, Entries
<1>3. /\ Dequeue(q, p) \in DistinctQueue /\ Dequeue(q, p) \in Seq(Entry(Proc))
      /\ Sorted(Dequeue(q, p), FALSE)
      /\ Entries(Dequeue(q, p)) = {e \in Entries(q) : e.id # p}
      /\ Ids(Dequeue(q, p)) = Ids(q) \ {p}
  BY <1>2, DistinctTypes, DequeueEntries, DequeueSorted DEF DistinctQueue, Queue
<1>4. InOrder(Dequeue(q, p), U)
  BY <1>2, <1>3, OrderIsOfEntries
<1>5. ASSUME NEW s \in Seq(Entry(Proc)), InOrder(s, U), p \notin Ids(s)
      PROVE  InOrder(Enqueue(s, FALSE, p, new), U)
  <2>1. ~ Enqueued(s, p)
    BY <1>5, EnqueuedIsInIds
  <2>2. Sorted(s, FALSE) /\ \A e \in Entries(s) : e.pri = U[e.id].prio
    BY <1>5, OrderIsOfEntries
  <2>3. /\ Sorted(Enqueue(s, FALSE, p, new), FALSE)
        /\ Entries(Enqueue(s, FALSE, p, new)) = Entries(s) \cup {[id |-> p, pri |-> new]}
    <3> HIDE DEF new
    <3>1. \A ascending : Entries(Enqueue(s, ascending, p, new)) = Entries(s) \cup {[id |-> p, pri |-> new]}
      BY <1>1, <2>1, EnqueueEntries
    <3>2. Sorted(Enqueue(s, FALSE, p, new), FALSE)
      BY <1>1, <2>1, <2>2, EnqueueDescending
    <3> QED BY <3>1, <3>2
  <2>4. \A e \in Entries(Enqueue(s, FALSE, p, new)) : e.pri = U[e.id].prio
    <3> SUFFICES ASSUME NEW e \in Entries(s) \cup {[id |-> p, pri |-> new]} PROVE e.pri = U[e.id].prio
      BY <2>3
    <3> QED BY <2>2
  <2> QED BY <2>3, <2>4, OrderIsOfEntries
<1>6. InOrder(Enqueue(Dequeue(q, p), FALSE, p, new), U)
  BY <1>3, <1>4, <1>5
<1>7. ASSUME p \notin Ids(q) \/ old = new PROVE InOrder(q, U)
  <2>1. \A e \in Entries(q) : e.pri = U[e.id].prio
    <3>1. \A e \in Entries(q) : e.id \in Ids(q)
      BY DEF Entries, Ids
    <3> QED BY <1>2, <1>7, <3>1
  <2> QED BY <1>2, <2>1, OrderIsOfEntries
<1>8. ASSUME p \in Ids(q), old = new PROVE Enqueue(q, FALSE, p, new) = q
  <2>1. Enqueue(q, FALSE, p, new) = Rekey(q, p, new)
    BY <1>8, EnqueuedIsInIds DEF Enqueue
  <2>2. \A i \in DOMAIN q : q[i] = [id |-> q[i].id, pri |-> q[i].pri]
    <3>1. \A i \in DOMAIN q : q[i] \in Entry(Proc)
      BY <1>2
    <3> QED BY <3>1 DEF Entry
  <2>3. \A i \in DOMAIN q : q[i].id = p => q[i].pri = new
    BY <1>8 DEF InOrder
  <2>4. \A i \in DOMAIN q : Rekey(q, p, new)[i] = q[i]
    BY <2>2, <2>3 DEF Rekey
  <2>5. DOMAIN Rekey(q, p, new) = DOMAIN q /\ Rekey(q, p, new) = [i \in DOMAIN q |-> Rekey(q, p, new)[i]]
    BY DEF Rekey
  <2>6. q = [i \in DOMAIN q |-> q[i]]
    BY <1>2
  <2> QED BY <2>1, <2>4, <2>5, <2>6
<1> HIDE DEF old, new
<1>9. CASE q2 = Dequeue(q, p) \/ q2 = Enqueue(Dequeue(q, p), FALSE, p, new)
  BY <1>4, <1>6, <1>9
<1>10. CASE (p \notin Ids(q) \/ old = new) /\ (q2 = q \/ q2 = Enqueue(q, FALSE, p, new))
  BY <1>2, <1>5, <1>7, <1>8, <1>10
<1> QED
  BY <1>9, <1>10 DEF Keyed, old, new

\* The step of a process p that may change its priority and its places.
OrderStep(p) ==
  /\ \A x \in Proc \ {p} : proc'[x].prio = proc[x].prio
  /\ Keyed(ready, ready', p, proc[p].prio, proc'[p].prio)
  /\ \A r \in Resource \ Fifo : Keyed(waitq[r], waitq'[r], p, proc[p].prio, proc'[p].prio)
  /\ \/ timeoutQ' = timeoutQ \/ timeoutQ' = Dequeue(timeoutQ, p)
     \/ \E at \in Int : \/ p \notin Ids(timeoutQ) /\ timeoutQ' = Enqueue(timeoutQ, TRUE, p, at)
                        \/ timeoutQ' = Enqueue(Dequeue(timeoutQ, p), TRUE, p, at)

LEMMA OrderIs ==
  QueuesInOrder <=> /\ InOrder(ready, proc) /\ Sorted(timeoutQ, TRUE)
                    /\ \A r \in Resource \ Fifo : InOrder(waitq[r], proc)
BY DEF QueuesInOrder, InOrder

LEMMA OrderStepKeeps ==
  ASSUME StatesInv, TypeInv', QueuesInOrder, NEW p \in Proc, OrderStep(p)
  PROVE  QueuesInOrder'
<1>1. /\ proc \in Table /\ proc' \in Table /\ ready \in DistinctQueue /\ timeoutQ \in DistinctQueue
      /\ waitq \in [Resource -> DistinctQueue]
  BY ProcTypes, PlaceOf DEF TypeInv, TypeOK, Table
<1>2. InOrder(ready, proc) /\ Sorted(timeoutQ, TRUE) /\ \A r \in Resource \ Fifo : InOrder(waitq[r], proc)
  BY OrderIs
<1>3. InOrder(ready', proc')
  BY <1>1, <1>2, KeyedInOrder DEF OrderStep
<1>4. \A r \in Resource \ Fifo : InOrder(waitq'[r], proc')
  <2> SUFFICES ASSUME NEW r \in Resource \ Fifo PROVE InOrder(waitq'[r], proc')
    OBVIOUS
  <2>1. waitq[r] \in DistinctQueue /\ InOrder(waitq[r], proc)
    BY <1>1, <1>2
  <2> QED BY <1>1, <2>1, KeyedInOrder DEF OrderStep
<1>5. Sorted(timeoutQ', TRUE)
  <2>1. timeoutQ \in Seq(Entry(Proc)) /\ DistinctIds(timeoutQ)
    BY <1>1 DEF DistinctQueue, Queue
  <2>2. /\ Sorted(Dequeue(timeoutQ, p), TRUE)
        /\ Dequeue(timeoutQ, p) \in Seq(Entry(Proc)) /\ p \notin Ids(Dequeue(timeoutQ, p))
    <3>1. \A ascending : Sorted(timeoutQ, ascending) => Sorted(Dequeue(timeoutQ, p), ascending)
      BY <2>1, DequeueSorted
    <3>2. Dequeue(timeoutQ, p) \in Seq(Entry(Proc)) /\ Ids(Dequeue(timeoutQ, p)) = Ids(timeoutQ) \ {p}
      BY <2>1, DequeueType, DequeueEntries
    <3> QED BY <1>2, <3>1, <3>2
  <2>3. \A s \in Seq(Entry(Proc)) : p \notin Ids(s) /\ Sorted(s, TRUE) =>
          \A at \in Int : Sorted(Enqueue(s, TRUE, p, at), TRUE)
    BY EnqueueAscending, EnqueuedIsInIds
  <2> QED BY <1>2, <2>1, <2>2, <2>3 DEF OrderStep
<1> QED
  BY <1>3, <1>4, <1>5 DEF QueuesInOrder, InOrder


\* What Release does to them.
Released(p, P, R, T) ==
  /\ \A x \in Proc : proc'[x].prio = P[x].prio
  /\ \/ ready' = R /\ \E at \in Int : timeoutQ' = Enqueue(T, TRUE, p, at)
     \/ ready' = Enqueue(R, FALSE, p, P[p].prio) /\ timeoutQ' = T

LEMMA ReleaseOrder ==
  ASSUME NEW p \in Proc, NEW P \in Table, NEW R, NEW D, NEW T, now \in Nat, Release(p, P, R, D, T)
  PROVE  Released(p, P, R, T)
<1>1. P[p] \in ProcessInfo /\ P[p].delay \in Int
  BY DEF Table, ProcessInfo
<1>2. \A s \in NextPeriodStart : s + P[p].delay \in Int
  BY <1>1, ConstantTypes DEF NextPeriodStart
<1>3. now + P[p].delay \in Int
  BY <1>1
<1>4. ASSUME NEW at \in Int, timeoutQ' = Enqueue(T, TRUE, p, at), ready' = R,
             proc' = [P EXCEPT ![p].state = "WAITING", ![p].release = at,
                               ![p].deadline = DeadlineAt(p, at), ![p].woken = FALSE]
      PROVE  \A x \in Proc : proc'[x].prio = P[x].prio
  <2> DEFINE d == DeadlineAt(p, at)
  <2>1. proc' = [P EXCEPT ![p].state = "WAITING", ![p].release = at, ![p].deadline = d, ![p].woken = FALSE]
    BY <1>4
  <2> HIDE DEF d
  <2> QED BY <1>1, <2>1 DEF Table, ProcessInfo
<1>5. ASSUME proc' = [P EXCEPT ![p].state = "READY", ![p].release = now, ![p].deadline = DeadlineAt(p, now)]
      PROVE  \A x \in Proc : proc'[x].prio = P[x].prio
  <2> DEFINE d == DeadlineAt(p, now)
  <2>1. proc' = [P EXCEPT ![p].state = "READY", ![p].release = now, ![p].deadline = d]
    BY <1>5
  <2> HIDE DEF d
  <2> QED BY <1>1, <2>1 DEF Table, ProcessInfo
<1>6. CASE \E at \in Int : /\ timeoutQ' = Enqueue(T, TRUE, p, at) /\ ready' = R
                          /\ proc' = [P EXCEPT ![p].state = "WAITING", ![p].release = at,
                               ![p].deadline = DeadlineAt(p, at), ![p].woken = FALSE]
  BY <1>4, <1>6 DEF Released
<1>7. CASE /\ ready' = Enqueue(R, FALSE, p, P[p].prio) /\ timeoutQ' = T
           /\ proc' = [P EXCEPT ![p].state = "READY", ![p].release = now,
                                ![p].deadline = DeadlineAt(p, now)]
  BY <1>5, <1>7 DEF Released
<1> QED
  BY <1>2, <1>3, <1>6, <1>7 DEF Release

LEMMA DelayedStartOrder ==
  ASSUME StatesInv, NEW p \in Proc, NEW d \in Delays, DELAYED_START(p, d)
  PROVE  OrderStep(p)
<1> DEFINE base == BasePriority[p]
           P == [proc EXCEPT ![p].suspended = FALSE, ![p].suspendedTimeout = FALSE,
                             ![p].prio = base, ![p].delay = d, ![p].tail = "none"]
<1>1. P \in Table
  BY StartedTable DEF StatesInv, TypeInv
<1>2. /\ \/ Release(p, P, Dequeue(ready, p), Dequeue(deadlineQ, p), Dequeue(timeoutQ, p))
         \/ /\ proc' = [P EXCEPT ![p].state = "WAITING"]
            /\ ready' = Dequeue(ready, p) /\ timeoutQ' = Dequeue(timeoutQ, p)
      /\ \A r \in Resource : waitq'[r] = Dequeue(waitq[r], p)
  BY DEF DELAYED_START, RemoveFromAll
<1>3. \A x \in Proc \ {p} : P[x].prio = proc[x].prio
  <2> HIDE DEF base
  <2> QED BY PlaceOf DEF Table, ProcessInfo
<1> HIDE DEF P
<1>4. CASE Release(p, P, Dequeue(ready, p), Dequeue(deadlineQ, p), Dequeue(timeoutQ, p))
  <2>1. now \in Nat
    BY DEF StatesInv, TypeInv, TypeOK
  <2>2. Released(p, P, Dequeue(ready, p), Dequeue(timeoutQ, p))
    BY <1>1, <1>4, <2>1, ReleaseOrder
  <2> QED BY <1>2, <1>3, <2>2 DEF Released, OrderStep, Keyed
<1>5. CASE /\ proc' = [P EXCEPT ![p].state = "WAITING"]
           /\ ready' = Dequeue(ready, p) /\ timeoutQ' = Dequeue(timeoutQ, p)
  <2>1. \A x \in Proc : proc'[x].prio = P[x].prio
    BY <1>1, <1>5 DEF Table, ProcessInfo
  <2> QED BY <1>2, <1>3, <1>5, <2>1 DEF OrderStep, Keyed
<1> QED
  BY <1>2, <1>4, <1>5

LEMMA StartNextOrder ==
  ASSUME StatesInv, StartNext
  PROVE  \E p \in Proc : OrderStep(p)
<1> DEFINE p == Order[started + 1]
<1>1. kpc = "starting" /\ started < count /\ started \in Nat /\ count \in Nat /\ count <= Len(Order) /\ now \in Nat
  BY ConstantTypes DEF StartNext, StatesInv, TypeInv, TypeOK
<1>2. p \in Proc /\ \A i \in 1..started : Order[i] # p
  <2>1. started + 1 \in 1..Len(Order) /\ \A i \in 1..started : i \in 1..Len(Order) /\ i # started + 1
    BY <1>1, ConstantTypes
  <2>2. \A i, j \in 1..Len(Order) : Order[i] = Order[j] => i = j
    BY ProcessesAssumption
  <2> QED BY <2>1, <2>2, ConstantTypes
<1>3. p \notin Ids(timeoutQ)
  BY <1>1, <1>2 DEF StatesInv, Control, StartingQueues
<1>4. \/ UNCHANGED <<proc, ready, timeoutQ, waitq>>
      \/ Release(p, proc, ready, deadlineQ, timeoutQ) /\ waitq' = waitq
  BY DEF StartNext
<1> HIDE DEF p
<1>5. CASE UNCHANGED <<proc, ready, timeoutQ, waitq>>
  <2>1. OrderStep(p)
    BY <1>5 DEF OrderStep, Keyed
  <2> QED BY <1>2, <2>1
<1>6. CASE Release(p, proc, ready, deadlineQ, timeoutQ) /\ waitq' = waitq
  <2>1. proc \in Table
    BY <1>2, PlaceOf
  <2>2. Released(p, proc, ready, timeoutQ)
    BY <1>1, <1>2, <1>6, <2>1, ReleaseOrder
  <2>3. OrderStep(p)
    BY <1>2, <1>3, <1>6, <2>2 DEF Released, OrderStep, Keyed
  <2> QED BY <1>2, <2>3
<1> QED
  BY <1>4, <1>5, <1>6

\* The services of a process on itself, which has no time-out pending.
LEMMA SelfOrder ==
  ASSUME StatesInv,
         \/ STOP_SELF \/ PERIODIC_WAIT
         \/ \E t \in TimeOuts : SUSPEND_SELF(t)
         \/ \E d \in Delays : TIMED_WAIT(d)
         \/ \E r \in Resource, t \in TimeOuts : Call("WAIT_RESOURCE") /\ WAIT_RESOURCE(r, t)
  PROVE  OrderStep(current) /\ current \in Proc
<1> DEFINE p == current
<1>1. p \in Proc /\ Runnable(p)
  BY AtCall DEF STOP_SELF, PERIODIC_WAIT, SUSPEND_SELF, TIMED_WAIT, WAIT_RESOURCE, MayBlock
<1>2. p \notin Ids(timeoutQ) /\ proc \in Table /\ now \in Nat
  BY <1>1, PlaceOf DEF StatesInv, TypeInv, TypeOK
<1> SUFFICES OrderStep(p)
  BY <1>1
<1>3. CASE STOP_SELF
  <2>1. \A x \in Proc : proc'[x].prio = proc[x].prio
    BY <1>1, <1>2, <1>3 DEF STOP_SELF, Table, ProcessInfo
  <2> QED BY <1>3, <2>1 DEF STOP_SELF, RemoveFromAll, OrderStep, Keyed
<1>4. CASE PERIODIC_WAIT
  <2> DEFINE at == NextRelease(p)
             d == DeadlineAt(p, at)
  <2>1. at \in Int
    BY <1>4, PeriodicWaitTable DEF StatesInv, TypeInv
  <2>2. /\ ready' = Dequeue(ready, p) /\ timeoutQ' = Enqueue(timeoutQ, TRUE, p, at) /\ waitq' = waitq
        /\ proc' = [proc EXCEPT ![p].state = "WAITING", ![p].release = at, ![p].deadline = d,
                                ![p].woken = FALSE]
    BY <1>4 DEF PERIODIC_WAIT
  <2> HIDE DEF at, d, p
  <2>3. \A x \in Proc : proc'[x].prio = proc[x].prio
    BY <1>1, <1>2, <2>2 DEF Table, ProcessInfo
  <2>4. p \notin Ids(timeoutQ) /\ timeoutQ' = Enqueue(timeoutQ, TRUE, p, at)
    BY <1>2, <2>2
  <2>5. Keyed(ready, ready', p, proc[p].prio, proc'[p].prio)
    BY <2>2 DEF Keyed
  <2>6. \A r \in Resource \ Fifo : Keyed(waitq[r], waitq'[r], p, proc[p].prio, proc'[p].prio)
    BY <1>1, <2>2, <2>3 DEF Keyed
  <2> QED BY <2>1, <2>3, <2>4, <2>5, <2>6 DEF OrderStep
<1>5. ASSUME NEW t \in TimeOuts, SUSPEND_SELF(t) PROVE OrderStep(p)
  <2> DEFINE at == now + t
  <2>1. at \in Int
    BY <1>2, ConstantTypes
  <2>2. /\ \/ proc' = [proc EXCEPT ![p].state = "WAITING", ![p].suspended = TRUE, ![p].suspendedTimeout = TRUE,
                                  ![p].woken = FALSE, ![p].tail = "suspendTimed"]
           \/ proc' = [proc EXCEPT ![p].state = "WAITING", ![p].suspended = TRUE, ![p].tail = "suspend"]
        /\ ready' = Dequeue(ready, p) /\ waitq' = waitq
        /\ timeoutQ' = timeoutQ \/ timeoutQ' = Enqueue(timeoutQ, TRUE, p, at)
    BY <1>5 DEF SUSPEND_SELF
  <2> HIDE DEF p, at
  <2>3. \A x \in Proc : proc'[x].prio = proc[x].prio
    BY <1>1, <1>2, <2>2 DEF Table, ProcessInfo
  <2>4. Keyed(ready, ready', p, proc[p].prio, proc'[p].prio)
    BY <2>2 DEF Keyed
  <2>5. \A r \in Resource \ Fifo : Keyed(waitq[r], waitq'[r], p, proc[p].prio, proc'[p].prio)
    BY <1>1, <2>2, <2>3 DEF Keyed
  <2>6. timeoutQ' = timeoutQ \/ (p \notin Ids(timeoutQ) /\ timeoutQ' = Enqueue(timeoutQ, TRUE, p, at))
    BY <1>2, <2>2
  <2> QED BY <2>1, <2>3, <2>4, <2>5, <2>6 DEF OrderStep
<1>6. ASSUME NEW d \in Delays, TIMED_WAIT(d) PROVE OrderStep(p)
  <2> DEFINE at == now + d
  <2>1. at \in Int
    BY <1>2, ConstantTypes
  <2>2. /\ \/ /\ proc' = [proc EXCEPT ![p].state = "READY"]
              /\ ready' = Enqueue(Dequeue(ready, p), FALSE, p, proc[p].prio) /\ timeoutQ' = timeoutQ
           \/ /\ proc' = [proc EXCEPT ![p].state = "WAITING", ![p].woken = FALSE, ![p].tail = "timed"]
              /\ ready' = Dequeue(ready, p) /\ timeoutQ' = Enqueue(timeoutQ, TRUE, p, at)
        /\ waitq' = waitq
    BY <1>6 DEF TIMED_WAIT
  <2> HIDE DEF p, at
  <2>3. \A x \in Proc : proc'[x].prio = proc[x].prio
    <3>1. \/ proc' = [proc EXCEPT ![p].state = "READY"]
          \/ proc' = [proc EXCEPT ![p].state = "WAITING", ![p].woken = FALSE, ![p].tail = "timed"]
      BY <2>2
    <3> QED BY <1>1, <1>2, <3>1 DEF Table, ProcessInfo
  <2> QED BY <1>1, <1>2, <2>1, <2>2, <2>3 DEF OrderStep, Keyed
<1>7. ASSUME NEW r \in Resource, NEW t \in TimeOuts, WAIT_RESOURCE(r, t) PROVE OrderStep(p)
  <2> DEFINE at == now + t
             key == IF r \in Fifo THEN MinPriority ELSE proc[p].prio
  <2>1. at \in Int
    BY <1>2, ConstantTypes
  <2>2. /\ \/ proc' = [proc EXCEPT ![p].state = "WAITING", ![p].woken = FALSE, ![p].granted = FALSE,
                                  ![p].tail = "resource"]
           \/ proc' = [proc EXCEPT ![p].state = "WAITING", ![p].granted = FALSE, ![p].tail = "ever"]
        /\ ready' = Dequeue(ready, p)
        /\ timeoutQ' = timeoutQ \/ timeoutQ' = Enqueue(timeoutQ, TRUE, p, at)
        /\ waitq' = [waitq EXCEPT ![r] = Enqueue(@, FALSE, p, key)]
    BY <1>7 DEF WAIT_RESOURCE
  <2>3. r \notin Fifo => key = proc[p].prio
    OBVIOUS
  <2> HIDE DEF p, at, key
  <2>4. \A x \in Proc : proc'[x].prio = proc[x].prio
    BY <1>1, <1>2, <2>2 DEF Table, ProcessInfo
  <2>5. waitq \in [Resource -> DistinctQueue]
    BY DEF StatesInv, TypeInv, QueuesOK
  <2>6. \A s \in Resource \ Fifo : \/ waitq'[s] = waitq[s]
                                  \/ waitq'[s] = Enqueue(waitq[s], FALSE, p, proc[p].prio)
    BY <2>2, <2>3, <2>5
  <2> QED BY <1>1, <1>2, <2>1, <2>2, <2>4, <2>6 DEF OrderStep, Keyed
<1> QED
  BY <1>3, <1>4, <1>5, <1>6, <1>7

\* The services on another process.
LEMMA OtherOrder ==
  ASSUME StatesInv, NEW p \in Proc,
         SUSPEND(p) \/ RESUME(p) \/ STOP(p) \/ \E prio \in Priorities : SET_PRIORITY(p, prio)
  PROVE  OrderStep(p)
<1>1. proc \in Table
  BY PlaceOf
<1>2. CASE SUSPEND(p) \/ STOP(p)
  <2>1. \A x \in Proc : proc'[x].prio = proc[x].prio
    BY <1>1, <1>2 DEF SUSPEND, STOP, Table, ProcessInfo
  <2> QED BY <1>2, <2>1 DEF SUSPEND, STOP, RemoveFromAll, OrderStep, Keyed
<1>3. CASE RESUME(p)
  <2> DEFINE d == DeadlineAt(p, now)
             T == IF proc[p].suspendedTimeout THEN Dequeue(timeoutQ, p) ELSE timeoutQ
             new == IF ~ StillWaits(p, T) THEN "READY" ELSE proc[p].state
  <2>1. /\ timeoutQ' = timeoutQ \/ timeoutQ' = Dequeue(timeoutQ, p)
        /\ ready' = ready \/ ready' = Enqueue(ready, FALSE, p, proc[p].prio)
        /\ waitq' = waitq
    BY <1>3 DEF RESUME
  <2>2. proc' = [proc EXCEPT ![p].suspended = FALSE, ![p].suspendedTimeout = FALSE,
                             ![p].release = now, ![p].deadline = d, ![p].state = new]
    BY <1>1, <1>3 DEF RESUME, Table, ProcessInfo
  <2> HIDE DEF d, T, new
  <2>3. \A x \in Proc : proc'[x].prio = proc[x].prio
    BY <1>1, <2>2 DEF Table, ProcessInfo
  <2> QED BY <2>1, <2>3 DEF OrderStep, Keyed
<1>4. ASSUME NEW prio \in Priorities, SET_PRIORITY(p, prio) PROVE OrderStep(p)
  <2>1. proc'[p].prio = prio /\ \A x \in Proc \ {p} : proc'[x].prio = proc[x].prio
    BY <1>1, <1>4 DEF SET_PRIORITY, Table, ProcessInfo
  <2>2. Keyed(ready, ready', p, proc[p].prio, prio)
    BY <1>4, EnqueuedIsInIds DEF SET_PRIORITY, Keyed
  <2>3. \A r \in Resource \ Fifo : Keyed(waitq[r], waitq'[r], p, proc[p].prio, prio)
    BY <1>4, EnqueuedIsInIds DEF SET_PRIORITY, Keyed
  <2>4. timeoutQ' = timeoutQ
    BY <1>4 DEF SET_PRIORITY
  <2> QED BY <2>1, <2>2, <2>3, <2>4 DEF OrderStep
<1> QED
  BY <1>2, <1>3, <1>4


\* Who is woken, and who goes on after its wait.
LEMMA WakeOrder ==
  ASSUME StatesInv,
         \/ Timeout
         \/ \E p \in Proc : Continue(p)
         \/ \E r \in Resource, b \in BOOLEAN : SIGNAL_RESOURCE(r, b)
  PROVE  \E p \in Proc : OrderStep(p)
<1>1. ASSUME NEW r \in Resource, NEW b \in BOOLEAN, SIGNAL_RESOURCE(r, b)
      PROVE  \E p \in Proc : OrderStep(p)
  <2> DEFINE p == Head(waitq[r]).id
  <2>1. waitq[r] \in DistinctQueue /\ waitq[r] # <<>> /\ waitq \in [Resource -> DistinctQueue]
    BY <1>1 DEF SIGNAL_RESOURCE, SignalHead, StatesInv, TypeInv, QueuesOK
  <2>2. p \in Proc
    BY <2>1, QueueIds
  <2>3. /\ timeoutQ' = Dequeue(timeoutQ, p)
        /\ waitq' = [waitq EXCEPT ![r] = Dequeue(@, p)]
        /\ ready' = ready \/ ready' = Enqueue(ready, FALSE, p, proc[p].prio)
        /\ \/ proc' = [proc EXCEPT ![p].state = "READY", ![p].granted = TRUE]
           \/ proc' = [proc EXCEPT ![p].granted = TRUE]
    BY <1>1 DEF SIGNAL_RESOURCE, SignalHead, MakeReady
  <2> HIDE DEF p
  <2>4. \A x \in Proc : proc'[x].prio = proc[x].prio
    BY <2>2, <2>3, PlaceOf DEF Table, ProcessInfo
  <2>5. \A s \in Resource : waitq'[s] = waitq[s] \/ waitq'[s] = Dequeue(waitq[s], p)
    BY <2>1, <2>3
  <2>6. OrderStep(p)
    BY <2>2, <2>3, <2>4, <2>5 DEF OrderStep, Keyed
  <2> QED BY <2>2, <2>6
<1>2. CASE Timeout
  <2> DEFINE p == Head(timeoutQ).id
  <2>1. timeoutQ \in DistinctQueue /\ timeoutQ # <<>>
    BY <1>2 DEF Timeout, Due, StatesInv, TypeInv, QueuesOK
  <2>2. p \in Proc
    BY <2>1, QueueIds
  <2>3. /\ timeoutQ' = Dequeue(timeoutQ, p)
        /\ waitq' = [r \in Resource |-> Dequeue(waitq[r], p)]
        /\ ready' = ready \/ ready' = Enqueue(ready, FALSE, p, proc[p].prio)
        /\ \/ proc' = [proc EXCEPT ![p].woken = TRUE, ![p].state = "READY"]
           \/ proc' = [proc EXCEPT ![p].woken = TRUE, ![p].state = @]
    BY <1>2 DEF Timeout
  <2> HIDE DEF p
  <2>4. \A x \in Proc : proc'[x].prio = proc[x].prio
    BY <2>2, <2>3, PlaceOf DEF Table, ProcessInfo
  <2>5. OrderStep(p)
    BY <2>2, <2>3, <2>4 DEF OrderStep, Keyed
  <2> QED BY <2>2, <2>5
<1>3. ASSUME NEW p \in Proc, Continue(p) PROVE OrderStep(p)
  <2> DEFINE d == DeadlineAt(p, now)
  <2>1. \/ proc' = [proc EXCEPT ![p].tail = "none", ![p].release = now, ![p].deadline = d]
        \/ proc' = [proc EXCEPT ![p].tail = "none"]
    BY <1>3 DEF Continue
  <2> HIDE DEF d
  <2>2. \A x \in Proc : proc'[x].prio = proc[x].prio
    BY <2>1, PlaceOf DEF ProcessInfo, Table
  <2> QED BY <1>3, <2>2 DEF Continue, OrderStep, Keyed
<1> QED
  BY <1>1, <1>2, <1>3

\* The other steps change neither a queue nor a priority, or empty all queues.
LEMMA ModeOrder ==
  ASSUME StatesInv, QueuesInOrder, NEW m, LeaveMode(m)
  PROVE  QueuesInOrder'
<1>1. CASE Reinitialize
  <2>1. /\ ready' = <<>> /\ timeoutQ' = <<>> /\ \A r \in Resource : waitq'[r] = <<>>
    BY <1>1 DEF Reinitialize
  <2>2. InOrder(ready', proc') /\ Sorted(timeoutQ', TRUE)
    BY <2>1 DEF InOrder, Sorted
  <2>3. \A T : InOrder(<<>>, T)
    BY DEF InOrder, Sorted
  <2>4. \A r \in Resource : InOrder(waitq'[r], proc')
    BY <2>1, <2>3
  <2> QED BY <2>2, <2>4 DEF QueuesInOrder, InOrder
<1>2. CASE UNCHANGED <<proc, ready, timeoutQ, waitq>>
  BY <1>2 DEF QueuesInOrder
<1> QED
  BY <1>1, <1>2 DEF LeaveMode, GoIdle, Restart, Wiped, queues

LEMMA PlainOrder ==
  ASSUME StatesInv, QueuesInOrder, UNCHANGED <<ready, timeoutQ, waitq>>,
         \A p \in Proc : proc'[p].prio = proc[p].prio
  PROVE  QueuesInOrder'
<1>1. /\ \A i \in DOMAIN ready : ready[i].id \in Proc
      /\ \A r \in Resource : \A i \in DOMAIN waitq[r] : waitq[r][i].id \in Proc
  <2>1. ready \in DistinctQueue /\ \A r \in Resource : waitq[r] \in DistinctQueue
    BY DEF StatesInv, TypeInv, QueuesOK
  <2>2. \A q \in DistinctQueue : Ids(q) \subseteq Proc
    BY QueueIds
  <2> QED BY <2>1, <2>2 DEF Ids
<1> QED
  BY <1>1 DEF QueuesInOrder

LEMMA QuietOrder ==
  ASSUME StatesInv, QueuesInOrder,
         \/ CREATE_PROCESS \/ StopErrorHandler \/ LOCK_PREEMPTION \/ UNLOCK_PREEMPTION
         \/ SetNormalMode \/ CREATE_ERROR_HANDLER \/ GET_ERROR_STATUS
         \/ \E b \in Budgets : REPLENISH(b)
         \/ \E r \in Resource : CREATE_RESOURCE(r)
         \/ StartDone \/ HandleEvents \/ TimeoutsDone \/ DeadlinesDone
         \/ ScheduleProcessOut \/ KeepPartition \/ SchedulePartitionOut
         \/ EnterPartition \/ StayOut \/ ScheduleProcessIn \/ TICK \/ OtherYields
         \/ UNCHANGED vars
  PROVE  QueuesInOrder'
<1>1. proc \in Table
  BY ProcTypes DEF StatesInv, TypeInv
<1> USE DEF queues
<1>2. CASE LOCK_PREEMPTION \/ UNLOCK_PREEMPTION \/ SetNormalMode \/ CREATE_ERROR_HANDLER \/ GET_ERROR_STATUS
           \/ \E r \in Resource : CREATE_RESOURCE(r)
  BY <1>2, PlainOrder
  DEF LOCK_PREEMPTION, UNLOCK_PREEMPTION, SetNormalMode, CREATE_ERROR_HANDLER, GET_ERROR_STATUS, CREATE_RESOURCE
<1>3. CASE StartDone \/ HandleEvents \/ TimeoutsDone \/ DeadlinesDone \/ KeepPartition \/ SchedulePartitionOut
           \/ EnterPartition \/ StayOut \/ TICK \/ OtherYields \/ UNCHANGED vars
  BY <1>3, PlainOrder
  DEF StartDone, HandleEvents, TimeoutsDone, DeadlinesDone, KeepPartition, SchedulePartitionOut,
      EnterPartition, StayOut, TICK, OtherYields, vars
<1>4. CASE CREATE_PROCESS
  <2> DEFINE p == Order[count + 1]
  <2>1. UNCHANGED <<ready, timeoutQ, waitq>> /\ proc' = [proc EXCEPT ![p].state = "DORMANT"]
    BY <1>4 DEF CREATE_PROCESS
  <2> HIDE DEF p
  <2>2. \A x \in Proc : proc'[x].prio = proc[x].prio
    BY <1>1, <2>1 DEF Table, ProcessInfo
  <2> QED BY <2>1, <2>2, PlainOrder
<1>5. CASE StopErrorHandler
  <2>1. UNCHANGED <<ready, timeoutQ, waitq>>
        /\ (proc' = proc \/ \E p : proc' = [proc EXCEPT ![p].state = "RUNNING"])
    BY <1>5 DEF StopErrorHandler
  <2>2. \A x \in Proc : proc'[x].prio = proc[x].prio
    BY <1>1, <2>1 DEF Table, ProcessInfo
  <2> QED BY <2>1, <2>2, PlainOrder
<1>6. ASSUME NEW t \in Budgets, REPLENISH(t) PROVE QueuesInOrder'
  <2>1. UNCHANGED <<ready, timeoutQ, waitq>> /\ \E d : proc' = [proc EXCEPT ![current].deadline = d]
    BY <1>6 DEF REPLENISH
  <2>2. \A x \in Proc : proc'[x].prio = proc[x].prio
    BY <1>1, <2>1 DEF Table, ProcessInfo
  <2> QED BY <2>1, <2>2, PlainOrder
<1>7. CASE ScheduleProcessOut
  <2>1. UNCHANGED <<ready, timeoutQ, waitq>>
        /\ (proc' = proc \/ \E p : proc' = [proc EXCEPT ![p].state = "READY"])
    BY <1>7 DEF ScheduleProcessOut, StopCallback, StopHandler, Preempt, StayOn
  <2>2. \A x \in Proc : proc'[x].prio = proc[x].prio
    BY <1>1, <2>1 DEF Table, ProcessInfo
  <2> QED BY <2>1, <2>2, PlainOrder
<1>8. CASE ScheduleProcessIn
  <2>1. UNCHANGED <<ready, timeoutQ, waitq>>
        /\ (proc' = proc \/ \E p : proc' = [proc EXCEPT ![p].state = "RUNNING"])
    BY <1>8 DEF ScheduleProcessIn, StartCallback, StartHandler, Dispatch, NothingToStart
  <2>2. \A x \in Proc : proc'[x].prio = proc[x].prio
    BY <1>1, <2>1 DEF Table, ProcessInfo
  <2> QED BY <2>1, <2>2, PlainOrder
<1> QED
  BY <1>2, <1>3, <1>4, <1>5, <1>6, <1>7, <1>8

LEMMA ErrorOrder ==
  ASSUME StatesInv, QueuesInOrder, RAISE_APPLICATION_ERROR \/ CallbackReturns \/ Deadline
  PROVE  QueuesInOrder'
<1>1. CASE \E m : LeaveMode(m)
  BY <1>1, ModeOrder
<1>2. CASE UNCHANGED <<proc, ready, timeoutQ, waitq>>
  BY <1>2, PlainOrder
<1>3. CASE Deadline /\ UNCHANGED <<ready, timeoutQ, waitq>>
           /\ \E p : proc' = [proc EXCEPT ![p].deadline = Infinite]
  <2>1. proc \in Table
    BY ProcTypes DEF StatesInv, TypeInv
  <2>2. \A x \in Proc : proc'[x].prio = proc[x].prio
    BY <1>3, <2>1 DEF Table, ProcessInfo
  <2> QED BY <1>3, <2>2, PlainOrder
<1> QED
  BY <1>1, <1>2, <1>3 DEF RAISE_APPLICATION_ERROR, CallbackReturns, Deadline, queues

\* QueuesInOrder: the processes in the ready queue and in the queues of resources
\* stay in order of the priority they have now, and time-outs in order of time,
\* through any sequence of SET_PRIORITY, restarts of a process, signals and time-outs.
THEOREM QueuesKeepOrder ==
  ASSUME HmCallback = FALSE
  PROVE  Spec => []QueuesInOrder
<1>1. Init => StatesInv /\ QueuesInOrder
  <2>1. Init => QueuesInOrder
    BY DEF Init, QueuesInOrder, Sorted
  <2> QED BY <2>1, StatesInvInductive
<1>2. StatesInv /\ QueuesInOrder /\ [Next]_vars => StatesInv' /\ QueuesInOrder'
  <2> SUFFICES ASSUME StatesInv, QueuesInOrder, [Next]_vars PROVE StatesInv' /\ QueuesInOrder'
    OBVIOUS
  <2>1. StatesInv' /\ TypeInv'
    BY StatesInvInductive DEF StatesInv
  <2> SUFFICES QueuesInOrder'
    BY <2>1
  <2>2. CASE \E p \in Proc : OrderStep(p)
    BY <2>1, <2>2, OrderStepKeeps
  <2>3. CASE Services
    <3>1. CASE CREATE_PROCESS \/ StopErrorHandler \/ LOCK_PREEMPTION \/ UNLOCK_PREEMPTION \/ SetNormalMode
               \/ CREATE_ERROR_HANDLER \/ GET_ERROR_STATUS
      BY <3>1, QuietOrder
    <3>2. CASE STOP_SELF \/ PERIODIC_WAIT \/ \E d \in Delays : TIMED_WAIT(d)
      BY <2>2, <3>2, SelfOrder
    <3>3. CASE RAISE_APPLICATION_ERROR
      BY <3>3, ErrorOrder
    <3>4. CASE \E m \in {"IDLE", "COLD_START", "WARM_START"} : SetStartMode(m)
      BY <3>4, ModeOrder DEF SetStartMode
    <3>5. CASE (\E t \in TimeOuts : SUSPEND_SELF(t)) \/ \E b \in Budgets : REPLENISH(b)
      BY <2>2, <3>5, SelfOrder, QuietOrder
    <3>6. ASSUME NEW p \in Proc,
                 \/ SUSPEND(p) \/ RESUME(p) \/ STOP(p)
                 \/ \E d \in Delays : DELAYED_START(p, d)
                 \/ \E prio \in Priorities : SET_PRIORITY(p, prio)
          PROVE  QueuesInOrder'
      BY <2>2, <3>6, OtherOrder, DelayedStartOrder
    <3> QED BY <2>3, <3>1, <3>2, <3>3, <3>4, <3>5, <3>6 DEF Services
  <2>4. CASE Scheduler
    BY <2>2, <2>4, StartNextOrder, WakeOrder, ErrorOrder, QuietOrder DEF Scheduler
  <2>5. CASE ResourceServices
    <3>1. objects \subseteq Resource
      BY DEF StatesInv, TypeInv, TypeOK
    <3> QED BY <2>2, <2>5, <3>1, SelfOrder, WakeOrder DEF ResourceServices
  <2>6. CASE Continues \/ CallbackReturns \/ TICK \/ OtherYields \/ UNCHANGED vars
             \/ \E r \in Resource : CREATE_RESOURCE(r)
    BY <2>2, <2>6, WakeOrder, ErrorOrder, QuietOrder DEF Continues
  <2> QED BY <2>1, <2>3, <2>4, <2>5, <2>6 DEF Next, Internal
<1> QED
  BY <1>1, <1>2, PTL DEF Spec

-----------------------------------------------------------------------------
(* The waits: each has something that can end it, and is answered once.    *)
(* Neither is inductive alone. That a wait is not answered twice needs to  *)
(* know what the process of each entry in the queues waits for, and that a *)
(* blocking service is called by a process that is in no other.            *)

Awaits(p) == \E r \in Resource : p \in Ids(waitq[r])
Times(p) == p \in Ids(timeoutQ)

\* What can end the wait of p: STARTPROCESSSCHEDULER, until it has come to p.
HasReason(p) ==
  proc[p].state = "WAITING" =>
    \/ Times(p) \/ Awaits(p) \/ proc[p].suspended
    \/ kpc = "starting" /\ \E i \in (started + 1)..count : p = Order[i]

\* What is left of the service p is blocked in, against the queues it is in and the
\* flags that are going to tell the answer. STOP leaves a tail behind, hence the
\* condition; a time-out may be gone before its wait, by the RESUME of a process
\* whose earlier SUSPEND_SELF has timed out.
Answer(p) ==
  proc[p].state # "DORMANT" =>
    /\ proc[p].tail = "resource" =>
         /\ Awaits(p) <=> ~ proc[p].granted /\ ~ proc[p].woken
         /\ ~ (proc[p].granted /\ proc[p].woken)
         /\ Times(p) => Awaits(p)
    /\ proc[p].tail = "ever" => ~ Times(p) /\ (Awaits(p) <=> ~ proc[p].granted)
    /\ proc[p].tail \notin {"resource", "ever"} => ~ Awaits(p)
    /\ mode # "NORMAL" \/ kpc = "starting" => proc[p].tail = "none"

Reasons == mode = "NORMAL" => \A p \in Proc : HasReason(p)
Answers == \A p \in Proc : Answer(p)

WaitInv == DispatchInv /\ Reasons /\ Answers

\* The steps of one process p. What else is left alone:
Others(p) ==
  \A q \in Proc \ {p} : proc'[q] = proc[q] /\ (q \in Ids(timeoutQ') <=> q \in Ids(timeoutQ))

\* Where STARTPROCESSSCHEDULER is. It gets past p, if anywhere.
Stage(p) ==
  /\ mode' = mode
  /\ kpc' = "starting" <=> kpc = "starting"
  /\ \/ UNCHANGED <<count, started>>
     \/ mode # "NORMAL"
     \/ kpc = "starting" /\ started' = started + 1 /\ count' = count /\ p = Order[started + 1]

NoneWait(p) == waitq' = [r \in Resource |-> Dequeue(waitq[r], p)]

\* p stays in its wait, or in none.
Unmoved(p) ==
  /\ proc'[p].tail = proc[p].tail /\ proc'[p].granted = proc[p].granted
  /\ proc'[p].woken = proc[p].woken
  /\ proc'[p].state = "DORMANT" <=> proc[p].state = "DORMANT"
  /\ Ids(timeoutQ') \subseteq Ids(timeoutQ)
  /\ waitq' = waitq

\* p moves in its queue.
Moves(p, prio) ==
  /\ proc'[p].tail = proc[p].tail /\ proc'[p].granted = proc[p].granted
  /\ proc'[p].woken = proc[p].woken /\ proc'[p].state = proc[p].state
  /\ Ids(timeoutQ') = Ids(timeoutQ)
  /\ waitq' = [r \in Resource |->
                 IF r \notin Fifo /\ Enqueued(waitq[r], p)
                 THEN Enqueue(Dequeue(waitq[r], p), FALSE, p, prio) ELSE waitq[r]]

Halts(p) == proc'[p].state = "DORMANT" /\ NoneWait(p)

Begins(p) == proc[p].state = "DORMANT" /\ proc'[p].tail = "none" /\ NoneWait(p)

\* p begins to wait, but not for a resource.
Sleeps(p) ==
  /\ proc[p].state # "DORMANT" /\ proc[p].tail = "none" /\ waitq' = waitq
  /\ proc'[p].tail \notin {"resource", "ever"}
  /\ proc'[p].tail = "none" \/ (mode = "NORMAL" /\ kpc # "starting")

Enters(p, r) ==
  /\ Runnable(p) /\ proc[p].tail = "none" /\ mode = "NORMAL" /\ kpc # "starting"
  /\ \/ proc'[p].tail = "resource" /\ ~ proc'[p].woken
     \/ proc'[p].tail = "ever" /\ p \notin Ids(timeoutQ')
  /\ ~ proc'[p].granted /\ proc'[p].state = "WAITING"
  /\ waitq' = [waitq EXCEPT ![r] = Enqueue(waitq[r], FALSE, p,
                 IF r \in Fifo THEN MinPriority ELSE proc[p].prio)]

Granted(p, r) ==
  /\ waitq[r] # <<>> /\ p = Head(waitq[r]).id
  /\ proc'[p].tail = proc[p].tail /\ proc'[p].woken = proc[p].woken /\ proc'[p].granted
  /\ proc'[p].state # "DORMANT" /\ p \notin Ids(timeoutQ')
  /\ waitq' = [waitq EXCEPT ![r] = Dequeue(waitq[r], p)]

Expires(p) ==
  /\ p \in Ids(timeoutQ) /\ p \notin Ids(timeoutQ')
  /\ proc'[p].tail = proc[p].tail /\ proc'[p].granted = proc[p].granted /\ proc'[p].woken
  /\ proc'[p].state # "DORMANT"
  /\ NoneWait(p)

Returns(p) ==
  /\ Runnable(p) /\ proc[p].tail # "none" /\ proc'[p].tail = "none"
  /\ waitq' = waitq

WaitStep(p) ==
  /\ Others(p) /\ Stage(p)
  /\ mode' = "NORMAL" => HasReason(p)'
  /\ \/ Unmoved(p) \/ Halts(p) \/ Begins(p) \/ Sleeps(p) \/ Expires(p) \/ Returns(p)
     \/ \E r \in Resource : Enters(p, r) \/ Granted(p, r)
     \/ \E prio \in Int : Moves(p, prio)

-----------------------------------------------------------------------------
(* Such a step keeps every wait in order. Who awaits a resource after it:  *)

SameWaits(Q) == \A q \in Q : Awaits(q)' <=> Awaits(q)

LEMMA QueueOps ==
  ASSUME StatesInv
  PROVE  /\ waitq \in [Resource -> DistinctQueue]
         /\ \A r \in Resource : \A p : /\ Ids(Dequeue(waitq[r], p)) = Ids(waitq[r]) \ {p}
                                       /\ Dequeue(waitq[r], p) \in DistinctQueue
<1>1. waitq \in [Resource -> DistinctQueue]
  BY DEF StatesInv, TypeInv, QueuesOK
<1> QED
  BY <1>1, QueueIds, DistinctTypes

LEMMA UnchangedWaits ==
  ASSUME waitq' = waitq
  PROVE  SameWaits(Proc)
BY DEF SameWaits, Awaits

LEMMA NoneWaits ==
  ASSUME StatesInv, NEW p \in Proc, NoneWait(p)
  PROVE  ~ Awaits(p)' /\ SameWaits(Proc \ {p})
<1>1. \A r \in Resource : Ids(waitq'[r]) = Ids(waitq[r]) \ {p}
  BY QueueOps DEF NoneWait
<1> QED
  BY <1>1 DEF SameWaits, Awaits

LEMMA EntersWaits ==
  ASSUME StatesInv, NEW p \in Proc, NEW r \in Resource, Enters(p, r)
  PROVE  Awaits(p)' /\ SameWaits(Proc \ {p})
<1> DEFINE key == IF r \in Fifo THEN MinPriority ELSE proc[p].prio
<1>1. key \in Int
  BY PlaceOf DEF MinPriority
<1>2. waitq' = [waitq EXCEPT ![r] = Enqueue(waitq[r], FALSE, p, key)]
  BY DEF Enters
<1> HIDE DEF key
<1>3. waitq'[r] = Enqueue(waitq[r], FALSE, p, key) /\ \A s \in Resource \ {r} : waitq'[s] = waitq[s]
  BY <1>2, QueueOps
<1>4. Ids(Enqueue(waitq[r], FALSE, p, key)) = Ids(waitq[r]) \cup {p}
  BY <1>1, QueueOps, QueueIds
<1> QED
  BY <1>3, <1>4 DEF SameWaits, Awaits

LEMMA GrantedWaits ==
  ASSUME StatesInv, NEW p \in Proc, NEW r \in Resource, Granted(p, r)
  PROVE  Awaits(p) /\ ~ Awaits(p)' /\ SameWaits(Proc \ {p})
<1>1. p \in Ids(waitq[r]) /\ \A s \in Resource \ {r} : p \notin Ids(waitq[s])
  BY QueueOps, QueueIds, PlaceOf DEF Granted
<1>2. Ids(waitq'[r]) = Ids(waitq[r]) \ {p} /\ \A s \in Resource \ {r} : waitq'[s] = waitq[s]
  BY QueueOps DEF Granted
<1> QED
  BY <1>1, <1>2 DEF SameWaits, Awaits

LEMMA MovesWaits ==
  ASSUME StatesInv, NEW p \in Proc, NEW prio \in Int, Moves(p, prio)
  PROVE  SameWaits(Proc)
<1>1. ASSUME NEW r \in Resource PROVE Ids(waitq'[r]) = Ids(waitq[r])
  <2>1. CASE r \notin Fifo /\ Enqueued(waitq[r], p)
    <3>1. waitq'[r] = Enqueue(Dequeue(waitq[r], p), FALSE, p, prio)
      BY <2>1 DEF Moves
    <3>2. Ids(Enqueue(Dequeue(waitq[r], p), FALSE, p, prio)) = Ids(Dequeue(waitq[r], p)) \cup {p}
      BY QueueOps, QueueIds
    <3> QED BY <2>1, <3>1, <3>2, QueueOps, EnqueuedIsInIds
  <2>2. CASE ~ (r \notin Fifo /\ Enqueued(waitq[r], p))
    BY <2>2 DEF Moves
  <2> QED BY <2>1, <2>2
<1> QED
  BY <1>1 DEF SameWaits, Awaits

\* What p is going to be answered.
LEMMA WaitAnswer ==
  ASSUME WaitInv, NEW p \in Proc, WaitStep(p)
  PROVE  SameWaits(Proc \ {p}) /\ Answer(p)'
<1> USE DEF Times
<1>1. StatesInv /\ Answer(p)
  BY DEF WaitInv, DispatchInv, Answers
<1>2. mode' = mode /\ (kpc' = "starting" <=> kpc = "starting")
  BY DEF WaitStep, Stage
<1>3. CASE Unmoved(p)
  BY <1>1, <1>2, <1>3, UnchangedWaits DEF Unmoved, SameWaits, Answer
<1>4. CASE Halts(p)
  BY <1>1, <1>4, NoneWaits DEF Halts, Answer
<1>5. CASE Begins(p)
  BY <1>1, <1>5, NoneWaits DEF Begins, Answer
<1>6. CASE Sleeps(p)
  BY <1>1, <1>2, <1>6, UnchangedWaits DEF Sleeps, SameWaits, Answer
<1>7. CASE Expires(p)
  BY <1>1, <1>2, <1>7, NoneWaits, PlaceOf DEF Expires, Answer, Awaits
<1>8. CASE Returns(p)
  BY <1>1, <1>8, UnchangedWaits, PlaceOf DEF Returns, SameWaits, Answer, Awaits, Runnable
<1>9. ASSUME NEW r \in Resource, Enters(p, r) PROVE SameWaits(Proc \ {p}) /\ Answer(p)'
  BY <1>1, <1>2, <1>9, EntersWaits DEF Enters, Answer
<1>10. ASSUME NEW r \in Resource, Granted(p, r) PROVE SameWaits(Proc \ {p}) /\ Answer(p)'
  <2>1. proc[p].state # "DORMANT" /\ Awaits(p) /\ ~ Awaits(p)' /\ SameWaits(Proc \ {p})
    BY <1>1, <1>10, GrantedWaits, PlaceOf DEF Awaits
  <2> QED BY <1>1, <1>2, <1>10, <2>1 DEF Granted, Answer
<1>11. ASSUME NEW prio \in Int, Moves(p, prio) PROVE SameWaits(Proc \ {p}) /\ Answer(p)'
  BY <1>1, <1>2, <1>11, MovesWaits DEF Moves, SameWaits, Answer
<1> QED
  BY <1>3, <1>4, <1>5, <1>6, <1>7, <1>8, <1>9, <1>10, <1>11 DEF WaitStep

LEMMA WaitStepKeeps ==
  ASSUME WaitInv, NEW p \in Proc, WaitStep(p)
  PROVE  Reasons' /\ Answers'
<1>1. SameWaits(Proc \ {p}) /\ Answer(p)' /\ Others(p) /\ Stage(p)
  BY WaitAnswer DEF WaitStep
<1>2. \A q \in Proc \ {p} : Answer(q)'
  <2> SUFFICES ASSUME NEW q \in Proc \ {p} PROVE Answer(q)'
    OBVIOUS
  <2>1. Answer(q)
    BY DEF WaitInv, Answers
  <2>2. proc'[q] = proc[q] /\ (Times(q)' <=> Times(q)) /\ (Awaits(q)' <=> Awaits(q))
    BY <1>1 DEF Others, SameWaits, Times
  <2>3. mode' = mode /\ (kpc' = "starting" <=> kpc = "starting")
    BY <1>1 DEF Stage
  <2> QED BY <2>1, <2>2, <2>3 DEF Answer
<1>3. ASSUME NEW q \in Proc \ {p}, mode' = "NORMAL" PROVE HasReason(q)'
  <2>1. HasReason(q)
    BY <1>1, <1>3 DEF WaitInv, Reasons, Stage
  <2>2. proc'[q] = proc[q] /\ (Times(q)' <=> Times(q)) /\ (Awaits(q)' <=> Awaits(q))
    BY <1>1 DEF Others, SameWaits, Times
  <2>3. ASSUME kpc = "starting", NEW i \in (started + 1)..count, q = Order[i]
        PROVE  kpc' = "starting" /\ \E j \in (started' + 1)..count' : q = Order[j]
    <3>1. mode = "NORMAL" /\ kpc' = "starting"
      BY <1>1, <1>3, <2>3 DEF Stage
    <3>2. CASE UNCHANGED <<count, started>>
      BY <2>3, <3>1, <3>2
    <3>3. CASE started' = started + 1 /\ count' = count /\ p = Order[started + 1]
      <4>1. started \in Nat /\ count \in Nat
        BY ConstantTypes DEF WaitInv, DispatchInv, StatesInv, TypeInv, TypeOK
      <4>2. i # started + 1
        BY <2>3, <3>3
      <4>3. i \in (started' + 1)..count'
        BY <2>3, <3>3, <4>1, <4>2
      <4> QED BY <2>3, <3>1, <4>3
    <3> QED BY <1>1, <3>1, <3>2, <3>3 DEF Stage
  <2> QED BY <2>1, <2>2, <2>3 DEF HasReason
<1> QED
  BY <1>1, <1>2, <1>3 DEF Answers, Reasons, WaitStep


-----------------------------------------------------------------------------
(* Each step of the partition is such a step, or changes no wait, or ends  *)
(* all. The services of a process on itself:                               *)

LEMMA CallerRuns ==
  ASSUME WaitInv, NEW service, Call(service), current # NoProc, ~ eh.running
  PROVE  /\ current \in Proc /\ Runnable(current) /\ proc[current].tail = "none"
         /\ mode = "NORMAL" /\ kpc = "idle"
<1>1. StatesInv /\ ContextFits /\ HandlerAlone
  BY DEF WaitInv, DispatchInv, ContextInv
<1>2. current \in Proc /\ Runnable(current) /\ mode = "NORMAL"
  BY <1>1, AtCall
<1>3. kpc = "idle" /\ ctx \in Proc \cup {"ERRORHANDLER"} /\ nextCtx = "none"
  BY <1>1, <1>2, CallerIs DEF ContextFits
<1>4. ctx # "ERRORHANDLER"
  BY <1>1, <1>2, <1>3 DEF HandlerAlone, NextUp
<1>5. ctx = current
  BY <1>1, <1>2, <1>3, <1>4 DEF ContextFits, IsLeaving
<1>6. proc[current].tail = "none"
  BY <1>2, <1>5 DEF Call, AtRest, InTail
<1> QED
  BY <1>2, <1>3, <1>6

LEMMA ServiceStage ==
  ASSUME NEW p, kpc = "idle", kpc' \in {"idle", "events"}, UNCHANGED <<mode, count, started>>
  PROVE  Stage(p)
BY DEF Stage

\* Who else is in the queue of time-outs.
LEMMA TimeoutOps ==
  ASSUME StatesInv, NEW p \in Proc, NEW at \in Int
  PROVE  /\ timeoutQ \in DistinctQueue
         /\ Ids(Dequeue(timeoutQ, p)) = Ids(timeoutQ) \ {p}
         /\ Ids(Enqueue(timeoutQ, TRUE, p, at)) = Ids(timeoutQ) \cup {p}
         /\ Ids(Enqueue(Dequeue(timeoutQ, p), TRUE, p, at)) = Ids(timeoutQ) \cup {p}
<1>1. timeoutQ \in DistinctQueue /\ Dequeue(timeoutQ, p) \in DistinctQueue
  BY PlaceOf, DistinctTypes
<1>2. Ids(Dequeue(timeoutQ, p)) = Ids(timeoutQ) \ {p}
  BY <1>1, QueueIds
<1>3. Ids(Enqueue(timeoutQ, TRUE, p, at)) = Ids(timeoutQ) \cup {p}
  BY <1>1, QueueIds
<1>4. Ids(Enqueue(Dequeue(timeoutQ, p), TRUE, p, at)) = Ids(Dequeue(timeoutQ, p)) \cup {p}
  BY <1>1, QueueIds
<1> QED
  BY <1>1, <1>2, <1>3, <1>4

LEMMA StopSelfWaits ==
  ASSUME WaitInv, NEW p \in Proc, p = current, STOP_SELF
  PROVE  WaitStep(p)
<1>1. StatesInv /\ proc \in Table /\ kpc = "idle"
  BY CallerRuns, PlaceOf DEF STOP_SELF, WaitInv, DispatchInv
<1>2. /\ proc' = [proc EXCEPT ![p].suspended = FALSE, ![p].suspendedTimeout = FALSE, ![p].state = "DORMANT"]
      /\ timeoutQ' = Dequeue(timeoutQ, p) /\ NoneWait(p)
  BY DEF STOP_SELF, RemoveFromAll, NoneWait
<1>3. proc'[p].state = "DORMANT" /\ \A q \in Proc \ {p} : proc'[q] = proc[q]
  BY <1>1, <1>2 DEF Table, ProcessInfo
<1>4. Others(p)
  <2>1. Ids(timeoutQ') = Ids(timeoutQ) \ {p}
    BY <1>1, <1>2, PlaceOf, QueueIds
  <2> QED BY <1>3, <2>1 DEF Others
<1>5. Stage(p)
  BY <1>1, ServiceStage DEF STOP_SELF, Yield, partition
<1>6. Halts(p) /\ HasReason(p)'
  BY <1>2, <1>3 DEF Halts, HasReason
<1> QED
  BY <1>4, <1>5, <1>6 DEF WaitStep

LEMMA PeriodicWaitWaits ==
  ASSUME WaitInv, NEW p \in Proc, p = current, PERIODIC_WAIT
  PROVE  WaitStep(p)
<1> DEFINE at == NextRelease(p)
           d == DeadlineAt(p, at)
<1>1. /\ StatesInv /\ proc \in Table /\ kpc = "idle" /\ proc[p].tail = "none"
      /\ proc[p].state \in {"READY", "RUNNING"}
  BY CallerRuns, PlaceOf DEF PERIODIC_WAIT, MayBlock, WaitInv, DispatchInv
<1>2. at \in Int
  BY <1>1, PeriodicWaitTable DEF StatesInv, TypeInv
<1>3. /\ timeoutQ' = Enqueue(timeoutQ, TRUE, p, at) /\ waitq' = waitq
      /\ proc' = [proc EXCEPT ![p].state = "WAITING", ![p].release = at, ![p].deadline = d, ![p].woken = FALSE]
  BY DEF PERIODIC_WAIT
<1>4. Stage(p)
  BY <1>1, ServiceStage DEF PERIODIC_WAIT, Yield, partition
<1> HIDE DEF at, d
<1>5. proc'[p].state = "WAITING" /\ proc'[p].tail = "none" /\ \A q \in Proc \ {p} : proc'[q] = proc[q]
  BY <1>1, <1>3 DEF Table, ProcessInfo
<1>6. Ids(timeoutQ') = Ids(timeoutQ) \cup {p}
  BY <1>1, <1>2, <1>3, TimeoutOps
<1>7. Others(p) /\ Sleeps(p) /\ HasReason(p)'
  BY <1>1, <1>3, <1>5, <1>6 DEF Others, Sleeps, HasReason, Times
<1> QED
  BY <1>4, <1>7 DEF WaitStep

LEMMA SuspendSelfWaits ==
  ASSUME WaitInv, NEW p \in Proc, p = current, NEW t \in TimeOuts, SUSPEND_SELF(t)
  PROVE  WaitStep(p)
<1> DEFINE at == now + t
<1>1. /\ StatesInv /\ proc \in Table /\ kpc = "idle" /\ proc[p].tail = "none" /\ mode = "NORMAL"
      /\ proc[p].state \in {"READY", "RUNNING"} /\ now \in Nat
  BY CallerRuns, PlaceOf DEF SUSPEND_SELF, MayBlock, WaitInv, DispatchInv, StatesInv, TypeInv, TypeOK
<1>2. at \in Int
  BY <1>1, ConstantTypes
<1>3. /\ timeoutQ' = timeoutQ \/ timeoutQ' = Enqueue(timeoutQ, TRUE, p, at)
      /\ waitq' = waitq
      /\ \/ proc' = [proc EXCEPT ![p].state = "WAITING", ![p].suspended = TRUE, ![p].suspendedTimeout = TRUE,
                                 ![p].woken = FALSE, ![p].tail = "suspendTimed"]
         \/ proc' = [proc EXCEPT ![p].state = "WAITING", ![p].suspended = TRUE, ![p].tail = "suspend"]
  BY DEF SUSPEND_SELF
<1>4. Stage(p)
  BY <1>1, ServiceStage DEF SUSPEND_SELF, Yield, partition
<1> HIDE DEF at
<1>5. /\ proc'[p].state = "WAITING" /\ proc'[p].suspended /\ proc'[p].tail \in {"suspend", "suspendTimed"}
      /\ \A q \in Proc \ {p} : proc'[q] = proc[q]
  BY <1>1, <1>3 DEF Table, ProcessInfo
<1>6. Ids(timeoutQ') \in {Ids(timeoutQ), Ids(timeoutQ) \cup {p}}
  BY <1>1, <1>2, <1>3, TimeoutOps
<1>7. Others(p) /\ Sleeps(p) /\ HasReason(p)'
  BY <1>1, <1>3, <1>5, <1>6 DEF Others, Sleeps, HasReason
<1> QED
  BY <1>4, <1>7 DEF WaitStep

LEMMA TimedWaitWaits ==
  ASSUME WaitInv, NEW p \in Proc, p = current, NEW d \in Delays, TIMED_WAIT(d)
  PROVE  WaitStep(p)
<1> DEFINE at == now + d
<1>1. /\ StatesInv /\ proc \in Table /\ kpc = "idle" /\ proc[p].tail = "none" /\ mode = "NORMAL"
      /\ proc[p].state \in {"READY", "RUNNING"} /\ now \in Nat
  BY CallerRuns, PlaceOf DEF TIMED_WAIT, MayBlock, WaitInv, DispatchInv, StatesInv, TypeInv, TypeOK
<1>2. at \in Int
  BY <1>1, ConstantTypes
<1>3. Stage(p)
  BY <1>1, ServiceStage DEF TIMED_WAIT, Yield, partition
<1>4. CASE d = 0
  <2>1. timeoutQ' = timeoutQ /\ waitq' = waitq /\ proc' = [proc EXCEPT ![p].state = "READY"]
    BY <1>4 DEF TIMED_WAIT
  <2>2. /\ proc'[p].state = "READY" /\ proc'[p].tail = proc[p].tail /\ proc'[p].granted = proc[p].granted
        /\ proc'[p].woken = proc[p].woken /\ \A q \in Proc \ {p} : proc'[q] = proc[q]
    BY <1>1, <2>1 DEF Table, ProcessInfo
  <2>3. Others(p) /\ Unmoved(p) /\ HasReason(p)'
    BY <1>1, <2>1, <2>2 DEF Others, Unmoved, HasReason
  <2> QED BY <1>3, <2>3 DEF WaitStep
<1>5. CASE d # 0
  <2>1. /\ timeoutQ' = Enqueue(timeoutQ, TRUE, p, at) /\ waitq' = waitq
        /\ proc' = [proc EXCEPT ![p].state = "WAITING", ![p].woken = FALSE, ![p].tail = "timed"]
    BY <1>5 DEF TIMED_WAIT
  <2> HIDE DEF at
  <2>2. proc'[p].state = "WAITING" /\ proc'[p].tail = "timed" /\ \A q \in Proc \ {p} : proc'[q] = proc[q]
    BY <1>1, <2>1 DEF Table, ProcessInfo
  <2>3. Ids(timeoutQ') = Ids(timeoutQ) \cup {p}
    BY <1>1, <1>2, <2>1, TimeoutOps
  <2>4. Others(p) /\ Sleeps(p) /\ HasReason(p)'
    BY <1>1, <2>1, <2>2, <2>3 DEF Others, Sleeps, HasReason, Times
  <2> QED BY <1>3, <2>4 DEF WaitStep
<1> QED
  BY <1>4, <1>5

LEMMA WaitResourceWaits ==
  ASSUME WaitInv, NEW p \in Proc, p = current, NEW r \in Resource, NEW t \in TimeOuts,
         Call("WAIT_RESOURCE"), WAIT_RESOURCE(r, t)
  PROVE  WaitStep(p)
<1> DEFINE at == now + t
<1>1. /\ StatesInv /\ proc \in Table /\ kpc = "idle" /\ proc[p].tail = "none" /\ mode = "NORMAL"
      /\ Runnable(p) /\ p \notin Ids(timeoutQ) /\ now \in Nat
  BY CallerRuns, PlaceOf DEF WAIT_RESOURCE, MayBlock, WaitInv, DispatchInv, StatesInv, TypeInv, TypeOK
<1>2. at \in Int
  BY <1>1, ConstantTypes
<1>3. /\ waitq' = [waitq EXCEPT ![r] = Enqueue(waitq[r], FALSE, p, IF r \in Fifo THEN MinPriority ELSE proc[p].prio)]
      /\ \/ /\ timeoutQ' = Enqueue(timeoutQ, TRUE, p, at)
            /\ proc' = [proc EXCEPT ![p].state = "WAITING", ![p].woken = FALSE, ![p].granted = FALSE,
                                    ![p].tail = "resource"]
         \/ /\ timeoutQ' = timeoutQ
            /\ proc' = [proc EXCEPT ![p].state = "WAITING", ![p].granted = FALSE, ![p].tail = "ever"]
  BY <1>1 DEF WAIT_RESOURCE, StatesInv, TypeInv, QueuesOK
<1>4. Stage(p)
  BY <1>1, ServiceStage DEF WAIT_RESOURCE, Yield, partition
<1> HIDE DEF at
<1>5. /\ proc'[p].state = "WAITING" /\ ~ proc'[p].granted
      /\ \/ proc'[p].tail = "resource" /\ ~ proc'[p].woken
         \/ proc'[p].tail = "ever" /\ timeoutQ' = timeoutQ
      /\ \A q \in Proc \ {p} : proc'[q] = proc[q]
  <2>1. CASE proc' = [proc EXCEPT ![p].state = "WAITING", ![p].woken = FALSE, ![p].granted = FALSE,
                                  ![p].tail = "resource"]
    BY <1>1, <2>1 DEF Table, ProcessInfo
  <2>2. CASE /\ timeoutQ' = timeoutQ
             /\ proc' = [proc EXCEPT ![p].state = "WAITING", ![p].granted = FALSE, ![p].tail = "ever"]
    BY <1>1, <2>2 DEF Table, ProcessInfo
  <2> QED BY <1>3, <2>1, <2>2
<1>6. Ids(timeoutQ') \in {Ids(timeoutQ), Ids(timeoutQ) \cup {p}}
  BY <1>1, <1>2, <1>3, TimeoutOps
<1>7. Others(p) /\ Enters(p, r)
  BY <1>1, <1>3, <1>5, <1>6 DEF Others, Enters
<1>8. HasReason(p)'
  BY <1>1, <1>7, EntersWaits DEF HasReason
<1> QED
  BY <1>4, <1>7, <1>8 DEF WaitStep

LEMMA ReplenishWaits ==
  ASSUME WaitInv, NEW p \in Proc, p = current, NEW t \in Budgets, REPLENISH(t)
  PROVE  WaitStep(p)
<1> DEFINE d == IF t = Infinite THEN Infinite ELSE now + t
<1>1. /\ StatesInv /\ proc \in Table /\ kpc = "idle" /\ proc[p].state \in {"READY", "RUNNING"}
  BY CallerRuns, PlaceOf DEF REPLENISH, WaitInv, DispatchInv
<1>2. timeoutQ' = timeoutQ /\ waitq' = waitq /\ proc' = [proc EXCEPT ![p].deadline = d]
  BY DEF REPLENISH
<1>3. Stage(p)
  BY <1>1, ServiceStage DEF REPLENISH, kernel, partition
<1> HIDE DEF d
<1>4. /\ proc'[p].state = proc[p].state /\ proc'[p].tail = proc[p].tail /\ proc'[p].granted = proc[p].granted
      /\ proc'[p].woken = proc[p].woken /\ \A q \in Proc \ {p} : proc'[q] = proc[q]
  BY <1>1, <1>2 DEF Table, ProcessInfo
<1>5. Others(p) /\ Unmoved(p) /\ HasReason(p)'
  BY <1>1, <1>2, <1>4 DEF Others, Unmoved, HasReason
<1> QED
  BY <1>3, <1>5 DEF WaitStep


-----------------------------------------------------------------------------
(* The services of a process on another one.                               *)

LEMMA StopWaits ==
  ASSUME WaitInv, NEW p \in Proc, STOP(p)
  PROVE  WaitStep(p)
<1>1. StatesInv /\ proc \in Table /\ kpc = "idle"
  BY AtCall, PlaceOf DEF STOP, WaitInv, DispatchInv
<1>2. /\ proc' = [proc EXCEPT ![p].suspended = FALSE, ![p].suspendedTimeout = FALSE, ![p].state = "DORMANT"]
      /\ timeoutQ' = Dequeue(timeoutQ, p) /\ NoneWait(p)
  BY DEF STOP, RemoveFromAll, NoneWait
<1>3. proc'[p].state = "DORMANT" /\ \A q \in Proc \ {p} : proc'[q] = proc[q]
  BY <1>1, <1>2 DEF Table, ProcessInfo
<1>4. Ids(timeoutQ') = Ids(timeoutQ) \ {p}
  BY <1>1, <1>2, PlaceOf, QueueIds
<1>5. Stage(p)
  BY <1>1, ServiceStage DEF STOP, kernel, partition
<1>6. Others(p) /\ Halts(p) /\ HasReason(p)'
  BY <1>2, <1>3, <1>4 DEF Others, Halts, HasReason
<1> QED
  BY <1>5, <1>6 DEF WaitStep

LEMMA SuspendWaits ==
  ASSUME WaitInv, NEW p \in Proc, SUSPEND(p)
  PROVE  WaitStep(p)
<1>1. StatesInv /\ proc \in Table /\ kpc = "idle" /\ proc[p].state # "DORMANT"
  BY AtCall, PlaceOf DEF SUSPEND, Alive, WaitInv, DispatchInv
<1>2. /\ timeoutQ' = timeoutQ /\ waitq' = waitq
      /\ proc' = [proc EXCEPT ![p].state = "WAITING", ![p].suspended = TRUE, ![p].suspendedTimeout = FALSE]
  BY DEF SUSPEND
<1>3. /\ proc'[p].state = "WAITING" /\ proc'[p].suspended /\ proc'[p].tail = proc[p].tail
      /\ proc'[p].granted = proc[p].granted /\ proc'[p].woken = proc[p].woken
      /\ \A q \in Proc \ {p} : proc'[q] = proc[q]
  BY <1>1, <1>2 DEF Table, ProcessInfo
<1>4. Stage(p)
  BY <1>1, ServiceStage DEF SUSPEND, kernel, partition
<1>5. Others(p) /\ Unmoved(p) /\ HasReason(p)'
  BY <1>1, <1>2, <1>3 DEF Others, Unmoved, HasReason
<1> QED
  BY <1>4, <1>5 DEF WaitStep

LEMMA ResumeWaits ==
  ASSUME WaitInv, NEW p \in Proc, RESUME(p)
  PROVE  WaitStep(p)
<1> DEFINE d == DeadlineAt(p, now)
           T == IF proc[p].suspendedTimeout THEN Dequeue(timeoutQ, p) ELSE timeoutQ
           new == IF ~ StillWaits(p, T) THEN "READY" ELSE proc[p].state
<1>1. StatesInv /\ proc \in Table /\ kpc = "idle" /\ proc[p].state # "DORMANT"
  BY AtCall, PlaceOf DEF RESUME, Alive, WaitInv, DispatchInv
<1>2. timeoutQ' = T /\ waitq' = waitq
  BY DEF RESUME
<1>3. proc' = [proc EXCEPT ![p].suspended = FALSE, ![p].suspendedTimeout = FALSE,
                           ![p].release = now, ![p].deadline = d, ![p].state = new]
  BY <1>1 DEF RESUME, Table, ProcessInfo
<1>4. new = "READY" \/ (new = proc[p].state /\ (p \in Ids(T) \/ Awaits(p)))
  BY EnqueuedIsInIds DEF StillWaits, Awaits
<1>5. Ids(T) \in {Ids(timeoutQ), Ids(timeoutQ) \ {p}}
  BY <1>1, PlaceOf, QueueIds
<1>6. Stage(p)
  BY <1>1, ServiceStage DEF RESUME, YieldIf, Yield, kernel, partition
<1> HIDE DEF d, T, new
<1>7. /\ proc'[p].state = new /\ proc'[p].tail = proc[p].tail
      /\ proc'[p].granted = proc[p].granted /\ proc'[p].woken = proc[p].woken
      /\ \A q \in Proc \ {p} : proc'[q] = proc[q]
  BY <1>1, <1>3 DEF Table, ProcessInfo
<1>8. Others(p) /\ Unmoved(p)
  BY <1>1, <1>2, <1>4, <1>5, <1>7 DEF Others, Unmoved
<1>9. HasReason(p)'
  BY <1>2, <1>4, <1>7 DEF HasReason, Times, Awaits
<1> QED
  BY <1>6, <1>8, <1>9 DEF WaitStep

LEMMA SetPriorityWaits ==
  ASSUME WaitInv, NEW p \in Proc, NEW prio \in Priorities, SET_PRIORITY(p, prio)
  PROVE  WaitStep(p)
<1>1. StatesInv /\ proc \in Table /\ kpc = "idle" /\ prio \in Int
  BY AtCall, PlaceOf, ConstantTypes DEF SET_PRIORITY, WaitInv, DispatchInv
<1>2. timeoutQ' = timeoutQ /\ proc' = [proc EXCEPT ![p].prio = prio]
  BY DEF SET_PRIORITY
<1>3. /\ proc'[p].state = proc[p].state /\ proc'[p].tail = proc[p].tail /\ proc'[p].suspended = proc[p].suspended
      /\ proc'[p].granted = proc[p].granted /\ proc'[p].woken = proc[p].woken
      /\ \A q \in Proc \ {p} : proc'[q] = proc[q]
  BY <1>1, <1>2 DEF Table, ProcessInfo
<1>4. Stage(p) /\ UNCHANGED <<mode, count, started>> /\ kpc' \in {"idle", "events"}
  BY <1>1, ServiceStage DEF SET_PRIORITY, YieldIf, Yield, kernel, partition
<1>5. Others(p) /\ Moves(p, prio)
  BY <1>2, <1>3 DEF SET_PRIORITY, Others, Moves
<1>6. ASSUME mode' = "NORMAL" PROVE HasReason(p)'
  <2>1. HasReason(p)
    BY <1>4, <1>6 DEF WaitInv, Reasons
  <2>2. Awaits(p)' <=> Awaits(p)
    BY <1>1, <1>5, MovesWaits DEF SameWaits
  <2> QED BY <1>1, <1>2, <1>3, <2>1, <2>2 DEF HasReason, Times
<1> QED
  BY <1>1, <1>4, <1>5, <1>6 DEF WaitStep

LEMMA ReleaseWaits ==
  ASSUME NEW p \in Proc, NEW P \in Table, NEW R, NEW D,
         NEW T \in DistinctQueue, now \in Nat, Release(p, P, R, D, T)
  PROVE  /\ \A q \in Proc \ {p} : proc'[q] = P[q]
         /\ proc'[p].tail = P[p].tail
         /\ \/ proc'[p].state = "WAITING" /\ Ids(timeoutQ') = Ids(T) \cup {p}
            \/ proc'[p].state = "READY" /\ timeoutQ' = T
<1>1. P[p] \in ProcessInfo /\ P[p].delay \in Int
  BY DEF Table, ProcessInfo
<1>2. \A s \in NextPeriodStart : s + P[p].delay \in Int
  BY <1>1, ConstantTypes DEF NextPeriodStart
<1>3. now + P[p].delay \in Int
  BY <1>1
<1>4. ASSUME NEW at \in Int, timeoutQ' = Enqueue(T, TRUE, p, at),
             proc' = [P EXCEPT ![p].state = "WAITING", ![p].release = at,
                               ![p].deadline = DeadlineAt(p, at), ![p].woken = FALSE]
      PROVE  /\ \A q \in Proc \ {p} : proc'[q] = P[q]
             /\ proc'[p].tail = P[p].tail
             /\ proc'[p].state = "WAITING" /\ Ids(timeoutQ') = Ids(T) \cup {p}
  <2>1. Ids(timeoutQ') = Ids(T) \cup {p}
    BY <1>4, QueueIds
  <2> DEFINE d == DeadlineAt(p, at)
  <2>2. proc' = [P EXCEPT ![p].state = "WAITING", ![p].release = at, ![p].deadline = d,
                          ![p].woken = FALSE]
    BY <1>4
  <2> HIDE DEF d
  <2> QED BY <1>1, <2>1, <2>2 DEF Table, ProcessInfo
<1>5. ASSUME timeoutQ' = T,
             proc' = [P EXCEPT ![p].state = "READY", ![p].release = now, ![p].deadline = DeadlineAt(p, now)]
      PROVE  /\ \A q \in Proc \ {p} : proc'[q] = P[q]
             /\ proc'[p].tail = P[p].tail
             /\ proc'[p].state = "READY" /\ timeoutQ' = T
  <2> DEFINE d == DeadlineAt(p, now)
  <2>1. proc' = [P EXCEPT ![p].state = "READY", ![p].release = now, ![p].deadline = d]
    BY <1>5
  <2> HIDE DEF d
  <2> QED BY <1>1, <1>5, <2>1 DEF Table, ProcessInfo
<1>6. CASE \E at \in Int : /\ timeoutQ' = Enqueue(T, TRUE, p, at)
                          /\ proc' = [P EXCEPT ![p].state = "WAITING", ![p].release = at,
                               ![p].deadline = DeadlineAt(p, at), ![p].woken = FALSE]
  BY <1>4, <1>6
<1>7. CASE /\ timeoutQ' = T
           /\ proc' = [P EXCEPT ![p].state = "READY", ![p].release = now,
                                ![p].deadline = DeadlineAt(p, now)]
  BY <1>5, <1>7
<1> QED
  BY <1>2, <1>3, <1>6, <1>7 DEF Release

LEMMA DelayedStartWaits ==
  ASSUME WaitInv, NEW p \in Proc, NEW d \in Delays, DELAYED_START(p, d)
  PROVE  WaitStep(p)
<1> DEFINE base == BasePriority[p]
           P == [proc EXCEPT ![p].suspended = FALSE, ![p].suspendedTimeout = FALSE,
                             ![p].prio = base, ![p].delay = d, ![p].tail = "none"]
           T == Dequeue(timeoutQ, p)
<1>1. StatesInv /\ proc \in Table /\ kpc = "idle" /\ proc[p].state = "DORMANT" /\ now \in Nat
  BY AtCall, PlaceOf DEF DELAYED_START, WaitInv, DispatchInv, StatesInv, TypeInv, TypeOK
<1>2. P \in Table
  BY <1>1, StartedTable DEF StatesInv, TypeInv
<1>3. /\ NoneWait(p)
      /\ \/ Release(p, P, Dequeue(ready, p), Dequeue(deadlineQ, p), T)
         \/ mode # "NORMAL" /\ proc' = [P EXCEPT ![p].state = "WAITING"] /\ timeoutQ' = T
  BY DEF DELAYED_START, RemoveFromAll, NoneWait
<1>4. T \in DistinctQueue /\ Ids(T) = Ids(timeoutQ) \ {p}
  BY <1>1, PlaceOf, QueueIds, DistinctTypes
<1>5. Stage(p) /\ mode' = mode
  BY <1>1, ServiceStage DEF DELAYED_START, YieldIf, Yield, kernel, partition
<1>6. P[p].tail = "none" /\ \A q \in Proc \ {p} : P[q] = proc[q]
  <2> HIDE DEF base
  <2> QED BY <1>1 DEF Table, ProcessInfo
<1> HIDE DEF P, T
<1>7. CASE Release(p, P, Dequeue(ready, p), Dequeue(deadlineQ, p), T)
  <2>1. /\ \A q \in Proc \ {p} : proc'[q] = P[q]
        /\ proc'[p].tail = P[p].tail
        /\ \/ proc'[p].state = "WAITING" /\ Ids(timeoutQ') = Ids(T) \cup {p}
           \/ proc'[p].state = "READY" /\ timeoutQ' = T
    BY <1>1, <1>2, <1>4, <1>7, ReleaseWaits
  <2>2. Others(p) /\ Begins(p) /\ HasReason(p)'
    BY <1>1, <1>3, <1>4, <1>6, <2>1 DEF Others, Begins, HasReason, Times
  <2> QED BY <1>5, <2>2 DEF WaitStep
<1>8. CASE mode # "NORMAL" /\ proc' = [P EXCEPT ![p].state = "WAITING"] /\ timeoutQ' = T
  <2>1. proc'[p].tail = P[p].tail /\ \A q \in Proc \ {p} : proc'[q] = P[q]
    BY <1>2, <1>8 DEF Table, ProcessInfo
  <2>2. Others(p) /\ Begins(p)
    BY <1>1, <1>3, <1>4, <1>6, <1>8, <2>1 DEF Others, Begins
  <2> QED BY <1>5, <1>8, <2>2 DEF WaitStep
<1> QED
  BY <1>3, <1>7, <1>8

LEMMA StartNextWaits ==
  ASSUME WaitInv, NEW p \in Proc, p = Order[started + 1], StartNext
  PROVE  WaitStep(p)
<1>1. /\ StatesInv /\ proc \in Table /\ kpc = "starting" /\ now \in Nat /\ timeoutQ \in DistinctQueue
      /\ kpc' = kpc /\ waitq' = waitq /\ mode' = mode /\ count' = count /\ started' = started + 1
  BY PlaceOf DEF StartNext, WaitInv, DispatchInv, StatesInv, TypeInv, TypeOK, kernel
<1>2. Stage(p)
  BY <1>1 DEF Stage
<1>3. CASE proc[p].state = "WAITING" /\ Release(p, proc, ready, deadlineQ, timeoutQ)
  <2>1. /\ \A q \in Proc \ {p} : proc'[q] = proc[q]
        /\ proc'[p].tail = proc[p].tail
        /\ \/ proc'[p].state = "WAITING" /\ Ids(timeoutQ') = Ids(timeoutQ) \cup {p}
           \/ proc'[p].state = "READY" /\ timeoutQ' = timeoutQ
    BY <1>1, <1>3, ReleaseWaits
  <2>2. proc[p].tail = "none"
    BY <1>1, <1>3 DEF WaitInv, Answers, Answer
  <2>3. Others(p) /\ Sleeps(p) /\ HasReason(p)'
    BY <1>1, <1>3, <2>1, <2>2 DEF Others, Sleeps, HasReason, Times
  <2> QED BY <1>2, <2>3 DEF WaitStep
<1>4. CASE proc[p].state # "WAITING" /\ UNCHANGED <<proc, timeoutQ>>
  <2>1. Others(p) /\ Unmoved(p) /\ HasReason(p)'
    BY <1>1, <1>4 DEF Others, Unmoved, HasReason
  <2> QED BY <1>2, <2>1 DEF WaitStep
<1> QED
  BY <1>3, <1>4 DEF StartNext


-----------------------------------------------------------------------------
(* The ends of waits, and the steps that change a process's state alone.   *)

LEMMA SignalWaits ==
  ASSUME WaitInv, NEW r \in Resource, NEW b, kpc = "idle", SIGNAL_RESOURCE(r, b)
  PROVE  \E p \in Proc : p = Head(waitq[r]).id /\ WaitStep(p)
<1>1. /\ StatesInv /\ proc \in Table /\ waitq \in [Resource -> DistinctQueue]
      /\ timeoutQ \in DistinctQueue /\ waitq[r] # <<>>
  BY ProcTypes DEF SIGNAL_RESOURCE, SignalHead, WaitInv, DispatchInv, StatesInv, TypeInv, QueuesOK
<1>2. PICK p \in Proc : p = Head(waitq[r]).id /\ p \in Ids(waitq[r])
  BY <1>1, QueueIds
<1>3. /\ timeoutQ' = Dequeue(timeoutQ, p)
      /\ waitq' = [waitq EXCEPT ![r] = Dequeue(waitq[r], p)]
      /\ \/ proc' = [proc EXCEPT ![p].state = "READY", ![p].granted = TRUE]
         \/ proc[p].suspended /\ proc' = [proc EXCEPT ![p].granted = TRUE]
  BY <1>1, <1>2 DEF SIGNAL_RESOURCE, SignalHead
<1>4. Ids(timeoutQ') = Ids(timeoutQ) \ {p}
  BY <1>1, <1>3, QueueIds
<1>5. kpc' \in {"idle", "events"} /\ UNCHANGED <<mode, count, started>>
  BY DEF SIGNAL_RESOURCE, YieldIf, Yield, kernel, partition
<1>6. waitq[r] # <<>> /\ p = Head(waitq[r]).id
  BY <1>1, <1>2
<1>7. proc[p].state = "WAITING"
  BY <1>1, <1>2, PlaceOf
<1>8. /\ \/ proc'[p].state = "READY"
         \/ proc'[p].state = proc[p].state /\ proc'[p].suspended
      /\ proc'[p].tail = proc[p].tail /\ proc'[p].woken = proc[p].woken /\ proc'[p].granted
      /\ \A q \in Proc \ {p} : proc'[q] = proc[q]
  <2>1. CASE proc' = [proc EXCEPT ![p].state = "READY", ![p].granted = TRUE]
    BY <1>1, <1>2, <2>1 DEF Table, ProcessInfo
  <2>2. CASE proc[p].suspended /\ proc' = [proc EXCEPT ![p].granted = TRUE]
    BY <1>1, <1>2, <2>2 DEF Table, ProcessInfo
  <2> QED BY <1>3, <2>1, <2>2
<1>9. Stage(p)
  BY <1>5, ServiceStage
<1>10. Others(p) /\ Granted(p, r) /\ HasReason(p)'
  <2>1. Others(p)
    BY <1>4, <1>8 DEF Others
  <2>2. Granted(p, r)
    BY <1>3, <1>4, <1>6, <1>7, <1>8 DEF Granted
  <2>3. HasReason(p)'
    BY <1>8 DEF HasReason
  <2> QED BY <2>1, <2>2, <2>3
<1>11. WaitStep(p)
  BY <1>9, <1>10 DEF WaitStep
<1> QED
  BY <1>2, <1>11

LEMMA TimeoutWaits ==
  ASSUME WaitInv, Timeout
  PROVE  \E p \in Proc : p = Head(timeoutQ).id /\ WaitStep(p)
<1>1. /\ StatesInv /\ proc \in Table /\ timeoutQ \in DistinctQueue /\ timeoutQ # <<>>
      /\ kpc = "timeouts"
  BY ProcTypes DEF Timeout, Due, WaitInv, DispatchInv, StatesInv, TypeInv, QueuesOK
<1>2. PICK p \in Proc : p = Head(timeoutQ).id /\ p \in Ids(timeoutQ)
  BY <1>1, QueueIds
<1>3. /\ timeoutQ' = Dequeue(timeoutQ, p) /\ NoneWait(p)
      /\ \/ proc' = [proc EXCEPT ![p].woken = TRUE, ![p].state = "READY"]
         \/ proc[p].suspended /\ proc' = [proc EXCEPT ![p].woken = TRUE, ![p].state = @]
  BY <1>2 DEF Timeout, NoneWait
<1>4. Ids(timeoutQ') = Ids(timeoutQ) \ {p}
  BY <1>1, <1>3, QueueIds
<1>5. kpc' = kpc /\ UNCHANGED <<mode, count, started>>
  BY DEF Timeout, kernel, partition
<1>6. proc[p].state = "WAITING"
  BY <1>1, <1>2, PlaceOf
<1>7. /\ \/ proc'[p].state = "READY"
         \/ proc'[p].state = proc[p].state /\ proc'[p].suspended
      /\ proc'[p].tail = proc[p].tail /\ proc'[p].granted = proc[p].granted /\ proc'[p].woken
      /\ \A q \in Proc \ {p} : proc'[q] = proc[q]
  <2>1. CASE proc' = [proc EXCEPT ![p].woken = TRUE, ![p].state = "READY"]
    BY <1>1, <1>2, <2>1 DEF Table, ProcessInfo
  <2>2. CASE proc[p].suspended /\ proc' = [proc EXCEPT ![p].woken = TRUE, ![p].state = @]
    BY <1>1, <1>2, <2>2 DEF Table, ProcessInfo
  <2> QED BY <1>3, <2>1, <2>2
<1>8. Stage(p)
  BY <1>1, <1>5 DEF Stage
<1>9. Others(p) /\ Expires(p) /\ HasReason(p)'
  <2>1. Others(p)
    BY <1>4, <1>7 DEF Others
  <2>2. Expires(p)
    BY <1>2, <1>3, <1>4, <1>6, <1>7 DEF Expires
  <2>3. HasReason(p)'
    BY <1>7 DEF HasReason
  <2> QED BY <2>1, <2>2, <2>3
<1>10. WaitStep(p)
  BY <1>8, <1>9 DEF WaitStep
<1> QED
  BY <1>2, <1>10

LEMMA ContinueWaits ==
  ASSUME WaitInv, NEW p \in Proc, Continue(p)
  PROVE  WaitStep(p)
<1> DEFINE d == DeadlineAt(p, now)
<1>1. StatesInv /\ ContextFits /\ proc \in Table /\ kpc = "idle" /\ ctx = p /\ proc[p].tail # "none"
  BY PlaceOf DEF Continue, WaitInv, DispatchInv, ContextInv
<1>2. p = current /\ Runnable(p)
  BY <1>1, ConstantTypes DEF ContextFits, IsLeaving, StatesInv, Control, CurrentRunnable
<1>3. p \notin Ids(timeoutQ) /\ (\A r \in Resource : p \notin Ids(waitq[r])) /\ waitq \in [Resource -> DistinctQueue]
  BY <1>1, <1>2, PlaceOf
<1>4. Dequeue(timeoutQ, p) = timeoutQ /\ \A r \in Resource : Dequeue(waitq[r], p) = waitq[r]
  BY <1>3, EnqueuedIsInIds DEF Dequeue
<1>5. timeoutQ' = timeoutQ
  BY <1>4 DEF Continue
<1>6. waitq' = waitq
  <2>1. waitq' = [r \in Resource |-> IF proc[p].tail = "resource" THEN Dequeue(waitq[r], p) ELSE waitq[r]]
    BY DEF Continue
  <2>2. \A r \in Resource : waitq'[r] = waitq[r]
    BY <1>4, <2>1
  <2> QED BY <1>3, <2>1, <2>2
<1>7. Stage(p)
  BY <1>1 DEF Continue, Stage, kernel, partition
<1>8. \/ proc' = [proc EXCEPT ![p].tail = "none", ![p].release = now, ![p].deadline = d]
      \/ proc' = [proc EXCEPT ![p].tail = "none"]
  BY DEF Continue
<1> HIDE DEF d
<1>9. proc'[p].state = proc[p].state /\ proc'[p].tail = "none" /\ \A q \in Proc \ {p} : proc'[q] = proc[q]
  BY <1>1, <1>8 DEF Table, ProcessInfo
<1>10. Others(p) /\ Returns(p) /\ HasReason(p)'
  BY <1>1, <1>2, <1>5, <1>6, <1>9 DEF Others, Returns, HasReason, Runnable
<1> QED
  BY <1>7, <1>10 DEF WaitStep

\* A change of state of a process that does not wait.
LEMMA StateWaits ==
  ASSUME WaitInv, NEW p \in Proc, NEW s, UNCHANGED <<timeoutQ, waitq>>, Stage(p),
         proc' = [proc EXCEPT ![p].state = s], s # "WAITING",
         s = "DORMANT" <=> proc[p].state = "DORMANT"
  PROVE  WaitStep(p)
<1>1. proc \in Table
  BY PlaceOf DEF WaitInv, DispatchInv
<1>2. /\ proc'[p].state = s /\ proc'[p].tail = proc[p].tail /\ proc'[p].granted = proc[p].granted
      /\ proc'[p].woken = proc[p].woken /\ \A q \in Proc \ {p} : proc'[q] = proc[q]
  BY <1>1 DEF Table, ProcessInfo
<1>3. Others(p) /\ Unmoved(p) /\ HasReason(p)'
  BY <1>2 DEF Others, Unmoved, HasReason
<1> QED
  BY <1>3 DEF WaitStep

LEMMA CreateProcessWaits ==
  ASSUME WaitInv, CREATE_PROCESS
  PROVE  \E p \in Proc : p = Order[count + 1] /\ WaitStep(p)
<1>1. kpc = "idle" /\ mode # "NORMAL" /\ count < Len(Order) /\ count \in Nat /\ StatesInv
  BY CallerIs, ConstantTypes DEF CREATE_PROCESS, WaitInv, DispatchInv, StatesInv, TypeInv, TypeOK
<1>2. PICK p \in Proc : p = Order[count + 1] /\ p \notin Created
  <2>1. count + 1 \in 1..Len(Order) /\ \A i \in 1..count : i \in 1..Len(Order) /\ i # count + 1
    BY <1>1, ConstantTypes
  <2>2. \A i, j \in 1..Len(Order) : Order[i] = Order[j] => i = j
    BY ProcessesAssumption
  <2> QED BY <2>1, <2>2, ConstantTypes DEF Created
<1>3. proc[p].state = "DORMANT"
  BY <1>1, <1>2 DEF StatesInv, Places, UncreatedDormant
<1>4. /\ UNCHANGED <<timeoutQ, waitq, mode, started, kpc>> /\ proc' = [proc EXCEPT ![p].state = "DORMANT"]
  BY <1>2 DEF CREATE_PROCESS, queues, kernel
<1>5. Stage(p)
  BY <1>1, <1>4 DEF Stage
<1> QED
  BY <1>2, <1>3, <1>4, <1>5, StateWaits

LEMMA StopHandlerWaits ==
  ASSUME WaitInv, StopErrorHandler, proc' # proc
  PROVE  \E p \in Proc : p = eh.preempted /\ WaitStep(p)
<1>1. /\ kpc = "idle" /\ proc[eh.preempted].state # "DORMANT" /\ eh.preempted \in Created
      /\ proc' = [proc EXCEPT ![eh.preempted].state = "RUNNING"]
      /\ UNCHANGED <<timeoutQ, waitq, mode, count, started, kpc>>
  BY CallerIs DEF StopErrorHandler, queues, kernel, partition
<1>2. PICK p \in Proc : p = eh.preempted
  <2>1. count \in Nat /\ count <= Len(Order)
    BY ConstantTypes DEF WaitInv, DispatchInv, StatesInv, TypeInv, TypeOK
  <2> QED BY <1>1, <2>1, ConstantTypes DEF Created
<1>3. Stage(p)
  BY <1>1 DEF Stage
<1> QED
  BY <1>1, <1>2, <1>3, StateWaits

LEMMA ProcessOutWaits ==
  ASSUME WaitInv, ScheduleProcessOut, proc' # proc
  PROVE  \E p \in Proc : p = Head(ready).id /\ WaitStep(p)
<1>1. /\ kpc = "out" /\ kpc' \in {"in", "partition"} /\ ready # <<>>
      /\ proc' = [proc EXCEPT ![Head(ready).id].state = "READY"]
      /\ UNCHANGED <<timeoutQ, waitq, mode, count, started>>
  BY DEF ScheduleProcessOut, AfterOut, StopCallback, StopHandler, Preempt, StayOn, queues, partition
<1>2. PICK p \in Proc : p = Head(ready).id /\ p \in Ids(ready)
  <2>1. ready \in DistinctQueue
    BY DEF WaitInv, DispatchInv, StatesInv, TypeInv, QueuesOK
  <2> QED BY <1>1, <2>1, QueueIds
<1>3. proc[p].state # "DORMANT"
  BY <1>2, PlaceOf DEF WaitInv, DispatchInv
<1>4. Stage(p)
  BY <1>1 DEF Stage
<1> QED
  BY <1>1, <1>2, <1>3, <1>4, StateWaits

LEMMA ProcessInWaits ==
  ASSUME WaitInv, ScheduleProcessIn, proc' # proc
  PROVE  \E p \in Proc : p = Head(ready).id /\ WaitStep(p)
<1>1. /\ kpc = "in" /\ kpc' = "idle" /\ ready # <<>>
      /\ proc' = [proc EXCEPT ![Head(ready).id].state = "RUNNING"]
      /\ UNCHANGED <<timeoutQ, waitq, mode, count, started>>
  BY DEF ScheduleProcessIn, StartCallback, StartHandler, Dispatch, MayDispatch, NothingToStart, Switch, queues, partition
<1>2. PICK p \in Proc : p = Head(ready).id /\ p \in Ids(ready)
  <2>1. ready \in DistinctQueue
    BY DEF WaitInv, DispatchInv, StatesInv, TypeInv, QueuesOK
  <2> QED BY <1>1, <2>1, QueueIds
<1>3. proc[p].state # "DORMANT"
  BY <1>2, PlaceOf DEF WaitInv, DispatchInv
<1>4. Stage(p)
  BY <1>1 DEF Stage
<1> QED
  BY <1>1, <1>2, <1>3, <1>4, StateWaits

LEMMA DeadlineWaits ==
  ASSUME WaitInv, Deadline
  PROVE  (\E p \in Proc : p = Head(deadlineQ).id /\ WaitStep(p)) \/ \E m : LeaveMode(m)
<1> SUFFICES ASSUME ~ \E m : LeaveMode(m) PROVE \E p \in Proc : p = Head(deadlineQ).id /\ WaitStep(p)
  OBVIOUS
<1>1. /\ kpc = "deadlines" /\ kpc' = kpc /\ deadlineQ # <<>>
      /\ proc' = [proc EXCEPT ![Head(deadlineQ).id].deadline = Infinite]
      /\ UNCHANGED <<timeoutQ, waitq, mode, count, started>>
  BY DEF Deadline, Due, kernel, partition
<1>2. PICK p \in Proc : p = Head(deadlineQ).id /\ proc \in Table
  <2>1. deadlineQ \in DistinctQueue /\ proc \in Table
    BY ProcTypes DEF WaitInv, DispatchInv, StatesInv, TypeInv, QueuesOK
  <2> QED BY <1>1, <2>1, QueueIds
<1>3. /\ proc'[p].state = proc[p].state /\ proc'[p].tail = proc[p].tail /\ proc'[p].granted = proc[p].granted
      /\ proc'[p].woken = proc[p].woken /\ proc'[p].suspended = proc[p].suspended
      /\ \A q \in Proc \ {p} : proc'[q] = proc[q]
  BY <1>1, <1>2 DEF Table, ProcessInfo
<1>4. Stage(p) /\ Others(p) /\ Unmoved(p)
  BY <1>1, <1>3 DEF Stage, Others, Unmoved
<1>5. ASSUME mode' = "NORMAL" PROVE HasReason(p)'
  <2>1. HasReason(p)
    BY <1>1, <1>2, <1>5 DEF WaitInv, Reasons
  <2>2. (Times(p)' <=> Times(p)) /\ (Awaits(p)' <=> Awaits(p))
    BY <1>1 DEF Times, Awaits
  <2> QED BY <1>1, <1>3, <2>1, <2>2 DEF HasReason
<1>6. WaitStep(p)
  BY <1>4, <1>5 DEF WaitStep
<1> QED
  BY <1>2, <1>6


-----------------------------------------------------------------------------
(* The steps without a wait, and the end of all.                           *)

NoWaitStep ==
  /\ UNCHANGED <<proc, timeoutQ, waitq, mode, count, started>>
  /\ kpc' = "starting" <=> kpc = "starting"

LEMMA ModeWaits ==
  ASSUME NEW m, LeaveMode(m), kpc # "starting"
  PROVE  Reinitialize \/ NoWaitStep
BY DEF LeaveMode, GoIdle, Restart, Wiped, NoWaitStep, queues, partition

LEMMA QuietWaits ==
  ASSUME \/ LOCK_PREEMPTION \/ UNLOCK_PREEMPTION \/ CREATE_ERROR_HANDLER \/ GET_ERROR_STATUS
         \/ \E r \in Resource : CREATE_RESOURCE(r)
         \/ HandleEvents \/ TimeoutsDone \/ DeadlinesDone \/ KeepPartition \/ SchedulePartitionOut
         \/ EnterPartition \/ StayOut \/ TICK \/ OtherYields
         \/ (StopErrorHandler \/ ScheduleProcessOut \/ ScheduleProcessIn) /\ proc' = proc
  PROVE  NoWaitStep
<1> USE DEF queues, partition, kernel, NoWaitStep
<1>1. CASE LOCK_PREEMPTION \/ UNLOCK_PREEMPTION \/ CREATE_ERROR_HANDLER \/ GET_ERROR_STATUS
           \/ (\E r \in Resource : CREATE_RESOURCE(r)) \/ TICK
  BY <1>1 DEF LOCK_PREEMPTION, UNLOCK_PREEMPTION, CREATE_ERROR_HANDLER, GET_ERROR_STATUS, CREATE_RESOURCE, TICK,
              Call, AtRest, YieldIf, Yield
<1>2. CASE HandleEvents \/ TimeoutsDone \/ DeadlinesDone \/ KeepPartition \/ SchedulePartitionOut
           \/ EnterPartition \/ StayOut \/ OtherYields
  BY <1>2 DEF HandleEvents, TimeoutsDone, DeadlinesDone, KeepPartition, SchedulePartitionOut,
              EnterPartition, StayOut, OtherYields
<1>3. CASE StopErrorHandler /\ proc' = proc
  BY <1>3 DEF StopErrorHandler, Call, AtRest, Yield
<1>4. CASE ScheduleProcessOut /\ proc' = proc
  BY <1>4 DEF ScheduleProcessOut, AfterOut
<1>5. CASE ScheduleProcessIn /\ proc' = proc
  BY <1>5 DEF ScheduleProcessIn, StartCallback, StartHandler, Dispatch, NothingToStart, Switch
<1> QED
  BY <1>1, <1>2, <1>3, <1>4, <1>5

LEMMA ErrorWaits ==
  ASSUME RAISE_APPLICATION_ERROR \/ CallbackReturns
  PROVE  Reinitialize \/ NoWaitStep
<1>1. kpc = "idle"
  BY DEF RAISE_APPLICATION_ERROR, CallbackReturns, Call, AtRest
<1>2. CASE \E m : LeaveMode(m)
  BY <1>1, <1>2, ModeWaits
<1>3. CASE UNCHANGED <<proc, queues, partition>> /\ Yield
  BY <1>1, <1>3 DEF NoWaitStep, queues, partition, Yield
<1> QED
  BY <1>2, <1>3 DEF RAISE_APPLICATION_ERROR, CallbackReturns

LEMMA StepsWait ==
  ASSUME WaitInv, Next
  PROVE  \/ \E p \in Proc : WaitStep(p)
         \/ Reinitialize \/ NoWaitStep \/ SetNormalMode \/ StartDone
<1> SUFFICES ASSUME ~ Reinitialize, ~ NoWaitStep, ~ SetNormalMode, ~ StartDone
             PROVE  \E p \in Proc : WaitStep(p)
  OBVIOUS
<1>1. ASSUME Services PROVE \E p \in Proc : WaitStep(p)
  <2>1. CASE CREATE_PROCESS
    BY <2>1, CreateProcessWaits
  <2>2. CASE StopErrorHandler
    BY <2>2, QuietWaits, StopHandlerWaits
  <2>3. CASE STOP_SELF
    <3>1. PICK p \in Proc : p = current
      BY <2>3, CallerRuns DEF STOP_SELF
    <3> QED BY <2>3, <3>1, StopSelfWaits
  <2>4. CASE PERIODIC_WAIT
    <3>1. PICK p \in Proc : p = current
      BY <2>4, CallerRuns DEF PERIODIC_WAIT, MayBlock
    <3> QED BY <2>4, <3>1, PeriodicWaitWaits
  <2>5. ASSUME (\E t \in TimeOuts : SUSPEND_SELF(t)) \/ \E b \in Budgets : REPLENISH(b)
        PROVE  \E p \in Proc : WaitStep(p)
    <3>1. PICK p \in Proc : p = current
      BY <2>5, CallerRuns DEF SUSPEND_SELF, REPLENISH, MayBlock
    <3> QED BY <2>5, <3>1, SuspendSelfWaits, ReplenishWaits
  <2>6. ASSUME NEW d \in Delays, TIMED_WAIT(d) PROVE \E p \in Proc : WaitStep(p)
    <3>1. PICK p \in Proc : p = current
      BY <2>6, CallerRuns DEF TIMED_WAIT, MayBlock
    <3> QED BY <2>6, <3>1, TimedWaitWaits
  <2>7. ASSUME NEW p \in Proc,
               \/ SUSPEND(p) \/ RESUME(p) \/ STOP(p)
               \/ \E d \in Delays : DELAYED_START(p, d)
               \/ \E prio \in Priorities : SET_PRIORITY(p, prio)
        PROVE  \E x \in Proc : WaitStep(x)
    BY <2>7, SuspendWaits, ResumeWaits, StopWaits, DelayedStartWaits, SetPriorityWaits
  <2>8. ASSUME NEW m, SetStartMode(m) PROVE FALSE
    BY <2>8, ModeWaits DEF SetStartMode, Call, AtRest
  <2>9. ~ RAISE_APPLICATION_ERROR
    BY ErrorWaits
  <2>10. ~ (LOCK_PREEMPTION \/ UNLOCK_PREEMPTION \/ CREATE_ERROR_HANDLER \/ GET_ERROR_STATUS)
    BY QuietWaits
  <2> QED BY <1>1, <2>1, <2>2, <2>3, <2>4, <2>5, <2>6, <2>7, <2>8, <2>9, <2>10 DEF Services
<1>2. ASSUME Scheduler PROVE \E p \in Proc : WaitStep(p)
  <2>1. CASE StartNext
    <3>1. started \in Nat /\ count \in Nat /\ count <= Len(Order) /\ started < count
      BY <2>1, ConstantTypes DEF StartNext, WaitInv, DispatchInv, StatesInv, TypeInv, TypeOK
    <3>2. PICK p \in Proc : p = Order[started + 1]
      BY <3>1, ConstantTypes
    <3> QED BY <2>1, <3>2, StartNextWaits
  <2>2. CASE Timeout
    BY <2>2, TimeoutWaits
  <2>3. CASE Deadline
    <3>1. ~ \E m : LeaveMode(m)
      BY <2>3, ModeWaits DEF Deadline
    <3> QED BY <2>3, <3>1, DeadlineWaits
  <2>4. CASE ScheduleProcessOut \/ ScheduleProcessIn
    BY <2>4, QuietWaits, ProcessOutWaits, ProcessInWaits
  <2>5. ~ (HandleEvents \/ TimeoutsDone \/ DeadlinesDone \/ KeepPartition \/ SchedulePartitionOut
           \/ EnterPartition \/ StayOut)
    BY QuietWaits
  <2> QED BY <1>2, <2>1, <2>2, <2>3, <2>4, <2>5 DEF Scheduler
<1>3. ASSUME ResourceServices PROVE \E p \in Proc : WaitStep(p)
  <2>1. PICK r \in Resource :
          \/ \E t \in TimeOuts : Call("WAIT_RESOURCE") /\ WAIT_RESOURCE(r, t)
          \/ kpc = "idle" /\ \E b \in BOOLEAN : SIGNAL_RESOURCE(r, b)
    BY <1>3 DEF ResourceServices, WaitInv, DispatchInv, StatesInv, TypeInv, TypeOK, Call, AtRest
  <2>2. ASSUME NEW t \in TimeOuts, Call("WAIT_RESOURCE"), WAIT_RESOURCE(r, t) PROVE \E p \in Proc : WaitStep(p)
    <3>1. PICK p \in Proc : p = current
      BY <2>2, CallerRuns DEF WAIT_RESOURCE, MayBlock
    <3> QED BY <2>2, <3>1, WaitResourceWaits
  <2> QED BY <2>1, <2>2, SignalWaits
<1>4. ASSUME Continues PROVE \E p \in Proc : WaitStep(p)
  BY <1>4, ContinueWaits DEF Continues
<1>5. ~ (CallbackReturns \/ TICK \/ OtherYields \/ \E r \in Resource : CREATE_RESOURCE(r))
  BY QuietWaits, ErrorWaits
<1> QED
  BY <1>1, <1>2, <1>3, <1>4, <1>5 DEF Next, Internal

LEMMA WaitInvInductive ==
  ASSUME HmCallback = FALSE
  PROVE  /\ Init => WaitInv
         /\ WaitInv /\ [Next]_vars /\ [kpc = "deadlines" => mode' \in {mode, "IDLE"}]_vars => WaitInv'
<1>1. ASSUME Init PROVE WaitInv
  <2>1. Reasons /\ Answers
    BY <1>1, QueueIds DEF Init, Blank, Reasons, Answers, Answer, HasReason, Awaits, Times
  <2> QED BY <1>1, <2>1, DispatchInvInductive DEF WaitInv
<1>2. ASSUME WaitInv, [Next]_vars, [kpc = "deadlines" => mode' \in {mode, "IDLE"}]_vars
      PROVE  WaitInv'
  <2>1. DispatchInv'
    BY <1>2, DispatchInvInductive DEF WaitInv
  <2>2. DispatchInv /\ StatesInv /\ Reasons /\ Answers
    BY <1>2 DEF WaitInv, DispatchInv
  <2>3. CASE NoWaitStep
    <3>1. ASSUME NEW p \in Proc
          PROVE  /\ proc'[p] = proc[p] /\ (Awaits(p)' <=> Awaits(p)) /\ (Times(p)' <=> Times(p))
                 /\ Answer(p)' /\ (HasReason(p) => HasReason(p)')
      BY <2>2, <2>3 DEF NoWaitStep, Answers, Answer, HasReason, Awaits, Times
    <3>2. Answers'
      BY <3>1 DEF Answers
    <3>3. Reasons'
      BY <2>2, <2>3, <3>1 DEF Reasons, NoWaitStep
    <3> QED BY <2>1, <3>2, <3>3 DEF WaitInv
  <2>4. CASE Reinitialize
    <3>1. \A p \in Proc : proc'[p].state = "DORMANT"
      BY <2>4 DEF Reinitialize, Blank
    <3>2. Answers' /\ Reasons'
      BY <3>1 DEF Reasons, Answers, Answer, HasReason
    <3> QED BY <2>1, <3>2 DEF WaitInv
  <2>5. CASE SetNormalMode
    <3>1. /\ UNCHANGED <<proc, timeoutQ, waitq, count>> /\ mode # "NORMAL" /\ mode' = "NORMAL" /\ started' = 0
          /\ kpc' = IF count = 0 THEN "idle" ELSE "starting"
      BY <2>5 DEF SetNormalMode, queues
    <3>2. count \in Nat
      BY <2>2, ConstantTypes DEF StatesInv, TypeInv, TypeOK
    <3>3. Answers'
      BY <2>2, <3>1 DEF Answers, Answer, Awaits, Times
    <3>4. \A p \in Proc : proc[p].state = "WAITING" => \E i \in 1..count : p = Order[i]
      BY <2>2, PlaceOf DEF Created
    <3>5. (\A p \in Proc : HasReason(p))'
      BY <3>1, <3>2, <3>4 DEF HasReason
    <3> QED BY <2>1, <3>3, <3>5 DEF WaitInv, Reasons
  <2>6. CASE StartDone
    <3>1. /\ UNCHANGED <<proc, timeoutQ, waitq, mode, count, started>> /\ started = count
          /\ kpc = "starting" /\ kpc' = "events"
      BY <2>6 DEF StartDone, queues, partition, Yield
    <3>2. count \in Nat
      BY <2>2, ConstantTypes DEF StatesInv, TypeInv, TypeOK
    <3> QED BY <2>1, <2>2, <3>1, <3>2 DEF WaitInv, Reasons, Answers, Answer, HasReason, Awaits, Times
  <2>7. CASE UNCHANGED vars
    BY <2>3, <2>7 DEF vars, queues, partition, kernel, NoWaitStep
  <2> QED BY <1>2, <2>1, <2>3, <2>4, <2>5, <2>6, <2>7, StepsWait, WaitStepKeeps DEF WaitInv
<1> QED
  BY <1>1, <1>2

\* WaitingHasReason: no wake-up is lost. In a partition without a callback, as long
\* as no missed deadline restarts it from inside SCHEDULER, every process that is
\* WAITING has a time-out pending, is in the queue of a resource or is suspended,
\* in whatever order time-outs, signals, SUSPEND and RESUME come.
THEOREM WaitsCanEnd ==
  ASSUME HmCallback = FALSE
  PROVE  Spec /\ NoRestartInPass => []WaitingHasReason
<1>1. WaitInv => WaitingHasReason
  BY EnqueuedIsInIds DEF WaitInv, Reasons, HasReason, Times, Awaits, WaitingHasReason, InSomeWaitq
<1> QED
  BY <1>1, WaitInvInductive, PTL DEF Spec, NoRestartInPass

\* GrantXorTimeout: who comes back from a wait for a resource was either signalled
\* or timed out, never both and never neither, under the same hypotheses.
THEOREM WaitsEndOnce ==
  ASSUME HmCallback = FALSE
  PROVE  Spec /\ NoRestartInPass => []GrantXorTimeout
<1>1. WaitInv => GrantXorTimeout
  <2> SUFFICES ASSUME WaitInv, NEW p \in Proc, Runnable(p)
               PROVE  /\ proc[p].tail = "resource" => (proc[p].granted <=> ~ proc[p].woken)
                      /\ proc[p].tail = "ever" => proc[p].granted
    BY DEF GrantXorTimeout
  <2>1. StatesInv /\ Answer(p)
    BY DEF WaitInv, DispatchInv, Answers
  <2>2. ~ Awaits(p) /\ proc[p].state # "DORMANT"
    BY <2>1, PlaceOf DEF Awaits, Runnable
  <2> QED BY <2>1, <2>2 DEF Answer
<1> QED
  BY <1>1, WaitInvInductive, PTL DEF Spec, NoRestartInPass

-----------------------------------------------------------------------------
(* Processes implements WaitQueues: the kinds of steps above are its       *)
(* actions. The queues as it sees them, without their keys:                *)

View(q) == [i \in DOMAIN q |-> q[i].id]

LEMMA ViewOf ==
  ASSUME NEW q \in Queue
  PROVE  /\ View(q) \in Seq(Proc) /\ Len(View(q)) = Len(q) /\ DOMAIN View(q) = 1..Len(q)
         /\ \A i \in 1..Len(q) : View(q)[i] = q[i].id
         /\ Len(q) \in Nat /\ DOMAIN q = 1..Len(q) /\ \A i \in 1..Len(q) : q[i] \in Entry(Proc)
<1>1. Len(q) \in Nat /\ DOMAIN q = 1..Len(q) /\ \A i \in 1..Len(q) : q[i] \in Entry(Proc)
  BY DEF Queue
<1>2. \A i \in 1..Len(q) : q[i].id \in Proc
  BY <1>1 DEF Entry
<1> QED
  BY <1>1, <1>2 DEF View

LEMMA ViewDequeue ==
  ASSUME NEW q \in DistinctQueue, NEW p
  PROVE  View(Dequeue(q, p)) = Waiting!Without(View(q), p)
<1> DEFINE v == View(q)
<1>1. q \in Queue /\ DistinctIds(q)
  BY DEF DistinctQueue
<1>2. /\ DOMAIN v = 1..Len(q) /\ Len(v) = Len(q) /\ Len(q) \in Nat /\ DOMAIN q = 1..Len(q)
      /\ \A i \in 1..Len(q) : v[i] = q[i].id
  BY <1>1, ViewOf
<1>3. Enqueued(q, p) <=> \E i \in DOMAIN v : v[i] = p
  BY <1>2 DEF Enqueued
<1>4. CASE ~ Enqueued(q, p)
  BY <1>3, <1>4 DEF Dequeue, Waiting!Without
<1>5. CASE Enqueued(q, p)
  <2>1. PICK k \in 1..Len(q) : k = IndexOf(q, p) /\ q[k].id = p
    BY <1>1, <1>5, DequeueType DEF Queue
  <2>2. \A i \in 1..Len(q) : q[i].id = p => i = k
    BY <1>1, <1>2, <2>1 DEF DistinctIds
  <2>3. (CHOOSE i \in DOMAIN v : v[i] = p) = k
    BY <1>2, <2>1, <2>2
  <2>4. Waiting!Without(v, p) = [i \in 1..(Len(q) - 1) |-> IF i < k THEN v[i] ELSE v[i + 1]]
    BY <1>2, <1>3, <1>5, <2>3 DEF Waiting!Without
  <2>5. Dequeue(q, p) = [i \in 1..(Len(q) - 1) |-> IF i < k THEN q[i] ELSE q[i + 1]]
    BY <1>5, <2>1 DEF Dequeue
  <2>6. View(Dequeue(q, p)) = [i \in 1..(Len(q) - 1) |-> (IF i < k THEN q[i] ELSE q[i + 1]).id]
    BY <2>5 DEF View
  <2>7. \A i \in 1..(Len(q) - 1) : (IF i < k THEN q[i] ELSE q[i + 1]).id = IF i < k THEN v[i] ELSE v[i + 1]
    BY <1>2, <2>1
  <2> HIDE DEF v
  <2> QED BY <2>4, <2>6, <2>7 DEF v
<1> QED
  BY <1>4, <1>5

\* Under FIFO all entries have one key, which puts a new one at the end.
OneKey(q) == \A i \in DOMAIN q : q[i].pri = MinPriority

LEMMA ViewEnqueue ==
  ASSUME NEW q \in DistinctQueue, NEW p \in Proc, NEW key \in Int, p \notin Ids(q)
  PROVE  \E k \in 1..(Len(View(q)) + 1) :
           /\ View(Enqueue(q, FALSE, p, key)) = Waiting!With(View(q), k, p)
           /\ OneKey(q) /\ key = MinPriority => k = Len(View(q)) + 1
<1> DEFINE v == View(q)
           e == [id |-> p, pri |-> key]
<1>1. q \in Queue /\ ~ Enqueued(q, p) /\ e \in Entry(Proc)
  BY EnqueuedIsInIds DEF DistinctQueue, Entry
<1>2. /\ DOMAIN v = 1..Len(q) /\ Len(v) = Len(q) /\ Len(q) \in Nat /\ DOMAIN q = 1..Len(q)
      /\ \A i \in 1..Len(q) : v[i] = q[i].id /\ q[i] \in Entry(Proc)
  BY <1>1, ViewOf
<1>3. PICK k \in 1..(Len(q) + 1) :
        /\ k = Position(q, FALSE, key)
        /\ k <= Len(q) => Before(FALSE, key, q[k].pri)
  BY <1>1, PositionFound DEF Queue
<1>4. Enqueue(q, FALSE, p, key) = Insert(q, k, e)
  BY <1>1, <1>3 DEF Enqueue
<1>5. View(Insert(q, k, e)) =
        [i \in 1..(Len(q) + 1) |-> (IF i < k THEN q[i] ELSE IF i = k THEN e ELSE q[i - 1]).id]
  BY DEF View, Insert
<1>6. \A i \in 1..(Len(q) + 1) : (IF i < k THEN q[i] ELSE IF i = k THEN e ELSE q[i - 1]).id
                                  = IF i < k THEN v[i] ELSE IF i = k THEN p ELSE v[i - 1]
  <2> SUFFICES ASSUME NEW i \in 1..(Len(q) + 1)
               PROVE  (IF i < k THEN q[i] ELSE IF i = k THEN e ELSE q[i - 1]).id
                      = IF i < k THEN v[i] ELSE IF i = k THEN p ELSE v[i - 1]
    OBVIOUS
  <2>1. e.id = p
    OBVIOUS
  <2>2. Len(q) \in Nat
    BY <1>2
  <2>3. (i < k => i \in 1..Len(q)) /\ (~ (i < k) /\ i # k => i - 1 \in 1..Len(q))
    BY <2>2
  <2> HIDE DEF v, e
  <2> QED BY <1>2, <2>1, <2>2, <2>3
<1>7. Waiting!With(v, k, p) =
        [i \in 1..(Len(q) + 1) |-> IF i < k THEN v[i] ELSE IF i = k THEN p ELSE v[i - 1]]
  BY <1>2 DEF Waiting!With
<1>8. OneKey(q) /\ key = MinPriority => k = Len(q) + 1
  <2> SUFFICES ASSUME OneKey(q), key = MinPriority, k # Len(q) + 1 PROVE FALSE
    OBVIOUS
  <2>1. Len(q) \in Nat
    BY <1>2
  <2>2. k <= Len(q) /\ k \in 1..Len(q)
    BY <2>1
  <2>3. q[k].pri = MinPriority
    BY <1>2, <2>2 DEF OneKey
  <2> QED BY <1>3, <2>2, <2>3 DEF Before, MinPriority
<1> HIDE DEF v, e
<1>9. View(Enqueue(q, FALSE, p, key)) = Waiting!With(v, k, p)
  BY <1>4, <1>5, <1>6, <1>7
<1> QED
  BY <1>2, <1>3, <1>8, <1>9 DEF v

LEMMA ViewHead ==
  ASSUME NEW q \in DistinctQueue, q # <<>>, NEW p, p = Head(q).id
  PROVE  /\ View(q) # <<>> /\ Head(View(q)) = p
         /\ View(Dequeue(q, p)) = Tail(View(q))
<1> DEFINE v == View(q)
<1>1. q \in Queue /\ DistinctIds(q)
  BY DEF DistinctQueue
<1>2. /\ DOMAIN v = 1..Len(q) /\ Len(v) = Len(q) /\ Len(q) \in Nat /\ DOMAIN q = 1..Len(q)
      /\ \A i \in 1..Len(q) : v[i] = q[i].id
      /\ v \in Seq(Proc)
  BY <1>1, ViewOf
<1>3. 1 \in 1..Len(q) /\ q[1].id = p
  BY <1>1, <1>2 DEF Queue
<1>4. \A i \in DOMAIN v : v[i] = p => i = 1
  BY <1>1, <1>2, <1>3 DEF DistinctIds
<1>5. (CHOOSE i \in DOMAIN v : v[i] = p) = 1 /\ \E i \in DOMAIN v : v[i] = p
  BY <1>2, <1>3, <1>4
<1>6. Waiting!Without(v, p) = [i \in 1..(Len(v) - 1) |-> IF i < 1 THEN v[i] ELSE v[i + 1]]
  BY <1>5 DEF Waiting!Without
<1>7. \A i \in 1..(Len(v) - 1) : (IF i < 1 THEN v[i] ELSE v[i + 1]) = v[i + 1]
  BY <1>2
<1>8. Tail(v) = [i \in 1..(Len(v) - 1) |-> v[i + 1]]
  <2>1. v # <<>> /\ v \in Seq(Proc)
    BY <1>2, <1>3
  <2> HIDE DEF v
  <2>2. Tail(v) \in Seq(Proc) /\ Len(Tail(v)) = Len(v) - 1 /\ \A i \in 1..Len(Tail(v)) : Tail(v)[i] = v[i + 1]
    BY <2>1
  <2>3. ASSUME NEW t \in Seq(Proc) PROVE DOMAIN t = 1..Len(t) /\ t = [i \in DOMAIN t |-> t[i]]
    OBVIOUS
  <2> QED BY <2>2, <2>3
<1>9. Head(v) = p /\ v # <<>>
  BY <1>2, <1>3
<1>10. View(Dequeue(q, p)) = Waiting!Without(v, p)
  BY ViewDequeue
<1> HIDE DEF v
<1>11. View(Dequeue(q, p)) = Tail(v)
  BY <1>6, <1>7, <1>8, <1>10
<1> QED
  BY <1>9, <1>11 DEF v

\* Processes as WaitQueues sees it.
Seen == [r \in Resource |-> View(waitq[r])]
Held == [p \in Proc |-> WaitState(p)]

LEMMA ActionsSeen ==
  /\ \A p \in Proc, r \in Resource, kind \in {"ever", "timed"} :
       /\ Held[p] = "none" /\ Held' = [Held EXCEPT ![p] = kind]
       /\ \E k \in Waiting!Places(r, Seen[r]) : Seen' = [Seen EXCEPT ![r] = Waiting!With(Seen[r], k, p)]
       => Waiting!WaitNext
  /\ \A r \in Resource :
       /\ Seen[r] # <<>> /\ Held' = [Held EXCEPT ![Head(Seen[r])] = "granted"]
       /\ Seen' = [Seen EXCEPT ![r] = Tail(Seen[r])]
       => Waiting!WaitNext
  /\ \A p \in Proc :
       /\ Held[p] = "timed" /\ Held' = [Held EXCEPT ![p] = "expired"]
       /\ Seen' = [r \in Resource |-> Waiting!Without(Seen[r], p)]
       => Waiting!WaitNext
  /\ \A p \in Proc :
       Held[p] \in {"granted", "expired"} /\ Held' = [Held EXCEPT ![p] = "none"] /\ Seen' = Seen
       => Waiting!WaitNext
  /\ \A p \in Proc :
       /\ Held' = [Held EXCEPT ![p] = "none"]
       /\ Seen' = [r \in Resource |-> Waiting!Without(Seen[r], p)]
       => Waiting!WaitNext
  /\ \A p \in Proc, r \in Resource :
       /\ r \notin Fifo /\ (\E i \in DOMAIN Seen[r] : Seen[r][i] = p) /\ Held' = Held
       /\ \E k \in 1..Len(Seen[r]) :
            Seen' = [Seen EXCEPT ![r] = Waiting!With(Waiting!Without(Seen[r], p), k, p)]
       => Waiting!WaitNext
  /\ Held' = [p \in Proc |-> "none"] /\ Seen' = [r \in Resource |-> <<>>] => Waiting!WaitNext
<1> USE DEF Seen, Held, View
<1>1. ASSUME NEW p \in Proc, NEW r \in Resource, NEW kind,
             Held[p] = "none", kind \in {"ever", "timed"}, Held' = [Held EXCEPT ![p] = kind],
             NEW k \in Waiting!Places(r, Seen[r]), Seen' = [Seen EXCEPT ![r] = Waiting!With(Seen[r], k, p)]
      PROVE  Waiting!Wait(p, r, kind)
  BY <1>1 DEF Waiting!Wait
<1>2. ASSUME NEW r \in Resource, Seen[r] # <<>>, Held' = [Held EXCEPT ![Head(Seen[r])] = "granted"],
             Seen' = [Seen EXCEPT ![r] = Tail(Seen[r])]
      PROVE  Waiting!Signal(r)
  BY <1>2 DEF Waiting!Signal
<1>3. ASSUME NEW p \in Proc, Held[p] = "timed", Held' = [Held EXCEPT ![p] = "expired"],
             Seen' = [r \in Resource |-> Waiting!Without(Seen[r], p)]
      PROVE  Waiting!Expire(p)
  BY <1>3 DEF Waiting!Expire
<1>4. ASSUME NEW p \in Proc, Held[p] \in {"granted", "expired"}, Held' = [Held EXCEPT ![p] = "none"], Seen' = Seen
      PROVE  Waiting!Return(p)
  BY <1>4 DEF Waiting!Return, Waiting!Answers
<1>5. ASSUME NEW p \in Proc, Held' = [Held EXCEPT ![p] = "none"],
             Seen' = [r \in Resource |-> Waiting!Without(Seen[r], p)]
      PROVE  Waiting!Stop(p)
  BY <1>5 DEF Waiting!Stop
<1>6. ASSUME NEW p \in Proc, NEW r \in Resource, r \notin Fifo, \E i \in DOMAIN Seen[r] : Seen[r][i] = p,
             Held' = Held, NEW k \in 1..Len(Seen[r]),
             Seen' = [Seen EXCEPT ![r] = Waiting!With(Waiting!Without(Seen[r], p), k, p)]
      PROVE  Waiting!Move(p, r)
  BY <1>6 DEF Waiting!Move, Waiting!InQueue
<1>7. ASSUME Held' = [p \in Proc |-> "none"], Seen' = [r \in Resource |-> <<>>]
      PROVE  Waiting!StopAll(Proc, Resource)
  BY <1>7 DEF Waiting!StopAll
<1> HIDE DEF Seen, Held, View
<1> QED
  BY <1>1, <1>2, <1>3, <1>4, <1>5, <1>6, <1>7 DEF Waiting!WaitNext, Waiting!Waits

\* Where p is with its wait, and who else is where he was.
LEMMA HeldIs ==
  ASSUME NEW p \in Proc
  PROVE  /\ WaitState(p) =
              IF proc[p].state = "DORMANT" \/ proc[p].tail \notin {"resource", "ever"} THEN "none"
              ELSE IF Awaits(p) THEN (IF proc[p].tail = "ever" THEN "ever" ELSE "timed")
              ELSE IF proc[p].tail = "resource" /\ proc[p].woken THEN "expired" ELSE "granted"
         /\ WaitState(p)' =
              IF proc'[p].state = "DORMANT" \/ proc'[p].tail \notin {"resource", "ever"} THEN "none"
              ELSE IF Awaits(p)' THEN (IF proc'[p].tail = "ever" THEN "ever" ELSE "timed")
              ELSE IF proc'[p].tail = "resource" /\ proc'[p].woken THEN "expired" ELSE "granted"
<1>1. InSomeWaitq(p) <=> Awaits(p)
  BY EnqueuedIsInIds DEF InSomeWaitq, Awaits
<1>2. InSomeWaitq(p)' <=> Awaits(p)'
  BY EnqueuedIsInIds DEF InSomeWaitq, Awaits
<1> QED
  BY <1>1, <1>2 DEF WaitState

LEMMA OneHeld ==
  ASSUME NEW p \in Proc, Others(p), SameWaits(Proc \ {p})
  PROVE  Held' = [Held EXCEPT ![p] = WaitState(p)']
<1>1. ASSUME NEW q \in Proc \ {p} PROVE WaitState(q)' = WaitState(q)
  <2>1. proc'[q] = proc[q] /\ (Awaits(q)' <=> Awaits(q))
    BY DEF Others, SameWaits
  <2> QED BY <2>1, HeldIs
<1>2. Held' = [q \in Proc |-> WaitState(q)'] /\ Held = [q \in Proc |-> WaitState(q)]
  BY DEF Held
<1> QED
  BY <1>1, <1>2

\* What each kind of step does to the queues.
FifoKeys == \A r \in Fifo : OneKey(waitq[r])

LEMMA KeysKept ==
  ASSUME NEW q \in DistinctQueue, OneKey(q), NEW p \in Proc
  PROVE  /\ OneKey(Dequeue(q, p))
         /\ p \notin Ids(q) => OneKey(Enqueue(q, FALSE, p, MinPriority))
<1>1. q \in Seq(Entry(Proc)) /\ DistinctIds(q) /\ (Enqueued(q, p) <=> p \in Ids(q)) /\ MinPriority \in Int
  BY EnqueuedIsInIds DEF DistinctQueue, Queue, MinPriority
<1>2. \A s : OneKey(s) <=> \A e \in Entries(s) : e.pri = MinPriority
  BY DEF OneKey, Entries
<1>3. OneKey(Dequeue(q, p))
  BY <1>1, <1>2, DequeueEntries
<1>4. ASSUME p \notin Ids(q) PROVE OneKey(Enqueue(q, FALSE, p, MinPriority))
  <2>1. \A ascending : Entries(Enqueue(q, ascending, p, MinPriority))
                         = Entries(q) \cup {[id |-> p, pri |-> MinPriority]}
    BY <1>1, <1>4, EnqueueEntries
  <2>2. PICK t : t = Enqueue(q, FALSE, p, MinPriority)
    OBVIOUS
  <2>3. Entries(t) = Entries(q) \cup {[id |-> p, pri |-> MinPriority]}
    BY <2>1, <2>2
  <2>4. \A e \in Entries(t) : e.pri = MinPriority
    BY <1>2, <2>3
  <2> QED BY <1>2, <2>2, <2>4
<1> QED
  BY <1>3, <1>4

LEMMA NoneSeen ==
  ASSUME StatesInv, FifoKeys, NEW p \in Proc, NoneWait(p)
  PROVE  FifoKeys' /\ Seen' = [r \in Resource |-> Waiting!Without(Seen[r], p)]
<1>1. waitq \in [Resource -> DistinctQueue] /\ Fifo \subseteq Resource
  BY QueueOps, ProcessesAssumption
<1>2. \A r \in Resource : View(Dequeue(waitq[r], p)) = Waiting!Without(View(waitq[r]), p)
  BY <1>1, ViewDequeue
<1>3. FifoKeys'
  BY <1>1, KeysKept DEF NoneWait, FifoKeys
<1> QED
  BY <1>2, <1>3 DEF NoneWait, Seen

LEMMA EntersSeen ==
  ASSUME StatesInv, FifoKeys, NEW p \in Proc, NEW r \in Resource, Enters(p, r)
  PROVE  /\ FifoKeys'
         /\ \E k \in Waiting!Places(r, Seen[r]) : Seen' = [Seen EXCEPT ![r] = Waiting!With(Seen[r], k, p)]
<1>1. waitq \in [Resource -> DistinctQueue] /\ Fifo \subseteq Resource
  BY QueueOps, ProcessesAssumption
<1>2. p \notin Ids(waitq[r]) /\ proc[p].prio \in Int
  BY PlaceOf DEF Enters
<1>3. PICK key \in Int : key = IF r \in Fifo THEN MinPriority ELSE proc[p].prio
  BY <1>2 DEF MinPriority
<1>4. waitq' = [waitq EXCEPT ![r] = Enqueue(waitq[r], FALSE, p, key)]
  BY <1>3 DEF Enters
<1>5. PICK k \in 1..(Len(View(waitq[r])) + 1) :
        /\ View(Enqueue(waitq[r], FALSE, p, key)) = Waiting!With(View(waitq[r]), k, p)
        /\ OneKey(waitq[r]) /\ key = MinPriority => k = Len(View(waitq[r])) + 1
  BY <1>1, <1>2, ViewEnqueue
<1>6. k \in Waiting!Places(r, Seen[r])
  BY <1>3, <1>5 DEF FifoKeys, Seen, Waiting!Places
<1>7. Seen' = [Seen EXCEPT ![r] = Waiting!With(Seen[r], k, p)]
  BY <1>1, <1>4, <1>5 DEF Seen
<1>8. FifoKeys'
  <2>1. r \in Fifo => OneKey(Enqueue(waitq[r], FALSE, p, key))
    BY <1>1, <1>2, <1>3, KeysKept DEF FifoKeys
  <2> QED BY <1>1, <1>4, <2>1 DEF FifoKeys
<1> QED
  BY <1>6, <1>7, <1>8

LEMMA GrantedSeen ==
  ASSUME StatesInv, FifoKeys, NEW p \in Proc, NEW r \in Resource, Granted(p, r)
  PROVE  /\ FifoKeys'
         /\ Seen[r] # <<>> /\ Head(Seen[r]) = p /\ Seen' = [Seen EXCEPT ![r] = Tail(Seen[r])]
<1>1. waitq \in [Resource -> DistinctQueue] /\ Fifo \subseteq Resource
  BY QueueOps, ProcessesAssumption
<1>2. waitq' = [waitq EXCEPT ![r] = Dequeue(waitq[r], p)] /\ waitq[r] # <<>> /\ p = Head(waitq[r]).id
  BY DEF Granted
<1>3. View(waitq[r]) # <<>> /\ Head(View(waitq[r])) = p /\ View(Dequeue(waitq[r], p)) = Tail(View(waitq[r]))
  BY <1>1, <1>2, ViewHead
<1>4. FifoKeys'
  BY <1>1, <1>2, KeysKept DEF FifoKeys
<1> QED
  BY <1>1, <1>2, <1>3, <1>4 DEF Seen

LEMMA MovesSeen ==
  ASSUME StatesInv, FifoKeys, NEW p \in Proc, NEW prio \in Int, Moves(p, prio)
  PROVE  /\ FifoKeys'
         /\ \/ Seen' = Seen
            \/ \E r \in Resource :
                 /\ r \notin Fifo /\ \E i \in DOMAIN Seen[r] : Seen[r][i] = p
                 /\ \E k \in 1..Len(Seen[r]) :
                      Seen' = [Seen EXCEPT ![r] = Waiting!With(Waiting!Without(Seen[r], p), k, p)]
<1>1. waitq \in [Resource -> DistinctQueue] /\ Fifo \subseteq Resource
  BY QueueOps, ProcessesAssumption
<1>2. waitq' = [r \in Resource |-> IF r \notin Fifo /\ Enqueued(waitq[r], p)
                                  THEN Enqueue(Dequeue(waitq[r], p), FALSE, p, prio) ELSE waitq[r]]
  BY DEF Moves
<1>3. FifoKeys'
  BY <1>1, <1>2 DEF FifoKeys
<1>4. CASE \A r \in Resource : r \in Fifo \/ ~ Enqueued(waitq[r], p)
  BY <1>1, <1>2, <1>3, <1>4 DEF Seen
<1>5. ASSUME NEW r \in Resource, r \notin Fifo, Enqueued(waitq[r], p)
      PROVE  /\ \E i \in DOMAIN Seen[r] : Seen[r][i] = p
             /\ \E k \in 1..Len(Seen[r]) :
                  Seen' = [Seen EXCEPT ![r] = Waiting!With(Waiting!Without(Seen[r], p), k, p)]
  <2>1. PICK q \in DistinctQueue : q = Dequeue(waitq[r], p)
    BY <1>1, DistinctTypes
  <2>2. p \notin Ids(q)
    BY <1>1, <2>1, QueueIds
  <2>3. PICK k \in 1..(Len(View(q)) + 1) : View(Enqueue(q, FALSE, p, prio)) = Waiting!With(View(q), k, p)
    BY <2>2, ViewEnqueue
  <2>4. View(q) = Waiting!Without(View(waitq[r]), p)
    BY <1>1, <2>1, ViewDequeue
  <2>5. Len(View(q)) + 1 = Len(View(waitq[r]))
    <3>1. waitq[r] \in Seq(Entry(Proc)) /\ waitq[r] \in Queue /\ q \in Queue
      BY <1>1 DEF DistinctQueue, Queue
    <3>2. Len(q) = Len(waitq[r]) - 1
      BY <1>5, <2>1, <3>1, DequeueType
    <3>3. Len(View(q)) = Len(q) /\ Len(View(waitq[r])) = Len(waitq[r]) /\ Len(waitq[r]) \in Nat
      BY <3>1, ViewOf
    <3> QED BY <3>2, <3>3
  <2>6. \A s \in Resource \ {r} : waitq'[s] = waitq[s]
    <3>1. \A s \in Resource \ {r} : ~ Enqueued(waitq[s], p)
      BY <1>5, PlaceOf, EnqueuedIsInIds
    <3> QED BY <1>2, <3>1
  <2>7. waitq'[r] = Enqueue(q, FALSE, p, prio)
    BY <1>2, <1>5, <2>1
  <2>8. Seen' = [Seen EXCEPT ![r] = Waiting!With(Waiting!Without(Seen[r], p), k, p)]
    BY <2>3, <2>4, <2>6, <2>7 DEF Seen
  <2>9. \E i \in DOMAIN Seen[r] : Seen[r][i] = p
    BY <1>5 DEF Enqueued, Seen, View
  <2> QED BY <2>3, <2>5, <2>8, <2>9 DEF Seen
<1> QED
  BY <1>3, <1>4, <1>5

LEMMA WaitStepSeen ==
  ASSUME WaitInv, FifoKeys, NEW p \in Proc, WaitStep(p)
  PROVE  FifoKeys' /\ (Waiting!WaitNext \/ (Seen' = Seen /\ Held' = Held))
<1>1. StatesInv /\ Answer(p) /\ Others(p) /\ SameWaits(Proc \ {p}) /\ Answer(p)'
  BY WaitAnswer DEF WaitInv, DispatchInv, Answers, WaitStep
<1>2. Held' = [Held EXCEPT ![p] = WaitState(p)'] /\ Held[p] = WaitState(p) /\ Held \in [Proc -> {WaitState(x) : x \in Proc}]
  BY <1>1, OneHeld DEF Held
<1>3. ASSUME waitq' = waitq PROVE FifoKeys' /\ Seen' = Seen
  BY <1>3 DEF FifoKeys, Seen
<1>4. ASSUME WaitState(p)' = WaitState(p) PROVE Held' = Held
  BY <1>2, <1>4
<1>5. CASE Unmoved(p)
  <2>1. waitq' = waitq /\ (Awaits(p)' <=> Awaits(p))
    BY <1>5, UnchangedWaits DEF Unmoved, SameWaits
  <2>2. WaitState(p)' = WaitState(p)
    BY <1>5, <2>1, HeldIs DEF Unmoved
  <2> QED BY <1>3, <1>4, <2>1, <2>2
<1>6. CASE Halts(p) \/ Begins(p)
  <2>1. NoneWait(p) /\ WaitState(p)' = "none"
    BY <1>6, HeldIs DEF Halts, Begins
  <2> QED BY <1>1, <1>2, <2>1, NoneSeen, ActionsSeen
<1>7. CASE Sleeps(p)
  <2>1. WaitState(p) = "none" /\ WaitState(p)' = "none" /\ waitq' = waitq
    BY <1>7, HeldIs DEF Sleeps
  <2> QED BY <1>3, <1>4, <2>1
<1>8. CASE Expires(p)
  <2>1. proc[p].state = "WAITING" /\ Times(p)
    BY <1>1, <1>8, PlaceOf DEF Expires, Times
  <2>2. NoneWait(p) /\ ~ Awaits(p)' /\ proc'[p].state # "DORMANT" /\ proc'[p].tail = proc[p].tail /\ proc'[p].woken
    BY <1>1, <1>8, NoneWaits DEF Expires
  <2>3. CASE proc[p].tail = "resource"
    <3>1. Awaits(p)
      BY <1>1, <2>1, <2>3 DEF Answer
    <3>2. WaitState(p) = "timed" /\ WaitState(p)' = "expired"
      BY <2>1, <2>2, <2>3, <3>1, HeldIs
    <3> QED BY <1>1, <1>2, <2>2, <3>2, NoneSeen, ActionsSeen
  <2>4. CASE proc[p].tail # "resource"
    <3>1. proc[p].tail # "ever"
      BY <1>1, <2>1 DEF Answer
    <3>2. WaitState(p)' = "none"
      BY <2>2, <2>4, <3>1, HeldIs
    <3> QED BY <1>1, <1>2, <2>2, <3>2, NoneSeen, ActionsSeen
  <2> QED BY <2>3, <2>4
<1>9. CASE Returns(p)
  <2>1. waitq' = waitq /\ ~ Awaits(p) /\ WaitState(p)' = "none"
    BY <1>1, <1>9, HeldIs, PlaceOf DEF Returns, Awaits, Runnable
  <2>2. WaitState(p) \in {"none", "granted", "expired"}
    BY <2>1, HeldIs
  <2> QED BY <1>2, <1>3, <1>4, <2>1, <2>2, ActionsSeen
<1>10. ASSUME NEW r \in Resource, Enters(p, r) PROVE FifoKeys' /\ Waiting!WaitNext
  <2>1. WaitState(p) = "none" /\ Awaits(p)'
    BY <1>1, <1>10, HeldIs, EntersWaits DEF Enters
  <2>2. WaitState(p)' \in {"ever", "timed"}
    BY <1>10, <2>1, HeldIs DEF Enters
  <2> QED BY <1>1, <1>2, <1>10, <2>1, <2>2, EntersSeen, ActionsSeen
<1>11. ASSUME NEW r \in Resource, Granted(p, r) PROVE FifoKeys' /\ Waiting!WaitNext
  <2>1. proc[p].state # "DORMANT" /\ Awaits(p) /\ ~ Awaits(p)'
    BY <1>1, <1>11, GrantedWaits, PlaceOf DEF Awaits
  <2>2. /\ proc'[p].tail = proc[p].tail /\ proc'[p].granted /\ proc'[p].state # "DORMANT"
        /\ proc'[p].tail \in {"resource", "ever"} /\ (proc'[p].tail = "resource" => ~ proc'[p].woken)
    BY <1>1, <1>11, <2>1 DEF Granted, Answer
  <2>3. WaitState(p)' = "granted"
    BY <2>1, <2>2, HeldIs
  <2>4. /\ FifoKeys'
        /\ Seen[r] # <<>> /\ Head(Seen[r]) = p /\ Seen' = [Seen EXCEPT ![r] = Tail(Seen[r])]
    BY <1>1, <1>11, GrantedSeen
  <2> QED BY <1>2, <2>3, <2>4, ActionsSeen
<1>12. ASSUME NEW prio \in Int, Moves(p, prio)
       PROVE  FifoKeys' /\ (Waiting!WaitNext \/ (Seen' = Seen /\ Held' = Held))
  <2>1. Awaits(p)' <=> Awaits(p)
    BY <1>1, <1>12, MovesWaits DEF SameWaits
  <2>2. WaitState(p)' = WaitState(p)
    BY <1>12, <2>1, HeldIs DEF Moves
  <2> QED BY <1>1, <1>4, <1>12, <2>2, MovesSeen, ActionsSeen
<1> QED
  BY <1>5, <1>6, <1>7, <1>8, <1>9, <1>10, <1>11, <1>12 DEF WaitStep

LEMMA StepImplements ==
  ASSUME WaitInv, FifoKeys, [Next]_vars, kpc = "deadlines" => mode' \in {mode, "IDLE"}
  PROVE  FifoKeys' /\ (Waiting!WaitNext \/ (Seen' = Seen /\ Held' = Held))
<1>1. ASSUME waitq' = waitq, proc' = proc PROVE FifoKeys' /\ Seen' = Seen /\ Held' = Held
  <2>1. \A p \in Proc : WaitState(p)' = WaitState(p)
    BY <1>1 DEF WaitState, InSomeWaitq
  <2> QED BY <1>1, <2>1 DEF FifoKeys, Seen, Held
<1>2. CASE NoWaitStep \/ SetNormalMode \/ StartDone \/ UNCHANGED vars
  BY <1>1, <1>2 DEF NoWaitStep, SetNormalMode, StartDone, vars, queues
<1>3. CASE Reinitialize
  <2>1. waitq' = [r \in Resource |-> <<>>] /\ \A p \in Proc : proc'[p].state = "DORMANT"
    BY <1>3 DEF Reinitialize, Blank
  <2>2. Held' = [p \in Proc |-> "none"]
    BY <2>1 DEF Held, WaitState
  <2>3. Seen' = [r \in Resource |-> <<>>]
    BY <2>1 DEF Seen, View
  <2>4. FifoKeys'
    BY <2>1, ProcessesAssumption DEF FifoKeys, OneKey
  <2> QED BY <2>2, <2>3, <2>4, ActionsSeen
<1>4. ASSUME NEW p \in Proc, WaitStep(p) PROVE FifoKeys' /\ (Waiting!WaitNext \/ (Seen' = Seen /\ Held' = Held))
  BY <1>4, WaitStepSeen
<1> QED
  BY <1>2, <1>3, <1>4, StepsWait

LEMMA InitImplements == Init => FifoKeys /\ Waiting!WaitInit
<1> SUFFICES ASSUME Init PROVE FifoKeys /\ Waiting!WaitInit
  OBVIOUS
<1>1. waitq = [r \in Resource |-> <<>>] /\ \A p \in Proc : proc[p].state = "DORMANT"
  BY DEF Init, Blank
<1>2. \A p \in Proc : WaitState(p) = "none"
  BY <1>1 DEF WaitState
<1>3. FifoKeys
  BY <1>1, ProcessesAssumption DEF FifoKeys, OneKey
<1> QED
  BY <1>1, <1>2, <1>3 DEF Waiting!WaitInit

\* ImplementsWaiting: whatever a partition does to a process that waits, SUSPEND, RESUME,
\* SET_PRIORITY, time-outs and restarts included, is a step of WaitQueues or none, under
\* the same hypotheses, which is what the objects rely on.
THEOREM ProcessesImplementWaiting ==
  ASSUME HmCallback = FALSE
  PROVE  Spec /\ NoRestartInPass => ImplementsWaiting
<1>1. WaitInv /\ FifoKeys /\ [Next]_vars /\ [kpc = "deadlines" => mode' \in {mode, "IDLE"}]_vars
        => FifoKeys' /\ [Waiting!WaitNext]_(Waiting!waitVars)
  <2> SUFFICES ASSUME WaitInv, FifoKeys, [Next]_vars, [kpc = "deadlines" => mode' \in {mode, "IDLE"}]_vars
               PROVE  FifoKeys' /\ [Waiting!WaitNext]_(Waiting!waitVars)
    OBVIOUS
  <2>1. kpc = "deadlines" => mode' \in {mode, "IDLE"}
    BY DEF vars, partition
  <2>2. FifoKeys' /\ (Waiting!WaitNext \/ (Seen' = Seen /\ Held' = Held))
    BY <2>1, StepImplements
  <2> QED BY <2>2 DEF Waiting!waitVars, Seen, Held, View
<1>2. Init => FifoKeys /\ Waiting!WaitInit
  BY InitImplements
<1> QED
  BY <1>1, <1>2, WaitInvInductive, PTL DEF Spec, NoRestartInPass, ImplementsWaiting, Waiting!WaitSpec

-----------------------------------------------------------------------------
(* The deadlines that are watched. An entry for p of the queue of          *)
(* deadlines and the entries for the others:                               *)

Rest(q, p) == {e \in Entries(q) : e.id # p}
KeyedAt(q, p, k) == \A e \in Entries(q) : e.id = p => e.pri = k

LEMMA DeadlineOps ==
  ASSUME NEW q \in DistinctQueue, NEW p \in Proc
  PROVE  /\ Dequeue(q, p) \in DistinctQueue /\ p \notin Ids(Dequeue(q, p))
         /\ Rest(Dequeue(q, p), p) = Rest(q, p)
         /\ \A k \in Int : /\ p \in Ids(Enqueue(q, TRUE, p, k))
                           /\ Rest(Enqueue(q, TRUE, p, k), p) = Rest(q, p)
                           /\ KeyedAt(Enqueue(q, TRUE, p, k), p, k)
<1>1. q \in Seq(Entry(Proc)) /\ DistinctIds(q)
  BY DEF DistinctQueue, Queue
<1>2. Entries(Dequeue(q, p)) = {e \in Entries(q) : e.id # p}
  BY <1>1, DequeueEntries
<1>3. ASSUME NEW k \in Int
      PROVE  /\ Rest(Enqueue(q, TRUE, p, k), p) = Rest(q, p)
             /\ KeyedAt(Enqueue(q, TRUE, p, k), p, k)
  <2> DEFINE new == [id |-> p, pri |-> k]
  <2>1. CASE ~ Enqueued(q, p)
    <3>1. \A ascending : Entries(Enqueue(q, ascending, p, k)) = Entries(q) \cup {new}
      BY <1>1, <2>1, EnqueueEntries
    <3>2. \A e \in Entries(q) : e.id # p
      BY <2>1 DEF Enqueued, Entries
    <3>3. new.id = p /\ new.pri = k
      OBVIOUS
    <3> HIDE DEF new
    <3> QED BY <3>1, <3>2, <3>3 DEF Rest, KeyedAt
  <2>2. CASE Enqueued(q, p)
    <3> DEFINE s == Rekey(q, p, k)
    <3>1. DOMAIN s = DOMAIN q /\ \A i \in DOMAIN q : s[i] = IF q[i].id = p THEN new ELSE q[i]
      BY DEF Rekey
    <3>2. new.id = p /\ new.pri = k
      OBVIOUS
    <3>3. Enqueue(q, TRUE, p, k) = s
      BY <2>2 DEF Enqueue
    <3> HIDE DEF new, s
    <3>4. \A e \in Entries(s) : e.id = p => e.pri = k
      BY <3>1, <3>2 DEF Entries
    <3>5. \A e : e \in Rest(s, p) <=> e \in Rest(q, p)
      BY <3>1, <3>2 DEF Entries, Rest
    <3>6. Rest(s, p) = Rest(q, p)
      BY <3>5
    <3> QED BY <3>3, <3>4, <3>6 DEF KeyedAt
  <2> QED BY <2>1, <2>2
<1>4. Rest(Dequeue(q, p), p) = Rest(q, p)
  BY <1>2 DEF Rest
<1>5. Ids(Dequeue(q, p)) = Ids(q) \ {p} /\ Dequeue(q, p) \in DistinctQueue
  BY QueueIds, DistinctTypes
<1>6. \A k \in Int : Ids(Enqueue(q, TRUE, p, k)) = Ids(q) \cup {p}
  BY QueueIds
<1> QED
  BY <1>3, <1>4, <1>5, <1>6

\* What is watched of p: a process that can run, or that a signal can make run, is
\* in the queue if it has a deadline, with that deadline. One that has not been
\* started is not: STARTPROCESSSCHEDULER gives it its first deadline.
Watches(p) == p \in Ids(deadlineQ)
ToBeStarted(p) ==
  /\ proc[p].state = "WAITING"
  /\ \/ mode # "NORMAL"
     \/ kpc = "starting" /\ \E i \in (started + 1)..count : p = Order[i]

\* The services an application does not call. Without SUSPEND nobody is suspended;
\* a process without a time capacity has a deadline only by REPLENISH.
NoSuspending == {"SUSPEND", "SUSPEND_SELF"} \cap Calls = {}
Uncalled(p) ==
  /\ NoSuspending => ~ proc[p].suspended /\ proc[p].tail \notin {"suspend", "suspendTimed"}
  /\ TimeCapacity[p] = Infinite /\ "REPLENISH" \notin Calls => proc[p].deadline = Infinite /\ ~ Watches(p)

\* The configurations in which keys and deadlines agree. In the others a process
\* without a time capacity that REPLENISH gave a deadline can be resumed while it is
\* watched: its deadline is then infinite and the entry stays.
ConfigOf(p) == TimeCapacity[p] # Infinite \/ "REPLENISH" \notin Calls \/ NoSuspending

CanRun(p) == Runnable(p) \/ (Awaits(p) /\ ~ proc[p].suspended)

Watched(p) ==
  /\ CanRun(p) => proc[p].deadline = Infinite \/ Watches(p)
  /\ Watches(p) => proc[p].state # "DORMANT" /\ ~ ToBeStarted(p)
  /\ ConfigOf(p) => KeyedAt(deadlineQ, p, proc[p].deadline)
  /\ Uncalled(p)

WatchInv == WaitInv /\ \A p \in Proc : Watched(p)

\* The steps of a process p.
Justified(p) ==
  /\ \/ proc'[p].deadline \in {proc[p].deadline, Infinite}
     \/ "REPLENISH" \in Calls
     \/ \E at \in Int : proc'[p].deadline = DeadlineAt(p, at)
  /\ proc'[p].suspended => proc[p].suspended \/ ~ NoSuspending
  /\ proc'[p].tail \in {"suspend", "suspendTimed"} => proc'[p].tail = proc[p].tail \/ ~ NoSuspending

\* p is not in the queue afterwards.
Leaves(p) ==
  /\ p \notin Ids(deadlineQ')
  /\ proc'[p].deadline = Infinite \/ ~ CanRun(p)'

\* p is in the queue with its new deadline.
Armed(p) ==
  /\ p \in Ids(deadlineQ') /\ KeyedAt(deadlineQ', p, proc'[p].deadline)
  /\ proc'[p].deadline # Infinite
  /\ proc'[p].state # "DORMANT" /\ ~ ToBeStarted(p)'

\* p is in the queue with an old deadline.
Stale(p) ==
  /\ ~ ConfigOf(p) /\ proc'[p].deadline = Infinite
  /\ proc'[p].state # "DORMANT" /\ ~ ToBeStarted(p)'

\* p stays where it is.
Kept(p) ==
  /\ deadlineQ' = deadlineQ /\ proc'[p].deadline = proc[p].deadline
  /\ CanRun(p)' => CanRun(p) \/ Watches(p)
  /\ proc[p].state # "DORMANT" => proc'[p].state # "DORMANT"
  /\ ToBeStarted(p)' => ToBeStarted(p) \/ ~ Watches(p)

WatchStep(p) ==
  /\ WaitStep(p) /\ Justified(p)
  /\ Rest(deadlineQ', p) = Rest(deadlineQ, p)
  /\ Leaves(p) \/ Armed(p) \/ Stale(p) \/ Kept(p)

LEMMA RestKept ==
  ASSUME NEW p, NEW q, q # p, Rest(deadlineQ', p) = Rest(deadlineQ, p)
  PROVE  /\ Watches(q)' <=> Watches(q)
         /\ \A k : KeyedAt(deadlineQ', q, k) <=> KeyedAt(deadlineQ, q, k)
<1>1. \A e : e.id = q => (e \in Entries(deadlineQ') <=> e \in Entries(deadlineQ))
  BY DEF Rest
<1>2. \A s : q \in Ids(s) <=> \E e \in Entries(s) : e.id = q
  BY IdsOfEntries
<1> QED
  BY <1>1, <1>2 DEF Watches, KeyedAt

\* STARTPROCESSSCHEDULER comes to nobody else.
LEMMA StageKeeps ==
  ASSUME WaitInv, NEW p \in Proc, NEW q \in Proc, q # p, Stage(p), proc'[q] = proc[q],
         UNCHANGED <<count, started>> \/ kpc = "starting" \/ mode # "NORMAL"
  PROVE  ToBeStarted(q)' => ToBeStarted(q)
<1>1. started \in Nat /\ count \in Nat
  BY ConstantTypes DEF WaitInv, DispatchInv, StatesInv, TypeInv, TypeOK
<1>2. CASE UNCHANGED <<count, started>>
  BY <1>2 DEF Stage, ToBeStarted
<1>3. CASE mode # "NORMAL"
  BY <1>3 DEF Stage, ToBeStarted
<1>4. CASE kpc = "starting" /\ started' = started + 1 /\ count' = count
  <2>1. \A i \in (started' + 1)..count' : i \in (started + 1)..count
    BY <1>1, <1>4
  <2> QED BY <1>4, <2>1 DEF Stage, ToBeStarted
<1> QED
  BY <1>2, <1>3, <1>4 DEF Stage

LEMMA WatchStepKeeps ==
  ASSUME WatchInv, NEW p \in Proc, WatchStep(p)
  PROVE  \A q \in Proc : Watched(q)'
<1>1. WaitInv /\ StatesInv /\ WaitStep(p) /\ Others(p) /\ Stage(p) /\ SameWaits(Proc \ {p})
  BY WaitAnswer DEF WatchInv, WaitInv, DispatchInv, WatchStep, WaitStep
<1>2. ASSUME NEW q \in Proc, q # p PROVE Watched(q)'
  <2>1. proc'[q] = proc[q] /\ (Awaits(q)' <=> Awaits(q))
    BY <1>1, <1>2 DEF Others, SameWaits
  <2>2. Watches(q)' <=> Watches(q)
    BY <1>2, RestKept DEF WatchStep
  <2>3. KeyedAt(deadlineQ', q, proc[q].deadline) <=> KeyedAt(deadlineQ, q, proc[q].deadline)
    BY <1>2, RestKept DEF WatchStep
  <2>4. ToBeStarted(q)' => ToBeStarted(q)
    BY <1>1, <1>2, <2>1, StageKeeps DEF Stage
  <2>5. Watched(q)
    BY DEF WatchInv
  <2>6. (CanRun(q)' <=> CanRun(q)) /\ (Uncalled(q)' <=> Uncalled(q))
    BY <2>1, <2>2 DEF CanRun, Runnable, Uncalled
  <2> QED BY <2>1, <2>2, <2>3, <2>4, <2>5, <2>6 DEF Watched
<1>3. Watched(p)
  BY DEF WatchInv
<1>4. Uncalled(p)'
  <2>1. Uncalled(p)
    BY <1>3 DEF Watched
  <2>2. NoSuspending => ~ proc'[p].suspended /\ proc'[p].tail \notin {"suspend", "suspendTimed"}
    BY <2>1 DEF WatchStep, Justified, Uncalled
  <2>3. ASSUME TimeCapacity[p] = Infinite, "REPLENISH" \notin Calls
        PROVE  proc'[p].deadline = Infinite /\ ~ Watches(p)'
    <3>1. proc[p].deadline = Infinite /\ ~ Watches(p)
      BY <2>1, <2>3 DEF Uncalled
    <3>2. proc'[p].deadline = Infinite
      BY <2>3, <3>1 DEF WatchStep, Justified, DeadlineAt
    <3>3. ~ Watches(p)'
      BY <2>3, <3>1, <3>2 DEF WatchStep, Leaves, Armed, Stale, ConfigOf, Kept, Watches
    <3> QED BY <3>2, <3>3
  <2> QED BY <2>2, <2>3 DEF Uncalled
<1>5. CASE Leaves(p)
  <2>1. KeyedAt(deadlineQ', p, proc'[p].deadline)
    BY <1>5, IdsOfEntries DEF Leaves, KeyedAt
  <2> QED BY <1>2, <1>4, <1>5, <2>1 DEF Watched, Leaves, Watches
<1>6. CASE Armed(p)
  BY <1>2, <1>4, <1>6 DEF Watched, Armed, Watches
<1>7. CASE Stale(p)
  BY <1>2, <1>4, <1>7 DEF Watched, Stale
<1>8. CASE Kept(p)
  BY <1>2, <1>3, <1>4, <1>8 DEF Watched, Kept, Watches
<1> QED
  BY <1>5, <1>6, <1>7, <1>8 DEF WatchStep

\* What is left to show of a step: the queue.
LEMMA Removes ==
  ASSUME WaitInv, NEW p \in Proc, deadlineQ' = Dequeue(deadlineQ, p),
         proc'[p].deadline = Infinite \/ ~ CanRun(p)'
  PROVE  Rest(deadlineQ', p) = Rest(deadlineQ, p) /\ Leaves(p)
BY DeadlineOps, PlaceOf DEF WaitInv, DispatchInv, Leaves

LEMMA Arms ==
  ASSUME NEW p \in Proc, NEW q \in DistinctQueue, NEW d \in Int, Rest(q, p) = Rest(deadlineQ, p),
         deadlineQ' = Arm(q, p, d), proc'[p].deadline = d, d = Infinite /\ ConfigOf(p) => p \notin Ids(q),
         proc'[p].state # "DORMANT", ~ ToBeStarted(p)'
  PROVE  Rest(deadlineQ', p) = Rest(deadlineQ, p) /\ (Leaves(p) \/ Armed(p) \/ Stale(p))
<1>1. CASE d = Infinite
  BY <1>1 DEF Arm, Leaves, Stale
<1>2. CASE d # Infinite
  <2>1. deadlineQ' = Enqueue(q, TRUE, p, d)
    BY <1>2 DEF Arm
  <2> QED BY <1>2, <2>1, DeadlineOps DEF Armed
<1> QED
  BY <1>1, <1>2

\* Who awaits a resource after a step.
LEMMA AwaitsAfter ==
  ASSUME WaitInv', NEW p \in Proc
  PROVE  Awaits(p)' => proc'[p].state = "WAITING" /\ proc'[p].tail \in {"resource", "ever"}
<1>1. Awaits(p)' => proc'[p].state = "WAITING"
  BY EnqueuedIsInIds DEF WaitInv, DispatchInv, StatesInv, Places, QueuedIsWaiting, InSomeWaitq, Awaits
<1>2. Answer(p)'
  BY DEF WaitInv, Answers
<1> QED
  BY <1>1, <1>2 DEF Answer

LEMMA StopSelfWatch ==
  ASSUME WatchInv, WaitInv', NEW p \in Proc, p = current, STOP_SELF
  PROVE  WatchStep(p)
<1>1. WaitInv /\ WaitStep(p) /\ proc \in Table
  BY StopSelfWaits, PlaceOf DEF WatchInv, WaitInv, DispatchInv
<1>2. /\ proc' = [proc EXCEPT ![p].suspended = FALSE, ![p].suspendedTimeout = FALSE, ![p].state = "DORMANT"]
      /\ deadlineQ' = Dequeue(deadlineQ, p)
  BY DEF STOP_SELF, RemoveFromAll
<1>3. /\ proc'[p].state = "DORMANT" /\ ~ proc'[p].suspended /\ proc'[p].tail = proc[p].tail
      /\ proc'[p].deadline = proc[p].deadline
  BY <1>1, <1>2 DEF Table, ProcessInfo
<1>4. ~ CanRun(p)' /\ Justified(p)
  BY <1>3, AwaitsAfter DEF CanRun, Runnable, Justified
<1> QED
  BY <1>1, <1>2, <1>4, Removes DEF WatchStep

LEMMA StopWatch ==
  ASSUME WatchInv, WaitInv', NEW p \in Proc, STOP(p)
  PROVE  WatchStep(p)
<1>1. WaitInv /\ WaitStep(p) /\ proc \in Table
  BY StopWaits, PlaceOf DEF WatchInv, WaitInv, DispatchInv
<1>2. /\ proc' = [proc EXCEPT ![p].suspended = FALSE, ![p].suspendedTimeout = FALSE, ![p].state = "DORMANT"]
      /\ deadlineQ' = Dequeue(deadlineQ, p)
  BY DEF STOP, RemoveFromAll
<1>3. /\ proc'[p].state = "DORMANT" /\ ~ proc'[p].suspended /\ proc'[p].tail = proc[p].tail
      /\ proc'[p].deadline = proc[p].deadline
  BY <1>1, <1>2 DEF Table, ProcessInfo
<1>4. ~ CanRun(p)' /\ Justified(p)
  BY <1>3, AwaitsAfter DEF CanRun, Runnable, Justified
<1> QED
  BY <1>1, <1>2, <1>4, Removes DEF WatchStep

LEMMA SuspendWatch ==
  ASSUME WatchInv, NEW p \in Proc,
         SUSPEND(p) \/ (p = current /\ \E t \in TimeOuts : SUSPEND_SELF(t))
  PROVE  WatchStep(p)
<1>1. WaitInv /\ WaitStep(p) /\ proc \in Table
  BY SuspendWaits, SuspendSelfWaits, PlaceOf DEF WatchInv, WaitInv, DispatchInv
<1>2. /\ \/ /\ "SUSPEND" \in Calls
            /\ proc' = [proc EXCEPT ![p].state = "WAITING", ![p].suspended = TRUE, ![p].suspendedTimeout = FALSE]
         \/ /\ "SUSPEND_SELF" \in Calls
            /\ \/ proc' = [proc EXCEPT ![p].state = "WAITING", ![p].suspended = TRUE,
                                       ![p].suspendedTimeout = TRUE, ![p].woken = FALSE,
                                       ![p].tail = "suspendTimed"]
               \/ proc' = [proc EXCEPT ![p].state = "WAITING", ![p].suspended = TRUE, ![p].tail = "suspend"]
      /\ deadlineQ' = Dequeue(deadlineQ, p)
  BY DEF SUSPEND, SUSPEND_SELF, Call
<1>3. /\ proc'[p].state = "WAITING" /\ proc'[p].suspended /\ proc'[p].deadline = proc[p].deadline
      /\ ~ NoSuspending
  BY <1>1, <1>2 DEF Table, ProcessInfo, NoSuspending
<1>4. ~ CanRun(p)' /\ Justified(p)
  BY <1>3 DEF CanRun, Runnable, Justified
<1> QED
  BY <1>1, <1>2, <1>4, Removes DEF WatchStep

LEMMA PeriodicWaitWatch ==
  ASSUME WatchInv, WaitInv', NEW p \in Proc, p = current, PERIODIC_WAIT
  PROVE  WatchStep(p)
<1> DEFINE at == NextRelease(p)
           d == DeadlineAt(p, at)
<1>1. WaitInv /\ WaitStep(p) /\ proc \in Table /\ proc[p].tail = "none"
  BY PeriodicWaitWaits, PlaceOf, CallerRuns DEF WatchInv, WaitInv, DispatchInv, PERIODIC_WAIT, MayBlock
<1>2. at \in Int
  BY <1>1, PeriodicWaitTable DEF WaitInv, DispatchInv, StatesInv, TypeInv
<1>3. /\ deadlineQ' = Dequeue(deadlineQ, p)
      /\ proc' = [proc EXCEPT ![p].state = "WAITING", ![p].release = at, ![p].deadline = d, ![p].woken = FALSE]
  BY DEF PERIODIC_WAIT
<1>4. d = DeadlineAt(p, at)
  OBVIOUS
<1> HIDE DEF at, d
<1>5. /\ proc'[p].state = "WAITING" /\ proc'[p].tail = "none" /\ proc'[p].suspended = proc[p].suspended
      /\ proc'[p].deadline = d
  BY <1>1, <1>3 DEF Table, ProcessInfo
<1>6. ~ CanRun(p)' /\ Justified(p)
  BY <1>2, <1>4, <1>5, AwaitsAfter DEF CanRun, Runnable, Justified
<1> QED
  BY <1>1, <1>3, <1>6, Removes DEF WatchStep

\* A process that keeps its deadline and its place.
LEMMA Keeps ==
  ASSUME WatchInv, NEW p \in Proc, WaitStep(p), deadlineQ' = deadlineQ,
         proc'[p].deadline = proc[p].deadline, proc'[p].tail \in {proc[p].tail, "none", "resource", "ever", "timed"},
         proc'[p].suspended => proc[p].suspended,
         CanRun(p)' => CanRun(p) \/ Watches(p),
         proc[p].state # "DORMANT" => proc'[p].state # "DORMANT",
         ToBeStarted(p)' => ToBeStarted(p) \/ ~ Watches(p)
  PROVE  WatchStep(p)
<1>1. Justified(p) /\ Kept(p)
  BY DEF Justified, Kept
<1> QED
  BY <1>1 DEF WatchStep

LEMMA TimedWaitWatch ==
  ASSUME WatchInv, NEW p \in Proc, p = current, NEW d \in Delays, TIMED_WAIT(d)
  PROVE  WatchStep(p)
<1>1. WaitInv /\ WaitStep(p) /\ proc \in Table
  BY TimedWaitWaits, PlaceOf DEF WatchInv, WaitInv, DispatchInv
<1>2. Runnable(p) /\ mode = "NORMAL" /\ kpc = "idle"
  BY <1>1, CallerRuns DEF TIMED_WAIT, MayBlock
<1>3. /\ \/ proc' = [proc EXCEPT ![p].state = "READY"]
         \/ proc' = [proc EXCEPT ![p].state = "WAITING", ![p].woken = FALSE, ![p].tail = "timed"]
      /\ deadlineQ' = deadlineQ
  BY DEF TIMED_WAIT
<1>4. /\ proc'[p].state \in {"READY", "WAITING"} /\ proc'[p].tail \in {proc[p].tail, "timed"}
      /\ proc'[p].suspended = proc[p].suspended /\ proc'[p].deadline = proc[p].deadline
  BY <1>1, <1>3 DEF Table, ProcessInfo
<1>5. ~ ToBeStarted(p)' /\ CanRun(p)
  BY <1>1, <1>2 DEF ToBeStarted, CanRun, WaitStep, Stage
<1> QED
  BY <1>1, <1>3, <1>4, <1>5, Keeps

LEMMA WaitResourceWatch ==
  ASSUME WatchInv, NEW p \in Proc, p = current, NEW r \in Resource, NEW t \in TimeOuts,
         Call("WAIT_RESOURCE"), WAIT_RESOURCE(r, t)
  PROVE  WatchStep(p)
<1>1. WaitInv /\ WaitStep(p) /\ proc \in Table
  BY WaitResourceWaits, PlaceOf DEF WatchInv, WaitInv, DispatchInv
<1>2. Runnable(p) /\ mode = "NORMAL" /\ kpc = "idle"
  BY <1>1, CallerRuns DEF WAIT_RESOURCE, MayBlock
<1>3. /\ \/ proc' = [proc EXCEPT ![p].state = "WAITING", ![p].woken = FALSE, ![p].granted = FALSE,
                                 ![p].tail = "resource"]
         \/ proc' = [proc EXCEPT ![p].state = "WAITING", ![p].granted = FALSE, ![p].tail = "ever"]
      /\ deadlineQ' = deadlineQ
  BY DEF WAIT_RESOURCE
<1>4. /\ proc'[p].state = "WAITING" /\ proc'[p].tail \in {"resource", "ever"}
      /\ proc'[p].suspended = proc[p].suspended /\ proc'[p].deadline = proc[p].deadline
  BY <1>1, <1>3 DEF Table, ProcessInfo
<1>5. ~ ToBeStarted(p)' /\ CanRun(p)
  BY <1>1, <1>2 DEF ToBeStarted, CanRun, WaitStep, Stage
<1> QED
  BY <1>1, <1>3, <1>4, <1>5, Keeps

LEMMA ReplenishWatch ==
  ASSUME WatchInv, NEW p \in Proc, p = current, NEW t \in Budgets, REPLENISH(t)
  PROVE  WatchStep(p)
<1> DEFINE d == IF t = Infinite THEN Infinite ELSE now + t
           q == Dequeue(deadlineQ, p)
<1>1. WaitInv /\ WaitStep(p) /\ proc \in Table /\ deadlineQ \in DistinctQueue
  BY ReplenishWaits, PlaceOf DEF WatchInv, WaitInv, DispatchInv
<1>2. Runnable(p) /\ mode = "NORMAL" /\ kpc = "idle" /\ "REPLENISH" \in Calls
  BY <1>1, CallerRuns DEF REPLENISH, Call
<1>3. d \in Int
  BY <1>1, ConstantTypes DEF WaitInv, DispatchInv, StatesInv, TypeInv, TypeOK, Infinite
<1>4. proc' = [proc EXCEPT ![p].deadline = d] /\ deadlineQ' = Arm(q, p, d)
  BY DEF REPLENISH
<1>5. q \in DistinctQueue /\ p \notin Ids(q) /\ Rest(q, p) = Rest(deadlineQ, p)
  BY <1>1, DeadlineOps
<1> HIDE DEF d, q
<1>6. /\ proc'[p].state = proc[p].state /\ proc'[p].tail = proc[p].tail
      /\ proc'[p].suspended = proc[p].suspended /\ proc'[p].deadline = d
  BY <1>1, <1>4 DEF Table, ProcessInfo
<1>7. proc'[p].state # "DORMANT" /\ ~ ToBeStarted(p)' /\ Justified(p)
  BY <1>2, <1>6 DEF Runnable, ToBeStarted, Justified
<1>8. Rest(deadlineQ', p) = Rest(deadlineQ, p) /\ (Leaves(p) \/ Armed(p) \/ Stale(p))
  BY <1>3, <1>4, <1>5, <1>6, <1>7, Arms
<1> QED
  BY <1>1, <1>7, <1>8 DEF WatchStep

\* A process that is resumed, or comes back from SUSPEND_SELF, without a capacity
\* is not watched.
LEMMA NewDeadline ==
  ASSUME WatchInv, NEW p \in Proc, proc[p].suspended \/ proc[p].tail \in {"suspend", "suspendTimed"}
  PROVE  /\ DeadlineAt(p, now) \in Int
         /\ DeadlineAt(p, now) = Infinite /\ ConfigOf(p) => ~ Watches(p)
<1>1. now \in Nat /\ TimeCapacity[p] \in Nat \cup {Infinite}
  BY ProcessesAssumption DEF WatchInv, WaitInv, DispatchInv, StatesInv, TypeInv, TypeOK
<1>2. Infinite = -1
  BY DEF Infinite
<1>3. DeadlineAt(p, now) \in Int /\ (DeadlineAt(p, now) = Infinite => TimeCapacity[p] = Infinite)
  BY <1>1, <1>2 DEF DeadlineAt
<1>4. Uncalled(p)
  BY DEF WatchInv, Watched
<1> QED
  BY <1>3, <1>4 DEF Uncalled, ConfigOf

LEMMA ResumeWatch ==
  ASSUME WatchInv, NEW p \in Proc, RESUME(p)
  PROVE  WatchStep(p)
<1> DEFINE d == DeadlineAt(p, now)
           T == IF proc[p].suspendedTimeout THEN Dequeue(timeoutQ, p) ELSE timeoutQ
           new == IF ~ StillWaits(p, T) THEN "READY" ELSE proc[p].state
<1>1. WaitInv /\ StatesInv /\ WaitStep(p) /\ proc \in Table /\ deadlineQ \in DistinctQueue /\ kpc = "idle"
  BY ResumeWaits, PlaceOf, AtCall DEF WatchInv, WaitInv, DispatchInv, RESUME
<1>2. proc[p].suspended /\ proc[p].state # "DORMANT" /\ deadlineQ' = Arm(deadlineQ, p, d)
  BY DEF RESUME, Alive
<1>3. proc' = [proc EXCEPT ![p].suspended = FALSE, ![p].suspendedTimeout = FALSE,
                           ![p].release = now, ![p].deadline = d, ![p].state = new]
  BY <1>1 DEF RESUME, Table, ProcessInfo
<1>4. d \in Int /\ (d = Infinite /\ ConfigOf(p) => p \notin Ids(deadlineQ))
  BY <1>2, NewDeadline DEF Watches
<1>5. now \in Int
  BY <1>1 DEF StatesInv, TypeInv, TypeOK
<1>6. mode # "NORMAL" => new = "READY"
  <2>1. ASSUME mode # "NORMAL" PROVE p \notin Ids(timeoutQ) /\ \A r \in Resource : p \notin Ids(waitq[r])
    <3>1. Ids(timeoutQ) \subseteq {Order[i] : i \in 1..0}
      BY <1>1, <2>1 DEF StatesInv, Control, StartingQueues
    <3>2. \A i : i \notin 1..0
      OBVIOUS
    <3> QED BY <1>1, <2>1, <3>1, <3>2 DEF StatesInv, Control, StartingQueues
  <2>2. Ids(T) \subseteq Ids(timeoutQ)
    BY <1>1, QueueIds, PlaceOf
  <2>3. StillWaits(p, T) => p \in Ids(T) \/ \E r \in Resource : p \in Ids(waitq[r])
    BY EnqueuedIsInIds DEF StillWaits
  <2> QED BY <2>1, <2>2, <2>3
<1>7. d = DeadlineAt(p, now) /\ new \in {"READY", proc[p].state}
  OBVIOUS
<1> HIDE DEF d, T, new
<1>8. /\ proc'[p].state = new /\ proc'[p].tail = proc[p].tail
      /\ ~ proc'[p].suspended /\ proc'[p].deadline = d
  BY <1>1, <1>3 DEF Table, ProcessInfo
<1>9. ~ ToBeStarted(p)'
  BY <1>1, <1>6, <1>8 DEF ToBeStarted, WaitStep, Stage
<1>10. Justified(p)
  BY <1>5, <1>7, <1>8 DEF Justified
<1>11. Rest(deadlineQ', p) = Rest(deadlineQ, p) /\ (Leaves(p) \/ Armed(p) \/ Stale(p))
  BY <1>1, <1>2, <1>4, <1>7, <1>8, <1>9, Arms
<1> QED
  BY <1>1, <1>10, <1>11 DEF WatchStep

LEMMA ContinueWatch ==
  ASSUME WatchInv, NEW p \in Proc, Continue(p)
  PROVE  WatchStep(p)
<1> DEFINE d == DeadlineAt(p, now)
<1>1. /\ WaitInv /\ ContextFits /\ WaitStep(p) /\ proc \in Table /\ deadlineQ \in DistinctQueue
      /\ kpc = "idle" /\ ctx = p /\ now \in Int
  <2>1. WaitInv /\ StatesInv /\ ContextFits /\ WaitStep(p)
    BY ContinueWaits DEF WatchInv, WaitInv, DispatchInv, ContextInv
  <2>2. now \in Nat
    BY <2>1 DEF StatesInv, TypeInv, TypeOK
  <2> QED BY <2>1, <2>2, PlaceOf DEF Continue
<1>2. p = current /\ Runnable(p) /\ mode = "NORMAL"
  BY <1>1, ConstantTypes DEF ContextFits, IsLeaving, StatesInv, Control, CurrentRunnable, WaitInv, DispatchInv
<1>3. mode' = "NORMAL" /\ kpc' # "starting"
  BY <1>1, <1>2 DEF WaitStep, Stage
<1>4. CASE /\ proc[p].tail \in {"suspend", "suspendTimed"}
           /\ proc' = [proc EXCEPT ![p].tail = "none", ![p].release = now, ![p].deadline = d]
           /\ deadlineQ' = Arm(deadlineQ, p, d)
  <2>1. d \in Int /\ (d = Infinite /\ ConfigOf(p) => p \notin Ids(deadlineQ)) /\ d = DeadlineAt(p, now)
    BY <1>4, NewDeadline DEF Watches
  <2> HIDE DEF d
  <2>2. /\ proc'[p].state = proc[p].state /\ proc'[p].tail = "none"
        /\ proc'[p].suspended = proc[p].suspended /\ proc'[p].deadline = d
    BY <1>1, <1>4 DEF Table, ProcessInfo
  <2>3. proc'[p].state # "DORMANT" /\ ~ ToBeStarted(p)'
    BY <1>2, <1>3, <2>2 DEF Runnable, ToBeStarted
  <2>4. Justified(p)
    BY <1>1, <2>1, <2>2 DEF Justified
  <2>5. Rest(deadlineQ', p) = Rest(deadlineQ, p) /\ (Leaves(p) \/ Armed(p) \/ Stale(p))
    BY <1>1, <1>4, <2>1, <2>2, <2>3, Arms
  <2> QED BY <1>1, <2>4, <2>5 DEF WatchStep
<1>5. CASE proc' = [proc EXCEPT ![p].tail = "none"] /\ deadlineQ' = deadlineQ
  <2>1. /\ proc'[p].state = proc[p].state /\ proc'[p].tail = "none"
        /\ proc'[p].suspended = proc[p].suspended /\ proc'[p].deadline = proc[p].deadline
    BY <1>1, <1>5 DEF Table, ProcessInfo
  <2>2. CanRun(p) /\ ~ ToBeStarted(p)'
    BY <1>2, <1>3 DEF CanRun, ToBeStarted
  <2> QED BY <1>1, <1>5, <2>1, <2>2, Keeps
<1> QED
  BY <1>4, <1>5 DEF Continue

LEMMA ReleaseWatch ==
  ASSUME NEW p \in Proc, NEW P \in Table, NEW R, NEW D, NEW T, now \in Nat, Release(p, P, R, D, T)
  PROVE  \E at \in Int :
           /\ proc'[p].suspended = P[p].suspended /\ proc'[p].tail = P[p].tail
           /\ proc'[p].deadline = DeadlineAt(p, at)
           /\ \/ proc'[p].state = "WAITING" /\ deadlineQ' = D
              \/ proc'[p].state = "READY" /\ deadlineQ' = Arm(D, p, DeadlineAt(p, at))
<1>1. P[p].delay \in Int
  BY DEF Table, ProcessInfo
<1>2. /\ \A s \in NextPeriodStart : s + P[p].delay \in Int
      /\ now + P[p].delay \in Int /\ now \in Int
  BY <1>1, ConstantTypes DEF NextPeriodStart
<1>3. ASSUME NEW at \in Int, deadlineQ' = D,
             proc' = [P EXCEPT ![p].state = "WAITING", ![p].release = at,
                               ![p].deadline = DeadlineAt(p, at), ![p].woken = FALSE]
      PROVE  /\ proc'[p].suspended = P[p].suspended /\ proc'[p].tail = P[p].tail
             /\ proc'[p].deadline = DeadlineAt(p, at) /\ proc'[p].state = "WAITING"
  <2> DEFINE d == DeadlineAt(p, at)
  <2>1. proc' = [P EXCEPT ![p].state = "WAITING", ![p].release = at, ![p].deadline = d, ![p].woken = FALSE]
    BY <1>3
  <2> SUFFICES /\ proc'[p].suspended = P[p].suspended /\ proc'[p].tail = P[p].tail
               /\ proc'[p].deadline = d /\ proc'[p].state = "WAITING"
    OBVIOUS
  <2> HIDE DEF d
  <2> QED BY <2>1 DEF Table, ProcessInfo
<1>4. ASSUME proc' = [P EXCEPT ![p].state = "READY", ![p].release = now, ![p].deadline = DeadlineAt(p, now)]
      PROVE  /\ proc'[p].suspended = P[p].suspended /\ proc'[p].tail = P[p].tail
             /\ proc'[p].deadline = DeadlineAt(p, now) /\ proc'[p].state = "READY"
  <2> DEFINE d == DeadlineAt(p, now)
  <2>1. proc' = [P EXCEPT ![p].state = "READY", ![p].release = now, ![p].deadline = d]
    BY <1>4
  <2> SUFFICES /\ proc'[p].suspended = P[p].suspended /\ proc'[p].tail = P[p].tail
               /\ proc'[p].deadline = d /\ proc'[p].state = "READY"
    OBVIOUS
  <2> HIDE DEF d
  <2> QED BY <2>1 DEF Table, ProcessInfo
<1>5. CASE /\ proc' = [P EXCEPT ![p].state = "READY", ![p].release = now, ![p].deadline = DeadlineAt(p, now)]
           /\ deadlineQ' = Arm(D, p, DeadlineAt(p, now))
  BY <1>2, <1>4, <1>5
<1>6. CASE \E at \in Int :
             /\ proc' = [P EXCEPT ![p].state = "WAITING", ![p].release = at,
                                  ![p].deadline = DeadlineAt(p, at), ![p].woken = FALSE]
             /\ deadlineQ' = D
  BY <1>3, <1>6
<1> QED
  BY <1>2, <1>5, <1>6 DEF Release

LEMMA DelayedStartWatch ==
  ASSUME WatchInv, WaitInv', NEW p \in Proc, NEW d \in Delays, DELAYED_START(p, d)
  PROVE  WatchStep(p)
<1> DEFINE base == BasePriority[p]
           P == [proc EXCEPT ![p].suspended = FALSE, ![p].suspendedTimeout = FALSE,
                             ![p].prio = base, ![p].delay = d, ![p].tail = "none"]
           D == Dequeue(deadlineQ, p)
<1>1. /\ WaitInv /\ StatesInv /\ WaitStep(p) /\ proc \in Table /\ kpc = "idle" /\ now \in Nat
      /\ deadlineQ \in DistinctQueue
  BY DelayedStartWaits, AtCall, PlaceOf
     DEF DELAYED_START, WatchInv, WaitInv, DispatchInv, StatesInv, TypeInv, TypeOK
<1>2. P \in Table
  BY <1>1, StartedTable DEF StatesInv, TypeInv
<1>3. \/ Release(p, P, Dequeue(ready, p), D, Dequeue(timeoutQ, p))
      \/ proc' = [P EXCEPT ![p].state = "WAITING"] /\ deadlineQ' = D
  BY DEF DELAYED_START, RemoveFromAll
<1>4. D \in DistinctQueue /\ p \notin Ids(D) /\ Rest(D, p) = Rest(deadlineQ, p) /\ D = Dequeue(deadlineQ, p)
  BY <1>1, DeadlineOps
<1>5. P[p].tail = "none" /\ ~ P[p].suspended /\ P[p].deadline = proc[p].deadline
  <2> HIDE DEF base
  <2> QED BY <1>1 DEF Table, ProcessInfo
<1> HIDE DEF P, D
<1>6. CASE Release(p, P, Dequeue(ready, p), D, Dequeue(timeoutQ, p))
  <2>1. PICK at \in Int :
           /\ proc'[p].suspended = P[p].suspended /\ proc'[p].tail = P[p].tail
           /\ proc'[p].deadline = DeadlineAt(p, at)
           /\ \/ proc'[p].state = "WAITING" /\ deadlineQ' = D
              \/ proc'[p].state = "READY" /\ deadlineQ' = Arm(D, p, DeadlineAt(p, at))
    BY <1>1, <1>2, <1>6, ReleaseWatch
  <2>2. Justified(p)
    BY <1>5, <2>1 DEF Justified
  <2>3. CASE proc'[p].state = "WAITING" /\ deadlineQ' = D
    <3>1. ~ CanRun(p)'
      BY <1>5, <2>1, <2>3, AwaitsAfter DEF CanRun, Runnable
    <3> QED BY <1>1, <1>4, <2>2, <2>3, <3>1, Removes DEF WatchStep
  <2>4. CASE proc'[p].state = "READY" /\ deadlineQ' = Arm(D, p, DeadlineAt(p, at))
    <3>1. DeadlineAt(p, at) \in Int /\ ~ ToBeStarted(p)'
      BY <2>4, DeadlineType DEF ToBeStarted
    <3>2. Rest(deadlineQ', p) = Rest(deadlineQ, p) /\ (Leaves(p) \/ Armed(p) \/ Stale(p))
      BY <1>4, <2>1, <2>4, <3>1, Arms
    <3> QED BY <1>1, <2>2, <3>2 DEF WatchStep
  <2> QED BY <2>1, <2>3, <2>4
<1>7. CASE proc' = [P EXCEPT ![p].state = "WAITING"] /\ deadlineQ' = D
  <2>1. /\ proc'[p].state = "WAITING" /\ proc'[p].tail = "none" /\ ~ proc'[p].suspended
        /\ proc'[p].deadline = proc[p].deadline
    BY <1>2, <1>5, <1>7 DEF Table, ProcessInfo
  <2>2. ~ CanRun(p)' /\ Justified(p)
    BY <2>1, AwaitsAfter DEF CanRun, Runnable, Justified
  <2> QED BY <1>1, <1>4, <1>7, <2>2, Removes DEF WatchStep
<1> QED
  BY <1>3, <1>6, <1>7

LEMMA StartNextWatch ==
  ASSUME WatchInv, WaitInv', NEW p \in Proc, p = Order[started + 1], StartNext
  PROVE  WatchStep(p)
<1>1. /\ WaitInv /\ StatesInv /\ WaitStep(p) /\ proc \in Table /\ kpc = "starting" /\ now \in Nat
      /\ deadlineQ \in DistinctQueue /\ waitq' = waitq /\ started < count
  BY StartNextWaits, PlaceOf
     DEF StartNext, WatchInv, WaitInv, DispatchInv, StatesInv, TypeInv, TypeOK
<1>2. CASE proc[p].state = "WAITING" /\ Release(p, proc, ready, deadlineQ, timeoutQ)
  <2>1. PICK at \in Int :
           /\ proc'[p].suspended = proc[p].suspended /\ proc'[p].tail = proc[p].tail
           /\ proc'[p].deadline = DeadlineAt(p, at)
           /\ \/ proc'[p].state = "WAITING" /\ deadlineQ' = deadlineQ
              \/ proc'[p].state = "READY" /\ deadlineQ' = Arm(deadlineQ, p, DeadlineAt(p, at))
    BY <1>1, <1>2, ReleaseWatch
  <2>2. Justified(p)
    BY <2>1 DEF Justified
  <2>3. p \notin Ids(deadlineQ)
    <3>1. started \in Nat /\ count \in Nat
      BY <1>1, ConstantTypes DEF StatesInv, TypeInv, TypeOK
    <3>2. started + 1 \in (started + 1)..count
      BY <1>1, <3>1
    <3>3. ToBeStarted(p)
      BY <1>1, <1>2, <3>2 DEF ToBeStarted
    <3> QED BY <3>3 DEF WatchInv, Watched, Watches
  <2>4. CASE proc'[p].state = "WAITING" /\ deadlineQ' = deadlineQ
    <3>1. proc[p].tail = "none"
      BY <1>1, <1>2 DEF WaitInv, Answers, Answer
    <3>2. ~ CanRun(p)'
      BY <2>1, <2>4, <3>1, AwaitsAfter DEF CanRun, Runnable
    <3> QED BY <1>1, <2>2, <2>3, <2>4, <3>2 DEF Leaves, WatchStep
  <2>5. CASE proc'[p].state = "READY" /\ deadlineQ' = Arm(deadlineQ, p, DeadlineAt(p, at))
    <3>1. DeadlineAt(p, at) \in Int /\ ~ ToBeStarted(p)'
      BY <2>5, DeadlineType DEF ToBeStarted
    <3>2. Rest(deadlineQ', p) = Rest(deadlineQ, p) /\ (Leaves(p) \/ Armed(p) \/ Stale(p))
      BY <1>1, <2>1, <2>3, <2>5, <3>1, Arms
    <3> QED BY <1>1, <2>2, <3>2 DEF WatchStep
  <2> QED BY <2>1, <2>4, <2>5
<1>3. CASE proc[p].state # "WAITING" /\ UNCHANGED <<proc, deadlineQ>>
  <2>1. (CanRun(p)' => CanRun(p)) /\ ~ ToBeStarted(p)'
    BY <1>1, <1>3 DEF CanRun, Runnable, Awaits, ToBeStarted
  <2> QED BY <1>1, <1>3, <2>1, Keeps
<1> QED
  BY <1>2, <1>3 DEF StartNext

LEMMA SetPriorityWatch ==
  ASSUME WatchInv, NEW p \in Proc, NEW prio \in Priorities, SET_PRIORITY(p, prio)
  PROVE  WatchStep(p)
<1>1. WaitInv /\ StatesInv /\ WaitStep(p) /\ proc \in Table /\ kpc = "idle" /\ prio \in Int
  <2>1. WaitInv /\ StatesInv /\ WaitStep(p)
    BY SetPriorityWaits DEF WatchInv, WaitInv, DispatchInv
  <2>2. kpc = "idle"
    BY <2>1, AtCall DEF SET_PRIORITY
  <2> QED BY <2>1, <2>2, PlaceOf, ConstantTypes
<1>2. /\ deadlineQ' = deadlineQ /\ proc' = [proc EXCEPT ![p].prio = prio] /\ timeoutQ' = timeoutQ
      /\ UNCHANGED <<mode, count, started>> /\ kpc' \in {"idle", "events"}
  BY <1>1 DEF SET_PRIORITY, YieldIf, Yield, kernel, partition
<1>3. /\ proc'[p].state = proc[p].state /\ proc'[p].tail = proc[p].tail
      /\ proc'[p].suspended = proc[p].suspended /\ proc'[p].deadline = proc[p].deadline
      /\ proc'[p].granted = proc[p].granted /\ proc'[p].woken = proc[p].woken
  BY <1>1, <1>2 DEF Table, ProcessInfo
<1>4. Moves(p, prio)
  BY <1>2, <1>3 DEF SET_PRIORITY, Moves
<1>5. Awaits(p)' <=> Awaits(p)
  BY <1>1, <1>4, MovesWaits DEF SameWaits
<1>6. (CanRun(p)' => CanRun(p)) /\ (ToBeStarted(p)' => ToBeStarted(p))
  BY <1>1, <1>2, <1>3, <1>5 DEF CanRun, Runnable, ToBeStarted
<1> QED
  BY <1>1, <1>2, <1>3, <1>6, Keeps

\* The ends of waits, and what changes a process's state alone.
LEMMA SignalWatch ==
  ASSUME WatchInv, WaitInv', NEW r \in Resource, NEW b, kpc = "idle", SIGNAL_RESOURCE(r, b)
  PROVE  \E p \in Proc : WatchStep(p)
<1>1. WaitInv /\ StatesInv
  BY DEF WatchInv, WaitInv, DispatchInv
<1>2. PICK p \in Proc : p = Head(waitq[r]).id /\ WaitStep(p)
  BY <1>1, SignalWaits
<1>3. /\ proc \in Table /\ waitq \in [Resource -> DistinctQueue] /\ waitq[r] # <<>> /\ deadlineQ' = deadlineQ
  BY <1>1, PlaceOf DEF SIGNAL_RESOURCE, SignalHead
<1>4. \/ ~ proc[p].suspended /\ proc' = [proc EXCEPT ![p].state = "READY", ![p].granted = TRUE]
      \/ proc[p].suspended /\ proc' = [proc EXCEPT ![p].granted = TRUE]
  BY <1>2 DEF SIGNAL_RESOURCE, SignalHead
<1>5. /\ \/ ~ proc[p].suspended /\ proc'[p].state = "READY"
         \/ proc[p].suspended /\ proc'[p].state = proc[p].state
      /\ proc'[p].tail = proc[p].tail /\ proc'[p].suspended = proc[p].suspended
      /\ proc'[p].deadline = proc[p].deadline
  BY <1>3, <1>4 DEF Table, ProcessInfo
<1>6. Awaits(p) /\ proc[p].state = "WAITING"
  BY <1>1, <1>2, <1>3, QueueIds, PlaceOf DEF Awaits
<1>7. CanRun(p)' => CanRun(p)
  BY <1>5, <1>6, AwaitsAfter DEF CanRun, Runnable
<1>8. mode' = mode /\ kpc' # "starting"
  BY <1>2 DEF WaitStep, Stage, SIGNAL_RESOURCE, YieldIf, Yield, kernel
<1>9. ToBeStarted(p)' => ToBeStarted(p)
  BY <1>6, <1>8 DEF ToBeStarted
<1>10. proc'[p].state # "DORMANT"
  BY <1>5, <1>6
<1> QED
  BY <1>2, <1>3, <1>5, <1>7, <1>9, <1>10, Keeps

LEMMA TimeoutWatch ==
  ASSUME WatchInv, WaitInv', Timeout
  PROVE  \E p \in Proc : WatchStep(p)
<1>1. WaitInv /\ StatesInv
  BY DEF WatchInv, WaitInv, DispatchInv
<1>2. PICK p \in Proc : p = Head(timeoutQ).id /\ WaitStep(p)
  BY <1>1, TimeoutWaits
<1>3. proc \in Table /\ deadlineQ \in DistinctQueue /\ kpc = "timeouts" /\ mode = "NORMAL" /\ proc[p].deadline \in Int
  BY <1>1, PlaceOf DEF Timeout, StatesInv, Control, ContextScheduled, Table, ProcessInfo
<1>4. p \in Ids(timeoutQ) /\ proc[p].state = "WAITING"
  BY <1>1, <1>2, QueueIds, PlaceOf DEF Timeout, Due
<1>5. /\ \/ proc' = [proc EXCEPT ![p].woken = TRUE, ![p].state = "READY"]
         \/ proc' = [proc EXCEPT ![p].woken = TRUE, ![p].state = @]
      /\ deadlineQ' = IF Enqueued(deadlineQ, p) THEN deadlineQ ELSE Arm(deadlineQ, p, proc[p].deadline)
  BY <1>2 DEF Timeout
<1>6. /\ proc'[p].state \in {"READY", proc[p].state}
      /\ proc'[p].tail = proc[p].tail /\ proc'[p].suspended = proc[p].suspended
      /\ proc'[p].deadline = proc[p].deadline
  BY <1>3, <1>5 DEF Table, ProcessInfo
<1>7. mode' = "NORMAL" /\ kpc' = "timeouts"
  BY <1>2, <1>3 DEF WaitStep, Stage, Timeout, kernel
<1>8. ~ ToBeStarted(p)' /\ proc'[p].state # "DORMANT"
  BY <1>4, <1>6, <1>7 DEF ToBeStarted
<1>9. CASE Enqueued(deadlineQ, p)
  <2>1. Watches(p) /\ deadlineQ' = deadlineQ
    BY <1>5, <1>9, EnqueuedIsInIds DEF Watches
  <2> QED BY <1>2, <1>6, <1>8, <2>1, Keeps
<1>10. CASE ~ Enqueued(deadlineQ, p)
  <2>1. p \notin Ids(deadlineQ) /\ deadlineQ' = Arm(deadlineQ, p, proc[p].deadline)
    BY <1>5, <1>10, EnqueuedIsInIds
  <2>2. Rest(deadlineQ', p) = Rest(deadlineQ, p) /\ (Leaves(p) \/ Armed(p) \/ Stale(p))
    BY <1>3, <1>6, <1>8, <2>1, Arms
  <2>3. Justified(p)
    BY <1>6 DEF Justified
  <2> QED BY <1>2, <2>2, <2>3 DEF WatchStep
<1> QED
  BY <1>9, <1>10

LEMMA DeadlineWatch ==
  ASSUME WatchInv, Deadline
  PROVE  (\E p \in Proc : WatchStep(p)) \/ \E m : LeaveMode(m)
<1> SUFFICES ASSUME ~ \E m : LeaveMode(m) PROVE \E p \in Proc : WatchStep(p)
  OBVIOUS
<1>1. WaitInv /\ StatesInv
  BY DEF WatchInv, WaitInv, DispatchInv
<1>2. PICK p \in Proc : p = Head(deadlineQ).id /\ WaitStep(p)
  BY <1>1, DeadlineWaits
<1>3. /\ proc \in Table /\ deadlineQ' = Dequeue(deadlineQ, p)
      /\ proc' = [proc EXCEPT ![p].deadline = Infinite]
  BY <1>1, <1>2, PlaceOf DEF Deadline
<1>4. /\ proc'[p].deadline = Infinite /\ proc'[p].tail = proc[p].tail /\ proc'[p].suspended = proc[p].suspended
  BY <1>3 DEF Table, ProcessInfo
<1>5. Justified(p)
  BY <1>4 DEF Justified
<1> QED
  BY <1>1, <1>2, <1>3, <1>4, <1>5, Removes DEF WatchStep

LEMMA StateWatch ==
  ASSUME WatchInv, NEW p \in Proc, NEW s, WaitStep(p), UNCHANGED <<deadlineQ, waitq>>,
         proc' = [proc EXCEPT ![p].state = s], s # "WAITING",
         s = "DORMANT" <=> proc[p].state = "DORMANT", s \in {"READY", "RUNNING"} => Runnable(p)
  PROVE  WatchStep(p)
<1>1. proc \in Table
  BY PlaceOf DEF WatchInv, WaitInv, DispatchInv
<1>2. /\ proc'[p].state = s /\ proc'[p].tail = proc[p].tail
      /\ proc'[p].suspended = proc[p].suspended /\ proc'[p].deadline = proc[p].deadline
  BY <1>1 DEF Table, ProcessInfo
<1>3. (CanRun(p)' => CanRun(p)) /\ ~ ToBeStarted(p)'
  BY <1>2 DEF CanRun, Runnable, Awaits, ToBeStarted
<1> QED
  BY <1>2, <1>3, Keeps

LEMMA CreateProcessWatch ==
  ASSUME WatchInv, CREATE_PROCESS
  PROVE  \E p \in Proc : WatchStep(p)
<1>1. WaitInv /\ StatesInv
  BY DEF WatchInv, WaitInv, DispatchInv
<1>2. PICK p \in Proc : p = Order[count + 1] /\ WaitStep(p)
  BY <1>1, CreateProcessWaits
<1>3. proc[p].state = "DORMANT"
  <2>1. count \in Nat /\ count < Len(Order)
    BY <1>1, ConstantTypes DEF CREATE_PROCESS, StatesInv, TypeInv, TypeOK
  <2>2. count + 1 \in 1..Len(Order) /\ \A i \in 1..count : i \in 1..Len(Order) /\ i # count + 1
    BY <2>1, ConstantTypes
  <2>3. \A i, j \in 1..Len(Order) : Order[i] = Order[j] => i = j
    BY ProcessesAssumption
  <2>4. p \notin Created
    BY <1>2, <2>2, <2>3 DEF Created
  <2> QED BY <1>1, <2>4 DEF StatesInv, Places, UncreatedDormant
<1>4. UNCHANGED <<deadlineQ, waitq>> /\ proc' = [proc EXCEPT ![p].state = "DORMANT"]
  BY <1>2 DEF CREATE_PROCESS, queues
<1>5. WatchStep(p)
  BY <1>2, <1>3, <1>4, StateWatch
<1> QED
  BY <1>5

LEMMA StopHandlerWatch ==
  ASSUME WatchInv, StopErrorHandler, proc' # proc
  PROVE  \E p \in Proc : WatchStep(p)
<1>1. WaitInv /\ StatesInv
  BY DEF WatchInv, WaitInv, DispatchInv
<1>2. PICK p \in Proc : p = eh.preempted /\ WaitStep(p)
  BY <1>1, StopHandlerWaits
<1>3. lock > 0 /\ UNCHANGED <<deadlineQ, waitq>> /\ proc' = [proc EXCEPT ![p].state = "RUNNING"]
  BY <1>2 DEF StopErrorHandler, queues
<1>4. Runnable(p)
  BY <1>1, <1>2, <1>3, ConstantTypes DEF StatesInv, Control, HolderRunnable
<1>5. WatchStep(p)
  BY <1>2, <1>3, <1>4, StateWatch DEF Runnable
<1> QED
  BY <1>5

LEMMA DispatchWatch ==
  ASSUME WatchInv, ScheduleProcessOut \/ ScheduleProcessIn, proc' # proc
  PROVE  \E p \in Proc : WatchStep(p)
<1>1. WaitInv /\ StatesInv
  BY DEF WatchInv, WaitInv, DispatchInv
<1>2. PICK p \in Proc : p = Head(ready).id /\ WaitStep(p)
  BY <1>1, ProcessOutWaits, ProcessInWaits
<1>3. /\ ready # <<>> /\ UNCHANGED <<deadlineQ, waitq>>
      /\ \E s \in {"READY", "RUNNING"} : proc' = [proc EXCEPT ![p].state = s]
  BY <1>2 DEF ScheduleProcessOut, StopCallback, StopHandler, Preempt, StayOn, ScheduleProcessIn, StartCallback,
              StartHandler, Dispatch, MayDispatch, NothingToStart, queues
<1>4. Runnable(p)
  BY <1>1, <1>2, <1>3, QueueIds, PlaceOf
<1>5. WatchStep(p)
  BY <1>2, <1>3, <1>4, StateWatch DEF Runnable
<1> QED
  BY <1>5

\* The steps that leave all this alone.
NoWatchStep == NoWaitStep /\ deadlineQ' = deadlineQ

LEMMA ModeWatch ==
  ASSUME NEW m, LeaveMode(m), kpc # "starting"
  PROVE  Reinitialize \/ NoWatchStep
BY DEF LeaveMode, GoIdle, Restart, Wiped, NoWaitStep, NoWatchStep, queues, partition

LEMMA QuietWatch ==
  ASSUME \/ LOCK_PREEMPTION \/ UNLOCK_PREEMPTION \/ CREATE_ERROR_HANDLER \/ GET_ERROR_STATUS
         \/ \E r \in Resource : CREATE_RESOURCE(r)
         \/ HandleEvents \/ TimeoutsDone \/ DeadlinesDone \/ KeepPartition \/ SchedulePartitionOut
         \/ EnterPartition \/ StayOut \/ TICK \/ OtherYields
         \/ (StopErrorHandler \/ ScheduleProcessOut \/ ScheduleProcessIn) /\ proc' = proc
  PROVE  NoWatchStep
<1>1. NoWaitStep
  BY QuietWaits
<1>2. deadlineQ' = deadlineQ
  BY DEF LOCK_PREEMPTION, UNLOCK_PREEMPTION, CREATE_ERROR_HANDLER, GET_ERROR_STATUS, CREATE_RESOURCE, TICK,
         HandleEvents, TimeoutsDone, DeadlinesDone, KeepPartition, SchedulePartitionOut, EnterPartition,
         StayOut, OtherYields, StopErrorHandler, ScheduleProcessOut, ScheduleProcessIn, queues
<1> QED
  BY <1>1, <1>2 DEF NoWatchStep

LEMMA ErrorWatch ==
  ASSUME RAISE_APPLICATION_ERROR \/ CallbackReturns
  PROVE  Reinitialize \/ NoWatchStep
<1>1. kpc = "idle"
  BY DEF RAISE_APPLICATION_ERROR, CallbackReturns, Call, AtRest
<1>2. CASE \E m : LeaveMode(m)
  BY <1>1, <1>2, ModeWatch
<1>3. CASE UNCHANGED <<proc, queues, partition>> /\ Yield
  BY <1>1, <1>3 DEF NoWatchStep, NoWaitStep, queues, partition, Yield
<1> QED
  BY <1>2, <1>3 DEF RAISE_APPLICATION_ERROR, CallbackReturns

LEMMA StepsWatch ==
  ASSUME WatchInv, WaitInv', Next
  PROVE  \/ \E p \in Proc : WatchStep(p)
         \/ Reinitialize \/ NoWatchStep \/ SetNormalMode \/ StartDone
<1> SUFFICES ASSUME ~ Reinitialize, ~ NoWatchStep, ~ SetNormalMode, ~ StartDone
             PROVE  \E p \in Proc : WatchStep(p)
  OBVIOUS
<1>1. WaitInv
  BY DEF WatchInv
<1>2. ASSUME Services PROVE \E p \in Proc : WatchStep(p)
  <2>1. CASE CREATE_PROCESS
    BY <2>1, CreateProcessWatch
  <2>2. CASE StopErrorHandler
    BY <2>2, QuietWatch, StopHandlerWatch
  <2>3. CASE STOP_SELF
    <3>1. PICK p \in Proc : p = current
      BY <1>1, <2>3, CallerRuns DEF STOP_SELF
    <3> QED BY <2>3, <3>1, StopSelfWatch
  <2>4. CASE PERIODIC_WAIT
    <3>1. PICK p \in Proc : p = current
      BY <1>1, <2>4, CallerRuns DEF PERIODIC_WAIT, MayBlock
    <3> QED BY <2>4, <3>1, PeriodicWaitWatch
  <2>5. ASSUME (\E t \in TimeOuts : SUSPEND_SELF(t)) \/ \E b \in Budgets : REPLENISH(b)
        PROVE  \E p \in Proc : WatchStep(p)
    <3>1. PICK p \in Proc : p = current
      BY <1>1, <2>5, CallerRuns DEF SUSPEND_SELF, REPLENISH, MayBlock
    <3> QED BY <2>5, <3>1, SuspendWatch, ReplenishWatch
  <2>6. ASSUME NEW d \in Delays, TIMED_WAIT(d) PROVE \E p \in Proc : WatchStep(p)
    <3>1. PICK p \in Proc : p = current
      BY <1>1, <2>6, CallerRuns DEF TIMED_WAIT, MayBlock
    <3> QED BY <2>6, <3>1, TimedWaitWatch
  <2>7. ASSUME NEW p \in Proc,
               \/ SUSPEND(p) \/ RESUME(p) \/ STOP(p)
               \/ \E d \in Delays : DELAYED_START(p, d)
               \/ \E prio \in Priorities : SET_PRIORITY(p, prio)
        PROVE  \E x \in Proc : WatchStep(x)
    BY <2>7, SuspendWatch, ResumeWatch, StopWatch, DelayedStartWatch, SetPriorityWatch
  <2>8. ASSUME NEW m, SetStartMode(m) PROVE FALSE
    BY <2>8, ModeWatch DEF SetStartMode, Call, AtRest
  <2>9. ~ RAISE_APPLICATION_ERROR
    BY ErrorWatch
  <2>10. ~ (LOCK_PREEMPTION \/ UNLOCK_PREEMPTION \/ CREATE_ERROR_HANDLER \/ GET_ERROR_STATUS)
    BY QuietWatch
  <2> QED BY <1>2, <2>1, <2>2, <2>3, <2>4, <2>5, <2>6, <2>7, <2>8, <2>9, <2>10 DEF Services
<1>3. ASSUME Scheduler PROVE \E p \in Proc : WatchStep(p)
  <2>1. CASE StartNext
    <3>1. started \in Nat /\ count \in Nat /\ count <= Len(Order) /\ started < count
      BY <1>1, <2>1, ConstantTypes DEF StartNext, WaitInv, DispatchInv, StatesInv, TypeInv, TypeOK
    <3>2. PICK p \in Proc : p = Order[started + 1]
      BY <3>1, ConstantTypes
    <3> QED BY <2>1, <3>2, StartNextWatch
  <2>2. CASE Timeout
    BY <2>2, TimeoutWatch
  <2>3. CASE Deadline
    <3>1. ~ \E m : LeaveMode(m)
      BY <2>3, ModeWatch DEF Deadline
    <3> QED BY <2>3, <3>1, DeadlineWatch
  <2>4. CASE ScheduleProcessOut \/ ScheduleProcessIn
    BY <2>4, QuietWatch, DispatchWatch
  <2>5. ~ (HandleEvents \/ TimeoutsDone \/ DeadlinesDone \/ KeepPartition \/ SchedulePartitionOut
           \/ EnterPartition \/ StayOut)
    BY QuietWatch
  <2> QED BY <1>3, <2>1, <2>2, <2>3, <2>4, <2>5 DEF Scheduler
<1>4. ASSUME ResourceServices PROVE \E p \in Proc : WatchStep(p)
  <2>1. PICK r \in Resource :
          \/ \E t \in TimeOuts : Call("WAIT_RESOURCE") /\ WAIT_RESOURCE(r, t)
          \/ kpc = "idle" /\ \E b \in BOOLEAN : SIGNAL_RESOURCE(r, b)
    BY <1>1, <1>4 DEF ResourceServices, WaitInv, DispatchInv, StatesInv, TypeInv, TypeOK, Call, AtRest
  <2>2. ASSUME NEW t \in TimeOuts, Call("WAIT_RESOURCE"), WAIT_RESOURCE(r, t) PROVE \E p \in Proc : WatchStep(p)
    <3>1. PICK p \in Proc : p = current
      BY <1>1, <2>2, CallerRuns DEF WAIT_RESOURCE, MayBlock
    <3> QED BY <2>2, <3>1, WaitResourceWatch
  <2> QED BY <2>1, <2>2, SignalWatch
<1>5. ASSUME Continues PROVE \E p \in Proc : WatchStep(p)
  BY <1>5, ContinueWatch DEF Continues
<1>6. ~ (CallbackReturns \/ TICK \/ OtherYields \/ \E r \in Resource : CREATE_RESOURCE(r))
  BY QuietWatch, ErrorWatch
<1> QED
  BY <1>2, <1>3, <1>4, <1>5, <1>6 DEF Next, Internal

LEMMA BlankWatched ==
  ASSUME NEW p \in Proc, proc[p] = Blank, deadlineQ = <<>>, \A r \in Resource : waitq[r] = <<>>
  PROVE  Watched(p)
<1>1. /\ proc[p].state = "DORMANT" /\ proc[p].deadline = Infinite /\ ~ proc[p].suspended
      /\ proc[p].tail = "none"
  BY DEF Blank
<1>2. ~ Watches(p) /\ Entries(deadlineQ) = {}
  BY QueueIds DEF Watches, Entries
<1>3. Uncalled(p)
  BY <1>1, <1>2 DEF Uncalled
<1> QED
  BY <1>1, <1>2, <1>3, QueueIds DEF Watched, CanRun, Runnable, Awaits, KeyedAt

LEMMA WatchInvInductive ==
  ASSUME HmCallback = FALSE
  PROVE  /\ Init => WatchInv
         /\ WatchInv /\ [Next]_vars /\ [kpc = "deadlines" => mode' \in {mode, "IDLE"}]_vars => WatchInv'
<1>1. Init => WatchInv
  BY BlankWatched, WaitInvInductive DEF Init, WatchInv
<1>2. ASSUME WatchInv, [Next]_vars, [kpc = "deadlines" => mode' \in {mode, "IDLE"}]_vars
      PROVE  WatchInv'
  <2>1. WaitInv /\ WaitInv'
    BY <1>2, WaitInvInductive DEF WatchInv
  <2>2. ASSUME Reinitialize PROVE (\A p \in Proc : Watched(p))'
    <3>1. deadlineQ' = <<>> /\ Entries(deadlineQ') = {} /\ \A r \in Resource : waitq'[r] = <<>>
      BY <2>2 DEF Reinitialize, Entries
    <3>2. ASSUME NEW p \in Proc PROVE Watched(p)'
      <4>1. /\ proc'[p].state = "DORMANT" /\ proc'[p].deadline = Infinite /\ ~ proc'[p].suspended
            /\ proc'[p].tail = "none"
        BY <2>2 DEF Reinitialize, Blank
      <4>2. ~ Watches(p)'
        BY <3>1, QueueIds DEF Watches
      <4>3. Uncalled(p)'
        BY <4>1, <4>2 DEF Uncalled
      <4> QED BY <3>1, <4>1, <4>2, <4>3, QueueIds DEF Watched, CanRun, Runnable, Awaits, KeyedAt
    <3> QED BY <3>2
  <2>3. ASSUME NEW p \in Proc, UNCHANGED <<proc, deadlineQ, waitq>>, ToBeStarted(p)' => ToBeStarted(p)
        PROVE  Watched(p)'
    <3>1. Watched(p)
      BY <1>2 DEF WatchInv
    <3> QED BY <2>3, <3>1 DEF Watched, CanRun, Runnable, Awaits, Watches, Uncalled
  <2>4. CASE NoWatchStep
    <3>1. \A p \in Proc : ToBeStarted(p)' => ToBeStarted(p)
      BY <2>4 DEF NoWatchStep, NoWaitStep, ToBeStarted
    <3> QED BY <2>1, <2>3, <2>4, <3>1 DEF NoWatchStep, NoWaitStep, WatchInv
  <2>5. CASE SetNormalMode
    <3>1. \A p \in Proc : ToBeStarted(p)' => ToBeStarted(p)
      BY <2>5 DEF SetNormalMode, ToBeStarted
    <3> QED BY <2>1, <2>3, <2>5, <3>1 DEF SetNormalMode, queues, WatchInv
  <2>6. CASE StartDone
    <3>1. \A p \in Proc : ~ ToBeStarted(p)'
      BY <2>1, <2>6 DEF StartDone, ToBeStarted, Yield, partition, WaitInv, DispatchInv, StatesInv, Control,
                        ContextScheduled
    <3> QED BY <2>1, <2>3, <2>6, <3>1 DEF StartDone, queues, WatchInv
  <2>7. CASE UNCHANGED vars
    <3>1. NoWatchStep
      BY <2>7 DEF vars, queues, partition, kernel, NoWaitStep, NoWatchStep
    <3> QED BY <2>4, <3>1
  <2>8. CASE \E p \in Proc : WatchStep(p)
    BY <1>2, <2>1, <2>8, WatchStepKeeps DEF WatchInv
  <2> QED BY <1>2, <2>1, <2>2, <2>4, <2>5, <2>6, <2>7, <2>8, StepsWatch DEF WatchInv
<1> QED
  BY <1>1, <1>2

\* DeadlineWatched: in a partition without a callback, as long as no missed deadline
\* restarts it from inside SCHEDULER, every process that can run and has a deadline
\* is in the queue of deadlines, none that is DORMANT is, and each entry's key is the
\* deadline its process has now: if every process has a time capacity, or the
\* application does not call REPLENISH, or it calls neither SUSPEND nor SUSPEND_SELF.
\* (Only the last part, the key, needs one of the three.)
THEOREM DeadlinesAreWatched ==
  ASSUME HmCallback = FALSE,
         \/ \A p \in Proc : TimeCapacity[p] # Infinite
         \/ "REPLENISH" \notin Calls
         \/ {"SUSPEND", "SUSPEND_SELF"} \cap Calls = {}
  PROVE  Spec /\ NoRestartInPass => []DeadlineWatched
<1>1. \A p \in Proc : ConfigOf(p)
  BY DEF ConfigOf, NoSuspending
<1>2. WatchInv => DeadlineWatched
  <2> SUFFICES ASSUME WatchInv, NEW p \in Proc
               PROVE  /\ Runnable(p) /\ proc[p].deadline # Infinite => Enqueued(deadlineQ, p)
                      /\ Enqueued(deadlineQ, p) => proc[p].state # "DORMANT"
                      /\ \A i \in DOMAIN deadlineQ : deadlineQ[i].id = p => deadlineQ[i].pri = proc[p].deadline
    BY DEF DeadlineWatched
  <2>1. Watched(p) /\ (Enqueued(deadlineQ, p) <=> Watches(p))
    BY EnqueuedIsInIds DEF WatchInv, Watches
  <2> QED BY <1>1, <2>1 DEF Watched, CanRun, KeyedAt, Entries
<1> QED
  BY <1>2, WatchInvInductive, PTL DEF Spec, NoRestartInPass

-----------------------------------------------------------------------------
(* The order of the deadlines, and the events that are served. Without     *)
(* SUSPEND a process enters the queue of deadlines only when it is not in  *)
(* it, so that ENQUEUE looks its place up.                                 *)

\* What a step may do to the queue of deadlines without disturbing its order.
Takes(q) == \E p \in Proc, k \in Int : p \notin Ids(q) /\ deadlineQ' = Enqueue(q, TRUE, p, k)
SortedStep ==
  \/ deadlineQ' \in {deadlineQ, <<>>}
  \/ \E p \in Proc : deadlineQ' = Dequeue(deadlineQ, p) \/ Takes(Dequeue(deadlineQ, p))
  \/ Takes(deadlineQ)

LEMMA SortedStepKeeps ==
  ASSUME deadlineQ \in DistinctQueue, DeadlinesSorted, SortedStep
  PROVE  DeadlinesSorted'
<1>1. ASSUME NEW q \in DistinctQueue, Sorted(q, TRUE), Takes(q) PROVE Sorted(deadlineQ', TRUE)
  <2>1. PICK p \in Proc, k \in Int : ~ Enqueued(q, p) /\ deadlineQ' = Enqueue(q, TRUE, p, k)
    BY <1>1, EnqueuedIsInIds DEF Takes
  <2>2. q \in Seq(Entry(Proc))
    BY DEF DistinctQueue, Queue
  <2>3. Sorted(Enqueue(q, TRUE, p, k), TRUE)
    BY <1>1, <2>1, <2>2, EnqueueSorted
  <2> QED BY <2>1, <2>3
<1>2. ASSUME NEW p \in Proc
      PROVE  Dequeue(deadlineQ, p) \in DistinctQueue /\ Sorted(Dequeue(deadlineQ, p), TRUE)
  BY DeadlineOps, DequeueSorted DEF DistinctQueue, Queue, DeadlinesSorted
<1>3. Sorted(<<>>, TRUE)
  BY DEF Sorted
<1> QED
  BY <1>1, <1>2, <1>3 DEF SortedStep, DeadlinesSorted

LEMMA ArmSorted ==
  ASSUME NEW p \in Proc, NEW q, NEW d \in Int, p \notin Ids(q), deadlineQ' = Arm(q, p, d),
         q = deadlineQ \/ q = Dequeue(deadlineQ, p)
  PROVE  SortedStep
BY DEF Arm, SortedStep, Takes

LEMMA DelayedStartSorted ==
  ASSUME WatchInv, NEW p \in Proc, NEW d \in Delays, DELAYED_START(p, d)
  PROVE  SortedStep
<1> DEFINE base == BasePriority[p]
           P == [proc EXCEPT ![p].suspended = FALSE, ![p].suspendedTimeout = FALSE,
                             ![p].prio = base, ![p].delay = d, ![p].tail = "none"]
           D == Dequeue(deadlineQ, p)
<1>1. WaitInv /\ StatesInv /\ proc \in Table /\ now \in Nat /\ deadlineQ \in DistinctQueue
  BY PlaceOf DEF WatchInv, WaitInv, DispatchInv, StatesInv, TypeInv, TypeOK
<1>2. P \in Table
  BY <1>1, StartedTable DEF StatesInv, TypeInv
<1>3. \/ Release(p, P, Dequeue(ready, p), D, Dequeue(timeoutQ, p))
      \/ deadlineQ' = D
  BY DEF DELAYED_START, RemoveFromAll
<1>4. p \notin Ids(D) /\ D = Dequeue(deadlineQ, p)
  BY <1>1, DeadlineOps
<1> HIDE DEF P, D
<1>5. ASSUME Release(p, P, Dequeue(ready, p), D, Dequeue(timeoutQ, p)) PROVE SortedStep
  <2>1. PICK at \in Int : deadlineQ' = D \/ deadlineQ' = Arm(D, p, DeadlineAt(p, at))
    BY <1>1, <1>2, <1>5, ReleaseWatch
  <2>2. DeadlineAt(p, at) \in Int
    BY DeadlineType
  <2> QED BY <1>4, <2>1, <2>2, ArmSorted DEF SortedStep
<1> QED
  BY <1>3, <1>4, <1>5 DEF SortedStep

LEMMA StartNextSorted ==
  ASSUME WatchInv, StartNext
  PROVE  SortedStep
<1>1. /\ StatesInv /\ now \in Nat /\ deadlineQ \in DistinctQueue /\ proc \in Table
      /\ started \in Nat /\ count \in Nat /\ count <= Len(Order) /\ started < count /\ kpc = "starting"
  <2>1. StatesInv /\ TypeOK
    BY DEF WatchInv, WaitInv, DispatchInv, StatesInv, TypeInv
  <2>2. deadlineQ \in DistinctQueue /\ proc \in Table
    BY <2>1 DEF StatesInv, TypeInv, TypeOK, QueuesOK, DistinctQueue, Table
  <2> QED BY <2>1, <2>2, ConstantTypes DEF TypeOK, StartNext
<1>2. PICK p \in Proc : p = Order[started + 1]
  BY <1>1, ConstantTypes
<1>3. CASE UNCHANGED deadlineQ
  BY <1>3 DEF SortedStep
<1>4. CASE proc[p].state = "WAITING" /\ Release(p, proc, ready, deadlineQ, timeoutQ)
  <2>1. PICK at \in Int : deadlineQ' = deadlineQ \/ deadlineQ' = Arm(deadlineQ, p, DeadlineAt(p, at))
    BY <1>1, <1>4, ReleaseWatch
  <2>2. DeadlineAt(p, at) \in Int
    BY DeadlineType
  <2>3. started + 1 \in (started + 1)..count
    BY <1>1
  <2>4. ToBeStarted(p)
    BY <1>1, <1>2, <1>4, <2>3 DEF ToBeStarted
  <2>5. p \notin Ids(deadlineQ)
    BY <2>4 DEF WatchInv, Watched, Watches
  <2> QED BY <2>1, <2>2, <2>5, ArmSorted DEF SortedStep
<1> QED
  BY <1>2, <1>3, <1>4 DEF StartNext

LEMMA ReplenishSorted ==
  ASSUME WatchInv, NEW t \in Budgets, REPLENISH(t)
  PROVE  SortedStep
<1>1. /\ WaitInv /\ deadlineQ \in DistinctQueue /\ now \in Nat /\ current \in Proc
  BY CallerRuns, PlaceOf DEF WatchInv, WaitInv, DispatchInv, StatesInv, TypeInv, TypeOK, REPLENISH
<1>2. PICK d \in Int : deadlineQ' = Arm(Dequeue(deadlineQ, current), current, d)
  <2>1. now + t \in Int /\ Infinite \in Int
    BY <1>1, ConstantTypes DEF Infinite
  <2> QED BY <2>1 DEF REPLENISH
<1> QED
  BY <1>1, <1>2, DeadlineOps, ArmSorted

LEMMA TimeoutSorted ==
  ASSUME WatchInv, Timeout
  PROVE  SortedStep
<1> DEFINE p == Head(timeoutQ).id
<1>1. /\ StatesInv /\ timeoutQ # <<>> /\ proc \in Table /\ timeoutQ \in DistinctQueue
  BY DEF WatchInv, WaitInv, DispatchInv, StatesInv, TypeInv, TypeOK, QueuesOK, DistinctQueue, Table,
         Timeout, Due
<1>2. p \in Proc /\ p = Head(timeoutQ).id
  BY <1>1, QueueIds
<1>3. deadlineQ' = IF Enqueued(deadlineQ, p) THEN deadlineQ ELSE Arm(deadlineQ, p, proc[p].deadline)
  BY DEF Timeout
<1> HIDE DEF p
<1>4. proc[p].deadline \in Int
  BY <1>1, <1>2 DEF Table, ProcessInfo
<1> QED
  BY <1>2, <1>3, <1>4, EnqueuedIsInIds, ArmSorted DEF SortedStep

\* Nobody is suspended, by WatchInv.
LEMMA NobodySuspended ==
  ASSUME NoSuspending, WatchInv, NEW p \in Proc
  PROVE  /\ ~ RESUME(p)
         /\ Continue(p) => UNCHANGED deadlineQ
<1>1. ~ proc[p].suspended /\ proc[p].tail \notin {"suspend", "suspendTimed"}
  BY DEF WatchInv, Watched, Uncalled
<1> QED
  BY <1>1 DEF RESUME, Continue

LEMMA SortedSteps ==
  ASSUME NoSuspending, WatchInv, Next
  PROVE  SortedStep
<1>1. StatesInv /\ deadlineQ \in DistinctQueue /\ WaitInv
  BY DEF WatchInv, WaitInv, DispatchInv, StatesInv, TypeInv, TypeOK, QueuesOK, DistinctQueue
<1>2. ASSUME NEW m, LeaveMode(m) PROVE SortedStep
  BY <1>2 DEF LeaveMode, Wiped, GoIdle, Restart, Reinitialize, SortedStep, queues
<1>3. CASE Services
  <2>1. CASE RAISE_APPLICATION_ERROR
    BY <1>2, <2>1 DEF RAISE_APPLICATION_ERROR, SortedStep, queues
  <2>2. CASE \E m \in {"IDLE", "COLD_START", "WARM_START"} : SetStartMode(m)
    BY <1>2, <2>2 DEF SetStartMode
  <2>3. CASE CREATE_PROCESS \/ LOCK_PREEMPTION \/ UNLOCK_PREEMPTION \/ SetNormalMode
             \/ StopErrorHandler \/ CREATE_ERROR_HANDLER \/ GET_ERROR_STATUS
    BY <2>3 DEF CREATE_PROCESS, LOCK_PREEMPTION, UNLOCK_PREEMPTION, SetNormalMode, StopErrorHandler,
                CREATE_ERROR_HANDLER, GET_ERROR_STATUS, SortedStep, queues
  <2>4. CASE STOP_SELF \/ PERIODIC_WAIT \/ \E t \in TimeOuts : SUSPEND_SELF(t)
    <3>1. current \in Proc
      BY <1>1, <2>4, CallerRuns DEF STOP_SELF, PERIODIC_WAIT, SUSPEND_SELF, MayBlock
    <3>2. deadlineQ' = Dequeue(deadlineQ, current)
      BY <2>4 DEF STOP_SELF, RemoveFromAll, PERIODIC_WAIT, SUSPEND_SELF
    <3> QED BY <3>1, <3>2 DEF SortedStep
  <2>5. CASE \E b \in Budgets : REPLENISH(b)
    BY <2>5, ReplenishSorted
  <2>6. CASE \E d \in Delays : TIMED_WAIT(d)
    BY <2>6 DEF TIMED_WAIT, SortedStep
  <2>7. ASSUME NEW p \in Proc, SUSPEND(p) \/ STOP(p) PROVE SortedStep
    BY <2>7 DEF SUSPEND, STOP, RemoveFromAll, SortedStep
  <2>8. ASSUME NEW p \in Proc, \E d \in Delays : DELAYED_START(p, d) PROVE SortedStep
    BY <2>8, DelayedStartSorted
  <2>9. ASSUME NEW p \in Proc, \E prio \in Priorities : SET_PRIORITY(p, prio) PROVE SortedStep
    BY <2>9 DEF SET_PRIORITY, SortedStep
  <2> QED BY <1>3, <2>1, <2>2, <2>3, <2>4, <2>5, <2>6, <2>7, <2>8, <2>9, NobodySuspended DEF Services
<1>4. CASE Scheduler
  <2>1. CASE StartNext \/ Timeout
    BY <2>1, StartNextSorted, TimeoutSorted
  <2>2. CASE Deadline
    <3>1. CASE \E m : LeaveMode(m)
      BY <1>2, <3>1
    <3>2. CASE deadlineQ' = Dequeue(deadlineQ, Head(deadlineQ).id)
      <4>1. Head(deadlineQ).id \in Proc
        BY <1>1, <2>2, QueueIds DEF Deadline, Due
      <4> QED BY <3>2, <4>1 DEF SortedStep
    <3> QED BY <2>2, <3>1, <3>2 DEF Deadline
  <2>3. CASE ~ (StartNext \/ Timeout \/ Deadline)
    <3>1. UNCHANGED deadlineQ
      BY <1>4, <2>3
      DEF Scheduler, StartDone, HandleEvents, TimeoutsDone, DeadlinesDone, ScheduleProcessOut, KeepPartition,
          SchedulePartitionOut, EnterPartition, StayOut, ScheduleProcessIn, queues
    <3> QED BY <3>1 DEF SortedStep
  <2> QED BY <2>1, <2>2, <2>3
<1>5. CASE Continues
  BY <1>5, NobodySuspended DEF Continues, SortedStep
<1>6. CASE TICK \/ OtherYields \/ \E r \in Resource : CREATE_RESOURCE(r)
  BY <1>6 DEF TICK, OtherYields, CREATE_RESOURCE, SortedStep, queues
<1>7. CASE CallbackReturns
  BY <1>2, <1>7 DEF CallbackReturns, SortedStep, queues
<1>8. CASE ResourceServices
  BY <1>8 DEF ResourceServices, WAIT_RESOURCE, SIGNAL_RESOURCE, SortedStep
<1> QED
  BY <1>3, <1>4, <1>5, <1>6, <1>7, <1>8 DEF Next, Internal

\* DeadlinesSorted: the queue of deadlines is in order of time in a partition without
\* a callback whose application calls neither SUSPEND nor SUSPEND_SELF, as long as no
\* missed deadline restarts it from inside SCHEDULER. (What RESUME and the rest of
\* SUSPEND_SELF do to an entry that is linked is the run DeadlineOrder.)
THEOREM DeadlinesKeepOrder ==
  ASSUME HmCallback = FALSE, {"SUSPEND", "SUSPEND_SELF"} \cap Calls = {}
  PROVE  Spec /\ NoRestartInPass => []DeadlinesSorted
<1>1. NoSuspending
  BY DEF NoSuspending
<1>2. Init => DeadlinesSorted
  BY DEF Init, DeadlinesSorted, Sorted
<1>3. WatchInv /\ DeadlinesSorted /\ [Next]_vars => DeadlinesSorted'
  <2> SUFFICES ASSUME WatchInv, DeadlinesSorted, [Next]_vars PROVE DeadlinesSorted'
    OBVIOUS
  <2>1. deadlineQ \in DistinctQueue
    BY DEF WatchInv, WaitInv, DispatchInv, StatesInv, TypeInv, TypeOK, QueuesOK, DistinctQueue
  <2>2. SortedStep
    BY <1>1, SortedSteps DEF SortedStep, vars, queues
  <2> QED BY <2>1, <2>2, SortedStepKeeps
<1> QED
  BY <1>2, <1>3, WatchInvInductive, PTL DEF Spec, NoRestartInPass

-----------------------------------------------------------------------------
(* What is due is served. Where the partition has the processor and        *)
(* preemption is not locked, without an error handler:                     *)

Unhindered == scheduled /\ mode = "NORMAL" /\ lock = 0 /\ ~ eh.exists
PastTimeouts == kpc \in {"deadlines", "out", "partition", "enter", "in", "idle"}
PastDeadlines == kpc \in {"out", "partition", "enter", "in", "idle"}
Later(q) == \A e \in Entries(q) : e.pri > now

\* Both loops leave nothing that is due behind, and nothing becomes due until the
\* pass is over, nor between two passes but by what the current process asks for itself.
Served ==
  /\ Unhindered /\ PastTimeouts => Later(timeoutQ)
  /\ Unhindered /\ PastDeadlines => \A e \in Entries(deadlineQ) : e.pri > now \/ OwnDue(e)

\* Without an error handler there are no errors for it.
Handlerless == ~ eh.exists => NoHandler

ServedInv == WatchInv /\ Handlerless /\ Served

\* The steps after which a pass is still to come, or not needed.
Hinders == ~ (Unhindered' /\ PastTimeouts')

\* The steps that queue nothing that is due.
Serves ==
  /\ now' = now /\ (Unhindered' => Unhindered)
  /\ (PastTimeouts' => PastTimeouts) /\ (PastDeadlines' => PastDeadlines)
  /\ Entries(timeoutQ') \subseteq Entries(timeoutQ)
  /\ \A e \in Entries(deadlineQ') : e \in Entries(deadlineQ) \/ e.pri > now \/ OwnDue(e)'
  /\ kpc = "idle" => kpc' = "idle" /\ current' = current

\* An error handler, once created, stays until the partition is reinitialized.
LEMMA HandlerStays ==
  ASSUME TypeOK, Next, eh.exists, ~ eh'.exists
  PROVE  \E m : LeaveMode(m)
<1>0. eh \in ErrorHandlers
  BY DEF TypeOK, ErrorHandlers
<1> SUFFICES ASSUME ~ \E m : LeaveMode(m) PROVE FALSE
  OBVIOUS
<1>1. NotifyHandler => eh'.exists
  BY <1>0 DEF NotifyHandler, ErrorHandlers
<1>2. NotifyCallback => eh'.exists
  BY DEF NotifyCallback
<1>3. ~ Services
  <2>1. ~ RAISE_APPLICATION_ERROR
    BY <1>1, <1>2 DEF RAISE_APPLICATION_ERROR
  <2>2. ~ \E m \in {"IDLE", "COLD_START", "WARM_START"} : SetStartMode(m)
    BY DEF SetStartMode
  <2>3. ~ (CREATE_PROCESS \/ STOP_SELF \/ LOCK_PREEMPTION \/ UNLOCK_PREEMPTION \/ PERIODIC_WAIT \/ SetNormalMode)
    BY DEF CREATE_PROCESS, STOP_SELF, LOCK_PREEMPTION, UNLOCK_PREEMPTION, PERIODIC_WAIT, SetNormalMode, health
  <2>4. ~ (StopErrorHandler \/ CREATE_ERROR_HANDLER \/ GET_ERROR_STATUS)
    BY <1>0 DEF StopErrorHandler, CREATE_ERROR_HANDLER, GET_ERROR_STATUS, ErrorHandlers
  <2>5. ~ (\/ \E t \in TimeOuts : SUSPEND_SELF(t)
           \/ \E b \in Budgets : REPLENISH(b)
           \/ \E d \in Delays : TIMED_WAIT(d))
    BY DEF SUSPEND_SELF, REPLENISH, TIMED_WAIT, health
  <2>6. ASSUME NEW p \in Proc
        PROVE  ~ (\/ SUSPEND(p) \/ RESUME(p) \/ STOP(p)
                  \/ \E d \in Delays : DELAYED_START(p, d)
                  \/ \E prio \in Priorities : SET_PRIORITY(p, prio))
    <3>1. SUSPEND(p) \/ RESUME(p) \/ STOP(p) => UNCHANGED health
      BY DEF SUSPEND, RESUME, STOP
    <3>2. (\E d \in Delays : DELAYED_START(p, d)) => UNCHANGED health
      BY DEF DELAYED_START
    <3>3. (\E prio \in Priorities : SET_PRIORITY(p, prio)) => UNCHANGED health
      BY DEF SET_PRIORITY
    <3> QED BY <3>1, <3>2, <3>3 DEF health
  <2> QED BY <2>1, <2>2, <2>3, <2>4, <2>5, <2>6 DEF Services
<1>4. ~ Scheduler
  <2>1. ~ Deadline
    BY <1>1, <1>2 DEF Deadline, health
  <2>2. ~ HandleEvents
    BY <1>0 DEF HandleEvents, ErrorHandlers
  <2>3. ~ ScheduleProcessOut
    BY <1>0 DEF ScheduleProcessOut, StopCallback, StopHandler, Preempt, StayOn, ErrorHandlers
  <2>4. ~ ScheduleProcessIn
    BY <1>0 DEF ScheduleProcessIn, StartCallback, StartHandler, Dispatch, NothingToStart, ErrorHandlers
  <2> QED
    BY <2>1, <2>2, <2>3, <2>4
    DEF Scheduler, StartNext, StartDone, Timeout, TimeoutsDone, DeadlinesDone, KeepPartition,
        SchedulePartitionOut, EnterPartition, StayOut, health
<1>5. ~ (Continues \/ TICK \/ OtherYields \/ \E r \in Resource : CREATE_RESOURCE(r))
  BY DEF Continues, Continue, TICK, OtherYields, CREATE_RESOURCE, health
<1>6. ~ CallbackReturns
  BY DEF CallbackReturns
<1>7. ~ ResourceServices
  BY DEF ResourceServices, WAIT_RESOURCE, SIGNAL_RESOURCE, health
<1> QED
  BY <1>3, <1>4, <1>5, <1>6, <1>7 DEF Next, Internal


\* The entries left are old ones, or not due.
LEMMA DequeueServes ==
  ASSUME NEW q \in DistinctQueue, NEW p
  PROVE  Entries(Dequeue(q, p)) \subseteq Entries(q)
<1>1. q \in Seq(Entry(Proc)) /\ DistinctIds(q)
  BY DEF DistinctQueue, Queue
<1> QED
  BY <1>1, DequeueEntries

LEMMA ArmServes ==
  ASSUME deadlineQ \in DistinctQueue, now \in Nat, NEW p \in Proc, NEW d \in Int,
         d # Infinite => d >= now, NEW q, q = deadlineQ \/ q = Dequeue(deadlineQ, p),
         deadlineQ' = Arm(q, p, d), p = current, UNCHANGED <<now, kernel, current>>, kpc = "idle"
  PROVE  \A e \in Entries(deadlineQ') : e \in Entries(deadlineQ) \/ e.pri > now \/ OwnDue(e)'
<1>1. q \in DistinctQueue /\ Entries(q) \subseteq Entries(deadlineQ)
  BY DeadlineOps, DequeueServes
<1>2. CASE d = Infinite
  BY <1>1, <1>2 DEF Arm
<1>3. CASE d # Infinite
  <2>1. Rest(deadlineQ', p) = Rest(q, p) /\ KeyedAt(deadlineQ', p, d)
    BY <1>1, <1>3, DeadlineOps DEF Arm
  <2>2. ASSUME NEW e \in Entries(deadlineQ'), e.id # p PROVE e \in Entries(q)
    BY <2>1, <2>2 DEF Rest
  <2>3. ASSUME NEW e \in Entries(deadlineQ'), e.id = p PROVE e.pri > now \/ OwnDue(e)'
    <3>1. e.pri = d /\ d >= now
      BY <1>3, <2>1, <2>3 DEF KeyedAt
    <3> QED BY <2>3, <3>1 DEF OwnDue, kernel
  <2> QED BY <1>1, <2>2, <2>3
<1> QED
  BY <1>2, <1>3

LEMMA ModeHinders ==
  ASSUME NEW m, m # "NORMAL", LeaveMode(m)
  PROVE  Hinders
BY DEF LeaveMode, Wiped, GoIdle, Restart, Yield, Hinders, Unhindered, PastTimeouts

LEMMA ActionHinders ==
  ASSUME NEW a \in ErrorActions \ {"IGNORE"}, LeaveMode(ActionMode(a))
  PROVE  Hinders
<1>1. ActionMode(a) # "NORMAL"
  BY ProcessesAssumption DEF ActionMode
<1> QED
  BY <1>1, ModeHinders

\* A service that is over without a pass leaves SCHEDULER and the partition alone.
LEMMA CallServes ==
  ASSUME UNCHANGED <<now, kernel, mode, scheduled, timeoutQ, current>>, lock' = 0 => lock = 0, eh' = eh,
         \A e \in Entries(deadlineQ') : e \in Entries(deadlineQ) \/ e.pri > now \/ OwnDue(e)'
  PROVE  Serves
BY DEF Serves, kernel, Unhindered, PastTimeouts, PastDeadlines

LEMMA YieldHinders ==
  ASSUME lock' = lock, YieldIf(lock = 0) \/ Yield
  PROVE  Hinders
BY DEF YieldIf, Yield, Hinders, Unhindered, PastTimeouts

LEMMA ServiceServes ==
  ASSUME ServedInv, Services
  PROVE  Hinders \/ Serves \/ (SetNormalMode /\ count = 0)
<1>1. /\ StatesInv /\ WaitInv /\ TypeOK /\ eh \in ErrorHandlers /\ deadlineQ \in DistinctQueue
      /\ timeoutQ \in DistinctQueue /\ lock \in Nat /\ now \in Nat
  <2>1. StatesInv /\ WaitInv /\ TypeOK /\ TypeInv
    BY DEF ServedInv, WatchInv, WaitInv, DispatchInv, StatesInv, TypeInv
  <2> QED BY <2>1, ConstantTypes DEF TypeInv, TypeOK, QueuesOK, DistinctQueue, ErrorHandlers
<1>2. eh.running => eh.exists
  BY DEF ServedInv, Handlerless, NoHandler
<1>3. ASSUME eh.exists, eh' = eh \/ eh' = [eh EXCEPT !.stop = TRUE] PROVE Hinders
  BY <1>1, <1>3 DEF ErrorHandlers, Hinders, Unhindered
<1>4. CASE RAISE_APPLICATION_ERROR
  BY <1>4, ActionHinders DEF RAISE_APPLICATION_ERROR, Yield, Hinders, PastTimeouts
<1>5. CASE \E m \in {"IDLE", "COLD_START", "WARM_START"} : SetStartMode(m)
  BY <1>5, ModeHinders DEF SetStartMode
<1>6. CASE CREATE_PROCESS \/ CREATE_ERROR_HANDLER
  BY <1>6 DEF CREATE_PROCESS, CREATE_ERROR_HANDLER, partition, Hinders, Unhindered
<1>7. CASE STOP_SELF \/ PERIODIC_WAIT
  BY <1>7 DEF STOP_SELF, PERIODIC_WAIT, Yield, Hinders, PastTimeouts
<1>8. CASE StopErrorHandler
  BY <1>2, <1>3, <1>8 DEF StopErrorHandler
<1>9. CASE GET_ERROR_STATUS
  BY <1>2, <1>3, <1>9 DEF GET_ERROR_STATUS
<1>10. CASE LOCK_PREEMPTION
  BY <1>1, <1>10 DEF LOCK_PREEMPTION, Hinders, Unhindered
<1>11. CASE UNLOCK_PREEMPTION
  BY <1>11 DEF UNLOCK_PREEMPTION, YieldIf, Yield, Hinders, Unhindered, PastTimeouts
<1>12. CASE SetNormalMode
  BY <1>12 DEF SetNormalMode, Hinders, PastTimeouts
<1>13. CASE \/ \E t \in TimeOuts : SUSPEND_SELF(t)
            \/ \E d \in Delays : TIMED_WAIT(d)
  BY <1>13 DEF SUSPEND_SELF, TIMED_WAIT, Yield, Hinders, PastTimeouts
<1>14. ASSUME NEW t \in Budgets, REPLENISH(t) PROVE Serves
  <2> DEFINE d == IF t = Infinite THEN Infinite ELSE now + t
  <2>1. current \in Proc /\ kpc = "idle" /\ deadlineQ' = Arm(Dequeue(deadlineQ, current), current, d)
    BY <1>1, <1>14, CallerRuns DEF REPLENISH
  <2>2. d \in Int /\ (d # Infinite => d >= now)
    BY <1>1, ProcessesAssumption DEF Infinite
  <2> HIDE DEF d
  <2>3. UNCHANGED <<now, kernel, current>>
    BY <1>14 DEF REPLENISH, preemption
  <2>4. \A e \in Entries(deadlineQ') : e \in Entries(deadlineQ) \/ e.pri > now \/ OwnDue(e)'
    BY <1>1, <2>1, <2>2, <2>3, ArmServes
  <2> QED BY <1>14, <2>4, CallServes DEF REPLENISH, preemption, partition, health, core
<1>15. ASSUME NEW p \in Proc, SUSPEND(p) PROVE Serves
  <2>1. deadlineQ' = Dequeue(deadlineQ, p)
    BY <1>15 DEF SUSPEND
  <2> QED BY <1>1, <1>15, <2>1, DequeueServes, CallServes DEF SUSPEND, preemption, partition, health, core
<1>16. ASSUME NEW p \in Proc, STOP(p) PROVE Hinders \/ Serves
  <2>1. deadlineQ' = Dequeue(deadlineQ, p) /\ timeoutQ' = Dequeue(timeoutQ, p) /\ eh' = eh
        /\ UNCHANGED <<now, kernel, mode, scheduled, current>>
    BY <1>16 DEF STOP, RemoveFromAll, partition, health, core
  <2>2. CASE eh.running
    BY <1>2, <1>3, <2>1, <2>2
  <2>3. CASE ~ eh.running
    <3>1. lock' = lock
      BY <1>16, <2>3 DEF STOP
    <3> QED BY <1>1, <2>1, <3>1, DequeueServes
            DEF Serves, kernel, Unhindered, PastTimeouts, PastDeadlines
  <2> QED BY <2>2, <2>3
<1>17. ASSUME NEW p \in Proc,
              \/ RESUME(p)
              \/ \E d \in Delays : DELAYED_START(p, d)
              \/ \E prio \in Priorities : SET_PRIORITY(p, prio)
       PROVE  Hinders
  BY <1>17, YieldHinders DEF RESUME, DELAYED_START, SET_PRIORITY, preemption
<1> QED
  BY <1>4, <1>5, <1>6, <1>7, <1>8, <1>9, <1>10, <1>11, <1>12, <1>13, <1>14, <1>15, <1>16, <1>17 DEF Services

LEMMA SchedulerServes ==
  ASSUME ServedInv, Scheduler
  PROVE  Hinders \/ Serves \/ TimeoutsDone \/ DeadlinesDone
<1>1. /\ StatesInv /\ TypeOK /\ eh \in ErrorHandlers /\ deadlineQ \in DistinctQueue
      /\ phm = NoCallback /\ ~ phm.start /\ ~ phm.running
  <2>1. StatesInv /\ TypeOK /\ TypeInv
    BY DEF ServedInv, WatchInv, WaitInv, DispatchInv, StatesInv, TypeInv
  <2> QED BY <2>1 DEF TypeInv, TypeOK, QueuesOK, DistinctQueue, ErrorHandlers, StatesInv, Control, NoCallbackRuns, NoCallback
<1>2. CASE StartNext \/ StartDone
  BY <1>2 DEF StartNext, StartDone, kernel, Yield, Hinders, PastTimeouts
<1>3. CASE HandleEvents
  <2>1. CASE eh.exists
    BY <1>1, <1>3, <2>1 DEF HandleEvents, ErrorHandlers, Hinders, Unhindered
  <2>2. CASE ~ eh.exists
    BY <1>1, <1>3, <2>2
    DEF ServedInv, Handlerless, NoHandler, HandleEvents, partition, core, Hinders, Unhindered, PastTimeouts
  <2> QED BY <2>1, <2>2
<1>4. CASE Timeout
  BY <1>4 DEF Timeout, kernel, Hinders, PastTimeouts
<1>5. CASE Deadline
  <2>1. CASE \E a \in ErrorActions \ {"IGNORE"} : LeaveMode(ActionMode(a))
    BY <2>1, ActionHinders
  <2>2. CASE /\ deadlineQ' = Dequeue(deadlineQ, Head(deadlineQ).id)
             /\ NotifyHandler \/ NotifyCallback \/ UNCHANGED health
             /\ UNCHANGED <<ready, timeoutQ, waitq, preemption, partition, now, kernel, core>>
    <3>1. eh'.exists = eh.exists
      BY <1>1, <2>2 DEF NotifyHandler, NotifyCallback, health, ErrorHandlers
    <3> QED BY <1>1, <2>2, <3>1, DequeueServes
            DEF Serves, Unhindered, PastTimeouts, PastDeadlines, preemption, partition, kernel, core
  <2> QED BY <1>5, <2>1, <2>2 DEF Deadline
<1>6. CASE ScheduleProcessOut
  <2>1. eh'.exists = eh.exists
    BY <1>1, <1>6 DEF ScheduleProcessOut, StopCallback, StopHandler, Preempt, StayOn, ErrorHandlers
  <2>2. kpc = "out" /\ kpc' \in {"in", "partition"} /\ UNCHANGED <<queues, lock, partition, now, scheduled>>
    BY <1>6 DEF ScheduleProcessOut, AfterOut
  <2> QED BY <2>1, <2>2 DEF Serves, Unhindered, PastTimeouts, PastDeadlines, partition, queues
<1>7. CASE KeepPartition \/ StayOut
  BY <1>7 DEF KeepPartition, StayOut, Serves, Unhindered, PastTimeouts, PastDeadlines, queues, preemption,
              partition, health, core
<1>8. CASE SchedulePartitionOut
  <2>1. ~ scheduled'
    BY <1>8, Zenon DEF SchedulePartitionOut
  <2> QED BY <2>1 DEF Hinders, Unhindered
<1>9. CASE EnterPartition
  BY <1>9 DEF EnterPartition, Hinders, PastTimeouts
<1>10. CASE ScheduleProcessIn
  <2>1. eh'.exists = eh.exists
    BY <1>1, <1>10
    DEF ScheduleProcessIn, StartCallback, StartHandler, Dispatch, NothingToStart, ErrorHandlers
  <2>2. kpc = "in" /\ kpc' = "idle" /\ UNCHANGED <<queues, lock, partition, now, scheduled>>
    BY <1>10 DEF ScheduleProcessIn, StartCallback, StartHandler, Dispatch, NothingToStart, Switch
  <2> QED BY <2>1, <2>2 DEF Serves, Unhindered, PastTimeouts, PastDeadlines, partition, queues
<1> QED
  BY <1>2, <1>3, <1>4, <1>5, <1>6, <1>7, <1>8, <1>9, <1>10 DEF Scheduler

\* The deadline that the rest of SUSPEND_SELF arms is the current process's own.
LEMMA ContinueServes ==
  ASSUME ServedInv, NEW p \in Proc, Continue(p)
  PROVE  Serves
<1> DEFINE d == DeadlineAt(p, now)
<1>1. WatchInv /\ StatesInv /\ deadlineQ \in DistinctQueue /\ timeoutQ \in DistinctQueue /\ now \in Nat
  <2>1. WatchInv /\ StatesInv /\ TypeInv
    BY DEF ServedInv, WatchInv, WaitInv, DispatchInv, StatesInv
  <2> QED BY <2>1 DEF TypeInv, TypeOK, QueuesOK, DistinctQueue
<1>2. Entries(timeoutQ') \subseteq Entries(timeoutQ)
  BY <1>1, DequeueServes DEF Continue
<1>3. p = current /\ kpc = "idle" /\ UNCHANGED <<now, kernel, current>>
  <2>1. WaitInv /\ StatesInv /\ ContextFits /\ kpc = "idle" /\ ctx = p
    BY DEF ServedInv, WatchInv, WaitInv, DispatchInv, ContextInv, Continue
  <2> QED BY <2>1, ConstantTypes DEF ContextFits, IsLeaving, StatesInv, Control, Continue, preemption
<1>4. \A e \in Entries(deadlineQ') : e \in Entries(deadlineQ) \/ e.pri > now \/ OwnDue(e)'
  <2>1. d \in Int /\ (d # Infinite => d >= now)
    <3>1. TimeCapacity[p] = Infinite \/ TimeCapacity[p] \in Nat
      BY ProcessesAssumption
    <3> QED BY <1>1, <3>1 DEF DeadlineAt, Infinite
  <2>2. deadlineQ' = Arm(deadlineQ, p, d) \/ deadlineQ' = deadlineQ
    BY DEF Continue
  <2> HIDE DEF d
  <2> QED BY <1>1, <1>3, <2>1, <2>2, ArmServes
<1>5. UNCHANGED <<now, kernel, mode, scheduled, lock, eh, current>>
  BY DEF Continue, preemption, partition, health, core
<1> QED
  BY <1>2, <1>4, <1>5 DEF Serves, kernel, Unhindered, PastTimeouts, PastDeadlines

LEMMA StepsServe ==
  ASSUME ServedInv, Next
  PROVE  Hinders \/ Serves \/ TimeoutsDone \/ DeadlinesDone \/ (SetNormalMode /\ count = 0)
<1>1. CASE Services
  BY <1>1, ServiceServes
<1>2. CASE Scheduler
  BY <1>2, SchedulerServes
<1>3. CASE Continues
  BY <1>3, ContinueServes DEF Continues
<1>4. CASE TICK \/ OtherYields \/ \E r \in Resource : CREATE_RESOURCE(r)
  BY <1>4 DEF TICK, OtherYields, CREATE_RESOURCE, core, Hinders, Unhindered, PastTimeouts
<1>5. CASE CallbackReturns
  BY <1>5, ActionHinders DEF CallbackReturns, Yield, Hinders, PastTimeouts
<1>6. CASE ResourceServices
  <2>1. PICK r \in Resource : (\E t \in TimeOuts : WAIT_RESOURCE(r, t)) \/ \E b \in BOOLEAN : SIGNAL_RESOURCE(r, b)
    BY <1>6 DEF ResourceServices, ServedInv, WatchInv, WaitInv, DispatchInv, StatesInv, TypeInv, TypeOK
  <2>2. ASSUME NEW t \in TimeOuts, WAIT_RESOURCE(r, t) PROVE Hinders
    BY <2>2 DEF WAIT_RESOURCE, Yield, Hinders, PastTimeouts
  <2>3. ASSUME NEW b \in BOOLEAN, SIGNAL_RESOURCE(r, b) PROVE Hinders \/ Serves
    <3>1. CASE Yield
      BY <3>1 DEF Yield, Hinders, PastTimeouts
    <3>2. CASE UNCHANGED kernel
      <4>1. timeoutQ' = Dequeue(timeoutQ, Head(waitq[r]).id) /\ timeoutQ \in DistinctQueue
        BY <2>3 DEF SIGNAL_RESOURCE, SignalHead, ServedInv, WatchInv, WaitInv, DispatchInv, StatesInv, TypeInv,
                    TypeOK, QueuesOK, DistinctQueue
      <4>2. UNCHANGED <<deadlineQ, now, lock, current, mode, eh, scheduled>>
        BY <2>3 DEF SIGNAL_RESOURCE, preemption, partition, health, core
      <4> QED BY <3>2, <4>1, <4>2, DequeueServes
              DEF Serves, kernel, Unhindered, PastTimeouts, PastDeadlines
    <3> QED BY <2>3, <3>1, <3>2 DEF SIGNAL_RESOURCE, YieldIf
  <2> QED BY <2>1, <2>2, <2>3
<1> QED
  BY <1>1, <1>2, <1>3, <1>4, <1>5, <1>6 DEF Next, Internal

\* What is not due at the head of a queue in order of time is not due behind it.
LEMMA NothingDue ==
  ASSUME NEW q \in DistinctQueue, Sorted(q, TRUE), ~ Due(q), now \in Nat
  PROVE  Later(q)
<1> SUFFICES ASSUME NEW i \in DOMAIN q PROVE q[i].pri > now
  BY DEF Later, Entries
<1>1. q \in Seq(Entry(Proc)) /\ Len(q) \in Nat /\ i \in 1..Len(q)
  BY DEF DistinctQueue, Queue
<1>2. q[1].pri \in Int /\ q[i].pri \in Int /\ q # <<>> /\ Head(q) = q[1]
  <2>1. 1 \in 1..Len(q) /\ q # <<>> /\ Head(q) = q[1]
    BY <1>1
  <2>2. q[1] \in Entry(Proc) /\ q[i] \in Entry(Proc)
    BY <1>1, <2>1
  <2> QED BY <2>1, <2>2 DEF Entry
<1>3. q[1].pri > now
  BY <1>2 DEF Due
<1>4. CASE i = 1
  BY <1>3, <1>4
<1>5. CASE i # 1
  <2>1. 1 \in DOMAIN q /\ 1 < i
    BY <1>1, <1>5
  <2>2. ~ q[i].pri < q[1].pri
    BY <2>1 DEF Sorted, Before
  <2> QED BY <1>2, <1>3, <2>2
<1> QED
  BY <1>4, <1>5

LEMMA ServesKeeps ==
  ASSUME Served, Serves
  PROVE  Served'
<1>1. ASSUME Unhindered', PastDeadlines', NEW e \in Entries(deadlineQ')
      PROVE  e.pri > now' \/ OwnDue(e)'
  <2>1. now' = now /\ Unhindered /\ PastDeadlines
    BY <1>1 DEF Serves
  <2>2. CASE e \in Entries(deadlineQ)
    <3>1. e.pri > now \/ OwnDue(e)
      BY <2>1, <2>2 DEF Served
    <3>2. OwnDue(e) => OwnDue(e)'
      BY <2>1 DEF OwnDue, Serves
    <3> QED BY <2>1, <3>1, <3>2
  <2>3. CASE e \notin Entries(deadlineQ)
    BY <1>1, <2>1, <2>3 DEF Serves
  <2> QED BY <2>2, <2>3
<1>2. Unhindered' /\ PastTimeouts' => Later(timeoutQ)'
  BY DEF Served, Serves, Later
<1> QED
  BY <1>1, <1>2 DEF Served

LEMMA ServedInvInductive ==
  ASSUME HmCallback = FALSE
  PROVE  /\ Init => ServedInv
         /\ /\ ServedInv /\ QueuesInOrder /\ DeadlinesSorted /\ [Next]_vars
            /\ [kpc = "deadlines" => mode' \in {mode, "IDLE"}]_vars
            => ServedInv'
<1>1. ASSUME Init PROVE ServedInv
  <2>1. WatchInv
    BY <1>1, WatchInvInductive
  <2>2. Handlerless
    BY <1>1 DEF Init, Handlerless, NoHandler, NoErrorHandler
  <2>3. Served
    BY <1>1 DEF Init, Served, Unhindered
  <2> QED BY <2>1, <2>2, <2>3 DEF ServedInv
<1>2. ASSUME ServedInv, QueuesInOrder, DeadlinesSorted, [Next]_vars,
             [kpc = "deadlines" => mode' \in {mode, "IDLE"}]_vars
      PROVE  ServedInv'
  <2>1. WatchInv' /\ TypeOK
    BY <1>2, WatchInvInductive DEF ServedInv, WatchInv, WaitInv, DispatchInv, StatesInv, TypeInv
  <2>2. timeoutQ \in DistinctQueue /\ deadlineQ \in DistinctQueue /\ now \in Nat /\ StatesInv
    <3>1. StatesInv /\ TypeInv
      BY <1>2 DEF ServedInv, WatchInv, WaitInv, DispatchInv, StatesInv
    <3> QED BY <3>1 DEF TypeInv, TypeOK, QueuesOK, DistinctQueue
  <2>3. Handlerless'
    <3>1. CASE UNCHANGED vars
      BY <1>2, <3>1 DEF vars, health, ServedInv, Handlerless, NoHandler
    <3>2. CASE Next /\ ~ eh.exists
      <4>1. NoHandler' \/ CREATE_ERROR_HANDLER
        BY <1>2, <2>1, <3>2, NoHandlerSteps DEF ServedInv, Handlerless
      <4>2. CREATE_ERROR_HANDLER => eh'.exists
        BY <2>1 DEF CREATE_ERROR_HANDLER, TypeOK
      <4> QED BY <4>1, <4>2 DEF Handlerless
    <3>3. CASE Next /\ eh.exists
      <4>1. \A m : LeaveMode(m) /\ ~ eh'.exists => NoHandler'
        BY <3>3 DEF LeaveMode, Wiped, GoIdle, Restart, Reinitialize, NoErrorHandler, NoHandler, health
      <4> QED BY <2>1, <3>3, <4>1, HandlerStays DEF Handlerless
    <3> QED BY <1>2, <3>1, <3>2, <3>3
  <2>4. Served'
    <3>1. CASE UNCHANGED vars
      <4>1. Serves
        BY <3>1 DEF vars, queues, preemption, partition, health, kernel, core, Serves, Unhindered, PastTimeouts,
                    PastDeadlines
      <4> QED BY <1>2, <4>1, ServesKeeps DEF ServedInv
    <3>2. CASE Hinders
      BY <3>2 DEF Hinders, Served, PastTimeouts, PastDeadlines
    <3>3. CASE Serves
      BY <1>2, <3>3, ServesKeeps DEF ServedInv
    <3>4. CASE TimeoutsDone
      <4>1. Later(timeoutQ)
        BY <1>2, <2>2, <3>4, NothingDue DEF TimeoutsDone, QueuesInOrder
      <4> QED BY <3>4, <4>1 DEF TimeoutsDone, Served, PastDeadlines, Later, queues
    <3>5. CASE DeadlinesDone
      <4>1. Later(deadlineQ)
        BY <1>2, <2>2, <3>5, NothingDue DEF DeadlinesDone, DeadlinesSorted
      <4>2. UNCHANGED <<timeoutQ, deadlineQ, now>> /\ (Unhindered' => Unhindered) /\ kpc = "deadlines"
        BY <3>5 DEF DeadlinesDone, queues, preemption, partition, health, core, Unhindered
      <4> QED BY <1>2, <4>1, <4>2 DEF ServedInv, Served, PastTimeouts, Later
    <3>6. CASE SetNormalMode /\ count = 0
      <4>1. \A i : i \notin 1..0
        OBVIOUS
      <4>2. Created = {} /\ mode # "NORMAL"
        BY <3>6, <4>1 DEF Created, SetNormalMode
      <4>3. Ids(timeoutQ) = {}
        <5>1. Ids(timeoutQ) \subseteq {Order[i] : i \in 1..(IF kpc = "starting" THEN started ELSE 0)}
              /\ kpc # "starting"
          BY <2>2, <3>6, <4>2 DEF StatesInv, Control, StartingQueues, SetNormalMode, Call, AtRest
        <5> QED BY <4>1, <5>1
      <4>4. Ids(deadlineQ) = {}
        <5>1. \A p \in Proc : ~ Watches(p)
          BY <1>2, <2>2, <4>2 DEF ServedInv, WatchInv, Watched, StatesInv, Places, UncreatedDormant
        <5> QED BY <2>2, <5>1, QueueIds DEF Watches
      <4>5. Entries(timeoutQ) = {} /\ Entries(deadlineQ) = {}
        BY <4>3, <4>4, IdsOfEntries
      <4> QED BY <3>6, <4>5 DEF SetNormalMode, queues, Served, Later
    <3> QED BY <1>2, <3>1, <3>2, <3>3, <3>4, <3>5, <3>6, StepsServe
  <2> QED BY <2>1, <2>3, <2>4 DEF ServedInv
<1> QED
  BY <1>1, <1>2

\* EventsServed: in a partition without a callback, whenever it runs, preemption is
\* not locked and there is no error handler, no time-out is overdue and no deadline but
\* the one that the process that runs gave itself on this tick, as long as the queue of
\* deadlines is in order (DeadlinesKeepOrder) and no missed deadline restarts the
\* partition from inside SCHEDULER.
THEOREM DueEventsAreServed ==
  ASSUME HmCallback = FALSE
  PROVE  Spec /\ NoRestartInPass /\ []DeadlinesSorted => []EventsServed
<1>1. ServedInv => EventsServed
  <2> SUFFICES ASSUME ServedInv, Settled, lock = 0, ~ eh.exists
               PROVE  /\ timeoutQ = <<>> \/ Head(timeoutQ).pri > now
                      /\ \A i \in DOMAIN deadlineQ : deadlineQ[i].pri > now \/ OwnDue(deadlineQ[i])
    BY DEF EventsServed
  <2>1. Later(timeoutQ) /\ \A e \in Entries(deadlineQ) : e.pri > now \/ OwnDue(e)
    BY DEF ServedInv, Served, Settled, Unhindered, PastTimeouts, PastDeadlines
  <2>2. timeoutQ \in Seq(Entry(Proc))
    BY DEF ServedInv, WatchInv, WaitInv, DispatchInv, StatesInv, TypeInv, TypeOK, Queue
  <2>3. \A q \in Seq(Entry(Proc)) : q # <<>> => Head(q) \in Entries(q)
    <3>1. \A q \in Seq(Entry(Proc)) : q # <<>> => 1 \in DOMAIN q /\ Head(q) = q[1]
      OBVIOUS
    <3> QED BY <3>1 DEF Entries
  <2>4. \A i \in DOMAIN deadlineQ : deadlineQ[i] \in Entries(deadlineQ)
    BY DEF Entries
  <2> QED BY <2>1, <2>2, <2>3, <2>4 DEF Later
<1> QED
  BY <1>1, ServedInvInductive, QueuesKeepOrder, PTL DEF Spec, NoRestartInPass

=============================================================================
