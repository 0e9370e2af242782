----------------------------- MODULE Processes ------------------------------
(***************************************************************************)
(* The process level of one partition: the process services, the scheduler *)
(* that every service and every tick ends in, process deadlines, the error *)
(* handler, the partition's health monitoring callback, and the mode       *)
(* changes of the partition (arinc653_processManagement.c,                 *)
(* timeManagement.c, scheduler.c, healthMonitoring.c, core.c and           *)
(* SET_PARTITION_MODE).                                                    *)
(*                                                                         *)
(* ENTER_CORE masks interrupts, so a service runs alone up to its          *)
(* PORT_YIELD and is one action here. PORT_YIELD and the tick interrupt    *)
(* call SCHEDULER, still masked; the functions SCHEDULER calls are one     *)
(* action each, chained by kpc, and nothing else can happen between them.  *)
(* What a blocking service does after its PORT_YIELD is an action of its   *)
(* own, Continue, taken when the process is dispatched again and before any    *)
(* interrupt.                                                              *)
(*                                                                         *)
(* The windows in which the partition owns the processor are left open     *)
(* here (module PartitionScheduler has them): a tick may end or begin one. *)
(***************************************************************************)
EXTENDS PriorityQueues, FiniteSets

CONSTANTS
  Proc,          \* the processes the partition creates
  NoProc,        \* a null CURRENT_PROCESS_INFORMATION, an invalid identifier
  Order,         \* Proc in the order of CREATE_PROCESS, which numbers them
  BasePriority, Period, TimeCapacity,  \* the attributes of each process
  Priorities,    \* the priorities SET_PRIORITY is called with
  TimeOuts,      \* the time-outs of the services that block: not zero
  Budgets,       \* the budgets of REPLENISH
  Delays,        \* the delays of DELAYED_START and TIMED_WAIT
  Resource,      \* the objects processes wait for
  Fifo,          \* those with the FIFO queuing discipline
  MaxLock,       \* MAX_LOCK_LEVEL
  MaxErrors,     \* MAXIMUM_ERRORSTATUS_COUNT
  HmCallback,    \* does the partition have a health monitoring callback?
  ErrorLevels,   \* the levels the module's table may give an error
  ErrorActions,  \* the actions the partition's table may give an error
  MaxGap,        \* bound: how far off the next PERIOD_START window may be
  MaxTime,       \* bound: how long time runs
  Calls          \* the services the application of an instance uses

Infinite == -1     \* INFINITE_TIME_VALUE
Aperiodic == 0     \* APERIODIC_PERIOD_VALUE

Contexts == Proc \cup {"DEFAULT", "ERRORHANDLER", "HMCALLBACK", "MODULE"}

ASSUME ProcessesAssumption ==
  /\ IsFiniteSet(Proc) /\ NoProc \notin Proc
  /\ {"DEFAULT", "ERRORHANDLER", "HMCALLBACK", "MODULE", "none"} \cap Proc = {}
  /\ Order \in Seq(Proc)
  /\ \A i, j \in DOMAIN Order : Order[i] = Order[j] => i = j
  /\ BasePriority \in [Proc -> Nat] /\ Priorities \subseteq Nat
  /\ Period \in [Proc -> Nat]
  /\ TimeCapacity \in [Proc -> Nat \cup {Infinite}]
  /\ TimeOuts \subseteq (Nat \ {0}) \cup {Infinite} /\ Delays \subseteq Nat
  /\ Budgets \subseteq Nat \cup {Infinite}
  /\ Fifo \subseteq Resource
  /\ MaxLock \in Nat /\ MaxErrors \in Nat \ {0}
  /\ HmCallback \in BOOLEAN
  /\ ErrorLevels \subseteq {"PROCESS", "PARTITION"}
  /\ ErrorActions \subseteq {"IGNORE", "IDLE", "WARM_START", "COLD_START"}
  /\ MaxGap \in Nat /\ MaxTime \in Nat

VARIABLES
  proc,         \* PROCESS_INFORMATION of each process
  ready, deadlineQ, timeoutQ,  \* the partition's three priority queues
  waitq,        \* the priority queue of each resource
  lock,         \* LOCK_LEVEL
  current,      \* CURRENT_PROCESS_INFORMATION
  mode, initialized,  \* OPERATING_MODE, INITIALIZED
  count,        \* PROCESS_COUNT
  objects,      \* the resources created (SEMAPHORE_COUNT, EVENT_COUNT, ...)
  started,      \* processes the loop of STARTPROCESSSCHEDULER has passed
  eh,           \* ERRORHANDLER_INFORMATION
  errors,       \* ERROR_STATUS_COUNT
  phm,          \* HEALTHMONITORINGCALLBACK_INFORMATION of the partition
  now,          \* CLOCK_GETSYSTEMTIME, in ticks
  kpc, pass,    \* where the kernel is, and what made it enter SCHEDULER
  ctx, nextCtx, \* CORE_CURRENT_CONTEXT, CORE_NEXT_CONTEXT
  scheduled,    \* is this partition CURRENT_PARTITION_INFORMATION?
  partReady     \* is ENT_PARTITIONREADY enqueued?

queues == <<ready, deadlineQ, timeoutQ, waitq>>
preemption == <<lock, current>>
partition == <<mode, initialized, count, objects, started>>
health == <<eh, errors, phm>>
kernel == <<kpc, pass>>
core == <<ctx, nextCtx, scheduled, partReady>>
vars == <<proc, queues, preemption, partition, health, now, kernel, core>>

States == {"DORMANT", "READY", "RUNNING", "WAITING"}
Modes == {"IDLE", "COLD_START", "WARM_START", "NORMAL"}

\* woken: WAKE_TIME is not infinite. tail: what is left of the service the
\* process is blocked in. granted is auxiliary: SIGNAL_RESOURCE chose the process.
ProcessInfo ==
  [state : States, prio : Nat, suspended : BOOLEAN, suspendedTimeout : BOOLEAN,
   release : Int, deadline : Int, delay : Int, woken : BOOLEAN,
   granted : BOOLEAN, tail : {"none", "resource", "ever", "suspend", "suspendTimed", "timed"}]

\* INITIALIZE_PROCESS_INFORMATION
Blank ==
  [state |-> "DORMANT", prio |-> 0, suspended |-> FALSE, suspendedTimeout |-> FALSE,
   release |-> Infinite, deadline |-> Infinite, delay |-> Infinite, woken |-> FALSE,
   granted |-> FALSE, tail |-> "none"]

NoErrorHandler ==
  [exists |-> FALSE, start |-> FALSE, stop |-> FALSE, running |-> FALSE, preempted |-> NoProc]
NoCallback == [start |-> FALSE, stop |-> FALSE, running |-> FALSE]

Queue == Seq(Entry(Proc))

TypeOK ==
  /\ proc \in [Proc -> ProcessInfo]
  /\ ready \in Queue /\ deadlineQ \in Queue /\ timeoutQ \in Queue
  /\ waitq \in [Resource -> Queue]
  /\ lock \in 0..MaxLock
  /\ current \in Proc \cup {NoProc}
  /\ mode \in Modes /\ initialized \in BOOLEAN
  /\ count \in 0..Len(Order) /\ started \in 0..Len(Order) /\ objects \subseteq Resource
  /\ eh \in [exists : BOOLEAN, start : BOOLEAN, stop : BOOLEAN, running : BOOLEAN,
             preempted : Proc \cup {NoProc}]
  /\ errors \in 0..MaxErrors
  /\ phm \in [start : BOOLEAN, stop : BOOLEAN, running : BOOLEAN]
  /\ now \in Nat
  /\ kpc \in {"idle", "starting", "events", "timeouts", "deadlines", "out",
              "partition", "enter", "in", "fault"}
  /\ pass \in {"none", "tick", "yield", "entered"}
  /\ ctx \in Contexts /\ nextCtx \in Contexts \cup {"none"}
  /\ scheduled \in BOOLEAN /\ partReady \in BOOLEAN

\* The partition as CREATE_PARTITION leaves it, before its first window.
Init ==
  /\ proc = [p \in Proc |-> Blank]
  /\ ready = <<>> /\ deadlineQ = <<>> /\ timeoutQ = <<>>
  /\ waitq = [r \in Resource |-> <<>>]
  /\ lock = 0 /\ current = NoProc
  /\ mode = "COLD_START" /\ initialized = FALSE
  /\ count = 0 /\ objects = {} /\ started = 0
  /\ eh = NoErrorHandler /\ errors = 0 /\ phm = NoCallback
  /\ now = 0
  /\ kpc = "idle" /\ pass = "none"
  /\ ctx = "MODULE" /\ nextCtx = "none" /\ scheduled = FALSE /\ partReady = TRUE

-----------------------------------------------------------------------------
(* Helpers                                                                 *)

Created == {Order[i] : i \in 1..count}
Alive(p) == p \in Created /\ proc[p].state # "DORMANT"
IsAperiodic(p) == Period[p] = Aperiodic

\* RELEASE_TIME + TIME_CAPACITY, or never.
DeadlineAt(p, release) ==
  IF TimeCapacity[p] = Infinite THEN Infinite ELSE release + TimeCapacity[p]

MakeReady(p, prio) == ready' = Enqueue(ready, FALSE, p, prio)
Arm(q, p, deadline) == IF deadline = Infinite THEN q ELSE Enqueue(q, TRUE, p, deadline)

\* Taking p out of all four queues, as STOP and DELAYED_START do.
RemoveFromAll(p) ==
  /\ ready' = Dequeue(ready, p)
  /\ deadlineQ' = Dequeue(deadlineQ, p)
  /\ timeoutQ' = Dequeue(timeoutQ, p)
  /\ waitq' = [r \in Resource |-> Dequeue(waitq[r], p)]

\* PORT_YIELD, at the end of a service or when preemption is not locked.
Yield == kpc' = "events" /\ pass' = "yield"
YieldIf(b) == IF b THEN Yield ELSE UNCHANGED kernel

\* Somebody of this partition runs outside the core: one of its processes, its
\* error handler, or its default process until the partition is NORMAL (from
\* then on the default process only idles).
InTail == ctx \in Proc /\ proc[ctx].tail # "none"
AtRest == kpc = "idle" /\ ~ InTail
Call(service) ==
  /\ service \in Calls
  /\ AtRest
  /\ \/ ctx \in Proc \cup {"ERRORHANDLER"}
     \/ ctx = "DEFAULT" /\ mode # "NORMAL"

\* Most services that block refuse while preemption is locked and in the error
\* handler.
MayBlock == current # NoProc /\ lock = 0 /\ ~ eh.running

-----------------------------------------------------------------------------
(* Starting processes                                                      *)

CREATE_PROCESS ==
  /\ Call("CREATE_PROCESS")
  /\ mode # "NORMAL" /\ count < Len(Order)
  /\ count' = count + 1
  /\ proc' = [proc EXCEPT ![Order[count + 1]].state = "DORMANT"]
  /\ UNCHANGED <<queues, preemption, mode, initialized, objects, started, health, now, kernel, core>>

\* When the next window with PERIOD_START begins. The search starts from
\* SCHEDULE_WINDOW_INDEX, which a restart resets in the middle of a frame, so
\* that the time found may have passed.
NextPeriodStart == {t \in 0..(now + MaxGap) : now - MaxGap <= t}

\* The release common to STARTPROCESSSCHEDULER and to DELAYED_START in NORMAL
\* mode: P, R, D and T are the process table and the queues so far.
Release(p, P, R, D, T) ==
  \/ /\ ~ IsAperiodic(p)
     /\ \E s \in NextPeriodStart :
          LET at == s + P[p].delay
          IN  /\ proc' = [P EXCEPT ![p].state = "WAITING", ![p].release = at,
                                   ![p].deadline = DeadlineAt(p, at), ![p].woken = FALSE]
              /\ timeoutQ' = Enqueue(T, TRUE, p, at)
     /\ ready' = R /\ deadlineQ' = D
  \/ /\ IsAperiodic(p) /\ P[p].delay = 0
     /\ proc' = [P EXCEPT ![p].state = "READY", ![p].release = now,
                          ![p].deadline = DeadlineAt(p, now)]
     /\ ready' = Enqueue(R, FALSE, p, P[p].prio)
     /\ deadlineQ' = Arm(D, p, DeadlineAt(p, now))
     /\ timeoutQ' = T
  \/ /\ IsAperiodic(p) /\ P[p].delay # 0
     /\ LET at == now + P[p].delay
        IN  /\ proc' = [P EXCEPT ![p].state = "WAITING", ![p].release = at,
                                 ![p].deadline = DeadlineAt(p, at), ![p].woken = FALSE]
            /\ timeoutQ' = Enqueue(T, TRUE, p, at)
     /\ ready' = R /\ deadlineQ' = D

\* START is the case d = 0.
DELAYED_START(p, d) ==
  /\ Call("START")
  /\ p \in Created /\ proc[p].state = "DORMANT"
  /\ IsAperiodic(p) \/ d < Period[p]
  /\ LET P == [proc EXCEPT ![p].suspended = FALSE, ![p].suspendedTimeout = FALSE,
                           ![p].prio = BasePriority[p], ![p].delay = d,
                           ![p].tail = "none"]
     IN  \/ /\ mode = "NORMAL"
            /\ Release(p, P, Dequeue(ready, p), Dequeue(deadlineQ, p), Dequeue(timeoutQ, p))
            /\ waitq' = [r \in Resource |-> Dequeue(waitq[r], p)]
         \/ /\ mode # "NORMAL"
            /\ proc' = [P EXCEPT ![p].state = "WAITING"]
            /\ RemoveFromAll(p)
  /\ YieldIf(lock = 0)
  /\ UNCHANGED <<preemption, partition, health, now, core>>

\* One round of the loop of STARTPROCESSSCHEDULER, and its end.
StartNext ==
  /\ kpc = "starting" /\ started < count
  /\ started' = started + 1
  /\ LET p == Order[started + 1]
     IN  IF proc[p].state = "WAITING" THEN Release(p, proc, ready, deadlineQ, timeoutQ)
                                      ELSE UNCHANGED <<proc, ready, deadlineQ, timeoutQ>>
  /\ UNCHANGED <<waitq, preemption, mode, initialized, count, objects, health, now, kernel, core>>

StartDone ==
  /\ kpc = "starting" /\ started = count
  /\ current' = NoProc
  /\ Yield
  /\ UNCHANGED <<proc, queues, lock, partition, health, now, core>>

-----------------------------------------------------------------------------
(* Services on processes                                                   *)

\* The process goes behind those of its new priority, in the ready queue and in
\* the queue it waits in.
SET_PRIORITY(p, prio) ==
  /\ Call("SET_PRIORITY")
  /\ Alive(p)
  /\ proc' = [proc EXCEPT ![p].prio = prio]
  /\ ready' = IF Enqueued(ready, p) THEN Enqueue(Dequeue(ready, p), FALSE, p, prio) ELSE ready
  /\ waitq' = [r \in Resource |->
                 IF r \notin Fifo /\ Enqueued(waitq[r], p)
                 THEN Enqueue(Dequeue(waitq[r], p), FALSE, p, prio) ELSE waitq[r]]
  /\ YieldIf(lock = 0)
  /\ UNCHANGED <<deadlineQ, timeoutQ, preemption, partition, health, now, core>>

SUSPEND_SELF(timeOut) ==
  /\ Call("SUSPEND_SELF")
  /\ MayBlock /\ IsAperiodic(current)
  /\ ready' = Dequeue(ready, current)
  /\ deadlineQ' = Dequeue(deadlineQ, current)
  /\ \/ /\ timeOut # Infinite
        /\ proc' = [proc EXCEPT ![current].state = "WAITING", ![current].suspended = TRUE,
                                ![current].suspendedTimeout = TRUE, ![current].woken = FALSE,
                                ![current].tail = "suspendTimed"]
        /\ timeoutQ' = Enqueue(timeoutQ, TRUE, current, now + timeOut)
     \/ /\ timeOut = Infinite
        /\ proc' = [proc EXCEPT ![current].state = "WAITING", ![current].suspended = TRUE,
                                ![current].tail = "suspend"]
        /\ UNCHANGED timeoutQ
  /\ Yield
  /\ UNCHANGED <<waitq, preemption, partition, health, now, core>>

\* Mutant: the process stays in the ready queue.
BadSUSPEND(p) ==
  /\ Call("SUSPEND")
  /\ ~ (lock > 0 /\ p = eh.preempted)
  /\ Alive(p) /\ p # current /\ IsAperiodic(p) /\ ~ proc[p].suspended
  /\ deadlineQ' = Dequeue(deadlineQ, p)
  /\ proc' = [proc EXCEPT ![p].state = "WAITING", ![p].suspended = TRUE,
                          ![p].suspendedTimeout = FALSE]
  /\ UNCHANGED <<ready, timeoutQ, waitq, preemption, partition, health, now, kernel, core>>

SUSPEND(p) ==
  /\ Call("SUSPEND")
  /\ ~ (lock > 0 /\ p = eh.preempted)
  /\ Alive(p) /\ p # current /\ IsAperiodic(p) /\ ~ proc[p].suspended
  /\ ready' = Dequeue(ready, p)
  /\ deadlineQ' = Dequeue(deadlineQ, p)
  /\ proc' = [proc EXCEPT ![p].state = "WAITING", ![p].suspended = TRUE,
                          ![p].suspendedTimeout = FALSE]
  /\ UNCHANGED <<timeoutQ, waitq, preemption, partition, health, now, kernel, core>>

\* Mutants: what else a suspended process waits for is not looked up, or only in
\* part.
BadStillWaits(p, T) == proc[p].state = "WAITING"
BadStillWaitsInPart(p, T) == Enqueued(T, p)

StillWaits(p, T) == Enqueued(T, p) \/ \E r \in Resource : Enqueued(waitq[r], p)

\* A process that still waits for a time or a resource stays WAITING.
RESUME(p) ==
  /\ Call("RESUME")
  /\ Alive(p) /\ p # current /\ IsAperiodic(p) /\ proc[p].suspended
  /\ LET T == IF proc[p].suspendedTimeout THEN Dequeue(timeoutQ, p) ELSE timeoutQ
         free == ~ StillWaits(p, T)
     IN  /\ timeoutQ' = T
         /\ proc' = [proc EXCEPT ![p].suspended = FALSE, ![p].suspendedTimeout = FALSE,
                                 ![p].release = now, ![p].deadline = DeadlineAt(p, now),
                                 ![p].state = IF free THEN "READY" ELSE @]
         /\ ready' = IF free THEN Enqueue(ready, FALSE, p, proc[p].prio) ELSE ready
  /\ deadlineQ' = Arm(deadlineQ, p, DeadlineAt(p, now))
  /\ YieldIf(lock = 0)
  /\ UNCHANGED <<waitq, preemption, partition, health, now, core>>

\* A process stops itself, or returns from its entry point.
STOP_SELF ==
  /\ Call("STOP_SELF")
  /\ mode = "NORMAL" /\ ~ eh.running /\ current # NoProc
  /\ lock' = 0
  /\ RemoveFromAll(current)
  /\ proc' = [proc EXCEPT ![current].suspended = FALSE, ![current].suspendedTimeout = FALSE,
                          ![current].state = "DORMANT"]
  /\ Yield
  /\ UNCHANGED <<current, partition, health, now, core>>

\* The error handler stops itself or returns. When it interrupted a process that
\* had locked preemption, control goes straight back to it by PORT_SWITCH.
StopErrorHandler ==
  LET holder == eh.preempted
      back == lock > 0 /\ holder \in Created /\ proc[holder].state # "DORMANT"
  IN  /\ Call("STOP_SELF")
      /\ mode = "NORMAL" /\ eh.running
      /\ eh' = [eh EXCEPT !.stop = TRUE]
      /\ \/ /\ back
            /\ proc' = [proc EXCEPT ![holder].state = "RUNNING"]
            /\ current' = holder
            /\ ctx' = holder
            /\ UNCHANGED kernel
         \/ /\ ~ back
            /\ Yield
            /\ UNCHANGED <<proc, current, ctx>>
      /\ UNCHANGED <<queues, lock, partition, errors, phm, now, nextCtx, scheduled, partReady>>

STOP(p) ==
  /\ Call("STOP")
  /\ Alive(p) /\ p # current
  /\ RemoveFromAll(p)
  /\ proc' = [proc EXCEPT ![p].suspended = FALSE, ![p].suspendedTimeout = FALSE,
                          ![p].state = "DORMANT"]
  /\ lock' = IF eh.running /\ p = eh.preempted THEN 0 ELSE lock
  /\ UNCHANGED <<current, partition, health, now, kernel, core>>

\* Mutant: MAX_LOCK_LEVEL is checked one too late.
BadLOCK_PREEMPTION ==
  /\ Call("LOCK_PREEMPTION")
  /\ mode = "NORMAL" /\ ~ eh.running /\ lock <= MaxLock
  /\ lock' = lock + 1
  /\ UNCHANGED <<proc, queues, current, partition, health, now, kernel, core>>

LOCK_PREEMPTION ==
  /\ Call("LOCK_PREEMPTION")
  /\ mode = "NORMAL" /\ ~ eh.running /\ lock < MaxLock
  /\ lock' = lock + 1
  /\ UNCHANGED <<proc, queues, current, partition, health, now, kernel, core>>

UNLOCK_PREEMPTION ==
  /\ Call("UNLOCK_PREEMPTION")
  /\ mode = "NORMAL" /\ ~ eh.running /\ lock > 0
  /\ lock' = lock - 1
  /\ YieldIf(lock' = 0)
  /\ UNCHANGED <<proc, queues, current, partition, health, now, core>>

-----------------------------------------------------------------------------
(* Services on time                                                        *)

TIMED_WAIT(d) ==
  /\ Call("TIMED_WAIT")
  /\ MayBlock
  /\ \/ /\ d = 0
        /\ proc' = [proc EXCEPT ![current].state = "READY"]
        /\ ready' = Enqueue(Dequeue(ready, current), FALSE, current, proc[current].prio)
        /\ UNCHANGED timeoutQ
     \/ /\ d # 0
        /\ proc' = [proc EXCEPT ![current].state = "WAITING", ![current].woken = FALSE,
                                ![current].tail = "timed"]
        /\ ready' = Dequeue(ready, current)
        /\ timeoutQ' = Enqueue(timeoutQ, TRUE, current, now + d)
  /\ Yield
  /\ UNCHANGED <<deadlineQ, waitq, preemption, partition, health, now, core>>

\* The first release point after now.
NextRelease(p) ==
  IF proc[p].release > now THEN proc[p].release
  ELSE proc[p].release + Period[p] * (1 + (now - proc[p].release) \div Period[p])

PERIODIC_WAIT ==
  /\ Call("PERIODIC_WAIT")
  /\ MayBlock /\ ~ IsAperiodic(current)
  /\ ready' = Dequeue(ready, current)
  /\ deadlineQ' = Dequeue(deadlineQ, current)
  /\ LET at == NextRelease(current)
     IN  /\ proc' = [proc EXCEPT ![current].state = "WAITING", ![current].release = at,
                                 ![current].deadline = DeadlineAt(current, at),
                                 ![current].woken = FALSE]
         /\ timeoutQ' = Enqueue(timeoutQ, TRUE, current, at)
  /\ Yield
  /\ UNCHANGED <<waitq, preemption, partition, health, now, core>>

\* Mutant: the old deadline is not removed from the queue.
BadREPLENISH(budget) ==
  /\ Call("REPLENISH")
  /\ current # NoProc /\ mode = "NORMAL" /\ ~ eh.running
  /\ IsAperiodic(current)
  /\ LET deadline == IF budget = Infinite THEN Infinite ELSE now + budget
     IN  /\ proc' = [proc EXCEPT ![current].deadline = deadline]
         /\ deadlineQ' = Arm(deadlineQ, current, deadline)
  /\ UNCHANGED <<ready, timeoutQ, waitq, preemption, partition, health, now, kernel, core>>

\* Replaces the deadline; for a periodic process never beyond its next release. There
\* is no pass after it: with a budget of zero the deadline is due and waits for one.
REPLENISH(budget) ==
  /\ Call("REPLENISH")
  /\ current # NoProc /\ mode = "NORMAL" /\ ~ eh.running
  /\ \/ IsAperiodic(current)
     \/ budget # Infinite /\ now + budget <= proc[current].release + Period[current]
  /\ LET deadline == IF budget = Infinite THEN Infinite ELSE now + budget
     IN  /\ proc' = [proc EXCEPT ![current].deadline = deadline]
         /\ deadlineQ' = Arm(Dequeue(deadlineQ, current), current, deadline)
  /\ UNCHANGED <<ready, timeoutQ, waitq, preemption, partition, health, now, kernel, core>>

-----------------------------------------------------------------------------
(* Waiting for a resource: what every communication object is built from    *)

\* CREATE_SEMAPHORE, CREATE_EVENT, CREATE_BUFFER and the others.
CREATE_RESOURCE(r) ==
  /\ Call("CREATE_RESOURCE")
  /\ mode # "NORMAL" /\ r \notin objects
  /\ objects' = objects \cup {r}
  /\ UNCHANGED <<proc, queues, preemption, mode, initialized, count, started,
                 health, now, kernel, core>>

WAIT_RESOURCE(r, timeOut) ==
  /\ MayBlock
  /\ ready' = Dequeue(ready, current)
  /\ waitq' = [waitq EXCEPT ![r] = Enqueue(@, FALSE, current,
                 IF r \in Fifo THEN MinPriority ELSE proc[current].prio)]
  /\ \/ /\ timeOut # Infinite
        /\ proc' = [proc EXCEPT ![current].state = "WAITING", ![current].woken = FALSE,
                                ![current].granted = FALSE, ![current].tail = "resource"]
        /\ timeoutQ' = Enqueue(timeoutQ, TRUE, current, now + timeOut)
     \/ /\ timeOut = Infinite
        /\ proc' = [proc EXCEPT ![current].state = "WAITING", ![current].granted = FALSE,
                                ![current].tail = "ever"]
        /\ UNCHANGED timeoutQ
  /\ Yield
  /\ UNCHANGED <<deadlineQ, preemption, partition, health, now, core>>

\* Mutant: the process that is woken stays in the queue of time-outs.
BadTimedSignalHead(r) ==
  LET p == Head(waitq[r]).id
  IN  /\ waitq[r] # <<>> /\ ~ proc[p].suspended
      /\ waitq' = [waitq EXCEPT ![r] = Dequeue(@, p)]
      /\ proc' = [proc EXCEPT ![p].state = "READY", ![p].granted = TRUE]
      /\ MakeReady(p, proc[p].prio)
      /\ UNCHANGED timeoutQ

\* Wakes the head of r. A suspended process leaves the queue but stays WAITING.
SignalHead(r) ==
  LET p == Head(waitq[r]).id
  IN  /\ waitq[r] # <<>>
      /\ timeoutQ' = Dequeue(timeoutQ, p)
      /\ waitq' = [waitq EXCEPT ![r] = Dequeue(@, p)]
      /\ \/ /\ ~ proc[p].suspended
            /\ proc' = [proc EXCEPT ![p].state = "READY", ![p].granted = TRUE]
            /\ MakeReady(p, proc[p].prio)
         \/ /\ proc[p].suspended
            /\ proc' = [proc EXCEPT ![p].granted = TRUE]
            /\ UNCHANGED ready

SIGNAL_RESOURCE(r, reschedule) ==
  /\ SignalHead(r)
  /\ YieldIf(reschedule /\ lock = 0 /\ ~ proc[Head(waitq[r]).id].suspended)
  /\ UNCHANGED <<deadlineQ, preemption, partition, health, now, core>>

\* After the PORT_YIELD of a blocking service, when the process runs again: the
\* rest of WAIT_RESOURCE, of SUSPEND_SELF and of TIMED_WAIT.
Continue(p) ==
  /\ kpc = "idle" /\ ctx = p /\ proc[p].tail # "none"
  /\ timeoutQ' = IF proc[p].tail \in {"suspend", "ever"} THEN timeoutQ ELSE Dequeue(timeoutQ, p)
  /\ waitq' = [r \in Resource |->
                 IF proc[p].tail = "resource" THEN Dequeue(waitq[r], p) ELSE waitq[r]]
  /\ \/ /\ proc[p].tail \in {"suspend", "suspendTimed"}
        /\ proc' = [proc EXCEPT ![p].tail = "none", ![p].release = now,
                                ![p].deadline = DeadlineAt(p, now)]
        /\ deadlineQ' = Arm(deadlineQ, p, DeadlineAt(p, now))
     \/ /\ proc[p].tail \in {"resource", "ever", "timed"}
        /\ proc' = [proc EXCEPT ![p].tail = "none"]
        /\ UNCHANGED deadlineQ
  /\ UNCHANGED <<ready, preemption, partition, health, now, kernel, core>>

-----------------------------------------------------------------------------
(* Mode changes, errors and their handlers                                 *)

\* INITIALIZE_PARTITION_INFORMATION(reinitializing). The partition also leaves
\* the ready queue of the module, until the next major frame.
Reinitialize ==
  /\ proc' = [p \in Proc |-> Blank]
  /\ ready' = <<>> /\ deadlineQ' = <<>> /\ timeoutQ' = <<>>
  /\ waitq' = [r \in Resource |-> <<>>]
  /\ lock' = 0 /\ current' = NoProc /\ count' = 0 /\ objects' = {}
  /\ eh' = NoErrorHandler /\ errors' = 0 /\ phm' = NoCallback
  /\ partReady' = FALSE

\* SET_PARTITION_MODE(IDLE), which never returns.
GoIdle ==
  /\ Reinitialize
  /\ mode' = "IDLE"
  /\ Yield
  /\ UNCHANGED <<initialized, started, now, ctx, nextCtx, scheduled>>

\* SET_PARTITION_MODE to a start mode: the default process begins anew at once,
\* by PORT_SWITCH, without the scheduler.
Restart(m) ==
  /\ Reinitialize
  /\ mode' = m
  /\ ctx' = "DEFAULT" /\ kpc' = "idle"
  /\ UNCHANGED <<initialized, started, now, pass, nextCtx, scheduled>>

\* Before the partition has been NORMAL once, INITIALIZED is false and the
\* reinitialization wipes PARTITION_CONFIGURATION and CONTEXT.PORT_CONTEXT, which
\* the kernel dereferences next.
Wiped ==
  /\ kpc' = "fault"
  /\ UNCHANGED <<proc, queues, preemption, partition, health, now, pass, core>>

\* SET_PARTITION_MODE for IDLE, COLD_START and WARM_START.
LeaveMode(m) ==
  /\ mode # "IDLE" /\ ~ (mode = "COLD_START" /\ m = "WARM_START")
  /\ \/ ~ initialized /\ Wiped
     \/ initialized /\ m = "IDLE" /\ GoIdle
     \/ initialized /\ m # "IDLE" /\ Restart(m)

SetStartMode(m) == Call("RESTART") /\ LeaveMode(m)

\* SET_PARTITION_MODE(NORMAL): STARTPROCESSSCHEDULER, unless there is no process.
SetNormalMode ==
  /\ Call("NORMAL")
  /\ mode \in {"COLD_START", "WARM_START"}
  /\ mode' = "NORMAL" /\ initialized' = TRUE /\ started' = 0
  /\ kpc' = IF count = 0 THEN "idle" ELSE "starting"
  /\ UNCHANGED <<proc, queues, preemption, count, objects, health, now, pass, core>>

CREATE_ERROR_HANDLER ==
  /\ Call("CREATE_ERROR_HANDLER")
  /\ mode # "NORMAL" /\ ~ eh.exists
  /\ eh' = [eh EXCEPT !.exists = TRUE]
  /\ UNCHANGED <<proc, queues, preemption, partition, errors, phm, now, kernel, core>>

GET_ERROR_STATUS ==
  /\ Call("GET_ERROR_STATUS")
  /\ eh.running /\ errors > 0
  /\ errors' = errors - 1
  /\ UNCHANGED <<proc, queues, preemption, partition, eh, phm, now, kernel, core>>

\* Where an error goes: to the error handler when its level says so and there is
\* one that is not running, else to the partition. An error that has no level in the
\* table is dropped and so changes as little as one that is IGNOREd; one of the level
\* of the module goes there (PartitionScheduler!RaiseModuleError). Neither level is in
\* ErrorLevels.
GoesTo == { d \in {"handler", "callback", "action"} :
  \/ d = "handler" /\ "PROCESS" \in ErrorLevels /\ eh.exists /\ ~ eh.running
  \/ /\ d = IF HmCallback /\ ctx # "HMCALLBACK" THEN "callback" ELSE "action"
     /\ "PARTITION" \in ErrorLevels \/ ("PROCESS" \in ErrorLevels /\ (~ eh.exists \/ eh.running)) }

\* RAISE_PROCESS_ERROR; a full error status ring drops the error, not the start.
NotifyHandler ==
  /\ errors' = IF errors < MaxErrors THEN errors + 1 ELSE errors
  /\ eh' = [eh EXCEPT !.start = TRUE, !.stop = FALSE]
  /\ UNCHANGED phm

\* RAISE_PARTITION_ERROR with a callback.
NotifyCallback ==
  /\ phm' = [phm EXCEPT !.start = TRUE, !.stop = FALSE]
  /\ UNCHANGED <<eh, errors>>

\* What RUN_PARTITION_ERROR_ACTION does for each action of the table.
ActionMode(action) ==
  IF action = "WARM_START" /\ mode = "COLD_START" THEN "COLD_START" ELSE action

RAISE_APPLICATION_ERROR ==
  /\ Call("RAISE_APPLICATION_ERROR")
  /\ \/ /\ \/ "handler" \in GoesTo /\ NotifyHandler
           \/ "callback" \in GoesTo /\ NotifyCallback
        /\ Yield
        /\ UNCHANGED <<proc, queues, preemption, partition, now, core>>
     \/ /\ "action" \in GoesTo
        /\ \E a \in ErrorActions \ {"IGNORE"} : LeaveMode(ActionMode(a))

\* The callback returns: its error's action, and if that comes back the stop.
CallbackReturns ==
  /\ kpc = "idle" /\ ctx = "HMCALLBACK"
  /\ \/ /\ "IGNORE" \in ErrorActions
        /\ phm' = [phm EXCEPT !.stop = TRUE]
        /\ Yield
        /\ UNCHANGED <<proc, queues, preemption, partition, eh, errors, now, core>>
     \/ \E a \in ErrorActions \ {"IGNORE"} : LeaveMode(ActionMode(a))

-----------------------------------------------------------------------------
(* SCHEDULER                                                               *)

\* HANDLEPROCESSESEVENTS up to its loops: nothing happens outside NORMAL mode or
\* while a handler is due or running; unread errors start the error handler.
HandleEvents ==
  LET busy == phm.start \/ phm.running \/ eh.start \/ eh.running
  IN  /\ kpc = "events"
      /\ \/ /\ ~ scheduled \/ mode # "NORMAL" \/ busy
            /\ kpc' = "out" /\ UNCHANGED eh
         \/ /\ scheduled /\ mode = "NORMAL" /\ ~ busy
            /\ IF errors > 0 THEN kpc' = "out" /\ eh' = [eh EXCEPT !.start = TRUE]
                             ELSE kpc' = "timeouts" /\ UNCHANGED eh
      /\ UNCHANGED <<proc, queues, preemption, partition, errors, phm, now, pass, core>>

\* Mutant: what is due now waits for the next tick.
BadDue(q) == q # <<>> /\ Head(q).pri < now
Due(q) == q # <<>> /\ Head(q).pri <= now

\* Mutant: WAKE_TIME is not set for a process that stays suspended.
BadTimeout ==
  /\ kpc = "timeouts" /\ Due(timeoutQ)
  /\ LET p == Head(timeoutQ).id
         wakes == ~ proc[p].suspended \/ proc[p].suspendedTimeout
     IN  /\ timeoutQ' = Dequeue(timeoutQ, p)
         /\ waitq' = [r \in Resource |-> Dequeue(waitq[r], p)]
         /\ proc' = IF wakes THEN [proc EXCEPT ![p].woken = TRUE, ![p].state = "READY"] ELSE proc
         /\ ready' = IF wakes THEN Enqueue(ready, FALSE, p, proc[p].prio) ELSE ready
         /\ deadlineQ' = IF Enqueued(deadlineQ, p) THEN deadlineQ
                         ELSE Arm(deadlineQ, p, proc[p].deadline)
  /\ UNCHANGED <<preemption, partition, health, now, kernel, core>>

\* One round of the first loop: the process whose time has come.
Timeout ==
  /\ kpc = "timeouts" /\ Due(timeoutQ)
  /\ LET p == Head(timeoutQ).id
         wakes == ~ proc[p].suspended \/ proc[p].suspendedTimeout
     IN  /\ timeoutQ' = Dequeue(timeoutQ, p)
         /\ waitq' = [r \in Resource |-> Dequeue(waitq[r], p)]
         /\ proc' = [proc EXCEPT ![p].woken = TRUE, ![p].state = IF wakes THEN "READY" ELSE @]
         /\ ready' = IF wakes THEN Enqueue(ready, FALSE, p, proc[p].prio) ELSE ready
         /\ deadlineQ' = IF Enqueued(deadlineQ, p) THEN deadlineQ
                         ELSE Arm(deadlineQ, p, proc[p].deadline)
  /\ UNCHANGED <<preemption, partition, health, now, kernel, core>>

TimeoutsDone ==
  /\ kpc = "timeouts" /\ ~ Due(timeoutQ)
  /\ kpc' = "deadlines"
  /\ UNCHANGED <<proc, queues, preemption, partition, health, now, pass, core>>

\* One round of the second loop: a missed deadline is raised as an error. The
\* partition's action may idle or restart it from inside SCHEDULER, which then
\* starts over or is abandoned.
Deadline ==
  /\ kpc = "deadlines" /\ Due(deadlineQ)
  /\ \/ /\ LET p == Head(deadlineQ).id
           IN  /\ deadlineQ' = Dequeue(deadlineQ, p)
               /\ proc' = [proc EXCEPT ![p].deadline = Infinite]
        /\ \/ "handler" \in GoesTo /\ NotifyHandler
           \/ "callback" \in GoesTo /\ NotifyCallback
           \/ "action" \in GoesTo /\ "IGNORE" \in ErrorActions /\ UNCHANGED health
        /\ UNCHANGED <<ready, timeoutQ, waitq, preemption, partition, now, kernel, core>>
     \/ /\ "action" \in GoesTo
        /\ \E a \in ErrorActions \ {"IGNORE"} : LeaveMode(ActionMode(a))

DeadlinesDone ==
  /\ kpc = "deadlines" /\ ~ Due(deadlineQ)
  /\ kpc' = "out"
  /\ UNCHANGED <<proc, queues, preemption, partition, health, now, pass, core>>

\* SCHEDULEPROCESSOUT. After the second HANDLEPROCESSESEVENTS it is followed by
\* SCHEDULEPROCESSIN, after the first one by the partition scheduler.
AfterOut == kpc' = IF pass = "entered" THEN "in" ELSE "partition"

StopCallback ==
  /\ phm.running
  /\ IF phm.stop
     THEN nextCtx' = "DEFAULT" /\ phm' = [phm EXCEPT !.running = FALSE, !.stop = FALSE]
     ELSE UNCHANGED <<nextCtx, phm>>
  /\ UNCHANGED <<proc, current, eh>>

StopHandler ==
  /\ ~ phm.running /\ mode = "NORMAL" /\ eh.running
  /\ IF eh.stop
     THEN /\ nextCtx' = "DEFAULT"
          /\ eh' = [eh EXCEPT !.running = FALSE, !.stop = FALSE, !.preempted = NoProc]
     ELSE UNCHANGED <<nextCtx, eh>>
  /\ UNCHANGED <<proc, current, phm>>

\* Mutants: a process keeps the processor as long as none has a higher priority, or
\* loses it although it has locked preemption.
BadKeepsProcessor ==
  lock > 0 \/ \E i \in DOMAIN ready : ready[i].id = current /\ Head(ready).pri <= ready[i].pri
BadKeepsLock == ready # <<>> /\ Head(ready).id = current

KeepsProcessor == lock > 0 \/ (ready # <<>> /\ Head(ready).id = current)

\* Mutant: the context of the process that leaves is not left.
BadPreempt ==
  /\ ~ phm.running /\ mode = "NORMAL" /\ ~ eh.running /\ current # NoProc
  /\ phm.start \/ eh.start \/ ~ KeepsProcessor
  /\ eh' = IF ~ phm.start /\ eh.start THEN [eh EXCEPT !.preempted = current] ELSE eh
  /\ current' = NoProc
  /\ UNCHANGED <<proc, nextCtx, phm>>

\* The process gives way to the callback, to the error handler, or, unless it has
\* locked preemption or still heads the ready queue, to another process. The
\* state set to READY is that of the process at the head, not of the current one.
Preempt ==
  LET yields == ~ phm.start /\ ~ eh.start /\ ~ KeepsProcessor
  IN  /\ ~ phm.running /\ mode = "NORMAL" /\ ~ eh.running /\ current # NoProc
      /\ phm.start \/ eh.start \/ yields
      /\ proc' = IF yields /\ ready # <<>>
                 THEN [proc EXCEPT ![Head(ready).id].state = "READY"] ELSE proc
      /\ eh' = IF ~ phm.start /\ eh.start THEN [eh EXCEPT !.preempted = current] ELSE eh
      /\ nextCtx' = "DEFAULT" /\ current' = NoProc
      /\ UNCHANGED phm

StayOn ==
  /\ ~ phm.running
  /\ \/ mode # "NORMAL"
     \/ /\ ~ eh.running
        /\ \/ current = NoProc
           \/ ~ phm.start /\ ~ eh.start /\ KeepsProcessor
  /\ UNCHANGED <<proc, current, eh, phm, nextCtx>>

ScheduleProcessOut ==
  /\ kpc = "out"
  /\ AfterOut
  /\ \/ scheduled /\ (StopCallback \/ StopHandler \/ Preempt \/ StayOn)
     \/ ~ scheduled /\ UNCHANGED <<proc, current, eh, phm, nextCtx>>
  /\ UNCHANGED <<queues, lock, partition, errors, now, pass, ctx, scheduled, partReady>>

\* SCHEDULEPARTITIONOUT. The partition keeps the processor while it heads the
\* ready queue of partitions and its window lasts; a window ends at a tick only.
\* Leaving, it queues for its next window of the frame, if there is one.
\* Mutant: the ready queue of partitions is not consulted.
BadKeepPartition ==
  /\ kpc = "partition" /\ scheduled
  /\ kpc' = "in"
  /\ UNCHANGED <<proc, queues, preemption, partition, health, now, pass, core>>

KeepPartition ==
  /\ kpc = "partition" /\ scheduled /\ partReady
  /\ kpc' = "in"
  /\ UNCHANGED <<proc, queues, preemption, partition, health, now, pass, core>>

SchedulePartitionOut ==
  /\ kpc = "partition"
  /\ \/ /\ scheduled
        /\ pass = "tick" \/ ~ partReady
        /\ scheduled' = FALSE /\ nextCtx' = "MODULE"
        /\ partReady' \in {FALSE, partReady}
     \/ ~ scheduled /\ UNCHANGED <<scheduled, nextCtx, partReady>>
  /\ kpc' = "enter"
  /\ UNCHANGED <<proc, queues, preemption, partition, health, now, pass, ctx>>

\* SCHEDULEPARTITIONIN: resume what the partition was doing.
EnterPartition ==
  /\ kpc = "enter" /\ partReady
  /\ scheduled' = TRUE
  /\ nextCtx' = IF current # NoProc THEN current
                ELSE IF phm.running THEN "HMCALLBACK"
                ELSE IF eh.running THEN "ERRORHANDLER" ELSE "DEFAULT"
  /\ kpc' = "events" /\ pass' = "entered"
  /\ UNCHANGED <<proc, queues, preemption, partition, health, now, ctx, partReady>>

StayOut ==
  /\ kpc = "enter"
  /\ kpc' = "in"
  /\ UNCHANGED <<proc, queues, preemption, partition, health, now, pass, core>>

\* SCHEDULEPROCESSIN, then the switch to CORE_NEXT_CONTEXT.
Switch(next) ==
  /\ kpc' = "idle" /\ pass' = "none"
  /\ ctx' = IF next = "none" THEN ctx ELSE next
  /\ nextCtx' = "none"

StartCallback ==
  /\ phm.start
  /\ phm' = [phm EXCEPT !.running = TRUE, !.start = FALSE]
  /\ Switch("HMCALLBACK")
  /\ UNCHANGED <<proc, current, eh>>

StartHandler ==
  /\ ~ phm.start /\ mode = "NORMAL" /\ ~ eh.running /\ eh.start
  /\ eh' = [eh EXCEPT !.running = TRUE, !.start = FALSE]
  /\ Switch("ERRORHANDLER")
  /\ UNCHANGED <<proc, current, phm>>

\* Mutant: locked preemption does not keep other processes from being dispatched.
BadMayDispatch ==
  /\ ~ phm.start /\ mode = "NORMAL" /\ ~ eh.running /\ ~ eh.start
  /\ current = NoProc /\ ready # <<>>

MayDispatch ==
  /\ ~ phm.start /\ mode = "NORMAL" /\ ~ eh.running /\ ~ eh.start
  /\ current = NoProc /\ lock = 0 /\ ready # <<>>

Dispatch ==
  /\ MayDispatch
  /\ current' = Head(ready).id
  /\ proc' = [proc EXCEPT ![current'].state = "RUNNING"]
  /\ Switch(current')
  /\ UNCHANGED <<eh, phm>>

NothingToStart ==
  /\ \/ ~ scheduled
     \/ phm.running
     \/ /\ ~ phm.start
        /\ mode # "NORMAL" \/ eh.running \/ (~ eh.start /\ ~ MayDispatch)
  /\ Switch(nextCtx)
  /\ UNCHANGED <<proc, current, eh, phm>>

ScheduleProcessIn ==
  /\ kpc = "in"
  /\ \/ scheduled /\ ~ phm.running /\ (StartCallback \/ StartHandler \/ Dispatch)
     \/ NothingToStart
  /\ UNCHANGED <<queues, lock, partition, errors, now, scheduled, partReady>>

-----------------------------------------------------------------------------
(* TICK, and what runs when the partition does not                         *)

\* A new major frame queues the partition for its first window unless it is IDLE.
TICK ==
  /\ AtRest
  /\ now < MaxTime
  /\ now' = now + 1
  /\ partReady' \in {partReady, mode # "IDLE"}
  /\ kpc' = "events" /\ pass' = "tick"
  /\ UNCHANGED <<proc, queues, preemption, partition, health, ctx, nextCtx, scheduled>>

\* Another partition gives up the processor inside this partition's window.
OtherYields ==
  /\ kpc = "idle" /\ ~ scheduled /\ partReady
  /\ kpc' = "enter" /\ pass' = "yield"
  /\ UNCHANGED <<proc, queues, preemption, partition, health, now, core>>

-----------------------------------------------------------------------------
Services ==
  \/ CREATE_PROCESS \/ STOP_SELF \/ StopErrorHandler
  \/ LOCK_PREEMPTION \/ UNLOCK_PREEMPTION
  \/ PERIODIC_WAIT \/ SetNormalMode
  \/ CREATE_ERROR_HANDLER \/ GET_ERROR_STATUS \/ RAISE_APPLICATION_ERROR
  \/ \E m \in {"IDLE", "COLD_START", "WARM_START"} : SetStartMode(m)
  \/ \E t \in TimeOuts : SUSPEND_SELF(t)
  \/ \E b \in Budgets : REPLENISH(b)
  \/ \E d \in Delays : TIMED_WAIT(d)
  \/ \E p \in Proc :
       \/ SUSPEND(p) \/ RESUME(p) \/ STOP(p)
       \/ \E d \in Delays : DELAYED_START(p, d)
       \/ \E prio \in Priorities : SET_PRIORITY(p, prio)

Scheduler ==
  \/ StartNext \/ StartDone
  \/ HandleEvents \/ Timeout \/ TimeoutsDone \/ Deadline \/ DeadlinesDone
  \/ ScheduleProcessOut \/ KeepPartition \/ SchedulePartitionOut
  \/ EnterPartition \/ StayOut \/ ScheduleProcessIn

\* The resource services, called by the communication objects. A process of
\* another partition signals a queuing port of this one while it is not scheduled.
ResourceServices ==
  \E r \in objects :
    \/ \E t \in TimeOuts : Call("WAIT_RESOURCE") /\ WAIT_RESOURCE(r, t)
    \/ Call("SIGNAL_RESOURCE") /\ SIGNAL_RESOURCE(r, TRUE)
    \/ /\ "SIGNAL_RESOURCE" \in Calls /\ kpc = "idle" /\ ~ scheduled
       /\ SIGNAL_RESOURCE(r, FALSE)

Continues == \E p \in Proc : Continue(p)

Internal == Services \/ Continues \/ CallbackReturns \/ Scheduler \/ TICK \/ OtherYields

Next == Internal \/ ResourceServices \/ \E r \in Resource : CREATE_RESOURCE(r)

Spec == Init /\ [][Next]_vars

\* A pass through SCHEDULER and the rest of a service run with interrupts masked:
\* the processor does nothing else until they are done.
FairSpec == Spec /\ WF_vars(Scheduler \/ Continues)

-----------------------------------------------------------------------------
(* Where a process may be queued                                           *)

Runnable(p) == proc[p].state \in {"READY", "RUNNING"}
InSomeWaitq(p) == \E r \in Resource : Enqueued(waitq[r], p)

\* No process is twice in a queue, and none waits for two resources although all
\* resources of a partition share the process's one ENT_PROCESSWAITING_RESOURCE.
QueuesDistinct ==
  /\ DistinctIds(ready) /\ DistinctIds(deadlineQ) /\ DistinctIds(timeoutQ)
  /\ \A r \in Resource : DistinctIds(waitq[r])
  /\ \A r, s \in Resource : r # s => Ids(waitq[r]) \cap Ids(waitq[s]) = {}

\* The ready queue holds exactly the processes that are READY or RUNNING,
\* whatever suspends, resumes, stops, times out or signals a process, and when.
RunnableInReady == \A p \in Proc : Runnable(p) <=> Enqueued(ready, p)

\* Only a WAITING process has a time-out pending or waits for a resource: whoever
\* ends one of its waits, by whatever service, also takes it out of the other.
QueuedIsWaiting ==
  \A p \in Proc : Enqueued(timeoutQ, p) \/ InSomeWaitq(p) => proc[p].state = "WAITING"

\* No wake-up is lost: in NORMAL mode a process that is WAITING has something that
\* can still end its wait, a time-out, a resource or a RESUME.
WaitingHasReason ==
  mode = "NORMAL" /\ kpc # "starting" =>
    \A p \in Proc : proc[p].state = "WAITING" =>
      Enqueued(timeoutQ, p) \/ InSomeWaitq(p) \/ proc[p].suspended

\* A process that can run and has a deadline is watched for missing it, one that
\* is DORMANT is not, and the queue's key is the deadline the process has now.
DeadlineWatched ==
  \A p \in Proc :
    /\ Runnable(p) /\ proc[p].deadline # Infinite => Enqueued(deadlineQ, p)
    /\ Enqueued(deadlineQ, p) => proc[p].state # "DORMANT"
    /\ \A i \in DOMAIN deadlineQ : deadlineQ[i].id = p => deadlineQ[i].pri = proc[p].deadline

\* The queues ordered by priority are in order of the processes' current priority,
\* after any SET_PRIORITY; the queue of time-outs is in order of time.
QueuesInOrder ==
  /\ Sorted(ready, FALSE) /\ Sorted(timeoutQ, TRUE)
  /\ \A i \in DOMAIN ready : ready[i].pri = proc[ready[i].id].prio
  /\ \A r \in Resource \ Fifo :
       /\ Sorted(waitq[r], FALSE)
       /\ \A i \in DOMAIN waitq[r] : waitq[r][i].pri = proc[waitq[r][i].id].prio

-----------------------------------------------------------------------------
(* What runs                                                               *)

Handling == phm.start \/ phm.running \/ eh.start \/ eh.running
Settled == kpc = "idle" /\ scheduled /\ mode = "NORMAL" /\ ~ Handling

\* A process that runs is the current process: a stale CORE_NEXT_CONTEXT never
\* brings back a process that was stopped, preempted or reinitialized.
ContextIsCurrent == kpc = "idle" /\ ctx \in Proc => ctx = current

\* Priority-preemptive dispatch: when a service or a tick is over and preemption is
\* not locked, the first process of the highest priority runs, and if there is
\* none the default process.
PriorityDispatch ==
  Settled /\ lock = 0 =>
    IF ready = <<>> THEN current = NoProc /\ ctx = "DEFAULT"
                    ELSE current = Head(ready).id /\ ctx = current

\* A process that locked preemption and did not block or stop still runs.
LockHolderRuns == Settled /\ lock > 0 => current # NoProc /\ ctx = current

\* While preemption stays locked no other process gets the processor: it goes at
\* most to a handler and from there back to the process it interrupted.
LockExcludesOthers ==
  [][lock > 0 /\ lock' > 0 => current' \in {current, NoProc, eh.preempted}]_vars

\* A deadline the process that runs has given itself on this very tick: by REPLENISH
\* with a budget of zero, or with a zero time capacity at the end of SUSPEND_SELF.
\* Neither calls the scheduler, so that it waits for the next pass.
OwnDue(e) == kpc = "idle" /\ e.id = current /\ e.pri = now

\* No time-out or deadline is overdue when the partition runs: whatever moves the
\* clock, or queues an event that is due for another process, also ends in a pass
\* that serves it, and no deadline outlives the tick on which it fell due. (The pass
\* in which a handler ends serves none, so that its partition waits for the next tick.)
EventsServed ==
  Settled /\ lock = 0 /\ ~ eh.exists /\ ~ HmCallback =>
    /\ timeoutQ = <<>> \/ Head(timeoutQ).pri > now
    /\ \A i \in DOMAIN deadlineQ : deadlineQ[i].pri > now \/ OwnDue(deadlineQ[i])

\* The answer of WAIT_RESOURCE: a process that comes back from a wait with a
\* time-out was either signalled or timed out, never both, never neither; from a
\* wait without one it only comes back signalled.
GrantXorTimeout ==
  \A p \in Proc : Runnable(p) =>
    /\ proc[p].tail = "resource" => (proc[p].granted <=> ~ proc[p].woken)
    /\ proc[p].tail = "ever" => proc[p].granted

\* The processor runs nothing of a partition that is IDLE.
IdleRunsNothing == kpc = "idle" /\ mode = "IDLE" => ~ scheduled /\ ctx = "MODULE"

\* Every pass through the scheduler ends: the loops over time-outs and deadlines,
\* and the passes that errors start inside them.
SchedulerEnds == kpc \notin {"idle", "fault"} ~> kpc \in {"idle", "fault"}

-----------------------------------------------------------------------------
(* What the communication objects rely on                                  *)

\* Where a process is with its wait for a resource. Once it is out of the queue its
\* answer is the one WAIT_RESOURCE is going to give: TIMED_OUT when there was a
\* time-out and WAKE_TIME is set, else NO_ERROR.
WaitState(p) ==
  IF proc[p].state = "DORMANT" \/ proc[p].tail \notin {"resource", "ever"} THEN "none"
  ELSE IF InSomeWaitq(p) THEN (IF proc[p].tail = "ever" THEN "ever" ELSE "timed")
  ELSE IF proc[p].tail = "resource" /\ proc[p].woken THEN "expired" ELSE "granted"

Waiting == INSTANCE WaitQueues WITH
  queue <- [r \in Resource |-> [i \in DOMAIN waitq[r] |-> waitq[r][i].id]],
  wait <- [p \in Proc |-> WaitState(p)]

\* The process level implements the waiting that the communication objects are
\* built from, whatever else happens to a process that waits.
ImplementsWaiting == Waiting!WaitSpec

-----------------------------------------------------------------------------
(* What comments of the code say and the code does not do (README)         *)

\* core.h: REC_PROCESSDEADLINE sorts processes by ascending deadline time.
DeadlinesSorted == Sorted(deadlineQ, TRUE)

\* core.h: CURRENT_PROCESS_INFORMATION points to the running process information,
\* so the context that runs is the current process's.
CurrentRuns == Settled /\ current # NoProc => ctx = current

=============================================================================
