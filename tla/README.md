# A verification project for ARINC653_ARMV7A_AM335X

The repository is a bare-metal operating system in C for the TI AM335x (BeagleBone) that offers
the services of ARINC 653 Part 1: partitions with fixed windows in a major frame, processes with
priorities inside a partition, objects for communication inside and between partitions, and health
monitoring. This directory holds TLA+ modules that model its kernel, TLC configurations that check
them on small instances, and proofs that TLAPS checks for all instances.

## 1. The system

| Component | State | Operations | Source |
|---|---|---|---|
| Priority queues | records and entries, doubly linked | initialize, enqueue, dequeue, clear | `arinc653_priorityqueue.c` |
| Process management | `PROCESS_INFORMATION`: state, priority, suspension, release and deadline times; `LOCK_LEVEL` | create, start, stop, suspend, resume, priorities, preemption lock, wait for and signal a resource | `arinc653_processManagement.c` |
| Time management | the clock, queue keys | `TIMED_WAIT`, `PERIODIC_WAIT`, `REPLENISH` | `arinc653_timeManagement.c` |
| Process scheduler | `CURRENT_PROCESS_INFORMATION`, the ready, deadline and time-out queues, `CORE_CURRENT/NEXT_CONTEXT` | `HANDLEPROCESSESEVENTS`, `SCHEDULEPROCESSOUT/IN`, `SCHEDULER`, `TICK` | `arinc653_scheduler.c` |
| Partition scheduler | `MAJOR_FRAME_TIME`, the queue of ready partitions, `SCHEDULE_WINDOW_INDEX` | `SCHEDULEPARTITIONOUT/IN`, frame start | `arinc653_scheduler.c` |
| Health monitoring | error handler, partition and module callbacks, ring of error statuses | raise errors of a process, partition or module; run the configured action | `arinc653_healthMonitoring.c` |
| Core | contexts, interrupt mask | `ENTER_CORE`, `EXIT_CORE`, (re)initialization of process, partition, module | `arinc653_core.c` |
| Partition and module management | `OPERATING_MODE`, `INITIALIZED` | `SET_PARTITION_MODE`, `SET_MODULE_MODE`, `CREATE_PARTITION` | `arinc653_partitionManagement.c`, `..moduleManagement.c` |
| Semaphores, events, buffers, blackboards | a value or messages, and a queue of waiting processes | create, wait/receive/read, signal/send/display | `arinc653_intrapartitionCommunication_*.c` |
| Queuing and sampling ports | messages of one partition that the I/O partition carries to another one | create, send/receive, write/read; peek, take and put for the I/O partition | `arinc653_interpartitionCommunication_*.c` |
| I/O partition | where its processes are in the connection table | `SAMPLINGPORTS`, `QUEUINGPORTS`, `ETHERNET` | `arinc653_systempartition_io.c` |
| Port layer | registers, stacks, MMU, timers | `PORT_YIELD`, `PORT_SWITCH`, the tick interrupt | `src/ARINC653_PORT/` |
| Application, instruments, drivers, vendored libraries | – | – | `src/Application`, `src/Instruments`, `src/Hardware`, `src/Library` |

How they interact. An application calls a service; the service masks interrupts (`ENTER_CORE`),
changes tables and queues, and either returns (`EXIT_CORE`) or calls `PORT_YIELD`, a supervisor
call into `SCHEDULER`. The timer interrupt calls `TICK`, which advances the clock and also calls
`SCHEDULER`. `SCHEDULER` releases processes whose time has come, raises missed deadlines, takes
the current process and partition off the processor if it must, puts the next ones on it, and
switches to `CORE_NEXT_CONTEXT`. A blocking service goes on after its `PORT_YIELD` when its process
is dispatched again, possibly much later, and acts on what it finds then. Every communication
object waits through one function, `WAIT_RESOURCE`, and wakes through `SIGNAL_RESOURCE`. Messages
between partitions lie in a source port until the I/O partition, a partition like others with
windows of its own, has peeked at them, put them into the destination port and taken them from the
source: three services, with anything in between. An error
may start the error handler (a process of the partition above all others), a callback of the
partition or of the module, or an action: idle or restart the partition, shut the module down. That
action may be run from inside `SCHEDULER`, which it re-enters or abandons.

What is hard:
* **interleaving** of time-outs, signals, suspensions, stops and priority changes of one process,
  each of which moves it between four queues (ready, deadline, time-out, resource);
* **stale state** after a yield, in queue keys that are overwritten in place, in
  `CORE_NEXT_CONTEXT` after an abandoned pass, in a window index after a restart or a callback;
* **actions inside loops**: a missed deadline restarts the partition whose queue is being walked;
* **preemption locks** across errors and handlers, with control that returns past the scheduler;
* **transfers in steps**: a message handed to a process that has not run yet, a message sent on and not yet
  taken, while either end, or the carrier, times out, is stopped or restarts;
* **what outlives a restart**: messages and times in ports and buffers, not the processes that waited;
* **boundaries**: events due exactly now, a window that ends on the tick another begins, full and empty rings;
* **termination** of loops that run with interrupts masked.

What makes it correct: a process's state agrees with the queues it is in; no wake-up is lost or
answered twice; the first process of highest priority runs, unless preemption is locked, and then
the holder does; deadlines are watched and events served on time; a context that runs is the
current one; partitions run in their own windows and all of them keep running; semaphores exclude;
nobody waits for what is there; buffers and ports are FIFO channels; the I/O partition loses and
reorders nothing.
`PROJECT.json` lists the hazards one by one with the source line and the property that covers each.

## 2. The modules

```
 AbstractQueues        PriorityQueues                a queue of entries as a sequence
       ^ implements      ^    ^    ^
       |                 |    |    +-- PartitionScheduler <- PartitionIsolation
  LinkedQueues ----------+    |                          windows, frames, module callback
                              +-- Processes              one partition from inside
                                       | implements
                                       v
                                  WaitQueues             what waiting and signalling promise
                                       ^
                              CommunicationObjects       create, call, return, stop, restart
                                ^                ^
     Semaphores  Events  Blackboards  Buffers    QueuingPorts  SamplingPorts
                 ^                       |          |       ^     ^
    IntrapartitionCommunication          +-> Rings <+    SystemPartitionIO
                                         |          |           ^
                          implements     v          v   InterpartitionCommunication
                                     AbstractChannels
 MC*: instances of these for TLC            *_proofs: theorems about them

 PriorityQueues_proofs <- LinkedQueues_proofs, PartitionScheduler_proofs
                       <- Processes_proofs <- ProcessStates_proofs
 CommunicationObjects_proofs <- Intrapartition_proofs, Interpartition_proofs
```

**`PriorityQueues`** – operators `Enqueue`, `Dequeue`, `Ids`, `Sorted` on sequences of entries
`[id, pri]`. This is the view that the kernel modules have of a queue.

**`AbstractQueues`, `LinkedQueues`** – the first is the promise as a state machine: a set of
records, each a sequence, an entry in one at most. The second is the code, pointer by
pointer: `next`, `previous`, `key` and the record (`enqueued`) of an entry, `head` and `count` of a
record, with pointers of removed entries left dangling as in the code. The property
`ImplementsQueues` is the refinement: the sequences read off the pointers are the state of
`AbstractQueues`.

**`Processes`** – one partition. The variables are the code's, with these translations:
`proc[p]` is `PROCESS_INFORMATION`, with `woken` for "`WAKE_TIME` is not infinite" and `tail` for
the half of a blocking service that is still to run; `ready`, `deadlineQ`, `timeoutQ` and
`waitq[r]` are the queues; `eh` and `phm` the handler records; `ctx`, `nextCtx` the two context
pointers; `kpc` says where in the kernel control is. `granted` is auxiliary.
* A service is one action, from `ENTER_CORE` to `EXIT_CORE` or `PORT_YIELD`, since interrupts are
  masked. Its refusals (a `RETURN_CODE` and no change) are stutters; its guards are their negation.
* `Continue(p)` is the code after `PORT_YIELD` in `SUSPEND_SELF`, `WAIT_RESOURCE` and `TIMED_WAIT`.
  It is taken when `p` has the processor again and, interrupts still being masked, before
  anything else.
* `SCHEDULER` is cut into the functions it calls and the rounds of its loops: `HandleEvents`,
  `Timeout`*, `TimeoutsDone`, `Deadline`*, `DeadlinesDone`, `ScheduleProcessOut`, `KeepPartition` or
  `SchedulePartitionOut`, `EnterPartition` or `StayOut`, `ScheduleProcessIn`. After `EnterPartition`
  the events are handled again (`pass = "entered"`).
* `GoIdle`, `Restart` and `Wiped` are the three ways out of `SET_PARTITION_MODE`; they can happen in
  a service, in the callback or inside the deadline loop. `kpc = "fault"` is the dereference of
  pointers that the reinitialization has cleared; nothing happens after it.
* The windows are left open: any tick may end the partition's window or, in a new frame, queue it
  again, and the next window with `PERIOD_START` may be any time within `MaxGap`.
* An error whose code has no level in the table is dropped (`arinc653_healthMonitoring.c` line 603), which changes what
  IGNORE changes; one of the level of the module is `RaiseModuleError` of `PartitionScheduler`. `ErrorLevels` has neither.
* Left out: the early returns for the module's own callback (`arinc653_scheduler.c` lines 275
  and 397), which are in `PartitionScheduler`; the `MEASURE` and `TRACK` instruments; services that
  only read; return codes, except where a property needs them (`granted` and `woken`).

**`PartitionScheduler`** – all partitions and their windows, with what happens inside a partition
reduced to what matters for windows: it yields, becomes NORMAL, restarts, idles, or raises a
module error, at rest or from inside `SCHEDULER` while its events are handled (`HandlesEvents`).
`time` is the offset in the frame, so that runs have no time bound. The module's action that restarts the board
(`PORT_RESTARTMODULE`) is no action of the model: what follows it is another behaviour, from `Init`. **`PartitionIsolation`** adds
one auxiliary variable: whether a restart out of `SCHEDULER` or a module callback has disturbed the
windows in the current frame.

**`WaitQueues`** – what `WAIT_RESOURCE` and `SIGNAL_RESOURCE` promise to the objects: who waits is in one
queue and leaves it by a signal, by its time-out or by `STOP`, with the answer that fits. When this
happens is left open. `Processes!ImplementsWaiting` is the refinement: for each process the
answer it is going to get is read off its record, the time-out queue and the resource's queue.

**`CommunicationObjects`** – what all objects share on top of that: creation before NORMAL, the call
a process is blocked in (`call[p]`, with the addresses the code keeps in `PROCESS_INFORMATION`), the
return from it, `STOP` and the restart of a partition, which stops the processes and forgets the
objects but keeps what is in them (`arinc653_core.c` lines 319 to 390). Any process that does not wait may call a
service: the scheduler's choice is left open, so that what holds here holds under any priorities.
`RETURN_CODE` is `wait[p]` (`granted` is `NO_ERROR`, `expired` is `TIMED_OUT`).

**`Semaphores`, `Events`, `Blackboards`, `Buffers`** – one module each with an action for each service
that changes state, the first half of the blocking ones up to `WAIT_RESOURCE` and an action for the
rest. Semaphores come with the sections they guard: a process signals what it holds only. The
calls of readers and of buffer services carry an auxiliary field each (`displayed`, `done`).
**`IntrapartitionCommunication`** puts them together with time-outs, stops, changes of priority and restarts.

**`Rings`, `AbstractChannels`** – the ring of messages with `NEXT_MESSAGE_INDEX` and `MESSAGE_COUNT` that buffers and
queuing ports share, and what it and the hand-over to waiting processes amount to: a bounded FIFO
channel. `ImplementsChannels`, in `Buffers` and in `QueuingPorts`, is the refinement.

**`QueuingPorts`, `SamplingPorts`** – the services for partitions and those for the I/O partition
(`*_PARTITION_*`). The sampling services ask neither for a process nor for NORMAL mode, so that the default process in a start
mode and the error handler call them as well. A queuing message is the number under which its source has
accepted it; a sampling message is the number of its write. `MESSAGE_COUNT` wraps as `SIZE_TYPE` does.
**`SystemPartitionIO`** – the loops of `SAMPLINGPORTS` and `QUEUINGPORTS` (`arinc653_systempartition_io.c`), one action
per call of the core: peek at the source, write to each destination, take from the source; any of them may be
the last one before the error handler restarts the process or the partition restarts.
**`InterpartitionCommunication`** puts ports, processes of several partitions and the I/O partition together.

Time is counted in ticks: `CLOCK_GETSYSTEMTIME` (`arinc653_clock.h` line 29) returns a variable
that only `TICK` advances, and windows are multiples of `PORT_TICKWINDOW`.

A definition named `BadX` is a mutation of `X`, a plausible bug at that place; no behaviour of the
project uses it. Each property of a passing run is violated when the mutation named for it in
`PROJECT.json` replaces the original, which shows that the run would notice.

## 3. What is checked

Run a configuration with `tlc -config X.cfg M`, `M` being the module named below.

### Runs that pass

| Run | Module | Question | Properties |
|---|---|---|---|
| `LinkedQueues` | `MCLinkedQueues` | Do the linked lists behave as sequences under any use, also when an entry is enqueued twice, removed twice, or a record is cleared? | `TypeOK`, `ListsMatchMembership`, `PreviousInvertsNext`, `ImplementsQueues` |
| `Waits` | `MCProcesses` | Is each wait (for a resource, for time, suspended, or several of these at once) ended exactly once, whoever ends it, do state and queues agree all along, and is that what the objects rely on? | `WaitingHasReason`, `GrantXorTimeout`, `RunnableInReady`, `QueuedIsWaiting`, `QueuesInOrder`, `ImplementsWaiting` |
| `Dispatch` | `MCProcesses` | Does the right process run after any change of priority, and does who locked preemption keep the processor? | `TypeOK`, `PriorityDispatch`, `LockHolderRuns` |
| `Deadlines` | `MCProcesses` | Is every deadline watched and everything due served, but the deadline a process sets itself for the tick it is on, does every pass through `SCHEDULER` end, also one that idles or restarts the partition on its way, and does an IDLE partition run nothing? | `DeadlineWatched`, `EventsServed`, `IdleRunsNothing`, `SchedulerEnds` |
| `Handlers` | `MCProcesses` | Does control come back from handlers and callbacks to the current process only, and never to a third process past one that locked preemption? | `ContextIsCurrent`, `LockExcludesOthers` |
| `Windows` | `MCPartitionScheduler` | Through callbacks, shutdown and restarts, does the queue of partitions fit their windows, is a partition that got into another one's window out of it by the next frame, is each given its windows in a frame that nothing has disturbed, is none wasted, and does each run again and again? | `TypeOK`, `ReadyMatchesIndex`, `IsolationRecovers`, `WindowGranted`, `NoStarvation` |
| `Objects` | `MCIntrapartition` | Do semaphores exclude, does nobody wait for what is there, do readers get what was displayed for them, do buffer services take the head of the queue for what it is, tell the truth, and make a FIFO channel? | `TypeOK`, `SectionsGuarded`, `NobodyWaitsInVain`, `ReadersFindDisplayed`, `OneSideWaits`, `AnswerMatchesEffect`, `ImplementsChannels` |
| `Channels` | `MCInterpartition` | Are messages between partitions neither lost nor reordered, and repeated only where a transfer was interrupted; and does a sampling source count as read only when all destinations have its message? | `TypeOK`, `NothingLost`, `WaitsOnlyIfBlocked`, `TakenMeansArrived`, `ArrivesInOrder`, `ImplementsChannels` |
| `Forwarding` | `MCInterpartition` | Does the I/O partition go on to whatever message has a place to go to, also when another channel is empty, its destination full, or a port of it not there? | `Forwarded` |

### From the kernel to the objects

The objects are not composed with `Processes` itself, whose state space leaves no room for them, but with
`WaitQueues`, which `Processes` implements (checked in `Waits`, proved by `ProcessesImplementWaiting`): whatever `Processes` does to a process that
waits for a resource is a step of `WaitQueues` or none. What is checked of the objects against all behaviours of
`WaitQueues` thereby holds of those that `Processes` allows. The instance of `Waits` has a resource ordered by priority; the theorem
is about FIFO queues as well, in which `Places` only appends. `SET_EVENT` and `DISPLAY_BLACKBOARD`
signal in a masked loop, a sequence of `Signal` steps; `SignalAll` is all of them at once.

### Bounds, and why they are enough

* `Processes`: two processes, p1 more urgent than p2; three, two of them of one priority, where order among
  equals matters (`Dispatch`). The interactions of section 1 are between a process
  and one that acts on it; a third is needed only to stand between two in a queue.
* `MaxTime`, in ticks: 1 in `Dispatch` and 2 in `Waits`, where every wait lasts one tick or for ever,
  so that all that can be done to a waiting process happens before, at and after its expiry; 2 in `Handlers` and 3 in
  `Deadlines`, for a missed deadline (capacity 1) after a start in a later tick, and a release of a process of period 2.
  After `MaxTime` there are no more ticks, which is why these runs do not check for deadlock: a partition whose
  processes all wait then stops.
* `TimeOuts` leaves out zero, with which the services do not block. `REPLENISH` accepts a budget of zero
  (`arinc653_timeManagement.c` line 253), which makes the deadline due at once; `Budgets` has it in `Deadlines`, with one tick
  and infinity.
* `MaxLock` 1, and 2 in `Dispatch`, for nesting. `MAX_LOCK_LEVEL` is 16 in the code.
* `MaxErrors` 1: the ring is full after one error.
* `MaxGap` 0, and 1 in `Deadlines`: the first release up to a tick off in either direction.
* Each run allows the services its question is about (`Calls`), to keep it small. The services
  that every run needs (`CREATE_PROCESS`, `START`, `SET_PARTITION_MODE(NORMAL)`) are in all.
* Error actions: in `Deadlines` errors may go straight to the partition's action, so that it is taken inside the deadline loop;
  in `Handlers` they go to the error handler or the callback, whose return takes the action.
* `PartitionScheduler`: the shape of `src/Application/configuration.c`, lines 19 to 52: two partitions
  with two windows and one with one, of 2, 1 and 2 ticks, in a frame of 10 ticks with idle gaps.
  Windows touch each other, which is the case in which the order at a boundary matters.
* `LinkedQueues`: three entries, three records (descending, ascending, FIFO), two keys: an entry can be
  first, last, only, or in the middle, next to equal and different keys.
* `Objects`: three processes, so that two wait and a third acts, or that one is on its way in while two are at the
  semaphore of two units; a buffer of three places, so that the ring turns while it is neither full nor empty; two messages. The
  objects are used one kind at a time, and a semaphore with a blackboard (`Uses`): they share nothing but the processes
  that wait for one of them at a time. The buffer is FIFO, the others ordered by priority.
* `Channels`: one process at each end; a source of two places and a destination of one, so that either is full
  before the other; four numbers (`Numbering`), more than the three messages that can be under way; a
  sampling source with two destinations in different partitions, two writes and two ticks (`MaxWrites`, `MaxTime`),
  for a write in the tick of another one, of a transfer, and after it. `SizeLimit` 16 is out of reach there. The
  behaviours are about queuing or about sampling ports, which share no state.
* `Forwarding`: two queuing and two sampling channels. The first of each kind leads to a partition without processes, so that
  a queuing destination there fills for good, or was never created, and the loops must get past it to the second
  one. One place a port and two writes suffice for that. Every take empties its source, so that the numbers of messages
  make no difference (`Numbering` 1). The clock stands still (`MaxTime` 0): within a tick a sampling source is read once, so
  that the run shows each source's message getting on, and the loop of the queuing channels also its successors.
* One sender and one receiver a port, because with two the properties do not hold (`PortCapacity`).

The largest run, `Waits`, has 2.6 million states; it and `Deadlines` take two to three minutes with two workers.

Deadlock is not checked in the runs of `MCProcesses`, for the reason above, and in `Objects`, `Channels` and `Forwarding`
not, where all processes may wait without time-outs for each other, as applications may.

### Fairness

`Processes!FairSpec` asks weak fairness of `Scheduler \/ Continues` only. `SCHEDULER` and the rest of
a blocking service run with interrupts masked: once begun they have the processor to themselves.
Nothing is assumed of services or of ticks. `PartitionScheduler` adds strong fairness of
`TICK`: a tick that comes while `SCHEDULER` has interrupts masked stays pending in the timer and is
taken when they are unmasked, however often partitions yield; weak fairness would not say so, since
the tick is not enabled inside `SCHEDULER`. `InterpartitionCommunication!FairSpec` asks weak fairness of the two loops of the I/O
partition: it has windows, gets the processor in them (`NoStarvation`), and its two processes are of one
priority and give way to each other by `TIMED_WAIT(0)`. Nothing is assumed of the
partitions: a receiver may never receive, and a stopped process need not be started again, which is why `Forwarded`
is about messages whose destination has a place and excuses ports and processes that are not there.

### Where the code and its comments disagree

Each of these runs checks one property, a comment of the code read as a formula, and TLC finds it
violated by what the code does. `findings` in `PROJECT.json` quotes the comment.

| Run | What happens |
|---|---|
| `DeadlineOrder` | Two processes suspend themselves with a time-out, at whose end the time-out loop of the scheduler links their deadlines. The tail of `SUSPEND_SELF`, in the one that runs first, overwrites the key of its linked entry; the queue gets out of order and an earlier deadline waits behind a later one. (`RESUME` does the same to an entry that the time-out loop or `STARTPROCESSSCHEDULER` has linked.) |
| `HolderLost` | An error handler that interrupted a process that had locked preemption ends by `PORT_SWITCH`, with `RUNNING` still set. The next pass clears it and sends the processor to the default process; the lock holder stays current and nobody is dispatched. |
| `PortCapacity` | A sender waits for a full port and is signalled when the I/O partition takes a message. Before it runs another process of its partition sends, finds a place and nobody in the queue, and fills the port. The first one then stores over the oldest message and counts one more than there are places. |

The models also show, in states of the passing runs that no property is about:
* On a preemption `SCHEDULEPROCESSOUT` (`arinc653_scheduler.c` line 485) writes READY into the process at the head of
  the ready queue, not into the one that leaves, which stays RUNNING (`Preempt`).
* After the time-out of `SUSPEND_SELF` a process runs with `SUSPENDED` set; a later `SUSPEND` of it does nothing.
* `SET_PARTITION_MODE` to a start mode or IDLE before the first NORMAL clears the partition's configuration
  and context pointers, because `INITIALIZED` is not set yet (`Wiped`).
* A restart out of `SCHEDULER` while the partition enters its window leaves `CORE_NEXT_CONTEXT` naming a wiped
  process, to which a later pass switches.
* A deadline missed on the tick that ends the window, whose action restarts the partition, leaves `SCHEDULER` by
  `PORT_SWITCH` before `SCHEDULEPARTITIONOUT`: the partition runs into the next one's window, until the next tick (`Isolation` is
  violated there; `IsolationRecovers` says that the frames after it are free of it).
* After a module callback that lasts beyond a window's end the displaced partition is still queued for it
  and enters in another one's.
* `SET_MODULE_MODE(IDLE)` from a partition's context: `SCHEDULEPARTITIONOUT` returns early and the partition stays on
  the processor.
* A receiver that waited leaves `OVERFLOW` set, for the next message that is received without waiting.
* A sampling message that is written between the peek and the take, or in the tick of the take, is never forwarded.

The passing runs keep to configurations without such a sequence where it would break the property:
`ContextIsCurrent` is checked in `Handlers`, where an action restarts the partition on the callback's
return and not inside `SCHEDULER`; `IsolationRecovers` and `WindowGranted` speak of frames in which neither a restart inside `SCHEDULER` nor
a module callback happens (after a restart inside `SCHEDULER` another partition may own the window). `EventsServed` excludes the pass in which a handler
ends, which serves no events in the code; those wait for the next tick. It also excludes the deadline that a process
sets itself on the tick on which it is due (`OwnDue`): `REPLENISH` with a budget of zero, and the rest of `SUSPEND_SELF`
with a time capacity of zero, call no scheduler, and the miss is noticed by the next pass.

## 4. What is proved

The theorems hold for every value of the constants that satisfies the named assumptions
(`ProcessesAssumption`, `PartitionSchedulerAssumption`, `ConnectionTable`, `IntrapartitionAssumption` and those of the
objects and ports): any processes, resources, priorities, time bounds, windows, objects, capacities, channels. TLC evaluates the
assumptions in each run. Beyond types they say: processes are finitely many; a channel has one source, a port is in one channel and
source and destination are of different kinds; a queuing port has fewer places than `SIZE_TYPE` can count. Where a
theorem needs more, its statement says so; these hypotheses are explained below.

| Module | Theorem | Says |
|---|---|---|
| `PriorityQueues_proofs` | `EnqueueSorted`, `DequeueSorted` | The queue operations keep a queue of any length sorted; further lemmas: they add and remove exactly one process and create no duplicates. |
| `LinkedQueues_proofs` | `TypeCorrect`, `ListsAreMembership`, `PreviousIsInverse` | `[]TypeOK`, `[]ListsMatchMembership`, `[]PreviousInvertsNext` for any entries and records |
| | `QueuesAreSequences` | `Spec => ImplementsQueues`: each operation on pointers is one on sequences |
| `PartitionScheduler_proofs` | `TypeCorrect` | `Spec => []TypeOK` |
| | `ReadyQueueCorrect` | `[]ReadyMatchesIndex` for every window table, with callback, shutdown and restarts |
| | `WindowsAreUsed` | `[]WindowUsed` for every table with `WindowsInOrder` |
| | `WindowsAreGranted` | `[]WindowGranted` for every table with `WindowsInOrder` and `WindowsDisjoint` |
| | `IsolationIsRecovered` | `[]IsolationRecovers` for every table with `WindowsInOrder` and `WindowsDisjoint` |
| `Processes_proofs` | `TypeCorrect` | `Spec => []TypeOK` |
| | `IdlePartitionRunsNothing` | `[]IdleRunsNothing` for every configuration |
| | `LockHolderIsExcluded` | `LockExcludesOthers` for every configuration |
| | `ContextOfCurrent` | `[]ContextIsCurrent` if `NoRestartInPass` |
| | `WithoutRestartActions` | Configurations whose actions ignore or idle satisfy `NoRestartInPass`. |
| `ProcessStates_proofs` | `ReadyQueueHoldsRunnable`, `OnlyWaitingQueued`, `NobodyQueuedTwice` | without a callback, `[]RunnableInReady`, `[]QueuedIsWaiting`, and no queue holds a process twice, and none waits for two resources |
| | `QueuesKeepOrder` | without a callback, `[]QueuesInOrder` |
| | `MostUrgentRuns` | without a callback and if `NoRestartInPass`, `[]PriorityDispatch` |
| | `WaitsCanEnd`, `WaitsEndOnce` | under the same hypotheses, `[]WaitingHasReason` and `[]GrantXorTimeout` |
| | `ProcessesImplementWaiting` | under the same hypotheses, `ImplementsWaiting`: every step is one of `WaitQueues` or a stutter |
| | `DeadlinesAreWatched` | under the same hypotheses and `ConfigOf`, `[]DeadlineWatched` |
| | `DeadlinesKeepOrder` | under the same hypotheses and without `SUSPEND` and `SUSPEND_SELF`, `[]DeadlinesSorted` |
| | `DueEventsAreServed` | under the same hypotheses and if `[]DeadlinesSorted`, `[]EventsServed` |
| | `LockHolderKeepsProcessor` | with neither error handler nor callback, `[]LockHolderRuns` |
| `Intrapartition_proofs` | `TypeCorrect` | `Spec => []TypeOK` for all objects of a partition together |
| | `WaitsAreJustified` | `[]NobodyWaitsInVain` |
| | `HeadIsWhatItIsTakenFor` | `[]OneSideWaits` |
| | `BufferAnswersAreTrue` | `[]AnswerMatchesEffect` |
| | `ReadersAreServed` | `[]ReadersFindDisplayed` |
| | `SemaphoresExclude` | `[]SectionsGuarded` |
| | `BuffersImplementChannels` | `Spec => ImplementsChannels`: initial states map to initial states, every step to a step of a FIFO channel or a stutter |
| `Interpartition_proofs` | `PortsTypeCorrect`, `NothingIsLost`, `MessagesArriveInOrder`, `PortsImplementChannels` | if `[]WithinCapacity`: `[]TypeOK`, `[]NothingLost`, `ArrivesInOrder` and the refinement `ImplementsChannels` |
| | `OneProcessKeepsCapacity` | With one process a port (`OneProcessAPort`), `[]WithinCapacity`. |
| | `OneProcessWaitsJustly` | With one process a port, `[]WaitsOnlyIfBlocked`. |
| | `ReadMeansArrived` | `[]TakenMeansArrived` |

`CommunicationObjects_proofs` has the lemmas that the last two share: what happens to the queues of waiting processes, and rings.

The hypotheses:

* **No callback** (`HmCallback = FALSE`). A callback that interrupts a lock holder after the error handler's direct
  return (`HolderLost`), with `RUNNING` still set, leaves it current even if it stops, and then a service may be called by a process
  that cannot run. Configurations with a callback are left to the run `Handlers`.
* **`NoRestartInPass`**: no missed deadline restarts the partition from inside `SCHEDULER`. It is a formula about behaviours,
  true of every configuration without a restart as error action (`WithoutRestartActions`), and of those with one as long as errors are
  taken by a handler. A restart there abandons the pass, with `CORE_NEXT_CONTEXT` set, and the next pass switches to it.
* **No error handler** in `LockHolderKeepsProcessor`: with one, the finding `HolderLost` violates the property.
* **`ConfigOf`** in `DeadlinesAreWatched`: every process has a time capacity, or the application does not call `REPLENISH`, or it does not suspend. In
  the other configurations a key may be out of date: where the time capacity is infinite and `REPLENISH` has set a finite deadline, the
  time-out of a suspended process arms that deadline (`arinc653_scheduler.c` lines 341 to 348), and `RESUME` or the rest of
  `SUSPEND_SELF` sets `DEADLINE_TIME` to infinite without taking the entry out of the queue.
* **No suspending** in `DeadlinesKeepOrder`: `RESUME` and the rest of `SUSPEND_SELF` arm a deadline that may be linked already, which leaves
  the entry where it is under a new key. The finding `DeadlineOrder` is such a sequence.
* **`[]DeadlinesSorted`** in `DueEventsAreServed`: the loop over deadlines stops at the first that is not due, so one that is due behind it is left.
  `DeadlinesKeepOrder` says where the hypothesis holds.
* **`WindowsInOrder`**: each of a partition's windows ends before its next one begins. `CREATE_PARTITION` checks that they are listed in order of
  their starts (`arinc653_partitionManagement.c` line 243) and end inside the frame. **`WindowsDisjoint`**: the windows of different partitions do not overlap, which
  nothing in the code checks; isolation is about such tables only.
* **`[]WithinCapacity`**: no queuing port ever counts more messages than places. `PortCapacity` shows that two senders of a port
  violate it; `OneProcessKeepsCapacity` shows that one process a port suffices, so the theorems of this row hold without hypothesis there.

The arguments:

* **Lists**. What a step does to the walk along `next` cannot be told from who is enqueued where. The invariant (`IInv`) is that there are
  sequences, one a record, of which the pointers are the links (`Lists`), every entry enqueued being in its record's. `WalkIs` shows that
  the walk from a head then reads off the sequence; it is a recursive function, of which `LeastNatural` shows that there is one only. `EnqueueLists`,
  `RemoveLists` and `ClearLists` give the sequences after each operation, `StopAt` where the lookup loop ends. The refinement takes
  them as the abstract queues, with the keys (`Keyed`).
* **Windows**. For `ReadyQueueCorrect` the invariant `Inv` restates the property entry by entry (`Fits`), since a
  queue operation shifts positions and keeps entries. That a new frame's queue satisfies it needs that the
  loop over partitions (`Queued`, a recursive function) has a defined value in every round; `RoundsExist`
  constructs it and `QueuedRounds` follows the loop. `WindowInv` adds that the windows before a partition's index are over (`Past`), and what is
  left to do in the pass of `SCHEDULER` (`Turn`). `RecoveryInv` adds what holds in a frame that nothing has disturbed: a queued partition's window has not
  begun before now (`Due`) and the owner of the processor is in its own (`OwnerInPlace`); a new frame establishes both, whatever the last one left (`FrameRecovers`).
* **`TypeCorrect` of `Processes`**. `TypeOK` is not inductive: the type of a queue after `Enqueue` depends on
  the entry not being in it twice. `TypeInv` adds `QueuesOK`, that no queue holds an
  entry twice. One lemma per table (`NextTable`, `NextQueues`, `NextRest`) keeps each case small.
* **Contexts**. `PlacedInv` relates the context that runs, `CORE_NEXT_CONTEXT` and where `SCHEDULER` is to whether the partition has
  the processor; with `IdleLeaves`, that a pass that finds the partition IDLE takes it off, it gives `IdleRunsNothing`. `ContextInv` adds that a
  process's context is the current one's, which a restart inside the pass breaks.
* **State and queues**. `StatesInv` is `TypeInv /\ Places /\ Control`. `Places` is what is to be proved
  (`WaitsForOne`, `RunnableInReady`, `QueuedIsWaiting`) with `UncreatedDormant`. It is not inductive alone, since
  whether a service is called by a process that can run depends on how control got there. `Control` says it:
  `CurrentRunnable` (the current process can run, except between the service that
  blocks it and `SCHEDULEPROCESSOUT`), `HolderRunnable` (the process that an error handler interrupted, if it
  locked preemption, still can), `ContextScheduled` (nothing of the partition runs outside its window),
  `StartingQueues` (during `STARTPROCESSSCHEDULER` a process waits for nothing until its turn),
  `NoCallbackRuns`. `OneProcess` reduces the steps that move one process to four facts about its place before and
  after.
* **Dispatch**. `PriorityDispatch` speaks of states at rest; `DispatchInv` adds what holds on the way there, while preemption is not locked and no handler runs:
  after `SCHEDULEPROCESSOUT` a process that is still current heads the ready queue (`StillFirst`), and `SCHEDULER` is going to return to the current process
  (`ReturnsToCurrent`); and while the error handler runs, no process is current but the one that locked preemption (`HandlerAlone`). `HolderInv` does the same for the lock holder.
* **Order of queues**. A process's priority changes together with its place in the queues it is in. `OrderStep` says of a step that the queues it does
  not rebuild keep their entries and these keep their keys (`Keyed`); `EnqueueSorted` and `DequeueSorted` do the rest.
* **Waits**. `WaitingHasReason` is nearly inductive; `GrantXorTimeout` is not, since it speaks of processes that have come back. `Answer` says of every process, waiting or not, what
  the second half of its service, its places in the queues and its flags have to do with each other: who is in `WAIT_RESOURCE` and neither granted nor woken is in a resource's queue, and
  conversely. A time-out may be gone before its wait: by the `RESUME` of a process whose earlier `SUSPEND_SELF` has timed out. Each step
  of `Processes` is classed as one of a few kinds of step of one process (`Enters`, `Granted`, `Expires`, `Returns`, `Sleeps`, `Moves`, `Halts`,
  `Begins`, `Unmoved`), each shown once to keep `Answer` and `HasReason`, and once to be an action of `WaitQueues` (`ImplementsWaiting`). For that,
  `FifoKeys` says that all entries of a FIFO queue have the least key, so that a new one goes last.
* **Deadlines**. `Watched` extends `DeadlineWatched` to the processes that a signal can make run (`CanRun`), says that none
  in the queue is still to be started, and what the services that are not called leave untouched (`Uncalled`). Each step of one process either takes it out
  of the queue (`Leaves`), puts it in with its new deadline (`Armed`) or leaves it where it is (`Kept`), and nobody else's entry changes (`Rest`).
  For `DeadlinesKeepOrder` each `ENQUEUE` is shown to meet an entry that is not linked (`Takes`).
  `Served` is `EventsServed` at every point of the pass that is past the loop in question: a step either makes a pass
  necessary, or takes the processor or the conditions away (`Hinders`), or queues nothing that is due but for the current process (`Serves`, `OwnDue`), or ends a loop (`NothingDue`).
* **Objects**. `IInv` is `QueueInv /\ Shapes /\ WaitsAreDue /\ Sides`. `QueueInv` is about queues alone: their types, no
  process twice in one, and who is queued waits in a service of that very object (`QueuedWaits`). Neither
  `OneSideWaits` nor `NobodyWaitsInVain` is inductive without it: that the head of a buffer's queue
  leaves no one else behind, and that a message is stored for whom it is meant, needs that nobody is queued twice.
  One lemma for each way a queue changes (`BlockQueues`, `SignalQueues`, `HaltQueues`, ...) shows that the step keeps
  `QueueInv` and lets nobody new wait in the other queues (`Kept`), so that what is left of each service is its own object.
  `WaitsAreDue` is `NobodyWaitsInVain` with the fact that nobody waits for an object that is not created;
  `Sides` adds to `OneSideWaits` that a waiting sender has a message. For semaphores `SectionInv` counts, besides who is inside, who has been
  granted a unit and has not run since (`OnTheWay`).
* **Buffers and ports implement channels**. `StoreProperties` and `DropProperties` say what the wrapped indices do to the contents of a ring:
  append and tail. `OneSideWaits` then decides which step of the channel a buffer service is: a buffer with a place and
  somebody queued is empty and the head receives (`HandOver`); one with messages and somebody queued is full and the
  head sends (`Exchange`).
* **Channels between partitions**. `StaticInv` says where in the connection table the two loops are, and that what they hold came from that row's source.
  `ChannelsInv` numbers the messages: a source holds an interval of the numbers it has given out, and all that is before it has
  arrived (`Carried`). `PortsInv` is `WaitsOnlyIfBlocked` with the process that was signalled and has not run: with one process a port, nobody can
  take the place or the message it was signalled for. `SamplingInv` follows a sampling message through the loop: which destinations have what the loop has peeked at, and why.

**Only model-checked**:

* what the hypotheses above leave out: partitions with a callback (`Handlers`), and restarts out of `SCHEDULER` (`Deadlines`);
* liveness (`SchedulerEnds`, `NoStarvation`, `Forwarded`), which is out of the prover's reach, as are ENABLED and induction over data.

## 5. What is not modelled

* **Vendored libraries**: `src/Hardware` (StarterWare drivers and register headers of the AM335x), `src/Library/usblib` and
  `src/Tools` are nine tenths of the repository's lines and no part of the operating system: register
  definitions, device drivers and a USB stack that only the USB partition and the port layer call. The modules map
  the kernel, `src/ARINC653`, nearly whole, and with it a small share of the repository.
* **Startup**: `STARTUP_MODULE`, the validation and allocation of `CREATE_PARTITION`, and the heap run once, before anything is
  concurrent. What they validate (windows inside the frame) is an assumption on constants. They do not check that the
  windows of different partitions are disjoint; `IsolationRecovers` is about tables in which they are.
* **Port layer**: registers, stacks, MMU, timers. `PORT_YIELD`, `PORT_SWITCH` and the tick interrupt appear by
  what they do to contexts. The nesting of saved registers when a pass is abandoned is below the model.
* **Ethernet and USB**: the process `ETHERNET` and the pseudo partitions it serves, the USB partition, the console and
  the layout of packets. Whether a packet is sent depends on a device of which the code only sees success or failure. With a pseudo
  partition as destination and no link, the message is taken without having been sent (`arinc653_systempartition_io.c` line 372).
* **Lengths**: messages fit the ports and buffers they are sent to. A message longer than its destination's maximum
  is refused on each round of the I/O partition and blocks its channel; that is for the configuration to avoid.
* **Instruments, build and debug files**: no kernel state.

## 6. What is left to do

1. An abstract specification of windows that `PartitionScheduler` implements and `Processes` takes its ticks from, which
   makes the first release of periodic processes exact.
2. A priority-preemptive dispatcher as abstract specification of `Processes`; the time of arrival of sampling messages.
3. Proofs: partitions with a health monitoring callback, as far as the properties hold there; `EventsServed` with suspending, for the time-outs alone.
