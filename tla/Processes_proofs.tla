--------------------------- MODULE Processes_proofs ---------------------------
(***************************************************************************)
(* Theorems about the process level, for every set of processes, every     *)
(* table of attributes and every bound.                                    *)
(***************************************************************************)
EXTENDS Processes, PriorityQueues_proofs

-----------------------------------------------------------------------------
(* Types of the constants and of what the helpers return.                  *)

LEMMA ConstantTypes ==
  /\ Len(Order) \in Nat /\ \A i \in 1..Len(Order) : Order[i] \in Proc
  /\ \A p \in Proc : /\ BasePriority[p] \in Nat /\ Period[p] \in Nat
                     /\ TimeCapacity[p] \in Int
  /\ Priorities \subseteq Nat /\ TimeOuts \subseteq Int /\ Delays \subseteq Nat
  /\ Budgets \subseteq Int
  /\ MaxLock \in Nat /\ MaxErrors \in Nat \ {0} /\ MaxGap \in Nat /\ MaxTime \in Nat
  /\ NoProc \notin Proc /\ {"DEFAULT", "ERRORHANDLER", "HMCALLBACK", "MODULE", "none"} \cap Proc = {}
BY ProcessesAssumption DEF Infinite

LEMMA QueueTypes ==
  /\ <<>> \in Queue
  /\ \A q \in Queue, p \in Proc, pri \in Int :
       Enqueue(q, TRUE, p, pri) \in Queue /\ Enqueue(q, FALSE, p, pri) \in Queue
  /\ \A q \in Queue : \A p : Dequeue(q, p) \in Queue
  /\ \A q \in Queue, p \in Proc, d \in Int : Arm(q, p, d) \in Queue
  /\ \A q \in Queue : q # <<>> => Head(q).id \in Proc /\ Head(q).pri \in Int
<1>1. <<>> \in Queue
  BY DEF Queue
<1>2. \A q \in Queue, p \in Proc, pri \in Int :
        Enqueue(q, TRUE, p, pri) \in Queue /\ Enqueue(q, FALSE, p, pri) \in Queue
  BY EnqueueAscending, EnqueueDescending DEF Queue
<1>3. \A q \in Queue : \A p : Dequeue(q, p) \in Queue
  BY DequeueType DEF Queue
<1>4. \A q \in Queue, p \in Proc, d \in Int : Arm(q, p, d) \in Queue
  BY <1>2 DEF Arm
<1>5. \A q \in Queue : q # <<>> => Head(q) \in Entry(Proc)
  BY DEF Queue
<1> QED
  BY <1>1, <1>2, <1>3, <1>4, <1>5 DEF Entry

-----------------------------------------------------------------------------
(* The process table keeps its type. A step changes a few fields of one    *)
(* process: the changed record is one of ProcessInfo, and so the table one *)
(* of such records.                                                        *)

Table == [Proc -> ProcessInfo]

LEMMA BlankTable == [p \in Proc |-> Blank] \in Table
<1>1. Blank \in ProcessInfo
  <2>1. Infinite \in Int /\ 0 \in Nat
    BY DEF Infinite
  <2> QED BY <2>1 DEF Blank, ProcessInfo, States
<1> QED
  BY <1>1 DEF Table

\* Release works on a table P that DELAYED_START has already changed.
LEMMA ReleaseTable ==
  ASSUME NEW p \in Proc, NEW P \in Table, NEW R, NEW D, NEW T, now \in Nat, Release(p, P, R, D, T)
  PROVE  proc' \in Table
<1>0. P[p] \in ProcessInfo /\ P[p].delay \in Int
  BY DEF Table, ProcessInfo
<1>1. ASSUME NEW at \in Int PROVE DeadlineAt(p, at) \in Int
  BY ConstantTypes DEF DeadlineAt, Infinite
<1>2. ASSUME NEW at \in Int,
             proc' = [P EXCEPT ![p].state = "WAITING", ![p].release = at,
                               ![p].deadline = DeadlineAt(p, at), ![p].woken = FALSE]
      PROVE  proc' \in Table
  <2> DEFINE d == DeadlineAt(p, at)
  <2>1. d \in Int
    BY <1>1
  <2> HIDE DEF d
  <2>2. [P[p] EXCEPT !.state = "WAITING", !.release = at, !.deadline = d, !.woken = FALSE] \in ProcessInfo
    BY <1>0, <2>1 DEF ProcessInfo, States
  <2>3. proc' = [P EXCEPT ![p].state = "WAITING", ![p].release = at, ![p].deadline = d, ![p].woken = FALSE]
    BY <1>2 DEF d
  <2> QED BY <2>2, <2>3 DEF Table
<1>3. ASSUME proc' = [P EXCEPT ![p].state = "READY", ![p].release = now,
                               ![p].deadline = DeadlineAt(p, now)]
      PROVE  proc' \in Table
  <2> DEFINE d == DeadlineAt(p, now)
  <2>1. d \in Int /\ now \in Int
    BY <1>1
  <2> HIDE DEF d
  <2>2. [P[p] EXCEPT !.state = "READY", !.release = now, !.deadline = d] \in ProcessInfo
    BY <1>0, <2>1 DEF ProcessInfo, States
  <2>3. proc' = [P EXCEPT ![p].state = "READY", ![p].release = now, ![p].deadline = d]
    BY <1>3 DEF d
  <2> QED BY <2>2, <2>3 DEF Table
<1>4. \A s \in NextPeriodStart : s + P[p].delay \in Int
  BY <1>0, ConstantTypes DEF NextPeriodStart
<1>5. now + P[p].delay \in Int
  BY <1>0
<1> QED
  BY <1>2, <1>3, <1>4, <1>5 DEF Release

LEMMA ProcTypes ==
  ASSUME TypeOK
  PROVE  /\ proc \in Table /\ now \in Nat
         /\ current # NoProc => current \in Proc
         /\ Created \subseteq Proc
         /\ count < Len(Order) => Order[count + 1] \in Proc
         /\ \A q \in Queue : q # <<>> => Head(q).id \in Proc
         /\ ready \in Queue /\ deadlineQ \in Queue /\ timeoutQ \in Queue
         /\ \A r \in Resource : waitq[r] \in Queue
         /\ \A p \in Proc : /\ proc[p] \in ProcessInfo /\ proc[p].prio \in Nat
                             /\ proc[p].release \in Int /\ proc[p].deadline \in Int
<1>1. /\ proc \in Table /\ now \in Nat
      /\ current # NoProc => current \in Proc
      /\ ready \in Queue /\ deadlineQ \in Queue /\ timeoutQ \in Queue
      /\ \A r \in Resource : waitq[r] \in Queue
  BY DEF TypeOK, Table
<1>2. Created \subseteq Proc /\ (count < Len(Order) => Order[count + 1] \in Proc)
  BY ConstantTypes DEF TypeOK, Created
<1>3. \A p \in Proc : proc[p] \in ProcessInfo
  BY <1>1 DEF Table
<1>4. \A p \in Proc : proc[p].prio \in Nat /\ proc[p].release \in Int /\ proc[p].deadline \in Int
  BY <1>3 DEF ProcessInfo
<1> QED
  BY <1>1, <1>2, <1>3, <1>4, QueueTypes

\* The state alone changes.
LEMMA StateTable ==
  ASSUME TypeOK, NEW p \in Proc, NEW s \in States, proc' = [proc EXCEPT ![p].state = s]
  PROVE  proc' \in Table
<1>1. [proc[p] EXCEPT !.state = s] \in ProcessInfo
  BY ProcTypes DEF ProcessInfo
<1> QED
  BY <1>1, ProcTypes DEF Table

\* A new deadline.
LEMMA DeadlineType ==
  ASSUME NEW p \in Proc, NEW at \in Int
  PROVE  DeadlineAt(p, at) \in Int
BY ConstantTypes DEF DeadlineAt, Infinite

LEMMA SuspendSelfTable ==
  ASSUME TypeOK, NEW t \in TimeOuts, SUSPEND_SELF(t)
  PROVE  proc' \in Table
<1>1. current \in Proc
  BY ProcTypes DEF SUSPEND_SELF, MayBlock
<1>2. /\ [proc[current] EXCEPT !.state = "WAITING", !.suspended = TRUE, !.suspendedTimeout = TRUE,
                               !.woken = FALSE, !.tail = "suspendTimed"] \in ProcessInfo
      /\ [proc[current] EXCEPT !.state = "WAITING", !.suspended = TRUE, !.tail = "suspend"] \in ProcessInfo
  BY <1>1, ProcTypes DEF ProcessInfo, States
<1> QED
  BY <1>1, <1>2, ProcTypes DEF SUSPEND_SELF, Table

LEMMA SuspendTable ==
  ASSUME TypeOK, NEW p \in Proc, SUSPEND(p)
  PROVE  proc' \in Table
<1>1. [proc[p] EXCEPT !.state = "WAITING", !.suspended = TRUE, !.suspendedTimeout = FALSE] \in ProcessInfo
  BY ProcTypes DEF ProcessInfo, States
<1> QED
  BY <1>1, ProcTypes DEF SUSPEND, Table

LEMMA ResumeTable ==
  ASSUME TypeOK, NEW p \in Proc, RESUME(p)
  PROVE  proc' \in Table
<1> DEFINE d == DeadlineAt(p, now)
<1>1. d \in Int /\ now \in Int
  BY ProcTypes, DeadlineType
<1>2. proc[p].state \in States
  BY ProcTypes DEF ProcessInfo
<1>3. PICK s \in States :
        proc' = [proc EXCEPT ![p].suspended = FALSE, ![p].suspendedTimeout = FALSE,
                             ![p].release = now, ![p].deadline = DeadlineAt(p, now), ![p].state = s]
  <2>1. "READY" \in States
    BY DEF States
  <2>2. \E b \in BOOLEAN :
          proc' = [proc EXCEPT ![p].suspended = FALSE, ![p].suspendedTimeout = FALSE,
                               ![p].release = now, ![p].deadline = DeadlineAt(p, now),
                               ![p].state = IF b THEN "READY" ELSE proc[p].state]
    BY ProcTypes DEF RESUME, Table, ProcessInfo
  <2> QED BY <1>2, <2>1, <2>2
<1>4. proc' = [proc EXCEPT ![p].suspended = FALSE, ![p].suspendedTimeout = FALSE,
                           ![p].release = now, ![p].deadline = d, ![p].state = s]
  BY <1>3
<1> HIDE DEF d
<1>5. [proc[p] EXCEPT !.suspended = FALSE, !.suspendedTimeout = FALSE, !.release = now,
                      !.deadline = d, !.state = s] \in ProcessInfo
  BY <1>1, ProcTypes DEF ProcessInfo
<1> QED
  BY <1>4, <1>5, ProcTypes DEF Table

\* STOP_SELF and STOP.
LEMMA StopTable ==
  ASSUME TypeOK, NEW p \in Proc,
         proc' = [proc EXCEPT ![p].suspended = FALSE, ![p].suspendedTimeout = FALSE,
                              ![p].state = "DORMANT"]
  PROVE  proc' \in Table
<1>1. [proc[p] EXCEPT !.suspended = FALSE, !.suspendedTimeout = FALSE, !.state = "DORMANT"] \in ProcessInfo
  BY ProcTypes DEF ProcessInfo, States
<1> QED
  BY <1>1, ProcTypes DEF Table

LEMMA SetPriorityTable ==
  ASSUME TypeOK, NEW p \in Proc, NEW prio \in Priorities, SET_PRIORITY(p, prio)
  PROVE  proc' \in Table
<1>1. prio \in Nat
  BY ConstantTypes
<1>2. [proc[p] EXCEPT !.prio = prio] \in ProcessInfo
  BY <1>1, ProcTypes DEF ProcessInfo
<1> QED
  BY <1>2, ProcTypes DEF SET_PRIORITY, Table

\* The table DELAYED_START begins with.
LEMMA StartedTable ==
  ASSUME TypeOK, NEW p \in Proc, NEW d \in Delays
  PROVE  [proc EXCEPT ![p].suspended = FALSE, ![p].suspendedTimeout = FALSE,
                      ![p].prio = BasePriority[p], ![p].delay = d, ![p].tail = "none"] \in Table
<1> DEFINE base == BasePriority[p]
           Q == [proc EXCEPT ![p].suspended = FALSE, ![p].suspendedTimeout = FALSE,
                             ![p].prio = base, ![p].delay = d, ![p].tail = "none"]
<1>1. base \in Nat /\ d \in Int
  BY ConstantTypes
<1>2. SUFFICES Q \in Table
  OBVIOUS
<1> HIDE DEF base
<1>3. [proc[p] EXCEPT !.suspended = FALSE, !.suspendedTimeout = FALSE,
                      !.prio = base, !.delay = d, !.tail = "none"] \in ProcessInfo
  BY <1>1, ProcTypes DEF ProcessInfo
<1> QED
  BY <1>3, ProcTypes DEF Table

LEMMA DelayedStartTable ==
  ASSUME TypeOK, NEW p \in Proc, NEW d \in Delays, DELAYED_START(p, d)
  PROVE  proc' \in Table
<1> DEFINE P == [proc EXCEPT ![p].suspended = FALSE, ![p].suspendedTimeout = FALSE,
                             ![p].prio = BasePriority[p], ![p].delay = d, ![p].tail = "none"]
<1>1. P \in Table
  BY StartedTable
<1>2. CASE Release(p, P, Dequeue(ready, p), Dequeue(deadlineQ, p), Dequeue(timeoutQ, p))
  <2> HIDE DEF P
  <2> QED BY <1>1, <1>2, ReleaseTable, ProcTypes
<1>3. CASE proc' = [P EXCEPT ![p].state = "WAITING"]
  <2> HIDE DEF P
  <2>1. [P[p] EXCEPT !.state = "WAITING"] \in ProcessInfo
    BY <1>1 DEF Table, ProcessInfo, States
  <2> QED BY <1>1, <1>3, <2>1 DEF Table
<1> QED
  BY <1>2, <1>3 DEF DELAYED_START

LEMMA TimedWaitTable ==
  ASSUME TypeOK, NEW d \in Delays, TIMED_WAIT(d)
  PROVE  proc' \in Table
<1>1. current \in Proc
  BY ProcTypes DEF TIMED_WAIT, MayBlock
<1>2. [proc[current] EXCEPT !.state = "WAITING", !.woken = FALSE, !.tail = "timed"] \in ProcessInfo
  BY <1>1, ProcTypes DEF ProcessInfo, States
<1>3. CASE proc' = [proc EXCEPT ![current].state = "READY"]
  BY <1>1, <1>3, StateTable DEF States
<1>4. CASE proc' = [proc EXCEPT ![current].state = "WAITING", ![current].woken = FALSE,
                                ![current].tail = "timed"]
  BY <1>1, <1>2, <1>4, ProcTypes DEF Table
<1> QED
  BY <1>3, <1>4 DEF TIMED_WAIT

LEMMA NextReleaseType ==
  ASSUME TypeOK, NEW p \in Proc, ~ IsAperiodic(p)
  PROVE  NextRelease(p) \in Int
<1>1. proc[p].release \in Int /\ now \in Int /\ Period[p] \in Nat /\ Period[p] # 0
  BY ProcTypes, ConstantTypes DEF IsAperiodic, Aperiodic
<1>2. (now - proc[p].release) \div Period[p] \in Int
  BY <1>1
<1> QED
  BY <1>1, <1>2 DEF NextRelease

LEMMA PeriodicWaitTable ==
  ASSUME TypeOK, PERIODIC_WAIT
  PROVE  proc' \in Table /\ NextRelease(current) \in Int /\ current \in Proc
<1> DEFINE at == NextRelease(current)
           d == DeadlineAt(current, at)
<1>1. current \in Proc
  BY ProcTypes DEF PERIODIC_WAIT, MayBlock
<1>2. at \in Int
  BY <1>1, NextReleaseType DEF PERIODIC_WAIT
<1>3. d \in Int
  BY <1>1, <1>2, DeadlineType
<1>4. proc' = [proc EXCEPT ![current].state = "WAITING", ![current].release = at,
                           ![current].deadline = d, ![current].woken = FALSE]
  BY DEF PERIODIC_WAIT
<1> HIDE DEF at, d
<1>5. [proc[current] EXCEPT !.state = "WAITING", !.release = at, !.deadline = d, !.woken = FALSE] \in ProcessInfo
  BY <1>1, <1>2, <1>3, ProcTypes DEF ProcessInfo, States
<1>6. proc' \in Table
  BY <1>1, <1>4, <1>5, ProcTypes DEF Table
<1> QED
  BY <1>1, <1>2, <1>6 DEF at

LEMMA ReplenishTable ==
  ASSUME TypeOK, NEW t \in Budgets, REPLENISH(t)
  PROVE  proc' \in Table
<1> DEFINE d == IF t = Infinite THEN Infinite ELSE now + t
<1>1. current \in Proc
  BY ProcTypes DEF REPLENISH
<1>2. d \in Int
  BY ProcTypes, ConstantTypes DEF Infinite
<1>3. proc' = [proc EXCEPT ![current].deadline = d]
  BY DEF REPLENISH
<1> HIDE DEF d
<1>4. [proc[current] EXCEPT !.deadline = d] \in ProcessInfo
  BY <1>1, <1>2, ProcTypes DEF ProcessInfo
<1> QED
  BY <1>1, <1>3, <1>4, ProcTypes DEF Table

LEMMA WaitResourceTable ==
  ASSUME TypeOK, NEW r \in Resource, NEW t \in TimeOuts, WAIT_RESOURCE(r, t)
  PROVE  proc' \in Table
<1>1. current \in Proc
  BY ProcTypes DEF WAIT_RESOURCE, MayBlock
<1>2. /\ [proc[current] EXCEPT !.state = "WAITING", !.woken = FALSE, !.granted = FALSE,
                               !.tail = "resource"] \in ProcessInfo
      /\ [proc[current] EXCEPT !.state = "WAITING", !.granted = FALSE,
                               !.tail = "ever"] \in ProcessInfo
  BY <1>1, ProcTypes DEF ProcessInfo, States
<1> QED
  BY <1>1, <1>2, ProcTypes DEF WAIT_RESOURCE, Table

LEMMA SignalHeadTable ==
  ASSUME TypeOK, NEW r \in Resource, SignalHead(r)
  PROVE  proc' \in Table
<1> DEFINE p == Head(waitq[r]).id
<1>1. p \in Proc
  BY ProcTypes DEF SignalHead
<1>2. \/ proc' = [proc EXCEPT ![p].state = "READY", ![p].granted = TRUE]
      \/ proc' = [proc EXCEPT ![p].granted = TRUE]
  BY DEF SignalHead
<1> HIDE DEF p
<1>3. /\ [proc[p] EXCEPT !.state = "READY", !.granted = TRUE] \in ProcessInfo
      /\ [proc[p] EXCEPT !.granted = TRUE] \in ProcessInfo
  BY <1>1, ProcTypes DEF ProcessInfo, States
<1> QED
  BY <1>1, <1>2, <1>3, ProcTypes DEF Table

LEMMA ContinueTable ==
  ASSUME TypeOK, NEW p \in Proc, Continue(p)
  PROVE  proc' \in Table
<1> DEFINE d == DeadlineAt(p, now)
<1>1. d \in Int /\ now \in Int
  BY ProcTypes, DeadlineType
<1>2. \/ proc' = [proc EXCEPT ![p].tail = "none", ![p].release = now, ![p].deadline = d]
      \/ proc' = [proc EXCEPT ![p].tail = "none"]
  BY DEF Continue
<1> HIDE DEF d
<1>3. /\ [proc[p] EXCEPT !.tail = "none", !.release = now, !.deadline = d] \in ProcessInfo
      /\ [proc[p] EXCEPT !.tail = "none"] \in ProcessInfo
  BY <1>1, ProcTypes DEF ProcessInfo
<1> QED
  BY <1>2, <1>3, ProcTypes DEF Table

LEMMA TimeoutTable ==
  ASSUME TypeOK, Timeout
  PROVE  proc' \in Table
<1> DEFINE p == Head(timeoutQ).id
<1>1. p \in Proc
  BY ProcTypes DEF Timeout, Due
<1>2. PICK s \in States : proc' = [proc EXCEPT ![p].woken = TRUE, ![p].state = s]
  <2>1. "READY" \in States /\ proc[p].state \in States
    BY <1>1, ProcTypes DEF ProcessInfo, States
  <2>2. \E b \in BOOLEAN :
          proc' = [proc EXCEPT ![p].woken = TRUE, ![p].state = IF b THEN "READY" ELSE proc[p].state]
    BY <1>1, ProcTypes DEF Timeout, Table, ProcessInfo
  <2> QED BY <2>1, <2>2
<1> HIDE DEF p
<1>3. [proc[p] EXCEPT !.woken = TRUE, !.state = s] \in ProcessInfo
  BY <1>1, ProcTypes DEF ProcessInfo
<1> QED
  BY <1>1, <1>2, <1>3, ProcTypes DEF Table

LEMMA LeaveModeTable ==
  ASSUME TypeOK, NEW m, LeaveMode(m)
  PROVE  proc' \in Table
BY BlankTable, ProcTypes DEF LeaveMode, Wiped, GoIdle, Restart, Reinitialize

LEMMA DeadlineTable ==
  ASSUME TypeOK, Deadline
  PROVE  proc' \in Table
<1> DEFINE p == Head(deadlineQ).id
<1>1. CASE proc' = [proc EXCEPT ![p].deadline = Infinite]
  <2>1. p \in Proc
    BY ProcTypes DEF Deadline, Due
  <2> HIDE DEF p
  <2>2. Infinite \in Int
    BY DEF Infinite
  <2>3. [proc[p] EXCEPT !.deadline = Infinite] \in ProcessInfo
    BY <2>1, <2>2, ProcTypes DEF ProcessInfo
  <2> QED BY <1>1, <2>1, <2>3, ProcTypes DEF Table
<1>2. CASE \E a \in ErrorActions : LeaveMode(ActionMode(a))
  BY <1>2, LeaveModeTable
<1> QED
  BY <1>1, <1>2 DEF Deadline

\* SCHEDULEPROCESSOUT and SCHEDULEPROCESSIN.
LEMMA OutTable ==
  ASSUME TypeOK, ScheduleProcessOut
  PROVE  proc' \in Table
<1>1. CASE proc' = proc
  BY <1>1, ProcTypes
<1>2. CASE Preempt
  <2> DEFINE h == Head(ready).id
  <2>1. CASE ready # <<>> /\ proc' = [proc EXCEPT ![h].state = "READY"]
    <3>1. h \in Proc /\ "READY" \in States
      BY <2>1, ProcTypes DEF States
    <3> HIDE DEF h
    <3> QED BY <2>1, <3>1, StateTable
  <2> QED BY <1>1, <1>2, <2>1 DEF Preempt
<1> QED
  BY <1>1, <1>2 DEF ScheduleProcessOut, StopCallback, StopHandler, StayOn

LEMMA InTable ==
  ASSUME TypeOK, ScheduleProcessIn
  PROVE  proc' \in Table
<1>1. CASE proc' = proc
  BY <1>1, ProcTypes
<1>2. CASE Dispatch
  <2> DEFINE h == Head(ready).id
  <2>1. h \in Proc /\ "RUNNING" \in States
    BY <1>2, ProcTypes DEF States, Dispatch, MayDispatch
  <2>2. proc' = [proc EXCEPT ![h].state = "RUNNING"]
    BY <1>2 DEF Dispatch
  <2> HIDE DEF h
  <2> QED BY <2>1, <2>2, StateTable
<1> QED
  BY <1>1, <1>2 DEF ScheduleProcessIn, StartCallback, StartHandler, NothingToStart

LEMMA ServicesTable ==
  ASSUME TypeOK, Services
  PROVE  proc' \in Table
<1>1. CASE CREATE_PROCESS
  <2>1. Order[count + 1] \in Proc /\ "DORMANT" \in States
    BY <1>1, ProcTypes DEF CREATE_PROCESS, States
  <2> QED BY <1>1, <2>1, StateTable DEF CREATE_PROCESS
<1>2. CASE STOP_SELF
  <2>1. current \in Proc
    BY <1>2, ProcTypes DEF STOP_SELF
  <2> QED BY <1>2, <2>1, StopTable DEF STOP_SELF
<1>3. CASE StopErrorHandler
  <2>1. CASE proc' = proc
    BY <2>1, ProcTypes
  <2>2. CASE eh.preempted \in Created /\ proc' = [proc EXCEPT ![eh.preempted].state = "RUNNING"]
    <3>1. eh.preempted \in Proc /\ "RUNNING" \in States
      BY <2>2, ProcTypes DEF States
    <3> QED BY <2>2, <3>1, StateTable
  <2> QED BY <1>3, <2>1, <2>2 DEF StopErrorHandler
<1>4. CASE LOCK_PREEMPTION \/ UNLOCK_PREEMPTION \/ SetNormalMode \/ CREATE_ERROR_HANDLER
           \/ GET_ERROR_STATUS
  BY <1>4, ProcTypes DEF LOCK_PREEMPTION, UNLOCK_PREEMPTION, SetNormalMode,
       CREATE_ERROR_HANDLER, GET_ERROR_STATUS
<1>5. CASE PERIODIC_WAIT
  BY <1>5, PeriodicWaitTable
<1>6. CASE RAISE_APPLICATION_ERROR
  BY <1>6, LeaveModeTable, ProcTypes DEF RAISE_APPLICATION_ERROR
<1>7. CASE \E m \in {"IDLE", "COLD_START", "WARM_START"} : SetStartMode(m)
  BY <1>7, LeaveModeTable DEF SetStartMode
<1>8. CASE (\E t \in TimeOuts : SUSPEND_SELF(t)) \/ \E b \in Budgets : REPLENISH(b)
  BY <1>8, SuspendSelfTable, ReplenishTable
<1>9. CASE \E d \in Delays : TIMED_WAIT(d)
  BY <1>9, TimedWaitTable
<1>10. ASSUME NEW p \in Proc, SUSPEND(p) \/ RESUME(p) \/ STOP(p)
       PROVE  proc' \in Table
  <2>1. CASE STOP(p)
    BY <2>1, StopTable DEF STOP
  <2> QED BY <1>10, <2>1, SuspendTable, ResumeTable
<1>11. ASSUME NEW p \in Proc, NEW d \in Delays, DELAYED_START(p, d)
       PROVE  proc' \in Table
  BY <1>11, DelayedStartTable
<1>12. ASSUME NEW p \in Proc, NEW prio \in Priorities, SET_PRIORITY(p, prio)
       PROVE  proc' \in Table
  BY <1>12, SetPriorityTable
<1> QED
  BY <1>1, <1>2, <1>3, <1>4, <1>5, <1>6, <1>7, <1>8, <1>9, <1>10, <1>11, <1>12 DEF Services

LEMMA NextTable ==
  ASSUME TypeOK, Next
  PROVE  proc' \in Table
<1>1. CASE Services
  BY <1>1, ServicesTable
<1>2. CASE Continues
  BY <1>2, ContinueTable DEF Continues
<1>3. CASE CallbackReturns
  BY <1>3, LeaveModeTable, ProcTypes DEF CallbackReturns
<1>4. CASE Scheduler
  <2>1. CASE StartNext
    <3> DEFINE p == Order[started + 1]
    <3>1. p \in Proc
      BY <2>1, ConstantTypes DEF StartNext, TypeOK
    <3>2. Release(p, proc, ready, deadlineQ, timeoutQ) \/ proc' = proc
      BY <2>1 DEF StartNext
    <3> HIDE DEF p
    <3> QED BY <3>1, <3>2, ReleaseTable, ProcTypes
  <2>2. CASE StartDone \/ HandleEvents \/ TimeoutsDone \/ DeadlinesDone \/ KeepPartition
             \/ SchedulePartitionOut \/ EnterPartition \/ StayOut
    BY <2>2, ProcTypes DEF StartDone, HandleEvents, TimeoutsDone, DeadlinesDone, KeepPartition,
         SchedulePartitionOut, EnterPartition, StayOut
  <2> QED BY <1>4, <2>1, <2>2, TimeoutTable, DeadlineTable, OutTable, InTable DEF Scheduler
<1>5. CASE TICK \/ OtherYields
  BY <1>5, ProcTypes DEF TICK, OtherYields
<1>6. CASE ResourceServices
  <2>1. PICK r \in Resource : (\E t \in TimeOuts : WAIT_RESOURCE(r, t)) \/ SignalHead(r)
    BY <1>6 DEF ResourceServices, SIGNAL_RESOURCE, TypeOK
  <2> QED BY <2>1, WaitResourceTable, SignalHeadTable
<1>7. CASE \E r \in Resource : CREATE_RESOURCE(r)
  BY <1>7, ProcTypes DEF CREATE_RESOURCE
<1> QED
  BY <1>1, <1>2, <1>3, <1>4, <1>5, <1>6, <1>7 DEF Next, Internal

-----------------------------------------------------------------------------
(* The queues keep their type, and no process is twice in one: this holds  *)
(* whatever is enqueued, since ENQUEUE only rekeys what is linked already. *)

DistinctQueue == {q \in Queue : DistinctIds(q)}


LEMMA DistinctTypes ==
  /\ <<>> \in DistinctQueue
  /\ \A q \in DistinctQueue, p \in Proc, pri \in Int :
       Enqueue(q, TRUE, p, pri) \in DistinctQueue /\ Enqueue(q, FALSE, p, pri) \in DistinctQueue
  /\ \A q \in DistinctQueue : \A p : Dequeue(q, p) \in DistinctQueue
  /\ \A q \in DistinctQueue, p \in Proc, d \in Int : Arm(q, p, d) \in DistinctQueue
<1>1. <<>> \in DistinctQueue
  BY QueueTypes DEF DistinctQueue, DistinctIds
<1>2. \A q \in DistinctQueue, p \in Proc, pri \in Int :
        Enqueue(q, TRUE, p, pri) \in DistinctQueue /\ Enqueue(q, FALSE, p, pri) \in DistinctQueue
  BY EnqueueAscending, EnqueueDescending DEF DistinctQueue, Queue
<1>3. \A q \in DistinctQueue : \A p : Dequeue(q, p) \in DistinctQueue
  BY DequeueType, DequeueEntries DEF DistinctQueue, Queue
<1>4. \A q \in DistinctQueue, p \in Proc, d \in Int : Arm(q, p, d) \in DistinctQueue
  BY <1>2 DEF Arm
<1> QED
  BY <1>1, <1>2, <1>3, <1>4

QueuesOK ==
  /\ ready \in DistinctQueue /\ deadlineQ \in DistinctQueue /\ timeoutQ \in DistinctQueue
  /\ waitq \in [Resource -> DistinctQueue]

LEMMA LinkedTypes ==
  ASSUME TypeOK, QueuesOK
  PROVE  /\ proc \in Table /\ now \in Nat
         /\ current # NoProc => current \in Proc
         /\ ready \in DistinctQueue /\ deadlineQ \in DistinctQueue /\ timeoutQ \in DistinctQueue
         /\ \A r \in Resource : waitq[r] \in DistinctQueue
         /\ timeoutQ # <<>> => Head(timeoutQ).id \in Proc
         /\ \A r \in Resource : waitq[r] # <<>> => Head(waitq[r]).id \in Proc
         /\ \A p \in Proc : /\ proc[p].prio \in Nat /\ proc[p].deadline \in Int
<1>1. /\ ready \in DistinctQueue /\ deadlineQ \in DistinctQueue /\ timeoutQ \in DistinctQueue
      /\ \A r \in Resource : waitq[r] \in DistinctQueue
  BY DEF QueuesOK
<1>2. DistinctQueue \subseteq Queue
  BY DEF DistinctQueue
<1> QED
  BY <1>1, <1>2, ProcTypes

LEMMA ReleaseQueues ==
  ASSUME NEW p \in Proc, NEW P \in Table, NEW R \in DistinctQueue, NEW D \in DistinctQueue, NEW T \in DistinctQueue,
         now \in Nat, Release(p, P, R, D, T)
  PROVE  ready' \in DistinctQueue /\ deadlineQ' \in DistinctQueue /\ timeoutQ' \in DistinctQueue
<1>1. P[p].delay \in Int /\ P[p].prio \in Int
  BY DEF Table, ProcessInfo
<1>2. \A s \in NextPeriodStart : s + P[p].delay \in Int
  BY <1>1, ConstantTypes DEF NextPeriodStart
<1>3. now + P[p].delay \in Int /\ now \in Int
  BY <1>1
<1>4. DeadlineAt(p, now) \in Int
  BY <1>3, DeadlineType
<1>5. ASSUME NEW at \in Int, timeoutQ' = Enqueue(T, TRUE, p, at), ready' = R, deadlineQ' = D
      PROVE  ready' \in DistinctQueue /\ deadlineQ' \in DistinctQueue /\ timeoutQ' \in DistinctQueue
  BY <1>5, DistinctTypes
<1>6. ASSUME ready' = Enqueue(R, FALSE, p, P[p].prio), deadlineQ' = Arm(D, p, DeadlineAt(p, now)),
             timeoutQ' = T
      PROVE  ready' \in DistinctQueue /\ deadlineQ' \in DistinctQueue /\ timeoutQ' \in DistinctQueue
  BY <1>1, <1>4, <1>6, DistinctTypes
<1> QED
  BY <1>2, <1>3, <1>5, <1>6 DEF Release

LEMMA LeaveModeQueues ==
  ASSUME TypeOK, QueuesOK, NEW m, LeaveMode(m)
  PROVE  QueuesOK'
<1>1. CASE Reinitialize
  BY <1>1, DistinctTypes DEF Reinitialize, QueuesOK
<1>2. CASE UNCHANGED queues
  BY <1>2 DEF queues, QueuesOK
<1> QED
  BY <1>1, <1>2 DEF LeaveMode, Wiped, GoIdle, Restart

\* RemoveFromAll, and what else takes one process out of the resource queues.
LEMMA RemoveQueues ==
  ASSUME TypeOK, QueuesOK, NEW p
  PROVE  /\ RemoveFromAll(p) => QueuesOK'
         /\ [r \in Resource |-> Dequeue(waitq[r], p)] \in [Resource -> DistinctQueue]
<1>1. [r \in Resource |-> Dequeue(waitq[r], p)] \in [Resource -> DistinctQueue]
  BY LinkedTypes, DistinctTypes
<1>2. Dequeue(ready, p) \in DistinctQueue /\ Dequeue(deadlineQ, p) \in DistinctQueue /\ Dequeue(timeoutQ, p) \in DistinctQueue
  BY LinkedTypes, DistinctTypes
<1> QED
  BY <1>1, <1>2 DEF RemoveFromAll, QueuesOK

LEMMA ServicesQueues ==
  ASSUME TypeOK, QueuesOK, Services
  PROVE  QueuesOK'
<1>1. CASE UNCHANGED queues
  BY <1>1 DEF queues, QueuesOK
<1>2. CASE STOP_SELF
  BY <1>2, RemoveQueues DEF STOP_SELF
<1>3. CASE PERIODIC_WAIT
  <2>1. NextRelease(current) \in Int /\ current \in Proc
    BY <1>3, PeriodicWaitTable
  <2> QED BY <1>3, <2>1, DistinctTypes DEF PERIODIC_WAIT, QueuesOK
<1>4. CASE RAISE_APPLICATION_ERROR
  BY <1>1, <1>4, LeaveModeQueues DEF RAISE_APPLICATION_ERROR
<1>5. ASSUME NEW m, SetStartMode(m)
      PROVE  QueuesOK'
  BY <1>5, LeaveModeQueues DEF SetStartMode
<1>6. ASSUME NEW t \in TimeOuts, SUSPEND_SELF(t)
      PROVE  QueuesOK'
  <2> DEFINE at == now + t
  <2>1. current \in Proc /\ at \in Int
    BY <1>6, LinkedTypes, ConstantTypes DEF SUSPEND_SELF, MayBlock
  <2>2. /\ ready' = Dequeue(ready, current) /\ deadlineQ' = Dequeue(deadlineQ, current)
        /\ timeoutQ' = timeoutQ \/ timeoutQ' = Enqueue(timeoutQ, TRUE, current, at)
        /\ waitq' = waitq
    BY <1>6 DEF SUSPEND_SELF
  <2> HIDE DEF at
  <2>3. Enqueue(timeoutQ, TRUE, current, at) \in DistinctQueue
    BY <2>1, LinkedTypes, DistinctTypes
  <2> QED BY <2>2, <2>3, DistinctTypes DEF QueuesOK
<1>7. ASSUME NEW t \in Budgets, REPLENISH(t)
      PROVE  QueuesOK'
  <2> DEFINE d == IF t = Infinite THEN Infinite ELSE now + t
  <2>1. current \in Proc /\ d \in Int
    BY <1>7, LinkedTypes, ConstantTypes DEF REPLENISH, Infinite
  <2>2. deadlineQ' = Arm(Dequeue(deadlineQ, current), current, d)
    BY <1>7 DEF REPLENISH
  <2> HIDE DEF d
  <2> QED BY <1>7, <2>1, <2>2, DistinctTypes DEF REPLENISH, QueuesOK
<1>8. ASSUME NEW d \in Delays, TIMED_WAIT(d)
      PROVE  QueuesOK'
  <2> DEFINE at == now + d
  <2>1. current \in Proc /\ at \in Int
    BY <1>8, LinkedTypes, ConstantTypes DEF TIMED_WAIT, MayBlock
  <2>2. proc[current].prio \in Int
    BY <2>1, LinkedTypes
  <2>3. /\ \/ ready' = Dequeue(ready, current)
           \/ ready' = Enqueue(Dequeue(ready, current), FALSE, current, proc[current].prio)
        /\ timeoutQ' = timeoutQ \/ timeoutQ' = Enqueue(timeoutQ, TRUE, current, at)
        /\ deadlineQ' = deadlineQ /\ waitq' = waitq
    BY <1>8 DEF TIMED_WAIT
  <2> HIDE DEF at
  <2>4. /\ Enqueue(timeoutQ, TRUE, current, at) \in DistinctQueue
        /\ Enqueue(Dequeue(ready, current), FALSE, current, proc[current].prio) \in DistinctQueue
        /\ Dequeue(ready, current) \in DistinctQueue
    BY <2>1, <2>2, LinkedTypes, DistinctTypes
  <2> QED BY <2>3, <2>4 DEF QueuesOK
<1>9. ASSUME NEW p \in Proc, SUSPEND(p)
      PROVE  QueuesOK'
  BY <1>9, DistinctTypes DEF SUSPEND, QueuesOK
<1>10. ASSUME NEW p \in Proc, RESUME(p)
       PROVE  QueuesOK'
  <2>1. DeadlineAt(p, now) \in Int /\ proc[p].prio \in Int
    BY LinkedTypes, DeadlineType
  <2> QED BY <1>10, <2>1, DistinctTypes DEF RESUME, QueuesOK
<1>11. ASSUME NEW p \in Proc, STOP(p)
       PROVE  QueuesOK'
  BY <1>11, RemoveQueues DEF STOP
<1>12. ASSUME NEW p \in Proc, NEW d \in Delays, DELAYED_START(p, d)
       PROVE  QueuesOK'
  <2> DEFINE P == [proc EXCEPT ![p].suspended = FALSE, ![p].suspendedTimeout = FALSE,
                               ![p].prio = BasePriority[p], ![p].delay = d, ![p].tail = "none"]
  <2>1. CASE RemoveFromAll(p)
    BY <2>1, RemoveQueues
  <2>2. CASE /\ Release(p, P, Dequeue(ready, p), Dequeue(deadlineQ, p), Dequeue(timeoutQ, p))
             /\ waitq' = [r \in Resource |-> Dequeue(waitq[r], p)]
    <3>1. P \in Table
      BY StartedTable
    <3> HIDE DEF P
    <3>2. ready' \in DistinctQueue /\ deadlineQ' \in DistinctQueue /\ timeoutQ' \in DistinctQueue
      BY <2>2, <3>1, ReleaseQueues, LinkedTypes, DistinctTypes
    <3>3. waitq' \in [Resource -> DistinctQueue]
      BY <2>2, RemoveQueues
    <3> QED BY <3>2, <3>3 DEF QueuesOK
  <2> QED BY <1>12, <2>1, <2>2 DEF DELAYED_START
<1>13. ASSUME NEW p \in Proc, NEW prio \in Priorities, SET_PRIORITY(p, prio)
       PROVE  QueuesOK'
  <2>1. prio \in Int
    BY ConstantTypes
  <2>2. waitq' \in [Resource -> DistinctQueue]
    <3>1. \A r \in Resource :
            (IF r \notin Fifo /\ Enqueued(waitq[r], p)
             THEN Enqueue(Dequeue(waitq[r], p), FALSE, p, prio) ELSE waitq[r]) \in DistinctQueue
      BY <2>1, LinkedTypes, DistinctTypes
    <3> QED BY <1>13, <3>1 DEF SET_PRIORITY
  <2> QED BY <1>13, <2>1, <2>2, DistinctTypes DEF SET_PRIORITY, QueuesOK
<1>14. CASE CREATE_PROCESS \/ StopErrorHandler \/ LOCK_PREEMPTION \/ UNLOCK_PREEMPTION
            \/ SetNormalMode \/ CREATE_ERROR_HANDLER \/ GET_ERROR_STATUS
  BY <1>1, <1>14 DEF CREATE_PROCESS, StopErrorHandler, LOCK_PREEMPTION, UNLOCK_PREEMPTION,
       SetNormalMode, CREATE_ERROR_HANDLER, GET_ERROR_STATUS
<1> QED
  BY <1>2, <1>3, <1>4, <1>5, <1>6, <1>7, <1>8, <1>9, <1>10, <1>11, <1>12, <1>13, <1>14
  DEF Services

LEMMA SchedulerQueues ==
  ASSUME TypeOK, QueuesOK, Scheduler
  PROVE  QueuesOK'
<1>1. CASE UNCHANGED queues
  BY <1>1 DEF queues, QueuesOK
<1>2. CASE StartNext
  <2> DEFINE p == Order[started + 1]
  <2>1. p \in Proc
    BY <1>2, ConstantTypes DEF StartNext, TypeOK
  <2>2. CASE Release(p, proc, ready, deadlineQ, timeoutQ) /\ waitq' = waitq
    <3> HIDE DEF p
    <3> QED BY <2>1, <2>2, ReleaseQueues, LinkedTypes DEF QueuesOK
  <2> QED BY <1>1, <1>2, <2>2 DEF StartNext, queues
<1>3. CASE Timeout
  <2> DEFINE p == Head(timeoutQ).id
  <2>1. p \in Proc
    BY <1>3, LinkedTypes DEF Timeout, Due
  <2>2. proc[p].prio \in Int /\ proc[p].deadline \in Int
    BY <2>1, LinkedTypes
  <2>3. /\ timeoutQ' = Dequeue(timeoutQ, p)
        /\ waitq' = [r \in Resource |-> Dequeue(waitq[r], p)]
        /\ ready' = ready \/ ready' = Enqueue(ready, FALSE, p, proc[p].prio)
        /\ deadlineQ' = deadlineQ \/ deadlineQ' = Arm(deadlineQ, p, proc[p].deadline)
    BY <1>3 DEF Timeout
  <2> HIDE DEF p
  <2>4. waitq' \in [Resource -> DistinctQueue]
    BY <2>3, RemoveQueues
  <2>5. /\ Enqueue(ready, FALSE, p, proc[p].prio) \in DistinctQueue
        /\ Arm(deadlineQ, p, proc[p].deadline) \in DistinctQueue /\ Dequeue(timeoutQ, p) \in DistinctQueue
    BY <2>1, <2>2, LinkedTypes, DistinctTypes
  <2> QED BY <2>3, <2>4, <2>5, LinkedTypes DEF QueuesOK
<1>4. CASE Deadline
  <2>1. CASE deadlineQ' = Dequeue(deadlineQ, Head(deadlineQ).id) /\ UNCHANGED <<ready, timeoutQ, waitq>>
    BY <2>1, DistinctTypes DEF QueuesOK
  <2>2. CASE \E a \in ErrorActions : LeaveMode(ActionMode(a))
    BY <2>2, LeaveModeQueues
  <2> QED BY <1>4, <2>1, <2>2 DEF Deadline
<1>5. CASE StartDone \/ HandleEvents \/ TimeoutsDone \/ DeadlinesDone \/ ScheduleProcessOut
           \/ KeepPartition \/ SchedulePartitionOut \/ EnterPartition \/ StayOut \/ ScheduleProcessIn
  BY <1>1, <1>5 DEF StartDone, HandleEvents, TimeoutsDone, DeadlinesDone, ScheduleProcessOut,
       KeepPartition, SchedulePartitionOut, EnterPartition, StayOut, ScheduleProcessIn
<1> QED
  BY <1>2, <1>3, <1>4, <1>5 DEF Scheduler

LEMMA NextQueues ==
  ASSUME TypeOK, QueuesOK, Next
  PROVE  QueuesOK'
<1>1. CASE UNCHANGED queues
  BY <1>1 DEF queues, QueuesOK
<1>2. ASSUME NEW p \in Proc, Continue(p)
      PROVE  QueuesOK'
  <2>1. DeadlineAt(p, now) \in Int
    BY LinkedTypes, DeadlineType
  <2>2. waitq' \in [Resource -> DistinctQueue]
    BY <1>2, LinkedTypes, DistinctTypes DEF Continue
  <2> QED BY <1>2, <2>1, <2>2, DistinctTypes DEF Continue, QueuesOK
<1>3. CASE CallbackReturns
  BY <1>1, <1>3, LeaveModeQueues DEF CallbackReturns
<1>4. CASE ResourceServices
  <2>1. PICK r \in Resource : \/ \E t \in TimeOuts : WAIT_RESOURCE(r, t)
                              \/ SignalHead(r) /\ UNCHANGED deadlineQ
    BY <1>4 DEF ResourceServices, SIGNAL_RESOURCE, TypeOK
  <2>2. ASSUME NEW t \in TimeOuts, WAIT_RESOURCE(r, t)
        PROVE  QueuesOK'
    <3> DEFINE at == now + t
    <3>1. current \in Proc /\ at \in Int
      BY <2>2, LinkedTypes, ConstantTypes DEF WAIT_RESOURCE, MayBlock
    <3> DEFINE key == IF r \in Fifo THEN MinPriority ELSE proc[current].prio
    <3>2. key \in Int
      BY <3>1, LinkedTypes DEF MinPriority
    <3>3. waitq' = [waitq EXCEPT ![r] = Enqueue(@, FALSE, current, key)]
      BY <2>2 DEF WAIT_RESOURCE
    <3> HIDE DEF key
    <3>4. waitq' \in [Resource -> DistinctQueue]
      BY <3>1, <3>2, <3>3, DistinctTypes DEF QueuesOK
    <3>5. /\ ready' = Dequeue(ready, current) /\ deadlineQ' = deadlineQ
          /\ timeoutQ' = timeoutQ \/ timeoutQ' = Enqueue(timeoutQ, TRUE, current, at)
      BY <2>2 DEF WAIT_RESOURCE
    <3> HIDE DEF at
    <3>6. Dequeue(ready, current) \in DistinctQueue /\ Enqueue(timeoutQ, TRUE, current, at) \in DistinctQueue
      BY <3>1, LinkedTypes, DistinctTypes
    <3> QED BY <3>4, <3>5, <3>6, LinkedTypes DEF QueuesOK
  <2>3. ASSUME SignalHead(r), UNCHANGED deadlineQ
        PROVE  QueuesOK'
    <3> DEFINE p == Head(waitq[r]).id
    <3>1. p \in Proc
      BY <2>3, LinkedTypes DEF SignalHead
    <3>2. proc[p].prio \in Int
      BY <3>1, LinkedTypes
    <3>3. waitq' \in [Resource -> DistinctQueue]
      BY <2>3, DistinctTypes DEF SignalHead, QueuesOK
    <3>4. /\ ready' = ready \/ ready' = Enqueue(ready, FALSE, p, proc[p].prio)
          /\ timeoutQ' = Dequeue(timeoutQ, p) /\ deadlineQ' = deadlineQ
      BY <2>3 DEF SignalHead, MakeReady
    <3> HIDE DEF p
    <3>5. Enqueue(ready, FALSE, p, proc[p].prio) \in DistinctQueue /\ Dequeue(timeoutQ, p) \in DistinctQueue
      BY <3>1, <3>2, LinkedTypes, DistinctTypes
    <3> QED BY <3>3, <3>4, <3>5, LinkedTypes DEF QueuesOK
  <2> QED BY <2>1, <2>2, <2>3
<1>5. CASE TICK \/ OtherYields \/ \E r \in Resource : CREATE_RESOURCE(r)
  BY <1>1, <1>5 DEF TICK, OtherYields, CREATE_RESOURCE
<1> QED
  BY <1>2, <1>3, <1>4, <1>5, ServicesQueues, SchedulerQueues DEF Next, Internal, Continues

-----------------------------------------------------------------------------
(* Everything else in the state.                                           *)

ErrorHandlers == [exists : BOOLEAN, start : BOOLEAN, stop : BOOLEAN, running : BOOLEAN,
                  preempted : Proc \cup {NoProc}]
Callbacks == [start : BOOLEAN, stop : BOOLEAN, running : BOOLEAN]

RestOK ==
  /\ lock \in 0..MaxLock /\ current \in Proc \cup {NoProc}
  /\ mode \in Modes /\ initialized \in BOOLEAN
  /\ count \in 0..Len(Order) /\ started \in 0..Len(Order) /\ objects \subseteq Resource
  /\ eh \in ErrorHandlers /\ errors \in 0..MaxErrors /\ phm \in Callbacks
  /\ now \in Nat
  /\ kpc \in {"idle", "starting", "events", "timeouts", "deadlines", "out",
              "partition", "enter", "in", "fault"}
  /\ pass \in {"none", "tick", "yield", "entered"}
  /\ ctx \in Contexts /\ nextCtx \in Contexts \cup {"none"}
  /\ scheduled \in BOOLEAN /\ partReady \in BOOLEAN

LEMMA TypeParts ==
  /\ TypeOK => RestOK
  /\ proc \in Table /\ QueuesOK /\ RestOK => TypeOK
BY DEF TypeOK, Table, QueuesOK, DistinctQueue, RestOK, ErrorHandlers, Callbacks

\* The handlers' flags change one or two at a time.
LEMMA HandlerTypes ==
  ASSUME RestOK
  PROVE  /\ [eh EXCEPT !.stop = TRUE] \in ErrorHandlers
         /\ [eh EXCEPT !.exists = TRUE] \in ErrorHandlers
         /\ [eh EXCEPT !.start = TRUE] \in ErrorHandlers
         /\ [eh EXCEPT !.start = TRUE, !.stop = FALSE] \in ErrorHandlers
         /\ [eh EXCEPT !.running = TRUE, !.start = FALSE] \in ErrorHandlers
         /\ [eh EXCEPT !.running = FALSE, !.stop = FALSE, !.preempted = NoProc] \in ErrorHandlers
         /\ [eh EXCEPT !.preempted = current] \in ErrorHandlers
         /\ NoErrorHandler \in ErrorHandlers
BY DEF RestOK, ErrorHandlers, NoErrorHandler

LEMMA CallbackTypes ==
  ASSUME RestOK
  PROVE  /\ [phm EXCEPT !.stop = TRUE] \in Callbacks
         /\ [phm EXCEPT !.start = TRUE, !.stop = FALSE] \in Callbacks
         /\ [phm EXCEPT !.running = TRUE, !.start = FALSE] \in Callbacks
         /\ [phm EXCEPT !.running = FALSE, !.stop = FALSE] \in Callbacks
         /\ NoCallback \in Callbacks
BY DEF RestOK, Callbacks, NoCallback

LEMMA ActionModeType ==
  ASSUME NEW a \in ErrorActions \ {"IGNORE"}
  PROVE  ActionMode(a) \in Modes
BY ProcessesAssumption DEF ActionMode, Modes

LEMMA LeaveModeRest ==
  ASSUME RestOK, NEW m \in Modes, LeaveMode(m)
  PROVE  RestOK'
<1>1. 0 \in 0..MaxLock /\ 0 \in 0..Len(Order) /\ 0 \in 0..MaxErrors
  BY ConstantTypes
<1>2. CASE Wiped
  BY <1>2 DEF Wiped, RestOK, preemption, partition, health, core
<1>3. CASE GoIdle
  BY <1>1, <1>3, HandlerTypes, CallbackTypes DEF GoIdle, Reinitialize, Yield, RestOK, Modes
<1>4. CASE Restart(m)
  BY <1>1, <1>4, HandlerTypes, CallbackTypes DEF Restart, Reinitialize, RestOK, Contexts
<1> QED
  BY <1>2, <1>3, <1>4 DEF LeaveMode

\* The services that leave everything but the process, the queues, the lock and
\* the kernel's place alone.
LEMMA YieldsRest ==
  ASSUME RestOK, Yield \/ UNCHANGED kernel, lock' \in 0..MaxLock,
         UNCHANGED <<current, partition, health, now, core>>
  PROVE  RestOK'
BY DEF RestOK, Yield, kernel, partition, health, core

LEMMA ServicesRest ==
  ASSUME TypeOK, RestOK, Services
  PROVE  RestOK'
<1> USE DEF preemption
<1>0. lock \in 0..MaxLock /\ 0 \in 0..MaxLock
  BY ConstantTypes DEF RestOK
<1>1. CASE CREATE_PROCESS
  <2>1. count' \in 0..Len(Order)
    BY <1>1, ConstantTypes DEF CREATE_PROCESS, RestOK
  <2> QED BY <1>1, <2>1 DEF CREATE_PROCESS, RestOK, partition, health, kernel, core
<1>2. CASE STOP_SELF
  BY <1>0, <1>2, YieldsRest DEF STOP_SELF
<1>3. CASE StopErrorHandler
  <2>1. eh' \in ErrorHandlers
    BY <1>3, HandlerTypes DEF StopErrorHandler
  <2>2. current' \in Proc \cup {NoProc} /\ ctx' \in Contexts
    BY <1>3, ProcTypes DEF StopErrorHandler, RestOK, Contexts
  <2>3. kpc' \in {kpc, "events"} /\ pass' \in {pass, "yield"}
    BY <1>3 DEF StopErrorHandler, Yield, kernel
  <2> QED BY <1>3, <2>1, <2>2, <2>3 DEF StopErrorHandler, RestOK, partition
<1>4. CASE LOCK_PREEMPTION
  <2>1. lock' \in 0..MaxLock
    BY <1>4, ConstantTypes DEF LOCK_PREEMPTION, RestOK
  <2> QED BY <1>4, <2>1, YieldsRest DEF LOCK_PREEMPTION
<1>5. CASE UNLOCK_PREEMPTION
  <2>1. lock' \in 0..MaxLock
    BY <1>5, ConstantTypes DEF UNLOCK_PREEMPTION, RestOK
  <2> QED BY <1>5, <2>1, YieldsRest DEF UNLOCK_PREEMPTION, YieldIf
<1>6. CASE PERIODIC_WAIT
  BY <1>0, <1>6, YieldsRest DEF PERIODIC_WAIT
<1>7. CASE SetNormalMode
  <2>1. "NORMAL" \in Modes /\ 0 \in 0..Len(Order)
    BY ConstantTypes DEF Modes
  <2>2. kpc' \in {"idle", "starting"} /\ mode' = "NORMAL" /\ initialized' = TRUE /\ started' = 0
    BY <1>7 DEF SetNormalMode
  <2> QED BY <1>7, <2>1, <2>2 DEF SetNormalMode, RestOK, health, core
<1>8. CASE CREATE_ERROR_HANDLER
  BY <1>8, HandlerTypes DEF CREATE_ERROR_HANDLER, RestOK, partition, kernel, core
<1>9. CASE GET_ERROR_STATUS
  <2>1. errors' \in 0..MaxErrors
    BY <1>9, ConstantTypes DEF GET_ERROR_STATUS, RestOK
  <2> QED BY <1>9, <2>1 DEF GET_ERROR_STATUS, RestOK, partition, kernel, core
<1>10. CASE RAISE_APPLICATION_ERROR
  <2>1. CASE \E a \in ErrorActions \ {"IGNORE"} : LeaveMode(ActionMode(a))
    BY <2>1, ActionModeType, LeaveModeRest
  <2>2. CASE /\ NotifyHandler \/ NotifyCallback
             /\ Yield
             /\ UNCHANGED <<preemption, partition, now, core>>
    <3>1. errors' \in 0..MaxErrors
      BY <2>2, ConstantTypes DEF NotifyHandler, NotifyCallback, RestOK
    <3>2. eh' \in ErrorHandlers /\ phm' \in Callbacks
      BY <2>2, HandlerTypes, CallbackTypes DEF NotifyHandler, NotifyCallback, RestOK
    <3> QED BY <2>2, <3>1, <3>2 DEF RestOK, Yield, partition, core
  <2> QED BY <1>10, <2>1, <2>2 DEF RAISE_APPLICATION_ERROR
<1>11. ASSUME NEW m \in {"IDLE", "COLD_START", "WARM_START"}, SetStartMode(m)
       PROVE  RestOK'
  BY <1>11, LeaveModeRest DEF SetStartMode, Modes
<1>12. CASE (\E t \in TimeOuts : SUSPEND_SELF(t)) \/ \E b \in Budgets : REPLENISH(b)
  BY <1>0, <1>12, YieldsRest DEF SUSPEND_SELF, REPLENISH
<1>13. CASE \E d \in Delays : TIMED_WAIT(d)
  BY <1>0, <1>13, YieldsRest DEF TIMED_WAIT
<1>14. CASE \E p \in Proc : SUSPEND(p) \/ RESUME(p) \/ STOP(p)
  BY <1>0, <1>14, YieldsRest DEF SUSPEND, RESUME, STOP, YieldIf
<1>15. CASE \E p \in Proc : \E d \in Delays : DELAYED_START(p, d)
  BY <1>0, <1>15, YieldsRest DEF DELAYED_START, YieldIf
<1>16. CASE \E p \in Proc : \E prio \in Priorities : SET_PRIORITY(p, prio)
  BY <1>0, <1>16, YieldsRest DEF SET_PRIORITY, YieldIf
<1> QED
  BY <1>1, <1>2, <1>3, <1>4, <1>5, <1>6, <1>7, <1>8, <1>9, <1>10, <1>11, <1>12, <1>13, <1>14,
     <1>15, <1>16 DEF Services

LEMMA SchedulerRest ==
  ASSUME TypeOK, RestOK, Scheduler
  PROVE  RestOK'
<1> USE DEF preemption
<1>1. CASE StartNext
  <2>1. started' \in 0..Len(Order)
    BY <1>1, ConstantTypes DEF StartNext, RestOK
  <2> QED BY <1>1, <2>1 DEF StartNext, RestOK, health, kernel, core
<1>2. CASE StartDone
  BY <1>2 DEF StartDone, Yield, RestOK, partition, health, core
<1>3. CASE HandleEvents
  <2>1. eh' \in ErrorHandlers /\ kpc' \in {"out", "timeouts"}
    BY <1>3, HandlerTypes DEF HandleEvents, RestOK
  <2> QED BY <1>3, <2>1 DEF HandleEvents, RestOK, partition, core
<1>4. CASE Timeout
  BY <1>4 DEF Timeout, RestOK, partition, health, kernel, core
<1>5. CASE Deadline
  <2>1. CASE \E a \in ErrorActions \ {"IGNORE"} : LeaveMode(ActionMode(a))
    BY <2>1, ActionModeType, LeaveModeRest
  <2>2. CASE /\ NotifyHandler \/ NotifyCallback \/ UNCHANGED health
             /\ UNCHANGED <<preemption, partition, now, kernel, core>>
    <3>1. errors' \in 0..MaxErrors
      BY <2>2, ConstantTypes DEF NotifyHandler, NotifyCallback, RestOK, health
    <3>2. eh' \in ErrorHandlers /\ phm' \in Callbacks
      BY <2>2, HandlerTypes, CallbackTypes DEF NotifyHandler, NotifyCallback, RestOK, health
    <3> QED BY <2>2, <3>1, <3>2 DEF RestOK, partition, kernel, core
  <2> QED BY <1>5, <2>1, <2>2 DEF Deadline
<1>6. CASE TimeoutsDone \/ DeadlinesDone \/ KeepPartition \/ StayOut
  BY <1>6 DEF TimeoutsDone, DeadlinesDone, KeepPartition, StayOut, RestOK, partition, health, core
<1>7. CASE ScheduleProcessOut
  <2>1. kpc' \in {"in", "partition"}
    BY <1>7 DEF ScheduleProcessOut, AfterOut
  <2>2. eh' \in ErrorHandlers
    BY <1>7, HandlerTypes DEF ScheduleProcessOut, StopCallback, StopHandler, Preempt, StayOn, RestOK
  <2>3. phm' \in Callbacks
    BY <1>7, CallbackTypes DEF ScheduleProcessOut, StopCallback, StopHandler, Preempt, StayOn, RestOK
  <2>4. current' \in {current, NoProc} /\ nextCtx' \in {nextCtx, "DEFAULT"}
    BY <1>7 DEF ScheduleProcessOut, StopCallback, StopHandler, Preempt, StayOn
  <2> QED BY <1>7, <2>1, <2>2, <2>3, <2>4 DEF ScheduleProcessOut, RestOK, partition, Contexts
<1>8. CASE SchedulePartitionOut
  BY <1>8 DEF SchedulePartitionOut, RestOK, partition, health, Contexts
<1>9. CASE EnterPartition
  BY <1>9 DEF EnterPartition, RestOK, partition, health, Contexts
<1>10. CASE ScheduleProcessIn
  <2>1. /\ kpc' = "idle" /\ pass' = "none" /\ nextCtx' = "none"
        /\ ctx' \in {ctx, nextCtx, current', "HMCALLBACK", "ERRORHANDLER"} /\ ctx' # "none"
        /\ current' \in Proc \cup {NoProc}
        /\ ctx' = current' => current' \in Proc \/ ctx' \in Contexts
    <3>1. CASE StartCallback
      BY <3>1 DEF StartCallback, Switch, RestOK, Contexts
    <3>2. CASE StartHandler
      BY <3>2 DEF StartHandler, Switch, RestOK, Contexts
    <3>3. CASE Dispatch
      <4>1. current' \in Proc
        BY <3>3, ProcTypes DEF Dispatch, MayDispatch
      <4>2. "none" \notin Proc
        BY ConstantTypes
      <4> QED BY <3>3, <4>1, <4>2 DEF Dispatch, Switch
    <3>4. CASE NothingToStart
      <4>1. "none" \notin Contexts
        BY ConstantTypes DEF Contexts
      <4> QED BY <3>4, <4>1 DEF NothingToStart, Switch, RestOK
    <3> QED BY <1>10, <3>1, <3>2, <3>3, <3>4 DEF ScheduleProcessIn
  <2>2. ctx' \in Contexts
    BY <2>1 DEF RestOK, Contexts
  <2>3. eh' \in ErrorHandlers
    BY <1>10, HandlerTypes DEF ScheduleProcessIn, StartCallback, StartHandler, Dispatch,
         NothingToStart, RestOK
  <2>4. phm' \in Callbacks
    BY <1>10, CallbackTypes DEF ScheduleProcessIn, StartCallback, StartHandler, Dispatch,
         NothingToStart, RestOK
  <2> QED BY <1>10, <2>1, <2>2, <2>3, <2>4 DEF ScheduleProcessIn, RestOK, partition
<1> QED
  BY <1>1, <1>2, <1>3, <1>4, <1>5, <1>6, <1>7, <1>8, <1>9, <1>10 DEF Scheduler

LEMMA NextRest ==
  ASSUME TypeOK, RestOK, Next
  PROVE  RestOK'
<1> USE DEF preemption
<1>0. lock \in 0..MaxLock
  BY DEF RestOK
<1>1. CASE Continues
  BY <1>0, <1>1, YieldsRest DEF Continues, Continue
<1>2. CASE CallbackReturns
  <2>1. CASE \E a \in ErrorActions \ {"IGNORE"} : LeaveMode(ActionMode(a))
    BY <2>1, ActionModeType, LeaveModeRest
  <2>2. CASE /\ phm' = [phm EXCEPT !.stop = TRUE]
             /\ Yield
             /\ UNCHANGED <<preemption, partition, eh, errors, now, core>>
    BY <2>2, CallbackTypes DEF Yield, RestOK, partition, core
  <2> QED BY <1>2, <2>1, <2>2 DEF CallbackReturns
<1>3. CASE TICK
  <2>1. now' \in Nat
    BY <1>3 DEF TICK, RestOK
  <2>2. (mode # "IDLE") \in BOOLEAN /\ partReady' \in {partReady, mode # "IDLE"}
    BY <1>3 DEF TICK
  <2>3. partReady' \in BOOLEAN
    BY <2>2, Zenon DEF RestOK
  <2> QED BY <1>3, <2>1, <2>3 DEF TICK, RestOK, partition, health
<1>4. CASE OtherYields
  BY <1>4 DEF OtherYields, RestOK, partition, health, core
<1>5. CASE ResourceServices
  BY <1>0, <1>5, YieldsRest DEF ResourceServices, WAIT_RESOURCE, SIGNAL_RESOURCE, YieldIf
<1>6. ASSUME NEW r \in Resource, CREATE_RESOURCE(r)
      PROVE  RestOK'
  BY <1>6 DEF CREATE_RESOURCE, RestOK, health, kernel, core
<1> QED
  BY <1>1, <1>2, <1>3, <1>4, <1>5, <1>6, ServicesRest, SchedulerRest DEF Next, Internal

-----------------------------------------------------------------------------
TypeInv == TypeOK /\ QueuesOK

LEMMA TypeInvInductive ==
  /\ Init => TypeInv
  /\ TypeInv /\ [Next]_vars => TypeInv'
<1>1. Init => TypeInv
  <2> SUFFICES ASSUME Init PROVE TypeInv
    OBVIOUS
  <2>1. proc \in Table
    BY BlankTable DEF Init
  <2>2. QueuesOK
    BY DistinctTypes DEF Init, QueuesOK
  <2>3. eh \in ErrorHandlers /\ phm \in Callbacks
    BY DEF Init, ErrorHandlers, Callbacks, NoErrorHandler, NoCallback
  <2>4. lock \in 0..MaxLock /\ count \in 0..Len(Order) /\ started \in 0..Len(Order) /\ errors \in 0..MaxErrors
    BY ConstantTypes DEF Init
  <2>5. RestOK
    BY <2>3, <2>4 DEF Init, RestOK, Modes, Contexts
  <2> QED BY <2>1, <2>2, <2>5, TypeParts DEF TypeInv
<1>2. TypeInv /\ [Next]_vars => TypeInv'
  <2> SUFFICES ASSUME TypeOK, QueuesOK, [Next]_vars PROVE TypeInv'
    BY DEF TypeInv
  <2>1. CASE Next
    <3>1. proc' \in Table /\ QueuesOK' /\ RestOK'
      BY <2>1, NextTable, NextQueues, NextRest, TypeParts
    <3>2. TypeOK'
      BY <3>1 DEF TypeOK, Table, QueuesOK, DistinctQueue, RestOK, ErrorHandlers, Callbacks
    <3> QED BY <3>1, <3>2 DEF TypeInv
  <2>2. CASE UNCHANGED vars
    BY <2>2 DEF TypeInv, TypeOK, QueuesOK, vars, queues, preemption, partition, health, kernel, core
  <2> QED BY <2>1, <2>2
<1> QED
  BY <1>1, <1>2

\* TypeOK holds in every reachable state of a partition, for every set of
\* processes and every configuration: no service, handler or pass through the
\* scheduler leaves a dangling CURRENT_PROCESS_INFORMATION, queues anything but
\* processes, or takes LOCK_LEVEL, PROCESS_COUNT or ERROR_STATUS_COUNT past its limit.
THEOREM TypeCorrect == Spec => []TypeOK
<1>1. TypeInv => TypeOK
  BY DEF TypeInv
<1> QED
  BY <1>1, TypeInvInductive, PTL DEF Spec

-----------------------------------------------------------------------------
(* Where SCHEDULER is, which context runs and which one is to run next.    *)

\* While the partition is not scheduled the module's context runs, or is next.
Placed ==
  /\ ~ scheduled =>
       \/ ctx = "MODULE" /\ nextCtx \in {"none", "MODULE"}
       \/ kpc \in {"enter", "in"} /\ nextCtx = "MODULE"
  /\ kpc \in {"starting", "timeouts", "deadlines"} => scheduled /\ mode = "NORMAL"

\* A partition that has become IDLE is on its way out and does not come back.
IdleLeaves ==
  mode = "IDLE" =>
    /\ ~ partReady
    /\ kpc \in {"idle", "enter", "in"} => ~ scheduled
    /\ kpc \in {"events", "out"} /\ scheduled => pass # "entered"

\* The pass in which a partition that has just become IDLE loses the processor.
IsLeaving == mode = "IDLE" /\ scheduled /\ kpc \in {"events", "out", "partition"}

\* No context but that of the current process is a process's, now or next.
ContextFits ==
  /\ current # NoProc => mode = "NORMAL" /\ kpc # "starting"
  /\ kpc \in {"idle", "starting"} => nextCtx = "none"
  /\ kpc = "starting" => ctx \notin Proc
  /\ IsLeaving \/ /\ nextCtx \in Proc => nextCtx = current
                  /\ nextCtx = "none" /\ ctx \in Proc => ctx = current

PlacedInv == TypeInv /\ Placed /\ IdleLeaves
ContextInv == PlacedInv /\ ContextFits

\* The steps that leave alone who runs: a service, which may end in PORT_YIELD, or
\* a round of one of SCHEDULER's loops.
QuietStep ==
  /\ UNCHANGED <<current, mode, core>>
  /\ UNCHANGED kernel \/ (kpc = "idle" /\ Yield)

\* A change of the partition's mode, by whoever runs or from inside SCHEDULER.
ModeStep ==
  \E m \in Modes \ {"NORMAL"} :
    /\ LeaveMode(m)
    /\ \/ kpc = "deadlines" /\ \E a \in ErrorActions \ {"IGNORE"} : m = ActionMode(a)
       \/ kpc = "idle" /\ ctx # "MODULE"

LEMMA CallsAtIdle ==
  ASSUME NEW service, Call(service)
  PROVE  kpc = "idle" /\ ctx # "MODULE"
BY ConstantTypes DEF Call, AtRest

LEMMA ActionModes ==
  ASSUME NEW a \in ErrorActions \ {"IGNORE"}
  PROVE  ActionMode(a) \in Modes \ {"NORMAL"}
BY ProcessesAssumption DEF ActionMode, Modes

LEMMA ServicesControl ==
  ASSUME Services
  PROVE  QuietStep \/ StopErrorHandler \/ SetNormalMode \/ ModeStep
<1> USE DEF QuietStep, preemption, partition
<1>1. CASE CREATE_PROCESS \/ CREATE_ERROR_HANDLER \/ GET_ERROR_STATUS \/ LOCK_PREEMPTION
  BY <1>1 DEF CREATE_PROCESS, CREATE_ERROR_HANDLER, GET_ERROR_STATUS, LOCK_PREEMPTION
<1>2. CASE STOP_SELF \/ UNLOCK_PREEMPTION \/ PERIODIC_WAIT
  BY <1>2, CallsAtIdle DEF STOP_SELF, UNLOCK_PREEMPTION, PERIODIC_WAIT, YieldIf
<1>3. CASE RAISE_APPLICATION_ERROR
  BY <1>3, CallsAtIdle, ActionModes DEF RAISE_APPLICATION_ERROR, ModeStep
<1>4. CASE \E m \in {"IDLE", "COLD_START", "WARM_START"} : SetStartMode(m)
  BY <1>4, CallsAtIdle DEF SetStartMode, ModeStep, Modes
<1>5. CASE (\E t \in TimeOuts : SUSPEND_SELF(t)) \/ \E b \in Budgets : REPLENISH(b)
  BY <1>5, CallsAtIdle DEF SUSPEND_SELF, REPLENISH
<1>6. CASE \E d \in Delays : TIMED_WAIT(d)
  BY <1>6, CallsAtIdle DEF TIMED_WAIT
<1>7. CASE \E p \in Proc : SUSPEND(p) \/ RESUME(p) \/ STOP(p)
  BY <1>7, CallsAtIdle DEF SUSPEND, RESUME, STOP, YieldIf
<1>8. CASE \E p \in Proc : \E d \in Delays : DELAYED_START(p, d)
  BY <1>8, CallsAtIdle DEF DELAYED_START, YieldIf
<1>9. CASE \E p \in Proc : \E prio \in Priorities : SET_PRIORITY(p, prio)
  BY <1>9, CallsAtIdle DEF SET_PRIORITY, YieldIf
<1> QED
  BY <1>1, <1>2, <1>3, <1>4, <1>5, <1>6, <1>7, <1>8, <1>9 DEF Services

\* Which steps there are, for what decides who runs.
LEMMA ControlSteps ==
  ASSUME Next
  PROVE  \/ QuietStep \/ ModeStep
         \/ StopErrorHandler \/ SetNormalMode \/ StartDone
         \/ HandleEvents \/ TimeoutsDone \/ DeadlinesDone
         \/ ScheduleProcessOut \/ KeepPartition \/ SchedulePartitionOut
         \/ EnterPartition \/ StayOut \/ ScheduleProcessIn
         \/ TICK \/ OtherYields
<1> USE DEF preemption, partition
<1>1. CASE StartNext \/ Timeout
  BY <1>1 DEF StartNext, Timeout, QuietStep
<1>2. CASE Deadline
  BY <1>2, ActionModes DEF Deadline, QuietStep, ModeStep
<1>3. CASE CallbackReturns
  BY <1>3, ActionModes DEF CallbackReturns, QuietStep, ModeStep
<1>4. CASE Continues
  BY <1>4 DEF Continues, Continue, QuietStep
<1>5. CASE ResourceServices
  BY <1>5, CallsAtIdle DEF ResourceServices, WAIT_RESOURCE, SIGNAL_RESOURCE, YieldIf, QuietStep
<1>6. CASE \E r \in Resource : CREATE_RESOURCE(r)
  BY <1>6 DEF CREATE_RESOURCE, QuietStep
<1> QED
  BY <1>1, <1>2, <1>3, <1>4, <1>5, <1>6, ServicesControl DEF Next, Internal, Scheduler

\* What each mode change does to who runs. INITIALIZED does not matter here.
LEMMA ModeSteps ==
  ASSUME ModeStep
  PROVE  /\ mode # "IDLE" /\ UNCHANGED <<scheduled, nextCtx>>
         /\ \/ kpc' = "fault" /\ UNCHANGED <<current, mode, ctx, partReady>>
            \/ /\ mode' = "IDLE" /\ kpc' = "events" /\ pass' = "yield"
               /\ current' = NoProc /\ ctx' = ctx /\ ~ partReady'
            \/ /\ mode' \in Modes \ {"IDLE", "NORMAL"} /\ kpc' = "idle"
               /\ current' = NoProc /\ ctx' = "DEFAULT" /\ ~ partReady'
BY DEF ModeStep, LeaveMode, Wiped, GoIdle, Restart, Reinitialize, Yield, preemption, partition, core

LEMMA PlacedSteps ==
  ASSUME RestOK, Placed, IdleLeaves, Next
  PROVE  Placed' /\ IdleLeaves'
<1> USE DEF Placed, IdleLeaves, partition, core, kernel
<1>1. CASE QuietStep
  BY <1>1 DEF QuietStep, Yield
<1>2. CASE ModeStep
  BY <1>2, ModeSteps DEF ModeStep
<1>3. CASE StopErrorHandler \/ SetNormalMode
  <2>1. kpc = "idle" /\ scheduled
    BY <1>3, CallsAtIdle DEF StopErrorHandler, SetNormalMode
  <2>2. CASE StopErrorHandler
    BY <2>1, <2>2 DEF StopErrorHandler, Yield
  <2>3. CASE SetNormalMode
    BY <2>1, <2>3 DEF SetNormalMode
  <2> QED BY <1>3, <2>2, <2>3
<1>4. CASE StartDone \/ TimeoutsDone \/ DeadlinesDone
  BY <1>4 DEF StartDone, TimeoutsDone, DeadlinesDone, Yield
<1>5. CASE HandleEvents
  BY <1>5 DEF HandleEvents
<1>6. CASE ScheduleProcessOut
  BY <1>6 DEF ScheduleProcessOut, AfterOut, StopCallback, StopHandler, Preempt, StayOn
<1>7. CASE KeepPartition
  BY <1>7 DEF KeepPartition
<1>8. CASE EnterPartition \/ StayOut
  BY <1>8 DEF EnterPartition, StayOut
<1>9. CASE ScheduleProcessIn
  <2>1. CASE NothingToStart
    BY <1>9, <2>1 DEF ScheduleProcessIn, NothingToStart, Switch
  <2>2. CASE scheduled /\ (StartCallback \/ StartHandler \/ Dispatch)
    BY <1>9, <2>2 DEF ScheduleProcessIn, StartCallback, StartHandler, Dispatch, Switch
  <2> QED BY <1>9, <2>1, <2>2 DEF ScheduleProcessIn
<1>10. CASE TICK
  BY <1>10 DEF TICK, AtRest
<1>11. CASE OtherYields
  BY <1>11 DEF OtherYields
<1>12. CASE SchedulePartitionOut
  <2>1. partReady' => partReady
    BY <1>12, Zenon DEF SchedulePartitionOut
  <2>2. kpc = "partition" /\ kpc' = "enter" /\ UNCHANGED <<mode, ctx>>
    BY <1>12 DEF SchedulePartitionOut
  <2>3. ~ scheduled'
    BY <1>12, Zenon DEF SchedulePartitionOut
  <2>4. nextCtx' = "MODULE" \/ (~ scheduled /\ nextCtx' = nextCtx)
    BY <1>12, Zenon DEF SchedulePartitionOut
  <2> QED BY <2>1, <2>2, <2>3, <2>4
<1> QED
  BY <1>1, <1>2, <1>3, <1>4, <1>5, <1>6, <1>7, <1>8, <1>9, <1>10, <1>11, <1>12, ControlSteps

LEMMA PlacedInvInductive ==
  /\ Init => PlacedInv
  /\ PlacedInv /\ [Next]_vars => PlacedInv'
<1>1. Init => PlacedInv
  BY TypeInvInductive DEF Init, PlacedInv, Placed, IdleLeaves
<1>2. ASSUME PlacedInv, [Next]_vars PROVE PlacedInv'
  <2>1. TypeInv'
    BY <1>2, TypeInvInductive DEF PlacedInv
  <2>2. Placed' /\ IdleLeaves'
    <3>1. CASE Next
      BY <1>2, <3>1, PlacedSteps, TypeParts DEF PlacedInv, TypeInv
    <3>2. CASE UNCHANGED vars
      BY <1>2, <3>2 DEF PlacedInv, Placed, IdleLeaves, vars, partition, kernel, core
    <3> QED BY <1>2, <3>1, <3>2
  <2> QED BY <2>1, <2>2 DEF PlacedInv
<1> QED
  BY <1>1, <1>2

\* IdleRunsNothing: once SET_PARTITION_MODE(IDLE), called by a process, a handler or
\* SCHEDULER itself, is over, nothing of the partition runs, whatever ticks and
\* windows follow.
THEOREM IdlePartitionRunsNothing == Spec => []IdleRunsNothing
<1>1. PlacedInv => IdleRunsNothing
  BY DEF PlacedInv, Placed, IdleLeaves, IdleRunsNothing
<1> QED
  BY <1>1, PlacedInvInductive, PTL DEF Spec

-----------------------------------------------------------------------------
(* The context that runs is the current process's. A deadline whose action *)
(* is a restart abandons the pass with CORE_NEXT_CONTEXT set, and the next *)
(* pass switches to it: without the hypothesis below the property fails.   *)

\* No missed deadline restarts the partition from inside SCHEDULER.
NoRestartInPass == [][kpc = "deadlines" => mode' \in {mode, "IDLE"}]_vars

\* It holds where the configuration has no such action.
THEOREM WithoutRestartActions ==
  ASSUME ErrorActions \subseteq {"IGNORE", "IDLE"}
  PROVE  Spec => NoRestartInPass
<1>1. [Next]_vars => [kpc = "deadlines" => mode' \in {mode, "IDLE"}]_vars
  <2> SUFFICES ASSUME Next, kpc = "deadlines" PROVE mode' \in {mode, "IDLE"}
    OBVIOUS
  <2> USE DEF preemption, partition
  <2>1. CASE ModeStep
    <3>1. PICK m : LeaveMode(m) /\ \E a \in ErrorActions \ {"IGNORE"} : m = ActionMode(a)
      BY <2>1 DEF ModeStep
    <3>2. m = "IDLE"
      BY <3>1 DEF ActionMode
    <3> QED BY <3>1, <3>2 DEF LeaveMode, Wiped, GoIdle
  <2>2. CASE QuietStep \/ DeadlinesDone
    BY <2>2 DEF QuietStep, DeadlinesDone
  <2>3. CASE StopErrorHandler \/ SetNormalMode
    BY <2>3, CallsAtIdle DEF StopErrorHandler, SetNormalMode
  <2> QED
    BY <2>1, <2>2, <2>3, ControlSteps
    DEF StartDone, HandleEvents, TimeoutsDone, ScheduleProcessOut, KeepPartition, SchedulePartitionOut,
        EnterPartition, StayOut, ScheduleProcessIn, TICK, AtRest, OtherYields
<1> QED
  BY <1>1, PTL DEF Spec, NoRestartInPass

LEMMA ContextSteps ==
  ASSUME TypeOK, RestOK, Placed, IdleLeaves, ContextFits, Next,
         kpc = "deadlines" => mode' \in {mode, "IDLE"}
  PROVE  ContextFits'
<1> USE ConstantTypes DEF ContextFits, IsLeaving, partition, core, kernel
<1>1. CASE QuietStep
  BY <1>1 DEF QuietStep, Yield, Placed, IdleLeaves
<1>2. CASE ModeStep
  BY <1>2, ModeSteps DEF ModeStep, Placed
<1>3. CASE StopErrorHandler \/ SetNormalMode
  <2>1. kpc = "idle" /\ scheduled
    BY <1>3, CallsAtIdle DEF StopErrorHandler, SetNormalMode, Placed
  <2>2. CASE StopErrorHandler
    BY <2>1, <2>2 DEF StopErrorHandler, Yield
  <2>3. CASE SetNormalMode
    BY <2>1, <2>3 DEF SetNormalMode, preemption
  <2> QED BY <1>3, <2>2, <2>3
<1>4. CASE StartDone \/ TimeoutsDone \/ DeadlinesDone
  BY <1>4 DEF StartDone, TimeoutsDone, DeadlinesDone, Yield, Placed, preemption
<1>5. CASE HandleEvents
  BY <1>5 DEF HandleEvents, preemption
<1>6. CASE ScheduleProcessOut
  BY <1>6 DEF ScheduleProcessOut, AfterOut, StopCallback, StopHandler, Preempt, StayOn, IdleLeaves
<1>7. CASE KeepPartition \/ SchedulePartitionOut
  BY <1>7 DEF KeepPartition, SchedulePartitionOut, IdleLeaves, preemption
<1>8. CASE EnterPartition \/ StayOut
  BY <1>8 DEF EnterPartition, StayOut, IdleLeaves, preemption, RestOK
<1>9. CASE ScheduleProcessIn
  <2>1. CASE NothingToStart
    BY <1>9, <2>1 DEF ScheduleProcessIn, NothingToStart, Switch
  <2>2. CASE StartCallback \/ StartHandler
    BY <1>9, <2>2 DEF ScheduleProcessIn, StartCallback, StartHandler, Switch
  <2>3. CASE Dispatch
    <3>1. current' \in Proc
      BY <2>3, ProcTypes DEF Dispatch, MayDispatch
    <3> QED BY <1>9, <2>3, <3>1 DEF ScheduleProcessIn, Dispatch, MayDispatch, Switch
  <2> QED BY <1>9, <2>1, <2>2, <2>3 DEF ScheduleProcessIn
<1>10. CASE TICK
  BY <1>10 DEF TICK, AtRest, preemption, IdleLeaves
<1>11. CASE OtherYields
  BY <1>11 DEF OtherYields, preemption
<1> QED
  BY <1>1, <1>2, <1>3, <1>4, <1>5, <1>6, <1>7, <1>8, <1>9, <1>10, <1>11, ControlSteps

LEMMA ContextInvInductive ==
  /\ Init => ContextInv
  /\ ContextInv /\ [Next]_vars /\ [kpc = "deadlines" => mode' \in {mode, "IDLE"}]_vars => ContextInv'
<1>1. Init => ContextInv
  BY PlacedInvInductive, ConstantTypes DEF Init, ContextInv, ContextFits, IsLeaving
<1>2. ASSUME ContextInv, [Next]_vars, [kpc = "deadlines" => mode' \in {mode, "IDLE"}]_vars
      PROVE  ContextInv'
  <2>1. PlacedInv'
    BY <1>2, PlacedInvInductive DEF ContextInv
  <2>2. CASE UNCHANGED vars
    BY <1>2, <2>1, <2>2
    DEF ContextInv, ContextFits, IsLeaving, vars, preemption, partition, kernel, core
  <2>3. CASE Next /\ (kpc = "deadlines" => mode' \in {mode, "IDLE"})
    BY <1>2, <2>1, <2>3, ContextSteps, TypeParts DEF ContextInv, PlacedInv, TypeInv
  <2> QED BY <1>2, <2>2, <2>3
<1> QED
  BY <1>1, <1>2

\* ContextIsCurrent: whatever is preempted, stopped, restarted or interrupted by a
\* handler, PORT_SWITCH never gives the processor to the context of a process that
\* is not CURRENT_PROCESS_INFORMATION.
THEOREM ContextOfCurrent == Spec /\ NoRestartInPass => []ContextIsCurrent
<1>1. ContextInv => ContextIsCurrent
  BY ConstantTypes DEF ContextInv, PlacedInv, IdleLeaves, ContextFits, IsLeaving, ContextIsCurrent
<1> QED
  BY <1>1, ContextInvInductive, PTL DEF Spec, NoRestartInPass

\* LockExcludesOthers: only SCHEDULEPROCESSIN dispatches another process, and it
\* does not while LOCK_LEVEL is positive; the error handler gives the processor
\* back to the process it interrupted and to no other.
THEOREM LockHolderIsExcluded == Spec => LockExcludesOthers
<1>1. [Next]_vars => [lock > 0 /\ lock' > 0 => current' \in {current, NoProc, eh.preempted}]_vars
  <2> SUFFICES ASSUME Next, lock > 0, lock' > 0
               PROVE  current' \in {current, NoProc, eh.preempted}
    OBVIOUS
  <2>1. CASE QuietStep \/ ModeStep
    BY <2>1, ModeSteps DEF QuietStep
  <2>2. CASE StopErrorHandler \/ SetNormalMode \/ StartDone
    BY <2>2 DEF StopErrorHandler, SetNormalMode, StartDone, preemption
  <2>3. CASE HandleEvents \/ TimeoutsDone \/ DeadlinesDone
    BY <2>3 DEF HandleEvents, TimeoutsDone, DeadlinesDone, preemption
  <2>4. CASE ScheduleProcessOut
    BY <2>4 DEF ScheduleProcessOut, StopCallback, StopHandler, Preempt, StayOn
  <2>5. CASE KeepPartition \/ SchedulePartitionOut \/ EnterPartition \/ StayOut
    BY <2>5 DEF KeepPartition, SchedulePartitionOut, EnterPartition, StayOut, preemption
  <2>6. CASE ScheduleProcessIn
    BY <2>6 DEF ScheduleProcessIn, StartCallback, StartHandler, Dispatch, MayDispatch, NothingToStart
  <2>7. CASE TICK \/ OtherYields
    BY <2>7 DEF TICK, OtherYields, preemption
  <2> QED BY <2>1, <2>2, <2>3, <2>4, <2>5, <2>6, <2>7, ControlSteps
<1> QED
  BY <1>1, PTL DEF Spec, LockExcludesOthers
=============================================================================
