---------------------------- MODULE MCProcesses -----------------------------
(* Instances of Processes: which processes, with which attributes, and     *)
(* which services the application calls.                                   *)
EXTENDS Processes

CONSTANTS p1, p2, p3, r1

Two == {p1, p2}
Three == {p1, p2, p3}
Order2 == <<p1, p2>>
Order3 == <<p1, p2, p3>>
OneResource == {r1}
NoResource == {}

\* p1 is the most urgent process.
Prio2 == [p \in Two |-> IF p = p1 THEN 2 ELSE 1]
Prio3 == [p \in Three |-> IF p = p1 THEN 2 ELSE 1]
Prios == {1, 2}

Aperiodic2 == [p \in Two |-> 0]
Aperiodic3 == [p \in Three |-> 0]
P1Periodic == [p \in Two |-> IF p = p1 THEN 2 ELSE 0]

NoCapacity2 == [p \in Two |-> -1]
NoCapacity3 == [p \in Three |-> -1]
Capacities == [p \in Two |-> 1]
LongCapacities == [p \in Two |-> 3]

WaitOne == {1}
WaitOneOrEver == {1, -1}
\* A budget of zero sets a deadline that is due at once.
ZeroOneOrEver == {0, 1, -1}
NoBudget == {}
NoDelay == {0}
SmallDelays == {0, 1}

Startup == {"CREATE_PROCESS", "START", "NORMAL"}
WaitCalls == Startup \cup
  {"CREATE_RESOURCE", "WAIT_RESOURCE", "SIGNAL_RESOURCE", "SUSPEND", "SUSPEND_SELF",
   "RESUME", "STOP", "SET_PRIORITY", "TIMED_WAIT"}
SuspendCalls == Startup \cup {"SUSPEND_SELF", "STOP_SELF", "TIMED_WAIT"}
DispatchCalls == Startup \cup
  {"SET_PRIORITY", "TIMED_WAIT", "LOCK_PREEMPTION", "UNLOCK_PREEMPTION", "STOP_SELF"}
DeadlineCalls == Startup \cup
  {"PERIODIC_WAIT", "TIMED_WAIT", "REPLENISH", "CREATE_ERROR_HANDLER",
   "STOP_SELF", "RESTART", "RAISE_APPLICATION_ERROR"}
HandlerCalls == Startup \cup
  {"LOCK_PREEMPTION", "UNLOCK_PREEMPTION", "CREATE_ERROR_HANDLER",
   "RAISE_APPLICATION_ERROR", "GET_ERROR_STATUS", "STOP_SELF", "STOP", "TIMED_WAIT"}
=============================================================================
