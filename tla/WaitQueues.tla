---------------------------- MODULE WaitQueues ------------------------------
(***************************************************************************)
(* What WAIT_RESOURCE and SIGNAL_RESOURCE promise to the communication     *)
(* objects that are built from them (arinc653_processManagement.c): a      *)
(* process that waits is in one queue, leaves it because it is signalled,  *)
(* because its time-out expires or because it is stopped, and is answered  *)
(* accordingly when it runs again. When that is, and who runs meanwhile,   *)
(* is left open. Module Processes is checked to implement this one.        *)
(***************************************************************************)
EXTENDS Integers, Sequences

CONSTANTS
  Proc,      \* the processes
  Resource,  \* the objects they wait for
  Fifo       \* those with the FIFO queuing discipline

VARIABLES
  queue,  \* REC_PROCESSWAITING of each object, the processes from the head on
  wait    \* where each process is with its wait

waitVars == <<queue, wait>>

Waits == {"ever", "timed"}
Answers == {"granted", "expired"}

WaitInit ==
  /\ queue = [r \in Resource |-> <<>>]
  /\ wait = [p \in Proc |-> "none"]

InQueue(p, r) == \E i \in DOMAIN queue[r] : queue[r][i] = p

\* The queue without p.
Without(q, p) ==
  IF \E i \in DOMAIN q : q[i] = p
  THEN LET k == CHOOSE i \in DOMAIN q : q[i] = p
       IN  [i \in 1..(Len(q) - 1) |-> IF i < k THEN q[i] ELSE q[i + 1]]
  ELSE q

\* The queue with p at place k.
With(q, k, p) ==
  [i \in 1..(Len(q) + 1) |-> IF i < k THEN q[i] ELSE IF i = k THEN p ELSE q[i - 1]]

\* The place is the last one under FIFO, else the one its priority gives it.
Places(r, q) == IF r \in Fifo THEN {Len(q) + 1} ELSE 1..(Len(q) + 1)

Wait(p, r, kind) ==
  /\ wait[p] = "none"
  /\ wait' = [wait EXCEPT ![p] = kind]
  /\ \E k \in Places(r, queue[r]) : queue' = [queue EXCEPT ![r] = With(@, k, p)]

Signal(r) ==
  /\ queue[r] # <<>>
  /\ wait' = [wait EXCEPT ![Head(queue[r])] = "granted"]
  /\ queue' = [queue EXCEPT ![r] = Tail(@)]

Expire(p) ==
  /\ wait[p] = "timed"
  /\ wait' = [wait EXCEPT ![p] = "expired"]
  /\ queue' = [r \in Resource |-> Without(queue[r], p)]

Return(p) ==
  /\ wait[p] \in Answers
  /\ wait' = [wait EXCEPT ![p] = "none"]
  /\ UNCHANGED queue

\* STOP, and what the restart of a partition does to its processes and objects.
Stop(p) ==
  /\ wait' = [wait EXCEPT ![p] = "none"]
  /\ queue' = [r \in Resource |-> Without(queue[r], p)]

StopAll(S, R) ==
  /\ wait' = [p \in Proc |-> IF p \in S THEN "none" ELSE wait[p]]
  /\ queue' = [r \in Resource |-> IF r \in R THEN <<>> ELSE queue[r]]

\* SET_PRIORITY moves a process inside its queue.
Move(p, r) ==
  /\ r \notin Fifo /\ InQueue(p, r)
  /\ \E k \in 1..Len(queue[r]) : queue' = [queue EXCEPT ![r] = With(Without(@, p), k, p)]
  /\ UNCHANGED wait

WaitNext ==
  \/ \E r \in Resource :
       \/ Signal(r)
       \/ \E p \in Proc : Move(p, r) \/ \E kind \in Waits : Wait(p, r, kind)
  \/ \E p \in Proc : Expire(p) \/ Return(p) \/ Stop(p)
  \/ StopAll(Proc, Resource)

WaitSpec == WaitInit /\ [][WaitNext]_waitVars
=============================================================================
