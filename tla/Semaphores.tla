----------------------------- MODULE Semaphores -----------------------------
(***************************************************************************)
(* Counting semaphores (arinc653_intrapartitionCommunication_semaphore.c)  *)
(* with processes that use each of them to guard a section of their code:  *)
(* a process is inside from the moment WAIT_SEMAPHORE answers NO_ERROR,    *)
(* and SIGNAL_SEMAPHORE is what it calls on leaving.                       *)
(***************************************************************************)
EXTENDS CommunicationObjects

CONSTANTS
  Semaphore,                  \* the semaphores among the objects
  CurrentValue, MaximumValue  \* the arguments of CREATE_SEMAPHORE

ASSUME SemaphoresAssumption ==
  /\ Semaphore \subseteq Resource
  /\ \A s \in Semaphore :
       CurrentValue[s] \in Nat /\ MaximumValue[s] \in Nat /\ CurrentValue[s] <= MaximumValue[s]

VARIABLES
  value,  \* CURRENT_VALUE of each semaphore
  inside  \* the processes inside the section that each semaphore guards

semaphoreVars == <<value, inside>>

SemaphoresInit ==
  /\ value = [s \in Semaphore |-> 0]
  /\ inside = [s \in Semaphore |-> {}]

CREATE_SEMAPHORE(s) ==
  /\ Create(s)
  /\ value' = [value EXCEPT ![s] = CurrentValue[s]]
  /\ UNCHANGED inside

WAIT_SEMAPHORE(p, s, kind) ==
  /\ MayCall(p, s) /\ p \notin inside[s]
  /\ \/ /\ value[s] > 0
        /\ value' = [value EXCEPT ![s] = @ - 1]
        /\ inside' = [inside EXCEPT ![s] = @ \cup {p}]
        /\ UNCHANGED objectVars
     \/ /\ value[s] = 0
        /\ Block(p, s, kind, [service |-> "WAIT_SEMAPHORE", object |-> s])
        /\ UNCHANGED <<normal, objects, semaphoreVars>>

\* A unit goes to the process that waits longest or is the most urgent one.
SIGNAL_SEMAPHORE(p, s) ==
  /\ MayCall(p, s) /\ p \in inside[s]
  /\ value[s] # MaximumValue[s]
  /\ inside' = [inside EXCEPT ![s] = @ \ {p}]
  /\ \/ /\ queue[s] = <<>>
        /\ value' = [value EXCEPT ![s] = @ + 1]
        /\ UNCHANGED objectVars
     \/ /\ Signal(s)
        /\ UNCHANGED <<normal, objects, call, value>>

\* Mutant: TIMED_OUT is not told from NO_ERROR.
BadWaitSemaphoreReturns(p) ==
  /\ call[p].service = "WAIT_SEMAPHORE"
  /\ Comeback(p)
  /\ inside' = [inside EXCEPT ![call[p].object] = @ \cup {p}]
  /\ UNCHANGED <<normal, objects, value>>

\* A blocked WAIT_SEMAPHORE answers what WAIT_RESOURCE answered.
WaitSemaphoreReturns(p) ==
  /\ call[p].service = "WAIT_SEMAPHORE"
  /\ Comeback(p)
  /\ inside' = IF wait[p] = "granted"
               THEN [inside EXCEPT ![call[p].object] = @ \cup {p}] ELSE inside
  /\ UNCHANGED <<normal, objects, value>>

\* Processes that are stopped are no longer inside.
LeaveSections(S) == inside' = [s \in Semaphore |-> inside[s] \ S]

SemaphoreServices ==
  \/ \E s \in Semaphore :
       \/ CREATE_SEMAPHORE(s)
       \/ \E p \in Proc :
            SIGNAL_SEMAPHORE(p, s) \/ \E kind \in Waits : WAIT_SEMAPHORE(p, s, kind)
  \/ \E p \in Proc : WaitSemaphoreReturns(p)

-----------------------------------------------------------------------------
\* Processes that were handed a unit they have not entered with yet.
OnTheWay(s) ==
  {p \in Proc : call[p] = [service |-> "WAIT_SEMAPHORE", object |-> s] /\ wait[p] = "granted"}

\* Mutual exclusion: inside a section are never more processes than the semaphore
\* had units, counting those on their way in and the units nobody has taken,
\* whatever times out, is stopped or restarts in between.
SectionsGuarded ==
  \A s \in Semaphore \cap objects :
    Cardinality(inside[s]) + Cardinality(OnTheWay(s)) + value[s] <= CurrentValue[s]
=============================================================================
