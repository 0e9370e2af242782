------------------------------- MODULE Events -------------------------------
(***************************************************************************)
(* Events (arinc653_intrapartitionCommunication_event.c). SET_EVENT and    *)
(* RESET_EVENT have no caller to speak of: any process, the error handler  *)
(* and the default process of a start mode may call them.                  *)
(***************************************************************************)
EXTENDS CommunicationObjects

CONSTANT Event  \* the events among the objects

ASSUME EventsAssumption == Event \subseteq Resource

VARIABLE up  \* the events whose EVENT_STATE is UP

EventsInit == up = {}

CREATE_EVENT(e) ==
  /\ Create(e)
  /\ up' = up \ {e}

\* Mutant: only the first process that waits is woken.
BadSET_EVENT(e) ==
  /\ e \in objects
  /\ up' = up \cup {e}
  /\ IF queue[e] = <<>> THEN UNCHANGED objectVars
                        ELSE Signal(e) /\ UNCHANGED <<normal, objects, call>>

SET_EVENT(e) ==
  /\ e \in objects
  /\ up' = up \cup {e}
  /\ SignalAll(e)
  /\ UNCHANGED <<normal, objects, call>>

RESET_EVENT(e) ==
  /\ e \in objects
  /\ up' = up \ {e}
  /\ UNCHANGED objectVars

\* An event that is UP answers at once and changes nothing.
WAIT_EVENT(p, e, kind) ==
  /\ MayCall(p, e) /\ e \notin up
  /\ Block(p, e, kind, [service |-> "WAIT_EVENT", object |-> e])
  /\ UNCHANGED <<normal, objects, up>>

WaitEventReturns(p) ==
  /\ call[p].service = "WAIT_EVENT"
  /\ Comeback(p)
  /\ UNCHANGED <<normal, objects, up>>

EventServices ==
  \/ \E e \in Event :
       \/ CREATE_EVENT(e) \/ SET_EVENT(e) \/ RESET_EVENT(e)
       \/ \E p \in Proc, kind \in Waits : WAIT_EVENT(p, e, kind)
  \/ \E p \in Proc : WaitEventReturns(p)
=============================================================================
