------------------------- MODULE PartitionIsolation -------------------------
(***************************************************************************)
(* How far the isolation of the partitions' windows goes. A restart or an  *)
(* IDLE out of the middle of SCHEDULER, and the module's callback, which   *)
(* both run in whatever window they happen in, disturb it: this module     *)
(* remembers that one of them has happened in the current major frame.     *)
(***************************************************************************)
EXTENDS PartitionScheduler

VARIABLE disturbed  \* auxiliary: has isolation been disturbed in this frame?

isolationVars == <<vars, disturbed>>

NewFrame == time # 0 /\ time' = 0

IsolationInit == Init /\ disturbed = FALSE

IsolationNext ==
  /\ Next
  /\ disturbed' = \/ hm'.start \/ hm'.running
                  \/ pc # "rest" /\ mode' # mode
                  \/ disturbed /\ ~ NewFrame

IsolationSpec ==
  /\ IsolationInit /\ [][IsolationNext]_isolationVars
  /\ WF_vars(Scheduler) /\ SF_vars(TICK)

\* The damage of a restart out of SCHEDULER (the partition then runs into the next
\* one's window) or of a module error is contained: unless one happened in this very
\* frame, no partition holds the processor in another one's window, whatever happened
\* in the frames before.
IsolationRecovers == ~ disturbed => Isolation

\* A partition owns the processor throughout each of its windows, in a frame that
\* nothing has disturbed, unless it was reinitialized and so left the ready queue until
\* the next frame. In a disturbed frame another one may, but somebody does.
WindowGranted ==
  /\ WindowUsed
  /\ ~ disturbed /\ pc = "rest" /\ ~ moduleIdle =>
       \A p \in Part : Enqueued(ready, p) /\ InWindow(p) => owner = p
=============================================================================
