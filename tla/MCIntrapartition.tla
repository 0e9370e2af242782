-------------------------- MODULE MCIntrapartition --------------------------
(* Three processes and, in turn, each kind of object, and a semaphore with *)
(* a blackboard.                                                               *)
EXTENDS IntrapartitionCommunication

CONSTANTS p1, p2, p3, s1, e1, b1, q1, m1, m2

OnePartition == {"partition"}
MCProc == {p1, p2, p3}
MCResource == {s1, e1, b1, q1}
MCHome == [x \in MCProc \cup MCResource |-> "partition"]
MCFifo == {q1}
MCSemaphore == {s1}
MCEvent == {e1}
MCBlackboard == {b1}
MCBuffer == {q1}
TwoUnits == [s \in MCSemaphore |-> 2]
ThreePlaces == [b \in MCBuffer |-> 3]
Messages == {m1, m2}
MCUses == {{s1}, {e1}, {b1}, {q1}, {s1, b1}}
=============================================================================
