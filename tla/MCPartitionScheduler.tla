------------------------ MODULE MCPartitionScheduler ------------------------
(* The shape of Application/configuration.c: two windows for P1 and P2, one *)
(* for P3, and an unused rest of the frame.                                 *)
EXTENDS PartitionIsolation

CONSTANTS P1, P2, P3

MCPart == {P1, P2, P3}
MCSequence == <<P1, P2, P3>>
MCWindow ==
  [p \in MCPart |->
     CASE p = P1 -> <<[start |-> 0, duration |-> 2], [start |-> 5, duration |-> 2]>>
       [] p = P2 -> <<[start |-> 2, duration |-> 1], [start |-> 7, duration |-> 1]>>
       [] p = P3 -> <<[start |-> 3, duration |-> 2]>>]
=============================================================================
