--------------------------- MODULE MCLinkedQueues ---------------------------
(* Three entries, a ready-like, a timeout-like and a FIFO queue.           *)
EXTENDS LinkedQueues

CONSTANTS e1, e2, e3, readyQ, timeQ, fifoQ

MCElem == {e1, e2, e3}
MCRec == {readyQ, timeQ, fifoQ}
MCPrioritized == {readyQ, timeQ}
MCAscending == {timeQ}
MCKeys == 1..2
=============================================================================
