----------------------------- MODULE Blackboards ----------------------------
(***************************************************************************)
(* Blackboards (arinc653_intrapartitionCommunication_blackboard.c).        *)
(* DISPLAY_BLACKBOARD and CLEAR_BLACKBOARD, like SET_EVENT, may be called  *)
(* in any context. A reader that waited copies the message when it runs    *)
(* again, not when it is woken.                                            *)
(***************************************************************************)
EXTENDS CommunicationObjects

CONSTANT Blackboard  \* the blackboards among the objects

ASSUME BlackboardsAssumption == Blackboard \subseteq Resource

VARIABLES
  occupied,  \* the blackboards whose EMPTY_INDICATOR is OCCUPIED
  board      \* MESSAGE of each blackboard

boardVars == <<occupied, board>>

BlackboardsInit ==
  /\ occupied = {}
  /\ board = [b \in Blackboard |-> None]

CREATE_BLACKBOARD(b) ==
  /\ Create(b)
  /\ occupied' = occupied \ {b}
  /\ UNCHANGED board

\* The calls of readers remember what has been displayed since they were made.
Reading(p, b) == call[p].service = "READ_BLACKBOARD" /\ call[p].object = b

DISPLAY_BLACKBOARD(b, m) ==
  /\ b \in objects
  /\ occupied' = occupied \cup {b}
  /\ board' = [board EXCEPT ![b] = m]
  /\ SignalAll(b)
  /\ call' = [p \in Proc |->
                IF Reading(p, b) THEN [call[p] EXCEPT !.displayed = @ \cup {m}] ELSE call[p]]
  /\ UNCHANGED <<normal, objects>>

\* A board that is OCCUPIED is read at once, which changes nothing.
READ_BLACKBOARD(p, b, kind) ==
  /\ MayCall(p, b) /\ b \notin occupied
  /\ Block(p, b, kind, [service |-> "READ_BLACKBOARD", object |-> b, displayed |-> {}])
  /\ UNCHANGED <<normal, objects, boardVars>>

\* With NO_ERROR the process copies the board as it is now, OCCUPIED or not.
ReadBlackboardReturns(p) ==
  /\ call[p].service = "READ_BLACKBOARD"
  /\ Comeback(p)
  /\ UNCHANGED <<normal, objects, boardVars>>

\* Mutant: the message is wiped too.
BadCLEAR_BLACKBOARD(b) ==
  /\ b \in objects
  /\ occupied' = occupied \ {b}
  /\ board' = [board EXCEPT ![b] = None]
  /\ UNCHANGED objectVars

CLEAR_BLACKBOARD(b) ==
  /\ b \in objects
  /\ occupied' = occupied \ {b}
  /\ UNCHANGED <<objectVars, board>>

BlackboardServices ==
  \/ \E b \in Blackboard :
       \/ CREATE_BLACKBOARD(b) \/ CLEAR_BLACKBOARD(b)
       \/ \E m \in Message : DISPLAY_BLACKBOARD(b, m)
       \/ \E p \in Proc, kind \in Waits : READ_BLACKBOARD(p, b, kind)
  \/ \E p \in Proc : ReadBlackboardReturns(p)

-----------------------------------------------------------------------------
\* A reader that was woken finds a message that was displayed after it asked, even
\* when the board has been cleared or displayed anew before the reader ran.
ReadersFindDisplayed ==
  \A p \in Proc : call[p].service = "READ_BLACKBOARD" /\ wait[p] = "granted" =>
    board[call[p].object] \in call[p].displayed
=============================================================================
