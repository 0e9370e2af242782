CONSTANTS
  p1 = p1  p2 = p2  p3 = p3
  s1 = s1  e1 = e1  b1 = b1  q1 = q1  m1 = m1  m2 = m2
  None = None
  Partition <- OnePartition
  Proc <- MCProc
  Resource <- MCResource
  Home <- MCHome
  Fifo <- MCFifo
  Semaphore <- MCSemaphore
  CurrentValue <- TwoUnits
  MaximumValue <- TwoUnits
  Event <- MCEvent
  Blackboard <- MCBlackboard
  Buffer <- MCBuffer
  MaxNbMessage <- ThreePlaces
  Message <- Messages
  Uses <- MCUses
SPECIFICATION Spec
INVARIANTS TypeOK SectionsGuarded NobodyWaitsInVain ReadersFindDisplayed OneSideWaits AnswerMatchesEffect
PROPERTY ImplementsChannels
CHECK_DEADLOCK FALSE
