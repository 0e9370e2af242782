CONSTANTS
  p1 = p1  p2 = p2  p3 = p3  r1 = r1
  NoProc = NoProc
  Proc <- Three
  Order <- Order3
  BasePriority <- Prio3
  Period <- Aperiodic3
  TimeCapacity <- NoCapacity3
  Priorities <- Prios
  TimeOuts <- WaitOne
  Budgets <- NoBudget
  Delays <- SmallDelays
  Resource <- NoResource
  Fifo <- NoResource
  MaxLock = 2
  MaxErrors = 1
  HmCallback = FALSE
  ErrorLevels = {}
  ErrorActions = {}
  MaxGap = 0
  MaxTime = 1
  Calls <- DispatchCalls
SPECIFICATION Spec
INVARIANTS TypeOK PriorityDispatch LockHolderRuns
CHECK_DEADLOCK FALSE
