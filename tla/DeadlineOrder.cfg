CONSTANTS
  p1 = p1  p2 = p2  p3 = p3  r1 = r1
  NoProc = NoProc
  Proc <- Two
  Order <- Order2
  BasePriority <- Prio2
  Period <- Aperiodic2
  TimeCapacity <- LongCapacities
  Priorities <- Prios
  TimeOuts <- WaitOneOrEver
  Budgets <- NoBudget
  Delays <- SmallDelays
  Resource <- NoResource
  Fifo <- NoResource
  MaxLock = 1
  MaxErrors = 1
  HmCallback = FALSE
  ErrorLevels = {"PARTITION"}
  ErrorActions = {"IGNORE"}
  MaxGap = 0
  MaxTime = 3
  Calls <- SuspendCalls
SPECIFICATION Spec
INVARIANTS DeadlinesSorted
CHECK_DEADLOCK FALSE
