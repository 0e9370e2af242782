CONSTANTS
  p1 = p1  p2 = p2  p3 = p3  r1 = r1
  NoProc = NoProc
  Proc <- Two
  Order <- Order2
  BasePriority <- Prio2
  Period <- Aperiodic2
  TimeCapacity <- Capacities
  Priorities <- Prios
  TimeOuts <- WaitOne
  Budgets <- NoBudget
  Delays <- SmallDelays
  Resource <- NoResource
  Fifo <- NoResource
  MaxLock = 1
  MaxErrors = 1
  HmCallback = TRUE
  ErrorLevels = {"PROCESS", "PARTITION"}
  ErrorActions = {"IGNORE", "IDLE", "WARM_START"}
  MaxGap = 0
  MaxTime = 2
  Calls <- HandlerCalls
SPECIFICATION Spec
INVARIANT ContextIsCurrent
PROPERTY LockExcludesOthers
CHECK_DEADLOCK FALSE
