CONSTANTS
  p1 = p1  p2 = p2  p3 = p3  r1 = r1
  NoProc = NoProc
  Proc <- Two
  Order <- Order2
  BasePriority <- Prio2
  Period <- Aperiodic2
  TimeCapacity <- NoCapacity2
  Priorities <- Prios
  TimeOuts <- WaitOne
  Budgets <- NoBudget
  Delays <- NoDelay
  Resource <- NoResource
  Fifo <- NoResource
  MaxLock = 1
  MaxErrors = 1
  HmCallback = FALSE
  ErrorLevels = {"PROCESS"}
  ErrorActions = {}
  MaxGap = 0
  MaxTime = 1
  Calls <- HandlerCalls
SPECIFICATION Spec
INVARIANTS CurrentRuns
CHECK_DEADLOCK FALSE
