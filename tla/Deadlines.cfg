CONSTANTS
  p1 = p1  p2 = p2  p3 = p3  r1 = r1
  NoProc = NoProc
  Proc <- Two
  Order <- Order2
  BasePriority <- Prio2
  Period <- P1Periodic
  TimeCapacity <- Capacities
  Priorities <- Prios
  TimeOuts <- WaitOneOrEver
  Budgets <- ZeroOneOrEver
  Delays <- SmallDelays
  Resource <- NoResource
  Fifo <- NoResource
  MaxLock = 1
  MaxErrors = 1
  HmCallback = FALSE
  ErrorLevels = {"PROCESS", "PARTITION"}
  ErrorActions = {"IGNORE", "IDLE", "WARM_START"}
  MaxGap = 1
  MaxTime = 3
  Calls <- DeadlineCalls
SPECIFICATION FairSpec
INVARIANTS DeadlineWatched EventsServed IdleRunsNothing
PROPERTY SchedulerEnds
CHECK_DEADLOCK FALSE
