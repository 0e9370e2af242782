CONSTANTS
  p1 = p1  p2 = p2  p3 = p3  r1 = r1
  NoProc = NoProc
  Proc <- Two
  Order <- Order2
  BasePriority <- Prio2
  Period <- Aperiodic2
  TimeCapacity <- NoCapacity2
  Priorities <- Prios
  TimeOuts <- WaitOneOrEver
  Budgets <- NoBudget
  Delays <- NoDelay
  Resource <- OneResource
  Fifo <- NoResource
  MaxLock = 1
  MaxErrors = 1
  HmCallback = FALSE
  ErrorLevels = {}
  ErrorActions = {}
  MaxGap = 0
  MaxTime = 2
  Calls <- WaitCalls
SPECIFICATION Spec
INVARIANTS WaitingHasReason GrantXorTimeout RunnableInReady QueuedIsWaiting QueuesInOrder
PROPERTY ImplementsWaiting
CHECK_DEADLOCK FALSE
