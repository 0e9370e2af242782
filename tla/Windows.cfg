CONSTANTS
  P1 = P1  P2 = P2  P3 = P3
  NoPart = NoPart
  Part <- MCPart
  Sequence <- MCSequence
  Window <- MCWindow
  Frame = 10
  Callback = TRUE
  Shutdown = TRUE
  DeadlineAction = TRUE
SPECIFICATION IsolationSpec
INVARIANTS TypeOK ReadyMatchesIndex IsolationRecovers WindowGranted
PROPERTY NoStarvation
CHECK_DEADLOCK FALSE
