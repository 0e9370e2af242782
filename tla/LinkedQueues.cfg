CONSTANTS
  e1 = e1  e2 = e2  e3 = e3
  readyQ = readyQ  timeQ = timeQ  fifoQ = fifoQ
  Null = Null
  Elem <- MCElem
  Rec <- MCRec
  Prioritized <- MCPrioritized
  Ascending <- MCAscending
  Keys <- MCKeys
SPECIFICATION Spec
INVARIANTS TypeOK ListsMatchMembership PreviousInvertsNext
PROPERTY ImplementsQueues
