CONSTANTS
  A = A  B = B  C = C
  a1 = a1  a2 = a2  b1 = b1
  qs = qs  qd = qd  ss = ss  sb = sb  sc = sc
  qt = qt  qc = qc  st = st
  None = None
  Partition <- Partitions
  Proc <- OneEach
  Resource <- Ports
  Home <- MCHome
  Fifo = {}
  QueuingPort <- QueuingPorts2
  Source <- QueuingSources
  MaxNbMessage <- TwoAndOne
  Numbering = 4
  Message <- Numbers
  SizeLimit = 16
  SamplingPort <- SamplingPorts3
  SamplingSource <- SamplingSources
  RefreshPeriod = 1
  MaxTime = 2
  MaxWrites = 2
  QueuingChannels <- QueuingTable
  SamplingChannels <- SamplingTable
SPECIFICATION Spec
INVARIANTS TypeOK NothingLost WaitsOnlyIfBlocked TakenMeansArrived
PROPERTY ArrivesInOrder ImplementsChannels
CHECK_DEADLOCK FALSE
