CONSTANTS
  A = A  B = B  C = C
  a1 = a1  a2 = a2  b1 = b1
  qs = qs  qd = qd  ss = ss  sb = sb  sc = sc
  qt = qt  qc = qc  st = st
  None = None
  Partition <- Partitions
  Proc <- OneEach
  Resource <- AllPorts
  Home <- MCHome
  Fifo = {}
  QueuingPort <- QueuingPorts4
  Source <- TwoQueuingSources
  MaxNbMessage <- OnePlaceEach
  Numbering = 1  \* taking a message empties its source: they need not be told apart
  Message <- Numbers
  SizeLimit = 16
  SamplingPort <- SamplingPorts4
  SamplingSource <- TwoSamplingSources
  RefreshPeriod = 1
  MaxTime = 0
  MaxWrites = 2
  QueuingChannels <- TwoQueuingChannels
  SamplingChannels <- TwoSamplingChannels
SPECIFICATION FairSpec
PROPERTY Forwarded
CHECK_DEADLOCK FALSE
