SPECIFICATION FairSpec
CONSTANTS
  Callers = {c1, c2}
  Closers = {x1}
  Keys = {k1}
  Lengths = {1}
  windowDuration = 2
  minPackets = 2
  maxPackets = 3
  resultsCap = 1
  MaxArrival = 1
  MaxTime = 3
  MaxReports = 4
INVARIANTS TypeOK WindowSizes EachWindowOnce PacketsAccounted CloseStopsSweep
PROPERTIES ImplementsWindows QuietFlowsClose CloseReturns
