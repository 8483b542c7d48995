SPECIFICATION FairServerSpec
CONSTANTS
  Callers = {s1, s2}
  Reporters = {s1}
  Closers = {}
  Keys = {k1}
  Lengths = {1, 1500}
  windowDuration = 2
  minPackets = 1
  maxPackets = 2
  resultsCap = 1
  MaxArrival = 1
  MaxTime = 3
  MaxReports = 2
  usPerTick = 2500000

INVARIANTS ServerTypeOK RiskWithin100 BlockNeedsBoth EachWindowOnce
PROPERTIES QuietFlowsDecided DrainersEnd
