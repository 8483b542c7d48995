SPECIFICATION ServerSpec
CONSTANTS
  Callers = {s1, s2}
  Reporters = {s1, s2}
  Closers = {}
  Keys = {k1}
  Lengths = {1500}
  windowDuration = 2
  minPackets = 2
  maxPackets = 3
  resultsCap = 1
  MaxArrival = 1
  MaxTime = 3
  MaxReports = 3
  usPerTick = 2500000
SYMMETRY Symmetry
INVARIANT CommandToReporter
