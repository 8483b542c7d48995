SPECIFICATION FairPipeSpec
CONSTANTS
  queueCap = 2
  upWindow = 1
  downWindow = 2
  MaxPackets = 5
  MaxRaw = 2
  MaxDrained = 2
INVARIANT PipeTypeOK
PROPERTIES
  ImplementsStream
  ReportsArrive
  ParserFreed
  EndPropagates
CHECK_DEADLOCK FALSE
