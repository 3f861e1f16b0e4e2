SPECIFICATION FairSpec
CHECK_DEADLOCK FALSE
CONSTANTS
  Depth = 2
  RxDepth = 2
  SeqRange = 2
  TsRange = 32
  Transit = 2
  EarlyBy = 0
  LateAfter = 1
  FirstTick = 31
  LastInput = 32
  MaxNow = 35
  MaxPackets = 3
  MaxSessions = 2
INVARIANTS InOrder NotEarly RequeueRoom OnlySocketIsStale
PROPERTIES NoSilentGap Drains StopCompletes
