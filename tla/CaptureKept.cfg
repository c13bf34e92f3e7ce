SPECIFICATION FairSpec
CONSTANTS
  Sess = {s1, s2}
  Video = {s1}
  Logcat = {s1, s2}
  Network = {s1, s2}
  MaxPort = 2
  MaxChunk = 2
  Ops = {}
  NoPort = 0
  None = None
INVARIANTS OnlyHolderRecorded ProxyOfHolder ChunksKept
PROPERTIES StopReturns LoopEnds
CHECK_DEADLOCK FALSE
