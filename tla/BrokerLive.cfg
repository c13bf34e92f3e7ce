CONSTANTS
  Req = {r1, r2}
  Inst = {i1}
  MaxQueue = 2
  None = None
  Ops = {"expire", "giveup"}
SPECIFICATION FairSpec
INVARIANT NoDeviceStranded
PROPERTY QueuedAnswered
CHECK_DEADLOCK FALSE
