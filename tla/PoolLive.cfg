CONSTANTS
  Client = {c1, c2}
  Inst = {i1, i2}
  AVD = {a1, a2}
  Phone = {}
  MaxConcurrent = 2
  None = None
  Ops = {"allocate"}
SPECIFICATION FairSpec
INVARIANT OneInstancePerAVD
PROPERTY MarksCleared
CHECK_DEADLOCK FALSE
