CONSTANTS
  Client = {c1, c2}
  Inst = {i1, i2}
  AVD = {a1, a2}
  Phone = {}
  MaxConcurrent = 1
  None = None
  Ops = {"allocate", "allocateManual", "allocateAVD", "allocateID", "reserve"}
SPECIFICATION Spec
SYMMETRY Symmetry
INVARIANT ExclusiveHandout
CHECK_DEADLOCK FALSE
