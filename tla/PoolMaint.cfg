CONSTANTS
  Client = {c1, c2}
  Inst = {i1, i2}
  AVD = {a1}
  Phone = {p1}
  MaxConcurrent = 1
  None = None
  Ops = {"allocate", "boot", "shutdown", "adopt", "usb", "idle"}
SPECIFICATION Spec
SYMMETRY Symmetry
INVARIANT NoSlotLeak
PROPERTY PromiseKept
CHECK_DEADLOCK FALSE
