CONSTANTS
  Req = {r1, r2, r3}
  Inst = {i1, i2}
  MaxQueue = 2
  None = None
  Ops = {"early", "evict", "specific"}
SPECIFICATION Spec
INVARIANTS DeviceLocked ServedOnce NoneForgotten
PROPERTY PromiseKept
SYMMETRY Symmetry
CHECK_DEADLOCK FALSE
