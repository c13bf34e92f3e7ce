CONSTANTS
  Dev = {d1, d2, d3}
  Call = {c1, c2}
  Pair = {5554, 5556}
  NoPair = 0
  NoDev = NoDev
  Ops = {"lost"}
SPECIFICATION Spec
SYMMETRY Symmetry
INVARIANTS OneEmulatorPerPair ShutdownIsFinal
CHECK_DEADLOCK FALSE
