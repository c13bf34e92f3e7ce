CONSTANTS
  Node = {n1, n2, n3}
  Key = {k1, k2}
  NoKey = NoKey
  MaxOps = 7
  Ops = {"leave", "remove", "lost"}
SPECIFICATION Spec
SYMMETRY Symmetry
INVARIANTS RostersAgree NoGhost RosterSameGroup
CHECK_DEADLOCK FALSE
