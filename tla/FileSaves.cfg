CONSTANTS
  Proc = {p1, p2, p3}
  Value = {v1, v2}
  Empty = Empty
  Blank = Blank
  Torn = Torn
  NoFile = NoFile
  MaxCrash = 2
SPECIFICATION FileSpec
SYMMETRY Symmetry
INVARIANTS DamageReported UpToDateWhenAlone
CHECK_DEADLOCK FALSE
