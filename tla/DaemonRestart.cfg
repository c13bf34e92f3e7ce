SPECIFICATION FairSpec
CONSTANTS
  Proc = {p1, p2}
  AVD = {a1}
  Sess = {s1, s2}
  Ops = {}
  None = None
INVARIANTS PidFileNamesIt RowsTrue ReservationsKept
PROPERTY SignalledGoes
CHECK_DEADLOCK FALSE
