SPECIFICATION FairSpec
CONSTANTS
  c1 = c1
  c2 = c2
  c3 = c3
  d1 = d1
  d2 = d2
  Client = {c1, c2, c3}
  Dev = {d1, d2}
  Port = {5000, 5001}
  NalCap = 1
  InputCap = 2
  MaxInput = 4
  Mix <- MCMix
  Ops = {}
  None = None
INVARIANTS LeavesNothing 
PROPERTIES HandlersEnd NewestInputRuns
CHECK_DEADLOCK FALSE
