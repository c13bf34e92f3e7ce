CONSTANTS
  Sess = {s1, s2, s3}
  Port = {4723, 4724, 4725}
  Taken = {4723}
  NoPort = 0
  None = None
  Ops = {}
SPECIFICATION HubSpec
SYMMETRY Symmetry
INVARIANT UsedPortsExact
INVARIANTS IssuedByOwnServer FailedIsOver StaysReachable ServerLeavesFirst
PROPERTY OwnServer
CHECK_DEADLOCK FALSE
