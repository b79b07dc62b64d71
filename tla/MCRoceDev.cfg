CONSTANTS
  Users = {u1, u2}
  Clients = {k1}
  Nics = {n1, n2}
  Main = n1
  Addrs = {0, 1, 2}
  MaxPd = 4
  MaxMr = 2
  MaxCq = 5
  MaxAv = 2
  MinIndex = 1
  Page = 2
  Huge = 4
  Starts = {0}
  Lens = {1, 4, 6}
  MaxSg = 4
  MaxCalls = 6
  MaxHeld = 1
  MaxLoads = 2
  Allow = {}
SPECIFICATION Spec
SYMMETRY Symmetry
INVARIANTS
  PoolInv
  NameInv
  SegmentsWhole
  RdmaReady
  Survives
CHECK_DEADLOCK FALSE
