CONSTANTS
  Loads = {"sends", "remote", "receives"}
  Procs = {p1, p2}
  Senders = {p1, p2}
  Once = {p2}
  Receivers = {p2}
  Ready = {p2}
  Mortal = {p2}
  Apart = {}
  N = 3
  Sges = {0, 1}
  MaxWqes = 2
  MaxRqes = 6
  Entries = {4}
  Size = 2
  Vas = {1, 5}
  MaxRegs = 2
  MaxDeaths = 1
  Allow = {}
SPECIFICATION Spec
INVARIANTS
  TableInv
  InOrder
  PointersAgree
  RecvIntact
  RemoteRight
PROPERTIES
  RoomComes
CHECK_DEADLOCK FALSE
