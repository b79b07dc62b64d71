CONSTANTS
  Q = 4
  MaxSge = 2
  Depth = 3
  Reinit = FALSE
  RefuseImm = FALSE
SPECIFICATION Spec
INVARIANTS
  QueueInv
PROPERTIES
  IsFifo
