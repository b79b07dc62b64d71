CONSTANTS
  N = 3
  W = 6
  MaxDirty = 1
  Budget = 2
  MaxFrag = 2
  FailUpTo = 2
  StartFails = FALSE
  OtherCpu = FALSE
SPECIFICATION Spec
INVARIANTS
  DataAvailable
  BuffersPresent
  FrameInv
  Notified
