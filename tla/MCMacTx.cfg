CONSTANTS
  N = 3
  W = 6
  MaxDesc = 2
  MinFree = 2
  MaxProc = 2
  StackQuiet = TRUE
  FlushStuck = FALSE
SPECIFICATION Spec
INVARIANTS
  NoOverrun
  InFlightIntact
  OwnWritten
  ReapBehindDevice
  NoBusy
  BqlExact
  StopFlagAgrees
  NothingForgotten
