CONSTANTS
  N = 2
  W = 4
  MaxDesc = 1
  MinFree = 1
  MaxProc = 1
  StackQuiet = TRUE
  FlushStuck = TRUE
SPECIFICATION Spec
INVARIANTS
  SkbInUse
