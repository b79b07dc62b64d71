CONSTANTS
  N = 2
  W = 4
  MaxDirty = 0
  Budget = 1
  MaxFrag = 2
  FailUpTo = 0
  StartFails = FALSE
  OtherCpu = FALSE
SPECIFICATION FairSpec
PROPERTIES
  FramesRead
  Resumes
