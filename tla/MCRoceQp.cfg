CONSTANTS
  Threads = {t1, t2}
  Qps = {q1, q2}
  Cqs = {c1, c2}
  MaxQp = 4
  Ones = {3}
  None = None
  Wild = Wild
  PollRaces = TRUE
  Shared = TRUE
  Exhaust = FALSE
  HwFail = TRUE
SPECIFICATION FairSpec
INVARIANTS
  QpInv
  UsesLive
PROPERTIES
  CallsEnd
CHECK_DEADLOCK FALSE
