CONSTANTS
  Vids = {1, 3}
  Uc = {1, 2}
  Mc = {3}
  Addn = 1
  Mtus = {1500, 9000}
  Usecs = {0, 20}
  MaxCalls = 0
  Allow = {"reopen"}
SPECIFICATION Spec
INVARIANT RunsWithChannels
