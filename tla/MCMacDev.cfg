CONSTANTS
  Vids = {1, 3}
  Uc = {1, 2}
  Mc = {3}
  Addn = 1
  Mtus = {1500, 9000}
  Usecs = {0, 20}
  MaxCalls = 4
  Allow = {}
SPECIFICATION Spec
INVARIANTS
  ConfigInv
  FilterInv
  Balanced
