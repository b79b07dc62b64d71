CONSTANTS
  Speeds = {100, 50, 25, 40, 10}
  MaxRcv = 3
  MaxCheck = 2
  MaxDown = 3
SPECIFICATION FairSpec
INVARIANTS
  LanesClocked
  FlagInv
PROPERTIES
  NegotiationEnds
  LinkSettles
