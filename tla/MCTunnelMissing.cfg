CONSTANTS
  ChanCap = 1
  MaxDrops = 0
  MaxJitter = 0
  MaxCrash = 0
SPECIFICATION Spec
INVARIANT MissingIsInstalled
