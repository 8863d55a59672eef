CONSTANTS
  ChanCap = 2
  MaxDrops = 2
  MaxJitter = 2
  MaxCrash = 1
SPECIFICATION Spec
INVARIANTS
  SettledOnlyAtTheEnd
  InstallerBreaks
PROPERTIES
  TwoStrikes
  SettlesOnStableNet
