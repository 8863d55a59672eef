CONSTANTS
  Sizes <- MCSizes
  StartSize <- Wide
  Moves <- MCMoves
  MaxPane = 3
SPECIFICATION Spec
INVARIANTS
  Tiles
  EveryPaneHasACell
  
  ResizeIsStable
  NavReaches
