CONSTANTS
  Sizes <- UIOnly
  StartSize <- Smallest
  Moves <- Far
  MaxPane = 4
SPECIFICATION Spec
INVARIANT BothSidesStay
