SPECIFICATION Spec
CONSTANTS
  Call = {c1, c2}
  Configs <- Accounts
  FailureThreshold = 1
  MaxFactor = 1
  CursorSize = 6
SYMMETRY Symmetry
INVARIANTS
  CoolingIsLeftAlone
PROPERTIES
  ListsAreRight
  TakesTurns
