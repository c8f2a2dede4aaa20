SPECIFICATION Spec
CONSTANTS
  Limits = {0, 1}
  Sizes = {2, 9}
  MaxLines = 5
  MaxSwitches = 1
INVARIANTS AnswersAreWhole BookedAsDelivered
CHECK_DEADLOCK FALSE
