SPECIFICATION Spec
CONSTANTS
  Names = {"x", "y", "extractor", "remaining", "response", "map"}
  Numerals = {"1", "2", "3", "5", "6"}
  Texts = {"a"}
  MaxNodes = 200
  MaxSteps = 60
  TreeSize = 3
  ProgramSize = 3
INVARIANTS ReadsWhatIsWritten ScopesAreLexical
CHECK_DEADLOCK FALSE
