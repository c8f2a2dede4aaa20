SPECIFICATION Spec
CONSTANTS
  Bucket = {b1, b2}
  Caller = {c1, c2}
  Hit = {h1, h2, h3, h4}
  Limits = {0, 1, 2}
  Window = 2
  Skew = 1
  Horizon = 4
  None = None
INVARIANTS RecentHitsAreKept
PROPERTIES GrantJustified DenialJustified
SYMMETRY Symmetric
CHECK_DEADLOCK FALSE
