SPECIFICATION Spec
CONSTANTS
  SafetyLine = 0
  None = None
  Failed = Failed
  Local = Local
  Accounts = {a1}
  Configs <- QueriedOnly
  Requests = {r1}
  Calls = {c1, c2}
  Batches = {b1}
  Money = {0, 2}
  Costs = {1}
  TopUps = FALSE
PROPERTIES
  ResumesOnLatestNumber
