SPECIFICATION Spec
CONSTANTS
  p1 = p1
  p2 = p2
  p3 = p3
  m1 = m1
  Account = {1, 2}
  Key = {1}
  TheGroup = g
  Model = {m1}
  AnyModel = AnyModel
  None = None
  Declares <- TwoAccounts
  Provider = {p1, p3}
  Owner <- ThreeAPIs
  Limited = {2}
  AccountLimit = 1
  MaxRetries = 2
  MaxAccountAttempts = 1
  Quota = 1
  MaxTokens = 1
  Request = {r1}
INVARIANT BilledAccountServed
CHECK_DEADLOCK FALSE
