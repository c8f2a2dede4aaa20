SPECIFICATION Spec
CONSTANTS
  m1 = m1
  g1 = g1
  g2 = g2
  AnyModel = AnyModel
  None = None
  Account = {1, 2}
  Key = {1, 2}
  Group = {g1, g2}
  Model = {m1}
  AccountGroup <- PooledGroup
  Declares <- PooledDeclares
  Providers <- PooledProviders
  Unlimited = {}
  Limited = {1}
  Balances = {0, 1}
INVARIANTS
  LoadIndexExact
  AssignmentDecided
PROPERTIES
  HealthyBindingsStay
  BatchSpreadEvenly
  RemovalCascades
