SPECIFICATION Spec
CONSTANTS
  Name = {n1, n2}
  Source = {s1}
  Request = {r1, r2}
  MaxUsers = 2
  MaxTokens = 2
  FailureLimit = 2
  MaxEntries = 1
  MaxSessions = 1
SYMMETRY Symmetry
INVARIANTS
  AlwaysAdministrable
  OutdatedSessionsEnd
  WrongPasswordsBounded
  SessionsCapped
PROPERTIES
  SessionsEndForAReason
