SPECIFICATION Spec
CONSTANTS
  Workers = {w1, w2}
  Users = {u1, u2}
  Superusers = {u1}
  Policies = {p0, p1, p2}
  Master = p0
  Handmade = {p1}
  Jobs = {j1}
  Obligations = {o1}
  None = None
  Scenarios <- MCScenarios
SYMMETRY WorkerSymmetry
INVARIANTS
  GeneratedOnce
  ApprovedByAnother
  ApprovedIsSupported
  AuditIsTrue
PROPERTIES
  PolicyFourEyes
\* Every obligation may be deprecated and every request over.
CHECK_DEADLOCK FALSE
