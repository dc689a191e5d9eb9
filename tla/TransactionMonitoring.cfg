SPECIFICATION Spec
CONSTANTS
  Profiles = {k1}
  NoProfile = NoProfile
  Tx = {t1, t2}
  Kinds <- MCKinds
  Budgets <- MCBudgets
  ScanLimit = 1
  Others = {0, 1}
  VelocityMax = 1
  MaxRetries = 1
INVARIANTS
  TypeOK
  FindingsMade
  DoneMeansMonitored
  AlertsAccounted
PROPERTIES
  OverdueIsRaised
  ProcessingEnds
\* Every transaction may be through, and nobody has to come.
CHECK_DEADLOCK FALSE
