SPECIFICATION FairSpec
CONSTANTS
  Workers = {w1, w2}
  Docs = {d1}
  MaxRetries = 2
  MaxItems = 2
  MaxUpsets = 2
  None = None
INVARIANTS
  AttemptsBounded
PROPERTIES
  ResolvedIsFinal
  KeepsPromise
  Settles
\* Every document is ingested and every item settled: the system stops.
CHECK_DEADLOCK FALSE
