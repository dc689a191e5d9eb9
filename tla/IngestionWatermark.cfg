SPECIFICATION FairSpec
CONSTANTS
  Workers = {w1, w2}
  MaxDay = 2
  PerDay = 1
  MaxFaults = 1
  Never = Never
INVARIANTS
  SkipsAreExplained
PROPERTIES
  AllAccounted
