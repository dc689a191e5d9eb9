SPECIFICATION Spec
CONSTANTS
  Workers = {w1}
  MaxDay = 1
  PerDay = 1
  MaxFaults = 1
  Never = Never
INVARIANTS
  NoWindowSkipped
