SPECIFICATION Spec
CONSTANTS
  Workers = {w1, w2}
  Users = {alice, bob}
  Approvers = {alice, bob}
  Dispositions = {"no_action", "sar_required"}
  Surfaces = {"decisions", "approval_items"}
  MaxDecisions = 1
  None = None
SYMMETRY Symmetry
INVARIANTS
  RecordsFourEyes
  TrailExplainsStatus
\* Every decision may be final and no other router serves the case: the system stops.
CHECK_DEADLOCK FALSE
