SPECIFICATION Spec
CONSTANTS
  Workers = {w1}
  Users = {alice, bob}
  Approvers = {alice, bob}
  Dispositions = {"no_action", "sar_required"}
  Surfaces = {"decisions", "case_update", "cases", "sar", "case_items"}
  MaxDecisions = 2
  None = None
PROPERTIES
  ApprovalCloses
  Contract
