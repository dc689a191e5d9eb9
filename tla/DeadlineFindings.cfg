SPECIFICATION Spec
CONSTANTS
  Obligations = {o1}
  Reviews = {r1}
  Policies = {p1}
  None = None
  Dates <- MCDates
  MaxDay = 2
  Lead <- MCLead
  Delay = 1
  Soon = 1
  Clerks = {c1, c2}
  Never = Never
  NoEvent = NoEvent
  Cases = {k0, k1, k2}
  Opened = {k0}
  Budgets <- MCBudgets
INVARIANTS
  SeedCovers
  CompletedIsKept
  OneCasePerFinding
PROPERTIES
  NothingOverlooked
  RemindedOncePerDay
  CheckKeepsEscalation
  BreachIsRaised
\* Everything may be decided and linked.
CHECK_DEADLOCK FALSE
