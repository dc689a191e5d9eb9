SPECIFICATION Spec
CONSTANTS
  Tenants = {t1, t2}
  t1 = t1
  t2 = t2
  u1 = u1
  u2 = u2
  s1 = s1
  s2 = s2
  s3 = s3
  Users = {u1, u2}
  Sockets = {s1, s2, s3}
  Identity <- MCIdentity
  Notices = {n1}
  None = None
INVARIANTS
  RegisteredWhileOpen
  OnlyTheAudience
  NobodyMissed
PROPERTIES
  LostIsForgotten
\* A connection is used once: all of them may be over.
CHECK_DEADLOCK FALSE
