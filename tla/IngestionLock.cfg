SPECIFICATION FairLockSpec
CONSTANTS
  Tokens = {t1, t2}
  None = None
  TTL = 4
  TimeLimit = 2
INVARIANTS
  RunsUnderLock
PROPERTIES
  NoForeignRelease
  LockFreed
