SPECIFICATION FairSpec
CONSTANTS
  Workers = {p1, p2, p3}
  Nobody = Nobody
  TTL = 3
  MaxRun = 2
INVARIANTS
  LeaseHeldWhileRunning
PROPERTIES
  RowMutexSpec
  LockComesBack
