SPECIFICATION Spec
CONSTANTS
  Procs = {p1, p2}
  NoConn = NoConn
  PoolSize = 2
  MaxOverflow = 1
  MaxDepth = 2
  MayFail = TRUE
INVARIANTS
  OrphanIsExplained
PROPERTY
  MutexSpec
