SPECIFICATION PoolSpec
CONSTANTS
  Turn = {t1, t2}
  SoftJob = {j1}
  Key = {k1, k2}
  MaxSessions = 1
  MaxCreated = 2
  MaxMore = 1
SYMMETRY Alike
INVARIANTS
  PoolConsistent
  OwnText
  ReplyComes
CHECK_DEADLOCK FALSE
