SPECIFICATION MCSpec
CONSTANTS
  t1 = t1
  t2 = t2
  d1 = d1
  d2 = d2
  Controls = {t1, t2}
  Datas = {d1, d2}
  TestOf <- MCTestOf
  MaxSessions = 1
  MaxParallel = 1
  None = None
INVARIANT SessionLimit
CHECK_DEADLOCK FALSE
