SPECIFICATION MCSpec
CONSTANTS
  t1 = t1
  t2 = t2
  d1 = d1
  d2 = d2
  Controls = {t1, t2}
  Datas = {d1, d2}
  TestOf <- MCTestOf
  MaxSessions = 2
  MaxParallel = 2
  None = None
INVARIANTS SlotHeldByLiveSession TestFindableByCookie ResultsFinal
PROPERTY ResourcesReleased
CHECK_DEADLOCK FALSE
