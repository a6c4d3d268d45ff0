SPECIFICATION Spec
CONSTANTS
  Thread = {t1, t2, t3}
  Sharing = {t1}
  Ctx = {c1, c2, c3}
  NULL = NULL
INVARIANTS TypeOK OnlySwapRaces
CHECK_DEADLOCK FALSE
