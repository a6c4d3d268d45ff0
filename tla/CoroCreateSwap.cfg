SPECIFICATION Spec
CONSTANTS
  Thread = {t1, t2}
  Sharing = {t1}
  Ctx = {c1, c2}
  NULL = NULL
INVARIANT StartsAsCreated
CHECK_DEADLOCK FALSE
