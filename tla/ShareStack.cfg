SPECIFICATION Spec
CONSTANTS
  Coro = {p1, c1, c2, c3}
  PoolCoro = {p1}
  Sched = Sched
  Main = Main
  NULL = NULL
  ShareCounts = {0, 2}
  Version = 1
SYMMETRY Symmetric
INVARIANTS TypeOK FramesIntact FramesKept OwnersLive StacksSpread
CHECK_DEADLOCK FALSE
