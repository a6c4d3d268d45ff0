SPECIFICATION EmbeddedSpec
CONSTANTS
  c1 = c1
  c2 = c2
  c3 = c3
  c4 = c4
  t1 = t1
  t2 = t2
  Coro = {c1, c2, c3, c4}
  Sched = Sched
  Main = Main
  NULL = NULL
  InitPool <- NoPool
  Test = {t1, t2}
  Func <- TestCalls
  MaxTime = 8
  Delay = {1, 2}
  CreateChoice = {TRUE}
  BlockingDirect = FALSE
  Burst = 1
  StartUntil = 3
  TickUntil = 2
  WordSize = 2
  PageSize = 4
  GuardPages = 1
  DefaultSize = 8
  MaxStackSize = 3
  FirstPage = 3
  LastPage = 14
INVARIANTS EmbeddedTypeOK StaleBelowMain OwnStacks EndsClean
PROPERTY Terminates
CHECK_DEADLOCK FALSE
