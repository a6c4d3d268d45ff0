SPECIFICATION Spec
CONSTANTS
  p1 = p1
  c1 = c1
  f1 = f1
  Coro = {p1, c1}
  Sched = Sched
  Main = Main
  NULL = NULL
  InitPool <- OnePooled
  Func = {f1}
  MaxTime = 1
  Delay = {0, 1}
  CreateChoice = {TRUE}
  BlockingDirect = FALSE
INVARIANT CreateIsHonoured
