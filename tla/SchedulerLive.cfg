SPECIFICATION FairSpec
CONSTANTS
  p1 = p1
  c1 = c1
  c2 = c2
  f1 = f1
  f2 = f2
  f3 = f3
  Coro = {p1, c1, c2}
  Sched = Sched
  Main = Main
  NULL = NULL
  InitPool <- OnePooled
  Func = {f1, f2, f3}
  MaxTime = 1
  Delay = {1}
  CreateChoice = {TRUE}
  BlockingDirect = FALSE
PROPERTIES PostedStarts SleeperRuns JoinerRuns RetiredFreed
