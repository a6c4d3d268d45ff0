SPECIFICATION FairSpec
CONSTANTS
  SchedThread = SchedThread
  Thread = {SchedThread, q1, q2}
  NULL = NULL
  Forever = Forever
  Half = 8
  Func = {f1, f2}
  Delay = {0, 1, 2}
  MaxTime = 2
  DefaultWait = 1
  MaxWait = 2
PROPERTY PostedStarts
