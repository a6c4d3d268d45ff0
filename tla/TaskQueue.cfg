SPECIFICATION Spec
CONSTANTS
  SchedThread = SchedThread
  Thread = {SchedThread, q1, q2}
  NULL = NULL
  Forever = Forever
  Half = 8
  Func = {f1, f2, f3}
  Delay = {0, 1, 2}
  MaxTime = 3
  DefaultWait = 1
  MaxWait = 2
SYMMETRY Symmetric
INVARIANTS TypeOK NoLostWakeup OnePlace LostOnlyLate
PROPERTY ImplementsCalls
