SPECIFICATION Spec
CONSTANTS
  Caller = {main}
  MaxCalls = 4
  MaxNum = 3
  Options <- NoneTwoOrThree
  NULL = NULL
  NoSlot = NoSlot
INVARIANT ManagerTypeOK
PROPERTY ChoosesIdle
CHECK_DEADLOCK FALSE
