SPECIFICATION Spec
CONSTANTS
  Caller = {main, worker}
  MaxCalls = 2
  MaxNum = 2
  Options <- NoneOrTwo
  NULL = NULL
  NoSlot = NoSlot
SYMMETRY Symmetric
INVARIANTS TwoManagersRaced StaysHome UndefinedHasCause
CHECK_DEADLOCK FALSE
