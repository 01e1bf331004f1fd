SPECIFICATION FairSpec
CONSTANTS
  MaxCalls = 2
  Tool = {"exits", "forever", "stubborn"}
INVARIANTS AlarmAimsAtOwnGroup CleanResult TimeoutKills PidFileReset
PROPERTY CallReturns
CHECK_DEADLOCK FALSE
