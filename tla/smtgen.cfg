CONSTANTS
  Vars = {"x"}
  Steps = {"0", "1"}
  MaxNodes = 4
  MaxReqs = 2
SPECIFICATION Spec
INVARIANTS SharingKeepsMeaning TopEqExact Z3Exact SwitchOneSuffix
CHECK_DEADLOCK FALSE
