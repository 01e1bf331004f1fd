CONSTANTS
  MaxWidth = 3
  Depth = 2
SPECIFICATION Spec
INVARIANTS BackendsAgree DerivedMeaning ImportKeepsMeaning
CHECK_DEADLOCK FALSE
