SPECIFICATION Spec
CONSTANTS
  Programs <- MCPrograms
INVARIANTS
  SatIsExecution
  ExecutionIsSat
CHECK_DEADLOCK FALSE
