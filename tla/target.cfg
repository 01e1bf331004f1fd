SPECIFICATION Spec
CONSTANTS
  Addr = {0, 1}
  Data = {0, 1}
  Configs <- MCConfigs
  Env <- MCEnv
INVARIANTS CheckExact RealPathKept BmcReaches
CHECK_DEADLOCK FALSE
