SPECIFICATION Spec
CONSTANTS
    Scripts <- MCScripts
    Edits <- MCEdits
    MaxOps = 3
INVARIANTS MeaningKept StandsAlone SanityHolds CfgCovers ImportExact BmcAlarmReal
CHECK_DEADLOCK FALSE
