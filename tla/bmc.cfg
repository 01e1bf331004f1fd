SPECIFICATION Spec
CONSTANTS
    Scripts <- MCScripts
    Edits <- MCEdits
    MaxOps = 3
INVARIANTS BmcSound
CHECK_DEADLOCK FALSE
