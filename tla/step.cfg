SPECIFICATION Spec
CONSTANTS
    Models <- MCModels
    CounterBound = 3
PROPERTIES RefinesIla ComputeReturns
CHECK_DEADLOCK FALSE
