SPECIFICATION FairSpec
CONSTANTS
  DesignState <- ThreeStates
  Designs <- AllDesigns
  KeepOld = TRUE
  MaxOps = 1
  MaxFaults = 1
INVARIANTS TypeOK InvariantsTrue DoneIsCorrect FailedIsWrong NoAbort
PROPERTY LoopEnds
