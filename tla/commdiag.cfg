SPECIFICATION Spec
CONSTANTS
  Scen = {1, 2}
  MaxFrame = 2
  ScenChoice <- AllScenarios
  Min = 0
  Max = 2
  Step = 1
  StepSpec <- NotGiven
  Funcs = {"EqCheck", "IncEqCheck", "IncCheck"}
INVARIANTS NoFalseAlarm FirstBoundCovered BenignKept EqCheckSound
