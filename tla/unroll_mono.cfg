SPECIFICATION Spec
CONSTANTS
  Var = {"x"}
  Val <- MCVal
  Input <- MCInput
  Ila = {"top", "child"}
  Instr = {"a", "c"}
  Pred = {}
  Dead = "dead"
  Host <- MCHost
  Stt <- MCStt
  HasDecode = {"a", "c"}
  Decode <- MCDecode
  Updated <- MCUpdated
  Update <- MCUpdate
  Holds <- MCHolds
  MaxFrame = 2
  Kinds = {"Mono"}
  Modes = {"Subs", "Assn", "None"}
  ValChoice <- FrameState
  InpChoice <- FrameInput
  NxtChoice <- SameState
  SelChoice <- StepSel
  VnxtChoice <- StepState
INVARIANTS EncodingExact UnconnectedExact
