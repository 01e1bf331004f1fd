SPECIFICATION Spec
CONSTANTS
  Var = {"x", "y"}
  Val <- MCVal
  Input <- MCInput
  Ila = {"top", "child"}
  Instr = {"a", "c", "n"}
  Pred = {"p"}
  Dead = "dead"
  Host <- MCHost
  Stt <- MCStt
  HasDecode = {"a", "c"}
  Decode <- MCDecode
  Updated <- MCUpdated
  Update <- MCUpdate
  Holds <- MCHolds
  MaxFrame = 2
  Kinds = {"Path"}
  Modes = {"Subs", "Assn", "Smt"}
  ValChoice <- FrameState
  InpChoice <- SomeInput
  NxtChoice <- OneState
  SelChoice <- OneSel
  VnxtChoice <- OneState
INVARIANTS TypeOK ConnectedExact SubsExact
