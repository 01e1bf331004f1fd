----------------------------- MODULE MCUnroller -----------------------------
(* A two-level hierarchy for the unrollers: the top ILA declares x, its    *)
(* child declares y; the child's instruction "c" also updates x, the way   *)
(* the child programs of test/unit-src/eq_ilas.cc write their parent's     *)
(* registers; "n" has no decode function.                                  *)
EXTENDS Unroller

MCVal == {0, 1}
MCInput == {0, 1}
MCState == [Var -> MCVal]
MCPair == MCState \X MCInput
MCHost == [c \in Instr |-> IF c = "c" THEN "child" ELSE "top"]
MCStt == [m \in {"top", "child"} |-> Var \cap (IF m = "top" THEN {"x"} ELSE {"y"})]
MCDecode ==
  [c \in Instr |->
     CASE c = "a" -> {q \in MCPair : q[2] = 1}
       [] c = "c" -> {q \in MCPair : q[1].x = 1}
       [] OTHER   -> {}]
MCUpdated ==
  [c \in Instr |->
     CASE c = "a" -> {"x"} [] c = "c" -> Var [] OTHER -> {}]
MCUpdate ==
  [c \in Instr |->
     [q \in MCPair |->
        CASE c = "a" -> [q[1] EXCEPT !.x = 1 - q[1].x]
          [] c = "c" -> [v \in Var |-> IF v = "y" THEN 1 - q[1].y
                                      ELSE IF "y" \in Var THEN q[1].y ELSE 0]
          [] OTHER   -> q[1]]]
MCHolds == [p \in Pred |-> {q \in MCPair : q[1].y = 0 \/ q[2] = 1}]

FrameState == [Frame -> State]
FrameInput == [Frame -> Input]
\* inputs that trigger "a" in every frame but the first, or but the last
SomeInput == {f \in FrameInput : \E k \in {0, MaxFrame} :
                                   \A j \in Frame : f[j] = 0 <=> j = k}
\* ".nxt" copies: the same in every frame
SameState == {[k \in Frame |-> s] : s \in State}
OneState == {[k \in Frame |-> [v \in Var |-> 0]]}
\* MonoUnroll's free variables exist in frames that have a step, not in the last
StepSel == {[k \in Frame |-> IF k < MaxFrame THEN f[k] ELSE {}] :
              f \in [0 .. MaxFrame - 1 -> SUBSET Choice]}
StepState == {[k \in Frame |-> IF k < MaxFrame THEN f[k] ELSE [v \in Var |-> 0]] :
                f \in [0 .. MaxFrame - 1 -> State]}
OneSel == {[k \in Frame |-> {}]}
=============================================================================
