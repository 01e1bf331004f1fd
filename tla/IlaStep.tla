------------------------------ MODULE IlaStep ------------------------------
(***************************************************************************)
(* What one step of an instruction-level abstraction is.                   *)
(*                                                                         *)
(* The state of an ILA is the value of its state variables.  An            *)
(* instruction whose host is valid and whose decode holds may execute; it  *)
(* updates all its states at once, from their values before the step.      *)
(* This is the meaning the unrollers give to an instruction and the one    *)
(* the Verilog generator and the two SystemC generators have to keep:      *)
(* GenStep, the generated designs, is shown to implement this module.      *)
(***************************************************************************)
EXTENDS IlaExpr

VARIABLES
    ila, \* the ILA at hand, which never changes
    st,  \* the values of its state variables
    inp  \* the value of its input

vars == <<ila, st, inp>>

Init ==
    /\ st \in StateSpace
    /\ inp \in Bit
    /\ InitHolds(ila, st)

(* The update of an instruction: every state at once (instr.h, update).    *)
Execute(ins) ==
    /\ Enabled(ila, ins, st, inp)
    /\ st' = Assign(ila, ins.upd, st, inp)
    /\ UNCHANGED <<ila, inp>>

(* A child program starts from the initial condition of the child.         *)
StartChild ==
    /\ Holds(ila, ila.child.valid, st, inp)
    /\ st' = Assign(ila, ila.child.inits, st, inp)
    /\ UNCHANGED <<ila, inp>>

NewInput ==
    /\ inp' \in Bit
    /\ UNCHANGED <<ila, st>>

Next ==
    \/ \E i \in DOMAIN ila.instrs : Execute(ila.instrs[i])
    \/ StartChild
    \/ NewInput

Spec == Init /\ [][Next]_vars
============================================================================
