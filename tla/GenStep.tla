------------------------------ MODULE GenStep ------------------------------
(***************************************************************************)
(* The designs generated from an ILA, running: the Verilog module of       *)
(* HdlGen at its clock, and the SystemC modules of ScGen in their          *)
(* compute() method, which the SystemC scheduler calls when an input       *)
(* changes.  All of them are shown to implement IlaStep.                   *)
(***************************************************************************)
EXTENDS HdlGen, ScGen

CONSTANTS
    Models,      \* the ILAs considered
    CounterBound \* the clock stops when the counter has come this far

VARIABLES
    ila, st, inp, \* as in IlaStep
    tgt,          \* the generator, and the configuration of the Verilog one
    pc,           \* where compute() is
    ctr,          \* the internal counter of the Verilog module
    members,      \* the members c_<id> of the IlaSim simulator
    prog          \* the functions IlaSim wrote

vars == <<ila, st, inp, tgt, pc, ctr, members, prog>>

At(p, i, fired) == [at |-> p, i |-> i, fired |-> fired]

Zero == [r |-> 0, q |-> 0, m |-> [a \in Words |-> 0]]

Tops == {i \in DOMAIN ila.instrs : ila.instrs[i].top}
Childs == DOMAIN ila.instrs \ Tops

----------------------------------------------------------------------------
(* What can be generated from an ILA.  ILAtor sets the initial values of   *)
(* the whole tree up in the first call of compute(), IlaSim and the        *)
(* Verilog generator leave those of the top ILA out.                       *)
Targets(m) ==
    {[gen |-> "hdl", cfg |-> c] : c \in {d \in HdlConfigs(m) : HdlSupported(m)}}
    \cup {[gen |-> "ilator", cfg |-> <<>>] : z \in {d \in {0} : IlatorSupported(m)}}
    \cup {[gen |-> "sim", cfg |-> <<>>] : z \in {d \in {0} : SimSupported(m) /\ InitHolds(m, Zero)}}

setup_initial_condition(m) == Assign(m, m.child.inits @@ m.init, Zero, 0)

Init ==
    /\ ila \in Models
    /\ tgt \in Targets(ila)
    /\ inp \in Bit
    /\ CASE tgt.gen = "hdl"    -> st \in StateSpace
         [] tgt.gen = "ilator" -> st = setup_initial_condition(ila)
         [] tgt.gen = "sim"    -> st = Zero
    /\ pc = At("new", 0, FALSE)
    /\ ctr = 0
    /\ members = [i \in DOMAIN ila.nodes |-> 0]
    /\ prog = IF tgt.gen = "sim" THEN sim_gen_state_update(ila) ELSE <<>>

----------------------------------------------------------------------------
(* Verilog.  Between two edges the input may change; in reset only the     *)
(* counter is assigned (without random initial values).                    *)
NewInput ==
    /\ tgt.gen = "hdl"
    /\ inp' \in Bit
    /\ UNCHANGED <<ila, st, tgt, pc, ctr, members, prog>>

(* The grant: all instructions, or one that decodes (verilog_gen.h, on     *)
(* grantAccName).                                                          *)
Grants ==
    {DOMAIN ila.instrs}
    \cup {{i} : i \in {j \in DOMAIN ila.instrs : Holds(ila, ila.instrs[j].decode, st, inp)}}

Posedge ==
    /\ tgt.gen = "hdl"
    /\ \E start \in BOOLEAN, grant \in Grants :
         LET v == Val(ila.nodes, st, inp)
         IN /\ st' = DumpToFile(ila, tgt.cfg, st, inp, start, grant)
            /\ ctr' = IF tgt.cfg.ins # 0 /\ Go(ila, tgt.cfg, v, start)
                      THEN addInternalCounter(v[ila.instrs[tgt.cfg.ins].decode] = 1, ctr)
                      ELSE ctr
    /\ ctr < CounterBound
    /\ UNCHANGED <<ila, inp, tgt, pc, members, prog>>

ResetEdge ==
    /\ tgt.gen = "hdl"
    /\ ctr' = 0
    /\ UNCHANGED <<ila, st, inp, tgt, pc, members, prog>>

----------------------------------------------------------------------------
(* SystemC.  compute() is called once at the start and then when the input *)
(* changes; it reads the input first.                                      *)
Compute ==
    /\ tgt.gen # "hdl"
    /\ pc.at \in {"new", "idle"}
    /\ inp' \in Bit
    /\ pc.at = "idle" => inp' # inp
    /\ pc' = At("top", 1, FALSE)
    /\ UNCHANGED <<ila, st, tgt, ctr, members, prog>>

(* One instruction of the ladder: it runs if it is valid and decodes in    *)
(* the state the instructions before it have left.                         *)
Counts(i) == tgt.gen = "sim" => \E u \in Updates(ila) : u[1] = i /\ ~ToItself(ila, u)

Fires(i) == Enabled(ila, ila.instrs[i], st, inp) /\ Counts(i)

IlatorInstr(i) ==
    /\ st' = IF Fires(i) THEN GenerateInstrContent(ila, ila.instrs[i], st, inp) ELSE st
    /\ UNCHANGED members

SimInstr(i) ==
    LET c == create_decode(ila, ila.instrs[i], members, st, inp)
        sim == execute_instruction(ila, prog, i, c, st, inp)
    IN IF Fires(i) THEN st' = sim.st /\ members' = sim.c
       ELSE members' = c /\ UNCHANGED st

RunInstr(i) == IF tgt.gen = "ilator" THEN IlatorInstr(i) ELSE SimInstr(i)

(* The instructions of the ILA itself, in the order they were created.     *)
TopInstr ==
    /\ pc.at = "top" /\ pc.i <= Len(ila.instrs)
    /\ IF pc.i \in Tops THEN RunInstr(pc.i) ELSE UNCHANGED <<st, members>>
    /\ pc' = At("top", pc.i + 1, FALSE)
    /\ UNCHANGED <<ila, inp, tgt, ctr, prog>>

TopsDone ==
    /\ pc.at = "top" /\ pc.i > Len(ila.instrs)
    /\ pc' = At(IF tgt.gen = "sim" THEN "init" ELSE "child", 1, FALSE)
    /\ UNCHANGED <<ila, st, inp, tgt, ctr, members, prog>>

(* IlaSim assigns the initial values of a valid child in every call.       *)
ExecuteInit ==
    /\ pc.at = "init"
    /\ st' = create_init(ila, st, inp)
    /\ pc' = At("child", 1, FALSE)
    /\ UNCHANGED <<ila, inp, tgt, ctr, members, prog>>

(* The instructions of the child run round after round, until a round      *)
(* (schedule_counter) has run none.                                        *)
ChildInstr ==
    /\ pc.at = "child" /\ pc.i <= Len(ila.instrs)
    /\ IF pc.i \in Childs
       THEN RunInstr(pc.i) /\ pc' = At("child", pc.i + 1, pc.fired \/ Fires(pc.i))
       ELSE pc' = At("child", pc.i + 1, pc.fired) /\ UNCHANGED <<st, members>>
    /\ UNCHANGED <<ila, inp, tgt, ctr, prog>>

(* Mutant: the counter is declared outside the loop.                       *)
RoundKeepsCounter ==
    /\ pc.at = "child" /\ pc.i > Len(ila.instrs)
    /\ pc' = IF pc.fired THEN At("child", 1, TRUE) ELSE At("idle", 0, FALSE)
    /\ UNCHANGED <<ila, st, inp, tgt, ctr, members, prog>>

Round ==
    /\ pc.at = "child" /\ pc.i > Len(ila.instrs)
    /\ pc' = IF pc.fired THEN At("child", 1, FALSE) ELSE At("idle", 0, FALSE)
    /\ UNCHANGED <<ila, st, inp, tgt, ctr, members, prog>>

ComputeStep == TopInstr \/ TopsDone \/ ExecuteInit \/ ChildInstr \/ Round

Next == NewInput \/ Posedge \/ ResetEdge \/ Compute \/ ComputeStep

(* compute() is a function: once called, it runs to its end.               *)
Spec == Init /\ [][Next]_vars /\ WF_vars(ComputeStep)

----------------------------------------------------------------------------
(* What a generated design does is a step of the ILA: some instruction     *)
(* that is valid and decodes updates all its states from their old values, *)
(* or a child program starts, or nothing happens to the state.  For the    *)
(* Verilog modules (ExportIla, ExportTopLevelInstr), for ILAtor and for    *)
(* IlaSim, and the ILAs and configurations of Targets.                     *)
Abs == INSTANCE IlaStep WITH ila <- ila, st <- st, inp <- inp
RefinesIla == Abs!Spec

(* compute() comes to an end when the child program does: the loop over    *)
(* the instructions of the child stops after a round without one.          *)
ComputeReturns == (pc.at = "top") ~> (pc.at = "idle")
============================================================================
