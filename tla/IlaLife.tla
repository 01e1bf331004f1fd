------------------------------ MODULE IlaLife ------------------------------
(***************************************************************************)
(* The life of a tree of ILAs: it is built by calls of the host interface  *)
(* (ilang++), or imported from the synthesis engine, and then copied,      *)
(* flattened, written and read back, and run through passes, in any order. *)
(***************************************************************************)
EXTENDS IlaPass

CONSTANTS
    Scripts, \* the sequences of calls that build a tree
    Edits,   \* the terms a user may give as an update later
    MaxOps   \* the number of operations on a tree that has been built

VARIABLES
    script, \* the calls still to be made
    tree,   \* the tree at hand
    orig,   \* the tree as it was built
    abs,    \* the abstraction it was imported from
    form,   \* what tree is to orig: build, tree, flat, part, edited
    sane,   \* the result of SanityCheckAndFix: none, fixed, ok
    failed, \* reading a file went wrong
    bmc,    \* the result of LegacyBmc::Check
    ops

vars == <<script, tree, orig, abs, form, sane, failed, bmc, ops>>

NoAbs == [names |-> <<>>, decodes |-> <<>>, nexts |-> <<>>, inits |-> <<>>]
NoBmc == [res |-> "none", k |-> 0, init |-> Null]

Init ==
    /\ script \in Scripts
    /\ tree = New(1, "ila")
    /\ orig = tree
    /\ abs = NoAbs
    /\ form = "build"
    /\ sane = "none"
    /\ failed = FALSE
    /\ bmc = NoBmc
    /\ ops = 0

----------------------------------------------------------------------------
(* Building: one call of the host interface after the other.               *)
Calls(op) == form = "build" /\ script # <<>> /\ Head(script).op = op
Call == Head(script)

Built(t) ==
    /\ tree' = t
    /\ script' = Tail(script)
    /\ UNCHANGED <<orig, abs, form, sane, failed, bmc, ops>>

HostNewState == Calls("NewState") /\ Built(NewState(tree, Call.n, Call.name))
HostNewInput == Calls("NewInput") /\ Built(NewInput(tree, Call.n, Call.name))
HostNewStateObject ==
    Calls("NewStateObject") /\ Built(NewStateObject(tree, Call.n, <<Call.name>>))
HostNewInputObject ==
    Calls("NewInputObject") /\ Built(NewInputObject(tree, Call.n, <<Call.name>>))
HostNewChild == Calls("NewChild") /\ Built(NewChild(tree, Call.n, Call.name))
HostNewInstr == Calls("NewInstr") /\ Built(NewInstr(tree, Call.n, Call.name))
HostSetDecode == Calls("SetDecode") /\ Built(set_decode(tree, Call.n, Call.name, Call.e))
HostSetUpdate ==
    Calls("SetUpdate") /\ Built(set_update(tree, Call.n, Call.name, Call.s, Call.e))
HostSetProgram == Calls("SetProgram") /\ Built(set_program(tree, Call.n, Call.name, Call.s))
HostAddInit == Calls("AddInit") /\ Built(AddInit(tree, Call.n, Call.e))
HostSetFetch == Calls("SetFetch") /\ Built(SetFetch(tree, Call.n, Call.e))
HostSetValid == Calls("SetValid") /\ Built(SetValid(tree, Call.n, Call.e))

(* ImportSynthAbstraction, once the variables are there.                   *)
Convert ==
    /\ Calls("Convert")
    /\ tree' = PortInits(PortInstructions(tree, Call.abs.names, Call.abs.decodes,
                                          Call.abs.nexts), Call.abs.inits)
    /\ abs' = Call.abs
    /\ script' = Tail(script)
    /\ UNCHANGED <<orig, form, sane, failed, bmc, ops>>

Done ==
    /\ form = "build" /\ script = <<>>
    /\ form' = "tree"
    /\ orig' = tree
    /\ UNCHANGED <<script, tree, abs, sane, failed, bmc, ops>>

----------------------------------------------------------------------------
(* Using it.                                                               *)
InUse == form # "build" /\ ops < MaxOps /\ ~failed /\ bmc = NoBmc

Becomes(t, f, s) ==
    /\ tree' = t
    /\ form' = f
    /\ sane' = s
    /\ ops' = ops + 1
    /\ UNCHANGED <<script, orig, abs, failed, bmc>>

Copy == InUse /\ Becomes(CopyIlaTree(tree, tree.id + 1, "copy"), form, sane)

Extract ==
    /\ InUse /\ form = "tree"
    /\ \E n \in IlaKeys(tree) : \E i \in InstrNames(tree, n) :
         /\ instr(tree, n, i).prog \in Range(tree.ilas[n].childs) \cup {""}
         /\ Becomes(ExtrDeptModl(tree, n, i, tree.id + 1, "part"), "part", "none")

FlattenHierarchy ==
    /\ InUse /\ form = "tree"
    /\ Becomes(FlattenIla(tree), "flat", "none")

(* ExportIlaPortable, then ImportIlaPortable of the file.                  *)
Portable ==
    /\ InUse /\ Serialisable(tree)
    /\ LET j == SerInstrLvlAbs(tree)
       IN IF Deserialisable(j, tree.id + 1)
          THEN Becomes(DesInstrLvlAbs(j, tree.id + 1), form, sane)
          ELSE /\ failed' = TRUE
               /\ UNCHANGED <<script, tree, orig, abs, form, sane, bmc, ops>>

ExecutePass ==
    /\ InUse
    /\ \E p \in {"REWRITE_CONDITIONAL_STORE", "REWRITE_LOAD_FROM_STORE", "SIMPLIFY_SYNTACTIC"} :
         Becomes(RewriteGeneric(tree, p), form, sane)

ExecuteSimplifySemantic ==
    InUse /\ Serialisable(tree) /\ Becomes(SimplifySemantic(tree), form, sane)

ExecuteSanity ==
    /\ InUse
    /\ LET r == SanityCheckAndFix(tree)
       IN Becomes(r.tree, form,
            IF r.ok THEN "ok" ELSE IF r.tree # tree THEN "fixed" ELSE "none")

InferCfg == InUse /\ Becomes(InferChildProgCFG(tree), form, sane)

MapEntries == InUse /\ Serialisable(tree) /\ Becomes(MapChildProgEntryPoint(tree), form, sane)

(* ForceAddUpdate by the user on a copy: it is another design from here.   *)
Edit ==
    /\ InUse /\ form = "tree" /\ tree.id # orig.id
    /\ \E i \in InstrNames(tree, "top"), s \in DOMAIN Edits :
         Becomes(ForceAddUpdate(tree, "top", i, s, Rewrite(Edits[s],
                   [v \in GetVar(Edits[s]) |-> find_state(tree, "top", v.v)])),
                 "edited", "none")

(* A copy against the original, as the test suite does it (CheckIlaEqLegacy *)
(* in test/unit-src/util.cc): per instruction, under its decode.           *)
CheckBmc ==
    /\ InUse /\ tree.id # orig.id
    /\ tree.ilas["top"].valid # Null
    /\ \E i \in InstrNames(orig, "top"), k \in {1} :
         LET init == instr(orig, "top", i).decode
         IN bmc' = [res |-> Check(orig, k, tree, k, init), k |-> k, init |-> init]
    /\ UNCHANGED <<script, tree, orig, abs, form, sane, failed, ops>>

Build ==
    \/ HostNewState \/ HostNewInput \/ HostNewStateObject \/ HostNewInputObject
    \/ HostNewChild \/ HostNewInstr \/ HostSetDecode \/ HostSetUpdate
    \/ HostSetProgram \/ HostAddInit \/ HostSetFetch \/ HostSetValid
    \/ Convert \/ Done

Use ==
    \/ Copy \/ Extract \/ FlattenHierarchy \/ Portable
    \/ ExecutePass \/ ExecuteSimplifySemantic \/ ExecuteSanity
    \/ InferCfg \/ MapEntries \/ Edit \/ CheckBmc

Next == Build \/ Use

Spec == Init /\ [][Next]_vars

----------------------------------------------------------------------------
Default == "PASS_ADD_DEFAULT_INSTR"

(* The instruction of orig an instruction of tree comes from.              *)
Source(name) ==
    LET all == GetInstrTree(orig)
    IN SelectSeq(all, LAMBDA p : p[2].name = name)[1]

(* The decode of an instruction implies that its ILA and the top are valid.*)
Guarded(p) ==
    \A env \in Env : Holds(p[2].decode, env) =>
      Holds(orig.ilas[p[1]].valid, env) /\ Holds(orig.ilas["top"].valid, env)

UniqueNames ==
    LET all == GetInstrTree(orig)
    IN \A i, j \in DOMAIN all : i # j => all[i][2].name # all[j][2].name

(* Copying, extracting, flattening, writing and reading back, and the      *)
(* rewriting passes keep the meaning of every instruction: where it is     *)
(* enabled and what it does to all states, and none is lost.  A flattened  *)
(* tree runs the instructions of the children under the valid condition of *)
(* the top, so there it holds for the ones whose decode implies the valid  *)
(* conditions.  (CopyIlaTree, ExtrDeptModl, FlattenIla, IlaSerDesMngr,     *)
(* RewriteGeneric, SimplifySemantic.)                                      *)
MeaningKept ==
    form \in {"tree", "flat", "part"} /\ UniqueNames =>
      /\ \A n \in IlaKeys(tree) : \A i \in DOMAIN tree.ilas[n].instrs :
           LET ins == tree.ilas[n].instrs[i]
               src == Source(ins.name)
           IN \/ ins.name = Default
              \/ form = "flat" /\ n # src[1] /\ ~Guarded(src)
              \/ Meaning(tree, n, ins) = Meaning(orig, src[1], src[2])
      /\ form \in {"tree", "flat"} => InitEnvs(tree) = InitEnvs(orig)
      /\ \A n \in IlaKeys(orig) :
           /\ form = "tree" => InstrNames(orig, n) \subseteq InstrNames(tree, n)
           /\ form = "flat" => InstrNames(orig, n) \subseteq InstrNames(tree, "top")

(* Every variable an ILA uses is one of its own or of its ancestors, which *)
(* it shares with them.                                                    *)
WellFormed(t, keys) ==
    \A n \in keys :
      LET m == t.ilas[n]
      IN /\ VarsOf(t, n) \subseteq GetStt(t, n) \cup GetInp(t, n)
         /\ \A v \in GetStt(t, n) \cup GetInp(t, n) : v.h = NoHost \/ v.h[1] = t.id
         /\ n # "top" => /\ GetStt(t, m.parent) \subseteq GetStt(t, n)
                         /\ GetInp(t, m.parent) \subseteq GetInp(t, n)

(* A tree made from another one stands alone: no expression of it holds a  *)
(* variable of the source, and what parent and child shared in the source  *)
(* they share in the copy; and a file written from such a tree can be read *)
(* (FuncObjRewrIla::pre, DuplStt, J2IDes::DesVarUnit).  In a flattened     *)
(* tree this is about the top: the children left in it keep variables of   *)
(* their own next to the ones the top has got.                             *)
StandsAlone ==
    form # "build" /\ WellFormed(orig, IlaKeys(orig)) =>
      /\ WellFormed(tree, IF form = "flat" THEN {"top"} ELSE IlaKeys(tree))
      /\ form # "flat" => ~failed

(* What SanityCheckAndFix promises holds, and goes on holding in copies    *)
(* and after rewriting: a tree it accepts is deterministic and complete;   *)
(* after a fix some instruction is enabled wherever the top is valid.      *)
SanityHolds ==
    LET enabled(env) == \E n \in IlaKeys(tree) : \E i \in DOMAIN tree.ilas[n].instrs :
                          Enabled(tree, n, tree.ilas[n].instrs[i], env)
    IN /\ sane = "ok" => CheckDeterminism(tree) /\ \A env \in Env : enabled(env)
       /\ sane = "fixed" => \A env \in Env : Holds(tree.ilas["top"].valid, env) => enabled(env)

(* Two instructions of a child that can be executed one after the other    *)
(* are connected in the control flow InferChildProgCFG has inferred, also  *)
(* after passes have rewritten them.                                       *)
CfgCovers ==
    form \in {"tree", "flat"} =>
      \A n \in IlaKeys(tree) : tree.ilas[n].hasSeq =>
        \A i, j \in DOMAIN tree.ilas[n].instrs :
          LET a == tree.ilas[n].instrs[i]
              b == tree.ilas[n].instrs[j]
          IN (\E env \in Env, x \in X!Bit :
                /\ Enabled(tree, n, a, env)
                /\ Enabled(tree, n, b, [Assign(a, env) EXCEPT !.x = x]))
             => <<a.name, b.name>> \in tree.ilas[n].edges

(* An imported instruction does what the next-state functions of the       *)
(* abstraction say wherever its decode is the only one that holds          *)
(* (DecomposeExpr, PortInstructions).                                      *)
ImportExact ==
    form # "build" =>
      \A i \in DOMAIN abs.names : \A env \in Env :
        (\A j \in DOMAIN abs.decodes : (Eval(abs.decodes[j], env) = 1) <=> (j = i)) =>
          \A s \in DOMAIN abs.nexts :
            Assign(instr(orig, "top", abs.names[i]), env)[s] = Eval(abs.nexts[s], env)

(* The step of the top of a tree from env: the instructions it enables.    *)
TopSteps(t, env) ==
    {Assign(ins, env) : ins \in {i \in Range(t.ilas["top"].instrs) : Enabled(t, "top", i, env)}}

SameSteps(env) ==
    \A s \in Names(orig.ilas["top"].states) :
      {f[s] : f \in TopSteps(orig, env)} = {f[s] : f \in TopSteps(tree, env)}

(* An alarm of LegacyBmc::Check after one step is real, when both ILAs are *)
(* valid and complete where the check starts: they do something different. *)
BmcAlarmReal ==
    LET start == {env \in Env : Holds(bmc.init, env)}
    IN bmc.res = "sat" /\ bmc.k = 1
       /\ (\A env \in start : TopSteps(orig, env) # {} /\ TopSteps(tree, env) # {})
         => \E env \in start : ~SameSteps(env)

(* A pair of ILAs LegacyBmc::Check finds no difference in is equal: from   *)
(* the same state, under the decode, they make the same step               *)
(* (v_eq_check_bmc.cc, "assert equal final state").                        *)
BmcSound ==
    bmc.res = "unsat" /\ bmc.k = 1 /\ ~SameVars(orig, tree) =>
      \A env \in Env : Holds(bmc.init, env) => SameSteps(env)
============================================================================
