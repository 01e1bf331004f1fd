------------------------------ MODULE IlaTree ------------------------------
(***************************************************************************)
(* A tree of instruction-level abstractions and the calls that build it    *)
(* (InstrLvlAbs, Instr, InstrSeq, KeyVec).                                 *)
(*                                                                         *)
(* An expression is a term.  A variable carries its host, the tree and the *)
(* ILA that created it: the variables of a copy are other variables than   *)
(* those of the original, whatever their names are.  An ILA is a record,   *)
(* reached by its key in the tree; the key of the root is "top" and the    *)
(* names of the other ILAs are their keys.  Null is an attribute that has  *)
(* not been set.                                                           *)
(*                                                                         *)
(* The code is the one of a release build: the assertions (ILA_ASSERT) are *)
(* not there, so that registering a taken name has no effect.              *)
(***************************************************************************)
EXTENDS Integers, Sequences, FiniteSets, SequencesExt

X == INSTANCE IlaExpr

Env == [r : X!Bit, q : X!Bit, x : X!Bit, m : [X!Words -> X!Bit]]

NoHost == <<0, "">>
Term(k, v, h, c, a) == [k |-> k, v |-> v, h |-> h, c |-> c, a |-> a]

Null == Term("null", "", NoHost, 0, <<>>)
Var(name, host) == Term("var", name, host, 0, <<>>)
Const(c) == Term("const", "", NoHost, c, <<>>)
Op(k, args) == Term(k, "", NoHost, 0, args)

is_op(e) == e.k \notin {"null", "var", "const"}

RECURSIVE is_mem(_)
is_mem(e) ==
    \/ e.k = "var" /\ e.v = "m"
    \/ e.k = "store"
    \/ e.k = "ite" /\ is_mem(e.a[2])

RECURSIVE Eval(_, _)
Eval(e, env) ==
    CASE e.k = "var"   -> env[e.v]
      [] e.k = "const" -> e.c
      [] OTHER         -> X!Apply(e.k, [i \in DOMAIN e.a |-> Eval(e.a[i], env)])

(* A condition that is not set holds.                                      *)
Holds(e, env) == e = Null \/ Eval(e, env) = 1

----------------------------------------------------------------------------
(* InstrLvlAbs.                                                            *)
NewIla(parent) ==
    [parent |-> parent, childs |-> <<>>, inputs |-> <<>>, states |-> <<>>,
     inits |-> <<>>, fetch |-> Null, valid |-> Null, instrs |-> <<>>,
     edges |-> {}, hasSeq |-> FALSE, root |-> "", spec |-> TRUE]

New(id, name) == [id |-> id, name |-> name, ilas |-> [n \in {"top"} |-> NewIla("")]]

(* KeyVec: an item whose key is taken is not registered.                   *)
push_back(vec, taken, key, item) == IF key \in taken THEN vec ELSE Append(vec, item)

Names(vars) == {vars[i].v : i \in DOMAIN vars}
InstrNames(t, n) == {t.ilas[n].instrs[i].name : i \in DOMAIN t.ilas[n].instrs}

Find(vars, name) ==
    IF name \in Names(vars) THEN SelectSeq(vars, LAMBDA v : v.v = name)[1] ELSE Null
find_state(t, n, name) == Find(t.ilas[n].states, name)
find_input(t, n, name) == Find(t.ilas[n].inputs, name)

AddInput(t, n, var) == [t EXCEPT !.ilas[n].inputs = push_back(@, Names(@), var.v, var)]
AddState(t, n, var) == [t EXCEPT !.ilas[n].states = push_back(@, Names(@), var.v, var)]

NewInput(t, n, name) == AddInput(t, n, Var(name, <<t.id, n>>))
NewState(t, n, name) == AddState(t, n, Var(name, <<t.id, n>>))

(* The members of an object are registered without a host.                 *)
NewInputObject(t, n, names) ==
    FoldLeft(LAMBDA acc, name : AddInput(acc, n, Var(name, NoHost)), t, names)
NewStateObject(t, n, names) ==
    FoldLeft(LAMBDA acc, name : AddState(acc, n, Var(name, NoHost)), t, names)

AddInit(t, n, e) == [t EXCEPT !.ilas[n].inits = Append(@, e)]
SetFetch(t, n, e) == [t EXCEPT !.ilas[n].fetch = e]
SetValid(t, n, e) == [t EXCEPT !.ilas[n].valid = e]

(* A child takes over the variables its parent has at this moment.         *)
NewChild(t, n, c) ==
    [t EXCEPT !.ilas = (c :> [NewIla(n) EXCEPT !.states = t.ilas[n].states,
                                              !.inputs = t.ilas[n].inputs])
                       @@ [@ EXCEPT ![n].childs = push_back(@, Range(@), c, c)]]

----------------------------------------------------------------------------
(* Instr and InstrSeq.                                                     *)
NewInstr(t, n, name) ==
    [t EXCEPT !.ilas[n].instrs =
        push_back(@, InstrNames(t, n), name,
                  [name |-> name, decode |-> Null, upd |-> <<>>, prog |-> ""])]

InstrIdx(t, n, name) ==
    CHOOSE i \in DOMAIN t.ilas[n].instrs : t.ilas[n].instrs[i].name = name
instr(t, n, name) == t.ilas[n].instrs[InstrIdx(t, n, name)]

ForceSetDecode(t, n, i, e) == [t EXCEPT !.ilas[n].instrs[InstrIdx(t, n, i)].decode = e]
ForceAddUpdate(t, n, i, state, e) ==
    [t EXCEPT !.ilas[n].instrs[InstrIdx(t, n, i)].upd = (state :> e) @@ @]

(* What is set stays.                                                      *)
set_decode(t, n, i, e) ==
    IF instr(t, n, i).decode = Null THEN ForceSetDecode(t, n, i, e) ELSE t
set_update(t, n, i, state, e) ==
    IF state \notin DOMAIN instr(t, n, i).upd THEN ForceAddUpdate(t, n, i, state, e) ELSE t
set_program(t, n, i, c) == [t EXCEPT !.ilas[n].instrs[InstrIdx(t, n, i)].prog = c]

AddSeqTran(t, n, a, b) ==
    [t EXCEPT !.ilas[n].edges = @ \cup {<<a, b>>}, !.ilas[n].hasSeq = TRUE]
set_root(t, n, i) == [t EXCEPT !.ilas[n].root = i]

----------------------------------------------------------------------------
(* What a tree means.  An instruction is enabled where its host is valid   *)
(* and it decodes; it assigns the states it updates.                       *)
IlaKeys(t) == DOMAIN t.ilas

Enabled(t, n, ins, env) == Holds(t.ilas[n].valid, env) /\ Holds(ins.decode, env)

Assign(ins, env) ==
    [v \in DOMAIN env |-> IF v \in DOMAIN ins.upd THEN Eval(ins.upd[v], env) ELSE env[v]]

Meaning(t, n, ins) ==
    [env \in {e \in Env : Enabled(t, n, ins, e)} |-> Assign(ins, env)]

InitEnvs(t) ==
    {env \in Env : \A n \in IlaKeys(t) :
        \A i \in DOMAIN t.ilas[n].inits : Holds(t.ilas[n].inits[i], env)}
============================================================================
