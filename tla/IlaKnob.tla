------------------------------ MODULE IlaKnob ------------------------------
(***************************************************************************)
(* Queries on a tree of ILAs, and the operations that make one tree out of *)
(* another: rewriting, CopyIlaTree, ExtrDeptModl, FlattenIla, and the      *)
(* portable format written by I2JSer and read by J2IDes.                   *)
(*                                                                         *)
(* A copy in progress is a record: dst, the tree being made; rule, the     *)
(* rewriting rule from source variables to variables of dst; ilas, the ILA *)
(* of dst that stands for an ILA of the source.                            *)
(***************************************************************************)
EXTENDS IlaTree

RECURSIVE GetVar(_)
GetVar(e) ==
    IF e.k = "var" THEN {e} ELSE UNION {GetVar(e.a[i]) : i \in DOMAIN e.a}

(* The nodes of a term, in the order a depth-first visit leaves them.      *)
RECURSIVE SubTerms(_)
SubTerms(e) == FlattenSeq([i \in DOMAIN e.a |-> SubTerms(e.a[i])]) \o <<e>>

(* The ILAs below n, parents first (pre) and children first (post).        *)
RECURSIVE PreOrder(_, _)
PreOrder(t, n) ==
    <<n>> \o FlattenSeq([i \in DOMAIN t.ilas[n].childs |-> PreOrder(t, t.ilas[n].childs[i])])

RECURSIVE PostOrder(_, _)
PostOrder(t, n) ==
    FlattenSeq([i \in DOMAIN t.ilas[n].childs |-> PostOrder(t, t.ilas[n].childs[i])]) \o <<n>>

GetStt(t, n) == Range(t.ilas[n].states)
GetInp(t, n) == Range(t.ilas[n].inputs)
GetInstrTree(t) ==
    FlattenSeq([j \in DOMAIN PostOrder(t, "top") |->
        LET n == PostOrder(t, "top")[j]
        IN [i \in DOMAIN t.ilas[n].instrs |-> <<n, t.ilas[n].instrs[i]>>]])

----------------------------------------------------------------------------
(* Rewriting.  A variable without a rule is kept as it is.                 *)
RECURSIVE Rewrite(_, _)
Rewrite(e, rule) ==
    IF e \in DOMAIN rule THEN rule[e]
    ELSE IF is_op(e) THEN [e EXCEPT !.a = [i \in DOMAIN @ |-> Rewrite(@[i], rule)]]
    ELSE e

(* The variables of ILA n of src get their counterparts in ILA d of dst: a *)
(* variable with the same name if d has one, else a new one.               *)
DuplInp(w, src, n, d) ==
    FoldLeft(LAMBDA acc, v :
        LET dst == IF find_input(acc.dst, d, v.v) = Null
                   THEN NewInput(acc.dst, d, v.v) ELSE acc.dst
        IN [acc EXCEPT !.dst = dst, !.rule = @ @@ (v :> find_input(dst, d, v.v))],
      w, src.ilas[n].inputs)

DuplStt(w, src, n, d) ==
    FoldLeft(LAMBDA acc, v :
        LET dst == IF find_state(acc.dst, d, v.v) = Null
                   THEN NewState(acc.dst, d, v.v) ELSE acc.dst
        IN [acc EXCEPT !.dst = dst, !.rule = @ @@ (v :> find_state(dst, d, v.v))],
      w, src.ilas[n].states)

DuplFetch(w, src, n, d) ==
    IF src.ilas[n].fetch = Null THEN w
    ELSE [w EXCEPT !.dst = SetFetch(@, d, Rewrite(src.ilas[n].fetch, w.rule))]

DuplValid(w, src, n, d) ==
    IF src.ilas[n].valid = Null THEN w
    ELSE [w EXCEPT !.dst = SetValid(@, d, Rewrite(src.ilas[n].valid, w.rule))]

DuplInit(w, src, n, d) ==
    FoldLeft(LAMBDA acc, e : [acc EXCEPT !.dst = AddInit(@, d, Rewrite(e, w.rule))],
      w, src.ilas[n].inits)

RewriteInstr(t, d, ins, rule) ==
    FoldLeft(LAMBDA acc, s : set_update(acc, d, ins.name, s, Rewrite(ins.upd[s], rule)),
      set_decode(t, d, ins.name, Rewrite(ins.decode, rule)),
      SetToSeq(DOMAIN ins.upd))

(* An instruction whose name is taken is made but not registered.          *)
DuplInstr(w, ins, d) ==
    IF ins.name \in InstrNames(w.dst, d) THEN w
    ELSE LET made == RewriteInstr(NewInstr(w.dst, d, ins.name), d, ins, w.rule)
         IN [w EXCEPT !.dst = IF ins.prog = "" THEN made
                              ELSE set_program(made, d, ins.name, w.ilas[ins.prog])]

DuplInstrs(w, src, n, d) ==
    FoldLeft(LAMBDA acc, ins : DuplInstr(acc, ins, d), w, src.ilas[n].instrs)

(* FuncObjRewrIla::pre: one ILA of the source, its variables first, so     *)
(* that the children made next take them over.                             *)
DuplChilds(w, src, n, d) ==
    FoldLeft(LAMBDA acc, c :
        [acc EXCEPT !.dst = [NewChild(@, d, c) EXCEPT !.ilas[c].spec = src.ilas[c].spec],
                    !.ilas = @ @@ (c :> c)],
      w, src.ilas[n].childs)

(* Mutant: the children are made before the variables.                     *)
RewrIlaChildsFirst(w, src, n) ==
    LET d == w.ilas[n]
        made == DuplStt(DuplInp(DuplChilds(w, src, n, d), src, n, d), src, n, d)
    IN DuplInstrs(DuplInit(DuplValid(DuplFetch(made, src, n, d), src, n, d), src, n, d), src, n, d)

RewrIla(w, src, n) ==
    LET d == w.ilas[n]
        made == DuplChilds(DuplStt(DuplInp(w, src, n, d), src, n, d), src, n, d)
    IN DuplInstrs(DuplInit(DuplValid(DuplFetch(made, src, n, d), src, n, d), src, n, d), src, n, d)

CopyIlaTree(src, id, name) ==
    LET start == [dst |-> [New(id, name) EXCEPT !.ilas["top"].spec = src.ilas["top"].spec],
                  rule |-> <<>>, ilas |-> "top" :> "top"]
    IN FoldLeft(LAMBDA w, n : RewrIla(w, src, n), start, PreOrder(src, "top")).dst

(* The host of instruction i, with this instruction and its child-program. *)
ExtrDeptModl(src, n, i, id, name) ==
    LET ins == instr(src, n, i)
        dst == [dst |-> New(id, name), rule |-> <<>>, ilas |-> n :> "top"]
        vars == DuplStt(DuplInp(dst, src, n, "top"), src, n, "top")
        host == DuplInit(DuplValid(DuplFetch(vars, src, n, "top"), src, n, "top"), src, n, "top")
        prog == [host EXCEPT !.dst = NewChild(@, "top", ins.prog),
                             !.ilas = @ @@ (ins.prog :> ins.prog)]
        tree == IF ins.prog = "" THEN host
                ELSE FoldLeft(LAMBDA w, c : RewrIla(w, src, c), prog, PreOrder(src, ins.prog))
    IN DuplInstr(tree, ins, "top").dst

(* Variables, initial conditions and instructions of all ILAs below the    *)
(* top are added to it; the children stay.  Their valid conditions are not *)
(* added to the decodes (VALID_STACK is not defined).                      *)
FlattenIla(t) ==
    LET below == SelectSeq(PostOrder(t, "top"), LAMBDA n : n # "top")
        start == [dst |-> t, rule |-> <<>>, ilas |-> [n \in Range(below) |-> "top"]]
        vars == FoldLeft(LAMBDA w, n :
                    DuplInit(DuplStt(DuplInp(w, t, n, "top"), t, n, "top"), t, n, "top"), start, below)
        flat == SelectSeq(PreOrder(t, "top"), LAMBDA n : n # "top")
    IN FoldLeft(LAMBDA w, n : DuplInstrs(w, t, n, "top"), vars, flat).dst

----------------------------------------------------------------------------
(* The portable format: a list of nodes, whose position is their identity  *)
(* there, and the ILAs, which refer to it.  A node is written once, after  *)
(* its arguments.  An ILA is written with the update of every state of it, *)
(* and without the child-programs, the instruction sequence and the        *)
(* specification flag.                                                     *)
SerExpr(ast, e) ==
    FoldLeft(LAMBDA acc, n : IF n \in Range(acc) THEN acc ELSE Append(acc, n), ast, SubTerms(e))

Id(ast, e) == IF e = Null THEN 0 ELSE CHOOSE i \in DOMAIN ast : ast[i] = e
Ids(ast, seq) == [i \in DOMAIN seq |-> Id(ast, seq[i])]

SerExprUnit(ast, e) ==
    [uid |-> IF is_op(e) THEN "op" ELSE e.k, op |-> e.k, name |-> e.v, val |-> e.c,
     args |-> Ids(ast, e.a)]

(* A state an instruction does not update is its own update.               *)
NextOf(ins, s) == IF s.v \in DOMAIN ins.upd THEN ins.upd[s.v] ELSE s

SerInstr(t, n, ins, ast) ==
    [name |-> ins.name, decode |-> Id(ast, ins.decode),
     upd |-> [s \in Names(t.ilas[n].states) |-> Id(ast, NextOf(ins, find_state(t, n, s)))]]

SerInstrLvlAbsNoAst(t, n, ast) ==
    LET m == t.ilas[n]
    IN [inputs |-> Ids(ast, m.inputs), states |-> Ids(ast, m.states),
        fetch |-> Id(ast, m.fetch), valid |-> Id(ast, m.valid),
        instrs |-> [i \in DOMAIN m.instrs |-> SerInstr(t, n, m.instrs[i], ast)],
        inits |-> Ids(ast, m.inits), childs |-> m.childs]

(* The expressions of one ILA, in the order they are written.              *)
Written(t, n) ==
    LET m == t.ilas[n]
        ofInstr(ins) == <<ins.decode>> \o [i \in DOMAIN m.states |-> NextOf(ins, m.states[i])]
    IN SelectSeq(m.inputs \o m.states \o <<m.fetch, m.valid>>
                   \o FlattenSeq([i \in DOMAIN m.instrs |-> ofInstr(m.instrs[i])])
                   \o m.inits,
         LAMBDA e : e # Null)

SerInstrLvlAbs(t) ==
    LET order == PreOrder(t, "top")
        ast == FoldLeft(SerExpr, <<>>,
                 FlattenSeq([i \in DOMAIN order |-> Written(t, order[i])]))
    IN [name |-> t.name, order |-> order,
        ilas |-> [n \in IlaKeys(t) |-> SerInstrLvlAbsNoAst(t, n, ast)],
        ast |-> [i \in DOMAIN ast |-> SerExprUnit(ast, ast[i])]]

(* A variable is made by the first ILA that lists it and is not made again *)
(* by a child that lists it too.                                           *)
DesVarUnit(w, j, n) ==
    LET unit(acc, i) ==
          LET v == j.ast[i]
              made(dst) == [dst |-> dst, ids |-> acc.ids @@ (i :> Var(v.name, <<dst.id, n>>))]
          IN IF i \in DOMAIN acc.ids \/ v.uid # "var" THEN acc
             ELSE IF i \in Range(j.ilas[n].states) THEN made(NewState(acc.dst, n, v.name))
             ELSE IF i \in Range(j.ilas[n].inputs) THEN made(NewInput(acc.dst, n, v.name))
             ELSE acc
    IN FoldLeft(unit, w, [i \in DOMAIN j.ast |-> i])

DesVarHier(j, id) ==
    LET unit(acc, n) ==
          LET made == DesVarUnit(acc, j, n)
          IN [made EXCEPT !.dst =
                FoldLeft(LAMBDA t, c : NewChild(t, n, c), @, j.ilas[n].childs)]
    IN FoldLeft(unit, [dst |-> New(id, j.name), ids |-> <<>>], j.order)

DesExprConst(u) == Const(u.val)
DesExprOp(u, ids) == Op(u.op, [i \in DOMAIN u.args |-> ids[u.args[i]]])

DesExpr(ids, i, u) ==
    IF i \in DOMAIN ids THEN ids
    ELSE ids @@ (i :> CASE u.uid = "const" -> DesExprConst(u)
                        [] u.uid = "op"    -> DesExprOp(u, ids)
                        [] u.uid = "var"   -> Null)

DesInstr(t, n, j, ids) ==
    FoldLeft(LAMBDA acc, s : set_update(acc, n, j.name, s, ids[j.upd[s]]),
      set_decode(NewInstr(t, n, j.name), n, j.name, ids[j.decode]),
      SetToSeq(Names(t.ilas[n].states)))

DesIlaUnit(t, j, ids, n) ==
    LET m == j.ilas[n]
        fetch == SetFetch(t, n, IF m.fetch = 0 THEN Const(1) ELSE ids[m.fetch])
        valid == SetValid(fetch, n, ids[m.valid])
        instrs == FoldLeft(LAMBDA acc, i : DesInstr(acc, n, i, ids), valid, m.instrs)
    IN FoldLeft(LAMBDA acc, e : AddInit(acc, n, ids[e]), instrs, m.inits)

DesInstrLvlAbs(j, id) ==
    LET made == DesVarHier(j, id)
        ids == FoldLeft(LAMBDA acc, i : DesExpr(acc, i, j.ast[i]), made.ids,
                 [i \in DOMAIN j.ast |-> i])
    IN FoldLeft(LAMBDA t, n : DesIlaUnit(t, j, ids, n), made.dst, j.order)

(* Writing takes the valid condition of every ILA for granted.  Reading    *)
(* looks the update of every state of the host up: a state the parent got  *)
(* after the child was made is a state of the child that is read, and has  *)
(* no update there (the end of the map is dereferenced).  A variable that  *)
(* no ILA lists cannot be read.                                            *)
Serialisable(t) == \A n \in IlaKeys(t) : t.ilas[n].valid # Null

Terms(t, n) ==
    {t.ilas[n].valid, t.ilas[n].fetch} \cup Range(t.ilas[n].inits)
    \cup {t.ilas[n].instrs[i].decode : i \in DOMAIN t.ilas[n].instrs}
    \cup UNION {Range(t.ilas[n].instrs[i].upd) : i \in DOMAIN t.ilas[n].instrs}

VarsOf(t, n) == UNION {GetVar(e) : e \in Terms(t, n)}

Deserialisable(j, id) ==
    LET made == DesVarHier(j, id)
    IN /\ \A i \in DOMAIN j.ast : j.ast[i].uid = "var" => i \in DOMAIN made.ids
       /\ \A n \in Range(j.order) : \A i \in DOMAIN j.ilas[n].instrs :
            Names(made.dst.ilas[n].states) \subseteq DOMAIN j.ilas[n].instrs[i].upd
============================================================================
