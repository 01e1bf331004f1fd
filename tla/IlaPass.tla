------------------------------ MODULE IlaPass ------------------------------
(***************************************************************************)
(* The passes over a tree of ILAs, the legacy bounded equivalence check,   *)
(* and the import of a synthesised abstraction.  What the code asks an SMT *)
(* solver is here a question about all values of the variables.            *)
(***************************************************************************)
EXTENDS IlaKnob

(* RewriteConditionalStore: an ITE between memories becomes a store.       *)
(* Mutant: the branches of the data are exchanged in pattern 1.            *)
CondMemSwapped(c, m1, m2) ==
    IF m1 = m2 THEN m1
    ELSE IF m1.k = "store" /\ ~is_op(m2) /\ m1.a[1] = m2
         THEN Op("store", <<m2, m1.a[2], Op("ite", <<c, Op("load", <<m2, m1.a[2]>>), m1.a[3]>>)>>)
    ELSE Op("ite", <<c, m1, m2>>)

RewriteCondMem(c, m1, m2) ==
    IF m1 = m2 THEN m1
    ELSE IF m1.k = "store" /\ ~is_op(m2) /\ m1.a[1] = m2
         THEN Op("store", <<m2, m1.a[2], Op("ite", <<c, m1.a[3], Op("load", <<m2, m1.a[2]>>)>>)>>)
    ELSE IF ~is_op(m1) /\ m2.k = "store" /\ m2.a[1] = m1
         THEN Op("store", <<m1, m2.a[2], Op("ite", <<c, Op("load", <<m1, m2.a[2]>>), m2.a[3]>>)>>)
    ELSE IF m1.k = "store" /\ m2.k = "store" /\ m1.a[1] = m2.a[1]
         THEN Op("store", <<m1.a[1], Op("ite", <<c, m1.a[2], m2.a[2]>>),
                                     Op("ite", <<c, m1.a[3], m2.a[3]>>)>>)
    ELSE Op("ite", <<c, m1, m2>>)

RECURSIVE RewrCondStore(_)
RewrCondStore(e) ==
    LET a == [i \in DOMAIN e.a |-> RewrCondStore(e.a[i])]
    IN IF e.k = "ite" /\ is_mem(e) THEN RewriteCondMem(a[1], a[2], a[3]) ELSE [e EXCEPT !.a = a]

(* FuncObjRewrStoreLoad does not override the RewriteOp of its base class  *)
(* (a const ExprPtr is not a const ExprPtr&): the pass copies.             *)
RewrStoreLoad(e) == Rewrite(e, <<>>)

(* ExprMngr::GetRep shares equal nodes: as a term, e stays what it is.     *)
Rewr(pass, e) ==
    CASE pass = "REWRITE_CONDITIONAL_STORE" -> RewrCondStore(e)
      [] pass = "REWRITE_LOAD_FROM_STORE"   -> RewrStoreLoad(e)
      [] pass = "SIMPLIFY_SYNTACTIC"        -> e

(* Valid and fetch where they are set, decodes and updates; the initial    *)
(* conditions are left alone.                                              *)
RewriteGeneric(t, pass) ==
    LET opt(e) == IF e = Null THEN Null ELSE Rewr(pass, e)
        rewrInstr(i) == [i EXCEPT !.decode = Rewr(pass, @),
                                  !.upd = [s \in DOMAIN @ |-> Rewr(pass, @[s])]]
    IN [t EXCEPT !.ilas = [n \in DOMAIN @ |->
          [@[n] EXCEPT !.valid = opt(@), !.fetch = opt(@),
                       !.instrs = [i \in DOMAIN @ |-> rewrInstr(@[i])]]]]

(* SimplifySemantic: the first subterm of an update, in the order the      *)
(* nodes are left, that equals it where its instruction is enabled.        *)
EqSubtree(e, on) ==
    SelectSeq(SubTerms(e), LAMBDA c :
        is_mem(c) = is_mem(e) /\ \A env \in on : Eval(c, env) = Eval(e, env))[1]

SimplifySemantic(t) ==
    LET simp(n, ins) ==
          LET on == {env \in Env : Enabled(t, n, ins, env)}
          IN [ins EXCEPT !.upd = [s \in DOMAIN @ |-> EqSubtree(@[s], on)]]
    IN [t EXCEPT !.ilas = [n \in DOMAIN @ |->
          [@[n] EXCEPT !.instrs = [i \in DOMAIN @ |-> simp(n, @[i])]]]]

----------------------------------------------------------------------------
(* SanityCheckAndFix.                                                      *)
CheckDeterminism(t) ==
    \A n \in IlaKeys(t) :
      LET is == t.ilas[n].instrs
      IN \A i, j \in DOMAIN is : i < j =>
           ~ \E env \in Env : Enabled(t, n, is[i], env) /\ Enabled(t, n, is[j], env)

SomeEnabled(t) ==
    LET f(acc, p) ==
          LET v == t.ilas[p[1]].valid
          IN Op("or", <<acc, Op("and", <<IF v = Null THEN Const(1) ELSE v, p[2].decode>>)>>)
    IN FoldLeft(f, Const(0), GetInstrTree(t))

(* The result is FALSE for an incomplete set, also after the fix.          *)
(* Mutant: the valid conditions are not part of what the default covers.   *)
SanityFixDecodes(t) ==
    LET acc == FoldLeft(LAMBDA a, p : Op("or", <<a, p[2].decode>>), Const(0), GetInstrTree(t))
        complete == \A env \in Env : Eval(acc, env) = 1
        clean == \A v \in GetVar(acc) :
                   find_state(t, "top", v.v) # Null \/ find_input(t, "top", v.v) # Null
        name == "PASS_ADD_DEFAULT_INSTR"
    IN [ok |-> CheckDeterminism(t) /\ complete,
        tree |-> IF complete \/ ~clean \/ name \in InstrNames(t, "top") THEN t
                 ELSE set_decode(NewInstr(t, "top", name), "top", name, Op("not", <<acc>>))]

SanityCheckAndFix(t) ==
    LET acc == SomeEnabled(t)
        complete == \A env \in Env : Eval(acc, env) = 1
        clean == \A v \in GetVar(acc) :
                   find_state(t, "top", v.v) # Null \/ find_input(t, "top", v.v) # Null
        name == "PASS_ADD_DEFAULT_INSTR"
    IN [ok |-> CheckDeterminism(t) /\ complete,
        tree |-> IF complete \/ ~clean \/ name \in InstrNames(t, "top") THEN t
                 ELSE set_decode(NewInstr(t, "top", name), "top", name, Op("not", <<acc>>))]

----------------------------------------------------------------------------
(* Child-programs.  PathUnroll ties the next frame to a's host n alone: the *)
(* states n has are what a leaves; inputs, and states of other ILAs, are   *)
(* free there.                                                             *)
After(t, n, a, env) ==
    {next \in Env : \A s \in Names(t.ilas[n].states) : next[s] = Assign(a, env)[s]}

(* a may be followed by b: b decodes after a.  The valid conditions are    *)
(* not asked.                                                              *)
Follows(t, n, a, b) ==
    \E env \in Env : /\ Holds(a.decode, env)
                     /\ \E next \in After(t, n, a, env) : Holds(b.decode, next)

(* Mutant: an instruction is only tried before those created after it.     *)
InferForwardCFG(t) ==
    LET pairs(n) == {p \in (DOMAIN t.ilas[n].instrs) \X (DOMAIN t.ilas[n].instrs) :
                       p[1] <= p[2] /\ Follows(t, n, t.ilas[n].instrs[p[1]], t.ilas[n].instrs[p[2]])}
        cfg(acc, n) ==
          FoldLeft(LAMBDA u, p : AddSeqTran(u, n, t.ilas[n].instrs[p[1]].name,
                                                  t.ilas[n].instrs[p[2]].name),
            acc, SetToSeq(pairs(n)))
    IN FoldLeft(cfg, t, SelectSeq(PreOrder(t, "top"), LAMBDA n : n # "top"))

InferChildProgCFG(t) ==
    LET pairs(n) == {p \in (DOMAIN t.ilas[n].instrs) \X (DOMAIN t.ilas[n].instrs) :
                       Follows(t, n, t.ilas[n].instrs[p[1]], t.ilas[n].instrs[p[2]])}
        cfg(acc, n) ==
          FoldLeft(LAMBDA u, p : AddSeqTran(u, n, t.ilas[n].instrs[p[1]].name,
                                                  t.ilas[n].instrs[p[2]].name),
            acc, SetToSeq(pairs(n)))
    IN FoldLeft(cfg, t, SelectSeq(PreOrder(t, "top"),
                          LAMBDA n : n # "top" /\ ~t.ilas[n].hasSeq))

(* a of the top starts the program of child c at b: c is not valid before  *)
(* a, and b decodes in a valid c after it.  What c has and the top has not *)
(* may change between the two.                                             *)
Starts(t, a, c, b) ==
    \E env \in Env :
      /\ ~Holds(t.ilas[c].valid, env) /\ Holds(a.decode, env)
      /\ \E next \in After(t, "top", a, env) :
           Holds(t.ilas[c].valid, next) /\ Holds(b.decode, next)

(* The first instruction of the child that can be started is its entry.    *)
MapEntry(t, i, c) ==
    LET ins == t.ilas["top"].instrs[i]
        is == t.ilas[c].instrs
        entry == SelectSeq(is, LAMBDA b : Starts(t, ins, c, b)
                                          /\ (t.ilas[c].root = "" \/ b.name = t.ilas[c].root))
        rooted == IF t.ilas[c].root = "" THEN set_root(t, c, entry[1].name) ELSE t
    IN IF ~t.ilas[c].hasSeq \/ entry = <<>> THEN t
       ELSE IF ins.prog = "" THEN set_program(rooted, "top", ins.name, c) ELSE rooted

MapChildProgEntryPoint(t) ==
    FoldLeft(LAMBDA acc, p : MapEntry(acc, p[1], p[2]), t,
      FlattenSeq([i \in DOMAIN t.ilas["top"].instrs |->
        [j \in DOMAIN t.ilas["top"].childs |-> <<i, t.ilas["top"].childs[j]>>]]))

----------------------------------------------------------------------------
(* LegacyBmc.  The frames that satisfy the constraints of k steps from a   *)
(* frame: where the ILA is valid, every instruction that decodes fixes the *)
(* states of the next frame; the inputs of a frame are free.               *)
(* Mutant: the states an instruction does not update are left free.        *)
InstrPartial(t, ins, env, next) ==
    Holds(ins.decode, env) =>
      \A s \in Names(t.ilas["top"].states) \cap DOMAIN ins.upd : next[s] = Assign(ins, env)[s]

Instr(t, ins, env, next) ==
    Holds(ins.decode, env) =>
      \A s \in Names(t.ilas["top"].states) : next[s] = Assign(ins, env)[s]

IlaOneHotFlat(t, env, next) ==
    Holds(t.ilas["top"].valid, env) =>
      \A i \in DOMAIN t.ilas["top"].instrs : Instr(t, t.ilas["top"].instrs[i], env, next)

UnrollCmplIla(t, env, k) ==
    LET frames[i \in 0..k] ==
          IF i = 0 THEN {env}
          ELSE {next \in Env : \E prev \in frames[i - 1] : IlaOneHotFlat(t, prev, next)}
    IN frames[k]

(* The name of a variable in the formula is made from the name of the root *)
(* of its host: two trees with one name, or variables without a host, are  *)
(* the same variables there.                                               *)
SameVars(t0, t1) ==
    \/ t0.name = t1.name
    \/ \E v \in Range(t0.ilas["top"].states) \cap Range(t1.ilas["top"].states) : v.h = NoHost

(* Sat: from equal states and inputs, under the initial condition, the two *)
(* differ at the end in every state.                                       *)
Check(t0, k0, t1, k1, init) ==
    LET stts == Names(t0.ilas["top"].states)
    IN IF \E env \in Env :
            /\ Holds(init, env)
            /\ \E f0 \in UnrollCmplIla(t0, env, k0), f1 \in UnrollCmplIla(t1, env, k1) :
                 /\ SameVars(t0, t1) => f0 = f1
                 /\ \A s \in stts : f0[s] # f1[s]
       THEN "sat" ELSE "unsat"

----------------------------------------------------------------------------
(* SynthAbsConverter.  An abstraction has decode expressions and, per      *)
(* state, a next-state expression, taken apart at the ITEs whose condition *)
(* is a decode: the first one met, inner nodes first, gives the update of  *)
(* the instruction; the others get the branch no such ITE continues.       *)
(* Mutant: an ITE is taken apart whatever its condition is.                *)
DecomposeAnyIte(decodes, e) ==
    LET glue == SelectSeq(SubTerms(e), LAMBDA n : n.k = "ite")
        rest == {n.a[3] : n \in Range(glue)} \ Range(glue)
        default == IF rest = {} THEN e ELSE CHOOSE n \in rest : TRUE
        at(d) == SelectSeq(glue, LAMBDA n : n.a[1] = d)
    IN [i \in DOMAIN decodes |->
          IF at(decodes[i]) = <<>> THEN default ELSE at(decodes[i])[1].a[2]]

DecomposeExpr(decodes, e) ==
    LET glue == SelectSeq(SubTerms(e), LAMBDA n : n.k = "ite" /\ n.a[1] \in Range(decodes))
        rest == {n.a[3] : n \in Range(glue)} \ Range(glue)
        default == IF rest = {} THEN e ELSE CHOOSE n \in rest : TRUE
        at(d) == SelectSeq(glue, LAMBDA n : n.a[1] = d)
    IN [i \in DOMAIN decodes |->
          IF at(decodes[i]) = <<>> THEN default ELSE at(decodes[i])[1].a[2]]

PortInstructions(t, names, decodes, nexts) ==
    LET instrs == FoldLeft(LAMBDA acc, i :
                      set_decode(NewInstr(acc, "top", names[i]), "top", names[i], decodes[i]),
                    t, [i \in DOMAIN names |-> i])
        port(acc, v) ==
          LET next == IF v.v \in DOMAIN nexts THEN nexts[v.v] ELSE v
              parts == DecomposeExpr(decodes, next)
          IN FoldLeft(LAMBDA u, i : set_update(u, "top", names[i], v.v, parts[i]),
               acc, [i \in DOMAIN names |-> i])
    IN FoldLeft(port, instrs, t.ilas["top"].states)

PortInits(t, inits) ==
    FoldLeft(LAMBDA acc, v :
        IF v.v \in DOMAIN inits THEN AddInit(acc, "top", Op("eq", <<v, inits[v.v]>>)) ELSE acc,
      t, t.ilas["top"].states)
============================================================================
