------------------------------- MODULE ScGen -------------------------------
(***************************************************************************)
(* The C++ functions that the two SystemC generators write for the         *)
(* instructions of an ILA, and what running them does.                     *)
(*                                                                         *)
(* ILAtor renders every function from scratch, with local variables: a     *)
(* function computes the value of its expressions.  IlaSim writes one      *)
(* statement per operator node; the value of a node is kept in a member    *)
(* c_<id> of the simulator, shared by all functions, and a node that has   *)
(* been written in this function is not written again.  What its functions *)
(* compute therefore depends on the order of the statements.               *)
(***************************************************************************)
EXTENDS IlaExpr, SequencesExt, FiniteSetsExt

----------------------------------------------------------------------------
(* Both generators give up on a load from anything but a variable, ILAtor  *)
(* in the updates of memories only.                                        *)
HasLoadFromStore(nodes, e) ==
    \E i \in Reach(nodes)[e] : nodes[i].k = "load" /\ is_op(nodes[nodes[i].a[1]])

OpsOf(m, e) == {i \in Reach(m.nodes)[e] : is_op(m.nodes[i])}

Updates(m) == {u \in (DOMAIN m.instrs) \X States : u[2] \in DOMAIN m.instrs[u[1]].upd}

Root(m, u) == m.instrs[u[1]].upd[u[2]]

ToItself(m, u) == LET n == m.nodes[Root(m, u)] IN n.k = "var" /\ n.v = u[2]

load_from_store_analysis(m) ==
    \E u \in Updates(m) : HasLoadFromStore(m.nodes, Root(m, u))

----------------------------------------------------------------------------
(* ILAtor.  A memory update collects the writes in a temporary map, the    *)
(* innermost store first, so that an outer store to the same word stays;   *)
(* a memory ITE is a function of its own that runs one branch.             *)

(* Mutant: the store is visited before its base.                           *)
MemoryUpdateOuterFirst(nodes, v) ==
    LET tmp[i \in DOMAIN nodes] ==
          LET a == nodes[i].a
          IN CASE nodes[i].k = "store" ->
                    tmp[a[1]] @@ (v[a[2]] :> v[a[3]])
               [] nodes[i].k = "ite" -> IF v[a[1]] = 1 THEN tmp[a[2]] ELSE tmp[a[3]]
               [] OTHER -> <<>>
    IN tmp

GenerateMemoryUpdate(nodes, v) ==
    LET tmp[i \in DOMAIN nodes] ==
          LET a == nodes[i].a
          IN CASE nodes[i].k = "store" ->
                    (v[a[2]] :> v[a[3]]) @@ tmp[a[1]]
               [] nodes[i].k = "ite" -> IF v[a[1]] = 1 THEN tmp[a[2]] ELSE tmp[a[3]]
               [] OTHER -> <<>>
    IN tmp

(* The update function: the next values go to holders, then to the states; *)
(* of a memory only the words in the map are assigned.                     *)
GenerateInstrContent(m, ins, s, x) ==
    LET v == Val(m.nodes, s, x)
    IN [w \in States |->
          IF w \notin DOMAIN ins.upd THEN s[w]
          ELSE IF w = "m"
               THEN LET tmp == GenerateMemoryUpdate(m.nodes, v)[ins.upd.m]
                    IN [a \in Words |-> IF a \in DOMAIN tmp THEN tmp[a] ELSE s.m[a]]
               ELSE v[ins.upd[w]]]

----------------------------------------------------------------------------
(* IlaSim: writing the functions.  DepthFirstVisit visits the arguments of *)
(* a node before the node, each occurrence.                                *)
PostOrder(nodes) ==
    LET po[i \in DOMAIN nodes] ==
          FlattenSeq([j \in DOMAIN nodes[i].a |-> po[nodes[i].a[j]]]) \o <<i>>
    IN po

MemIte(nodes, i) == nodes[i].k = "ite" /\ i \in MemNodes(nodes)

(* What the generator remembers: the nodes written in this function        *)
(* (searched_id_set_), the memory ITEs that have a function                *)
(* (defined_store_ite_set_) and those that have been called                *)
(* (store_ite_set_), the functions of the ITEs and the statements of the   *)
(* function being written.                                                 *)
NoFunctions == [searched |-> {}, defined |-> {}, called |-> {}, ite |-> <<>>, out |-> <<>>]

(* One statement, for an operator node met the first time in a function.   *)
(* Of a memory ITE only the first call is ever written.                    *)
dfs_kernel(m, g, i) ==
    IF ~is_op(m.nodes[i]) \/ i \in g.searched THEN g
    ELSE LET h == [g EXCEPT !.searched = @ \cup {i}]
         IN IF ~MemIte(m.nodes, i) THEN [h EXCEPT !.out = Append(@, i)]
            ELSE IF i \in g.called THEN h
            ELSE [h EXCEPT !.out = Append(@, i), !.called = @ \cup {i}]

DfsKernel(m, g, e) ==
    FoldLeft(LAMBDA h, i : dfs_kernel(m, h, i), g, PostOrder(m.nodes)[e])

(* The function of a memory ITE: its condition, then the statements of its *)
(* two branches.                                                           *)
mem_state_update_decl(m, g, i) ==
    IF ~MemIte(m.nodes, i) \/ i \in g.defined THEN g
    ELSE LET a == m.nodes[i].a
             c == DfsKernel(m, [g EXCEPT !.defined = @ \cup {i}, !.out = <<>>], a[1])
             t == DfsKernel(m, [c EXCEPT !.out = <<>>], a[2])
             f == DfsKernel(m, [t EXCEPT !.out = <<>>], a[3])
         IN [f EXCEPT !.ite = (i :> [cond |-> c.out, then |-> t.out, else |-> f.out]) @@ @]

(* The update function of one state; one that is updated to itself has     *)
(* none.                                                                   *)
create_state_update(m, g, u) ==
    LET e == Root(m, u)
        decl == FoldLeft(LAMBDA h, i : mem_state_update_decl(m, h, i),
                         [g EXCEPT !.searched = {}],
                         IF u[2] = "m" THEN PostOrder(m.nodes)[e] ELSE <<>>)
        body == DfsKernel(m, [decl EXCEPT !.out = <<>>], e)
    IN IF ToItself(m, u) THEN g ELSE body

(* All functions: instructions in order, states in the order of their      *)
(* names (updated_states), each after the ones before it.                  *)
UpdateOrder(m) ==
    SelectSeq(FlattenSeq([i \in DOMAIN m.instrs |-> <<<<i, "m">>, <<i, "q">>, <<i, "r">>>>]),
              LAMBDA u : u \in Updates(m))

sim_gen_state_update(m) ==
    LET order == UpdateOrder(m)
        after[k \in 0..Len(order)] ==
          IF k = 0 THEN [g |-> NoFunctions, fun |-> <<>>]
          ELSE LET g == create_state_update(m, after[k - 1].g, order[k])
               IN [g |-> g, fun |-> (order[k] :> g.out) @@ after[k - 1].fun]
    IN [ite |-> after[Len(order)].g.ite, fun |-> after[Len(order)].fun]

----------------------------------------------------------------------------
(* IlaSim: running them.  The simulator is its members c_<id> and the map  *)
(* of the memory update that is being computed.                            *)
ArgVal(m, c, i, s, x) ==
    IF is_op(m.nodes[i]) THEN c[i] ELSE LeafVal(m.nodes[i], s, x)

RECURSIVE RunStmts(_, _, _, _, _, _)
RunStmts(m, prog, stmts, sim, s, x) ==
    FoldLeft(LAMBDA y, i :
        LET n == m.nodes[i]
            a == [j \in DOMAIN n.a |-> ArgVal(m, y.c, n.a[j], s, x)]
            f == prog.ite[i]
            z == RunStmts(m, prog, f.cond, y, s, x)
        IN CASE MemIte(m.nodes, i) ->
                  RunStmts(m, prog,
                           IF ArgVal(m, z.c, n.a[1], s, x) = 1 THEN f.then ELSE f.else,
                           z, s, x)
             [] n.k = "store" -> [y EXCEPT !.map = (a[2] :> a[3]) @@ @]
             [] OTHER -> [y EXCEPT !.c[i] = Apply(n.k, a)],
        sim, stmts)

(* The decode function: the valid condition of the host, then the decode.  *)
create_decode(m, ins, c, s, x) ==
    LET v == Val(m.nodes, s, x)
        valid == IF ins.top THEN m.valid ELSE m.child.valid
        seen == OpsOf(m, valid) \cup (IF v[valid] = 1 THEN OpsOf(m, ins.decode) ELSE {})
    IN [i \in DOMAIN c |-> IF i \in seen THEN v[i] ELSE c[i]]

(* The initial values of a valid child, assigned to its states.            *)
create_init(m, s, x) ==
    IF Holds(m, m.child.valid, s, x) THEN Assign(m, m.child.inits, s, x) ELSE s

(* An instruction: the update functions one after the other, then the      *)
(* states.  Returns the members and the new state.                         *)
execute_instruction(m, prog, i, c, s, x) ==
    LET order == SelectSeq(UpdateOrder(m), LAMBDA u : u[1] = i)
        after[k \in 0..Len(order)] ==
          IF k = 0 THEN [c |-> c, map |-> <<>>, new |-> s]
          ELSE LET u == order[k]
                   y == RunStmts(m, prog, prog.fun[u], [c |-> after[k - 1].c, map |-> <<>>], s, x)
                   e == Root(m, u)
                   val == IF u[2] = "m"
                          THEN [a \in Words |-> IF a \in DOMAIN y.map THEN y.map[a] ELSE s.m[a]]
                          ELSE ArgVal(m, y.c, e, s, x)
               IN IF ToItself(m, u) THEN after[k - 1]
                  ELSE [c |-> y.c, map |-> y.map, new |-> [after[k - 1].new EXCEPT ![u[2]] = val]]
    IN [c |-> after[Len(order)].c, st |-> after[Len(order)].new]

----------------------------------------------------------------------------
(* The ILAs for which IlaSim is claimed to be right: a memory ITE belongs  *)
(* to one update, and an operator node that a branch of it computes is     *)
(* used nowhere else in that update.                                       *)
SimSupported(m) ==
    /\ ~load_from_store_analysis(m)
    /\ \A u \in Updates(m), i \in DOMAIN m.nodes :
         (MemIte(m.nodes, i) /\ i \in Reach(m.nodes)[Root(m, u)]) =>
            LET a == m.nodes[i].a
                below == OpsOf(m, a[2]) \cup OpsOf(m, a[3])
            IN /\ \A w \in Updates(m) \ {u} : i \notin Reach(m.nodes)[Root(m, w)]
               /\ OpsOf(m, a[2]) \cap OpsOf(m, a[3]) = {}
               /\ \A j \in Reach(m.nodes)[Root(m, u)] \ (below \cup {i}) :
                    Range(m.nodes[j].a) \cap below = {}
               /\ Range(<<a[1]>>) \cap below = {}

IlatorSupported(m) == ~load_from_store_analysis(m)
============================================================================
