------------------------------ MODULE IlaExpr ------------------------------
(***************************************************************************)
(* Instruction-level abstractions as data, and the meaning of their        *)
(* expressions.                                                            *)
(*                                                                         *)
(* Values are one bit wide, a memory has two words.  Expressions are the   *)
(* nodes of a DAG, numbered so that the arguments of a node come first.    *)
(* An ILA is a record: nodes; valid, the valid condition of the top ILA;   *)
(* init, its initial values; instrs, the instructions of the tree, each    *)
(* with its host, decode and updates; child, the valid condition and the   *)
(* initial values of the child ILA.                                        *)
(***************************************************************************)
EXTENDS Integers, Sequences, FiniteSets

Bit == 0..1
Words == 0..1
Regs == {"r", "q"}
States == Regs \cup {"m"}
StateSpace == [r : Bit, q : Bit, m : [Words -> Bit]]

----------------------------------------------------------------------------
(* Nodes.                                                                  *)
Var(v) == [k |-> "var", v |-> v, a |-> <<>>]
Const(c) == [k |-> "const", v |-> c, a |-> <<>>]
Op(f, args) == [k |-> f, v |-> "", a |-> args]
Load(m, a) == Op("load", <<m, a>>)
Store(m, a, d) == Op("store", <<m, a, d>>)
Ite(c, t, e) == Op("ite", <<c, t, e>>)

is_op(n) == n.k \notin {"var", "const"}

(* is_mem: the sort of a node; an ITE has the sort of its branches.        *)
MemNodes(nodes) ==
    LET mem[i \in DOMAIN nodes] ==
          \/ nodes[i].k = "store"
          \/ nodes[i].k = "var" /\ nodes[i].v = "m"
          \/ nodes[i].k = "ite" /\ mem[nodes[i].a[2]]
    IN {i \in DOMAIN nodes : mem[i]}

(* The value an operator node gives to the values of its arguments.        *)
Apply(k, x) ==
    CASE k = "not"   -> 1 - x[1]
      [] k = "and"   -> x[1] * x[2]
      [] k = "or"    -> x[1] + x[2] - x[1] * x[2]
      [] k = "xor"   -> (x[1] + x[2]) % 2
      [] k = "eq"    -> IF x[1] = x[2] THEN 1 ELSE 0
      [] k = "load"  -> x[1][x[2]]
      [] k = "store" -> [x[1] EXCEPT ![x[2]] = x[3]]
      [] k = "ite"   -> IF x[1] = 1 THEN x[2] ELSE x[3]

LeafVal(n, s, x) ==
    CASE n.k = "const" -> n.v
      [] n.k = "var"   -> IF n.v = "x" THEN x ELSE s[n.v]

Val(nodes, s, x) ==
    LET v[i \in DOMAIN nodes] ==
          IF is_op(nodes[i])
          THEN Apply(nodes[i].k, [j \in DOMAIN nodes[i].a |-> v[nodes[i].a[j]]])
          ELSE LeafVal(nodes[i], s, x)
    IN v

Holds(m, node, s, x) == Val(m.nodes, s, x)[node] = 1

(* The nodes an expression reaches, itself included.                       *)
Reach(nodes) ==
    LET r[i \in DOMAIN nodes] ==
          {i} \cup UNION {r[nodes[i].a[j]] : j \in DOMAIN nodes[i].a}
    IN r

----------------------------------------------------------------------------
(* Instructions.  The host of an instruction is the top ILA or its child,  *)
(* and each has its valid condition; an instruction executes when both its *)
(* host is valid and its decode holds.                                     *)
Valid(m, ins, s, x) == Holds(m, IF ins.top THEN m.valid ELSE m.child.valid, s, x)

Enabled(m, ins, s, x) == Valid(m, ins, s, x) /\ Holds(m, ins.decode, s, x)

Assign(m, target, s, x) ==
    [v \in States |->
        IF v \in DOMAIN target THEN Val(m.nodes, s, x)[target[v]] ELSE s[v]]

InitHolds(m, s) == Assign(m, m.init, s, 0) = s
============================================================================
