------------------------------- MODULE MCMcm -------------------------------
(***************************************************************************)
(* The litmus programs the unroller is checked on: store buffering and     *)
(* message passing, the ones of the repository's own tests, with a fence,  *)
(* with atomic updates and with a conditional store, a core that reads its *)
(* own store, templates whose order is left open, and programs with        *)
(* variables that the constraints do not tie to the execution.  An atomic  *)
(* update of the memory is a nested store.                                 *)
(***************************************************************************)
EXTENDS Mcm

C(v) == [k |-> "const", v |-> v]
V(n) == [k |-> "var", n |-> n]
Inc(n) == [k |-> "inc", n |-> n]
Store(l, v) == [name |-> "store", decode |-> {}, update |-> (l :> C(v))]
StoreIf(r, l, v) == [name |-> "store", decode |-> {[n |-> r, v |-> 1]}, update |-> (l :> C(v))]
Load(r, l) == [name |-> "load", decode |-> {}, update |-> (r :> V(l))]
LoadBoth(r, l, q, m) == [name |-> "load", decode |-> {}, update |-> (r :> V(l)) @@ (q :> V(m))]
Fence == [name |-> "fence", decode |-> {}, update |-> <<>>]
AtomicAdd(r, l) == [name |-> "atomic_add", decode |-> {},
                    update |-> (l :> Inc(l)) @@ (r :> V(l))]
AddReg(r) == [name |-> "addi", decode |-> {}, update |-> (r :> Inc(r))]
Move(r, s) == [name |-> "move", decode |-> {}, update |-> (r :> V(s))]

Zero(ns) == {[n |-> n, v |-> 0] : n \in ns}
Ila(states, init, ordered, tmpl) ==
  [states |-> states, init |-> Zero(init), ordered |-> ordered, tmpl |-> tmpl]
At(c, n, v) == [c |-> c, n |-> n, v |-> v]
OnStep(c, p, n, v) == [c |-> c, p |-> p, n |-> n, v |-> v]

\* Both models, with shared bit vectors or with a shared memory.
Litmus(kinds, models, max, queries, t1, t2, finals, singles) ==
  {[mm |-> m, kind |-> k, ila |-> ("T1" :> t1) @@ ("T2" :> t2),
    finals |-> finals, singles |-> singles,
    max |-> max, queries |-> queries] : k \in kinds, m \in models}

SB == Litmus({"bv", "mem"}, {"sc", "tso"}, 1, 1,
        Ila({"x", "y", "r1"}, {"x", "y", "r1"}, TRUE, <<Store("x", 1), Load("r1", "y")>>),
        Ila({"x", "y", "r2"}, {"x", "r2"}, TRUE, <<Store("y", 1), Load("r2", "x")>>),
        {At("T1", "r1", 0), At("T2", "r2", 1)}, {})

MP == Litmus({"mem"}, {"tso"}, 1, 2,
        Ila({"x", "y"}, {"x"}, TRUE, <<Store("x", 1), Store("y", 1)>>),
        Ila({"x", "y", "r1", "r2"}, {"y", "r1", "r2"}, TRUE, <<Load("r1", "y"), Load("r2", "x")>>),
        {At("T1", "x", 1)}, {OnStep("T2", 2, "r1", 1)})

Fenced == Litmus({"bv"}, {"tso"}, 1, 1,
        Ila({"x", "y", "r1"}, {"x", "y", "r1"}, TRUE, <<Store("x", 1), Fence, Load("r1", "y")>>),
        Ila({"x", "y", "r2"}, {"r2"}, TRUE, <<Store("y", 1), Fence, Load("r2", "x")>>),
        {}, {})

Atomic == Litmus({"bv", "mem"}, {"sc", "tso"}, 2, 1,
        Ila({"x", "r1"}, {"x", "r1"}, TRUE, <<AtomicAdd("r1", "x")>>),
        Ila({"x", "r2"}, {"r2"}, TRUE, <<Store("x", 1), AtomicAdd("r2", "x")>>),
        {}, {OnStep("T2", 2, "x", 1)})

Conditional == Litmus({"bv"}, {"sc", "tso"}, 1, 1,
        Ila({"x", "y", "r1"}, {"x", "y", "r1"}, TRUE, <<Load("r1", "x"), StoreIf("r1", "y", 1)>>),
        Ila({"x", "y", "r2"}, {"r2"}, TRUE, <<Load("r2", "y"), StoreIf("r2", "x", 1)>>),
        {At("T1", "r1", 1)}, {})

OwnRead == Litmus({"mem"}, {"tso"}, 2, 1,
        Ila({"x", "r1"}, {"x", "r1"}, TRUE, <<Store("x", 1), Load("r1", "x")>>),
        Ila({"x", "r2"}, {"r2"}, TRUE, <<Store("x", 2), Load("r2", "x")>>),
        {}, {OnStep("T1", 2, "r1", 0)})

Unordered == Litmus({"bv"}, {"sc", "tso"}, 1, 1,
        Ila({"x", "r1"}, {"x", "r1"}, FALSE, <<AddReg("r1"), Load("r1", "x"), Store("x", 1)>>),
        Ila({"x", "r2", "r3"}, {"r2", "r3"}, TRUE, <<Load("r2", "x"), Move("r3", "r2")>>),
        {At("T1", "r1", 1)}, {OnStep("T2", 2, "r3", 0)})

OpenFence == Litmus({"mem"}, {"tso"}, 1, 1,
        Ila({"x", "r1"}, {"x", "r1"}, FALSE, <<Store("x", 1), Fence>>),
        Ila({"x", "r2"}, {"r2"}, TRUE, <<Load("r2", "x")>>),
        {}, {})

\* The variables that no constraint ties: Tied is false of some of the queries.
Loose == Litmus({"bv"}, {"sc"}, 1, 1,
        Ila({"x", "r1", "r2"}, {"r1", "r2"}, TRUE, <<Load("r1", "x")>>),
        Ila({"x", "r3"}, {"x", "r3"}, TRUE, <<Store("x", 1)>>),
        {At("T1", "x", 0)}, {OnStep("T2", 1, "x", 1)})

Unread == Litmus({"bv"}, {"sc"}, 1, 1,
        Ila({"x", "r1", "r2"}, {"r1", "r2"}, TRUE, <<Load("r1", "x"), StoreIf("r1", "r2", 1)>>),
        Ila({"x"}, {"x"}, TRUE, <<Store("x", 1)>>),
        {At("T1", "r2", 1)}, {})

TwoLoads == Litmus({"mem"}, {"sc"}, 1, 1,
        Ila({"x", "y", "r1", "r2"}, {"x", "y", "r1", "r2"}, TRUE, <<LoadBoth("r1", "x", "r2", "y")>>),
        Ila({"x", "y"}, {}, TRUE, <<Store("x", 1), Store("y", 1)>>),
        {}, {})

Unloaded == Litmus({"mem"}, {"sc"}, 1, 1,
        Ila({"x", "y", "r1"}, {"x", "y", "r1"}, TRUE, <<Load("r1", "x")>>),
        Ila({"x", "y"}, {}, TRUE, <<Store("x", 1)>>),
        {}, {OnStep("T1", 1, "y", 1)})

MCPrograms == SB \cup MP \cup Fenced \cup Atomic \cup Conditional \cup OwnRead
                \cup Unordered \cup OpenFence \cup Loose \cup Unread \cup TwoLoads \cup Unloaded
=============================================================================
