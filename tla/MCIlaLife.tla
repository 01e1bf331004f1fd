----------------------------- MODULE MCIlaLife -----------------------------
(***************************************************************************)
(* Trees for IlaLife: a top with a register, a memory and an input, a      *)
(* child with a register of its own, sometimes a grandchild; and imported  *)
(* abstractions.                                                           *)
(***************************************************************************)
EXTENDS IlaLife

Req(op, n, name, s, e) ==
    [op |-> op, n |-> n, name |-> name, s |-> s, e |-> e, abs |-> NoAbs]

r == Var("r", <<1, "top">>)
m == Var("m", <<1, "top">>)
x == Var("x", <<1, "top">>)
q == Var("q", <<1, "sub">>)
zero == Const(0)
one == Const(1)

Not(e) == Op("not", <<e>>)
Ite(c, t, e) == Op("ite", <<c, t, e>>)
Store(mem, a, d) == Op("store", <<mem, a, d>>)
Load(mem, a) == Op("load", <<mem, a>>)

NewInstrWith(n, i, d, ups) ==
    <<Req("NewInstr", n, i, "", Null), Req("SetDecode", n, i, "", d)>>
    \o [j \in DOMAIN ups |-> Req("SetUpdate", n, i, ups[j][1], ups[j][2])]

Top == <<Req("NewState", "top", "r", "", Null), Req("NewState", "top", "m", "", Null),
         Req("NewInput", "top", "x", "", Null)>>

Sub(valid) ==
    <<Req("NewChild", "top", "sub", "", Null), Req("NewState", "sub", "q", "", Null),
      Req("SetValid", "sub", "", "", valid)>>

TopInstrs(mem) ==
    NewInstrWith("top", "I0", x, <<<<"r", Ite(x, r, zero)>>, <<"m", mem>>>>)
    \o NewInstrWith("top", "I1", Not(x), <<<<"r", Load(Store(m, zero, r), r)>>,
                                           <<"r", zero>>>>)

SubInstrs(d) ==
    NewInstrWith("sub", "J0", d, <<<<"q", Op("xor", <<q, x>>)>>, <<"r", q>>>>)
    \o NewInstrWith("sub", "J1", Not(q), <<<<"q", r>>>>)

MemTerms ==
    { Ite(r, Store(m, zero, x), m), Ite(r, m, Store(m, r, x)),
      Ite(x, Store(m, r, one), Store(m, zero, x)),
      Ite(r, Ite(x, Store(m, one, r), m), m),
      Ite(r, Store(Store(m, zero, x), one, r), Store(m, r, x)) }

Set(n, v) == <<Req("SetValid", n, "", "", v)>>

(* A tree without children, with any valid and memory term.                *)
FlatScripts ==
    {Top \o Set("top", v) \o <<Req("AddInit", "top", "", "", Op("eq", <<r, zero>>)),
                               Req("SetFetch", "top", "", "", Load(m, r))>> \o TopInstrs(mem)
        : v \in {one, r}, mem \in MemTerms}

(* A child with any valid condition and decode, with and without program.  *)
SubScripts ==
    {Top \o Set("top", one) \o Sub(v) \o TopInstrs(mem) \o SubInstrs(d) \o p
        : v \in {one, q, Op("and", <<q, r>>)}, mem \in {Ite(r, Store(m, zero, x), m)},
          d \in {q, Op("and", <<q, x>>)},
          p \in {<<>>, <<Req("SetProgram", "top", "I0", "sub", Null),
                         Req("AddInit", "sub", "", "", q)>>}}

(* A state of the parent that comes after the child, an object, a name     *)
(* used in parent and child, a top without valid condition, a grandchild.  *)
OddScripts ==
    { <<Top[1], Top[3]>> \o Set("top", one) \o Sub(q) \o <<Top[2]>> \o TopInstrs(Store(m, r, x)) \o SubInstrs(q),
      <<Req("NewStateObject", "top", "r", "", Null), Top[2],
        Req("NewInputObject", "top", "x", "", Null)>> \o Set("top", one) \o Sub(q)
        \o NewInstrWith("top", "I0", Var("x", NoHost), <<<<"r", Not(Var("r", NoHost))>>>>),
      Top \o Set("top", one) \o Sub(q) \o TopInstrs(m) \o NewInstrWith("sub", "I0", q, <<<<"q", zero>>>>),
      Top \o Set("top", one) \o <<Req("NewChild", "top", "sub", "", Null)>> \o Set("sub", r)
        \o NewInstrWith("top", "I0", x, <<<<"r", x>>>>) \o NewInstrWith("sub", "J0", Not(x), <<<<"r", x>>>>),
      Top \o TopInstrs(Ite(r, m, m)) \o NewInstrWith("top", "I0", r, <<>>),
      Top \o Set("top", one) \o Sub(q) \o TopInstrs(m) \o SubInstrs(q)
        \o <<Req("NewChild", "sub", "deep", "", Null), Req("SetValid", "deep", "", "", q)>>
        \o NewInstrWith("deep", "K0", Op("and", <<q, x>>), <<<<"r", q>>, <<"m", Ite(q, Store(m, r, x), m)>>>>)
        \o <<Req("SetProgram", "sub", "J0", "deep", Null)>> }

(* Abstractions: chains of ITEs over the decodes, complete or not.         *)
Abstractions ==
    {[names |-> <<"I.0", "I.1">>, decodes |-> <<Op("and", <<x, r>>), Not(x)>>,
      nexts |-> nx, inits |-> [y \in {"r"} |-> zero]]
        : nx \in { [r |-> Ite(Not(x), zero, Ite(Op("and", <<x, r>>), Not(r), r))],
                   [r |-> Ite(Op("and", <<x, r>>), zero, r),
                    m |-> Ite(Not(x), Store(m, r, x), m)],
                   [r |-> Ite(Not(x), zero, Ite(Load(m, r), zero, r))],
                   [r |-> Not(r), m |-> Ite(Not(x), Ite(r, Store(m, r, x), m), m)] }}

ImportScripts ==
    {Top \o Set("top", one) \o <<[Req("Convert", "top", "", "", Null) EXCEPT !.abs = a]>>
        : a \in Abstractions}

MCScripts == FlatScripts \cup SubScripts \cup OddScripts \cup ImportScripts

MCEdits == [r |-> Not(r)]
============================================================================
