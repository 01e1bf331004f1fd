----------------------------- MODULE MCGenStep -----------------------------
(***************************************************************************)
(* ILAs for GenStep.  One instruction shifts the registers and updates the *)
(* memory by an expression of up to three stores and ITEs; a second one    *)
(* loads, and shares nodes with the first; a child clears its own flag.    *)
(***************************************************************************)
EXTENDS GenStep

Base == <<Var("r"), Var("q"), Var("x"), Var("m"), Const(0), Const(1),
          Op("not", <<3>>), Op("xor", <<1, 3>>), Load(4, 3)>>

(* Memory nodes over the memory nodes b, which follow the base.            *)
Stores(b) == {Store(n, a, d) : n \in b, a \in {1, 6}, d \in {1, 8}}
Ites(b) == {Ite(c, t, e) : c \in {1, 2}, t \in b, e \in b}

MemTails ==
    {<<n10>> : n10 \in Stores({4})}
    \cup {<<Store(4, 5, 8), n11>> : n11 \in Stores({10}) \cup Ites({4, 10})}
    \cup {<<Store(4, 5, 8), Ite(2, 10, 4), n12>> : n12 \in Stores({11}) \cup {Ite(1, 11, 10)}}
    \cup {<<Store(4, 5, 8), Store(4, 6, 1), n12>> : n12 \in {Ite(1, 10, 11), Ite(2, 11, 4)}}

Instr(top, decode, upd) == [top |-> top, decode |-> decode, upd |-> upd]

Shift(root) == [r |-> 8, q |-> 1, m |-> root]

Ladders(root) ==
    { <<Instr(TRUE, 3, Shift(root))>>,
      <<Instr(TRUE, 3, Shift(root)), Instr(TRUE, 7, [r |-> 9, m |-> 10])>>,
      <<Instr(TRUE, 3, Shift(root)), Instr(TRUE, 1, [m |-> root, r |-> 8])>>,
      <<Instr(TRUE, 3, Shift(root)), Instr(FALSE, 6, [q |-> 5, r |-> 1])>> }

NoChild == [valid |-> 5, inits |-> <<>>]
Child == [valid |-> 2, inits |-> [r |-> 6]]

Ila(t, valid, init, l) ==
    [nodes |-> Base \o t, valid |-> valid, init |-> init, instrs |-> l,
     child |-> IF \E i \in DOMAIN l : ~l[i].top THEN Child ELSE NoChild]

(* All memory updates with a valid that holds and no initial values, and   *)
(* one of them with the other valid conditions and initial values.         *)
MCModels ==
    UNION {{Ila(t, 6, <<>>, l) : l \in Ladders(9 + Len(t))} : t \in MemTails}
    \cup {Ila(<<Store(4, 5, 8)>>, va, ini, l)
            : va \in {2, 6}, ini \in {<<>>, [q |-> 6]}, l \in Ladders(10)}
============================================================================
