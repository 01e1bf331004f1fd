----------------------------- MODULE MCCommDiag -----------------------------
(* Problems for the equivalence checker: one scenario that may break the   *)
(* relation or leave the flush, and one benign scenario that may be slower. *)
EXTENDS CommDiag

NotGiven == -1
Never == MaxFrame + 1
At(f) == IF f = Never THEN {} ELSE {f}

\* both paths of a model complete in the same frame
Cm(a, b) == [u \in Uid |-> IF ModelOf(u) = "A" THEN At(a) ELSE At(b)]
Fl(a) == [u \in Uid |-> IF ModelOf(u) = "A" THEN a ELSE Never]

Slow == {[cm |-> Cm(a, b), fl |-> Fl(Never), assm |-> TRUE, prop |-> TRUE] :
           a \in Frame, b \in 0 .. MaxFrame + 1}

Suspect == {[cm |-> [Cm(a, b) EXCEPT !["A_NEW"] = At(n)], fl |-> Fl(l),
             assm |-> x, prop |-> y] :
              a \in 0 .. MaxFrame + 1, b \in Frame, n \in Frame, l \in {1, Never},
              x \in BOOLEAN, y \in BOOLEAN}

TwoScenarios == {[s \in Scen |-> IF s = 1 THEN p ELSE q] : p \in Suspect, q \in Slow}

\* completion sets of any size, for the one-shot check
Often == {[cm |-> [u \in Uid |-> IF u = "A_OLD" THEN c ELSE IF u = "A_NEW" THEN d ELSE At(b)],
           fl |-> Fl(l), assm |-> TRUE, prop |-> y] :
            c \in SUBSET Frame, d \in SUBSET Frame, b \in Frame,
            l \in {1, Never}, y \in BOOLEAN}
Even == {q \in Slow : q.cm["A_OLD"] = q.cm["B_OLD"] /\ q.cm["A_OLD"] # At(0)}
OftenScenarios == {[s \in Scen |-> IF s = 1 THEN p ELSE q] : p \in Often, q \in Even}
AllScenarios == TwoScenarios \cup OftenScenarios
=============================================================================
