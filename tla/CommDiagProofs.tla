--------------------------- MODULE CommDiagProofs ---------------------------
(***************************************************************************)
(* The answers of the commuting-diagram check, for every set of scenarios, *)
(* every bound, every step and both orders of unrolling.                   *)
(***************************************************************************)
EXTENDS CommDiag, FiniteSetTheorems, TLAPS

-----------------------------------------------------------------------------
(* The inductive invariant.                                                *)

\* the assignment of a scenario in which both representatives are real
Real(s) == [s |-> s, ro |-> sc[s].assm, rn |-> sc[s].prop]

InLoop == pc \in {"head", "check", "suff"}
NoFirst == ~\E s \in Scen : Honest(s) /\ Breaks(s) /\ CompleteBy(s, Min)

\* The loop of the incremental checks: the paths not fixed yet are at the loop
\* bound, and the query is asked on a copy of the level below it.
LoopShape ==
  InLoop =>
    /\ func \in Funcs \cap {"IncEqCheck", "IncCheck"}
    /\ i >= Min /\ result = "none"
    /\ \A u \in Uid : hi[u] <= i \/ (pc = "suff" /\ hi[u] = i + Step)
    /\ pc = "check" => i <= Max /\ Len(stack) > 1 /\ stack[Len(stack) - 1] = Top

\* An honest scenario keeps its real assignment: always if it respects the
\* relation, up to the first query otherwise.
HonestInv ==
  InLoop => \A s \in Scen :
    Honest(s) /\ (~Breaks(s) \/ (pc # "suff" /\ i = Min)) => Real(s) \in Top

\* The first query is asked with every path at the first bound, and if z3 did
\* not give up it has found everything there is within it.
FirstInv ==
  /\ pc \in {"head", "check"} /\ i = Min => \A u \in Uid : hi[u] = Min
  /\ (pc = "suff" \/ (InLoop /\ i > Min)) /\ ~gaveup => NoFirst

\* IncEqCheck has marked every frame a completion is looked for in, and one
\* step ahead for the paths that may still grow.
MarkInv ==
  InLoop /\ func = "IncEqCheck" =>
    /\ pc # "head" \/ i > Min => \A u \in Uid : 0 .. hi[u] \subseteq marked[u]
    /\ pc # "head" => \A u \in Uid : hi[u] = i => 0 .. i + Step \subseteq marked[u]
    /\ pc = "check" => \A a \in Top : MarksHold(a, marked)

\* What is left in the solver flushes up to the frames looked at.
FlushInv ==
  InLoop /\ func = "IncEqCheck" =>
    \A a \in Top, u \in Uid :
      /\ sc[a.s].fl[u] >= hi[u]
      /\ pc # "head" /\ hi[u] = i => sc[a.s].fl[u] >= i + Step

\* The solver is new when a check starts.
IdleInv == pc = "idle" => stack = <<Assignment>> /\ result = "none"

Answers == NoFalseAlarm /\ FirstBoundCovered /\ EqCheckSound

DiagInv ==
  /\ TypeOK /\ LoopShape /\ HonestInv /\ FirstInv /\ MarkInv /\ FlushInv /\ IdleInv
  /\ Answers

-----------------------------------------------------------------------------
(* The solver's stack.                                                     *)

\* Replacing the top level.
LEMMA SetTopProps ==
  ASSUME NEW S, NEW stk \in Seq(S), Len(stk) > 0, NEW X \in S,
         NEW t, t = [stk EXCEPT ![Len(stk)] = X]
  PROVE  /\ t \in Seq(S) /\ Len(t) = Len(stk) /\ t[Len(t)] = X
         /\ \A k \in 1 .. Len(stk) - 1 : t[k] = stk[k]
OBVIOUS

\* push copies the top level.
LEMMA PushProps ==
  ASSUME NEW S, NEW stk \in Seq(S), Len(stk) > 0
  PROVE  /\ Push(stk) \in Seq(S) /\ Len(Push(stk)) = Len(stk) + 1
         /\ Push(stk)[Len(stk) + 1] = stk[Len(stk)]
         /\ Push(stk)[Len(stk)] = stk[Len(stk)]
BY DEF Push

\* pop returns to the level below.
LEMMA PopProps ==
  ASSUME NEW S, NEW stk \in Seq(S), Len(stk) > 1
  PROVE  /\ Pop(stk) \in Seq(S) /\ Len(Pop(stk)) = Len(stk) - 1
         /\ Pop(stk)[Len(stk) - 1] = stk[Len(stk) - 1]
BY DEF Pop

-----------------------------------------------------------------------------
(* Honest scenarios.                                                       *)

\* The real assignment of an honest scenario satisfies all marks, whichever
\* frames are marked.
LEMMA RealMarks ==
  ASSUME NEW s \in Scen, sc \in [Scen -> Scenario], Honest(s), NEW m
  PROVE  MarksHold(Real(s), m)
<1>1. Real(s).s = s /\ Real(s).ro = sc[s].assm /\ Real(s).rn = sc[s].prop
  BY DEF Real
<1>2. ASSUME NEW u \in Uid PROVE Cardinality(MarkedCmpl(Real(s), m, u)) <= 1
  <2>1. sc[s] \in Scenario BY DEF Scenario
  <2>2. sc[s].cm[u] \in SUBSET Frame BY <2>1 DEF Scenario
  <2>3. IsFiniteSet(Frame) BY CommDiagAssumption, FS_Interval DEF Frame
  <2>4. IsFiniteSet(sc[s].cm[u]) BY <2>2, <2>3, FS_Subset
  <2>5. Cardinality(sc[s].cm[u]) = 1 BY DEF Honest
  <2>6. /\ Cardinality(sc[s].cm[u] \cap m[u]) <= Cardinality(sc[s].cm[u])
    BY <2>4, FS_Intersection
  <2> QED BY <1>1, <2>5, <2>6 DEF MarkedCmpl
<1> QED BY <1>1, <1>2 DEF MarksHold

\* It is an assignment.
LEMMA RealType ==
  ASSUME NEW s \in Scen, sc \in [Scen -> Scenario]
  PROVE  Real(s) \in Assignment
<1>1. sc[s] \in Scenario OBVIOUS
<1>2. sc[s].assm \in BOOLEAN /\ sc[s].prop \in BOOLEAN BY <1>1 DEF Scenario
<1> QED BY <1>2 DEF Real, Assignment

\* The frames an iteration asserts the flush in are frames of the model.
LEMMA FlushInFrame ==
  ASSUME TypeOK, NEW u \in Uid, hi[u] = i, i <= Max
  PROVE  MaxFrame + 1 \notin FlushFrames(u)
<1>1. /\ i \in Nat /\ lo[u] \in Nat /\ hi[u] = i
      /\ Max \in Nat /\ Step \in Nat /\ Step > 0 /\ MaxFrame \in Nat
      /\ Step <= MaxFrame /\ Max + Step <= MaxFrame + 1
  BY CommDiagAssumption, FrameAssumption DEF TypeOK
<1>2. CASE func = "IncCheck"
  <2>1. FlushFrames(u) = (lo[u] .. (lo[u] + (hi[u] - lo[u]) - 1)) \cup {hi[u] - lo[u]}
    BY <1>2 DEF FlushFrames
  <2> QED BY <1>1, <2>1
<1>3. CASE func # "IncCheck"
  <2>1. FlushFrames(u) = (i .. (i + Step - 1)) \cup {Step}
    BY <1>3 DEF FlushFrames
  <2> QED BY <1>1, <2>1
<1> QED BY <1>2, <1>3

-----------------------------------------------------------------------------
(* The steps.                                                              *)

\* No step changes the scenarios, so what is said of them stays.
LEMMA Fixed ==
  ASSUME sc' = sc
  PROVE  /\ \A s : Real(s)' = Real(s)
         /\ \A s : Honest(s)' <=> Honest(s)
         /\ \A s : Breaks(s)' <=> Breaks(s)
         /\ \A s, b : CompleteBy(s, b)' <=> CompleteBy(s, b)
         /\ \A a, m : MarksHold(a, m)' <=> MarksHold(a, m)
         /\ NoFirst' <=> NoFirst
BY DEF Real, Honest, Breaks, CompleteBy, MarksHold, MarkedCmpl, NoFirst

\* The top level of a solver that holds anything.
LEMMA TopType == ASSUME TypeOK PROVE Top \in SUBSET Assignment
BY DEF TypeOK, Top

\* Nothing is claimed of an answer that was not given.
LEMMA NoAnswer == ASSUME result' = "none" PROVE Answers'
BY DEF Answers, NoFalseAlarm, FirstBoundCovered, EqCheckSound

\* Before the call.
LEMMA InitInv == Init => DiagInv
<1> SUFFICES ASSUME Init PROVE DiagInv OBVIOUS
<1> USE DEF Init
<1>1. <<Assignment>> \in Seq(SUBSET Assignment) /\ Len(<<Assignment>>) = 1
  <2>1. Assignment \in SUBSET Assignment OBVIOUS
  <2> QED BY <2>1
<1>2. << >> \in Seq(Uid) OBVIOUS
<1>3. glob \in [Uid -> SUBSET Model] BY DEF InitGlob, Model
<1>4. TypeOK
  <2>1. sc \in [Scen -> Scenario] BY CommDiagAssumption
  <2>2. gaveup \in BOOLEAN /\ lo \in [Uid -> Nat] /\ hi \in [Uid -> Nat] OBVIOUS
  <2>3. marked \in [Uid -> SUBSET Nat] OBVIOUS
  <2> QED BY <1>1, <1>2, <1>3, <2>1, <2>2, <2>3 DEF TypeOK
<1>5. Answers BY DEF Answers, NoFalseAlarm, FirstBoundCovered, EqCheckSound
<1> QED BY <1>4, <1>5 DEF DiagInv, LoopShape, HonestInv, FirstInv, MarkInv, FlushInv, IdleInv, InLoop

\* An incremental check starts.
LEMMA IncStartStep ==
  ASSUME DiagInv, NEW f \in Funcs, IncStart(f)
  PROVE  DiagInv'
<1> USE DEF DiagInv
<1>1. /\ pc = "idle" /\ f \in Funcs \ {"EqCheck"} /\ func' = f /\ pc' = "head" /\ i' = Min
      /\ lo' = [u \in Uid |-> 0] /\ hi' = [u \in Uid |-> Min] /\ marked' = [u \in Uid |-> {}]
      /\ stack' = Push(<<Assignment>>) /\ UNCHANGED <<sc, glob, todo, gaveup, result>>
  BY DEF IncStart
<1>2. f \in Funcs \cap {"IncEqCheck", "IncCheck"} BY <1>1, CommDiagAssumption
<1>3. result' = "none" BY <1>1 DEF IdleInv
<1>4. /\ stack' \in Seq(SUBSET Assignment) /\ Len(stack') = 2 /\ stack'[2] = Assignment
  <2>1. <<Assignment>> \in Seq(SUBSET Assignment) /\ Len(<<Assignment>>) = 1
        /\ <<Assignment>>[1] = Assignment
    <3>1. Assignment \in SUBSET Assignment OBVIOUS
    <3> QED BY <3>1
  <2> DEFINE b == <<Assignment>>
  <2>2. b \in Seq(SUBSET Assignment) /\ Len(b) = 1 /\ b[1] = Assignment /\ stack' = Push(b)
    BY <1>1, <2>1
  <2> HIDE DEF b
  <2>3. Len(b) > 0 BY <2>2
  <2>4. /\ Push(b) \in Seq(SUBSET Assignment) /\ Len(Push(b)) = Len(b) + 1
        /\ Push(b)[Len(b) + 1] = b[Len(b)]
    BY <2>2, <2>3, PushProps
  <2>5. Len(b) + 1 = 2 BY <2>2
  <2> QED BY <2>2, <2>4, <2>5
<1>5. Top' = Assignment BY <1>4 DEF Top
<1>6. TypeOK' BY <1>1, <1>2, <1>3, <1>4, CommDiagAssumption DEF TypeOK
<1>7. LoopShape' BY <1>1, <1>2, <1>3, CommDiagAssumption DEF LoopShape, InLoop
<1>8. HonestInv' BY <1>1, <1>5, <1>6, RealType, Fixed DEF HonestInv, TypeOK
<1>9. FirstInv' BY <1>1, CommDiagAssumption DEF FirstInv, InLoop
<1>10. MarkInv' BY <1>1, CommDiagAssumption DEF MarkInv, InLoop
<1>11. FlushInv'
  <2> SUFFICES ASSUME func' = "IncEqCheck", NEW a \in Assignment, NEW u \in Uid
               PROVE  sc'[a.s].fl[u] >= hi'[u]
    BY <1>1, <1>5 DEF FlushInv
  <2>1. hi'[u] = 0 BY <1>1, CommDiagAssumption
  <2>2. sc[a.s] \in Scenario BY DEF TypeOK, Assignment
  <2>3. sc[a.s].fl[u] \in Nat BY <2>2, CommDiagAssumption DEF Scenario
  <2> QED BY <1>1, <2>1, <2>3
<1>12. IdleInv' /\ Answers' BY <1>1, <1>3, NoAnswer DEF IdleInv
<1> QED BY <1>6, <1>7, <1>8, <1>9, <1>10, <1>11, <1>12

\* An iteration unrolls the paths that are not fixed yet.
LEMMA UnrollStep ==
  ASSUME DiagInv, Unroll
  PROVE  DiagInv'
<1> USE DEF DiagInv
<1> DEFINE grow == {u \in Uid : hi[u] = i}
           m == [u \in Uid |-> IF u \in grow THEN marked[u] \cup NewFrames(u) ELSE marked[u]]
           T == {a \in Top : /\ MarksHold(a, m)
                             /\ \A u \in grow : ModelOf(u) \in FlushOf(u) =>
                                  sc[a.s].fl[u] \notin FlushFrames(u)}
           t == [stack EXCEPT ![Len(stack)] = T]
<1>1. /\ pc = "head" /\ i <= Max /\ pc' = "check" /\ marked' = m /\ stack' = Push(t)
      /\ UNCHANGED <<sc, glob, func, i, lo, hi, todo, gaveup, result>>
  BY DEF Unroll, Add, Top
<1>2. T \in SUBSET Top /\ T \in SUBSET Assignment BY TopType
<1>3. /\ stack' \in Seq(SUBSET Assignment) /\ Len(stack') = Len(stack) + 1
      /\ stack'[Len(stack')] = T /\ stack'[Len(stack') - 1] = T
      /\ Len(stack) \in Nat /\ Len(stack) > 0
  <2> HIDE DEF T
  <2>1. stack \in Seq(SUBSET Assignment) /\ Len(stack) > 0 BY DEF TypeOK
  <2>2. t \in Seq(SUBSET Assignment) /\ Len(t) = Len(stack) /\ t[Len(t)] = T
    BY <1>2, <2>1, SetTopProps
  <2> HIDE DEF t
  <2> QED BY <1>1, <2>1, <2>2, PushProps
<1>4. Top' = T BY <1>3 DEF Top
<1>5. func \in Funcs \cap {"IncEqCheck", "IncCheck"} /\ i >= Min /\ result = "none"
      /\ \A u \in Uid : hi[u] <= i
  BY <1>1 DEF LoopShape, InLoop
<1>6. /\ i \in Nat /\ Step \in Nat /\ Step > 0 /\ Min \in Nat /\ (func = "IncEqCheck" => Min = 0)
      /\ \A u \in Uid : hi[u] \in Nat /\ lo[u] \in Nat
  BY <1>5, CommDiagAssumption DEF TypeOK
<1>7. TypeOK'
  <2>1. \A u \in Uid : NewFrames(u) \in SUBSET Nat BY <1>6 DEF NewFrames
  <2>2. marked' \in [Uid -> SUBSET Nat] BY <1>1, <2>1 DEF TypeOK
  <2>3. stack' \in Seq(SUBSET Assignment) /\ Len(stack') > 0 BY <1>3
  <2>4. pc' = "check" /\ UNCHANGED <<sc, glob, func, i, lo, hi, todo, gaveup, result>> BY <1>1
  <2> HIDE DEF m, T, t
  <2> QED BY <2>2, <2>3, <2>4 DEF TypeOK
<1>8. LoopShape'
  <2> HIDE DEF T
  <2>1. Len(stack') > 1 /\ stack'[Len(stack') - 1] = Top' BY <1>3, <1>4
  <2> QED BY <1>1, <1>5, <2>1 DEF LoopShape, InLoop
<1>9. HonestInv'
  <2> SUFFICES ASSUME NEW s \in Scen, Honest(s), ~Breaks(s) \/ i = Min PROVE Real(s) \in T
    BY <1>1, <1>4, Fixed DEF HonestInv
  <2>1. Real(s) \in Top /\ Real(s).s = s BY <1>1 DEF HonestInv, InLoop, Real
  <2>2. MarksHold(Real(s), m) BY RealMarks DEF TypeOK
  <2>3. ASSUME NEW u \in grow PROVE sc[s].fl[u] \notin FlushFrames(u)
    <3>1. sc[s].fl[u] = MaxFrame + 1 BY DEF Honest
    <3> QED BY <1>1, <3>1, FlushInFrame
  <2> QED BY <2>1, <2>2, <2>3
<1>10. FirstInv' BY <1>1, Fixed DEF FirstInv, InLoop
<1>11. MarkInv'
  <2> SUFFICES ASSUME func = "IncEqCheck"
               PROVE  /\ \A u \in Uid : 0 .. hi[u] \subseteq m[u]
                      /\ \A u \in Uid : hi[u] = i => 0 .. i + Step \subseteq m[u]
                      /\ \A a \in T : MarksHold(a, m)
    BY <1>1, <1>4, Fixed DEF MarkInv
  <2>1. ASSUME NEW u \in Uid, hi[u] = i PROVE 0 .. i + Step \subseteq m[u]
    <3>1. m[u] = marked[u] \cup (i .. i + Step) BY <2>1 DEF NewFrames
    <3>2. CASE i = Min BY <1>6, <3>1, <3>2
    <3>3. CASE i > Min
      <4>1. 0 .. i \subseteq marked[u] BY <1>1, <2>1, <3>3 DEF MarkInv, InLoop
      <4> QED BY <1>6, <3>1, <4>1
    <3> QED BY <1>5, <1>6, <3>2, <3>3
  <2>2. ASSUME NEW u \in Uid, hi[u] # i PROVE 0 .. hi[u] \subseteq m[u]
    <3>1. i > Min BY <1>1, <1>5, <1>6, <2>2 DEF FirstInv
    <3> QED BY <1>1, <2>2, <3>1 DEF MarkInv, InLoop
  <2> QED BY <1>6, <2>1, <2>2
<1>12. FlushInv'
  <2> SUFFICES ASSUME func = "IncEqCheck", NEW a \in T, NEW u \in Uid
               PROVE  /\ sc[a.s].fl[u] >= hi[u]
                      /\ hi[u] = i => sc[a.s].fl[u] >= i + Step
    BY <1>1, <1>4 DEF FlushInv
  <2>1. a \in Top /\ a.s \in Scen BY <1>2 DEF Assignment
  <2>2. sc[a.s].fl[u] >= hi[u] BY <1>1, <2>1 DEF FlushInv, InLoop
  <2>3. sc[a.s].fl[u] \in Nat
    <3>1. sc[a.s] \in Scenario BY <2>1 DEF TypeOK
    <3> QED BY <3>1, CommDiagAssumption DEF Scenario
  <2>4. ASSUME hi[u] = i PROVE sc[a.s].fl[u] >= i + Step
    <3>1. u \in grow /\ ModelOf(u) \in FlushOf(u) BY <2>4 DEF FlushOf
    <3>2. sc[a.s].fl[u] \notin FlushFrames(u) BY <3>1
    <3>3. i .. (i + Step - 1) \subseteq FlushFrames(u) BY DEF FlushFrames
    <3> QED BY <1>6, <2>2, <2>3, <2>4, <3>2, <3>3
  <2> QED BY <2>2, <2>4
<1>13. IdleInv' /\ Answers' BY <1>1, <1>5, NoAnswer DEF IdleInv
<1> QED BY <1>7, <1>8, <1>9, <1>10, <1>11, <1>12, <1>13

\* The loop ends: the bound is reached or every path is fixed.
LEMMA LoopExitStep ==
  ASSUME DiagInv, LoopExit
  PROVE  DiagInv'
<1> USE DEF DiagInv
<1>1. /\ pc = "head" /\ (i > Max \/ \A u \in Uid : hi[u] < i) /\ pc' = "done" /\ result' = "true"
      /\ UNCHANGED <<sc, glob, func, i, lo, hi, marked, stack, todo, gaveup>>
  BY DEF LoopExit, Return
<1>2. /\ func \in {"IncEqCheck", "IncCheck"} /\ i >= Min /\ i \in Nat
      /\ Min \in Nat /\ Max \in Nat /\ Min <= Max
  BY <1>1, CommDiagAssumption DEF LoopShape, InLoop, TypeOK
<1>3. i > Min
  <2>1. "A_OLD" \in Uid BY DEF Uid
  <2>2. i = Min => hi["A_OLD"] = i BY <1>1, <2>1 DEF FirstInv
  <2> QED BY <1>1, <1>2, <2>1, <2>2 DEF TypeOK
<1>4. ~gaveup => NoFirst BY <1>1, <1>3 DEF FirstInv, InLoop
<1>5. TypeOK' BY <1>1 DEF TypeOK
<1>6. Answers'
  <2>1. FirstBoundCovered' BY <1>1, <1>4, Fixed DEF FirstBoundCovered, NoFirst
  <2> QED BY <1>1, <1>2, <2>1 DEF Answers, NoFalseAlarm, EqCheckSound
<1> QED BY <1>1, <1>5, <1>6
        DEF LoopShape, HonestInv, FirstInv, MarkInv, FlushInv, IdleInv, InLoop

\* The query is satisfiable.
LEMMA CheckSatStep ==
  ASSUME DiagInv, CheckSat
  PROVE  DiagInv'
<1> USE DEF DiagInv
<1>1. /\ pc = "check" /\ pc' = "done" /\ result' = "false"
      /\ UNCHANGED <<sc, glob, func, i, lo, hi, marked, stack, todo, gaveup>>
  BY DEF CheckSat, Return
<1>2. PICK a \in Top : Violating(a) BY DEF CheckSat
<1>3. TypeOK' BY <1>1 DEF TypeOK
<1>4. ASSUME func = "IncEqCheck"
      PROVE  \E s \in Scen : /\ Breaks(s)
                             /\ \A u \in Uid : \E f \in sc[s].cm[u] :
                                  f <= hi[u] /\ f <= sc[s].fl[u]
  <2>1. a \in Assignment BY TopType
  <2>2. a.s \in Scen /\ a.ro \in BOOLEAN /\ a.rn \in BOOLEAN BY <2>1 DEF Assignment
  <2>3. MarksHold(a, marked) /\ \A u \in Uid : 0 .. hi[u] \subseteq marked[u]
    BY <1>1, <1>4 DEF MarkInv, InLoop
  <2>4. a.ro /\ ~a.rn /\ \A u \in Uid : sc[a.s].cm[u] \cap (0 .. hi[u]) # {}
    BY <1>2 DEF Violating, CmplAll, Cmpl
  <2>5. \A u \in Uid : MarkedCmpl(a, marked, u) # {} BY <2>3, <2>4 DEF MarkedCmpl
  <2>6. Breaks(a.s)
    <3>1. {"A_OLD", "B_OLD"} \subseteq Uid /\ {"A_NEW", "B_NEW"} \subseteq Uid BY DEF Uid
    <3>2. a.ro = sc[a.s].assm /\ a.rn = sc[a.s].prop BY <2>3, <2>5, <3>1 DEF MarksHold
    <3> QED BY <2>4, <3>2 DEF Breaks
  <2>7. ASSUME NEW u \in Uid PROVE \E f \in sc[a.s].cm[u] : f <= hi[u] /\ f <= sc[a.s].fl[u]
    <3>1. sc[a.s].fl[u] >= hi[u] BY <1>1, <1>4 DEF FlushInv, InLoop
    <3>2. sc[a.s] \in Scenario /\ hi[u] \in Nat BY <2>2 DEF TypeOK
    <3>3. sc[a.s].fl[u] \in Nat BY <3>2, CommDiagAssumption DEF Scenario
    <3>4. PICK f \in sc[a.s].cm[u] : f \in 0 .. hi[u] BY <2>4
    <3> QED BY <3>1, <3>2, <3>3, <3>4
  <2> QED BY <2>2, <2>6, <2>7
<1>5. NoFalseAlarm' BY <1>1, <1>4, Fixed DEF NoFalseAlarm
<1>6. Answers' BY <1>1, <1>5 DEF Answers, FirstBoundCovered, EqCheckSound
<1> QED BY <1>1, <1>3, <1>6
        DEF LoopShape, HonestInv, FirstInv, MarkInv, FlushInv, IdleInv, InLoop

\* The query is not found satisfiable: it is popped and the partial property is
\* kept.
LEMMA NotSatStep ==
  ASSUME DiagInv, CheckUnsat \/ CheckUnknown
  PROVE  DiagInv'
<1> USE DEF DiagInv
<1> DEFINE V == {a \in Top : Violating(a)}
           t == [stack EXCEPT ![Len(stack)] = V]
           T == {a \in Top : PartialProperty(a)}
           r == [Pop(t) EXCEPT ![Len(Pop(t))] = {a \in @ : PartialProperty(a)}]
<1>1. /\ pc = "check" /\ pc' = "suff" /\ stack' = Push(r)
      /\ todo' = <<"A_OLD", "A_NEW", "B_OLD", "B_NEW">>
      /\ UNCHANGED <<sc, glob, func, i, lo, hi, marked, result>>
  BY DEF CheckUnsat, CheckUnknown, NotSat, Add, Top
<1>2. gaveup' = TRUE \/ (gaveup' = gaveup /\ \A a \in Top : ~Violating(a))
  BY DEF CheckUnsat, CheckUnknown
<1>3. T \in SUBSET Top /\ T \in SUBSET Assignment /\ V \in SUBSET Assignment BY TopType
<1>4. /\ func \in Funcs \cap {"IncEqCheck", "IncCheck"} /\ i >= Min /\ result = "none"
      /\ \A u \in Uid : hi[u] <= i
      /\ Len(stack) > 1 /\ stack[Len(stack) - 1] = Top
  BY <1>1 DEF LoopShape, InLoop
<1>5. stack' \in Seq(SUBSET Assignment) /\ Len(stack') > 0 /\ stack'[Len(stack')] = T
  <2>1. stack \in Seq(SUBSET Assignment) /\ Len(stack) \in Nat BY DEF TypeOK
  <2>2. /\ t \in Seq(SUBSET Assignment) /\ Len(t) = Len(stack)
        /\ \A k \in 1 .. Len(stack) - 1 : t[k] = stack[k]
    <3> HIDE DEF V
    <3> QED BY <1>3, <1>4, <2>1, SetTopProps
  <2> HIDE DEF t
  <2>3. /\ Pop(t) \in Seq(SUBSET Assignment) /\ Len(Pop(t)) = Len(stack) - 1
        /\ Pop(t)[Len(Pop(t))] = Top
    <3>1. Pop(t)[Len(t) - 1] = t[Len(t) - 1] /\ Pop(t) \in Seq(SUBSET Assignment)
          /\ Len(Pop(t)) = Len(t) - 1
      BY <1>4, <2>1, <2>2, PopProps
    <3>2. t[Len(t) - 1] = Top BY <1>4, <2>1, <2>2
    <3> QED BY <2>2, <3>1, <3>2
  <2>4. r = [Pop(t) EXCEPT ![Len(Pop(t))] = T] BY <2>3
  <2> HIDE DEF r, T
  <2>5. r \in Seq(SUBSET Assignment) /\ Len(r) = Len(stack) - 1 /\ r[Len(r)] = T
    BY <1>3, <1>4, <2>1, <2>3, <2>4, SetTopProps
  <2>6. Len(r) > 0 /\ Len(r) \in Nat BY <1>4, <2>1, <2>5
  <2>7. /\ Push(r) \in Seq(SUBSET Assignment) /\ Len(Push(r)) = Len(r) + 1
        /\ Push(r)[Len(r) + 1] = r[Len(r)]
    BY <2>5, <2>6, PushProps
  <2> QED BY <1>1, <2>5, <2>6, <2>7
<1>6. Top' = T BY <1>5 DEF Top
<1>7. TypeOK'
  <2>1. todo' \in Seq(Uid) BY <1>1 DEF Uid
  <2>2. gaveup' \in BOOLEAN BY <1>2 DEF TypeOK
  <2> QED BY <1>1, <1>5, <2>1, <2>2 DEF TypeOK
<1>8. LoopShape' BY <1>1, <1>4 DEF LoopShape, InLoop
<1>9. HonestInv'
  <2> SUFFICES ASSUME NEW s \in Scen, Honest(s), ~Breaks(s) PROVE Real(s) \in T
    BY <1>1, <1>6, Fixed DEF HonestInv
  <2>1. Real(s) \in Top BY <1>1 DEF HonestInv, InLoop
  <2>2. PartialProperty(Real(s)) BY DEF PartialProperty, Real, Breaks
  <2> QED BY <2>1, <2>2
<1>10. FirstInv'
  <2>1. ASSUME ~gaveup' PROVE NoFirst
    <3>0. ~gaveup /\ \A a \in Top : ~Violating(a) BY <1>2, <2>1
    <3>1. CASE i = Min
      <4> SUFFICES ASSUME NEW s \in Scen, Honest(s), Breaks(s), CompleteBy(s, Min) PROVE FALSE
        BY DEF NoFirst
      <4>1. Real(s) \in Top BY <1>1, <3>1 DEF HonestInv, InLoop
      <4>2. \A u \in Uid : hi[u] = Min BY <1>1, <3>1 DEF FirstInv
      <4>3. CmplAll(Real(s)) BY <4>2 DEF CmplAll, Cmpl, CompleteBy, Real
      <4>4. Violating(Real(s)) BY <4>3 DEF Violating, Real, Breaks
      <4> QED BY <3>0, <4>1, <4>4
    <3>2. CASE i > Min BY <1>1, <3>0, <3>2 DEF FirstInv, InLoop
    <3> QED BY <1>4, <3>1, <3>2, CommDiagAssumption DEF TypeOK
  <2> QED BY <1>1, <2>1, Fixed DEF FirstInv, InLoop
<1>11. MarkInv' BY <1>1 DEF MarkInv, InLoop
<1>12. FlushInv' BY <1>1, <1>3, <1>6 DEF FlushInv, InLoop
<1>13. IdleInv' /\ Answers' BY <1>1, <1>4, NoAnswer DEF IdleInv
<1> QED BY <1>7, <1>8, <1>9, <1>10, <1>11, <1>12, <1>13

\* The sufficiency check of one path.
LEMMA SufficientStep ==
  ASSUME DiagInv, Sufficient
  PROVE  DiagInv'
<1> USE DEF DiagInv
<1> DEFINE u == Head(todo)
           must == \A a \in Top : Cmpl(a, u, hi[u])
           T == {a \in Top : Cmpl(a, u, hi[u])}
           t == [stack EXCEPT ![Len(stack)] = T]
<1>1. /\ pc = "suff" /\ todo # << >> /\ todo' = Tail(todo)
      /\ lo' = (IF func = "IncCheck" THEN [lo EXCEPT ![u] = hi[u]] ELSE lo)
      /\ UNCHANGED <<sc, glob, func, pc, i, marked, gaveup, result>>
  BY DEF Sufficient
<1>2. \/ hi' = hi /\ stack' = stack
      \/ hi[u] = i /\ must /\ hi' = hi /\ stack' = Push(t)
      \/ hi[u] = i /\ hi' = [hi EXCEPT ![u] = i + Step] /\ stack' = stack
  BY DEF Sufficient, Add, Top
<1>3. u \in Uid /\ todo' \in Seq(Uid) BY <1>1 DEF TypeOK
<1> HIDE DEF u
<1>4. stack' \in Seq(SUBSET Assignment) /\ Len(stack') > 0 /\ Top' = Top
  <2>1. stack \in Seq(SUBSET Assignment) /\ Len(stack) > 0 BY DEF TypeOK
  <2>2. CASE stack' = stack BY <2>1, <2>2 DEF Top
  <2>3. CASE must /\ stack' = Push(t)
    <3>1. T = Top BY <2>3
    <3>2. T \in SUBSET Assignment BY TopType
    <3> HIDE DEF T
    <3>3. t \in Seq(SUBSET Assignment) /\ Len(t) = Len(stack) /\ t[Len(t)] = T
      BY <2>1, <3>2, SetTopProps
    <3> HIDE DEF t
    <3>4. /\ Push(t) \in Seq(SUBSET Assignment) /\ Len(Push(t)) = Len(t) + 1
          /\ Push(t)[Len(t) + 1] = t[Len(t)]
      BY <2>1, <3>3, PushProps
    <3> QED BY <2>1, <2>3, <3>1, <3>3, <3>4 DEF Top
  <2> QED BY <1>2, <2>2, <2>3
<1>5. /\ func \in Funcs \cap {"IncEqCheck", "IncCheck"} /\ i >= Min /\ result = "none"
      /\ \A v \in Uid : hi[v] <= i \/ hi[v] = i + Step
  BY <1>1 DEF LoopShape, InLoop
<1>6. /\ i \in Nat /\ Step \in Nat /\ Step > 0 /\ hi \in [Uid -> Nat] /\ lo \in [Uid -> Nat]
  BY CommDiagAssumption DEF TypeOK
<1>7. \A v \in Uid : hi'[v] = hi[v] \/ (hi[v] = i /\ hi'[v] = i + Step)
  BY <1>2, <1>3, <1>6
<1>8. TypeOK'
  <2>1. hi' \in [Uid -> Nat] BY <1>2, <1>3, <1>6
  <2>2. lo' \in [Uid -> Nat] BY <1>1, <1>3, <1>6
  <2> QED BY <1>1, <1>3, <1>4, <2>1, <2>2 DEF TypeOK
<1>9. LoopShape' BY <1>1, <1>5, <1>7 DEF LoopShape, InLoop
<1>10. HonestInv' BY <1>1, <1>4, Fixed DEF HonestInv, InLoop
<1>11. FirstInv' BY <1>1, Fixed DEF FirstInv, InLoop
<1>12. MarkInv'
  <2> SUFFICES ASSUME func = "IncEqCheck", NEW v \in Uid
               PROVE  /\ 0 .. hi'[v] \subseteq marked[v]
                      /\ hi'[v] = i => 0 .. i + Step \subseteq marked[v]
    BY <1>1 DEF MarkInv
  <2>1. /\ 0 .. hi[v] \subseteq marked[v]
        /\ hi[v] = i => 0 .. i + Step \subseteq marked[v]
    BY <1>1 DEF MarkInv, InLoop
  <2> QED BY <1>6, <1>7, <2>1
<1>13. FlushInv'
  <2> SUFFICES ASSUME func = "IncEqCheck", NEW a \in Top, NEW v \in Uid
               PROVE  /\ sc[a.s].fl[v] >= hi'[v]
                      /\ hi'[v] = i => sc[a.s].fl[v] >= i + Step
    BY <1>1, <1>4 DEF FlushInv
  <2>1. /\ sc[a.s].fl[v] >= hi[v]
        /\ hi[v] = i => sc[a.s].fl[v] >= i + Step
    BY <1>1 DEF FlushInv, InLoop
  <2> QED BY <1>6, <1>7, <2>1
<1>14. IdleInv' /\ Answers' BY <1>1, <1>5, NoAnswer DEF IdleInv
<1> QED BY <1>8, <1>9, <1>10, <1>11, <1>12, <1>13, <1>14

\* The next iteration.
LEMMA LoopNextStep ==
  ASSUME DiagInv, LoopNext
  PROVE  DiagInv'
<1> USE DEF DiagInv
<1>1. /\ pc = "suff" /\ i' = i + Step /\ pc' = "head"
      /\ UNCHANGED <<sc, glob, func, lo, hi, marked, stack, todo, gaveup, result>>
  BY DEF LoopNext
<1>2. /\ func \in Funcs \cap {"IncEqCheck", "IncCheck"} /\ i >= Min /\ result = "none"
      /\ \A u \in Uid : hi[u] <= i \/ hi[u] = i + Step
  BY <1>1 DEF LoopShape, InLoop
<1>3. /\ i \in Nat /\ Step \in Nat /\ Step > 0 /\ Min \in Nat /\ hi \in [Uid -> Nat] /\ i' > Min
  BY <1>1, <1>2, CommDiagAssumption DEF TypeOK
<1>4. TypeOK' BY <1>1, <1>3 DEF TypeOK
<1>5. LoopShape' BY <1>1, <1>2, <1>3 DEF LoopShape, InLoop
<1>6. Top' = Top BY <1>1 DEF Top
<1>7. HonestInv' BY <1>1, <1>3, <1>6, Fixed DEF HonestInv, InLoop
<1>8. FirstInv' BY <1>1, <1>3, Fixed DEF FirstInv, InLoop
<1>9. MarkInv' BY <1>1 DEF MarkInv, InLoop
<1>10. FlushInv' BY <1>1, <1>6 DEF FlushInv, InLoop
<1>11. IdleInv' /\ Answers' BY <1>1, <1>2, NoAnswer DEF IdleInv
<1> QED BY <1>4, <1>5, <1>7, <1>8, <1>9, <1>10, <1>11

\* The one-shot check.
LEMMA EqCheckStep ==
  ASSUME DiagInv, EqCheck
  PROVE  DiagInv'
<1> USE DEF DiagInv
<1>1. /\ pc = "idle" /\ func' = "EqCheck" /\ pc' = "done" /\ result' \in {"true", "false"}
      /\ UNCHANGED <<sc, glob, i, lo, todo, gaveup>>
  BY DEF EqCheck, Return
<1>2. stack = <<Assignment>> /\ Len(stack) = 1 /\ stack[1] = Assignment BY <1>1 DEF IdleInv
<1>3. CASE UNCHANGED <<hi, marked, stack>> /\ result' = "false"
  <2>1. UNCHANGED <<hi, marked, stack>> /\ result' = "false" BY <1>3
  <2>2. TypeOK' BY <1>1, <2>1 DEF TypeOK
  <2>3. Answers' BY <1>1, <2>1 DEF Answers, NoFalseAlarm, FirstBoundCovered, EqCheckSound
  <2> QED BY <1>1, <2>2, <2>3
          DEF LoopShape, HonestInv, FirstInv, MarkInv, FlushInv, IdleInv, InLoop
<1>4. ASSUME NEW step \in [Uid -> -1 .. Max], \A u \in Uid : step[u] >= 0,
             NEW m, m = [u \in Uid |-> 0 .. step[u]],
             NEW Q, Q = {a \in stack[1] : /\ MarksHold(a, m)
                                          /\ \A u \in Uid : sc[a.s].fl[u] \notin m[u]
                                          /\ a.ro /\ ~a.rn},
             hi' = step, marked' = m, stack' = [stack EXCEPT ![1] = Q],
             result' = "true" => stack'[1] = {}
      PROVE  DiagInv'
  <2>1. /\ hi' = step /\ marked' = m /\ stack' = [stack EXCEPT ![1] = Q]
        /\ result' = "true" => stack'[1] = {}
    BY <1>4
  <2>2. \A u \in Uid : step[u] \in 0 .. Max BY <1>4, CommDiagAssumption
  <2>3. Q \in SUBSET Assignment BY <1>2, <1>4
  <2>4. stack' \in Seq(SUBSET Assignment) /\ Len(stack') = 1 /\ stack'[1] = Q
    <3>1. stack \in Seq(SUBSET Assignment) BY DEF TypeOK
    <3>2. stack' = [stack EXCEPT ![Len(stack)] = Q] BY <1>2, <2>1
    <3>3. /\ stack' \in Seq(SUBSET Assignment) /\ Len(stack') = Len(stack)
          /\ stack'[Len(stack')] = Q
      BY <1>2, <2>3, <3>1, <3>2, SetTopProps
    <3> QED BY <1>2, <3>3
  <2>5. TypeOK'
    <3>1. hi' \in [Uid -> Nat] BY <2>1, <2>2, CommDiagAssumption
    <3>2. marked' \in [Uid -> SUBSET Nat] BY <1>4, <2>1, <2>2, CommDiagAssumption
    <3> QED BY <1>1, <2>4, <3>1, <3>2 DEF TypeOK
  <2>6. ASSUME NEW s \in Scen, Honest(s), Breaks(s) PROVE Q # {}
    <3>1. Real(s) \in Assignment BY RealType DEF TypeOK
    <3>2. MarksHold(Real(s), m) BY <2>6, RealMarks DEF TypeOK
    <3>3. ASSUME NEW u \in Uid PROVE sc[s].fl[u] \notin m[u]
      <4>1. sc[s].fl[u] = MaxFrame + 1 BY <2>6 DEF Honest
      <4>2. step[u] <= MaxFrame /\ step[u] \in Nat /\ MaxFrame \in Nat
        BY <2>2, CommDiagAssumption, FrameAssumption
      <4>3. m[u] = 0 .. step[u] BY <1>4
      <4> QED BY <4>1, <4>2, <4>3
    <3>4. Real(s).s = s /\ Real(s).ro /\ ~Real(s).rn BY <2>6 DEF Real, Breaks
    <3>5. Real(s) \in Q BY <1>2, <1>4, <3>1, <3>2, <3>3, <3>4
    <3> QED BY <3>5
  <2>7. EqCheckSound' BY <1>1, <2>1, <2>4, <2>6, Fixed DEF EqCheckSound
  <2>8. Answers' BY <1>1, <2>7 DEF Answers, NoFalseAlarm, FirstBoundCovered
  <2> QED BY <1>1, <2>5, <2>8
          DEF LoopShape, HonestInv, FirstInv, MarkInv, FlushInv, IdleInv, InLoop
<1>5. PICK step \in [Uid -> -1 .. Max] :
        LET m == [u \in Uid |-> 0 .. step[u]]
            Query(a) == /\ MarksHold(a, m)
                        /\ \A u \in Uid : sc[a.s].fl[u] \notin m[u]
                        /\ a.ro /\ ~a.rn
        IN  \/ Return("false") /\ UNCHANGED <<hi, marked, stack>>
            \/ /\ \A u \in Uid : step[u] >= 0
               /\ hi' = step /\ marked' = m
               /\ stack' = Add(stack, Query)
               /\ (stack'[1] = {} /\ Return("true")) \/ Return("false")
  BY DEF EqCheck
<1>6. CASE Return("false") /\ UNCHANGED <<hi, marked, stack>> BY <1>3, <1>6 DEF Return
<1>7. CASE ~(Return("false") /\ UNCHANGED <<hi, marked, stack>>)
  <2> DEFINE m == [u \in Uid |-> 0 .. step[u]]
             Q == {a \in stack[1] : /\ MarksHold(a, m)
                                    /\ \A u \in Uid : sc[a.s].fl[u] \notin m[u]
                                    /\ a.ro /\ ~a.rn}
  <2>1. /\ \A u \in Uid : step[u] >= 0
        /\ hi' = step /\ marked' = m
        /\ (stack'[1] = {} /\ Return("true")) \/ Return("false")
    BY <1>5, <1>7
  <2>2. stack' = [stack EXCEPT ![1] = Q] BY <1>2, <1>5, <1>7 DEF Add
  <2>3. result' = "true" => stack'[1] = {} BY <2>1 DEF Return
  <2> HIDE DEF m, Q
  <2>4. m = [u \in Uid |-> 0 .. step[u]] BY DEF m
  <2>5. Q = {a \in stack[1] : /\ MarksHold(a, m)
                              /\ \A u \in Uid : sc[a.s].fl[u] \notin m[u]
                              /\ a.ro /\ ~a.rn}
    BY DEF Q
  <2> QED BY <1>4, <2>1, <2>2, <2>3, <2>4, <2>5
<1> QED BY <1>6, <1>7

\* A step that changes nothing.
LEMMA StutterStep == ASSUME DiagInv, UNCHANGED vars PROVE DiagInv'
<1> USE DEF DiagInv, vars
<1>1. TypeOK' BY DEF TypeOK
<1>2. Top' = Top BY DEF Top
<1>3. LoopShape' /\ IdleInv' BY <1>2 DEF LoopShape, IdleInv, InLoop
<1>4. HonestInv' /\ FirstInv' BY <1>2, Fixed DEF HonestInv, FirstInv, InLoop
<1>5. MarkInv' BY <1>2, Fixed DEF MarkInv, InLoop
<1>6. FlushInv' BY <1>2 DEF FlushInv, InLoop
<1>7. Answers' BY Fixed DEF Answers, NoFalseAlarm, FirstBoundCovered, EqCheckSound
<1> QED BY <1>1, <1>3, <1>4, <1>5, <1>6, <1>7

-----------------------------------------------------------------------------
(* The theorems.                                                           *)

\* The invariant holds in every state of every check.
LEMMA DiagInvariant == Spec => []DiagInv
<1>1. DiagInv /\ [Next]_vars => DiagInv'
  BY IncStartStep, UnrollStep, LoopExitStep, CheckSatStep, NotSatStep, SufficientStep,
     LoopNextStep, EqCheckStep, StutterStep DEF Next, Returned
<1> QED BY <1>1, InitInv, PTL DEF Spec

\* The variables keep their types, for any bounds.
THEOREM DiagTypeCorrect == Spec => []TypeOK
<1>1. DiagInv => TypeOK BY DEF DiagInv
<1> QED BY <1>1, DiagInvariant, PTL

\* Every "false" of IncEqCheck is a real counterexample, for every model, bound and step.
THEOREM AlarmIsReal == Spec => []NoFalseAlarm
<1>1. DiagInv => NoFalseAlarm BY DEF DiagInv, Answers
<1> QED BY <1>1, DiagInvariant, PTL

\* No incremental check misses a counterexample within its first bound, unless
\* z3 gave up on a query that has one.
THEOREM FirstBoundIsCovered == Spec => []FirstBoundCovered
<1>1. DiagInv => FirstBoundCovered BY DEF DiagInv, Answers
<1> QED BY <1>1, DiagInvariant, PTL

\* The incremental solver never loses a scenario that respects the relation.
THEOREM BenignIsKept == Spec => []BenignKept
<1>1. DiagInv => BenignKept
  <2> SUFFICES ASSUME DiagInv, InLoop, NEW s \in Scen, Honest(s), ~Breaks(s)
               PROVE  \E a \in Top : a.s = s
    BY DEF BenignKept, InLoop
  <2>1. Real(s) \in Top /\ Real(s).s = s BY DEF DiagInv, HonestInv, Real
  <2> QED BY <2>1
<1> QED BY <1>1, DiagInvariant, PTL

\* "true" from EqCheck leaves no honest counterexample at all, not even one that
\* completes beyond the steps the check was made with.
THEOREM EqCheckIsSound == Spec => []EqCheckSound
<1>1. DiagInv => EqCheckSound BY DEF DiagInv, Answers
<1> QED BY <1>1, DiagInvariant, PTL
=============================================================================
