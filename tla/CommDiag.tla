------------------------------ MODULE CommDiag ------------------------------
(***************************************************************************)
(* Equivalence checking of two models by commuting diagrams: CommDiag      *)
(* (src/ila-mngr/v_eq_check_crr.cc).  From related states, model A and     *)
(* model B are flushed as they are ("old") and flushed after applying one  *)
(* instruction ("new"); if the old flushed states are related, the new     *)
(* ones must be.                                                           *)
(*                                                                         *)
(* What the solver reasons about is a set of scenarios: a scenario fixes a *)
(* start state of both models and hence all four flushing paths, in each   *)
(* of which the completion predicate holds in some frames.  The            *)
(* "representative" state of a path (the variables without a frame number) *)
(* is tied to a frame only by the marks "cmpl -> representative = frame":  *)
(* while no completing frame of a path is marked it may be anything, and   *)
(* so may the relation over it.  An assignment is therefore a scenario and *)
(* the truth of the relation over the old and over the new representatives.*)
(* The z3 solver is its assertion stack, each level being the set of       *)
(* assignments that satisfy everything asserted up to it.  It may answer   *)
(* any query "unknown", which the code never asks for: each place takes it *)
(* for the answer its comparison does not name.                            *)
(***************************************************************************)
EXTENDS Integers, Sequences, FiniteSets

CONSTANTS
  Scen,        \* scenarios
  MaxFrame,    \* bound: frames in which a completion can be seen
  ScenChoice,  \* the problems explored
  Min, Max, Step,  \* the arguments of IncEqCheck and IncCheck
  StepSpec,    \* step_orig and step_appl of the refinements; -1 if not given
  Funcs        \* which of "EqCheck", "IncEqCheck", "IncCheck" are called

Uid == {"A_OLD", "A_NEW", "B_OLD", "B_NEW"}
Model == {"A", "B"}
Frame == 0 .. MaxFrame
ModelOf(u) == IF u \in {"A_OLD", "A_NEW"} THEN "A" ELSE "B"

Scenario ==
  [cm   : [Uid -> SUBSET Frame],     \* frames in which cmpl holds
   fl   : [Uid -> 1 .. MaxFrame + 1], \* the frame, after frame 0, in which flush
                                     \* does not hold (MaxFrame + 1: none)
   assm : BOOLEAN,  \* the relation holds of the old flushed states
   prop : BOOLEAN]  \* the relation holds of the new flushed states

ASSUME CommDiagAssumption ==
  /\ MaxFrame \in Nat /\ Min \in Nat /\ Max \in Nat /\ Step \in Nat \ {0}
  /\ Min <= Max
  /\ StepSpec \in -1 .. MaxFrame
  /\ ScenChoice \subseteq [Scen -> Scenario]
  /\ Funcs \subseteq {"EqCheck", "IncEqCheck", "IncCheck"}
  /\ "IncEqCheck" \in Funcs => Min = 0
  \* else CheckStepOrig ends the program with "Dead transition"
  /\ \A c \in ScenChoice, u \in Uid : \E s \in Scen : c[s].fl[u] > MaxFrame

\* the bound MaxFrame covers every frame in which a check of up to Max steps
\* asserts the flush, so that fl = MaxFrame + 1 is beyond all of them
ASSUME FrameAssumption == Step <= MaxFrame /\ Max + Step <= MaxFrame + 1

VARIABLES
  sc,       \* sc[s]: the scenarios of the two models under check
  glob,     \* glob[u]: the models whose flush is a global predicate of the
            \* unroller GetUnrl(u) returns
  func, pc,
  i,        \* loop counter
  lo, hi,   \* lo[u], hi[u]: UnrlUnit; hi is num_old_a, ... in IncEqCheck
  marked,   \* marked[u]: frames of path u unrolled and marked so far
  stack,    \* the solver
  todo,     \* paths whose sufficiency check is still to come, in order
  gaveup,   \* history: a query of the property was answered "unknown" though
            \* it has a model
  result    \* "none", "true", "false"

vars == <<sc, glob, func, pc, i, lo, hi, marked, stack, todo, gaveup, result>>

Assignment == [s : Scen, ro : BOOLEAN, rn : BOOLEAN]

-----------------------------------------------------------------------------
(* The solver: add narrows the top level, push copies it, pop drops it.    *)
Top == stack[Len(stack)]
Add(stk, P(_)) == [stk EXCEPT ![Len(stk)] = {a \in @ : P(a)}]
Push(stk) == Append(stk, stk[Len(stk)])
Pop(stk) == SubSeq(stk, 1, Len(stk) - 1)

-----------------------------------------------------------------------------
(* Formulas over one assignment a, given the marked frames m.              *)

MarkedCmpl(a, m, u) == sc[a.s].cm[u] \cap m[u]

\* mutant: the property read over the old representatives too
MarksHoldPropOverOld(a, m) ==
  /\ \A u \in Uid : Cardinality(MarkedCmpl(a, m, u)) <= 1
  /\ (\A u \in {"A_OLD", "B_OLD"} : MarkedCmpl(a, m, u) # {}) => a.ro = sc[a.s].assm
  /\ (\A u \in {"A_NEW", "B_NEW"} : MarkedCmpl(a, m, u) # {}) => a.rn = sc[a.s].assm

\* "cmpl -> representative = frame" for every marked frame: two completing
\* frames of a path, which differ, leave no representative
MarksHold(a, m) ==
  /\ \A u \in Uid : Cardinality(MarkedCmpl(a, m, u)) <= 1
  /\ (\A u \in {"A_OLD", "B_OLD"} : MarkedCmpl(a, m, u) # {}) => a.ro = sc[a.s].assm
  /\ (\A u \in {"A_NEW", "B_NEW"} : MarkedCmpl(a, m, u) # {}) => a.rn = sc[a.s].prop

\* mutant: the last frame left out
CmplExclusive(a, u, bound) == sc[a.s].cm[u] \cap (0 .. bound - 1) # {}

\* GetZ3IncCmpl and GetZ3Cmpl: OR of the completion predicate over 0..hi
Cmpl(a, u, bound) == sc[a.s].cm[u] \cap (0 .. bound) # {}
CmplAll(a) == \A u \in Uid : Cmpl(a, u, hi[u])

\* the lemma added after an iteration found nothing:
\* ((cmpl -> assm) /\ assm) -> prop
PartialProperty(a) == ((CmplAll(a) => a.ro) /\ a.ro) => a.rn

-----------------------------------------------------------------------------
\* CommDiag::Init runs over A_OLD, A_NEW, B_OLD, B_NEW; GetUnrl gives A and B
\* the same unroller, which is cleared before each flush is added
InitGlob == [u \in Uid |-> {"B"}]

Init ==
  /\ sc \in ScenChoice
  /\ glob = InitGlob
  /\ func = "none" /\ pc = "idle" /\ i = 0
  /\ lo = [u \in Uid |-> 0] /\ hi = [u \in Uid |-> 0]
  /\ marked = [u \in Uid |-> {}]
  /\ stack = <<Assignment>> /\ todo = << >> /\ gaveup = FALSE /\ result = "none"

Return(r) == pc' = "done" /\ result' = r

\* up to the loop: the applied instruction is added at the base level
IncStart(f) ==
  /\ pc = "idle" /\ f \in Funcs \ {"EqCheck"}
  /\ func' = f /\ pc' = "head" /\ i' = Min
  /\ lo' = [u \in Uid |-> 0] /\ hi' = [u \in Uid |-> Min]
  /\ marked' = [u \in Uid |-> {}]
  /\ stack' = Push(<<Assignment>>)
  /\ UNCHANGED <<sc, glob, todo, gaveup, result>>

\* mutant: the frame the unrolling starts in is not marked
NewFramesAfterFirst(u) ==
  IF func = "IncCheck" THEN (lo[u] + 1) .. hi[u] ELSE (i + 1) .. (i + Step)

\* frames an iteration unrolls for path u: GetZ3IncFlsh starts where the last
\* one ended, GetZ3IncUnrl one step ahead of the bound it is asked for
NewFrames(u) == IF func = "IncCheck" THEN lo[u] .. hi[u] ELSE i .. i + Step

\* flush is a global predicate of the unroller in use; IncEqCheck has one
\* unroller per path
FlushOf(u) == IF func = "IncCheck" THEN glob[u] ELSE {ModelOf(u)}

\* the frames MonoIncr(length, base) asserts a global predicate in: one per
\* step, and frame "length" (see EndPreds of module Unroller)
FlushFrames(u) ==
  LET base == IF func = "IncCheck" THEN lo[u] ELSE i
      length == IF func = "IncCheck" THEN hi[u] - lo[u] ELSE Step
  IN  base .. (base + length - 1) \cup {length}

\* loop head: give up, done, or unroll the paths that are not fixed yet
Unroll ==
  /\ pc = "head" /\ i <= Max /\ \E u \in Uid : hi[u] >= i
  /\ LET grow == {u \in Uid : hi[u] = i}
         m == [u \in Uid |-> IF u \in grow THEN marked[u] \cup NewFrames(u)
                                           ELSE marked[u]]
         Tran(a) == /\ MarksHold(a, m)
                    /\ \A u \in grow : ModelOf(u) \in FlushOf(u) =>
                         sc[a.s].fl[u] \notin FlushFrames(u)
     IN  /\ marked' = m
         /\ stack' = Push(Add(stack, Tran))
  /\ pc' = "check"
  /\ UNCHANGED <<sc, glob, func, i, lo, hi, todo, gaveup, result>>

LoopExit ==
  /\ pc = "head" /\ (i > Max \/ \A u \in Uid : hi[u] < i)
  /\ Return("true")
  /\ UNCHANGED <<sc, glob, func, i, lo, hi, marked, stack, todo, gaveup>>

\* cf = all complete; (cf -> assm) and not (cf -> prop)
Violating(a) == CmplAll(a) /\ a.ro /\ ~a.rn

CheckSat ==
  /\ pc = "check" /\ \E a \in Top : Violating(a)
  /\ Return("false")
  /\ UNCHANGED <<sc, glob, func, i, lo, hi, marked, stack, todo, gaveup>>

\* mutant: the query is not popped
NotSatNoPop ==
  /\ stack' = Push(Add(Add(stack, Violating), PartialProperty))
  /\ pc' = "suff" /\ todo' = <<"A_OLD", "A_NEW", "B_OLD", "B_NEW">>
  /\ UNCHANGED <<sc, glob, func, i, lo, hi, marked, result>>

\* any answer but "sat": pop the query, keep the partial property
NotSat ==
  /\ stack' = Push(Add(Pop(Add(stack, Violating)), PartialProperty))
  /\ pc' = "suff" /\ todo' = <<"A_OLD", "A_NEW", "B_OLD", "B_NEW">>
  /\ UNCHANGED <<sc, glob, func, i, lo, hi, marked, result>>

CheckUnsat ==
  /\ pc = "check" /\ \A a \in Top : ~Violating(a)
  /\ NotSat /\ UNCHANGED gaveup

\* "unknown", which is taken for "unsat"
CheckUnknown ==
  /\ pc = "check" /\ \E a \in Top : Violating(a)
  /\ NotSat /\ gaveup' = TRUE

\* CheckCmpl of the next path: unless z3 finds that every assignment left
\* completes on it, it is unrolled further in the next iteration
Sufficient ==
  /\ pc = "suff" /\ todo # << >>
  /\ LET u == Head(todo)
         Done(a) == Cmpl(a, u, hi[u])
     IN  /\ lo' = IF func = "IncCheck" THEN [lo EXCEPT ![u] = hi[u]] ELSE lo
         /\ \/ hi[u] # i /\ UNCHANGED <<hi, stack>>
            \/ /\ hi[u] = i /\ \A a \in Top : Done(a)
               /\ stack' = Push(Add(stack, Done)) /\ UNCHANGED hi
            \/ /\ hi[u] = i
               /\ hi' = [hi EXCEPT ![u] = @ + Step] /\ UNCHANGED stack
  /\ todo' = Tail(todo)
  /\ UNCHANGED <<sc, glob, func, pc, i, marked, gaveup, result>>

LoopNext ==
  /\ pc = "suff" /\ todo = << >>
  /\ i' = i + Step /\ pc' = "head"
  /\ UNCHANGED <<sc, glob, func, lo, hi, marked, stack, todo, gaveup, result>>

-----------------------------------------------------------------------------
(* EqCheck: fix the number of steps of each path, then one query.          *)

\* CheckStepOrig / CheckStepAppl accept k when no path fails to complete, or when
\* z3 does not say that one does; the at-most-once query is added to a solver
\* that already holds "not at least once", so it is unsatisfiable whatever the
\* completions are
CheckStep(u, k) ==
  \A s \in Scen : sc[s].fl[u] > k => sc[s].cm[u] \cap (0 .. k) # {}

\* DetStepOrig / DetStepAppl: the first number of steps accepted, or -1
DetSteps(u) ==
  LET Tried(n) == {k \in 0 .. n : k >= StepSpec}
  IN  {k \in Tried(Max) : \A j \in Tried(k - 1) : ~CheckStep(u, j)}
        \cup {k \in {-1} : \A j \in Tried(Max) : ~CheckStep(u, j)}

\* "Dead transition relation": no scenario of model r satisfies the marks
DeadTran(r, m) ==
  ~\E s \in Scen : \A u \in Uid : ModelOf(u) = r =>
     sc[s].fl[u] \notin m[u] /\ Cardinality(sc[s].cm[u] \cap m[u]) <= 1

EqCheck ==
  /\ pc = "idle" /\ "EqCheck" \in Funcs
  /\ func' = "EqCheck"
  /\ \E step \in [Uid -> -1 .. Max] :
       LET m == [u \in Uid |-> 0 .. step[u]]
           Query(a) == /\ MarksHold(a, m)
                       /\ \A u \in Uid : sc[a.s].fl[u] \notin m[u]
                       /\ a.ro /\ ~a.rn
       IN  /\ \A u \in Uid : step[u] \in DetSteps(u)
           /\ \/ /\ (\E u \in Uid : step[u] < 0) \/ (\E r \in Model : DeadTran(r, m))
                 /\ Return("false") /\ UNCHANGED <<hi, marked, stack>>
              \/ /\ \A u \in Uid : step[u] >= 0
                 /\ hi' = step /\ marked' = m
                 /\ stack' = Add(stack, Query)
                 /\ \/ stack'[1] = {} /\ Return("true")
                    \/ Return("false")
  /\ UNCHANGED <<sc, glob, i, lo, todo, gaveup>>

\* the answer has been returned to the caller
Returned == pc = "done" /\ UNCHANGED vars

Next ==
  \/ \E f \in Funcs : IncStart(f)
  \/ Unroll \/ LoopExit \/ CheckSat \/ CheckUnsat \/ CheckUnknown
  \/ Sufficient \/ LoopNext \/ EqCheck \/ Returned

Spec == Init /\ [][Next]_vars

-----------------------------------------------------------------------------
(* Properties. *)

\* The types of the variables.
TypeOK ==
  /\ sc \in [Scen -> Scenario]
  /\ glob \in [Uid -> SUBSET Model]
  /\ func \in {"none", "EqCheck", "IncEqCheck", "IncCheck"}
  /\ pc \in {"idle", "head", "check", "suff", "done"}
  /\ i \in Nat /\ lo \in [Uid -> Nat] /\ hi \in [Uid -> Nat]
  /\ marked \in [Uid -> SUBSET Nat]
  /\ stack \in Seq(SUBSET Assignment) /\ Len(stack) > 0
  /\ todo \in Seq(Uid) /\ gaveup \in BOOLEAN
  /\ result \in {"none", "true", "false"}

\* a scenario that flushes to the end and completes once on every path
Honest(s) == \A u \in Uid : sc[s].fl[u] = MaxFrame + 1 /\ Cardinality(sc[s].cm[u]) = 1

\* related before, not related after
Breaks(s) == sc[s].assm /\ ~sc[s].prop

CompleteBy(s, n) == \A u \in Uid : sc[s].cm[u] \cap (0 .. n) # {}

\* "false" from IncEqCheck is a real counterexample: some scenario flushes all
\* four paths to completion within the bound reached and breaks the relation.
NoFalseAlarm ==
  result = "false" /\ func = "IncEqCheck"
    => \E s \in Scen : /\ Breaks(s)
                       /\ \A u \in Uid : \E f \in sc[s].cm[u] :
                            f <= hi[u] /\ f <= sc[s].fl[u]

\* An incremental check that answers "true" has excluded every counterexample
\* that completes within its first bound, unless z3 gave up on a query that has
\* a model: that answer the check takes for "unsat".
FirstBoundCovered ==
  result = "true" /\ func # "EqCheck" /\ ~gaveup
    => ~\E s \in Scen : Honest(s) /\ Breaks(s) /\ CompleteBy(s, Min)

\* Pushing, popping and the constraints kept between iterations never lose a
\* scenario that respects the relation, whatever z3 answers: the solver always
\* still has a model for it, so "must complete" is decided over all of them.
BenignKept ==
  pc \in {"head", "check", "suff"}
    => \A s \in Scen : Honest(s) /\ ~Breaks(s) => \E a \in Top : a.s = s

\* "true" from EqCheck means that no scenario that flushes and completes, once,
\* on every path breaks the relation, in whichever frame it completes, even if
\* z3 gave up on a query that determines the number of steps.
EqCheckSound ==
  result = "true" /\ func = "EqCheck"
    => ~\E s \in Scen : Honest(s) /\ Breaks(s)

\* v_eq_check_refinement.h: IncEqCheck checks equivalence "up to the given
\* unrolling bound"; v_eq_check_crr.cc: "no bug found up to the given bound".
BoundCovered ==
  result = "true" /\ func = "IncEqCheck" /\ ~gaveup
    => ~\E s \in Scen : Honest(s) /\ Breaks(s) /\ CompleteBy(s, Max)

\* v_eq_check_crr.cc, CommDiag::Init: "unroller initialized with flushing
\* function": what IncCheck reports happens on flushing paths.
IncCheckFlushes ==
  result = "false" /\ func = "IncCheck"
    => \E s \in Scen : /\ Breaks(s)
                       /\ \A u \in Uid : \E f \in sc[s].cm[u] :
                            f <= hi[u] /\ f <= sc[s].fl[u]

\* v_eq_check_crr.cc, UnrollFlush: "complete proved to be one and exactly one"
\* (here: not more than one, whatever z3 answers).
CompletionUnique ==
  result = "true" /\ func = "EqCheck"
    => \A s \in Scen, u \in Uid : sc[s].fl[u] > hi[u] =>
         Cardinality(sc[s].cm[u] \cap (0 .. hi[u])) <= 1
=============================================================================
