--------------------------- MODULE UnrollerProofs ---------------------------
(***************************************************************************)
(* Proofs about the unrollers, for every ILA hierarchy, every set of       *)
(* predicates, every path, every number of steps and every assignment.     *)
(***************************************************************************)
EXTENDS Unroller, TLAPS

(* One step of an execution, as the reference sees it.                     *)
StepOK(j) ==
  /\ UserPreds(j, val[pos + j], pos + j)
  /\ HwStep(j, val[pos + j], pos + j, val[pos + j + 1])

FreeStepOK(j) ==
  /\ UserPreds(j, val[pos + j], pos + j)
  /\ HwStep(j, val[pos + j], pos + j, nxt[pos + j])

(* One step, and the first m steps, of a run through states of its own.    *)
RunStepOK(tr, j) ==
  /\ \A v \in Var \ vars_ : tr[j][v] = val[pos + j][v]
  /\ UserPreds(j, tr[j], pos + j)
  /\ HwStep(j, tr[j], pos + j, tr[j + 1])

RunPrefix(tr, m) == tr[0] = val[pos] /\ \A j \in 0 .. m - 1 : RunStepOK(tr, j)

-----------------------------------------------------------------------------
(* Type correctness: the loop index, the frames it touches and the call's  *)
(* parameters stay in range through every sequence of API calls.           *)
LEMMA PathVars ==
  ASSUME NEW seq \in Seq(Instr)
  PROVE  PathDefineDepVar(seq) \subseteq Var
<1>1. ASSUME NEW j \in DOMAIN seq PROVE Stt[Host[seq[j]]] \subseteq Var
  <2>1. seq[j] \in Instr
    BY <1>1
  <2>2. Host[seq[j]] \in Ila
    BY <2>1, ModelAssumption
  <2> QED
    BY <2>2, ModelAssumption
<1> QED
  BY <1>1 DEF PathDefineDepVar

LEMMA MonoVars == MonoDefineDepVar \subseteq Var /\ MonoDefineDepVar # {}
BY ModelAssumption DEF MonoDefineDepVar

LEMMA UpdInState ==
  ASSUME NEW c \in Instr, NEW s \in State, NEW k \in Frame, inp \in [Frame -> Input]
  PROVE  StateUpdCmpl(c, s, k) \in State
<1>1. <<s, inp[k]>> \in State \X Input
  OBVIOUS
<1>2. Update[c][<<s, inp[k]>>] \in State
  BY <1>1, ModelAssumption
<1> QED
  BY <1>2 DEF StateUpdCmpl, State

(* The next state of an iteration is a state.                              *)
LEMMA KNextInState ==
  ASSUME TypeOK, i < len, NEW s \in State, NEW k \in Frame
  PROVE  KNext(s, k) \in State
<1>1. CASE kind = "Path"
  <2>1. seq_[i + 1] \in Instr
    BY <1>1 DEF TypeOK
  <2> QED
    BY <1>1, <2>1, UpdInState DEF KNext, TypeOK
<1>2. CASE kind = "Mono"
  BY <1>2 DEF KNext, TypeOK
<1> QED
  BY <1>1, <1>2 DEF TypeOK

(* TypeOK is an invariant of every sequence of calls of the unrollers.     *)
THEOREM TypeCorrect == Spec => []TypeOK
<1>1. Init => TypeOK
  BY BoundAssumption DEF Init, TypeOK, Frame, State
<1>2. TypeOK /\ [Next]_vars => TypeOK'
  <2> SUFFICES ASSUME TypeOK, [Next]_vars PROVE TypeOK'
    OBVIOUS
  <2>1. ASSUME NEW p \in Pred, AddGlobPred(p) \/ AddInitPred(p) PROVE TypeOK'
    BY <2>1 DEF AddGlobPred, AddInitPred, TypeOK, asg, call
  <2>2. ASSUME NEW p \in Pred, NEW k \in Frame, AddStepPred(p, k) PROVE TypeOK'
    BY <2>2 DEF AddStepPred, TypeOK, asg, call
  <2>3. ASSUME NEW what, ClearPred(what) PROVE TypeOK'
    BY <2>3 DEF ClearPred, TypeOK, asg, call
  <2>4. ASSUME NEW m \in Modes, NEW n \in Frame, NEW p \in Frame,
               NEW seq \in [1 .. n -> Instr], PathUnroll(m, seq, p)
        PROVE  TypeOK'
    <3>1. seq \in Seq(Instr) /\ Len(seq) = n
      BY DEF Frame
    <3>2. PathDefineDepVar(seq) \subseteq Var
      BY <3>1, PathVars
    <3>3. val[p] \in State
      BY DEF TypeOK
    <3> QED
      BY <2>4, <3>1, <3>2, <3>3, BoundAssumption
      DEF PathUnroll, BootStrap, TypeOK, preds, asg, Frame
  <2>5. ASSUME NEW m \in Modes, NEW n \in Frame, NEW p \in Frame, MonoUnroll(m, n, p)
        PROVE  TypeOK'
    <3>1. val[p] \in State
      BY DEF TypeOK
    <3> QED
      BY <2>5, <3>1, MonoVars, BoundAssumption
      DEF MonoUnroll, BootStrap, TypeOK, preds, asg, Frame
  <2>6. CASE SubsStep
    <3>1. pos + i \in Frame
      BY <2>6, BoundAssumption DEF SubsStep, InLoop, TypeOK, Frame
    <3>2. Substituted(pos + i) \in State
      BY <3>1 DEF Substituted, TypeOK, State
    <3>3. KNext(Substituted(pos + i), pos + i) \in State
      BY <2>6, <3>1, <3>2, KNextInState DEF SubsStep, InLoop
    <3>4. k_prev' \in State /\ i' \in 0 .. len
      BY <2>6, <3>3, BoundAssumption DEF SubsStep, InLoop, TypeOK, Frame
    <3>5. cstr' \in BOOLEAN
      BY <2>6 DEF SubsStep
    <3> QED
      BY <2>6, <3>4, <3>5 DEF SubsStep, TypeOK, preds, asg, call
  <2>7. CASE AssnStep \/ NoneStep \/ SmtStep
    <3>1. cstr' \in BOOLEAN
      BY <2>7 DEF AssnStep, NoneStep, SmtStep
    <3>2. i' \in 0 .. len
      BY <2>7, BoundAssumption DEF AssnStep, NoneStep, SmtStep, InLoop, TypeOK, Frame
    <3> QED
      BY <2>7, <3>1, <3>2 DEF AssnStep, NoneStep, SmtStep, TypeOK, preds, asg, call
  <2>8. CASE TransitionAbort
    BY <2>8 DEF TransitionAbort, TypeOK, preds, asg, call
  <2>9. CASE SubsEnd \/ AssnEnd \/ NoneEnd
    <3>1. cstr' \in BOOLEAN
      BY <2>9 DEF SubsEnd, AssnEnd, NoneEnd, TypeOK
    <3> QED
      BY <2>9, <3>1 DEF SubsEnd, AssnEnd, NoneEnd, TypeOK, preds, asg, call
  <2>10. CASE UNCHANGED vars
    BY <2>10 DEF TypeOK, vars, preds, asg, call
  <2> QED
    BY <2>1, <2>2, <2>3, <2>4, <2>5, <2>6, <2>7, <2>8, <2>9, <2>10 DEF Next, Aborted
<1> QED
  BY <1>1, <1>2, PTL DEF Spec

-----------------------------------------------------------------------------
(* The monolithic encoding: selection bits constrained only by "sel ->     *)
(* decode", "at least one, dead.sel included" and "at most one, dead.sel   *)
(* not included" still name exactly one legal choice.                      *)
LEMMA MonoEncoding ==
  ASSUME TypeOK, kind = "Mono", vars_ # {}, NEW s \in State, NEW k \in Frame, NEW t
  PROVE  (MonoKPred(s, k) /\ AssertEqual(vnxt[k], t))
           <=> \E c \in Choice : /\ sel[k] = {c} /\ Enabled(c, s, k)
                                /\ AssertEqual(vnxt[k], Result(c, s, k))
                                /\ AssertEqual(vnxt[k], t)
<1>0. sel[k] \subseteq Choice /\ Dead \notin Instr
  BY ModelAssumption DEF TypeOK
<1>1. ASSUME MonoKPred(s, k)
      PROVE  \E c \in Choice : /\ sel[k] = {c} /\ Enabled(c, s, k)
                               /\ AssertEqual(vnxt[k], Result(c, s, k))
  <2>1. PICK v \in vars_ : TRUE
    OBVIOUS
  <2>2. PICK c \in sel[k] : TRUE
    BY <1>1 DEF MonoKPred
  <2>3. \A d \in sel[k] : d = c
    <3>1. CASE Dead \in sel[k]
      <4>1. sel[k] \cap Instr = {}
        BY <1>1, <2>1, <3>1 DEF MonoKPred
      <4> QED
        BY <4>1, <1>0, <2>2 DEF Choice
    <3>2. CASE Dead \notin sel[k]
      BY <3>2, <1>0, <1>1, <2>2 DEF MonoKPred, Choice
    <3> QED
      BY <3>1, <3>2
  <2>4. Enabled(c, s, k)
    BY <1>0, <1>1, <2>1, <2>2 DEF MonoKPred, Enabled, Choice
  <2>5. AssertEqual(vnxt[k], Result(c, s, k))
    BY <1>0, <1>1, <2>2 DEF MonoKPred, Result, Choice, AssertEqual
  <2> QED
    BY <1>0, <2>2, <2>3, <2>4, <2>5
<1>2. ASSUME NEW c \in Choice, sel[k] = {c}, Enabled(c, s, k),
             AssertEqual(vnxt[k], Result(c, s, k))
      PROVE  MonoKPred(s, k)
  <2>1. CASE c = Dead
    <3>1. sel[k] \cap Instr = {} /\ Dead \in sel[k]
      BY <1>0, <1>2, <2>1
    <3> QED
      BY <1>2, <2>1, <3>1 DEF MonoKPred, Enabled, Result, AssertEqual
  <2>2. CASE c # Dead
    <3>1. sel[k] \cap Instr = {c} /\ Dead \notin sel[k]
      BY <1>0, <1>2, <2>2 DEF Choice
    <3> QED
      BY <1>2, <2>2, <3>1 DEF MonoKPred, Enabled, Result, AssertEqual
  <2> QED
    BY <2>1, <2>2
<1> QED
  BY <1>1, <1>2

(* One iteration of a loop asserts exactly one step of the reference.      *)
LEMMA LoopBody ==
  ASSUME TypeOK, kind = "Mono" => vars_ # {}, i < len,
         NEW s \in State, NEW k \in Frame, NEW t
  PROVE  (LoopPreds(s, k) /\ AssertEqual(KNext(s, k), t))
           <=> (UserPreds(i, s, k) /\ HwStep(i, s, k, t))
<1>1. len > 0
  BY BoundAssumption DEF TypeOK, Frame
<1>2. CASE kind = "Path"
  BY <1>1, <1>2 DEF LoopPreds, UserPreds, HwStep, KPred, KNext
<1>3. CASE kind = "Mono"
  <2>1. HwStep(i, s, k, t) <=> MonoKPred(s, k) /\ AssertEqual(vnxt[k], t)
    BY <1>3, MonoEncoding DEF HwStep
  <2> QED
    BY <1>1, <1>3, <2>1 DEF LoopPreds, UserPreds, KPred, KNext
<1> QED
  BY <1>2, <1>3 DEF TypeOK

-----------------------------------------------------------------------------
(* The inductive invariant.  In the loop, the constraints collected so far *)
(* are those of the first i steps.  UnrollSubs has no copy of the states   *)
(* in between: the collected constraints hold iff some run of i steps      *)
(* exists, and every such run ends in the rewritten state k_prev.          *)
DepInv == kind = "Mono" => vars_ # {}

LoopInv ==
  pc = "loop" =>
    /\ mode \in {"Assn", "Smt"} => (cstr <=> \A j \in 0 .. i - 1 : StepOK(j))
    /\ mode = "None" => (cstr <=> \A j \in 0 .. i - 1 : FreeStepOK(j))
    /\ mode = "Subs" =>
         /\ cstr => \E tr \in [0 .. i -> State] : RunPrefix(tr, i)
         /\ \A tr \in [0 .. i -> State] :
              RunPrefix(tr, i) => cstr /\ AssertEqual(tr[i], k_prev)

DoneInv == ConnectedExact /\ UnconnectedExact /\ SubsExact

UnrollInv == TypeOK /\ DepInv /\ LoopInv /\ DoneInv

(* The reference only reads what an unrolling loop leaves alone.           *)
LEMMA Frozen ==
  ASSUME UNCHANGED <<preds, asg, call>>
  PROVE  /\ \A j \in Int : StepOK(j)' <=> StepOK(j)
         /\ \A j \in Int : FreeStepOK(j)' <=> FreeStepOK(j)
         /\ Execution' <=> Execution
         /\ NoEndPreds' <=> NoEndPreds
         /\ \A tr : \A j \in Int : RunStepOK(tr, j)' <=> RunStepOK(tr, j)
         /\ \A tr : RunThrough(tr)' <=> RunThrough(tr)
<1>1. \A j \in Int : StepOK(j)' <=> StepOK(j)
  BY DEF StepOK, UserPreds, HwStep, SatAll, AssertEqual, StateUpdCmpl, DecodeCmpl,
         Enabled, Result, preds, asg, call
<1>2. \A j \in Int : FreeStepOK(j)' <=> FreeStepOK(j)
  BY DEF FreeStepOK, UserPreds, HwStep, SatAll, AssertEqual, StateUpdCmpl, DecodeCmpl,
         Enabled, Result, preds, asg, call
<1>3. Execution' <=> Execution
  BY DEF Execution, UserPreds, HwStep, SatAll, AssertEqual, StateUpdCmpl, DecodeCmpl,
         Enabled, Result, preds, asg, call
<1>4. NoEndPreds' <=> NoEndPreds
  BY DEF NoEndPreds, preds, call
<1>5. \A tr : \A j \in Int : RunStepOK(tr, j)' <=> RunStepOK(tr, j)
  BY DEF RunStepOK, UserPreds, HwStep, SatAll, AssertEqual, StateUpdCmpl, DecodeCmpl,
         Enabled, Result, preds, asg, call
<1>6. \A tr : RunThrough(tr)' <=> RunThrough(tr)
  BY DEF RunThrough, UserPreds, HwStep, SatAll, AssertEqual, StateUpdCmpl, DecodeCmpl,
         Enabled, Result, preds, asg, call
<1> QED
  BY <1>1, <1>2, <1>3, <1>4, <1>5, <1>6

(* A run of m steps only reads what an unrolling loop leaves alone.        *)
LEMMA FrozenPrefix ==
  ASSUME UNCHANGED <<preds, asg, call>>, NEW tr, NEW m \in Int
  PROVE  RunPrefix(tr, m)' <=> RunPrefix(tr, m)
<1>1. \A j \in 0 .. m - 1 : RunStepOK(tr, j)' <=> RunStepOK(tr, j)
  BY Frozen
<1>2. val' = val /\ pos' = pos
  BY DEF asg, call
<1> QED
  BY <1>1, <1>2 DEF RunPrefix

(* A step of the hardware names its target by the dependant variables only. *)
LEMMA HwStepTarget ==
  ASSUME NEW j, NEW s, NEW k, NEW t, NEW u, AssertEqual(t, u)
  PROVE  HwStep(j, s, k, t) <=> HwStep(j, s, k, u)
BY DEF HwStep, AssertEqual

LEMMA RunThroughSteps ==
  ASSUME NEW tr
  PROVE  RunThrough(tr) <=> /\ RunPrefix(tr, len)
                            /\ AssertEqual(tr[len], val[pos + len])
                            /\ UserPreds(len, val[pos + len], pos + len)
BY DEF RunThrough, RunPrefix, RunStepOK

LEMMA ExecutionSteps ==
  Execution <=> /\ \A j \in 0 .. len - 1 : StepOK(j)
                /\ UserPreds(len, val[pos + len], pos + len)
BY DEF Execution, StepOK

(* The code after the loop asserts the end of the execution, when the frame *)
(* it names is the last one or nothing is asserted there.                  *)
LEMMA EndFrame ==
  ASSUME TypeOK, pos = 0 \/ NoEndPreds
  PROVE  EndPreds <=> UserPreds(len, val[pos + len], pos + len)
<1>1. ~(len = 0 /\ len > 0)
  BY DEF TypeOK, Frame
<1>2. CASE pos = 0
  <2>1. pos + len = len
    BY <1>2, BoundAssumption DEF TypeOK, Frame
  <2> QED
    BY <1>1, <2>1 DEF EndPreds, UserPreds
<1>3. CASE NoEndPreds
  BY <1>1, <1>3 DEF EndPreds, UserPreds, NoEndPreds, SatAll
<1> QED
  BY <1>2, <1>3

(* An iteration of UnrollSubs extends every run by one step: the rewritten *)
(* state is the state the run is in, whatever the assignment of the frame. *)
LEMMA SubsRun ==
  ASSUME TypeOK, DepInv, LoopInv, SubsStep
  PROVE  /\ cstr' => \E tr \in [0 .. i + 1 -> State] : RunPrefix(tr, i + 1)
         /\ \A tr \in [0 .. i + 1 -> State] :
              RunPrefix(tr, i + 1) => cstr' /\ AssertEqual(tr[i + 1], k_prev')
<1> DEFINE k == pos + i
           s == Substituted(k)
<1>1. /\ cstr' = (cstr /\ LoopPreds(s, k)) /\ k_prev' = KNext(s, k)
      /\ pc = "loop" /\ mode = "Subs" /\ i < len /\ TransitionDefined
  BY DEF SubsStep, InLoop
<1>2. i \in Nat /\ k \in Frame /\ i + 1 - 1 = i /\ k_prev \in State /\ val[k] \in State
  BY <1>1, BoundAssumption DEF TypeOK, Frame
<1>3. s \in State
  BY <1>2 DEF Substituted, State, TypeOK
<1>4. KNext(s, k) \in State
  BY <1>1, <1>2, <1>3, KNextInState
<1>5. \A t : (LoopPreds(s, k) /\ AssertEqual(KNext(s, k), t))
              <=> (UserPreds(i, s, k) /\ HwStep(i, s, k, t))
  BY <1>1, <1>2, <1>3, LoopBody DEF DepInv
<1>6. \A v \in Var \ vars_ : s[v] = val[k][v]
  BY DEF Substituted
<1>7. AssertEqual(s, k_prev)
  BY DEF Substituted, AssertEqual, TypeOK
<1>8. \A tr \in [0 .. i -> State] : RunPrefix(tr, i) => cstr /\ AssertEqual(tr[i], k_prev)
  BY <1>1 DEF LoopInv
<1> HIDE DEF s
<1>9. ASSUME cstr' PROVE \E tr \in [0 .. i + 1 -> State] : RunPrefix(tr, i + 1)
  <2>1. PICK r \in [0 .. i -> State] : RunPrefix(r, i)
    BY <1>1, <1>9 DEF LoopInv
  <2>2. AssertEqual(r[i], k_prev)
    BY <1>8, <2>1
  <2> DEFINE tr == [j \in 0 .. i + 1 |-> IF j < i THEN r[j] ELSE IF j = i THEN s ELSE KNext(s, k)]
  <2>3. tr \in [0 .. i + 1 -> State]
    BY <1>2, <1>3, <1>4
  <2>4. /\ \A j \in 0 .. i - 1 : tr[j] = r[j]
        /\ tr[i] = s /\ tr[i + 1] = KNext(s, k)
    BY <1>2
  <2> HIDE DEF tr
  <2>5. tr[0] = val[pos]
    <3>1. CASE i = 0
      <4>1. r[0] = val[pos] /\ r[0] \in State /\ k = pos
        BY <1>2, <2>1, <3>1 DEF RunPrefix, TypeOK, Frame
      <4>2. \A v \in Var : s[v] = val[pos][v]
        BY <1>6, <1>7, <2>2, <3>1, <4>1 DEF AssertEqual
      <4> QED
        BY <1>2, <1>3, <2>4, <3>1, <4>1, <4>2 DEF State
    <3>2. CASE i > 0
      BY <1>2, <2>1, <2>4, <3>2 DEF RunPrefix
    <3> QED
      BY <1>2, <3>1, <3>2
  <2>6. ASSUME NEW j \in 0 .. i PROVE RunStepOK(tr, j)
    <3>1. CASE j = i
      <4>1. AssertEqual(KNext(s, k), KNext(s, k))
        BY DEF AssertEqual
      <4>2. UserPreds(i, s, k) /\ HwStep(i, s, k, KNext(s, k))
        BY <1>1, <1>5, <1>9, <4>1
      <4> QED
        BY <1>6, <2>4, <3>1, <4>2 DEF RunStepOK
    <3>2. CASE j = i - 1
      <4>1. j \in 0 .. i - 1 /\ j + 1 = i
        BY <1>2, <3>2
      <4>2. RunStepOK(r, j) /\ tr[j] = r[j] /\ tr[j + 1] = s
        BY <2>1, <2>4, <4>1 DEF RunPrefix
      <4>3. AssertEqual(r[j + 1], s)
        BY <1>7, <2>2, <4>1 DEF AssertEqual
      <4>4. HwStep(j, r[j], pos + j, s)
        BY <4>2, <4>3, HwStepTarget DEF RunStepOK
      <4> QED
        BY <4>2, <4>4 DEF RunStepOK
    <3>3. CASE j < i - 1
      <4>1. j \in 0 .. i - 1 /\ j + 1 \in 0 .. i - 1
        BY <1>2, <3>3
      <4>2. RunStepOK(r, j) /\ tr[j] = r[j] /\ tr[j + 1] = r[j + 1]
        BY <2>1, <2>4, <4>1 DEF RunPrefix
      <4> QED
        BY <4>2 DEF RunStepOK
    <3> QED
      BY <1>2, <3>1, <3>2, <3>3
  <2> QED
    BY <1>2, <2>3, <2>5, <2>6 DEF RunPrefix
<1>10. ASSUME NEW tr \in [0 .. i + 1 -> State], RunPrefix(tr, i + 1)
       PROVE  cstr' /\ AssertEqual(tr[i + 1], k_prev')
  <2> DEFINE r == [j \in 0 .. i |-> tr[j]]
  <2>1. r \in [0 .. i -> State] /\ \A j \in 0 .. i : r[j] = tr[j]
    BY <1>2
  <2> HIDE DEF r
  <2>2. \A j \in 0 .. i : RunStepOK(tr, j)
    BY <1>2, <1>10 DEF RunPrefix
  <2>3. \A j \in 0 .. i - 1 : j \in 0 .. i /\ j + 1 \in 0 .. i
    BY <1>2
  <2>4. \A j \in 0 .. i - 1 : RunStepOK(r, j)
    BY <2>1, <2>2, <2>3 DEF RunStepOK
  <2>5. r[0] = val[pos]
    BY <1>2, <1>10, <2>1 DEF RunPrefix
  <2>6. cstr /\ AssertEqual(tr[i], k_prev)
    BY <1>2, <1>8, <2>1, <2>4, <2>5 DEF RunPrefix
  <2>7. RunStepOK(tr, i) /\ tr[i] \in State
    BY <1>2, <2>2
  <2>8. \A v \in Var : tr[i][v] = s[v]
    BY <1>6, <1>7, <2>6, <2>7 DEF RunStepOK, AssertEqual
  <2>9. tr[i] = s
    BY <1>3, <2>7, <2>8 DEF State
  <2>10. LoopPreds(s, k) /\ AssertEqual(KNext(s, k), tr[i + 1])
    BY <1>5, <2>7, <2>9 DEF RunStepOK
  <2> QED
    BY <1>1, <2>6, <2>10 DEF AssertEqual
<1> QED
  BY <1>9, <1>10

LEMMA LoopStepInv ==
  ASSUME UnrollInv, TypeOK', AssnStep \/ NoneStep \/ SmtStep \/ SubsStep
  PROVE  LoopInv'
<1> DEFINE k == pos + i
<1>1. /\ pc = "loop" /\ i < len /\ pc' = pc /\ mode' = mode /\ i' = i + 1
      /\ pos' = pos /\ val' = val /\ nxt' = nxt /\ vars_' = vars_
      /\ UNCHANGED <<preds, asg, call>>
  BY DEF AssnStep, NoneStep, SmtStep, SubsStep, InLoop, call, asg
<1>2. TypeOK /\ (kind = "Mono" => vars_ # {}) /\ LoopInv
  BY DEF UnrollInv, DepInv
<1>3. /\ i \in Nat /\ pos \in Nat /\ len \in Nat /\ k \in Frame /\ k + 1 \in Frame
      /\ i' - 1 = i /\ pos' + i' = k + 1
  BY <1>1, <1>2, BoundAssumption DEF TypeOK, Frame
<1>4. val[k] \in State
  BY <1>2, <1>3 DEF TypeOK
<1>5. /\ \A j \in Int : StepOK(j)' <=> StepOK(j)
      /\ \A j \in Int : FreeStepOK(j)' <=> FreeStepOK(j)
  BY <1>1, Frozen
<1>6. StepOK(i) <=> LoopPreds(val[k], k) /\ AssertEqual(KNext(val[k], k), val[k + 1])
  BY <1>1, <1>2, <1>3, <1>4, LoopBody DEF StepOK
<1>7. FreeStepOK(i) <=> LoopPreds(val[k], k) /\ AssertEqual(KNext(val[k], k), nxt[k])
  BY <1>1, <1>2, <1>3, <1>4, LoopBody DEF FreeStepOK
<1>8. (\A j \in 0 .. i' - 1 : StepOK(j)')
        <=> (\A j \in 0 .. i - 1 : StepOK(j)) /\ StepOK(i)
  BY <1>3, <1>5
<1>9. (\A j \in 0 .. i' - 1 : FreeStepOK(j)')
        <=> (\A j \in 0 .. i - 1 : FreeStepOK(j)) /\ FreeStepOK(i)
  BY <1>3, <1>5
<1>10. CASE AssnStep \/ SmtStep
  <2>1. mode \in {"Assn", "Smt"}
    BY <1>10 DEF AssnStep, SmtStep, InLoop
  <2>2. cstr' <=> cstr /\ StepOK(i)
    BY <1>10, <1>6 DEF AssnStep, SmtStep
  <2>3. cstr <=> \A j \in 0 .. i - 1 : StepOK(j)
    BY <1>1, <1>2, <2>1 DEF LoopInv
  <2>4. cstr' <=> \A j \in 0 .. i' - 1 : StepOK(j)'
    BY <1>8, <2>2, <2>3
  <2> QED
    BY <1>1, <2>1, <2>4 DEF LoopInv
<1>11. CASE NoneStep
  <2>1. mode = "None"
    BY <1>11 DEF NoneStep, InLoop
  <2>2. cstr' <=> cstr /\ FreeStepOK(i)
    BY <1>11, <1>7 DEF NoneStep
  <2>3. cstr <=> \A j \in 0 .. i - 1 : FreeStepOK(j)
    BY <1>1, <1>2, <2>1 DEF LoopInv
  <2>4. cstr' <=> \A j \in 0 .. i' - 1 : FreeStepOK(j)'
    BY <1>9, <2>2, <2>3
  <2> QED
    BY <1>1, <2>1, <2>4 DEF LoopInv
<1>12. CASE SubsStep
  <2>1. mode = "Subs"
    BY <1>12 DEF SubsStep, InLoop
  <2>2. /\ cstr' => \E tr \in [0 .. i + 1 -> State] : RunPrefix(tr, i + 1)
        /\ \A tr \in [0 .. i + 1 -> State] :
             RunPrefix(tr, i + 1) => cstr' /\ AssertEqual(tr[i + 1], k_prev')
    BY <1>1, <1>2, <1>12, SubsRun DEF DepInv
  <2>3. \A tr : RunPrefix(tr, i)' <=> RunPrefix(tr, i + 1)
    <3>1. i + 1 \in Int /\ i' = i + 1
      BY <1>1, <1>3
    <3> QED
      BY <1>1, <3>1, FrozenPrefix
  <2>4. \A tr : AssertEqual(tr[i], k_prev)' <=> AssertEqual(tr[i + 1], k_prev')
    BY <1>1 DEF AssertEqual
  <2>5. [0 .. i' -> State] = [0 .. i + 1 -> State]
    BY <1>1
  <2> QED
    BY <1>1, <2>1, <2>2, <2>3, <2>4, <2>5 DEF LoopInv
<1> QED
  BY <1>10, <1>11, <1>12

LEMMA EndInv ==
  ASSUME UnrollInv, TypeOK', SubsEnd \/ AssnEnd \/ NoneEnd
  PROVE  DoneInv'
<1>1. /\ pc = "loop" /\ i = len /\ pc' = "done" /\ mode' = mode /\ pos' = pos
      /\ len' = len /\ UNCHANGED <<preds, asg, call>>
  BY DEF SubsEnd, AssnEnd, NoneEnd, AtEnd, call
<1>2. TypeOK /\ LoopInv
  BY DEF UnrollInv
<1>3. /\ \A j \in Int : FreeStepOK(j)' <=> FreeStepOK(j)
      /\ Execution' <=> Execution
      /\ NoEndPreds' <=> NoEndPreds
      /\ \A tr : RunThrough(tr)' <=> RunThrough(tr)
  BY <1>1, Frozen
<1>4. CASE AssnEnd
  <2>1. mode \in {"Assn", "Smt"}
    BY <1>4 DEF AssnEnd, AtEnd
  <2>2. cstr <=> \A j \in 0 .. len - 1 : StepOK(j)
    BY <1>1, <1>2, <2>1 DEF LoopInv
  <2>3. cstr' <=> cstr /\ EndPreds
    BY <1>4 DEF AssnEnd
  <2>4. ASSUME pos = 0 \/ NoEndPreds PROVE cstr' <=> Execution
    BY <1>2, <2>2, <2>3, <2>4, EndFrame, ExecutionSteps
  <2>5. ConnectedExact'
    BY <1>1, <1>3, <2>4 DEF ConnectedExact
  <2> QED
    BY <1>1, <2>1, <2>5 DEF DoneInv, UnconnectedExact, SubsExact
<1>5. CASE NoneEnd
  <2>1. mode = "None"
    BY <1>5 DEF NoneEnd, AtEnd
  <2>2. cstr' <=> \A j \in 0 .. len - 1 : FreeStepOK(j)
    BY <1>1, <1>2, <1>5, <2>1 DEF LoopInv, NoneEnd
  <2>3. cstr' <=> \A j \in 0 .. len' - 1 : FreeStepOK(j)'
    BY <1>1, <1>2, <1>3, <2>2 DEF TypeOK, Frame
  <2>4. UnconnectedExact'
    BY <2>3 DEF UnconnectedExact, FreeStepOK
  <2> QED
    BY <1>1, <2>1, <2>4 DEF DoneInv, ConnectedExact, SubsExact
<1>6. CASE SubsEnd
  <2>1. mode = "Subs"
    BY <1>6 DEF SubsEnd, AtEnd
  <2>2. /\ cstr => \E tr \in [0 .. len -> State] : RunPrefix(tr, len)
        /\ \A tr \in [0 .. len -> State] :
             RunPrefix(tr, len) => cstr /\ AssertEqual(tr[len], k_prev)
    BY <1>1, <1>2, <2>1 DEF LoopInv
  <2>3. ASSUME pos = 0 PROVE cstr' <=> \E tr \in [0 .. len -> State] : RunThrough(tr)
    <3>1. pos + len = len
      BY <1>2, <2>3, BoundAssumption DEF TypeOK, Frame
    <3>2. EndPreds <=> UserPreds(len, val[pos + len], pos + len)
      BY <1>2, <2>3, EndFrame
    <3>3. cstr' <=> cstr /\ AssertEqual(k_prev, val[pos + len]) /\ EndPreds
      BY <1>6, <3>1 DEF SubsEnd
    <3>4. ASSUME NEW tr \in [0 .. len -> State], RunPrefix(tr, len)
          PROVE  AssertEqual(tr[len], val[pos + len]) <=> AssertEqual(k_prev, val[pos + len])
      BY <2>2, <3>4 DEF AssertEqual
    <3> QED
      BY <2>2, <3>2, <3>3, <3>4, RunThroughSteps
  <2>4. SubsExact'
    BY <1>1, <1>3, <2>3 DEF SubsExact
  <2> QED
    BY <1>1, <2>1, <2>4 DEF DoneInv, ConnectedExact, UnconnectedExact
<1> QED
  BY <1>4, <1>5, <1>6

(* Whatever calls were made before, the connected, the unconnected and the *)
(* substituting unrolling are exact encodings.                             *)
THEOREM UnrollCorrect == Spec => []UnrollInv
<1>1. Init => UnrollInv
  <2> SUFFICES ASSUME Init PROVE UnrollInv
    OBVIOUS
  <2>1. TypeOK
    BY BoundAssumption DEF Init, TypeOK, Frame, State
  <2> QED
    BY <2>1 DEF Init, UnrollInv, DepInv, LoopInv, DoneInv, ConnectedExact,
                UnconnectedExact, SubsExact
<1>2. UnrollInv /\ TypeOK' /\ [Next]_vars => UnrollInv'
  <2> SUFFICES ASSUME UnrollInv, TypeOK', [Next]_vars PROVE DepInv' /\ LoopInv' /\ DoneInv'
    BY DEF UnrollInv
  <2>0. DepInv /\ TypeOK
    BY DEF UnrollInv
  <2>1. ASSUME pc' \in {"idle", "aborted"}, UNCHANGED call
        PROVE  DepInv' /\ LoopInv' /\ DoneInv'
    BY <2>0, <2>1 DEF DepInv, LoopInv, DoneInv, ConnectedExact, UnconnectedExact,
                      SubsExact, call
  <2>2. CASE \E p \in Pred : AddGlobPred(p) \/ AddInitPred(p)
    BY <2>1, <2>2 DEF AddGlobPred, AddInitPred
  <2>3. CASE \E p \in Pred, kk \in Frame : AddStepPred(p, kk)
    BY <2>1, <2>3 DEF AddStepPred
  <2>4. ASSUME NEW what, ClearPred(what) PROVE DepInv' /\ LoopInv' /\ DoneInv'
    BY <2>1, <2>4 DEF ClearPred
  <2>5. CASE TransitionAbort
    BY <2>1, <2>5 DEF TransitionAbort
  <2>6. ASSUME pc' = "loop", i' = 0, cstr' = TRUE, pos' \in Nat, k_prev' = val'[pos']
        PROVE  LoopInv' /\ DoneInv'
    <3>1. ASSUME NEW tr, RunPrefix(tr, i)' PROVE AssertEqual(tr[i], k_prev)'
      BY <2>6, <3>1 DEF RunPrefix, AssertEqual
    <3>2. 0 .. i' - 1 = {}
      BY <2>6
    <3>3. \E tr \in [0 .. i' -> State] : RunPrefix(tr, i)'
      <4>1. val'[pos'] \in State
        BY DEF TypeOK
      <4> DEFINE tr == [j \in 0 .. i' |-> val'[pos']]
      <4>2. tr \in [0 .. i' -> State] /\ tr[0] = val'[pos']
        BY <2>6, <4>1
      <4> QED
        BY <3>2, <4>2 DEF RunPrefix
    <3> QED
      BY <2>6, <3>1, <3>2, <3>3 DEF LoopInv, DoneInv, ConnectedExact, UnconnectedExact,
                              SubsExact
  <2>7. ASSUME NEW m \in Modes, NEW n \in Frame, NEW p \in Frame,
               NEW seq \in [1 .. n -> Instr], PathUnroll(m, seq, p)
        PROVE  DepInv' /\ LoopInv' /\ DoneInv'
    BY <2>6, <2>7 DEF PathUnroll, BootStrap, DepInv, Frame, asg
  <2>8. ASSUME NEW m \in Modes, NEW n \in Frame, NEW p \in Frame, MonoUnroll(m, n, p)
        PROVE  DepInv' /\ LoopInv' /\ DoneInv'
    BY <2>6, <2>8, MonoVars DEF MonoUnroll, BootStrap, DepInv, Frame, asg
  <2>9. CASE AssnStep \/ NoneStep \/ SmtStep \/ SubsStep
    <3>1. pc' = "loop" /\ UNCHANGED call
      BY <2>9 DEF AssnStep, NoneStep, SmtStep, SubsStep, InLoop
    <3> QED
      BY <2>0, <2>9, <3>1, LoopStepInv DEF DepInv, DoneInv, ConnectedExact,
         UnconnectedExact, SubsExact, call
  <2>10. CASE SubsEnd \/ AssnEnd \/ NoneEnd
    <3>1. pc' = "done" /\ UNCHANGED call
      BY <2>10 DEF SubsEnd, AssnEnd, NoneEnd
    <3> QED
      BY <2>0, <2>10, <3>1, EndInv DEF DepInv, LoopInv, call
  <2>11. CASE UNCHANGED vars
    <3>1. /\ UNCHANGED <<preds, asg, call>>
          /\ UNCHANGED <<pc, i, k_prev, cstr, mode, pos, len, kind, vars_, val, nxt>>
      BY <2>11 DEF vars, call, asg
    <3>2. /\ \A j \in Int : StepOK(j)' <=> StepOK(j)
          /\ \A j \in Int : FreeStepOK(j)' <=> FreeStepOK(j)
          /\ Execution' <=> Execution
          /\ NoEndPreds' <=> NoEndPreds
          /\ \A tr : RunThrough(tr)' <=> RunThrough(tr)
      BY <3>1, Frozen
    <3>3. LoopInv /\ DoneInv /\ DepInv
      BY DEF UnrollInv
    <3>4. DepInv'
      BY <3>1, <3>3 DEF DepInv
    <3>5. /\ \A tr : RunPrefix(tr, i)' <=> RunPrefix(tr, i)
          /\ \A tr : AssertEqual(tr[i], k_prev)' <=> AssertEqual(tr[i], k_prev)
      <4>1. i \in Int /\ i' = i
        BY <2>0, <3>1 DEF TypeOK
      <4>2. \A tr : RunPrefix(tr, i)' <=> RunPrefix(tr, i)
        BY <3>1, <4>1, FrozenPrefix
      <4>3. \A tr : AssertEqual(tr[i], k_prev)' <=> AssertEqual(tr[i], k_prev)
        BY <3>1 DEF AssertEqual
      <4> QED
        BY <4>2, <4>3
    <3>6. LoopInv'
      BY <3>1, <3>2, <3>3, <3>5, <2>0 DEF LoopInv
    <3>7. ConnectedExact' /\ SubsExact'
      BY <3>1, <3>2, <3>3 DEF DoneInv, ConnectedExact, SubsExact
    <3>8. UnconnectedExact <=> (pc = "done" /\ mode = "None"
                                  => (cstr <=> \A j \in 0 .. len - 1 : FreeStepOK(j)))
      BY DEF UnconnectedExact, FreeStepOK
    <3>9. UnconnectedExact'
      BY <3>1, <3>2, <3>3, <3>8, <2>0 DEF DoneInv, UnconnectedExact, FreeStepOK
    <3> QED
      BY <3>4, <3>6, <3>7, <3>9 DEF DoneInv
  <2> QED
    BY <2>2, <2>3, <2>4, <2>5, <2>7, <2>8, <2>9, <2>10, <2>11 DEF Next, Aborted
<1> QED
  BY <1>1, <1>2, TypeCorrect, PTL DEF Spec

(* PathAssn, MonoAssn, MonoIncr and UnrollerSmt::Unroll are exact.         *)
THEOREM ConnectedIsExact == Spec => []ConnectedExact
<1>1. UnrollInv => ConnectedExact
  BY DEF UnrollInv, DoneInv
<1> QED
  BY <1>1, UnrollCorrect, PTL

(* PathNone and MonoNone constrain each frame and its own successor only.  *)
THEOREM UnconnectedIsExact == Spec => []UnconnectedExact
<1>1. UnrollInv => UnconnectedExact
  BY DEF UnrollInv, DoneInv
<1> QED
  BY <1>1, UnrollCorrect, PTL

(* PathSubs and MonoSubs from frame 0 are satisfied by the first and last  *)
(* frame of runs, and by nothing else, for every length.                   *)
THEOREM SubsIsExact == Spec => []SubsExact
<1>1. UnrollInv => SubsExact
  BY DEF UnrollInv, DoneInv
<1> QED
  BY <1>1, UnrollCorrect, PTL

(* Both encodings of the unrollers are the step relation.                  *)
THEOREM EncodingIsExact == Spec => []EncodingExact
<1>1. UnrollInv => EncodingExact
  BY DEF UnrollInv, DoneInv, EncodingExact
<1> QED
  BY <1>1, UnrollCorrect, PTL

(* PathSubs and MonoSubs from frame 0 admit every execution.               *)
THEOREM SubsAdmitsAll == Spec => []SubsAdmitsExecutions
<1>1. UnrollInv => SubsAdmitsExecutions
  <2> SUFFICES ASSUME TypeOK, SubsExact, pc = "done", mode = "Subs", pos = 0, Execution
               PROVE  cstr
    BY DEF UnrollInv, DoneInv, SubsAdmitsExecutions
  <2> DEFINE tr == [j \in 0 .. len |-> val[pos + j]]
  <2>1. \A j \in 0 .. len : pos + j \in Frame /\ val[pos + j] \in State
    BY BoundAssumption DEF TypeOK, Frame
  <2>2. tr \in [0 .. len -> State]
    BY <2>1
  <2>3. /\ \A j \in 0 .. len : tr[j] = val[pos + j]
        /\ len \in Nat /\ 0 \in 0 .. len /\ len \in 0 .. len /\ pos + 0 = pos
        /\ \A j \in 0 .. len - 1 : j \in 0 .. len /\ j + 1 \in 0 .. len /\ pos + (j + 1) = pos + j + 1
    BY BoundAssumption DEF TypeOK, Frame
  <2> HIDE DEF tr
  <2>4. RunThrough(tr)
    BY <2>3 DEF RunThrough, Execution, AssertEqual
  <2> QED
    BY <2>2, <2>4 DEF SubsExact
<1> QED
  BY <1>1, UnrollCorrect, PTL
=============================================================================
