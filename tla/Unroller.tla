------------------------------ MODULE Unroller ------------------------------
(***************************************************************************)
(* The bounded unrollers: Unroller, PathUnroll and MonoUnroll              *)
(* (src/ila-mngr/u_unroller.cc) and the generic PathUnroller               *)
(* (src/ila-mngr/u_unroller_smt.cc).                                       *)
(*                                                                         *)
(* An unroller builds a formula over copies of the model's variables, one  *)
(* copy per time frame ("x_0", "x_1", ...).  A formula is its truth value  *)
(* under every assignment of those copies, so the assignment is picked     *)
(* once, in Init (val, inp, nxt, sel, vnxt below), and cstr is the truth   *)
(* value, under that assignment, of the conjunction of everything pushed   *)
(* to cstr_ so far.  A property that holds for every assignment speaks of  *)
(* the formula itself.  One action is one call of the API, one iteration   *)
(* of an unrolling loop, or the code after the loop.                       *)
(***************************************************************************)
EXTENDS Integers, Sequences, FiniteSets

CONSTANTS
  Var,         \* state variables of the ILA hierarchy
  Val,         \* their values
  Input,       \* valuations of the inputs in one time frame
  Ila,         \* the top ILA and its children
  Instr,       \* the instructions of the hierarchy
  Pred,        \* predicates a user may add
  Dead,        \* the "dead.sel" choice of MonoUnroll
  Host,        \* Host[c]: the ILA an instruction belongs to
  Stt,         \* Stt[m]: the state variables an ILA declares itself
  HasDecode,   \* instructions whose decode function is set
  Decode,      \* Decode[c]: the <<state, input>> pairs in which c is triggered
  Updated,     \* Updated[c]: the variables c has an update function for
  Update,      \* Update[c][<<state, input>>]: the values c gives them
  Holds,       \* Holds[p]: the <<state, input>> pairs that satisfy predicate p
  MaxFrame,    \* bound: time frames are 0..MaxFrame
  Kinds,       \* which unroller classes are used
  Modes,       \* which unrolling functions are called
  ValChoice, InpChoice, NxtChoice, SelChoice, VnxtChoice \* assignments explored

State == [Var -> Val]
Frame == 0 .. MaxFrame
Choice == Instr \cup {Dead}

ASSUME ModelAssumption ==
  /\ Dead \notin Instr
  /\ \E m \in Ila : Stt[m] # {}   \* "No state var found."
  /\ Host \in [Instr -> Ila]
  /\ Stt \in [Ila -> SUBSET Var]
  /\ HasDecode \subseteq Instr
  /\ Decode \in [Instr -> SUBSET (State \X Input)]
  /\ Updated \in [Instr -> SUBSET Var]
  /\ Update \in [Instr -> [State \X Input -> State]]
  /\ Holds \in [Pred -> SUBSET (State \X Input)]

ASSUME BoundAssumption ==
  /\ MaxFrame \in Nat
  /\ Kinds \subseteq {"Path", "Mono"}
  /\ Modes \subseteq {"Subs", "Assn", "None", "Smt"}
  /\ ValChoice \subseteq [Frame -> State]
  /\ InpChoice \subseteq [Frame -> Input]
  /\ NxtChoice \subseteq [Frame -> State]
  /\ SelChoice \subseteq [Frame -> SUBSET Choice]
  /\ VnxtChoice \subseteq [Frame -> State]

VARIABLES
  g_pred_, i_pred_, s_pred_,   \* global, initial and step-specific predicates
  val,     \* val[k]:  value of the state variables with suffix SuffCurr(k)
  inp,     \* inp[k]:  value of the inputs with suffix SuffCurr(k)
  nxt,     \* nxt[k]:  value of the state variables with suffix SuffNext(k)
  sel,     \* sel[k]:  the selection bits of MonoUnroll that are true at k
  vnxt,    \* vnxt[k]: value of the ".vnxt" variables of MonoUnroll at k
  pc,      \* "idle", "loop", "done" (a formula was returned), "aborted"
  kind, mode, seq_, len, pos,   \* the call being served
  i,       \* loop index
  vars_,   \* the dependant state variables
  k_prev,  \* k_prev_z3_: latest states, as values (only those of vars_ count)
  cstr     \* truth value of the conjunction of cstr_

preds == <<g_pred_, i_pred_, s_pred_>>
asg   == <<val, inp, nxt, sel, vnxt>>
call  == <<kind, mode, seq_, len, pos, vars_>>
vars  == <<preds, asg, call, pc, i, k_prev, cstr>>

-----------------------------------------------------------------------------
(* Expressions.  A predicate or update is evaluated in a state s with the  *)
(* inputs of frame k.                                                      *)

\* IExprToZExpr on a predicate table, conjoined
SatAll(ps, s, k) == \A p \in ps : <<s, inp[k]>> \in Holds[p]

StateUpdCmpl(c, s, k) ==
  [v \in Var |-> IF v \in Updated[c] THEN Update[c][<<s, inp[k]>>][v] ELSE s[v]]

\* MonoUnroll reads a missing decode as true
DecodeCmpl(c, s, k) == c \in HasDecode => <<s, inp[k]>> \in Decode[c]

\* mutant: the rewriting forgotten, every frame keeps its own variables
SubstitutedNone(k) == val[k]

\* substitute(subs_src, subs_dst): only the variables of vars_ are rewritten,
\* everything else keeps the suffix of frame k
Substituted(k) == [v \in Var |-> IF v \in vars_ THEN k_prev[v] ELSE val[k][v]]

AssertEqual(a, b) == \A v \in vars_ : a[v] = b[v]

-----------------------------------------------------------------------------
(* Transition(idx): the next-state table k_next_ and the predicates k_pred_ *)

PathDefineDepVar(seq) == UNION {Stt[Host[seq[j]]] : j \in DOMAIN seq}
MonoDefineDepVar == UNION {Stt[m] : m \in Ila}

\* mutant: dead selectable while an instruction decodes
MonoKPredDeadAnyTime(s, k) ==
  /\ \A v \in vars_ :
       /\ \A c \in sel[k] \cap Instr : DecodeCmpl(c, s, k)
       /\ \A c \in sel[k] \cap Instr : vnxt[k][v] = StateUpdCmpl(c, s, k)[v]
       /\ Dead \in sel[k] => vnxt[k][v] = s[v]
  /\ sel[k] # {}
  /\ \A c, d \in sel[k] \cap Instr : c = d

\* sel -> decode, sel -> update, at least one selection, at most one
\* instruction; the decode conjuncts are built once per dependant variable
MonoKPred(s, k) ==
  /\ \A v \in vars_ :
       /\ \A c \in sel[k] \cap Instr : DecodeCmpl(c, s, k)
       /\ Dead \in sel[k] => \A c \in Instr : ~DecodeCmpl(c, s, k)
       /\ \A c \in sel[k] \cap Instr : vnxt[k][v] = StateUpdCmpl(c, s, k)[v]
       /\ Dead \in sel[k] => vnxt[k][v] = s[v]
  /\ sel[k] # {}
  /\ \A c, d \in sel[k] \cap Instr : c = d

KPred(s, k) ==
  IF kind = "Path" THEN <<s, inp[k]>> \in Decode[seq_[i + 1]]
                   ELSE MonoKPred(s, k)

KNext(s, k) ==
  IF kind = "Path" THEN StateUpdCmpl(seq_[i + 1], s, k) ELSE vnxt[k]

\* ILA_NOT_NULL(dec) in PathUnroll::Transition ends the program
TransitionDefined == kind = "Path" => seq_[i + 1] \in HasDecode

-----------------------------------------------------------------------------
Init ==
  /\ g_pred_ = {} /\ i_pred_ = {} /\ s_pred_ = [k \in Frame |-> {}]
  /\ val \in ValChoice /\ inp \in InpChoice /\ nxt \in NxtChoice
  /\ sel \in SelChoice /\ vnxt \in VnxtChoice
  /\ pc = "idle" /\ kind = "Path" /\ mode = "Assn"
  /\ seq_ = << >> /\ len = 0 /\ pos = 0 /\ i = 0 /\ vars_ = {}
  /\ k_prev = val[0] /\ cstr = TRUE

\* no unrolling function is on the stack; pc = "done" shows the last result
Quiet == pc \in {"idle", "done"}

AddGlobPred(p) ==
  /\ Quiet /\ g_pred_' = g_pred_ \cup {p} /\ pc' = "idle"
  /\ UNCHANGED <<i_pred_, s_pred_, asg, call, i, k_prev, cstr>>

AddInitPred(p) ==
  /\ Quiet /\ i_pred_' = i_pred_ \cup {p} /\ pc' = "idle"
  /\ UNCHANGED <<g_pred_, s_pred_, asg, call, i, k_prev, cstr>>

AddStepPred(p, k) ==
  /\ Quiet /\ s_pred_' = [s_pred_ EXCEPT ![k] = @ \cup {p}] /\ pc' = "idle"
  /\ UNCHANGED <<g_pred_, i_pred_, asg, call, i, k_prev, cstr>>

\* ClearGlobPred, ClearInitPred, ClearStepPred, and ClearPred for all three
ClearPred(what) ==
  /\ Quiet /\ pc' = "idle"
  /\ g_pred_' = IF "glob" \in what THEN {} ELSE g_pred_
  /\ i_pred_' = IF "init" \in what THEN {} ELSE i_pred_
  /\ s_pred_' = IF "step" \in what THEN [k \in Frame |-> {}] ELSE s_pred_
  /\ UNCHANGED <<asg, call, i, k_prev, cstr>>

\* mutant: the loop index of the last call kept
BootStrapKeepIndex(dep, p) ==
  /\ vars_' = dep /\ k_prev' = val[p] /\ cstr' = TRUE
  /\ pos' = p /\ i' = i /\ pc' = "loop"

\* with cache = false, the only way any caller enters it
BootStrap(dep, p) ==
  /\ vars_' = dep
  /\ k_prev' = val[p]
  /\ cstr' = TRUE
  /\ pos' = p /\ i' = 0 /\ pc' = "loop"

\* PathSubs, PathAssn, PathNone and UnrollerSmt::Unroll
PathUnroll(m, seq, p) ==
  /\ Quiet /\ "Path" \in Kinds
  /\ p + Len(seq) \in Frame
  /\ kind' = "Path" /\ mode' = m /\ seq_' = seq /\ len' = Len(seq)
  /\ BootStrap(PathDefineDepVar(seq), p)
  /\ UNCHANGED <<preds, asg>>

\* MonoSubs, MonoAssn (and MonoIncr), MonoNone
MonoUnroll(m, n, p) ==
  /\ Quiet /\ "Mono" \in Kinds /\ m # "Smt"
  /\ p + n \in Frame
  /\ kind' = "Mono" /\ mode' = m /\ seq_' = << >> /\ len' = n
  /\ BootStrap(MonoDefineDepVar, p)
  /\ UNCHANGED <<preds, asg>>

\* the predicates asserted on frame pos + i when its state is s
LoopPreds(s, k) ==
  /\ i = 0 => SatAll(i_pred_, s, k)
  /\ SatAll(g_pred_, s, k)
  /\ KPred(s, k)
  /\ SatAll(s_pred_[i], s, k)

InLoop(m) == pc = "loop" /\ mode = m /\ i < len /\ TransitionDefined

SubsStep ==
  /\ InLoop("Subs")
  /\ LET k == pos + i
         s == Substituted(k)
     IN  /\ cstr' = (cstr /\ LoopPreds(s, k))
         /\ k_prev' = KNext(s, k)
  /\ i' = i + 1
  /\ UNCHANGED <<preds, asg, call, pc>>

AssnStep ==
  /\ InLoop("Assn")
  /\ LET k == pos + i
     IN  cstr' = (cstr /\ LoopPreds(val[k], k)
                       /\ AssertEqual(KNext(val[k], k), val[k + 1]))
  /\ i' = i + 1
  /\ UNCHANGED <<preds, asg, call, pc, k_prev>>

\* mutant: SuffCurr of the next frame instead of SuffNext
NoneStepConnected ==
  /\ InLoop("None")
  /\ LET k == pos + i
     IN  cstr' = (cstr /\ LoopPreds(val[k], k)
                       /\ AssertEqual(KNext(val[k], k), val[k + 1]))
  /\ i' = i + 1
  /\ UNCHANGED <<preds, asg, call, pc, k_prev>>

NoneStep ==
  /\ InLoop("None")
  /\ LET k == pos + i
     IN  cstr' = (cstr /\ LoopPreds(val[k], k)
                       /\ AssertEqual(KNext(val[k], k), nxt[k]))
  /\ i' = i + 1
  /\ UNCHANGED <<preds, asg, call, pc, k_prev>>

SmtStep ==
  /\ InLoop("Smt")
  /\ LET k == pos + i
     IN  cstr' = (cstr /\ LoopPreds(val[k], k)
                       /\ AssertEqual(KNext(val[k], k), val[k + 1]))
  /\ i' = i + 1
  /\ UNCHANGED <<preds, asg, call, pc, k_prev>>

TransitionAbort ==
  /\ pc = "loop" /\ i < len /\ ~TransitionDefined
  /\ pc' = "aborted"
  /\ UNCHANGED <<preds, asg, call, i, k_prev, cstr>>

\* mutant: the step predicates of the end state forgotten
EndPredsGlobalOnly == SatAll(g_pred_, val[len], len)

\* "extend for end states": the frame is SuffCurr(len), whatever pos is
EndPreds == SatAll(g_pred_, val[len], len) /\ SatAll(s_pred_[len], val[len], len)

AtEnd(m) == pc = "loop" /\ mode = m /\ i = len

SubsEnd ==
  /\ AtEnd("Subs")
  /\ cstr' = (cstr /\ AssertEqual(k_prev, val[len]) /\ EndPreds)
  /\ pc' = "done"
  /\ UNCHANGED <<preds, asg, call, i, k_prev>>

AssnEnd ==
  /\ AtEnd("Assn") \/ AtEnd("Smt")
  /\ cstr' = (cstr /\ EndPreds)
  /\ pc' = "done"
  /\ UNCHANGED <<preds, asg, call, i, k_prev>>

NoneEnd ==
  /\ AtEnd("None")
  /\ pc' = "done"
  /\ UNCHANGED <<preds, asg, call, i, k_prev, cstr>>

\* a fatal check has ended the process
Aborted == pc = "aborted" /\ UNCHANGED vars

Next ==
  \/ \E p \in Pred : AddGlobPred(p) \/ AddInitPred(p)
  \/ \E p \in Pred, k \in Frame : AddStepPred(p, k)
  \/ \E what \in {{"glob"}, {"init"}, {"step"}, {"glob", "init", "step"}} :
       ClearPred(what)
  \/ \E m \in Modes, n \in Frame, p \in Frame :
       \/ \E seq \in [1 .. n -> Instr] : PathUnroll(m, seq, p)
       \/ MonoUnroll(m, n, p)
  \/ SubsStep \/ AssnStep \/ NoneStep \/ SmtStep \/ TransitionAbort
  \/ SubsEnd \/ AssnEnd \/ NoneEnd
  \/ Aborted

Spec == Init /\ [][Next]_vars

-----------------------------------------------------------------------------
(* Properties. *)

TypeOK ==
  /\ g_pred_ \subseteq Pred /\ i_pred_ \subseteq Pred
  /\ s_pred_ \in [Frame -> SUBSET Pred]
  /\ val \in [Frame -> State] /\ inp \in [Frame -> Input]
  /\ nxt \in [Frame -> State] /\ vnxt \in [Frame -> State]
  /\ sel \in [Frame -> SUBSET Choice]
  /\ pc \in {"idle", "loop", "done", "aborted"}
  /\ kind \in {"Path", "Mono"} /\ mode \in {"Subs", "Assn", "None", "Smt"}
  /\ seq_ \in Seq(Instr) /\ len \in Frame /\ pos \in Frame /\ pos + len \in Frame
  /\ i \in 0 .. len
  /\ kind = "Path" => len = Len(seq_)
  /\ vars_ \subseteq Var
  /\ k_prev \in State
  /\ cstr \in BOOLEAN

\* The reference: one step of the modelled hardware from s, with the inputs
\* of frame k, to t.  A path takes the given instruction, which must decode.
\* The monolithic system takes exactly one decoded instruction, or, when none
\* decodes, stays where it is; the selection bits name that choice and the
\* virtual next state is its result.
Result(c, s, k) == IF c = Dead THEN s ELSE StateUpdCmpl(c, s, k)

Enabled(c, s, k) ==
  IF c = Dead THEN \A d \in Instr : ~DecodeCmpl(d, s, k) ELSE DecodeCmpl(c, s, k)

HwStep(j, s, k, t) ==
  IF kind = "Path"
  THEN /\ <<s, inp[k]>> \in Decode[seq_[j + 1]]
       /\ AssertEqual(StateUpdCmpl(seq_[j + 1], s, k), t)
  ELSE \E c \in Choice : /\ sel[k] = {c} /\ Enabled(c, s, k)
                         /\ AssertEqual(vnxt[k], Result(c, s, k))
                         /\ AssertEqual(vnxt[k], t)

\* what the user asked of step j, in state s of frame k
UserPreds(j, s, k) ==
  /\ j = 0 /\ len > 0 => SatAll(i_pred_, s, k)
  /\ SatAll(g_pred_, s, k)
  /\ SatAll(s_pred_[j], s, k)

Execution ==
  /\ \A j \in 0 .. len - 1 : /\ UserPreds(j, val[pos + j], pos + j)
                            /\ HwStep(j, val[pos + j], pos + j, val[pos + j + 1])
  /\ UserPreds(len, val[pos + len], pos + len)

NoEndPreds == g_pred_ = {} /\ s_pred_[len] = {}

\* The connected unrolling (UnrollAssn, used by PathAssn, MonoAssn and MonoIncr,
\* and UnrollerSmt::Unroll) is an exact encoding: an assignment satisfies the
\* returned formula iff it is an execution of len steps from frame pos that
\* satisfies every predicate in the frame it was added for.  Restricted to
\* unrollings that start at frame 0 or have nothing to assert at the end.
ConnectedExact ==
  pc = "done" /\ mode \in {"Assn", "Smt"} /\ (pos = 0 \/ NoEndPreds)
    => (cstr <=> Execution)

\* The unconnected unrolling (UnrollNone) relates every frame to its own ".nxt"
\* copy and nothing else: no step constrains the frame after it.
UnconnectedExact ==
  pc = "done" /\ mode = "None"
    => (cstr <=> \A j \in 0 .. len - 1 :
                   /\ UserPreds(j, val[pos + j], pos + j)
                   /\ HwStep(j, val[pos + j], pos + j, nxt[pos + j]))

\* An execution whose states in between are tr, agreeing with the assignment
\* on the start, on the end and on everything outside vars_.
RunThrough(tr) ==
  /\ tr[0] = val[pos]
  /\ AssertEqual(tr[len], val[pos + len])
  /\ \A j \in 0 .. len - 1 :
       /\ \A v \in Var \ vars_ : tr[j][v] = val[pos + j][v]
       /\ UserPreds(j, tr[j], pos + j)
       /\ HwStep(j, tr[j], pos + j, tr[j + 1])
  /\ UserPreds(len, val[pos + len], pos + len)

\* The substituting unrolling (UnrollSubs) from frame 0 is the connected one
\* with the states in between projected away: an assignment of the first and
\* last frame satisfies it iff some run joins them.
SubsExact ==
  pc = "done" /\ mode = "Subs" /\ pos = 0
    => (cstr <=> \E tr \in [0 .. len -> State] : RunThrough(tr))

\* Both of the above, whichever mode the unrolling was asked for: the one-hot
\* encoding of MonoUnroll, asserted or substituted, is the step relation.
EncodingExact == ConnectedExact /\ SubsExact

\* Every execution satisfies the substituting unrolling from frame 0: nothing
\* that can happen is lost by the rewriting.
SubsAdmitsExecutions ==
  pc = "done" /\ mode = "Subs" /\ pos = 0 /\ Execution => cstr

\* u_unroller.h documents pos as "the starting time frame" of the unrolling:
\* ConnectedExact for every pos.
StartFrameHonoured ==
  pc = "done" /\ mode = "Assn" => (cstr <=> Execution)

\* u_unroller.h: PathAssn asserts that "states are equal between each step":
\* an update an instruction of the path makes reaches the next frame.
UpdatesConnected ==
  pc = "done" /\ kind = "Path" /\ mode = "Assn" /\ cstr
    => \A j \in 0 .. len - 1 : \A v \in Updated[seq_[j + 1]] :
         val[pos + j + 1][v] = StateUpdCmpl(seq_[j + 1], val[pos + j], pos + j)[v]
=============================================================================
