----------------------------- MODULE McmProofs ------------------------------
(***************************************************************************)
(* Proofs about Mcm: the constraint list.  A client pushes, asks, links,   *)
(* checks and pops any number of times on one unroller; what CheckSat is   *)
(* given are always the constraints of the system and those of the query   *)
(* since the last Push, all of them and nothing else.                      *)
(***************************************************************************)
EXTENDS Mcm, SequenceTheorems, TLAPS

System == <<[k |-> "init"], [k |-> "positive"]>>

(* The constraints of a query, before LinkStates and with it.              *)
OfQuery ==
  {[k |-> "single", a |-> a] : a \in query.singles}
    \cup {[k |-> "final", a |-> a] : a \in query.final}
    \cup (IF query.final = {} THEN {} ELSE {[k |-> "before"]})

OfLink == IF phase \in {"linked", "search"} THEN {[k |-> "axioms"], [k |-> "local"]} ELSE {}

Constraint ==
  [k : {"init", "positive", "axioms", "local", "before"}]
    \cup [k : {"single"}, a : prog.singles] \cup [k : {"final"}, a : prog.finals]

(* What follows the system in a list, and the members of a list.           *)
Rest(s) == {s[i] : i \in 3..Len(s)}
Elems(s) == {s[i] : i \in 1..Len(s)}

Asking == phase \in {"asking", "linked", "search"}

ListTyped ==
  /\ cstr_ \in Seq(Constraint)
  /\ phase \in {"new", "init", "ready", "asking", "linked", "search"}
  /\ query = [final |-> query.final, singles |-> query.singles]
  /\ query.final \in SUBSET prog.finals /\ query.singles \in SUBSET prog.singles

(* Outside a query the list holds the system and the stack is empty; in    *)
(* one, the stack says where the system ends, and the query follows.       *)
ListInv ==
  /\ ListTyped
  /\ ~Asking => zexpr_vec_pos_stack_ = <<>>
  /\ phase = "new" => cstr_ = <<>>
  /\ phase = "init" => cstr_ = <<[k |-> "init"]>>
  /\ phase = "ready" => cstr_ = System
  /\ Asking =>
       /\ zexpr_vec_pos_stack_ = <<2>>
       /\ Len(cstr_) >= 2 /\ cstr_[1] = [k |-> "init"] /\ cstr_[2] = [k |-> "positive"]
       /\ Rest(cstr_) = OfQuery \cup OfLink
----------------------------------------------------------------------------
(* The initial state satisfies the invariant.                              *)
LEMMA InitList == ASSUME Init PROVE ListInv
BY DEF Init, ListInv, ListTyped, Asking, NoQuery

(* Appending constraints adds them to what follows the system.             *)
LEMMA Appended ==
  ASSUME NEW S, NEW s \in Seq(S), NEW t \in Seq(S), Len(s) >= 2
  PROVE  /\ s \o t \in Seq(S) /\ Len(s \o t) >= 2
         /\ (s \o t)[1] = s[1] /\ (s \o t)[2] = s[2]
         /\ Rest(s \o t) = Rest(s) \cup Elems(t)
<1>1. /\ Len(s \o t) = Len(s) + Len(t) /\ s \o t \in Seq(S)
      /\ Len(s) \in Nat /\ Len(t) \in Nat
      /\ \A i \in 1..Len(s \o t) : (s \o t)[i] = IF i <= Len(s) THEN s[i] ELSE t[i - Len(s)]
  OBVIOUS
<1>2. ASSUME NEW i \in 3..Len(s \o t)
      PROVE  (s \o t)[i] \in Rest(s) \cup Elems(t)
  BY <1>1 DEF Rest, Elems
<1>3. ASSUME NEW i \in 3..Len(s)
      PROVE  s[i] \in Rest(s \o t)
  BY <1>1 DEF Rest
<1>4. ASSUME NEW i \in 1..Len(t)
      PROVE  t[i] \in Rest(s \o t)
  <2>1. i + Len(s) \in 3..Len(s \o t) /\ (s \o t)[i + Len(s)] = t[i]
    BY <1>1
  <2> QED BY <2>1 DEF Rest
<1>5. Rest(s \o t) \subseteq Rest(s) \cup Elems(t)
  BY <1>2 DEF Rest
<1>6. Rest(s) \subseteq Rest(s \o t) /\ Elems(t) \subseteq Rest(s \o t)
  BY <1>3, <1>4 DEF Rest, Elems
<1>7. Rest(s \o t) = Rest(s) \cup Elems(t)
  BY <1>5, <1>6
<1> QED BY <1>1, <1>7

(* Short lists.                                                            *)
LEMMA Pairs ==
  ASSUME NEW a, NEW b
  PROVE  <<a>> \o <<b>> = <<a, b>>
<1> DEFINE S == {a, b}
           s == <<a>> \o <<b>>
           t == <<a, b>>
<1>1. s \in Seq(S) /\ Len(s) = 2 /\ s[1] = a /\ s[2] = b
  OBVIOUS
<1>2. t \in Seq(S) /\ Len(t) = 2 /\ t[1] = a /\ t[2] = b
  OBVIOUS
<1> HIDE DEF S, s, t
<1>3. \A i \in 1..Len(s) : s[i] = t[i]
  BY <1>1, <1>2
<1>4. s = t
  BY <1>1, <1>2, <1>3, SeqEqual
<1> QED BY <1>4 DEF s, t

LEMMA FirstTwo ==
  ASSUME NEW S, NEW s \in Seq(S), Len(s) >= 2
  PROVE  SubSeq(s, 1, 2) = <<s[1], s[2]>>
<1>1. /\ SubSeq(s, 1, 2) \in Seq(S) /\ Len(SubSeq(s, 1, 2)) = 2
      /\ SubSeq(s, 1, 2)[1] = s[1] /\ SubSeq(s, 1, 2)[2] = s[2]
  OBVIOUS
<1>2. <<s[1], s[2]>> \in Seq(S) /\ Len(<<s[1], s[2]>>) = 2
  OBVIOUS
<1> DEFINE p == SubSeq(s, 1, 2)
           t == <<s[1], s[2]>>
<1>3. t[1] = s[1] /\ t[2] = s[2]
  OBVIOUS
<1> HIDE DEF p, t
<1>4. \A i \in 1..Len(p) : p[i] = t[i]
  BY <1>1, <1>3 DEF p
<1>5. p \in Seq(S) /\ t \in Seq(S) /\ Len(p) = Len(t)
  BY <1>1, <1>2 DEF p, t
<1>6. p = t
  BY <1>4, <1>5, SeqEqual
<1> QED BY <1>6 DEF p, t

(* The calls outside a query: the constraints of the system, and Push.     *)
LEMMA SystemSteps ==
  ASSUME ListInv, GenSysInitConstraints \/ Unroll \/ Push
  PROVE  ListInv'
<1>1. CASE GenSysInitConstraints
  <2>1. /\ phase = "new" /\ phase' = "init" /\ cstr_' = cstr_ \o <<[k |-> "init"]>>
        /\ prog' = prog /\ query' = query /\ zexpr_vec_pos_stack_' = zexpr_vec_pos_stack_
    BY <1>1 DEF GenSysInitConstraints, push_back, Idle
  <2>2. cstr_' = <<[k |-> "init"]>>
    BY <2>1 DEF ListInv
  <2>3. ListTyped'
    BY <2>1, <2>2 DEF ListInv, ListTyped, Constraint
  <2> QED BY <2>1, <2>2, <2>3 DEF ListInv, Asking
<1>2. CASE Unroll
  <2>1. /\ phase = "init" /\ phase' = "ready" /\ cstr_' = cstr_ \o <<[k |-> "positive"]>>
        /\ prog' = prog /\ query' = query /\ zexpr_vec_pos_stack_' = zexpr_vec_pos_stack_
    BY <1>2 DEF Unroll, push_back, Idle
  <2>2. cstr_ = <<[k |-> "init"]>>
    BY <2>1 DEF ListInv
  <2>3. cstr_' = System
    BY <2>1, <2>2, Pairs DEF System
  <2>4. System \in Seq(Constraint)
    BY DEF System, Constraint
  <2>5. ListTyped'
    BY <2>1, <2>3, <2>4 DEF ListInv, ListTyped, Constraint
  <2> QED BY <2>1, <2>3, <2>5 DEF ListInv, Asking
<1>3. CASE Push
  <2>1. /\ phase = "ready" /\ phase' = "asking" /\ cstr_' = cstr_ /\ prog' = prog
        /\ query' = NoQuery
        /\ zexpr_vec_pos_stack_' = Append(zexpr_vec_pos_stack_, Len(cstr_))
    BY <1>3 DEF Push
  <2>2. cstr_ = System /\ zexpr_vec_pos_stack_ = <<>>
    BY <2>1 DEF ListInv, Asking
  <2>3. Len(System) = 2 /\ System[1] = [k |-> "init"] /\ System[2] = [k |-> "positive"]
    BY DEF System
  <2>4. zexpr_vec_pos_stack_' = <<2>>
    BY <2>1, <2>2, <2>3
  <2>5. ListTyped'
    BY <2>1 DEF ListInv, ListTyped, Constraint, NoQuery
  <2>6. OfQuery' = {} /\ OfLink' = {}
    BY <2>1 DEF OfQuery, OfLink, NoQuery
  <2> QED BY <2>1, <2>2, <2>3, <2>4, <2>5, <2>6 DEF ListInv, Asking, Rest
<1> QED BY <1>1, <1>2, <1>3

(* What a query adds follows the system.                                   *)
LEMMA QuerySteps ==
  ASSUME ListInv,
         \/ \E a \in prog.singles : AddSingleTraceStepProperty(a)
         \/ \E a \in prog.finals : SetFinalProperty(a)
         \/ LinkStates
  PROVE  ListInv'
<1>1. ASSUME NEW a \in prog.singles, AddSingleTraceStepProperty(a) PROVE ListInv'
  <2> DEFINE c == [k |-> "single", a |-> a]
  <2>1. /\ phase = "asking" /\ phase' = phase /\ cstr_' = cstr_ \o <<c>> /\ prog' = prog
        /\ query' = [query EXCEPT !.singles = {a}] /\ query.singles = {}
        /\ zexpr_vec_pos_stack_' = zexpr_vec_pos_stack_
    BY <1>1 DEF AddSingleTraceStepProperty, push_back, Idle
  <2>2. /\ Len(cstr_) >= 2 /\ cstr_[1] = [k |-> "init"] /\ cstr_[2] = [k |-> "positive"]
        /\ Rest(cstr_) = OfQuery \cup OfLink
        /\ cstr_ \in Seq(Constraint) /\ zexpr_vec_pos_stack_ = <<2>>
    BY <2>1 DEF ListInv, ListTyped, Asking
  <2>3. c \in Constraint
    BY DEF Constraint
  <2>4. query' = [final |-> query.final, singles |-> {a}]
    BY <2>1 DEF ListInv, ListTyped
  <2>5. OfQuery' = OfQuery \cup {c} /\ OfLink' = {} /\ OfLink = {}
    BY <2>1, <2>4 DEF OfQuery, OfLink
  <2> DEFINE t == <<c>>
  <2> HIDE DEF c
  <2>6. t \in Seq(Constraint) /\ Elems(t) = {c} /\ cstr_' = cstr_ \o t
    BY <2>1, <2>3 DEF Elems
  <2> HIDE DEF t
  <2>7. /\ cstr_' \in Seq(Constraint) /\ Len(cstr_') >= 2
        /\ cstr_'[1] = cstr_[1] /\ cstr_'[2] = cstr_[2]
        /\ Rest(cstr_') = Rest(cstr_) \cup {c}
    BY <2>2, <2>6, Appended
  <2>8. ListTyped'
    <3>1. Constraint' = Constraint /\ query'.singles = {a} /\ query'.final = query.final
      BY <2>1, <2>4 DEF Constraint
    <3>2. query.final \in SUBSET prog.finals
      BY DEF ListInv, ListTyped
    <3> QED BY <2>1, <2>4, <2>7, <3>1, <3>2 DEF ListTyped
  <2> QED BY <2>1, <2>2, <2>5, <2>7, <2>8 DEF ListInv, Asking
<1>2. ASSUME NEW a \in prog.finals, SetFinalProperty(a) PROVE ListInv'
  <2> DEFINE c == [k |-> "final", a |-> a]
  <2> DEFINE b == [k |-> "before"]
  <2>1. /\ phase = "asking" /\ phase' = phase /\ cstr_' = cstr_ \o <<b, c>> /\ prog' = prog
        /\ query' = [query EXCEPT !.final = {a}] /\ query.final = {}
        /\ zexpr_vec_pos_stack_' = zexpr_vec_pos_stack_
    BY <1>2 DEF SetFinalProperty, push_back, Idle
  <2>2. /\ Len(cstr_) >= 2 /\ cstr_[1] = [k |-> "init"] /\ cstr_[2] = [k |-> "positive"]
        /\ Rest(cstr_) = OfQuery \cup OfLink
        /\ cstr_ \in Seq(Constraint) /\ zexpr_vec_pos_stack_ = <<2>>
    BY <2>1 DEF ListInv, ListTyped, Asking
  <2>3. c \in Constraint /\ b \in Constraint
    BY DEF Constraint
  <2>4. query' = [final |-> {a}, singles |-> query.singles]
    BY <2>1 DEF ListInv, ListTyped
  <2>5. OfQuery' = OfQuery \cup {b, c} /\ OfLink' = {} /\ OfLink = {}
    BY <2>1, <2>4 DEF OfQuery, OfLink
  <2> DEFINE t == <<b, c>>
  <2> HIDE DEF c, b
  <2>6. t \in Seq(Constraint) /\ Elems(t) = {b, c} /\ cstr_' = cstr_ \o t
    BY <2>1, <2>3 DEF Elems
  <2> HIDE DEF t
  <2>7. /\ cstr_' \in Seq(Constraint) /\ Len(cstr_') >= 2
        /\ cstr_'[1] = cstr_[1] /\ cstr_'[2] = cstr_[2]
        /\ Rest(cstr_') = Rest(cstr_) \cup {b, c}
    BY <2>2, <2>6, Appended
  <2>8. ListTyped'
    <3>1. Constraint' = Constraint /\ query'.final = {a} /\ query'.singles = query.singles
      BY <2>1, <2>4 DEF Constraint
    <3>2. query.singles \in SUBSET prog.singles
      BY DEF ListInv, ListTyped
    <3> QED BY <2>1, <2>4, <2>7, <3>1, <3>2 DEF ListTyped
  <2> QED BY <2>1, <2>2, <2>5, <2>7, <2>8 DEF ListInv, Asking
<1>3. CASE LinkStates
  <2> DEFINE c == [k |-> "axioms"]
  <2> DEFINE b == [k |-> "local"]
  <2>1. /\ phase = "asking" /\ prog' = prog /\ query' = query
        /\ zexpr_vec_pos_stack_' = zexpr_vec_pos_stack_
        /\ phase' = "linked" /\ cstr_' = cstr_ \o <<c, b>>
    BY <1>3 DEF LinkStates, push_back
  <2>2. /\ Len(cstr_) >= 2 /\ cstr_[1] = [k |-> "init"] /\ cstr_[2] = [k |-> "positive"]
        /\ Rest(cstr_) = OfQuery \cup OfLink
        /\ cstr_ \in Seq(Constraint) /\ zexpr_vec_pos_stack_ = <<2>>
    BY <2>1 DEF ListInv, ListTyped, Asking
  <2>3. OfQuery' = OfQuery /\ OfLink = {} /\ OfLink' = {c, b}
    BY <2>1 DEF OfQuery, OfLink
  <2>4. c \in Constraint /\ b \in Constraint
    BY DEF Constraint
  <2> DEFINE t == <<c, b>>
  <2> HIDE DEF c, b
  <2>5. t \in Seq(Constraint) /\ Elems(t) = {c, b} /\ cstr_' = cstr_ \o t
    BY <2>1, <2>4 DEF Elems
  <2> HIDE DEF t
  <2>6. /\ cstr_' \in Seq(Constraint) /\ Len(cstr_') >= 2
        /\ cstr_'[1] = cstr_[1] /\ cstr_'[2] = cstr_[2]
        /\ Rest(cstr_') = Rest(cstr_) \cup {c, b}
    BY <2>2, <2>5, Appended
  <2>7. ListTyped'
    BY <2>1, <2>6 DEF ListInv, ListTyped, Constraint
  <2> QED BY <2>1, <2>2, <2>3, <2>6, <2>7 DEF ListInv, Asking
<1> QED BY <1>1, <1>2, <1>3

(* Pop leaves the system, whatever the query was.                          *)
LEMMA PopStep == ASSUME ListInv, Pop PROVE ListInv'
<1>1. /\ phase = "linked" /\ phase' = "ready" /\ query' = NoQuery /\ prog' = prog
      /\ cstr_' = SubSeq(cstr_, 1, zexpr_vec_pos_stack_[Len(zexpr_vec_pos_stack_)])
      /\ zexpr_vec_pos_stack_' = SubSeq(zexpr_vec_pos_stack_, 1, Len(zexpr_vec_pos_stack_) - 1)
  BY DEF Pop, Idle
<1>2. /\ Len(cstr_) >= 2 /\ cstr_[1] = [k |-> "init"] /\ cstr_[2] = [k |-> "positive"]
      /\ cstr_ \in Seq(Constraint) /\ zexpr_vec_pos_stack_ = <<2>>
  BY <1>1 DEF ListInv, ListTyped, Asking
<1>3. zexpr_vec_pos_stack_' = <<>> /\ cstr_' = SubSeq(cstr_, 1, 2)
  BY <1>1, <1>2
<1>4. cstr_' = System
  BY <1>2, <1>3, FirstTwo DEF System
<1>5. ListTyped'
  <2>1. System \in Seq(Constraint)
    BY DEF System, Constraint
  <2> QED BY <1>1, <1>4, <2>1 DEF ListTyped, Constraint, NoQuery
<1> QED BY <1>1, <1>3, <1>4, <1>5 DEF ListInv, Asking

(* The search leaves the list alone.                                       *)
LEMMA SearchSteps ==
  ASSUME ListInv, CheckSat \/ (\E e \in Events : Place(e)) \/ UNCHANGED vars
  PROVE  ListInv'
<1>1. /\ cstr_' = cstr_ /\ query' = query /\ prog' = prog
      /\ zexpr_vec_pos_stack_' = zexpr_vec_pos_stack_
      /\ phase' = phase \/ (phase = "linked" /\ phase' = "search")
  BY DEF CheckSat, Place, vars
<1>2. OfQuery' = OfQuery /\ OfLink' = OfLink
  BY <1>1 DEF OfQuery, OfLink
<1>3. ListTyped'
  BY <1>1 DEF ListInv, ListTyped, Constraint
<1> QED BY <1>1, <1>2, <1>3 DEF ListInv, Asking

(* The invariant holds of every sequence of calls.                         *)
LEMMA ListAlways == Spec => []ListInv
<1>1. Init => ListInv
  BY InitList
<1>2. ListInv /\ [Next]_vars => ListInv'
  BY SystemSteps, QuerySteps, PopStep, SearchSteps DEF Next
<1> QED BY <1>1, <1>2, PTL DEF Spec
----------------------------------------------------------------------------
(* What the client means by a linked query: the initial conditions, times  *)
(* after zero, the memory model, the private states, and what was asked.   *)
Meant ==
  /\ \A co \in Cores : \A a \in prog.ila[co].init : Var0(co, a.n) = a.v
  /\ \A e \in DOMAIN ts \ {Final} : ts[e] > 0
  /\ ApplyAxioms /\ SetLocalState /\ Asked
  /\ query.final # {} => \A e \in Steps : HB(e, Final)

(* CheckSat solves what was meant: after any number of queries pushed and  *)
(* popped on one unroller, the constraint list is equivalent to the system *)
(* with the query since the last Push.                                     *)
ListIsTheQuery == phase \in {"linked", "search"} => (Satisfied <=> Meant)

(* In every state the invariant describes the list is the query.           *)
LEMMA ListMeans == ASSUME ListInv PROVE ListIsTheQuery
<1> SUFFICES ASSUME phase \in {"linked", "search"} PROVE Satisfied <=> Meant
  BY DEF ListIsTheQuery
<1> DEFINE All == {[k |-> "init"], [k |-> "positive"], [k |-> "axioms"], [k |-> "local"]}
                    \cup OfQuery
<1>1. /\ Len(cstr_) >= 2 /\ cstr_[1] = [k |-> "init"] /\ cstr_[2] = [k |-> "positive"]
      /\ Rest(cstr_) = OfQuery \cup OfLink
      /\ cstr_ \in Seq(Constraint)
  BY DEF ListInv, ListTyped, Asking
<1>2. OfLink = {[k |-> "axioms"], [k |-> "local"]}
  BY DEF OfLink
<1>3. DOMAIN cstr_ = 1..Len(cstr_) /\ Len(cstr_) \in Nat
  BY <1>1
<1>4. {cstr_[i] : i \in DOMAIN cstr_} = {cstr_[1], cstr_[2]} \cup Rest(cstr_)
  BY <1>1, <1>3 DEF Rest
<1>5. {cstr_[i] : i \in DOMAIN cstr_} = All
  BY <1>1, <1>2, <1>4
<1>6. Satisfied <=> \A c \in All : Holds(c)
  BY <1>5 DEF Satisfied
<1>7. /\ Holds([k |-> "init"]) <=> \A co \in Cores : \A a \in prog.ila[co].init : Var0(co, a.n) = a.v
      /\ Holds([k |-> "positive"]) <=> \A e \in DOMAIN ts \ {Final} : ts[e] > 0
      /\ Holds([k |-> "axioms"]) <=> ApplyAxioms
      /\ Holds([k |-> "local"]) <=> SetLocalState
      /\ Holds([k |-> "before"]) <=> \A e \in Steps : HB(e, Final)
  BY DEF Holds
<1>8. /\ \A a : Holds([k |-> "final", a |-> a]) <=> val[Final][FinalName(a)] = a.v
      /\ \A a : Holds([k |-> "single", a |-> a]) <=> Var(Step(a.c, a.p), a.n) = a.v
  BY DEF Holds
<1> HIDE DEF Holds
<1>9. (\A c \in OfQuery : Holds(c)) <=> Asked /\ (query.final # {} => \A e \in Steps : HB(e, Final))
  BY <1>7, <1>8 DEF OfQuery, Asked
<1> QED BY <1>6, <1>7, <1>9 DEF Meant

(* The constraints CheckSat gets are those of the system and of the query  *)
(* since Push, whatever was pushed and popped before (Push and Pop of      *)
(* InterIlaUnroller).                                                      *)
THEOREM QueryIsExact == Spec => []ListIsTheQuery
<1>1. ListInv => ListIsTheQuery
  BY ListMeans
<1> QED BY <1>1, ListAlways, PTL
=============================================================================
