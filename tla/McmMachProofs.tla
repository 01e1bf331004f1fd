--------------------------- MODULE McmMachProofs ----------------------------
(***************************************************************************)
(* Proofs about Mcm, the machine: what its memory, its registers and its   *)
(* store buffers hold is a function of the timestamps and values of the    *)
(* events it took, for every program, every number of cores and both       *)
(* memory models.                                                          *)
(***************************************************************************)
EXTENDS McmProofs, WellFoundedInduction, NaturalsInduction

(* The event with which a store reaches the memory: the step itself under  *)
(* SC and for an atomic update, else its facet.                            *)
Direct(w) == w = Init0 \/ prog.mm = "sc" \/ w \in RMW_list
Global0(w) == IF Direct(w) THEN w ELSE Facet(w)

(* Of the events D, the stores that reached the memory, and those that a   *)
(* core c still holds in its buffer.                                       *)
Performed(D, w) == w = Init0 \/ Global0(w) \in D
Pending(D, c) == {w \in PureWrite_list :
                    prog.mm = "tso" /\ w[2] = c /\ w \in D /\ Facet(w) \notin D}

Writers(c, n) == {w \in Steps : w[2] = c /\ n \in DOMAIN Instr(w).update}
LocalData(c, w, n) == IF w = Init0 THEN Var0(c, n) ELSE Eval(w, Instr(w).update[n])

(* A set of events that a run can have taken: a facet comes after its      *)
(* store, and the steps of an ordered template in their order.             *)
Closed(D) ==
  /\ \A s \in RegisterSteps : Facet(s) \in D => s \in D
  /\ \A c \in Cores : prog.ila[c].ordered =>
       \A p \in 1..Len(prog.ila[c].tmpl) : \A q \in 1..(p - 1) :
         Step(c, p) \in D => Step(c, q) \in D

(* e comes when the events D have happened.                                *)
Cut(D, e) ==
  /\ e \in DOMAIN ts /\ D \subseteq DOMAIN ts /\ e \notin D
  /\ \A x \in D : ts[x] <= ts[e]
  /\ \A x \in DOMAIN ts \ D : ts[e] <= ts[x]
  /\ Closed(D) /\ Closed(D \cup {e})

(* What an assignment of the search is at any time.                        *)
TimeInv ==
  /\ ts \in [DOMAIN ts -> Nat \ {0}] /\ DOMAIN ts \subseteq Events
  /\ DOMAIN val = DOMAIN ts \cup {Init0}
  /\ \A e \in DOMAIN ts : DOMAIN val[e] = Mentioned(e)
  /\ Closed(DOMAIN ts)
----------------------------------------------------------------------------
(* The machine m after the events D *)

Stores(w) == [n \in (IF Decode(w) THEN Writes(w) ELSE {}) |-> WriteData(w, n)]

(* w wrote n, and no store that reached the memory is later.               *)
LastInMemory(D, w, n) ==
  /\ n \in Writes(w) /\ Performed(D, w) /\ Decode(w)
  /\ \A v \in FinishRegisterSteps \ {w} :
       n \in Writes(v) /\ Performed(D, v) /\ Decode(v) =>
         /\ Time(Global0(v)) <= Time(Global0(w))
         /\ SameCore(v, w) => Time(v) <= Time(w)

MemInv(D, m) ==
  /\ DOMAIN m.mem = FindSharedStates
  /\ \A n \in FindSharedStates : \E w \in FinishRegisterSteps :
       LastInMemory(D, w, n) /\ m.mem[n] = WriteData(w, n)

(* A buffer holds the pending stores of its core, the earlier ones first.  *)
BufInv(D, c, b) ==
  /\ \E S : b \in Seq(S)
  /\ \A i \in 1..Len(b) : b[i].e \in Pending(D, c) /\ b[i].w = Stores(b[i].e)
  /\ \A i, j \in 1..Len(b) : i < j => b[i].e # b[j].e /\ ts[b[i].e] <= ts[b[j].e]
  /\ \A w \in Pending(D, c) : \E i \in 1..Len(b) : b[i].e = w

(* A core's stores reach the memory in the order it issued them.           *)
FifoInv(D) ==
  \A c \in Cores : \A b \in Pending(D, c), w \in RegisterSteps :
    SameCore(w, b) /\ Performed(D, w) => ts[w] <= ts[b]

(* The next position of an ordered template, and what its registers hold   *)
(* there; in an unordered one, what the last store to a register wrote.    *)
AtPos(D, c, p) ==
  /\ \A q \in 1..(p - 1) : Step(c, q) \in D
  /\ \A q \in p..Len(prog.ila[c].tmpl) : Step(c, q) \notin D

LastInReg(D, c, w, n) ==
  /\ w = Init0 \/ w \in D
  /\ Decode(w)
  /\ \A i \in Writers(c, n) \ {w} : i \in D /\ Decode(i) => Time(i) <= Time(w)

RegInv(D, c, r) ==
  /\ DOMAIN r = private(c)
  /\ prog.ila[c].ordered =>
       \A p \in 1..(Len(prog.ila[c].tmpl) + 1) :
         AtPos(D, c, p) => \A n \in private(c) : r[n] = LastUpdate(c, p, n)
  /\ ~prog.ila[c].ordered =>
       \A n \in private(c) : \E w \in {Init0} \cup Writers(c, n) :
         LastInReg(D, c, w, n) /\ r[n] = LocalData(c, w, n)

MachInv(D, m) ==
  /\ m = [mem |-> m.mem, reg |-> m.reg, buf |-> m.buf, done |-> m.done]
  /\ m.done = D \cap Steps
  /\ MemInv(D, m) /\ FifoInv(D)
  /\ DOMAIN m.buf = Cores /\ \A c \in Cores : BufInv(D, c, m.buf[c])
  /\ DOMAIN m.reg = Cores /\ \A c \in Cores : RegInv(D, c, m.reg[c])
----------------------------------------------------------------------------
(* Events are told apart by their kind, their core and their position.     *)
LEMMA StepShape ==
  ASSUME NEW s \in Steps
  PROVE  /\ s[1] = "inst" /\ s[2] \in Cores /\ s[3] \in 1..Len(prog.ila[s[2]].tmpl)
         /\ s = Step(s[2], s[3]) /\ s # Init0 /\ s # Final
BY DEF Steps, Step, Init0, Final

LEMMA StepIn ==
  ASSUME NEW c \in Cores, NEW p \in 1..Len(prog.ila[c].tmpl)
  PROVE  /\ Step(c, p) \in Steps
         /\ Step(c, p)[1] = "inst" /\ Step(c, p)[2] = c /\ Step(c, p)[3] = p
BY DEF Steps, Step

LEMMA FacetShape ==
  ASSUME NEW s
  PROVE  /\ Facet(s)[1] = "wfe" /\ Facet(s)[2] = s[2] /\ Facet(s)[3] = s[3]
         /\ Facet(s) # Init0 /\ Facet(s) # Final
BY DEF Facet, Init0, Final

LEMMA OtherShape == Init0[1] = "init" /\ Final[1] = "final" /\ Init0 # Final
BY DEF Init0, Final

LEMMA FacetApart ==
  ASSUME NEW s \in Steps, NEW r \in Steps
  PROVE  /\ Facet(s) \notin Steps
         /\ Facet(s) = Facet(r) => s = r
<1>1. Facet(s) \notin Steps
  BY FacetShape, StepShape
<1>2. ASSUME Facet(s) = Facet(r) PROVE s = r
  <2>1. s[2] = r[2] /\ s[3] = r[3]
    BY <1>2, FacetShape
  <2> QED BY <2>1, StepShape
<1> QED BY <1>1, <1>2

(* The lists of the memory model.                                          *)
LEMMA Lists ==
  /\ RegisterSteps \subseteq Steps /\ PureWrite_list \subseteq RegisterSteps
  /\ RMW_list \subseteq Steps
  /\ FinishRegisterSteps = RegisterSteps \cup {Init0}
  /\ Init0 \notin Steps
  /\ \A w \in RegisterSteps : w \in RMW_list <=> w \notin PureWrite_list
<1>1. Init0 \notin Steps
  BY StepShape
<1> QED BY <1>1 DEF RegisterSteps, PureWrite_list, RMW_list, FinishRegisterSteps

(* What a program may be, for the program of this unroller.                *)
LEMMA ProgramType ==
  ASSUME prog \in Programs
  PROVE  /\ prog.mm \in {"sc", "tso"} /\ prog.kind \in {"bv", "mem"}
         /\ "__GLOBAL_INIT__" \notin Cores
         /\ \A c \in Cores : prog.ila[c].ordered \in BOOLEAN /\ Len(prog.ila[c].tmpl) \in Nat
         /\ \A s \in Steps : InstrTypes(Instr(s), prog.ila[s[2]].states, FindSharedStates)
         /\ RMW_list \subseteq RegisterSteps
         /\ \A a \in prog.finals : a.c \in Cores /\ a.n \in prog.ila[a.c].states
         /\ \A a \in prog.singles : /\ a.c \in Cores /\ a.n \in prog.ila[a.c].states
                                   /\ a.p \in 1..Len(prog.ila[a.c].tmpl)
<1> DEFINE Sh == FindSharedStates
<1>1. Sh = SharedStates(prog.ila) /\ Cores = DOMAIN prog.ila
  BY DEF FindSharedStates, Cores
<1>2. \A s \in Steps : InstrTypes(Instr(s), prog.ila[s[2]].states, Sh)
  BY <1>1, StepShape, ProgramTypes DEF Instr
<1>3. \A s \in RMW_list : s \in Steps /\ DOMAIN Instr(s).update \cap Sh # {} /\ s # Init0
  BY <1>2, StepShape DEF RMW_list, InstrTypes
<1>4. RMW_list \subseteq RegisterSteps
  BY <1>3 DEF RegisterSteps, Writes
<1> QED BY <1>1, <1>2, <1>4, ProgramTypes

LEMMA EventKinds ==
  ASSUME NEW e \in Events
  PROVE  \/ e \in Steps /\ e[1] = "inst" /\ e # Final
         \/ /\ e[1] = "wfe" /\ prog.mm = "tso" /\ e # Final
            /\ \E s \in RegisterSteps : e = Facet(s) /\ Step(e[2], e[3]) = s
         \/ e = Final /\ e[1] = "final"
<1>1. CASE e \in Steps
  BY <1>1, StepShape
<1>2. CASE prog.mm = "tso" /\ \E s \in RegisterSteps : e = Facet(s)
  <2>1. PICK s \in RegisterSteps : e = Facet(s)
    BY <1>2
  <2>2. s \in Steps /\ e[1] = "wfe" /\ e # Final /\ e[2] = s[2] /\ e[3] = s[3]
    BY <2>1, FacetShape, Lists
  <2>3. Step(e[2], e[3]) = s
    BY <2>2, StepShape
  <2> QED BY <1>2, <2>1, <2>2, <2>3
<1>3. CASE e = Final
  BY <1>3, OtherShape
<1> QED BY <1>1, <1>2, <1>3 DEF Events

(* The timestamp of a placed event, and of the initial one.                *)
LEMMA TimeOf ==
  ASSUME TimeInv
  PROVE  /\ Time(Init0) = 0
         /\ \A x \in DOMAIN ts : Time(x) = ts[x] /\ ts[x] \in Nat /\ ts[x] > 0 /\ x # Init0
<1>1. ASSUME NEW x \in DOMAIN ts PROVE Time(x) = ts[x] /\ x # Init0
  <2>1. x \in Events
    BY DEF TimeInv
  <2> QED BY <2>1, EventKinds, OtherShape, StepShape, FacetShape DEF Time
<1>2. \A x \in DOMAIN ts : ts[x] \in Nat /\ ts[x] > 0
  BY DEF TimeInv
<1> QED BY <1>1, <1>2 DEF Time

(* What one more event does to the stores in the memory and in a buffer.   *)
LEMMA AddStep ==
  ASSUME NEW D, NEW e \in Steps, e \notin D, Closed(D), prog.mm \in {"sc", "tso"}
  PROVE  /\ \A w \in FinishRegisterSteps :
              Performed(D \cup {e}, w) <=> Performed(D, w) \/ (w = e /\ Direct(e))
         /\ \A c \in Cores : Pending(D \cup {e}, c) =
              Pending(D, c) \cup (IF e \in PureWrite_list /\ prog.mm = "tso" /\ e[2] = c
                                  THEN {e} ELSE {})
<1>1. ASSUME NEW w \in FinishRegisterSteps
      PROVE  Performed(D \cup {e}, w) <=> Performed(D, w) \/ (w = e /\ Direct(e))
  <2>1. Global0(w) = e <=> w = e /\ Direct(e)
    BY Lists, FacetApart DEF Global0, Direct
  <2> QED BY <2>1 DEF Performed
<1>2. ASSUME NEW c \in Cores, NEW w \in PureWrite_list
      PROVE  w \in Pending(D \cup {e}, c) <=>
               w \in Pending(D, c) \/ (w = e /\ prog.mm = "tso" /\ e[2] = c)
  <2>1. Facet(w) # e /\ w \in RegisterSteps
    BY Lists, FacetApart
  <2>2. w = e => Facet(w) \notin D
    BY <2>1 DEF Closed
  <2> QED BY <2>1, <2>2 DEF Pending
<1>3. \A c \in Cores : Pending(D, c) \subseteq PureWrite_list /\ Pending(D \cup {e}, c) \subseteq PureWrite_list
  BY DEF Pending
<1> QED BY <1>1, <1>2, <1>3

LEMMA AddFacet ==
  ASSUME NEW D, NEW s \in RegisterSteps, prog.mm = "tso"
  PROVE  /\ \A w \in FinishRegisterSteps :
              Performed(D \cup {Facet(s)}, w) <=>
                Performed(D, w) \/ (w = s /\ s \in PureWrite_list)
         /\ \A c \in Cores : Pending(D \cup {Facet(s)}, c) = Pending(D, c) \ {s}
<1>1. ASSUME NEW w \in FinishRegisterSteps
      PROVE  Global0(w) = Facet(s) <=> w = s /\ s \in PureWrite_list
  BY Lists, FacetApart, FacetShape DEF Global0, Direct
<1>2. ASSUME NEW c \in Cores, NEW w \in PureWrite_list
      PROVE  w \in Pending(D \cup {Facet(s)}, c) <=> w \in Pending(D, c) /\ w # s
  <2>1. w \in Steps /\ s \in Steps
    BY Lists
  <2>2. w # Facet(s) /\ (Facet(w) = Facet(s) <=> w = s)
    BY <2>1, FacetApart
  <2> QED BY <2>2 DEF Pending
<1>3. \A c \in Cores : Pending(D, c) \subseteq PureWrite_list /\ Pending(D \cup {Facet(s)}, c) \subseteq PureWrite_list
  BY DEF Pending
<1> QED BY <1>1, <1>2, <1>3 DEF Performed

LEMMA AddFinal ==
  ASSUME NEW D
  PROVE  /\ \A w \in FinishRegisterSteps : Performed(D \cup {Final}, w) <=> Performed(D, w)
         /\ \A c \in Cores : Pending(D \cup {Final}, c) = Pending(D, c)
<1>1. ASSUME NEW w \in FinishRegisterSteps PROVE Global0(w) # Final
  BY Lists, FacetShape, StepShape, OtherShape DEF Global0
<1>2. ASSUME NEW w \in PureWrite_list PROVE w # Final /\ Facet(w) # Final
  BY Lists, FacetShape, StepShape
<1> QED BY <1>1, <1>2 DEF Performed, Pending

(* A store that reached the memory, or waits in a buffer, was issued.      *)
LEMMA Issued ==
  ASSUME NEW D, Closed(D), prog.mm \in {"sc", "tso"}
  PROVE  /\ \A w \in RegisterSteps : Performed(D, w) => w \in D
         /\ \A c \in Cores : \A w \in Pending(D, c) :
              w \in D /\ w \in RegisterSteps /\ w[2] = c /\ ~Performed(D, w)
         /\ \A w \in RegisterSteps : w \in D => Performed(D, w) \/ w \in Pending(D, w[2])
<1>1. \A w \in RegisterSteps : Performed(D, w) => w \in D
  BY Lists DEF Performed, Global0, Closed
<1>2. ASSUME NEW c \in Cores, NEW w \in Pending(D, c)
      PROVE  w \in D /\ w \in RegisterSteps /\ w[2] = c /\ ~Performed(D, w)
  BY Lists DEF Pending, Performed, Global0, Direct
<1>3. ASSUME NEW w \in RegisterSteps, w \in D
      PROVE  Performed(D, w) \/ w \in Pending(D, w[2])
  BY <1>3, Lists DEF Pending, Performed, Global0, Direct
<1> QED BY <1>1, <1>2, <1>3

(* A step of the machine on the values the step reads in the assignment.   *)
LEMMA StepFields ==
  ASSUME prog \in Programs, NEW e \in Steps, NEW m
  PROVE  MachStep(m, e, val[e]) =
           [mem |-> IF Direct(e) THEN [n \in DOMAIN m.mem |->
                      IF n \in DOMAIN Stores(e) THEN Stores(e)[n] ELSE m.mem[n]]
                    ELSE m.mem,
            reg |-> [m.reg EXCEPT ![e[2]] = [n \in DOMAIN @ |->
                      IF Decode(e) /\ n \in DOMAIN Instr(e).update
                      THEN Eval(e, Instr(e).update[n]) ELSE @[n]]],
            buf |-> IF Direct(e) \/ Writes(e) = {} THEN m.buf
                    ELSE [m.buf EXCEPT ![e[2]] = Append(@, [e |-> e, w |-> Stores(e)])],
            done |-> m.done \cup {e}]
<1> DEFINE v == val[e]
           i == Instr(e)
           on == \A a \in i.decode : v[a.n] = a.v
           of(n) == LET t == i.update[n] IN
                      CASE t.k = "const" -> t.v
                        [] t.k = "var"   -> v[t.n]
                        [] t.k = "inc"   -> (v[t.n] + 1) % (prog.max + 1)
           stores == [n \in (IF on THEN Writes(e) ELSE {}) |-> of(n)]
<1>1. e # Init0 /\ e[1] = "inst"
  BY StepShape
<1>2. \A n : Var(e, n) = v[n]
  BY <1>1 DEF Var
<1>3. Decode(e) <=> on
  BY <1>1, <1>2 DEF Decode
<1>4. ASSUME NEW n \in DOMAIN i.update PROVE of(n) = Eval(e, i.update[n])
  <2>1. i.update[n].k \in {"const", "var", "inc"}
    BY ProgramType DEF InstrTypes
  <2> QED BY <2>1, <1>2 DEF Eval
<1>5. Writes(e) \subseteq DOMAIN i.update
  BY <1>1 DEF Writes
<1>6. \A n \in Writes(e) : WriteData(e, n) = of(n)
  BY <1>1, <1>4, <1>5 DEF WriteData
<1>7. (prog.mm = "sc" \/ e \in RMW_list) <=> Direct(e)
  BY <1>1 DEF Direct
<1> HIDE DEF on, of
<1>8. stores = Stores(e)
  BY <1>3, <1>6 DEF Stores
<1> HIDE DEF stores
<1> DEFINE regs == [m.reg EXCEPT ![e[2]] = [n \in DOMAIN @ |->
                     IF on /\ n \in DOMAIN i.update THEN of(n) ELSE @[n]]]
           regs2 == [m.reg EXCEPT ![e[2]] = [n \in DOMAIN @ |->
                      IF Decode(e) /\ n \in DOMAIN Instr(e).update
                      THEN Eval(e, Instr(e).update[n]) ELSE @[n]]]
<1>9. regs = regs2
  BY <1>3, <1>4
<1>10. MachStep(m, e, v) =
         [mem |-> IF prog.mm = "sc" \/ e \in RMW_list THEN [n \in DOMAIN m.mem |->
                    IF n \in DOMAIN stores THEN stores[n] ELSE m.mem[n]] ELSE m.mem,
          reg |-> regs,
          buf |-> IF (prog.mm = "sc" \/ e \in RMW_list) \/ Writes(e) = {} THEN m.buf
                  ELSE [m.buf EXCEPT ![e[2]] = Append(@, [e |-> e, w |-> stores])],
          done |-> m.done \cup {e}]
  BY Zenon DEF MachStep, stores, on, of
<1> HIDE DEF regs, regs2
<1>11. MachStep(m, e, v) =
         [mem |-> IF Direct(e) THEN [n \in DOMAIN m.mem |->
                    IF n \in DOMAIN stores THEN stores[n] ELSE m.mem[n]] ELSE m.mem,
          reg |-> regs2,
          buf |-> IF Direct(e) \/ Writes(e) = {} THEN m.buf
                  ELSE [m.buf EXCEPT ![e[2]] = Append(@, [e |-> e, w |-> stores])],
          done |-> m.done \cup {e}]
  BY <1>7, <1>9, <1>10
<1> QED BY <1>8, <1>11 DEF regs2

(* The times of what happened before e are not after the time of e.        *)
LEMMA Earlier ==
  ASSUME prog \in Programs, TimeInv, NEW D, NEW e, Cut(D, e)
  PROVE  /\ Time(e) = ts[e] /\ ts[e] \in Nat /\ ts[e] > 0
         /\ \A x \in D \cup {Init0} : Time(x) \in Nat /\ Time(x) <= Time(e)
         /\ \A w \in FinishRegisterSteps : Performed(D, w) =>
              /\ Time(Global0(w)) \in Nat /\ Time(Global0(w)) <= Time(e)
              /\ Time(w) \in Nat /\ Time(w) <= Time(e)
<1>1. Time(e) = ts[e] /\ ts[e] \in Nat /\ ts[e] > 0
  BY TimeOf DEF Cut
<1>2. ASSUME NEW x \in D \cup {Init0} PROVE Time(x) \in Nat /\ Time(x) <= Time(e)
  BY <1>1, TimeOf DEF Cut
<1>3. ASSUME NEW w \in FinishRegisterSteps, Performed(D, w)
      PROVE  w \in D \cup {Init0} /\ Global0(w) \in D \cup {Init0}
  <2>1. Closed(D) /\ prog.mm \in {"sc", "tso"}
    BY ProgramType DEF Cut
  <2>2. w \in D \cup {Init0}
    BY <1>3, <2>1, Issued, Lists
  <2> QED BY <1>3, <2>2 DEF Performed, Global0, Direct
<1> QED BY <1>1, <1>2, <1>3

(* The memory after a step of a core.                                      *)
LEMMA MemStep ==
  ASSUME prog \in Programs, TimeInv, NEW D, NEW e \in Steps, Cut(D, e),
         NEW m, MemInv(D, m), NEW m2,
         m2.mem = IF Direct(e) THEN [n \in DOMAIN m.mem |->
                    IF n \in DOMAIN Stores(e) THEN Stores(e)[n] ELSE m.mem[n]]
                  ELSE m.mem
  PROVE  MemInv(D \cup {e}, m2)
<1> DEFINE E == D \cup {e}
<1>0. e \notin D /\ Closed(D) /\ prog.mm \in {"sc", "tso"}
  BY ProgramType DEF Cut
<1>1. \A w \in FinishRegisterSteps : Performed(E, w) <=> Performed(D, w) \/ (w = e /\ Direct(e))
  BY <1>0, AddStep
<1>2. DOMAIN m2.mem = FindSharedStates
  BY DEF MemInv
<1> HIDE DEF E
<1>3. ASSUME NEW n \in FindSharedStates
      PROVE  \E w \in FinishRegisterSteps : LastInMemory(E, w, n) /\ m2.mem[n] = WriteData(w, n)
  <2>1. CASE Direct(e) /\ n \in DOMAIN Stores(e)
    <3>1. n \in Writes(e) /\ Decode(e) /\ Stores(e)[n] = WriteData(e, n)
      BY <2>1 DEF Stores
    <3>2. e \in FinishRegisterSteps
      BY <3>1, Lists DEF RegisterSteps
    <3>3. Global0(e) = e
      BY <2>1 DEF Global0
    <3>4. \A v \in FinishRegisterSteps \ {e} : Performed(E, v) =>
            Time(Global0(v)) <= Time(Global0(e)) /\ Time(v) <= Time(e)
      BY <1>1, <3>3, Earlier
    <3>5. Performed(E, e)
      BY <1>1, <2>1, <3>2
    <3>6. LastInMemory(E, e, n)
      BY <3>1, <3>4, <3>5 DEF LastInMemory
    <3>7. m2.mem[n] = WriteData(e, n)
      BY <2>1, <3>1 DEF MemInv
    <3> QED BY <3>2, <3>6, <3>7
  <2>2. CASE ~(Direct(e) /\ n \in DOMAIN Stores(e))
    <3>1. m2.mem[n] = m.mem[n]
      BY <2>2 DEF MemInv
    <3>2. PICK w \in FinishRegisterSteps : LastInMemory(D, w, n) /\ m.mem[n] = WriteData(w, n)
      BY DEF MemInv
    <3>3. \A v \in FinishRegisterSteps :
            n \in Writes(v) /\ Performed(E, v) /\ Decode(v) => Performed(D, v)
      BY <1>1, <2>2 DEF Stores
    <3>4. LastInMemory(E, w, n)
      BY <1>1, <3>2, <3>3 DEF LastInMemory
    <3> QED BY <3>1, <3>2, <3>4
  <2> QED BY <2>1, <2>2
<1> QED BY <1>2, <1>3 DEF MemInv, E

(* The memory after the oldest store of a buffer reached it.               *)
LEMMA MemFacet ==
  ASSUME prog \in Programs, TimeInv, NEW D, NEW s \in PureWrite_list, Cut(D, Facet(s)),
         prog.mm = "tso", s \in Pending(D, s[2]), s[2] \in Cores, FifoInv(D),
         NEW m, MemInv(D, m), NEW m2,
         m2.mem = [n \in DOMAIN m.mem |->
                     IF n \in DOMAIN Stores(s) THEN Stores(s)[n] ELSE m.mem[n]]
  PROVE  MemInv(D \cup {Facet(s)}, m2)
<1> DEFINE E == D \cup {Facet(s)}
<1>0. s \in RegisterSteps /\ s \in FinishRegisterSteps /\ s \in Steps
  BY Lists
<1>1. \A w \in FinishRegisterSteps : Performed(E, w) <=> Performed(D, w) \/ w = s
  BY <1>0, AddFacet
<1>2. DOMAIN m2.mem = FindSharedStates
  BY DEF MemInv
<1>4. Global0(s) = Facet(s)
  BY <1>0, Lists DEF Global0, Direct
<1>5. ASSUME NEW v \in FinishRegisterSteps \ {s}, Performed(E, v)
      PROVE  Time(Global0(v)) <= Time(Global0(s)) /\ (SameCore(v, s) => Time(v) <= Time(s))
  <2>1. Performed(D, v)
    BY <1>1, <1>5
  <2>2. Time(Global0(v)) <= Time(Global0(s))
    BY <1>4, <2>1, Earlier
  <2>3. ASSUME SameCore(v, s) PROVE Time(v) <= Time(s)
    <3>1. v \in RegisterSteps
      BY <2>3, Lists, OtherShape DEF SameCore
    <3>2. ts[v] <= ts[s]
      BY <2>1, <2>3, <3>1 DEF FifoInv
    <3>3. v \in DOMAIN ts /\ s \in DOMAIN ts
      BY <2>1, <3>1, Issued, ProgramType DEF Cut, Pending
    <3> QED BY <3>2, <3>3, TimeOf
  <2> QED BY <2>2, <2>3
<1> HIDE DEF E
<1>3. ASSUME NEW n \in FindSharedStates
      PROVE  \E w \in FinishRegisterSteps : LastInMemory(E, w, n) /\ m2.mem[n] = WriteData(w, n)
  <2>1. CASE n \in DOMAIN Stores(s)
    <3>1. n \in Writes(s) /\ Decode(s) /\ Stores(s)[n] = WriteData(s, n)
      BY <2>1 DEF Stores
    <3>6. LastInMemory(E, s, n)
      BY <1>0, <1>1, <1>5, <3>1 DEF LastInMemory
    <3>7. m2.mem[n] = WriteData(s, n)
      BY <2>1, <3>1 DEF MemInv
    <3> QED BY <1>0, <3>6, <3>7
  <2>2. CASE n \notin DOMAIN Stores(s)
    <3>1. m2.mem[n] = m.mem[n]
      BY <2>2 DEF MemInv
    <3>2. PICK w \in FinishRegisterSteps : LastInMemory(D, w, n) /\ m.mem[n] = WriteData(w, n)
      BY DEF MemInv
    <3>3. \A v \in FinishRegisterSteps :
            n \in Writes(v) /\ Performed(E, v) /\ Decode(v) => Performed(D, v)
      BY <1>1, <2>2 DEF Stores
    <3>4. LastInMemory(E, w, n)
      BY <1>1, <3>2, <3>3 DEF LastInMemory
    <3> QED BY <3>1, <3>2, <3>4
  <2> QED BY <2>1, <2>2
<1> QED BY <1>2, <1>3 DEF MemInv, E

(* An event that performs no store leaves the memory what it was.          *)
LEMMA MemKeep ==
  ASSUME NEW D, NEW E, NEW m, MemInv(D, m),
         \A w \in FinishRegisterSteps : Performed(E, w) <=> Performed(D, w)
  PROVE  MemInv(E, m)
<1>1. ASSUME NEW n, NEW w \in FinishRegisterSteps, LastInMemory(D, w, n)
      PROVE  LastInMemory(E, w, n)
  BY <1>1 DEF LastInMemory
<1> QED BY <1>1 DEF MemInv

(* The buffers: unchanged, with one more store, and without the oldest.    *)
LEMMA BufKeep ==
  ASSUME NEW D, NEW E, NEW c, NEW b, BufInv(D, c, b), Pending(E, c) = Pending(D, c)
  PROVE  BufInv(E, c, b)
BY DEF BufInv

LEMMA BufAppend ==
  ASSUME prog \in Programs, TimeInv, NEW D, NEW e \in PureWrite_list, Cut(D, e),
         prog.mm = "tso", NEW b, BufInv(D, e[2], b)
  PROVE  BufInv(D \cup {e}, e[2], Append(b, [e |-> e, w |-> Stores(e)]))
<1> DEFINE c == e[2]
           E == D \cup {e}
           x == [e |-> e, w |-> Stores(e)]
           d == Append(b, x)
<1>1. e \in Steps /\ e \in RegisterSteps /\ c \in Cores /\ e \notin D /\ Closed(D)
  BY Lists, StepShape DEF Cut
<1>2. Pending(E, c) = Pending(D, c) \cup {e}
  BY <1>1, AddStep
<1>3. \A w \in Pending(D, c) : w \in D /\ w # e /\ ts[w] <= ts[e]
  BY <1>1, ProgramType, Issued DEF Cut
<1>4. PICK S : b \in Seq(S)
  BY DEF BufInv
<1> DEFINE T == S \cup {x}
<1>5. x.e = e /\ x.w = Stores(e)
  OBVIOUS
<1> HIDE DEF x
<1>6. /\ b \in Seq(T) /\ x \in T /\ d \in Seq(T) /\ Len(b) \in Nat /\ Len(d) = Len(b) + 1
      /\ \A i \in 1..Len(b) : d[i] = b[i]
      /\ d[Len(b) + 1] = x
  BY <1>4
<1> HIDE DEF d, T, E, c
<1>7. \A i \in 1..Len(d) : d[i].e \in Pending(E, c) /\ d[i].w = Stores(d[i].e)
  <2>1. \A i \in 1..Len(b) : b[i].e \in Pending(D, c) /\ b[i].w = Stores(b[i].e)
    BY DEF BufInv, c
  <2>2. ASSUME NEW i \in 1..Len(d) PROVE i \in 1..Len(b) \/ i = Len(b) + 1
    BY <1>6
  <2> QED BY <1>2, <1>5, <1>6, <2>1, <2>2
<1>8. ASSUME NEW i \in 1..Len(d), NEW j \in 1..Len(d), i < j
      PROVE  d[i].e # d[j].e /\ ts[d[i].e] <= ts[d[j].e]
  <2>1. i \in 1..Len(b) /\ d[i] = b[i] /\ b[i].e \in Pending(D, c)
    BY <1>6, <1>8 DEF BufInv, c
  <2>2. CASE j = Len(b) + 1
    BY <1>3, <1>5, <1>6, <2>1, <2>2
  <2>3. CASE j # Len(b) + 1
    <3>1. j \in 1..Len(b) /\ d[j] = b[j]
      BY <1>6, <2>3
    <3> QED BY <1>8, <2>1, <3>1 DEF BufInv
  <2> QED BY <2>2, <2>3
<1>9. ASSUME NEW w \in Pending(E, c) PROVE \E i \in 1..Len(d) : d[i].e = w
  <2>1. CASE w = e
    <3>1. Len(b) + 1 \in 1..Len(d)
      BY <1>6
    <3> QED BY <1>5, <1>6, <2>1, <3>1
  <2>2. CASE w # e
    <3>1. PICK i \in 1..Len(b) : b[i].e = w
      BY <1>2, <2>2 DEF BufInv, c
    <3>2. i \in 1..Len(d) /\ d[i] = b[i]
      BY <1>6
    <3> QED BY <3>1, <3>2
  <2> QED BY <2>1, <2>2
<1>10. BufInv(E, c, d)
  BY <1>6, <1>7, <1>8, <1>9 DEF BufInv
<1> QED BY <1>10 DEF E, c, d, x

LEMMA BufTail ==
  ASSUME NEW D, NEW E, NEW c, NEW b, BufInv(D, c, b), b # <<>>, NEW s, b[1].e = s,
         Pending(E, c) = Pending(D, c) \ {s}
  PROVE  BufInv(E, c, Tail(b))
<1> DEFINE d == Tail(b)
<1>1. Pending(E, c) = Pending(D, c) \ {s}
  OBVIOUS
<1>2. PICK S : b \in Seq(S)
  BY DEF BufInv
<1>3. /\ d \in Seq(S) /\ Len(b) \in Nat /\ Len(b) > 0 /\ Len(d) = Len(b) - 1
      /\ \A i \in 1..Len(d) : d[i] = b[i + 1]
  BY <1>2
<1>9. \A i, j \in 1..Len(b) : i < j => b[i].e # b[j].e /\ ts[b[i].e] <= ts[b[j].e]
  BY DEF BufInv
<1> HIDE DEF d
<1>4. ASSUME NEW i \in 1..Len(d)
      PROVE  i + 1 \in 1..Len(b) /\ d[i] = b[i + 1] /\ d[i].e # s
  <2>1. i + 1 \in 1..Len(b) /\ 1 \in 1..Len(b) /\ 1 < i + 1 /\ d[i] = b[i + 1]
    BY <1>3
  <2> QED BY <1>9, <2>1
<1>5. ASSUME NEW i \in 1..Len(d)
      PROVE  d[i].e \in Pending(E, c) /\ d[i].w = Stores(d[i].e)
  <2>1. PICK k \in 1..Len(b) : d[i] = b[k] /\ d[i].e # s
    BY <1>4
  <2>2. b[k].e \in Pending(D, c) /\ b[k].w = Stores(b[k].e)
    BY DEF BufInv
  <2> QED BY <1>1, <2>1, <2>2
<1>6. ASSUME NEW i \in 1..Len(d), NEW j \in 1..Len(d), i < j
      PROVE  d[i].e # d[j].e /\ ts[d[i].e] <= ts[d[j].e]
  <2>1. i + 1 < j + 1 /\ i + 1 \in 1..Len(b) /\ j + 1 \in 1..Len(b)
    BY <1>4, <1>6
  <2>2. d[i] = b[i + 1] /\ d[j] = b[j + 1]
    BY <1>4
  <2>3. b[i + 1].e # b[j + 1].e /\ ts[b[i + 1].e] <= ts[b[j + 1].e]
    BY <1>9, <2>1
  <2> QED BY <2>2, <2>3
<1>7. ASSUME NEW w \in Pending(E, c) PROVE \E i \in 1..Len(d) : d[i].e = w
  <2>1. PICK i \in 1..Len(b) : b[i].e = w
    BY <1>1 DEF BufInv
  <2>2. i # 1
    BY <1>1, <2>1
  <2>3. i - 1 \in 1..Len(d) /\ d[i - 1] = b[i]
    BY <1>3, <2>2
  <2> QED BY <2>1, <2>3
<1>8. BufInv(E, c, d)
  BY <1>3, <1>5, <1>6, <1>7 DEF BufInv
<1> QED BY <1>8 DEF d

(* The oldest store of a buffer is pending, and no other is older.         *)
LEMMA Oldest ==
  ASSUME NEW D, NEW c, NEW b, BufInv(D, c, b), b # <<>>
  PROVE  /\ b[1].e \in Pending(D, c) /\ b[1].w = Stores(b[1].e)
         /\ \A w \in Pending(D, c) \ {b[1].e} : ts[b[1].e] <= ts[w]
<1>1. PICK S : b \in Seq(S)
  BY DEF BufInv
<1>2. Len(b) \in Nat /\ 1 \in 1..Len(b)
  BY <1>1
<1>3. ASSUME NEW w \in Pending(D, c) \ {b[1].e} PROVE ts[b[1].e] <= ts[w]
  <2>1. PICK i \in 1..Len(b) : b[i].e = w
    BY DEF BufInv
  <2>2. 1 < i
    BY <1>2, <2>1
  <2> QED BY <1>2, <2>1, <2>2 DEF BufInv
<1> QED BY <1>2, <1>3 DEF BufInv

(* Nothing is pending exactly when the buffer is empty.                    *)
LEMMA NonePending ==
  ASSUME NEW D, NEW c, NEW b, BufInv(D, c, b)
  PROVE  b = <<>> <=> Pending(D, c) = {}
<1>1. ASSUME b # <<>> PROVE Pending(D, c) # {}
  BY <1>1, Oldest
<1>2. ASSUME b = <<>> PROVE Pending(D, c) = {}
  <2>1. Len(b) = 0
    BY <1>2
  <2> QED BY <2>1 DEF BufInv
<1> QED BY <1>1, <1>2

LEMMA FifoStep ==
  ASSUME prog \in Programs, TimeInv, NEW D, NEW e \in Steps, Cut(D, e), FifoInv(D),
         e \in RMW_list => Pending(D, e[2]) = {}
  PROVE  FifoInv(D \cup {e})
<1> DEFINE E == D \cup {e}
<1>0. e \notin D /\ Closed(D) /\ prog.mm \in {"sc", "tso"} /\ e[2] \in Cores
  BY ProgramType, StepShape DEF Cut
<1> SUFFICES ASSUME NEW c \in Cores, NEW b \in Pending(E, c), NEW w \in RegisterSteps,
                    SameCore(w, b), Performed(E, w)
             PROVE  ts[w] <= ts[b]
  BY DEF FifoInv
<1>1. Performed(D, w) \/ (w = e /\ Direct(e))
  BY <1>0, AddStep, Lists
<1>2. b \in Pending(D, c) \/ (b = e /\ e \in PureWrite_list /\ prog.mm = "tso" /\ e[2] = c)
  BY <1>0, AddStep
<1>3. prog.mm = "tso" /\ b[2] = c
  BY DEF Pending
<1>4. w[2] = c
  BY <1>3 DEF SameCore
<1>5. CASE Performed(D, w) /\ b \in Pending(D, c)
  BY <1>5 DEF FifoInv
<1>6. CASE Performed(D, w) /\ b = e
  <2>1. w \in D
    BY <1>0, <1>6, Issued
  <2> QED BY <1>6, <2>1 DEF Cut
<1>7. CASE w = e /\ Direct(e) /\ b \in Pending(D, c)
  <2>1. e \in RMW_list
    BY <1>3, <1>7, StepShape DEF Direct
  <2> QED BY <1>4, <1>7, <2>1
<1>8. CASE w = e /\ b = e
  BY <1>8, TimeOf DEF Cut
<1> QED BY <1>1, <1>2, <1>5, <1>6, <1>7, <1>8

LEMMA FifoFacet ==
  ASSUME NEW D, NEW s \in RegisterSteps, prog.mm = "tso", s[2] \in Cores, FifoInv(D),
         \A w \in Pending(D, s[2]) \ {s} : ts[s] <= ts[w]
  PROVE  FifoInv(D \cup {Facet(s)})
<1> DEFINE E == D \cup {Facet(s)}
<1> SUFFICES ASSUME NEW c \in Cores, NEW b \in Pending(E, c), NEW w \in RegisterSteps,
                    SameCore(w, b), Performed(E, w)
             PROVE  ts[w] <= ts[b]
  BY DEF FifoInv
<1>1. Performed(D, w) \/ w = s
  BY AddFacet, Lists
<1>2. b \in Pending(D, c) \ {s} /\ b[2] = c
  <2>1. b \in Pending(D, c) \ {s}
    BY AddFacet
  <2> QED BY <2>1 DEF Pending
<1>3. CASE Performed(D, w)
  BY <1>2, <1>3 DEF FifoInv
<1>4. CASE w = s
  BY <1>2, <1>4 DEF SameCore
<1> QED BY <1>1, <1>3, <1>4

LEMMA FifoKeep ==
  ASSUME NEW D, NEW E, FifoInv(D),
         \A w \in FinishRegisterSteps : Performed(E, w) <=> Performed(D, w),
         \A c \in Cores : Pending(E, c) = Pending(D, c)
  PROVE  FifoInv(E)
BY Lists DEF FifoInv

(* The last update of a private state, one position further.               *)
LEMMA LastUpdateNext ==
  ASSUME NEW c \in Cores, NEW p \in 1..Len(prog.ila[c].tmpl), NEW n,
         Len(prog.ila[c].tmpl) \in Nat
  PROVE  LastUpdate(c, p + 1, n) =
           LET w == Step(c, p) IN
           IF n \in DOMAIN Instr(w).update
           THEN IF Decode(w) THEN Eval(w, Instr(w).update[n]) ELSE Var(w, n)
           ELSE LastUpdate(c, p, n)
<1> DEFINE B(k) == {q \in 1..(k - 1) : n \in DOMAIN Instr(Step(c, q)).update}
           L(k) == CHOOSE q \in B(k) : \A o \in B(k) : o <= q
           U(w) == IF Decode(w) THEN Eval(w, Instr(w).update[n]) ELSE Var(w, n)
<1>1. \A k : LastUpdate(c, k, n) = IF B(k) = {} THEN Var0(c, n) ELSE U(Step(c, L(k)))
  BY DEF LastUpdate
<1>2. (p + 1) - 1 = p /\ p \in Nat
  OBVIOUS
<1>3. CASE n \in DOMAIN Instr(Step(c, p)).update
  <2>1. p \in B(p + 1) /\ \A o \in B(p + 1) : o <= p /\ o \in Nat
    BY <1>2, <1>3
  <2>2. L(p + 1) = p
    <3>1. \A q \in B(p + 1) : (\A o \in B(p + 1) : o <= q) => q = p
      BY <2>1
    <3> HIDE DEF B
    <3> QED BY <2>1, <3>1
  <2> HIDE DEF B, L, U
  <2> QED BY <1>1, <1>3, <2>1, <2>2 DEF U
<1>4. CASE n \notin DOMAIN Instr(Step(c, p)).update
  <2>1. B(p + 1) = B(p)
    BY <1>2, <1>4
  <2>2. L(p + 1) = L(p)
    BY <2>1
  <2> HIDE DEF B, L, U
  <2> QED BY <1>1, <1>4, <2>1, <2>2
<1> QED BY <1>3, <1>4

(* The registers of a core after events that are not steps of it.          *)
LEMMA RegKeep ==
  ASSUME NEW D, NEW E, NEW c \in Cores, NEW r, RegInv(D, c, r),
         Len(prog.ila[c].tmpl) \in Nat,
         \A s \in Steps : s[2] = c => (s \in E <=> s \in D)
  PROVE  RegInv(E, c, r)
<1>1. ASSUME NEW q \in 1..Len(prog.ila[c].tmpl) PROVE Step(c, q) \in E <=> Step(c, q) \in D
  BY StepIn
<1>2. ASSUME NEW p \in 1..(Len(prog.ila[c].tmpl) + 1), AtPos(E, c, p) PROVE AtPos(D, c, p)
  BY <1>1, <1>2 DEF AtPos
<1>3. ASSUME NEW n, NEW w \in {Init0} \cup Writers(c, n), LastInReg(D, c, w, n)
      PROVE  LastInReg(E, c, w, n)
  BY <1>3 DEF LastInReg, Writers
<1> QED BY <1>2, <1>3 DEF RegInv

(* The registers of a core after a step of it.                             *)
LEMMA RegStep ==
  ASSUME prog \in Programs, TimeInv, NEW D, NEW e \in Steps, Cut(D, e),
         NEW r, RegInv(D, e[2], r),
         \A n \in DOMAIN val[e] : n \notin FindSharedStates => val[e][n] = r[n]
  PROVE  RegInv(D \cup {e}, e[2],
                [n \in DOMAIN r |-> IF Decode(e) /\ n \in DOMAIN Instr(e).update
                                    THEN Eval(e, Instr(e).update[n]) ELSE r[n]])
<1> DEFINE c == e[2]
           k == e[3]
           len == Len(prog.ila[c].tmpl)
           E == D \cup {e}
           r2 == [n \in DOMAIN r |-> IF Decode(e) /\ n \in DOMAIN Instr(e).update
                                     THEN Eval(e, Instr(e).update[n]) ELSE r[n]]
<1>1. /\ c \in Cores /\ k \in 1..len /\ e = Step(c, k) /\ e[1] = "inst" /\ e # Init0
      /\ len \in Nat /\ e \notin D /\ e \in DOMAIN ts
  BY StepShape, ProgramType DEF Cut
<1>2. DOMAIN r = private(c) /\ DOMAIN r2 = private(c)
  BY DEF RegInv
<1>3. ASSUME prog.ila[c].ordered, NEW p \in 1..(len + 1), AtPos(E, c, p), NEW n \in private(c)
      PROVE  r2[n] = LastUpdate(c, p, n)
  <2>1. k < p
    BY <1>1, <1>3 DEF AtPos
  <2>2. \A q \in 1..(k - 1) : Step(c, q) \in D
    <3>1. Closed(E) /\ e \in E
      BY DEF Cut
    <3>2. \A q \in 1..(k - 1) : Step(c, q) \in E
      BY <1>1, <1>3, <3>1 DEF Closed
    <3>3. ASSUME NEW q \in 1..(k - 1) PROVE Step(c, q) # e
      <4>1. Step(c, q)[3] = q
        BY <1>1, StepIn
      <4> QED BY <1>1, <4>1
    <3> QED BY <3>2, <3>3
  <2>3. p = k + 1
    <3> SUFFICES ASSUME p # k + 1 PROVE FALSE
      OBVIOUS
    <3>1. k + 1 \in 1..(p - 1) /\ k + 1 \in 1..len /\ k \in 1..((k + 1) - 1)
      <4>1. k \in 1..len /\ len \in Nat /\ k < p /\ p \in 1..(len + 1) /\ p # k + 1
        BY <1>1, <2>1
      <4> HIDE DEF k, len
      <4> QED BY <4>1
    <3>2. Step(c, k + 1) \in E
      BY <1>3, <3>1 DEF AtPos
    <3>3. Step(c, k + 1) # e
      BY <1>1, <3>1, StepIn
    <3>4. Closed(D)
      BY DEF Cut
    <3>5. Step(c, k) \in D
      BY <1>1, <1>3, <3>1, <3>2, <3>3, <3>4 DEF Closed
    <3> QED BY <1>1, <3>5
  <2>4. AtPos(D, c, k)
    <3>1. \A q \in k..len : Step(c, q) \notin D
      BY <1>1, <1>3, <2>3 DEF AtPos
    <3> QED BY <2>2, <3>1 DEF AtPos
  <2>5. r[n] = LastUpdate(c, k, n)
    BY <1>1, <1>3, <2>4 DEF RegInv
  <2>6. LastUpdate(c, p, n) =
          IF n \in DOMAIN Instr(e).update
          THEN IF Decode(e) THEN Eval(e, Instr(e).update[n]) ELSE Var(e, n)
          ELSE LastUpdate(c, k, n)
    BY <1>1, <2>3, LastUpdateNext
  <2>7. ASSUME n \in DOMAIN Instr(e).update, ~Decode(e) PROVE Var(e, n) = r[n]
    <3>1. Instr(e).decode # {}
      BY <1>1, <2>7 DEF Decode
    <3>2. n \in Mentioned(e)
      <4>1. e # Final
        BY StepShape
      <4>2. Mentioned(e) = read_set[e] \cup
                             (IF Instr(e).decode # {} /\ prog.ila[c].ordered
                              THEN DOMAIN Instr(e).update \cap private(c) ELSE {})
        BY <1>1, <4>1 DEF Mentioned
      <4> QED BY <1>3, <2>7, <3>1, <4>2
    <3>3. n \in DOMAIN val[e] /\ n \notin FindSharedStates
      BY <1>1, <1>3, <3>2 DEF TimeInv, private
    <3> QED BY <1>1, <3>3 DEF Var
  <2> QED BY <1>2, <1>3, <2>5, <2>6, <2>7
<1>4. ASSUME ~prog.ila[c].ordered, NEW n \in private(c)
      PROVE  \E w \in {Init0} \cup Writers(c, n) :
               LastInReg(E, c, w, n) /\ r2[n] = LocalData(c, w, n)
  <2>1. CASE Decode(e) /\ n \in DOMAIN Instr(e).update
    <3>1. e \in Writers(c, n) /\ r2[n] = LocalData(c, e, n)
      BY <1>1, <1>2, <1>4, <2>1 DEF Writers, LocalData
    <3>2. \A i \in Writers(c, n) \ {e} : i \in E => Time(i) <= Time(e)
      BY Earlier
    <3> QED BY <2>1, <3>1, <3>2 DEF LastInReg
  <2>2. CASE ~(Decode(e) /\ n \in DOMAIN Instr(e).update)
    <3>1. PICK w \in {Init0} \cup Writers(c, n) :
            LastInReg(D, c, w, n) /\ r[n] = LocalData(c, w, n)
      BY <1>4 DEF RegInv
    <3>2. LastInReg(E, c, w, n)
      BY <2>2, <3>1 DEF LastInReg, Writers
    <3>3. r2[n] = r[n]
      BY <1>2, <1>4, <2>2
    <3> QED BY <3>1, <3>2, <3>3
  <2> QED BY <2>1, <2>2
<1> QED BY <1>2, <1>3, <1>4 DEF RegInv

(* Every event the machine takes leaves it in the state that the events    *)
(* determine.                                                              *)
MachKept ==
  prog \in Programs /\ TimeInv =>
    \A D, e, m : Cut(D, e) /\ MachInv(D, m) /\ MachAllows(m, e, ts[e], val[e])
                   => MachInv(D \cup {e}, MachNext(m, e, val[e]))

LEMMA Takes == MachKept
<1> SUFFICES ASSUME prog \in Programs, TimeInv, NEW D, NEW e, NEW m, Cut(D, e), MachInv(D, m),
                    MachAllows(m, e, ts[e], val[e])
             PROVE  MachInv(D \cup {e}, MachNext(m, e, val[e]))
  BY DEF MachKept
<1> DEFINE E == D \cup {e}
<1>0. /\ e \in Events /\ e \notin D /\ Closed(D) /\ prog.mm \in {"sc", "tso"}
      /\ \A c \in Cores : Len(prog.ila[c].tmpl) \in Nat
  BY ProgramType DEF Cut, TimeInv
<1>1. CASE e \in Steps /\ e[1] = "inst" /\ e # Final
  <2> DEFINE c == e[2]
             m2 == MachStep(m, e, val[e])
  <2>1. MachNext(m, e, val[e]) = m2
    BY <1>1 DEF MachNext
  <2>2. /\ e \in FENCE_list \cup RMW_list => m.buf[c] = <<>>
        /\ \A n \in DOMAIN val[e] : val[e][n] = MachRead(m, c, n)
    BY <1>1 DEF MachAllows
  <2>3. c \in Cores
    BY <1>1, StepShape
  <2>4. /\ m2.mem = IF Direct(e) THEN [n \in DOMAIN m.mem |->
                      IF n \in DOMAIN Stores(e) THEN Stores(e)[n] ELSE m.mem[n]]
                    ELSE m.mem
        /\ m2.reg = [m.reg EXCEPT ![c] = [n \in DOMAIN @ |->
                      IF Decode(e) /\ n \in DOMAIN Instr(e).update
                      THEN Eval(e, Instr(e).update[n]) ELSE @[n]]]
        /\ m2.buf = IF Direct(e) \/ Writes(e) = {} THEN m.buf
                    ELSE [m.buf EXCEPT ![c] = Append(@, [e |-> e, w |-> Stores(e)])]
        /\ m2.done = m.done \cup {e}
        /\ m2 = [mem |-> m2.mem, reg |-> m2.reg, buf |-> m2.buf, done |-> m2.done]
    <3> DEFINE M == IF Direct(e) THEN [n \in DOMAIN m.mem |->
                      IF n \in DOMAIN Stores(e) THEN Stores(e)[n] ELSE m.mem[n]]
                    ELSE m.mem
               R == [m.reg EXCEPT ![e[2]] = [n \in DOMAIN @ |->
                      IF Decode(e) /\ n \in DOMAIN Instr(e).update
                      THEN Eval(e, Instr(e).update[n]) ELSE @[n]]]
               B == IF Direct(e) \/ Writes(e) = {} THEN m.buf
                    ELSE [m.buf EXCEPT ![e[2]] = Append(@, [e |-> e, w |-> Stores(e)])]
    <3>1. m2 = [mem |-> M, reg |-> R, buf |-> B, done |-> m.done \cup {e}]
      BY <1>1, StepFields, Zenon
    <3> HIDE DEF M, R, B, m2
    <3>2. /\ m2.mem = M /\ m2.reg = R /\ m2.buf = B /\ m2.done = m.done \cup {e}
          /\ m2 = [mem |-> m2.mem, reg |-> m2.reg, buf |-> m2.buf, done |-> m2.done]
      BY <3>1
    <3> QED BY <3>2, Zenon DEF M, R, B
  <2> HIDE DEF m2
  <2>5. m2.done = E \cap Steps
    BY <1>1, <2>4 DEF MachInv
  <2>6. MemInv(E, m2)
    <3>1. /\ MemInv(D, m)
          /\ m2.mem = IF Direct(e) THEN [n \in DOMAIN m.mem |->
                        IF n \in DOMAIN Stores(e) THEN Stores(e)[n] ELSE m.mem[n]]
                      ELSE m.mem
      BY <2>4, Zenon DEF MachInv
    <3> QED BY <1>1, <3>1, MemStep, Zenon
  <2>7. FifoInv(E)
    <3>1. e \in RMW_list => Pending(D, c) = {}
      BY <2>2, <2>3, NonePending DEF MachInv
    <3> QED BY <1>1, <3>1, FifoStep DEF MachInv
  <2>8. DOMAIN m2.buf = Cores /\ \A d \in Cores : BufInv(E, d, m2.buf[d])
    <3>1. e \in PureWrite_list /\ prog.mm = "tso" <=> ~(Direct(e) \/ Writes(e) = {})
      BY <1>0, <1>1, StepShape DEF PureWrite_list, RegisterSteps, Direct
    <3>2. \A d \in Cores : Pending(E, d) =
            Pending(D, d) \cup (IF e \in PureWrite_list /\ prog.mm = "tso" /\ c = d THEN {e} ELSE {})
      <4>1. e \in Steps /\ e \notin D /\ Closed(D) /\ prog.mm \in {"sc", "tso"}
        BY <1>0, <1>1
      <4>2. \A d \in Cores : Pending(D \cup {e}, d) =
              Pending(D, d) \cup (IF e \in PureWrite_list /\ prog.mm = "tso" /\ e[2] = d
                                  THEN {e} ELSE {})
        BY <4>1, AddStep, Zenon
      <4> QED BY <4>2
    <3>3. DOMAIN m.buf = Cores /\ \A d \in Cores : BufInv(D, d, m.buf[d])
      BY DEF MachInv
    <3>4. CASE e \in PureWrite_list /\ prog.mm = "tso"
      <4>1. /\ DOMAIN m2.buf = Cores
            /\ m2.buf[c] = Append(m.buf[c], [e |-> e, w |-> Stores(e)])
            /\ \A d \in Cores \ {c} : m2.buf[d] = m.buf[d]
        BY <2>3, <2>4, <3>1, <3>3, <3>4
      <4>2. BufInv(E, c, m2.buf[c])
        <5>1. BufInv(D, c, m.buf[c])
          BY <2>3, <3>3
        <5>2. BufInv(D \cup {e}, e[2], Append(m.buf[c], [e |-> e, w |-> Stores(e)]))
          BY <3>4, <5>1, BufAppend, Zenon
        <5> QED BY <4>1, <5>2
      <4>3. ASSUME NEW d \in Cores \ {c} PROVE BufInv(E, d, m2.buf[d])
        <5>1. Pending(E, d) = Pending(D, d) /\ BufInv(D, d, m.buf[d]) /\ m2.buf[d] = m.buf[d]
          BY <3>2, <3>3, <4>1
        <5> QED BY <5>1, BufKeep
      <4> QED BY <4>1, <4>2, <4>3
    <3>5. CASE ~(e \in PureWrite_list /\ prog.mm = "tso")
      <4>1. m2.buf = m.buf
        BY <2>4, <3>1, <3>5
      <4> QED BY <3>2, <3>3, <3>5, <4>1, BufKeep
    <3> QED BY <3>4, <3>5
  <2>9. DOMAIN m2.reg = Cores /\ \A d \in Cores : RegInv(E, d, m2.reg[d])
    <3>1. DOMAIN m.reg = Cores /\ \A d \in Cores : RegInv(D, d, m.reg[d])
      BY DEF MachInv
    <3>2. /\ DOMAIN m2.reg = Cores
          /\ m2.reg[c] = [n \in DOMAIN m.reg[c] |->
                            IF Decode(e) /\ n \in DOMAIN Instr(e).update
                            THEN Eval(e, Instr(e).update[n]) ELSE m.reg[c][n]]
          /\ \A d \in Cores \ {c} : m2.reg[d] = m.reg[d]
      BY <2>3, <2>4, <3>1
    <3>3. \A n \in DOMAIN val[e] : n \notin FindSharedStates => val[e][n] = m.reg[c][n]
      BY <2>2 DEF MachRead
    <3>4. RegInv(E, c, m2.reg[c])
      BY <1>1, <2>3, <3>1, <3>2, <3>3, RegStep
    <3>5. ASSUME NEW d \in Cores \ {c} PROVE RegInv(E, d, m2.reg[d])
      BY <1>0, <3>1, <3>2, RegKeep
    <3> QED BY <3>2, <3>4, <3>5
  <2> QED BY <2>1, <2>4, <2>5, <2>6, <2>7, <2>8, <2>9 DEF MachInv
<1>2. CASE /\ e[1] = "wfe" /\ prog.mm = "tso" /\ e # Final
           /\ \E s \in RegisterSteps : e = Facet(s) /\ Step(e[2], e[3]) = s
  <2>1. PICK s \in RegisterSteps : e = Facet(s) /\ Step(e[2], e[3]) = s
    BY <1>2
  <2> DEFINE c == s[2]
  <2>2. s \in Steps /\ c \in Cores /\ e[2] = c /\ e \notin Steps
    BY <2>1, Lists, StepShape, FacetShape, FacetApart
  <2>3. E \cap Steps = D \cap Steps
    BY <2>2
  <2>4. \A d \in Cores : RegInv(E, d, m.reg[d])
    <3>1. \A t \in Steps : t \in E <=> t \in D
      BY <2>2
    <3> QED BY <1>0, <3>1, RegKeep DEF MachInv
  <2>5. CASE s \in RMW_list
    <3>1. MachNext(m, e, val[e]) = m
      BY <1>2, <2>1, <2>5 DEF MachNext
    <3>2. s \notin PureWrite_list
      BY <2>5, Lists
    <3>3. /\ \A w \in FinishRegisterSteps : Performed(E, w) <=> Performed(D, w)
          /\ \A d \in Cores : Pending(E, d) = Pending(D, d)
      <4>1. \A d \in Cores : s \notin Pending(D, d)
        BY <3>2 DEF Pending
      <4>2. \A d \in Cores : Pending(E, d) = Pending(D, d) \ {s}
        <5>1. \A d \in Cores : Pending(D \cup {Facet(s)}, d) = Pending(D, d) \ {s}
          BY <1>2, AddFacet, Zenon
        <5> QED BY <2>1, <5>1
      <4>3. \A w \in FinishRegisterSteps : Performed(E, w) <=> Performed(D, w)
        BY <1>2, <2>1, <3>2, AddFacet
      <4> QED BY <4>1, <4>2, <4>3
    <3>4. MemInv(E, m) /\ FifoInv(E) /\ \A d \in Cores : BufInv(E, d, m.buf[d])
      BY <3>3, MemKeep, FifoKeep, BufKeep DEF MachInv
    <3> QED BY <2>3, <2>4, <3>1, <3>4 DEF MachInv
  <2>6. CASE s \notin RMW_list
    <3> DEFINE b == m.buf[c][1]
               m2 == [mem |-> [n \in DOMAIN m.mem |->
                                 IF n \in DOMAIN b.w THEN b.w[n] ELSE m.mem[n]],
                      reg |-> m.reg,
                      buf |-> [m.buf EXCEPT ![c] = Tail(@)],
                      done |-> m.done]
    <3>1. MachNext(m, e, val[e]) = m2
      BY <1>2, <2>1, <2>2, <2>6 DEF MachNext
    <3>2. m.buf[c] # <<>> /\ b.e = s
      BY <1>2, <2>1, <2>2, <2>6 DEF MachAllows
    <3>3. /\ DOMAIN m.buf = Cores /\ \A d \in Cores : BufInv(D, d, m.buf[d])
          /\ m = [mem |-> m.mem, reg |-> m.reg, buf |-> m.buf, done |-> m.done]
          /\ DOMAIN m.reg = Cores /\ MemInv(D, m) /\ FifoInv(D) /\ m.done = D \cap Steps
      BY DEF MachInv
    <3>4. /\ s \in Pending(D, c) /\ b.w = Stores(s)
          /\ \A w \in Pending(D, c) \ {s} : ts[s] <= ts[w]
      BY <2>2, <3>2, <3>3, Oldest
    <3>5. s \in PureWrite_list
      BY <2>6, Lists
    <3>6. /\ m2.mem = [n \in DOMAIN m.mem |->
                         IF n \in DOMAIN b.w THEN b.w[n] ELSE m.mem[n]]
          /\ m2.buf = [m.buf EXCEPT ![c] = Tail(m.buf[c])]
          /\ m2.reg = m.reg /\ m2.done = m.done
          /\ m2 = [mem |-> m2.mem, reg |-> m2.reg, buf |-> m2.buf, done |-> m2.done]
      OBVIOUS
    <3> HIDE DEF m2
    <3>7. MemInv(E, m2)
      BY <1>2, <2>1, <2>2, <3>3, <3>4, <3>5, <3>6, MemFacet
    <3>8. FifoInv(E)
      BY <1>2, <2>1, <2>2, <3>3, <3>4, FifoFacet
    <3>9. DOMAIN m2.buf = Cores /\ \A d \in Cores : BufInv(E, d, m2.buf[d])
      <4>1. /\ DOMAIN m2.buf = Cores /\ m2.buf[c] = Tail(m.buf[c])
            /\ \A d \in Cores \ {c} : m2.buf[d] = m.buf[d]
        BY <2>2, <3>3, <3>6
      <4>2. BufInv(E, c, m2.buf[c])
        <5>1. BufInv(D, s[2], m.buf[c])
          BY <2>2, <3>3
        <5>2. \A d \in Cores : Pending(D \cup {Facet(s)}, d) = Pending(D, d) \ {s}
          BY <1>2, AddFacet, Zenon
        <5>3. Pending(E, s[2]) = Pending(D, s[2]) \ {s}
          BY <2>1, <2>2, <5>2
        <5>4. BufInv(E, s[2], Tail(m.buf[c]))
          BY <3>2, <5>1, <5>3, BufTail, Zenon
        <5> QED BY <2>2, <4>1, <5>4
      <4>3. ASSUME NEW d \in Cores \ {c} PROVE BufInv(E, d, m2.buf[d])
        <5>1. s \notin Pending(D, d)
          BY DEF Pending
        <5>2. Pending(E, d) = Pending(D, d)
          BY <1>2, <2>1, <5>1, AddFacet
        <5> QED BY <3>3, <4>1, <5>2, BufKeep
      <4> QED BY <4>1, <4>2, <4>3
    <3> QED BY <2>3, <2>4, <3>1, <3>3, <3>6, <3>7, <3>8, <3>9 DEF MachInv
  <2> QED BY <2>5, <2>6
<1>3. CASE e = Final /\ e[1] = "final"
  <2>1. MachNext(m, e, val[e]) = m
    BY <1>3 DEF MachNext
  <2>2. \A s \in Steps : s # e
    BY <1>3, StepShape
  <2>3. \A d \in Cores : RegInv(E, d, m.reg[d])
    <3>1. \A t \in Steps : t \in E <=> t \in D
      BY <2>2
    <3> QED BY <1>0, <3>1, RegKeep DEF MachInv
  <2>4. MemInv(E, m) /\ FifoInv(E) /\ \A d \in Cores : BufInv(E, d, m.buf[d])
    BY <1>3, AddFinal, MemKeep, FifoKeep, BufKeep DEF MachInv
  <2>5. E \cap Steps = D \cap Steps
    BY <2>2
  <2> QED BY <2>1, <2>3, <2>4, <2>5 DEF MachInv
<1> QED BY <1>0, <1>1, <1>2, <1>3, EventKinds

----------------------------------------------------------------------------
(* The machine before the first event.                                     *)
Fresh == [mem |-> [n \in FindSharedStates |-> val[Init0][Global(n)]],
          reg |-> [c \in Cores |-> [n \in private(c) |-> val[Init0][<<c, n>>]]],
          buf |-> [c \in Cores |-> <<>>],
          done |-> {}]

FreshStarts == prog \in Programs => MachInv({}, Fresh)

LEMMA Starts == FreshStarts
<1> SUFFICES ASSUME prog \in Programs PROVE MachInv({}, Fresh)
  BY DEF FreshStarts
<1> DEFINE m == Fresh
<1>1. /\ m.mem = [n \in FindSharedStates |-> val[Init0][Global(n)]]
      /\ m.reg = [c \in Cores |-> [n \in private(c) |-> val[Init0][<<c, n>>]]]
      /\ m.buf = [c \in Cores |-> <<>>] /\ m.done = {}
      /\ m = [mem |-> m.mem, reg |-> m.reg, buf |-> m.buf, done |-> m.done]
  BY DEF Fresh
<1> HIDE DEF m
<1>2. MemInv({}, m)
  <2>1. ASSUME NEW n \in FindSharedStates
        PROVE  LastInMemory({}, Init0, n) /\ m.mem[n] = WriteData(Init0, n)
    <3>1. n \in Writes(Init0) /\ Decode(Init0) /\ Performed({}, Init0)
      BY DEF Writes, Decode, Performed
    <3>2. \A v \in FinishRegisterSteps \ {Init0} : ~Performed({}, v)
      BY DEF Performed
    <3>3. WriteData(Init0, n) = val[Init0][Global(n)]
      BY DEF WriteData, Var
    <3> QED BY <1>1, <3>1, <3>2, <3>3 DEF LastInMemory
  <2>2. Init0 \in FinishRegisterSteps
    BY Lists
  <2> QED BY <1>1, <2>1, <2>2 DEF MemInv
<1>3. \A c \in Cores : Pending({}, c) = {}
  BY DEF Pending
<1>4. FifoInv({})
  BY <1>3 DEF FifoInv
<1>5. ASSUME NEW c \in Cores PROVE BufInv({}, c, m.buf[c])
  <2>1. m.buf[c] = <<>>
    BY <1>1
  <2>2. <<>> \in Seq({}) /\ Len(<<>>) = 0
    OBVIOUS
  <2> QED BY <1>3, <2>1, <2>2 DEF BufInv
<1>6. ASSUME NEW c \in Cores PROVE RegInv({}, c, m.reg[c])
  <2>1. m.reg[c] = [n \in private(c) |-> val[Init0][<<c, n>>]] /\ Len(prog.ila[c].tmpl) \in Nat
    BY <1>1, ProgramType
  <2>2. \A n \in private(c) : Var0(c, n) = m.reg[c][n]
    BY <2>1 DEF private, Var0
  <2>3. ASSUME NEW p \in 1..(Len(prog.ila[c].tmpl) + 1), AtPos({}, c, p), NEW n \in private(c)
        PROVE  m.reg[c][n] = LastUpdate(c, p, n)
    <3>1. p = 1
      BY <2>1, <2>3 DEF AtPos
    <3>2. {q \in 1..(p - 1) : n \in DOMAIN Instr(Step(c, q)).update} = {}
      BY <3>1
    <3>3. LastUpdate(c, p, n) = Var0(c, n)
      BY <3>2 DEF LastUpdate
    <3> QED BY <2>2, <2>3, <3>3
  <2>4. ASSUME NEW n \in private(c)
        PROVE  LastInReg({}, c, Init0, n) /\ m.reg[c][n] = LocalData(c, Init0, n)
    BY <2>2, <2>4 DEF LastInReg, LocalData, Decode
  <2> QED BY <2>1, <2>3, <2>4 DEF RegInv
<1>7. m.done = {} \cap Steps /\ DOMAIN m.buf = Cores /\ DOMAIN m.reg = Cores
  BY <1>1
<1> QED BY <1>1, <1>2, <1>4, <1>5, <1>6, <1>7 DEF MachInv, m
----------------------------------------------------------------------------
(* A step that leaves the program, the query and what was assigned as they *)
(* were, and one that assigns one more event e.                            *)
Keeps ==
  /\ prog' = prog /\ query' = query /\ READ_list' = READ_list /\ read_set' = read_set
  /\ \A x \in DOMAIN ts : ts'[x] = ts[x]
  /\ \A x \in DOMAIN ts \cup {Init0} : val'[x] = val[x]

Grows(e) == Keeps /\ e \notin DOMAIN ts /\ DOMAIN ts' = DOMAIN ts \cup {e}

LEMMA SameProgram ==
  ASSUME prog' = prog
  PROVE  /\ Cores' = Cores /\ FindSharedStates' = FindSharedStates /\ Steps' = Steps
         /\ RegisterSteps' = RegisterSteps /\ FinishRegisterSteps' = FinishRegisterSteps
         /\ PureWrite_list' = PureWrite_list /\ RMW_list' = RMW_list /\ FENCE_list' = FENCE_list
         /\ \A c : private(c)' = private(c)
         /\ \A w : Instr(w)' = Instr(w) /\ Writes(w)' = Writes(w)
         /\ \A w : Direct(w)' <=> Direct(w)
         /\ \A w : Global0(w)' = Global0(w)
         /\ \A c, n : Writers(c, n)' = Writers(c, n)
<1>1. Cores' = Cores /\ FindSharedStates' = FindSharedStates /\ Steps' = Steps
  BY DEF Cores, FindSharedStates, Steps
<1>2. /\ \A c : private(c)' = private(c)
      /\ \A w : Instr(w)' = Instr(w)
  BY <1>1 DEF private, Instr
<1>3. \A w : Writes(w)' = Writes(w)
  BY <1>1, <1>2 DEF Writes
<1>4. /\ RegisterSteps' = RegisterSteps
      /\ RMW_list' = RMW_list /\ FENCE_list' = FENCE_list
  BY <1>1, <1>2, <1>3 DEF RegisterSteps, RMW_list, FENCE_list
<1>5. PureWrite_list' = PureWrite_list /\ FinishRegisterSteps' = FinishRegisterSteps
  BY <1>4 DEF PureWrite_list, FinishRegisterSteps
<1>6. \A w : Direct(w)' <=> Direct(w)
  BY <1>4 DEF Direct
<1>7. \A w : Global0(w)' = Global0(w)
  BY <1>6 DEF Global0
<1>8. \A c, n : Writers(c, n)' = Writers(c, n)
  BY <1>1, <1>2 DEF Writers
<1> QED BY <1>1, <1>2, <1>3, <1>4, <1>5, <1>6, <1>7, <1>8

LEMMA SameSets ==
  ASSUME prog' = prog, NEW D
  PROVE  /\ \A w : Performed(D, w)' <=> Performed(D, w)
         /\ \A c : Pending(D, c)' = Pending(D, c)
         /\ Closed(D)' <=> Closed(D)
<1>1. \A w : Performed(D, w)' <=> Performed(D, w)
  BY SameProgram DEF Performed
<1>2. \A c : Pending(D, c)' = Pending(D, c)
  BY SameProgram DEF Pending
<1>3. Closed(D)' <=> Closed(D)
  BY SameProgram DEF Closed
<1> QED BY <1>1, <1>2, <1>3

(* The values and the times of the placed events.                          *)
LEMMA SameValues ==
  ASSUME TimeInv, Keeps, NEW w, (w \in Steps /\ w \in DOMAIN ts) \/ w = Init0
  PROVE  /\ \A n : Var(w, n)' = Var(w, n)
         /\ \A t : Eval(w, t)' = Eval(w, t)
         /\ Decode(w)' <=> Decode(w)
         /\ \A n : WriteData(w, n)' = WriteData(w, n)
         /\ \A c, n : LocalData(c, w, n)' = LocalData(c, w, n)
         /\ Stores(w)' = Stores(w)
<1>1. prog' = prog /\ val'[w] = val[w] /\ val'[Init0] = val[Init0]
  BY DEF Keeps
<1>2. \A n : Var(w, n)' = Var(w, n)
  BY <1>1, StepShape DEF Var
<1>3. \A t : Eval(w, t)' = Eval(w, t)
  BY <1>1, <1>2 DEF Eval
<1>4. Decode(w)' <=> Decode(w)
  BY <1>1, <1>2, SameProgram DEF Decode
<1>5. \A n : WriteData(w, n)' = WriteData(w, n)
  <2>1. \A n : Var(Init0, n)' = Var(Init0, n)
    BY <1>1 DEF Var
  <2> QED BY <1>1, <1>3, <2>1, SameProgram DEF WriteData
<1>6. \A c, n : LocalData(c, w, n)' = LocalData(c, w, n)
  <2>1. \A c, n : Var0(c, n)' = Var0(c, n)
    BY <1>1, SameProgram DEF Var0
  <2> QED BY <1>1, <1>3, <2>1, SameProgram DEF LocalData
<1>7. Stores(w)' = Stores(w)
  BY <1>1, <1>4, <1>5, SameProgram DEF Stores
<1> QED BY <1>2, <1>3, <1>4, <1>5, <1>6, <1>7

LEMMA SameTimes ==
  ASSUME TimeInv, Keeps, NEW x \in DOMAIN ts \cup {Init0}
  PROVE  Time(x)' = Time(x)
<1>1. CASE x = Init0
  BY <1>1 DEF Time
<1>2. CASE x \in DOMAIN ts /\ x # Init0
  <2>1. x[1] = "final" => x = Final
    BY <1>2, EventKinds DEF TimeInv
  <2>2. x[1] # "final" \/ x = Final
    BY <2>1
  <2> QED BY <1>2, <2>2 DEF Time, Keeps
<1> QED BY <1>1, <1>2

(* A set of positions has a last one.                                      *)
LEMMA GreatestOf ==
  ASSUME NEW k \in Nat, NEW S \in SUBSET (1..k), S # {}
  PROVE  \E i \in S : \A j \in S : j <= i
<1> DEFINE T == {k - i : i \in S}
<1>1. T \in SUBSET Nat /\ T # {}
  <2>1. \A i \in S : i \in 1..k /\ k - i \in Nat
    OBVIOUS
  <2> QED BY <2>1
<1>2. PICK x \in T : \A y \in T : ~ (<<y, x>> \in OpToRel(<, Nat))
  BY <1>1, WFMin, NatLessThanWellFounded
<1>3. \A y \in T : ~(y < x)
  BY <1>1, <1>2 DEF OpToRel
<1>4. PICK i \in S : x = k - i
  OBVIOUS
<1>5. ASSUME NEW j \in S PROVE j <= i
  <2>1. ~(k - j < k - i)
    BY <1>3, <1>4
  <2> QED BY <2>1
<1> QED BY <1>5

(* The last update of n before the position p is the one at l, if any.     *)
IsLast(c, p, n, l) ==
  /\ l \in 1..(p - 1) /\ n \in DOMAIN Instr(Step(c, l)).update
  /\ \A q \in 1..(p - 1) : n \in DOMAIN Instr(Step(c, q)).update => q <= l

After(w, n) == IF Decode(w) THEN Eval(w, Instr(w).update[n]) ELSE Var(w, n)

LastIs ==
  \A c, n : \A p \in Nat \ {0} :
    /\ \A l : IsLast(c, p, n, l) => LastUpdate(c, p, n) = After(Step(c, l), n)
    /\ (\A l : ~IsLast(c, p, n, l)) => LastUpdate(c, p, n) = Var0(c, n)

LEMMA LastUpdateIs == LastIs
<1> SUFFICES ASSUME NEW c, NEW n, NEW p \in Nat \ {0}
             PROVE  /\ \A l : IsLast(c, p, n, l) => LastUpdate(c, p, n) = After(Step(c, l), n)
                    /\ (\A l : ~IsLast(c, p, n, l)) => LastUpdate(c, p, n) = Var0(c, n)
  BY DEF LastIs
<1> DEFINE B == {q \in 1..(p - 1) : n \in DOMAIN Instr(Step(c, q)).update}
           m == CHOOSE q \in B : \A o \in B : o <= q
<1>1. LastUpdate(c, p, n) = IF B = {} THEN Var0(c, n) ELSE After(Step(c, m), n)
  BY DEF LastUpdate, After
<1>2. \A l : IsLast(c, p, n, l) <=> l \in B /\ \A o \in B : o <= l
  BY DEF IsLast
<1>3. B \in SUBSET (1..(p - 1)) /\ p - 1 \in Nat
  OBVIOUS
<1> HIDE DEF B
<1>4. ASSUME NEW l, IsLast(c, p, n, l) PROVE LastUpdate(c, p, n) = After(Step(c, l), n)
  <2>1. l \in B /\ \A o \in B : o <= l
    BY <1>2, <1>4
  <2>2. m = l
    <3>1. \A q \in B : q \in Int
      BY <1>3
    <3>2. \A q \in B : (\A o \in B : o <= q) => q = l
      BY <2>1, <3>1
    <3> QED BY <2>1, <3>2
  <2> HIDE DEF m
  <2> QED BY <1>1, <2>1, <2>2
<1>5. ASSUME \A l : ~IsLast(c, p, n, l) PROVE LastUpdate(c, p, n) = Var0(c, n)
  <2>1. B = {}
    BY <1>2, <1>3, <1>5, GreatestOf
  <2> QED BY <1>1, <2>1
<1> QED BY <1>4, <1>5

LEMMA LastUpdateIsNext == LastIs'
BY LastUpdateIs, PTL

LEMMA SameLastUpdate ==
  ASSUME TimeInv, Keeps, NEW c \in Cores, NEW n,
         Len(prog.ila[c].tmpl) \in Nat, NEW p \in 1..(Len(prog.ila[c].tmpl) + 1),
         \A q \in 1..(p - 1) : Step(c, q) \in DOMAIN ts
  PROVE  LastUpdate(c, p, n)' = LastUpdate(c, p, n)
<1>1. prog' = prog /\ \A x : Instr(x)' = Instr(x)
  BY SameProgram DEF Keeps
<1>2. \A l : IsLast(c, p, n, l)' <=> IsLast(c, p, n, l)
  BY <1>1 DEF IsLast
<1>3. p \in Nat \ {0}
  OBVIOUS
<1>4. CASE \A l : ~IsLast(c, p, n, l)
  <2>1. Var0(c, n)' = Var0(c, n)
    BY <1>1, SameProgram DEF Var0, Keeps
  <2>2. LastUpdate(c, p, n) = Var0(c, n)
    BY <1>3, <1>4, LastUpdateIs DEF LastIs
  <2>3. LastUpdate(c, p, n)' = Var0(c, n)'
    BY <1>2, <1>3, <1>4, LastUpdateIsNext DEF LastIs
  <2> QED BY <2>1, <2>2, <2>3
<1>5. CASE \E l : IsLast(c, p, n, l)
  <2>1. PICK l : IsLast(c, p, n, l)
    BY <1>5
  <2>2. Step(c, l) \in DOMAIN ts /\ Step(c, l) \in Steps
    BY <2>1, StepIn DEF IsLast
  <2>3. After(Step(c, l), n)' = After(Step(c, l), n)
    BY <1>1, <2>2, SameValues DEF After
  <2>4. LastUpdate(c, p, n) = After(Step(c, l), n)
    BY <1>3, <2>1, LastUpdateIs DEF LastIs
  <2>5. LastUpdate(c, p, n)' = After(Step(c, l), n)'
    BY <1>2, <1>3, <2>1, LastUpdateIsNext DEF LastIs
  <2> QED BY <2>3, <2>4, <2>5
<1> QED BY <1>4, <1>5

(* The state of the machine is the same function of the same events.       *)
LEMMA SameMach ==
  ASSUME prog \in Programs, TimeInv, Keeps, NEW D, D \subseteq DOMAIN ts, Closed(D),
         NEW m, MachInv(D, m)
  PROVE  MachInv(D, m)'
<1>1. /\ prog' = prog /\ prog.mm \in {"sc", "tso"}
      /\ \A c \in Cores : Len(prog.ila[c].tmpl) \in Nat
  BY ProgramType DEF Keeps
<1>2. /\ \A w : Performed(D, w)' <=> Performed(D, w)
      /\ \A c : Pending(D, c)' = Pending(D, c)
  BY <1>1, SameSets
<1>3. ASSUME NEW w \in FinishRegisterSteps, Performed(D, w)
      PROVE  /\ (w \in Steps /\ w \in DOMAIN ts) \/ w = Init0
             /\ Global0(w) \in DOMAIN ts \cup {Init0} /\ w \in DOMAIN ts \cup {Init0}
  <2>1. w \in RegisterSteps => w \in D /\ w \in Steps
    BY <1>1, <1>3, Issued, Lists
  <2>2. Global0(w) \in D \cup {Init0}
    BY <1>3 DEF Performed, Global0, Direct
  <2> QED BY <2>1, <2>2, Lists
<1>4. MemInv(D, m)'
  <2>1. ASSUME NEW n, NEW w \in FinishRegisterSteps, LastInMemory(D, w, n)
        PROVE  LastInMemory(D, w, n)' /\ WriteData(w, n)' = WriteData(w, n)
    <3>1. Performed(D, w) /\ n \in Writes(w) /\ Decode(w)
      BY <2>1 DEF LastInMemory
    <3>2. \A v \in FinishRegisterSteps : Performed(D, v) =>
            /\ Decode(v)' <=> Decode(v)
            /\ WriteData(v, n)' = WriteData(v, n)
            /\ Time(v)' = Time(v) /\ Time(Global0(v))' = Time(Global0(v))
      <4> SUFFICES ASSUME NEW v \in FinishRegisterSteps, Performed(D, v)
                   PROVE  /\ Decode(v)' <=> Decode(v)
                          /\ WriteData(v, n)' = WriteData(v, n)
                          /\ Time(v)' = Time(v) /\ Time(Global0(v))' = Time(Global0(v))
        OBVIOUS
      <4>1. /\ Decode(v)' <=> Decode(v)
            /\ WriteData(v, n)' = WriteData(v, n)
        BY <1>3, SameValues
      <4>2. Time(v)' = Time(v)
        BY <1>3, SameTimes
      <4>3. PICK g : g = Global0(v)
        OBVIOUS
      <4>4. Global0(v)' = g /\ Time(g)' = Time(g)
        BY <1>1, <1>3, <4>3, SameProgram, SameTimes
      <4>5. Time(Global0(v))' = Time(g)'
        BY <4>4 DEF Time
      <4> QED BY <4>1, <4>2, <4>3, <4>4, <4>5
    <3>3. /\ n \in Writes(w)' /\ Performed(D, w)' /\ Decode(w)'
      BY <1>1, <1>2, <3>1, <3>2, SameProgram
    <3>4. ASSUME NEW v \in FinishRegisterSteps' \ {w}, n \in Writes(v)', Performed(D, v)', Decode(v)'
          PROVE  /\ (Time(Global0(v)) <= Time(Global0(w)))'
                 /\ (SameCore(v, w) => Time(v) <= Time(w))'
      <4>1. v \in FinishRegisterSteps \ {w} /\ n \in Writes(v) /\ Performed(D, v) /\ Decode(v)
        BY <1>1, <1>2, <3>2, <3>4, SameProgram
      <4>2. Time(Global0(v)) <= Time(Global0(w)) /\ (SameCore(v, w) => Time(v) <= Time(w))
        BY <2>1, <4>1 DEF LastInMemory
      <4> QED BY <3>1, <3>2, <4>1, <4>2 DEF SameCore
    <3> QED BY <3>1, <3>2, <3>3, <3>4 DEF LastInMemory
  <2>2. FindSharedStates' = FindSharedStates /\ FinishRegisterSteps' = FinishRegisterSteps
    BY <1>1, SameProgram
  <2> QED BY <2>1, <2>2 DEF MachInv, MemInv
<1>5. \A c \in Cores : \A w \in Pending(D, c) :
        w \in Steps /\ w \in DOMAIN ts /\ ts'[w] = ts[w] /\ Stores(w)' = Stores(w)
  <2> SUFFICES ASSUME NEW c \in Cores, NEW w \in Pending(D, c)
               PROVE  w \in Steps /\ w \in DOMAIN ts /\ ts'[w] = ts[w] /\ Stores(w)' = Stores(w)
    OBVIOUS
  <2>1. w \in Steps /\ w \in DOMAIN ts
    BY <1>1, Issued, Lists
  <2> QED BY <2>1, SameValues DEF Keeps
<1>6. FifoInv(D)'
  <2> SUFFICES ASSUME NEW c \in Cores, NEW b \in Pending(D, c), NEW w \in RegisterSteps,
                      SameCore(w, b), Performed(D, w)
               PROVE  ts'[w] <= ts'[b]
    BY <1>1, <1>2, SameProgram DEF FifoInv, SameCore
  <2>1. w \in DOMAIN ts
    BY <1>1, Issued
  <2>2. ts[w] <= ts[b]
    BY DEF MachInv, FifoInv
  <2> QED BY <1>5, <2>1, <2>2 DEF Keeps
<1>7. ASSUME NEW c \in Cores, NEW b, BufInv(D, c, b) PROVE BufInv(D, c, b)'
  <2>1. \A i \in 1..Len(b) : b[i].e \in Pending(D, c) /\ b[i].w = Stores(b[i].e)
    BY <1>7 DEF BufInv
  <2>2. \A i \in 1..Len(b) : b[i].w = Stores(b[i].e)'
    BY <1>5, <2>1
  <2>3. \A i \in 1..Len(b) : ts'[b[i].e] = ts[b[i].e]
    BY <1>5, <2>1
  <2> QED BY <1>2, <1>7, <2>1, <2>2, <2>3 DEF BufInv
<1>8. ASSUME NEW c \in Cores, NEW r, RegInv(D, c, r) PROVE RegInv(D, c, r)'
  <2>1. ASSUME NEW p \in 1..(Len(prog.ila[c].tmpl) + 1), AtPos(D, c, p), NEW n
        PROVE  LastUpdate(c, p, n)' = LastUpdate(c, p, n)
    BY <1>1, <2>1, SameLastUpdate DEF AtPos
  <2>2. ASSUME NEW n, NEW w \in {Init0} \cup Writers(c, n), LastInReg(D, c, w, n)
        PROVE  LastInReg(D, c, w, n)' /\ LocalData(c, w, n)' = LocalData(c, w, n)
    <3>1. \A i \in {Init0} \cup Writers(c, n) : i = Init0 \/ i \in D =>
            /\ Decode(i)' <=> Decode(i)
            /\ LocalData(c, i, n)' = LocalData(c, i, n) /\ Time(i)' = Time(i)
      BY SameValues, SameTimes DEF Writers
    <3>2. Writers(c, n)' = Writers(c, n)
      BY <1>1, SameProgram
    <3> QED BY <2>2, <3>1, <3>2 DEF LastInReg
  <2>3. private(c)' = private(c)
    BY <1>1, SameProgram
  <2>4. \A p : AtPos(D, c, p)' <=> AtPos(D, c, p)
    BY <1>1 DEF AtPos
  <2>5. \A n : Writers(c, n)' = Writers(c, n)
    BY <1>1, SameProgram
  <2> QED BY <1>1, <1>8, <2>1, <2>2, <2>3, <2>4, <2>5 DEF RegInv
<1>9. Cores' = Cores /\ Steps' = Steps
  BY <1>1, SameProgram
<1> QED BY <1>4, <1>6, <1>7, <1>8, <1>9 DEF MachInv
=============================================================================
