--------------------------- MODULE McmExecProofs ----------------------------
(***************************************************************************)
(* Proofs about Mcm, the memory models: the axioms of SC and TSO with the  *)
(* constraints on private states admit exactly the executions of the       *)
(* machine, for every program.                                             *)
(***************************************************************************)
EXTENDS McmMachProofs

(* The stores that a step e sees when the events D have happened: those of *)
(* its own core, and those that reached the memory.                        *)
Seen(D, w, e) == IF SameCore(w, e) THEN w \in D ELSE Performed(D, w)

(* CO of two stores, as far as the events D decide it.                     *)
Older(D, v, w) ==
  IF SameCore(v, w) THEN HB(v, w)
  ELSE Performed(D, v) /\ (Performed(D, w) => HB(Global0(v), Global0(w)))

Sees(D, w, e, n) == n \in Writes(w) /\ Seen(D, w, e) /\ Decode(w)

(* e reads the value x of a shared state n, or of a private one.           *)
SharedGood(D, e, n, x) ==
  \E w \in FinishRegisterSteps \ {e} :
    /\ Sees(D, w, e, n) /\ x = WriteData(w, n)
    /\ \A v \in FinishRegisterSteps \ {w, e} : Sees(D, v, e, n) => Older(D, v, w)

LocalGood(D, e, c, p, n, x) ==
  IF prog.ila[c].ordered THEN x = LastUpdate(c, p, n)
  ELSE \E w \in ({Init0} \cup Writers(c, n)) \ {e} :
         /\ w = Init0 \/ w \in D
         /\ Decode(w) /\ x = LocalData(c, w, n)
         /\ \A i \in Writers(c, n) \ {w, e} : i \in D /\ Decode(i) => HB(i, w)

InstGood(D, e, v) ==
  /\ e \in FENCE_list \cup RMW_list => Pending(D, e[2]) = {}
  /\ \A n \in DOMAIN v : IF n \in FindSharedStates THEN SharedGood(D, e, n, v[n])
                         ELSE LocalGood(D, e, e[2], e[3], n, v[n])

FacetGood(D, s, t) ==
  IF s \in RMW_list THEN ts[s] = t
  ELSE s \in Pending(D, s[2]) /\ \A w \in Pending(D, s[2]) \ {s} : ts[s] < ts[w]

FinalGood(D, v) ==
  /\ query.final # {} => Steps \subseteq D
  /\ \A n \in DOMAIN v :
       IF n[2] \in FindSharedStates THEN SharedGood(D, Final, n[2], v[n])
       ELSE /\ Steps \subseteq D
            /\ LocalGood(D, Final, n[1], Len(prog.ila[n[1]].tmpl) + 1, n[2], v[n])

(* The event e may come at the time t with the values v when D happened.   *)
GoodAt(D, e, t, v) ==
  /\ e[1] = "inst" => InstGood(D, e, v)
  /\ e[1] = "wfe" => FacetGood(D, Step(e[2], e[3]), t)
  /\ e = Final => FinalGood(D, v)

Good(D, e) == GoodAt(D, e, ts[e], val[e])

(* What LinkStates and the search find in the lists of the unroller.       *)
Linked ==
  /\ prog \in Programs /\ query.final \subseteq prog.finals
  /\ \A r \in READ_list : r \in Steps \/ \E a \in prog.finals :
                                          r = <<"final", a>> /\ a.n \in FindSharedStates
  /\ \A a \in query.final : a.n \in FindSharedStates => <<"final", a>> \in READ_list
  /\ DOMAIN read_set = Steps
  /\ \A e \in Steps : /\ read_set[e] \subseteq prog.ila[e[2]].states
                     /\ Traverse(Instr(e)) \subseteq read_set[e]
----------------------------------------------------------------------------
(* Two placed events of a kind have different times when all are apart.    *)
LEMMA StepsApart ==
  ASSUME TimeInv, Apart, NEW x \in DOMAIN ts, NEW y \in DOMAIN ts, x # y,
         ~\E s \in RMW_list : {x, y} = {s, Facet(s)}
  PROVE  ts[x] # ts[y]
BY DEF Apart

(* Two stores that reached the memory did so at different times, and were  *)
(* issued at different times.                                              *)
LEMMA StoresApart ==
  ASSUME prog \in Programs, TimeInv, Apart, NEW D \in SUBSET DOMAIN ts, Closed(D),
         NEW v \in FinishRegisterSteps, NEW w \in FinishRegisterSteps, v # w
  PROVE  /\ v \in D \cup {Init0} /\ w \in D \cup {Init0} => Time(v) # Time(w)
         /\ Performed(D, v) /\ Performed(D, w) => Time(Global0(v)) # Time(Global0(w))
<1>1. \A s \in RMW_list : s \in Steps /\ Facet(s) \notin Steps /\ Facet(s) # Init0
  BY Lists, FacetApart, FacetShape
<1>2. \A x \in FinishRegisterSteps : x \in Steps \/ x = Init0
  BY Lists
<1>3. \A x \in D : x \in DOMAIN ts /\ Time(x) = ts[x] /\ ts[x] > 0 /\ ts[x] \in Nat
  BY TimeOf
<1>4. Time(Init0) = 0
  BY TimeOf
<1>5. ASSUME v \in D \cup {Init0}, w \in D \cup {Init0} PROVE Time(v) # Time(w)
  <2>1. CASE v = Init0 \/ w = Init0
    BY <1>3, <1>4, <1>5, <2>1
  <2>2. CASE v # Init0 /\ w # Init0
    <3>1. v \in D /\ w \in D /\ v \in Steps /\ w \in Steps
      BY <1>2, <1>5, <2>2
    <3>2. ~\E s \in RMW_list : {v, w} = {s, Facet(s)}
      BY <1>1, <3>1
    <3> QED BY <1>3, <3>1, <3>2, StepsApart
  <2> QED BY <2>1, <2>2
<1>6. ASSUME Performed(D, v), Performed(D, w) PROVE Time(Global0(v)) # Time(Global0(w))
  <2>0. Global0(Init0) = Init0
    BY DEF Global0, Direct
  <2>1. CASE v = Init0 \/ w = Init0
    BY <1>3, <1>4, <1>6, <2>0, <2>1 DEF Performed
  <2>2. CASE v # Init0 /\ w # Init0
    <3> DEFINE x == Global0(v)
               y == Global0(w)
    <3>1. x \in D /\ y \in D /\ v \in Steps /\ w \in Steps
      BY <1>2, <1>6, <2>2 DEF Performed
    <3>2. x # y
      BY <3>1, FacetApart DEF Global0
    <3>3. ASSUME NEW s \in RMW_list PROVE x # Facet(s) /\ y # Facet(s)
      <4>1. s \in Steps
        BY <1>1
      <4> QED BY <3>1, <4>1, FacetApart DEF Global0, Direct
    <3>4. ~\E s \in RMW_list : {x, y} = {s, Facet(s)}
      BY <3>3
    <3> HIDE DEF x, y
    <3>5. ts[x] # ts[y]
      BY <3>1, <3>2, <3>4, StepsApart
    <3>6. Time(x) # Time(y)
      BY <1>3, <3>1, <3>5
    <3> QED BY <3>6 DEF x, y
  <2> QED BY <2>1, <2>2
<1> QED BY <1>5, <1>6

(* The last store in the memory is the one that e sees, when e sees no     *)
(* store that did not reach the memory.                                    *)
LEMMA FromMemory ==
  ASSUME prog \in Programs, TimeInv, NEW D \in SUBSET DOMAIN ts, Closed(D),
         NEW e, e \notin D, e # Init0, NEW n, NEW w \in FinishRegisterSteps, LastInMemory(D, w, n),
         \A v \in FinishRegisterSteps \ {e} : Sees(D, v, e, n) => Performed(D, v)
  PROVE  /\ \A x : SharedGood(D, e, n, x) => x = WriteData(w, n)
         /\ Apart => SharedGood(D, e, n, WriteData(w, n))
<1>0. prog.mm \in {"sc", "tso"}
  BY ProgramType
<1>1. \A v \in FinishRegisterSteps : Performed(D, v) => v \in D \cup {Init0}
  BY <1>0, Issued, Lists
<1>2. n \in Writes(w) /\ Performed(D, w) /\ Decode(w) /\ w # e
  BY <1>1 DEF LastInMemory
<1>3. Sees(D, w, e, n)
  <2>1. SameCore(w, e) => w # Init0
    BY OtherShape DEF SameCore
  <2> QED BY <1>1, <1>2, <2>1 DEF Sees, Seen
<1>4. \A v \in FinishRegisterSteps : Performed(D, v) =>
        Time(v) \in Nat /\ Time(Global0(v)) \in Nat
  <2>1. \A x \in D \cup {Init0} : Time(x) \in Nat
    BY TimeOf
  <2>2. \A v \in FinishRegisterSteps : Performed(D, v) => Global0(v) \in D \cup {Init0}
    BY DEF Performed, Global0, Direct
  <2> QED BY <1>1, <2>1, <2>2
<1>5. \A v \in FinishRegisterSteps \ {w, e} : Sees(D, v, e, n) =>
        /\ Performed(D, v) /\ Time(Global0(v)) <= Time(Global0(w))
        /\ SameCore(v, w) => Time(v) <= Time(w)
  BY DEF LastInMemory, Sees
<1>6. ASSUME NEW x, SharedGood(D, e, n, x) PROVE x = WriteData(w, n)
  <2>1. PICK u \in FinishRegisterSteps \ {e} :
          /\ Sees(D, u, e, n) /\ x = WriteData(u, n)
          /\ \A v \in FinishRegisterSteps \ {u, e} : Sees(D, v, e, n) => Older(D, v, u)
    BY <1>6 DEF SharedGood
  <2>2. ASSUME u # w PROVE FALSE
    <3>1. Older(D, w, u)
      BY <1>2, <1>3, <2>1, <2>2
    <3>2. /\ Performed(D, u) /\ Time(Global0(u)) <= Time(Global0(w))
          /\ SameCore(u, w) => Time(u) <= Time(w)
      BY <1>5, <2>1, <2>2
    <3>3. SameCore(u, w) <=> SameCore(w, u)
      BY DEF SameCore
    <3> QED BY <1>2, <1>4, <3>1, <3>2, <3>3 DEF Older, HB
  <2> QED BY <2>1, <2>2
<1>7. ASSUME Apart PROVE SharedGood(D, e, n, WriteData(w, n))
  <2>1. ASSUME NEW v \in FinishRegisterSteps \ {w, e}, Sees(D, v, e, n) PROVE Older(D, v, w)
    <3>1. Performed(D, v) /\ v \in D \cup {Init0} /\ w \in D \cup {Init0}
      BY <1>1, <1>2, <1>5, <2>1
    <3>2. Time(v) # Time(w) /\ Time(Global0(v)) # Time(Global0(w))
      BY <1>2, <1>7, <3>1, StoresApart
    <3> QED BY <1>2, <1>4, <1>5, <2>1, <3>1, <3>2 DEF Older, HB
  <2> QED BY <1>2, <1>3, <2>1 DEF SharedGood
<1> QED BY <1>6, <1>7

(* The last store to n in the buffer of its core is the one a step sees.   *)
LEMMA FromBuffer ==
  ASSUME prog \in Programs, TimeInv, NEW D \in SUBSET DOMAIN ts, Closed(D), FifoInv(D),
         NEW e \in Steps, e \notin D, NEW n, NEW b, BufInv(D, e[2], b), NEW i \in 1..Len(b),
         n \in DOMAIN b[i].w,
         \A j \in 1..Len(b) : n \in DOMAIN b[j].w => j <= i
  PROVE  /\ \A x : SharedGood(D, e, n, x) => x = b[i].w[n]
         /\ Apart => SharedGood(D, e, n, b[i].w[n])
<1> DEFINE c == e[2]
           w == b[i].e
<1>1. c \in Cores /\ e[1] = "inst" /\ e # Init0 /\ prog.mm \in {"sc", "tso"} /\ Len(b) \in Nat
  <2>1. PICK S : b \in Seq(S)
    BY DEF BufInv
  <2> QED BY <2>1, ProgramType, StepShape
<1>2. w \in Pending(D, c) /\ b[i].w = Stores(w)
  BY DEF BufInv
<1>3. /\ w \in D /\ w \in RegisterSteps /\ w[2] = c /\ ~Performed(D, w) /\ w[1] = "inst"
      /\ w \in FinishRegisterSteps \ {e}
  BY <1>1, <1>2, Issued, Lists, StepShape
<1>4. n \in Writes(w) /\ Decode(w) /\ b[i].w[n] = WriteData(w, n)
  BY <1>2 DEF Stores
<1> HIDE DEF w
<1>5. Sees(D, w, e, n)
  BY <1>1, <1>3, <1>4 DEF Sees, Seen, SameCore
<1>6. ASSUME NEW v \in FinishRegisterSteps \ {w, e}, Sees(D, v, e, n), SameCore(v, w)
      PROVE  /\ v \in D /\ v \in RegisterSteps /\ Time(v) <= Time(w)
             /\ Time(v) \in Nat /\ Time(w) \in Nat
  <2>1. v \in RegisterSteps /\ v[2] = c
    BY <1>3, <1>6, Lists, OtherShape DEF SameCore
  <2>2. v \in D /\ Decode(v) /\ n \in Writes(v)
    BY <1>1, <1>3, <1>6 DEF Sees, Seen, SameCore
  <2>3. CASE Performed(D, v)
    <3>1. ts[v] <= ts[w]
      BY <1>1, <1>2, <1>6, <2>1, <2>3 DEF FifoInv
    <3> QED BY <1>3, <2>1, <2>2, <3>1, TimeOf
  <2>4. CASE v \in Pending(D, c)
    <3>1. PICK j \in 1..Len(b) : b[j].e = v
      BY <2>4 DEF BufInv
    <3>2. b[j].w = Stores(v)
      BY <3>1 DEF BufInv
    <3>3. n \in DOMAIN b[j].w
      BY <2>2, <3>2 DEF Stores
    <3>4. j < i
      BY <1>1, <1>6, <3>1, <3>3 DEF w
    <3>5. ts[v] <= ts[w]
      BY <3>1, <3>4 DEF BufInv, w
    <3> QED BY <1>3, <2>1, <2>2, <3>5, TimeOf
  <2> QED BY <1>1, <2>1, <2>2, <2>3, <2>4, Issued
<1>7. ASSUME NEW x, SharedGood(D, e, n, x) PROVE x = b[i].w[n]
  <2>1. PICK u \in FinishRegisterSteps \ {e} :
          /\ Sees(D, u, e, n) /\ x = WriteData(u, n)
          /\ \A v \in FinishRegisterSteps \ {u, e} : Sees(D, v, e, n) => Older(D, v, u)
    BY <1>7 DEF SharedGood
  <2>2. ASSUME u # w PROVE FALSE
    <3>1. Older(D, w, u)
      BY <1>3, <1>5, <2>1, <2>2
    <3>2. SameCore(u, w) <=> SameCore(w, u)
      BY DEF SameCore
    <3>3. CASE SameCore(u, w)
      <4>1. Time(u) <= Time(w) /\ Time(u) \in Nat /\ Time(w) \in Nat
        BY <1>6, <2>1, <2>2, <3>3
      <4> QED BY <3>1, <3>2, <3>3, <4>1 DEF Older, HB
    <3>4. CASE ~SameCore(u, w)
      BY <1>3, <3>1, <3>2, <3>4 DEF Older
    <3> QED BY <3>3, <3>4
  <2> QED BY <1>4, <2>1, <2>2
<1>8. ASSUME Apart PROVE SharedGood(D, e, n, b[i].w[n])
  <2>1. ASSUME NEW v \in FinishRegisterSteps \ {w, e}, Sees(D, v, e, n) PROVE Older(D, v, w)
    <3>1. CASE SameCore(v, w)
      <4>1. /\ v \in D /\ v \in RegisterSteps /\ Time(v) <= Time(w)
            /\ Time(v) \in Nat /\ Time(w) \in Nat
        BY <1>6, <2>1, <3>1
      <4>2. Time(v) # Time(w)
        BY <1>3, <1>8, <4>1, StoresApart
      <4> QED BY <3>1, <4>1, <4>2 DEF Older, HB
    <3>2. CASE ~SameCore(v, w)
      <4>1. Performed(D, v)
        BY <1>1, <1>3, <2>1, <3>2 DEF Sees, Seen, SameCore
      <4> QED BY <1>3, <3>2, <4>1 DEF Older
    <3> QED BY <3>1, <3>2
  <2> QED BY <1>3, <1>4, <1>5, <2>1 DEF SharedGood
<1> QED BY <1>7, <1>8

(* A step of the machine reads what it sees.                               *)
LEMMA ReadsShared ==
  ASSUME prog \in Programs, TimeInv, NEW D \in SUBSET DOMAIN ts, Closed(D),
         NEW m, MachInv(D, m), NEW e \in Steps, e \notin D, NEW n \in FindSharedStates
  PROVE  /\ \A x : SharedGood(D, e, n, x) => x = MachRead(m, e[2], n)
         /\ Apart => SharedGood(D, e, n, MachRead(m, e[2], n))
<1> DEFINE c == e[2]
           b == m.buf[c]
           I == {i \in 1..Len(b) : n \in DOMAIN b[i].w}
<1>1. c \in Cores /\ e[1] = "inst" /\ e # Init0 /\ prog.mm \in {"sc", "tso"}
  BY StepShape, ProgramType
<1>2. BufInv(D, c, b) /\ FifoInv(D) /\ MemInv(D, m)
  BY <1>1 DEF MachInv
<1>3. MachRead(m, c, n) = IF I = {} THEN m.mem[n]
                          ELSE b[CHOOSE i \in I : \A j \in I : j <= i].w[n]
  BY DEF MachRead
<1>4. Len(b) \in Nat
  <2>1. PICK S : b \in Seq(S)
    BY <1>2 DEF BufInv
  <2> QED BY <2>1
<1>5. CASE I = {}
  <2>1. PICK w \in FinishRegisterSteps : LastInMemory(D, w, n) /\ m.mem[n] = WriteData(w, n)
    BY <1>2 DEF MemInv
  <2>2. ASSUME NEW v \in FinishRegisterSteps \ {e}, Sees(D, v, e, n) PROVE Performed(D, v)
    <3>1. CASE ~SameCore(v, e)
      BY <2>2, <3>1 DEF Sees, Seen
    <3>2. CASE SameCore(v, e)
      <4>1. v \in RegisterSteps /\ v \in D /\ v[2] = c /\ Decode(v) /\ n \in Writes(v)
        BY <2>2, <3>2, Lists, OtherShape DEF Sees, Seen, SameCore
      <4>2. ASSUME v \in Pending(D, c) PROVE FALSE
        <5>1. PICK j \in 1..Len(b) : b[j].e = v /\ b[j].w = Stores(v)
          <6> HIDE DEF b, c
          <6>1. PICK j \in 1..Len(b) : b[j].e = v
            BY <1>2, <4>2 DEF BufInv
          <6>2. b[j].w = Stores(b[j].e)
            BY <1>2 DEF BufInv
          <6> QED BY <6>1, <6>2
        <5>2. n \in DOMAIN b[j].w
          BY <4>1, <5>1 DEF Stores
        <5> QED BY <1>5, <5>1, <5>2
      <4> QED BY <1>1, <4>1, <4>2, Issued
    <3> QED BY <3>1, <3>2
  <2>3. MachRead(m, c, n) = WriteData(w, n)
    BY <1>3, <1>5, <2>1
  <2> QED BY <1>1, <2>1, <2>2, <2>3, FromMemory
<1>6. CASE I # {}
  <2>1. I \in SUBSET (1..Len(b))
    OBVIOUS
  <2>2. \E i \in I : \A j \in I : j <= i
    BY <1>4, <1>6, <2>1, GreatestOf
  <2> DEFINE i == CHOOSE k \in I : \A j \in I : j <= k
  <2>3. i \in I /\ \A j \in I : j <= i
    <3> HIDE DEF I
    <3> QED BY <2>2
  <2>4. MachRead(m, c, n) = b[i].w[n]
    BY <1>3, <1>6
  <2> HIDE DEF i
  <2>5. /\ i \in 1..Len(b) /\ n \in DOMAIN b[i].w
        /\ \A j \in 1..Len(b) : n \in DOMAIN b[j].w => j <= i
    BY <2>3
  <2> HIDE DEF I
  <2>6. /\ \A x : SharedGood(D, e, n, x) => x = b[i].w[n]
        /\ Apart => SharedGood(D, e, n, b[i].w[n])
    BY <1>2, <2>5, FromBuffer, Zenon
  <2> QED BY <2>4, <2>6
<1> QED BY <1>5, <1>6

LEMMA ReadsFinal ==
  ASSUME prog \in Programs, TimeInv, NEW D \in SUBSET DOMAIN ts, Closed(D),
         NEW m, MachInv(D, m), Final \notin D, NEW n \in FindSharedStates
  PROVE  /\ \A x : SharedGood(D, Final, n, x) => x = m.mem[n]
         /\ Apart => SharedGood(D, Final, n, m.mem[n])
<1>1. PICK w \in FinishRegisterSteps : LastInMemory(D, w, n) /\ m.mem[n] = WriteData(w, n)
  BY DEF MachInv, MemInv
<1>2. ASSUME NEW v \in FinishRegisterSteps \ {Final}, Sees(D, v, Final, n) PROVE Performed(D, v)
  BY <1>2, OtherShape DEF Sees, Seen, SameCore
<1> QED BY <1>1, <1>2, OtherShape, FromMemory

(* A private state is read from its register.                              *)
LEMMA ReadsLocal ==
  ASSUME prog \in Programs, TimeInv, NEW D \in SUBSET DOMAIN ts, Closed(D),
         NEW c \in Cores, NEW r, RegInv(D, c, r), NEW e, e \notin D, e # Init0,
         NEW n \in private(c), NEW p \in 1..(Len(prog.ila[c].tmpl) + 1),
         prog.ila[c].ordered => AtPos(D, c, p)
  PROVE  /\ \A x : LocalGood(D, e, c, p, n, x) => x = r[n]
         /\ Apart => LocalGood(D, e, c, p, n, r[n])
<1>1. CASE prog.ila[c].ordered
  <2>1. r[n] = LastUpdate(c, p, n)
    BY <1>1 DEF RegInv
  <2> QED BY <1>1, <2>1 DEF LocalGood
<1>2. CASE ~prog.ila[c].ordered
  <2>1. PICK w \in {Init0} \cup Writers(c, n) :
          LastInReg(D, c, w, n) /\ r[n] = LocalData(c, w, n)
    BY <1>2 DEF RegInv
  <2>2. \A x \in D \cup {Init0} : Time(x) \in Nat
    BY TimeOf
  <2>3. w \in D \cup {Init0} /\ Decode(w) /\ w # e
    BY <2>1 DEF LastInReg
  <2>4. ASSUME NEW x, LocalGood(D, e, c, p, n, x) PROVE x = r[n]
    <3>1. PICK u \in ({Init0} \cup Writers(c, n)) \ {e} :
            /\ u = Init0 \/ u \in D
            /\ Decode(u) /\ x = LocalData(c, u, n)
            /\ \A i \in Writers(c, n) \ {u, e} : i \in D /\ Decode(i) => HB(i, u)
      BY <1>2, <2>4 DEF LocalGood
    <3>2. ASSUME u # w PROVE FALSE
      <4>1. CASE w # Init0
        <5>1. Time(w) < Time(u)
          BY <2>1, <2>3, <3>1, <3>2, <4>1 DEF HB
        <5>2. CASE u = Init0
          BY <2>2, <2>3, <5>1, <5>2, TimeOf
        <5>3. CASE u # Init0
          <6>1. Time(u) <= Time(w)
            BY <2>1, <3>1, <3>2, <5>3 DEF LastInReg
          <6> QED BY <2>2, <2>3, <3>1, <5>1, <6>1
        <5> QED BY <5>2, <5>3
      <4>2. CASE w = Init0
        <5>1. Time(u) <= 0 /\ u \in D
          BY <2>1, <3>1, <3>2, <4>2, TimeOf DEF LastInReg
        <5> QED BY <5>1, TimeOf
      <4> QED BY <4>1, <4>2
    <3> QED BY <2>1, <3>1, <3>2
  <2>5. ASSUME Apart PROVE LocalGood(D, e, c, p, n, r[n])
    <3>1. ASSUME NEW i \in Writers(c, n) \ {w, e}, i \in D, Decode(i) PROVE HB(i, w)
      <4>1. Time(i) <= Time(w)
        BY <2>1, <3>1 DEF LastInReg
      <4>2. Time(i) # Time(w)
        <5>1. CASE w = Init0
          BY <3>1, <5>1, TimeOf
        <5>2. CASE w # Init0
          <6>1. w \in Steps /\ i \in Steps /\ w \in D
            BY <2>3, <5>2 DEF Writers
          <6>2. ~\E s \in RMW_list : {w, i} = {s, Facet(s)}
            <7>1. \A s \in RMW_list : s \in Steps /\ Facet(s) \notin Steps
              BY Lists, FacetApart
            <7> QED BY <6>1, <7>1
          <6> QED BY <2>5, <3>1, <6>1, <6>2, StepsApart, TimeOf
        <5> QED BY <5>1, <5>2
      <4> QED BY <2>2, <2>3, <3>1, <4>1, <4>2 DEF HB
    <3> QED BY <1>2, <2>1, <2>3, <3>1 DEF LocalGood
  <2> QED BY <2>4, <2>5
<1> QED BY <1>1, <1>2

(* A step names states of its core, the final step a shared state or the   *)
(* private state of the property it was given.                             *)
LEMMA InstNames ==
  ASSUME Linked, NEW e \in Steps, NEW n \in Mentioned(e), n \notin FindSharedStates
  PROVE  n \in private(e[2])
<1>1. e[1] = "inst" /\ e # Final
  BY StepShape
<1>2. n \in read_set[e] \/ n \in private(e[2])
  BY <1>1 DEF Mentioned
<1> QED BY <1>2 DEF Linked, private

LEMMA FinalNames ==
  ASSUME Linked, NEW n \in Mentioned(Final), n[2] \notin FindSharedStates
  PROVE  query.final # {} /\ n[1] \in Cores /\ n[2] \in private(n[1])
<1>1. Mentioned(Final) = {Global(q[2].n) : q \in Finals} \cup {FinalName(a) : a \in query.final}
  BY OtherShape DEF Mentioned
<1>2. ASSUME NEW q \in Finals, n = Global(q[2].n) PROVE FALSE
  <2>1. q \in READ_list /\ q[1] = "final"
    BY DEF Finals
  <2>2. PICK a \in prog.finals : q = <<"final", a>> /\ a.n \in FindSharedStates
    BY <2>1, StepShape DEF Linked
  <2>3. q[2] = a
    BY <2>2
  <2>4. n[2] = a.n
    BY <1>2, <2>3 DEF Global
  <2> QED BY <2>2, <2>4
<1>3. PICK a \in query.final : n = FinalName(a)
  BY <1>1, <1>2
<1>4. n = <<a.c, a.n>>
  <2>1. n = Global(a.n) \/ n = <<a.c, a.n>>
    BY <1>3 DEF FinalName
  <2>2. ASSUME n = Global(a.n), a.n \in FindSharedStates PROVE FALSE
    BY <2>2 DEF Global
  <2> QED BY <1>3, <2>1, <2>2 DEF FinalName
<1>5. a.c \in Cores /\ a.n \in prog.ila[a.c].states
  BY ProgramType DEF Linked
<1>6. n[1] = a.c /\ n[2] = a.n
  BY <1>4
<1> QED BY <1>3, <1>5, <1>6 DEF private

(* The machine takes the next event exactly when its values and its time   *)
(* agree with the events before; one direction needs the times apart.      *)
LEMMA Allowed ==
  ASSUME Linked, TimeInv, NEW m, MachInv(DOMAIN ts, m), NEW e \in Events \ DOMAIN ts,
         Closed(DOMAIN ts \cup {e}), NEW t, NEW v, DOMAIN v = Mentioned(e)
  PROVE  /\ GoodAt(DOMAIN ts, e, t, v) => MachAllows(m, e, t, v)
         /\ Apart /\ MachAllows(m, e, t, v) => GoodAt(DOMAIN ts, e, t, v)
<1> DEFINE D == DOMAIN ts
<1>0. /\ prog \in Programs /\ Closed(D) /\ D \in SUBSET DOMAIN ts /\ e \notin D
      /\ prog.mm \in {"sc", "tso"}
      /\ \A c \in Cores : Len(prog.ila[c].tmpl) \in Nat
      /\ m.done = D \cap Steps
  BY ProgramType DEF Linked, TimeInv, MachInv
<1>1. CASE e \in Steps /\ e[1] = "inst" /\ e # Final
  <2> DEFINE c == e[2]
             k == e[3]
  <2>1. c \in Cores /\ k \in 1..Len(prog.ila[c].tmpl) /\ e = Step(c, k) /\ e # Init0
    BY <1>1, StepShape
  <2>2. ASSUME prog.ila[c].ordered
        PROVE  AtPos(D, c, k) /\ \A q \in 1..(k - 1) : Step(c, q) \in m.done
    <3>1. ASSUME NEW q \in 1..(k - 1) PROVE Step(c, q) \in D /\ Step(c, q) \in Steps
      <4>1. q \in 1..Len(prog.ila[c].tmpl) /\ q # k
        BY <1>0, <2>1
      <4>2. Step(c, q) \in Steps /\ Step(c, q) # e
        BY <2>1, <4>1, StepIn
      <4>3. Step(c, q) \in D \cup {e}
        BY <2>1, <2>2 DEF Closed
      <4> QED BY <4>2, <4>3
    <3>2. ASSUME NEW q \in k..Len(prog.ila[c].tmpl), Step(c, q) \in D PROVE FALSE
      <4>1. CASE q = k
        BY <1>0, <2>1, <3>2, <4>1
      <4>2. CASE q # k
        <5>1. k \in 1..(q - 1) /\ q \in 1..Len(prog.ila[c].tmpl)
          BY <1>0, <2>1, <4>2
        <5>2. Step(c, k) \in D
          BY <1>0, <2>1, <2>2, <3>2, <5>1 DEF Closed
        <5> QED BY <1>0, <2>1, <5>2
      <4> QED BY <4>1, <4>2
    <3> QED BY <1>0, <3>1, <3>2 DEF AtPos
  <2>3. m.buf[c] = <<>> <=> Pending(D, c) = {}
    BY <2>1, NonePending DEF MachInv
  <2>4. ASSUME NEW n \in DOMAIN v, n \in FindSharedStates
        PROVE  /\ SharedGood(D, e, n, v[n]) => v[n] = MachRead(m, c, n)
               /\ Apart /\ v[n] = MachRead(m, c, n) => SharedGood(D, e, n, v[n])
    BY <1>0, <1>1, <2>4, ReadsShared
  <2>5. ASSUME NEW n \in DOMAIN v, n \notin FindSharedStates
        PROVE  /\ LocalGood(D, e, c, k, n, v[n]) => v[n] = MachRead(m, c, n)
               /\ Apart /\ v[n] = MachRead(m, c, n) => LocalGood(D, e, c, k, n, v[n])
    <3>1. n \in private(c)
      BY <1>1, <2>5, InstNames
    <3>2. MachRead(m, c, n) = m.reg[c][n]
      BY <2>5 DEF MachRead
    <3>3. RegInv(D, c, m.reg[c]) /\ k \in 1..(Len(prog.ila[c].tmpl) + 1)
      BY <1>0, <2>1 DEF MachInv
    <3>4. /\ \A x : LocalGood(D, e, c, k, n, x) => x = m.reg[c][n]
          /\ Apart => LocalGood(D, e, c, k, n, m.reg[c][n])
      BY <1>0, <2>1, <2>2, <3>1, <3>3, ReadsLocal
    <3> QED BY <3>2, <3>4
  <2>6. GoodAt(D, e, t, v) <=> InstGood(D, e, v)
    BY <1>1 DEF GoodAt
  <2>7. MachAllows(m, e, t, v) <=>
          /\ prog.ila[c].ordered => \A q \in 1..(k - 1) : Step(c, q) \in m.done
          /\ e \in FENCE_list \cup RMW_list => m.buf[c] = <<>>
          /\ \A n \in DOMAIN v : v[n] = MachRead(m, c, n)
    BY <1>1 DEF MachAllows
  <2> QED BY <2>2, <2>3, <2>4, <2>5, <2>6, <2>7 DEF InstGood
<1>2. CASE /\ e[1] = "wfe" /\ prog.mm = "tso" /\ e # Final
           /\ \E s \in RegisterSteps : e = Facet(s) /\ Step(e[2], e[3]) = s
  <2>1. PICK s \in RegisterSteps : e = Facet(s) /\ Step(e[2], e[3]) = s
    BY <1>2
  <2>2. s \in Steps /\ s[2] \in Cores /\ e[2] = s[2]
    BY <2>1, Lists, StepShape, FacetShape
  <2>3. s \in D
    <3>1. s \in D \cup {e}
      BY <2>1 DEF Closed
    <3> QED BY <2>1, <2>2, <3>1, FacetApart
  <2>4. GoodAt(D, e, t, v) <=> FacetGood(D, s, t)
    BY <1>2, <2>1 DEF GoodAt
  <2>5. MachAllows(m, e, t, v) <=>
          IF s \in RMW_list THEN s \in D /\ ts[s] = t
          ELSE m.buf[s[2]] # <<>> /\ m.buf[s[2]][1].e = s
    BY <1>2, <2>1, <2>2 DEF MachAllows
  <2>6. CASE s \in RMW_list
    BY <2>3, <2>4, <2>5, <2>6 DEF FacetGood
  <2>7. CASE s \notin RMW_list
    <3> DEFINE b == m.buf[s[2]]
    <3>1. BufInv(D, s[2], b)
      BY <2>2 DEF MachInv
    <3>2. b # <<>> =>
            /\ b[1].e \in Pending(D, s[2])
            /\ \A w \in Pending(D, s[2]) \ {b[1].e} : ts[b[1].e] <= ts[w]
      BY <3>1, Oldest
    <3>3. b = <<>> <=> Pending(D, s[2]) = {}
      BY <3>1, NonePending
    <3> HIDE DEF b
    <3>4. \A w \in Pending(D, s[2]) : w \in D /\ w \in Steps /\ ts[w] \in Nat
      BY <1>0, <2>2, Issued, Lists, TimeOf
    <3>5. ASSUME FacetGood(D, s, t) PROVE b # <<>> /\ b[1].e = s
      <4>1. s \in Pending(D, s[2]) /\ \A w \in Pending(D, s[2]) \ {s} : ts[s] < ts[w]
        BY <2>7, <3>5 DEF FacetGood
      <4>2. b # <<>>
        BY <3>3, <4>1
      <4>3. ASSUME b[1].e # s PROVE FALSE
        <5>1. ts[s] < ts[b[1].e] /\ ts[b[1].e] <= ts[s]
          BY <3>2, <4>1, <4>2, <4>3
        <5> QED BY <3>2, <3>4, <4>1, <4>2, <5>1
      <4> QED BY <4>2, <4>3
    <3>6. ASSUME Apart, b # <<>>, b[1].e = s PROVE FacetGood(D, s, t)
      <4>1. ASSUME NEW w \in Pending(D, s[2]) \ {s} PROVE ts[s] < ts[w]
        <5>1. ts[s] <= ts[w]
          BY <3>2, <3>6, <4>1
        <5>2. \A r \in RMW_list : Facet(r) \notin Steps
          BY Lists, FacetApart
        <5>3. ~\E r \in RMW_list : {s, w} = {r, Facet(r)}
          BY <2>2, <3>4, <5>2
        <5>4. ts[s] # ts[w] /\ ts[s] \in Nat /\ ts[w] \in Nat
          BY <2>3, <3>4, <3>6, <5>3, StepsApart, TimeOf
        <5> QED BY <5>1, <5>4
      <4> QED BY <2>7, <3>2, <3>6, <4>1 DEF FacetGood
    <3> QED BY <2>4, <2>5, <2>7, <3>5, <3>6 DEF b
  <2> QED BY <2>6, <2>7
<1>3. CASE e = Final /\ e[1] = "final"
  <2>1. GoodAt(D, e, t, v) <=> FinalGood(D, v)
    BY <1>3 DEF GoodAt
  <2>2. MachAllows(m, e, t, v) <=>
          /\ query.final # {} => Steps \subseteq m.done
          /\ \A n \in DOMAIN v : v[n] = IF n[2] \in FindSharedStates THEN m.mem[n[2]]
                                        ELSE m.reg[n[1]][n[2]]
    BY <1>3 DEF MachAllows
  <2>3. Steps \subseteq m.done <=> Steps \subseteq D
    BY <1>0
  <2>4. ASSUME NEW n \in DOMAIN v, n[2] \in FindSharedStates
        PROVE  /\ SharedGood(D, Final, n[2], v[n]) => v[n] = m.mem[n[2]]
               /\ Apart /\ v[n] = m.mem[n[2]] => SharedGood(D, Final, n[2], v[n])
    BY <1>0, <1>3, <2>4, ReadsFinal
  <2>5. ASSUME NEW n \in DOMAIN v, n[2] \notin FindSharedStates, Steps \subseteq D
        PROVE  LET p == Len(prog.ila[n[1]].tmpl) + 1
                   r == m.reg[n[1]][n[2]] IN
               /\ LocalGood(D, Final, n[1], p, n[2], v[n]) => v[n] = r
               /\ Apart /\ v[n] = r => LocalGood(D, Final, n[1], p, n[2], v[n])
    <3> DEFINE c == n[1]
               p == Len(prog.ila[c].tmpl) + 1
               r == m.reg[c]
    <3>1. c \in Cores /\ n[2] \in private(c)
      BY <1>3, <2>5, FinalNames
    <3>2. RegInv(D, c, r) /\ p \in 1..(Len(prog.ila[c].tmpl) + 1)
      BY <1>0, <3>1 DEF MachInv
    <3>3. AtPos(D, c, p)
      BY <1>0, <2>5, <3>1, StepIn DEF AtPos
    <3>4. Final \notin D /\ Final # Init0
      BY <1>0, <1>3, OtherShape
    <3> HIDE DEF c, p, r
    <3>5. /\ \A x : LocalGood(D, Final, c, p, n[2], x) => x = r[n[2]]
          /\ Apart => LocalGood(D, Final, c, p, n[2], r[n[2]])
      BY <1>0, <3>1, <3>2, <3>3, <3>4, ReadsLocal
    <3> QED BY <3>5 DEF c, p, r
  <2>6. ASSUME NEW n \in DOMAIN v, n[2] \notin FindSharedStates PROVE query.final # {}
    BY <1>3, <2>6, FinalNames
  <2> QED BY <2>1, <2>2, <2>3, <2>4, <2>5, <2>6 DEF FinalGood
<1> QED BY <1>1, <1>2, <1>3, EventKinds

----------------------------------------------------------------------------
(* One more event changes nothing of what was said about the others.       *)
LEMMA SameCut ==
  ASSUME TimeInv, NEW e, Grows(e), \A y \in DOMAIN ts : ts[y] <= ts'[e],
         NEW D, NEW x, Cut(D, x)
  PROVE  Cut(D, x)'
<1>1. prog' = prog /\ DOMAIN ts' = DOMAIN ts \cup {e} /\ \A y \in DOMAIN ts : ts'[y] = ts[y]
  BY DEF Grows, Keeps
<1>2. /\ Closed(D)' /\ Closed(D \cup {x})'
  BY <1>1, SameSets DEF Cut
<1>3. x \in DOMAIN ts /\ D \subseteq DOMAIN ts
  BY DEF Cut
<1> QED BY <1>1, <1>2, <1>3 DEF Cut

LEMMA SameSees ==
  ASSUME prog \in Programs, TimeInv, Keeps, NEW D \in SUBSET DOMAIN ts, Closed(D),
         NEW x, NEW n
  PROVE  /\ \A w \in FinishRegisterSteps :
              /\ Sees(D, w, x, n)' <=> Sees(D, w, x, n)
              /\ Sees(D, w, x, n) => WriteData(w, n)' = WriteData(w, n)
         /\ \A v, w \in FinishRegisterSteps : Sees(D, v, x, n) /\ Sees(D, w, x, n) =>
              (Older(D, v, w)' <=> Older(D, v, w))
<1>1. prog' = prog /\ prog.mm \in {"sc", "tso"}
  BY ProgramType DEF Keeps
<1>2. \A w : Performed(D, w)' <=> Performed(D, w)
  BY <1>1, SameSets
<1>3. \A w : Seen(D, w, x)' <=> Seen(D, w, x)
  BY <1>2 DEF Seen, SameCore
<1>4. ASSUME NEW w \in FinishRegisterSteps, Seen(D, w, x)
      PROVE  (w \in Steps /\ w \in DOMAIN ts) \/ w = Init0
  <2>1. w \in RegisterSteps => w \in D
    BY <1>1, <1>4, Issued DEF Seen
  <2> QED BY <2>1, Lists
<1>5. ASSUME NEW w \in FinishRegisterSteps, Seen(D, w, x)
      PROVE  /\ Decode(w)' <=> Decode(w)
             /\ WriteData(w, n)' = WriteData(w, n)
             /\ Time(w)' = Time(w)
  <2>1. (w \in Steps /\ w \in DOMAIN ts) \/ w = Init0
    BY <1>4, <1>5
  <2> QED BY <2>1, SameValues, SameTimes
<1>6. ASSUME NEW w \in FinishRegisterSteps, Performed(D, w)
      PROVE  Time(Global0(w))' = Time(Global0(w))
  <2>1. PICK g : g = Global0(w)
    OBVIOUS
  <2>2. g \in DOMAIN ts \cup {Init0}
    BY <1>6, <2>1 DEF Performed, Global0, Direct
  <2>3. Global0(w)' = g /\ Time(g)' = Time(g)
    BY <1>1, <2>1, <2>2, SameProgram, SameTimes
  <2>4. Time(Global0(w))' = Time(g)'
    BY <2>3 DEF Time
  <2> QED BY <2>1, <2>3, <2>4
<1>7. \A w : Writes(w)' = Writes(w)
  BY <1>1, SameProgram
<1>8. ASSUME NEW w \in FinishRegisterSteps
      PROVE  /\ Sees(D, w, x, n)' <=> Sees(D, w, x, n)
             /\ Sees(D, w, x, n) => WriteData(w, n)' = WriteData(w, n)
  BY <1>3, <1>5, <1>7 DEF Sees
<1>9. ASSUME NEW v \in FinishRegisterSteps, NEW w \in FinishRegisterSteps,
             Sees(D, v, x, n), Sees(D, w, x, n)
      PROVE  Older(D, v, w)' <=> Older(D, v, w)
  <2>1. Time(v)' = Time(v) /\ Time(w)' = Time(w)
    BY <1>5, <1>9 DEF Sees
  <2>2. HB(v, w)' <=> HB(v, w)
    BY <2>1 DEF HB
  <2>3. Performed(D, v) /\ Performed(D, w) => (HB(Global0(v), Global0(w))' <=> HB(Global0(v), Global0(w)))
    BY <1>6 DEF HB
  <2> QED BY <1>2, <2>2, <2>3 DEF Older, SameCore
<1> QED BY <1>8, <1>9

LEMMA SameShared ==
  ASSUME prog \in Programs, TimeInv, Keeps, NEW D \in SUBSET DOMAIN ts, Closed(D),
         NEW x, NEW n, NEW y
  PROVE  SharedGood(D, x, n, y)' <=> SharedGood(D, x, n, y)
<1>1. FinishRegisterSteps' = FinishRegisterSteps
  BY SameProgram DEF Keeps
<1>2. /\ \A w \in FinishRegisterSteps :
           /\ Sees(D, w, x, n)' <=> Sees(D, w, x, n)
           /\ Sees(D, w, x, n) => WriteData(w, n)' = WriteData(w, n)
      /\ \A v, w \in FinishRegisterSteps : Sees(D, v, x, n) /\ Sees(D, w, x, n) =>
           (Older(D, v, w)' <=> Older(D, v, w))
  BY SameSees
<1> QED BY <1>1, <1>2 DEF SharedGood

LEMMA SameLocal ==
  ASSUME prog \in Programs, TimeInv, Keeps, NEW D \in SUBSET DOMAIN ts,
         NEW x, NEW c \in Cores, NEW p \in 1..(Len(prog.ila[c].tmpl) + 1), NEW n, NEW y,
         prog.ila[c].ordered => \A q \in 1..(p - 1) : Step(c, q) \in D
  PROVE  LocalGood(D, x, c, p, n, y)' <=> LocalGood(D, x, c, p, n, y)
<1>1. prog' = prog /\ Writers(c, n)' = Writers(c, n)
  BY SameProgram DEF Keeps
<1>2. CASE prog.ila[c].ordered
  <2>1. LastUpdate(c, p, n)' = LastUpdate(c, p, n)
    BY <1>2, ProgramType, SameLastUpdate
  <2> QED BY <1>1, <1>2, <2>1 DEF LocalGood
<1>3. CASE ~prog.ila[c].ordered
  <2>1. ASSUME NEW w \in {Init0} \cup Writers(c, n), w = Init0 \/ w \in D
        PROVE  /\ Decode(w)' <=> Decode(w)
               /\ LocalData(c, w, n)' = LocalData(c, w, n) /\ Time(w)' = Time(w)
    <3>1. (w \in Steps /\ w \in DOMAIN ts) \/ w = Init0
      BY <2>1 DEF Writers
    <3> QED BY <3>1, SameValues, SameTimes
  <2>2. ASSUME NEW w \in {Init0} \cup Writers(c, n), w = Init0 \/ w \in D,
               NEW i \in Writers(c, n), i \in D
        PROVE  HB(i, w)' <=> HB(i, w)
    BY <2>1, <2>2 DEF HB
  <2> QED BY <1>1, <1>3, <2>1, <2>2 DEF LocalGood
<1> QED BY <1>2, <1>3

LEMMA SameGood ==
  ASSUME Linked, TimeInv, Keeps, NEW D \in SUBSET DOMAIN ts, Closed(D),
         NEW x \in Events, Closed(D \cup {x}), x \notin D, NEW t, NEW v, DOMAIN v = Mentioned(x)
  PROVE  GoodAt(D, x, t, v)' <=> GoodAt(D, x, t, v)
<1>0. /\ prog \in Programs /\ prog' = prog /\ query' = query /\ prog.mm \in {"sc", "tso"}
      /\ \A c \in Cores : Len(prog.ila[c].tmpl) \in Nat
  BY ProgramType DEF Linked, Keeps
<1>1. /\ \A c : Pending(D, c)' = Pending(D, c)
      /\ FindSharedStates' = FindSharedStates /\ Steps' = Steps
      /\ FENCE_list' = FENCE_list /\ RMW_list' = RMW_list
  BY <1>0, SameSets, SameProgram
<1>2. \A n, y : SharedGood(D, x, n, y)' <=> SharedGood(D, x, n, y)
  BY <1>0, SameShared
<1>3. CASE x \in Steps /\ x[1] = "inst" /\ x # Final
  <2> DEFINE c == x[2]
             k == x[3]
  <2>1. c \in Cores /\ k \in 1..Len(prog.ila[c].tmpl) /\ x = Step(c, k)
    BY <1>3, StepShape
  <2>2. ASSUME prog.ila[c].ordered, NEW q \in 1..(k - 1) PROVE Step(c, q) \in D
    <3>1. q \in 1..Len(prog.ila[c].tmpl) /\ q # k
      BY <1>0, <2>1
    <3>2. Step(c, q) # x
      BY <2>1, <3>1, StepIn
    <3>3. Step(c, q) \in D \cup {x}
      BY <2>1, <2>2 DEF Closed
    <3> QED BY <3>2, <3>3
  <2>3. \A n, y : LocalGood(D, x, c, k, n, y)' <=> LocalGood(D, x, c, k, n, y)
    BY <1>0, <2>1, <2>2, SameLocal
  <2>4. InstGood(D, x, v)' <=> InstGood(D, x, v)
    BY <1>1, <1>2, <2>3 DEF InstGood
  <2> QED BY <1>3, <2>4 DEF GoodAt
<1>4. CASE /\ x[1] = "wfe" /\ prog.mm = "tso" /\ x # Final
           /\ \E s \in RegisterSteps : x = Facet(s) /\ Step(x[2], x[3]) = s
  <2>1. PICK s \in RegisterSteps : x = Facet(s) /\ Step(x[2], x[3]) = s
    BY <1>4
  <2>2. s \in Steps /\ s[2] \in Cores
    BY Lists, StepShape
  <2>3. s \in DOMAIN ts
    <3>1. s \in D \cup {x}
      BY <2>1 DEF Closed
    <3> QED BY <2>1, <2>2, <3>1, FacetApart
  <2>4. \A w \in Pending(D, s[2]) : ts'[w] = ts[w]
    BY <1>0, <2>2, Issued DEF Keeps
  <2>5. ts'[s] = ts[s]
    BY <2>3 DEF Keeps
  <2>6. FacetGood(D, s, t)' <=> FacetGood(D, s, t)
    BY <1>1, <2>4, <2>5 DEF FacetGood
  <2> QED BY <1>4, <2>1, <2>6 DEF GoodAt
<1>5. CASE x = Final /\ x[1] = "final"
  <2>1. ASSUME NEW n \in DOMAIN v, n[2] \notin FindSharedStates, Steps \subseteq D
        PROVE  \A y : LET p == Len(prog.ila[n[1]].tmpl) + 1 IN
                 LocalGood(D, x, n[1], p, n[2], y)' <=> LocalGood(D, x, n[1], p, n[2], y)
    <3> DEFINE c == n[1]
               p == Len(prog.ila[c].tmpl) + 1
    <3>1. c \in Cores
      BY <1>5, <2>1, FinalNames
    <3>2. p \in 1..(Len(prog.ila[c].tmpl) + 1)
      BY <1>0, <3>1
    <3>3. \A q \in 1..(p - 1) : Step(c, q) \in D
      BY <1>0, <2>1, <3>1, StepIn
    <3>4. PICK k : k = p
      OBVIOUS
    <3>5. \A y : LocalGood(D, x, c, k, n[2], y)' <=> LocalGood(D, x, c, k, n[2], y)
      BY <1>0, <3>1, <3>2, <3>3, <3>4, SameLocal
    <3> QED BY <1>0, <3>4, <3>5 DEF LocalGood
  <2>2. FinalGood(D, v)' <=> FinalGood(D, v)
    BY <1>0, <1>1, <1>2, <1>5, <2>1 DEF FinalGood
  <2> QED BY <1>5, <2>2 DEF GoodAt
<1> QED BY <1>3, <1>4, <1>5, EventKinds

----------------------------------------------------------------------------
(* Some placed event is the last one, and the next one is not before it.   *)
Latest == DOMAIN ts # {} => \E x \in DOMAIN ts : \A y \in DOMAIN ts : ts[y] <= ts[x]

LEMMA NowIsLast ==
  ASSUME TimeInv, Latest
  PROVE  Now \in Nat /\ \A y \in DOMAIN ts : ts[y] <= Now
<1>1. CASE DOMAIN ts = {}
  BY <1>1 DEF Now
<1>2. CASE DOMAIN ts # {}
  <2> DEFINE T == {ts[e] : e \in DOMAIN ts}
  <2>1. PICK x \in DOMAIN ts : \A y \in DOMAIN ts : ts[y] <= ts[x]
    BY <1>2 DEF Latest
  <2>2. \E t \in T : \A o \in DOMAIN ts : ts[o] <= t
    BY <2>1
  <2>3. Now = CHOOSE t \in T : \A o \in DOMAIN ts : ts[o] <= t
    BY <1>2 DEF Now
  <2>4. Now \in T /\ \A o \in DOMAIN ts : ts[o] <= Now
    <3> HIDE DEF T
    <3> QED BY <2>2, <2>3
  <2>5. \A t \in T : t \in Nat
    BY DEF TimeInv
  <2> QED BY <2>4, <2>5
<1> QED BY <1>1, <1>2

(* The search places a facet after its store and keeps program order.      *)
LEMMA ClosedBy ==
  ASSUME prog \in Programs, TimeInv, NEW m, NEW e \in Events, NEW t, NEW v,
         \/ MachInv(DOMAIN ts, m) /\ MachAllows(m, e, t, v)
         \/ PrefixOk(e, t, v)
  PROVE  Closed(DOMAIN ts \cup {e})
<1> DEFINE D == DOMAIN ts
<1>0. /\ Closed(D) /\ prog.mm \in {"sc", "tso"}
      /\ \A c \in Cores : Len(prog.ila[c].tmpl) \in Nat
  BY ProgramType DEF TimeInv
<1>1. CASE e \in Steps /\ e[1] = "inst" /\ e # Final
  <2> DEFINE c == e[2]
             k == e[3]
  <2>1. c \in Cores /\ k \in 1..Len(prog.ila[c].tmpl) /\ e = Step(c, k)
    BY <1>1, StepShape
  <2>2. ASSUME prog.ila[c].ordered, NEW q \in 1..(k - 1) PROVE Step(c, q) \in D
    <3>1. CASE MachInv(D, m) /\ MachAllows(m, e, t, v)
      BY <1>1, <2>2, <3>1 DEF MachInv, MachAllows
    <3>2. CASE PrefixOk(e, t, v)
      <4>1. k > 1 /\ Step(c, k - 1) \in D
        BY <1>0, <1>1, <2>1, <2>2, <3>2 DEF PrefixOk
      <4>2. q = k - 1 \/ q \in 1..((k - 1) - 1)
        BY <1>0, <2>1, <2>2
      <4>3. k - 1 \in 1..Len(prog.ila[c].tmpl)
        <5>1. Len(prog.ila[c].tmpl) \in Nat /\ k \in 1..Len(prog.ila[c].tmpl) /\ k > 1
          BY <1>0, <2>1, <4>1
        <5> HIDE DEF k, c
        <5> QED BY <5>1
      <4> QED BY <1>0, <2>1, <2>2, <4>1, <4>2, <4>3 DEF Closed
    <3> QED BY <3>1, <3>2
  <2>3. \A s \in RegisterSteps : Facet(s) # e
    BY <1>1, FacetShape
  <2>4. ASSUME NEW d \in Cores, prog.ila[d].ordered, NEW p \in 1..Len(prog.ila[d].tmpl),
               NEW q \in 1..(p - 1), Step(d, p) \in D \cup {e}
        PROVE  Step(d, q) \in D
    <3>1. CASE Step(d, p) \in D
      BY <1>0, <2>4, <3>1 DEF Closed
    <3>2. CASE Step(d, p) = e
      <4>1. d = c /\ p = k
        BY <2>1, <2>4, <3>2, StepIn
      <4> QED BY <2>2, <2>4, <4>1
    <3> QED BY <2>4, <3>1, <3>2
  <2> QED BY <1>0, <2>3, <2>4 DEF Closed
<1>2. CASE /\ e[1] = "wfe" /\ prog.mm = "tso" /\ e # Final
           /\ \E s \in RegisterSteps : e = Facet(s) /\ Step(e[2], e[3]) = s
  <2>1. PICK s \in RegisterSteps : e = Facet(s) /\ Step(e[2], e[3]) = s
    BY <1>2
  <2>2. s \in Steps /\ s[2] \in Cores /\ e[2] = s[2]
    BY <2>1, Lists, StepShape, FacetShape
  <2>3. s \in D
    <3>1. CASE PrefixOk(e, t, v)
      BY <1>2, <2>1, <3>1 DEF PrefixOk
    <3>2. CASE MachInv(D, m) /\ MachAllows(m, e, t, v)
      <4>1. IF s \in RMW_list THEN s \in D
            ELSE m.buf[s[2]] # <<>> /\ m.buf[s[2]][1].e = s
        BY <1>2, <2>1, <2>2, <3>2 DEF MachAllows
      <4>2. BufInv(D, s[2], m.buf[s[2]])
        BY <2>2, <3>2 DEF MachInv
      <4>3. s \notin RMW_list => s \in Pending(D, s[2])
        BY <4>1, <4>2, Oldest
      <4> QED BY <1>0, <2>2, <4>1, <4>3, Issued
    <3> QED BY <3>1, <3>2
  <2>4. \A r \in RegisterSteps : Facet(r) = e => r = s
    BY <2>1, <2>2, Lists, FacetApart
  <2>5. \A d \in Cores : \A p \in 1..Len(prog.ila[d].tmpl) : Step(d, p) # e
    BY <1>2, StepIn
  <2> QED BY <1>0, <2>3, <2>4, <2>5 DEF Closed
<1>3. CASE e = Final /\ e[1] = "final"
  <2>1. \A s \in RegisterSteps : Facet(s) # e
    BY <1>3, FacetShape
  <2>2. \A d \in Cores : \A p \in 1..Len(prog.ila[d].tmpl) : Step(d, p) # e
    BY <1>3, StepIn
  <2> QED BY <1>0, <2>1, <2>2 DEF Closed
<1> QED BY <1>1, <1>2, <1>3, EventKinds

(* What a placed event leaves in the assignment.                           *)
LEMMA Placed ==
  ASSUME Linked, TimeInv, Latest, agree => MachInv(DOMAIN ts, mach),
         NEW e \in Events, Place(e)
  PROVE  /\ Grows(e) /\ Keeps /\ phase = "search" /\ phase' = phase
         /\ ts' = With(ts, e, ts'[e]) /\ DOMAIN val' = DOMAIN val \cup {e}
         /\ ts'[e] \in Nat \ {0} /\ \A y \in DOMAIN ts : ts[y] <= ts'[e]
         /\ DOMAIN val'[e] = Mentioned(e)
         /\ Closed(DOMAIN ts \cup {e})
         /\ agree' <=> agree /\ MachAllows(mach, e, ts'[e], val'[e])
         /\ agree' => mach' = MachNext(mach, e, val'[e])
<1>1. PICK t \in {Now, Now + 1} \ {0}, v \in [Mentioned(e) -> Value] :
        /\ (agree /\ MachAllows(mach, e, t, v)) \/ PrefixOk(e, t, v)
        /\ ts' = With(ts, e, t) /\ val' = With(val, e, v)
        /\ agree' = (agree /\ MachAllows(mach, e, t, v))
        /\ mach' = IF agree /\ MachAllows(mach, e, t, v) THEN MachNext(mach, e, v) ELSE NoMach
  BY DEF Place
<1>2. /\ phase = "search" /\ phase' = phase /\ e \in Events \ DOMAIN ts
      /\ prog' = prog /\ query' = query /\ READ_list' = READ_list /\ read_set' = read_set
  BY DEF Place
<1>3. e # Init0
  BY EventKinds, OtherShape, StepShape, FacetShape
<1>4. /\ DOMAIN ts' = DOMAIN ts \cup {e} /\ ts'[e] = t /\ \A x \in DOMAIN ts : ts'[x] = ts[x]
      /\ DOMAIN val' = DOMAIN val \cup {e} /\ val'[e] = v
      /\ \A x \in DOMAIN val \ {e} : val'[x] = val[x]
  BY <1>1, <1>2 DEF With
<1>5. Grows(e) /\ Keeps
  BY <1>2, <1>3, <1>4 DEF Grows, Keeps, TimeInv
<1>6. t \in Nat \ {0} /\ \A y \in DOMAIN ts : ts[y] <= t
  BY <1>1, NowIsLast DEF TimeInv
<1>7. Closed(DOMAIN ts \cup {e})
  <2>1. (MachInv(DOMAIN ts, mach) /\ MachAllows(mach, e, t, v)) \/ PrefixOk(e, t, v)
    BY <1>1
  <2> QED BY <2>1, ClosedBy DEF Linked
<1>8. /\ agree' <=> agree /\ MachAllows(mach, e, t, v)
      /\ agree' => mach' = MachNext(mach, e, v)
  BY <1>1
<1> QED BY <1>1, <1>2, <1>4, <1>5, <1>6, <1>7, <1>8


(* One more event leaves the events, the variables they mention and what   *)
(* the machine does with an event as they were.                            *)
LEMMA SameEvents ==
  ASSUME Keeps
  PROVE  Events' = Events /\ \A x : Mentioned(x)' = Mentioned(x)
<1>1. /\ prog' = prog /\ query' = query /\ READ_list' = READ_list /\ read_set' = read_set
  BY DEF Keeps
<1>2. /\ Steps' = Steps /\ RegisterSteps' = RegisterSteps /\ FindSharedStates' = FindSharedStates
      /\ \A c : private(c)' = private(c)
      /\ \A w : Instr(w)' = Instr(w)
  BY <1>1, SameProgram
<1>3. Finals' = Finals
  BY <1>1 DEF Finals
<1>4. \A a : FinalName(a)' = FinalName(a)
  BY <1>1, <1>2 DEF FinalName, Global
<1>5. Events' = Events
  BY <1>1, <1>2, <1>3 DEF Events, Facet, Final
<1>6. \A x : Mentioned(x)' = Mentioned(x)
  BY <1>1, <1>2, <1>3, <1>4 DEF Mentioned, Final, Global
<1> QED BY <1>5, <1>6

LEMMA SameMachine ==
  ASSUME NEW e \in Events, Grows(e), Closed(DOMAIN ts \cup {e}), NEW m, NEW t, NEW v
  PROVE  /\ MachAllows(m, e, t, v)' <=> MachAllows(m, e, t, v)
         /\ MachNext(m, e, v)' = MachNext(m, e, v)
<1>1. prog' = prog /\ query' = query /\ DOMAIN ts' = DOMAIN ts \cup {e}
      /\ \A x \in DOMAIN ts : ts'[x] = ts[x]
  BY DEF Grows, Keeps
<1>2. /\ Steps' = Steps /\ FindSharedStates' = FindSharedStates
      /\ RMW_list' = RMW_list /\ FENCE_list' = FENCE_list
      /\ \A w : Instr(w)' = Instr(w) /\ Writes(w)' = Writes(w)
  BY <1>1, SameProgram
<1>3. \A c, n : MachRead(m, c, n)' = MachRead(m, c, n)
  BY <1>2 DEF MachRead
<1>4. MachStep(m, e, v)' = MachStep(m, e, v)
  <2> DEFINE on(i) == \A a \in i.decode : v[a.n] = a.v
             of(i, max, n) == LET x == i.update[n] IN
                                CASE x.k = "const" -> x.v
                                  [] x.k = "var"   -> v[x.n]
                                  [] x.k = "inc"   -> (v[x.n] + 1) % (max + 1)
             stores(i, max, W) == [n \in (IF on(i) THEN W ELSE {}) |-> of(i, max, n)]
             after(i, max, W, direct) ==
               [mem |-> IF direct THEN [n \in DOMAIN m.mem |->
                          IF n \in DOMAIN stores(i, max, W) THEN stores(i, max, W)[n] ELSE m.mem[n]]
                        ELSE m.mem,
                reg |-> [m.reg EXCEPT ![e[2]] = [n \in DOMAIN @ |->
                          IF on(i) /\ n \in DOMAIN i.update THEN of(i, max, n) ELSE @[n]]],
                buf |-> IF direct \/ W = {} THEN m.buf
                        ELSE [m.buf EXCEPT ![e[2]] = Append(@, [e |-> e, w |-> stores(i, max, W)])],
                done |-> m.done \cup {e}]
  <2>1. MachStep(m, e, v) = after(Instr(e), prog.max, Writes(e), prog.mm = "sc" \/ e \in RMW_list)
    BY DEF MachStep
  <2>2. MachStep(m, e, v)' =
          after(Instr(e)', prog'.max, Writes(e)', prog'.mm = "sc" \/ e \in RMW_list')
    BY DEF MachStep
  <2> HIDE DEF after
  <2> QED BY <1>1, <1>2, <2>1, <2>2
<1>5. MachNext(m, e, v)' = MachNext(m, e, v)
  BY <1>2, <1>4 DEF MachNext, Step, Final
<1>6. ASSUME e[1] = "wfe"
      PROVE  LET s == Step(e[2], e[3]) IN
             s \in DOMAIN ts' /\ ts'[s] = t <=> s \in DOMAIN ts /\ ts[s] = t
  <2>1. PICK s \in RegisterSteps : e = Facet(s) /\ Step(e[2], e[3]) = s
    BY <1>6, EventKinds, OtherShape
  <2>2. s # e
    BY <2>1, FacetApart, Lists
  <2> QED BY <1>1, <2>1, <2>2
<1>7. MachAllows(m, e, t, v)' <=> MachAllows(m, e, t, v)
  <2>1. CASE e[1] = "inst"
    BY <1>1, <1>2, <1>3, <2>1 DEF MachAllows, Step
  <2>2. CASE e[1] = "wfe"
    BY <1>1, <1>2, <1>6, <2>2 DEF MachAllows, Step
  <2>3. CASE e = Final
    BY <1>1, <1>2, <2>3, OtherShape DEF MachAllows, Final
  <2> QED BY <2>1, <2>2, <2>3, EventKinds
<1> QED BY <1>5, <1>7

LEMMA PlaceTimes ==
  ASSUME Linked, TimeInv, Latest, agree => MachInv(DOMAIN ts, mach),
         NEW e \in Events, Place(e), NEW D, D = DOMAIN ts
  PROVE  TimeInv' /\ Latest' /\ Linked' /\ Cut(D, e)'
<1>1. /\ Grows(e) /\ Keeps /\ ts' = With(ts, e, ts'[e]) /\ DOMAIN val' = DOMAIN val \cup {e}
      /\ ts'[e] \in Nat \ {0} /\ \A y \in DOMAIN ts : ts[y] <= ts'[e]
      /\ DOMAIN val'[e] = Mentioned(e)
      /\ Closed(D \cup {e})
  BY Placed
<1>2. /\ prog' = prog /\ query' = query /\ READ_list' = READ_list /\ read_set' = read_set
      /\ e \notin D /\ DOMAIN ts' = D \cup {e}
      /\ \A x \in D : ts'[x] = ts[x]
      /\ \A x \in D : val'[x] = val[x]
  BY <1>1 DEF Grows, Keeps
<1>3. Events' = Events /\ \A x : Mentioned(x)' = Mentioned(x)
  BY <1>1, SameEvents
<1>4. Closed(D)' /\ Closed(D \cup {e})'
  BY <1>1, <1>2, SameSets DEF TimeInv
<1>5. Closed(DOMAIN ts)'
  BY <1>2, <1>4
<1>6. /\ \A x \in D : ts[x] \in Nat \ {0}
      /\ D \subseteq Events /\ DOMAIN val = D \cup {Init0}
      /\ \A x \in D : DOMAIN val[x] = Mentioned(x)
  BY DEF TimeInv
<1>7. ts' \in [DOMAIN ts' -> Nat \ {0}]
  <2>1. ts' = [x \in DOMAIN ts' |-> ts'[x]]
    BY <1>1 DEF With
  <2>2. \A x \in DOMAIN ts' : ts'[x] \in Nat \ {0}
    BY <1>1, <1>2, <1>6
  <2> QED BY <2>1, <2>2
<1>8. \A x \in DOMAIN ts' : DOMAIN val'[x] = Mentioned(x)'
  BY <1>1, <1>2, <1>3, <1>6
<1>9. TimeInv'
  BY <1>1, <1>2, <1>3, <1>5, <1>6, <1>7, <1>8 DEF TimeInv, Init0
<1>10. Latest'
  <2>1. \A y \in DOMAIN ts' : ts'[y] <= ts'[e]
    BY <1>1, <1>2
  <2> QED BY <1>2, <2>1 DEF Latest
<1>11. Linked'
  <2>1. /\ Steps' = Steps /\ FindSharedStates' = FindSharedStates
        /\ \A s : Instr(s)' = Instr(s)
    BY <1>2, SameProgram
  <2> QED BY <1>2, <2>1 DEF Linked
<1>12. Cut(D, e)'
  BY <1>1, <1>2, <1>4 DEF Cut
<1> QED BY <1>9, <1>10, <1>11, <1>12

LEMMA TakesNext == MachKept'
BY Takes, PTL

(* As long as the machine agrees it is where the events put it.            *)
LEMMA PlaceMach ==
  ASSUME Linked, TimeInv, Latest, agree => MachInv(DOMAIN ts, mach),
         NEW e \in Events, Place(e), agree'
  PROVE  MachInv(DOMAIN ts, mach)'
<1>1. PICK D : D = DOMAIN ts
  OBVIOUS
<1>2. PICK m : m = mach
  OBVIOUS
<1>3. PICK v : v = val'[e]
  OBVIOUS
<1>4. PICK t : t = ts'[e]
  OBVIOUS
<1>5. /\ Grows(e) /\ Keeps /\ Closed(D \cup {e})
      /\ agree /\ MachAllows(m, e, t, v) /\ mach' = MachNext(m, e, v)
  BY <1>1, <1>2, <1>3, <1>4, Placed
<1>6. TimeInv' /\ Linked' /\ Cut(D, e)'
  BY <1>1, PlaceTimes
<1>7. MachInv(D, m)'
  <2>1. MachInv(D, m) /\ Closed(D) /\ prog \in Programs
    BY <1>1, <1>2, <1>5 DEF TimeInv, Linked
  <2> QED BY <1>1, <1>5, <2>1, SameMach
<1>8. MachAllows(m, e, t, v)' /\ MachNext(m, e, v)' = MachNext(m, e, v)
  BY <1>1, <1>5, SameMachine
<1>9. MachAllows(m, e, ts[e], val[e])' /\ MachNext(m, e, val[e])' = mach'
  <2>1. MachAllows(m, e, ts[e], val[e])'
    BY <1>3, <1>4, <1>8
  <2>2. MachNext(m, e, val[e])' = MachNext(m, e, v)'
    BY <1>3
  <2> QED BY <1>5, <1>8, <2>1, <2>2
<1>10. prog' \in Programs
  BY <1>6 DEF Linked
<1>11. MachInv(D \cup {e}, MachNext(m, e, val[e]))'
  BY <1>6, <1>7, <1>9, <1>10, TakesNext DEF MachKept
<1>12. DOMAIN ts' = D \cup {e}
  BY <1>1, <1>5 DEF Grows, Keeps
<1> QED BY <1>9, <1>11, <1>12


(* The events before, and the new one, are judged in the new assignment as *)
(* they were in the old one.                                               *)
LEMMA OldGood ==
  ASSUME Linked, TimeInv, NEW e, Grows(e), \A y \in DOMAIN ts : ts[y] <= ts'[e],
         NEW D, NEW x, Cut(D, x)
  PROVE  D \in SUBSET DOMAIN ts' /\ x \in DOMAIN ts' /\ Cut(D, x)' /\ (Good(D, x)' <=> Good(D, x))
<1>1. /\ x \in DOMAIN ts /\ D \in SUBSET DOMAIN ts /\ Closed(D) /\ Closed(D \cup {x}) /\ x \notin D
      /\ x \in Events /\ DOMAIN val[x] = Mentioned(x)
  BY DEF Cut, TimeInv
<1>2. /\ ts'[x] = ts[x] /\ val'[x] = val[x] /\ DOMAIN ts \subseteq DOMAIN ts' /\ Keeps
  BY <1>1 DEF Grows, Keeps
<1>3. PICK t : t = ts[x]
  OBVIOUS
<1>4. PICK v : v = val[x]
  OBVIOUS
<1>5. GoodAt(D, x, t, v)' <=> GoodAt(D, x, t, v)
  BY <1>1, <1>2, <1>4, SameGood
<1>6. Good(D, x) <=> GoodAt(D, x, t, v)
  BY <1>3, <1>4 DEF Good
<1>7. Good(D, x)' <=> GoodAt(D, x, t, v)'
  BY <1>2, <1>3, <1>4 DEF Good
<1>8. Cut(D, x)'
  BY SameCut
<1> QED BY <1>1, <1>2, <1>5, <1>6, <1>7, <1>8

LEMMA NewGood ==
  ASSUME Linked, TimeInv, Latest, agree => MachInv(DOMAIN ts, mach),
         NEW e \in Events, Place(e), agree, NEW D, D = DOMAIN ts
  PROVE  /\ ~agree' => ~Good(D, e)'
         /\ agree' /\ Apart => Good(D, e)'
<1>1. PICK v : v = val'[e]
  OBVIOUS
<1>2. PICK t : t = ts'[e]
  OBVIOUS
<1>3. /\ Grows(e) /\ Keeps /\ Closed(D \cup {e}) /\ DOMAIN v = Mentioned(e)
      /\ agree' <=> MachAllows(mach, e, t, v)
  BY <1>1, <1>2, Placed
<1>4. e \notin D /\ Closed(D) /\ D \in SUBSET DOMAIN ts
  BY <1>3 DEF Grows, Keeps, TimeInv
<1>5. GoodAt(D, e, t, v)' <=> GoodAt(D, e, t, v)
  BY <1>3, <1>4, SameGood
<1>6. Good(D, e)' <=> GoodAt(D, e, t, v)'
  BY <1>1, <1>2 DEF Good
<1>7. /\ GoodAt(DOMAIN ts, e, t, v) => MachAllows(mach, e, t, v)
      /\ Apart /\ MachAllows(mach, e, t, v) => GoodAt(DOMAIN ts, e, t, v)
  BY <1>3, <1>4, Allowed
<1> QED BY <1>3, <1>5, <1>6, <1>7

(* While the machine agrees every event is good; when it does not, some    *)
(* event is not.                                                           *)
History ==
  agree /\ Apart => \A e \in DOMAIN ts : \E D \in SUBSET DOMAIN ts : Cut(D, e) /\ Good(D, e)

Parted == ~agree => \E e \in DOMAIN ts : \E D \in SUBSET DOMAIN ts : Cut(D, e) /\ ~Good(D, e)

LEMMA PlaceHistory ==
  ASSUME Linked, TimeInv, Latest, agree => MachInv(DOMAIN ts, mach), History, Parted,
         NEW e \in Events, Place(e)
  PROVE  History' /\ Parted'
<1>1. PICK D0 : D0 = DOMAIN ts
  OBVIOUS
<1>2. Grows(e) /\ Keeps /\ (agree' => agree) /\ \A y \in DOMAIN ts : ts[y] <= ts'[e]
  BY Placed
<1>3. DOMAIN ts' = DOMAIN ts \cup {e} /\ D0 \in SUBSET DOMAIN ts' /\ e \in DOMAIN ts'
  BY <1>1, <1>2 DEF Grows, Keeps
<1>4. Cut(D0, e)'
  BY <1>1, PlaceTimes
<1>5. ASSUME agree', Apart' PROVE \A x \in DOMAIN ts' : \E D \in SUBSET DOMAIN ts' : Cut(D, x)' /\ Good(D, x)'
  <2>1. Apart
    <3>1. RMW_list' = RMW_list
      BY <1>2, SameProgram DEF Grows, Keeps
    <3> QED BY <1>2, <1>3, <1>5, <3>1 DEF Apart, Grows, Keeps, Facet
  <2>2. ASSUME NEW x \in DOMAIN ts PROVE \E D \in SUBSET DOMAIN ts' : Cut(D, x)' /\ Good(D, x)'
    <3>1. PICK D \in SUBSET DOMAIN ts : Cut(D, x) /\ Good(D, x)
      BY <1>2, <1>5, <2>1, <2>2 DEF History
    <3>2. D \in SUBSET DOMAIN ts' /\ Cut(D, x)' /\ Good(D, x)'
      BY <1>2, <3>1, OldGood
    <3> QED BY <3>2
  <2>3. Good(D0, e)'
    BY <1>1, <1>2, <1>5, <2>1, NewGood
  <2> QED BY <1>3, <1>4, <2>2, <2>3
<1>6. ASSUME ~agree'
      PROVE  \E x \in DOMAIN ts' : \E D \in SUBSET DOMAIN ts' : Cut(D, x)' /\ ~Good(D, x)'
  <2>1. CASE agree
    <3>1. ~Good(D0, e)'
      BY <1>1, <1>6, <2>1, NewGood
    <3> QED BY <1>3, <1>4, <3>1
  <2>2. CASE ~agree
    <3>1. PICK x \in DOMAIN ts : \E D \in SUBSET DOMAIN ts : Cut(D, x) /\ ~Good(D, x)
      BY <2>2 DEF Parted
    <3>2. PICK D \in SUBSET DOMAIN ts : Cut(D, x) /\ ~Good(D, x)
      BY <3>1
    <3>3. x \in DOMAIN ts' /\ D \in SUBSET DOMAIN ts' /\ Cut(D, x)' /\ ~Good(D, x)'
      BY <1>2, <3>2, OldGood
    <3> QED BY <3>3
  <2> QED BY <2>1, <2>2
<1> QED BY <1>5, <1>6 DEF History, Parted

----------------------------------------------------------------------------
(* The invariant of the unroller and its search.                           *)
Started == \A co \in Cores : \A a \in prog.ila[co].init : Var0(co, a.n) = a.v

Searched ==
  /\ TimeInv /\ Latest /\ Started
  /\ agree => MachInv(DOMAIN ts, mach)
  /\ History /\ Parted

RunInv ==
  /\ prog \in Programs
  /\ phase \in {"new", "init"} => query.final = {}
  /\ phase \notin {"new", "init"} => Linked
  /\ phase # "search" => ts = <<>> /\ agree
  /\ phase = "search" => Searched

(* The calls of the client leave the lists as LinkStates expects them.     *)
LEMMA ClientSteps ==
  ASSUME ListInv, RunInv,
         \/ GenSysInitConstraints \/ Unroll \/ Push \/ LinkStates \/ Pop
         \/ \E a \in prog.singles : AddSingleTraceStepProperty(a)
         \/ \E a \in prog.finals : SetFinalProperty(a)
  PROVE  RunInv'
<1>1. /\ prog' = prog /\ ts' = ts /\ agree' = agree /\ phase # "search" /\ phase' # "search"
  BY DEF GenSysInitConstraints, Unroll, Push, LinkStates, Pop, AddSingleTraceStepProperty,
         SetFinalProperty, Idle
<1>2. /\ Steps' = Steps /\ FindSharedStates' = FindSharedStates
      /\ \A e : Instr(e)' = Instr(e)
  BY <1>1, SameProgram
<1>3. prog \in Programs /\ (phase \notin {"new", "init"} => Linked)
  BY DEF RunInv
<1>4. SUFFICES /\ phase' \in {"new", "init"} => query'.final = {}
               /\ phase' \notin {"new", "init"} => Linked'
  BY <1>1 DEF RunInv
<1>5. CASE GenSysInitConstraints
  BY <1>5 DEF GenSysInitConstraints, RunInv
<1>6. CASE Unroll
  <2>1. /\ phase = "init" /\ query' = query /\ phase' = "ready"
        /\ read_set' = [e \in Steps |-> Traverse(Instr(e))]
        /\ READ_list' \subseteq Steps
    BY <1>6 DEF Unroll
  <2>2. query'.final = {}
    BY <2>1 DEF RunInv
  <2>3. \A e \in Steps : Traverse(Instr(e)) \subseteq prog.ila[e[2]].states
    BY <1>3, ProgramType DEF InstrTypes
  <2> QED BY <1>1, <1>2, <1>3, <2>1, <2>2, <2>3 DEF Linked
<1>7. CASE Push \/ Pop
  <2>1. /\ phase \notin {"new", "init"} /\ query'.final = {} /\ phase' \notin {"new", "init"}
        /\ READ_list' = READ_list /\ read_set' = read_set
    BY <1>7 DEF Push, Pop, NoQuery
  <2> QED BY <1>1, <1>2, <1>3, <2>1 DEF Linked
<1>8. CASE LinkStates
  <2>1. /\ phase \notin {"new", "init"} /\ query' = query /\ phase' \notin {"new", "init"}
        /\ READ_list' = READ_list /\ read_set' = read_set
    BY <1>8 DEF LinkStates
  <2> QED BY <1>1, <1>2, <1>3, <2>1 DEF Linked
<1>9. ASSUME NEW a \in prog.singles, AddSingleTraceStepProperty(a)
      PROVE  phase' \notin {"new", "init"} /\ Linked'
  <2>1. /\ phase = "asking" /\ phase' = phase /\ READ_list' = READ_list
        /\ read_set' = [read_set EXCEPT ![Step(a.c, a.p)] = @ \cup {a.n}]
        /\ query' = [query EXCEPT !.singles = {a}]
    BY <1>9 DEF AddSingleTraceStepProperty
  <2>2. query'.final = query.final
    BY <2>1 DEF ListInv, ListTyped
  <2>3. /\ a.c \in Cores /\ a.p \in 1..Len(prog.ila[a.c].tmpl) /\ a.n \in prog.ila[a.c].states
    BY <1>3, <1>9, ProgramType
  <2>4. Step(a.c, a.p) \in Steps /\ Step(a.c, a.p)[2] = a.c
    BY <2>3, StepIn
  <2>5. Linked
    BY <1>3, <2>1
  <2>6. /\ DOMAIN read_set' = Steps
        /\ \A e \in Steps : /\ read_set'[e] \subseteq prog.ila[e[2]].states
                           /\ Traverse(Instr(e)) \subseteq read_set'[e]
    BY <2>1, <2>3, <2>4, <2>5 DEF Linked
  <2> QED BY <1>1, <1>2, <2>1, <2>2, <2>5, <2>6 DEF Linked
<1>10. ASSUME NEW a \in prog.finals, SetFinalProperty(a)
       PROVE  phase' \notin {"new", "init"} /\ Linked'
  <2>1. /\ phase = "asking" /\ phase' = phase /\ read_set' = read_set
        /\ READ_list' = READ_list \cup (IF a.n \in FindSharedStates THEN {<<"final", a>>} ELSE {})
        /\ query' = [query EXCEPT !.final = {a}]
    BY <1>10 DEF SetFinalProperty
  <2>2. query'.final = {a}
    BY <2>1 DEF ListInv, ListTyped
  <2>3. Linked
    BY <1>3, <2>1
  <2> QED BY <1>1, <1>2, <2>1, <2>2, <2>3 DEF Linked
<1> QED BY <1>5, <1>6, <1>7, <1>8, <1>9, <1>10

LEMMA StartsNext == FreshStarts'
BY Starts, PTL

(* CheckSat starts the search and the machine on the same values.          *)
LEMMA StartStep == ASSUME RunInv, CheckSat PROVE RunInv'
<1>1. PICK v : /\ val' = [e \in {Init0} |-> v]
               /\ mach' = [mem |-> [n \in FindSharedStates |-> v[Global(n)]],
                           reg |-> [c \in Cores |-> [n \in private(c) |-> v[<<c, n>>]]],
                           buf |-> [c \in Cores |-> <<>>],
                           done |-> {}]
               /\ \A c \in Cores : \A a \in prog.ila[c].init :
                    v[IF a.n \in FindSharedStates THEN Global(a.n) ELSE <<c, a.n>>] = a.v
  BY DEF CheckSat
<1>2. /\ prog' = prog /\ READ_list' = READ_list /\ read_set' = read_set /\ query' = query
      /\ ts' = ts /\ agree' = agree /\ phase = "linked" /\ phase' = "search"
  BY DEF CheckSat
<1>3. ts' = <<>> /\ agree /\ Linked /\ prog \in Programs
  BY <1>2 DEF RunInv
<1>4. /\ Cores' = Cores /\ Steps' = Steps /\ FindSharedStates' = FindSharedStates
      /\ \A c : private(c)' = private(c)
      /\ \A s : Instr(s)' = Instr(s)
  BY <1>2, SameProgram
<1>5. DOMAIN ts' = {} /\ ts' \in [{} -> Nat \ {0}]
  BY <1>3
<1>6. Linked'
  BY <1>2, <1>3, <1>4 DEF Linked
<1>7. TimeInv'
  <2>1. Closed({})'
    BY DEF Closed
  <2>2. Closed(DOMAIN ts)'
    BY <1>5, <2>1
  <2>3. DOMAIN val' = {Init0}
    BY <1>1
  <2> QED BY <1>5, <2>2, <2>3 DEF TimeInv, Init0
<1>8. Started'
  <2>1. val'[Init0] = v
    BY <1>1
  <2> QED BY <1>1, <1>2, <1>4, <2>1 DEF Started, Var0, Global, Init0
<1>9. MachInv(DOMAIN ts, mach)'
  <2>1. MachInv({}, Fresh)'
    BY <1>2, <1>3, StartsNext DEF FreshStarts
  <2>2. Fresh' = mach'
    <3>1. val'[Init0] = v
      BY <1>1
    <3> QED BY <1>1, <1>4, <3>1 DEF Fresh, Global, Init0
  <2> QED BY <1>5, <2>1, <2>2
<1>10. Latest' /\ History' /\ Parted'
  BY <1>2, <1>3, <1>5 DEF Latest, History, Parted
<1> QED BY <1>2, <1>3, <1>6, <1>7, <1>8, <1>9, <1>10 DEF RunInv, Searched

(* Every event the search places keeps the invariant.                      *)
LEMMA PlaceStep == ASSUME RunInv, NEW e \in Events, Place(e) PROVE RunInv'
<1>1. phase = "search"
  BY DEF Place
<1>2. Linked /\ TimeInv /\ Latest /\ Started /\ (agree => MachInv(DOMAIN ts, mach)) /\ History /\ Parted
  BY <1>1 DEF RunInv, Searched
<1>3. Grows(e) /\ Keeps /\ phase' = "search"
  BY <1>2, Placed
<1>4. PICK D : D = DOMAIN ts
  OBVIOUS
<1>5. TimeInv' /\ Latest' /\ Linked'
  BY <1>2, <1>4, PlaceTimes
<1>6. agree' => MachInv(DOMAIN ts, mach)'
  BY <1>2, PlaceMach
<1>7. History' /\ Parted'
  BY <1>2, PlaceHistory
<1>8. Started'
  <2>1. prog' = prog /\ val'[Init0] = val[Init0] /\ Cores' = Cores /\ FindSharedStates' = FindSharedStates
    BY <1>3, SameProgram DEF Keeps
  <2> QED BY <1>2, <2>1 DEF Started, Var0, Global, Init0
<1>9. prog' \in Programs
  BY <1>5 DEF Linked
<1> QED BY <1>3, <1>5, <1>6, <1>7, <1>8, <1>9 DEF RunInv, Searched

(* So does a step that changes nothing.                                    *)
LEMMA StutterStep == ASSUME RunInv, UNCHANGED vars PROVE RunInv'
<1>1. /\ prog' = prog /\ READ_list' = READ_list /\ read_set' = read_set /\ query' = query
      /\ ts' = ts /\ val' = val /\ mach' = mach /\ agree' = agree /\ phase' = phase
  BY DEF vars
<1>2. Keeps
  BY <1>1 DEF Keeps
<1>3. /\ Cores' = Cores /\ Steps' = Steps /\ FindSharedStates' = FindSharedStates
      /\ RMW_list' = RMW_list /\ Events' = Events /\ \A x : Mentioned(x)' = Mentioned(x)
      /\ \A s : Instr(s)' = Instr(s)
  BY <1>1, <1>2, SameProgram, SameEvents
<1>4. Linked => Linked'
  BY <1>1, <1>3 DEF Linked
<1>5. ASSUME phase = "search" PROVE Searched'
  <2>1. Linked /\ prog \in Programs /\ TimeInv /\ Latest /\ Started /\ History /\ Parted
        /\ (agree => MachInv(DOMAIN ts, mach))
    BY <1>5 DEF RunInv, Searched
  <2>2. PICK D0 : D0 = DOMAIN ts
    OBVIOUS
  <2>3. PICK m : m = mach
    OBVIOUS
  <2>4. Closed(D0) /\ Closed(D0)'
    BY <1>1, <2>1, <2>2, SameSets DEF TimeInv
  <2>5. TimeInv'
    BY <1>1, <1>3, <2>1, <2>2, <2>4 DEF TimeInv, Init0
  <2>6. Latest' /\ Started'
    BY <1>1, <1>3, <2>1 DEF Latest, Started, Var0, Global, Init0
  <2>7. agree => MachInv(D0, m)'
    BY <1>2, <2>1, <2>2, <2>3, <2>4, SameMach
  <2>8. ASSUME NEW D, NEW x, Cut(D, x) PROVE Cut(D, x)' /\ (Good(D, x)' <=> Good(D, x))
    <3>1. /\ x \in DOMAIN ts /\ D \in SUBSET DOMAIN ts /\ Closed(D) /\ Closed(D \cup {x}) /\ x \notin D
          /\ x \in Events /\ DOMAIN val[x] = Mentioned(x)
      BY <2>1, <2>8 DEF Cut, TimeInv
    <3>2. PICK t : t = ts[x]
      OBVIOUS
    <3>3. PICK v : v = val[x]
      OBVIOUS
    <3>4. GoodAt(D, x, t, v)' <=> GoodAt(D, x, t, v)
      BY <1>2, <2>1, <3>1, <3>3, SameGood
    <3>5. Good(D, x) <=> GoodAt(D, x, t, v)
      BY <3>2, <3>3 DEF Good
    <3>6. Good(D, x)' <=> GoodAt(D, x, t, v)'
      BY <1>1, <3>2, <3>3 DEF Good
    <3>7. Closed(D)' /\ Closed(D \cup {x})'
      BY <1>1, <3>1, SameSets
    <3> QED BY <1>1, <2>8, <3>4, <3>5, <3>6, <3>7 DEF Cut
  <2>9. Apart' <=> Apart
    BY <1>1, <1>3 DEF Apart, Facet
  <2>10. History'
    BY <1>1, <2>1, <2>8, <2>9 DEF History
  <2>11. Parted'
    BY <1>1, <2>1, <2>8 DEF Parted
  <2> QED BY <1>1, <2>2, <2>3, <2>5, <2>6, <2>7, <2>10, <2>11 DEF Searched
<1> QED BY <1>1, <1>4, <1>5 DEF RunInv

LEMMA RunAlways == Spec => []RunInv
<1>1. Init => RunInv
  BY DEF Init, RunInv, NoQuery
<1>2. ListInv /\ RunInv /\ [Next]_vars => RunInv'
  BY ClientSteps, StartStep, PlaceStep, StutterStep DEF Next
<1> QED BY <1>1, <1>2, ListAlways, PTL DEF Spec

(* What LinkStates found: every address when no store is nested; otherwise *)
(* all those it compares with a read r, or the address of no store of r.   *)
Dichotomy ==
  /\ NestedStores = {} => found = Compared
  /\ \A r \in READ_list : \/ \A w, v \in FinishRegisterSteps \ {r} : <<r, w, v>> \in found
                          \/ \A w : <<r, w, w>> \notin found

PeelInv == phase \in {"linked", "search"} => Dichotomy

(* The last comparison for a read and a store w is the one with w itself:  *)
(* nested_finder_ has met every store but the read by then.                *)
LEMMA LinkPeels == ASSUME LinkStates PROVE Dichotomy'
<1>1. /\ prog' = prog /\ READ_list' = READ_list /\ found' \in CheckAndPeel
  BY DEF LinkStates
<1>2. /\ NestedStores' = NestedStores /\ FinishRegisterSteps' = FinishRegisterSteps
      /\ Compared' = Compared
  <2>1. /\ FinishRegisterSteps' = FinishRegisterSteps /\ RegisterSteps' = RegisterSteps
        /\ FindSharedStates' = FindSharedStates /\ \A w : Instr(w)' = Instr(w)
    BY <1>1, SameProgram
  <2> QED BY <1>1, <2>1 DEF NestedStores, NotNested, Compared
<1>3. NestedStores = {} => found' = Compared
  BY <1>1 DEF CheckAndPeel
<1>4. ASSUME NEW r \in READ_list, NEW w, <<r, w, w>> \in found',
             NEW x \in FinishRegisterSteps \ {r}, NEW y \in FinishRegisterSteps \ {r}
      PROVE  <<r, x, y>> \in found'
  <2>1. <<r, x, y>> \in Compared
    BY DEF Compared
  <2>2. CASE found' = Compared
    BY <2>1, <2>2
  <2>3. CASE found' # Compared
    <3>1. PICK ord : found' = {t \in Compared : \A u \in Compared :
                                NoLater(ord, u, t) => u[3] \notin NestedStores}
      BY <1>1, <1>4, <2>3 DEF CheckAndPeel
    <3>2. /\ <<r, w, w>> \in Compared
          /\ \A u \in Compared : NoLater(ord, u, <<r, w, w>>) => u[3] \notin NestedStores
      BY <1>4, <3>1
    <3>3. ASSUME NEW u \in Compared, NoLater(ord, u, <<r, x, y>>) PROVE u[3] \notin NestedStores
      <4>1. ord[u[1]] < ord[r] \/ u[1] = r
        BY <3>3 DEF NoLater
      <4>2. CASE ord[u[1]] < ord[r]
        BY <3>2, <4>2 DEF NoLater
      <4>3. CASE u[1] = r
        <5>1. <<r, w, u[3]>> \in Compared
          BY <3>2, <4>3 DEF Compared
        <5>2. NoLater(ord, <<r, w, u[3]>>, <<r, w, w>>)
          BY DEF NoLater
        <5> QED BY <3>2, <5>1, <5>2
      <4> QED BY <4>1, <4>2, <4>3
    <3> QED BY <2>1, <3>1, <3>3
  <2> QED BY <2>2, <2>3
<1> QED BY <1>1, <1>2, <1>3, <1>4 DEF Dichotomy

LEMMA PeelAlways == Spec => []PeelInv
<1>1. Init => PeelInv
  BY DEF Init, PeelInv
<1>2. ASSUME PeelInv, [Next]_vars PROVE PeelInv'
  <2>1. CASE LinkStates
    BY <2>1, LinkPeels DEF PeelInv
  <2>2. CASE phase' \notin {"linked", "search"}
    BY <2>2 DEF PeelInv
  <2>3. CASE /\ prog' = prog /\ READ_list' = READ_list /\ found' = found
             /\ phase \in {"linked", "search"}
    <3>1. /\ FinishRegisterSteps' = FinishRegisterSteps /\ RegisterSteps' = RegisterSteps
          /\ FindSharedStates' = FindSharedStates /\ \A w : Instr(w)' = Instr(w)
      BY <2>3, SameProgram
    <3>2. NestedStores' = NestedStores /\ Compared' = Compared
      BY <2>3, <3>1 DEF NestedStores, NotNested, Compared
    <3> QED BY <1>2, <2>3, <3>1, <3>2 DEF PeelInv, Dichotomy
  <2>4. GenSysInitConstraints \/ Unroll \/ Push \/ Pop => phase' \notin {"linked", "search"}
    BY DEF GenSysInitConstraints, Unroll, Push, Pop
  <2>5. ASSUME NEW a, AddSingleTraceStepProperty(a) \/ SetFinalProperty(a)
        PROVE  phase' \notin {"linked", "search"}
    BY <2>5 DEF AddSingleTraceStepProperty, SetFinalProperty
  <2>6. ASSUME CheckSat \/ (\E e \in Events : Place(e))
        PROVE  /\ prog' = prog /\ READ_list' = READ_list /\ found' = found
               /\ phase \in {"linked", "search"}
    BY <2>6 DEF CheckSat, Place
  <2>7. CASE UNCHANGED vars
    <3>1. prog' = prog /\ READ_list' = READ_list /\ found' = found /\ phase' = phase
      BY <2>7 DEF vars
    <3> QED BY <2>2, <2>3, <3>1
  <2> QED BY <1>2, <2>1, <2>2, <2>3, <2>4, <2>5, <2>6, <2>7 DEF Next
<1> QED BY <1>1, <1>2, PTL DEF Spec

----------------------------------------------------------------------------
(* A complete assignment: the times of all events.                         *)
LEMMA AllTimes ==
  ASSUME prog \in Programs, TimeInv, DOMAIN ts = Events
  PROVE  /\ \A s \in Steps : s \in DOMAIN ts /\ Time(s) = ts[s] /\ ts[s] \in Nat /\ ts[s] > 0
         /\ \A w \in FinishRegisterSteps :
              /\ w \in Steps \/ w = Init0
              /\ Time(w) \in Nat /\ Time(Global0(w)) \in Nat
              /\ w # Init0 => Global0(w) \in DOMAIN ts /\ Time(Global0(w)) = ts[Global0(w)]
              /\ (prog.mm = "tso" => TSO_RMW) => Time(__wfe_global(w)) = Time(Global0(w))
<1>0. prog.mm \in {"sc", "tso"} /\ RMW_list \subseteq RegisterSteps
  BY ProgramType
<1>1. Steps \subseteq DOMAIN ts /\ (prog.mm = "tso" => \A s \in RegisterSteps : Facet(s) \in DOMAIN ts)
  BY DEF Events
<1>2. /\ Time(Init0) = 0
      /\ \A x \in DOMAIN ts : Time(x) = ts[x] /\ ts[x] \in Nat /\ ts[x] > 0 /\ x # Init0
  BY TimeOf
<1>3. ASSUME NEW w \in FinishRegisterSteps
      PROVE  /\ w \in Steps \/ w = Init0
             /\ Time(w) \in Nat /\ Time(Global0(w)) \in Nat
             /\ w # Init0 => Global0(w) \in DOMAIN ts /\ Time(Global0(w)) = ts[Global0(w)]
  <2>1. CASE w = Init0
    BY <1>2, <2>1 DEF Global0, Direct
  <2>2. CASE w # Init0
    <3>1. w \in RegisterSteps /\ w \in Steps
      BY <2>2, Lists
    <3>2. Global0(w) \in DOMAIN ts
      BY <1>0, <1>1, <3>1 DEF Global0, Direct
    <3> QED BY <1>1, <1>2, <3>1, <3>2
  <2> QED BY <2>1, <2>2
<1>4. ASSUME NEW w \in FinishRegisterSteps, prog.mm = "tso" => TSO_RMW
      PROVE  Time(__wfe_global(w)) = Time(Global0(w))
  <2>1. CASE w \in RMW_list /\ prog.mm = "tso" /\ w # Init0
    BY <1>4, <2>1 DEF TSO_RMW, Sync, __wfe_global, Global0, Direct
  <2>2. CASE ~(w \in RMW_list /\ prog.mm = "tso" /\ w # Init0)
    BY <1>0, <2>2 DEF __wfe_global, Global0, Direct
  <2> QED BY <2>1, <2>2
<1> QED BY <1>1, <1>2, <1>3, <1>4

(* When the events D have happened, the times tell which stores did.       *)
LEMMA CutTimes ==
  ASSUME prog \in Programs, TimeInv, DOMAIN ts = Events, NEW D, NEW e, Cut(D, e)
  PROVE  /\ Time(e) = ts[e] /\ ts[e] \in Nat /\ ts[e] > 0
         /\ \A s \in Steps : /\ s \in D => Time(s) <= Time(e)
                             /\ s \notin D => Time(e) <= Time(s)
         /\ \A w \in FinishRegisterSteps :
              /\ Performed(D, w) => Time(Global0(w)) <= Time(e)
              /\ ~Performed(D, w) => Time(e) <= Time(Global0(w))
<1>1. /\ e \in DOMAIN ts /\ D \subseteq DOMAIN ts
      /\ \A x \in D : ts[x] <= ts[e]
      /\ \A x \in DOMAIN ts \ D : ts[e] <= ts[x]
  BY DEF Cut
<1>2. /\ Time(Init0) = 0
      /\ \A x \in DOMAIN ts : Time(x) = ts[x] /\ ts[x] \in Nat /\ ts[x] > 0
  BY TimeOf
<1>3. \A s \in Steps : s \in DOMAIN ts
  BY AllTimes
<1>4. ASSUME NEW w \in FinishRegisterSteps
      PROVE  /\ Performed(D, w) => Time(Global0(w)) <= Time(e)
             /\ ~Performed(D, w) => Time(e) <= Time(Global0(w))
  <2>1. CASE w = Init0
    BY <1>1, <1>2, <2>1 DEF Performed, Global0, Direct
  <2>2. CASE w # Init0
    <3>1. Global0(w) \in DOMAIN ts
      BY <2>2, AllTimes
    <3>2. Performed(D, w) <=> Global0(w) \in D
      BY <2>2 DEF Performed
    <3> HIDE DEF Global0
    <3> QED BY <1>1, <1>2, <3>1, <3>2
  <2> QED BY <2>1, <2>2
<1> QED BY <1>1, <1>2, <1>3, <1>4

(* The stores an axiom compares with a read of n alone are the stores to   *)
(* n, when the comparison found their addresses.                           *)
LEMMA Touches ==
  ASSUME NEW n \in FindSharedStates, NEW r, NEW w, NEW v, <<r, w, v>> \in found
  PROVE  SameAddress(<<r, w, v>>, {n}) <=> n \in Writes(v)
<1>1. v = Init0 => n \in Writes(v)
  BY DEF Writes
<1> QED BY <1>1 DEF SameAddress

(* What the axiom says of a read r is what the event e of r sees.          *)
LEMMA SharedByAxiom ==
  ASSUME prog \in Programs, TimeInv, DOMAIN ts = Events, prog.mm = "tso" => TSO_RMW,
         NEW D, NEW e, Cut(D, e), NEW r, Time(r) = Time(e),
         \A w : SameCore(w, r) <=> SameCore(w, e),
         \A w \in FinishRegisterSteps : w = r <=> w = e,
         \A w, v \in FinishRegisterSteps \ {r} : <<r, w, v>> \in found,
         NEW n \in FindSharedStates, ReadsFrom(r, {n})
  PROVE  SharedGood(D, e, n, Var(r, n))
<1>1. PICK w \in FinishRegisterSteps \ {r} :
        /\ SameAddress(<<r, w, w>>, {n}) /\ SameData(w, r, {n}) /\ Decode(w) /\ RF(w, r)
        /\ \A w2 \in FinishRegisterSteps \ {w, r} :
             SameAddress(<<r, w, w2>>, {n}) /\ Decode(w2) => CO(w2, w) \/ FR(r, w2)
  BY DEF ReadsFrom
<1>2. \A x \in FinishRegisterSteps :
        /\ x \in Steps \/ x = Init0
        /\ Time(x) \in Nat /\ Time(Global0(x)) \in Nat
        /\ Time(__wfe_global(x)) = Time(Global0(x))
  BY AllTimes
<1>3. /\ Time(e) \in Nat
      /\ \A s \in Steps : /\ s \in D => Time(s) <= Time(e)
                          /\ s \notin D => Time(e) <= Time(s)
      /\ \A x \in FinishRegisterSteps :
           /\ Performed(D, x) => Time(Global0(x)) <= Time(e)
           /\ ~Performed(D, x) => Time(e) <= Time(Global0(x))
  BY CutTimes
<1>4. \A x, y : SameCore(x, y) => x # Init0 /\ y # Init0
  BY OtherShape DEF SameCore
<1>5. \A x, y : SameCore(x, y) <=> SameCore(y, x)
  BY DEF SameCore
<1>6. n \in Writes(w) /\ WriteData(w, n) = Var(r, n) /\ w # e
  BY <1>1, Touches DEF SameData
<1>7. Seen(D, w, e)
  <2>1. CASE SameCore(w, e)
    BY <1>1, <1>2, <1>3, <1>4, <2>1 DEF Seen, RF, HB
  <2>2. CASE ~SameCore(w, e)
    BY <1>1, <1>2, <1>3, <2>2 DEF Seen, RF, HB
  <2> QED BY <2>1, <2>2
<1>8. ASSUME NEW v \in FinishRegisterSteps \ {w, e}, Sees(D, v, e, n) PROVE Older(D, v, w)
  <2>1. n \in Writes(v) /\ Seen(D, v, e) /\ Decode(v) /\ v # r
    BY <1>8 DEF Sees
  <2>2. CO(v, w) \/ FR(r, v)
    BY <1>1, <1>8, <2>1, Touches
  <2>3. ~FR(r, v)
    <3>1. CASE SameCore(v, e)
      BY <1>2, <1>3, <1>4, <1>5, <2>1, <3>1 DEF Seen, FR, HB
    <3>2. CASE ~SameCore(v, e)
      BY <1>2, <1>3, <1>5, <2>1, <3>2 DEF Seen, FR, HB
    <3> QED BY <3>1, <3>2
  <2>4. CASE SameCore(v, w)
    BY <2>2, <2>3, <2>4 DEF CO, Older
  <2>5. CASE ~SameCore(v, w)
    <3>1. Time(Global0(v)) < Time(Global0(w))
      BY <1>2, <2>2, <2>3, <2>5 DEF CO, HB
    <3>2. Performed(D, v)
      <4>1. CASE ~SameCore(v, e)
        BY <2>1, <4>1 DEF Seen
      <4>2. CASE SameCore(v, e)
        <5>1. ~SameCore(w, e)
          BY <2>5, <4>2 DEF SameCore
        <5>2. Time(Global0(w)) < Time(e)
          BY <1>1, <1>2, <5>1 DEF RF, HB
        <5> QED BY <1>2, <1>3, <3>1, <5>2
      <4> QED BY <4>1, <4>2
    <3> QED BY <2>5, <3>1, <3>2 DEF Older, HB
  <2> QED BY <2>4, <2>5
<1> QED BY <1>1, <1>6, <1>7, <1>8 DEF SharedGood, Sees


(* The steps of an ordered template are at increasing times: a last step   *)
(* that is not before p would have a successor that is.                    *)
LEMMA InOrder ==
  ASSUME prog \in Programs, TimeInv, DOMAIN ts = Events, NEW c \in Cores, OrderedLocal(c),
         NEW p \in 1..Len(prog.ila[c].tmpl), NEW q \in 1..(p - 1)
  PROVE  Time(Step(c, q)) < Time(Step(c, p))
<1> DEFINE len == Len(prog.ila[c].tmpl)
           T(k) == Time(Step(c, k))
           S == {k \in 1..(p - 1) : T(p) <= T(k)}
<1>1. len \in Nat /\ \A k \in 1..len : T(k) \in Nat
  BY ProgramType, AllTimes, StepIn
<1>2. \A k \in 1..(len - 1) : T(k) < T(k + 1)
  BY DEF OrderedLocal, HB
<1> HIDE DEF T
<1>3. ASSUME S # {} PROVE FALSE
  <2>1. p - 1 \in Nat /\ S \in SUBSET (1..(p - 1))
    BY <1>1
  <2>2. PICK i \in S : \A j \in S : j <= i
    <3> HIDE DEF S
    <3> QED BY <1>3, <2>1, GreatestOf
  <2>3. /\ i \in 1..(p - 1) /\ i \in 1..(len - 1) /\ i + 1 \in 1..len /\ i \in 1..len
        /\ T(p) <= T(i)
    BY <1>1
  <2>4. T(i) < T(i + 1)
    BY <1>2, <2>3
  <2>5. CASE i + 1 = p
    BY <1>1, <2>3, <2>4, <2>5
  <2>6. CASE i + 1 # p
    <3>1. i + 1 \in 1..(p - 1) /\ i + 1 \notin S
      BY <1>1, <2>2, <2>3, <2>6
    <3>2. ~(T(p) <= T(i + 1))
      BY <3>1
    <3> QED BY <1>1, <2>3, <2>4, <3>2
  <2> QED BY <2>5, <2>6
<1>4. q \notin S /\ q \in 1..len
  BY <1>1, <1>3
<1>5. T(q) < T(p)
  BY <1>1, <1>4
<1> QED BY <1>5 DEF T

(* Under TSO no two steps of a core are at the same time.                  *)
LEMMA CoreApart ==
  ASSUME prog \in Programs, TimeInv, DOMAIN ts = Events, SetLocalState, OneAtATime,
         prog.mm = "tso", NEW s \in Steps, NEW r \in Steps, SameCore(s, r), s # r
  PROVE  Time(s) # Time(r)
<1> DEFINE c == s[2]
<1>1. /\ c \in Cores /\ s[3] \in 1..Len(prog.ila[c].tmpl) /\ s = Step(c, s[3])
      /\ r[3] \in 1..Len(prog.ila[c].tmpl) /\ r = Step(c, r[3]) /\ Len(prog.ila[c].tmpl) \in Nat
  BY StepShape, ProgramType DEF SameCore
<1>2. CASE prog.ila[c].ordered
  <2>1. OrderedLocal(c) /\ s[3] # r[3]
    BY <1>1, <1>2 DEF SetLocalState
  <2>2. Time(s) \in Nat /\ Time(r) \in Nat
    BY AllTimes
  <2>3. CASE s[3] < r[3]
    <3>1. s[3] \in 1..(r[3] - 1)
      BY <1>1, <2>3
    <3>2. Time(Step(c, s[3])) < Time(Step(c, r[3]))
      BY <1>1, <2>1, <3>1, InOrder
    <3> QED BY <1>1, <2>2, <3>2
  <2>4. CASE r[3] < s[3]
    <3>1. r[3] \in 1..(s[3] - 1)
      BY <1>1, <2>4
    <3>2. Time(Step(c, r[3])) < Time(Step(c, s[3]))
      BY <1>1, <2>1, <3>1, InOrder
    <3> QED BY <1>1, <2>2, <3>2
  <2> QED BY <1>1, <2>1, <2>3, <2>4
<1>3. CASE ~prog.ila[c].ordered
  <2>1. ts[s] # ts[r]
    BY <1>3 DEF OneAtATime
  <2> QED BY <2>1, AllTimes
<1> QED BY <1>2, <1>3

(* The stores of its core that a step finds in the buffer.                 *)
LEMMA NothingPending ==
  ASSUME prog \in Programs, TimeInv, DOMAIN ts = Events, ApplyAxioms, SetLocalState, OneAtATime,
         NEW D, NEW e \in Steps, Cut(D, e), e \in FENCE_list \cup RMW_list
  PROVE  Pending(D, e[2]) = {}
<1> SUFFICES ASSUME NEW w \in Pending(D, e[2]) PROVE FALSE
  OBVIOUS
<1>0. prog.mm = "tso" /\ prog.mm \in {"sc", "tso"} /\ RMW_list \subseteq RegisterSteps
  BY ProgramType DEF Pending
<1>1. e[2] \in Cores /\ e[1] = "inst" /\ Closed(D) /\ e \notin D
  BY StepShape DEF Cut
<1>2. w \in D /\ w \in RegisterSteps /\ w[2] = e[2] /\ ~Performed(D, w) /\ w \in Steps
  BY <1>0, <1>1, Issued, Lists
<1>3. SameCore(w, e) /\ w # e
  BY <1>1, <1>2, StepShape DEF SameCore
<1>4. /\ Time(w) \in Nat /\ Time(e) \in Nat /\ Time(w) <= Time(e)
      /\ Time(e) <= Time(Global0(w))
  BY <1>2, AllTimes, CutTimes, Lists
<1>5. Time(w) # Time(e)
  BY <1>0, <1>2, <1>3, CoreApart
<1>6. HB(w, e)
  BY <1>4, <1>5 DEF HB
<1>7. TSO_Store /\ TSO_Fence /\ TSO_RMW
  BY <1>0 DEF ApplyAxioms
<1>8. /\ Time(__wfe_global(w)) = Time(Global0(w)) /\ Time(Global0(w)) \in Nat
  BY <1>2, <1>7, AllTimes, Lists
<1>9. CASE e \in FENCE_list
  BY <1>2, <1>3, <1>4, <1>6, <1>7, <1>8, <1>9 DEF TSO_Fence, HB
<1>10. CASE e \in RMW_list
  <2>1. HB(__wfe_global(w), __wfe_global(e))
    BY <1>0, <1>2, <1>3, <1>6, <1>7, <1>10 DEF TSO_Store
  <2>2. Time(__wfe_global(e)) = Time(e)
    BY <1>7, <1>10 DEF TSO_RMW, Sync
  <2> QED BY <1>4, <1>8, <2>1, <2>2 DEF HB
<1> QED BY <1>9, <1>10

(* Private states: the constraints give a reader what its registers hold.  *)
LEMMA LocalByAxiom ==
  ASSUME Linked, TimeInv, DOMAIN ts = Events, SetLocalState, NEW D, NEW e \in Steps, Cut(D, e),
         NEW n \in read_set[e] \cap private(e[2]), n \in DOMAIN val[e]
  PROVE  LocalGood(D, e, e[2], e[3], n, val[e][n])
<1> DEFINE c == e[2]
           k == e[3]
<1>0. prog \in Programs /\ e \in DOMAIN ts /\ DOMAIN val = DOMAIN ts \cup {Init0}
  BY DEF Linked, Cut, TimeInv
<1>1. c \in Cores /\ k \in 1..Len(prog.ila[c].tmpl) /\ e = Step(c, k)
  BY StepShape
<1>2. \A x : Matches(e, n, x) => val[e][n] = x
  BY <1>0 DEF Matches
<1>3. CASE prog.ila[c].ordered
  <2>1. OrderedLocal(c)
    BY <1>1, <1>3 DEF SetLocalState
  <2>2. Matches(e, n, LastUpdate(c, k, n))
    BY <1>1, <2>1 DEF OrderedLocal
  <2> QED BY <1>2, <1>3, <2>2 DEF LocalGood
<1>4. CASE ~prog.ila[c].ordered
  <2>1. UnorderedLocal(c)
    BY <1>1, <1>4 DEF SetLocalState
  <2>2. PICK w \in ({Init0} \cup Writers(c, n)) \ {e} :
          /\ Matches(e, n, LocalData(c, w, n)) /\ HB(w, e) /\ Decode(w)
          /\ \A i \in Writers(c, n) \ {w, e} : Decode(i) => HB(i, w) \/ HB(e, i)
    BY <1>1, <2>1 DEF UnorderedLocal, Writers, LocalData
  <2>3. \A s \in Writers(c, n) : s \in Steps
    BY DEF Writers
  <2>4. /\ Time(e) \in Nat
        /\ \A s \in Steps : /\ Time(s) \in Nat
                            /\ s \in D => Time(s) <= Time(e)
                            /\ s \notin D => Time(e) <= Time(s)
    BY <1>0, AllTimes, CutTimes
  <2>5. w = Init0 \/ w \in D
    BY <2>2, <2>3, <2>4 DEF HB
  <2>6. \A i \in Writers(c, n) \ {w, e} : i \in D /\ Decode(i) => HB(i, w)
    BY <2>2, <2>3, <2>4 DEF HB
  <2>7. val[e][n] = LocalData(c, w, n)
    BY <1>2, <2>2
  <2> QED BY <1>4, <2>2, <2>5, <2>6, <2>7 DEF LocalGood
<1> QED BY <1>3, <1>4


(* A final step in READ_list reads a shared state at the time of Final.    *)
LEMMA FinalReads ==
  ASSUME Linked, NEW r \in READ_list, r[1] = "final"
  PROVE  /\ r[2].n \in FindSharedStates /\ Reads(r) = {r[2].n}
         /\ ReadGroups(r) = {{r[2].n}}
         /\ Time(r) = ts[Final] /\ Time(Final) = ts[Final]
         /\ \A w : ~SameCore(w, r) /\ ~SameCore(w, Final) /\ ~SameCore(r, w) /\ ~SameCore(Final, w)
         /\ \A w \in FinishRegisterSteps : w # r /\ w # Final
         /\ r # Init0 /\ r \in Finals
         /\ \A n : Var(r, n) = val[Final][Global(n)]
<1>1. PICK a \in prog.finals : r = <<"final", a>> /\ a.n \in FindSharedStates
  BY StepShape DEF Linked
<1>2. r[2] = a
  BY <1>1
<1>3. r # Init0 /\ Final # Init0
  BY OtherShape
<1>4. \A w \in FinishRegisterSteps : w[1] \in {"inst", "init"}
  BY Lists, StepShape, OtherShape
<1>5. \A w : ~SameCore(w, r) /\ ~SameCore(w, Final) /\ ~SameCore(r, w) /\ ~SameCore(Final, w)
  BY OtherShape DEF SameCore
<1>6. \A w \in FinishRegisterSteps : w # r /\ w # Final
  BY <1>4, OtherShape
<1>7. Reads(r) = {r[2].n}
  BY <1>1, <1>2 DEF Reads
<1>8. ReadGroups(r) = {{r[2].n}}
  BY <1>7 DEF ReadGroups
<1> QED BY <1>1, <1>2, <1>3, <1>5, <1>6, <1>7, <1>8, OtherShape DEF Time, Var, Finals

(* Every comparison of a read that found the addresses is there.           *)
LEMMA AllCompared ==
  ASSUME found = Compared, NEW r \in READ_list, NEW w \in FinishRegisterSteps \ {r},
         NEW x \in FinishRegisterSteps \ {r}
  PROVE  <<r, w, x>> \in found
BY DEF Compared

LEMMA FinalByAxiom ==
  ASSUME Linked, TimeInv, DOMAIN ts = Events, ApplyAxioms, SetLocalState, Tied, found = Compared,
         query.final # {} => \A s \in Steps : HB(s, Final), NEW D, Cut(D, Final)
  PROVE  FinalGood(D, val[Final])
<1> DEFINE v == val[Final]
<1>0. /\ prog \in Programs /\ Final \in DOMAIN ts /\ DOMAIN v = Mentioned(Final)
      /\ DOMAIN val = DOMAIN ts \cup {Init0} /\ Closed(D)
  BY DEF Linked, Cut, TimeInv
<1>1. query.final # {} => Steps \subseteq D
  <2>1. /\ Time(Final) \in Nat
        /\ \A s \in Steps : Time(s) \in Nat /\ (s \notin D => Time(Final) <= Time(s))
    BY <1>0, AllTimes, CutTimes
  <2> QED BY <2>1 DEF HB
<1>2. ASSUME NEW r \in READ_list, r[1] = "final"
      PROVE  SharedGood(D, Final, r[2].n, v[Global(r[2].n)])
  <2>1. ReadsFrom(r, {r[2].n}) /\ (prog.mm = "tso" => TSO_RMW)
    BY <1>2, FinalReads DEF ApplyAxioms, RF_CO_FR
  <2>2. /\ r[2].n \in FindSharedStates /\ Time(r) = Time(Final) /\ Var(r, r[2].n) = v[Global(r[2].n)]
        /\ \A w : SameCore(w, r) <=> SameCore(w, Final)
        /\ \A w \in FinishRegisterSteps : w = r <=> w = Final
    BY <1>2, FinalReads
  <2>3. \A w, x \in FinishRegisterSteps \ {r} : <<r, w, x>> \in found
    BY <1>2, AllCompared
  <2>4. SharedGood(D, Final, r[2].n, Var(r, r[2].n))
    BY <1>0, <2>1, <2>2, <2>3, SharedByAxiom
  <2> QED BY <2>2, <2>4
<1>3. Mentioned(Final) = {Global(q[2].n) : q \in Finals} \cup {FinalName(a) : a \in query.final}
  BY OtherShape DEF Mentioned
<1>4. ASSUME NEW n \in DOMAIN v, n[2] \in FindSharedStates
      PROVE  SharedGood(D, Final, n[2], v[n])
  <2>1. PICK r \in READ_list : r[1] = "final" /\ n = Global(r[2].n)
    <3>1. CASE \E q \in Finals : n = Global(q[2].n)
      BY <3>1 DEF Finals
    <3>2. CASE \E a \in query.final : n = FinalName(a)
      <4>1. PICK a \in query.final : n = FinalName(a)
        BY <3>2
      <4>2. n[2] = a.n
        BY <4>1 DEF FinalName, Global
      <4>3. prog.kind = "mem" /\ <<"final", a>> \in READ_list
        BY <1>4, <4>2 DEF Tied, Linked
      <4>4. n = Global(a.n)
        BY <1>4, <4>1, <4>2, <4>3 DEF FinalName
      <4> DEFINE r == <<"final", a>>
      <4>5. r[1] = "final" /\ r[2] = a
        OBVIOUS
      <4> QED BY <4>3, <4>4, <4>5
    <3> QED BY <1>0, <1>3, <3>1, <3>2
  <2>2. n[2] = r[2].n
    BY <2>1 DEF Global
  <2> QED BY <1>2, <2>1, <2>2
<1>5. ASSUME NEW n \in DOMAIN v, n[2] \notin FindSharedStates
      PROVE  /\ Steps \subseteq D
             /\ LocalGood(D, Final, n[1], Len(prog.ila[n[1]].tmpl) + 1, n[2], v[n])
  <2> DEFINE c == n[1]
             x == n[2]
             p == Len(prog.ila[c].tmpl) + 1
  <2>1. query.final # {} /\ c \in Cores /\ x \in private(c)
    BY <1>0, <1>5, FinalNames
  <2>2. n = <<c, x>>
    <3>1. \A a : FinalName(a) = <<FinalName(a)[1], FinalName(a)[2]>>
      BY DEF FinalName, Global
    <3>2. \A a : Global(a) = <<Global(a)[1], Global(a)[2]>>
      BY DEF Global
    <3> QED BY <1>0, <1>3, <1>5, <3>1, <3>2
  <2>3. Steps \subseteq D
    BY <1>1, <2>1
  <2> HIDE DEF c, x
  <2>4. \A y : Matches(Final, <<c, x>>, y) => v[n] = y
    BY <1>0, <1>5, <2>2 DEF Matches
  <2>5. CASE prog.ila[c].ordered
    <3>1. OrderedLocal(c)
      BY <2>1, <2>5 DEF SetLocalState
    <3>2. Matches(Final, <<c, x>>, LastUpdate(c, p, x))
      BY <2>1, <3>1 DEF OrderedLocal
    <3>3. v[n] = LastUpdate(c, p, x)
      BY <2>4, <3>2
    <3>4. LocalGood(D, Final, c, p, x, v[n])
      BY <2>5, <3>3 DEF LocalGood
    <3> QED BY <2>3, <3>4 DEF c, x
  <2>6. CASE ~prog.ila[c].ordered
    <3>1. UnorderedLocal(c)
      BY <2>1, <2>6 DEF SetLocalState
    <3>2. PICK w \in {Init0} \cup Writers(c, x) :
            /\ Matches(Final, <<c, x>>, LocalData(c, w, x)) /\ Decode(w)
            /\ \A i \in Writers(c, x) \ {w} : Decode(i) => HB(i, w)
      BY <2>1, <3>1 DEF UnorderedLocal, Writers, LocalData
    <3>3. v[n] = LocalData(c, w, x)
      BY <2>4, <3>2
    <3>4. (w = Init0 \/ w \in D) /\ w # Final
      BY <2>3, <3>2, OtherShape, StepShape DEF Writers
    <3>5. LocalGood(D, Final, c, p, x, v[n])
      BY <2>6, <3>2, <3>3, <3>4 DEF LocalGood
    <3> QED BY <2>3, <3>5 DEF c, x
  <2> QED BY <2>5, <2>6
<1> QED BY <1>1, <1>4, <1>5 DEF FinalGood

(* The constraints make every event one the machine can take.              *)
LEMMA GoodByAxioms ==
  ASSUME Linked, TimeInv, DOMAIN ts = Events, ApplyAxioms, SetLocalState, OneAtATime, Tied,
         found = Compared, query.final # {} => \A s \in Steps : HB(s, Final), NEW D, NEW e, Cut(D, e)
  PROVE  Good(D, e)
<1>0. /\ prog \in Programs /\ e \in DOMAIN ts /\ e \in Events /\ DOMAIN val[e] = Mentioned(e)
      /\ prog.mm \in {"sc", "tso"} /\ Closed(D) /\ Closed(D \cup {e}) /\ e \notin D
  BY ProgramType DEF Linked, Cut, TimeInv
<1>1. CASE e \in Steps /\ e[1] = "inst" /\ e # Final
  <2>1. e \in FENCE_list \cup RMW_list => Pending(D, e[2]) = {}
    BY <1>0, <1>1, NothingPending
  <2>2. /\ Mentioned(e) \subseteq read_set[e]
        /\ read_set[e] \cap FindSharedStates \subseteq Reads(e)
        /\ Reads(e) # {} => e \in READ_list
        /\ prog.kind = "mem" => \A m, n \in Reads(e) : m = n
    BY <1>1 DEF Tied
  <2>3. ASSUME NEW n \in DOMAIN val[e], n \in FindSharedStates PROVE SharedGood(D, e, n, val[e][n])
    <3>1. e \in READ_list /\ n \in Reads(e)
      BY <1>0, <2>2, <2>3
    <3>2. {n} \in ReadGroups(e)
      <4>1. CASE prog.kind = "bv"
        BY <3>1, <4>1 DEF ReadGroups
      <4>2. CASE prog.kind = "mem"
        <5>1. Reads(e) = {n}
          BY <2>2, <3>1, <4>2
        <5> QED BY <4>2, <5>1 DEF ReadGroups
      <4> QED BY <1>0, <4>1, <4>2, ProgramType
    <3>3. ReadsFrom(e, {n}) /\ (prog.mm = "tso" => TSO_RMW)
      BY <3>1, <3>2 DEF ApplyAxioms, RF_CO_FR
    <3>4. \A w, x \in FinishRegisterSteps \ {e} : <<e, w, x>> \in found
      BY <3>1, AllCompared
    <3>5. Var(e, n) = val[e][n]
      BY <1>1, StepShape DEF Var
    <3>6. SharedGood(D, e, n, Var(e, n))
      BY <1>0, <2>3, <3>3, <3>4, SharedByAxiom
    <3> QED BY <3>5, <3>6
  <2>4. ASSUME NEW n \in DOMAIN val[e], n \notin FindSharedStates
        PROVE  LocalGood(D, e, e[2], e[3], n, val[e][n])
    <3>1. n \in read_set[e] \cap private(e[2])
      BY <1>0, <1>1, <2>2, <2>4, InstNames
    <3> QED BY <1>1, <2>4, <3>1, LocalByAxiom
  <2>5. InstGood(D, e, val[e])
    BY <2>1, <2>3, <2>4 DEF InstGood
  <2> QED BY <1>1, <2>5 DEF Good, GoodAt
<1>2. CASE /\ e[1] = "wfe" /\ prog.mm = "tso" /\ e # Final
           /\ \E s \in RegisterSteps : e = Facet(s) /\ Step(e[2], e[3]) = s
  <2>1. PICK s \in RegisterSteps : e = Facet(s) /\ Step(e[2], e[3]) = s
    BY <1>2
  <2>2. s \in Steps /\ s[2] \in Cores /\ s # e
    BY <2>1, Lists, StepShape, FacetApart
  <2>3. s \in D
    BY <1>0, <2>1, <2>2 DEF Closed
  <2>4. TSO_Store /\ TSO_RMW
    BY <1>2 DEF ApplyAxioms
  <2>5. Time(e) = ts[e] /\ Time(s) = ts[s]
    BY <1>0, <2>2, AllTimes, CutTimes
  <2>6. CASE s \in RMW_list
    <3>1. ts[s] = ts[e]
      BY <1>2, <2>1, <2>2, <2>4, <2>5, <2>6, StepShape DEF TSO_RMW, Sync, __wfe_global
    <3>2. FacetGood(D, s, ts[e])
      BY <2>6, <3>1 DEF FacetGood
    <3> QED BY <1>2, <2>1, <3>2 DEF Good, GoodAt
  <2>7. CASE s \notin RMW_list
    <3>1. s \in Pending(D, s[2])
      BY <1>0, <1>2, <2>1, <2>3, <2>7, Lists DEF Pending
    <3>2. ASSUME NEW w \in Pending(D, s[2]) \ {s} PROVE ts[s] < ts[w]
      <4>1. w \in RegisterSteps /\ w[2] = s[2] /\ ~Performed(D, w) /\ w \in Steps
        BY <1>0, <2>2, Issued, Lists
      <4>2. SameCore(w, s)
        BY <2>2, <4>1, StepShape DEF SameCore
      <4>3. Time(w) # Time(s)
        BY <1>0, <1>2, <2>2, <3>2, <4>1, <4>2, CoreApart
      <4>4. /\ Time(w) = ts[w] /\ ts[w] \in Nat /\ ts[s] \in Nat /\ Time(Global0(w)) \in Nat
            /\ Time(__wfe_global(w)) = Time(Global0(w))
        BY <1>0, <2>2, <2>4, <4>1, AllTimes, Lists
      <4>5. Time(e) <= Time(Global0(w)) /\ Time(e) \in Nat
        BY <1>0, <4>1, CutTimes, Lists
      <4>6. ASSUME HB(w, s) PROVE FALSE
        <5>1. HB(__wfe_global(w), __wfe_global(s))
          BY <2>4, <3>2, <4>1, <4>2, <4>6 DEF TSO_Store
        <5>2. __wfe_global(s) = e
          BY <1>2, <2>1, <2>2, StepShape DEF __wfe_global
        <5> QED BY <4>4, <4>5, <5>1, <5>2 DEF HB
      <4> QED BY <2>5, <4>3, <4>4, <4>6 DEF HB
    <3>3. FacetGood(D, s, ts[e])
      BY <2>7, <3>1, <3>2 DEF FacetGood
    <3> QED BY <1>2, <2>1, <3>3 DEF Good, GoodAt
  <2> QED BY <2>6, <2>7
<1>3. CASE e = Final /\ e[1] = "final"
  <2>1. FinalGood(D, val[e])
    BY <1>3, FinalByAxiom
  <2> QED BY <1>3, <2>1 DEF Good, GoodAt
<1> QED BY <1>0, <1>1, <1>2, <1>3, EventKinds

(* Every model of the constraint list is an execution of the machine that  *)
(* shows what the client asked for (CheckSat with the axioms of            *)
(* sc_manual.cc and tso_manual.cc), for every program without a nested     *)
(* store and every sequence of queries, when every variable of the query   *)
(* is tied to the execution.                                               *)
THEOREM AxiomsSound == Spec => []SatIsExecution
<1>1. ListInv /\ RunInv /\ PeelInv => SatIsExecution
  <2> SUFFICES ASSUME ListInv, RunInv, PeelInv, Complete, Satisfied, OneAtATime, Tied,
                      NestedStores = {}
               PROVE  agree /\ Asked
    BY DEF SatIsExecution
  <2>1. phase = "search" /\ DOMAIN ts = Events
    BY DEF Complete
  <2>2. Meant
    BY <2>1, ListMeans DEF ListIsTheQuery
  <2>3. Linked /\ TimeInv /\ Parted /\ found = Compared
    BY <2>1 DEF RunInv, Searched, PeelInv, Dichotomy
  <2>4. \A D, e : Cut(D, e) => Good(D, e)
    BY <2>1, <2>2, <2>3, GoodByAxioms DEF Meant
  <2>5. agree
    BY <2>3, <2>4 DEF Parted
  <2> QED BY <2>2, <2>5 DEF Meant
<1> QED BY <1>1, ListAlways, RunAlways, PeelAlways, PTL

----------------------------------------------------------------------------
(* The other direction: in an execution with all events apart, a step and  *)
(* an event that is neither it nor its own facet are at different times,   *)
(* and so the order of the events decides the order of the times.          *)
LEMMA StepStrict ==
  ASSUME prog \in Programs, TimeInv, DOMAIN ts = Events, Apart, NEW D, NEW e, Cut(D, e),
         e \in Steps \/ e = Final
  PROVE  /\ \A s \in Steps \ {e} : /\ s \in D => Time(s) < Time(e)
                                   /\ s \notin D => Time(e) < Time(s)
         /\ \A w \in FinishRegisterSteps \ {e} :
              /\ Performed(D, w) => Time(Global0(w)) < Time(e)
              /\ ~Performed(D, w) => Time(e) < Time(Global0(w))
<1>0. e \in DOMAIN ts /\ Time(e) = ts[e] /\ ts[e] \in Nat /\ ts[e] > 0
  BY CutTimes DEF Cut
<1>1. \A s \in RMW_list : s \in Steps /\ Facet(s) \notin Steps /\ Facet(s) # Final
  BY Lists, FacetApart, FacetShape
<1>2. ASSUME NEW s \in Steps \ {e} PROVE Time(s) # Time(e)
  <2>1. s \in DOMAIN ts /\ Time(s) = ts[s]
    BY AllTimes
  <2>2. ~\E x \in RMW_list : {s, e} = {x, Facet(x)}
    <3>1. \A x \in RMW_list : Facet(x) # s /\ Facet(x) # e
      BY <1>1
    <3> QED BY <3>1
  <2>3. ts[s] # ts[e]
    BY <1>0, <2>1, <2>2, StepsApart
  <2> QED BY <1>0, <2>1, <2>3
<1>3. ASSUME NEW w \in FinishRegisterSteps \ {e} PROVE Time(Global0(w)) # Time(e)
  <2>1. CASE w = Init0
    BY <1>0, <2>1, TimeOf DEF Global0, Direct
  <2>2. CASE w # Init0
    <3>1. Global0(w) \in DOMAIN ts /\ Time(Global0(w)) = ts[Global0(w)] /\ w \in Steps
      BY <2>2, AllTimes
    <3>2. Global0(w) # e
      BY <3>1, FacetApart, FacetShape DEF Global0
    <3>3. \A x \in RMW_list : Global0(w) # Facet(x)
      BY <1>1, <3>1, FacetApart DEF Global0, Direct
    <3>4. \A x \in RMW_list : Facet(x) # e
      BY <1>1
    <3>5. PICK g : g = Global0(w)
      OBVIOUS
    <3>6. ~\E x \in RMW_list : {g, e} = {x, Facet(x)}
      BY <3>3, <3>4, <3>5
    <3>7. ts[g] # ts[e]
      BY <1>0, <3>1, <3>2, <3>5, <3>6, StepsApart
    <3> QED BY <1>0, <3>1, <3>5, <3>7
  <2> QED BY <2>1, <2>2
<1>4. /\ \A s \in Steps : Time(s) \in Nat
      /\ \A w \in FinishRegisterSteps : Time(Global0(w)) \in Nat
  BY AllTimes
<1>5. /\ \A s \in Steps : /\ s \in D => Time(s) <= Time(e)
                          /\ s \notin D => Time(e) <= Time(s)
      /\ \A w \in FinishRegisterSteps :
           /\ Performed(D, w) => Time(Global0(w)) <= Time(e)
           /\ ~Performed(D, w) => Time(e) <= Time(Global0(w))
  BY CutTimes
<1> QED BY <1>0, <1>2, <1>3, <1>4, <1>5

(* The events of a complete execution are all good.                        *)
Executed ==
  /\ Linked /\ TimeInv /\ DOMAIN ts = Events /\ Apart
  /\ MachInv(DOMAIN ts, mach)
  /\ \A e \in Events : \E D : Cut(D, e) /\ Good(D, e)

LEMMA AxiomRMW == ASSUME Executed, prog.mm = "tso" PROVE TSO_RMW
<1> SUFFICES ASSUME NEW i \in RMW_list PROVE Sync(i, __wfe_global(i))
  BY DEF TSO_RMW
<1>0. prog \in Programs /\ TimeInv /\ DOMAIN ts = Events /\ i \in RegisterSteps /\ i \in Steps
  BY ProgramType, Lists DEF Executed, Linked
<1>1. Facet(i) \in Events /\ __wfe_global(i) = Facet(i)
  BY <1>0, StepShape DEF Events, __wfe_global
<1>2. PICK D : Cut(D, Facet(i)) /\ Good(D, Facet(i))
  BY <1>1 DEF Executed
<1>3. Step(Facet(i)[2], Facet(i)[3]) = i /\ Facet(i)[1] = "wfe"
  BY <1>0, StepShape, FacetShape
<1>4. ts[i] = ts[Facet(i)]
  BY <1>2, <1>3 DEF Good, GoodAt, FacetGood
<1>5. Time(i) = ts[i] /\ Time(Facet(i)) = ts[Facet(i)]
  BY <1>0, <1>1, <1>2, AllTimes, CutTimes
<1> QED BY <1>1, <1>4, <1>5 DEF Sync

(* The facet of a store that is no atomic update comes after the store,    *)
(* when every earlier store of the core has reached the memory.            *)
LEMMA FacetAfter ==
  ASSUME Executed, prog.mm = "tso", NEW w \in PureWrite_list
  PROVE  /\ Time(w) < Time(Facet(w))
         /\ \A u \in RegisterSteps : SameCore(u, w) /\ Time(u) < Time(w) =>
              Time(Global0(u)) < Time(Facet(w))
<1>0. /\ prog \in Programs /\ TimeInv /\ DOMAIN ts = Events /\ Apart
      /\ w \in RegisterSteps /\ w \in Steps /\ w \notin RMW_list /\ prog.mm \in {"sc", "tso"}
  BY ProgramType, Lists DEF Executed, Linked
<1>1. Facet(w) \in Events
  BY <1>0 DEF Events
<1>2. PICK D : Cut(D, Facet(w)) /\ Good(D, Facet(w))
  BY <1>1 DEF Executed
<1>3. Step(Facet(w)[2], Facet(w)[3]) = w /\ Facet(w)[1] = "wfe" /\ Facet(w) \notin Steps
  BY <1>0, StepShape, FacetShape, FacetApart
<1>4. w \in Pending(D, w[2]) /\ \A u \in Pending(D, w[2]) \ {w} : ts[w] < ts[u]
  BY <1>0, <1>2, <1>3 DEF Good, GoodAt, FacetGood
<1>5. /\ \A s \in Steps : s \in DOMAIN ts /\ Time(s) = ts[s] /\ ts[s] \in Nat
      /\ Facet(w) \in DOMAIN ts /\ Time(Facet(w)) = ts[Facet(w)] /\ ts[Facet(w)] \in Nat
  BY <1>0, <1>1, <1>2, AllTimes, CutTimes
<1>6. \A s \in RMW_list : s \in Steps /\ Facet(s) # Facet(w) /\ Facet(s) \notin Steps
  BY <1>0, Lists, FacetApart
<1>7. Time(w) < Time(Facet(w))
  <2>1. w \in D
    BY <1>4 DEF Pending
  <2>2. Time(w) <= Time(Facet(w))
    BY <1>0, <1>2, <2>1, CutTimes
  <2>3. ~\E s \in RMW_list : {w, Facet(w)} = {s, Facet(s)}
    BY <1>0, <1>3, <1>6
  <2>4. ts[w] # ts[Facet(w)]
    BY <1>0, <1>3, <1>5, <2>3, StepsApart
  <2> QED BY <1>0, <1>5, <2>2, <2>4
<1>8. ASSUME NEW u \in RegisterSteps, SameCore(u, w), Time(u) < Time(w)
      PROVE  Time(Global0(u)) < Time(Facet(w))
  <2>1. u \in Steps /\ u # w /\ u \in FinishRegisterSteps /\ u[2] = w[2] /\ u # Init0
    BY <1>0, <1>5, <1>8, Lists DEF SameCore
  <2>2. u \in D
    BY <1>0, <1>2, <1>5, <1>7, <1>8, <2>1, CutTimes
  <2>3. u \notin Pending(D, w[2])
    BY <1>0, <1>4, <1>5, <1>8, <2>1
  <2>4. Performed(D, u)
    BY <1>0, <1>2, <1>8, <2>1, <2>2, <2>3, Issued DEF Cut
  <2>5. /\ Time(Global0(u)) <= Time(Facet(w)) /\ Global0(u) \in DOMAIN ts
        /\ Time(Global0(u)) = ts[Global0(u)] /\ Time(Global0(u)) \in Nat
    BY <1>0, <1>2, <2>1, <2>4, AllTimes, CutTimes
  <2>6. Global0(u) # Facet(w)
    BY <1>0, <1>3, <2>1, FacetApart DEF Global0
  <2>7. \A s \in RMW_list : Global0(u) # Facet(s)
    BY <1>6, <2>1, FacetApart DEF Global0, Direct
  <2>8. PICK g : g = Global0(u)
    OBVIOUS
  <2>9. ~\E s \in RMW_list : {g, Facet(w)} = {s, Facet(s)}
    BY <1>6, <2>7, <2>8
  <2>10. ts[g] # ts[Facet(w)]
    BY <1>0, <1>5, <2>5, <2>6, <2>8, <2>9, StepsApart
  <2> QED BY <1>5, <2>5, <2>8, <2>10
<1> QED BY <1>7, <1>8

(* A fence, and an atomic update, come when the buffer is empty.           *)
LEMMA DrainsFirst ==
  ASSUME Executed, prog.mm = "tso", NEW f \in Steps, f \in FENCE_list \cup RMW_list,
         NEW w \in RegisterSteps, SameCore(w, f), HB(w, f)
  PROVE  Time(Global0(w)) < Time(f)
<1>0. /\ prog \in Programs /\ TimeInv /\ DOMAIN ts = Events /\ Apart
      /\ w \in Steps /\ w \in FinishRegisterSteps /\ prog.mm \in {"sc", "tso"}
      /\ f[1] = "inst" /\ w[2] = f[2]
  BY ProgramType, Lists, StepShape DEF Executed, Linked, SameCore
<1>1. PICK D : Cut(D, f) /\ Good(D, f)
  BY DEF Executed, Events
<1>2. Pending(D, f[2]) = {}
  BY <1>0, <1>1 DEF Good, GoodAt, InstGood
<1>3. w # f /\ w \in D
  <2>1. Time(w) \in Nat /\ Time(f) \in Nat
    BY <1>0, AllTimes
  <2> QED BY <1>0, <1>1, <2>1, CutTimes DEF HB
<1>4. Performed(D, w)
  BY <1>0, <1>1, <1>2, <1>3, Issued DEF Cut
<1> QED BY <1>0, <1>1, <1>3, <1>4, StepStrict

LEMMA AxiomsTSO ==
  ASSUME Executed, prog.mm = "tso" PROVE TSO_WriteFacetOrder /\ TSO_Store /\ TSO_Fence /\ TSO_RMW
<1>0. /\ prog \in Programs /\ TimeInv /\ DOMAIN ts = Events /\ TSO_RMW
  BY AxiomRMW DEF Executed, Linked
<1>1. \A w \in RegisterSteps : /\ w \in Steps /\ w # Init0 /\ w \in FinishRegisterSteps
                               /\ Time(__wfe_global(w)) = Time(Global0(w))
                               /\ __wfe_global(w) = Facet(w)
  BY <1>0, AllTimes, Lists, StepShape DEF __wfe_global
<1>2. TSO_WriteFacetOrder
  BY <1>1, FacetAfter, Lists DEF TSO_WriteFacetOrder, HB
<1>3. TSO_Store
  <2> SUFFICES ASSUME NEW w1 \in RegisterSteps, NEW w2 \in RegisterSteps, SameCore(w1, w2), HB(w1, w2)
               PROVE  HB(__wfe_global(w1), __wfe_global(w2))
    BY DEF TSO_Store
  <2>1. CASE w2 \in RMW_list
    <3>1. Time(Global0(w1)) < Time(w2)
      BY <1>1, <2>1, DrainsFirst
    <3>2. Time(__wfe_global(w2)) = Time(w2)
      BY <1>0, <2>1 DEF TSO_RMW, Sync
    <3> QED BY <1>1, <3>1, <3>2 DEF HB
  <2>2. CASE w2 \notin RMW_list
    <3>1. w2 \in PureWrite_list
      BY <2>2, Lists
    <3>2. Time(Global0(w1)) < Time(Facet(w2))
      BY <3>1, FacetAfter DEF HB
    <3> QED BY <1>1, <3>2 DEF HB
  <2> QED BY <2>1, <2>2
<1>4. TSO_Fence
  <2> SUFFICES ASSUME NEW f \in FENCE_list, NEW w \in RegisterSteps, SameCore(w, f), HB(w, f)
               PROVE  HB(__wfe_global(w), f)
    BY DEF TSO_Fence
  <2>1. f \in Steps
    BY DEF FENCE_list
  <2>2. Time(Global0(w)) < Time(f)
    BY <2>1, DrainsFirst
  <2> QED BY <1>1, <2>2 DEF HB
<1> QED BY <1>0, <1>2, <1>3, <1>4

(* A store that reaches the memory before another one is older.            *)
LEMMA MemoryOrder ==
  ASSUME prog \in Programs, TimeInv, DOMAIN ts = Events, Apart,
         prog.mm = "tso" => TSO_RMW /\ TSO_Store,
         NEW v \in FinishRegisterSteps, NEW w \in FinishRegisterSteps,
         Time(Global0(v)) < Time(Global0(w))
  PROVE  CO(v, w)
<1>1. \A x \in FinishRegisterSteps :
        /\ x \in Steps \/ x = Init0
        /\ Time(x) \in Nat /\ Time(Global0(x)) \in Nat
        /\ Time(__wfe_global(x)) = Time(Global0(x))
  BY AllTimes
<1>2. CASE ~SameCore(v, w)
  BY <1>1, <1>2 DEF CO, HB
<1>3. CASE SameCore(v, w)
  <2>1. v # Init0 /\ w # Init0 /\ SameCore(w, v)
    BY <1>3, OtherShape DEF SameCore
  <2>2. v \in RegisterSteps /\ w \in RegisterSteps /\ v \in Steps /\ w \in Steps /\ v # w
    BY <1>1, <2>1, Lists
  <2>3. Time(v) # Time(w)
    <3>1. v \in DOMAIN ts /\ w \in DOMAIN ts
      BY <2>2, AllTimes
    <3>2. Closed(DOMAIN ts)
      BY DEF TimeInv
    <3> QED BY <2>2, <3>1, <3>2, StoresApart
  <2>4. CASE prog.mm = "sc"
    BY <1>3, <2>4 DEF Global0, Direct, CO, HB
  <2>5. CASE prog.mm = "tso"
    <3>1. ASSUME HB(w, v) PROVE FALSE
      <4>1. HB(__wfe_global(w), __wfe_global(v))
        BY <2>1, <2>2, <2>5, <3>1 DEF TSO_Store
      <4> QED BY <1>1, <4>1 DEF HB
    <3> QED BY <1>1, <1>3, <2>3, <3>1 DEF CO, HB
  <2> QED BY <2>4, <2>5, ProgramType
<1> QED BY <1>2, <1>3

(* Among any stores one is the last that e sees: the last in the buffer of *)
(* its core, or else the last in the memory.                               *)
LEMMA LastSeen ==
  ASSUME prog \in Programs, TimeInv, DOMAIN ts = Events, Apart,
         prog.mm = "tso" => TSO_RMW /\ TSO_Store,
         NEW D, NEW e, Cut(D, e), e \in Steps \/ e = Final,
         NEW M \in SUBSET FinishRegisterSteps, Init0 \in M
  PROVE  \E w \in M \ {e} :
           /\ Seen(D, w, e) /\ Decode(w)
           /\ \A v \in M \ {w, e} : Seen(D, v, e) /\ Decode(v) => CO(v, w)
<1> DEFINE N == {v \in M \ {e} : Seen(D, v, e) /\ Decode(v)}
           K(v) == IF Performed(D, v) THEN Time(Global0(v)) ELSE Time(e) + Time(v)
           S == {K(v) + 1 : v \in N}
<1>1. \A x \in FinishRegisterSteps :
        /\ x \in Steps \/ x = Init0
        /\ Time(x) \in Nat /\ Time(Global0(x)) \in Nat
        /\ Time(__wfe_global(x)) = Time(Global0(x))
  BY AllTimes
<1>2. /\ Time(e) \in Nat
      /\ \A s \in Steps \ {e} : s \in D => Time(s) < Time(e)
      /\ \A x \in FinishRegisterSteps \ {e} :
           /\ Performed(D, x) => Time(Global0(x)) < Time(e)
           /\ ~Performed(D, x) => Time(e) < Time(Global0(x))
  BY StepStrict, CutTimes
<1>3. Closed(D) /\ D \in SUBSET DOMAIN ts
  BY DEF Cut
<1>4. Init0 \in N
  <2>1. Init0 # e /\ ~SameCore(Init0, e)
    BY OtherShape, StepShape DEF SameCore
  <2> QED BY <2>1 DEF Seen, Performed, Decode
<1>5. ASSUME NEW v \in N, ~Performed(D, v)
      PROVE  /\ SameCore(v, e) /\ v \in D /\ v \in Steps /\ Time(v) < Time(e) /\ Time(v) \in Nat
  <2>1. SameCore(v, e) /\ v \in D /\ v # e /\ v \in FinishRegisterSteps
    BY <1>5 DEF Seen
  <2>2. v # Init0
    BY <2>1, OtherShape DEF SameCore
  <2> QED BY <1>1, <1>2, <2>1, <2>2
<1>6. \A v \in N : K(v) \in Nat /\ K(v) + 1 \in 1..(Time(e) + Time(e) + 1)
  <2> SUFFICES ASSUME NEW v \in N PROVE K(v) \in Nat /\ K(v) <= Time(e) + Time(e)
    BY <1>2
  <2>1. CASE Performed(D, v)
    BY <1>1, <1>2, <2>1
  <2>2. CASE ~Performed(D, v)
    BY <1>2, <1>5, <2>2
  <2> QED BY <2>1, <2>2
<1>7. PICK w \in N : \A v \in N : K(v) <= K(w)
  <2> HIDE DEF K, N
  <2>1. S # {} /\ S \in SUBSET (1..(Time(e) + Time(e) + 1)) /\ Time(e) + Time(e) + 1 \in Nat
    BY <1>2, <1>4, <1>6
  <2>2. PICK i \in S : \A j \in S : j <= i
    <3> HIDE DEF S
    <3> QED BY <2>1, GreatestOf
  <2>3. PICK w \in N : i = K(w) + 1
    BY <2>2
  <2>4. ASSUME NEW v \in N PROVE K(v) <= K(w)
    <3>1. K(v) + 1 <= K(w) + 1
      BY <2>2, <2>3
    <3> QED BY <1>6, <3>1
  <2> QED BY <2>4
<1>8. ASSUME NEW v \in N \ {w} PROVE CO(v, w)
  <2>0. K(v) <= K(w) /\ v \in FinishRegisterSteps \ {e} /\ w \in FinishRegisterSteps \ {e}
    BY <1>7
  <2>1. CASE Performed(D, v) /\ Performed(D, w)
    <3>1. Time(Global0(v)) # Time(Global0(w))
      BY <1>3, <1>8, <2>0, <2>1, StoresApart
    <3>2. Time(Global0(v)) < Time(Global0(w))
      BY <1>1, <2>0, <2>1, <3>1
    <3> QED BY <2>0, <3>2, MemoryOrder
  <2>2. CASE Performed(D, v) /\ ~Performed(D, w)
    <3>1. Time(Global0(v)) < Time(Global0(w))
      BY <1>1, <1>2, <2>0, <2>2
    <3> QED BY <2>0, <3>1, MemoryOrder
  <2>3. CASE ~Performed(D, v) /\ Performed(D, w)
    BY <1>1, <1>2, <2>0, <2>3
  <2>4. CASE ~Performed(D, v) /\ ~Performed(D, w)
    <3>1. /\ SameCore(v, e) /\ v \in D /\ Time(v) \in Nat
          /\ SameCore(w, e) /\ w \in D /\ Time(w) \in Nat
      BY <1>5, <1>7, <1>8, <2>4
    <3>2. SameCore(v, w)
      BY <3>1 DEF SameCore
    <3>3. Time(v) # Time(w)
      BY <1>3, <1>8, <2>0, <3>1, StoresApart
    <3> QED BY <1>2, <2>0, <2>4, <3>1, <3>2, <3>3 DEF CO, HB
  <2> QED BY <2>1, <2>2, <2>3, <2>4
<1>9. w \in M \ {e} /\ Seen(D, w, e) /\ Decode(w)
  BY <1>7
<1>10. \A v \in M \ {w, e} : Seen(D, v, e) /\ Decode(v) => CO(v, w)
  BY <1>8
<1> QED BY <1>9, <1>10

(* What the event e of a read r sees satisfies the axiom of r.             *)
LEMMA AxiomByShared ==
  ASSUME prog \in Programs, TimeInv, DOMAIN ts = Events, Apart,
         prog.mm = "tso" => TSO_RMW /\ TSO_Store,
         NEW D, NEW e, Cut(D, e), e \in Steps \/ e = Final, NEW r, Time(r) = Time(e),
         \A w : SameCore(w, r) <=> SameCore(w, e),
         \A w \in FinishRegisterSteps : w = r <=> w = e,
         NEW rs \in SUBSET FindSharedStates, \A n \in rs : SharedGood(D, e, n, Var(r, n)),
         \/ \A w, v \in FinishRegisterSteps \ {r} : <<r, w, v>> \in found
         \/ \A w : <<r, w, w>> \notin found
  PROVE  ReadsFrom(r, rs)
<1> DEFINE all == \A w, v \in FinishRegisterSteps \ {r} : <<r, w, v>> \in found
           M == {v \in FinishRegisterSteps : ~all \/ v = Init0 \/ rs \cap Writes(v) # {}}
<1>0. M \in SUBSET FinishRegisterSteps /\ Init0 \in M
  BY DEF FinishRegisterSteps
<1>1. PICK w \in M \ {e} :
        /\ Seen(D, w, e) /\ Decode(w)
        /\ \A v \in M \ {w, e} : Seen(D, v, e) /\ Decode(v) => CO(v, w)
  <2> HIDE DEF M
  <2> QED BY <1>0, LastSeen
<1>2. \A x \in FinishRegisterSteps :
        /\ x \in Steps \/ x = Init0
        /\ Time(x) \in Nat /\ Time(Global0(x)) \in Nat
        /\ Time(__wfe_global(x)) = Time(Global0(x))
  BY AllTimes
<1>3. /\ \A s \in Steps \ {e} : /\ s \in D => Time(s) < Time(e)
                                /\ s \notin D => Time(e) < Time(s)
      /\ \A x \in FinishRegisterSteps \ {e} :
           /\ Performed(D, x) => Time(Global0(x)) < Time(e)
           /\ ~Performed(D, x) => Time(e) < Time(Global0(x))
  BY StepStrict
<1>4. \A x, y : SameCore(x, y) => x # Init0 /\ y # Init0
  BY OtherShape DEF SameCore
<1>5. \A x, y : SameCore(x, y) <=> SameCore(y, x)
  BY DEF SameCore
<1>6. w # r /\ w \in FinishRegisterSteps
  BY <1>1
<1>7. RF(w, r)
  <2>1. CASE SameCore(w, e)
    BY <1>1, <1>2, <1>3, <1>4, <1>6, <2>1 DEF Seen, RF, HB
  <2>2. CASE ~SameCore(w, e)
    BY <1>1, <1>2, <1>3, <1>6, <2>2 DEF Seen, RF, HB
  <2> QED BY <2>1, <2>2
<1>8. ASSUME NEW v \in M \ {w, r}, Decode(v) PROVE CO(v, w) \/ FR(r, v)
  <2>0. v # e /\ v \in FinishRegisterSteps
    BY <1>8
  <2>1. CASE ~Seen(D, v, e)
    <3>1. CASE SameCore(v, e)
      BY <1>2, <1>3, <1>4, <1>5, <2>0, <2>1, <3>1 DEF Seen, FR, HB
    <3>2. CASE ~SameCore(v, e)
      BY <1>2, <1>3, <1>5, <2>0, <2>1, <3>2 DEF Seen, FR, HB
    <3> QED BY <3>1, <3>2
  <2>2. CASE Seen(D, v, e)
    BY <1>1, <1>8, <2>0, <2>2
  <2> QED BY <2>1, <2>2
<1>9. ASSUME NEW n \in rs \cap Writes(w) PROVE WriteData(w, n) = Var(r, n)
  <2>1. PICK u \in FinishRegisterSteps \ {e} :
          /\ Sees(D, u, e, n) /\ Var(r, n) = WriteData(u, n)
          /\ \A v \in FinishRegisterSteps \ {u, e} : Sees(D, v, e, n) => Older(D, v, u)
    BY DEF SharedGood
  <2>2. ASSUME u # w PROVE FALSE
    <3>1. Older(D, w, u)
      BY <1>1, <1>6, <1>9, <2>1, <2>2 DEF Sees
    <3>2. CO(u, w)
      BY <1>1, <1>9, <2>1, <2>2 DEF Sees
    <3>3. CASE SameCore(u, w)
      BY <1>2, <1>5, <1>6, <3>1, <3>2, <3>3 DEF Older, CO, HB
    <3>4. CASE ~SameCore(u, w)
      <4>1. Performed(D, w) /\ (Performed(D, u) => Time(Global0(w)) < Time(Global0(u)))
        BY <1>5, <3>1, <3>4 DEF Older, HB
      <4>2. Time(Global0(u)) < Time(Global0(w))
        BY <1>2, <1>6, <3>2, <3>4 DEF CO, HB
      <4>3. Time(e) \in Nat
        BY CutTimes
      <4> QED BY <1>1, <1>2, <1>3, <1>6, <2>1, <4>1, <4>2, <4>3
    <3> QED BY <3>3, <3>4
  <2> QED BY <2>1, <2>2
<1>10. SameData(w, r, rs)
  BY <1>9 DEF SameData
<1>11. SameAddress(<<r, w, w>>, rs)
  BY <1>1, <1>6 DEF SameAddress
<1>12. \A v \in FinishRegisterSteps \ {w, r} : SameAddress(<<r, w, v>>, rs) => v \in M
  BY <1>6 DEF SameAddress
<1> HIDE DEF M
<1> QED BY <1>1, <1>6, <1>7, <1>8, <1>10, <1>11, <1>12 DEF ReadsFrom

LEMMA AxiomReads == ASSUME Executed, Dichotomy PROVE RF_CO_FR
<1> SUFFICES ASSUME NEW r \in READ_list, NEW rs \in ReadGroups(r) PROVE ReadsFrom(r, rs)
  BY DEF RF_CO_FR
<1>0. /\ prog \in Programs /\ TimeInv /\ DOMAIN ts = Events /\ Apart /\ Linked
      /\ prog.mm = "tso" => TSO_RMW /\ TSO_Store
  BY AxiomsTSO DEF Executed, Linked
<1>1. rs \subseteq Reads(r) /\ Reads(r) \subseteq FindSharedStates
  BY DEF ReadGroups, Reads
<1>2. \/ \A w, v \in FinishRegisterSteps \ {r} : <<r, w, v>> \in found
      \/ \A w : <<r, w, w>> \notin found
  BY DEF Dichotomy
<1>3. CASE r \in Steps
  <2>1. r[1] = "inst" /\ r # Init0 /\ r # Final
    BY <1>3, StepShape
  <2>2. PICK D : Cut(D, r) /\ Good(D, r)
    BY <1>3 DEF Executed, Events
  <2>3. ASSUME NEW n \in rs PROVE SharedGood(D, r, n, Var(r, n))
    <3>1. n \in read_set[r] /\ n \in FindSharedStates
      BY <1>0, <1>1, <1>3, <2>1 DEF Reads, Linked
    <3>2. DOMAIN val[r] = Mentioned(r)
      BY <1>0, <2>2 DEF TimeInv, Cut
    <3>3. n \in DOMAIN val[r] /\ Var(r, n) = val[r][n]
      BY <2>1, <3>1, <3>2 DEF Mentioned, Var
    <3> QED BY <2>1, <2>2, <3>1, <3>3 DEF Good, GoodAt, InstGood
  <2> QED BY <1>0, <1>1, <1>2, <1>3, <2>2, <2>3, AxiomByShared
<1>4. CASE r \notin Steps
  <2>1. r[1] = "final"
    BY <1>0, <1>4 DEF Linked
  <2> DEFINE n == r[2].n
  <2>2. /\ rs = {n} /\ n \in FindSharedStates /\ Time(r) = Time(Final)
        /\ Var(r, n) = val[Final][Global(n)] /\ r \in Finals
        /\ \A w : SameCore(w, r) <=> SameCore(w, Final)
        /\ \A w \in FinishRegisterSteps : w = r <=> w = Final
    BY <1>0, <2>1, FinalReads
  <2>3. Final \in Events
    BY <2>2 DEF Events
  <2>4. PICK D : Cut(D, Final) /\ Good(D, Final)
    BY <2>3 DEF Executed
  <2>5. Global(n) \in DOMAIN val[Final] /\ Global(n)[2] = n
    <3>1. Global(n) \in Mentioned(Final)
      BY <2>2, OtherShape DEF Mentioned
    <3>2. DOMAIN val[Final] = Mentioned(Final)
      BY <1>0, <2>4 DEF TimeInv, Cut
    <3> QED BY <3>1, <3>2 DEF Global
  <2> HIDE DEF n
  <2>6. FinalGood(D, val[Final])
    BY <2>4 DEF Good, GoodAt
  <2>7. SharedGood(D, Final, n, Var(r, n))
    BY <2>2, <2>5, <2>6 DEF FinalGood
  <2>8. \A m \in rs : SharedGood(D, Final, m, Var(r, m))
    BY <2>2, <2>7
  <2> QED BY <1>0, <1>2, <2>2, <2>4, <2>8, AxiomByShared
<1> QED BY <1>3, <1>4

(* What a step reads of its private states, in an execution.               *)
LEMMA StepLocal ==
  ASSUME Executed, NEW e \in Steps, NEW n \in read_set[e] \cap private(e[2])
  PROVE  \E D : Cut(D, e) /\ e \in DOMAIN val /\ n \in DOMAIN val[e]
                /\ LocalGood(D, e, e[2], e[3], n, val[e][n])
<1>1. PICK D : Cut(D, e) /\ Good(D, e)
  BY DEF Executed, Events
<1>2. e[1] = "inst" /\ e # Final /\ n \notin FindSharedStates
  BY StepShape DEF private
<1>3. e \in DOMAIN val /\ n \in DOMAIN val[e]
  <2>1. DOMAIN val[e] = Mentioned(e) /\ e \in DOMAIN val
    BY <1>1 DEF Executed, TimeInv, Cut
  <2> QED BY <1>2, <2>1 DEF Mentioned
<1> QED BY <1>1, <1>2, <1>3 DEF Good, GoodAt, InstGood

LEMMA FinalLocal ==
  ASSUME Executed, NEW c \in Cores, NEW n \in private(c),
         Final \in DOMAIN val, <<c, n>> \in DOMAIN val[Final]
  PROVE  \E D : /\ Cut(D, Final) /\ Steps \subseteq D
                /\ LocalGood(D, Final, c, Len(prog.ila[c].tmpl) + 1, n, val[Final][<<c, n>>])
<1>1. Final \in Events
  BY OtherShape DEF Executed, TimeInv
<1>2. PICK D : Cut(D, Final) /\ Good(D, Final)
  BY <1>1 DEF Executed
<1>3. FinalGood(D, val[Final])
  BY <1>2 DEF Good, GoodAt
<1> DEFINE x == <<c, n>>
<1>4. x[1] = c /\ x[2] = n /\ n \notin FindSharedStates /\ x \in DOMAIN val[Final]
  BY DEF private
<1> HIDE DEF x
<1>5. /\ Steps \subseteq D
      /\ LocalGood(D, Final, c, Len(prog.ila[c].tmpl) + 1, n, val[Final][x])
  BY <1>3, <1>4 DEF FinalGood
<1> QED BY <1>2, <1>5 DEF x

LEMMA LocalOrdered == ASSUME Executed, NEW c \in Cores, prog.ila[c].ordered PROVE OrderedLocal(c)
<1> DEFINE len == Len(prog.ila[c].tmpl)
<1>0. prog \in Programs /\ TimeInv /\ DOMAIN ts = Events /\ Apart /\ len \in Nat
  BY ProgramType DEF Executed, Linked
<1>1. ASSUME NEW p \in 1..len, NEW n \in read_set[Step(c, p)] \cap private(c)
      PROVE  Matches(Step(c, p), n, LastUpdate(c, p, n))
  <2>1. PICK e : e = Step(c, p)
    OBVIOUS
  <2>2. e \in Steps /\ e[2] = c /\ e[3] = p
    BY <2>1, StepIn
  <2>3. PICK D : LocalGood(D, e, c, p, n, val[e][n])
    BY <1>1, <2>1, <2>2, StepLocal
  <2> QED BY <2>1, <2>3 DEF LocalGood, Matches
<1>2. ASSUME NEW p \in 1..(len - 1) PROVE HB(Step(c, p), Step(c, p + 1))
  <2>1. p \in 1..len /\ p + 1 \in 1..len /\ p \in 1..((p + 1) - 1) /\ p # p + 1
    BY <1>0
  <2>2. Step(c, p) \in Steps /\ Step(c, p + 1) \in Steps /\ Step(c, p) # Step(c, p + 1)
    BY <2>1, StepIn
  <2>3. PICK D : Cut(D, Step(c, p + 1))
    BY <2>2 DEF Executed, Events
  <2>4. Step(c, p) \in D
    <3>1. Closed(D \cup {Step(c, p + 1)})
      BY <2>3 DEF Cut
    <3> QED BY <2>1, <2>2, <3>1 DEF Closed
  <2> QED BY <1>0, <2>2, <2>3, <2>4, StepStrict DEF HB
<1>3. ASSUME NEW n \in private(c) PROVE Matches(Final, <<c, n>>, LastUpdate(c, len + 1, n))
  <2>1. ASSUME Final \in DOMAIN val, <<c, n>> \in DOMAIN val[Final]
        PROVE  val[Final][<<c, n>>] = LastUpdate(c, len + 1, n)
    <3>1. PICK D : LocalGood(D, Final, c, len + 1, n, val[Final][<<c, n>>])
      BY <2>1, FinalLocal
    <3> QED BY <3>1 DEF LocalGood
  <2> QED BY <2>1 DEF Matches
<1> QED BY <1>1, <1>2, <1>3 DEF OrderedLocal

LEMMA LocalUnordered == ASSUME Executed, NEW c \in Cores, ~prog.ila[c].ordered PROVE UnorderedLocal(c)
<1>0. prog \in Programs /\ TimeInv /\ DOMAIN ts = Events /\ Apart
  BY DEF Executed, Linked
<1>1. ASSUME NEW p \in 1..Len(prog.ila[c].tmpl), NEW r, r = Step(c, p),
             NEW n \in read_set[r] \cap private(c)
      PROVE  \E w \in ({Init0} \cup Writers(c, n)) \ {r} :
               /\ Matches(r, n, LocalData(c, w, n)) /\ HB(w, r) /\ Decode(w)
               /\ \A i \in Writers(c, n) \ {w, r} : Decode(i) => HB(i, w) \/ HB(r, i)
  <2>1. r \in Steps /\ r[2] = c /\ r[3] = p
    BY <1>1, StepIn
  <2>2. PICK D : Cut(D, r) /\ LocalGood(D, r, c, p, n, val[r][n])
    BY <1>1, <2>1, StepLocal
  <2>3. PICK w \in ({Init0} \cup Writers(c, n)) \ {r} :
          /\ w = Init0 \/ w \in D
          /\ Decode(w) /\ val[r][n] = LocalData(c, w, n)
          /\ \A i \in Writers(c, n) \ {w, r} : i \in D /\ Decode(i) => HB(i, w)
    BY <2>2 DEF LocalGood
  <2>4. \A i \in Writers(c, n) : i \in Steps
    BY DEF Writers
  <2>5. \A i \in Steps \ {r} : (i \in D => HB(i, r)) /\ (i \notin D => HB(r, i))
    BY <1>0, <2>1, <2>2, StepStrict DEF HB
  <2>6. HB(w, r)
    <3>1. HB(Init0, r)
      BY <1>0, <2>1, AllTimes, TimeOf DEF HB
    <3> QED BY <2>3, <2>4, <2>5, <3>1
  <2>7. Matches(r, n, LocalData(c, w, n))
    BY <2>3 DEF Matches
  <2> QED BY <2>3, <2>4, <2>5, <2>6, <2>7
<1>2. ASSUME NEW n \in private(c)
      PROVE  \E w \in {Init0} \cup Writers(c, n) :
               /\ Matches(Final, <<c, n>>, LocalData(c, w, n)) /\ Decode(w)
               /\ \A i \in Writers(c, n) \ {w} : Decode(i) => HB(i, w)
  <2>1. CASE Final \in DOMAIN val /\ <<c, n>> \in DOMAIN val[Final]
    <3>1. PICK D : /\ Steps \subseteq D
                   /\ LocalGood(D, Final, c, Len(prog.ila[c].tmpl) + 1, n, val[Final][<<c, n>>])
      BY <2>1, FinalLocal
    <3>2. PICK w \in ({Init0} \cup Writers(c, n)) \ {Final} :
            /\ Decode(w) /\ val[Final][<<c, n>>] = LocalData(c, w, n)
            /\ \A i \in Writers(c, n) \ {w, Final} : i \in D /\ Decode(i) => HB(i, w)
      BY <3>1 DEF LocalGood
    <3>3. \A i \in Writers(c, n) : i \in D /\ i # Final
      BY <3>1, StepShape DEF Writers
    <3> QED BY <3>2, <3>3 DEF Matches
  <2>2. CASE ~(Final \in DOMAIN val /\ <<c, n>> \in DOMAIN val[Final])
    <3>1. RegInv(DOMAIN ts, c, mach.reg[c])
      BY DEF Executed, MachInv
    <3>2. PICK w \in {Init0} \cup Writers(c, n) : LastInReg(DOMAIN ts, c, w, n)
      BY <3>1 DEF RegInv
    <3>3. \A i \in Writers(c, n) : i \in Steps /\ i \in DOMAIN ts /\ Time(i) = ts[i] /\ ts[i] \in Nat /\ ts[i] > 0
      BY <1>0, AllTimes DEF Writers
    <3>4. ASSUME NEW i \in Writers(c, n) \ {w}, Decode(i) PROVE HB(i, w)
      <4>1. Time(i) <= Time(w)
        BY <3>2, <3>3, <3>4 DEF LastInReg
      <4>2. CASE w = Init0
        BY <1>0, <3>3, <3>4, <4>1, <4>2, TimeOf
      <4>3. CASE w # Init0
        <5>1. \A s \in RMW_list : s \in Steps /\ Facet(s) \notin Steps
          BY Lists, FacetApart
        <5>2. ~\E s \in RMW_list : {i, w} = {s, Facet(s)}
          BY <3>3, <3>4, <4>3, <5>1
        <5>3. ts[i] # ts[w]
          BY <1>0, <3>3, <3>4, <4>3, <5>2, StepsApart
        <5> QED BY <3>3, <3>4, <4>1, <4>3, <5>3 DEF HB
      <4> QED BY <4>2, <4>3
    <3>5. Matches(Final, <<c, n>>, LocalData(c, w, n)) /\ Decode(w)
      BY <2>2, <3>2 DEF Matches, LastInReg
    <3> QED BY <3>4, <3>5
  <2> QED BY <2>1, <2>2
<1> QED BY <1>1, <1>2 DEF UnorderedLocal, Writers, LocalData

(* Every execution of the machine that shows what the client asked for is  *)
(* a model of the constraint list (LinkStates with the axioms of           *)
(* sc_manual.cc and tso_manual.cc), for every program and whatever earlier *)
(* queries left in the lists of the unroller.                              *)
THEOREM AxiomsComplete == Spec => []ExecutionIsSat
<1>1. ListInv /\ RunInv /\ PeelInv => ExecutionIsSat
  <2> SUFFICES ASSUME ListInv, RunInv, PeelInv, Complete, agree, Apart, Asked PROVE Satisfied
    BY DEF ExecutionIsSat
  <2>1. phase = "search" /\ DOMAIN ts = Events
    BY DEF Complete
  <2>2. Linked /\ Searched
    BY <2>1 DEF RunInv
  <2>3. Executed /\ Dichotomy
    BY <2>1, <2>2 DEF Executed, Searched, History, PeelInv
  <2>4. ApplyAxioms
    BY <2>3, AxiomReads, AxiomsTSO DEF ApplyAxioms
  <2>5. SetLocalState
    BY <2>3, LocalOrdered, LocalUnordered DEF SetLocalState
  <2>6. ASSUME query.final # {}, NEW s \in Steps PROVE HB(s, Final)
    <3>1. Final \in Events
      BY <2>6 DEF Events
    <3>2. PICK D : Cut(D, Final) /\ Good(D, Final)
      BY <2>3, <3>1 DEF Executed
    <3>3. s \in D
      BY <2>6, <3>2 DEF Good, GoodAt, FinalGood
    <3>4. prog \in Programs /\ TimeInv /\ Apart /\ s # Final
      BY <2>2, StepShape DEF RunInv, Searched
    <3> QED BY <2>1, <3>2, <3>3, <3>4, StepStrict DEF HB
  <2>7. \A e \in DOMAIN ts \ {Final} : ts[e] > 0
    BY <2>2, TimeOf DEF Searched
  <2>8. Meant
    BY <2>2, <2>4, <2>5, <2>6, <2>7 DEF Meant, Searched, Started
  <2> QED BY <2>1, <2>8, ListMeans DEF ListIsTheQuery
<1> QED BY <1>1, ListAlways, RunAlways, PeelAlways, PTL
=============================================================================
