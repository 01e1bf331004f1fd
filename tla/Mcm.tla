-------------------------------- MODULE Mcm --------------------------------
(***************************************************************************)
(* The multi-ILA unroller and its two memory models (src/src/mcm): several *)
(* ILAs, each with a program template, share the states they declare under *)
(* the same name.  The unroller turns the templates into trace steps with  *)
(* integer timestamps, and the memory model into constraints over the      *)
(* timestamps and the value every step reads; CheckSat asks for a model.   *)
(*                                                                         *)
(* The calls of a client build the constraint list; CheckSat then looks    *)
(* for an assignment, one event at a time in the order of the timestamps.  *)
(* Beside it runs the machine the axioms describe - interleaved cores, and *)
(* for TSO a store buffer per core - on the same order of events.          *)
(*                                                                         *)
(* Shared states are bit vectors ("bv"), or the addresses of one shared    *)
(* memory ("mem"), which instructions update with stores only.  As in the  *)
(* rest of the project the build is a release one, without ILA_ASSERT.     *)
(***************************************************************************)
EXTENDS Integers, Sequences, FiniteSets, Functions, TLC

CONSTANTS
  Programs     \* the systems: [mm, kind, ila, finals, singles] with the bounds
               \* max (values are 0 .. max) and queries (Push ... Pop)

VARIABLES
  prog,        \* the ILAs, templates and memory model of this unroller
  cstr_,       \* the constraint list
  zexpr_vec_pos_stack_,
  READ_list,   \* READ_list of the model, final steps included
  read_set,    \* _inst_read_set of every instruction step
  query,       \* what the client asked since Push: [final, singles]
  InAddrOrData,\* nested_finder_ has met a nested store
  found,       \* the comparisons for which LinkStates found the store's address
  phase, asked,
  ts, val,     \* the assignment: timestamps, and the values steps read
  mach, agree  \* the machine, and whether it took the same execution

vars == <<prog, cstr_, zexpr_vec_pos_stack_, READ_list, read_set, query,
          InAddrOrData, found, phase, asked, ts, val, mach, agree>>

Value == 0..prog.max
Cores == DOMAIN prog.ila

Mentions(t) == IF t.k = "const" THEN {} ELSE {t.n}

\* VarUseFinder: the variables an instruction reads, in its decode and in its
\* updates; the memory that a store updates is not a use.
Traverse(i) == {a.n : a \in i.decode}
                 \cup UNION {Mentions(i.update[n]) : n \in DOMAIN i.update}

\* A state is shared when two ILAs declare its name.
SharedStates(ila) == {n \in UNION {ila[c].states : c \in DOMAIN ila} :
                        Cardinality({c \in DOMAIN ila : n \in ila[c].states}) > 1}

AtomicNames == {"atomic_add", "atomic_and"}

\* An instruction reads states of its own ILA; one that TSO takes for an atomic
\* update writes the memory, or Tso::RegisterSteps creates no facet for it.
InstrTypes(i, states, shared) ==
  /\ Traverse(i) \subseteq states
  /\ \A n \in DOMAIN i.update : i.update[n].k \in {"const", "var", "inc"}
  /\ i.name \in AtomicNames => DOMAIN i.update \cap shared # {}

ASSUME ProgramTypes ==
  \A p \in Programs :
    /\ p.mm \in {"sc", "tso"} /\ p.kind \in {"bv", "mem"}
    /\ "__GLOBAL_INIT__" \notin DOMAIN p.ila
    /\ \A c \in DOMAIN p.ila :
         /\ p.ila[c].ordered \in BOOLEAN /\ Len(p.ila[c].tmpl) \in Nat
         /\ \A q \in 1..Len(p.ila[c].tmpl) :
              InstrTypes(p.ila[c].tmpl[q], p.ila[c].states, SharedStates(p.ila))
    /\ \A a \in p.finals : a.c \in DOMAIN p.ila /\ a.n \in p.ila[a.c].states
    /\ \A a \in p.singles : /\ a.c \in DOMAIN p.ila /\ a.n \in p.ila[a.c].states
                            /\ a.p \in 1..Len(p.ila[a.c].tmpl)
----------------------------------------------------------------------------
(* States and instructions *)

FindSharedStates == SharedStates(prog.ila)

private(c) == prog.ila[c].states \ FindSharedStates

Step(c, p) == <<"inst", c, p>>
Facet(e) == <<"wfe", e[2], e[3]>>
Init0 == <<"init">>
Final == <<"final">>
Steps == UNION {{Step(c, p) : p \in 1..Len(prog.ila[c].tmpl)} : c \in Cores}
Instr(e) == prog.ila[e[2]].tmpl[e[3]]
SameCore(l, r) == l[1] = "inst" /\ r[1] = "inst" /\ l[2] = r[2]

Writes(e) == IF e = Init0 THEN FindSharedStates
             ELSE DOMAIN Instr(e).update \cap FindSharedStates
Finals == {s \in READ_list : s[1] = "final"}

\* The states whose values the axioms tie to a store.  For the memory these are
\* the addresses in the decode and the updates (FindAddrDataPairVecInInst): one
\* that only a property of the step loads from is not among them.
Reads(e) ==
  FindSharedStates \cap (CASE e[1] = "final" -> {e[2].n}
                           [] e[1] # "final" /\ prog.kind = "bv" -> read_set[e]
                           [] OTHER -> Traverse(Instr(e)))

\* One constraint is about one shared name: a bit vector, or all the loads of
\* the memory together.
ReadGroups(r) == IF prog.kind = "bv" THEN {{n} : n \in Reads(r)} ELSE {Reads(r)}

\* The lists RegisterSteps and FinishRegisterSteps leave behind.
RegisterSteps == {e \in Steps : Writes(e) # {}}
FENCE_list == {e \in Steps : Instr(e).name \in {"fence", "Fence", "FENCE"}}
RMW_list == {e \in Steps : Instr(e).name \in AtomicNames}
PureWrite_list == RegisterSteps \ RMW_list
FinishRegisterSteps == RegisterSteps \cup {Init0}

Events == Steps \cup (IF prog.mm = "tso" THEN {Facet(e) : e \in RegisterSteps} ELSE {})
                \cup (IF query.final # {} \/ Finals # {} THEN {Final} ELSE {})

\* A store holds no load and no second store.
NotNested(i) ==
  prog.kind = "mem" =>
    \A m, n \in DOMAIN i.update \cap FindSharedStates :
      m = n /\ Mentions(i.update[n]) \cap FindSharedStates = {}
NestedStores == {e \in RegisterSteps : ~NotNested(Instr(e))}

\* The loops of ApplyAxioms: for every read r and every other write w, first the
\* address of every further write is compared with r, then that of w itself.
Compared == {t \in READ_list \X FinishRegisterSteps \X FinishRegisterSteps :
               t[2] # t[1] /\ t[3] # t[1]}
NoLater(ord, u, t) ==
  \/ ord[u[1]] < ord[t[1]]
  \/ u[1] = t[1] /\ ord[u[2]] < ord[t[2]]
  \/ /\ u[1] = t[1] /\ u[2] = t[2]
     /\ t[3] = t[2] \/ (u[3] # u[2] /\ ord[u[3]] <= ord[t[3]])

\* CheckAndPeel finds no address in a nested store.  nested_finder_ is then left
\* inside that store: it takes every store it is shown later for a nested one.
\* The order of the steps is that of their addresses in memory.
CheckAndPeel ==
  LET steps == READ_list \cup FinishRegisterSteps
      upto(ord) == {t \in Compared : \A u \in Compared :
                                      NoLater(ord, u, t) => u[3] \notin NestedStores}
  IN  IF NestedStores = {} THEN {Compared}
      ELSE IF InAddrOrData THEN {{}}
      ELSE {upto(ord) : ord \in Injection(steps, 1..Cardinality(steps))}
----------------------------------------------------------------------------
(* The constraints, under an assignment of timestamps and values *)

Time(e) == IF e = Init0 THEN 0 ELSE IF e[1] = "final" THEN ts[Final] ELSE ts[e]
HB(l, r) == Time(l) < Time(r)
Sync(l, r) == Time(l) = Time(r)

\* The initial and the final variables: of the global ILA for a shared state, of
\* its own ILA for a private one.
Global(n) == <<"__GLOBAL_INIT__", n>>
Var0(c, n) == val[Init0][IF n \in FindSharedStates THEN Global(n) ELSE <<c, n>>]
Var(e, n) == IF e = Init0 THEN val[Init0][Global(n)]
             ELSE IF e[1] = "final" THEN val[Final][Global(n)] ELSE val[e][n]

\* An expression on the variables of one step.
Eval(e, t) == CASE t.k = "const" -> t.v
                [] t.k = "var"   -> Var(e, t.n)
                [] t.k = "inc"   -> (Var(e, t.n) + 1) % (prog.max + 1)
Decode(e) == e = Init0 \/ \A a \in Instr(e).decode : Var(e, a.n) = a.v
WriteData(w, n) == IF w = Init0 THEN Var(Init0, n) ELSE Eval(w, Instr(w).update[n])

\* The write w of the comparison <<r, w, v>> of v with r, for one group of reads:
\* a store without an address matches every read, with any data.
SameAddress(t, rs) == t[3] = Init0 \/ t \notin found \/ rs \cap Writes(t[3]) # {}
SameData(w, r, rs) ==
  w = Init0 \/ <<r, w, w>> \in found =>
    \A n \in rs \cap Writes(w) : WriteData(w, n) = Var(r, n)

__wfe_global(w) == IF w = Init0 \/ prog.mm = "sc" THEN w ELSE Facet(w)

\* Under SC the three relations are HB of the steps; under TSO a store reaches
\* the other cores with its facet event.
RF(w, r) == IF SameCore(w, r) THEN HB(w, r) ELSE HB(__wfe_global(w), r)
FR(r, w) == IF SameCore(r, w) THEN HB(r, w) ELSE HB(r, __wfe_global(w))
CO(v, w) == IF SameCore(v, w) THEN HB(v, w) ELSE HB(__wfe_global(v), __wfe_global(w))

\* ApplyAxioms, RF_CO_FR: every read takes its value from a decoded write that
\* happened before it, and every other such write is before that one or later.
ReadsFrom(r, rs) ==
  \E w \in FinishRegisterSteps \ {r} :
    /\ SameAddress(<<r, w, w>>, rs) /\ SameData(w, r, rs) /\ Decode(w) /\ RF(w, r)
    /\ \A w2 \in FinishRegisterSteps \ {w, r} :
         SameAddress(<<r, w, w2>>, rs) /\ Decode(w2) => CO(w2, w) \/ FR(r, w2)

RF_CO_FR == \A r \in READ_list : \A rs \in ReadGroups(r) : ReadsFrom(r, rs)

TSO_WriteFacetOrder == \A w \in PureWrite_list : HB(w, __wfe_global(w))

TSO_Store ==
  \A w1, w2 \in RegisterSteps :
    w1 # w2 /\ SameCore(w1, w2) /\ HB(w1, w2) => HB(__wfe_global(w1), __wfe_global(w2))

\* Mutant: the fence waits for nothing.
TSO_FenceFree == TRUE

TSO_Fence ==
  \A f \in FENCE_list, w \in RegisterSteps :
    SameCore(w, f) /\ HB(w, f) => HB(__wfe_global(w), f)

TSO_RMW == \A i \in RMW_list : Sync(i, __wfe_global(i))

ApplyAxioms ==
  /\ RF_CO_FR
  /\ prog.mm = "tso" => TSO_WriteFacetOrder /\ TSO_Store /\ TSO_Fence /\ TSO_RMW

\* A variable that no constraint of the query mentions may take any value.
Matches(r, n, v) == r \in DOMAIN val /\ n \in DOMAIN val[r] => val[r][n] = v

\* SetLocalState for an ordered template: a private state read by a step is the
\* update of the last step before it that writes it, if that one decodes.
LastUpdate(c, p, n) ==
  LET before == {q \in 1..(p - 1) : n \in DOMAIN Instr(Step(c, q)).update}
  IN  IF before = {} THEN Var0(c, n)
      ELSE LET w == Step(c, CHOOSE q \in before : \A o \in before : o <= q)
           IN  IF Decode(w) THEN Eval(w, Instr(w).update[n]) ELSE Var(w, n)

OrderedLocal(c) ==
  LET len == Len(prog.ila[c].tmpl) IN
  /\ \A p \in 1..len : \A n \in read_set[Step(c, p)] \cap private(c) :
       Matches(Step(c, p), n, LastUpdate(c, p, n))
  /\ \A p \in 1..(len - 1) : HB(Step(c, p), Step(c, p + 1))
  /\ \A n \in private(c) : Matches(Final, <<c, n>>, LastUpdate(c, len + 1, n))

\* SetLocalState for an unordered template: the value comes from a decoded
\* writer, of those before the reader the last one; the final value from the
\* last of all.
UnorderedLocal(c) ==
  LET writers(n) == {w \in Steps : w[2] = c /\ n \in DOMAIN Instr(w).update}
      data(w, n) == IF w = Init0 THEN Var0(c, n) ELSE Eval(w, Instr(w).update[n])
  IN
  /\ \A p \in 1..Len(prog.ila[c].tmpl) : LET r == Step(c, p) IN
       \A n \in read_set[r] \cap private(c) :
         \E w \in ({Init0} \cup writers(n)) \ {r} :
           /\ Matches(r, n, data(w, n)) /\ HB(w, r) /\ Decode(w)
           /\ \A i \in writers(n) \ {w, r} : Decode(i) => HB(i, w) \/ HB(r, i)
  /\ \A n \in private(c) :
       \E w \in {Init0} \cup writers(n) :
         /\ Matches(Final, <<c, n>>, data(w, n)) /\ Decode(w)
         /\ \A i \in writers(n) \ {w} : Decode(i) => HB(i, w)

SetLocalState ==
  \A c \in Cores : IF prog.ila[c].ordered THEN OrderedLocal(c) ELSE UnorderedLocal(c)

\* The Z3 variable an atom of the final property names: the memory's data is
\* tied to the stores, a shared bit vector keeps the name of its own ILA.
FinalName(a) == IF a.n \in FindSharedStates /\ prog.kind = "mem" THEN Global(a.n)
                ELSE <<a.c, a.n>>

Holds(c) ==
  CASE c.k = "init"     -> \A co \in Cores : \A a \in prog.ila[co].init :
                             Var0(co, a.n) = a.v
    [] c.k = "positive" -> \A e \in DOMAIN ts \ {Final} : ts[e] > 0
    [] c.k = "axioms"   -> ApplyAxioms
    [] c.k = "local"    -> SetLocalState
    [] c.k = "before"   -> \A e \in Steps : HB(e, Final)
    [] c.k = "final"    -> val[Final][FinalName(c.a)] = c.a.v
    [] c.k = "single"   -> Var(Step(c.a.c, c.a.p), c.a.n) = c.a.v

Satisfied == \A i \in DOMAIN cstr_ : Holds(cstr_[i])
----------------------------------------------------------------------------
(* The calls of a client *)

NoQuery == [final |-> {}, singles |-> {}]
NoMach == [mem |-> <<>>, reg |-> <<>>, buf |-> <<>>, done |-> {}]

push_back(cs) == cstr_' = cstr_ \o cs
Idle == UNCHANGED <<InAddrOrData, found, prog, asked, ts, val, mach, agree>>

\* The constructor finds the shared states and creates the memory model.
Init ==
  /\ prog \in Programs
  /\ cstr_ = <<>> /\ zexpr_vec_pos_stack_ = <<>>
  /\ READ_list = {} /\ read_set = <<>>
  /\ query = NoQuery /\ phase = "new" /\ asked = 0
  /\ InAddrOrData = FALSE /\ found = {}
  /\ ts = <<>> /\ val = <<>> /\ mach = NoMach /\ agree = TRUE

\* The initial conditions of all the ILAs, on the variables of frame 0.
GenSysInitConstraints ==
  /\ phase = "new"
  /\ push_back(<<[k |-> "init"]>>)
  /\ phase' = "init"
  /\ UNCHANGED <<zexpr_vec_pos_stack_, READ_list, read_set, query>> /\ Idle

\* Every instruction of the templates becomes a trace step, with a facet event
\* for a store under TSO; a step that reads a shared state joins READ_list.
Unroll ==
  /\ phase = "init"
  /\ read_set' = [e \in Steps |-> Traverse(Instr(e))]
  /\ READ_list' = {e \in Steps : Traverse(Instr(e)) \cap FindSharedStates # {}}
  /\ push_back(<<[k |-> "positive"]>>)
  /\ phase' = "ready"
  /\ UNCHANGED <<zexpr_vec_pos_stack_, query>> /\ Idle

Push ==
  /\ phase = "ready" /\ asked < prog.queries
  /\ zexpr_vec_pos_stack_' = Append(zexpr_vec_pos_stack_, Len(cstr_))
  /\ phase' = "asking" /\ query' = NoQuery /\ asked' = asked + 1
  /\ UNCHANGED <<cstr_, READ_list, read_set, InAddrOrData, found, prog, ts, val, mach, agree>>

\* A property of one step: its states join the read set of the step, for good.
AddSingleTraceStepProperty(a) ==
  /\ phase = "asking" /\ query.singles = {}
  /\ push_back(<<[k |-> "single", a |-> a]>>)
  /\ read_set' = [read_set EXCEPT ![Step(a.c, a.p)] = @ \cup {a.n}]
  /\ query' = [query EXCEPT !.singles = {a}]
  /\ UNCHANGED <<zexpr_vec_pos_stack_, READ_list, phase>> /\ Idle

\* The final step comes after every instruction step; when its property reads a
\* shared state it joins READ_list, for good.
SetFinalProperty(a) ==
  /\ phase = "asking" /\ query.final = {}
  /\ push_back(<<[k |-> "before"], [k |-> "final", a |-> a]>>)
  /\ READ_list' = READ_list \cup (IF a.n \in FindSharedStates THEN {<<"final", a>>} ELSE {})
  /\ query' = [query EXCEPT !.final = {a}]
  /\ UNCHANGED <<zexpr_vec_pos_stack_, read_set, phase>> /\ Idle

\* LinkStates adds the axioms and the links of the private states.
LinkStates ==
  /\ phase = "asking"
  /\ push_back(<<[k |-> "axioms"], [k |-> "local"]>>) /\ phase' = "linked"
  /\ found' \in CheckAndPeel
  /\ InAddrOrData' = (InAddrOrData \/ \E t \in Compared : t[3] \in NestedStores)
  /\ UNCHANGED <<zexpr_vec_pos_stack_, READ_list, read_set, query>>
  /\ UNCHANGED <<prog, asked, ts, val, mach, agree>>

\* Mutant: Pop erases from one constraint too late.
PopLate ==
  /\ phase = "linked"
  /\ LET prev_size_ == zexpr_vec_pos_stack_[Len(zexpr_vec_pos_stack_)]
     IN  cstr_' = SubSeq(cstr_, 1, prev_size_ + 1)
  /\ zexpr_vec_pos_stack_' = SubSeq(zexpr_vec_pos_stack_, 1, Len(zexpr_vec_pos_stack_) - 1)
  /\ phase' = "ready" /\ query' = NoQuery
  /\ UNCHANGED <<READ_list, read_set>> /\ Idle

\* Pop forgets the constraints of the query; the lists keep what it added.
Pop ==
  /\ phase = "linked"
  /\ LET prev_size_ == zexpr_vec_pos_stack_[Len(zexpr_vec_pos_stack_)]
     IN  cstr_' = SubSeq(cstr_, 1, prev_size_)
  /\ zexpr_vec_pos_stack_' = SubSeq(zexpr_vec_pos_stack_, 1, Len(zexpr_vec_pos_stack_) - 1)
  /\ phase' = "ready" /\ query' = NoQuery
  /\ UNCHANGED <<READ_list, read_set>> /\ Idle
----------------------------------------------------------------------------
(* The machine of the memory model *)

\* A core sees its own last buffered store of a state, else the memory.
MachRead(m, c, n) ==
  LET I == {i \in 1..Len(m.buf[c]) : n \in DOMAIN m.buf[c][i].w} IN
  IF n \notin FindSharedStates THEN m.reg[c][n]
  ELSE IF I = {} THEN m.mem[n]
  ELSE m.buf[c][CHOOSE i \in I : \A j \in I : j <= i].w[n]

MachStep(m, e, v) ==
  LET c == e[2]
      i == Instr(e)
      on == \A a \in i.decode : v[a.n] = a.v
      of(n) == LET t == i.update[n] IN
                 CASE t.k = "const" -> t.v
                   [] t.k = "var"   -> v[t.n]
                   [] t.k = "inc"   -> (v[t.n] + 1) % (prog.max + 1)
      stores == [n \in (IF on THEN Writes(e) ELSE {}) |-> of(n)]
      direct == prog.mm = "sc" \/ e \in RMW_list
  IN  [mem |-> IF direct THEN [n \in DOMAIN m.mem |->
                                 IF n \in DOMAIN stores THEN stores[n] ELSE m.mem[n]]
               ELSE m.mem,
       reg |-> [m.reg EXCEPT ![c] = [n \in DOMAIN @ |->
                  IF on /\ n \in DOMAIN i.update THEN of(n) ELSE @[n]]],
       buf |-> IF direct \/ Writes(e) = {} THEN m.buf
               ELSE [m.buf EXCEPT ![c] = Append(@, [e |-> e, w |-> stores])],
       done |-> m.done \cup {e}]

\* The machine can take this event now, reading these values.
MachAllows(m, e, t, v) ==
  CASE e[1] = "inst" ->
         /\ prog.ila[e[2]].ordered =>
              \A q \in 1..(e[3] - 1) : Step(e[2], q) \in m.done
         /\ e \in FENCE_list \cup RMW_list => m.buf[e[2]] = <<>>
         /\ \A n \in DOMAIN v : v[n] = MachRead(m, e[2], n)
    [] e[1] = "wfe" ->
         LET s == Step(e[2], e[3]) IN
         IF s \in RMW_list THEN s \in DOMAIN ts /\ ts[s] = t
         ELSE m.buf[e[2]] # <<>> /\ m.buf[e[2]][1].e = s
    [] e = Final ->
         /\ query.final # {} => Steps \subseteq m.done
         /\ \A n \in DOMAIN v : v[n] = IF n[2] \in FindSharedStates THEN m.mem[n[2]]
                                      ELSE m.reg[n[1]][n[2]]

MachNext(m, e, v) ==
  CASE e[1] = "inst" -> MachStep(m, e, v)
    [] e[1] = "wfe" ->
         IF Step(e[2], e[3]) \in RMW_list THEN m
         ELSE LET b == m.buf[e[2]][1] IN
              [mem |-> [n \in DOMAIN m.mem |-> IF n \in DOMAIN b.w THEN b.w[n] ELSE m.mem[n]],
               reg |-> m.reg,
               buf |-> [m.buf EXCEPT ![e[2]] = Tail(@)],
               done |-> m.done]
    [] e = Final -> m
----------------------------------------------------------------------------
(* CheckSat: the search for an assignment *)

\* The variables of an event that the constraints mention.
Mentioned(e) ==
  CASE e[1] = "inst" -> read_set[e] \cup
                           (IF Instr(e).decode # {} /\ prog.ila[e[2]].ordered
                            THEN DOMAIN Instr(e).update \cap private(e[2]) ELSE {})
    [] e[1] = "wfe" -> {}
    [] e = Final -> {Global(q[2].n) : q \in Finals} \cup {FinalName(a) : a \in query.final}

Now == IF DOMAIN ts = {} THEN 0 ELSE CHOOSE t \in {ts[e] : e \in DOMAIN ts} :
                                       \A o \in DOMAIN ts : ts[o] <= t

With(f, e, x) == [d \in DOMAIN f \cup {e} |-> IF d = e THEN x ELSE f[d]]

CheckSat ==
  /\ phase = "linked"
  /\ phase' = "search"
  /\ \E v \in [{Global(n) : n \in FindSharedStates}
                    \cup UNION {{<<c, n>> : n \in private(c)} : c \in Cores} -> Value] :
       /\ val' = [e \in {Init0} |-> v]
       /\ mach' = [mem |-> [n \in FindSharedStates |-> v[Global(n)]],
                   reg |-> [c \in Cores |-> [n \in private(c) |-> v[<<c, n>>]]],
                   buf |-> [c \in Cores |-> <<>>],
                   done |-> {}]
       /\ \A c \in Cores : \A a \in prog.ila[c].init :
            v[IF a.n \in FindSharedStates THEN Global(a.n) ELSE <<c, a.n>>] = a.v
  /\ UNCHANGED <<prog, cstr_, zexpr_vec_pos_stack_, READ_list, read_set, query,
                 InAddrOrData, found, asked, ts, agree>>

\* The search gives up an assignment as soon as program order, the order of a
\* store and its facet, or a link between private states is broken.
PrefixOk(e, t, v) ==
  CASE e[1] = "inst" -> /\ prog.ila[e[2]].ordered =>
                            /\ e[3] > 1 => LET b == Step(e[2], e[3] - 1)
                                           IN  b \in DOMAIN ts /\ ts[b] < t
                            /\ \A n \in DOMAIN v \cap read_set[e] \cap private(e[2]) :
                                 v[n] = LastUpdate(e[2], e[3], n)
                        /\ Facet(e) \in DOMAIN ts => e \in RMW_list /\ ts[Facet(e)] # t
    [] e[1] = "wfe" -> LET s == Step(e[2], e[3]) IN
                       s \in DOMAIN ts /\ (ts[s] < t \/ s \in RMW_list)
    [] e = Final -> query.final # {} => \A s \in Steps : s \in DOMAIN ts /\ ts[s] < t

\* The next event, at the time of the last one or later.
Place(e) ==
  /\ phase = "search" /\ e \in Events \ DOMAIN ts
  /\ \E t \in {Now, Now + 1} \ {0}, v \in [Mentioned(e) -> Value] :
       LET ok == agree /\ MachAllows(mach, e, t, v) IN
       /\ ok \/ PrefixOk(e, t, v)
       /\ ts' = With(ts, e, t)
       /\ val' = With(val, e, v)
       /\ agree' = ok
       /\ mach' = IF ok THEN MachNext(mach, e, v) ELSE NoMach
  /\ UNCHANGED <<prog, cstr_, zexpr_vec_pos_stack_, READ_list, read_set, query,
                 InAddrOrData, found, phase, asked>>

Next ==
  \/ GenSysInitConstraints \/ Unroll \/ Push \/ LinkStates \/ Pop \/ CheckSat
  \/ \E a \in prog.singles : AddSingleTraceStepProperty(a)
  \/ \E a \in prog.finals : SetFinalProperty(a)
  \/ \E e \in Events : Place(e)

Spec == Init /\ [][Next]_vars
----------------------------------------------------------------------------
(* Properties *)

Complete == phase = "search" /\ DOMAIN ts = Events

\* What the client asked since Push is true in this execution.
Asked == /\ \A a \in query.final : val[Final][FinalName(a)] = a.v
         /\ \A a \in query.singles : Var(Step(a.c, a.p), a.n) = a.v

\* Two events share a timestamp only when the model synchronises them.
Apart == \A e, f \in DOMAIN ts : e # f /\ ts[e] = ts[f] =>
           \E s \in RMW_list : {e, f} = {s, Facet(s)}

\* The axioms order the events of one core by their timestamps only: under TSO an
\* assignment may give two steps of an unordered template the same one.
OneAtATime ==
  prog.mm = "tso" => \A e, f \in Steps : e # f /\ SameCore(e, f) /\ ~prog.ila[e[2]].ordered
                                         => ts[e] # ts[f]

\* Every variable of the query is tied to the execution.  These are not: the final
\* value of a shared bit vector, named by the ILA that declares it; a shared bit
\* vector that a property adds to a step which reads no shared state, where the
\* code only warns; an address that only a property loads from; all loads but one
\* of an instruction, as one store stands for them all; and a private state that an
\* instruction of an ordered template updates without reading it, when it does not
\* decode.
Tied ==
  /\ \A a \in query.final : a.n \in FindSharedStates => prog.kind = "mem"
  /\ \A e \in Steps :
       /\ read_set[e] \cap FindSharedStates \subseteq Reads(e)
       /\ Reads(e) # {} => e \in READ_list
       /\ prog.kind = "mem" => \A m, n \in Reads(e) : m = n
       /\ Mentioned(e) \subseteq read_set[e]

\* Every model of the constraint list is an execution of the machine that shows
\* what the client asked for: CheckSat never reports an execution that the
\* memory model (sc_manual.cc, tso_manual.cc) rules out.  It may do so when it
\* finds no address in a store, which it then takes for a source of any value.
SatIsExecution ==
  Complete /\ Satisfied /\ OneAtATime /\ Tied /\ NestedStores = {} => agree /\ Asked

\* Every execution of the machine that shows what the client asked for is a model
\* of the constraint list: no execution is lost, neither to the axioms nor to
\* what earlier, popped queries left in the lists of the unroller.
ExecutionIsSat == Complete /\ agree /\ Apart /\ Asked => Satisfied
=============================================================================
