------------------------------- MODULE HdlGen -------------------------------
(***************************************************************************)
(* The Verilog module VerilogGenerator writes for one instruction          *)
(* (ExportTopLevelInstr) or for a flat ILA (ExportIla): its registers, its *)
(* memory write ports, and what they do at a clock edge.                   *)
(*                                                                         *)
(* A configuration is a record: start, whether the start signal is used    *)
(* (cfg.start_signal); ext, whether the memory is external (cfg.extMem);   *)
(* ins, the instruction exported, or 0 for the whole ILA.  The wires of    *)
(* the module are functions of the state and the input, so the expressions *)
(* of the ILA stand for the wires they are translated to                   *)
(* (ParseNonMemUpdateExpr; the operators themselves are in ExprOps).       *)
(***************************************************************************)
EXTENDS IlaExpr, SequencesExt, FiniteSetsExt

(* The shape the generator accepts for the update of a memory: stores and  *)
(* ITEs over the memory itself, and no load from anything but a memory     *)
(* variable.                                                               *)
CheckMemUpdateNode(nodes) ==
    LET ok[i \in DOMAIN nodes] ==
          CASE nodes[i].k = "var"   -> nodes[i].v = "m"
            [] nodes[i].k = "store" -> ok[nodes[i].a[1]]
            [] nodes[i].k = "ite"   -> ok[nodes[i].a[2]] /\ ok[nodes[i].a[3]]
            [] OTHER                -> FALSE
    IN ok

LoadFromVar(nodes, i) == nodes[i].k = "load" => ~is_op(nodes[nodes[i].a[1]])

(* Expression nodes the generator can turn into wires.                     *)
ParseNonMemUpdateExpr(nodes, e) ==
    \A i \in Reach(nodes)[e] :
        LoadFromVar(nodes, i) /\ (nodes[i].k = "ite" => i \notin MemNodes(nodes))

----------------------------------------------------------------------------
(* Memory writes.  A path through the ITEs of an update is the branches it *)
(* takes and the writes it meets, from the outermost store inwards.        *)
Path(conds, writes) == [conds |-> conds, writes |-> writes]

VisitMemNodes(nodes) ==
    LET paths[i \in DOMAIN nodes] ==
          LET a == nodes[i].a
              Under(p, val) == [q \in DOMAIN p |->
                    Path(p[q].conds \cup {<<a[1], val>>}, p[q].writes)]
          IN CASE nodes[i].k = "ite" -> Under(paths[a[2]], 1) \o Under(paths[a[3]], 0)
               [] nodes[i].k = "store" ->
                    [q \in DOMAIN paths[a[1]] |->
                        Path(paths[a[1]][q].conds,
                             <<[addr |-> a[2], data |-> a[3]]>> \o paths[a[1]][q].writes)]
               [] OTHER -> <<Path({}, <<>>)>>
    IN paths

(* The paths of the update of the memory under the condition cond.         *)
ParseMemUpdateNode(nodes, cond, e) ==
    LET p == VisitMemNodes(nodes)[e]
    IN [q \in DOMAIN p |-> Path(p[q].conds \cup cond, p[q].writes)]

(* One write port per position in the longest path.  The port takes the    *)
(* first path that holds and reaches it; with a start signal its enable    *)
(* needs the signal too.                                                   *)
NumPorts(list) == Max({0} \cup {Len(list[q].writes) : q \in DOMAIN list})

ExportCondWrites(list, p, v, start) ==
    LET hits == {q \in DOMAIN list :
                    /\ Len(list[q].writes) >= p
                    /\ \A c \in list[q].conds : v[c[1]] = c[2]}
        w == list[Min(hits)].writes[p]
    IN IF hits = {} \/ ~start THEN [wen |-> FALSE, addr |-> 0, data |-> 0]
       ELSE [wen |-> TRUE, addr |-> v[w.addr], data |-> v[w.data]]

(* The assignments to the memory at the clock edge, one after the other in *)
(* the order of the ports: of two to one address the last one stays.       *)
WriteMem(list, v, start, mem) ==
    FoldLeft(LAMBDA mm, p : LET port == ExportCondWrites(list, p, v, start)
                            IN IF port.wen THEN [mm EXCEPT ![port.addr] = port.data] ELSE mm,
             mem, [p \in 1..NumPorts(list) |-> p])

----------------------------------------------------------------------------
(* The updates of the module of a whole ILA.  A register takes the update  *)
(* of the first granted instruction that decodes among those that update   *)
(* it; the memory an ITE over all instructions, the last one outermost,    *)
(* which the grant does not enter.                                         *)
Updaters(m, s) == {i \in DOMAIN m.instrs : s \in DOMAIN m.instrs[i].upd}

ExportIlaReg(m, s, v, grant, old) ==
    LET on == {i \in Updaters(m, s) : v[m.instrs[i].decode] = 1 /\ i \in grant}
    IN IF on = {} THEN old ELSE v[m.instrs[Min(on)].upd[s]]

ExportIlaMem(m) ==
    LET after[i \in 0..Len(m.instrs)] ==
          \* the paths of the ITE over the first i instructions
          IF i = 0 THEN <<Path({}, <<>>)>>
          ELSE IF i \notin Updaters(m, "m") THEN after[i - 1]
          ELSE LET d == m.instrs[i].decode
               IN ParseMemUpdateNode(m.nodes, {<<d, 1>>}, m.instrs[i].upd["m"])
                  \o [q \in DOMAIN after[i - 1] |->
                        Path(after[i - 1][q].conds \cup {<<d, 0>>}, after[i - 1][q].writes)]
    IN after[Len(m.instrs)]

(* The updates of the module of one instruction: every state is assigned   *)
(* when the instruction decodes, one that is not updated to itself.        *)
ExportTopLevelInstrReg(m, i, s, v, old) ==
    IF v[m.instrs[i].decode] = 1 /\ s \in DOMAIN m.instrs[i].upd
    THEN v[m.instrs[i].upd[s]] ELSE old

ExportTopLevelInstrMem(m, i) ==
    IF "m" \in DOMAIN m.instrs[i].upd
    THEN ParseMemUpdateNode(m.nodes, {<<m.instrs[i].decode, 1>>}, m.instrs[i].upd["m"])
    ELSE <<>>

(* The counter of the cycles since the last decode; it is eight bits wide  *)
(* and saturates.                                                          *)
CounterMax == 255

addInternalCounter(decode, ctr) ==
    IF decode THEN 1 ELSE IF ctr \in 1..(CounterMax - 1) THEN ctr + 1 ELSE ctr

----------------------------------------------------------------------------
(* One clock edge outside reset: registers and an internal memory move     *)
(* only when the ILA is valid (and started); the ports of an external      *)
(* memory look at the start signal alone.                                  *)
Go(m, cfg, v, start) == v[m.valid] = 1 /\ (cfg.start => start)

DumpToFile(m, cfg, s, x, start, grant) ==
    LET v == Val(m.nodes, s, x)
        go == Go(m, cfg, v, start)
        list == IF cfg.ins = 0 THEN ExportIlaMem(m) ELSE ExportTopLevelInstrMem(m, cfg.ins)
        Reg(r) == IF ~go THEN s[r]
                  ELSE IF cfg.ins = 0 THEN ExportIlaReg(m, r, v, grant, s[r])
                  ELSE ExportTopLevelInstrReg(m, cfg.ins, r, v, s[r])
    IN [w \in States |->
          IF w # "m" THEN Reg(w)
          ELSE IF cfg.ext \/ go THEN WriteMem(list, v, cfg.start => start, s.m)
          ELSE s.m]

----------------------------------------------------------------------------
(* The ILAs for which the generated module is claimed to be right.  The    *)
(* rest is refused, warned about, or wrong; the README lists which.        *)
Exclusive(m) ==
    \A i, j \in DOMAIN m.instrs :
        i < j => LET d == m.nodes[m.instrs[j].decode]
                 IN d.k = "not" /\ d.a[1] = m.instrs[i].decode

(* No two writes of one path can meet at an address.                       *)
OneWritePerAddress(m) ==
    \A i \in Updaters(m, "m") :
        LET p == VisitMemNodes(m.nodes)[m.instrs[i].upd["m"]]
        IN \A q \in DOMAIN p : \A j, k \in DOMAIN p[q].writes :
              j < k => LET a == m.nodes[p[q].writes[j].addr]
                           b == m.nodes[p[q].writes[k].addr]
                       IN a.k = "const" /\ b.k = "const" /\ a.v # b.v

HdlSupported(m) ==
    /\ \A i \in DOMAIN m.instrs :
         /\ m.instrs[i].top
         /\ \A s \in DOMAIN m.instrs[i].upd :
              IF s = "m"
              THEN /\ CheckMemUpdateNode(m.nodes)[m.instrs[i].upd.m]
                   /\ \A n \in Reach(m.nodes)[m.instrs[i].upd.m] : LoadFromVar(m.nodes, n)
              ELSE ParseNonMemUpdateExpr(m.nodes, m.instrs[i].upd[s])
    /\ DOMAIN m.init = {}
    /\ OneWritePerAddress(m)

(* Where a memory goes: the annotation of the memory, if it has one,       *)
(* overrides the configuration.                                            *)
insertState(extMem, annotation) == IF annotation = {} THEN extMem ELSE TRUE \in annotation

(* Configurations: exporting the whole ILA needs exclusive decodes, an     *)
(* external memory a valid condition that always holds.                    *)
HdlConfigs(m) ==
    {c \in {[start |-> b, ext |-> insertState(e, ann), ins |-> i]
              : b \in BOOLEAN, e \in BOOLEAN, ann \in {{}, {TRUE}, {FALSE}},
                i \in 0..Len(m.instrs)} :
        /\ c.ins = 0 => Exclusive(m)
        /\ c.ext => m.nodes[m.valid].k = "const" /\ m.nodes[m.valid].v = 1}
============================================================================
