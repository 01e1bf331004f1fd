------------------------------- MODULE AbsMem -------------------------------
(***************************************************************************)
(* The memory abstraction a verification target puts in the place of a     *)
(* memory that ILA and implementation share (absmem.cc): the Verilog       *)
(* module absmem, and absmem_ra, its variant with abstracted reads.        *)
(*                                                                         *)
(* Both sides start from one unknown memory.  Each side has one read port, *)
(* one write port and a log of depth one: what was written, and, in the    *)
(* variant, what was read first.  The module never updates the memory: it  *)
(* answers from the log or from the memory, and compares the logs.         *)
(***************************************************************************)
EXTENDS Naturals

CONSTANTS Addr, Data

NoEntry == [e |-> FALSE, a |-> 0, d |-> 0]

Entry(a, d) == [e |-> TRUE, a |-> a, d |-> d]

Hit(log, a) == log.e /\ log.a = a

(* The registers of one instance: the window start_and_on, the memory, and *)
(* of each side the written (m) and the first read entry (r).              *)
AbsMemReset(avoid, mem) ==
    [start_and_on |-> avoid, mem |-> mem,
     vlg_m |-> NoEntry, ila_m |-> NoEntry, vlg_r |-> NoEntry, ila_r |-> NoEntry]

(* Ports count only in the window and before the comparison.               *)
Real(am, en, compare) == en /\ ~compare /\ am.start_and_on

(* What a read returns: the side's own write; else the memory, or, when    *)
(* reads are abstracted, a free input.                                     *)
RData(am, ra, log, port, rand, compare) ==
    IF ~Real(am, port.en, compare) THEN rand
    ELSE IF Hit(log, port.a) THEN log.d
    ELSE IF ra THEN rand ELSE am.mem[port.a]

(* The log of writes: the plain module keeps the first write whatever      *)
(* follows, the variant lets a later write to the same address replace it. *)
LogWrite(ra, log, port, on) ==
    IF on /\ (~log.e \/ (ra /\ log.a = port.a)) THEN Entry(port.a, port.d) ELSE log

(* The log of reads keeps the free input of the first read, also where the *)
(* read was answered from the log of writes.                               *)
LogRead(ra, log, port, rand, on) ==
    IF ra /\ on /\ ~log.e THEN Entry(port.a, rand) ELSE log

(* The clock edge outside reset.                                           *)
AbsMemNext(am, ra, issue, compare, vr, vw, ir, iw, vrand, irand) ==
    [am EXCEPT
        !.start_and_on = @ \/ issue,
        !.vlg_m = LogWrite(ra, @, vw, Real(am, vw.en, compare)),
        !.ila_m = LogWrite(ra, @, iw, Real(am, iw.en, compare)),
        !.vlg_r = LogRead(ra, @, vr, vrand, Real(am, vr.en, compare)),
        !.ila_r = LogRead(ra, @, ir, irand, Real(am, ir.en, compare))]

(* One side's write is answered by the other side's write to the address,  *)
(* else by what the other side read there (variant), else by the memory    *)
(* (plain module); the variant gives up where nothing is known.            *)
Match(am, ra, mine, other, otherRead) ==
    mine.e => IF Hit(other, mine.a) THEN other.d = mine.d
              ELSE IF ra THEN Hit(otherRead, mine.a) /\ otherRead.d = mine.d
              ELSE am.mem[mine.a] = mine.d

Equal(am, ra, compare) ==
    /\ compare
    /\ Match(am, ra, am.ila_m, am.vlg_m, am.vlg_r)
    /\ Match(am, ra, am.vlg_m, am.ila_m, am.ila_r)

(* The variant's assumption: where both sides read one address first, they *)
(* read the same value.                                                    *)
ReadAssume(am, ra) ==
    ra /\ am.vlg_r.e /\ Hit(am.ila_r, am.vlg_r.a) => am.vlg_r.d = am.ila_r.d
=============================================================================
