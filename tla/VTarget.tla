------------------------------ MODULE VTarget -------------------------------
(***************************************************************************)
(* A verification target of VlgVerifTgtGen: the wrapper VlgSglTgtGen puts  *)
(* around the ILA's Verilog and an implementation, and the problem it      *)
(* hands to the back end (VlgSglTgtGen_Cosa).  The wrapper's monitor       *)
(* chooses the cycle in which the instruction starts, assumes the state    *)
(* mapping there, waits for the ready condition and asserts the mapping    *)
(* again; the properties ask whether that verdict is the one the           *)
(* commuting diagram defines, and whether the assumptions the wrapper      *)
(* makes of mapping, functions and reads ever remove an execution the      *)
(* implementation really has.                                              *)
(*                                                                         *)
(* The implementation is arbitrary: in every cycle it shows any values on  *)
(* the signals the refinement map names (env), so what holds here holds    *)
(* for every design.  A path ends where an assumption fails.  The history  *)
(* variable g follows the instruction independently of the monitor.        *)
(***************************************************************************)
EXTENDS Integers, Sequences, AbsMem

CONSTANTS
    Configs,       \* refinement maps with settings of the target generator
    Env(_, _)      \* what may show on the signals, by configuration and stage

VARIABLES cfg, cycle, mon, ila, fn, hold, am, env, g

vars == <<cfg, cycle, mon, ila, fn, hold, am, env, g>>

NoBound == -1      \* the field is not in the refinement map

Kinds == {"rf", "confirmed", "candidate"}   \* where an invariant comes from

----------------------------------------------------------------------------
(* The constructor: flushing needs all three fields, and some ready        *)
(* condition has to be there.  Everything else is a bad state, in which    *)
(* ConstructWrapper returns at once; two combinations abort.               *)
has_flush(c) == c.flushConstraint /\ c.preEnd /\ c.postEnd

BadState(c) ==
    \/ c.flushConstraint /\ ~has_flush(c)
    \/ ~c.readySignal /\ c.readyBound = NoBound

Accepted(c) == ~BadState(c) /\ ~(has_flush(c) /\ c.AvoidIssueStage)

(* The cycle counter: its bound, its width and where it stops.             *)
max_bound(c) == IF c.readyBound # NoBound THEN c.readyBound ELSE c.MaxBound

cnt_width(c) == CHOOSE w \in 1..8 :
    2^w >= max_bound(c) + 10 /\ \A v \in 1..(w - 1) : 2^v < max_bound(c) + 10

(* What the refinement maps may say: bounds that are there are natural,    *)
(* the back end resets for at least one cycle, and the counter is as wide  *)
(* as the code computes it.                                                *)
ASSUME ConfigAssumption ==
    \A c \in Configs :
        /\ c.readyBound \in Nat \cup {NoBound} /\ c.maxBound \in Nat \cup {NoBound}
        /\ c.MaxBound \in Nat /\ c.resetCycles \in Nat \ {0}
        /\ c.AvoidIssueStage \in BOOLEAN /\ c.invs \subseteq Kinds
        /\ c.unknown \in {"none", "then", "else"}
        /\ \E w \in 1..8 :
              2^w >= max_bound(c) + 10 /\ \A v \in 1..(w - 1) : 2^v < max_bound(c) + 10

(* A memory or a function may hold zero.                                   *)
ASSUME DataAssumption == 0 \in Data

CntInc(c, cnt) == IF cnt < max_bound(c) + 5 THEN (cnt + 1) % 2^cnt_width(c) ELSE cnt

----------------------------------------------------------------------------
(* What is assumed and asserted about invariants, by target: the INVARIANTS *)
(* target under each setting of ValidateSynthesizedInvariant, and the      *)
(* instruction target.  has are the kinds of invariants there are.         *)
\* Mutant: the candidates are assumed before they are checked
InvTableCircular(target, has) ==
    CASE target = "ALL"       -> [asserted |-> has, assumed |-> {}]
      [] target = "CANDIDATE" -> [asserted |-> has \cap {"candidate"},
                                  assumed |-> has \cap {"confirmed", "rf"}]
      [] target = "CONFIRMED" -> [asserted |-> has \cap {"confirmed"},
                                  assumed |-> has \cap {"rf", "candidate"}]
      [] target = "NOINV"     -> [asserted |-> has \cap {"rf"}, assumed |-> {}]
      [] OTHER                -> [asserted |-> {}, assumed |-> has]

InvTable(target, has) ==
    CASE target = "ALL"       -> [asserted |-> has, assumed |-> {}]
      [] target = "CANDIDATE" -> [asserted |-> has \cap {"candidate"},
                                  assumed |-> has \cap {"confirmed", "rf"}]
      [] target = "CONFIRMED" -> [asserted |-> has \cap {"confirmed"}, assumed |-> has \cap {"rf"}]
      [] target = "NOINV"     -> [asserted |-> has \cap {"rf"}, assumed |-> {}]
      [] OTHER                -> [asserted |-> {}, assumed |-> has]   \* INSTRUCTIONS

(* GenerateTargets makes an INVARIANTS target when the refinement map has  *)
(* invariants, or the setting asks for a kind there is.                    *)
invariantExists(setting, has) ==
    \/ "rf" \in has
    \/ setting \in {"ALL", "CONFIRMED"} /\ "confirmed" \in has
    \/ setting \in {"ALL", "CANDIDATE"} /\ "candidate" \in has

(* That target alarms in a state that violates viol.                       *)
InvAlarm(setting, has, viol) ==
    /\ invariantExists(setting, has)
    /\ InvTable(setting, has).assumed \cap viol = {}
    /\ InvTable(setting, has).asserted \cap viol # {}

----------------------------------------------------------------------------
(* The wires of the wrapper.  iend_cond is false, or a ready signal, or    *)
(* the count at the bound; a bound of zero is reported and adds nothing.   *)
iend_cond ==
    \/ cfg.readySignal /\ env.rdy
    \/ cfg.readyBound > 0 /\ mon.cnt = cfg.readyBound

MaxBoundConstr == cfg.maxBound # NoBound => mon.cnt <= cfg.maxBound

EDCOND == iend_cond /\ mon.STARTED

\* Mutant: nothing ends the checking
IENDAlways == iend_cond /\ mon.STARTED /\ mon.RESETED /\ MaxBoundConstr

IEND == /\ iend_cond /\ mon.STARTED /\ mon.RESETED
        /\ IF has_flush(cfg) THEN ~mon.FLUSHENDED ELSE ~mon.ENDED
        /\ MaxBoundConstr

ISSUE == IF has_flush(cfg) THEN env.pre /\ mon.RESETED
         ELSE IF cfg.ForceInstCheckReset THEN env.issue ELSE TRUE

ENDFLUSH == has_flush(cfg) /\ env.post /\ mon.ENDED

(* The end condition the memory abstraction gets (add_helper_memory).      *)
endCond == IF has_flush(cfg) THEN ENDFLUSH \/ mon.FLUSHENDED ELSE IEND \/ mon.ENDED

(* The reset sequence of the back end (rst.ets): rst holds for the first   *)
(* cycles, then never again.  An instruction target resets the monitor     *)
(* only, in one cycle, unless the reset is forced to drive the design.     *)
reset_cycles == IF cfg.ForceInstCheckReset THEN cfg.resetCycles ELSE 1

rst == cycle < reset_cycles

----------------------------------------------------------------------------
(* How far the monitor is, which decides what signals are looked at.       *)
Stage(m) == [START |-> m.START, STARTED |-> m.STARTED, ENDED |-> m.ENDED, FLUSHENDED |-> m.FLUSHENDED]

Stages == [START : BOOLEAN, STARTED : BOOLEAN, ENDED : BOOLEAN, FLUSHENDED : BOOLEAN]

(* The addresses on the ports are addresses.                               *)
ASSUME EnvAssumption ==
    \A c \in Configs, s \in Stages :
        \A e \in Env(c, s) : c.mem => e.x \in Addr /\ (e.vw.en => e.vw.a \in Addr)

(* One clock edge of the monitor's registers.                              *)
MonNext ==
    IF rst
    THEN [cnt |-> 0, START |-> cfg.AvoidIssueStage, STARTED |-> FALSE, ENDED |-> FALSE,
          SECOND |-> FALSE, RESETED |-> TRUE, FLUSHENDED |-> FALSE]
    ELSE [cnt |-> IF mon.START \/ mon.STARTED THEN CntInc(cfg, mon.cnt) ELSE mon.cnt,
          START |-> ~(mon.START \/ mon.STARTED) /\ ISSUE /\ ~cfg.AvoidIssueStage,
          STARTED |-> mon.STARTED \/ mon.START,
          ENDED |-> mon.ENDED \/ IEND,
          SECOND |-> mon.SECOND \/ (mon.ENDED /\ EDCOND),
          RESETED |-> mon.RESETED,
          FLUSHENDED |-> mon.FLUSHENDED \/ (ENDFLUSH /\ mon.ENDED)]

(* The ILA's Verilog (HdlGen): registers take a free value under reset and *)
(* execute the instruction in the START cycle; the memory ports follow     *)
(* START.  The instruction: u := f(u) for an uninterpreted f, or loads u   *)
(* from the memory and stores there, or toggles u; k is not updated.       *)
(* With IteUnknownAutoIgnore the update may be an ITE of which one arm is  *)
(* an unknown, that is a free input; a register keeps the condition.       *)
IlaGo == mon.START /\ env.dec

IlaRead == [en |-> cfg.mem /\ mon.START, a |-> env.x]

IlaWrite == [en |-> cfg.mem /\ IlaGo, a |-> env.x, d |-> env.d]

IlaLoad == RData(am, cfg.ra, am.ila_m, IlaRead, env.irand, endCond)

(* The instance of the memory abstraction, with the signals on its ports.  *)
AbsMemInst == AbsMemNext(am, cfg.ra, ISSUE, endCond, env.vr, env.vw, IlaRead, IlaWrite,
                         env.vrand, env.irand)

Known == /\ cfg.unknown = "then" => ~env.cond
         /\ cfg.unknown = "else" => env.cond

IlaUpdate == IF cfg.uf \/ ~Known THEN env.fres ELSE IF cfg.mem THEN IlaLoad ELSE 1 - ila.u

IlaNext == IF IlaGo THEN [ila EXCEPT !.u = IlaUpdate, !.c = env.cond] ELSE ila

----------------------------------------------------------------------------
(* The mapping of a state as a list of conditions and signals, the first   *)
(* condition that holds taken.  A mapping that is null, empty or malformed *)
(* says nothing: its list is empty, and the state is neither assumed nor   *)
(* checked.  u shows on a signal in the START cycle and, when a value      *)
(* holder is used, in the holder afterwards.                               *)
UMap == IF cfg.skipped THEN << >>
        ELSE IF cfg.holder
        THEN <<[cond |-> mon.START, sig |-> env.u], [cond |-> TRUE, sig |-> hold]>>
        ELSE <<[cond |-> TRUE, sig |-> env.u]>>

GetStateVarMapExpr(map, v) ==
    \A i \in DOMAIN map :
        map[i].cond /\ (\A j \in 1..(i - 1) : ~map[j].cond) => map[i].sig = v

EqU == GetStateVarMapExpr(UMap, ila.u)
EqK == env.k = ila.k

(* The assumptions of an instruction target.                               *)
VarmapAssumed == mon.START => EqU /\ (cfg.OnlyAssumeUpdatedVarsEq \/ EqK)

(* The default, in an instruction that has no "start condition" of its own. *)
StartCondition == mon.START => env.dec

NoReset == cfg.InstructionNoReset /\ mon.RESETED => ~env.dummy

(* Flushing is recognised by "flush constraint" and enforced from "flush   *)
(* constraints".                                                           *)
FlushEnforced ==
    has_flush(cfg) /\ cfg.flushConstraints =>
        /\ mon.RESETED /\ ~(mon.START \/ mon.STARTED) => env.flush
        /\ mon.ENDED => env.flush

(* A register that never changes stands for the value a signal has when    *)
(* the condition holds.                                                    *)
ValueHolder == cfg.holder /\ env.commit => hold = env.k

FuncRegs == cfg.uf /\ mon.START => fn.res = env.fres /\ fn.arg = ila.u

\* Mutant: the result is assumed whatever the argument
FuncMapUnconditional == cfg.uf => (env.rc => fn.res = env.fv)

(* The map names a signal for the argument and one for the result, each    *)
(* with its condition.                                                     *)
FuncMap == cfg.uf => ((env.ac => fn.arg = env.fa) => (env.rc => fn.res = env.fv))

(* "mapping control" and "assumptions": whatever the user assumes of the   *)
(* signals.                                                                *)
MappingControl == env.control

InvAssumed == InvTable("INSTRUCTIONS", cfg.invs).assumed \cap env.viol = {}

MemAssumed == cfg.mem => ReadAssume(am, cfg.ra)

Assumed == /\ VarmapAssumed /\ MappingControl /\ StartCondition /\ NoReset /\ FlushEnforced
           /\ ValueHolder /\ FuncRegs /\ FuncMap /\ MemAssumed /\ InvAssumed

(* The assertions: the mapping of each checked state at the end.           *)
CheckNow == IF has_flush(cfg) THEN ENDFLUSH ELSE IEND

(* The problem of the back end: an assertion counts once the reset is      *)
(* done; the bound of the search follows the counter's bound.  An update   *)
(* with an unknown arm is checked if its condition held.                   *)
AlarmU == ~rst /\ CheckNow /\ (cfg.unknown # "none" => ila.c) /\ ~EqU
AlarmK == ~rst /\ CheckNow /\ ~EqK /\ ~cfg.OnlyCheckInstUpdatedVars
AlarmM == ~rst /\ CheckNow /\ cfg.mem /\ ~Equal(am, cfg.ra, endCond)

\* Mutant: the search stops at the bound itself
ShortLength(c) == max_bound(c)

bmc_length(c) == max_bound(c) + 5

----------------------------------------------------------------------------
(* The instruction as the commuting diagram sees it: it starts in the      *)
(* START cycle from what the implementation shows there, and ends in the   *)
(* first cycle the ready condition holds, counted without a register.      *)
Ready == \/ cfg.readySignal /\ env.rdy
         \/ cfg.readyBound > 0 /\ g.since = cfg.readyBound

Ends == /\ g.phase = "run" /\ Ready
        /\ cfg.maxBound # NoBound => g.since <= cfg.maxBound

IdealCheck == IF has_flush(cfg) THEN g.phase = "ended" /\ env.post ELSE Ends

(* u's value at the check: the committed one when a holder is used.        *)
Committed == IF env.commit THEN env.k ELSE g.commit

ShownU == IF cfg.holder THEN Committed ELSE env.u

(* What the instruction makes of u, unless it leaves that open.            *)
ExpectU == [known |-> Known,
            v |-> IF cfg.uf THEN fn.f[env.u] ELSE IF cfg.mem THEN am.mem[env.x] ELSE 1 - env.u]

(* An execution is real as long as the free inputs and registers the       *)
(* wrapper adds have the values the memory and the function give, and the  *)
(* result signal of the design's function is right for its argument.       *)
RealNow ==
    /\ cfg.ra => (env.vr.en => env.vrand = am.mem[env.vr.a]) /\ (IlaRead.en => env.irand = am.mem[env.x])
    /\ cfg.uf => /\ mon.START /\ Known => env.fres = fn.f[env.u]
                 /\ fn.res = fn.f[fn.arg] /\ (env.rc => env.fv = fn.f[env.fa])

Store(m, port) == IF port.en THEN [m EXCEPT ![port.a] = port.d] ELSE m

(* More than the log of depth one can hold.                                *)
Exceeds(port) == port.en /\ g.wrote # {} /\ (cfg.ra => port.a \notin g.wrote)

GNext ==
    IF rst THEN g
    ELSE LET open == mon.START \/ g.phase \in {"run", "ended"}
             during == open /\ ~IdealCheck
             g1 == [g EXCEPT !.real = @ /\ RealNow, !.commit = Committed]
             \* the implementation's writes from the START cycle up to the check
             g2 == IF cfg.mem /\ during
                   THEN [g1 EXCEPT !.vmem = Store(@, env.vw),
                                   !.over = @ \/ Exceeds(env.vw),
                                   !.wrote = IF env.vw.en THEN @ \cup {env.vw.a} ELSE @]
                   ELSE g1
         IN IF mon.START
            THEN [g2 EXCEPT !.phase = "run", !.since = 1, !.u = ExpectU, !.k = env.k,
                            !.imem = Store(am.mem, [en |-> cfg.mem, a |-> env.x, d |-> env.d])]
            ELSE IF IdealCheck THEN [g2 EXCEPT !.phase = "done"]
            ELSE IF Ends THEN [g2 EXCEPT !.phase = "ended"]
            ELSE IF g.phase = "run" THEN [g2 EXCEPT !.since = @ + 1]
            ELSE g2

----------------------------------------------------------------------------
(* Before the reset the monitor's registers hold anything, and the signals *)
(* are at rest: the first edge resets whatever they could reach.           *)
MonInit(c) ==
    [cnt : {0, 2^cnt_width(c) - 1}, START : BOOLEAN, STARTED : BOOLEAN, ENDED : BOOLEAN,
     SECOND : {FALSE}, RESETED : BOOLEAN, FLUSHENDED : {has_flush(c)}]

AtRest(e) ==
    /\ e.u = 0 /\ e.k = 0 /\ e.dec = mon.START /\ e.viol = {} /\ e.fres = fn.res
    /\ e.control /\ ~e.commit /\ ~e.rc /\ ~e.rdy /\ ~e.dummy /\ ~e.vw.en /\ ~e.vr.en

Init ==
    /\ cfg \in {c \in Configs : Accepted(c)}
    /\ cycle = 0
    /\ mon \in MonInit(cfg)
    /\ ila \in [u : {0}, k : {0}, c : {FALSE}]
    /\ fn \in IF cfg.uf THEN [f : [Data -> Data], res : Data, arg : Data]
              ELSE {[f |-> [x \in Data |-> x], res |-> 0, arg |-> 0]}
    /\ hold \in IF cfg.holder THEN Data ELSE {0}
    /\ am \in {AbsMemReset(cfg.AvoidIssueStage, m) :
                  m \in IF cfg.mem THEN [Addr -> Data] ELSE {[x \in Addr |-> 0]}}
    /\ env \in {e \in Env(cfg, Stage(mon)) : AtRest(e)}
    /\ g = [phase |-> "idle", since |-> 0, u |-> [known |-> FALSE, v |-> 0], k |-> 0,
            commit |-> 2, real |-> TRUE, vmem |-> am.mem, imem |-> am.mem, over |-> FALSE, wrote |-> {}]

(* One clock cycle on a path that satisfies the assumptions, as deep as    *)
(* the back end searches.                                                  *)
Clock ==
    /\ Assumed
    /\ cycle < bmc_length(cfg)
    /\ cycle' = cycle + 1
    /\ mon' = MonNext
    /\ IF rst THEN ila' \in [u : Data, k : Data, c : {ila.c}] ELSE ila' = IlaNext
    /\ am' = IF rst THEN AbsMemReset(cfg.AvoidIssueStage, am.mem) ELSE AbsMemInst
    /\ env' \in Env(cfg, Stage(mon'))
    /\ g' = GNext
    /\ UNCHANGED <<cfg, fn, hold>>

Spec == Init /\ [][Clock]_vars

----------------------------------------------------------------------------
(* The verdict is the diagram's.  On a real execution the target alarms    *)
(* about a state exactly in the cycle the instruction ends, and exactly    *)
(* when the implementation then shows something other than the ILA         *)
(* reaches from what it showed at the start; about the memory, as long as  *)
(* the implementation writes no more than the abstraction can log, and     *)
(* with abstracted reads it may alarm where nothing is wrong.  A value the *)
(* instruction leaves open (the unknown in the else arm) is not compared.  *)
(* Left out: a state that was never assumed equal                          *)
(* (OnlyAssumeUpdatedVarsEq, a mapping that was skipped), an unknown in    *)
(* the then arm, a holder whose condition never held, and the cycles after *)
(* the first flushed check, in which it is repeated.                       *)
CheckExact ==
    Assumed /\ ~rst /\ g.real /\ RealNow /\ (has_flush(cfg) => g.phase # "done") =>
        /\ ShownU # 2 /\ ~cfg.skipped /\ cfg.unknown # "then" =>
              (AlarmU <=> IdealCheck /\ g.u.known /\ ShownU # g.u.v)
        /\ ~cfg.OnlyAssumeUpdatedVarsEq =>
              (AlarmK <=> IdealCheck /\ env.k # g.k /\ ~cfg.OnlyCheckInstUpdatedVars)
        /\ cfg.mem /\ ~g.over =>
              /\ IdealCheck /\ g.vmem # g.imem => AlarmM
              /\ AlarmM => IdealCheck /\ (cfg.ra \/ g.vmem # g.imem)

(* What the wrapper assumes of the mapping, of functions and of first      *)
(* reads removes no real execution, so that a wrong implementation is not  *)
(* hidden: not the mapping where the ILA starts from what the              *)
(* implementation shows, not the function map where the design names       *)
(* argument and result in the same cycle, and not the first reads of the   *)
(* memory.  And where an assumed invariant removes one, that is reported:  *)
(* by the INVARIANTS target that asserts all kinds, and by one of the      *)
(* three that assert a kind each, given the kinds before it.  Nothing is   *)
(* said of the value holder, the start condition, the flush constraints    *)
(* and the user's own assumptions, which do remove executions.             *)
RealPathKept ==
    /\ ~rst /\ g.real /\ RealNow =>
         /\ mon.START /\ ila.u = env.u /\ ila.k = env.k => VarmapAssumed
         /\ (env.rc => env.ac) => FuncMap
         /\ MemAssumed
    /\ ~InvAssumed =>
         LET bad == cfg.invs \cap env.viol
         IN /\ InvAlarm("ALL", cfg.invs, bad)
            /\ \E s \in {"NOINV", "CONFIRMED", "CANDIDATE"} : InvAlarm(s, cfg.invs, bad)

(* The function map removes no real execution, in whichever cycles         *)
(* argument and result are named.                                          *)
FuncMapKept == ~rst /\ g.real /\ RealNow => FuncMap

(* vtarget_gen.h, IteUnknownAutoIgnore: with an unknown in one arm only    *)
(* what the other arm gives is compared, in whichever arm it stands.       *)
UnknownIgnored == g.phase # "idle" /\ ~cfg.uf /\ AlarmU => g.u.known

(* The back end's search is deep enough: when it stops, every path of a    *)
(* target with a ready bound has come to its check.                        *)
BmcReaches ==
    /\ cycle = bmc_length(cfg)
    /\ cfg.readyBound > 0 /\ ~has_flush(cfg) /\ ~cfg.ForceInstCheckReset
    /\ cfg.maxBound # NoBound => cfg.maxBound >= cfg.readyBound
    => g.phase = "done" \/ IdealCheck
=============================================================================
