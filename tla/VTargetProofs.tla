---------------------------- MODULE VTargetProofs ---------------------------
(***************************************************************************)
(* Proofs about VTarget: for every refinement map and setting the target   *)
(* generator accepts, every bound, every memory and every implementation,  *)
(* the wrapper's verdict is the one of the commuting diagram, what it      *)
(* assumes of mapping, functions and first reads hides no real execution,  *)
(* and the back end searches deep enough.                                  *)
(*                                                                         *)
(* The invariant relates the monitor's registers, which the code           *)
(* generates, to the phase of the instruction, which the history variable  *)
(* follows on its own; the logs of the memory abstraction to the memory    *)
(* each side would have; and the counter to the cycles since the start,    *)
(* which it equals because it is wide enough never to wrap on a path the   *)
(* back end searches.                                                      *)
(***************************************************************************)
EXTENDS VTarget, TLAPS

(* The records the steps update field by field.                            *)
Shapes ==
    /\ ila = [u |-> ila.u, k |-> ila.k, c |-> ila.c]
    /\ am = [start_and_on |-> am.start_and_on, mem |-> am.mem, vlg_m |-> am.vlg_m,
             ila_m |-> am.ila_m, vlg_r |-> am.vlg_r, ila_r |-> am.ila_r]
    /\ g = [phase |-> g.phase, since |-> g.since, u |-> g.u, k |-> g.k, commit |-> g.commit,
            real |-> g.real, vmem |-> g.vmem, imem |-> g.imem, over |-> g.over, wrote |-> g.wrote]

(* What is needed of types: the configuration is an accepted one, what is  *)
(* counted is a number, the memory is a function on the addresses.         *)
Typing ==
    /\ cfg \in Configs /\ Accepted(cfg)
    /\ cycle \in Nat /\ cycle <= bmc_length(cfg)
    /\ mon.cnt \in Nat /\ g.since \in Nat
    /\ mon.START \in BOOLEAN /\ mon.STARTED \in BOOLEAN /\ mon.ENDED \in BOOLEAN
    /\ mon.FLUSHENDED \in BOOLEAN
    /\ am.mem \in [Addr -> Data]
    /\ cfg.mem => env.x \in Addr /\ (env.vw.en => env.vw.a \in Addr)

(* Until the reset is done the instruction has not started.                *)
ResetInv ==
    rst => /\ g.phase = "idle" /\ g.since = 0 /\ g.commit = 2
           /\ g.vmem = am.mem /\ g.wrote = {} /\ ~g.over

(* The registers of the monitor say in which phase the instruction is, and *)
(* the window of the memory abstraction opens with the START cycle.        *)
PhaseInv ==
    /\ g.phase \in {"idle", "run", "ended", "done"}
    /\ ~rst =>
         /\ mon.RESETED
         /\ am.start_and_on <=> mon.START \/ mon.STARTED
         /\ mon.START => ~mon.STARTED
         /\ mon.STARTED <=> g.phase # "idle"
         /\ mon.ENDED <=> g.phase \in {"ended", "done"}
         /\ mon.FLUSHENDED <=> has_flush(cfg) /\ g.phase = "done"
         /\ g.phase = "ended" => has_flush(cfg)

(* The counter counts the cycles since START, and these fit in it.         *)
CountInv ==
    ~rst => /\ g.phase = "idle" => mon.cnt = 0
            /\ g.phase = "run" => mon.cnt = g.since /\ g.since >= 1 /\ g.since < cycle

(* On a real execution the ILA has reached what the diagram expects, the   *)
(* register kept whether that is known, and the value holder stands for    *)
(* the committed value.                                                    *)
ValueInv ==
    ~rst => /\ g.phase # "idle" /\ g.real =>
                 /\ ~cfg.skipped /\ g.u.known => ila.u = g.u.v
                 /\ cfg.unknown = "none" => g.u.known
                 /\ cfg.unknown = "else" => (g.u.known <=> ila.c)
                 /\ cfg.OnlyAssumeUpdatedVarsEq \/ ila.k = g.k
            /\ cfg.holder => g.commit = 2 \/ g.commit = hold

(* On a real execution the first reads are reads of the memory.            *)
ReadInv ==
    ~rst /\ g.real /\ cfg.ra =>
        /\ am.vlg_r.e => am.vlg_r.d = am.mem[am.vlg_r.a]
        /\ am.ila_r.e => am.ila_r.d = am.mem[am.ila_r.a]

(* The log of one side gives the memory that side would have: the ILA      *)
(* writes once, and so does the implementation until it exceeds the log.   *)
LogInv ==
    ~rst /\ cfg.mem =>
        /\ g.phase = "idle" => ~am.ila_m.e /\ ~am.vlg_m.e
        /\ g.phase # "idle" =>
             /\ am.ila_m.e /\ am.ila_m.a \in Addr
             /\ g.imem = [am.mem EXCEPT ![am.ila_m.a] = am.ila_m.d]
        /\ ~g.over /\ am.vlg_m.e =>
             /\ am.vlg_m.a \in Addr /\ g.wrote = {am.vlg_m.a}
             /\ g.vmem = [am.mem EXCEPT ![am.vlg_m.a] = am.vlg_m.d]
        /\ ~g.over /\ ~am.vlg_m.e => g.wrote = {} /\ g.vmem = am.mem

(* Without the issue stage the instruction starts right after the reset.   *)
AvoidInv == ~rst /\ cfg.AvoidIssueStage => mon.START \/ mon.STARTED

(* When the instruction starts and ends, in a target without flushing that *)
(* resets the monitor only: nothing delays START, and the ready bound is   *)
(* never passed.                                                           *)
TimeInv ==
    ~has_flush(cfg) /\ ~cfg.ForceInstCheckReset =>
        /\ cycle = 2 => mon.START \/ g.phase # "idle"
        /\ cycle >= 3 => g.phase # "idle"
        /\ g.phase = "run" =>
             /\ g.since >= cycle - 2
             /\ cfg.readyBound > 0 /\ (cfg.maxBound # NoBound => cfg.maxBound >= cfg.readyBound)
                  => g.since <= cfg.readyBound

TargetInv ==
    /\ Shapes /\ Typing /\ ResetInv /\ PhaseInv /\ CountInv
    /\ ValueInv /\ ReadInv /\ LogInv /\ AvoidInv /\ TimeInv

----------------------------------------------------------------------------
(* The width of the counter is a number of bits, and what it counts modulo *)
(* exceeds the bound by ten.                                               *)
LEMMA PowerOfTwo == ASSUME NEW w \in 1..8 PROVE 2^w \in Nat
<1>1. w = 1 \/ w = 2 \/ w = 3 \/ w = 4 \/ w = 5 \/ w = 6 \/ w = 7 \/ w = 8
  OBVIOUS
<1>2. /\ 2^1 \in Nat /\ 2^2 \in Nat /\ 2^3 \in Nat /\ 2^4 \in Nat
      /\ 2^5 \in Nat /\ 2^6 \in Nat /\ 2^7 \in Nat /\ 2^8 \in Nat
  BY SMT
<1> QED BY <1>1, <1>2, Zenon

(* A bound is a natural number.                                            *)
LEMMA BoundIsNat == ASSUME NEW c \in Configs PROVE max_bound(c) \in Nat
BY ConfigAssumption DEF max_bound, NoBound

(* The counter is wide enough.                                             *)
LEMMA WideEnough ==
    ASSUME NEW c \in Configs
    PROVE  2^cnt_width(c) \in Nat /\ 2^cnt_width(c) >= max_bound(c) + 10
<1> DEFINE Fits(w) == 2^w >= max_bound(c) + 10 /\ \A v \in 1..(w - 1) : 2^v < max_bound(c) + 10
<1>1. \E w \in 1..8 : Fits(w)
  BY ConfigAssumption
<1>2. cnt_width(c) = CHOOSE w \in 1..8 : Fits(w)
  BY DEF cnt_width
<1> HIDE DEF Fits
<1>3. cnt_width(c) \in 1..8 /\ Fits(cnt_width(c))
  BY <1>1, <1>2, Zenon
<1> QED BY <1>3, PowerOfTwo DEF Fits

(* On a path the back end searches the counter neither stops nor wraps.    *)
LEMMA Counts ==
    ASSUME NEW c \in Configs, NEW n \in Nat, n < max_bound(c) + 5
    PROVE  CntInc(c, n) = n + 1
<1> DEFINE b == max_bound(c)
<1> DEFINE w == 2^cnt_width(c)
<1>1. b \in Nat /\ w \in Nat /\ w >= b + 10 /\ n < b + 5
  BY BoundIsNat, WideEnough
<1>2. CntInc(c, n) = IF n < b + 5 THEN (n + 1) % w ELSE n
  BY DEF CntInc
<1> HIDE DEF b, w
<1>3. n + 1 \in 0..(w - 1)
  BY <1>1
<1>4. (n + 1) % w = n + 1
  BY <1>1, <1>3
<1> QED BY <1>1, <1>2, <1>4

----------------------------------------------------------------------------
(* In the phase run the ready condition the wrapper reads off its counter  *)
(* is the one counted without a register.                                  *)
LEMMA ReadyAgrees ==
    ASSUME TargetInv, ~rst, g.phase = "run"
    PROVE  (iend_cond <=> Ready) /\ (MaxBoundConstr <=> (cfg.maxBound # NoBound => g.since <= cfg.maxBound))
BY DEF TargetInv, CountInv, iend_cond, Ready, MaxBoundConstr

(* The wires of the wrapper in terms of the phase: it ends the             *)
(* instruction where it ends, and closes the memory's window with the      *)
(* check.                                                                  *)
LEMMA Wires ==
    ASSUME TargetInv, ~rst
    PROVE  /\ Ends => IEND
           /\ IEND => Ends \/ g.phase \in {"ended", "done"}
           /\ ~has_flush(cfg) => (IEND <=> Ends) /\ (IdealCheck <=> Ends)
           /\ has_flush(cfg) => (ENDFLUSH <=> env.post /\ g.phase \in {"ended", "done"})
           /\ has_flush(cfg) /\ g.phase # "done" => (ENDFLUSH <=> IdealCheck)
           /\ endCond <=> IdealCheck \/ g.phase = "done"
<1>1. /\ mon.RESETED /\ (mon.STARTED <=> g.phase # "idle")
      /\ mon.ENDED <=> g.phase \in {"ended", "done"}
      /\ mon.FLUSHENDED <=> has_flush(cfg) /\ g.phase = "done"
      /\ g.phase = "ended" => has_flush(cfg)
      /\ g.phase \in {"idle", "run", "ended", "done"}
  BY DEF TargetInv, PhaseInv
<1>2. Ends => IEND
  BY <1>1, ReadyAgrees DEF Ends, IEND
<1>3. IEND => Ends \/ g.phase \in {"ended", "done"}
  BY <1>1, ReadyAgrees DEF Ends, IEND
<1>4. ~has_flush(cfg) => (IEND <=> Ends) /\ (IdealCheck <=> Ends)
  BY <1>1, <1>2, <1>3 DEF IEND, IdealCheck
<1>5. has_flush(cfg) => (ENDFLUSH <=> env.post /\ g.phase \in {"ended", "done"})
  BY <1>1 DEF ENDFLUSH
<1>6. has_flush(cfg) /\ g.phase # "done" => (ENDFLUSH <=> IdealCheck)
  BY <1>5, <1>1 DEF IdealCheck
<1>7. endCond <=> IdealCheck \/ g.phase = "done"
  BY <1>1, <1>4, <1>5, <1>6 DEF endCond, IdealCheck
<1> QED BY <1>2, <1>3, <1>4, <1>5, <1>6, <1>7

(* In the START cycle nothing ends.                                        *)
LEMMA AtStart ==
    ASSUME TargetInv, ~rst, mon.START
    PROVE  /\ g.phase = "idle" /\ ~IdealCheck /\ ~Ends /\ ~endCond
           /\ am.start_and_on /\ ~mon.STARTED
<1>1. g.phase = "idle" /\ am.start_and_on /\ ~mon.STARTED
  BY DEF TargetInv, PhaseInv
<1>2. ~Ends /\ ~IdealCheck
  BY <1>1 DEF Ends, IdealCheck
<1> QED BY <1>1, <1>2, Wires

(* What the history variable does in a cycle, field by field.              *)
LEMMA GFields ==
    ASSUME Shapes, ~rst, g' = GNext
    PROVE  LET during == (mon.START \/ g.phase \in {"run", "ended"}) /\ ~IdealCheck
           IN /\ g' = [phase |-> g'.phase, since |-> g'.since, u |-> g'.u, k |-> g'.k,
                       commit |-> g'.commit, real |-> g'.real, vmem |-> g'.vmem,
                       imem |-> g'.imem, over |-> g'.over, wrote |-> g'.wrote]
              /\ g'.real = (g.real /\ RealNow) /\ g'.commit = Committed
              /\ g'.phase = IF mon.START THEN "run" ELSE IF IdealCheck THEN "done"
                            ELSE IF Ends THEN "ended" ELSE g.phase
              /\ g'.since = IF mon.START THEN 1
                            ELSE IF ~IdealCheck /\ ~Ends /\ g.phase = "run" THEN g.since + 1
                            ELSE g.since
              /\ g'.u = IF mon.START THEN ExpectU ELSE g.u
              /\ g'.k = IF mon.START THEN env.k ELSE g.k
              /\ g'.imem = IF mon.START
                           THEN Store(am.mem, [en |-> cfg.mem, a |-> env.x, d |-> env.d])
                           ELSE g.imem
              /\ cfg.mem /\ during =>
                   /\ g'.vmem = Store(g.vmem, env.vw)
                   /\ g'.over = (g.over \/ Exceeds(env.vw))
                   /\ g'.wrote = IF env.vw.en THEN g.wrote \cup {env.vw.a} ELSE g.wrote
              /\ ~(cfg.mem /\ during) =>
                   g'.vmem = g.vmem /\ g'.over = g.over /\ g'.wrote = g.wrote
<1> DEFINE during == (mon.START \/ g.phase \in {"run", "ended"}) /\ ~IdealCheck
<1> DEFINE g1 == [g EXCEPT !.real = @ /\ RealNow, !.commit = Committed]
<1> DEFINE g2 == IF cfg.mem /\ during
                 THEN [g1 EXCEPT !.vmem = Store(@, env.vw),
                                 !.over = @ \/ Exceeds(env.vw),
                                 !.wrote = IF env.vw.en THEN @ \cup {env.vw.a} ELSE @]
                 ELSE g1
<1> DEFINE im == Store(am.mem, [en |-> cfg.mem, a |-> env.x, d |-> env.d])
<1>1. g1 = [phase |-> g.phase, since |-> g.since, u |-> g.u, k |-> g.k, commit |-> Committed,
            real |-> (g.real /\ RealNow), vmem |-> g.vmem, imem |-> g.imem, over |-> g.over,
            wrote |-> g.wrote]
  <2> DEFINE r == g.real /\ RealNow
  <2>1. g1 = [g EXCEPT !.real = r, !.commit = Committed]
    OBVIOUS
  <2>2. g = [phase |-> g.phase, since |-> g.since, u |-> g.u, k |-> g.k, commit |-> g.commit,
             real |-> g.real, vmem |-> g.vmem, imem |-> g.imem, over |-> g.over,
             wrote |-> g.wrote]
    BY DEF Shapes
  <2> HIDE DEF r, g1
  <2>3. g1 = [phase |-> g.phase, since |-> g.since, u |-> g.u, k |-> g.k, commit |-> Committed,
              real |-> r, vmem |-> g.vmem, imem |-> g.imem, over |-> g.over,
              wrote |-> g.wrote]
    BY <2>1, <2>2
  <2> QED BY <2>3 DEF r
<1>2. g' = IF mon.START
           THEN [g2 EXCEPT !.phase = "run", !.since = 1, !.u = ExpectU, !.k = env.k, !.imem = im]
           ELSE IF IdealCheck THEN [g2 EXCEPT !.phase = "done"]
           ELSE IF Ends THEN [g2 EXCEPT !.phase = "ended"]
           ELSE IF g.phase = "run" THEN [g2 EXCEPT !.since = @ + 1]
           ELSE g2
  BY DEF GNext
<1> DEFINE vm == IF cfg.mem /\ during THEN Store(g.vmem, env.vw) ELSE g.vmem
<1> DEFINE ov == IF cfg.mem /\ during THEN g.over \/ Exceeds(env.vw) ELSE g.over
<1> DEFINE wr == IF cfg.mem /\ during
                 THEN (IF env.vw.en THEN g.wrote \cup {env.vw.a} ELSE g.wrote) ELSE g.wrote
<1> HIDE DEF during, im
<1>3. g2 = [phase |-> g.phase, since |-> g.since, u |-> g.u, k |-> g.k, commit |-> Committed,
            real |-> (g.real /\ RealNow), vmem |-> vm, imem |-> g.imem, over |-> ov,
            wrote |-> wr]
  <2> DEFINE r == g.real /\ RealNow
             sv == Store(g.vmem, env.vw)
             so == g.over \/ Exceeds(env.vw)
             sw == IF env.vw.en THEN g.wrote \cup {env.vw.a} ELSE g.wrote
  <2>1. g1 = [phase |-> g.phase, since |-> g.since, u |-> g.u, k |-> g.k, commit |-> Committed,
              real |-> r, vmem |-> g.vmem, imem |-> g.imem, over |-> g.over,
              wrote |-> g.wrote]
    BY <1>1
  <2>2. CASE cfg.mem /\ during
    <3>1. g2 = [g1 EXCEPT !.vmem = sv, !.over = so, !.wrote = sw]
      <4>1. g1.vmem = g.vmem /\ g1.over = g.over /\ g1.wrote = g.wrote BY <2>1
      <4> HIDE DEF g1
      <4> QED BY <2>2, <4>1
    <3>2. vm = sv /\ ov = so /\ wr = sw BY <2>2
    <3> HIDE DEF r, sv, so, sw, g1, g2, vm, ov, wr
    <3>3. g2 = [phase |-> g.phase, since |-> g.since, u |-> g.u, k |-> g.k,
                commit |-> Committed, real |-> r, vmem |-> sv, imem |-> g.imem,
                over |-> so, wrote |-> sw]
      BY <2>1, <3>1
    <3> QED BY <3>2, <3>3 DEF r
  <2>3. CASE ~(cfg.mem /\ during)
    <3>1. g2 = g1 /\ vm = g.vmem /\ ov = g.over /\ wr = g.wrote BY <2>3
    <3> HIDE DEF g1, g2, vm, ov, wr
    <3> QED BY <1>1, <3>1
  <2> QED BY <2>2, <2>3
<1> HIDE DEF g1, g2, vm, ov, wr
<1> DEFINE rr == g.real /\ RealNow
<1>9. g2 = [phase |-> g.phase, since |-> g.since, u |-> g.u, k |-> g.k, commit |-> Committed,
            real |-> rr, vmem |-> vm, imem |-> g.imem, over |-> ov, wrote |-> wr]
  BY <1>3
<1> HIDE DEF rr
<1> DEFINE Out(p, s, u, k, i) ==
      [phase |-> p, since |-> s, u |-> u, k |-> k, commit |-> Committed,
       real |-> rr, vmem |-> vm, imem |-> i, over |-> ov, wrote |-> wr]
<1>4. CASE mon.START
  <2>1. g' = [g2 EXCEPT !.phase = "run", !.since = 1, !.u = ExpectU, !.k = env.k, !.imem = im]
    BY <1>2, <1>4
  <2> DEFINE q == [g2 EXCEPT !.phase = "run"]
             r == [q EXCEPT !.since = 1]
             h == [r EXCEPT !.u = ExpectU]
  <2>2. g' = [h EXCEPT !.k = env.k, !.imem = im]
    BY <2>1
  <2>3. q = Out("run", g.since, g.u, g.k, g.imem)
    BY <1>9
  <2> HIDE DEF q
  <2>4. r = Out("run", 1, g.u, g.k, g.imem)
    BY <2>3
  <2> HIDE DEF r
  <2>5. h = Out("run", 1, ExpectU, g.k, g.imem)
    BY <2>4
  <2> HIDE DEF h
  <2>6. g' = Out("run", 1, ExpectU, env.k, im)
    BY <2>2, <2>5
  <2> QED BY <2>6, <1>4 DEF rr, vm, ov, wr, during, im
<1>5. CASE ~mon.START /\ IdealCheck
  <2>1. g' = [g2 EXCEPT !.phase = "done"]
    BY <1>2, <1>5
  <2>2. g' = Out("done", g.since, g.u, g.k, g.imem)
    BY <1>9, <2>1
  <2> QED BY <2>2, <1>5 DEF rr, vm, ov, wr, during
<1>6. CASE ~mon.START /\ ~IdealCheck /\ Ends
  <2>1. g' = [g2 EXCEPT !.phase = "ended"]
    BY <1>2, <1>6
  <2>2. g' = Out("ended", g.since, g.u, g.k, g.imem)
    BY <1>9, <2>1
  <2> QED BY <2>2, <1>6 DEF rr, vm, ov, wr, during
<1>7. CASE ~mon.START /\ ~IdealCheck /\ ~Ends /\ g.phase = "run"
  <2>1. g' = Out(g.phase, g.since + 1, g.u, g.k, g.imem)
    BY <1>2, <1>9, <1>7
  <2> QED BY <2>1, <1>7 DEF rr, vm, ov, wr, during
<1>8. CASE ~mon.START /\ ~IdealCheck /\ ~Ends /\ g.phase # "run"
  <2>1. g' = Out(g.phase, g.since, g.u, g.k, g.imem)
    BY <1>2, <1>9, <1>8
  <2> QED BY <2>1, <1>8 DEF rr, vm, ov, wr, during
<1> QED BY <1>4, <1>5, <1>6, <1>7, <1>8

----------------------------------------------------------------------------
(* The initial states satisfy the invariant.                               *)
LEMMA InitTarget == ASSUME Init PROVE TargetInv
<1>1. /\ cfg \in Configs /\ Accepted(cfg) /\ cycle = 0 /\ mon \in MonInit(cfg)
      /\ ila \in [u : {0}, k : {0}, c : {FALSE}]
  BY DEF Init
<1>2. PICK m \in [Addr -> Data] : am = AbsMemReset(cfg.AvoidIssueStage, m)
  <2>1. PICK m \in IF cfg.mem THEN [Addr -> Data] ELSE {[x \in Addr |-> 0]} :
           am = AbsMemReset(cfg.AvoidIssueStage, m)
    BY DEF Init
  <2>2. m \in [Addr -> Data]
    BY <2>1, DataAssumption
  <2> QED BY <2>1, <2>2
<1>3. g = [phase |-> "idle", since |-> 0, u |-> [known |-> FALSE, v |-> 0], k |-> 0, commit |-> 2, real |-> TRUE,
           vmem |-> am.mem, imem |-> am.mem, over |-> FALSE, wrote |-> {}]
  BY DEF Init
<1>4. env \in Env(cfg, Stage(mon))
  BY DEF Init
<1>5. /\ mon.cnt \in Nat /\ mon.START \in BOOLEAN /\ mon.STARTED \in BOOLEAN
      /\ mon.ENDED \in BOOLEAN /\ mon.FLUSHENDED \in BOOLEAN
  <2>1. mon.cnt \in {0, 2^cnt_width(cfg) - 1} /\ mon.FLUSHENDED \in {has_flush(cfg)}
    BY <1>1 DEF MonInit
  <2>2. max_bound(cfg) \in Nat /\ 2^cnt_width(cfg) \in Nat /\ 2^cnt_width(cfg) >= max_bound(cfg) + 10
    BY <1>1, BoundIsNat, WideEnough
  <2>3. mon.cnt \in Nat
    BY <2>1, <2>2
  <2>4. mon.FLUSHENDED \in BOOLEAN
    BY <2>1 DEF has_flush
  <2> QED BY <1>1, <2>3, <2>4 DEF MonInit
<1>6. rst
  BY <1>1, ConfigAssumption DEF rst, reset_cycles
<1>7. Shapes
  BY <1>1, <1>2, <1>3 DEF Shapes, AbsMemReset
<1>8. Typing
  <2>1. cfg.mem => env.x \in Addr /\ (env.vw.en => env.vw.a \in Addr)
    BY <1>1, <1>4, <1>5, EnvAssumption DEF Stage, Stages
  <2>2. am.mem \in [Addr -> Data]
    BY <1>2 DEF AbsMemReset
  <2> QED BY <1>1, <1>3, <1>5, <2>1, <2>2, BoundIsNat DEF Typing, bmc_length
<1>9. ResetInv /\ PhaseInv /\ TimeInv
  BY <1>1, <1>3, <1>6 DEF ResetInv, PhaseInv, TimeInv
<1>10. CountInv /\ ValueInv /\ ReadInv /\ LogInv /\ AvoidInv
  BY <1>6 DEF CountInv, ValueInv, ReadInv, LogInv, AvoidInv
<1> QED BY <1>7, <1>8, <1>9, <1>10 DEF TargetInv

(* The ports stay within the memory.                                       *)
LEMMA PortsStay ==
    ASSUME TargetInv, Clock,
           mon'.START \in BOOLEAN, mon'.STARTED \in BOOLEAN,
           mon'.ENDED \in BOOLEAN, mon'.FLUSHENDED \in BOOLEAN
    PROVE  cfg'.mem => env'.x \in Addr /\ (env'.vw.en => env'.vw.a \in Addr)
<1>1. cfg' = cfg /\ cfg \in Configs /\ env' \in Env(cfg, Stage(mon'))
  BY DEF TargetInv, Typing, Clock
<1>2. Stage(mon') \in Stages
  BY DEF Stage, Stages
<1> QED BY <1>1, <1>2, EnvAssumption

(* A cycle of the reset keeps the invariant, and its last one establishes  *)
(* what holds when the monitor begins to look for the start.               *)
LEMMA ResetStep == ASSUME TargetInv, Clock, rst PROVE TargetInv'
<1>1. /\ cfg' = cfg /\ hold' = hold /\ g' = g /\ cycle' = cycle + 1 /\ cycle < bmc_length(cfg)
      /\ mon' = [cnt |-> 0, START |-> cfg.AvoidIssueStage, STARTED |-> FALSE, ENDED |-> FALSE,
                 SECOND |-> FALSE, RESETED |-> TRUE, FLUSHENDED |-> FALSE]
      /\ am' = AbsMemReset(cfg.AvoidIssueStage, am.mem)
      /\ ila' \in [u : Data, k : Data, c : {ila.c}]
  BY DEF Clock, MonNext, GNext
<1>2. /\ cfg \in Configs /\ Accepted(cfg) /\ cycle \in Nat /\ am.mem \in [Addr -> Data]
      /\ g.since \in Nat
  BY DEF TargetInv, Typing
<1>3. cfg.AvoidIssueStage \in BOOLEAN /\ cfg.resetCycles \in Nat \ {0}
  BY <1>2, ConfigAssumption
<1>4. /\ g.phase = "idle" /\ g.since = 0 /\ g.commit = 2
      /\ g.vmem = am.mem /\ g.wrote = {} /\ ~g.over
  BY DEF TargetInv, ResetInv
<1>5. Shapes'
  <2>1. g = [phase |-> g.phase, since |-> g.since, u |-> g.u, k |-> g.k, commit |-> g.commit,
             real |-> g.real, vmem |-> g.vmem, imem |-> g.imem, over |-> g.over, wrote |-> g.wrote]
    BY DEF TargetInv, Shapes
  <2>2. ila' = [u |-> ila'.u, k |-> ila'.k, c |-> ila'.c]
    BY <1>1
  <2> QED BY <1>1, <2>1, <2>2 DEF Shapes, AbsMemReset
<1>6. Typing'
  <2>1. max_bound(cfg) \in Nat
    BY <1>2, BoundIsNat
  <2>2. cycle' \in Nat /\ cycle' <= bmc_length(cfg)'
    BY <1>1, <1>2, <2>1 DEF bmc_length, max_bound
  <2>3. Accepted(cfg)'
    BY <1>1, <1>2
  <2> QED BY <1>1, <1>2, <1>3, <2>2, <2>3, PortsStay DEF Typing, AbsMemReset
<1>7. ResetInv'
  BY <1>1, <1>4 DEF ResetInv, AbsMemReset
<1>8. PhaseInv'
  BY <1>1, <1>3, <1>4 DEF PhaseInv, AbsMemReset
<1>9. CountInv' /\ ValueInv' /\ AvoidInv'
  BY <1>1, <1>4 DEF CountInv, ValueInv, AvoidInv
<1>10. ReadInv' /\ LogInv'
  BY <1>1, <1>4 DEF ReadInv, LogInv, AbsMemReset, NoEntry
<1>11. TimeInv'
  <2>1. ~cfg.ForceInstCheckReset => cycle = 0
    BY <1>2 DEF rst, reset_cycles
  <2> QED BY <1>1, <1>2, <1>4, <2>1 DEF TimeInv
<1> QED BY <1>5, <1>6, <1>7, <1>8, <1>9, <1>10, <1>11 DEF TargetInv

----------------------------------------------------------------------------
(* A cycle after the reset, component by component.                        *)
LEMMA RunFacts ==
    ASSUME TargetInv, Clock, ~rst
    PROVE  /\ cfg' = cfg /\ hold' = hold /\ fn' = fn /\ g' = GNext
           /\ cycle' = cycle + 1 /\ cycle < bmc_length(cfg) /\ ~rst'
           /\ mon'.cnt = (IF mon.START \/ mon.STARTED THEN CntInc(cfg, mon.cnt) ELSE mon.cnt)
           /\ mon'.START = (~(mon.START \/ mon.STARTED) /\ ISSUE /\ ~cfg.AvoidIssueStage)
           /\ mon'.STARTED = (mon.STARTED \/ mon.START)
           /\ mon'.ENDED = (mon.ENDED \/ IEND)
           /\ mon'.RESETED = mon.RESETED
           /\ mon'.FLUSHENDED = (mon.FLUSHENDED \/ (ENDFLUSH /\ mon.ENDED))
           /\ ila' = IlaNext /\ am' = AbsMemInst
<1>1. /\ cfg' = cfg /\ hold' = hold /\ fn' = fn /\ g' = GNext
      /\ cycle' = cycle + 1 /\ cycle < bmc_length(cfg)
      /\ mon' = MonNext /\ ila' = IlaNext /\ am' = AbsMemInst
  BY DEF Clock
<1>2. ~rst'
  BY <1>1, ConfigAssumption DEF rst, reset_cycles, TargetInv, Typing
<1> QED BY <1>1, <1>2 DEF MonNext

(* The memory abstraction in such a cycle, field by field.                 *)
LEMMA AmFields ==
    ASSUME TargetInv, Clock, ~rst
    PROVE  /\ am' = [start_and_on |-> am'.start_and_on, mem |-> am'.mem, vlg_m |-> am'.vlg_m,
                     ila_m |-> am'.ila_m, vlg_r |-> am'.vlg_r, ila_r |-> am'.ila_r]
           /\ am'.mem = am.mem /\ am'.start_and_on = (am.start_and_on \/ ISSUE)
           /\ am'.vlg_m = LogWrite(cfg.ra, am.vlg_m, env.vw, Real(am, env.vw.en, endCond))
           /\ am'.ila_m = LogWrite(cfg.ra, am.ila_m, IlaWrite, Real(am, IlaWrite.en, endCond))
           /\ am'.vlg_r = LogRead(cfg.ra, am.vlg_r, env.vr, env.vrand, Real(am, env.vr.en, endCond))
           /\ am'.ila_r = LogRead(cfg.ra, am.ila_r, IlaRead, env.irand, Real(am, IlaRead.en, endCond))
<1>1. am = [start_and_on |-> am.start_and_on, mem |-> am.mem, vlg_m |-> am.vlg_m,
            ila_m |-> am.ila_m, vlg_r |-> am.vlg_r, ila_r |-> am.ila_r]
  BY DEF TargetInv, Shapes
<1>2. am' = AbsMemInst
  BY RunFacts
<1> DEFINE on == am.start_and_on \/ ISSUE
<1> DEFINE vm == LogWrite(cfg.ra, am.vlg_m, env.vw, Real(am, env.vw.en, endCond))
<1> DEFINE im == LogWrite(cfg.ra, am.ila_m, IlaWrite, Real(am, IlaWrite.en, endCond))
<1> DEFINE vr == LogRead(cfg.ra, am.vlg_r, env.vr, env.vrand, Real(am, env.vr.en, endCond))
<1> DEFINE ir == LogRead(cfg.ra, am.ila_r, IlaRead, env.irand, Real(am, IlaRead.en, endCond))
<1>3. am' = [am EXCEPT !.start_and_on = on, !.vlg_m = vm, !.ila_m = im, !.vlg_r = vr, !.ila_r = ir]
  BY <1>2 DEF AbsMemInst, AbsMemNext
<1> HIDE DEF on, vm, im, vr, ir
<1>4. am' = [start_and_on |-> on, mem |-> am.mem, vlg_m |-> vm, ila_m |-> im,
             vlg_r |-> vr, ila_r |-> ir]
  BY <1>1, <1>3
<1> QED BY <1>4 DEF on, vm, im, vr, ir

(* How the phase moves.                                                    *)
LEMMA PhaseMoves ==
    ASSUME TargetInv, Clock, ~rst
    PROVE  /\ g'.phase = IF mon.START THEN "run" ELSE IF IdealCheck THEN "done"
                         ELSE IF Ends THEN "ended" ELSE g.phase
           /\ g'.since = IF mon.START THEN 1
                         ELSE IF ~IdealCheck /\ ~Ends /\ g.phase = "run" THEN g.since + 1
                         ELSE g.since
           /\ IdealCheck => g.phase \in {"run", "ended"}
           /\ Ends => g.phase = "run"
BY GFields, RunFacts DEF TargetInv, IdealCheck, Ends

(* The shapes and the types are kept.                                      *)
LEMMA RunTyping == ASSUME TargetInv, Clock, ~rst PROVE Shapes' /\ Typing'
<1>1. Shapes'
  <2>1. ila' = [u |-> ila'.u, k |-> ila'.k, c |-> ila'.c]
    <3>1. ila = [u |-> ila.u, k |-> ila.k, c |-> ila.c]
      BY DEF TargetInv, Shapes
    <3>2. ila' = IF IlaGo THEN [ila EXCEPT !.u = IlaUpdate, !.c = env.cond] ELSE ila
      BY RunFacts DEF IlaNext
    <3>3. CASE IlaGo
      <4>1. ila' = [u |-> IlaUpdate, k |-> ila.k, c |-> env.cond]
        BY <3>1, <3>2, <3>3
      <4> QED BY <4>1
    <3> QED BY <3>1, <3>2, <3>3
  <2>2. am' = [start_and_on |-> am'.start_and_on, mem |-> am'.mem, vlg_m |-> am'.vlg_m,
               ila_m |-> am'.ila_m, vlg_r |-> am'.vlg_r, ila_r |-> am'.ila_r]
    BY AmFields
  <2>3. g' = [phase |-> g'.phase, since |-> g'.since, u |-> g'.u, k |-> g'.k,
              commit |-> g'.commit, real |-> g'.real, vmem |-> g'.vmem,
              imem |-> g'.imem, over |-> g'.over, wrote |-> g'.wrote]
    BY GFields, RunFacts DEF TargetInv
  <2> QED BY <2>1, <2>2, <2>3 DEF Shapes
<1>2. Typing'
  <2>1. /\ cfg \in Configs /\ Accepted(cfg) /\ cycle \in Nat /\ am.mem \in [Addr -> Data]
        /\ mon.cnt \in Nat /\ g.since \in Nat /\ max_bound(cfg) \in Nat
    BY BoundIsNat DEF TargetInv, Typing
  <2>2. /\ mon'.START \in BOOLEAN /\ mon'.STARTED \in BOOLEAN
        /\ mon'.ENDED \in BOOLEAN /\ mon'.FLUSHENDED \in BOOLEAN
    BY RunFacts
  <2>3. cfg' = cfg /\ cycle' = cycle + 1 /\ cycle < bmc_length(cfg) /\ am'.mem = am.mem
    BY RunFacts, AmFields
  <2>4. mon'.cnt \in Nat
    <3>1. 2^cnt_width(cfg) \in Nat /\ 2^cnt_width(cfg) >= max_bound(cfg) + 10
      BY <2>1, WideEnough
    <3> DEFINE w == 2^cnt_width(cfg)
    <3>2. CntInc(cfg, mon.cnt) = IF mon.cnt < max_bound(cfg) + 5 THEN (mon.cnt + 1) % w ELSE mon.cnt
      BY DEF CntInc
    <3>3. w \in Nat \ {0}
      BY <3>1, <2>1
    <3> HIDE DEF w
    <3>4. (mon.cnt + 1) % w \in Nat
      BY <3>3, <2>1
    <3> QED BY <3>2, <3>4, <2>1, RunFacts
  <2>5. g'.since \in Nat
    BY <2>1, PhaseMoves
  <2>6. cycle' <= bmc_length(cfg)' /\ cycle' \in Nat
    BY <2>1, <2>3 DEF bmc_length, max_bound
  <2>7. Accepted(cfg)'
    BY <2>1, <2>3
  <2> QED BY <2>1, <2>2, <2>3, <2>4, <2>5, <2>6, <2>7, PortsStay DEF Typing
<1> QED BY <1>1, <1>2

(* The registers keep up with the phase.                                   *)
LEMMA RunPhase == ASSUME TargetInv, Clock, ~rst PROVE PhaseInv'
<1>1. /\ g.phase \in {"idle", "run", "ended", "done"}
      /\ mon.RESETED
      /\ am.start_and_on <=> mon.START \/ mon.STARTED
      /\ mon.START => ~mon.STARTED
      /\ mon.STARTED <=> g.phase # "idle"
      /\ mon.ENDED <=> g.phase \in {"ended", "done"}
      /\ mon.FLUSHENDED <=> has_flush(cfg) /\ g.phase = "done"
      /\ g.phase = "ended" => has_flush(cfg)
  BY DEF TargetInv, PhaseInv
<1>2. cfg' = cfg /\ has_flush(cfg)' = has_flush(cfg)
  BY RunFacts
<1>3. g'.phase \in {"idle", "run", "ended", "done"}
  BY <1>1, PhaseMoves
<1>4. mon'.RESETED
  BY <1>1, RunFacts
<1>5. mon'.STARTED <=> g'.phase # "idle"
  BY <1>1, RunFacts, PhaseMoves
<1>6. mon'.START => ~mon'.STARTED
  BY <1>1, RunFacts
<1>7. am'.start_and_on <=> mon'.START \/ mon'.STARTED
  <2>1. cfg.AvoidIssueStage => mon.START \/ mon.STARTED
    BY DEF TargetInv, AvoidInv
  <2> QED BY <1>1, <2>1, RunFacts, AmFields
<1>8. mon'.ENDED <=> g'.phase \in {"ended", "done"}
  <2>1. CASE mon.START
    <3>1. ~IEND
      BY <2>1, <1>1, AtStart DEF IEND
    <3> QED BY <2>1, <3>1, <1>1, RunFacts, PhaseMoves
  <2>2. CASE ~mon.START
    <3>1. IEND => Ends \/ g.phase \in {"ended", "done"}
      BY Wires
    <3>2. Ends => IEND
      BY Wires
    <3>3. IdealCheck => Ends \/ g.phase = "ended"
      BY DEF IdealCheck
    <3> QED BY <2>2, <3>1, <3>2, <3>3, <1>1, RunFacts, PhaseMoves
  <2> QED BY <2>1, <2>2
<1>9. mon'.FLUSHENDED <=> has_flush(cfg) /\ g'.phase = "done"
  <2>1. CASE has_flush(cfg)
    <3>1. ENDFLUSH <=> env.post /\ g.phase \in {"ended", "done"}
      BY <2>1, Wires
    <3>2. IdealCheck <=> g.phase = "ended" /\ env.post
      BY <2>1 DEF IdealCheck
    <3> QED BY <2>1, <3>1, <3>2, <1>1, RunFacts, PhaseMoves
  <2>2. CASE ~has_flush(cfg)
    BY <2>2, <1>1, RunFacts DEF ENDFLUSH
  <2> QED BY <2>1, <2>2
<1>10. g'.phase = "ended" => has_flush(cfg)
  BY <1>1, PhaseMoves, Wires
<1> QED BY <1>2, <1>3, <1>4, <1>5, <1>6, <1>7, <1>8, <1>9, <1>10 DEF PhaseInv

(* The counter follows the cycles since START.                             *)
LEMMA RunCount == ASSUME TargetInv, Clock, ~rst PROVE CountInv'
<1>1. /\ cfg \in Configs /\ cycle \in Nat /\ mon.cnt \in Nat /\ g.since \in Nat
      /\ max_bound(cfg) \in Nat
      /\ g.phase \in {"idle", "run", "ended", "done"}
      /\ mon.STARTED <=> g.phase # "idle"
      /\ g.phase = "idle" => mon.cnt = 0
      /\ g.phase = "run" => mon.cnt = g.since /\ g.since >= 1 /\ g.since < cycle
  BY BoundIsNat DEF TargetInv, Typing, PhaseInv, CountInv
<1>2. cycle' = cycle + 1 /\ cycle < max_bound(cfg) + 5
  BY RunFacts DEF bmc_length
<1>3. CASE mon.START
  <2>1. g.phase = "idle" /\ mon.cnt = 0
    BY <1>1, <1>3, AtStart
  <2>2. mon'.cnt = 1
    BY <1>1, <1>3, <2>1, RunFacts, Counts
  <2>3. g'.phase = "run" /\ g'.since = 1
    BY <1>3, PhaseMoves
  <2>4. cycle > 0
    BY <1>1, ConfigAssumption DEF rst, reset_cycles
  <2> QED BY <1>1, <1>2, <2>2, <2>3, <2>4 DEF CountInv
<1>4. CASE ~mon.START
  <2>1. g'.phase = "idle" => mon'.cnt = 0
    BY <1>1, <1>4, RunFacts, PhaseMoves
  <2>2. ASSUME g'.phase = "run"
        PROVE  mon'.cnt = g'.since /\ g'.since >= 1 /\ g'.since < cycle'
    <3>1. g.phase = "run" /\ g'.since = g.since + 1
      BY <1>4, <2>2, <1>1, PhaseMoves
    <3>2. CntInc(cfg, mon.cnt) = mon.cnt + 1
      BY <1>1, <1>2, <3>1, Counts
    <3>3. mon'.cnt = mon.cnt + 1
      BY <1>1, <3>1, <3>2, RunFacts
    <3> QED BY <1>1, <1>2, <3>1, <3>3
  <2> QED BY <2>1, <2>2 DEF CountInv
<1> QED BY <1>3, <1>4

(* On a real execution the ILA's Verilog loads what the memory holds.      *)
LEMMA LoadIsReal ==
    ASSUME TargetInv, ~rst, mon.START, cfg.mem, RealNow
    PROVE  IlaLoad = am.mem[env.x]
<1>1. am.start_and_on /\ ~endCond /\ g.phase = "idle"
  BY AtStart
<1>2. ~am.ila_m.e
  BY <1>1 DEF TargetInv, LogInv
<1>3. cfg.ra => env.irand = am.mem[env.x]
  BY DEF RealNow, IlaRead
<1> QED BY <1>1, <1>2, <1>3 DEF IlaLoad, RData, Real, Hit, IlaRead

(* The ILA takes its step in the START cycle and no other.                 *)
LEMMA RunValue == ASSUME TargetInv, Clock, ~rst PROVE ValueInv'
<1>1. cfg' = cfg /\ hold' = hold /\ ila' = IlaNext /\ g'.real = (g.real /\ RealNow)
      /\ g'.commit = Committed
  BY RunFacts, GFields DEF TargetInv
<1>2. Assumed
  BY DEF Clock
<1>3. cfg.holder => g'.commit = 2 \/ g'.commit = hold
  BY <1>1, <1>2 DEF Assumed, ValueHolder, Committed, TargetInv, ValueInv
<1>4. ASSUME g'.phase # "idle", g'.real
      PROVE  /\ ~cfg.skipped /\ g'.u.known => ila'.u = g'.u.v
             /\ cfg.unknown = "none" => g'.u.known
             /\ cfg.unknown = "else" => (g'.u.known <=> ila'.c)
             /\ cfg.OnlyAssumeUpdatedVarsEq \/ ila'.k = g'.k
  <2>1. CASE mon.START
    <3>1. (~cfg.skipped => ila.u = env.u) /\ (cfg.OnlyAssumeUpdatedVarsEq \/ ila.k = env.k)
      <4>1. EqU /\ (cfg.OnlyAssumeUpdatedVarsEq \/ EqK)
        BY <1>2, <2>1 DEF Assumed, VarmapAssumed
      <4>0. CASE cfg.skipped BY <4>0, <4>1 DEF EqK
      <4>2. CASE ~cfg.skipped /\ cfg.holder
        <5>1. UMap = <<[cond |-> mon.START, sig |-> env.u], [cond |-> TRUE, sig |-> hold]>>
          BY <4>2 DEF UMap
        <5>2. UMap[1].cond /\ UMap[1].sig = env.u /\ 1 \in DOMAIN UMap
          BY <5>1, <2>1
        <5> QED BY <4>1, <5>2 DEF EqU, EqK, GetStateVarMapExpr
      <4>3. CASE ~cfg.skipped /\ ~cfg.holder
        <5>1. UMap = <<[cond |-> TRUE, sig |-> env.u]>>
          BY <4>3 DEF UMap
        <5>2. UMap[1].cond /\ UMap[1].sig = env.u /\ 1 \in DOMAIN UMap
          BY <5>1
        <5> QED BY <4>1, <5>2 DEF EqU, EqK, GetStateVarMapExpr
      <4> QED BY <4>0, <4>2, <4>3
    <3>2. IlaGo
      BY <1>2, <2>1 DEF Assumed, StartCondition, IlaGo
    <3>3. ila'.u = IlaUpdate /\ ila'.k = ila.k /\ ila'.c = env.cond
      <4>1. ila = [u |-> ila.u, k |-> ila.k, c |-> ila.c]
        BY DEF TargetInv, Shapes
      <4>2. ila' = [ila EXCEPT !.u = IlaUpdate, !.c = env.cond]
        BY <1>1, <3>2 DEF IlaNext
      <4> QED BY <4>1, <4>2
    <3>4. g'.u = ExpectU /\ g'.k = env.k
      BY <2>1, RunFacts, GFields DEF TargetInv
    <3>5. RealNow
      BY <1>1, <1>4
    <3>6. ASSUME ~cfg.skipped, Known PROVE IlaUpdate = ExpectU.v
      <4>1. CASE cfg.uf
        BY <4>1, <3>5, <3>6, <2>1 DEF RealNow, IlaUpdate, ExpectU
      <4>2. CASE ~cfg.uf /\ cfg.mem
        BY <4>2, <3>5, <3>6, <2>1, LoadIsReal DEF IlaUpdate, ExpectU
      <4>3. CASE ~cfg.uf /\ ~cfg.mem
        BY <4>3, <3>1, <3>6 DEF IlaUpdate, ExpectU
      <4> QED BY <4>1, <4>2, <4>3
    <3>7. g'.u.known <=> Known
      BY <3>4 DEF ExpectU
    <3> QED BY <3>1, <3>3, <3>4, <3>6, <3>7 DEF Known
  <2>2. CASE ~mon.START
    <3>1. ila' = ila
      BY <1>1, <2>2 DEF IlaNext, IlaGo
    <3>2. g.phase # "idle" /\ g.real
      BY <1>1, <1>4, <2>2, PhaseMoves
    <3>3. g'.u = g.u /\ g'.k = g.k
      BY <2>2, RunFacts, GFields DEF TargetInv
    <3> QED BY <3>1, <3>2, <3>3 DEF TargetInv, ValueInv
  <2> QED BY <2>1, <2>2
<1> QED BY <1>1, <1>3, <1>4 DEF ValueInv

(* What is logged as a first read was read from the memory.                *)
LEMMA RunRead == ASSUME TargetInv, Clock, ~rst PROVE ReadInv'
<1> SUFFICES ASSUME g'.real, cfg'.ra
             PROVE  /\ am'.vlg_r.e => am'.vlg_r.d = am'.mem[am'.vlg_r.a]
                    /\ am'.ila_r.e => am'.ila_r.d = am'.mem[am'.ila_r.a]
  BY DEF ReadInv
<1>1. cfg' = cfg /\ g.real /\ RealNow /\ am'.mem = am.mem
  BY RunFacts, GFields, AmFields DEF TargetInv
<1>2. /\ am.vlg_r.e => am.vlg_r.d = am.mem[am.vlg_r.a]
      /\ am.ila_r.e => am.ila_r.d = am.mem[am.ila_r.a]
  BY <1>1 DEF TargetInv, ReadInv
<1>3. /\ env.vr.en => env.vrand = am.mem[env.vr.a]
      /\ IlaRead.en => env.irand = am.mem[env.x]
  BY <1>1 DEF RealNow
<1>4. \/ am'.vlg_r = am.vlg_r
      \/ env.vr.en /\ am'.vlg_r = Entry(env.vr.a, env.vrand)
  BY AmFields DEF LogRead, Real
<1>5. \/ am'.ila_r = am.ila_r
      \/ IlaRead.en /\ am'.ila_r = Entry(env.x, env.irand)
  BY AmFields DEF LogRead, Real, IlaRead
<1>6. am'.vlg_r.e => am'.vlg_r.d = am'.mem[am'.vlg_r.a]
  BY <1>1, <1>2, <1>3, <1>4 DEF Entry
<1>7. am'.ila_r.e => am'.ila_r.d = am'.mem[am'.ila_r.a]
  BY <1>1, <1>2, <1>3, <1>5 DEF Entry
<1> QED BY <1>6, <1>7

(* The ILA's write is logged in the START cycle, once.                     *)
LEMMA RunIlaLog ==
    ASSUME TargetInv, Clock, ~rst, cfg.mem
    PROVE  /\ g'.phase = "idle" => ~am'.ila_m.e
           /\ g'.phase # "idle" =>
                /\ am'.ila_m.e /\ am'.ila_m.a \in Addr
                /\ g'.imem = [am.mem EXCEPT ![am'.ila_m.a] = am'.ila_m.d]
<1>1. am'.ila_m = LogWrite(cfg.ra, am.ila_m, IlaWrite, Real(am, IlaWrite.en, endCond))
  BY AmFields
<1>2. CASE mon.START
  <2>1. am.start_and_on /\ ~endCond /\ g.phase = "idle"
    BY <1>2, AtStart
  <2>2. ~am.ila_m.e
    BY <2>1 DEF TargetInv, LogInv
  <2>3. env.dec
    BY <1>2 DEF Clock, Assumed, StartCondition
  <2>4. am'.ila_m = Entry(env.x, env.d)
    BY <1>1, <1>2, <2>1, <2>2, <2>3 DEF LogWrite, Real, IlaWrite, IlaGo
  <2>5. g'.imem = Store(am.mem, [en |-> cfg.mem, a |-> env.x, d |-> env.d])
    BY <1>2, RunFacts, GFields DEF TargetInv
  <2>6. g'.imem = [am.mem EXCEPT ![env.x] = env.d]
    BY <2>5 DEF Store
  <2>7. env.x \in Addr
    BY DEF TargetInv, Typing
  <2>8. g'.phase = "run"
    BY <1>2, PhaseMoves
  <2> QED BY <2>4, <2>6, <2>7, <2>8 DEF Entry
<1>3. CASE ~mon.START
  <2>1. am'.ila_m = am.ila_m
    BY <1>1, <1>3 DEF LogWrite, Real, IlaWrite, IlaGo
  <2>2. g'.imem = g.imem
    BY <1>3, RunFacts, GFields DEF TargetInv
  <2>3. g'.phase = "idle" <=> g.phase = "idle"
    BY <1>3, PhaseMoves
  <2> QED BY <2>1, <2>2, <2>3 DEF TargetInv, LogInv
<1> QED BY <1>2, <1>3

(* The implementation's log gives the memory it would have, until it       *)
(* writes more than the log can hold.                                      *)
LEMMA RunVlgLog ==
    ASSUME TargetInv, Clock, ~rst, cfg.mem
    PROVE  /\ g'.phase = "idle" => ~am'.vlg_m.e
           /\ ~g'.over /\ am'.vlg_m.e =>
                /\ am'.vlg_m.a \in Addr /\ g'.wrote = {am'.vlg_m.a}
                /\ g'.vmem = [am.mem EXCEPT ![am'.vlg_m.a] = am'.vlg_m.d]
           /\ ~g'.over /\ ~am'.vlg_m.e => g'.wrote = {} /\ g'.vmem = am.mem
<1> DEFINE during == (mon.START \/ g.phase \in {"run", "ended"}) /\ ~IdealCheck
<1>1. /\ am.mem \in [Addr -> Data]
      /\ env.vw.en => env.vw.a \in Addr
      /\ g.phase = "idle" => ~am.vlg_m.e
      /\ ~g.over /\ am.vlg_m.e =>
           /\ am.vlg_m.a \in Addr /\ g.wrote = {am.vlg_m.a}
           /\ g.vmem = [am.mem EXCEPT ![am.vlg_m.a] = am.vlg_m.d]
      /\ ~g.over /\ ~am.vlg_m.e => g.wrote = {} /\ g.vmem = am.mem
  BY DEF TargetInv, Typing, LogInv
<1>2. Real(am, env.vw.en, endCond) <=> env.vw.en /\ during
  BY Wires DEF TargetInv, PhaseInv, Real
<1>3. am'.vlg_m = LogWrite(cfg.ra, am.vlg_m, env.vw, Real(am, env.vw.en, endCond))
  BY AmFields
<1>4. g'.phase = "idle" => g.phase = "idle" /\ ~mon.START
  BY PhaseMoves
<1>5. CASE during /\ env.vw.en
  <2>1. /\ g'.vmem = [g.vmem EXCEPT ![env.vw.a] = env.vw.d]
        /\ g'.over = (g.over \/ Exceeds(env.vw))
        /\ g'.wrote = g.wrote \cup {env.vw.a}
    BY <1>5, RunFacts, GFields DEF TargetInv, Store
  <2>2. g'.phase # "idle"
    BY <1>4, <1>5
  <2>3. am'.vlg_m = IF ~am.vlg_m.e \/ (cfg.ra /\ am.vlg_m.a = env.vw.a)
                    THEN Entry(env.vw.a, env.vw.d) ELSE am.vlg_m
    BY <1>2, <1>3, <1>5 DEF LogWrite
  <2>4. SUFFICES ASSUME ~g'.over
                 PROVE  /\ am'.vlg_m.e /\ am'.vlg_m.a \in Addr /\ g'.wrote = {am'.vlg_m.a}
                        /\ g'.vmem = [am.mem EXCEPT ![am'.vlg_m.a] = am'.vlg_m.d]
    BY <2>2
  <2>5. ~g.over /\ ~Exceeds(env.vw)
    BY <2>1, <2>4
  <2>6. CASE ~am.vlg_m.e
    <3>1. am'.vlg_m = Entry(env.vw.a, env.vw.d) /\ g.wrote = {} /\ g.vmem = am.mem
      BY <1>1, <2>3, <2>5, <2>6
    <3> QED BY <1>1, <1>5, <2>1, <3>1 DEF Entry
  <2>7. CASE am.vlg_m.e
    <3>1. g.wrote = {am.vlg_m.a} /\ g.vmem = [am.mem EXCEPT ![am.vlg_m.a] = am.vlg_m.d]
      BY <1>1, <2>5, <2>7
    <3>2. cfg.ra /\ env.vw.a = am.vlg_m.a
      BY <1>5, <2>5, <3>1 DEF Exceeds
    <3>3. am'.vlg_m = Entry(env.vw.a, env.vw.d)
      BY <2>3, <3>2
    <3> QED BY <1>1, <1>5, <2>1, <3>1, <3>2, <3>3 DEF Entry
  <2> QED BY <2>6, <2>7
<1>6. CASE ~(during /\ env.vw.en)
  <2>1. am'.vlg_m = am.vlg_m
    BY <1>2, <1>3, <1>6 DEF LogWrite
  <2>2. g'.vmem = g.vmem /\ g'.wrote = g.wrote /\ (~g'.over => ~g.over)
    <3>1. CASE during
      BY <1>6, <3>1, RunFacts, GFields DEF TargetInv, Store
    <3>2. CASE ~during
      BY <3>2, RunFacts, GFields DEF TargetInv
    <3> QED BY <3>1, <3>2
  <2> QED BY <1>1, <1>4, <2>1, <2>2
<1> QED BY <1>5, <1>6

(* Both logs.                                                              *)
LEMMA RunLog == ASSUME TargetInv, Clock, ~rst PROVE LogInv'
<1>1. cfg' = cfg /\ am'.mem = am.mem
  BY RunFacts, AmFields
<1> QED BY <1>1, RunIlaLog, RunVlgLog DEF LogInv

(* The instruction starts without delay and is ready by the bound.         *)
LEMMA RunTime == ASSUME TargetInv, Clock, ~rst PROVE AvoidInv' /\ TimeInv'
<1>1. cfg' = cfg /\ cycle' = cycle + 1
  BY RunFacts
<1>2. AvoidInv'
  BY <1>1, RunFacts DEF TargetInv, AvoidInv
<1>3. TimeInv'
  <2> SUFFICES ASSUME ~has_flush(cfg), ~cfg.ForceInstCheckReset
               PROVE  /\ cycle' = 2 => mon'.START \/ g'.phase # "idle"
                      /\ cycle' >= 3 => g'.phase # "idle"
                      /\ g'.phase = "run" =>
                           /\ g'.since >= cycle' - 2
                           /\ cfg.readyBound > 0
                              /\ (cfg.maxBound # NoBound => cfg.maxBound >= cfg.readyBound)
                                => g'.since <= cfg.readyBound
    BY <1>1 DEF TimeInv
  <2>1. /\ cycle \in Nat /\ cycle >= 1 /\ g.since \in Nat
        /\ cfg.readyBound \in Int /\ cfg.maxBound \in Int
        /\ g.phase \in {"idle", "run", "ended", "done"}
        /\ mon.STARTED <=> g.phase # "idle"
        /\ mon.START \in BOOLEAN
    BY ConfigAssumption DEF TargetInv, Typing, PhaseInv, rst, reset_cycles, NoBound
  <2>2. /\ cycle = 2 => mon.START \/ g.phase # "idle"
        /\ cycle >= 3 => g.phase # "idle"
        /\ g.phase = "run" =>
             /\ g.since >= cycle - 2
             /\ cfg.readyBound > 0 /\ (cfg.maxBound # NoBound => cfg.maxBound >= cfg.readyBound)
                  => g.since <= cfg.readyBound
    BY DEF TargetInv, TimeInv
  <2>3. ISSUE
    BY DEF ISSUE
  <2>4. mon'.START \/ g'.phase # "idle"
    <3>1. mon'.START = (~(mon.START \/ mon.STARTED) /\ ~cfg.AvoidIssueStage)
      BY <2>3, RunFacts
    <3>2. cfg.AvoidIssueStage => mon.START \/ mon.STARTED
      BY DEF TargetInv, AvoidInv
    <3> QED BY <2>1, <3>1, <3>2, PhaseMoves
  <2>5. cycle' >= 3 => g'.phase # "idle"
    BY <1>1, <2>1, <2>2, PhaseMoves
  <2>6. CASE mon.START
    <3>1. g.phase = "idle" /\ g'.since = 1
      BY <2>6, AtStart, PhaseMoves
    <3> QED BY <1>1, <2>1, <2>2, <2>4, <2>5, <3>1
  <2>7. CASE ~mon.START
    <3> SUFFICES ASSUME g'.phase = "run"
                 PROVE  /\ g'.since >= cycle' - 2
                        /\ cfg.readyBound > 0
                           /\ (cfg.maxBound # NoBound => cfg.maxBound >= cfg.readyBound)
                             => g'.since <= cfg.readyBound
      BY <2>4, <2>5
    <3>1. g.phase = "run" /\ ~Ends /\ g'.since = g.since + 1
      BY <2>7, PhaseMoves
    <3>2. g'.since >= cycle' - 2
      BY <1>1, <2>1, <2>2, <3>1
    <3>3. ASSUME cfg.readyBound > 0, cfg.maxBound # NoBound => cfg.maxBound >= cfg.readyBound
          PROVE  g'.since <= cfg.readyBound
      <4>1. g.since <= cfg.readyBound
        BY <2>2, <3>1, <3>3
      <4>2. g.since # cfg.readyBound
        BY <2>1, <3>1, <3>3, <4>1 DEF Ends, Ready
      <4> QED BY <2>1, <3>1, <4>1, <4>2
    <3> QED BY <3>2, <3>3
  <2> QED BY <2>6, <2>7
<1> QED BY <1>2, <1>3

(* A cycle after the reset keeps the invariant.                            *)
LEMMA RunStep == ASSUME TargetInv, Clock, ~rst PROVE TargetInv'
<1>1. ResetInv'
  BY RunFacts DEF ResetInv
<1> QED BY <1>1, RunTyping, RunPhase, RunCount, RunValue, RunRead, RunLog, RunTime DEF TargetInv

(* Whatever the cycle, and where nothing moves.                            *)
LEMMA TargetStep == ASSUME TargetInv, [Clock]_vars PROVE TargetInv'
<1>1. CASE Clock
  BY <1>1, ResetStep, RunStep
<1>2. CASE UNCHANGED vars
  BY <1>2 DEF vars, TargetInv, Shapes, Typing, ResetInv, PhaseInv, CountInv, ValueInv, ReadInv,
     LogInv, AvoidInv, TimeInv, rst, reset_cycles
<1> QED BY <1>1, <1>2

(* The invariant holds of every execution of the target.                   *)
LEMMA TargetAlways == Spec => []TargetInv
<1>1. Init => TargetInv
  BY InitTarget
<1>2. TargetInv /\ [Clock]_vars => TargetInv'
  BY TargetStep
<1> QED BY <1>1, <1>2, PTL DEF Spec

----------------------------------------------------------------------------
(* Where the check is, the wrapper makes it.                               *)
LEMMA CheckAgrees ==
    ASSUME TargetInv, ~rst, has_flush(cfg) => g.phase # "done"
    PROVE  CheckNow <=> IdealCheck
BY Wires DEF CheckNow

(* At the check the mapping of u compares the ILA with the value shown,    *)
(* the committed one when a holder is used.                                *)
LEMMA EqUAtCheck ==
    ASSUME TargetInv, ~rst, Assumed, IdealCheck, ShownU # 2, ~cfg.skipped
    PROVE  EqU <=> ShownU = ila.u
<1>1. ~mon.START
  BY AtStart
<1>2. CASE cfg.holder
  <2>1. ShownU = hold
    BY <1>2 DEF ShownU, Committed, Assumed, ValueHolder, TargetInv, ValueInv
  <2>2. UMap = <<[cond |-> mon.START, sig |-> env.u], [cond |-> TRUE, sig |-> hold]>>
    BY <1>2 DEF UMap
  <2>3. DOMAIN UMap = {1, 2} /\ ~UMap[1].cond /\ UMap[2].cond /\ UMap[2].sig = hold
    BY <2>2, <1>1
  <2>4. EqU <=> hold = ila.u
    BY <2>3 DEF EqU, GetStateVarMapExpr
  <2> QED BY <2>1, <2>4
<1>3. CASE ~cfg.holder
  <2>1. UMap = <<[cond |-> TRUE, sig |-> env.u]>>
    BY <1>3 DEF UMap
  <2>2. DOMAIN UMap = {1} /\ UMap[1].cond /\ UMap[1].sig = env.u
    BY <2>1
  <2>3. EqU <=> env.u = ila.u
    BY <2>2 DEF EqU, GetStateVarMapExpr
  <2> QED BY <1>3, <2>3 DEF ShownU
<1> QED BY <1>2, <1>3

(* What the logs compare: with two memories that differ from one memory in *)
(* at most one place each, equal logs mean equal memories, and without     *)
(* abstracted reads equal memories mean equal logs.                        *)
LEMMA LogsDecide ==
    ASSUME TargetInv, ~rst, cfg.mem, g.real, ~g.over, g.phase # "idle", endCond
    PROVE  /\ Equal(am, cfg.ra, endCond) => g.vmem = g.imem
           /\ ~cfg.ra /\ g.vmem = g.imem => Equal(am, cfg.ra, endCond)
<1>1. /\ am.mem \in [Addr -> Data]
      /\ am.ila_m.e /\ am.ila_m.a \in Addr
      /\ g.imem = [am.mem EXCEPT ![am.ila_m.a] = am.ila_m.d]
      /\ am.vlg_m.e => am.vlg_m.a \in Addr
                       /\ g.vmem = [am.mem EXCEPT ![am.vlg_m.a] = am.vlg_m.d]
      /\ ~am.vlg_m.e => g.vmem = am.mem
      /\ cfg.ra /\ am.vlg_r.e => am.vlg_r.d = am.mem[am.vlg_r.a]
      /\ cfg.ra /\ am.ila_r.e => am.ila_r.d = am.mem[am.ila_r.a]
  BY DEF TargetInv, Typing, LogInv, ReadInv
<1> DEFINE MI == Match(am, cfg.ra, am.ila_m, am.vlg_m, am.vlg_r)
<1> DEFINE MV == Match(am, cfg.ra, am.vlg_m, am.ila_m, am.ila_r)
<1>2. Equal(am, cfg.ra, endCond) <=> MI /\ MV
  BY DEF Equal
<1>3. CASE ~am.vlg_m.e
  <2>1. MV
    BY <1>3 DEF Match
  <2>2. MI => am.mem[am.ila_m.a] = am.ila_m.d
    BY <1>1, <1>3 DEF Match, Hit
  <2>3. ~cfg.ra /\ am.mem[am.ila_m.a] = am.ila_m.d => MI
    BY <1>1, <1>3 DEF Match, Hit
  <2>4. g.vmem = g.imem <=> am.mem[am.ila_m.a] = am.ila_m.d
    BY <1>1, <1>3
  <2> QED BY <1>2, <2>1, <2>2, <2>3, <2>4
<1>4. CASE am.vlg_m.e /\ am.vlg_m.a = am.ila_m.a
  <2>1. (MI /\ MV) <=> am.vlg_m.d = am.ila_m.d
    BY <1>1, <1>4 DEF Match, Hit
  <2>2. g.vmem = g.imem <=> am.vlg_m.d = am.ila_m.d
    BY <1>1, <1>4
  <2> QED BY <1>2, <2>1, <2>2
<1>5. CASE am.vlg_m.e /\ am.vlg_m.a # am.ila_m.a
  <2> DEFINE Same == am.mem[am.ila_m.a] = am.ila_m.d /\ am.mem[am.vlg_m.a] = am.vlg_m.d
  <2>1. MI /\ MV => Same
    BY <1>1, <1>5 DEF Match, Hit
  <2>2. ~cfg.ra /\ Same => MI /\ MV
    BY <1>1, <1>5 DEF Match, Hit
  <2>3. g.vmem = g.imem <=> Same
    BY <1>1, <1>5
  <2> QED BY <1>2, <2>1, <2>2, <2>3
<1> QED BY <1>3, <1>4, <1>5

(* In every state the invariant describes the verdict is the diagram's.    *)
LEMMA CheckFollows == ASSUME TargetInv PROVE CheckExact
<1> SUFFICES ASSUME Assumed, ~rst, g.real, RealNow, has_flush(cfg) => g.phase # "done"
             PROVE  /\ ShownU # 2 /\ ~cfg.skipped /\ cfg.unknown # "then" =>
                         (AlarmU <=> IdealCheck /\ g.u.known /\ ShownU # g.u.v)
                    /\ ~cfg.OnlyAssumeUpdatedVarsEq =>
                         (AlarmK <=> IdealCheck /\ env.k # g.k /\ ~cfg.OnlyCheckInstUpdatedVars)
                    /\ cfg.mem /\ ~g.over =>
                         /\ IdealCheck /\ g.vmem # g.imem => AlarmM
                         /\ AlarmM => IdealCheck /\ (cfg.ra \/ g.vmem # g.imem)
  BY DEF CheckExact
<1>1. CheckNow <=> IdealCheck
  BY CheckAgrees
<1>2. IdealCheck => g.phase # "idle" /\ endCond
  BY Wires DEF IdealCheck, Ends
<1>3. IdealCheck => /\ ~cfg.skipped /\ g.u.known => ila.u = g.u.v
                    /\ cfg.unknown = "none" => g.u.known
                    /\ cfg.unknown = "else" => (g.u.known <=> ila.c)
                    /\ cfg.OnlyAssumeUpdatedVarsEq \/ ila.k = g.k
  BY <1>2 DEF TargetInv, ValueInv
<1>4. ASSUME ShownU # 2, ~cfg.skipped, cfg.unknown # "then"
      PROVE  AlarmU <=> IdealCheck /\ g.u.known /\ ShownU # g.u.v
  <2>1. cfg.unknown = "none" \/ cfg.unknown = "else"
    BY <1>4, ConfigAssumption DEF TargetInv, Typing
  <2>2. IdealCheck => (EqU <=> ShownU = ila.u)
    BY <1>4, EqUAtCheck
  <2> QED BY <1>1, <1>3, <1>4, <2>1, <2>2 DEF AlarmU
<1>5. ~cfg.OnlyAssumeUpdatedVarsEq =>
        (AlarmK <=> IdealCheck /\ env.k # g.k /\ ~cfg.OnlyCheckInstUpdatedVars)
  BY <1>1, <1>3 DEF AlarmK, EqK
<1>6. cfg.mem /\ ~g.over =>
        /\ IdealCheck /\ g.vmem # g.imem => AlarmM
        /\ AlarmM => IdealCheck /\ (cfg.ra \/ g.vmem # g.imem)
  BY <1>1, <1>2, LogsDecide DEF AlarmM
<1> QED BY <1>4, <1>5, <1>6

(* The tables: an assumed invariant that fails is asserted by the target   *)
(* that asserts every kind, and, taking the kinds in the order in which    *)
(* they are trusted, by one that asserts a single kind.                    *)
LEMMA SomeTargetAlarms ==
    ASSUME NEW has \in SUBSET Kinds, NEW bad \in SUBSET has, bad # {}
    PROVE  /\ InvAlarm("ALL", has, bad)
           /\ \E s \in {"NOINV", "CONFIRMED", "CANDIDATE"} : InvAlarm(s, has, bad)
<1>1. "rf" \in bad \/ "confirmed" \in bad \/ "candidate" \in bad
  BY DEF Kinds
<1>2. InvAlarm("ALL", has, bad)
  <2>1. invariantExists("ALL", has)
    BY <1>1 DEF invariantExists
  <2> QED BY <2>1 DEF InvAlarm, InvTable
<1>3. CASE "rf" \in bad
  BY <1>3 DEF InvAlarm, InvTable, invariantExists
<1>4. CASE "rf" \notin bad /\ "confirmed" \in bad
  <2>1. InvAlarm("CONFIRMED", has, bad)
    BY <1>4 DEF InvAlarm, InvTable, invariantExists
  <2> QED BY <1>2, <2>1
<1>5. CASE "rf" \notin bad /\ "confirmed" \notin bad /\ "candidate" \in bad
  <2>1. InvAlarm("CANDIDATE", has, bad)
    BY <1>5 DEF InvAlarm, InvTable, invariantExists
  <2> QED BY <1>2, <2>1
<1> QED BY <1>1, <1>2, <1>3, <1>4, <1>5

(* In every state the invariant describes a real execution is kept.        *)
LEMMA KeptFollows == ASSUME TargetInv PROVE RealPathKept
<1>1. ASSUME ~rst, g.real, RealNow
      PROVE  /\ mon.START /\ ila.u = env.u /\ ila.k = env.k => VarmapAssumed
             /\ (env.rc => env.ac) => FuncMap
             /\ MemAssumed
  <2>1. ASSUME mon.START, ila.u = env.u, ila.k = env.k PROVE VarmapAssumed
    <3>1. EqU
      <4>0. CASE cfg.skipped
        <5>1. DOMAIN UMap = {} BY <4>0 DEF UMap
        <5> QED BY <5>1 DEF EqU, GetStateVarMapExpr
      <4>1. CASE ~cfg.skipped /\ cfg.holder
        <5>1. UMap = <<[cond |-> mon.START, sig |-> env.u], [cond |-> TRUE, sig |-> hold]>>
          BY <4>1 DEF UMap
        <5>2. DOMAIN UMap = {1, 2} /\ UMap[1].cond /\ UMap[1].sig = env.u
          BY <5>1, <2>1
        <5> QED BY <2>1, <5>2 DEF EqU, GetStateVarMapExpr
      <4>2. CASE ~cfg.skipped /\ ~cfg.holder
        <5>1. UMap = <<[cond |-> TRUE, sig |-> env.u]>>
          BY <4>2 DEF UMap
        <5>2. DOMAIN UMap = {1} /\ UMap[1].sig = env.u
          BY <5>1
        <5> QED BY <2>1, <5>2 DEF EqU, GetStateVarMapExpr
      <4> QED BY <4>0, <4>1, <4>2
    <3> QED BY <2>1, <3>1 DEF VarmapAssumed, EqK
  <2>2. (env.rc => env.ac) => FuncMap
    BY <1>1 DEF RealNow, FuncMap
  <2>3. MemAssumed
    BY <1>1 DEF MemAssumed, ReadAssume, Hit, TargetInv, ReadInv
  <2> QED BY <2>1, <2>2, <2>3
<1>2. ASSUME ~InvAssumed
      PROVE  LET bad == cfg.invs \cap env.viol
             IN /\ InvAlarm("ALL", cfg.invs, bad)
                /\ \E s \in {"NOINV", "CONFIRMED", "CANDIDATE"} : InvAlarm(s, cfg.invs, bad)
  <2>1. cfg.invs \in SUBSET Kinds
    BY ConfigAssumption DEF TargetInv, Typing
  <2>2. cfg.invs \cap env.viol # {}
    BY <1>2 DEF InvAssumed, InvTable
  <2> QED BY <2>1, <2>2, SomeTargetAlarms
<1> QED BY <1>1, <1>2 DEF RealPathKept

(* In every state the invariant describes the search is deep enough.       *)
LEMMA ReachFollows == ASSUME TargetInv PROVE BmcReaches
<1> SUFFICES ASSUME cycle = bmc_length(cfg), cfg.readyBound > 0, ~has_flush(cfg),
                    ~cfg.ForceInstCheckReset,
                    cfg.maxBound # NoBound => cfg.maxBound >= cfg.readyBound
             PROVE  g.phase = "done"
  BY DEF BmcReaches
<1>1. cfg.readyBound \in Nat /\ cycle \in Nat /\ g.since \in Nat
  BY ConfigAssumption DEF TargetInv, Typing, NoBound
<1>2. cycle = cfg.readyBound + 5
  BY <1>1 DEF bmc_length, max_bound, NoBound
<1>3. ~rst
  BY <1>1, <1>2 DEF rst, reset_cycles
<1>4. g.phase \in {"idle", "run", "done"}
  BY <1>3 DEF TargetInv, PhaseInv
<1>5. g.phase # "idle"
  BY <1>1, <1>2 DEF TargetInv, TimeInv
<1>6. g.phase # "run"
  BY <1>1, <1>2 DEF TargetInv, TimeInv
<1> QED BY <1>4, <1>5, <1>6

(* The verdict of the target is the commuting diagram's, whatever the      *)
(* refinement map, the bounds, the settings and the implementation: the    *)
(* assertions of VlgSglTgtGen_Cosa alarm in the cycle the instruction ends *)
(* and exactly about a difference that is there.                           *)
THEOREM VerdictIsExact == Spec => []CheckExact
<1>1. TargetInv => CheckExact
  BY CheckFollows
<1> QED BY <1>1, TargetAlways, PTL

(* No assumption the wrapper adds hides a real execution, and where an     *)
(* assumed invariant would, an INVARIANTS target reports it.               *)
THEOREM RealPathIsKept == Spec => []RealPathKept
<1>1. TargetInv => RealPathKept
  BY KeptFollows
<1> QED BY <1>1, TargetAlways, PTL

(* The length the back end is given reaches the check, for every ready     *)
(* bound.                                                                  *)
THEOREM SearchReachesCheck == Spec => []BmcReaches
<1>1. TargetInv => BmcReaches
  BY ReachFollows
<1> QED BY <1>1, TargetAlways, PTL
=============================================================================
