----------------------------- MODULE MCVTarget ------------------------------
(***************************************************************************)
(* Instances of VTarget: refinement maps and settings, and the values that *)
(* may show on the signals each of them looks at.                          *)
(***************************************************************************)
EXTENDS VTarget, FiniteSets

Base ==
    [flushConstraint |-> FALSE, flushConstraints |-> FALSE, preEnd |-> FALSE, postEnd |-> FALSE,
     readySignal |-> FALSE, readyBound |-> 2, maxBound |-> NoBound, MaxBound |-> 1,
     AvoidIssueStage |-> FALSE, ForceInstCheckReset |-> FALSE, InstructionNoReset |-> TRUE,
     OnlyCheckInstUpdatedVars |-> FALSE, OnlyAssumeUpdatedVarsEq |-> FALSE, resetCycles |-> 2,
     holder |-> FALSE, uf |-> FALSE, mem |-> FALSE, ra |-> FALSE, invs |-> {},
     unknown |-> "none", skipped |-> FALSE, control |-> FALSE]

(* Ready conditions, bounds and settings.                                  *)
Plain == {[Base EXCEPT !.readySignal = s, !.readyBound = b, !.maxBound = m,
                       !.AvoidIssueStage = a, !.ForceInstCheckReset = f] :
            s \in BOOLEAN, b \in {NoBound, 0, 1, 3}, m \in {NoBound, 1}, a, f \in BOOLEAN}

Settings == {[Base EXCEPT !.readyBound = 1, !.OnlyCheckInstUpdatedVars = c,
                          !.OnlyAssumeUpdatedVarsEq = e, !.InstructionNoReset = n] :
            c, e, n \in BOOLEAN}

Flush == {[Base EXCEPT !.flushConstraint = fc, !.preEnd = p, !.postEnd = TRUE,
                       !.flushConstraints = e, !.readyBound = 1, !.AvoidIssueStage = a] :
            fc, p, e, a \in BOOLEAN}

Extra == {[Base EXCEPT !.holder = TRUE], [Base EXCEPT !.uf = TRUE]}
         \cup {[Base EXCEPT !.readyBound = 1, !.invs = i] : i \in SUBSET Kinds}
         \cup {[Base EXCEPT !.readyBound = 1, !.unknown = a] : a \in {"then", "else"}}
         \cup {[Base EXCEPT !.readyBound = 1, !.skipped = TRUE],
               [Base EXCEPT !.readyBound = 1, !.control = TRUE]}

Memory == {[Base EXCEPT !.mem = TRUE, !.ra = r, !.AvoidIssueStage = a,
                        !.OnlyCheckInstUpdatedVars = TRUE] : r, a \in BOOLEAN}
          \cup {[Base EXCEPT !.mem = TRUE, !.flushConstraint = TRUE, !.preEnd = TRUE,
                             !.postEnd = TRUE, !.readyBound = 1,
                             !.OnlyCheckInstUpdatedVars = TRUE]}

MCConfigs == Plain \cup Settings \cup Flush \cup Extra \cup Memory

If(c, S) == IF c THEN S ELSE {FALSE}
Bit(c) == IF c THEN Data ELSE {0}
Ports(c) == IF c THEN [en : {TRUE}, a : Addr, d : Data] ELSE {}
Idle == [en |-> FALSE, a |-> 0, d |-> 0]

(* A signal nobody looks at has one value: the free inputs of the ILA's    *)
(* ports matter in the START cycle only, the implementation's reads from   *)
(* then on, and its writes until the check; the flushed states at either   *)
(* end are looked for before the start and after the ready condition.      *)
MCEnv(c, m) ==
    LET start == m.START
        on == m.START \/ m.STARTED
        over == IF has_flush(c) THEN m.FLUSHENDED ELSE m.ENDED
    IN {e \in [u : Data, k : Bit(~c.mem /\ ~c.uf), rdy : If(c.readySignal, BOOLEAN),
                pre : If(has_flush(c) /\ ~on, BOOLEAN), post : If(has_flush(c) /\ m.ENDED, BOOLEAN),
                flush : If(has_flush(c) /\ c.flushConstraints, BOOLEAN),
                issue : If(c.ForceInstCheckReset, BOOLEAN),
                dummy : If(~c.InstructionNoReset, BOOLEAN), dec : If(start, BOOLEAN),
                commit : If(c.holder, BOOLEAN),
                ac : If(c.uf, BOOLEAN), rc : If(c.uf, BOOLEAN), fa : Bit(c.uf),
                fv : Bit(c.uf), fres : Bit(c.uf \/ (start /\ c.unknown # "none")),
                cond : If(start /\ c.unknown # "none", BOOLEAN),
                control : IF c.control THEN BOOLEAN ELSE {TRUE}, viol : SUBSET c.invs,
                vw : {Idle} \cup Ports(c.mem /\ ~over),
                vr : {Idle} \cup {p \in Ports(c.ra /\ on /\ ~over) : p.d = 0},
                vrand : Bit(c.ra /\ on), irand : Bit(c.ra /\ start),
                x : Bit(c.mem /\ start), d : Bit(c.mem /\ start)] :
            ~e.vr.en => e.vrand = 0}
=============================================================================
