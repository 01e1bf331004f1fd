-------------------------- MODULE ShellExecProofs ---------------------------
(***************************************************************************)
(* The safety properties of os_portable_execute_shell, for any number of   *)
(* calls: what the pipe, the process group and the globals of the alarm    *)
(* handler guarantee in every interleaving of parent, children and alarm.  *)
(***************************************************************************)
EXTENDS ShellExec, TLAPS

-----------------------------------------------------------------------------
(* The inductive invariant.                                                *)

\* the parent has read the report and not returned yet
Started == {"publish", "arm", "prewait", "wait", "disarm", "read2"}
Reported(p) == cst[p] \notin {"none", "born", "grouped"}

\* Nothing is in the pipe of a child that has not reported, and a call not made
\* yet has no process.
PipeInv ==
  \A p \in Pid :
    /\ p > n => cst[p] = "none"
    /\ ~Reported(p) => pipe[p] = << >>

\* A process past setpgid leads a group exactly if its call has a timeout, and
\* only such a process is ever sent SIGTERM.
GroupInv ==
  \A p \in Pid :
    /\ IF cst[p] \in {"none", "born"} THEN ~ownGrp[p] ELSE ownGrp[p] = timed[p]
    /\ term[p] => ownGrp[p]

\* The parent goes on only after the report, publishes the child before it sets
\* the alarm, and has no alarm set outside the three steps around waitpid.
ParentInv ==
  /\ ppc \in Started => Reported(n)
  /\ ppc \in Started \ {"publish"} => child_pid = n
  /\ ppc = "arm" => timed[n]
  /\ ppc \in {"read1", "publish"} => pidfile < n
  /\ armed => ppc \in {"prewait", "wait", "disarm"} /\ timed[n]

\* What waitpid returned says what happened.
WaitInv ==
  ppc \in {"disarm", "read2"} =>
    \/ wres = "pid" /\ cst[n] = "reaped"
    \/ wres = "eintr" /\ (signals \/ (timed[n] /\ shared_time_out))

Disturbed(p) == ~Alive(p) \/ term[p] \/ (cst[p] = "running" /\ tool[p] = "stubborn")

\* The flag set by the handler says that the tool of this call was signalled.
FlagInv ==
  ppc \in {"prewait", "wait", "disarm", "read2"} /\ timed[n] /\ shared_time_out
    => Disturbed(n)

ShellInv ==
  /\ TypeOK /\ PipeInv /\ GroupInv /\ ParentInv /\ WaitInv /\ FlagInv
  /\ CleanResult /\ TimeoutKills /\ PidFileReset

Result == [failure : Failure, timeout : BOOLEAN, status : Code, normal : BOOLEAN]

\* A return that sets only the failure.
LEMMA FailProps ==
  ASSUME NEW f \in Failure, NEW nms \in SUBSET BOOLEAN, Fail(f, nms)
  PROVE  ppc' = "idle" /\ ret' \in Result /\ ret'.failure = f
BY DEF Fail, Finish, Result, Code

-----------------------------------------------------------------------------
(* The initial state.                                                      *)

\* Before the first call there is no process, no alarm and an empty pipe.
LEMMA InitInv == Init => ShellInv
<1> SUFFICES ASSUME Init PROVE ShellInv OBVIOUS
<1> USE DEF Init
<1>1. TypeOK
  <2>1. << >> \in Seq(Report) OBVIOUS
  <2>2. pipe \in [Pid -> Seq(Report)] BY <2>1
  <2>3. /\ timed \in [Pid -> BOOLEAN] /\ ownGrp \in [Pid -> BOOLEAN]
        /\ wopen \in [Pid -> BOOLEAN] /\ term \in [Pid -> BOOLEAN]
    OBVIOUS
  <2>4. ended \in [Pid -> Status] BY DEF Status
  <2>5. n \in 0 .. MaxCalls /\ child_pid \in 0 .. n /\ pidfile \in 0 .. n BY ShellAssumption
  <2>6. ret \in [failure : Failure, timeout : BOOLEAN, status : Code, normal : BOOLEAN]
    BY DEF NoResult, Failure, Code
  <2> QED BY <2>2, <2>3, <2>4, <2>5, <2>6 DEF TypeOK
<1>2. PipeInv /\ GroupInv BY <1>1 DEF PipeInv, GroupInv, Reported
<1>3. ParentInv /\ WaitInv /\ FlagInv BY DEF ParentInv, WaitInv, FlagInv, Started
<1>4. CleanResult /\ TimeoutKills /\ PidFileReset
  BY DEF CleanResult, TimeoutKills, PidFileReset, Returned
<1> QED BY <1>1, <1>2, <1>3, <1>4 DEF ShellInv

-----------------------------------------------------------------------------
(* The child's steps.                                                      *)

\* The child makes its group.
LEMMA SetPgidStep ==
  ASSUME ShellInv, NEW p \in Pid, SetPgid(p)
  PROVE  ShellInv'
<1> USE DEF ShellInv, SetPgid, parent, handler, fixed
<1>1. TypeOK' BY ShellAssumption DEF TypeOK, Pid
<1>2. PipeInv' BY DEF TypeOK, PipeInv, Reported
<1>3. GroupInv' BY DEF TypeOK, GroupInv
<1>4. ParentInv' BY DEF TypeOK, ParentInv, Started, Reported
<1>5. WaitInv' BY DEF TypeOK, WaitInv
<1>6. FlagInv' BY DEF TypeOK, FlagInv, Disturbed, Alive
<1>7. CleanResult' BY DEF TypeOK, CleanResult, Returned
<1>8. TimeoutKills' BY DEF TypeOK, TimeoutKills, Returned, Alive
<1>9. PidFileReset' BY DEF TypeOK, PidFileReset, Returned
<1> QED BY <1>1, <1>2, <1>3, <1>4, <1>5, <1>6, <1>7, <1>8, <1>9

\* The child reports that it cannot start.
LEMMA SetupFailsStep ==
  ASSUME ShellInv, NEW p \in Pid, NEW why \in {"PREIO", "ARG"}, SetupFails(p, why)
  PROVE  ShellInv'
<1> USE DEF ShellInv, SetupFails, CloseExit, Status, Report, parent, handler, fixed
<1>1. TypeOK' BY ShellAssumption DEF TypeOK, Pid
<1>2. PipeInv' BY DEF TypeOK, PipeInv, Reported
<1>3. GroupInv' BY DEF TypeOK, GroupInv
<1>4. ParentInv' BY DEF TypeOK, ParentInv, Started, Reported
<1>5. WaitInv' BY DEF TypeOK, WaitInv
<1>6. FlagInv' BY DEF TypeOK, FlagInv, Disturbed, Alive
<1>7. CleanResult' BY DEF TypeOK, CleanResult, Returned
<1>8. TimeoutKills' BY DEF TypeOK, TimeoutKills, Returned, Alive
<1>9. PidFileReset' BY DEF TypeOK, PidFileReset, Returned
<1> QED BY <1>1, <1>2, <1>3, <1>4, <1>5, <1>6, <1>7, <1>8, <1>9

\* The child reports that it is ready.
LEMMA ReportReadyStep ==
  ASSUME ShellInv, NEW p \in Pid, ReportReady(p)
  PROVE  ShellInv'
<1> USE DEF ShellInv, ReportReady, Report, parent, handler, fixed
<1>1. TypeOK' BY ShellAssumption DEF TypeOK, Pid
<1>2. PipeInv'
  <2> SUFFICES ASSUME NEW q \in Pid
               PROVE  (q > n' => cst'[q] = "none") /\ (~Reported(q)' => pipe'[q] = << >>)
    BY DEF PipeInv
  <2>1. (q > n => cst[q] = "none") /\ (~Reported(q) => pipe[q] = << >>) BY DEF PipeInv
  <2>2. q \in Nat /\ n \in Nat /\ DOMAIN cst = Pid /\ DOMAIN pipe = Pid BY DEF TypeOK, Pid
  <2> QED BY <2>1, <2>2 DEF Reported
<1>3. GroupInv' BY DEF TypeOK, GroupInv
<1>4. ParentInv' BY DEF TypeOK, ParentInv, Started, Reported
<1>5. WaitInv' BY DEF TypeOK, WaitInv
<1>6. FlagInv' BY DEF TypeOK, FlagInv, Disturbed, Alive
<1>7. CleanResult' BY DEF TypeOK, CleanResult, Returned
<1>8. TimeoutKills' BY DEF TypeOK, TimeoutKills, Returned, Alive
<1>9. PidFileReset' BY DEF TypeOK, PidFileReset, Returned
<1> QED BY <1>1, <1>2, <1>3, <1>4, <1>5, <1>6, <1>7, <1>8, <1>9

\* The child becomes the tool.
LEMMA ExecOkStep ==
  ASSUME ShellInv, NEW p \in Pid, ExecOk(p)
  PROVE  ShellInv'
<1> USE DEF ShellInv, ExecOk, parent, handler, fixed
<1>1. TypeOK' BY ShellAssumption DEF TypeOK, Pid
<1>2. PipeInv' BY DEF TypeOK, PipeInv, Reported
<1>3. GroupInv' BY DEF TypeOK, GroupInv
<1>4. ParentInv' BY DEF TypeOK, ParentInv, Started, Reported
<1>5. WaitInv' BY DEF TypeOK, WaitInv
<1>6. FlagInv' BY DEF TypeOK, FlagInv, Disturbed, Alive
<1>7. CleanResult' BY DEF TypeOK, CleanResult, Returned
<1>8. TimeoutKills' BY DEF TypeOK, TimeoutKills, Returned, Alive
<1>9. PidFileReset' BY DEF TypeOK, PidFileReset, Returned
<1> QED BY <1>1, <1>2, <1>3, <1>4, <1>5, <1>6, <1>7, <1>8, <1>9

\* The child reports that execvp failed.
LEMMA ExecFailsStep ==
  ASSUME ShellInv, NEW p \in Pid, ExecFails(p)
  PROVE  ShellInv'
<1> USE DEF ShellInv, ExecFails, CloseExit, Status, Report, parent, handler, fixed
<1>1. TypeOK' BY ShellAssumption DEF TypeOK, Pid
<1>2. PipeInv' BY DEF TypeOK, PipeInv, Reported
<1>3. GroupInv' BY DEF TypeOK, GroupInv
<1>4. ParentInv' BY DEF TypeOK, ParentInv, Started, Reported
<1>5. WaitInv' BY DEF TypeOK, WaitInv
<1>6. FlagInv' BY DEF TypeOK, FlagInv, Disturbed, Alive
<1>7. CleanResult' BY DEF TypeOK, CleanResult, Returned
<1>8. TimeoutKills' BY DEF TypeOK, TimeoutKills, Returned, Alive
<1>9. PidFileReset' BY DEF TypeOK, PidFileReset, Returned
<1> QED BY <1>1, <1>2, <1>3, <1>4, <1>5, <1>6, <1>7, <1>8, <1>9

\* The tool ends by itself.
LEMMA ToolExitsStep ==
  ASSUME ShellInv, NEW p \in Pid, NEW how \in Status, ToolExits(p, how)
  PROVE  ShellInv'
<1> USE DEF ShellInv, ToolExits, CloseExit, parent, handler, fixed
<1>1. TypeOK' BY ShellAssumption DEF TypeOK, Pid
<1>2. PipeInv' BY DEF TypeOK, PipeInv, Reported
<1>3. GroupInv' BY DEF TypeOK, GroupInv
<1>4. ParentInv' BY DEF TypeOK, ParentInv, Started, Reported
<1>5. WaitInv' BY DEF TypeOK, WaitInv
<1>6. FlagInv' BY DEF TypeOK, FlagInv, Disturbed, Alive
<1>7. CleanResult' BY DEF TypeOK, CleanResult, Returned
<1>8. TimeoutKills' BY DEF TypeOK, TimeoutKills, Returned, Alive
<1>9. PidFileReset' BY DEF TypeOK, PidFileReset, Returned
<1> QED BY <1>1, <1>2, <1>3, <1>4, <1>5, <1>6, <1>7, <1>8, <1>9

\* SIGTERM is delivered.
LEMMA TermDeliveredStep ==
  ASSUME ShellInv, NEW p \in Pid, TermDelivered(p)
  PROVE  ShellInv'
<1> USE DEF ShellInv, parent, handler, fixed
<1>1. /\ Alive(p) /\ term[p] /\ term' = [term EXCEPT ![p] = FALSE]
      /\ UNCHANGED <<parent, handler, ownGrp, pipe, fixed>>
      /\ \/ cst[p] = "running" /\ tool[p] = "stubborn" /\ UNCHANGED <<cst, wopen, ended>>
         \/ /\ cst' = [cst EXCEPT ![p] = "zombie"] /\ wopen' = [wopen EXCEPT ![p] = FALSE]
            /\ ended' = [ended EXCEPT ![p] = "signal"]
  BY DEF TermDelivered, CloseExit
<1>2. TypeOK'
  <2>1. term' \in [Pid -> BOOLEAN] BY <1>1 DEF TypeOK
  <2>2. cst' \in [Pid -> {"none", "born", "grouped", "reported", "running", "zombie", "reaped"}]
    BY <1>1 DEF TypeOK
  <2>3. wopen' \in [Pid -> BOOLEAN] BY <1>1 DEF TypeOK
  <2>4. ended' \in [Pid -> Status] BY <1>1 DEF TypeOK, Status
  <2>5. UNCHANGED <<parent, handler, ownGrp, pipe, fixed>> BY <1>1
  <2> QED BY <2>1, <2>2, <2>3, <2>4, <2>5 DEF TypeOK
<1>3. PipeInv' BY <1>1 DEF TypeOK, PipeInv, Reported, Alive
<1>4. GroupInv' BY <1>1 DEF TypeOK, GroupInv
<1>5. ParentInv' BY <1>1 DEF TypeOK, ParentInv, Started, Reported
<1>6. WaitInv' BY <1>1 DEF TypeOK, WaitInv, Alive
<1>7. FlagInv' BY <1>1 DEF TypeOK, FlagInv, Disturbed, Alive
<1>8. CleanResult'
  <2>1. Returned => n \in Pid BY DEF Returned, TypeOK, Pid
  <2>2. cst[n] = "reaped" => p # n BY <1>1 DEF Alive
  <2>3. Returned /\ p # n => cst'[n] = cst[n] /\ ended'[n] = ended[n] BY <1>1, <2>1 DEF TypeOK
  <2> QED BY <1>1, <2>1, <2>2, <2>3 DEF CleanResult, Returned
<1>9. TimeoutKills'
  <2> SUFFICES ASSUME TimeoutKills, Returned, ret.failure = "NONE", ret.timeout PROVE Disturbed(n)'
    BY <1>1 DEF TimeoutKills, Disturbed, Alive, Returned
  <2>1. n \in Pid /\ Disturbed(n) BY DEF TimeoutKills, Returned, TypeOK, Pid, Disturbed
  <2> QED BY <1>1, <2>1 DEF Disturbed, Alive, TypeOK
<1>10. PidFileReset' BY <1>1 DEF TypeOK, PidFileReset, Returned
<1> QED BY <1>2, <1>3, <1>4, <1>5, <1>6, <1>7, <1>8, <1>9, <1>10 DEF ShellInv

-----------------------------------------------------------------------------
(* The alarm.                                                              *)

\* The alarm expires.
LEMMA AlarmStep ==
  ASSUME ShellInv, parent_alarm_handler
  PROVE  ShellInv'
<1> USE DEF ShellInv, fixed
<1>1. ppc \in {"prewait", "wait", "disarm"} /\ timed[n] /\ child_pid = n /\ n \in Pid /\ ownGrp[n]
  BY DEF parent_alarm_handler, TypeOK, ParentInv, GroupInv, Started, Reported
<1>2. /\ armed' = FALSE /\ shared_time_out' = TRUE
      /\ \/ Alive(n) /\ term' = [term EXCEPT ![n] = TRUE]
         \/ ~Alive(n) /\ term' = term
      /\ \/ ppc = "wait" /\ ppc' = "disarm" /\ wres' = "eintr"
         \/ ppc # "wait" /\ ppc' = ppc /\ wres' = wres
      /\ UNCHANGED <<n, timed, ret, pidfile, child_pid, cst, ownGrp, pipe, wopen, fixed, ended>>
  BY <1>1 DEF parent_alarm_handler, Kill, Pid
<1>3. TypeOK' BY <1>1, <1>2 DEF TypeOK
<1>4. PipeInv' BY <1>1, <1>2 DEF TypeOK, PipeInv, Reported
<1>5. GroupInv' BY <1>1, <1>2 DEF TypeOK, GroupInv
<1>6. ParentInv' BY <1>1, <1>2 DEF TypeOK, ParentInv, Started, Reported
<1>7. WaitInv' BY <1>1, <1>2 DEF TypeOK, WaitInv
<1>8. FlagInv' BY <1>1, <1>2 DEF TypeOK, FlagInv, Disturbed, Alive
<1>9. CleanResult' BY <1>1, <1>2 DEF TypeOK, CleanResult, Returned
<1>10. TimeoutKills' BY <1>1, <1>2 DEF TypeOK, TimeoutKills, Returned, Alive
<1>11. PidFileReset' BY <1>1, <1>2 DEF TypeOK, PidFileReset, Returned
<1> QED BY <1>3, <1>4, <1>5, <1>6, <1>7, <1>8, <1>9, <1>10, <1>11 DEF ShellInv

-----------------------------------------------------------------------------
(* The parent's steps.                                                     *)

\* A call forks its child.
LEMMA ForkStep ==
  ASSUME ShellInv, NEW t \in BOOLEAN, Fork(t)
  PROVE  ShellInv'
<1> USE DEF ShellInv, Fork, handler, fixed
<1>1. TypeOK' BY ShellAssumption DEF TypeOK, Pid
<1>2. PipeInv'
  <2> SUFFICES ASSUME NEW q \in Pid
               PROVE  (q > n' => cst'[q] = "none") /\ (~Reported(q)' => pipe'[q] = << >>)
    BY DEF PipeInv
  <2>1. (q > n => cst[q] = "none") /\ (~Reported(q) => pipe[q] = << >>) BY DEF PipeInv
  <2>2. q \in Nat /\ n \in Nat /\ DOMAIN cst = Pid /\ DOMAIN pipe = Pid BY DEF TypeOK, Pid
  <2> QED BY <2>1, <2>2 DEF Reported
<1>3. GroupInv'
  <2> SUFFICES ASSUME NEW q \in Pid
               PROVE  /\ IF cst'[q] \in {"none", "born"} THEN ~ownGrp'[q]
                                                       ELSE ownGrp'[q] = timed'[q]
                      /\ term'[q] => ownGrp'[q]
    BY DEF GroupInv
  <2>1. /\ q > n => cst[q] = "none"
        /\ IF cst[q] \in {"none", "born"} THEN ~ownGrp[q] ELSE ownGrp[q] = timed[q]
        /\ term[q] => ownGrp[q]
    BY DEF PipeInv, GroupInv
  <2>2. q \in Nat /\ n \in Nat /\ DOMAIN cst = Pid /\ DOMAIN timed = Pid BY DEF TypeOK, Pid
  <2> QED BY <2>1, <2>2
<1>4. ParentInv' BY DEF TypeOK, ParentInv, Started, Reported
<1>5. WaitInv' BY DEF TypeOK, WaitInv
<1>6. FlagInv' BY DEF TypeOK, FlagInv, Disturbed, Alive
<1>7. CleanResult' BY DEF TypeOK, CleanResult, Returned
<1>8. TimeoutKills' BY DEF TypeOK, TimeoutKills, Returned, Alive
<1>9. PidFileReset' BY DEF TypeOK, PidFileReset, Returned
<1> QED BY <1>1, <1>2, <1>3, <1>4, <1>5, <1>6, <1>7, <1>8, <1>9

\* fork() fails.
LEMMA ForkFailsStep ==
  ASSUME ShellInv, NEW t \in BOOLEAN, ForkFails(t)
  PROVE  ShellInv'
<1> USE DEF ShellInv, ForkFails, Finish, Fail, Code, Failure, handler, child, fixed
<1>1. TypeOK' BY ShellAssumption DEF TypeOK, Pid
<1>2. PipeInv'
  <2> SUFFICES ASSUME NEW q \in Pid
               PROVE  (q > n' => cst'[q] = "none") /\ (~Reported(q)' => pipe'[q] = << >>)
    BY DEF PipeInv
  <2>1. (q > n => cst[q] = "none") /\ (~Reported(q) => pipe[q] = << >>) BY DEF PipeInv
  <2>2. q \in Nat /\ n \in Nat /\ DOMAIN cst = Pid /\ DOMAIN pipe = Pid BY DEF TypeOK, Pid
  <2> QED BY <2>1, <2>2 DEF Reported
<1>3. GroupInv'
  <2> SUFFICES ASSUME NEW q \in Pid
               PROVE  /\ IF cst'[q] \in {"none", "born"} THEN ~ownGrp'[q]
                                                       ELSE ownGrp'[q] = timed'[q]
                      /\ term'[q] => ownGrp'[q]
    BY DEF GroupInv
  <2>1. /\ q > n => cst[q] = "none"
        /\ IF cst[q] \in {"none", "born"} THEN ~ownGrp[q] ELSE ownGrp[q] = timed[q]
        /\ term[q] => ownGrp[q]
    BY DEF PipeInv, GroupInv
  <2>2. q \in Nat /\ n \in Nat /\ DOMAIN cst = Pid /\ DOMAIN timed = Pid BY DEF TypeOK, Pid
  <2> QED BY <2>1, <2>2
<1>4. ParentInv' BY DEF TypeOK, ParentInv, Started, Reported
<1>5. WaitInv' BY DEF TypeOK, WaitInv
<1>6. FlagInv' BY DEF TypeOK, FlagInv, Disturbed, Alive
<1>7. CleanResult' BY DEF TypeOK, CleanResult, Returned
<1>8. TimeoutKills' BY DEF TypeOK, TimeoutKills, Returned, Alive
<1>9. PidFileReset' BY DEF TypeOK, PidFileReset, Returned
<1> QED BY <1>1, <1>2, <1>3, <1>4, <1>5, <1>6, <1>7, <1>8, <1>9

\* The first read.
LEMMA Read1Step ==
  ASSUME ShellInv, Read1
  PROVE  ShellInv'
<1> USE DEF ShellInv, fixed, handler
<1>1. n \in Pid /\ pidfile < n /\ pipe[n] \in Seq(Report) /\ ~armed /\ ppc = "read1"
  BY DEF Read1, TypeOK, ParentInv
<1>2. UNCHANGED <<n, timed, wres, pidfile, handler, cst, ownGrp, wopen, term, fixed, ended>>
  BY DEF Read1
<1>3. \/ /\ pipe' = pipe /\ ppc' = "idle"
         /\ ret' \in Result /\ ret'.failure \in {"PREIO", "ARG", "EXEC"}
      \/ /\ pipe[n] # << >> /\ pipe' = [pipe EXCEPT ![n] = Tail(@)]
         /\ \/ ppc' = "publish" /\ ret' = ret
            \/ /\ ppc' = "idle"
               /\ ret' \in Result /\ ret'.failure \in {"PREIO", "ARG", "EXEC"}
  <2>1. CASE pipe[n] = << >>
    BY <2>1, FailProps DEF Read1, Failure
  <2>2. CASE pipe[n] # << >>
    <3>1. Head(pipe[n]) \in Report BY <1>1, <2>2
    <3>2. CASE Head(pipe[n]) = "NONE" BY <2>2, <3>2 DEF Read1
    <3>3. CASE Head(pipe[n]) # "NONE"
      <4>1. Head(pipe[n]) \in Failure /\ Head(pipe[n]) \in {"PREIO", "ARG", "EXEC"}
        BY <3>1, <3>3 DEF Failure, Report
      <4>2. Fail(Head(pipe[n]), BOOLEAN) BY <2>2, <3>3 DEF Read1
      <4>3. ppc' = "idle" /\ ret' \in Result /\ ret'.failure = Head(pipe[n])
        BY <4>1, <4>2, FailProps
      <4> QED BY <2>2, <4>1, <4>3 DEF Read1
    <3> QED BY <3>2, <3>3
  <2> QED BY <2>1, <2>2
<1>4. pipe' \in [Pid -> Seq(Report)]
  <2>1. pipe[n] # << >> => Tail(pipe[n]) \in Seq(Report) BY <1>1
  <2> QED BY <1>1, <1>3, <2>1 DEF TypeOK
<1>5. ret' \in Result BY <1>3 DEF TypeOK, Result
<1>6. TypeOK' BY <1>1, <1>2, <1>3, <1>4, <1>5 DEF TypeOK, Result
<1>7. PipeInv' BY <1>1, <1>2, <1>3 DEF TypeOK, PipeInv, Reported
<1>8. GroupInv' BY <1>1, <1>2, <1>3 DEF TypeOK, GroupInv
<1>9. ParentInv' BY <1>1, <1>2, <1>3 DEF TypeOK, PipeInv, ParentInv, Started, Reported
<1>10. WaitInv' BY <1>1, <1>2, <1>3 DEF TypeOK, WaitInv
<1>11. FlagInv' BY <1>1, <1>2, <1>3 DEF TypeOK, FlagInv, Disturbed, Alive
<1>12. CleanResult' BY <1>1, <1>2, <1>3 DEF TypeOK, CleanResult, Returned
<1>13. TimeoutKills' BY <1>1, <1>2, <1>3 DEF TypeOK, TimeoutKills, Returned, Alive
<1>14. PidFileReset' BY <1>1, <1>2, <1>3 DEF TypeOK, PidFileReset, Returned
<1> QED BY <1>6, <1>7, <1>8, <1>9, <1>10, <1>11, <1>12, <1>13, <1>14 DEF ShellInv

\* The child's pid is published.
LEMMA PublishStep ==
  ASSUME ShellInv, Publish
  PROVE  ShellInv'
<1> USE DEF ShellInv, Publish, child, fixed
<1>1. TypeOK' BY ShellAssumption DEF TypeOK, Pid
<1>2. PipeInv' BY DEF TypeOK, PipeInv, Reported
<1>3. GroupInv' BY DEF TypeOK, GroupInv
<1>4. ParentInv' BY DEF TypeOK, ParentInv, Started, Reported
<1>5. WaitInv' BY DEF TypeOK, WaitInv
<1>6. FlagInv' BY DEF TypeOK, FlagInv, Disturbed, Alive
<1>7. CleanResult' BY DEF TypeOK, CleanResult, Returned
<1>8. TimeoutKills' BY DEF TypeOK, TimeoutKills, Returned, Alive
<1>9. PidFileReset' BY DEF TypeOK, PidFileReset, Returned
<1> QED BY <1>1, <1>2, <1>3, <1>4, <1>5, <1>6, <1>7, <1>8, <1>9

\* The alarm is set.
LEMMA ArmStep ==
  ASSUME ShellInv, Arm
  PROVE  ShellInv'
<1> USE DEF ShellInv, Arm, child, fixed
<1>1. TypeOK' BY ShellAssumption DEF TypeOK, Pid
<1>2. PipeInv' BY DEF TypeOK, PipeInv, Reported
<1>3. GroupInv' BY DEF TypeOK, GroupInv
<1>4. ParentInv' BY DEF TypeOK, ParentInv, Started, Reported
<1>5. WaitInv' BY DEF TypeOK, WaitInv
<1>6. FlagInv' BY DEF TypeOK, FlagInv, Disturbed, Alive
<1>7. CleanResult' BY DEF TypeOK, CleanResult, Returned
<1>8. TimeoutKills' BY DEF TypeOK, TimeoutKills, Returned, Alive
<1>9. PidFileReset' BY DEF TypeOK, PidFileReset, Returned
<1> QED BY <1>1, <1>2, <1>3, <1>4, <1>5, <1>6, <1>7, <1>8, <1>9

\* The parent enters waitpid.
LEMMA EnterWaitStep ==
  ASSUME ShellInv, EnterWait
  PROVE  ShellInv'
<1> USE DEF ShellInv, EnterWait, handler, child, fixed
<1>1. TypeOK' BY ShellAssumption DEF TypeOK, Pid
<1>2. PipeInv' BY DEF TypeOK, PipeInv, Reported
<1>3. GroupInv' BY DEF TypeOK, GroupInv
<1>4. ParentInv' BY DEF TypeOK, ParentInv, Started, Reported
<1>5. WaitInv' BY DEF TypeOK, WaitInv
<1>6. FlagInv' BY DEF TypeOK, FlagInv, Disturbed, Alive
<1>7. CleanResult' BY DEF TypeOK, CleanResult, Returned
<1>8. TimeoutKills' BY DEF TypeOK, TimeoutKills, Returned, Alive
<1>9. PidFileReset' BY DEF TypeOK, PidFileReset, Returned
<1> QED BY <1>1, <1>2, <1>3, <1>4, <1>5, <1>6, <1>7, <1>8, <1>9

\* waitpid reaps the child.
LEMMA WaitPidStep ==
  ASSUME ShellInv, WaitPid
  PROVE  ShellInv'
<1> USE DEF ShellInv, WaitPid, handler, fixed
<1>1. TypeOK' BY ShellAssumption DEF TypeOK, Pid
<1>2. PipeInv' BY DEF TypeOK, PipeInv, Reported
<1>3. GroupInv' BY DEF TypeOK, GroupInv
<1>4. ParentInv' BY DEF TypeOK, ParentInv, Started, Reported
<1>5. WaitInv' BY DEF TypeOK, WaitInv
<1>6. FlagInv' BY DEF TypeOK, FlagInv, Disturbed, Alive
<1>7. CleanResult' BY DEF TypeOK, CleanResult, Returned
<1>8. TimeoutKills' BY DEF TypeOK, TimeoutKills, Returned, Alive
<1>9. PidFileReset' BY DEF TypeOK, PidFileReset, Returned
<1> QED BY <1>1, <1>2, <1>3, <1>4, <1>5, <1>6, <1>7, <1>8, <1>9

\* The alarm is cancelled.
LEMMA DisarmStep ==
  ASSUME ShellInv, Disarm
  PROVE  ShellInv'
<1> USE DEF ShellInv, Disarm, Finish, Fail, Code, Failure, child, fixed
<1>1. TypeOK'
  <2>1. /\ ppc = "disarm" /\ armed' = (armed /\ ~timed[n])
        /\ UNCHANGED <<n, timed, wres, pidfile, child_pid, shared_time_out, child>>
    OBVIOUS
  <2>2. (Fail("WAIT", BOOLEAN) /\ ppc' = "idle") \/ (ppc' = "read2" /\ ret' = ret) OBVIOUS
  <2>3. ret' \in Result /\ ppc' \in {"idle", "read2"}
    BY <2>2, FailProps DEF TypeOK, Result
  <2>4. armed' \in BOOLEAN BY <2>1 DEF TypeOK
  <2> QED BY <2>1, <2>3, <2>4, ShellAssumption DEF TypeOK, Pid, Result
<1>2. PipeInv' BY DEF TypeOK, PipeInv, Reported
<1>3. GroupInv' BY DEF TypeOK, GroupInv
<1>4. ParentInv' BY DEF TypeOK, ParentInv, Started, Reported
<1>5. WaitInv' BY DEF TypeOK, WaitInv
<1>6. FlagInv' BY DEF TypeOK, FlagInv, Disturbed, Alive
<1>7. CleanResult' BY DEF TypeOK, CleanResult, Returned
<1>8. TimeoutKills' BY DEF TypeOK, TimeoutKills, Returned, Alive
<1>9. PidFileReset' BY DEF TypeOK, PidFileReset, Returned
<1> QED BY <1>1, <1>2, <1>3, <1>4, <1>5, <1>6, <1>7, <1>8, <1>9

\* The second read finds the report of a failed execvp.
LEMMA Read2ExecStep ==
  ASSUME ShellInv, Read2Exec
  PROVE  ShellInv'
<1> USE DEF ShellInv, fixed, handler
<1>1. n \in Pid /\ pipe[n] \in Seq(Report) /\ pipe[n] # << >> /\ ~armed /\ ppc = "read2"
  BY DEF Read2Exec, TypeOK, ParentInv
<1>2. /\ UNCHANGED <<n, timed, wres, pidfile, handler, cst, ownGrp, wopen, term, fixed, ended>>
      /\ pipe' = [pipe EXCEPT ![n] = Tail(@)]
  BY DEF Read2Exec
<1>3. ppc' = "idle" /\ ret' \in Result /\ ret'.failure = "EXEC"
  BY FailProps DEF Read2Exec, SubexitNormal, Failure
<1>4. pipe' \in [Pid -> Seq(Report)]
  <2>1. Tail(pipe[n]) \in Seq(Report) BY <1>1
  <2> QED BY <1>1, <1>2, <2>1 DEF TypeOK
<1>5. TypeOK' BY <1>1, <1>2, <1>3, <1>4 DEF TypeOK, Result
<1>6. PipeInv' BY <1>1, <1>2, <1>3 DEF TypeOK, PipeInv, Reported
<1>7. GroupInv' BY <1>1, <1>2, <1>3 DEF TypeOK, GroupInv
<1>8. ParentInv' BY <1>1, <1>2, <1>3 DEF TypeOK, ParentInv, Started, Reported
<1>9. WaitInv' BY <1>1, <1>2, <1>3 DEF TypeOK, WaitInv
<1>10. FlagInv' BY <1>1, <1>2, <1>3 DEF TypeOK, FlagInv, Disturbed, Alive
<1>11. CleanResult' BY <1>1, <1>2, <1>3 DEF TypeOK, CleanResult, Returned
<1>12. TimeoutKills' BY <1>1, <1>2, <1>3 DEF TypeOK, TimeoutKills, Returned, Alive
<1>13. PidFileReset' BY <1>1, <1>2, <1>3 DEF TypeOK, PidFileReset, Returned
<1> QED BY <1>5, <1>6, <1>7, <1>8, <1>9, <1>10, <1>11, <1>12, <1>13 DEF ShellInv

\* The second read ends the call.
LEMMA Read2EofStep ==
  ASSUME ShellInv, Read2Eof
  PROVE  ShellInv'
<1> USE DEF ShellInv, fixed, handler, child
<1>1. /\ n \in Pid /\ ~armed /\ ppc = "read2" /\ pipe[n] = << >> /\ ppc' = "idle" /\ pidfile' = 0
      /\ UNCHANGED <<n, timed, wres, handler, child>>
  BY DEF Read2Eof, TypeOK, ParentInv, Finish
<1>2. PICK st \in (IF wres = "pid" THEN {WEXITSTATUS(ended[n])} ELSE Code), nm \in SubexitNormal :
        ret' = [failure |-> "NONE", timeout |-> timed[n] /\ shared_time_out,
                status |-> st, normal |-> nm]
  BY DEF Read2Eof, Finish
<1>3. ret'.failure = "NONE" /\ ret'.timeout = (timed[n] /\ shared_time_out)
      /\ ret'.status = st /\ ret'.normal = nm
  BY <1>2
<1>4. st \in Code /\ nm \in BOOLEAN
  BY <1>1, <1>2 DEF TypeOK, WEXITSTATUS, Code, Status, SubexitNormal
<1>5. ret' \in Result BY <1>2, <1>4 DEF Result, Failure, TypeOK
<1>6. wres = "pid" => cst[n] = "reaped" /\ st = WEXITSTATUS(ended[n]) /\ nm = (ended[n] # "signal")
  BY <1>1, <1>2 DEF WaitInv, SubexitNormal
<1>7. wres # "pid" => signals \/ (timed[n] /\ shared_time_out)
  BY <1>1 DEF WaitInv
<1>8. TypeOK' BY <1>1, <1>5 DEF TypeOK, Result
<1>9. PipeInv' BY <1>1 DEF TypeOK, PipeInv, Reported
<1>10. GroupInv' BY <1>1 DEF TypeOK, GroupInv
<1>11. ParentInv' BY <1>1 DEF TypeOK, ParentInv, Started, Reported
<1>12. WaitInv' BY <1>1 DEF TypeOK, WaitInv
<1>13. FlagInv' BY <1>1 DEF TypeOK, FlagInv, Disturbed, Alive
<1>14. CleanResult' BY <1>1, <1>3, <1>6, <1>7 DEF CleanResult, TypeOK
<1>15. TimeoutKills' BY <1>1, <1>3 DEF TimeoutKills, FlagInv, Disturbed, Alive, TypeOK
<1>16. PidFileReset' BY <1>1 DEF TypeOK, PidFileReset, Returned
<1> QED BY <1>8, <1>9, <1>10, <1>11, <1>12, <1>13, <1>14, <1>15, <1>16 DEF ShellInv

\* Another signal interrupts the parent.
LEMMA InterruptedStep ==
  ASSUME ShellInv, Interrupted
  PROVE  ShellInv'
<1> USE DEF ShellInv, fixed, handler, child
<1>1. signals /\ n \in Pid /\ UNCHANGED <<n, timed, pidfile, handler, child>>
  BY DEF Interrupted, TypeOK
<1>2. \/ ppc = "wait" /\ ppc' = "disarm" /\ wres' = "eintr" /\ ret' = ret
      \/ /\ ppc = "read1" /\ ppc' = "idle" /\ wres' = wres
         /\ ret' \in Result /\ ret'.failure = "PREIO"
  BY FailProps DEF Interrupted, Failure
<1>3. TypeOK' BY <1>1, <1>2 DEF TypeOK, Result
<1>4. PipeInv' BY <1>1, <1>2 DEF TypeOK, PipeInv, Reported
<1>5. GroupInv' BY <1>1, <1>2 DEF TypeOK, GroupInv
<1>6. ParentInv' BY <1>1, <1>2 DEF TypeOK, ParentInv, Started, Reported
<1>7. WaitInv' BY <1>1, <1>2 DEF TypeOK, WaitInv
<1>8. FlagInv' BY <1>1, <1>2 DEF TypeOK, FlagInv, Disturbed, Alive
<1>9. CleanResult' BY <1>1, <1>2 DEF TypeOK, CleanResult, Returned
<1>10. TimeoutKills' BY <1>1, <1>2 DEF TypeOK, TimeoutKills, Returned, Alive
<1>11. PidFileReset' BY <1>1, <1>2 DEF TypeOK, PidFileReset, ParentInv, Returned
<1> QED BY <1>3, <1>4, <1>5, <1>6, <1>7, <1>8, <1>9, <1>10, <1>11 DEF ShellInv

\* A step that changes nothing.
LEMMA StutterStep == ASSUME ShellInv, UNCHANGED vars PROVE ShellInv'
<1> USE DEF ShellInv
<1>1. UNCHANGED <<ppc, n, timed, wres, pidfile, ret, child_pid, shared_time_out, armed, cst,
                  ownGrp, wopen, term, pipe, tool, signals, ended>>
  BY DEF vars, parent, handler, child, fixed
<1>2. TypeOK' BY <1>1 DEF TypeOK
<1>3. PipeInv' BY <1>1 DEF PipeInv, Reported
<1>4. GroupInv' BY <1>1 DEF GroupInv
<1>5. ParentInv' BY <1>1 DEF ParentInv, Started, Reported
<1>6. WaitInv' BY <1>1 DEF WaitInv
<1>7. FlagInv' BY <1>1 DEF FlagInv, Disturbed, Alive
<1>8. CleanResult' BY <1>1 DEF CleanResult, Returned
<1>9. TimeoutKills' BY <1>1 DEF TimeoutKills, Returned, Alive
<1>10. PidFileReset' BY <1>1 DEF PidFileReset, Returned
<1> QED BY <1>2, <1>3, <1>4, <1>5, <1>6, <1>7, <1>8, <1>9, <1>10

-----------------------------------------------------------------------------
(* The theorems.                                                           *)

\* Every step keeps the invariant.
LEMMA NextInv == ShellInv /\ [Next]_vars => ShellInv'
<1> SUFFICES ASSUME ShellInv, [Next]_vars PROVE ShellInv' OBVIOUS
<1>1. CASE Parent
  BY <1>1, ForkStep, ForkFailsStep, Read1Step, PublishStep, ArmStep, EnterWaitStep,
     WaitPidStep, DisarmStep, Read2ExecStep, Read2EofStep, InterruptedStep DEF Parent
<1>2. CASE parent_alarm_handler BY <1>2, AlarmStep
<1>3. ASSUME NEW p \in Pid, Child(p) PROVE ShellInv'
  BY <1>3, SetPgidStep, ReportReadyStep, ExecOkStep, ExecFailsStep, TermDeliveredStep,
     SetupFailsStep, ToolExitsStep DEF Child
<1>4. CASE Terminated \/ UNCHANGED vars BY <1>4, StutterStep DEF Terminated
<1> QED BY <1>1, <1>2, <1>3, <1>4 DEF Next

\* The invariant holds in every state of every behaviour.
LEMMA ShellInvariant == Spec => []ShellInv
BY InitInv, NextInv, PTL DEF Spec

\* The variables keep their types, however many calls are made.
THEOREM ShellTypeCorrect == Spec => []TypeOK
<1>1. ShellInv => TypeOK BY DEF ShellInv
<1> QED BY <1>1, ShellInvariant, PTL

\* The handler's kill(-child_pid) always names an existing group, that of the
\* current call's child, in every interleaving of any number of calls.
THEOREM AlarmIsAimed == Spec => []AlarmAimsAtOwnGroup
<1>1. ShellInv => AlarmAimsAtOwnGroup
  BY DEF ShellInv, AlarmAimsAtOwnGroup, TypeOK, GroupInv, ParentInv, Started, Reported
<1> QED BY <1>1, ShellInvariant, PTL

\* Where no other signal is handled, a result without failure and timeout is the
\* exit status of the reaped child.
THEOREM ResultIsClean == Spec => []CleanResult
<1>1. ShellInv => CleanResult BY DEF ShellInv
<1> QED BY <1>1, ShellInvariant, PTL

\* A call that reports a timeout has signalled its tool.
THEOREM TimeoutHasKilled == Spec => []TimeoutKills
<1>1. ShellInv => TimeoutKills BY DEF ShellInv
<1> QED BY <1>1, ShellInvariant, PTL

\* The pid file outlives its call only after a failure once the tool had started.
THEOREM PidFileIsReset == Spec => []PidFileReset
<1>1. ShellInv => PidFileReset BY DEF ShellInv
<1> QED BY <1>1, ShellInvariant, PTL
=============================================================================
