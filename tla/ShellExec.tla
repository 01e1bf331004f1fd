----------------------------- MODULE ShellExec ------------------------------
(***************************************************************************)
(* Running an external tool: os_portable_execute_shell (src/util/fs.cc,    *)
(* the POSIX branch) and its SIGALRM handler.  The parent, the forked      *)
(* child, the tool it becomes and the alarm interleave; a step is one      *)
(* system call, or the code up to the next one.  Calls are made one after  *)
(* the other in one process, so child_pid, shared_time_out and a child     *)
(* left behind by an earlier call are still there in the next.             *)
(***************************************************************************)
EXTENDS Naturals, Sequences

CONSTANTS
  MaxCalls,   \* bound: number of calls the process makes
  Tool        \* how a tool may behave: "exits" on its own, runs "forever" but
              \* dies on SIGTERM, or is "stubborn" and ignores SIGTERM too

ASSUME ShellAssumption ==
  /\ MaxCalls \in Nat \ {0}
  /\ Tool \subseteq {"exits", "forever", "stubborn"}

Pid == 1 .. MaxCalls      \* the child of the n-th call is process n
Report == {"PREIO", "ARG", "NONE", "EXEC"}
Failure == {"PREIO", "FORK", "ARG", "EXEC", "WAIT", "NONE"}
\* the status word: how a process ended
Status == {"exit0", "exit1", "signal"}
Code == {"exit0", "exit1"}
\* the exit-code bits of a process killed by a signal are zero
WEXITSTATUS(st) == IF st = "signal" THEN "exit0" ELSE st
NoResult == [failure |-> "NONE", timeout |-> FALSE, status |-> "exit0", normal |-> TRUE]

VARIABLES
  signals,  \* whether the host program handles other signals, without
            \* SA_RESTART, so that they interrupt blocking calls
  ppc,      \* where the parent is
  n,        \* number of the current call
  timed,    \* timed[p]: timeout # 0 in the p-th call; the child inherits it
  wres,     \* what waitpid returned: "none", "pid", "eintr" (-1)
  child_pid, shared_time_out,   \* the handler's globals; 0: no child yet
  armed,    \* the alarm is set
  pidfile,  \* content of the pid file: process or 0
  ret,      \* result of the last finished call
  cst,      \* cst[p]: state of process p
  ownGrp,   \* ownGrp[p]: p leads a process group of its own
  pipe,     \* pipe[p]: reports of p not read yet
  wopen,    \* wopen[p]: p still holds the write end
  term,     \* term[p]: a SIGTERM is pending for p
  tool,     \* tool[p]: what p turns into
  ended     \* ended[p]: how p ended

fixed == <<tool, signals>>   \* given by the environment
parent == <<ppc, n, timed, wres, ret, pidfile>>
handler == <<child_pid, shared_time_out, armed>>
child == <<cst, ownGrp, pipe, wopen, term, fixed, ended>>
vars == <<parent, handler, child>>

Alive(p) == cst[p] \in {"born", "grouped", "reported", "running"}

Init ==
  /\ signals \in BOOLEAN
  /\ ppc = "idle" /\ n = 0 /\ timed = [p \in Pid |-> FALSE] /\ wres = "none"
  /\ child_pid = 0 /\ shared_time_out = FALSE /\ armed = FALSE
  /\ pidfile = 0 /\ ret = NoResult
  /\ cst = [p \in Pid |-> "none"] /\ ownGrp = [p \in Pid |-> FALSE]
  /\ pipe = [p \in Pid |-> << >>] /\ wopen = [p \in Pid |-> FALSE]
  /\ term = [p \in Pid |-> FALSE] /\ tool \in [Pid -> Tool]
  /\ ended = [p \in Pid |-> "exit0"]

-----------------------------------------------------------------------------
(* The child.                                                              *)

CloseExit(p, how) ==
  /\ cst' = [cst EXCEPT ![p] = "zombie"]
  /\ wopen' = [wopen EXCEPT ![p] = FALSE]
  /\ ended' = [ended EXCEPT ![p] = how]

\* mutant: setpgid forgotten
SetPgidNoGroup(p) ==
  /\ cst[p] = "born"
  /\ cst' = [cst EXCEPT ![p] = "grouped"]
  /\ UNCHANGED <<parent, handler, ownGrp, pipe, wopen, term, fixed, ended>>

\* the group exists before anything is reported
SetPgid(p) ==
  /\ cst[p] = "born"
  /\ cst' = [cst EXCEPT ![p] = "grouped"]
  /\ ownGrp' = [ownGrp EXCEPT ![p] = timed[p]]
  /\ UNCHANGED <<parent, handler, pipe, wopen, term, fixed, ended>>

\* the redirect file cannot be opened, or there are 64 arguments or more
SetupFails(p, why) ==
  /\ cst[p] = "grouped" /\ why \in {"PREIO", "ARG"}
  /\ pipe' = [pipe EXCEPT ![p] = Append(@, why)]
  /\ CloseExit(p, "exit1")
  /\ UNCHANGED <<parent, handler, ownGrp, term, fixed>>

\* mutant: "ready" may be reported before the group is set up
ReportReadyEarly(p) ==
  /\ cst[p] \in {"born", "grouped"}
  /\ cst' = [cst EXCEPT ![p] = "reported"]
  /\ pipe' = [pipe EXCEPT ![p] = Append(@, "NONE")]
  /\ UNCHANGED <<parent, handler, ownGrp, wopen, term, fixed, ended>>

ReportReady(p) ==
  /\ cst[p] = "grouped"
  /\ cst' = [cst EXCEPT ![p] = "reported"]
  /\ pipe' = [pipe EXCEPT ![p] = Append(@, "NONE")]
  /\ UNCHANGED <<parent, handler, ownGrp, wopen, term, fixed, ended>>

\* the write end is close-on-exec
ExecOk(p) ==
  /\ cst[p] = "reported"
  /\ cst' = [cst EXCEPT ![p] = "running"]
  /\ wopen' = [wopen EXCEPT ![p] = FALSE]
  /\ UNCHANGED <<parent, handler, ownGrp, pipe, term, fixed, ended>>

ExecFails(p) ==
  /\ cst[p] = "reported"
  /\ pipe' = [pipe EXCEPT ![p] = Append(@, "EXEC")]
  /\ CloseExit(p, "exit1")
  /\ UNCHANGED <<parent, handler, ownGrp, term, fixed>>

\* by _exit, or by a crash
ToolExits(p, how) ==
  /\ cst[p] = "running" /\ tool[p] = "exits" /\ how \in Status
  /\ CloseExit(p, how)
  /\ UNCHANGED <<parent, handler, ownGrp, pipe, term, fixed>>

\* default action of SIGTERM; a stubborn tool handles it
TermDelivered(p) ==
  /\ term[p] /\ Alive(p)
  /\ term' = [term EXCEPT ![p] = FALSE]
  /\ IF cst[p] = "running" /\ tool[p] = "stubborn"
     THEN UNCHANGED <<cst, wopen, ended>>
     ELSE CloseExit(p, "signal")
  /\ UNCHANGED <<parent, handler, ownGrp, pipe, fixed>>

-----------------------------------------------------------------------------
(* parent_alarm_handler.  Without SA_RESTART the signal interrupts a       *)
(* waitpid that is blocked; anywhere else the parent goes on.              *)
Kill ==
  term' = IF child_pid \in Pid /\ ownGrp[child_pid] /\ Alive(child_pid)
          THEN [term EXCEPT ![child_pid] = TRUE] ELSE term

\* mutant: the flag is not set
AlarmNoFlag ==
  /\ armed /\ armed' = FALSE
  /\ (IF child_pid # 0 THEN Kill ELSE UNCHANGED term) /\ UNCHANGED shared_time_out
  /\ IF ppc = "wait" THEN ppc' = "disarm" /\ wres' = "eintr"
                     ELSE UNCHANGED <<ppc, wres>>
  /\ UNCHANGED <<n, timed, ret, pidfile, child_pid,
                 cst, ownGrp, pipe, wopen, fixed, ended>>

parent_alarm_handler ==
  /\ armed /\ armed' = FALSE
  /\ IF child_pid # 0 THEN Kill /\ shared_time_out' = TRUE
                      ELSE UNCHANGED <<term, shared_time_out>>
  /\ IF ppc = "wait" THEN ppc' = "disarm" /\ wres' = "eintr"
                     ELSE UNCHANGED <<ppc, wres>>
  /\ UNCHANGED <<n, timed, ret, pidfile, child_pid,
                 cst, ownGrp, pipe, wopen, fixed, ended>>

-----------------------------------------------------------------------------
(* The parent.                                                             *)

Fork(t) ==
  /\ ppc = "idle" /\ n < MaxCalls
  /\ n' = n + 1 /\ timed' = [timed EXCEPT ![n + 1] = t] /\ wres' = "none" /\ ppc' = "read1"
  /\ cst' = [cst EXCEPT ![n + 1] = "born"]
  /\ wopen' = [wopen EXCEPT ![n + 1] = TRUE]
  /\ UNCHANGED <<ret, pidfile, handler, ownGrp, pipe, term, fixed, ended>>

Finish(r) == ppc' = "idle" /\ ret' = r

\* timeout is false from the start of the call; _ret.ret and subexit_normal are
\* not initialised, so a return that sets only failure (and subexit_normal if nm
\* is known) leaves those two to chance
Fail(f, nms) ==
  \E st \in Code, nm \in nms :
    Finish([failure |-> f, timeout |-> FALSE, status |-> st, normal |-> nm])

\* subexit_normal is set if waitpid returned a status
SubexitNormal == IF wres = "pid" THEN {ended[n] # "signal"} ELSE BOOLEAN

ForkFails(t) ==
  /\ ppc = "idle" /\ n < MaxCalls
  /\ n' = n + 1 /\ timed' = [timed EXCEPT ![n + 1] = t] /\ wres' = "none"
  /\ Fail("FORK", BOOLEAN)
  /\ UNCHANGED <<pidfile, handler, child>>

Eof(p) == pipe[p] = << >> /\ ~wopen[p]

\* first read: a report, or end of file if the child died before it
Read1 ==
  /\ ppc = "read1" /\ (pipe[n] # << >> \/ Eof(n))
  /\ IF pipe[n] = << >>
     THEN Fail("PREIO", BOOLEAN) /\ UNCHANGED pipe
     ELSE /\ pipe' = [pipe EXCEPT ![n] = Tail(@)]
          /\ IF Head(pipe[n]) = "NONE"
             THEN ppc' = "publish" /\ UNCHANGED ret
             ELSE Fail(Head(pipe[n]), BOOLEAN)
  /\ UNCHANGED <<n, timed, wres, pidfile, handler,
                 cst, ownGrp, wopen, term, fixed, ended>>

Publish ==
  /\ ppc = "publish"
  /\ child_pid' = n /\ pidfile' = n
  /\ ppc' = IF timed[n] THEN "arm" ELSE "prewait"
  /\ UNCHANGED <<n, timed, wres, ret, shared_time_out, armed, child>>

\* mutant: the alarm is never set
ArmNothing ==
  /\ ppc = "arm"
  /\ shared_time_out' = FALSE /\ ppc' = "prewait"
  /\ UNCHANGED <<n, timed, wres, ret, pidfile, child_pid, armed, child>>

Arm ==
  /\ ppc = "arm"
  /\ shared_time_out' = FALSE /\ armed' = TRUE /\ ppc' = "prewait"
  /\ UNCHANGED <<n, timed, wres, ret, pidfile, child_pid, child>>

\* the gap between alarm() and the kernel's side of waitpid()
EnterWait ==
  /\ ppc = "prewait" /\ ppc' = "wait"
  /\ UNCHANGED <<n, timed, wres, ret, pidfile, handler, child>>

WaitPid ==
  /\ ppc = "wait" /\ cst[n] = "zombie"
  /\ cst' = [cst EXCEPT ![n] = "reaped"]
  /\ wres' = "pid" /\ ppc' = "disarm"
  /\ UNCHANGED <<n, timed, ret, pidfile, handler,
                 ownGrp, pipe, wopen, term, fixed, ended>>

\* alarm(0) if one was set; without a timeout a failed wait is an error, and
\* the pid file is left as it is
Disarm ==
  /\ ppc = "disarm"
  /\ armed' = (armed /\ ~timed[n])
  /\ IF ~timed[n] /\ wres = "eintr"
     THEN Fail("WAIT", BOOLEAN)
     ELSE ppc' = "read2" /\ UNCHANGED ret
  /\ UNCHANGED <<n, timed, wres, pidfile, child_pid, shared_time_out, child>>

\* second read: a byte only if execvp failed
Read2Exec ==
  /\ ppc = "read2" /\ pipe[n] # << >>
  /\ pipe' = [pipe EXCEPT ![n] = Tail(@)]
  /\ Fail("EXEC", SubexitNormal)
  /\ UNCHANGED <<n, timed, wres, pidfile, handler,
                 cst, ownGrp, wopen, term, fixed, ended>>

\* mutant: the pid file is left behind
Read2EofKeepPid ==
  /\ ppc = "read2" /\ pipe[n] = << >> /\ (~wopen[n] \/ signals)
  /\ \E st \in IF wres = "pid" THEN {WEXITSTATUS(ended[n])} ELSE Code,
        nm \in SubexitNormal :
       Finish([failure |-> "NONE", timeout |-> timed[n] /\ shared_time_out,
               status |-> st, normal |-> nm])
  /\ UNCHANGED <<n, timed, wres, pidfile, handler, child>>

\* end of file, or an interrupted read, which is not told apart; infop and
\* subexit_normal are whatever they were if waitpid was interrupted
Read2Eof ==
  /\ ppc = "read2" /\ pipe[n] = << >> /\ (~wopen[n] \/ signals)
  /\ \E st \in IF wres = "pid" THEN {WEXITSTATUS(ended[n])} ELSE Code,
        nm \in SubexitNormal :
       Finish([failure |-> "NONE", timeout |-> timed[n] /\ shared_time_out,
               status |-> st, normal |-> nm])
  /\ pidfile' = 0
  /\ UNCHANGED <<n, timed, wres, handler, child>>

\* another signal arrives while the parent is blocked in waitpid, or in the
\* first read; in the second read see Read2Eof
Interrupted ==
  /\ signals
  /\ \/ ppc = "wait" /\ ppc' = "disarm" /\ wres' = "eintr" /\ UNCHANGED ret
     \/ /\ ppc = "read1" /\ pipe[n] = << >>
        /\ Fail("PREIO", BOOLEAN) /\ UNCHANGED wres
  /\ UNCHANGED <<n, timed, pidfile, handler, child>>

Parent ==
  \/ \E t \in BOOLEAN : Fork(t) \/ ForkFails(t)
  \/ Read1 \/ Publish \/ Arm \/ EnterWait \/ WaitPid \/ Disarm
  \/ Read2Exec \/ Read2Eof \/ Interrupted

Child(p) ==
  \/ SetPgid(p) \/ ReportReady(p) \/ ExecOk(p) \/ ExecFails(p) \/ TermDelivered(p)
  \/ \E why \in {"PREIO", "ARG"} : SetupFails(p, why)
  \/ \E how \in Status : ToolExits(p, how)

\* all calls were made
Terminated == ppc = "idle" /\ n = MaxCalls /\ UNCHANGED vars

Next == Parent \/ parent_alarm_handler \/ (\E p \in Pid : Child(p)) \/ Terminated

Spec == Init /\ [][Next]_vars

\* The parent is not stopped for ever, a set alarm expires, a child that can
\* take a step does, and so does a tool that exits on its own.
Fairness ==
  /\ WF_vars(Read1 \/ Publish \/ Arm \/ EnterWait \/ WaitPid \/ Disarm
             \/ Read2Exec \/ Read2Eof)
  /\ WF_vars(parent_alarm_handler)
  /\ \A p \in Pid : WF_vars(Child(p))

FairSpec == Spec /\ Fairness

-----------------------------------------------------------------------------
(* Properties. *)

\* The types of the variables.
TypeOK ==
  /\ ppc \in {"idle", "read1", "publish", "arm", "prewait", "wait", "disarm", "read2"}
  /\ n \in 0 .. MaxCalls /\ timed \in [Pid -> BOOLEAN] /\ wres \in {"none", "pid", "eintr"}
  /\ ppc # "idle" => n \in Pid
  /\ child_pid \in 0 .. n /\ shared_time_out \in BOOLEAN /\ armed \in BOOLEAN
  /\ pidfile \in 0 .. n
  /\ ret \in [failure : Failure, timeout : BOOLEAN, status : Code, normal : BOOLEAN]
  /\ cst \in [Pid -> {"none", "born", "grouped", "reported", "running",
                      "zombie", "reaped"}]
  /\ ownGrp \in [Pid -> BOOLEAN] /\ wopen \in [Pid -> BOOLEAN] /\ term \in [Pid -> BOOLEAN]
  /\ pipe \in [Pid -> Seq(Report)]
  /\ tool \in [Pid -> Tool] /\ signals \in BOOLEAN /\ ended \in [Pid -> Status]

Returned == ppc = "idle" /\ n > 0

\* While the alarm is set, the handler's kill(-child_pid) names the process
\* group of the current call's child, and that group already exists: the child
\* creates it before the report the parent waits for.
AlarmAimsAtOwnGroup == armed => child_pid = n /\ ownGrp[n]

\* In a program that handles no other signal, a call that reports neither a
\* failure nor a timeout has reaped its child, returns that child's exit code,
\* tells a crash from an exit by subexit_normal, and left no exec failure unread
\* in the pipe.
CleanResult ==
  ~signals /\ Returned /\ ret.failure = "NONE" /\ ~ret.timeout
    => /\ cst[n] = "reaped" /\ ret.status = WEXITSTATUS(ended[n])
       /\ ret.normal = (ended[n] # "signal") /\ pipe[n] = << >>

\* A tool that timed out is not left running undisturbed: it has ended, has a
\* SIGTERM coming, or is one that ignores it.
TimeoutKills ==
  Returned /\ ret.failure = "NONE" /\ ret.timeout
    => ~Alive(n) \/ term[n] \/ (cst[n] = "running" /\ tool[n] = "stubborn")

\* The pid file names a process only while its call runs, or after a call that
\* failed once the tool had been started.
PidFileReset ==
  Returned /\ pidfile = n => ret.failure \in {"EXEC", "WAIT"}

\* A call returns when its tool exits on its own, or a timeout was given and the
\* tool does not ignore SIGTERM.
CallReturns ==
  (ppc = "read1" /\ (tool[n] = "exits" \/ (timed[n] /\ tool[n] = "forever"))) ~> (ppc = "idle")

\* fs.h documents ret as the "return value" and subexit_normal as "true if it
\* exits with _exit() call": CleanResult for every host program.
ReturnValueUsable ==
  Returned /\ ret.failure = "NONE" /\ ~ret.timeout
    => cst[n] = "reaped" /\ ret.status = WEXITSTATUS(ended[n])
=============================================================================
