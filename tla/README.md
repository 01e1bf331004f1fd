# A TLA+ verification of ILAng

ILAng builds, manipulates and verifies Instruction-Level Abstractions (ILAs):
models of hardware in which every command at an interface is an instruction with
a decode condition and state updates. This directory holds TLA+ models of the
parts of ILAng whose answers a user relies on, TLC runs that check them on small
instances, and TLAPS proofs of what they guarantee for every instance. Source
paths below are relative to `src/src/` of the repository.

## 1. The system

| Part | Source | State it keeps | Operations | Talks to |
| --- | --- | --- | --- | --- |
| Expressions, ILAs, instructions | `ila/` | keyed tables of inputs, states, instructions, children; decode and updates set once; a table of shared expression nodes | New*, Add*, Set*; hash-consing | everything |
| ILA queries, copies, flattening | `ila-mngr/u_abs_knob.cc`, `u_rewrite_*` | maps from old to new nodes | GetStt, InsertStt, CopyIlaTree, FlattenIla | unrollers, passes |
| Passes | `ila-mngr/p_*.cc` | the ILA they rewrite | simplify, rewrite stores and loads, sanity fixes, child program order | expressions |
| Bounded unrollers | `ila-mngr/u_unroller.cc`, `u_unroller_smt.cc` | predicate tables, dependant variables, the current and next-state tables, the constraint list | Add*/Clear* predicates; PathSubs, PathAssn, PathNone, MonoSubs, MonoAssn, MonoNone, MonoIncr | z3 or smt-switch |
| Commuting diagrams | `ila-mngr/v_eq_check_crr.cc` | one unroller per path, a solver with its push/pop stack, four unrolling bounds | EqCheck, IncEqCheck, IncCheck | unrollers, z3 |
| Legacy bounded check | `ila-mngr/v_eq_check_bmc.cc` | a solver, init and invariant lists | AddInit, AddInvariant, Check | z3 |
| SMT interfaces | `target-smt/` | maps from nodes and functions to terms, the current suffix | GetExpr, GetSmtTerm, Reset | unrollers, solvers |
| Memory consistency | `mcm/` | trace steps, read and write lists, the constraint list and its stack | Unroll, LinkStates, SetFinalProperty, Push, Pop, CheckSat; SC and TSO axioms | z3 |
| Verilog generation | `verilog-out/` | wires, registers, ports, memory writes of the module being written | ExportIla, ExportTopLevelInstr | target generation, files |
| Target generation | `vtarget-out/`, `verilog-in/` | the wrapper module being written, problem list, memory abstractions | GenerateTargets | Verilog generation, the invariant store, files |
| Invariant synthesis loop | `vtarget-out/inv-syn/inv_syn_cegar.cc` | status, counterexample, confirmed and candidate invariants, last verdicts, generated script | Generate*Target, Run*Auto, Extract*Result, WordLevelEnhancement, client edits of the invariants | target generation, external tools through result files |
| Invariant store | `vtarget-out/inv-syn/inv_obj.cc` | parallel vectors of Verilog expressions and SMT formulas | Add*, Insert, Clear, Remove, export, import | the loop, a file |
| Running tools | `util/fs.cc` | the handler's globals, a pipe, a child process, the alarm, a pid file | os_portable_execute_shell | the operating system |
| Serialisation and simulators | `target-json/`, `target-sc/`, `target-itsy/` | identifier tables, output text | import, export, generate | files |

`PROJECT.json` lists every part with its sources and whether it is modelled.

### What is hard

* **State that outlives a call.** The unroller, the solver and the synthesis loop
  are objects reused over many calls; a table, an assertion or a flag left over
  changes the next answer.
* **Frames and bounds.** Unrolling copies variables per frame; an error in a frame
  number gives a formula that is still satisfiable and looks plausible.
* **Sharing.** Expressions are DAGs whose nodes are merged, cached and rewritten in
  place; a node used for another one is still well-formed.
* **Generated hardware and software.** The generators write programs that execute
  updates in some order; the ILA says that all updates read the old state.
* **Assumptions.** The wrapper of a verification target assumes as much as it
  asserts; one assumption too many and every design passes.
* **Answers of other programs.** The loop decides from result files with fixed
  names, written by tools that may be stopped, crash, or never start.
* **Concurrency.** Only `os_portable_execute_shell` is concurrent: parent, child,
  tool and SIGALRM interleave, and reads and waits can be interrupted.

### What makes each part correct

* unrollers: the formula is satisfied by exactly the executions the caller asked
  for, however the object was used before;
* commuting diagrams: "false" is a real counterexample, "true" leaves none within
  the bound as long as the solver answers, and its stack never loses a behaviour;
* expression translation: every back end gives an operator the same value, and no
  cached or shared node stands for another one;
* operations on ILAs: copies, files, flattening and passes keep the meaning of every
  instruction and leave no pointer into the source;
* generated designs: every step of the Verilog module and of the simulators is a step
  of the ILA;
* memory models: the constraints admit exactly the executions of the memory;
* verification targets: the wrapper alarms exactly when the commuting diagram is
  broken, and what it assumes on its own account hides no real execution;
* synthesis loop: stored invariants hold of the design, both final verdicts are
  right, the loop ends and no fatal check is hit;
* running tools: the result is that of the child started by this call, a timeout
  kills that child and nothing else, and the call returns.

The hazards, each at its line, and the properties aimed at them are listed in
`PROJECT.json`.

## 2. The modules

| Module | Models |
| --- | --- |
| `Unroller` | the unrollers; `MCUnroller` gives it a two-level hierarchy |
| `UnrollerProofs` | theorems about `Unroller` |
| `CommDiag` | EqCheck, IncEqCheck, IncCheck; `MCCommDiag` gives it problems |
| `CommDiagProofs` | theorems about `CommDiag` |
| `ShellExec` | os_portable_execute_shell and its alarm handler |
| `ShellExecProofs` | theorems about `ShellExec` |
| `InvariantObject` | the invariant store, as operators |
| `InvSynCegar` | the synthesis loop over `InvariantObject`; `MCInvSynCegar` gives it designs |
| `InvSynCegarProofs` | theorems about `InvSynCegar` and the store |
| `ExprOps` | every operator in the five back ends, the derived operators of `ast_hub` and `ilang++`, the imported ones |
| `SmtGen` | expression nodes, their sharing (`hash_ast`), topological equality, `Z3ExprAdapter`, `SmtSwitchItf` |
| `IlaExpr`, `IlaStep` | an ILA as data with the value of its expressions; its step, the abstract specification |
| `HdlGen`, `ScGen` | what the Verilog generator and the two SystemC generators write |
| `GenStep` | the generated designs running, which implement `IlaStep`; `MCGenStep` gives it ILAs |
| `IlaTree` | a tree of ILAs and the calls that build it |
| `IlaKnob` | queries, rewriting, copies, extraction, flattening, the JSON format |
| `IlaPass` | the passes, LegacyBmc, the decomposition of an imported abstraction |
| `IlaLife` | all of it in any order, over `IlaTree`, `IlaKnob`, `IlaPass`; `MCIlaLife` gives it trees |
| `Mcm` | the multi-ILA unroller with SC and TSO, beside a store-buffer machine; `MCMcm` gives it litmus programs |
| `McmProofs` | a theorem about the constraint list of `Mcm` over any sequence of queries |
| `McmMachProofs` | lemmas: the state of the store-buffer machine as a function of the events it took |
| `McmExecProofs` | theorems: the axioms of SC and TSO admit exactly the executions of that machine |
| `AbsMem` | the memory abstraction |
| `VTarget` | the wrapper of a verification target over `AbsMem`; `MCVTarget` gives it refinement maps |
| `VTargetProofs` | theorems about `VTarget` and the logs of `AbsMem` |

Definitions whose comment begins with "mutant" are deliberately wrong variants of
the definition that follows them; `PROJECT.json` says which property each breaks.

### Unroller

A formula is represented by its truth value under an assignment of all the copies
of the variables; the assignment (`val`, `inp`, `nxt`, `sel`, `vnxt`) is chosen
once, in `Init`, and `cstr` is the value of the conjunction pushed to `cstr_` so
far. A property that holds for every assignment is a statement about the formula.
`val[k]` are the variables with suffix `SuffCurr(k)`, `nxt[k]` those of
`SuffNext(k)`; `sel` and `vnxt` are the selection bits and virtual next states of
MonoUnroll. One action is one API call, one iteration of an unrolling loop or the
code after the loop. `k_prev` is `k_prev_z3_`, and `Substituted` is z3's
substitution in UnrollSubs, which touches the dependant variables only. A missing
decode ends the program in PathUnroll (`TransitionAbort`) and counts as true in
MonoUnroll. `BootStrap` is modelled with `cache = false`, the only way it is called.

Two things the code does that a caller may not expect are in the model and are
excluded from the passing statements by name. The end of an unrolling that starts
at `pos > 0` is asserted in frame `len` (`EndPreds`); `ConnectedExact` is stated
for `pos = 0` or nothing to assert at the end (section 5). The loop that asserts the initial predicates runs only if `len > 0`, so an
unrolling of length zero does not contain them (`UserPreds` says so).

### CommDiag

What the solver reasons about is a set of scenarios, each fixing a start state and
hence four flushing paths (A and B, before and after the instruction). The
representative state of a path is tied to a frame only by the marks "completed
here implies equal", so while no completing frame is marked the relation over it is
free: an assignment is a scenario and two truth values. The z3 solver is its stack
of assertion levels, each the set of assignments left. `Unroll`, `CheckSat`,
`CheckUnsat`, `CheckUnknown`, `Sufficient` and `LoopNext` are the parts of the loops of
IncEqCheck and IncCheck; `EqCheck` is one action, since it keeps no state between its
queries. z3 may also answer "unknown", on any query. The loops compare with "sat" only
(`v_eq_check_crr.cc:150`, 408), so that answer to the main query counts as "unsat"; the
history variable `gaveup` remembers it, and `FirstBoundCovered` claims nothing then. A
completion query z3 gives up on makes IncEqCheck and IncCheck unroll the path further,
and EqCheck accept the number of steps tried (`DetSteps`).
The end-frame behaviour of MonoIncr is taken over from `Unroller` (`FlushFrames`).
`IncEqCheck` is modelled for `min = 0`.

### ShellExec

A step is one system call, or the code up to the next one. Several calls follow
one another in one process, so the globals `child_pid` and `shared_time_out` and a
child an earlier call left behind are still there. `_ret.ret`, `_ret.subexit_normal`
and `infop` are not initialised: a read before they are assigned is nondeterministic. `signals` says whether the host
program handles other signals without SA_RESTART; if so, `Interrupted` and
`Read2Eof` let them interrupt a blocked call. A tool exits by itself, runs until
SIGTERM, or ignores SIGTERM.

### InvariantObject and InvSynCegar

A design is its set of reachable states and its set of states from which the
instruction goes wrong. An invariant is the set of states it excludes, a
counterexample the cube of states that agree with the trace on the registers
extracted from it. The external tools are modelled by what the loop relies on:
an answer is right for the target that was generated; a *fault* is a run without an
answer, and then the result file holds no verdict, something unparsable, or what an
earlier round left in it. The client makes the calls in the order of
`test/t_inv_syn.cc` (`next` is its next call) and, between rounds, edits the
invariants in every way the class offers. A failed `ILA_CHECK` is `next = "aborted"`.
The two backends refused by the constructor and by the script selection lead to
`bad_state` and to that abort. The store keeps both vectors, because export checks
that they have the same length. Reading a result file has a set of outcomes (`Read`): the
readers refuse a file they cannot open and an expression they have already; a callback
of the SMT parser ends the program on an unexpected token; a text that holds no formula
gives the empty expression; and the CHC reader stores the expression before it notices
that the formula is missing (`inv_obj.cc:104`-111), which leaves the vectors out of
step in a program that its caller ends at once. Hence `TypeOK` says that they are in
step while the program runs. Not represented: the text of expressions, auxiliary
variable definitions, the CNF used as a hint for enhancement, statistics.

### ExprOps

A back end is a table from ILA operators to operators of its target language; what
those operators mean (SMT-LIB, Verilog, SystemC's `sc_biguint`, the synthesis
engine's nodes) is external. One expression is grown operator by operator, each back
end carrying the value its own text would have. `exact` is dropped for a back end as
soon as an operator is used outside what it renders faithfully; those places are in
section 5. z3's meaning is the reference because every check of ILAng rests on it.

### SmtGen

Nodes are allocated fresh by `asthub`, merged by `ExprMngr` on the value of `Hash`, and
their arguments replaced in place. `orig` keeps what was allocated, so that "the same
meaning" can be said. Both interfaces keep their maps: `Z3ExprAdapter` forgets its own
at every request, `SmtSwitchItf` only at `Reset`, which is why `SwitchOneSuffix` speaks
of requests of one suffix since then.

### IlaStep, HdlGen, ScGen, GenStep

`IlaStep` says what an ILA does: an instruction that is valid and decodes updates all
its states at once, or a child starts. `HdlGen` and `ScGen` translate the generators to
what the written module or function does: registers and memory ports at a clock edge;
statements in order, with `c_<id>` members that survive from one function to the next.
`GenStep` runs them; the refinement mapping is the identity on `ila`, `st` and `inp`, and
the steps inside compute() that do not assign a state stutter. `Targets` keeps an ILA
for a generator only where the generator's own checks accept it, and leaves out the
shapes for which the written design is known to differ (section 5): the refinement is
about the rest.

### IlaTree, IlaKnob, IlaPass, IlaLife

An expression is a term; a variable carries the tree and ILA it was created in, so that
a copy whose expression still mentions the source is not well-formed. `Scripts` are
sequences of construction calls; after them copies, extraction, flattening, export and
import, every pass, the legacy check and an edit come in any order. What the code asks
the solver is asked over all values of two registers, an input and a two-word memory.
A path of two instructions ties the second frame to the first only in the states of the
first one's host (`After`), so an instruction follows another, or a child instruction
starts after its parent's, when it may decode in such a frame: the other states are free.
The code is that of a release build: an `ILA_ASSERT` does not stop it.

### Mcm

`CheckSat` is a search for timestamps and values, one event at a time in the order of
the timestamps; the constraints are evaluated on the complete assignment. Beside it, on
the same order of events, runs the machine the axioms are supposed to describe:
interleaved cores with, for TSO, one store buffer each; `agree` says that it could do
what the assignment says. Queries are pushed and popped before the one that is checked,
because the unroller keeps lists and constraints between them.

The shared memory is updated with stores; the code has no case for an ITE of memories. A
constraint is about one shared name, so all loads of a step share one writer, which has
to match one of their addresses (`ReadGroups`, `SameAddress`). A store whose data loads the
memory, or a second store inside the first, is nested (`NotNested`). The assertions that
no store is nested are `ILA_ASSERT`s, which a release build does not contain: there the
address and the data are null and the store matches every read. The finder also stays
inside the nested store and takes every store it is shown afterwards for a nested one;
which those are depends on the order of the steps, that of their addresses in memory
(`CheckAndPeel`, for every order; `found` is the result).

`ProgramTypes` is what the code takes for granted of its input: instructions read states
of their own ILA (`memory_model.cc:402` asserts it), properties name states and steps that
exist, and an instruction that TSO treats as atomic by its name writes the shared state.
`SatIsExecution` leaves out three kinds of satisfying assignments: those that give two
steps of an unordered template the same time under TSO (`OneAtATime`), those of queries
with a variable that no constraint ties to the execution (`Tied`), and those of programs with
a nested store (`NestedStores`). Programs of the run reach each of them, and the property
fails when one of the three is dropped; `ExecutionIsSat` holds for all of them. Section 5
lists the lines.

### AbsMem, VTarget

The implementation is arbitrary: in every cycle any value may show on the signals the
refinement map names. A path ends where an assumption of the wrapper fails. `mon` is the
monitor (reset, start, started, ended, counter), `am` the memory abstraction, `fn` and
`hold` the registers of function maps and value holders, and `g` follows the instruction
without looking at the monitor: the properties compare the two. The counter has the width the generator
gives it and wraps. Configurations are combinations of ready condition and bound, flush,
reset length, settings, invariants, function map, value holder, unknown update, skipped
mapping, the user's assumptions and memory.

A mapping that is null, empty or malformed is skipped: the state is neither assumed nor
checked, and `CheckExact` does not speak of it. With IteUnknownAutoIgnore an update may be
an ITE of which one arm is an unknown (`Known`); the ILA's register `c` is the condition
the assertion is guarded with. "mapping control" and "assumptions" are any condition
(`MappingControl`). A function map names any signal for the argument and any for the
result, each with its own condition; an execution is real if the result signal has the
function's value for the argument signal whenever it is named. `RealPathKept` covers the
assumptions the generator derives by itself: the state mapping at the start, the function
map where argument and result are named in the same cycle, the first reads of the memory,
and the invariants. The value holder, the start condition, the flush constraints and the
user's assumptions remove executions because that is what they are for.

Not modelled: a "start condition" of the user's own, which replaces decode and valid at the
start (`gen_util.cc:568`); mapping lists whose elements are bare expressions, or of which
only some elements are malformed.

## 3. The runs

| Run | Expect | Shows | Instance and why it is enough |
| --- | --- | --- | --- |
| `unroll_path` | pass | `TypeOK`, `ConnectedExact`, `SubsExact` for PathSubs, PathAssn and the generic unroller, after any sequence of earlier calls | two variables of two ILAs, three instructions (one of a child, one without decode), one predicate at any level, inputs that trigger one instruction in all frames but the first or but the last, 3 frames: a first, an inner and a last frame, and paths that mix hosts |
| `unroll_mono` | pass | `EncodingExact` (both exactness statements) and `UnconnectedExact` for MonoUnroll | every value of the selection bits and virtual next states over 2 steps; no predicates (they are the same code as in `unroll_path`) |
| `commdiag` | pass | `NoFalseAlarm`, `FirstBoundCovered`, `BenignKept`, `EqCheckSound` | pairs of scenarios, one that may break the relation or leave the flush and one benign one that may be slower, every answer of the solver; 3 frames, so that completion can come before, at and after a bound |
| `shell` | pass | `AlarmAimsAtOwnGroup`, `CleanResult`, `TimeoutKills`, `PidFileReset`, `CallReturns` | two calls: enough for leftovers of one to meet the next; every kind of tool; the alarm at any point |
| `cegar` | pass | `TypeOK`, `InvariantsTrue`, `DoneIsCorrect`, `FailedIsWrong`, `NoAbort`, `LoopEnds` | three design states, 15 designs (one per way the reachable and the bad states overlap, up to renaming, one left out for time), each backend, one client edit, one fault: three states allow three rounds, so an invariant of one round is used in the next two |
| `translate` | pass | `BackendsAgree`, `DerivedMeaning`, `ImportKeepsMeaning` | all operands of widths 1 to 3, two operators deep: signs, zero, the largest value and shifts by the width and more all occur, and a result of one operator meets every other |
| `smtgen` | pass | `SharingKeepsMeaning`, `TopEqExact`, `Z3Exact`, `SwitchOneSuffix` | four nodes over one variable, a constant, a memory constant, functions and operators, two time steps, two requests in any order: enough for a shared argument, for two nodes that differ only in the order of arguments, and for a cached term |
| `step` | pass | `RefinesIla`, `ComputeReturns` | memory updates of up to three stores and ITEs, loads that share nodes with them, a child that ends, every valid condition, both clock configurations; one bit and two words tell an old value from a new one |
| `ila` | pass | `MeaningKept`, `StandsAlone`, `SanityHolds`, `CfgCovers`, `ImportExact`, `BmcAlarmReal` | trees of up to three ILAs, any order of three operations (a copy, a pass over it, and what comes after) |
| `bmc` | violation | `BmcSound` fails: unsat although one state differs | as `ila` |
| `mcm` | pass | `SatIsExecution`, `ExecutionIsSat` | the litmus tests of the repository and their variants with fences, atomic updates, conditional stores, own reads and unordered templates (one with a fence, where two steps can take the same time), programs whose queries name unconstrained variables or addresses nothing loads from, two loads in one instruction, atomic updates of the memory (which are nested stores), SC and TSO, bit vectors and memory, with queries pushed and popped before where the program is small |
| `target` | pass | `CheckExact`, `RealPathKept`, `BmcReaches` | ready bounds absent, 0, 1, 2 and 3, with and without a ready signal, a flush and a forced reset, two addresses and values, all subsets of the three kinds of invariants, both memory modules, an unknown in either arm, a skipped mapping, a condition of the user's, and a memory written between the ready condition and the flushed check: 3 cycles let the end come before, at and after a bound |

Every property of a passing run is broken by a mutant of the code (`PROJECT.json`,
"mutants"). The violation run states what a comment and a test of the repository take
for granted; "findings" quotes them.

Runs without deadlock check: in `shell` a call without a timeout may wait for ever; in
`translate`, `smtgen`, `ila`, `bmc`, `mcm` and `target` the bounded client stops; in
`step` the clock stops at `CounterBound`.

### Fairness

* `ShellExec`: the parent is not stopped for ever, a set alarm expires, every
  child that can take a step does. These are guarantees of the operating system.
  Nothing is assumed about a tool that runs for ever, and `CallReturns` claims
  nothing for one unless a timeout was given and the tool dies on SIGTERM. For a
  tool that ignores SIGTERM there is no such claim: the one SIGTERM can be sent
  before `waitpid` is entered (`fs.cc:480`), and the wait then has no bound.
* `InvSynCegar`: weak fairness of `Loop`: the client keeps making the next call of
  the loop, and a tool that is started returns, which is `CallReturns`. Client edits
  and tool faults are not fair; they are bounded.

* `GenStep`: weak fairness of `ComputeStep`. compute() is a C++ function; once called
  it runs to its end or for ever, nothing else interrupts it. Calls of compute() and
  clock edges are not fair.

## 4. What is proved

The theorems hold for every value of the constants that satisfies the named
assumptions. The bounds are constants too, so the proofs cover any number of frames,
calls, faults, client edits and cycles. TLC evaluates every assumption on the instances
of the runs.

| Module | Assumptions |
| --- | --- |
| `Unroller` | `ModelAssumption`, `BoundAssumption`: the types of the parameters, some ILA declares a state variable, the dead choice is no instruction |
| `InvSynCegar` | `CegarAssumption`: the types of the parameters, something is reachable |
| `ShellExec` | `ShellAssumption`: at least one call, a tool is of one of the three kinds |
| `CommDiag` | `CommDiagAssumption`: types and order of the bounds, `Min = 0` for IncEqCheck; `FrameAssumption`: `MaxFrame` covers every frame the flush is asserted in (the loops look one step ahead of `Max`) |
| `Mcm` | `ProgramTypes`: SC or TSO, bit vectors or a memory, templates of finite length, instructions and properties that name states and steps of their own ILA, atomic updates that write a shared state. The number of ILAs, steps, states and values is arbitrary |
| `VTarget` | `ConfigAssumption`: bounds that are given are natural, at least one reset cycle (`supplementary_info.cc:81`), and at most 8 bits suffice for the counter, so that the width the code computes exists in the model; `EnvAssumption`: addresses on the ports are addresses; `DataAssumption`: zero is a value |

The argument is the same everywhere: an inductive invariant, found with TLC's help and
checked by TLC on the instances of the run, one lemma per action, one step per conjunct
the action can disturb, and a theorem per property that follows from the invariant.

**`UnrollerProofs`.** `TypeCorrect`; then `UnrollCorrect`, the inductive invariant
`UnrollInv`. The exactness statements speak of finished unrollings only, so what is
inductive is a statement about a loop in progress (`LoopInv`): after `i` iterations
`cstr` is the conjunction of the first `i` steps of the reference execution, and,
for the substituting unrolling, `cstr` holds exactly if some run of `i` steps starts in
the first frame, and every such run ends in `k_prev`. A run is a sequence, and the
induction that builds it is the one over the iterations of the loop: `SubsRun` extends a
run by the step just unrolled and `FrozenPrefix` cuts it off again. `DepInv` says that
MonoUnroll has a dependant variable: the decode conjuncts are built once per variable, so
without one they would be missing. `MonoEncoding` is the lemma that the selection-bit
formula means "exactly one choice, enabled, with its result". From it `ConnectedIsExact`,
`UnconnectedIsExact`, `SubsIsExact` and `EncodingIsExact`: both directions of every
exactness statement the runs check.

**`InvSynCegarProofs`.** Lemmas on sequences and on each store operation (the
vectors stay in step; what is excluded afterwards), `CegarTypeCorrect`, then four
invariants, each with a lemma for the step and one case per action:

* `SoundInv` (`CegarInvariantsTrue`): not only the confirmed but also the candidate
  and exported invariants, the assumptions of the generated target and the
  invariants in both result files exclude no reachable state, and a result about to
  be extracted is really a proof. The files are needed because a tool that is not
  started leaves the old one to be read again. It holds with any number of faults.
* `DoneInv` (`CegarDoneIsCorrect`): a pass about to be extracted is what
  RunVerifAuto returned; rests on `SoundInv` for the target's assumptions.
* `FailInv` (`CegarFailedIsWrong`): the cube consists of bad states, the target is
  about that cube, and "reachable" was an answer about it.
* `AbortInv` (`CegarNoAbort`): the cube in hand is excluded by neither store, and the
  result about to be stored excludes it, so it is not one that is stored already.

**`ShellExecProofs`.** `ShellInv` says at each system call of the parent what the other
processes can have done meanwhile: a pipe is empty until its child has reported
(`PipeInv`); a process past setpgid leads a group exactly if its call has a timeout, and
only such a process is ever sent SIGTERM (`GroupInv`); the parent goes on only after the
report, publishes the child before it sets the alarm, and has no alarm set outside the
three steps around waitpid (`ParentInv`, the reason an alarm cannot hit the child of an
earlier call); what waitpid returned (`WaitInv`) and the handler's flag (`FlagInv`) say what
happened. `AlarmIsAimed`, `ResultIsClean`, `TimeoutHasKilled` and `PidFileIsReset` follow
for any number of calls in one process.

**`CommDiagProofs`.** `DiagInv` describes the solver in the middle of a loop. An honest
scenario (it flushes to the end and completes once on every path) keeps its real assignment
on the top of the stack, always if it respects the relation and up to the first query
otherwise (`HonestInv`); the first query is asked with every path at the first bound
(`FirstInv`); IncEqCheck has marked every frame a completion is looked for in, and one step
ahead (`MarkInv`); what is left in the solver flushes up to the frames looked at
(`FlushInv`). Both negative answers of the main query are one lemma (`NotSatStep`): they
leave the same assertions, and only one of them sets `gaveup`. The proof showed two things the model
had left implicit: the frames must reach a step beyond those the loops start from
(`FrameAssumption`), and `EqCheck` covers counterexamples wherever they complete, not only
up to `Max`, which `EqCheckSound` now says.

**`VTargetProofs`.** `TargetInv` relates three descriptions of one execution: the registers
of the monitor and the phase of the instruction (`PhaseInv`); the counter and the cycles
since START (`CountInv`), equal because the counter has `ceil(log2(bound + 10))` bits and
the search stops at `bound + 5`, so that it neither wraps nor saturates on a searched path
(`Counts`); the logs of the memory abstraction and the memory each side would have
(`LogInv`, `ReadInv`). `LogsDecide` is the correctness of the memory abstraction: as long as
the log suffices, equal logs mean equal memories, and without abstracted reads the other
way round too, for any address and data sets. `TimeInv` gives the depth of the search.
From them `VerdictIsExact`, `RealPathIsKept` (with `SomeTargetAlarms` about the table of
assumed and asserted invariants) and `SearchReachesCheck`. The proof attempt found two
mistakes in the reference side of the model, since corrected: it did not count the
implementation's writes between the ready condition and the flushed check, which the
abstraction logs (the run has such a configuration now), and it chose between overlapping
cases of a CASE expression, whose order TLA+ does not define.

**`McmProofs`.** One unroller answers many queries: `Push` remembers the length of the
constraint list, the calls of the query append to it, `Pop` cuts it back. `ListInv` says that
outside a query the list is the system and the stack is empty, and in one that the stack
holds the length of the system and what follows it is exactly what the query added
(`Appended` for the appending calls, `FirstTwo` for `Pop`). `QueryIsExact` follows: the list
`CheckSat` is given is equivalent to the system and the query since the last `Push`, for
every program and any number of queries. It needs no assumption on the constants.

**`McmMachProofs`, `McmExecProofs`.** The machine and the axioms describe an execution in
different terms: the machine has a memory, registers and store buffers and reads the value
found there; the axioms compare timestamps of all the steps of the trace. `RunInv` connects
them while the search places one event after the other:

* `MachInv`: the state of the machine is a function of the set `D` of events placed. The
  memory holds, for every shared state, the data of the store that reached it last; the
  buffer of a core holds its pending stores in the order of their times; a register holds
  the last update in the order of the template (ordered) or of the times (unordered). One
  lemma per kind of event and field (`MemStep`, `MemFacet`, `BufAppend`, `BufTail`,
  `FifoStep`, `RegStep`, ...), put together in `Takes`.
* `History`: while the machine agrees and the times are apart, every event placed is `Good`
  in the cut of the trace at which it came: what it reads is the data of the last store it can see (its
  own core's, or one that reached the memory), a fence or an atomic update finds nothing
  pending, a facet is that of the oldest pending store. `Allowed` is the lemma that
  `Good` is what the machine allows, from `MachInv`.
* `Parted`: once the machine does not agree, some event is not `Good` in some cut. A machine
  that stopped says nothing about later events, so soundness needs this half.

`Good` does not mention the machine, so what is left is about one complete assignment.
What `LinkStates` found of the addresses is `PeelInv`: all of them if no store is nested, and
otherwise, for each read, all of them or none that could be its writer (`Dichotomy`; the
comparison with the candidate itself comes last, so that by then the finder has met
every store). The first half makes the axioms those of the memory model, the second is why
no execution is lost to nested stores: a read that finds no address is explained by the
last store it can see, whatever its address (`LastSeen`).
`GoodByAxioms`: if the constraints hold, every event is good in every cut. The cases are
reads of shared states (`SharedByAxiom`: RF, CO and FR determine the store read),
of private states (`LocalByAxiom`), fences and atomic updates (`NothingPending`), facets (`CoreApart`,
which rests on `InOrder`) and the final step (`FinalByAxiom`). With `Parted` this gives `AxiomsSound`. In the other direction
`AxiomReads`, `AxiomRMW`, `AxiomsTSO`, `LocalOrdered` and `LocalUnordered` derive each group of
constraints from good events, and `ListInv` of `McmProofs` accounts for the rest of the list:
this is `AxiomsComplete`. `OneAtATime`, `Tied` and the absence of nested stores are what
`GoodByAxioms` could not be proved without; TLC confirms that the property fails when any of
them is dropped.

### Only model-checked

* Liveness (`CallReturns`, `LoopEnds`, `ComputeReturns`): fairness is out of the prover's
  reach.
* What recursive definitions compute for every input (`SmtGen`, `IlaKnob`, `IlaPass`,
  `IlaLife`, and the memory updates of `HdlGen` and `ScGen`, hence `RefinesIla`): this needs
  induction over data, and RECURSIVE operators cost the prover its SMT backend.
* `ExprOps`: the operators of the back ends are defined with bitwise operators the prover
  cannot use.

## 5. Where code and documentation disagree

The models do what the code does. Where that is not what a comment or a header says,
the properties are restricted, each restriction named in the comment of the property;
this section lists them. The statements named here are defined in the modules and are
violated: put the statement in the place of the INVARIANTS of the run named.

| Statement | Run | What happens |
| --- | --- | --- |
| `Unroller!StartFrameHonoured` | `unroll_path` | `u_unroller.cc:161` asserts the predicates of the end state in frame `len`, not `pos + len` (also lines 117, 120 and `u_unroller_smt.cc:57`); `u_unroller.h:199` calls pos "the starting time frame" |
| `Unroller!UpdatesConnected` | `unroll_path` | `u_unroller.cc:344` collects the states of the ILAs that host the instructions only: what a child's instruction assigns to its parent's state is lost; `u_unroller.h:196` |
| `CommDiag!BoundCovered` | `commdiag` | `v_eq_check_crr.cc:451` keeps a lemma that was not proved, which hides counterexamples that complete later; line 473 "no bug found up to the given bound" |
| `CommDiag!IncCheckFlushes` | `commdiag`, `Min = 2` | `v_eq_check_crr.cc:185`: the pass for B clears the flush function added for A, as both share the unroller; line 181 "unroller initialized with flushing function" |
| `CommDiag!CompletionUnique` | `commdiag` | `v_eq_check_crr.cc:632`, 665: the at-most-once query is answered from the one before it; line 850 "complete proved to be one and exactly one" |
| `ShellExec!ReturnValueUsable` | `shell` | `fs.cc:495`: a waitpid interrupted by another signal in a timed call is reported as success with an unset return value; `fs.h:59` |
| `InvSynCegar!EqTrueIsCorrect` | `cegar` | `inv_syn_cegar.cc:725`: no verdict counts as "equal"; `inv_syn_cegar.h:95` |
| `SmtGen!SwitchHonoursSuffix` | `smtgen` | `smt_switch_itf.cc:43`: a node that has a term keeps it when the suffix changes; `smt_switch_itf.h:70` |
| `VTarget!FuncMapKept` | `target` | `single_target_misc.cc:168`-185 compares the result also in a cycle in which the argument's condition is false: real executions that name argument and result in different cycles are removed |
| `VTarget!UnknownIgnored` | `target` | `mcm/ast_helper.cc:180`-205 gives the same condition for either arm, so with the unknown in the "then" arm the state is checked exactly where it is unknown; `vtarget_gen.h:70` says "will only gnerate map like : ( ila.c => ila.v == vlg.v )" |
| `ExprOps!ImplyHolds` | `translate` | `ilator_dfs.cc:210`, `dfs.cc:224` write `(!a) & b` for "logical imply" (`expr_op.h:453`) |

Further restrictions met while modelling, all in the code today:

* **Operators.** Verilog: DIV is unsigned, a rotation by 0 shifts by the width. SystemC:
  signed operators are written as unsigned ones. `ilang++.h:202` documents `operator/` as
  unsigned and `ilang++.cc:209` builds the signed one; the importer does the same to UDIV.
  Its XNOR, NAND and NOR of bit vectors are built with the Boolean Not
  (`abst_to_ila.cc:631`-645, `expr_op.cc:172`): z3 throws, Verilog gets no text, and a
  simulator tests for zero; `ImportKeepsMeaning` says that they have no value in z3.
* **Commuting diagrams.** An answer "unknown" of z3 to the main query is taken for "unsat"
  (`v_eq_check_crr.cc:150`, 408).
* **Invariant store.** The CHC reader stores an expression whose formula is missing before
  it returns false (`inv_obj.cc:104`); only the caller's `ILA_CHECK` keeps the vectors in step.
* **Generated Verilog.** Of two stores to one address in one update the inner one wins;
  the chain of ITEs for a memory ignores the grant; write ports of an external memory are
  gated neither by valid nor by reset; of several decoded instructions a register takes
  the first, a memory the last; initial conditions are not translated.
* **Simulators.** IlaSim: members keep values across the branches of an ITE, a memory ITE
  that is shared is called once, the initial values of the top are ignored and those of a
  child are set at every call. ILAtor: a load from a store is refused in memory updates
  only; the loop over the children need not end; several decoded instructions run one
  after the other.
* **Trees.** FlattenIla does not enforce the parents' valid conditions (`VALID_STACK` is
  undefined again, `u_rewrite_ila.cc:10`; doc `u_abs_knob.h:72-79`) and merges children's
  instructions of one name. RewriteStoreLoad changes nothing. GetInpTree is not a tree
  query. SanityCheckAndFix returns false also after a fix. A child sees only the states its
  parent had when it was created; reading such a tree back can fail
  (`json_to_ila_deserializer.cc:465`). The JSON format drops programs, sequences and the
  spec flag. DecomposeExpr takes the first match in post-order.
* **Memory models.** The final step of TSO is after the instructions but not after their
  facets; with ordered local states an instruction that does not decode frees a private
  state it would write; properties added after LinkStates leave their reads free. An atomic update of a memory
  is a nested store: a debug build stops (`axiom_helper.cc:396`, 421, 525), a release build
  lets it match any read with any data, and every store compared later too. Five kinds of
  variables of a query are tied to no step: the
  final value of a shared bit vector, which keeps the name of its own ILA, while the axioms
  speak of the global one; a shared state that a single-step property adds to a step that
  reads none, where `memory_model.cc:658` warns and leaves READ_list as it is; an address of
  the memory that only such a property loads from (`axiom_helper.cc:51`-73); all but one of
  the loads of one instruction (`axiom_helper.cc:174`-183); and a private
  state that a step of an ordered template updates without reading it, when it does not
  decode (`memory_model.cc:418`). Under TSO nothing orders two steps of an unordered
  template, so they may take the same time, and a fence then need not wait for the store. An
  instruction with an atomic name that writes no shared state has no facet, which
  `tso_manual.cc:242` reads.
* **Verification targets.** The constructor reads the field "flush constraint", the wrapper
  "flush constraints", so the constraint is never assumed (`single_target_cond.cc:287`); the
  check after a flush is repeated in later cycles; the depth `max_bound + 5` does not cover
  a flush or a long reset; a ready bound of 0 is only reported; OnlyAssumeUpdatedVarsEq
  without OnlyCheckInstUpdatedVars gives false alarms; the register of an unknown update's
  condition is used but never declared (`verilog_gen.cc:1386`); a mapping that cannot be read
  is an error message and no check (`gen_util.cc:450`); a second write is dropped by the
  memory abstraction, and with abstracted reads a second read of an address is free again;
  the CONFIRMED and CANDIDATE settings abort if only the refinement map has invariants.

## 6. What is not modelled, and the plan

Not modelled, and not planned: the generated Verilog parser and vendored code; the
analysis of Verilog names and widths over its tree; the translation of CHC and SMT text;
script and template text for JasperGold, Yosys, ABC and Grain; logging, string helpers,
build files. They turn text into text, or into inputs of what is modelled; no state of
theirs outlives a call. Of the modelled parts, printing and the accessors that return a
member are left out, and of `fs.cc` the path and directory helpers.

Not represented in the state: object identifiers, wall-clock time, statistics, the CNF
kept as a hint for enhancement. Calls of the synthesis loop out of the order of its tests
read results that were never written (`inv_syn_cegar.cc:436`); the model's client does not
make them.

Models to follow: min > 0 of IncEqCheck, the constant parser `verilog_const_parser.cc`
with its widths, and the remaining back ends' assumptions.
