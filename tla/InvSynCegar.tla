---------------------------- MODULE InvSynCegar ----------------------------
(***************************************************************************)
(* The invariant synthesis loop, InvariantSynthesizerCegar                 *)
(* (src/vtarget-out/inv-syn/inv_syn_cegar.cc), with the external tools it  *)
(* starts and the result files it reads back, driven by a client that      *)
(* calls it in the order of test/t_inv_syn.cc.                             *)
(*                                                                         *)
(* An instruction is verified from any state the invariants do not         *)
(* exclude.  It is wrong from the states of Bad; the design is correct if  *)
(* none of them is reachable.  A counterexample is a cube: the states that *)
(* agree with the trace on the registers extracted from it.                *)
(***************************************************************************)
EXTENDS InvariantObject, FiniteSets

CONSTANTS
  Designs,    \* the designs explored: what is reachable, where they go wrong
  KeepOld,    \* InvariantSynthesisReachableCheckKeepOldInvariant
  MaxOps,     \* bound: the client's own changes to invariants and counterexamples
  MaxFaults   \* bound: runs of a tool that give no answer

ASSUME CegarAssumption ==
  /\ Designs \subseteq [reach : Inv \ {{}}, bad : Inv]
  /\ KeepOld \in BOOLEAN /\ MaxOps \in Nat /\ MaxFaults \in Nat

VARIABLES
  Reach, Bad,            \* the design: reachable states, states that go wrong
  s_backend, v_cosa,     \* the tools chosen; whether v_backend is COSA
  status, bad_state, current_inv_type,
  inv_obj, inv_candidate,
  cex,                   \* cex_extract: a cube
  verification_pass, vcd_file, cex_reachable,
  script,                \* runnable_script_name: the target generated last
  vres, sres, eres,      \* __verification_, __synthesis_, __enhance_result.txt
  invfile,               \* the file invariants are exported to
  next,                  \* the client's next call
  eq,                    \* what RunVerifAuto last returned
  given,                 \* history: the invariants the client supplied itself
  widened,               \* history: the current cube has lost registers
  ops, faults            \* history: how much of the bounds is used

design == <<Reach, Bad, s_backend, v_cosa>>
invs == <<inv_obj, inv_candidate>>
result == <<verification_pass, vcd_file, cex_reachable>>
files == <<vres, sres, eres, invfile>>
history == <<given, widened, ops, faults>>
vars == <<design, status, bad_state, current_inv_type, invs, cex, result, script,
          files, next, eq, history>>

NoScript == [kind |-> "none", assume |-> {}, cex |-> {}]
\* a synthesis or enhancement result: its verdict, and the invariant it holds
SynFile == [verdict : {"absent", "proved", "other"}, inv : Inv, ok : BOOLEAN]
NoFile == [verdict |-> "absent", inv |-> {}, ok |-> FALSE]

\* The constructor does not initialise verification_pass and cex_reachable, nor
\* current_inv_type if it refuses the backend: the client's order of calls writes
\* each before it is read, so any value will do.
Init ==
  /\ \E d \in Designs : Reach = d.reach /\ Bad = d.bad
  /\ s_backend \in {"ABC", "GRAIN", "CHC"} /\ v_cosa \in BOOLEAN
  /\ status = "NEXT_V" /\ bad_state = ~v_cosa /\ current_inv_type = "NONE"
  /\ inv_obj = Empty /\ inv_candidate = Empty /\ cex = {}
  /\ verification_pass = FALSE /\ cex_reachable = FALSE /\ vcd_file = {}
  /\ script = NoScript
  /\ vres = [v |-> "absent", cube |-> {}] /\ sres = NoFile /\ eres = NoFile
  /\ invfile = Empty /\ next = "GenV" /\ eq = "none"
  /\ given = {} /\ widened = FALSE /\ ops = 0 /\ faults = 0

Answered == faults = 0
\* a call of a tool answers (c = 0) or counts as a fault (c = 1)
Faulty(c) == faults + c <= MaxFaults /\ faults' = faults + c

-----------------------------------------------------------------------------
(* Verification.                                                           *)

\* mutant: the candidates are not passed to the target
VerificationTargetNoCandidate(confirmed) ==
  [kind |-> "verif", assume |-> Excluded(confirmed), cex |-> {}]

\* the target assumes the confirmed and the candidate invariants
VerificationTarget(confirmed) ==
  [kind |-> "verif", cex |-> {},
   assume |-> Excluded(confirmed) \cup Excluded(inv_candidate)]

\* without a readable design there is no script
GenerateTarget(confirmed) ==
  /\ next = "GenV" /\ next' = "RunV"
  /\ IF bad_state THEN UNCHANGED <<status, script, faults>>
     ELSE /\ status' = "V_RES"
          /\ \/ script' = VerificationTarget(confirmed) /\ Faulty(0)
             \/ script' = NoScript /\ Faulty(1)
  /\ UNCHANGED <<design, bad_state, current_inv_type, inv_candidate, cex, result, files,
                 eq, widened>>

GenerateVerificationTarget ==
  GenerateTarget(inv_obj) /\ UNCHANGED <<inv_obj, given, ops>>

\* the overload that is given invariants: they are confirmed ones from then on,
\* in a bad state too
GenerateVerificationTargetWith(I) ==
  /\ ops < MaxOps /\ ops' = ops + 1
  /\ given' = given \cup {I}
  /\ inv_obj' = AddInvariantFromVerilogExpr(inv_obj, I)
  /\ GenerateTarget(AddInvariantFromVerilogExpr(inv_obj, I))

\* What the model checker leaves in the result file.  With a fault: it is
\* stopped, by its timeout or otherwise; it claims a counterexample but names no
\* trace, which is the cube without registers; it is not started at all.
VerifTool ==
  (IF Bad \subseteq script.assume
   THEN {[file |-> [v |-> "pass", cube |-> {}], fault |-> 0]}
   ELSE {[file |-> [v |-> "cex", cube |-> {s}], fault |-> 0] : s \in Bad \ script.assume})
    \cup {[file |-> f, fault |-> 1] :
            f \in {[v |-> "nothing", cube |-> {}], [v |-> "cex", cube |-> DesignState], vres}}

\* Whatever is not a counterexample is a pass; how the tool ended is only logged.
RunVerifAuto ==
  /\ next = "RunV"
  /\ \/ /\ script.kind # "verif" /\ next' = "aborted"   \* select_script_to_run
        /\ UNCHANGED <<status, verification_pass, vcd_file, eq, vres, faults>>
     \/ /\ script.kind = "verif" /\ ~bad_state /\ next' = "ExtV"
        /\ \E r \in VerifTool : vres' = r.file /\ Faulty(r.fault)
        /\ verification_pass' = (vres'.v # "cex")
        /\ eq' = IF vres'.v = "cex" THEN "false" ELSE "true"
        /\ status' = IF vres'.v = "cex" THEN status ELSE "DONE"
        /\ vcd_file' = IF vres'.v = "cex" THEN vres'.cube ELSE vcd_file
  /\ UNCHANGED <<design, bad_state, current_inv_type, invs, cex, cex_reachable, script,
                 sres, eres, invfile, given, widened, ops>>

\* mutant: the argument pass, true by default, is used although autodet is set
ExtractVerificationResultNoAutodet ==
  /\ next = "ExtV" /\ ~bad_state
  /\ status' = "DONE" /\ next' = "stop" /\ UNCHANGED <<cex, widened>>
  /\ UNCHANGED <<design, bad_state, current_inv_type, invs, result, script, files, eq,
                 given, ops, faults>>

\* autodet = true
ExtractVerificationResult ==
  /\ next = "ExtV" /\ ~bad_state
  /\ IF verification_pass
     THEN status' = "DONE" /\ next' = "stop" /\ UNCHANGED <<cex, widened>>
     ELSE status' = "NEXT_S" /\ next' = "GenS" /\ cex' = vcd_file /\ widened' = FALSE
  /\ UNCHANGED <<design, bad_state, current_inv_type, invs, result, script, files, eq,
                 given, ops, faults>>

-----------------------------------------------------------------------------
(* Synthesis.                                                              *)

\* the client drops registers from the counterexample
CexGeneralizeRemoveStates(cube) ==
  /\ next = "GenS" /\ ops < MaxOps /\ ops' = ops + 1
  /\ cex \subseteq cube /\ cex' = cube /\ widened' = TRUE
  /\ UNCHANGED <<design, status, bad_state, current_inv_type, invs, result, script, files,
                 next, eq, given, faults>>

GenerateSynthesisTarget ==
  /\ next = "GenS" /\ ~bad_state /\ next' = "RunS"
  /\ status' = "S_RES"
  /\ current_inv_type' = s_backend
  /\ \/ /\ script' = [kind |-> "syn", cex |-> cex,
                      assume |-> IF KeepOld THEN Excluded(inv_obj) ELSE {}]
        /\ Faulty(0)
     \/ script' = NoScript /\ Faulty(1)
  /\ UNCHANGED <<design, bad_state, invs, cex, result, files, eq, given, widened, ops>>

\* A synthesis tool that answers proves the cube unreachable, given the assumed
\* invariants, and leaves an invariant that shows it, or reports that it is
\* reachable, and then its file may hold an unfinished invariant.  With a fault:
\* no verdict; a proof whose invariant cannot be parsed; not started.
SynTool(old) ==
  LET unreach == script.cex \cap Reach \subseteq script.assume
      other == [verdict |-> "other", inv |-> script.cex, ok |-> TRUE]
  IN  (IF unreach
       THEN {[file |-> [verdict |-> "proved", inv |-> I, ok |-> TRUE], fault |-> 0] :
               I \in {J \in Inv : /\ script.cex \subseteq J
                                  /\ J \cap Reach \subseteq script.assume}}
       ELSE {[file |-> other, fault |-> 0]})
      \cup {[file |-> f, fault |-> 1] :
              f \in {other, old, [verdict |-> IF unreach THEN "proved" ELSE "other",
                                 inv |-> {}, ok |-> FALSE]}}

\* mutant: the answer read the wrong way round
RunSynAutoSwapped ==
  /\ next = "RunS" /\ ~bad_state
  /\ \/ /\ script.kind # "syn" /\ next' = "aborted"
        /\ UNCHANGED <<status, bad_state, cex_reachable, sres, faults>>
     \/ /\ script.kind = "syn" /\ next' = "ExtS"
        /\ \E r \in SynTool(sres) : sres' = r.file /\ Faulty(r.fault)
        /\ IF sres'.verdict = "absent"
           THEN status' = "FAILED" /\ bad_state' = TRUE /\ UNCHANGED cex_reachable
           ELSE /\ cex_reachable' = (sres'.verdict = "proved")
                /\ UNCHANGED <<status, bad_state>>
  /\ UNCHANGED <<design, current_inv_type, invs, cex, verification_pass, vcd_file, script,
                 vres, eres, invfile, eq, given, widened, ops>>

\* Whatever is not a proof is taken for "reachable".
RunSynAuto ==
  /\ next = "RunS" /\ ~bad_state
  /\ \/ /\ script.kind # "syn" /\ next' = "aborted"   \* no script to run
        /\ UNCHANGED <<status, bad_state, cex_reachable, sres, faults>>
     \/ /\ script.kind = "syn" /\ next' = "ExtS"
        /\ \E r \in SynTool(sres) : sres' = r.file /\ Faulty(r.fault)
        /\ IF sres'.verdict = "absent"
           THEN status' = "FAILED" /\ bad_state' = TRUE /\ UNCHANGED cex_reachable
           ELSE /\ cex_reachable' = (sres'.verdict # "proved")
                /\ UNCHANGED <<status, bad_state>>
  /\ UNCHANGED <<design, current_inv_type, invs, cex, verification_pass, vcd_file, script,
                 vres, eres, invfile, eq, given, widened, ops>>

\* the reader for the type of invariant the last target asks for
SynthesisResults(tp) ==
  CASE tp = "CHC"   -> AddInvariantFromChcResultFile(inv_obj, sres)
    [] tp = "GRAIN" -> AddInvariantFromGrainResultFile(inv_obj, sres)
    [] tp = "ABC"   -> AddInvariantFromAbcResultFile(inv_obj, sres)
    [] OTHER        -> {Read(FALSE, inv_obj)}

\* mutant: the verdict is not looked at
ExtractSynthesisResultAlways ==
  /\ next = "ExtS" /\ ~bad_state
  /\ \E r \in AddInvariantFromGrainResultFile(inv_obj, sres) : inv_obj' = r.obj
  /\ next' = "GenV" /\ status' = "NEXT_V" /\ current_inv_type' = "NONE"
  /\ UNCHANGED <<design, bad_state, inv_candidate, cex, result, script, files, eq, history>>

\* mutant: a Grain result is parsed but not stored
ExtractSynthesisResultNoAdd ==
  /\ next = "ExtS" /\ ~bad_state
  /\ status' = "NEXT_V" /\ current_inv_type' = "NONE" /\ next' = "GenV"
  /\ UNCHANGED <<design, bad_state, invs, cex, result, script, files, eq, history>>

\* autodet = true
ExtractSynthesisResult ==
  /\ next = "ExtS"
  /\ \/ /\ bad_state /\ next' = "stop"
        /\ UNCHANGED <<status, current_inv_type, inv_obj>>
     \/ /\ ~bad_state /\ cex_reachable
        /\ status' = "FAILED" /\ next' = "stop"
        /\ UNCHANGED <<current_inv_type, inv_obj>>
     \/ /\ ~bad_state /\ ~cex_reachable
        /\ \E r \in SynthesisResults(current_inv_type) :
             /\ inv_obj' = r.obj
             /\ IF r.ended
                THEN next' = "aborted" /\ UNCHANGED <<status, current_inv_type>>
                ELSE status' = "NEXT_V" /\ current_inv_type' = "NONE" /\ next' = "GenV"
  /\ UNCHANGED <<design, bad_state, inv_candidate, cex, result, script, files, eq, history>>

-----------------------------------------------------------------------------
(* The enhancement of an ABC invariant to word level.                      *)

\* the invariant goes to the candidates; the status stays S_RES
ExtractAbcSynthesisResultForEnhancement ==
  /\ next = "ExtS" /\ ~bad_state /\ s_backend = "ABC"
  /\ \/ /\ cex_reachable /\ status' = "FAILED" /\ next' = "stop"
        /\ UNCHANGED <<current_inv_type, inv_candidate>>
     \/ /\ ~cex_reachable /\ UNCHANGED status
        /\ \E r \in AddInvariantFromAbcResultFile(inv_candidate, sres) :
             /\ inv_candidate' = r.obj
             /\ IF r.ended THEN next' = "aborted" /\ UNCHANGED current_inv_type
                ELSE current_inv_type' = "NONE" /\ next' = "Enhance"
  /\ UNCHANGED <<design, bad_state, inv_obj, cex, result, script, files, eq, history>>

\* generate, run and extract in one call; KeepOldInvariant is always set.  What
\* runnable_script_name holds is not changed.  With a fault: the files of an earlier
\* run are read, or a proof whose invariant cannot be parsed.
WordLevelEnhancement ==
  /\ next = "Enhance" /\ ~bad_state
  /\ \E I \in Inv, proved \in BOOLEAN :
       /\ proved => cex \subseteq I /\ I \cap Reach \subseteq Excluded(inv_obj)
       /\ ~proved => I = {}
       /\ \/ /\ eres' = [verdict |-> IF proved THEN "proved" ELSE "other",
                          inv |-> I, ok |-> proved] /\ Faulty(0)
          \/ ~proved /\ eres' = eres /\ Faulty(1)
          \/ proved /\ eres' = [verdict |-> "proved", inv |-> {}, ok |-> FALSE] /\ Faulty(1)
  /\ IF eres'.verdict = "proved"
     THEN \E r \in AddInvariantFromGrainResultFile(inv_obj, eres') :
            /\ inv_obj' = r.obj
            /\ IF r.ended THEN next' = "aborted" /\ UNCHANGED status
               ELSE next' = "GenV" /\ status' = "NEXT_V"
     ELSE next' = "GenV" /\ UNCHANGED <<inv_obj, status>>
  /\ UNCHANGED <<design, bad_state, current_inv_type, inv_candidate, cex, result, script,
                 vres, sres, invfile, eq, given, widened, ops>>

-----------------------------------------------------------------------------
(* What the client may do to the invariants between two rounds.            *)
Between == next = "GenV" /\ ops < MaxOps /\ ops' = ops + 1
OnlyInvs == UNCHANGED <<design, status, bad_state, current_inv_type, cex, result, script,
                        vres, sres, eres, next, eq, widened, faults>>

SupplyCandidateInvariant(I) ==
  /\ Between /\ OnlyInvs /\ UNCHANGED <<inv_obj, invfile>>
  /\ inv_candidate' = AddInvariantFromVerilogExpr(inv_candidate, I)
  /\ given' = given \cup {I}

AcceptAllCandidateInvariant ==
  /\ Between /\ OnlyInvs /\ UNCHANGED <<given, invfile>>
  /\ inv_obj' = InsertFromAnotherInvObj(inv_obj, inv_candidate)
  /\ inv_candidate' = ClearAllInvariants(inv_candidate)

ClearAllCandidateInvariants ==
  /\ Between /\ OnlyInvs /\ UNCHANGED <<given, inv_obj, invfile>>
  /\ inv_candidate' = ClearAllInvariants(inv_candidate)

RemoveInvariantsByIdx(idx) ==
  /\ Between /\ OnlyInvs /\ UNCHANGED <<given, inv_candidate, invfile>>
  /\ idx \in DOMAIN inv_obj.vlg
  /\ inv_obj' = RemoveInvByIdx(inv_obj, idx)

\* bound: the file is written once
ExportInvariants(encoding) ==
  /\ next = "GenV" /\ invfile = Empty /\ inv_obj # Empty
  /\ OnlyInvs /\ UNCHANGED <<given, invs, ops>>
  /\ Aligned(inv_obj)
  /\ invfile' = ExportToFile(inv_obj, encoding)

LoadInvariantsFromFile ==
  /\ Between /\ OnlyInvs /\ UNCHANGED <<given, inv_candidate, invfile>>
  /\ inv_obj' = ImportFromFile(inv_obj, invfile)

LoadCandidateInvariantsFromFile ==
  /\ Between /\ OnlyInvs /\ UNCHANGED <<given, inv_obj, invfile>>
  /\ inv_candidate' = ImportFromFile(inv_candidate, invfile)

-----------------------------------------------------------------------------
Loop ==
  \/ GenerateVerificationTarget \/ RunVerifAuto \/ ExtractVerificationResult
  \/ GenerateSynthesisTarget \/ RunSynAuto \/ ExtractSynthesisResult
  \/ ExtractAbcSynthesisResultForEnhancement \/ WordLevelEnhancement

ClientOps ==
  \/ \E I \in Inv : SupplyCandidateInvariant(I) \/ GenerateVerificationTargetWith(I)
                   \/ CexGeneralizeRemoveStates(I)
  \/ AcceptAllCandidateInvariant \/ ClearAllCandidateInvariants
  \/ \E idx \in DOMAIN inv_obj.vlg : RemoveInvariantsByIdx(idx)
  \/ \E encoding \in BOOLEAN : ExportInvariants(encoding)
  \/ LoadInvariantsFromFile \/ LoadCandidateInvariantsFromFile

Finished == next \in {"stop", "aborted"} /\ UNCHANGED vars

Next == Loop \/ ClientOps \/ Finished

Spec == Init /\ [][Next]_vars

\* the client goes on with the loop, and a tool that is started returns
FairSpec == Spec /\ WF_vars(Loop)

-----------------------------------------------------------------------------
(* Properties.                                                             *)

InvObj == [vlg : Seq(Inv), smt : Seq(Formula)]

TypeDesign ==
  /\ Reach \in Inv /\ Reach # {} /\ Bad \in Inv
  /\ s_backend \in {"ABC", "GRAIN", "CHC"} /\ v_cosa \in BOOLEAN
TypeInvs ==
  /\ inv_obj \in InvObj /\ (next # "aborted" => Aligned(inv_obj))
  /\ inv_candidate \in InvObj /\ Aligned(inv_candidate)
  /\ invfile \in InvObj
TypeFlags ==
  /\ bad_state \in BOOLEAN /\ verification_pass \in BOOLEAN /\ cex_reachable \in BOOLEAN
  /\ widened \in BOOLEAN
TypeLoop ==
  /\ status \in {"NEXT_V", "V_RES", "NEXT_S", "S_RES", "DONE", "FAILED"}
  /\ current_inv_type \in {"NONE", s_backend}
  /\ next \in {"GenV", "RunV", "ExtV", "GenS", "RunS", "ExtS", "Enhance", "stop", "aborted"}
  /\ eq \in {"none", "true", "false"}
TypeCex == cex \in Inv /\ vcd_file \in Inv
TypeFiles ==
  /\ script \in [kind : {"none", "verif", "syn"}, assume : Inv, cex : Inv]
  /\ vres \in [v : {"absent", "pass", "nothing", "cex"}, cube : Inv]
  /\ sres \in SynFile /\ eres \in SynFile
TypeHistory == given \in SUBSET Inv /\ ops \in 0 .. MaxOps /\ faults \in 0 .. MaxFaults

TypeOK == /\ TypeDesign /\ TypeInvs /\ TypeFlags /\ TypeLoop /\ TypeCex
          /\ TypeFiles /\ TypeHistory

\* what the client supplied itself holds of the design
Trusted == \A I \in given : I \cap Reach = {}
Correct == Bad \cap Reach = {}

\* If the client supplies no wrong invariant, none of the confirmed invariants
\* excludes a reachable state, even when tools fail and results of earlier rounds
\* are read again.
InvariantsTrue == Trusted => Excluded(inv_obj) \cap Reach = {}

\* If moreover every tool answered, "equal" (RunVerifAuto's true, or the status
\* DONE) is only reached for a correct design.
DoneIsCorrect ==
  Trusted /\ Answered /\ (eq = "true" \/ status = "DONE") => Correct

\* If every tool answered and no register was dropped from the counterexample, the
\* status FAILED, "true counterexample", is only reached for a wrong design.
FailedIsWrong == Answered /\ ~widened /\ status = "FAILED" => ~Correct

\* As long as every tool answers, no ILA_CHECK of the loop ends the program: a
\* synthesised invariant is never one that is stored already.
NoAbort == Answered /\ v_cosa => next # "aborted"

\* The loop ends: every round excludes a counterexample that was not excluded.
LoopEnds == <>(next \in {"stop", "aborted"})

\* "run Verification : returns eq true/false" (inv_syn_cegar.h): an answer of true
\* is only given for a correct design.
EqTrueIsCorrect == Trusted /\ eq = "true" => Correct
=============================================================================
