-------------------------- MODULE InvariantObject --------------------------
(***************************************************************************)
(* The store of invariants (src/vtarget-out/inv-syn/inv_obj.cc): two       *)
(* vectors in step, the Verilog expressions and the SMT formulas they came *)
(* from.  An expression is the set of design states it excludes; a formula *)
(* is "" (not available) or "raw".  The definitions of the auxiliary       *)
(* variables an expression may use are left out.  The empty expression, of *)
(* a text the SMT parser finds no formula in, excludes nothing; that the   *)
(* tools may reject a target which holds it is one of their failures.      *)
(***************************************************************************)
EXTENDS Naturals, Sequences, SequencesExt

CONSTANT DesignState    \* the states of the design under verification

Inv == SUBSET DesignState
Formula == {"", "raw"}
Empty == [vlg |-> << >>, smt |-> << >>]

\* the states the conjunction of the stored invariants excludes
Excluded(o) == UNION Range(o.vlg)

\* mutant: the formula vector is not kept in step
AddInvNoFormula(o, inv, f) ==
  [vlg |-> Append(o.vlg, inv), smt |-> IF f = "" THEN o.smt ELSE Append(o.smt, f)]

\* the push into both vectors every way of adding an invariant ends with
AddInv(o, inv, f) == [vlg |-> Append(o.vlg, inv), smt |-> Append(o.smt, f)]

AddInvariantFromVerilogExpr(o, inv) == AddInv(o, inv, "")

\* What reading a result file may do: the store it leaves, and whether the program
\* ends there, in an ILA_CHECK of the reader or of its caller.
Read(ended, o) == [ended |-> ended, obj |-> o]

\* an expression that is stored already is refused, and the callers then end the
\* program
AddUnlessStored(o, inv, f) ==
  IF inv \in Range(o.vlg) THEN Read(TRUE, o) ELSE Read(FALSE, AddInv(o, inv, f))

\* a failure of the ABC parser (~ok) is refused in the same way
AddInvariantFromAbcResultFile(o, res) ==
  {IF res.ok THEN AddUnlessStored(o, res.inv, "") ELSE Read(TRUE, o)}

\* The SMT parser has several failures: the file cannot be opened or does not begin
\* with "unsat", and is refused, or a callback ends the program; the text holds no
\* formula, and the expression taken from it is the empty one; it is empty, and the
\* expression is stored before the missing formula is noticed.
AddInvariantFromChcResultFile(o, res) ==
  IF res.ok THEN {AddUnlessStored(o, res.inv, "raw")}
  ELSE {Read(TRUE, o), AddUnlessStored(o, {}, "raw"),
        Read(TRUE, [vlg |-> Append(o.vlg, {}), smt |-> o.smt])}

\* Grain results are not compared; a file that cannot be opened leaves the store as
\* it is, and the formula, although available, is not kept
AddInvariantFromGrainResultFile(o, res) ==
  IF res.ok THEN {Read(FALSE, AddInv(o, res.inv, ""))}
  ELSE {Read(FALSE, o), Read(TRUE, o), Read(FALSE, AddInv(o, {}, ""))}

InsertFromAnotherInvObj(o, r) == [vlg |-> o.vlg \o r.vlg, smt |-> o.smt \o r.smt]

ClearAllInvariants(o) == Empty

\* ExportToFile: one line per expression, then, if asked for, one per formula
ExportToFile(o, export_smt_encoding) ==
  [vlg |-> o.vlg, smt |-> IF export_smt_encoding THEN o.smt ELSE << >>]

\* ImportFromFile: as many formulas as expressions are read, those past the end
\* of the file as empty ones
ImportFromFile(o, file) ==
  InsertFromAnotherInvObj(o,
    [vlg |-> file.vlg,
     smt |-> [k \in DOMAIN file.vlg |-> IF k \in DOMAIN file.smt THEN file.smt[k] ELSE ""]])

RemoveInvByIdx(o, idx) == [vlg |-> RemoveAt(o.vlg, idx), smt |-> RemoveAt(o.smt, idx)]

\* the check at the head of ExportToFile
Aligned(o) == Len(o.vlg) = Len(o.smt)
=============================================================================
