------------------------- MODULE InvSynCegarProofs -------------------------
(***************************************************************************)
(* What the invariant synthesis loop guarantees for every design, every    *)
(* number of changes by the client and every number of tool faults.        *)
(***************************************************************************)
EXTENDS InvSynCegar, SequenceTheorems, TLAPS

-----------------------------------------------------------------------------
(* Sequences.                                                              *)

\* A subsequence has no element the sequence has not.
LEMMA RangeSubSeq ==
  ASSUME NEW S, NEW s \in Seq(S), NEW m \in Nat \ {0}, NEW n \in Nat, n <= Len(s)
  PROVE  /\ SubSeq(s, m, n) \in Seq(S)
         /\ Len(SubSeq(s, m, n)) = IF m <= n THEN n - m + 1 ELSE 0
         /\ Range(SubSeq(s, m, n)) \subseteq Range(s)
<1>1. Len(s) \in Nat /\ \A k \in 1 .. Len(s) : s[k] \in S
  OBVIOUS
<1>2. \A k \in m .. n : k \in 1 .. Len(s) /\ s[k] \in S
  BY <1>1
<1> DEFINE t == SubSeq(s, m, n)
<1>3. /\ t \in Seq(S)
      /\ Len(t) = IF m <= n THEN n - m + 1 ELSE 0
      /\ \A k \in 1 .. n - m + 1 : t[k] = s[m + k - 1]
  BY <1>2, SubSeqProperties
<1> HIDE DEF t
<1>4. Range(t) = {t[k] : k \in 1 .. Len(t)} /\ Range(s) = {s[k] : k \in 1 .. Len(s)}
  BY <1>3, RangeEquality
<1>5. \A k \in 1 .. Len(t) : m + k - 1 \in 1 .. Len(s) /\ t[k] = s[m + k - 1]
  BY <1>1, <1>3
<1>6. Range(t) \subseteq Range(s)
  BY <1>4, <1>5
<1> QED BY <1>3, <1>6 DEF t

\* Removing the element at a position.
LEMMA RemoveAtProps ==
  ASSUME NEW S, NEW s \in Seq(S), NEW i \in 1 .. Len(s)
  PROVE  /\ RemoveAt(s, i) \in Seq(S)
         /\ Len(RemoveAt(s, i)) = Len(s) - 1
         /\ Range(RemoveAt(s, i)) \subseteq Range(s)
<1> DEFINE a == SubSeq(s, 1, i - 1)  b == SubSeq(s, i + 1, Len(s))
<1>1. Len(s) \in Nat /\ i \in Nat /\ i >= 1 /\ i <= Len(s)
  OBVIOUS
<1>2. a \in Seq(S) /\ Len(a) = i - 1 /\ Range(a) \subseteq Range(s)
  <2>1. i - 1 \in Nat /\ i - 1 <= Len(s) /\ 1 \in Nat \ {0} BY <1>1
  <2>2. /\ a \in Seq(S) /\ Len(a) = (IF 1 <= i - 1 THEN (i - 1) - 1 + 1 ELSE 0)
        /\ Range(a) \subseteq Range(s)
    BY <2>1, RangeSubSeq
  <2> QED BY <1>1, <2>2
<1>3. b \in Seq(S) /\ Len(b) = Len(s) - i /\ Range(b) \subseteq Range(s)
  <2>1. i + 1 \in Nat \ {0} /\ Len(s) <= Len(s) BY <1>1
  <2>2. /\ b \in Seq(S) /\ Len(b) = (IF i + 1 <= Len(s) THEN Len(s) - (i + 1) + 1 ELSE 0)
        /\ Range(b) \subseteq Range(s)
    BY <1>1, <2>1, RangeSubSeq
  <2> QED BY <1>1, <2>2
<1> HIDE DEF a, b
<1>4. a \o b \in Seq(S) /\ Len(a \o b) = Len(a) + Len(b)
  BY <1>2, <1>3, ConcatProperties
<1>5. Range(a \o b) = Range(a) \cup Range(b)
  BY <1>2, <1>3, RangeConcatenation
<1>6. RemoveAt(s, i) = a \o b
  BY DEF RemoveAt, a, b
<1>7. Len(a \o b) = Len(s) - 1
  BY <1>1, <1>2, <1>3, <1>4
<1>8. Range(a \o b) \subseteq Range(s)
  BY <1>2, <1>3, <1>5
<1> QED BY <1>4, <1>6, <1>7, <1>8

-----------------------------------------------------------------------------
(* The store.                                                              *)

\* Pushing an invariant keeps the type and the two vectors in step, and excludes
\* what it excludes besides what was excluded.
LEMMA AddInvProps ==
  ASSUME NEW o \in InvObj, NEW I \in Inv, NEW f \in Formula
  PROVE  /\ AddInv(o, I, f) \in InvObj
         /\ Aligned(o) => Aligned(AddInv(o, I, f))
         /\ Excluded(AddInv(o, I, f)) = Excluded(o) \cup I
<1> DEFINE s == Append(o.vlg, I)
<1>1. AddInv(o, I, f) \in InvObj /\ (Aligned(o) => Aligned(AddInv(o, I, f)))
  BY DEF InvObj, AddInv, Aligned
<1>2. Range(s) = Range(o.vlg) \cup {I}
  <2>1. o.vlg \in Seq(Inv) BY DEF InvObj
  <2>2. Len(s) = Len(o.vlg) + 1 /\ s[Len(o.vlg) + 1] = I
        /\ \A k \in 1 .. Len(o.vlg) : s[k] = o.vlg[k]
    BY <2>1
  <2>3. DOMAIN s = 1 .. Len(o.vlg) + 1 /\ DOMAIN o.vlg = 1 .. Len(o.vlg) /\ Len(o.vlg) \in Nat
    BY <2>1, <2>2
  <2> QED BY <2>2, <2>3 DEF Range
<1> QED BY <1>1, <1>2 DEF AddInv, Excluded

\* Inserting a store excludes what either excludes.
LEMMA InsertProps ==
  ASSUME NEW o \in InvObj, NEW r \in InvObj
  PROVE  /\ InsertFromAnotherInvObj(o, r) \in InvObj
         /\ Aligned(o) /\ Aligned(r) => Aligned(InsertFromAnotherInvObj(o, r))
         /\ Excluded(InsertFromAnotherInvObj(o, r)) = Excluded(o) \cup Excluded(r)
<1>1. /\ o.vlg \in Seq(Inv) /\ r.vlg \in Seq(Inv)
      /\ o.smt \in Seq(Formula) /\ r.smt \in Seq(Formula)
  BY DEF InvObj
<1> DEFINE s == o.vlg \o r.vlg  t == o.smt \o r.smt
<1>2. s \in Seq(Inv) /\ Len(s) = Len(o.vlg) + Len(r.vlg)
  BY <1>1, ConcatProperties
<1>3. t \in Seq(Formula) /\ Len(t) = Len(o.smt) + Len(r.smt)
  BY <1>1, ConcatProperties
<1>4. Range(s) = Range(o.vlg) \cup Range(r.vlg)
  BY <1>1, RangeConcatenation
<1>5. InsertFromAnotherInvObj(o, r) = [vlg |-> s, smt |-> t]
  BY DEF InsertFromAnotherInvObj
<1> HIDE DEF s, t
<1>6. InsertFromAnotherInvObj(o, r) \in InvObj
  BY <1>2, <1>3, <1>5 DEF InvObj
<1>7. Aligned(o) /\ Aligned(r) => Aligned(InsertFromAnotherInvObj(o, r))
  <2>1. Len(InsertFromAnotherInvObj(o, r).vlg) = Len(s) BY <1>5
  <2>2. Len(InsertFromAnotherInvObj(o, r).smt) = Len(t) BY <1>5
  <2> QED BY <1>2, <1>3, <2>1, <2>2 DEF Aligned
<1>8. Excluded(InsertFromAnotherInvObj(o, r)) = UNION Range(s)
  BY <1>5 DEF Excluded
<1> QED BY <1>4, <1>6, <1>7, <1>8 DEF Excluded

\* Removing an entry excludes nothing new.
LEMMA RemoveProps ==
  ASSUME NEW o \in InvObj, Aligned(o), NEW idx \in DOMAIN o.vlg
  PROVE  /\ RemoveInvByIdx(o, idx) \in InvObj
         /\ Aligned(RemoveInvByIdx(o, idx))
         /\ Excluded(RemoveInvByIdx(o, idx)) \subseteq Excluded(o)
<1>1. /\ o.vlg \in Seq(Inv) /\ o.smt \in Seq(Formula)
      /\ idx \in 1 .. Len(o.vlg) /\ idx \in 1 .. Len(o.smt)
  BY DEF InvObj, Aligned
<1> DEFINE s == RemoveAt(o.vlg, idx)  t == RemoveAt(o.smt, idx)
<1>2. s \in Seq(Inv) /\ Len(s) = Len(o.vlg) - 1 /\ Range(s) \subseteq Range(o.vlg)
  BY <1>1, RemoveAtProps
<1>3. t \in Seq(Formula) /\ Len(t) = Len(o.smt) - 1
  BY <1>1, RemoveAtProps
<1>4. RemoveInvByIdx(o, idx) = [vlg |-> s, smt |-> t]
  BY DEF RemoveInvByIdx
<1> HIDE DEF s, t
<1>5. RemoveInvByIdx(o, idx) \in InvObj BY <1>2, <1>3, <1>4 DEF InvObj
<1>6. Aligned(RemoveInvByIdx(o, idx)) BY <1>2, <1>3, <1>4 DEF Aligned
<1>7. Excluded(RemoveInvByIdx(o, idx)) = UNION Range(s) BY <1>4 DEF Excluded
<1> QED BY <1>2, <1>5, <1>6, <1>7 DEF Excluded

\* A file keeps what is excluded, with or without the formulas.
LEMMA ExportProps ==
  ASSUME NEW o \in InvObj, NEW e \in BOOLEAN
  PROVE  /\ ExportToFile(o, e) \in InvObj
         /\ Excluded(ExportToFile(o, e)) = Excluded(o)
BY DEF ExportToFile, Excluded, InvObj

\* Reading a file adds what it excludes, with as many formulas as expressions.
LEMMA ImportProps ==
  ASSUME NEW o \in InvObj, NEW file \in InvObj
  PROVE  /\ ImportFromFile(o, file) \in InvObj
         /\ Aligned(o) => Aligned(ImportFromFile(o, file))
         /\ Excluded(ImportFromFile(o, file)) = Excluded(o) \cup Excluded(file)
<1> DEFINE f == [k \in DOMAIN file.vlg |-> IF k \in DOMAIN file.smt THEN file.smt[k] ELSE ""]
           r == [vlg |-> file.vlg, smt |-> f]
<1>1. /\ file.vlg \in Seq(Inv) /\ file.smt \in Seq(Formula)
      /\ DOMAIN file.vlg = 1 .. Len(file.vlg) /\ Len(file.vlg) \in Nat
      /\ \A k \in DOMAIN file.smt : file.smt[k] \in Formula
  BY DEF InvObj
<1>2. f \in [1 .. Len(file.vlg) -> Formula]
  BY <1>1 DEF Formula
<1>3. f \in Seq(Formula) /\ Len(f) = Len(file.vlg)
  <2> HIDE DEF f
  <2>1. f \in Seq(Formula) BY <1>1, <1>2, SeqDef
  <2>2. DOMAIN f = 1 .. Len(f) /\ Len(f) \in Nat BY <2>1, LenProperties
  <2> QED BY <1>1, <1>2, <2>1, <2>2
<1>4. ImportFromFile(o, file) = InsertFromAnotherInvObj(o, r)
  BY DEF ImportFromFile
<1> HIDE DEF f
<1>5. r \in InvObj /\ Aligned(r) /\ Excluded(r) = Excluded(file)
  BY <1>1, <1>3 DEF InvObj, Aligned, Excluded
<1> QED BY <1>4, <1>5, InsertProps

\* The empty store.
LEMMA EmptyProps == Empty \in InvObj /\ Aligned(Empty) /\ Excluded(Empty) = {}
<1>1. Range(<< >>) = {} BY DEF Range
<1>2. << >> \in Seq(Inv) /\ << >> \in Seq(Formula) OBVIOUS
<1> QED BY <1>1, <1>2 DEF Empty, InvObj, Aligned, Excluded

\* What is excluded is a set of design states.
LEMMA ExcludedType == ASSUME NEW o \in InvObj PROVE Excluded(o) \in Inv
<1>1. Range(o.vlg) \in SUBSET Inv BY RangeOfSeq DEF InvObj
<1> QED BY <1>1 DEF Excluded, Inv

\* The fields of an outcome.
LEMMA ReadFields ==
  ASSUME NEW e, NEW o
  PROVE  Read(e, o).ended = e /\ Read(e, o).obj = o
BY Zenon DEF Read

\* An expression stored without its formula.
LEMMA PushProps ==
  ASSUME NEW o \in InvObj, NEW I \in Inv
  PROVE  /\ [vlg |-> Append(o.vlg, I), smt |-> o.smt] \in InvObj
         /\ Excluded([vlg |-> Append(o.vlg, I), smt |-> o.smt]) = Excluded(o) \cup I
<1> DEFINE p == [vlg |-> Append(o.vlg, I), smt |-> o.smt]
           q == AddInv(o, I, "")
<1>1. Excluded(q) = Excluded(o) \cup I BY AddInvProps DEF Formula
<1>2. p \in InvObj BY DEF InvObj
<1>3. p.vlg = q.vlg BY DEF AddInv
<1> QED BY <1>1, <1>2, <1>3 DEF Excluded

\* The addition of what is not stored yet.
LEMMA StoredProps ==
  ASSUME NEW o \in InvObj, NEW I \in Inv, NEW f \in Formula
  PROVE  /\ AddUnlessStored(o, I, f).obj \in InvObj
         /\ Aligned(o) => Aligned(AddUnlessStored(o, I, f).obj)
         /\ Excluded(AddUnlessStored(o, I, f).obj) \subseteq Excluded(o) \cup I
<1>1. AddUnlessStored(o, I, f).obj \in {o, AddInv(o, I, f)}
  <2>1. \/ AddUnlessStored(o, I, f) = Read(TRUE, o)
        \/ AddUnlessStored(o, I, f) = Read(FALSE, AddInv(o, I, f))
    BY DEF AddUnlessStored
  <2>2. Read(TRUE, o).obj = o /\ Read(FALSE, AddInv(o, I, f)).obj = AddInv(o, I, f)
    BY ReadFields
  <2> QED BY <2>1, <2>2
<1> QED BY <1>1, AddInvProps

\* Whatever reading a result file does, it excludes nothing but what the file does,
\* and the vectors stay in step as long as the program goes on.
LEMMA AddProps ==
  ASSUME NEW o \in InvObj, NEW res \in SynFile, NEW r,
         \/ r \in AddInvariantFromAbcResultFile(o, res)
         \/ r \in AddInvariantFromChcResultFile(o, res)
         \/ r \in AddInvariantFromGrainResultFile(o, res)
  PROVE  /\ r.obj \in InvObj
         /\ Aligned(o) /\ ~r.ended => Aligned(r.obj)
         /\ Excluded(r.obj) \subseteq Excluded(o) \cup res.inv
<1> DEFINE p(I) == [vlg |-> Append(o.vlg, I), smt |-> o.smt]
           good(I) == I \in Inv /\ I \subseteq res.inv
<1>1. good(res.inv) /\ good({}) /\ "" \in Formula /\ "raw" \in Formula
  BY DEF SynFile, Formula, Inv
<1> HIDE DEF good
<1>2. \/ \E e : r = Read(e, o)
      \/ \E I : good(I) /\ r = Read(TRUE, p(I))
      \/ \E I, f : good(I) /\ f \in Formula /\ r = AddUnlessStored(o, I, f)
      \/ \E I, f : good(I) /\ f \in Formula /\ r = Read(FALSE, AddInv(o, I, f))
  <2>1. CASE r \in AddInvariantFromAbcResultFile(o, res)
    BY <1>1, <2>1 DEF AddInvariantFromAbcResultFile
  <2>2. CASE r \in AddInvariantFromChcResultFile(o, res)
    BY <1>1, <2>2, Zenon DEF AddInvariantFromChcResultFile
  <2>3. CASE r \in AddInvariantFromGrainResultFile(o, res)
    BY <1>1, <2>3, Zenon DEF AddInvariantFromGrainResultFile
  <2> QED BY <2>1, <2>2, <2>3
<1>3. ASSUME NEW e, r = Read(e, o)
      PROVE  r.obj = o
  BY <1>3, ReadFields
<1>4. ASSUME NEW I, good(I), r = Read(TRUE, p(I))
      PROVE  r.ended /\ r.obj \in InvObj /\ Excluded(r.obj) \subseteq Excluded(o) \cup res.inv
  <2>1. I \in Inv /\ I \subseteq res.inv BY <1>4 DEF good
  <2>2. p(I) \in InvObj /\ Excluded(p(I)) = Excluded(o) \cup I BY <2>1, PushProps
  <2> HIDE DEF p
  <2>3. r.obj = p(I) /\ r.ended
    <3>1. Read(TRUE, p(I)).obj = p(I) /\ Read(TRUE, p(I)).ended = TRUE BY ReadFields
    <3> QED BY <1>4, <3>1
  <2> QED BY <2>1, <2>2, <2>3
<1>5. ASSUME NEW I, NEW f, good(I), f \in Formula,
             r = AddUnlessStored(o, I, f) \/ r = Read(FALSE, AddInv(o, I, f))
      PROVE  /\ r.obj \in InvObj /\ (Aligned(o) => Aligned(r.obj))
             /\ Excluded(r.obj) \subseteq Excluded(o) \cup res.inv
  <2>1. Read(FALSE, AddInv(o, I, f)).obj = AddInv(o, I, f) BY ReadFields
  <2>2. I \in Inv /\ I \subseteq res.inv BY <1>5 DEF good
  <2>3. CASE r = AddUnlessStored(o, I, f) BY <1>5, <2>2, <2>3, StoredProps
  <2>4. CASE r = Read(FALSE, AddInv(o, I, f))
    <3>1. r.obj = AddInv(o, I, f) BY <2>1, <2>4
    <3>2. /\ AddInv(o, I, f) \in InvObj /\ (Aligned(o) => Aligned(AddInv(o, I, f)))
          /\ Excluded(AddInv(o, I, f)) = Excluded(o) \cup I
      BY <1>5, <2>2, AddInvProps
    <3> QED BY <2>2, <3>1, <3>2
  <2> QED BY <1>5, <2>3, <2>4
<1> HIDE DEF p
<1> QED BY <1>2, <1>3, <1>4, <1>5

\* ABC results never put the vectors out of step.
LEMMA AbcProps ==
  ASSUME NEW o \in InvObj, NEW res \in SynFile, Aligned(o),
         NEW r \in AddInvariantFromAbcResultFile(o, res)
  PROVE  Aligned(r.obj)
<1>1. res.inv \in Inv /\ "" \in Formula BY DEF SynFile, Formula
<1>2. r = AddUnlessStored(o, res.inv, "") \/ r = Read(TRUE, o)
  BY DEF AddInvariantFromAbcResultFile
<1>3. Read(TRUE, o).obj = o BY ReadFields
<1> QED BY <1>1, <1>2, <1>3, StoredProps

\* What an extraction stores is read from the result file, or nothing.
LEMMA SynthesisRead ==
  ASSUME NEW r \in SynthesisResults(current_inv_type)
  PROVE  \/ r \in AddInvariantFromAbcResultFile(inv_obj, sres)
         \/ r \in AddInvariantFromChcResultFile(inv_obj, sres)
         \/ r \in AddInvariantFromGrainResultFile(inv_obj, sres)
         \/ r.obj = inv_obj /\ ~r.ended
BY ReadFields DEF SynthesisResults

\* What a synthesis tool leaves is a result file.
LEMMA SynToolType ==
  ASSUME NEW old \in SynFile, script.cex \in Inv
  PROVE  \A r \in SynTool(old) : r.file \in SynFile /\ r.fault \in {0, 1}
<1> DEFINE unreach == script.cex \cap Reach \subseteq script.assume
           other == [verdict |-> "other", inv |-> script.cex, ok |-> TRUE]
           garbled == [verdict |-> IF unreach THEN "proved" ELSE "other",
                       inv |-> {}, ok |-> FALSE]
<1>1. {} \in Inv BY DEF Inv
<1>2. other \in SynFile BY DEF SynFile
<1>3. garbled \in SynFile BY <1>1 DEF SynFile
<1>4. \A I \in Inv : [verdict |-> "proved", inv |-> I, ok |-> TRUE] \in SynFile
  BY DEF SynFile
<1>5. \A r \in SynTool(old) :
        \/ \E I \in Inv : r = [file |-> [verdict |-> "proved", inv |-> I, ok |-> TRUE],
                              fault |-> 0]
        \/ r = [file |-> other, fault |-> 0]
        \/ \E f \in {other, old, garbled} : r = [file |-> f, fault |-> 1]
  BY DEF SynTool
<1> HIDE DEF other, garbled
<1> QED BY <1>2, <1>3, <1>4, <1>5

-----------------------------------------------------------------------------
(* Types.                                                                  *)

\* Every variable of the loop keeps its type, and the two vectors of each store
\* stay in step, whatever the tools and the client do.
THEOREM CegarTypeCorrect == Spec => []TypeOK
<1> USE CegarAssumption
<1>1. Init => TypeOK
  <2> SUFFICES ASSUME Init PROVE TypeOK OBVIOUS
  <2>1. PICK d \in Designs : Reach = d.reach /\ Bad = d.bad BY DEF Init
  <2>2. Reach \in Inv \ {{}} /\ Bad \in Inv BY <2>1
  <2>3. {} \in Inv BY DEF Inv
  <2>4. TypeDesign BY <2>2 DEF Init, TypeDesign
  <2>5. TypeInvs BY EmptyProps DEF Init, TypeInvs
  <2>6. TypeFlags BY <2>4 DEF Init, TypeFlags, TypeDesign
  <2>7. TypeLoop BY DEF Init, TypeLoop
  <2>8. TypeCex BY <2>3 DEF Init, TypeCex
  <2>9. TypeFiles BY <2>3 DEF Init, TypeFiles, NoScript, NoFile, SynFile
  <2>10. TypeHistory BY DEF Init, TypeHistory
  <2> QED BY <2>4, <2>5, <2>6, <2>7, <2>8, <2>9, <2>10 DEF TypeOK
<1>2. TypeOK /\ [Next]_vars => TypeOK'
  <2> SUFFICES ASSUME TypeOK, [Next]_vars PROVE TypeOK' OBVIOUS
  <2> USE DEF design, invs, result, files, history
  <2>0. {} \in Inv /\ DesignState \in Inv BY DEF Inv
  <2>1. CASE GenerateVerificationTarget
    <3>1. TypeDesign' BY <2>1 DEF GenerateVerificationTarget, GenerateTarget, TypeOK, TypeDesign
    <3>2. TypeInvs' BY <2>1 DEF GenerateVerificationTarget, GenerateTarget, TypeOK, TypeInvs
    <3>3. TypeFlags' BY <2>1 DEF GenerateVerificationTarget, GenerateTarget, TypeOK, TypeFlags
    <3>4. TypeLoop' BY <2>1 DEF GenerateVerificationTarget, GenerateTarget, TypeOK, TypeLoop
    <3>5. TypeCex' BY <2>1 DEF GenerateVerificationTarget, GenerateTarget, TypeOK, TypeCex
    <3>6. TypeFiles'
      BY <2>1, <2>0, ExcludedType
      DEF GenerateVerificationTarget, GenerateTarget, TypeOK, TypeFiles, VerificationTarget, NoScript, TypeInvs, Inv
    <3>7. TypeHistory'
      BY <2>1
      DEF GenerateVerificationTarget, GenerateTarget, TypeOK, TypeHistory, Faulty
    <3> QED BY <3>1, <3>2, <3>3, <3>4, <3>5, <3>6, <3>7 DEF TypeOK
  <2>2. CASE RunVerifAuto
    <3>1. TypeDesign' BY <2>2 DEF RunVerifAuto, TypeOK, TypeDesign
    <3>2. TypeInvs' BY <2>2 DEF RunVerifAuto, TypeOK, TypeInvs
    <3>3. TypeFlags' BY <2>2 DEF RunVerifAuto, TypeOK, TypeFlags
    <3>4. TypeLoop' BY <2>2 DEF RunVerifAuto, TypeOK, TypeLoop
    <3>5. TypeCex'
      BY <2>2, <2>0
      DEF RunVerifAuto, TypeOK, TypeCex, VerifTool, TypeDesign, TypeFiles, Inv
    <3>6. TypeFiles'
      BY <2>2, <2>0
      DEF RunVerifAuto, TypeOK, TypeFiles, VerifTool, TypeDesign, Inv
    <3>7. TypeHistory' BY <2>2 DEF RunVerifAuto, TypeOK, TypeHistory, Faulty, VerifTool
    <3> QED BY <3>1, <3>2, <3>3, <3>4, <3>5, <3>6, <3>7 DEF TypeOK
  <2>3. CASE ExtractVerificationResult
    <3>1. TypeDesign' BY <2>3 DEF ExtractVerificationResult, TypeOK, TypeDesign
    <3>2. TypeInvs' BY <2>3 DEF ExtractVerificationResult, TypeOK, TypeInvs
    <3>3. TypeFlags' BY <2>3 DEF ExtractVerificationResult, TypeOK, TypeFlags
    <3>4. TypeLoop' BY <2>3 DEF ExtractVerificationResult, TypeOK, TypeLoop
    <3>5. TypeCex' BY <2>3 DEF ExtractVerificationResult, TypeOK, TypeCex
    <3>6. TypeFiles' BY <2>3 DEF ExtractVerificationResult, TypeOK, TypeFiles
    <3>7. TypeHistory' BY <2>3 DEF ExtractVerificationResult, TypeOK, TypeHistory
    <3> QED BY <3>1, <3>2, <3>3, <3>4, <3>5, <3>6, <3>7 DEF TypeOK
  <2>4. CASE GenerateSynthesisTarget
    <3>1. TypeDesign' BY <2>4 DEF GenerateSynthesisTarget, TypeOK, TypeDesign
    <3>2. TypeInvs' BY <2>4 DEF GenerateSynthesisTarget, TypeOK, TypeInvs
    <3>3. TypeFlags' BY <2>4 DEF GenerateSynthesisTarget, TypeOK, TypeFlags
    <3>4. TypeCex' BY <2>4 DEF GenerateSynthesisTarget, TypeOK, TypeCex
    <3>5. TypeLoop' BY <2>4 DEF GenerateSynthesisTarget, TypeOK, TypeLoop, TypeDesign
    <3>6. TypeFiles'
      <4>1. Excluded(inv_obj) \in Inv BY ExcludedType DEF TypeOK, TypeInvs
      <4>2. script' \in [kind : {"none", "verif", "syn"}, assume : Inv, cex : Inv]
        BY <2>4, <2>0, <4>1 DEF GenerateSynthesisTarget, NoScript, TypeOK, TypeCex
      <4> QED BY <2>4, <4>2 DEF GenerateSynthesisTarget, TypeOK, TypeFiles
    <3>7. TypeHistory' BY <2>4 DEF GenerateSynthesisTarget, TypeOK, TypeHistory, Faulty
    <3> QED BY <3>1, <3>2, <3>3, <3>4, <3>5, <3>6, <3>7 DEF TypeOK
  <2>5. CASE RunSynAuto
    <3>1. TypeDesign' BY <2>5 DEF RunSynAuto, TypeOK, TypeDesign
    <3>2. TypeInvs' BY <2>5 DEF RunSynAuto, TypeOK, TypeInvs
    <3>3. TypeFlags' BY <2>5 DEF RunSynAuto, TypeOK, TypeFlags
    <3>4. TypeLoop' BY <2>5 DEF RunSynAuto, TypeOK, TypeLoop
    <3>5. TypeCex' BY <2>5 DEF RunSynAuto, TypeOK, TypeCex
    <3>6. TypeFiles'
      <4>1. script.cex \in Inv BY DEF TypeOK, TypeFiles
      <4>2. \A r \in SynTool(sres) : r.file \in SynFile
        BY <4>1, SynToolType DEF TypeOK, TypeFiles
      <4>3. sres' \in SynFile BY <2>5, <4>2 DEF RunSynAuto, TypeOK, TypeFiles
      <4> QED BY <2>5, <4>3 DEF RunSynAuto, TypeOK, TypeFiles
    <3>7. TypeHistory' BY <2>5 DEF RunSynAuto, TypeOK, TypeHistory, Faulty, SynTool
    <3> QED BY <3>1, <3>2, <3>3, <3>4, <3>5, <3>6, <3>7 DEF TypeOK
  <2>6. CASE ExtractSynthesisResult
    <3>1. TypeDesign' BY <2>6 DEF ExtractSynthesisResult, TypeOK, TypeDesign
    <3>2. TypeFlags' BY <2>6 DEF ExtractSynthesisResult, TypeOK, TypeFlags
    <3>3. TypeLoop' BY <2>6 DEF ExtractSynthesisResult, TypeOK, TypeLoop
    <3>4. TypeCex' BY <2>6 DEF ExtractSynthesisResult, TypeOK, TypeCex
    <3>5. TypeFiles' BY <2>6 DEF ExtractSynthesisResult, TypeOK, TypeFiles
    <3>6. TypeHistory' BY <2>6 DEF ExtractSynthesisResult, TypeOK, TypeHistory
    <3>7. TypeInvs'
      <4>1. /\ inv_obj \in InvObj /\ sres \in SynFile /\ (next # "aborted" => Aligned(inv_obj))
            /\ inv_candidate \in InvObj /\ Aligned(inv_candidate) /\ invfile \in InvObj
        BY DEF TypeOK, TypeInvs, TypeFiles
      <4>2. \/ inv_obj' = inv_obj
            \/ \E r \in SynthesisResults(current_inv_type) :
                 inv_obj' = r.obj /\ (r.ended => next' = "aborted")
        BY <2>6 DEF ExtractSynthesisResult
      <4>3. next = "ExtS" BY <2>6 DEF ExtractSynthesisResult
      <4>4. inv_obj' \in InvObj /\ (next' # "aborted" => Aligned(inv_obj'))
        BY <4>1, <4>2, <4>3, SynthesisRead, AddProps
      <4>5. inv_candidate' = inv_candidate /\ invfile' = invfile
        BY <2>6 DEF ExtractSynthesisResult, files
      <4> QED BY <4>1, <4>4, <4>5 DEF TypeInvs, Aligned
    <3> QED BY <3>1, <3>2, <3>3, <3>4, <3>5, <3>6, <3>7 DEF TypeOK
  <2>7. CASE ExtractAbcSynthesisResultForEnhancement
    <3>1. TypeDesign' BY <2>7 DEF ExtractAbcSynthesisResultForEnhancement, TypeOK, TypeDesign
    <3>2. TypeFlags' BY <2>7 DEF ExtractAbcSynthesisResultForEnhancement, TypeOK, TypeFlags
    <3>3. TypeLoop' BY <2>7 DEF ExtractAbcSynthesisResultForEnhancement, TypeOK, TypeLoop
    <3>4. TypeCex' BY <2>7 DEF ExtractAbcSynthesisResultForEnhancement, TypeOK, TypeCex
    <3>5. TypeFiles' BY <2>7 DEF ExtractAbcSynthesisResultForEnhancement, TypeOK, TypeFiles
    <3>6. TypeHistory' BY <2>7 DEF ExtractAbcSynthesisResultForEnhancement, TypeOK, TypeHistory
    <3>7. TypeInvs'
      <4>1. \/ inv_candidate' = inv_candidate
            \/ \E r \in AddInvariantFromAbcResultFile(inv_candidate, sres) :
                 inv_candidate' = r.obj
        BY <2>7 DEF ExtractAbcSynthesisResultForEnhancement
      <4>2. /\ inv_candidate \in InvObj /\ Aligned(inv_candidate) /\ sres \in SynFile
        BY DEF TypeOK, TypeInvs, TypeFiles
      <4>3. inv_candidate' \in InvObj /\ Aligned(inv_candidate')
        BY <4>1, <4>2, AddProps, AbcProps
      <4> QED BY <2>7, <4>3
          DEF ExtractAbcSynthesisResultForEnhancement, TypeOK, TypeInvs, TypeFiles, Aligned
    <3> QED BY <3>1, <3>2, <3>3, <3>4, <3>5, <3>6, <3>7 DEF TypeOK
  <2>8. CASE WordLevelEnhancement
    <3>1. TypeDesign' BY <2>8 DEF WordLevelEnhancement, TypeOK, TypeDesign
    <3>2. TypeFlags' BY <2>8 DEF WordLevelEnhancement, TypeOK, TypeFlags
    <3>3. TypeLoop' BY <2>8 DEF WordLevelEnhancement, TypeOK, TypeLoop
    <3>4. TypeCex' BY <2>8 DEF WordLevelEnhancement, TypeOK, TypeCex
    <3>5. TypeFiles'
      <4>1. \/ eres' = eres
            \/ \E I \in Inv, proved \in BOOLEAN :
                 eres' = [verdict |-> IF proved THEN "proved" ELSE "other",
                          inv |-> I, ok |-> proved]
            \/ eres' = [verdict |-> "proved", inv |-> {}, ok |-> FALSE]
        BY <2>8 DEF WordLevelEnhancement
      <4>2. eres \in SynFile BY DEF TypeOK, TypeFiles
      <4>3. [verdict |-> "proved", inv |-> {}, ok |-> FALSE] \in SynFile BY <2>0 DEF SynFile
      <4>4. \A I \in Inv, proved \in BOOLEAN :
              [verdict |-> IF proved THEN "proved" ELSE "other", inv |-> I, ok |-> proved]
                \in SynFile
        BY DEF SynFile
      <4>5. eres' \in SynFile BY <4>1, <4>2, <4>3, <4>4
      <4> QED BY <2>8, <4>5 DEF WordLevelEnhancement, TypeOK, TypeFiles
    <3>6. TypeInvs'
      <4>1. eres' \in SynFile BY <3>5 DEF TypeFiles
      <4>2. \/ inv_obj' = inv_obj
            \/ \E r \in AddInvariantFromGrainResultFile(inv_obj, eres') :
                 inv_obj' = r.obj /\ (r.ended => next' = "aborted")
        BY <2>8 DEF WordLevelEnhancement
      <4>3. inv_obj \in InvObj /\ Aligned(inv_obj)
        BY <2>8 DEF WordLevelEnhancement, TypeOK, TypeInvs
      <4>4. inv_obj' \in InvObj /\ (next' # "aborted" => Aligned(inv_obj'))
        BY <4>1, <4>2, <4>3, AddProps
      <4> QED BY <2>8, <4>4 DEF WordLevelEnhancement, TypeOK, TypeInvs, Aligned
    <3>7. TypeHistory' BY <2>8 DEF WordLevelEnhancement, TypeOK, TypeHistory, Faulty
    <3> QED BY <3>1, <3>2, <3>3, <3>4, <3>5, <3>6, <3>7 DEF TypeOK
  <2>9. ASSUME NEW I \in Inv, GenerateVerificationTargetWith(I) PROVE TypeOK'
    <3> DEFINE o == AddInvariantFromVerilogExpr(inv_obj, I)
    <3>0. o \in InvObj /\ Aligned(o)
      <4>1. inv_obj \in InvObj /\ Aligned(inv_obj)
        BY <2>9 DEF GenerateVerificationTargetWith, GenerateTarget, TypeOK, TypeInvs
      <4> QED BY <4>1, AddInvProps DEF AddInvariantFromVerilogExpr, Formula
    <3>1. TypeDesign'
      BY <2>9 DEF GenerateVerificationTargetWith, GenerateTarget, TypeOK, TypeDesign
    <3>2. TypeFlags'
      BY <2>9 DEF GenerateVerificationTargetWith, GenerateTarget, TypeOK, TypeFlags
    <3>3. TypeLoop'
      BY <2>9 DEF GenerateVerificationTargetWith, GenerateTarget, TypeOK, TypeLoop
    <3>4. TypeCex'
      BY <2>9 DEF GenerateVerificationTargetWith, GenerateTarget, TypeOK, TypeCex
    <3>5. TypeInvs'
      BY <2>9, <3>0 DEF GenerateVerificationTargetWith, GenerateTarget, TypeOK, TypeInvs
    <3>6. TypeFiles'
      <4>1. Excluded(o) \cup Excluded(inv_candidate) \in Inv
        <5>1. Excluded(o) \in Inv /\ Excluded(inv_candidate) \in Inv
          BY <3>0, ExcludedType DEF TypeOK, TypeInvs
        <5> QED BY <5>1 DEF Inv
      <4>2. \/ script' = script \/ script' = NoScript
            \/ script' = [kind |-> "verif", cex |-> {},
                          assume |-> Excluded(o) \cup Excluded(inv_candidate)]
        BY <2>9 DEF GenerateVerificationTargetWith, GenerateTarget, VerificationTarget
      <4> HIDE DEF o
      <4>3. script' \in [kind : {"none", "verif", "syn"}, assume : Inv, cex : Inv]
        <5> DEFINE T == [kind : {"none", "verif", "syn"}, assume : Inv, cex : Inv]
                   E == Excluded(o) \cup Excluded(inv_candidate)
        <5>1. script \in T BY DEF TypeOK, TypeFiles
        <5>2. NoScript \in T BY <2>0 DEF NoScript
        <5> HIDE DEF E
        <5>3. [kind |-> "verif", cex |-> {}, assume |-> E] \in T BY <2>0, <4>1 DEF E
        <5> HIDE DEF T
        <5> QED BY <4>2, <5>1, <5>2, <5>3 DEF E, T
      <4> QED BY <2>9, <4>3 DEF GenerateVerificationTargetWith, GenerateTarget, TypeOK, TypeFiles
    <3>7. TypeHistory'
      BY <2>9 DEF GenerateVerificationTargetWith, GenerateTarget, Faulty, TypeOK, TypeHistory
    <3> QED BY <3>1, <3>2, <3>3, <3>4, <3>5, <3>6, <3>7 DEF TypeOK
  <2>10. ASSUME NEW I \in Inv, CexGeneralizeRemoveStates(I) PROVE TypeOK'
    <3>1. TypeDesign' BY <2>10 DEF CexGeneralizeRemoveStates, TypeOK, TypeDesign
    <3>2. TypeInvs' BY <2>10 DEF CexGeneralizeRemoveStates, TypeOK, TypeInvs
    <3>3. TypeFlags' BY <2>10 DEF CexGeneralizeRemoveStates, TypeOK, TypeFlags
    <3>4. TypeLoop' BY <2>10 DEF CexGeneralizeRemoveStates, TypeOK, TypeLoop
    <3>5. TypeCex' BY <2>10 DEF CexGeneralizeRemoveStates, TypeOK, TypeCex
    <3>6. TypeFiles' BY <2>10 DEF CexGeneralizeRemoveStates, TypeOK, TypeFiles
    <3>7. TypeHistory' BY <2>10 DEF CexGeneralizeRemoveStates, TypeOK, TypeHistory
    <3> QED BY <3>1, <3>2, <3>3, <3>4, <3>5, <3>6, <3>7 DEF TypeOK
  <2>11. ASSUME OnlyInvs, TypeInvs', TypeHistory' PROVE TypeOK'
    <3>1. TypeDesign' BY <2>11 DEF OnlyInvs, TypeOK, TypeDesign
    <3>2. TypeFlags' BY <2>11 DEF OnlyInvs, TypeOK, TypeFlags
    <3>3. TypeLoop' BY <2>11 DEF OnlyInvs, TypeOK, TypeLoop
    <3>4. TypeCex' BY <2>11 DEF OnlyInvs, TypeOK, TypeCex
    <3>5. TypeFiles' BY <2>11 DEF OnlyInvs, TypeOK, TypeFiles
    <3> QED BY <2>11, <3>1, <3>2, <3>3, <3>4, <3>5 DEF TypeOK
  <2> USE DEF Between, OnlyInvs
  <2>12. ASSUME NEW I \in Inv, SupplyCandidateInvariant(I) PROVE TypeOK'
    <3>1. TypeInvs'
      BY <2>12, AddInvProps DEF SupplyCandidateInvariant, AddInvariantFromVerilogExpr,
         Formula, TypeOK, TypeInvs
    <3>2. TypeHistory'
      BY <2>12 DEF SupplyCandidateInvariant, Between, OnlyInvs, TypeOK, TypeHistory
    <3> QED BY <2>11, <2>12, <3>1, <3>2 DEF SupplyCandidateInvariant
  <2>13. CASE AcceptAllCandidateInvariant
    <3>1. TypeInvs'
      BY <2>13, InsertProps, EmptyProps DEF AcceptAllCandidateInvariant, ClearAllInvariants,
         TypeOK, TypeInvs
    <3>2. TypeHistory'
      BY <2>13 DEF AcceptAllCandidateInvariant, Between, OnlyInvs, TypeOK, TypeHistory
    <3> QED BY <2>11, <2>13, <3>1, <3>2 DEF AcceptAllCandidateInvariant
  <2>14. CASE ClearAllCandidateInvariants
    <3>1. TypeInvs'
      BY <2>14, EmptyProps DEF ClearAllCandidateInvariants, ClearAllInvariants, TypeOK, TypeInvs
    <3>2. TypeHistory'
      BY <2>14 DEF ClearAllCandidateInvariants, Between, OnlyInvs, TypeOK, TypeHistory
    <3> QED BY <2>11, <2>14, <3>1, <3>2 DEF ClearAllCandidateInvariants
  <2>15. ASSUME NEW idx \in DOMAIN inv_obj.vlg, RemoveInvariantsByIdx(idx) PROVE TypeOK'
    <3>1. TypeInvs'
      BY <2>15, RemoveProps DEF RemoveInvariantsByIdx, TypeOK, TypeInvs
    <3>2. TypeHistory'
      BY <2>15 DEF RemoveInvariantsByIdx, Between, OnlyInvs, TypeOK, TypeHistory
    <3> QED BY <2>11, <2>15, <3>1, <3>2 DEF RemoveInvariantsByIdx
  <2>16. ASSUME NEW e \in BOOLEAN, ExportInvariants(e) PROVE TypeOK'
    <3>1. TypeInvs'
      BY <2>16, ExportProps DEF ExportInvariants, TypeOK, TypeInvs
    <3>2. TypeHistory'
      BY <2>16 DEF ExportInvariants, OnlyInvs, TypeOK, TypeHistory
    <3> QED BY <2>11, <2>16, <3>1, <3>2 DEF ExportInvariants
  <2>17. CASE LoadInvariantsFromFile
    <3>1. TypeInvs'
      BY <2>17, ImportProps DEF LoadInvariantsFromFile, TypeOK, TypeInvs
    <3>2. TypeHistory'
      BY <2>17 DEF LoadInvariantsFromFile, Between, OnlyInvs, TypeOK, TypeHistory
    <3> QED BY <2>11, <2>17, <3>1, <3>2 DEF LoadInvariantsFromFile
  <2>18. CASE LoadCandidateInvariantsFromFile
    <3>1. TypeInvs'
      BY <2>18, ImportProps DEF LoadCandidateInvariantsFromFile, TypeOK, TypeInvs
    <3>2. TypeHistory'
      BY <2>18 DEF LoadCandidateInvariantsFromFile, Between, OnlyInvs, TypeOK, TypeHistory
    <3> QED BY <2>11, <2>18, <3>1, <3>2 DEF LoadCandidateInvariantsFromFile
  <2>19. CASE UNCHANGED vars
    BY <2>19 DEF vars, TypeOK, TypeDesign, TypeInvs, TypeFlags, TypeLoop, TypeCex, TypeFiles,
       TypeHistory
  <2>20. CASE Loop
    BY <2>1, <2>2, <2>3, <2>4, <2>5, <2>6, <2>7, <2>8, <2>20 DEF Loop
  <2>21. CASE ClientOps
    BY <2>9, <2>10, <2>12, <2>13, <2>14, <2>15, <2>16, <2>17, <2>18, <2>21 DEF ClientOps
  <2> QED BY <2>19, <2>20, <2>21 DEF Next, Finished
<1> QED BY <1>1, <1>2, PTL DEF Spec

-----------------------------------------------------------------------------
(* The inductive invariants.                                               *)

\* no stored, exported or reported invariant excludes a reachable state
StoresTrue ==
  /\ Excluded(inv_obj) \cap Reach = {}
  /\ Excluded(inv_candidate) \cap Reach = {}
  /\ Excluded(invfile) \cap Reach = {}
FilesTrue ==
  /\ script.assume \cap Reach = {}
  /\ sres.verdict = "proved" => sres.inv \cap Reach = {}
  /\ eres.verdict = "proved" => eres.inv \cap Reach = {}

\* a result about to be extracted as unreachable is in the file
ResultRead == next = "ExtS" /\ ~bad_state /\ ~cex_reachable => sres.verdict = "proved"

SoundInv == ResultRead /\ (Trusted => StoresTrue /\ FilesTrue)

\* a pass about to be extracted is what RunVerifAuto returned
PassReturned == next = "ExtV" /\ verification_pass => eq = "true"

DoneInv == PassReturned /\ DoneIsCorrect

\* as long as every tool answers, the trace and the cube extracted from it are of
\* states that go wrong, unless the client widened the cube
CexWrong ==
  Answered => /\ vcd_file \subseteq Bad
              /\ ~widened => cex \subseteq Bad
TargetIsCex == next \in {"RunS", "ExtS"} /\ script.kind = "syn" => script.cex = cex
ReachableRead ==
  Answered /\ next = "ExtS" /\ ~bad_state =>
    script.kind = "syn" /\ (cex_reachable => script.cex \cap Reach # {})

FailInv == CexWrong /\ TargetIsCex /\ ReachableRead /\ FailedIsWrong

\* as long as every tool answers, the cube is not excluded yet, and the invariant
\* about to be stored excludes it
CexOpen ==
  Answered /\ v_cosa =>
    /\ next = "ExtV" /\ ~verification_pass
         => ~(vcd_file \subseteq Excluded(inv_obj) \cup Excluded(inv_candidate))
    /\ next \in {"GenS", "RunS", "ExtS"}
         => ~(cex \subseteq Excluded(inv_obj) \cup Excluded(inv_candidate))
    /\ next = "ExtS" /\ ~bad_state /\ ~cex_reachable => sres.ok /\ cex \subseteq sres.inv
ScriptReady ==
  Answered /\ v_cosa =>
    /\ ~bad_state
    /\ next = "RunV" => script.kind = "verif"
         /\ script.assume = Excluded(inv_obj) \cup Excluded(inv_candidate)
    /\ next = "RunS" => script.kind = "syn"

AbortInv == CexOpen /\ ScriptReady /\ NoAbort

-----------------------------------------------------------------------------
(* Soundness of the stored invariants.                                     *)

\* A synthesis tool that proves its target leaves an invariant which excludes, of
\* the reachable states, only what the target assumes excluded.
LEMMA SynToolSound ==
  ASSUME NEW old \in SynFile, script.assume \cap Reach = {},
         old.verdict = "proved" => old.inv \cap Reach = {}
  PROVE  \A r \in SynTool(old) : r.file.verdict = "proved" => r.file.inv \cap Reach = {}
<1> DEFINE unreach == script.cex \cap Reach \subseteq script.assume
           other == [verdict |-> "other", inv |-> script.cex, ok |-> TRUE]
           garbled == [verdict |-> IF unreach THEN "proved" ELSE "other",
                       inv |-> {}, ok |-> FALSE]
           right(f) == f.verdict = "proved" => f.inv \cap Reach = {}
<1>1. right(other) /\ right(garbled) /\ right(old) OBVIOUS
<1>2. \A I \in Inv : I \cap Reach \subseteq script.assume
                      => right([verdict |-> "proved", inv |-> I, ok |-> TRUE])
  OBVIOUS
<1>3. \A r \in SynTool(old) :
        \/ \E I \in Inv : /\ I \cap Reach \subseteq script.assume
                          /\ r = [file |-> [verdict |-> "proved", inv |-> I, ok |-> TRUE],
                                  fault |-> 0]
        \/ r = [file |-> other, fault |-> 0]
        \/ \E f \in {other, old, garbled} : r = [file |-> f, fault |-> 1]
  BY DEF SynTool
<1> HIDE DEF other, garbled, right
<1>4. \A r \in SynTool(old) : right(r.file) BY <1>1, <1>2, <1>3
<1> QED BY <1>4 DEF right

\* What the client supplied stays supplied, and the design does not change.
LEMMA TrustedKept ==
  ASSUME [Next]_vars PROVE Reach' = Reach /\ Bad' = Bad /\ (Trusted' => Trusted)
<1> USE DEF design, invs, result, files, history
<1>1. /\ Reach' = Reach /\ Bad' = Bad /\ given \subseteq given'
  <2>1. CASE Loop
    BY <2>1 DEF Loop, GenerateVerificationTarget, GenerateTarget, RunVerifAuto,
       ExtractVerificationResult, GenerateSynthesisTarget, RunSynAuto, ExtractSynthesisResult,
       ExtractAbcSynthesisResultForEnhancement, WordLevelEnhancement
  <2>2. CASE ClientOps
    BY <2>2 DEF ClientOps, SupplyCandidateInvariant, GenerateVerificationTargetWith,
       GenerateTarget, CexGeneralizeRemoveStates, AcceptAllCandidateInvariant,
       ClearAllCandidateInvariants, RemoveInvariantsByIdx, ExportInvariants,
       LoadInvariantsFromFile, LoadCandidateInvariantsFromFile, OnlyInvs
  <2>3. CASE UNCHANGED vars BY <2>3 DEF vars
  <2> QED BY <2>1, <2>2, <2>3 DEF Next, Finished
<1> QED BY <1>1 DEF Trusted


\* What is stored was proved against what was stored, or was supplied.
LEMMA SoundStep == ASSUME TypeOK, SoundInv, [Next]_vars PROVE SoundInv'
<1> USE DEF design, invs, result, files, history
<1>0. /\ Reach' = Reach /\ (Trusted' => Trusted)
      /\ inv_obj \in InvObj /\ inv_candidate \in InvObj /\ invfile \in InvObj
      /\ next # "aborted" => Aligned(inv_obj)
      /\ sres \in SynFile /\ eres \in SynFile
  BY TrustedKept DEF TypeOK, TypeInvs, TypeFiles
<1>1. ASSUME NEW o, Excluded(o) \cap Reach = {} \/ ~Trusted', GenerateTarget(o),
             inv_obj' = o
      PROVE  SoundInv'
  <2>1. ResultRead' BY <1>1 DEF GenerateTarget, ResultRead
  <2>2. ASSUME Trusted' PROVE StoresTrue'
    BY <1>0, <1>1, <2>2 DEF GenerateTarget, SoundInv, StoresTrue
  <2>3. ASSUME Trusted' PROVE FilesTrue'
    <3>1. \/ script' = script \/ script' = NoScript \/ script' = VerificationTarget(o)
      BY <1>1 DEF GenerateTarget
    <3>2. VerificationTarget(o).assume \cap Reach = {}
      BY <1>0, <1>1, <2>3 DEF VerificationTarget, SoundInv, StoresTrue
    <3>3. NoScript.assume = {} BY DEF NoScript
    <3>4. script'.assume \cap Reach = {}
      BY <1>0, <2>3, <3>1, <3>2, <3>3 DEF SoundInv, FilesTrue
    <3> QED BY <1>0, <1>1, <2>3, <3>4 DEF GenerateTarget, SoundInv, FilesTrue
  <2> QED BY <2>1, <2>2, <2>3 DEF SoundInv
<1>2. CASE GenerateVerificationTarget
  <2>1. Excluded(inv_obj) \cap Reach = {} \/ ~Trusted'
    BY <1>0 DEF SoundInv, StoresTrue
  <2> QED BY <1>1, <1>2, <2>1 DEF GenerateVerificationTarget
<1>3. ASSUME NEW I \in Inv, GenerateVerificationTargetWith(I) PROVE SoundInv'
  <2> DEFINE o == AddInvariantFromVerilogExpr(inv_obj, I)
  <2>1. Excluded(o) = Excluded(inv_obj) \cup I
    BY <1>0, AddInvProps DEF AddInvariantFromVerilogExpr, Formula
  <2>2. Trusted' => I \cap Reach = {}
    BY <1>0, <1>3 DEF Trusted, GenerateVerificationTargetWith
  <2>3. Excluded(o) \cap Reach = {} \/ ~Trusted'
    BY <1>0, <2>1, <2>2 DEF SoundInv, StoresTrue
  <2>4. GenerateTarget(o) /\ inv_obj' = o
    BY <1>3 DEF GenerateVerificationTargetWith
  <2> HIDE DEF o
  <2> QED BY <1>1, <2>3, <2>4
<1>4. ASSUME RunVerifAuto \/ ExtractVerificationResult \/ \E I \in Inv : CexGeneralizeRemoveStates(I)
      PROVE  SoundInv'
  <2>1. ResultRead'
    BY <1>4 DEF RunVerifAuto, ExtractVerificationResult, CexGeneralizeRemoveStates, ResultRead
  <2>2. UNCHANGED <<inv_obj, inv_candidate, invfile, script, sres, eres, Reach>>
    BY <1>4 DEF RunVerifAuto, ExtractVerificationResult, CexGeneralizeRemoveStates
  <2>3. Trusted' => StoresTrue' /\ FilesTrue'
    BY <1>0, <2>2 DEF SoundInv, StoresTrue, FilesTrue
  <2> QED BY <2>1, <2>3 DEF SoundInv
<1>5. CASE GenerateSynthesisTarget
  <2>1. ResultRead' BY <1>5 DEF GenerateSynthesisTarget, ResultRead
  <2>2. ASSUME Trusted' PROVE StoresTrue'
    BY <1>0, <1>5, <2>2 DEF GenerateSynthesisTarget, SoundInv, StoresTrue
  <2>3. ASSUME Trusted' PROVE FilesTrue'
    <3>1. script'.assume \in {{}, Excluded(inv_obj)}
      BY <1>5 DEF GenerateSynthesisTarget, NoScript
    <3>2. script'.assume \cap Reach = {}
      BY <1>0, <2>3, <3>1 DEF SoundInv, StoresTrue
    <3> QED BY <1>0, <1>5, <2>3, <3>2 DEF GenerateSynthesisTarget, SoundInv, FilesTrue
  <2> QED BY <2>1, <2>2, <2>3 DEF SoundInv
<1>6. CASE RunSynAuto
  <2>1. ResultRead'
    BY <1>6 DEF RunSynAuto, ResultRead
  <2>2. ASSUME Trusted' PROVE StoresTrue'
    BY <1>0, <1>6, <2>2 DEF RunSynAuto, SoundInv, StoresTrue
  <2>3. ASSUME Trusted' PROVE FilesTrue'
    <3>1. /\ script.assume \cap Reach = {}
          /\ sres.verdict = "proved" => sres.inv \cap Reach = {}
          /\ eres.verdict = "proved" => eres.inv \cap Reach = {}
      BY <1>0, <2>3 DEF SoundInv, FilesTrue
    <3>2. \A r \in SynTool(sres) : r.file.verdict = "proved" => r.file.inv \cap Reach = {}
      BY <1>0, <3>1, SynToolSound
    <3>3. sres' = sres \/ \E r \in SynTool(sres) : sres' = r.file
      BY <1>6 DEF RunSynAuto
    <3>4. sres'.verdict = "proved" => sres'.inv \cap Reach = {}
      BY <3>1, <3>2, <3>3
    <3>5. script' = script /\ eres' = eres BY <1>6 DEF RunSynAuto
    <3> QED BY <1>0, <3>1, <3>4, <3>5 DEF FilesTrue
  <2> QED BY <2>1, <2>2, <2>3 DEF SoundInv
<1>7. CASE ExtractSynthesisResult
  <2>1. ResultRead' BY <1>7 DEF ExtractSynthesisResult, ResultRead
  <2>2. Trusted' => FilesTrue'
    BY <1>0, <1>7 DEF ExtractSynthesisResult, SoundInv, FilesTrue
  <2>3. ASSUME Trusted' PROVE StoresTrue'
    <3>1. \/ inv_obj' = inv_obj
          \/ /\ next = "ExtS" /\ ~bad_state /\ ~cex_reachable
             /\ \E r \in SynthesisResults(current_inv_type) : inv_obj' = r.obj
      BY <1>7 DEF ExtractSynthesisResult
    <3>2. next = "ExtS" /\ ~bad_state /\ ~cex_reachable => sres.inv \cap Reach = {}
      BY <1>0, <2>3 DEF SoundInv, ResultRead, FilesTrue
    <3>3. Excluded(inv_obj) \cap Reach = {} /\ Excluded(inv_candidate) \cap Reach = {}
          /\ Excluded(invfile) \cap Reach = {}
      BY <1>0, <2>3 DEF SoundInv, StoresTrue
    <3>4. \/ Excluded(inv_obj') = Excluded(inv_obj)
          \/ /\ next = "ExtS" /\ ~bad_state /\ ~cex_reachable
             /\ Excluded(inv_obj') \subseteq Excluded(inv_obj) \cup sres.inv
      BY <1>0, <3>1, SynthesisRead, AddProps
    <3>5. Excluded(inv_obj') \cap Reach = {} BY <3>2, <3>3, <3>4
    <3>6. inv_candidate' = inv_candidate /\ invfile' = invfile
      BY <1>7 DEF ExtractSynthesisResult
    <3> QED BY <1>0, <3>3, <3>5, <3>6 DEF StoresTrue
  <2> QED BY <2>1, <2>2, <2>3 DEF SoundInv
<1>8. CASE ExtractAbcSynthesisResultForEnhancement
  <2>1. ResultRead' BY <1>8 DEF ExtractAbcSynthesisResultForEnhancement, ResultRead
  <2>2. Trusted' => FilesTrue'
    BY <1>0, <1>8 DEF ExtractAbcSynthesisResultForEnhancement, SoundInv, FilesTrue
  <2>3. ASSUME Trusted' PROVE StoresTrue'
    <3>1. \/ inv_candidate' = inv_candidate
          \/ /\ next = "ExtS" /\ ~bad_state /\ ~cex_reachable
             /\ \E r \in AddInvariantFromAbcResultFile(inv_candidate, sres) :
                  inv_candidate' = r.obj
      BY <1>8 DEF ExtractAbcSynthesisResultForEnhancement
    <3>2. next = "ExtS" /\ ~bad_state /\ ~cex_reachable => sres.inv \cap Reach = {}
      BY <1>0, <2>3 DEF SoundInv, ResultRead, FilesTrue
    <3>3. Excluded(inv_obj) \cap Reach = {} /\ Excluded(inv_candidate) \cap Reach = {}
          /\ Excluded(invfile) \cap Reach = {}
      BY <1>0, <2>3 DEF SoundInv, StoresTrue
    <3>4. \/ Excluded(inv_candidate') = Excluded(inv_candidate)
          \/ /\ next = "ExtS" /\ ~bad_state /\ ~cex_reachable
             /\ Excluded(inv_candidate') \subseteq Excluded(inv_candidate) \cup sres.inv
      BY <1>0, <3>1, AddProps
    <3>5. Excluded(inv_candidate') \cap Reach = {} BY <3>2, <3>3, <3>4
    <3>6. inv_obj' = inv_obj /\ invfile' = invfile
      BY <1>8 DEF ExtractAbcSynthesisResultForEnhancement
    <3> QED BY <1>0, <3>3, <3>5, <3>6 DEF StoresTrue
  <2> QED BY <2>1, <2>2, <2>3 DEF SoundInv
<1>9. CASE WordLevelEnhancement
  <2>1. ResultRead' BY <1>9 DEF WordLevelEnhancement, ResultRead
  <2>2. PICK I \in Inv, proved \in BOOLEAN :
          /\ proved => I \cap Reach \subseteq Excluded(inv_obj)
          /\ \/ eres' = [verdict |-> IF proved THEN "proved" ELSE "other",
                          inv |-> I, ok |-> proved]
             \/ eres' = eres
             \/ eres' = [verdict |-> "proved", inv |-> {}, ok |-> FALSE]
    BY <1>9 DEF WordLevelEnhancement
  <2>3. eres' \in SynFile
    <3>1. [verdict |-> IF proved THEN "proved" ELSE "other", inv |-> I, ok |-> proved]
            \in SynFile
      BY DEF SynFile
    <3>2. [verdict |-> "proved", inv |-> {}, ok |-> FALSE] \in SynFile
      BY DEF SynFile, Inv
    <3> QED BY <1>0, <2>2, <3>1, <3>2
  <2>4. Trusted' => (eres'.verdict = "proved" => eres'.inv \cap Reach = {})
    BY <1>0, <2>2 DEF SoundInv, StoresTrue, FilesTrue
  <2>5. Trusted' => FilesTrue'
    BY <1>0, <1>9, <2>4 DEF WordLevelEnhancement, SoundInv, FilesTrue
  <2>6. Trusted' => Excluded(inv_obj') \cap Reach = {}
    <3>1. \/ inv_obj' = inv_obj
          \/ /\ eres'.verdict = "proved"
             /\ \E r \in AddInvariantFromGrainResultFile(inv_obj, eres') : inv_obj' = r.obj
      BY <1>9 DEF WordLevelEnhancement
    <3>2. \/ inv_obj' = inv_obj
          \/ /\ eres'.verdict = "proved"
             /\ Excluded(inv_obj') \subseteq Excluded(inv_obj) \cup eres'.inv
      BY <1>0, <2>3, <3>1, AddProps
    <3> QED BY <1>0, <2>4, <3>2 DEF SoundInv, StoresTrue
  <2>7. Trusted' => StoresTrue'
    BY <1>0, <1>9, <2>6 DEF WordLevelEnhancement, SoundInv, StoresTrue
  <2> QED BY <2>1, <2>5, <2>7 DEF SoundInv
<1>10. ASSUME OnlyInvs, Trusted' => StoresTrue' PROVE SoundInv'
  <2>1. ResultRead' BY <1>10 DEF OnlyInvs, SoundInv, ResultRead
  <2>2. Trusted' => FilesTrue' BY <1>0, <1>10 DEF OnlyInvs, SoundInv, FilesTrue
  <2> QED BY <1>10, <2>1, <2>2 DEF SoundInv
<1>11. ASSUME NEW I \in Inv, SupplyCandidateInvariant(I) PROVE SoundInv'
  <2>1. Trusted' => I \cap Reach = {}
    BY <1>0, <1>11 DEF Trusted, SupplyCandidateInvariant
  <2>2. Excluded(inv_candidate') = Excluded(inv_candidate) \cup I
    BY <1>0, <1>11, AddInvProps
    DEF SupplyCandidateInvariant, AddInvariantFromVerilogExpr, Formula
  <2>3. Trusted' => StoresTrue'
    BY <1>0, <1>11, <2>1, <2>2 DEF SupplyCandidateInvariant, SoundInv, StoresTrue
  <2> QED BY <1>10, <1>11, <2>3 DEF SupplyCandidateInvariant
<1>12. CASE AcceptAllCandidateInvariant
  <2>1. Excluded(inv_obj') = Excluded(inv_obj) \cup Excluded(inv_candidate)
    BY <1>0, <1>12, InsertProps DEF AcceptAllCandidateInvariant
  <2>2. Excluded(inv_candidate') = {}
    BY <1>12, EmptyProps DEF AcceptAllCandidateInvariant, ClearAllInvariants
  <2>3. Trusted' => StoresTrue'
    BY <1>0, <1>12, <2>1, <2>2 DEF AcceptAllCandidateInvariant, SoundInv, StoresTrue
  <2> QED BY <1>10, <1>12, <2>3 DEF AcceptAllCandidateInvariant
<1>13. CASE ClearAllCandidateInvariants
  <2>1. Excluded(inv_candidate') = {}
    BY <1>13, EmptyProps DEF ClearAllCandidateInvariants, ClearAllInvariants
  <2>2. Trusted' => StoresTrue'
    BY <1>0, <1>13, <2>1 DEF ClearAllCandidateInvariants, SoundInv, StoresTrue
  <2> QED BY <1>10, <1>13, <2>2 DEF ClearAllCandidateInvariants
<1>14. ASSUME NEW idx \in DOMAIN inv_obj.vlg, RemoveInvariantsByIdx(idx) PROVE SoundInv'
  <2>1. Excluded(inv_obj') \subseteq Excluded(inv_obj)
    BY <1>0, <1>14, RemoveProps DEF RemoveInvariantsByIdx, Between
  <2>2. Trusted' => StoresTrue'
    BY <1>0, <1>14, <2>1 DEF RemoveInvariantsByIdx, SoundInv, StoresTrue
  <2> QED BY <1>10, <1>14, <2>2 DEF RemoveInvariantsByIdx
<1>15. ASSUME NEW e \in BOOLEAN, ExportInvariants(e) PROVE SoundInv'
  <2>1. Excluded(invfile') = Excluded(inv_obj)
    BY <1>0, <1>15, ExportProps DEF ExportInvariants
  <2>2. Trusted' => StoresTrue'
    BY <1>0, <1>15, <2>1 DEF ExportInvariants, SoundInv, StoresTrue
  <2> QED BY <1>10, <1>15, <2>2 DEF ExportInvariants
<1>16. CASE LoadInvariantsFromFile
  <2>1. Excluded(inv_obj') = Excluded(inv_obj) \cup Excluded(invfile)
    BY <1>0, <1>16, ImportProps DEF LoadInvariantsFromFile
  <2>2. Trusted' => StoresTrue'
    BY <1>0, <1>16, <2>1 DEF LoadInvariantsFromFile, SoundInv, StoresTrue
  <2> QED BY <1>10, <1>16, <2>2 DEF LoadInvariantsFromFile
<1>17. CASE LoadCandidateInvariantsFromFile
  <2>1. Excluded(inv_candidate') = Excluded(inv_candidate) \cup Excluded(invfile)
    BY <1>0, <1>17, ImportProps DEF LoadCandidateInvariantsFromFile
  <2>2. Trusted' => StoresTrue'
    BY <1>0, <1>17, <2>1 DEF LoadCandidateInvariantsFromFile, SoundInv, StoresTrue
  <2> QED BY <1>10, <1>17, <2>2 DEF LoadCandidateInvariantsFromFile
<1>18. CASE UNCHANGED vars
  BY <1>18 DEF vars, SoundInv, StoresTrue, FilesTrue, ResultRead, Trusted
<1>19. CASE Loop
  BY <1>2, <1>4, <1>5, <1>6, <1>7, <1>8, <1>9, <1>19 DEF Loop
<1>20. CASE ClientOps
  BY <1>3, <1>4, <1>11, <1>12, <1>13, <1>14, <1>15, <1>16, <1>17, <1>20 DEF ClientOps
<1> QED BY <1>18, <1>19, <1>20 DEF Next, Finished

\* At first there is nothing stored.
LEMMA SoundInit == Init => SoundInv
<1> SUFFICES ASSUME Init PROVE SoundInv OBVIOUS
<1>1. ResultRead BY DEF Init, ResultRead
<1>2. StoresTrue BY EmptyProps DEF Init, StoresTrue
<1>3. FilesTrue BY DEF Init, FilesTrue, NoScript, NoFile
<1> QED BY <1>1, <1>2, <1>3 DEF SoundInv

\* The confirmed invariants are true of the design, for every design, backend and
\* number of tool faults, stale result files included: if the client supplied no
\* wrong one, no reachable state is excluded.
THEOREM CegarInvariantsTrue == Spec => []InvariantsTrue
<1>1. Init => SoundInv BY SoundInit
<1>2. TypeOK /\ SoundInv /\ [Next]_vars => SoundInv' BY SoundStep
<1>3. SoundInv => InvariantsTrue BY DEF SoundInv, StoresTrue, InvariantsTrue
<1> QED BY <1>1, <1>2, <1>3, CegarTypeCorrect, PTL DEF Spec

-----------------------------------------------------------------------------
(* Answers.                                                                *)

\* An answer of the model checker: a pass if the assumed invariants exclude every
\* state that goes wrong, else one of the others.
LEMMA VerifToolAnswer ==
  ASSUME NEW r \in VerifTool, r.fault = 0
  PROVE  \/ Bad \subseteq script.assume /\ r.file = [v |-> "pass", cube |-> {}]
         \/ \E x \in Bad \ script.assume : r.file = [v |-> "cex", cube |-> {x}]
<1>1. \/ /\ Bad \subseteq script.assume
         /\ r = [file |-> [v |-> "pass", cube |-> {}], fault |-> 0]
      \/ \E x \in Bad \ script.assume : r = [file |-> [v |-> "cex", cube |-> {x}], fault |-> 0]
      \/ \E f : r = [file |-> f, fault |-> 1]
  BY DEF VerifTool
<1>2. CASE \E x \in Bad \ script.assume :
             r = [file |-> [v |-> "cex", cube |-> {x}], fault |-> 0]
  <2>1. PICK x \in Bad \ script.assume :
          r = [file |-> [v |-> "cex", cube |-> {x}], fault |-> 0]
    BY <1>2
  <2>2. r.file = [v |-> "cex", cube |-> {x}] BY <2>1
  <2> QED BY <2>2
<1>3. CASE \E f : r = [file |-> f, fault |-> 1] BY <1>3
<1>4. CASE /\ Bad \subseteq script.assume
           /\ r = [file |-> [v |-> "pass", cube |-> {}], fault |-> 0]
  BY <1>4
<1> QED BY <1>1, <1>2, <1>3, <1>4

\* An answer of a synthesis tool: a proof whose invariant excludes the cube, or a
\* cube with a reachable state.
LEMMA SynToolAnswer ==
  ASSUME NEW old, NEW r \in SynTool(old), r.fault = 0
  PROVE  \/ /\ r.file.verdict = "proved" /\ r.file.ok /\ script.cex \subseteq r.file.inv
         \/ /\ r.file.verdict = "other" /\ script.cex \cap Reach # {}
<1> DEFINE other == [verdict |-> "other", inv |-> script.cex, ok |-> TRUE]
<1>1. \/ \E I \in Inv : /\ script.cex \subseteq I
                        /\ r = [file |-> [verdict |-> "proved", inv |-> I, ok |-> TRUE],
                                fault |-> 0]
      \/ /\ ~(script.cex \cap Reach \subseteq script.assume)
         /\ r = [file |-> other, fault |-> 0]
      \/ \E f : r = [file |-> f, fault |-> 1]
  BY DEF SynTool
<1>2. CASE \E I \in Inv : /\ script.cex \subseteq I
                        /\ r = [file |-> [verdict |-> "proved", inv |-> I, ok |-> TRUE],
                                fault |-> 0]
  BY <1>2
<1>3. CASE /\ ~(script.cex \cap Reach \subseteq script.assume)
           /\ r = [file |-> other, fault |-> 0]
  BY <1>3
<1> QED BY <1>1, <1>2, <1>3

\* What the tools can be charged with: 0 or 1.
LEMMA FaultType ==
  /\ \A r \in VerifTool : r.fault \in {0, 1}
  /\ \A old : \A r \in SynTool(old) : r.fault \in {0, 1}
BY DEF VerifTool, SynTool

\* A fault is not taken back; a step that leaves none behind charged none.
LEMMA AnsweredKept ==
  ASSUME TypeOK, [Next]_vars
  PROVE  /\ Answered' => Answered
         /\ \A c \in {0, 1} : Faulty(c) /\ Answered' => c = 0
<1> USE DEF design, invs, result, files, history
<1>1. faults \in Nat BY CegarAssumption DEF TypeOK, TypeHistory
<1>2. \A c \in {0, 1} : Faulty(c) => faults' = faults + c BY DEF Faulty
<1>3. faults' = faults \/ \E c \in {0, 1} : Faulty(c)
  <2>1. CASE Loop
    BY <2>1, FaultType DEF Loop, GenerateVerificationTarget, GenerateTarget, RunVerifAuto,
       ExtractVerificationResult, GenerateSynthesisTarget, RunSynAuto, ExtractSynthesisResult,
       ExtractAbcSynthesisResultForEnhancement, WordLevelEnhancement
  <2>2. CASE ClientOps
    BY <2>2 DEF ClientOps, SupplyCandidateInvariant, GenerateVerificationTargetWith,
       GenerateTarget, CexGeneralizeRemoveStates, AcceptAllCandidateInvariant,
       ClearAllCandidateInvariants, RemoveInvariantsByIdx, ExportInvariants,
       LoadInvariantsFromFile, LoadCandidateInvariantsFromFile, OnlyInvs
  <2>3. CASE UNCHANGED vars BY <2>3 DEF vars
  <2> QED BY <2>1, <2>2, <2>3 DEF Next, Finished
<1> QED BY <1>1, <1>2, <1>3 DEF Answered

-----------------------------------------------------------------------------
(* "Equal" is right.                                                       *)

\* A pass, or what is extracted from one, means that no reachable state goes wrong.
LEMMA DoneStep ==
  ASSUME TypeOK, SoundInv, DoneInv, [Next]_vars PROVE DoneInv'
<1> USE DEF design, invs, result, files, history
<1>0. /\ Reach' = Reach /\ Bad' = Bad /\ (Trusted' => Trusted) /\ (Answered' => Answered)
  BY TrustedKept, AnsweredKept
<1>1. CASE RunVerifAuto
  <2>1. PassReturned' BY <1>1 DEF RunVerifAuto, PassReturned
  <2>2. ASSUME Trusted', Answered', eq' = "true" \/ status' = "DONE" PROVE Correct
    <3>1. CASE script.kind # "verif"
      BY <1>0, <1>1, <2>2, <3>1 DEF RunVerifAuto, DoneInv, DoneIsCorrect
    <3>2. CASE script.kind = "verif"
      <4>1. PICK r \in VerifTool : vres' = r.file /\ Faulty(r.fault)
        BY <1>1, <3>2 DEF RunVerifAuto
      <4>2. r.fault = 0 BY <2>2, <4>1, AnsweredKept, FaultType
      <4>3. CASE Bad \subseteq script.assume
        BY <1>0, <2>2, <4>3 DEF Correct, SoundInv, FilesTrue
      <4>4. CASE \E x \in Bad \ script.assume : r.file = [v |-> "cex", cube |-> {x}]
        <5>1. eq' = "false" /\ status' = status
          BY <1>1, <3>2, <4>1, <4>4 DEF RunVerifAuto
        <5> QED BY <1>0, <2>2, <5>1 DEF DoneInv, DoneIsCorrect
      <4> QED BY <4>2, <4>3, <4>4, VerifToolAnswer
    <3> QED BY <3>1, <3>2
  <2> QED BY <1>0, <2>1, <2>2 DEF DoneInv, DoneIsCorrect, Correct
<1>2. CASE ExtractVerificationResult
  BY <1>0, <1>2 DEF ExtractVerificationResult, DoneInv, DoneIsCorrect, PassReturned, Correct
<1>3. ASSUME eq' = eq, status' # "DONE" \/ status' = status, next' # "ExtV" PROVE DoneInv'
  BY <1>0, <1>3 DEF DoneInv, DoneIsCorrect, PassReturned, Correct
<1>4. CASE Loop
  <2>1. CASE GenerateVerificationTarget
    BY <1>3, <2>1 DEF GenerateVerificationTarget, GenerateTarget
  <2>2. CASE GenerateSynthesisTarget BY <1>3, <2>2 DEF GenerateSynthesisTarget
  <2>3. CASE RunSynAuto BY <1>3, <2>3 DEF RunSynAuto
  <2>4. CASE ExtractSynthesisResult BY <1>3, <2>4 DEF ExtractSynthesisResult
  <2>5. CASE ExtractAbcSynthesisResultForEnhancement
    BY <1>3, <2>5 DEF ExtractAbcSynthesisResultForEnhancement
  <2>6. CASE WordLevelEnhancement BY <1>3, <2>6 DEF WordLevelEnhancement
  <2> QED BY <1>1, <1>2, <1>4, <2>1, <2>2, <2>3, <2>4, <2>5, <2>6 DEF Loop
<1>5. CASE ClientOps
  BY <1>3, <1>5 DEF ClientOps, SupplyCandidateInvariant, GenerateVerificationTargetWith,
     GenerateTarget, CexGeneralizeRemoveStates, AcceptAllCandidateInvariant,
     ClearAllCandidateInvariants, RemoveInvariantsByIdx, ExportInvariants,
     LoadInvariantsFromFile, LoadCandidateInvariantsFromFile, OnlyInvs, Between
<1>6. CASE UNCHANGED vars
  BY <1>6 DEF vars, DoneInv, DoneIsCorrect, PassReturned, Correct, Trusted, Answered
<1> QED BY <1>4, <1>5, <1>6 DEF Next, Finished

\* "Equal" is only reported for a correct design, for every design and backend, if
\* every tool answered and the client supplied no wrong invariant.
THEOREM CegarDoneIsCorrect == Spec => []DoneIsCorrect
<1>1. Init => SoundInv /\ DoneInv
  <2> SUFFICES ASSUME Init PROVE SoundInv /\ DoneInv OBVIOUS
  <2>1. DoneInv BY DEF Init, DoneInv, DoneIsCorrect, PassReturned
  <2> QED BY <2>1, SoundInit
<1>2. TypeOK /\ SoundInv /\ DoneInv /\ [Next]_vars => SoundInv' /\ DoneInv'
  BY SoundStep, DoneStep
<1>3. DoneInv => DoneIsCorrect BY DEF DoneInv
<1> QED BY <1>1, <1>2, <1>3, CegarTypeCorrect, PTL DEF Spec

-----------------------------------------------------------------------------
(* "True counterexample" is right.                                         *)

\* The status FAILED follows a cube of states that go wrong one of which is
\* reachable.
LEMMA FailStep == ASSUME TypeOK, FailInv, [Next]_vars PROVE FailInv'
<1> USE DEF design, invs, result, files, history
<1>0. Reach' = Reach /\ Bad' = Bad /\ (Answered' => Answered) BY TrustedKept, AnsweredKept
<1>1. ASSUME UNCHANGED <<vcd_file, cex>>, widened' = widened \/ widened' = TRUE PROVE CexWrong'
  BY <1>0, <1>1 DEF FailInv, CexWrong
<1>2. ASSUME next' \notin {"RunS", "ExtS"} PROVE TargetIsCex' /\ ReachableRead'
  BY <1>2 DEF TargetIsCex, ReachableRead
<1>3. ASSUME status' = status \/ status' # "FAILED", ~widened' => ~widened PROVE FailedIsWrong'
  BY <1>0, <1>3 DEF FailInv, FailedIsWrong, Correct
<1>4. ASSUME CexWrong', TargetIsCex', ReachableRead', FailedIsWrong' PROVE FailInv'
  BY <1>4 DEF FailInv
<1>5. CASE GenerateVerificationTarget
  BY <1>1, <1>2, <1>3, <1>4, <1>5 DEF GenerateVerificationTarget, GenerateTarget
<1>6. CASE RunVerifAuto
  <2>1. TargetIsCex' /\ ReachableRead' BY <1>2, <1>6 DEF RunVerifAuto
  <2>2. FailedIsWrong' BY <1>3, <1>6 DEF RunVerifAuto
  <2>3. CexWrong'
    <3>1. CASE script.kind # "verif" BY <1>1, <1>6, <3>1 DEF RunVerifAuto
    <3>2. CASE script.kind = "verif"
      <4>1. PICK r \in VerifTool : vres' = r.file /\ Faulty(r.fault)
        BY <1>6, <3>2 DEF RunVerifAuto
      <4>2. cex' = cex /\ widened' = widened
            /\ vcd_file' = IF vres'.v = "cex" THEN vres'.cube ELSE vcd_file
        BY <1>6, <3>2 DEF RunVerifAuto
      <4>3. Answered' => vcd_file' \subseteq Bad
        <5> SUFFICES ASSUME Answered' PROVE vcd_file' \subseteq Bad OBVIOUS
        <5>1. r.fault = 0 BY <4>1, AnsweredKept, FaultType
        <5>2. vcd_file \subseteq Bad BY <1>0 DEF FailInv, CexWrong
        <5>3. CASE Bad \subseteq script.assume /\ r.file = [v |-> "pass", cube |-> {}]
          BY <4>1, <4>2, <5>2, <5>3
        <5>4. CASE \E x \in Bad \ script.assume : r.file = [v |-> "cex", cube |-> {x}]
          <6>1. PICK x \in Bad \ script.assume : r.file = [v |-> "cex", cube |-> {x}] BY <5>4
          <6> QED BY <4>1, <4>2, <6>1
        <5> QED BY <5>1, <5>3, <5>4, VerifToolAnswer
      <4> QED BY <1>0, <4>2, <4>3 DEF FailInv, CexWrong
    <3> QED BY <3>1, <3>2
  <2> QED BY <1>4, <2>1, <2>2, <2>3
<1>7. CASE ExtractVerificationResult
  <2>1. TargetIsCex' /\ ReachableRead' BY <1>2, <1>7 DEF ExtractVerificationResult
  <2>2. FailedIsWrong' BY <1>7 DEF ExtractVerificationResult, FailedIsWrong
  <2>3. CexWrong' BY <1>0, <1>7 DEF ExtractVerificationResult, FailInv, CexWrong
  <2> QED BY <1>4, <2>1, <2>2, <2>3
<1>8. CASE GenerateSynthesisTarget
  <2>1. TargetIsCex' BY <1>8 DEF GenerateSynthesisTarget, NoScript, TargetIsCex
  <2>2. ReachableRead' BY <1>8 DEF GenerateSynthesisTarget, ReachableRead
  <2> QED BY <1>1, <1>3, <1>4, <1>8, <2>1, <2>2 DEF GenerateSynthesisTarget
<1>9. CASE RunSynAuto
  <2>1. CexWrong' BY <1>1, <1>9 DEF RunSynAuto
  <2>2. TargetIsCex' BY <1>9 DEF RunSynAuto, FailInv, TargetIsCex
  <2>3. ReachableRead' /\ FailedIsWrong'
    <3>1. CASE script.kind # "syn"
      BY <1>2, <1>3, <1>9, <3>1 DEF RunSynAuto
    <3>2. CASE script.kind = "syn"
      <4>1. PICK r \in SynTool(sres) : sres' = r.file /\ Faulty(r.fault)
        BY <1>9, <3>2 DEF RunSynAuto
      <4>2. Answered' => \/ sres'.verdict = "proved"
                         \/ sres'.verdict = "other" /\ script.cex \cap Reach # {}
        BY <4>1, AnsweredKept, FaultType, SynToolAnswer
      <4>3. ReachableRead'
        BY <1>0, <1>9, <3>2, <4>2 DEF RunSynAuto, ReachableRead
      <4>4. Answered' => status' = status /\ widened' = widened
        BY <1>9, <3>2, <4>2 DEF RunSynAuto
      <4>5. FailedIsWrong' BY <1>0, <4>4 DEF FailInv, FailedIsWrong, Correct
      <4> QED BY <4>3, <4>5
    <3> QED BY <3>1, <3>2
  <2> QED BY <1>4, <2>1, <2>2, <2>3
<1>10. ASSUME Answered', ~widened', ~bad_state, cex_reachable, next = "ExtS",
              widened' = widened
       PROVE  ~Correct
  <2>1. script.cex = cex /\ cex \cap Reach # {}
    BY <1>0, <1>10 DEF FailInv, TargetIsCex, ReachableRead
  <2>2. cex \subseteq Bad BY <1>0, <1>10 DEF FailInv, CexWrong
  <2> QED BY <2>1, <2>2 DEF Correct
<1>11. CASE ExtractSynthesisResult
  <2>1. FailedIsWrong'
    <3>1. CASE bad_state \/ ~cex_reachable BY <1>3, <1>11, <3>1 DEF ExtractSynthesisResult
    <3>2. CASE ~bad_state /\ cex_reachable
      BY <1>0, <1>10, <1>11, <3>2 DEF ExtractSynthesisResult, FailedIsWrong, Correct
    <3> QED BY <3>1, <3>2
  <2> QED BY <1>1, <1>2, <1>4, <1>11, <2>1 DEF ExtractSynthesisResult
<1>12. CASE ExtractAbcSynthesisResultForEnhancement
  <2>1. FailedIsWrong'
    <3>1. CASE ~cex_reachable
      BY <1>3, <1>12, <3>1 DEF ExtractAbcSynthesisResultForEnhancement
    <3>2. CASE cex_reachable
      BY <1>0, <1>10, <1>12, <3>2
      DEF ExtractAbcSynthesisResultForEnhancement, FailedIsWrong, Correct
    <3> QED BY <3>1, <3>2
  <2> QED BY <1>1, <1>2, <1>4, <1>12, <2>1 DEF ExtractAbcSynthesisResultForEnhancement
<1>13. CASE WordLevelEnhancement
  BY <1>1, <1>2, <1>3, <1>4, <1>13 DEF WordLevelEnhancement
<1>14. CASE Loop
  BY <1>5, <1>6, <1>7, <1>8, <1>9, <1>11, <1>12, <1>13, <1>14 DEF Loop
<1>15. ASSUME NEW I \in Inv, CexGeneralizeRemoveStates(I) PROVE FailInv'
  <2>1. CexWrong' BY <1>0, <1>15 DEF CexGeneralizeRemoveStates, FailInv, CexWrong
  <2> QED BY <1>2, <1>3, <1>4, <1>15, <2>1 DEF CexGeneralizeRemoveStates
<1>16. CASE ClientOps
  <2>1. ASSUME UNCHANGED <<vcd_file, cex, widened>>, next' \notin {"RunS", "ExtS"},
               status' = status \/ status' # "FAILED"
        PROVE  FailInv'
    BY <1>1, <1>2, <1>3, <1>4, <2>1
  <2> QED
    BY <1>15, <1>16, <2>1 DEF ClientOps, SupplyCandidateInvariant,
       GenerateVerificationTargetWith, GenerateTarget, AcceptAllCandidateInvariant,
       ClearAllCandidateInvariants, RemoveInvariantsByIdx, ExportInvariants,
       LoadInvariantsFromFile, LoadCandidateInvariantsFromFile, OnlyInvs, Between
<1>17. CASE UNCHANGED vars
  BY <1>17 DEF vars, FailInv, CexWrong, TargetIsCex, ReachableRead, FailedIsWrong, Correct,
     Answered
<1> QED BY <1>14, <1>16, <1>17 DEF Next, Finished

\* At first there is no counterexample.
LEMMA FailInit == Init => FailInv
BY DEF Init, FailInv, CexWrong, TargetIsCex, ReachableRead, FailedIsWrong

\* "True counterexample" is only reported for a wrong design, for every design and
\* backend, if every tool answered and the cube kept its registers.
THEOREM CegarFailedIsWrong == Spec => []FailedIsWrong
<1>1. TypeOK /\ FailInv /\ [Next]_vars => FailInv' BY FailStep
<1>2. FailInv => FailedIsWrong BY DEF FailInv
<1> QED BY <1>1, <1>2, FailInit, CegarTypeCorrect, PTL DEF Spec

-----------------------------------------------------------------------------
(* No check of the loop fails.                                             *)

\* A result that excludes a cube the store does not exclude is not refused.
LEMMA NotRefused ==
  ASSUME NEW o \in InvObj, NEW res \in SynFile, NEW c, res.ok, c \subseteq res.inv,
         ~(c \subseteq Excluded(o)), NEW r,
         \/ r \in AddInvariantFromAbcResultFile(o, res)
         \/ r \in AddInvariantFromChcResultFile(o, res)
         \/ r \in AddInvariantFromGrainResultFile(o, res)
  PROVE  ~r.ended
<1>1. res.inv \notin Range(o.vlg) BY DEF Excluded
<1>2. \E I, f : r = Read(FALSE, AddInv(o, I, f))
  BY <1>1 DEF AddInvariantFromAbcResultFile, AddInvariantFromChcResultFile,
     AddInvariantFromGrainResultFile, AddUnlessStored
<1> QED BY <1>2, ReadFields

\* The cube in hand is excluded by no stored invariant, so the one synthesised for
\* it is new.
LEMMA AbortStep == ASSUME TypeOK, FailInv, AbortInv, [Next]_vars PROVE AbortInv'
<1> USE DEF design, invs, result, files, history
<1>0. /\ v_cosa' = v_cosa /\ (Answered' => Answered)
      /\ inv_obj \in InvObj /\ inv_candidate \in InvObj /\ sres \in SynFile
  <2>1. v_cosa' = v_cosa
    BY DEF Next, Finished, vars, Loop, GenerateVerificationTarget, GenerateTarget, RunVerifAuto,
       ExtractVerificationResult, GenerateSynthesisTarget, RunSynAuto, ExtractSynthesisResult,
       ExtractAbcSynthesisResultForEnhancement, WordLevelEnhancement,
       ClientOps, SupplyCandidateInvariant, GenerateVerificationTargetWith,
       CexGeneralizeRemoveStates, AcceptAllCandidateInvariant,
       ClearAllCandidateInvariants, RemoveInvariantsByIdx, ExportInvariants,
       LoadInvariantsFromFile, LoadCandidateInvariantsFromFile, OnlyInvs
  <2> QED BY <2>1, AnsweredKept DEF TypeOK, TypeInvs, TypeFiles
<1>1. SUFFICES ASSUME Answered', v_cosa PROVE AbortInv'
  BY <1>0 DEF AbortInv, CexOpen, ScriptReady, NoAbort
<1>2. Answered /\ ~bad_state /\ next # "aborted"
  BY <1>0, <1>1 DEF AbortInv, ScriptReady, NoAbort
<1>3. \A c \in {0, 1} : Faulty(c) => c = 0 BY <1>1, AnsweredKept
<1>4. ASSUME NEW o, GenerateTarget(o), inv_obj' = o PROVE AbortInv'
  <2>1. script' = VerificationTarget(o) /\ bad_state' = bad_state /\ next' = "RunV"
        /\ inv_candidate' = inv_candidate
    BY <1>2, <1>3, <1>4 DEF GenerateTarget
  <2>2. ScriptReady' BY <1>2, <1>4, <2>1 DEF ScriptReady, VerificationTarget
  <2>3. CexOpen' /\ NoAbort' BY <2>1 DEF CexOpen, NoAbort
  <2> QED BY <2>2, <2>3 DEF AbortInv
<1>5. CASE GenerateVerificationTarget
  BY <1>4, <1>5 DEF GenerateVerificationTarget
<1>6. ASSUME NEW I \in Inv, GenerateVerificationTargetWith(I) PROVE AbortInv'
  BY <1>4, <1>6 DEF GenerateVerificationTargetWith
<1>7. CASE RunVerifAuto
  <2>1. /\ script.kind = "verif"
        /\ script.assume = Excluded(inv_obj) \cup Excluded(inv_candidate)
    BY <1>1, <1>2, <1>7 DEF RunVerifAuto, AbortInv, ScriptReady
  <2>2. PICK r \in VerifTool : vres' = r.file /\ Faulty(r.fault)
    BY <1>7, <2>1 DEF RunVerifAuto
  <2>3. /\ next' = "ExtV" /\ bad_state' = bad_state
        /\ verification_pass' = (vres'.v # "cex")
        /\ vcd_file' = IF vres'.v = "cex" THEN vres'.cube ELSE vcd_file
        /\ inv_obj' = inv_obj /\ inv_candidate' = inv_candidate
    BY <1>7, <2>1 DEF RunVerifAuto
  <2>4. r.fault = 0 BY <1>3, <2>2, FaultType
  <2>5. ~verification_pass' => ~(vcd_file' \subseteq script.assume)
    <3>1. CASE r.file = [v |-> "pass", cube |-> {}]
      <4>1. vres'.v = "pass" BY <2>2, <3>1
      <4>2. verification_pass' = TRUE BY <2>3, <4>1
      <4> QED BY <4>2
    <3>2. CASE \E x \in Bad \ script.assume : r.file = [v |-> "cex", cube |-> {x}]
      <4>1. PICK x \in Bad \ script.assume : r.file = [v |-> "cex", cube |-> {x}] BY <3>2
      <4>2. vcd_file' = {x} BY <2>2, <2>3, <4>1
      <4> QED BY <4>2
    <3> QED BY <2>4, <3>1, <3>2, VerifToolAnswer
  <2>6. CexOpen' BY <2>1, <2>3, <2>5 DEF CexOpen
  <2>7. ScriptReady' /\ NoAbort' BY <1>2, <2>3 DEF ScriptReady, NoAbort
  <2> QED BY <2>6, <2>7 DEF AbortInv
<1>8. CASE ExtractVerificationResult
  <2>1. ScriptReady' /\ NoAbort'
    BY <1>2, <1>8 DEF ExtractVerificationResult, ScriptReady, NoAbort
  <2>2. CASE verification_pass
    BY <1>8, <2>1, <2>2 DEF ExtractVerificationResult, AbortInv, CexOpen
  <2>3. CASE ~verification_pass
    <3>1. /\ next' = "GenS" /\ cex' = vcd_file
          /\ inv_obj' = inv_obj /\ inv_candidate' = inv_candidate
      BY <1>8, <2>3 DEF ExtractVerificationResult
    <3>2. ~(vcd_file \subseteq Excluded(inv_obj) \cup Excluded(inv_candidate))
      BY <1>1, <1>2, <1>8, <2>3 DEF ExtractVerificationResult, AbortInv, CexOpen
    <3>3. CexOpen' BY <3>1, <3>2 DEF CexOpen
    <3> QED BY <2>1, <3>3 DEF AbortInv
  <2> QED BY <2>2, <2>3
<1>9. next \in {"GenS", "RunS", "ExtS"}
        => ~(cex \subseteq Excluded(inv_obj) \cup Excluded(inv_candidate))
  BY <1>1, <1>2 DEF AbortInv, CexOpen
<1>10. ASSUME NEW I \in Inv, CexGeneralizeRemoveStates(I) PROVE AbortInv'
  <2>1. CexOpen' BY <1>9, <1>10 DEF CexGeneralizeRemoveStates, CexOpen
  <2>2. ScriptReady' /\ NoAbort'
    BY <1>2, <1>10 DEF CexGeneralizeRemoveStates, ScriptReady, NoAbort
  <2> QED BY <2>1, <2>2 DEF AbortInv
<1>11. CASE GenerateSynthesisTarget
  <2>1. CexOpen' BY <1>9, <1>11 DEF GenerateSynthesisTarget, CexOpen
  <2>2. script'.kind = "syn" BY <1>3, <1>11 DEF GenerateSynthesisTarget
  <2>3. ScriptReady' /\ NoAbort'
    BY <1>2, <1>11, <2>2 DEF GenerateSynthesisTarget, ScriptReady, NoAbort
  <2> QED BY <2>1, <2>3 DEF AbortInv
<1>12. CASE RunSynAuto
  <2>1. script.kind = "syn" /\ script.cex = cex
    BY <1>1, <1>2, <1>12 DEF RunSynAuto, AbortInv, ScriptReady, FailInv, TargetIsCex
  <2>2. PICK r \in SynTool(sres) : sres' = r.file /\ Faulty(r.fault)
    BY <1>12, <2>1 DEF RunSynAuto
  <2>3. \/ sres'.verdict = "proved" /\ sres'.ok /\ cex \subseteq sres'.inv
        \/ sres'.verdict = "other"
    BY <1>3, <2>1, <2>2, FaultType, SynToolAnswer
  <2>4. /\ next' = "ExtS" /\ bad_state' = bad_state
        /\ cex_reachable' = (sres'.verdict # "proved")
        /\ inv_obj' = inv_obj /\ inv_candidate' = inv_candidate /\ cex' = cex
    BY <1>12, <2>1, <2>3 DEF RunSynAuto
  <2>5. next = "RunS" BY <1>12 DEF RunSynAuto
  <2>6. CexOpen' BY <1>9, <2>3, <2>4, <2>5 DEF CexOpen
  <2>7. ScriptReady' /\ NoAbort' BY <1>2, <2>4 DEF ScriptReady, NoAbort
  <2> QED BY <2>6, <2>7 DEF AbortInv
<1>13. ASSUME next = "ExtS", ~cex_reachable
       PROVE /\ \A r \in SynthesisResults(current_inv_type) : ~r.ended
             /\ \A r \in AddInvariantFromAbcResultFile(inv_candidate, sres) : ~r.ended
  <2>1. sres.ok /\ cex \subseteq sres.inv BY <1>1, <1>2, <1>13 DEF AbortInv, CexOpen
  <2>2. ~(cex \subseteq Excluded(inv_obj)) /\ ~(cex \subseteq Excluded(inv_candidate))
    BY <1>9, <1>13
  <2>3. \A r \in SynthesisResults(current_inv_type) : ~r.ended
    BY <1>0, <2>1, <2>2, SynthesisRead, NotRefused
  <2> QED BY <1>0, <2>1, <2>2, <2>3, NotRefused
<1>14. ASSUME next' \in {"GenV", "Enhance", "stop"}, bad_state' = bad_state PROVE AbortInv'
  BY <1>2, <1>14 DEF AbortInv, CexOpen, ScriptReady, NoAbort
<1>15. CASE ExtractSynthesisResult
  BY <1>2, <1>13, <1>14, <1>15 DEF ExtractSynthesisResult
<1>16. CASE ExtractAbcSynthesisResultForEnhancement
  BY <1>2, <1>13, <1>14, <1>16 DEF ExtractAbcSynthesisResultForEnhancement
<1>17. CASE WordLevelEnhancement
  <2>1. eres'.verdict = "proved" => eres'.ok
    BY <1>3, <1>17, FaultType DEF WordLevelEnhancement, Faulty
  <2>2. eres'.verdict = "proved" =>
          \A r \in AddInvariantFromGrainResultFile(inv_obj, eres') : ~r.ended
    BY <2>1, ReadFields DEF AddInvariantFromGrainResultFile
  <2> QED BY <1>14, <1>17, <2>2 DEF WordLevelEnhancement
<1>18. CASE Loop
  BY <1>5, <1>7, <1>8, <1>11, <1>12, <1>15, <1>16, <1>17, <1>18 DEF Loop
<1>19. CASE ClientOps
  BY <1>6, <1>10, <1>14, <1>19 DEF ClientOps, SupplyCandidateInvariant,
     AcceptAllCandidateInvariant, ClearAllCandidateInvariants, RemoveInvariantsByIdx,
     ExportInvariants, LoadInvariantsFromFile, LoadCandidateInvariantsFromFile, OnlyInvs, Between
<1>20. CASE UNCHANGED vars
  BY <1>20 DEF vars, AbortInv, CexOpen, ScriptReady, NoAbort, Answered
<1> QED BY <1>18, <1>19, <1>20 DEF Next, Finished

\* As long as every tool answers, the loop does not end in a failed ILA_CHECK: no
\* script is missing and no synthesised invariant is one that is stored already.
THEOREM CegarNoAbort == Spec => []NoAbort
<1>1. Init => AbortInv
  BY DEF Init, AbortInv, CexOpen, ScriptReady, NoAbort
<1>2. TypeOK /\ FailInv /\ AbortInv /\ [Next]_vars => FailInv' /\ AbortInv'
  BY FailStep, AbortStep
<1>3. AbortInv => NoAbort BY DEF AbortInv
<1> QED BY <1>1, <1>2, <1>3, FailInit, CegarTypeCorrect, PTL DEF Spec
=============================================================================
