------------------------------ MODULE ExprOps ------------------------------
(***************************************************************************)
(* What an ILA operator becomes in each of the five back ends that         *)
(* translate expressions: the z3 terms of ExprOp::GetZ3Expr (the reference *)
(* meaning of an ILA), the smt-switch terms of SmtSwitchItf, the Verilog   *)
(* text of VerilogGenerator, and the SystemC text of Ilator and of IlaSim. *)
(*                                                                         *)
(* A back end is a table from ILA operators to operators of the target     *)
(* language; the meaning of the target's operators is external.  Booleans  *)
(* are 0 and 1, a bit-vector of width w is a number below 2^w.  One        *)
(* expression is grown operator by operator around an accumulated operand, *)
(* the way asthub builds trees, and every back end carries the value its   *)
(* own text or term would have.                                            *)
(***************************************************************************)
EXTENDS Integers, Sequences, FiniteSets, Bitwise, TLC

CONSTANTS MaxWidth,  \* widest bit-vector built
          Depth      \* operators stacked on the first operand

ASSUME ExprOpsAssumption == MaxWidth \in Nat \ {0} /\ Depth \in Nat

-----------------------------------------------------------------------------
(* Bit-vector arithmetic.                                                   *)

Mod(n, w) == n % 2^w
Signed(a, w) == IF a >= 2^(w-1) THEN a - 2^w ELSE a
Abs(n) == IF n < 0 THEN -n ELSE n
Sgn(n) == IF n < 0 THEN -1 ELSE 1
B01(p) == IF p THEN 1 ELSE 0
NonNeg(a, w) == a < 2^(w-1)
Vals(w) == 0 .. 2^w - 1

\* The operators of SMT-LIB's theories Core and FixedSizeBitVectors, on
\* operands a, b of width w (wb for the low part of a concatenation) and the
\* parameters p of an indexed operator.
SmtSem(sym, a, b, w, wb, p) ==
  LET sa == Signed(a, w)  sb == Signed(b, w)
      q  == IF b = 0 THEN (IF sa < 0 THEN 1 ELSE -1)
            ELSE Sgn(sa) * Sgn(sb) * (Abs(sa) \div Abs(sb))
      r  == IF b = 0 THEN sa ELSE Sgn(sa) * (Abs(sa) % Abs(sb))
  IN CASE sym = "bvneg"  -> Mod(-a, w)
       [] sym = "not"    -> 1 - a
       [] sym = "bvnot"  -> 2^w - 1 - a
       [] sym \in {"and", "bvand"} -> a & b
       [] sym \in {"or", "bvor"}   -> a | b
       [] sym \in {"xor", "bvxor"} -> a ^^ b
       [] sym = "bvshl"  -> IF b >= w THEN 0 ELSE Mod(a * 2^b, w)
       [] sym = "bvlshr" -> IF b >= w THEN 0 ELSE a \div 2^b
       [] sym = "bvashr" -> Mod(IF b >= w THEN (IF sa < 0 THEN -1 ELSE 0)
                                ELSE sa \div 2^b, w)
       [] sym = "bvadd"  -> Mod(a + b, w)
       [] sym = "bvsub"  -> Mod(a - b, w)
       [] sym = "bvmul"  -> Mod(a * b, w)
       [] sym = "bvsdiv" -> Mod(q, w)
       [] sym = "bvsrem" -> Mod(r, w)
       [] sym = "bvurem" -> IF b = 0 THEN a ELSE a % b
       [] sym = "bvsmod" -> Mod(IF b # 0 /\ r # 0 /\ Sgn(r) # Sgn(sb)
                                THEN r + sb ELSE r, w)
       [] sym = "="      -> B01(a = b)
       [] sym = "bvslt"  -> B01(sa < sb)
       [] sym = "bvsgt"  -> B01(sa > sb)
       [] sym = "bvult"  -> B01(a < b)
       [] sym = "bvugt"  -> B01(a > b)
       [] sym = "concat" -> a * 2^wb + b
       [] sym = "extract" -> (a \div 2^p[2]) % 2^(p[1] - p[2] + 1)
       [] sym = "zero_extend" -> a
       [] sym = "sign_extend" -> Mod(sa, w + p[1])
       [] sym = "rotate_left"  -> LET k == p[1] % w
                                  IN Mod(a * 2^k, w) + a \div 2^(w - k)
       [] sym = "rotate_right" -> LET k == p[1] % w
                                  IN a \div 2^k + Mod(a * 2^(w - k), w)
       [] sym = "=>"     -> B01(a <= b)
       [] sym = "ite"    -> IF p[1] = 1 THEN a ELSE b

-----------------------------------------------------------------------------
(* The operators, by the shape of their operands.  Mem operators and APP    *)
(* are not scalar operators: see HdlGen, ScGen and SmtGen.                  *)

UnaryBv   == {"NEGATE", "COMPLEMENT"}
LogicOps  == {"AND", "OR", "XOR"}
ArithOps  == {"SHL", "ASHR", "LSHR", "ADD", "SUB", "MUL", "DIV", "SREM",
              "UREM", "SMOD"}
CompareOps == {"EQ", "LT", "GT", "ULT", "UGT"}
WidthOps  == {"CONCAT", "EXTRACT", "ZERO_EXTEND", "SIGN_EXTEND"}
RotateOps == {"LEFT_ROTATE", "RIGHT_ROTATE"}
kOpName == UnaryBv \cup {"NOT", "IMPLY", "ITE"} \cup LogicOps \cup ArithOps
             \cup CompareOps \cup WidthOps \cup RotateOps

\* z3: GetZ3Expr of each operator class.  The C++ operators of z3++.h on
\* bit-vectors are the signed ones.
Z3Unary == [NEGATE |-> "bvneg", NOT |-> "not", COMPLEMENT |-> "bvnot"]
Z3Logic == [AND |-> "bvand", OR |-> "bvor", XOR |-> "bvxor"]
Z3Shift == [SHL |-> "bvshl", ASHR |-> "bvashr", LSHR |-> "bvlshr"]
Z3Arith == [ADD |-> "bvadd", SUB |-> "bvsub", DIV |-> "bvsdiv",
            SREM |-> "bvsrem", UREM |-> "bvurem", SMOD |-> "bvsmod",
            MUL |-> "bvmul"]
Z3Compare == [EQ |-> "=", LT |-> "bvslt", GT |-> "bvsgt", ULT |-> "bvult",
              UGT |-> "bvugt"]
Z3Width == [CONCAT |-> "concat", EXTRACT |-> "extract",
            ZERO_EXTEND |-> "zero_extend", SIGN_EXTEND |-> "sign_extend"]
Z3Rotate == [LEFT_ROTATE |-> "rotate_left", RIGHT_ROTATE |-> "rotate_right"]
Z3Bool == [IMPLY |-> "=>", ITE |-> "ite"]
Z3Op == Z3Unary @@ Z3Logic @@ Z3Shift @@ Z3Arith @@ Z3Compare @@ Z3Width
          @@ Z3Rotate @@ Z3Bool

\* An ILA extension is built with the width of its result; z3 and smt-switch
\* take the number of new bits.
NewBits(op, p, w) ==
  IF op \in {"ZERO_EXTEND", "SIGN_EXTEND"} THEN <<p[1] - w>> ELSE p

\* smt-switch: the switch of SmtSwitchItf::ExprOp2Term.
ExprOp2Term(isBool) ==
  [NEGATE |-> "bvneg", NOT |-> "not", COMPLEMENT |-> "bvnot",
   AND |-> IF isBool THEN "and" ELSE "bvand",
   OR  |-> IF isBool THEN "or" ELSE "bvor",
   XOR |-> IF isBool THEN "xor" ELSE "bvxor",
   SHL |-> "bvshl", ASHR |-> "bvashr", LSHR |-> "bvlshr", ADD |-> "bvadd",
   SUB |-> "bvsub", DIV |-> "bvsdiv", SREM |-> "bvsrem", UREM |-> "bvurem",
   SMOD |-> "bvsmod", MUL |-> "bvmul", EQ |-> "=", LT |-> "bvslt",
   GT |-> "bvsgt", ULT |-> "bvult", UGT |-> "bvugt", CONCAT |-> "concat",
   EXTRACT |-> "extract", ZERO_EXTEND |-> "zero_extend",
   SIGN_EXTEND |-> "sign_extend", LEFT_ROTATE |-> "rotate_left",
   RIGHT_ROTATE |-> "rotate_right", IMPLY |-> "=>", ITE |-> "ite"]

-----------------------------------------------------------------------------
(* Verilog.  VlgSem is the meaning of the emitted expressions on unsigned   *)
(* nets: a division by zero and a part select out of range yield x, that is *)
(* any value, so a meaning is the set of values the net can have.           *)

\* Mutant: $signed is forgotten.
VlgBoolUnsigned == [NOT |-> "~a", AND |-> "a&b", OR |-> "a|b", XOR |-> "a^b",
                    EQ |-> "a==b", IMPLY |-> "~a|b", ITE |-> "c?a:b",
                    LT |-> "a<b", GT |-> "a>b", ULT |-> "a<b", UGT |-> "a>b"]

VlgBool == [NOT |-> "~a", AND |-> "a&b", OR |-> "a|b", XOR |-> "a^b",
            EQ |-> "a==b", IMPLY |-> "~a|b", ITE |-> "c?a:b",
            LT |-> "$signed(a)<$signed(b)", GT |-> "$signed(a)>$signed(b)",
            ULT |-> "a<b", UGT |-> "a>b"]
VlgBv == [NEGATE |-> "~a+1", COMPLEMENT |-> "~a", EXTRACT |-> "a[h:l]",
          ZERO_EXTEND |-> "{0,a}", SIGN_EXTEND |-> "{n{a[w-1]},a}",
          RIGHT_ROTATE |-> "{a[r-1:0],a[w-1:r]}",
          LEFT_ROTATE |-> "{a[w-1-r:0],a[w-1:w-r]}",
          AND |-> "a&b", OR |-> "a|b", XOR |-> "a^b", SHL |-> "a<<b",
          ASHR |-> "$signed(a)>>>b", LSHR |-> "a>>b", ADD |-> "a+b",
          SUB |-> "a-b", MUL |-> "a*b", DIV |-> "a/b", UREM |-> "a%b",
          CONCAT |-> "{a,b}", ITE |-> "c?a:b"]
VlgOp(isBool) == IF isBool THEN VlgBool ELSE VlgBv

VlgSem(sym, a, b, w, wb, p) ==
  CASE sym = "~a" -> {2^w - 1 - a}      [] sym = "~a+1" -> {Mod(-a, w)}
    [] sym = "a&b" -> {a & b}           [] sym = "a|b" -> {a | b}
    [] sym = "a^b" -> {a ^^ b}          [] sym = "a==b" -> {B01(a = b)}
    [] sym = "~a|b" -> {(1 - a) | b}
    [] sym = "c?a:b" -> {IF p[1] = 1 THEN a ELSE b}
    [] sym = "$signed(a)<$signed(b)" -> {B01(Signed(a, w) < Signed(b, w))}
    [] sym = "$signed(a)>$signed(b)" -> {B01(Signed(a, w) > Signed(b, w))}
    [] sym = "a<b" -> {B01(a < b)}      [] sym = "a>b" -> {B01(a > b)}
    [] sym = "a[h:l]" -> {(a \div 2^p[2]) % 2^(p[1] - p[2] + 1)}
    [] sym = "{0,a}" -> {a}
    [] sym = "{n{a[w-1]},a}" -> {Mod(Signed(a, w), p[1])}
    [] sym = "{a[r-1:0],a[w-1:r]}" ->
         IF p[1] \in 1 .. w - 1
         THEN {(a % 2^p[1]) * 2^(w - p[1]) + a \div 2^p[1]} ELSE Vals(w)
    [] sym = "{a[w-1-r:0],a[w-1:w-r]}" ->
         IF p[1] \in 1 .. w - 1
         THEN {(a % 2^(w - p[1])) * 2^p[1] + a \div 2^(w - p[1])} ELSE Vals(w)
    [] sym = "a<<b" -> {IF b >= w THEN 0 ELSE Mod(a * 2^b, w)}
    [] sym = "a>>b" -> {IF b >= w THEN 0 ELSE a \div 2^b}
    [] sym = "$signed(a)>>>b" ->
         {Mod(Signed(a, w) \div 2^(IF b > w THEN w ELSE b), w)}
    [] sym = "a+b" -> {Mod(a + b, w)}   [] sym = "a-b" -> {Mod(a - b, w)}
    [] sym = "a*b" -> {Mod(a * b, w)}
    [] sym = "a/b" -> IF b = 0 THEN Vals(w) ELSE {a \div b}
    [] sym = "a%b" -> IF b = 0 THEN Vals(w) ELSE {a % b}
    [] sym = "{a,b}" -> {a * 2^wb + b}

-----------------------------------------------------------------------------
(* SystemC.  Both simulators hold bit-vectors in sc_biguint, on which every *)
(* C++ operator is unsigned.  A division by zero stops the simulation       *)
(* (no value).  Ilator declares the result of an extension auto, so whether *)
(* the second complement of its template reaches the new bits is left open. *)

kOpSymbols == [NEGATE |-> "-a", NOT |-> "!a", COMPLEMENT |-> "~a",
               EQ |-> "a==b", LT |-> "a<b", GT |-> "a>b", ULT |-> "a<b",
               UGT |-> "a>b", AND |-> "a&b", OR |-> "a|b", XOR |-> "a^b",
               SHL |-> "a<<b", LSHR |-> "a>>b", ASHR |-> "a>>b",
               ADD |-> "a+b", SUB |-> "a-b", MUL |-> "a*b", DIV |-> "a/b",
               UREM |-> "a%b"]
DfsOpSpecial == [CONCAT |-> "(a,b)", EXTRACT |-> "a.range(h,l)",
                 ZERO_EXTEND |-> "auto", SIGN_EXTEND |-> "auto",
                 IMPLY |-> "(!a)&b", ITE |-> "c?a:b"]
IlatorOp == kOpSymbols @@ DfsOpSpecial

dfs_unary_op == [NEGATE |-> "-a", NOT |-> "!a", COMPLEMENT |-> "~a"]
dfs_binary_op_bool_out == [EQ |-> "a==b", LT |-> "a<b", GT |-> "a>b",
                           ULT |-> "a<b", UGT |-> "a>b", IMPLY |-> "(!a)&b"]
dfs_binary_op_non_mem ==
  [AND |-> "a&b", OR |-> "a|b", XOR |-> "a^b", SHL |-> "a<<b",
   LSHR |-> "a>>b", ASHR |-> "a>>b", ADD |-> "a+b", SUB |-> "a-b",
   MUL |-> "a*b", DIV |-> "a/b", CONCAT |-> "(a,b)", UREM |-> "a%b"]
dfs_extract_op == [EXTRACT |-> "a.range(h,l)"]
dfs_ext_op == [ZERO_EXTEND |-> "c=a", SIGN_EXTEND |-> "c=~a;c=~c"]
dfs_ite_op == [ITE |-> "c?a:b"]
dfs_kernel == dfs_unary_op @@ dfs_binary_op_bool_out @@ dfs_binary_op_non_mem
                @@ dfs_extract_op @@ dfs_ext_op @@ dfs_ite_op

CxxSem(sym, a, b, w, wb, p) ==
  CASE sym = "-a" -> {Mod(-a, w)}       [] sym = "!a" -> {B01(a = 0)}
    [] sym = "~a" -> {2^w - 1 - a}      [] sym = "a==b" -> {B01(a = b)}
    [] sym = "a<b" -> {B01(a < b)}      [] sym = "a>b" -> {B01(a > b)}
    [] sym = "a&b" -> {a & b}           [] sym = "a|b" -> {a | b}
    [] sym = "a^b" -> {a ^^ b}
    [] sym = "a<<b" -> {IF b >= w THEN 0 ELSE Mod(a * 2^b, w)}
    [] sym = "a>>b" -> {IF b >= w THEN 0 ELSE a \div 2^b}
    [] sym = "a+b" -> {Mod(a + b, w)}   [] sym = "a-b" -> {Mod(a - b, w)}
    [] sym = "a*b" -> {Mod(a * b, w)}
    [] sym = "a/b" -> IF b = 0 THEN {} ELSE {a \div b}
    [] sym = "a%b" -> IF b = 0 THEN {} ELSE {a % b}
    [] sym = "(a,b)" -> {a * 2^wb + b}
    [] sym = "a.range(h,l)" -> {(a \div 2^p[2]) % 2^(p[1] - p[2] + 1)}
    [] sym = "(!a)&b" -> {(1 - a) & b}
    [] sym = "c?a:b" -> {IF p[1] = 1 THEN a ELSE b}
    [] sym = "c=a" -> {a}
    [] sym = "c=~a;c=~c" -> {Mod(Signed(a, w), p[1])}
    [] sym = "auto" -> {a, Mod(Signed(a, w), p[1])}

-----------------------------------------------------------------------------
(* One operator through one back end.  Operand values are sets, so that an  *)
(* x or a missing result spreads through the operators above it.  SMT has   *)
(* no Boolean negation of a bit-vector: z3 throws on it.                    *)

Backends == {"z3", "switch", "verilog", "ilator", "ilasim"}

Sem(be, op, isBool, a, b, w, wb, p) ==
  CASE be \in {"z3", "switch"} /\ op = "NOT" /\ ~isBool -> {}
    [] be = "z3" -> {SmtSem(Z3Op[op], a, b, w, wb, NewBits(op, p, w))}
    [] be = "switch" ->
         {SmtSem(ExprOp2Term(isBool)[op], a, b, w, wb, NewBits(op, p, w))}
    [] be = "verilog" -> IF op \in DOMAIN VlgOp(isBool)
                         THEN VlgSem(VlgOp(isBool)[op], a, b, w, wb, p) ELSE {}
    [] be = "ilator" -> IF op \in DOMAIN IlatorOp
                        THEN CxxSem(IlatorOp[op], a, b, w, wb, p) ELSE {}
    [] be = "ilasim" -> IF op \in DOMAIN dfs_kernel
                        THEN CxxSem(dfs_kernel[op], a, b, w, wb, p) ELSE {}

Ap(be, op, isBool, A, B, w, wb, p) ==
  UNION {Sem(be, op, isBool, a, b, w, wb, p) : a \in A, b \in B}

\* Mutant: Ge is built from the unsigned comparison.
HubMixed(be, h, A, B, w) ==
  LET EqOr(op) == UNION {Ap(be, "OR", TRUE,
                            Ap(be, "EQ", TRUE, {a}, {b}, w, w, <<>>),
                            Ap(be, op, TRUE, {a}, {b}, w, w, <<>>), 1, 1, <<>>) :
                         a \in A, b \in B}
  IN CASE h \in CompareOps -> Ap(be, h, TRUE, A, B, w, w, <<>>)
       [] h = "NE" -> Ap(be, "NOT", TRUE, Ap(be, "EQ", TRUE, A, B, w, w, <<>>),
                         {0}, 1, 1, <<>>)
       [] h \in {"LE", "ULE"} -> EqOr("ULT")
       [] h \in {"GE", "UGE"} -> EqOr("UGT")

\* asthub's comparisons that are no operator of their own.
Hub(be, h, A, B, w) ==
  LET O(op) == Ap(be, op, TRUE, A, B, w, w, <<>>)
      EqOr(op) == UNION {Ap(be, "OR", TRUE, Ap(be, "EQ", TRUE, {a}, {b}, w, w, <<>>),
                          Ap(be, op, TRUE, {a}, {b}, w, w, <<>>), 1, 1, <<>>) :
                       a \in A, b \in B}
  IN CASE h \in CompareOps -> O(h)
       [] h = "NE" -> Ap(be, "NOT", TRUE, O("EQ"), {0}, 1, 1, <<>>)
       [] h = "LE" -> EqOr("LT")  [] h = "GE" -> EqOr("GT")
       [] h = "ULE" -> EqOr("ULT") [] h = "UGE" -> EqOr("UGT")

\* The host interface: the asthub call behind each operator of ExprRef.  The
\* comparison operators are signed or not by a global switch.
HostUnary == ("-" :> "NEGATE") @@ ("!" :> "NOT") @@ ("~" :> "COMPLEMENT")
HostLogic == ("&" :> "AND") @@ ("|" :> "OR") @@ ("^" :> "XOR")
HostArith == ("<<" :> "SHL") @@ (">>" :> "ASHR") @@ ("+" :> "ADD") @@ ("-" :> "SUB")
               @@ ("/" :> "DIV") @@ ("*" :> "MUL") @@
             [Lshr |-> "LSHR", SRem |-> "SREM", URem |-> "UREM", SMod |-> "SMOD"]
HostSwitched(unsigned) ==
  IF unsigned
  THEN ("<" :> "ULT") @@ (">" :> "UGT") @@ ("<=" :> "ULE") @@ (">=" :> "UGE")
  ELSE ("<" :> "LT") @@ (">" :> "GT") @@ ("<=" :> "LE") @@ (">=" :> "GE")
HostCompare ==
  ("==" :> "EQ") @@ ("!=" :> "NE") @@
  [Ult |-> "ULT", Ugt |-> "UGT", Ule |-> "ULE", Uge |-> "UGE",
   Slt |-> "LT", Sgt |-> "GT", Sle |-> "LE", Sge |-> "GE"]
HostExtend == [ZExt |-> "ZERO_EXTEND", SExt |-> "SIGN_EXTEND"]
HostRotate == [LRotate |-> "LEFT_ROTATE", RRotate |-> "RIGHT_ROTATE"]

\* Mutant: the non-strict comparison loses its equality.
CnvtStrict ==
  [I_SLT |-> "LT", I_SGT |-> "GT", I_SLE |-> "LT", I_SGE |-> "GE",
   I_ULT |-> "ULT", I_UGT |-> "UGT", I_ULE |-> "ULE", I_UGE |-> "UGE",
   I_EQUAL |-> "EQ", I_DISTINCT |-> "NE"]

\* The import of synthesised abstractions: the asthub call each node of
\* ilasynth becomes, and what the node means there.  NAND, NOR and XNOR are Not
\* of the operator named here, of Booleans and of bit-vectors alike.
CnvtNodeToExprBoolOp ==
  [I_SLT |-> "LT", I_SGT |-> "GT", I_SLE |-> "LE", I_SGE |-> "GE",
   I_ULT |-> "ULT", I_UGT |-> "UGT", I_ULE |-> "ULE", I_UGE |-> "UGE",
   I_EQUAL |-> "EQ", I_DISTINCT |-> "NE"]
CnvtNegatedOp == [I_XNOR |-> "XOR", I_NAND |-> "AND", I_NOR |-> "OR"]
CnvtNodeToExprBvOp ==
  [I_ADD |-> "ADD", I_SUB |-> "SUB", I_UDIV |-> "DIV", I_SREM |-> "SREM",
   I_UREM |-> "UREM", I_SMOD |-> "SMOD", I_SHL |-> "SHL", I_LSHR |-> "LSHR",
   I_ASHR |-> "ASHR", I_MUL |-> "MUL"]
ItsySem(n, a, b, w) ==
  LET S(sym) == SmtSem(sym, a, b, w, w, <<>>)
  IN CASE n = "I_UDIV" -> IF b = 0 THEN 2^w - 1 ELSE a \div b
       [] n = "I_SLE" -> 1 - S("bvsgt")  [] n = "I_SGE" -> 1 - S("bvslt")
       [] n = "I_ULE" -> 1 - S("bvugt")  [] n = "I_UGE" -> 1 - S("bvult")
       [] n = "I_SLT" -> S("bvslt")      [] n = "I_SGT" -> S("bvsgt")
       [] n = "I_ULT" -> S("bvult")      [] n = "I_UGT" -> S("bvugt")
       [] n = "I_EQUAL" -> S("=")        [] n = "I_DISTINCT" -> 1 - S("=")
       [] n = "I_XNOR" -> 2^w - 1 - S("bvxor")
       [] n = "I_NAND" -> 2^w - 1 - S("bvand")
       [] n = "I_NOR" -> 2^w - 1 - S("bvor") [] n = "I_ADD" -> S("bvadd")
       [] n = "I_SUB" -> S("bvsub")      [] n = "I_SREM" -> S("bvsrem")
       [] n = "I_UREM" -> S("bvurem")    [] n = "I_SMOD" -> S("bvsmod")
       [] n = "I_SHL" -> S("bvshl")      [] n = "I_LSHR" -> S("bvlshr")
       [] n = "I_ASHR" -> S("bvashr")    [] n = "I_MUL" -> S("bvmul")

\* And, Or and Xor of a Boolean and a one-bit vector compare the vector with 1
\* first; Concat of a Boolean goes through Ite(hi, 1, 0).
ToBool(be, A, sort) ==
  IF sort = 0 THEN A ELSE Ap(be, "EQ", TRUE, A, {1}, sort, sort, <<>>)
ToBv(be, A, sort) ==
  IF sort # 0 THEN A
  ELSE UNION {Ap(be, "ITE", FALSE, {1}, {0}, 1, 1, <<c>>) : c \in A}

-----------------------------------------------------------------------------
VARIABLES sort,   \* 0 for a Boolean, otherwise the width of the expression
          val,    \* back end -> the values its translation can have
          exact,  \* back end -> TRUE until an operator it renders differently
          last,   \* the last operation and its operands, in the reference
          depth,  \* operators stacked so far
          UnsignedComparison  \* the switch of the comparison operators

vars == <<sort, val, exact, last, depth, UnsignedComparison>>

None == [h |-> "none", a |-> 0, b |-> 0, w |-> 1]

Init == /\ sort \in 0 .. MaxWidth
        /\ \E v \in Vals(IF sort = 0 THEN 1 ELSE sort) :
             val = [be \in Backends |-> {v}]
        /\ exact = [be \in Backends |-> TRUE]
        /\ last = None
        /\ depth = 0
        /\ UnsignedComparison = FALSE

SetUnsignedComparison(sign) ==
  /\ sign # UnsignedComparison
  /\ UnsignedComparison' = sign
  /\ last' = None
  /\ UNCHANGED <<sort, val, exact, depth>>

\* The applications a back end renders with the reference meaning.  The
\* exclusions are what the text really lacks: Verilog has no SREM and SMOD,
\* divides unsigned and cannot rotate by zero or by more than the width;
\* SystemC compares, shifts and divides unsigned, has no signed remainder and
\* no rotation, and renders an implication as a conjunction.  Not of a
\* bit-vector (NOT_BV) is nothing in Verilog, and a test for zero in SystemC.
Exact(be, op, a, b, w, p) ==
  CASE be \in {"z3", "switch"} -> TRUE
    [] be = "verilog" ->
         /\ op \notin {"SREM", "SMOD", "NOT_BV"}
         /\ op \in {"DIV", "UREM"} => b # 0
         /\ op = "DIV" => NonNeg(a, w) /\ NonNeg(b, w)
         /\ op \in RotateOps => p[1] \in 1 .. w - 1
    [] OTHER ->
         /\ op \notin {"SREM", "SMOD", "NOT_BV"} \cup RotateOps
         /\ op \in {"DIV", "UREM"} => b # 0
         /\ op \in {"LT", "GT", "DIV"} => NonNeg(a, w) /\ NonNeg(b, w)
         /\ op = "ASHR" => NonNeg(a, w)
         /\ op = "IMPLY" => a # b
         /\ op \in {"ZERO_EXTEND", "SIGN_EXTEND"} =>
              be = "ilasim" \/ NonNeg(a, w)

\* The one reference operand of a back end's value.
Ref == CHOOSE v \in val["z3"] : TRUE

\* Every step stacks one operator: newVal(be) is the value the back end gives
\* the new root, ops the ILA operators the root is made of.  Nothing is
\* stacked on a term that z3 refused.
Grow(newSort, newVal, ops, h, a, b, w, p) ==
  /\ depth < Depth /\ newSort \in 0 .. MaxWidth /\ val["z3"] # {}
  /\ sort' = newSort
  /\ val' = newVal
  /\ exact' = [be \in Backends |->
                 exact[be] /\ \A op \in ops : Exact(be, op, a, b, w, p)]
  /\ last' = [h |-> h, a |-> a, b |-> b, w |-> w]
  /\ depth' = depth + 1
  /\ UNCHANGED UnsignedComparison

Unary(op, tag) ==
  /\ IF op = "NOT" THEN sort = 0 ELSE sort > 0
  /\ LET w == IF sort = 0 THEN 1 ELSE sort
     IN Grow(sort, [be \in Backends |->
               Ap(be, op, sort = 0, val[be], {0}, w, w, <<>>)],
             {op}, tag, Ref, 0, w, <<>>)

\* The second operand y is a constant of sort s, on either side.
Logic(op, tag, s, y) ==
  /\ s = sort \/ {s, sort} = {0, 1}
  /\ LET bool == s = 0 \/ sort = 0
         w == IF bool THEN 1 ELSE sort
         A(be) == IF bool THEN ToBool(be, val[be], sort) ELSE val[be]
         B(be) == IF bool THEN ToBool(be, {y}, s) ELSE {y}
     IN Grow(IF bool THEN 0 ELSE sort, [be \in Backends |->
               Ap(be, op, bool, A(be), B(be), w, w, <<>>)],
             {op}, tag, Ref, y, w, <<>>)

\* tag names the call the user made: of the host interface, or the imported
\* node.
Arith(op, tag, y, left) ==
  /\ sort > 0
  /\ Grow(sort, [be \in Backends |->
            IF left THEN Ap(be, op, FALSE, val[be], {y}, sort, sort, <<>>)
            ELSE Ap(be, op, FALSE, {y}, val[be], sort, sort, <<>>)],
          {op}, tag, IF left THEN Ref ELSE y, IF left THEN y ELSE Ref, sort, <<>>)

Compare(h, tag, y, left) ==
  /\ sort > 0 \/ h \in {"EQ", "NE"}
  /\ LET w == IF sort = 0 THEN 1 ELSE sort
     IN Grow(0, [be \in Backends |->
               IF left THEN Hub(be, h, val[be], {y}, w)
               ELSE Hub(be, h, {y}, val[be], w)],
             (IF h \in {"LE", "LT"} THEN {"LT"} ELSE {}) \cup
             (IF h \in {"GE", "GT"} THEN {"GT"} ELSE {}),
             tag, IF left THEN Ref ELSE y, IF left THEN y ELSE Ref, w, <<>>)

ImportNegated(n, y) ==
  LET bool == sort = 0
      w == IF bool THEN 1 ELSE sort
      inner(be) == Ap(be, CnvtNegatedOp[n], bool, val[be], {y}, w, w, <<>>)
  IN  Grow(sort, [be \in Backends |-> Ap(be, "NOT", bool, inner(be), {0}, w, w, <<>>)],
           IF bool THEN {} ELSE {"NOT_BV"}, n, Ref, y, w, <<>>)

Concat(s, y, left) ==
  LET w == IF sort = 0 THEN 1 ELSE sort
      ws == IF s = 0 THEN 1 ELSE s
  IN /\ w + ws <= MaxWidth
     /\ Grow(w + ws, [be \in Backends |->
               IF left THEN Ap(be, "CONCAT", FALSE, ToBv(be, val[be], sort),
                               ToBv(be, {y}, s), w, ws, <<>>)
               ELSE Ap(be, "CONCAT", FALSE, ToBv(be, {y}, s),
                       ToBv(be, val[be], sort), ws, w, <<>>)],
             {"CONCAT"}, "CONCAT", Ref, y, w, <<>>)

Extract(hi, lo) ==
  /\ sort > hi /\ hi >= lo
  /\ Grow(hi - lo + 1, [be \in Backends |->
            Ap(be, "EXTRACT", FALSE, val[be], {0}, sort, sort, <<hi, lo>>)],
          {"EXTRACT"}, "EXTRACT", Ref, 0, sort, <<hi, lo>>)

Extend(op, w) ==
  /\ sort > 0 /\ w >= sort
  /\ Grow(w, [be \in Backends |->
            Ap(be, op, FALSE, val[be], {0}, sort, sort, <<w>>)],
          {op}, op, Ref, 0, sort, <<w>>)

Rotate(op, r) ==
  /\ sort > 0
  /\ Grow(sort, [be \in Backends |->
            Ap(be, op, FALSE, val[be], {0}, sort, sort, <<r>>)],
          {op}, op, Ref, 0, sort, <<r>>)

Imply(y, left) ==
  /\ sort = 0
  /\ Grow(0, [be \in Backends |->
            IF left THEN Ap(be, "IMPLY", TRUE, val[be], {y}, 1, 1, <<>>)
            ELSE Ap(be, "IMPLY", TRUE, {y}, val[be], 1, 1, <<>>)],
          {"IMPLY"}, "IMPLY", IF left THEN Ref ELSE y,
          IF left THEN y ELSE Ref, 1, <<>>)

\* The expression as the condition of an if-then-else of two constants.
Ite(s, y, z) ==
  /\ sort = 0
  /\ LET w == IF s = 0 THEN 1 ELSE s
     IN Grow(s, [be \in Backends |->
               UNION {Ap(be, "ITE", s = 0, {y}, {z}, w, w, <<c>>) :
                      c \in val[be]}],
             {"ITE"}, "ITE", y, z, w, <<>>)

Consts(s) == Vals(IF s = 0 THEN 1 ELSE s)

Next ==
  \/ \E sign \in BOOLEAN : SetUnsignedComparison(sign)
  \/ \E h \in DOMAIN HostUnary : Unary(HostUnary[h], h)
  \/ \E h \in DOMAIN HostLogic, s \in 0 .. MaxWidth : \E y \in Consts(s) :
       Logic(HostLogic[h], h, s, y)
  \/ \E h \in DOMAIN HostArith, y \in Consts(sort), l \in BOOLEAN :
       Arith(HostArith[h], h, y, l)
  \/ \E h \in DOMAIN HostCompare, y \in Consts(sort), l \in BOOLEAN :
       Compare(HostCompare[h], h, y, l)
  \/ LET table == HostSwitched(UnsignedComparison)
     IN  \E h \in DOMAIN table, y \in Consts(sort), l \in BOOLEAN :
           Compare(table[h], h, y, l)
  \/ \E n \in DOMAIN CnvtNodeToExprBvOp, y \in Consts(sort), l \in BOOLEAN :
       Arith(CnvtNodeToExprBvOp[n], n, y, l)
  \/ \E n \in DOMAIN CnvtNodeToExprBoolOp, y \in Consts(sort), l \in BOOLEAN :
       Compare(CnvtNodeToExprBoolOp[n], n, y, l)
  \/ \E n \in DOMAIN CnvtNegatedOp, y \in Consts(sort) : ImportNegated(n, y)
  \/ \E s \in 0 .. MaxWidth, l \in BOOLEAN : \E y \in Consts(s) : Concat(s, y, l)
  \/ \E hi, lo \in 0 .. MaxWidth - 1 : Extract(hi, lo)
  \/ \E h \in DOMAIN HostExtend, w \in 1 .. MaxWidth : Extend(HostExtend[h], w)
  \/ \E h \in DOMAIN HostRotate, r \in 0 .. MaxWidth + 1 : Rotate(HostRotate[h], r)
  \/ \E y \in {0, 1}, l \in BOOLEAN : Imply(y, l)
  \/ \E s \in 0 .. MaxWidth : \E y, z \in Consts(s) : Ite(s, y, z)

Spec == Init /\ [][Next]_vars

-----------------------------------------------------------------------------
(* Properties.                                                              *)

\* As long as only operators a back end renders faithfully are stacked, its
\* text evaluates to the one value the z3 term has (GetZ3Expr): the Verilog
\* model, the two simulators and the smt-switch formulas describe the ILA the
\* z3-based checks verify.
BackendsAgree == \A be \in Backends : exact[be] => val[be] = val["z3"]

\* An operator of the host interface means what ilang++.h says, at every width
\* and sign, whichever way the switch of the comparisons was when it was
\* called: asthub composes half of them from two operators of the AST.  (The
\* header calls operator/ the unsigned division and it is built as the signed
\* one: see ImportKeepsMeaning for where the two agree.)
DerivedMeaning ==
  LET a == last.a  b == last.b  w == last.w  is(p) == val["z3"] = {B01(p)}
      sa == Signed(a, w)  sb == Signed(b, w)
      less(strict, unsigned) ==
        IF unsigned THEN a < b \/ (~strict /\ a = b)
        ELSE sa < sb \/ (~strict /\ sa = sb)
      more(strict, unsigned) == ~less(~strict, unsigned)
      compared ==
        [h \in {"==", "!=", "<", ">", "<=", ">=", "Ult", "Ugt", "Ule", "Uge",
                "Slt", "Sgt", "Sle", "Sge"} |->
           CASE h = "=="  -> a = b                 [] h = "!="  -> a # b
             [] h = "<"   -> less(TRUE, UnsignedComparison)
             [] h = "<="  -> less(FALSE, UnsignedComparison)
             [] h = ">"   -> more(TRUE, UnsignedComparison)
             [] h = ">="  -> more(FALSE, UnsignedComparison)
             [] h = "Ult" -> less(TRUE, TRUE)      [] h = "Ule" -> less(FALSE, TRUE)
             [] h = "Ugt" -> more(TRUE, TRUE)      [] h = "Uge" -> more(FALSE, TRUE)
             [] h = "Slt" -> less(TRUE, FALSE)     [] h = "Sle" -> less(FALSE, FALSE)
             [] h = "Sgt" -> more(TRUE, FALSE)     [] h = "Sge" -> more(FALSE, FALSE)]
      shifted == [h \in {">>", "Lshr"} |->
                    IF h = ">>" THEN Mod(sa \div 2^b, w) ELSE a \div 2^b]
  IN /\ last.h \in DOMAIN compared => is(compared[last.h])
     /\ last.h \in DOMAIN shifted => val["z3"] = {shifted[last.h]}

\* An imported node has the meaning it has in ilasynth or none: an abstraction
\* that the z3-based checks accept is the one that was synthesised.  NAND, NOR
\* and XNOR of bit-vectors have none, and UDIV becomes Div, the signed division,
\* which agrees with it only on operands whose sign bit is clear and a divisor
\* that is not zero.
ImportKeepsMeaning ==
  LET imported == DOMAIN CnvtNodeToExprBoolOp \cup DOMAIN CnvtNodeToExprBvOp
                    \cup DOMAIN CnvtNegatedOp
      a == last.a  b == last.b  w == last.w
  IN last.h \in imported /\ (last.h = "I_UDIV" =>
                               b # 0 /\ NonNeg(a, w) /\ NonNeg(b, w))
       => val["z3"] = IF last.h \in DOMAIN CnvtNegatedOp /\ sort # 0 THEN {}
                      ELSE {ItsySem(last.h, a, b, w)}

\* expr_op.h calls ExprOpImply "logical imply": an implication whose
\* antecedent is false holds in every back end.
ImplyHolds ==
  last.h = "IMPLY" /\ last.a = 0 /\ depth = 1 =>
    \A be \in Backends : val[be] = {1}
=============================================================================
