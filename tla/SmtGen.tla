------------------------------- MODULE SmtGen -------------------------------
(***************************************************************************)
(* Expression nodes, their sharing, and the two generators of SMT terms.   *)
(*                                                                         *)
(* asthub allocates a fresh node on every call; ExprMngr (hash_ast.cc)     *)
(* merges nodes with equal hashes and rewrites the arguments of the nodes  *)
(* it visits in place; Z3ExprAdapter and SmtSwitchItf turn a node into a   *)
(* term whose variables carry the suffix of the request (the time step of  *)
(* an unroller).  Z3ExprAdapter forgets its node-to-term map at every      *)
(* request, SmtSwitchItf keeps it until Reset.                             *)
(***************************************************************************)
EXTENDS Integers, Sequences, FiniteSets, SequencesExt

CONSTANTS Vars,      \* names of the variables
          Steps,     \* suffixes a caller uses: its time steps
          MaxNodes,  \* nodes allocated
          MaxReqs    \* calls of the generators and of the manager

VARIABLES nodes,     \* the nodes, by id; arguments as they are now
          orig,      \* the nodes as they were allocated (history)
          map,       \* ExprMngr::map_ : hash -> representative
          z3Map,     \* Z3ExprAdapter::expr_map_ : node -> term
          exprMap,   \* SmtSwitchItf::expr_map_ : node -> term
          funcMap,   \* SmtSwitchItf::func_map_ : function -> its symbol
          asked,     \* suffixes asked of SmtSwitchItf since Reset (history)
          out,       \* the last answer
          reqs       \* calls so far

vars == <<nodes, orig, map, z3Map, exprMap, funcMap, asked, out, reqs>>

Node(k, nm, args) == [k |-> k, nm |-> nm, args |-> args]
Term(op, nm, suf, args) == [op |-> op, nm |-> nm, suf |-> suf, args |-> args]
NoTerm == Term("none", "", "", <<>>)
NoAnswer == [by |-> "none", e |-> 0, f |-> 0, suf |-> "", term |-> NoTerm,
             eq |-> FALSE]
Empty == [x \in {} |-> x]
Put(f, x, y) == [z \in DOMAIN f \cup {x} |-> IF z = x THEN y ELSE f[z]]

-----------------------------------------------------------------------------
(* ExprMngr.                                                                *)

\* Mutant: the hash of an operator forgets the order of its arguments.
HashUnordered(ns, i) ==
  LET n == ns[i]
  IN CASE n.k \in {"var", "mem"} -> <<n.k, "", <<i>>>>
       [] n.k = "const" -> <<"const", n.nm, <<>>>>
       [] OTHER -> <<n.k, n.nm, SetToSeq(Range(n.args))>>

\* Variables and memory constants hash to their own id, Boolean and
\* bit-vector constants to their value, operators to their name, the ids of
\* their arguments and (APP) of their function.
Hash(ns, i) ==
  LET n == ns[i]
  IN CASE n.k \in {"var", "mem"} -> <<n.k, "", <<i>>>>
       [] n.k = "const" -> <<"const", n.nm, <<>>>>
       [] OTHER -> <<n.k, n.nm, n.args>>

\* operator(): every argument is replaced by its representative, then the
\* node is registered unless its hash has one.
VisitNode(s, i) ==
  LET reps == [a \in DOMAIN s.ns[i].args |-> s.map[Hash(s.ns, s.ns[i].args[a])]]
      ns == [s.ns EXCEPT ![i].args = reps]
      h == Hash(ns, i)
  IN [ns |-> ns, map |-> IF h \in DOMAIN s.map THEN s.map ELSE Put(s.map, h, i)]

\* DepthFirstVisit of the manager: the arguments first, in order.
RECURSIVE DepthFirstVisit(_, _)
DepthFirstVisit(s, i) ==
  VisitNode(FoldLeft(DepthFirstVisit, s, s.ns[i].args), i)

GetRep(i) ==
  LET s == DepthFirstVisit([ns |-> nodes, map |-> map], i)
  IN /\ nodes' = s.ns
     /\ map' = s.map
     /\ out' = [NoAnswer EXCEPT !.by = "rep", !.e = i,
                                !.f = s.map[Hash(s.ns, i)]]
     /\ UNCHANGED <<orig, z3Map, exprMap, funcMap, asked>>

\* Mutant: each expression is shared in a manager of its own.
TopEqTwoManagers(i, j) ==
  LET a == DepthFirstVisit([ns |-> nodes, map |-> Empty], i)
      b == DepthFirstVisit([a EXCEPT !.map = Empty], j)
  IN /\ nodes' = b.ns
     /\ out' = [NoAnswer EXCEPT !.by = "topeq", !.e = i, !.f = j,
                  !.eq = a.map[Hash(a.ns, i)] = b.map[Hash(b.ns, j)]]
     /\ UNCHANGED <<orig, map, z3Map, exprMap, funcMap, asked>>

\* asthub::TopEq shares both expressions in a manager of its own.
TopEq(i, j) ==
  LET a == DepthFirstVisit([ns |-> nodes, map |-> Empty], i)
      b == DepthFirstVisit(a, j)
  IN /\ nodes' = b.ns
     /\ out' = [NoAnswer EXCEPT !.by = "topeq", !.e = i, !.f = j,
                  !.eq = a.map[Hash(a.ns, i)] = b.map[Hash(b.ns, j)]]
     /\ UNCHANGED <<orig, map, z3Map, exprMap, funcMap, asked>>

Clear == /\ map # Empty
         /\ map' = Empty
         /\ out' = NoAnswer
         /\ UNCHANGED <<nodes, orig, z3Map, exprMap, funcMap, asked>>

-----------------------------------------------------------------------------
(* The terms.  GetZ3Expr of a node: a variable is named with the suffix, an *)
(* application without arguments is a free variable of that suffix, and an  *)
(* uninterpreted function has one declaration for all suffixes.             *)

GetZ3Expr(n, args, suf) ==
  CASE n.k = "var" -> Term("sym", n.nm, suf, <<>>)
    [] n.k \in {"const", "mem"} -> Term(n.k, n.nm, "", <<>>)
    [] n.k = "app" /\ args = <<>> -> Term("sym", n.nm, suf, <<>>)
    [] n.k = "app" -> Term("apply", n.nm, "", args)
    [] OTHER -> Term(n.k, n.nm, "", args)

\* The term an expression stands for: that of its node as it was allocated,
\* whatever was shared or cached since.
RECURSIVE TermOf(_, _, _)
TermOf(ns, i, suf) ==
  GetZ3Expr(ns[i], [a \in DOMAIN ns[i].args |-> TermOf(ns, ns[i].args[a], suf)],
            suf)
Meaning(i, suf) == TermOf(orig, i, suf)

\* Z3ExprAdapter: nodes already in the map are skipped, and GetExpr clears the
\* map before it visits.
RECURSIVE Z3Visit(_, _, _)
Z3Visit(em, i, suf) ==
  LET m == FoldLeft(LAMBDA r, a : Z3Visit(r, a, suf), em, nodes[i].args)
      args == [a \in DOMAIN nodes[i].args |-> m[nodes[i].args[a]]]
  IN IF i \in DOMAIN m THEN m ELSE Put(m, i, GetZ3Expr(nodes[i], args, suf))

\* Mutant: GetExpr keeps its map.
Z3GetExprCached(i, suf) ==
  /\ z3Map' = Z3Visit(z3Map, i, suf)
  /\ out' = [NoAnswer EXCEPT !.by = "z3", !.e = i, !.suf = suf,
                             !.term = z3Map'[i]]
  /\ UNCHANGED <<nodes, orig, map, exprMap, funcMap, asked>>

Z3GetExpr(i, suf) ==
  /\ z3Map' = Z3Visit(Empty, i, suf)
  /\ out' = [NoAnswer EXCEPT !.by = "z3", !.e = i, !.suf = suf,
                             !.term = z3Map'[i]]
  /\ UNCHANGED <<nodes, orig, map, exprMap, funcMap, asked>>

\* SmtSwitchItf: pre() stops at a node that has a term, post() adds the term
\* of a node whose arguments have theirs.  A function gets its symbol, named
\* with the suffix of the request, the first time it is met.
PopulateExprMap(s, i, suf) ==
  LET n == nodes[i]
      args == [a \in DOMAIN n.args |-> s.em[n.args[a]]]
      fm == IF n.k = "app" /\ n.nm \notin DOMAIN s.fm
            THEN Put(s.fm, n.nm, suf) ELSE s.fm
      t == CASE n.k = "var" -> Term("sym", n.nm, suf, <<>>)
             [] n.k \in {"const", "mem"} -> Term(n.k, n.nm, "", <<>>)
             [] n.k = "app" -> Term("apply", n.nm, fm[n.nm], args)
             [] OTHER -> Term(n.k, n.nm, "", args)
  IN [em |-> Put(s.em, i, t), fm |-> fm]

RECURSIVE DepthFirstVisitPrePost(_, _, _)
DepthFirstVisitPrePost(s, i, suf) ==
  IF i \in DOMAIN s.em THEN s
  ELSE PopulateExprMap(FoldLeft(LAMBDA r, a : DepthFirstVisitPrePost(r, a, suf),
                                s, nodes[i].args), i, suf)

GetSmtTerm(i, suf) ==
  LET s == DepthFirstVisitPrePost([em |-> exprMap, fm |-> funcMap], i, suf)
  IN /\ exprMap' = s.em
     /\ funcMap' = s.fm
     /\ asked' = asked \cup {suf}
     /\ out' = [NoAnswer EXCEPT !.by = "switch", !.e = i, !.suf = suf,
                                !.term = s.em[i]]
     /\ UNCHANGED <<nodes, orig, map, z3Map>>

\* Mutant: Reset keeps the terms.
ResetKeepsTerms == /\ asked # {}
                   /\ funcMap' = Empty
                   /\ asked' = {}
                   /\ out' = NoAnswer
                   /\ UNCHANGED <<nodes, orig, map, z3Map, exprMap>>

Reset == /\ asked # {}
         /\ exprMap' = Empty
         /\ funcMap' = Empty
         /\ asked' = {}
         /\ out' = NoAnswer
         /\ UNCHANGED <<nodes, orig, map, z3Map>>

-----------------------------------------------------------------------------
(* asthub: every call allocates.                                            *)

New(n) == /\ Len(nodes) < MaxNodes
          /\ nodes' = Append(nodes, n)
          /\ orig' = Append(orig, n)
          /\ out' = NoAnswer
          /\ UNCHANGED <<map, z3Map, exprMap, funcMap, asked, reqs>>

BvConst == New(Node("const", "1", <<>>))
MemConst == New(Node("mem", "m", <<>>))
Add(i, j) == New(Node("op", "ADD", <<i, j>>))
\* f has one argument; an application of g, which has none, is a fresh
\* nondeterministic value at every step.
AppFunc(args) == New(Node("app", IF args = <<>> THEN "g" ELSE "f", args))

\* The variables exist before any expression over them.
Init == /\ nodes = SetToSeq({Node("var", v, <<>>) : v \in Vars})
        /\ orig = nodes
        /\ map = Empty /\ z3Map = Empty /\ exprMap = Empty /\ funcMap = Empty
        /\ asked = {} /\ out = NoAnswer /\ reqs = 0

Build == \/ BvConst
         \/ MemConst
         \/ \E i, j \in DOMAIN nodes : Add(i, j)
         \/ \E i \in DOMAIN nodes : AppFunc(<<i>>)
         \/ AppFunc(<<>>)

Request == /\ reqs < MaxReqs
           /\ reqs' = reqs + 1
           /\ \/ \E i \in DOMAIN nodes : GetRep(i)
              \/ \E i, j \in DOMAIN nodes : TopEq(i, j)
              \/ \E i \in DOMAIN nodes, s \in Steps : Z3GetExpr(i, s)
              \/ \E i \in DOMAIN nodes, s \in Steps : GetSmtTerm(i, s)

Next == \/ Build
        \/ Request
        \/ (Clear \/ Reset) /\ UNCHANGED reqs

Spec == Init /\ [][Next]_vars

-----------------------------------------------------------------------------
(* Properties.                                                              *)

\* However often nodes are shared, by whatever managers and in whatever order,
\* every expression a caller holds still denotes what it was built as, and a
\* representative denotes what the node it replaces denotes.
SharingKeepsMeaning ==
  /\ \A i \in DOMAIN nodes : \A s \in Steps : TermOf(nodes, i, s) = Meaning(i, s)
  /\ out.by = "rep" => \A s \in Steps : Meaning(out.f, s) = Meaning(out.e, s)

RECURSIVE HasMemConst(_)
HasMemConst(t) == t.op = "mem" \/ \E a \in DOMAIN t.args : HasMemConst(t.args[a])

\* TopEq decides structural equality: it never identifies expressions with
\* different terms, and it identifies all equal ones except those over memory
\* constants, which the hash deliberately keeps apart.
TopEqExact ==
  out.by = "topeq" =>
    LET a == Meaning(out.e, "")  b == Meaning(out.f, "")
    IN /\ out.eq => a = b
       /\ a = b /\ ~HasMemConst(a) => out.eq

\* Z3ExprAdapter answers every request with the term of that expression at
\* that suffix, whatever was requested or shared before.
Z3Exact == out.by = "z3" => out.term = Meaning(out.e, out.suf)

\* The term of smt-switch is the same up to the symbol of a function, which is
\* an application even without arguments.
RECURSIVE SameTerm(_, _)
SameTerm(t, u) ==
  /\ t.nm = u.nm
  /\ \/ t.op = "apply" /\ u.op \in {"apply", "sym"}
     \/ t.op = u.op /\ t.suf = u.suf
  /\ Len(t.args) = Len(u.args)
  /\ \A a \in DOMAIN t.args : SameTerm(t.args[a], u.args[a])

\* SmtSwitchItf answers exactly as long as one suffix is used between two
\* Resets, however its callers interleave requests with sharing.
SwitchOneSuffix == out.by = "switch" /\ asked = {out.suf} =>
                     SameTerm(out.term, Meaning(out.e, out.suf))

\* smt_switch_itf.h: the suffix is the "Name suffix for each expression
\* generation (e.g., time step)", so a request at a step gets that step's term.
SwitchHonoursSuffix == out.by = "switch" =>
                         SameTerm(out.term, Meaning(out.e, out.suf))
=============================================================================
