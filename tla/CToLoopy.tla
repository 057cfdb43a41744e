------------------------------ MODULE CToLoopy ------------------------------
(***************************************************************************)
(* The translation of C kernels to loopy kernels, python/loopy_api.py.     *)
(* Control flow is turned inside out: nested statements become a list of   *)
(* instructions, each with the loops and the conditions around it.         *)
(***************************************************************************)
EXTENDS LoopyKernel

LOCAL INSTANCE SequencesExt

(***************************************************************************)
(* What is refused, with an exception.                                     *)
(***************************************************************************)
IsTest(e) == e.k = "bin" /\ e.op \in {"<", "<="}

\* cond_name: the spelling of the first child of the left operand, which is i
\* for i, and for i + 1 as well.  No variable is spelled "".
Spelling(e) == IF e.k = "var" THEN e.n ELSE ""

CondName(e) ==
  CASE e.l.k = "var" -> e.l.n
    [] e.l.k = "bin" -> Spelling(e.l.l)
    [] OTHER -> ""

\* Broken: any statement may end an iteration.
LoopIsOkWithAnyUpdate(s) == Len(s.decls) = 1 /\ IsTest(s.cond)

\* ForLoopInfo.check_and_parse(): the variable that is declared is not compared.
LoopIsOk(s) ==
  /\ Len(s.decls) = 1
  /\ IsTest(s.cond)
  /\ s.update.k = "incr"
  /\ s.update.n = CondName(s.cond)

Reserved == {"_nomp_var", "_nomp_var_0"}

RECURSIVE Translates(_)
Translates(s) ==
  CASE s.k = "assign" -> s.op # "/="
    [] s.k = "incr" -> FALSE
    [] s.k = "if" -> Translates(s.t)
    [] s.k = "ifelse" -> Translates(s.t) /\ Translates(s.f)
    [] s.k = "block" -> \A i \in DOMAIN s.b : Translates(s.b[i])
    [] s.k = "decl" -> s.n \notin Reserved
    [] s.k \in {"break", "continue"} -> TRUE
    [] s.k = "for" -> LoopIsOk(s) /\ Translates(s.body)

(***************************************************************************)
(* Instructions.  c is CToLoopyMapperContext: the loops and conditions     *)
(* around a statement, and a path that names what is made up for it.       *)
(***************************************************************************)
Insn(c, kind, lhs, rhs) ==
  [kind |-> kind, lhs |-> lhs, rhs |-> rhs,
   within_inames |-> c.inames, predicates |-> c.predicates]

Under(c, e) == [c EXCEPT !.predicates = @ \cup {e}]
In(c, iname) == [c EXCEPT !.inames = @ \cup {iname}]
Child(c, i) == [c EXCEPT !.path = Append(@, i)]

(***************************************************************************)
(* The statements a C statement is turned into.                            *)
(***************************************************************************)
RECURSIVE Statements(_, _)

\* What s assigns if its right hand side is e: l + e for l += e, and so on.
Value(s, e) == Compound(Assign(s.l, s.op, e))

\* Both assignments of a conditional expression, each under its condition.
set_tf_results(s, c) ==
  <<Insn(Under(c, s.r.c), "assign", s.l, Value(s, s.r.t)),
    Insn(Under(c, Not(s.r.c)), "assign", s.l, Value(s, s.r.f))>>

MapAssign(s, c) ==
  IF s.r.k = "cond" THEN set_tf_results(s, c)
  ELSE <<Insn(c, "assign", s.l, Value(s, s.r))>>

\* Broken: the else branch is under the condition as well.
MapIfElseSame(s, c) ==
  Statements(s.t, Under(Child(c, 1), s.c)) \o Statements(s.f, Under(Child(c, 2), s.c))

map_if_stmt(s, c) ==
  Statements(s.t, Under(Child(c, 1), s.c)) \o Statements(s.f, Under(Child(c, 2), Not(s.c)))

\* CToLoopyLoopBoundMapper
RECURSIVE FloorDiv(_)
FloorDiv(e) ==
  IF e.k # "bin" THEN e
  ELSE Bin(IF e.op = "/" THEN "//" ELSE e.op, FloorDiv(e.l), FloorDiv(e.r))

\* A bound that is not a number or a variable is assigned to a new variable.
IsPlain(e) == e.k \in {"lit", "var"}

Bound(e, c) == IF IsPlain(e) THEN e ELSE Var("_nomp_var" \o ToString(c.path))

BoundInsns(e, c) ==
  IF IsPlain(e) THEN <<>> ELSE <<Insn(c, "assign", Bound(e, c), FloorDiv(e))>>

ForInsns(s, c) ==
  BoundInsns(s.decls[1].init, Child(c, 1)) \o BoundInsns(s.cond.r, Child(c, 2))
    \o Statements(s.body, In(Child(c, 3), CondName(s.cond)))

Statements(s, c) ==
  CASE s.k = "assign" -> MapAssign(s, c)
    [] s.k = "if" -> Statements(s.t, Under(Child(c, 1), s.c))
    [] s.k = "ifelse" -> map_if_stmt(s, c)
    [] s.k = "block" -> FlattenSeq([n \in DOMAIN s.b |-> Statements(s.b[n], Child(c, n))])
    [] s.k = "decl" -> <<Insn(c, "assign", Var(s.n), s.init)>>
    [] s.k \in {"break", "continue"} -> <<Insn(c, s.k, Lit(0), Lit(0))>>
    [] s.k = "for" -> ForInsns(s, c)

(***************************************************************************)
(* Its domains; equal ones are one.  A domain ends before its upper bound, *)
(* whatever the condition is: make_slab().                                 *)
(***************************************************************************)
RECURSIVE Domains(_, _)
Domains(s, c) ==
  CASE s.k = "if" -> Domains(s.t, Child(c, 1))
    [] s.k = "ifelse" -> Domains(s.t, Child(c, 1)) \cup Domains(s.f, Child(c, 2))
    [] s.k = "block" -> UNION {Domains(s.b[n], Child(c, n)) : n \in DOMAIN s.b}
    [] s.k = "for" ->
         {Domain(CondName(s.cond), Bound(s.decls[1].init, Child(c, 1)),
                 Bound(s.cond.r, Child(c, 2)))}
           \cup Domains(s.body, Child(c, 3))
    [] OTHER -> {}

TopContext == [inames |-> {}, predicates |-> {}, path |-> <<>>]

Converts(s) == Translates(s) /\ MakesKernel(Domains(s, TopContext))

c_to_loopy(s, args) ==
  make_kernel(Domains(s, TopContext), Statements(s, TopContext), args)
=============================================================================
