------------------------------- MODULE CKernel -------------------------------
(***************************************************************************)
(* The C of kernels: expressions, statements, and what they mean.  This is *)
(* the reference that the translation of python/loopy_api.py is compared   *)
(* with; it knows nothing of libnomp.                                      *)
(*                                                                         *)
(* A store maps names to integers and to arrays, which are functions from  *)
(* 0.  Truth values are 0 and 1.  Kernels that read or write outside of an *)
(* array have no meaning in C, and none here.                              *)
(***************************************************************************)
EXTENDS Integers, Sequences, TLC

(***************************************************************************)
(* Expressions.                                                            *)
(***************************************************************************)
Lit(v) == [k |-> "lit", v |-> v]
Var(n) == [k |-> "var", n |-> n]
At(a, i) == [k |-> "at", a |-> a, i |-> i]
Bin(op, l, r) == [k |-> "bin", op |-> op, l |-> l, r |-> r]
Not(e) == [k |-> "not", e |-> e]
Cond(c, t, f) == [k |-> "cond", c |-> c, t |-> t, f |-> f]

Truth(b) == IF b THEN 1 ELSE 0

\* "/" of C rounds towards zero, "//" down.
Apply(op, x, y) ==
  CASE op = "+" -> x + y
    [] op = "-" -> x - y
    [] op = "*" -> x * y
    [] op = "/" -> IF x < 0 THEN -((-x) \div y) ELSE x \div y
    [] op = "//" -> x \div y
    [] op = "<" -> Truth(x < y)
    [] op = "<=" -> Truth(x <= y)
    [] op = "==" -> Truth(x = y)

Load(array, i) == IF i \in DOMAIN array THEN array[i] ELSE 0

RECURSIVE Eval(_, _)
Eval(e, m) ==
  CASE e.k = "lit" -> e.v
    [] e.k = "var" -> m[e.n]
    [] e.k = "at" -> Load(m[e.a], Eval(e.i, m))
    [] e.k = "bin" -> Apply(e.op, Eval(e.l, m), Eval(e.r, m))
    [] e.k = "not" -> Truth(Eval(e.e, m) = 0)
    [] e.k = "cond" -> IF Eval(e.c, m) # 0 THEN Eval(e.t, m) ELSE Eval(e.f, m)

Holds(e, m) == Eval(e, m) # 0

\* m after v was assigned to l, a variable or an element.
Assigned(m, l, v) ==
  IF l.k = "var" THEN (l.n :> v) @@ m
  ELSE LET i == Eval(l.i, m)
       IN  [m EXCEPT ![l.a] = [j \in DOMAIN @ |-> IF j = i THEN v ELSE @[j]]]

(***************************************************************************)
(* Statements.  A loop has the variables it declares with their values, a  *)
(* condition, and a statement that ends an iteration.                      *)
(***************************************************************************)
Assign(l, op, r) == [k |-> "assign", l |-> l, op |-> op, r |-> r]
Incr(n) == [k |-> "incr", n |-> n]
If(c, t) == [k |-> "if", c |-> c, t |-> t]
IfElse(c, t, f) == [k |-> "ifelse", c |-> c, t |-> t, f |-> f]
For(decls, cond, update, body) ==
  [k |-> "for", decls |-> decls, cond |-> cond, update |-> update, body |-> body]
Block(b) == [k |-> "block", b |-> b]
Decl(n, init) == [k |-> "decl", n |-> n, init |-> init]
Break == [k |-> "break"]
Continue == [k |-> "continue"]

\* l = l + r for l += r, and so on.
Compound(s) ==
  CASE s.op = "=" -> s.r
    [] s.op = "+=" -> Bin("+", s.l, s.r)
    [] s.op = "-=" -> Bin("-", s.l, s.r)
    [] s.op = "*=" -> Bin("*", s.l, s.r)
    [] s.op = "/=" -> Bin("/", s.l, s.r)

\* How a statement ends: the store, and "go" or the jump it makes.
Ends(m, jump) == [m |-> m, jump |-> jump]

RECURSIVE Exec(_, _), Loop(_, _), Block_(_, _)
Exec(s, m) ==
  CASE s.k = "assign" -> Ends(Assigned(m, s.l, Eval(Compound(s), m)), "go")
    [] s.k = "incr" -> Ends(Assigned(m, Var(s.n), m[s.n] + 1), "go")
    [] s.k = "if" -> IF Holds(s.c, m) THEN Exec(s.t, m) ELSE Ends(m, "go")
    [] s.k = "ifelse" -> IF Holds(s.c, m) THEN Exec(s.t, m) ELSE Exec(s.f, m)
    [] s.k = "block" -> Block_(s.b, m)
    [] s.k = "decl" -> Ends(Assigned(m, Var(s.n), Eval(s.init, m)), "go")
    [] s.k = "break" -> Ends(m, "break")
    [] s.k = "continue" -> Ends(m, "continue")
    [] s.k = "for" -> Loop(s, Block_(s.decls, m).m)

Block_(b, m) ==
  IF b = <<>> THEN Ends(m, "go")
  ELSE LET first == Exec(Head(b), m)
       IN  IF first.jump = "go" THEN Block_(Tail(b), first.m) ELSE first

Loop(s, m) ==
  IF ~Holds(s.cond, m) THEN Ends(m, "go")
  ELSE LET body == Exec(s.body, m)
       IN  IF body.jump = "break" THEN Ends(body.m, "go")
           ELSE Loop(s, Exec(s.update, body.m).m)

\* What the arrays of store m hold once the function with body s has run.
CMeaning(s, m) ==
  LET end == Exec(s, m).m
  IN  [x \in DOMAIN m |-> end[x]]
=============================================================================
