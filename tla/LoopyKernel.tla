----------------------------- MODULE LoopyKernel -----------------------------
(***************************************************************************)
(* Kernels of loopy, and what the code generated from them computes, as    *)
(* far as libnomp depends on it.  A kernel is a list of instructions, each *)
(* with the loops it is in and the conditions it is under, and a domain    *)
(* for each loop.                                                          *)
(*                                                                         *)
(* Loops are rebuilt around consecutive instructions that are in them.  A  *)
(* condition is evaluated before each instruction under it; loopy may do   *)
(* so once for several, which is the same unless one of them changes it.   *)
(***************************************************************************)
EXTENDS CKernel, FiniteSets

LOCAL INSTANCE SequencesExt

\* iname runs from `from` to before `upto`.
Domain(iname, from, upto) == [iname |-> iname, from |-> from, upto |-> upto]

\* make_kernel(): domains that share an iname are refused.
MakesKernel(domains) ==
  \A d, e \in domains : d.iname = e.iname => d = e

make_kernel(domains, insns, args) ==
  [domains |-> domains, insns |-> insns, args |-> args,
   parallel |-> {}, groups |-> {}, fixed |-> [x \in {} |-> 0]]

Inames(k) == {d.iname : d \in k.domains}
DomainOf(k, iname) == CHOOSE d \in k.domains : d.iname = iname

\* split_iname() and tag_inames(): the iterations of a loop are dealt out to
\* groups, which run in any order, as do the iterations of a group.
Parallel(k, iname) == [k EXCEPT !.parallel = @ \cup {iname}]

fix_parameters(k, values) == [k EXCEPT !.fixed = values @@ @]

Open(k) == SelectSeq(k.args, LAMBDA x : x \notin DOMAIN k.fixed)

\* The size of a grid is known before the kernel runs.
Generates(k) ==
  \A x \in k.parallel \cup k.groups :
    \A e \in {DomainOf(k, x).from, DomainOf(k, x).upto} :
      e.k = "var" => e.n \in ToSet(k.args)

(***************************************************************************)
(* Running a kernel on a store; `up` is the order of parallel iterations.  *)
(***************************************************************************)
Trip(k, iname, m, up) ==
  LET d == DomainOf(k, iname)
      from == Eval(d.from, m)
      trip == [i \in 1 .. Eval(d.upto, m) - from |-> from + i - 1]
  IN  IF up \/ iname \notin k.parallel THEN trip ELSE Reverse(trip)

\* How many instructions a loop around the first one holds.
RunLength(insns, iname) ==
  CHOOSE n \in 1 .. Len(insns) :
    /\ \A i \in 1 .. n : iname \in insns[i].within_inames
    /\ n < Len(insns) => iname \notin insns[n + 1].within_inames

\* The loop that holds most, of those whose bounds need no other.
Outermost(k, insns, active) ==
  LET pending == Head(insns).within_inames \ active
      needs(x) == {DomainOf(k, x).from, DomainOf(k, x).upto} \cap {Var(y) : y \in pending}
      first == {x \in pending : needs(x) = {}}
  IN  CHOOSE x \in first : \A y \in first : RunLength(insns, y) <= RunLength(insns, x)

RunInsn(insn, m) ==
  IF \E e \in insn.predicates : ~Holds(e, m) THEN Ends(m, "go")
  ELSE IF insn.kind = "assign" THEN Ends(Assigned(m, insn.lhs, Eval(insn.rhs, m)), "go")
       ELSE Ends(m, insn.kind)

RECURSIVE RunInsns(_, _, _, _, _), RunLoop(_, _, _, _, _, _, _)
RunInsns(k, insns, active, m, up) ==
  IF insns = <<>> THEN Ends(m, "go")
  ELSE IF Head(insns).within_inames \subseteq active
  THEN LET first == RunInsn(Head(insns), m)
       IN  IF first.jump = "go" THEN RunInsns(k, Tail(insns), active, first.m, up)
           ELSE first
  ELSE LET x == Outermost(k, insns, active)
           n == RunLength(insns, x)
           after == RunLoop(k, SubSeq(insns, 1, n), active, x, Trip(k, x, m, up), m, up)
       IN  RunInsns(k, SubSeq(insns, n + 1, Len(insns)), active, after, up)

RunLoop(k, insns, active, x, trip, m, up) ==
  IF trip = <<>> THEN m
  ELSE LET body == RunInsns(k, insns, active \cup {x}, (x :> Head(trip)) @@ m, up)
       IN  IF body.jump = "break" THEN body.m
           ELSE RunLoop(k, insns, active, x, Tail(trip), body.m, up)

(***************************************************************************)
(* A loop in groups, for reductions: each instruction is run by all items  *)
(* of a group, and a reduction combines what they have for it.             *)
(***************************************************************************)
NumGroups(k, iname, size, m) == -((-Eval(DomainOf(k, iname).upto, m)) \div size)

Items(k, iname, size, group, m) ==
  SelectSeq(Trip(k, iname, m, TRUE), LAMBDA i : i \div size = group)

Neutral(op) == IF op = "*" THEN 1 ELSE 0

Reduced(insn, iname, items, m) ==
  FoldLeft(LAMBDA sum, i : Apply(insn.op, sum, Eval(insn.rhs, (iname :> i) @@ m)),
           Neutral(insn.op), items)

RunGroup(k, iname, items, group, m0) ==
  LET step(m, insn) ==
        IF insn.kind = "reduce"
        THEN IF \A e \in insn.predicates : Holds(e, m)
             THEN Assigned(m, At(insn.lhs.a, Lit(group)), Reduced(insn, iname, items, m))
             ELSE m
        ELSE FoldLeft(LAMBDA s, i : RunInsn(insn, (iname :> i) @@ s).m, m, items)
  IN  FoldLeft(step, m0, k.insns)

\* The store after kernel k has run on store m.
Runs(k, size, m0, up) ==
  LET m == k.fixed @@ m0
  IN  IF k.groups = {} THEN RunInsns(k, k.insns, {}, m, up).m
      ELSE LET x == CHOOSE x \in k.groups : TRUE
               groups == [g \in 1 .. NumGroups(k, x, size, m) |-> g - 1]
           IN  FoldLeft(LAMBDA s, g : RunGroup(k, x, Items(k, x, size, g, m), g, s),
                        m, IF up THEN groups ELSE Reverse(groups))
=============================================================================
