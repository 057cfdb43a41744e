------------------------------- MODULE NompJit -------------------------------
(***************************************************************************)
(* One kernel from its C source to its results: nomp_jit() of src/nomp.c   *)
(* step by step, with the Python functions it calls through src/loopy.c,   *)
(* and nomp_run() with the host side of reductions of src/reduction.c.     *)
(*                                                                         *)
(* NompRun says which kernels and grids exist; this module says what a     *)
(* kernel computes, compared with what its C source means.                 *)
(***************************************************************************)
EXTENDS CToLoopy

LOCAL INSTANCE SequencesExt

CONSTANTS
  Jobs,        \* a sequence of calls of nomp_jit(), of which one is made
  Scripts,     \* of each module the functions in it
  GroupSize,   \* device::max_threads_per_block
  ScratchSize, \* elements the scratch buffer has room for
  Junk,        \* what its elements hold before a launch
  Faults,      \* Python calls that may fail for reasons of their own
  None

(***************************************************************************)
(* A job is a C function fn with parameters params; the arguments nomp_jit *)
(* is given for them, each with a name, a type and whether its value is    *)
(* fixed; a clauses array of words; whether the session has an annotate    *)
(* function; and the stores a careful client calls it with.                *)
(***************************************************************************)
ASSUME NompJitAssumption ==
  /\ \A j \in DOMAIN Jobs : DOMAIN Jobs[j] = {"fn", "params", "args", "clauses", "annotate",
                                        "inputs"}
  /\ GroupSize \in Nat \ {0}
  /\ ScratchSize \in Nat

VARIABLES
  stage,   \* what nomp_jit() does next, or "ready" or "failed"
  job,     \* the call: an index of Jobs
  knl,     \* the loopy kernel
  i,       \* index of the next clause
  prg,     \* the program
  call     \* the last launch: its store, and what it left in it

Call == Jobs[job]

vars == <<stage, job, knl, i, prg, call>>

(***************************************************************************)
(* nomp_jit_init_args()                                                    *)
(***************************************************************************)
JitNames(args) == {args[n].name : n \in {n \in DOMAIN args : args[n].jit}}

NewProg(args, m) ==
  [args |-> SelectSeq(args, LAMBDA a : ~a.jit),
   py_dict |-> [x \in JitNames(args) |-> m[x]],
   reduction_index |-> -1, reduction_type |-> None, reduction_op |-> "+",
   bptr |-> None, sym_global |-> None]

\* A client may call again after an error.
Jit(m) ==
  /\ stage \in {"idle", "failed"}
  /\ stage' = "translate"
  /\ prg' = NewProg(Call.args, m)
  /\ knl' = None /\ i' = 1
  /\ UNCHANGED <<job, call>>

(***************************************************************************)
(* The steps of nomp_jit() after that.  A step that fails returns at once. *)
(***************************************************************************)
Fail == stage' = "failed" /\ UNCHANGED <<job, knl, i, prg, call>>

\* A step that calls Python with a new kernel as its result.
Becomes(k, next) ==
  /\ knl' = k /\ stage' = next
  /\ UNCHANGED <<job, prg, call>>

Translate ==
  /\ stage = "translate"
  /\ Converts(Call.fn)
  /\ Becomes(c_to_loopy(Call.fn, Call.params), "clauses")
  /\ UNCHANGED i

TranslateFails ==
  /\ stage = "translate"
  /\ ~Converts(Call.fn)
  /\ Fail

(***************************************************************************)
(* nomp_jit_act_on_clauses(): words are taken three at a time; the array   *)
(* ends with a null.                                                       *)
(***************************************************************************)
Word(n) == IF i + n \in DOMAIN Call.clauses THEN Call.clauses[i + n] ELSE None

Clause(w) == stage = "clauses" /\ Word(0) = w

\* A reduce or annotate clause that is cut short hands a null pointer to
\* strncmp() or PyUnicode_FromString(): undefined, and left out.
WholeClause(w) == Clause(w) /\ None \notin {Word(1), Word(2)}

\* Broken: looks at the same clause again.
AdvanceNot == i' = i

\* Broken: counts the word it looks at twice.
AdvanceTooFar == i' = i + 4

Advance == i' = i + 3

\* nomp_py_check_module()
HasFunction(file, function) ==
  /\ file \in DOMAIN Scripts
  /\ function \in Scripts[file]

\* The script of the tests: it splits the only loop of a kernel.
Tiles(k, function) == function = "tile" /\ Cardinality(Inames(k)) = 1

Transform ==
  /\ Clause("transform")
  /\ HasFunction(Word(1), Word(2)) /\ Tiles(knl, Word(2))
  /\ Becomes(Parallel(knl, CHOOSE x \in Inames(knl) : TRUE), "clauses")
  /\ Advance

TransformFails ==
  /\ Clause("transform")
  /\ ~(HasFunction(Word(1), Word(2)) /\ Tiles(knl, Word(2)))
  /\ Fail

\* The first argument of that name, or none.
ArgsNamed(name) ==
  {n \in DOMAIN prg.args : prg.args[n].name = name
                           /\ \A k \in 1 .. n - 1 : prg.args[k].name # name}

OpAfter(op) == IF op \in {"+", "*"} THEN op ELSE prg.reduction_op

Reduce ==
  /\ WholeClause("reduce")
  /\ prg' = [prg EXCEPT
       !.reduction_op = OpAfter(Word(2)),
       !.reduction_index =
         IF ArgsNamed(Word(1)) = {} THEN @ ELSE CHOOSE n \in ArgsNamed(Word(1)) : TRUE,
       !.reduction_type =
         IF ArgsNamed(Word(1)) = {} THEN @
         ELSE prg.args[CHOOSE n \in ArgsNamed(Word(1)) : TRUE].type,
       !.args = [n \in DOMAIN @ |->
         IF n \in ArgsNamed(Word(1)) THEN [@[n] EXCEPT !.type = "PTR"] ELSE @[n]]]
  /\ Advance
  /\ UNCHANGED <<stage, job, knl, call>>

\* nomp_py_annotate(): the annotate function of the tests makes the loop the
\* value names a grid, if the key asks for it and there is such a loop.
Annotated(k, key, value) ==
  IF Call.annotate /\ key = "grid_loop" /\ value \in Inames(k)
  THEN Parallel(k, value) ELSE k

Annotate ==
  /\ WholeClause("annotate")
  /\ Becomes(Annotated(knl, Word(1), Word(2)), "clauses")
  /\ Advance

AnnotateFails ==
  /\ WholeClause("annotate")
  /\ Call.annotate /\ "annotate" \in Faults
  /\ Fail

ClauseFails ==
  /\ stage = "clauses"
  /\ Word(0) \notin {None, "transform", "reduce", "annotate"}
  /\ Fail

ClausesEnd ==
  /\ Clause(None)
  /\ stage' = IF prg.reduction_index >= 0 THEN "reduce" ELSE "fix"
  /\ UNCHANGED <<job, knl, i, prg, call>>

(***************************************************************************)
(* realize_reduction() of python/reduction.py.                             *)
(***************************************************************************)
Variable == prg.args[prg.reduction_index].name

Accumulates(insn) ==
  insn.kind = "assign" /\ insn.lhs.k = "at" /\ insn.lhs.a = Variable

\* Broken: takes a difference for a sum.
ChildrenIgnoringSign(e) == <<e.l, e.r>>

\* The operands of a sum or a product: a difference is a sum.
Children(e) ==
  IF e.op = "-" THEN <<e.l, Bin("*", Lit(-1), e.r)>> ELSE <<e.l, e.r>>

\* An instruction that can be split into partial results: its first operand
\* is an element, whatever array that is in.
Splits(insn) ==
  /\ insn.rhs.k = "bin" /\ insn.rhs.op \in {"+", "-", "*"}
  /\ Children(insn.rhs)[1].k = "at"

Partial(insn) ==
  [kind |-> "reduce", lhs |-> Children(insn.rhs)[1], rhs |-> Children(insn.rhs)[2],
   op |-> IF insn.rhs.op = "*" THEN "*" ELSE "+",
   within_inames |-> {}, predicates |-> insn.predicates]

Mentions(e) ==
  CASE e.k = "var" -> {e.n}
    [] e.k = "lit" -> {}
    [] OTHER -> Inames(knl)

realize_reduction(k) ==
  [k EXCEPT !.groups = Inames(k),
            !.insns = [n \in DOMAIN @ |-> IF Accumulates(@[n]) THEN Partial(@[n]) ELSE @[n]]]

\* Conditions stay with an instruction that is no longer in the loop.
CanRealize(k) ==
  /\ Cardinality(Inames(k)) = 1 /\ k.parallel = {}
  /\ \A n \in DOMAIN k.insns : Accumulates(k.insns[n]) =>
       /\ Splits(k.insns[n])
       /\ \A e \in k.insns[n].predicates : Mentions(e) \cap Inames(k) = {}

RealizeReduction ==
  /\ stage = "reduce"
  /\ CanRealize(knl)
  /\ Becomes(realize_reduction(knl), "fix")
  /\ UNCHANGED i

RealizeReductionFails ==
  /\ stage = "reduce"
  /\ ~CanRealize(knl)
  /\ Fail

(***************************************************************************)
(* The values of parameters that are fixed, the source, the build, and the *)
(* expressions of the grid.                                                *)
(***************************************************************************)
FixParameters ==
  /\ stage = "fix"
  /\ Becomes(fix_parameters(knl, prg.py_dict), "source")
  /\ UNCHANGED i

\* The result of nomp_py_fix_parameters() is not looked at.
FixParametersFails ==
  /\ stage = "fix"
  /\ DOMAIN prg.py_dict # {} /\ "fix" \in Faults
  /\ Becomes(knl, "source")
  /\ UNCHANGED i

Generate ==
  /\ stage = "source"
  /\ Generates(knl)
  /\ Becomes(knl, "build")
  /\ UNCHANGED i

GenerateFails ==
  /\ stage = "source"
  /\ ~Generates(knl)
  /\ Fail

Build ==
  /\ stage = "build"
  /\ prg' = [prg EXCEPT !.bptr = knl]
  /\ stage' = "grid"
  /\ UNCHANGED <<job, knl, i, call>>

BuildFails == stage = "build" /\ "build" \in Faults /\ Fail

\* nomp_py_get_grid_size(): the loop that is dealt out to groups, if any.
GetGridSize ==
  /\ stage = "grid"
  /\ prg' = [prg EXCEPT !.sym_global = knl.parallel \cup knl.groups]
  /\ knl' = None
  /\ stage' = "ready"
  /\ UNCHANGED <<job, i, call>>

GetGridSizeFails == stage = "grid" /\ "grid" \in Faults /\ Fail

(***************************************************************************)
(* nomp_run()                                                              *)
(***************************************************************************)
\* Parameters of the generated kernel are bound to actuals by position; the
\* variable of a reduction is not mapped, and gives way to the scratch buffer.
Scratch == [n \in 0 .. ScratchSize - 1 |-> Junk]

Actual(n, m) == IF n = prg.reduction_index THEN Scratch ELSE m[prg.args[n].name]

Bound_(m) == [x \in ToSet(Open(prg.bptr)) |->
                Actual(CHOOSE n \in DOMAIN Open(prg.bptr) : Open(prg.bptr)[n] = x, m)]

\* The backend is given an actual for each argument of prg, and a grid that
\* was evaluated if an integer was among them.
Grid(m) ==
  IF \A n \in DOMAIN prg.args : prg.args[n].type = "PTR" THEN 0
  ELSE IF prg.sym_global = {} THEN 1
  ELSE NumGroups(prg.bptr, CHOOSE x \in prg.sym_global : TRUE, GroupSize,
                 prg.bptr.fixed @@ Bound_(m))

Launches(m) == Len(Open(prg.bptr)) = Len(prg.args) /\ Grid(m) > 0

\* Broken: every fold starts from the neutral element of sums.
InitSum(op) == 0

Init_(op) == IF op = "*" THEN 1 ELSE 0

\* nomp_host_side_reduction(): from the last partial result to the first.
HostFold(partial, n) ==
  FoldLeft(LAMBDA out, g : Apply(prg.reduction_op, out, partial[g - 1]),
           Init_(prg.reduction_op), Reverse([g \in 1 .. n |-> g]))

\* What the host finds in variable x once device memory was copied back.
After(end, m, x) ==
  LET at == {n \in DOMAIN prg.args : prg.args[n].name = x}
      n == CHOOSE n \in at : TRUE
  IN  IF at = {} \/ prg.args[n].type # "PTR" THEN m[x]
      ELSE IF n # prg.reduction_index THEN end[Open(prg.bptr)[n]]
      ELSE IF prg.reduction_type = "PTR" THEN m[x]
      ELSE [m[x] EXCEPT ![0] = HostFold(end[Open(prg.bptr)[n]], Grid(m))]

Run(m) ==
  /\ stage = "ready"
  /\ \A x \in DOMAIN prg.py_dict : m[x] = prg.py_dict[x]
  /\ Launches(m)
  /\ \E up \in BOOLEAN :
       LET end == Runs(prg.bptr, GroupSize, Bound_(m), up)
       IN  call' = [in |-> m, out |-> [x \in DOMAIN m |-> After(end, m, x)]]
  /\ UNCHANGED <<stage, job, knl, i, prg>>

\* The driver refuses the arguments, or a grid of size zero.
RunFails(m) ==
  /\ stage = "ready"
  /\ ~Launches(m)
  /\ call' = None
  /\ UNCHANGED <<stage, job, knl, i, prg>>

(***************************************************************************)
(* The specification.                                                      *)
(***************************************************************************)
Init ==
  /\ stage = "idle"
  /\ job \in DOMAIN Jobs
  /\ knl = None /\ prg = None /\ call = None
  /\ i = 1

JitStep ==
  \/ Translate \/ TranslateFails
  \/ Transform \/ TransformFails \/ Reduce \/ Annotate \/ AnnotateFails
  \/ ClauseFails \/ ClausesEnd
  \/ RealizeReduction \/ RealizeReductionFails
  \/ FixParameters \/ FixParametersFails \/ Generate \/ GenerateFails
  \/ Build \/ BuildFails \/ GetGridSize \/ GetGridSizeFails

Next ==
  \/ JitStep
  \/ \E m \in Call.inputs : Jit(m) \/ Run(m) \/ RunFails(m)

\* nomp_jit() is a sequence of calls that return: it takes its next step.
Spec == Init /\ [][Next]_vars /\ WF_vars(JitStep)

(***************************************************************************)
(* Properties.                                                             *)
(***************************************************************************)
TypeOK ==
  /\ stage \in {"idle", "translate", "clauses", "reduce", "fix", "source",
                "build", "grid", "ready", "failed"}
  /\ job \in DOMAIN Jobs
  /\ stage # "idle" =>
       /\ DOMAIN prg.py_dict = JitNames(Call.args)
       /\ prg.reduction_index \in {-1} \cup DOMAIN prg.args
  /\ i \in 1 .. IF stage = "idle" THEN 1 ELSE Len(Call.clauses) + 1
  /\ call # None => call.in \in Call.inputs /\ DOMAIN call.out = DOMAIN call.in

\* A reduction overwrites its variable: out = INIT in src/reduction.c.  Its
\* C source is run from there, whatever the client left in the variable.
Reduces(clauses, x, op) ==
  \E n \in 1 .. Len(clauses) - 2 :
    n % 3 = 1 /\ SubSeq(clauses, n, n + 2) = <<"reduce", x, op>>

FromNeutral(clauses, m) ==
  [x \in DOMAIN m |->
     IF Reduces(clauses, x, "+") THEN [m[x] EXCEPT ![0] = Neutral("+")]
     ELSE IF Reduces(clauses, x, "*") THEN [m[x] EXCEPT ![0] = Neutral("*")]
     ELSE m[x]]

\* Whatever the clauses did to it, a kernel that nomp_jit() accepted and
\* nomp_run() ran leaves in every array what its C source says, and in the
\* variable of a reduction what it says of one that is 0, or 1 for products,
\* when the loop begins: the loops, conditions and jumps that were flattened,
\* the partial results of groups in any order and the fold on the host together
\* amount to the function the client wrote.
MeansWhatCMeans ==
  call # None => call.out = CMeaning(Call.fn, FromNeutral(Call.clauses, call.in))

\* nomp_jit() comes to an end, with a kernel or an error, whichever words its
\* clauses are, if none is missing from a reduce or annotate clause, and
\* whichever Python call fails.
JitReturns == stage = "translate" ~> stage \in {"ready", "failed"}
=============================================================================
