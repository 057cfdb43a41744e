----------------------------- MODULE MCNompJit -----------------------------
EXTENDS NompJit

\* for (int v = from; v < upto; v++)
Loop_(v, from, upto, body) ==
  For(<<Decl(v, from)>>, Bin("<", Var(v), upto), Incr(v), Block(body))

I == Var("i")
N == Var("n")
a_i == At("a", I)
b_i == At("b", I)
s_0 == At("s", Lit(0))

Each(body) == Loop_("i", Lit(0), N, body)

\* Arguments are the arrays, the variable of a reduction, and integers.
PtrArg(x) == [name |-> x, type |-> "PTR", jit |-> FALSE]
IntArg(x) == [name |-> x, type |-> "INT", jit |-> FALSE]
FixedArg(x) == [name |-> x, type |-> "INT", jit |-> TRUE]

Arrays == {<<0, 1, 2>>, <<2, 0, 1>>, <<0, 0, 1>>}
FromZero(t) == [k \in 0 .. Len(t) - 1 |-> t[k + 1]]

Stores == {[a |-> FromZero(x), b |-> FromZero(y), n |-> n] :
             x \in Arrays, y \in Arrays, n \in {1, 2, 3}}

Job(fn, clauses) ==
  [fn |-> Block(fn), params |-> <<"a", "b", "n">>,
   args |-> <<PtrArg("a"), PtrArg("b"), IntArg("n")>>,
   clauses |-> clauses, annotate |-> FALSE, inputs |-> Stores]

\* A reduction into s, which may hold anything before the call.
Reduction(op, fn, clauses) ==
  [fn |-> Block(fn), params |-> <<"s", "a", "n">>,
   args |-> <<IntArg("s"), PtrArg("a"), IntArg("n")>>,
   clauses |-> <<"reduce", "s", op>> \o clauses, annotate |-> FALSE,
   inputs |-> {[s |-> FromZero(<<v>>), a |-> FromZero(x), n |-> n] :
                 v \in {0, 5}, x \in Arrays \cup {<<2, 1, 2>>}, n \in 0 .. 3}]

Tile == <<"transform", "nomp_api_100", "tile">>

Annotating(j) == [j EXCEPT !.annotate = TRUE, !.clauses = <<"annotate", "grid_loop", "i">>]

\* Parameter m is fixed when the kernel is built, and lies between the others.
WithParameter(fn) ==
  [Job(fn, <<>>) EXCEPT !.params = <<"a", "m", "n">>,
                        !.args = <<PtrArg("a"), FixedArg("m"), IntArg("n")>>,
                        !.inputs = {[a |-> FromZero(x), m |-> m, n |-> n] :
                                      x \in Arrays, m \in {1, 2}, n \in {2, 3}}]

Sum == Assign(a_i, "=", Bin("+", a_i, b_i))
Pick == Assign(a_i, "=", Cond(Bin("<", b_i, Lit(1)), Bin("-", b_i, Lit(1)), b_i))

\* Kernels as the tests have them, each with the clauses it is used with.
Accepted ==
  <<Job(<<Each(<<Sum>>)>>, <<>>), Job(<<Each(<<Sum>>)>>, Tile),
   Annotating(Job(<<Each(<<Sum>>)>>, <<>>)), Annotating(Job(<<Each(<<Pick>>)>>, <<>>)),
   Job(<<Each(<<Pick>>)>>, Tile),
   \* if and else, and a condition in one branch of another
   Job(<<Each(<<IfElse(Bin("<", Lit(0), b_i), Assign(a_i, "=", Lit(7)),
                       If(Bin("==", I, Lit(1)), Assign(a_i, "*=", Lit(3))))>>)>>, Tile),
   Job(<<Each(<<Assign(a_i, "+=", Cond(Bin("==", b_i, Lit(0)), Lit(5), I))>>)>>, Tile),
   \* bounds that are expressions, also of outer loops, and loops from 1
   Job(<<Each(<<Loop_("j", Lit(0), I, <<Assign(a_i, "+=", At("b", Var("j")))>>)>>)>>, <<>>),
   Job(<<Each(<<Loop_("j", Lit(0), Bin("+", I, Lit(1)),
                      <<Assign(a_i, "-=", At("b", Var("j")))>>)>>)>>, <<>>),
   Job(<<Loop_("i", Lit(0), Bin("/", N, Lit(2)), <<Sum>>)>>, <<>>),
   Job(<<Loop_("i", Lit(1), N, <<Assign(a_i, "=", At("b", Bin("-", I, Lit(1))))>>)>>, <<>>),
   \* jumps
   Job(<<Each(<<If(Bin("==", b_i, Lit(0)), Break), Assign(a_i, "=", Lit(4))>>)>>, <<>>),
   Job(<<Each(<<If(Bin("==", b_i, Lit(0)), Continue), Assign(a_i, "=", Lit(4))>>)>>, <<>>),
   Job(<<Each(<<Loop_("j", Lit(0), Bin("+", I, Lit(1)),
                      <<If(Bin("==", At("b", Var("j")), Lit(0)), Break),
                        Assign(a_i, "+=", Lit(1))>>)>>)>>, <<>>),
   \* a variable of an iteration, and two loops of one name
   Job(<<Each(<<Decl("t", a_i), Assign(a_i, "=", b_i), Assign(b_i, "=", Var("t"))>>)>>, <<>>),
   Job(<<Each(<<Sum>>), Each(<<Assign(b_i, "=", Bin("*", a_i, Lit(2)))>>)>>, <<>>),
   \* a clause that names no argument of the kernel
   Job(<<Each(<<Sum>>)>>, <<"reduce", "c", "+">> \o Tile),
   WithParameter(<<Each(<<Assign(a_i, "=", Bin("*", a_i, Var("m")))>>)>>),
   WithParameter(<<Loop_("i", Lit(0), Var("m"), <<Assign(a_i, "=", N)>>)>>)>>

Reductions ==
  <<Reduction("+", <<Each(<<Assign(s_0, "+=", a_i)>>)>>, <<>>),
   Reduction("+", <<Each(<<Assign(s_0, "-=", Bin("*", a_i, I))>>)>>, <<>>),
   Reduction("+", <<Each(<<Assign(s_0, "=", Bin("+", s_0, Lit(1)))>>)>>, <<>>),
   Reduction("*", <<Each(<<Assign(s_0, "*=", Bin("+", a_i, Lit(1)))>>)>>, <<>>),
   Reduction("+", <<Each(<<Assign(a_i, "+=", Lit(1)), Assign(s_0, "+=", a_i)>>)>>, <<>>)>>

\* Kernels and clauses that are refused.
Refused ==
  <<Job(<<For(<<>>, Bin("<", I, N), Incr("i"), Block(<<Sum>>))>>, <<>>),
   Job(<<For(<<Decl("i", Lit(0)), Decl("j", Lit(0))>>, Bin("<", I, N), Incr("i"),
             Block(<<Sum>>))>>, <<>>),
   Job(<<For(<<Decl("i", Lit(0))>>, Bin("<", I, N), Assign(I, "+=", Lit(2)),
             Block(<<Sum>>))>>, <<>>),
   Job(<<For(<<Decl("i", Lit(0))>>, Bin("==", I, Lit(0)), Incr("i"), Block(<<Sum>>))>>, <<>>),
   Job(<<For(<<Decl("i", Lit(0))>>, Bin("<", Bin("*", Lit(2), I), N), Incr("i"),
             Block(<<Sum>>))>>, <<>>),
   Job(<<For(<<Decl("i", Lit(0))>>, Bin("<", Lit(0), I), Incr("i"), Block(<<Sum>>))>>, <<>>),
   Job(<<Each(<<Assign(a_i, "/=", Lit(2))>>)>>, <<>>),
   Job(<<Each(<<Decl("_nomp_var", a_i)>>)>>, <<>>),
   Job(<<Each(<<Decl("t", a_i), Incr("t")>>)>>, <<>>),
   \* two loops of one name and different bounds
   Job(<<Each(<<Sum>>), Loop_("i", Lit(1), N, <<Sum>>)>>, <<>>),
   \* a grid that depends on a variable of the kernel
   Job(<<Loop_("i", Lit(0), Bin("/", N, Lit(2)), <<Sum>>)>>, Tile),
   Job(<<Each(<<Sum>>)>>, <<"transform", "nomp_api_100", "missing">>),
   Job(<<Each(<<Sum>>)>>, <<"transform", "nomp_api_100">>),
   Job(<<Each(<<Sum>>)>>, <<"tile", "nomp_api_100", "tile">>),
   Reduction("+", <<Each(<<Assign(s_0, "=", a_i)>>)>>, <<>>),
   Reduction("+", <<Each(<<Assign(s_0, "=", Bin("+", Lit(1), s_0))>>)>>, <<>>),
   Reduction("+", <<Each(<<If(Bin("<", Lit(0), a_i), Assign(s_0, "+=", a_i))>>)>>, <<>>),
   Reduction("+", <<Each(<<Assign(s_0, "+=", a_i)>>)>>, Tile)>>

CarefulJobs == Accepted \o Reductions \o Refused

\* for (int i = 0; i <= n - 1; i++) a[i] = 7;
\* for (int j = 0; j < n; j++) if (b[j] == 0) b[j] = 1; else b[j] = 0;
ControlJobs ==
  LET b_j == At("b", Var("j")) IN
  <<[Job(<<For(<<Decl("i", Lit(0))>>, Bin("<=", I, Bin("-", N, Lit(1))), Incr("i"),
               Block(<<Assign(a_i, "=", Lit(7))>>)),
           Loop_("j", Lit(0), N, <<IfElse(Bin("==", b_j, Lit(0)), Assign(b_j, "=", Lit(1)),
                                          Assign(b_j, "=", Lit(0)))>>)>>, <<>>)
     EXCEPT !.inputs = {[a |-> FromZero(x), b |-> FromZero(<<0, 2, 0>>), n |-> n] :
                          x \in Arrays, n \in {2, 3}}]>>

\* for (int i = 0; i + 1 < n; i++) { b[i] = 7; s[0] = a[i] + s[0]; }
OperandJobs ==
  <<[Reduction("+", <<For(<<Decl("i", Lit(0))>>, Bin("<", Bin("+", I, Lit(1)), N), Incr("i"),
                          Block(<<Assign(b_i, "=", Lit(7)),
                                  Assign(s_0, "=", Bin("+", a_i, s_0))>>))>>, <<>>)
     EXCEPT !.params = <<"s", "a", "b", "n">>,
            !.args = <<IntArg("s"), PtrArg("a"), PtrArg("b"), IntArg("n")>>,
            !.inputs = {[s |-> FromZero(<<5>>), a |-> FromZero(<<2, 1, 2>>),
                         b |-> FromZero(x), n |-> n] : x \in Arrays, n \in {2, 3}}]>>

TestScripts == [nomp_api_100 |-> {"tile", "function_with_syntax_error"}]
=============================================================================
