---------------------------- MODULE MCNompOffload ----------------------------
EXTENDS NompOffload, TLC

CONSTANTS a, b

\* Elements have two bytes.
Contents_(x, y) == [k \in 0 .. Extent - 1 |-> IF k < 2 THEN x ELSE y]

OneMemory == {[p \in Ptrs |-> IF p = a THEN Contents_(1, 2) ELSE Contents_(3, 1)]}

\* p[i] += q[i] and result += q[i] in a loop, and p[i] = v.
Add(p, q, elements) == [op |-> "add", p |-> p, q |-> q, at |-> 0, n |-> 2 * elements]
Sum(q, elements) == [op |-> "sum", q |-> q, n |-> 2 * elements]
Store(p, i, v) == [op |-> "store", p |-> p, v |-> v, at |-> 2 * i, n |-> 2]

\* Loops and stores on two arrays and parts of them.
TestPrograms ==
  {<<Add(a, b, 2), Add(b, a, 1), Store(a, 1, 3), Sum(a, 2)>>,
   <<Store(a, 0, 3), Add(a, a, 1), Sum(a, 1), Store(a, 1, 1), Add(b, a, 1)>>,
   <<Add(b, a, 2), Add(a, b, 1), Sum(b, 2), Store(b, 0, 2), Add(a, a, 1)>>}

Symmetric == Permutations(Bufs)
=============================================================================
