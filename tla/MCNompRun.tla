------------------------------ MODULE MCNompRun ------------------------------
EXTENDS NompRun, TLC

\* A kernel whose size comes before its array, and a reduction.
TestArgs == [scale |-> <<"int", "ptr">>, dot |-> <<"int", "red">>]

\* The first of them alone.
SizeFirst == [scale |-> <<"int", "ptr">>]

\* A loop of constant bounds, as docs/examples.rst has it.
ConstantLoop == [foo |-> <<"ptr">>]

Symmetric ==
  Permutations(Handles) \cup Permutations(Results) \cup Permutations(Ints)
=============================================================================
