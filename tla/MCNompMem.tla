------------------------------ MODULE MCNompMem ------------------------------
EXTENDS NompMem, TLC

\* Buffers and arrays are interchangeable: no property orders them.
Symmetric == Permutations(Bufs) \cup Permutations(Ptrs) \cup Permutations(Values)
=============================================================================
