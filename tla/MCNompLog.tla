------------------------------ MODULE MCNompLog ------------------------------
EXTENDS NompLog, TLC

Symmetric == Permutations(Errors) \cup Permutations(Names)
=============================================================================
