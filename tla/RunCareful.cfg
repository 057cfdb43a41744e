\* Two kernels of a careful client, one with a reduction; anything may fail.
CONSTANTS
  Sites = {"scale", "dot"}
  Args <- TestArgs
  Ints = {i1, i2}
  Ptrs = {p}
  Results = {r1, r2}
  Handles = {h1, h2}
  None = None
  Reset = Reset
  Misuse = {}
  Faults = {"jit", "grid", "launch", "sync", "copy", "finalize"}
  MaxQueue = 2
SPECIFICATION Spec
SYMMETRY Symmetric
INVARIANTS
  TypeOK
  GridOfThisRun
  IdsNameTheirKernel
  ProgramsOwnedOnce
  ReductionsReachTheirCaller
PROPERTIES
  ProgramsLostOnlyByJit
  ProgramsStable
  KeepsPromises
