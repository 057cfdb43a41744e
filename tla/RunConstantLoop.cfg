\* A kernel without integer arguments.
CONSTANTS
  Sites = {"foo"}
  Args <- ConstantLoop
  Ints = {i1, i2}
  Ptrs = {p}
  Results = {r1}
  Handles = {h1, h2}
  None = None
  Reset = Reset
  Misuse = {}
  Faults = {}
  MaxQueue = 1
SPECIFICATION Spec
INVARIANTS
  GridOfThisRun
