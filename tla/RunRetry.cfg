\* A client that maps the array and runs the kernel again after an error.
CONSTANTS
  Sites = {"scale"}
  Args <- SizeFirst
  Ints = {i1, i2}
  Ptrs = {p}
  Results = {r1}
  Handles = {h1, h2}
  None = None
  Reset = Reset
  Misuse = {"retry"}
  Faults = {}
  MaxQueue = 1
SPECIFICATION Spec
INVARIANTS
  GridOfThisRun
