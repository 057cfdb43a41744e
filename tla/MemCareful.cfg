\* A careful client of one array; any call of the driver may fail.
CONSTANTS
  Ptrs = {a}
  Extent = 4
  USizes = {2}
  Values = {v0, v1}
  Junk = junk
  NULL = NULL
  Bufs = {b1, b2, b3, b4}
  Misuse = {}
  Faults = {"alloc", "copy", "free", "unload"}
  MaxMems = 3
SPECIFICATION Spec
SYMMETRY Symmetric
INVARIANTS
  TypeOK
  CopiesFit
PROPERTIES
  SliceOnly
  ImplementsMirror
