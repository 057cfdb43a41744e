\* A client that breaks every rule: the registry stays sound.
CONSTANTS
  Ptrs = {a, b}
  Extent = 2
  USizes = {1, 2}
  Values = {v0}
  Junk = junk
  NULL = NULL
  Bufs = {b1, b2, b3}
  Misuse = {"units", "overlap", "resize", "subfree"}
  Faults = {"alloc", "copy", "free", "unload"}
  MaxMems = 2
SPECIFICATION Spec
SYMMETRY Symmetric
INVARIANTS
  OwnedOnce
  RegistryFits
PROPERTIES
  OrphansOnlyFromNewBuffers
  SlotsStable
