\* A program that offloads to a device that runs behind.
CONSTANTS
  a = a
  b = b
  Ptrs = {a, b}
  Extent = 4
  USizes = {2}
  Values = {0, 1, 2, 3, 4}
  Junk = 9
  NULL = NULL
  Bufs = {b1, b2, b3, b4}
  Misuse = {}
  Faults = {"copy"}
  MaxMems = 3
  Programs <- TestPrograms
  Memories <- OneMemory
  MaxQueue = 2
SPECIFICATION OffloadSpec
SYMMETRY Symmetric
PROPERTIES
  OffloadIsTransparent
