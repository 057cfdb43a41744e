\* Kernels as the tests have them, and some that are refused.
CONSTANTS
  Jobs <- CarefulJobs
  Scripts <- TestScripts
  GroupSize = 2
  ScratchSize = 2
  Junk = 9
  Faults = {"annotate", "fix", "build", "grid"}
  None = None
SPECIFICATION Spec
INVARIANTS
  TypeOK
  MeansWhatCMeans
PROPERTIES
  JitReturns
