\* A loop with <=, and a branch that changes its condition.
CONSTANTS
  Jobs <- ControlJobs
  Scripts <- TestScripts
  GroupSize = 2
  ScratchSize = 2
  Junk = 9
  Faults = {}
  None = None
SPECIFICATION Spec
INVARIANTS
  MeansWhatCMeans
