\* A condition and a reduction whose first operand is not their variable.
CONSTANTS
  Jobs <- OperandJobs
  Scripts <- TestScripts
  GroupSize = 2
  ScratchSize = 2
  Junk = 9
  Faults = {}
  None = None
SPECIFICATION Spec
INVARIANTS
  MeansWhatCMeans
