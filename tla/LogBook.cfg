\* Errors and times of a few sessions.
CONSTANTS
  Errors = {e1, e2}
  Invalid = Invalid
  Names = {n1, n2, n3}
  FirstTick = 1
  MaxLogs = 3
  MaxTick = 3
  MaxCalls = 1
SPECIFICATION Spec
SYMMETRY Symmetric
INVARIANTS
  TypeOK
  IdsFindTheirErrors
  TablesFit
PROPERTIES
  ImplementsStopwatches
