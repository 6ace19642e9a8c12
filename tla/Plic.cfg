SPECIFICATION Spec
CONSTANTS
  Sources = 2
  machine = machine
  supervisor = supervisor
  Context <- MCContext
  MaxPriority = 3
SYMMETRY Contexts
INVARIANTS
  IrqTellsTheTruth
  OneRequestPerSource
  ScanFindsBest
PROPERTIES
  RequestsAreKept
