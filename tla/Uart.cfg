SPECIFICATION Spec
CONSTANTS
  RxDepth = 2
  Trigger <- MCTrigger
  CharacterCycles = 1
  InputPollCycles = 2
  HostBytes = 2
  Loads <- MCLoads
  Stores <- MCStores
INVARIANTS
  IrqIsLevel
  HostInputConserved
  ThreMeansIdle
  ModemChangesReported
