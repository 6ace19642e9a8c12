SPECIFICATION ConsoleFairSpec
CONSTANTS
  RxDepth = 3
  Trigger <- MCTrigger
  CharacterCycles = 1
  InputPollCycles = 2
  HostBytes = 3
  Loads <- MCLoads
  Stores <- MCStores
  Sources = 1
  UartSource = 1
  Setup <- MCSetup
  MaxResets = 1
INVARIANTS
  NoSilentUart
PROPERTIES
  ConsoleReceivesAll
