SPECIFICATION SystemSpec
CONSTANTS
  DataBytes = 1
  PageBytes = 16
  AddressModulus = 32
  Mappings <- MCMappings
  Kind <- MCKind
  Capacity <- MCCapacity
  Value <- Values
  Zero <- MCZero
  NumPorts = 2
  AddressDepth = 1
  WriteDataDepth = 2
  ResponseDepth = 1
  RouteDepth = 2
  AddressLimit = 31
  ResetDevicesToo = TRUE
  AddressPayload <- Payloads
  WriteBeat <- WBeats
  Plans <- TrafficPlans
  Restarts <- RestartPlans
  MaxEpoch = 1
  MayMisbehave = FALSE
INVARIANTS
  NoRingOverflows
  BurstCommitIsAtomic
  WritesConserved
  ReadsConserved
  NoFalseAlarm
PROPERTIES
  WaitingPortsMoveUp
  ExclusiveMeansUnchanged
  ResetDiscardsWrites
