SPECIFICATION SystemSpec
CONSTANTS
  DataBytes = 2
  PageBytes = 16
  AddressModulus = 32
  Mappings <- EdgeMappings
  Kind <- EdgeKind
  Capacity <- EdgeCapacity
  Value <- Values
  Zero <- MCZero
  NumPorts = 2
  AddressDepth = 1
  WriteDataDepth = 1
  ResponseDepth = 1
  RouteDepth = 2
  AddressLimit = 31
  ResetDevicesToo = TRUE
  AddressPayload <- Payloads
  WriteBeat <- WBeats
  Plans <- ResponsePlans
  Restarts <- NoPlans
  MaxEpoch = 0
  MayMisbehave = TRUE
INVARIANTS
  ResponsesTellTheTruth
  RoutesStayInTheirMapping
  NoPartialBurst
  ExitCodeIsAcknowledged
PROPERTIES
  ExclusiveMeansUnchanged
