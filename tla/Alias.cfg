SPECIFICATION SystemSpec
CONSTANTS
  DataBytes = 1
  PageBytes = 16
  AddressModulus = 32
  Mappings <- AliasMappings
  Kind <- MCKind
  Capacity <- MCCapacity
  Value <- Values
  Zero <- MCZero
  NumPorts = 2
  AddressDepth = 1
  WriteDataDepth = 1
  ResponseDepth = 1
  RouteDepth = 2
  AddressLimit = 31
  ResetDevicesToo = TRUE
  AddressPayload <- Payloads
  WriteBeat <- WBeats
  Plans <- AliasPlans
  Restarts <- NoPlans
  MaxEpoch = 0
  MayMisbehave = FALSE
PROPERTIES
  ExclusiveMeansUnchanged
