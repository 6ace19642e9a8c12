SPECIFICATION BindingSpec
CONSTANTS
  Capacity = 3
  Value <- MCValue
  WordBits = 4
  ByteBits = 2
  NumPorts = 2
  IdBits = 3
  DataBytes = 2
  ScalarBits = 3
  Payload <- MCPayload
  Watched = 1
INVARIANTS
  PortsKeepApart
PROPERTIES
  RingIsFifo
