SPECIFICATION Spec
CONSTANTS
  Top = 31
  Malformed <- MCMalformed
  Limit = 16
  PageBytes = 1
  Defaults <- MCDefaults
  Invocations <- MCInvocations
  File <- MCFile
  HeaderSize <- MCHeaderSize
  EntrySize <- MCEntrySize
  Tty <- MCTty
  TtyOf <- MCTtyOf
INVARIANTS
  SettleOrderIsExact
  AddressMapIsExact
  LoadIsAllOrNothing
  LoadedBytesAreExact
  NothingBeforeValidation
  HostIsRestored
