------------------------------ MODULE AddressSpace ------------------------------
(***************************************************************************)
(* The frozen address map and the memory-like devices behind it: class     *)
(* AddressSpace and the RamDevice, RomDevice and ExitDevice of             *)
(* src/devices.cpp, seen through the Device interface of src/device.hpp.   *)
(*                                                                         *)
(* A mapping is [base, size, device]; the same device may appear in two    *)
(* mappings (an alias).  A device has a kind and a capacity in bytes, and  *)
(* its state is a function from its offsets to byte values.  The code      *)
(* register of an exit device is such a state too.                         *)
(***************************************************************************)
EXTENDS Integers, FiniteSets

CONSTANTS
  Mappings,    \* the set of mappings installed by AddressSpace::map
  Kind,        \* [device -> {"ram", "rom", "exit"}]
  Capacity,    \* [device -> bytes of the device]
  Value,       \* the byte values
  Zero         \* the byte 0

Device == DOMAIN Kind

End(m) == m.base + m.size

ASSUME AddressSpaceAssumption ==
  /\ \A m \in Mappings : /\ m.base \in Nat
                         /\ m.size \in Nat \ {0}
                         /\ m.device \in Device
  /\ \A m, n \in Mappings : m # n => End(m) <= n.base \/ End(n) <= m.base
  /\ Kind \in [Device -> {"ram", "rom", "exit"}]
  /\ Capacity \in [Device -> Nat \ {0}]
  /\ Zero \in Value

NoMapping == [base |-> 0, size |-> 0, device |-> "none"]

-----------------------------------------------------------------------------
(* resolve(address, 1).                                                    *)
Resolve(a) ==
  IF \E m \in Mappings : m.base <= a /\ a < End(m)
  THEN CHOOSE m \in Mappings : m.base <= a /\ a < End(m)
  ELSE NoMapping

SupportsBurst(d)     == Kind[d] \in {"ram", "rom"}
SupportsExclusive(d) == Kind[d] = "ram"
IsExit(d)            == Kind[d] = "exit"

Response == {"OKAY", "EXOKAY", "SLVERR", "DECERR"}

ResponseIsSuccess(response) == response \in {"OKAY", "EXOKAY"}

(* Mutant: the better response wins.                                       *)
CombineResponseBest(lhs, rhs) ==
  IF "OKAY" \in {lhs, rhs} THEN "OKAY" ELSE lhs

CombineResponse(lhs, rhs) ==
  IF "DECERR" \in {lhs, rhs} THEN "DECERR"
  ELSE IF "SLVERR" \in {lhs, rhs} THEN "SLVERR"
  ELSE IF "EXOKAY" \in {lhs, rhs} THEN "EXOKAY"
  ELSE "OKAY"

InBounds(d, offset, count) == offset + count <= Capacity[d]

(* The response of Device::read for `count' bytes at `offset'.             *)
ReadResponse(d, offset, count) ==
  IF InBounds(d, offset, count) THEN "OKAY" ELSE "SLVERR"

(* The response of Device::write; `strobe' is the set of the positions in  *)
(* 0 .. count - 1 that are written.  ROM refuses every bus write, the exit *)
(* register takes only a write of all of itself.                           *)
RamWriteResponse(d, offset, count) ==
  IF InBounds(d, offset, count) THEN "OKAY" ELSE "SLVERR"

RomWriteResponse == "SLVERR"

ExitWriteResponse(d, offset, count, strobe) ==
  IF offset = 0 /\ count = Capacity[d] /\ strobe = 0 .. count - 1
  THEN "OKAY" ELSE "SLVERR"

WriteResponse(d, offset, count, strobe) ==
  CASE Kind[d] = "ram"  -> RamWriteResponse(d, offset, count)
    [] Kind[d] = "rom"  -> RomWriteResponse
    [] Kind[d] = "exit" -> ExitWriteResponse(d, offset, count, strobe)

(* The contents of a device after bytes[i], i \in strobe, went to          *)
(* offset + i.                                                             *)
Written(contents, offset, strobe, bytes) ==
  [o \in DOMAIN contents |-> IF o - offset \in strobe THEN bytes[o - offset]
                                                      ELSE contents[o]]

(* AddressSpace::reset calls Device::reset of every mapped device once:    *)
(* RAM and ROM keep their bytes, the exit code is cleared.                 *)
ResetDevices(memory) ==
  [d \in Device |-> IF Kind[d] = "exit" /\ \E m \in Mappings : m.device = d
                    THEN [o \in DOMAIN memory[d] |-> Zero]
                    ELSE memory[d]]
=============================================================================
