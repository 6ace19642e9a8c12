------------------------------ MODULE BurstCursor ------------------------------
(***************************************************************************)
(* The address arithmetic of an AXI burst: class BurstCursor of            *)
(* src/axi.hpp.  A burst is an AddressPayload record                       *)
(*                                                                         *)
(*   [id, address, length, size, burst, lock, attr]                        *)
(*                                                                         *)
(* where length is AxLEN (one less than the number of beats), size is      *)
(* AxSIZE (the logarithm of the bytes in a beat) and attr stands for the   *)
(* pair AxCACHE/AxPROT, which the fabric only compares for equality.       *)
(*                                                                         *)
(* Everything here is a pure operator.  A C++ lane mask is the set of the  *)
(* lanes it enables; the `throw ProtocolError' of the constructor and of   *)
(* validate_4k_boundary is a FALSE of LegalBurst.                          *)
(***************************************************************************)
EXTENDS Integers, FiniteSets

CONSTANTS
  DataBytes,      \* bytes of one data beat (DataBits / 8), a power of two
  PageBytes,      \* 4096: an AXI burst stays inside one such page
  AddressModulus  \* 2^64: the addresses of the model are 0 .. this - 1

ASSUME BurstAssumption ==
  /\ DataBytes \in Nat \ {0}
  /\ PageBytes \in Nat \ {0}
  /\ AddressModulus \in Nat \ {0}
  /\ AddressModulus % DataBytes = 0

AxSize == 0 .. 7  \* three bits

(* A fact of arithmetic, stated for provers that do not know powers.       *)
ASSUME PowersArePositive == \A n \in AxSize : 2 ^ n \in Nat \ {0}

Lanes == 0 .. DataBytes - 1

BurstType == {"FIXED", "INCR", "WRAP", "RESERVED"}

-----------------------------------------------------------------------------
Beats(p) == p.length + 1

BeatBytes(p) == 2 ^ p.size

(* x & ~(n - 1), for n a power of two.                                     *)
AlignDown(x, n) == x - (x % n)

(* The address of beat i before it is reduced to 64 bits; the code         *)
(* computes it in 128 bits and throws when it does not fit.                *)
WideBeatAddress(p, i) ==
  LET boundary == Beats(p) * BeatBytes(p)
      base     == AlignDown(p.address, boundary)
  IN  CASE p.burst = "FIXED" -> p.address
        [] p.burst = "INCR"  ->
             IF i = 0 THEN p.address
                      ELSE AlignDown(p.address, BeatBytes(p)) + i * BeatBytes(p)
        [] p.burst = "WRAP"  ->
             base + ((p.address - base + i * BeatBytes(p)) % boundary)
        [] OTHER -> AddressModulus

BusWordAddress(p, i) == AlignDown(WideBeatAddress(p, i), DataBytes)

(* The lanes of the bus word that beat i transfers: from the beat's        *)
(* address up to the end of its aligned container.  `last' is a 64-bit     *)
(* sum, so it wraps to 0 in the topmost container of the address space.    *)
LaneMask(p, i) ==
  LET first == WideBeatAddress(p, i)
      last  == (AlignDown(first, BeatBytes(p)) + BeatBytes(p)) % AddressModulus
  IN  {lane \in Lanes : /\ BusWordAddress(p, i) + lane >= first
                        /\ BusWordAddress(p, i) + lane < last}

(* The byte addresses beat i transfers, and those of the whole burst.      *)
BeatBytesAt(p, i) == {BusWordAddress(p, i) + lane : lane \in LaneMask(p, i)}

BurstBytes(p) == UNION {BeatBytesAt(p, i) : i \in 0 .. p.length}

-----------------------------------------------------------------------------
(* validate_shape.                                                         *)
LegalShape(p) ==
  /\ BeatBytes(p) <= DataBytes
  /\ p.burst # "RESERVED"
  /\ p.burst = "FIXED" => Beats(p) <= 16
  /\ p.burst = "WRAP" => /\ Beats(p) \in {2, 4, 8, 16}
                         /\ p.address % BeatBytes(p) = 0

(* beat_address throws for no beat of the burst.                           *)
Representable(p) == \A i \in 0 .. p.length : WideBeatAddress(p, i) < AddressModulus

(* validate_4k_boundary.                                                   *)
InsideOnePage(p) ==
  \A a \in BurstBytes(p) : a \div PageBytes = p.address \div PageBytes

(* make_cursor returns instead of throwing.                                *)
LegalBurst(p) == LegalShape(p) /\ Representable(p) /\ InsideOnePage(p)
=============================================================================
