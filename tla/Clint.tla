--------------------------------- MODULE Clint ---------------------------------
(***************************************************************************)
(* class Clint of examples/fuxi/sim/interrupt_devices.cpp: a timer that    *)
(* counts every Divider-th tick, a comparison value and two interrupt      *)
(* lines.  The registers have two halves of Half values each; a bus beat   *)
(* carries both, and its lanes say which of them an access touches.        *)
(***************************************************************************)
EXTENDS Integers

CONSTANTS
  Divider,  \* divider_, the clocks per mtime tick
  Half      \* 2^32: half of a std::uint64_t

ASSUME ClintAssumption == Divider \in Nat \ {0} /\ Half \in Nat \ {0, 1}

VARIABLES phase_, time_, compare_, timer_, software_

clintVars == <<phase_, time_, compare_, timer_, software_>>

Full == Half * Half
U64  == 0 .. Full - 1
U32  == 0 .. Half - 1

-----------------------------------------------------------------------------
ClintReset ==
  /\ phase_' = 0
  /\ compare_' = Full - 1
  /\ time_' = 0
  /\ timer_' = FALSE
  /\ software_' = 0

ClintInit ==
  /\ phase_ = 0
  /\ compare_ = Full - 1
  /\ time_ = 0
  /\ timer_ = FALSE
  /\ software_ = 0

(* Mutant: the comparison is made before the registers change.             *)
ClintSettleFirst == timer_' = (time_ >= compare_)
ClintSettle == timer_' = (time_' >= compare_')

(* Mutant: the phase runs one clock too far.                               *)
PhaseEndsLate == phase_ = Divider
PhaseEnds     == phase_ + 1 = Divider

ClintTick ==
  /\ phase_' = IF PhaseEnds THEN 0 ELSE phase_ + 1
  /\ time_' = IF PhaseEnds THEN (time_ + 1) % Full ELSE time_
  /\ UNCHANGED <<compare_, software_>>
  /\ ClintSettle

-----------------------------------------------------------------------------
(* access(): one aligned run of four or eight lanes of a beat at `offset'; *)
(* no lane at all is an access of size 0, anything else is refused.        *)
Lane == 0 .. 7

First(lanes) == CHOOSE l \in lanes : \A k \in lanes : l <= k
Last(lanes)  == CHOOSE l \in lanes : \A k \in lanes : l >= k
Size(lanes)  == IF lanes = {} THEN 0 ELSE Last(lanes) - First(lanes) + 1

Address(offset, lanes) == IF lanes = {} THEN offset ELSE offset + First(lanes)

Accepted(offset, lanes) ==
  lanes = {} \/ /\ Size(lanes) \in {4, 8}
                /\ Address(offset, lanes) % Size(lanes) = 0
                /\ lanes = First(lanes) .. Last(lanes)

(* The register map.                                                       *)
MSIP     == 0
MTIMECMP == 16384  \* 0x4000
MTIME    == 49144  \* 0xbff8

TimerRegister(address, size) ==
  \/ address \in {MTIMECMP, MTIME}
  \/ size = 4 /\ address \in {MTIMECMP + 4, MTIME + 4}

(* OKAY; anything else is a SLVERR that leaves the registers alone.        *)
Responds(offset, lanes) ==
  /\ Accepted(offset, lanes)
  /\ \/ lanes = {}
     \/ Address(offset, lanes) = MSIP /\ Size(lanes) = 4
     \/ TimerRegister(Address(offset, lanes), Size(lanes))

(* Only the high halves have bit 2 of their address set.                   *)
IsHigh(address) == address \in {MTIMECMP + 4, MTIME + 4}

(* What a read returns of a register that holds `value'.  Mutant: always   *)
(* its low half.                                                           *)
PartLow(value, address, size) == IF size = 8 THEN value ELSE value % Half
Part(value, address, size) ==
  IF size = 8 THEN value ELSE IF IsHigh(address) THEN value \div Half ELSE value % Half

(* The register after a write.                                             *)
Merged(old, address, size, value) ==
  IF size = 8 THEN value
  ELSE IF IsHigh(address) THEN (old % Half) + value * Half
  ELSE (old \div Half) * Half + value

(* read_impl: the value of an accepted read.                               *)
ReadValue(offset, lanes) ==
  LET address == Address(offset, lanes)
  IN  IF address = MSIP THEN software_
      ELSE Part(IF address < MTIME THEN compare_ ELSE time_, address, Size(lanes))

(* write_impl, by an accepted access of `value'.                           *)
WriteRegister(address, size, value) ==
  /\ software_' = IF address = MSIP THEN value % 2 ELSE software_
  /\ compare_' = IF address \in {MTIMECMP, MTIMECMP + 4}
                 THEN Merged(compare_, address, size, value) ELSE compare_
  /\ time_' = IF address \in {MTIME, MTIME + 4}
              THEN Merged(time_, address, size, value) ELSE time_
  /\ UNCHANGED phase_
  /\ ClintSettle

ClintWrite(offset, lanes, value) ==
  /\ Responds(offset, lanes) /\ lanes # {}
  /\ WriteRegister(Address(offset, lanes), Size(lanes), value)

(* What the enabled lanes of a beat can carry.                             *)
Value(lanes) == IF Size(lanes) = 8 THEN U64 ELSE U32

ClintNext ==
  \/ ClintReset
  \/ ClintTick
  \/ \E offset \in Nat, lanes \in SUBSET Lane :
       \E value \in Value(lanes) : ClintWrite(offset, lanes, value)

ClintSpec == ClintInit /\ [][ClintNext]_clintVars

-----------------------------------------------------------------------------
(* The members hold what their types allow, and the phase its range.       *)
ClintTypeOK ==
  /\ phase_ \in 0 .. Divider - 1
  /\ time_ \in U64
  /\ compare_ \in U64
  /\ timer_ \in BOOLEAN
  /\ software_ \in {0, 1}

(* mtip is the comparison of the two registers, after every tick and every *)
(* write of a half: it is never a stale level.                             *)
TimerIsLevel == timer_ = (time_ >= compare_)
=============================================================================
