----------------------------- MODULE MachineProofs -----------------------------
(***************************************************************************)
(* The CLINT under the simulation loop, for every divider, every width of  *)
(* the registers, every budget of cycles and every set of alarms: the loop *)
(* with its devices implements the loop of SimLoop, mtip is exact, and     *)
(* mtime counts the active clocks.                                         *)
(***************************************************************************)
EXTENDS Machine, SimLoopProofs

(* Division with remainder.                                                *)
LEMMA DivMod ==
  ASSUME NEW x \in Int, NEW m \in Nat \ {0}
  PROVE  x = (x \div m) * m + (x % m) /\ x % m \in 0 .. m - 1 /\ x \div m \in Int
OBVIOUS

LEMMA SmallMultiple ==
  ASSUME NEW d \in Int, NEW m \in Nat \ {0}, d * m < m, d * m > -m
  PROVE  d = 0
<1>1. CASE d >= 1
  <2>1. d * m = m + (d - 1) * m
    OBVIOUS
  <2>2. (d - 1) * m >= 0
    BY <1>1
  <2> QED BY <2>1, <2>2
<1>2. CASE d <= -1
  <2>1. d * m = (d + 1) * m - m
    OBVIOUS
  <2>2. (-(d + 1)) * m >= 0
    BY <1>2
  <2>3. (d + 1) * m <= 0
    BY <2>2
  <2> QED BY <2>1, <2>3
<1> QED BY <1>1, <1>2

LEMMA RemainderIsUnique ==
  ASSUME NEW x \in Int, NEW m \in Nat \ {0}, NEW q \in Int, NEW r \in 0 .. m - 1, x = q * m + r
  PROVE  x % m = r /\ x \div m = q
<1> DEFINE d == (x \div m) - q
<1>1. d \in Int /\ x % m \in 0 .. m - 1
  BY DivMod
<1>2. d * m = (x \div m) * m - q * m
  BY DivMod
<1>3. d * m = r - (x % m)
  BY <1>2, DivMod
<1> HIDE DEF d
<1>4. d * m < m /\ d * m > -m
  BY <1>1, <1>3
<1>5. d = 0
  BY <1>1, <1>4, SmallMultiple
<1>6. r - (x % m) = 0
  BY <1>3, <1>5
<1>7. x \div m = q
  BY <1>5, DivMod DEF d
<1> QED BY <1>1, <1>6, <1>7

LEMMA AddModulo ==
  ASSUME NEW x \in Int, NEW z \in Int, NEW m \in Nat \ {0}
  PROVE  ((x % m) + z) % m = (x + z) % m
<1> DEFINE r == (x + z) % m
           q == (x + z) \div m
           k == x \div m
<1>1. x = k * m + (x % m) /\ k \in Int /\ x % m \in Int
  BY DivMod
<1>2. x + z = q * m + r /\ q \in Int /\ r \in 0 .. m - 1
  BY DivMod
<1> HIDE DEF r, q, k
<1>3. (q - k) * m = q * m - k * m
  BY <1>1, <1>2
<1>4. (x % m) + z = (q - k) * m + r /\ (x % m) + z \in Int /\ q - k \in Int
  BY <1>1, <1>2, <1>3
<1> QED BY <1>2, <1>4, RemainderIsUnique DEF r

-----------------------------------------------------------------------------
(* The CLINT by itself.                                                    *)
LEMMA HalvesFit ==
  ASSUME NEW r \in U32, NEW v \in U32
  PROVE  v * Half + r \in U64 /\ r + v * Half \in U64
<1>1. Half \in Nat /\ r \in 0 .. Half - 1 /\ v \in 0 .. Half - 1
  BY ClintAssumption DEF U32
<1>2. (Half - 1 - v) * Half >= 0 /\ v * Half >= 0
  BY <1>1
<1>3. (Half - 1 - v) * Half = Half * Half - Half - v * Half
  BY <1>1
<1> QED BY <1>1, <1>2, <1>3 DEF U64, Full

LEMMA Halves ==
  ASSUME NEW x \in U64
  PROVE  /\ x \div Half \in U32 /\ x % Half \in U32
         /\ x = (x \div Half) * Half + (x % Half)
<1> DEFINE q == x \div Half
           r == x % Half
<1>1. Half \in Nat \ {0} /\ x \in Int /\ x >= 0 /\ x < Half * Half
  BY ClintAssumption DEF U64, Full
<1>2. x = q * Half + r /\ r \in 0 .. Half - 1 /\ q \in Int
  BY <1>1, DivMod
<1> HIDE DEF q, r
<1>3. q >= 0
  <2> SUFFICES ASSUME q <= -1 PROVE FALSE
    BY <1>2
  <2>1. (-1 - q) * Half >= 0
    BY <1>1, <1>2
  <2>2. (-1 - q) * Half = -Half - q * Half
    BY <1>1, <1>2
  <2> QED BY <1>1, <1>2, <2>1, <2>2
<1>4. q < Half
  <2> SUFFICES ASSUME q >= Half PROVE FALSE
    BY <1>1, <1>2
  <2>1. (q - Half) * Half >= 0
    BY <1>1, <1>2
  <2>2. (q - Half) * Half = q * Half - Half * Half
    BY <1>1, <1>2
  <2> QED BY <1>1, <1>2, <2>1, <2>2
<1> QED BY <1>1, <1>2, <1>3, <1>4 DEF q, r, U32

LEMMA MergedType ==
  ASSUME NEW old \in U64, NEW address, NEW size, NEW v \in IF size = 8 THEN U64 ELSE U32
  PROVE  Merged(old, address, size, v) \in U64
<1>1. CASE size = 8
  BY <1>1 DEF Merged
<1>2. CASE size # 8
  <2>1. v \in U32 /\ old % Half \in U32 /\ old \div Half \in U32
    BY <1>2, Halves
  <2>2. (old % Half) + v * Half \in U64 /\ (old \div Half) * Half + v \in U64
    BY <2>1, HalvesFit
  <2> QED BY <1>2, <2>2 DEF Merged
<1> QED BY <1>1, <1>2

LEMMA FullSize == Full \in Nat /\ Full >= 4 /\ 0 \in U64 /\ Full - 1 \in U64
<1>1. Half \in Nat /\ (Half - 2) * (Half - 2) >= 0 /\ (Half - 2) * 4 >= 0
  BY ClintAssumption
<1>2. (Half - 2) * (Half - 2) = Half * Half - 4 * Half + 4
  BY <1>1
<1>3. Half * Half \in Nat /\ Half * Half >= 4
  BY <1>1, <1>2
<1> QED BY <1>3 DEF Full, U64

LEMMA LevelIsEqual ==
  ASSUME NEW t, NEW x \in U64, NEW y \in U64, t = (x >= y)
  PROVE  t \in BOOLEAN /\ (t <=> x >= y)
<1>1. x \in Int /\ y \in Int
  BY FullSize DEF U64
<1>2. t \in BOOLEAN
  BY <1>1
<1>3. t <=> x >= y
  BY Zenon
<1> QED BY <1>2, <1>3

LEMMA ClintInitType == ClintInit => ClintTypeOK /\ TimerIsLevel
<1> SUFFICES ASSUME ClintInit PROVE ClintTypeOK /\ TimerIsLevel
  OBVIOUS
<1>1. ~(time_ >= compare_) /\ phase_ \in 0 .. Divider - 1
  BY FullSize, ClintAssumption DEF ClintInit
<1>2. (time_ >= compare_) = FALSE
  BY <1>1, FullSize DEF ClintInit
<1> QED BY <1>1, <1>2, FullSize, Zenon DEF ClintInit, ClintTypeOK, TimerIsLevel

LEMMA ClintResetType == ClintReset => ClintTypeOK' /\ TimerIsLevel'
<1> SUFFICES ASSUME ClintReset PROVE ClintTypeOK' /\ TimerIsLevel'
  OBVIOUS
<1>1. ~(time_' >= compare_') /\ phase_' \in 0 .. Divider - 1
  BY FullSize, ClintAssumption DEF ClintReset
<1>2. (time_' >= compare_') = FALSE
  BY <1>1, FullSize DEF ClintReset
<1> QED BY <1>1, <1>2, FullSize, Zenon DEF ClintReset, ClintTypeOK, TimerIsLevel

LEMMA ClintTickType == ClintTypeOK /\ ClintTick => ClintTypeOK' /\ TimerIsLevel'
<1> SUFFICES ASSUME ClintTypeOK, ClintTick PROVE ClintTypeOK' /\ TimerIsLevel'
  OBVIOUS
<1>1. timer_' = (time_' >= compare_')
  BY DEF ClintTick, ClintSettle
<1>3. phase_' \in 0 .. Divider - 1
  BY ClintAssumption DEF ClintTypeOK, ClintTick, PhaseEnds
<1>4. (time_ + 1) % Full \in U64
  BY FullSize DEF ClintTypeOK, U64
<1>5. time_' \in U64 /\ compare_' \in U64 /\ software_' \in {0, 1}
  BY <1>4 DEF ClintTypeOK, ClintTick
<1>6. timer_' \in BOOLEAN
  BY <1>1, <1>5, LevelIsEqual, Zenon
<1> QED BY <1>1, <1>3, <1>5, <1>6, Zenon DEF ClintTypeOK, TimerIsLevel

LEMMA ClintWriteType ==
  ASSUME ClintTypeOK, NEW offset, NEW lanes, NEW v \in Value(lanes), ClintWrite(offset, lanes, v)
  PROVE  ClintTypeOK' /\ TimerIsLevel'
<1> DEFINE a == Address(offset, lanes)
           n == Size(lanes)
<1>0. WriteRegister(a, n, v) /\ v \in IF n = 8 THEN U64 ELSE U32
  BY DEF ClintWrite, Value
<1> HIDE DEF a, n
<1>1. timer_' = (time_' >= compare_')
  BY <1>0 DEF WriteRegister, ClintSettle
<1>3. Merged(compare_, a, n, v) \in U64 /\ Merged(time_, a, n, v) \in U64
  BY <1>0, MergedType, Zenon DEF ClintTypeOK
<1>4. v % 2 \in {0, 1}
  BY <1>0, FullSize, ClintAssumption DEF U64, U32
<1>5. /\ phase_' \in 0 .. Divider - 1 /\ time_' \in U64 /\ compare_' \in U64
      /\ software_' \in {0, 1}
  BY <1>0, <1>3, <1>4, Zenon DEF ClintTypeOK, WriteRegister
<1>6. timer_' \in BOOLEAN
  BY <1>1, <1>5, LevelIsEqual, Zenon
<1> QED BY <1>1, <1>5, <1>6, Zenon DEF ClintTypeOK, TimerIsLevel

(* For every sequence of resets, ticks and writes: mtip is the comparison  *)
(* of mtime and mtimecmp, and the registers never leave their width.       *)
THEOREM ClintIsLevel == ClintSpec => [](ClintTypeOK /\ TimerIsLevel)
<1>1. ClintInit => ClintTypeOK /\ TimerIsLevel
  BY ClintInitType
<1>2. ClintTypeOK /\ TimerIsLevel /\ [ClintNext]_clintVars => (ClintTypeOK /\ TimerIsLevel)'
  <2> SUFFICES ASSUME ClintTypeOK, TimerIsLevel, [ClintNext]_clintVars
               PROVE  ClintTypeOK' /\ TimerIsLevel'
    OBVIOUS
  <2>1. CASE UNCHANGED clintVars
    BY <2>1, Zenon DEF clintVars, ClintTypeOK, TimerIsLevel
  <2>2. CASE ClintReset
    BY <2>2, ClintResetType
  <2>3. CASE ClintTick
    BY <2>3, ClintTickType
  <2>4. ASSUME NEW offset \in Nat, NEW lanes \in SUBSET Lane, NEW v \in Value(lanes),
               ClintWrite(offset, lanes, v)
        PROVE  ClintTypeOK' /\ TimerIsLevel'
    BY <2>4, ClintWriteType
  <2> QED BY <2>1, <2>2, <2>3, <2>4 DEF ClintNext
<1> QED BY <1>1, <1>2, PTL DEF ClintSpec

-----------------------------------------------------------------------------
(* The loop with the CLINT implements the loop.                            *)
LEMMA LoopStep == [MachineNext]_machineVars => [Next]_simVars
<1> SUFFICES ASSUME [MachineNext]_machineVars PROVE [Next]_simVars
  OBVIOUS
<1>1. CASE UNCHANGED machineVars
  BY <1>1 DEF machineVars
<1>2. CASE Drive
  BY <1>2 DEF Drive
<1>3. CASE EndClock
  BY <1>3 DEF EndClock, Next, Host
<1>4. CASE Elsewhere
  BY <1>4 DEF Elsewhere, Next, Host
<1>5. CASE Interrupt
  BY <1>5 DEF Interrupt, Next
<1>6. CASE Guest
  BY <1>6 DEF Guest, Arm, ArmHigh, ArmLow, ReadHigh, ReadLow, ReadAgain, UseTime, Poke,
              Step, Access
<1>7. CASE Terminated /\ UNCHANGED machineVars
  BY <1>7 DEF machineVars
<1> QED BY <1>1, <1>2, <1>3, <1>4, <1>5, <1>6, <1>7 DEF MachineNext

(* Whatever the hart does to its timer, the process is a process of        *)
(* SimLoop: what is proved of the loop holds of the whole machine.         *)
THEOREM MachineImplementsLoop == MachineSpec => Spec
<1>1. MachineInit => Init
  BY DEF MachineInit
<1> QED BY <1>1, LoopStep, PTL DEF MachineSpec, Spec

-----------------------------------------------------------------------------
(* During the reset the hart has done nothing and the CLINT is as reset()  *)
(* leaves it, so that the reset of the first clock cannot undo an alarm.   *)
Fresh ==
  InReset => /\ phase_ = 0 /\ time_ = 0 /\ compare_ = Never /\ timer_ = FALSE /\ software_ = 0
             /\ hart = "idle" /\ alarm = Never /\ base = 0

(* mtimecmp while the hart moves it: all ones below the old high half,     *)
(* then all ones below the new one.                                        *)
Armed ==
  /\ hart \in {"idle", "arm high", "arm low", "read low", "read again", "time known"}
  /\ alarm \in U64 /\ target \in U64
  /\ ~Moving => compare_ = alarm
  /\ hart = "arm high" => compare_ >= alarm /\ compare_ % Half = Half - 1
  /\ hart = "arm low" => compare_ >= target /\ compare_ \div Half = target \div Half

MInv == /\ IInv /\ ClintTypeOK /\ TimerIsLevel
        /\ Fresh /\ Armed /\ AlarmIsExact

LEMMA MachineInitMInv == MachineInit => MInv
<1> SUFFICES ASSUME MachineInit PROVE MInv
  OBVIOUS
<1>1. IInv /\ ClintTypeOK /\ TimerIsLevel
  BY InitIInv, ClintInitType DEF MachineInit
<1>2. Fresh
  BY Zenon DEF MachineInit, ClintInit, Fresh, Never
<1>3. Armed
  BY FullSize DEF MachineInit, ClintInit, Armed, Moving, Never
<1>4. AlarmIsExact
  BY DEF MachineInit, AlarmIsExact
<1> QED BY <1>1, <1>2, <1>3, <1>4 DEF MInv

(* The halves of a register as the lanes of a beat.                        *)
LEMMA LowAccess == Address(MTIMECMP, LowLanes) = MTIMECMP /\ Size(LowLanes) = 4
<1>1. First(LowLanes) \in LowLanes /\ \A k \in LowLanes : First(LowLanes) <= k
  <2>1. \E l \in LowLanes : \A k \in LowLanes : l <= k
    <3>1. 0 \in LowLanes /\ \A k \in LowLanes : 0 <= k
      BY DEF LowLanes
    <3> QED BY <3>1
  <2> QED BY <2>1, Zenon DEF First
<1>2. Last(LowLanes) \in LowLanes /\ \A k \in LowLanes : Last(LowLanes) >= k
  <2>1. \E l \in LowLanes : \A k \in LowLanes : l >= k
    <3>1. 3 \in LowLanes /\ \A k \in LowLanes : 3 >= k
      BY DEF LowLanes
    <3> QED BY <3>1
  <2> QED BY <2>1, Zenon DEF Last
<1>3. First(LowLanes) = 0 /\ Last(LowLanes) = 3 /\ LowLanes # {}
  BY <1>1, <1>2 DEF LowLanes
<1> QED BY <1>3 DEF Address, Size, MTIMECMP

LEMMA HighAccess == Address(MTIMECMP, HighLanes) = MTIMECMP + 4 /\ Size(HighLanes) = 4
<1>1. First(HighLanes) \in HighLanes /\ \A k \in HighLanes : First(HighLanes) <= k
  <2>1. \E l \in HighLanes : \A k \in HighLanes : l <= k
    <3>1. 4 \in HighLanes /\ \A k \in HighLanes : 4 <= k
      BY DEF HighLanes
    <3> QED BY <3>1
  <2> QED BY <2>1, Zenon DEF First
<1>2. Last(HighLanes) \in HighLanes /\ \A k \in HighLanes : Last(HighLanes) >= k
  <2>1. \E l \in HighLanes : \A k \in HighLanes : l >= k
    <3>1. 7 \in HighLanes /\ \A k \in HighLanes : 7 >= k
      BY DEF HighLanes
    <3> QED BY <3>1
  <2> QED BY <2>1, Zenon DEF Last
<1>3. First(HighLanes) = 4 /\ Last(HighLanes) = 7 /\ HighLanes # {}
  BY <1>1, <1>2 DEF HighLanes
<1> QED BY <1>3 DEF Address, Size, MTIMECMP

(* What the stores of the hart do to mtimecmp.                             *)
LEMMA LowStore ==
  ASSUME NEW v, ClintWrite(MTIMECMP, LowLanes, v)
  PROVE  compare_' = (compare_ \div Half) * Half + v /\ time_' = time_ /\ phase_' = phase_
<1>1. WriteRegister(MTIMECMP, 4, v)
  BY LowAccess, Zenon DEF ClintWrite
<1> QED BY <1>1 DEF WriteRegister, Merged, IsHigh, MTIMECMP, MTIME

LEMMA HighStore ==
  ASSUME NEW v, ClintWrite(MTIMECMP, HighLanes, v)
  PROVE  compare_' = (compare_ % Half) + v * Half /\ time_' = time_ /\ phase_' = phase_
<1>1. WriteRegister(MTIMECMP + 4, 4, v)
  BY HighAccess, Zenon DEF ClintWrite
<1> QED BY <1>1 DEF WriteRegister, Merged, IsHigh, MTIMECMP, MTIME

LEMMA HalfValues ==
  /\ \A v \in U32 : v \in Value(LowLanes) /\ v \in Value(HighLanes)
  /\ Half - 1 \in U32
BY LowAccess, HighAccess, ClintAssumption DEF Value, U32

-----------------------------------------------------------------------------
(* The reset of the first clock finds the CLINT as it leaves it.           *)
LEMMA DriveKeepsClint == MInv /\ Drive => UNCHANGED clintVars
BY Zenon DEF MInv, Fresh, Drive, ClintReset, clintVars, Never

LEMMA DriveStep == MInv /\ Drive => ClintTypeOK' /\ TimerIsLevel' /\ Fresh' /\ Armed' /\ AlarmIsExact'
<1> SUFFICES ASSUME MInv, Drive
             PROVE  ClintTypeOK' /\ TimerIsLevel' /\ Fresh' /\ Armed' /\ AlarmIsExact'
  OBVIOUS
<1>1. UNCHANGED <<clintVars, simVars, hartVars>>
  BY DriveKeepsClint, Zenon DEF Drive
<1>2. ClintTypeOK' /\ TimerIsLevel'
  BY <1>1, Zenon DEF MInv, ClintTypeOK, TimerIsLevel, clintVars
<1>3. Fresh' /\ Armed'
  BY <1>1, Zenon DEF MInv, Fresh, Armed, Moving, InReset, clintVars, simVars, hartVars
<1>4. /\ pins'.mtip = timer_ /\ pins'.time = time_ /\ pins'.moving = Moving
      /\ pins'.due = IF Moving THEN {alarm, target} ELSE {alarm}
  BY <1>1 DEF Drive, clintVars
<1>5. timer_ <=> time_ >= compare_
  BY LevelIsEqual DEF MInv, ClintTypeOK, TimerIsLevel
<1>6. time_ \in Nat /\ compare_ \in Nat /\ alarm \in Nat /\ target \in Nat
  <2>1. time_ \in U64 /\ compare_ \in U64 /\ alarm \in U64 /\ target \in U64
    BY Zenon DEF MInv, ClintTypeOK, Armed
  <2> QED BY <2>1, FullSize DEF U64
<1>7. timer_ => \E w \in pins'.due : time_ >= w
  <2>1. CASE ~Moving
    BY <1>4, <1>5, <2>1 DEF MInv, Armed
  <2>2. CASE Moving
    <3>1. alarm \in pins'.due /\ target \in pins'.due
      BY <1>4, <2>2, Zenon
    <3>2. compare_ >= alarm \/ compare_ >= target
      BY <2>2, Zenon DEF MInv, Armed, Moving
    <3>3. time_ >= compare_ => time_ >= alarm \/ time_ >= target
      BY <1>6, <3>2
    <3> QED BY <1>5, <3>1, <3>3, Zenon
  <2> QED BY <2>1, <2>2
<1>8. ~Moving /\ (\A w \in pins'.due : time_ >= w) => timer_
  BY <1>4, <1>5 DEF MInv, Armed
<1>9. AlarmIsExact'
  BY <1>4, <1>7, <1>8, Zenon DEF AlarmIsExact
<1> QED BY <1>2, <1>3, <1>9

LEMMA EndClockCounts ==
  ASSUME MInv, EndClock
  PROVE  \/ ~InReset /\ ClintTick /\ active_cycles' = active_cycles + 1 /\ ~InReset'
         \/ UNCHANGED <<clintVars, active_cycles>> /\ (InReset' => InReset)
<1>0. total_cycles \in Nat /\ ResetCycles \in Nat /\ IInv
  BY SimAssumption DEF MInv, IInv, SimTypeOK
<1>1. ASSUME NEW f \in BOOLEAN, Clock(f), IF InReset THEN UNCHANGED clintVars ELSE ClintTick
      PROVE  \/ ~InReset /\ ClintTick /\ active_cycles' = active_cycles + 1 /\ ~InReset'
             \/ UNCHANGED <<clintVars, active_cycles>> /\ (InReset' => InReset)
  <2>1. total_cycles' = total_cycles + 1
        /\ active_cycles' = IF total_cycles < ResetCycles THEN active_cycles ELSE active_cycles + 1
    BY <1>0, <1>1, ClockCounts DEF Clock
  <2> QED BY <1>0, <1>1, <2>1 DEF InReset
<1>2. ASSUME NEW f \in BOOLEAN, ClockThrows(f), UNCHANGED clintVars
      PROVE  UNCHANGED <<clintVars, active_cycles>> /\ (InReset' => InReset)
  BY <1>2 DEF ClockThrows, InReset
<1> QED BY <1>1, <1>2 DEF EndClock

LEMMA EndClockStep ==
  MInv /\ EndClock => ClintTypeOK' /\ TimerIsLevel' /\ Fresh' /\ Armed' /\ AlarmIsExact'
<1> SUFFICES ASSUME MInv, EndClock
             PROVE  ClintTypeOK' /\ TimerIsLevel' /\ Fresh' /\ Armed' /\ AlarmIsExact'
  OBVIOUS
<1>1. UNCHANGED hartVars /\ stage' = "begin"
  BY DEF EndClock
<1>2. AlarmIsExact'
  BY <1>1 DEF AlarmIsExact
<1>3. CASE ~InReset /\ ClintTick /\ ~InReset'
  <2>1. ClintTypeOK' /\ TimerIsLevel'
    BY <1>3, ClintTickType DEF MInv
  <2>2. Fresh'
    BY <1>3 DEF Fresh
  <2>3. Armed'
    BY <1>1, <1>3, Zenon DEF MInv, Armed, Moving, hartVars, ClintTick
  <2> QED BY <1>2, <2>1, <2>2, <2>3
<1>4. CASE UNCHANGED clintVars /\ (InReset' => InReset)
  <2>1. ClintTypeOK' /\ TimerIsLevel'
    BY <1>4, Zenon DEF MInv, ClintTypeOK, TimerIsLevel, clintVars
  <2>2. Fresh' /\ Armed'
    BY <1>1, <1>4, Zenon DEF MInv, Fresh, Armed, Moving, clintVars, hartVars
  <2> QED BY <1>2, <2>1, <2>2
<1> QED BY <1>3, <1>4, EndClockCounts

(* Everything an access of the hart does not touch.                        *)
LEMMA AccessStep ==
  ASSUME MInv, Access
  PROVE  Fresh' /\ AlarmIsExact'
<1>1. ~InReset' /\ stage # "begin" /\ pins' = pins
  BY DEF Access, InReset, simVars
<1> QED BY <1>1, Zenon DEF MInv, Fresh, AlarmIsExact

LEMMA ArmStep == MInv /\ Arm => ClintTypeOK' /\ TimerIsLevel' /\ Armed'
<1> SUFFICES ASSUME MInv, Arm PROVE ClintTypeOK' /\ TimerIsLevel' /\ Armed'
  OBVIOUS
<1>1. /\ hart = "idle" /\ hart' = "arm high" /\ alarm' = alarm /\ target' \in U64
      /\ ClintWrite(MTIMECMP, LowLanes, Half - 1)
  BY MachineAssumption DEF Arm, Step
<1>2. ClintTypeOK' /\ TimerIsLevel'
  BY <1>1, HalfValues, ClintWriteType DEF MInv
<1>3. alarm \in U64 /\ compare_ = alarm
  BY <1>1 DEF MInv, Armed, Moving
<1> DEFINE q == compare_ \div Half
           r == compare_ % Half
<1>4. compare_ = q * Half + r /\ q \in U32 /\ r \in U32
  BY <1>3, Halves
<1>5. compare_' = q * Half + (Half - 1)
  BY <1>1, LowStore
<1> HIDE DEF q, r
<1>6. Half \in Nat \ {0} /\ q \in Nat /\ r \in 0 .. Half - 1 /\ q * Half \in Int
  BY <1>4, ClintAssumption DEF U32
<1>7. compare_' >= compare_
  BY <1>4, <1>5, <1>6
<1>8. compare_' % Half = Half - 1
  <2>1. compare_' \in Int /\ Half - 1 \in 0 .. Half - 1 /\ q \in Int
    BY <1>5, <1>6
  <2> QED BY <1>5, <1>6, <2>1, RemainderIsUnique
<1> QED BY <1>1, <1>2, <1>3, <1>7, <1>8 DEF Armed, Moving

LEMMA ArmHighStep == MInv /\ ArmHigh => ClintTypeOK' /\ TimerIsLevel' /\ Armed'
<1> SUFFICES ASSUME MInv, ArmHigh PROVE ClintTypeOK' /\ TimerIsLevel' /\ Armed'
  OBVIOUS
<1>1. /\ hart = "arm high" /\ hart' = "arm low" /\ UNCHANGED <<alarm, target>>
      /\ ClintWrite(MTIMECMP, HighLanes, target \div Half)
  BY DEF ArmHigh, Step
<1>2. alarm \in U64 /\ target \in U64 /\ compare_ % Half = Half - 1
  BY <1>1 DEF MInv, Armed
<1> DEFINE q == target \div Half
           r == target % Half
<1>3. target = q * Half + r /\ q \in U32 /\ r \in U32
  BY <1>2, Halves
<1>4. compare_' = (Half - 1) + q * Half
  BY <1>1, <1>2, HighStore
<1>5. ClintTypeOK' /\ TimerIsLevel'
  BY <1>1, <1>3, HalfValues, ClintWriteType DEF MInv
<1> HIDE DEF q, r
<1>6. Half \in Nat \ {0} /\ r \in 0 .. Half - 1 /\ q * Half \in Int
  BY <1>3, ClintAssumption DEF U32
<1>7. compare_' >= target
  BY <1>3, <1>4, <1>6
<1>8. compare_' \div Half = q
  <2>1. compare_' \in Int /\ Half - 1 \in 0 .. Half - 1 /\ q \in Int /\ compare_' = q * Half + (Half - 1)
    BY <1>3, <1>4, <1>6 DEF U32
  <2> QED BY <1>6, <2>1, RemainderIsUnique
<1> QED BY <1>1, <1>2, <1>5, <1>7, <1>8 DEF Armed, Moving, q

LEMMA ArmLowStep == MInv /\ ArmLow => ClintTypeOK' /\ TimerIsLevel' /\ Armed'
<1> SUFFICES ASSUME MInv, ArmLow PROVE ClintTypeOK' /\ TimerIsLevel' /\ Armed'
  OBVIOUS
<1>1. /\ hart = "arm low" /\ hart' = "idle" /\ alarm' = target /\ target' = Never
      /\ ClintWrite(MTIMECMP, LowLanes, target % Half)
  BY DEF ArmLow, Step
<1>2. target \in U64 /\ compare_ \div Half = target \div Half
  BY <1>1 DEF MInv, Armed
<1>3. target % Half \in U32 /\ target = (target \div Half) * Half + (target % Half)
  BY <1>2, Halves
<1>4. compare_' = target
  BY <1>1, <1>2, <1>3, LowStore, Zenon
<1>5. ClintTypeOK' /\ TimerIsLevel'
  BY <1>1, <1>3, HalfValues, ClintWriteType DEF MInv
<1>6. Never \in U64
  BY FullSize DEF Never
<1> QED BY <1>1, <1>2, <1>4, <1>5, <1>6 DEF Armed, Moving

LEMMA PokeStep == MInv /\ Poke => ClintTypeOK' /\ TimerIsLevel' /\ Armed'
<1> SUFFICES ASSUME MInv, Poke PROVE ClintTypeOK' /\ TimerIsLevel' /\ Armed'
  OBVIOUS
<1>1. hart' = "idle" /\ alarm' = compare_' /\ target' = target
  BY DEF Poke, Step
<1>2. PICK poke \in Pokes :
        IF Responds(poke.offset, poke.lanes) /\ poke.lanes # {}
        THEN ClintWrite(poke.offset, poke.lanes, poke.value) ELSE UNCHANGED clintVars
  BY DEF Poke
<1>3. poke.value \in Value(poke.lanes)
  BY MachineAssumption
<1>4. ClintTypeOK' /\ TimerIsLevel'
  <2>1. CASE ClintWrite(poke.offset, poke.lanes, poke.value)
    BY <1>3, <2>1, ClintWriteType DEF MInv
  <2>2. CASE UNCHANGED clintVars
    BY <2>2, Zenon DEF MInv, ClintTypeOK, TimerIsLevel, clintVars
  <2> QED BY <1>2, <2>1, <2>2
<1>5. compare_' \in U64 /\ target \in U64
  BY <1>4 DEF ClintTypeOK, MInv, Armed
<1> QED BY <1>1, <1>4, <1>5 DEF Armed, Moving

(* The loads leave the CLINT and the alarm alone.                          *)
LEMMA LoadStep ==
  MInv /\ (ReadHigh \/ ReadLow \/ ReadAgain \/ UseTime) => ClintTypeOK' /\ TimerIsLevel' /\ Armed'
<1> SUFFICES ASSUME MInv, ReadHigh \/ ReadLow \/ ReadAgain \/ UseTime
             PROVE  ClintTypeOK' /\ TimerIsLevel' /\ Armed'
  OBVIOUS
<1>1. /\ UNCHANGED clintVars /\ UNCHANGED <<alarm, target>> /\ ~Moving
      /\ hart' \in {"idle", "read low", "read again", "time known"}
  BY DEF ReadHigh, ReadLow, ReadAgain, UseTime, Step, Moving
<1>2. ClintTypeOK' /\ TimerIsLevel'
  BY <1>1, Zenon DEF MInv, ClintTypeOK, TimerIsLevel, clintVars
<1>3. Armed'
  BY <1>1 DEF MInv, Armed, Moving, clintVars
<1> QED BY <1>2, <1>3

LEMMA GuestStep ==
  MInv /\ Guest => ClintTypeOK' /\ TimerIsLevel' /\ Fresh' /\ Armed' /\ AlarmIsExact'
<1> SUFFICES ASSUME MInv, Guest
             PROVE  ClintTypeOK' /\ TimerIsLevel' /\ Fresh' /\ Armed' /\ AlarmIsExact'
  OBVIOUS
<1>1. Access
  BY DEF Guest, Arm, ArmHigh, ArmLow, ReadHigh, ReadLow, ReadAgain, UseTime, Poke, Step
<1>2. ClintTypeOK' /\ TimerIsLevel' /\ Armed'
  BY ArmStep, ArmHighStep, ArmLowStep, PokeStep, LoadStep DEF Guest
<1> QED BY <1>1, <1>2, AccessStep

LEMMA NextKeepsMInv == MInv /\ [MachineNext]_machineVars => MInv'
<1> SUFFICES ASSUME MInv, [MachineNext]_machineVars PROVE MInv'
  OBVIOUS
<1>1. IInv'
  BY LoopStep, NextKeepsIInv DEF MInv
<1>2. CASE UNCHANGED <<clintVars, pinVars, hartVars>> /\ total_cycles' = total_cycles
  <2>1. ClintTypeOK' /\ TimerIsLevel'
    BY <1>2, Zenon DEF MInv, ClintTypeOK, TimerIsLevel, clintVars
  <2>2. Fresh' /\ Armed'
    BY <1>2, Zenon DEF MInv, Fresh, Armed, Moving, InReset, clintVars, hartVars
  <2>3. AlarmIsExact'
    BY <1>2, Zenon DEF MInv, AlarmIsExact, pinVars
  <2> QED BY <1>1, <2>1, <2>2, <2>3 DEF MInv
<1>3. CASE UNCHANGED machineVars \/ Elsewhere \/ Interrupt
  <2>1. UNCHANGED <<clintVars, pinVars, hartVars>>
    BY <1>3 DEF machineVars, Elsewhere, Interrupt
  <2>2. total_cycles' = total_cycles
    BY <1>3 DEF machineVars, simVars, Elsewhere, Interrupt, Configure, NotConfigured, LoopTest,
                AfterLoop, Report, handle_interrupt, hostVars
  <2> QED BY <1>2, <2>1, <2>2
<1>4. CASE Drive
  BY <1>1, <1>4, DriveStep DEF MInv
<1>5. CASE EndClock
  BY <1>1, <1>5, EndClockStep DEF MInv
<1>6. CASE Guest
  BY <1>1, <1>6, GuestStep DEF MInv
<1> QED BY <1>3, <1>4, <1>5, <1>6 DEF MachineNext

LEMMA MachineInvariant == MachineSpec => []MInv
BY MachineInitMInv, NextKeepsMInv, PTL DEF MachineSpec

(* For every divider, register width and alarm: in each clock the model    *)
(* sees mtip exactly when rtc_time has reached the alarm, and an alarm     *)
(* moved in three stores never rings early.                                *)
THEOREM MachineAlarmIsExact == MachineSpec => []AlarmIsExact
<1>1. MInv => AlarmIsExact
  BY DEF MInv
<1> QED BY <1>1, MachineInvariant, PTL

-----------------------------------------------------------------------------
Kept == base \in Int /\ MtimeKeepsTime

LEMMA WholeRange == Full * Divider \in Nat \ {0}
<1>1. Full \in Nat \ {0} /\ Divider \in Nat \ {0}
  BY FullSize, ClintAssumption
<1>2. (Full - 1) * (Divider - 1) >= 0
  BY <1>1
<1>3. (Full - 1) * (Divider - 1) = Full * Divider - Full - Divider + 1
  BY <1>1
<1> QED BY <1>1, <1>2, <1>3

(* A tick adds one clock to the time, also where the counter wraps.        *)
LEMMA TickAddsOne ==
  ASSUME ClintTypeOK, ClintTick
  PROVE  (time_' * Divider + phase_') % (Full * Divider)
           = ((time_ * Divider + phase_) + 1) % (Full * Divider)
<1> DEFINE m == Full * Divider
<1>1. /\ time_ \in 0 .. Full - 1 /\ phase_ \in 0 .. Divider - 1
      /\ Divider \in Nat \ {0} /\ Full \in Nat \ {0} /\ m \in Nat \ {0}
  BY FullSize, ClintAssumption, WholeRange DEF ClintTypeOK, U64
<1>2. CASE ~PhaseEnds
  BY <1>1, <1>2 DEF ClintTick
<1>3. CASE PhaseEnds
  <2>1. /\ phase_' = 0 /\ time_' = (time_ + 1) % Full
        /\ (time_ * Divider + phase_) + 1 = (time_ + 1) * Divider
    BY <1>1, <1>3 DEF ClintTick, PhaseEnds
  <2>2. CASE time_ + 1 < Full
    <3>1. time_' = time_ + 1
      BY <1>1, <2>1, <2>2
    <3> QED BY <1>1, <2>1, <3>1
  <2>3. CASE time_ + 1 = Full
    <3>1. time_' = 0
      <4>1. Full = 1 * Full + 0 /\ 0 \in 0 .. Full - 1
        BY <1>1
      <4> QED BY <1>1, <2>1, <2>3, <4>1, RemainderIsUnique
    <3>2. time_' * Divider + phase_' = 0 /\ (time_ * Divider + phase_) + 1 = m
      BY <1>1, <2>1, <2>3, <3>1
    <3> HIDE DEF m
    <3>3. m = 1 * m + 0 /\ 0 = 0 * m + 0 /\ 0 \in 0 .. m - 1
      BY <1>1
    <3>4. m % m = 0 /\ 0 % m = 0
      BY <1>1, <3>3, RemainderIsUnique
    <3> QED BY <3>2, <3>4 DEF m
  <2> QED BY <1>1, <2>2, <2>3
<1> QED BY <1>2, <1>3

(* Equal remainders stay equal.                                            *)
LEMMA SameRemainder ==
  ASSUME NEW x \in Int, NEW y \in Int, NEW z \in Int, NEW m \in Nat \ {0}, x % m = y % m
  PROVE  (x + z) % m = (y + z) % m
<1>1. ((x % m) + z) % m = (x + z) % m
  BY AddModulo
<1>2. ((y % m) + z) % m = (y + z) % m
  BY AddModulo
<1> QED BY <1>1, <1>2

LEMMA KeptValues ==
  ASSUME MInv, Kept
  PROVE  /\ time_ * Divider + phase_ \in Int /\ base + active_cycles \in Int
         /\ active_cycles \in Int /\ Full * Divider \in Nat \ {0} /\ Divider \in Int
         /\ time_ \in Int /\ phase_ \in Int
         /\ (time_ * Divider + phase_) % (Full * Divider) = (base + active_cycles) % (Full * Divider)
<1>1. time_ \in U64 /\ phase_ \in 0 .. Divider - 1 /\ IInv /\ base \in Int
  BY DEF MInv, ClintTypeOK, Kept
<1>2. active_cycles \in Int /\ time_ \in Int /\ phase_ \in Int /\ Divider \in Int
  BY <1>1, SimAssumption, ClintAssumption, FullSize DEF IInv, SimTypeOK, U64
<1> QED BY <1>1, <1>2, WholeRange DEF Kept, MtimeKeepsTime

LEMMA EndClockKeepsTime == MInv /\ Kept /\ EndClock => Kept'
<1> SUFFICES ASSUME MInv, Kept, EndClock PROVE Kept'
  OBVIOUS
<1>0. base' = base /\ base \in Int
  BY DEF EndClock, hartVars, Kept
<1>1. CASE UNCHANGED <<clintVars, active_cycles>>
  BY <1>0, <1>1, Zenon DEF Kept, MtimeKeepsTime, clintVars
<1>2. CASE ClintTick /\ active_cycles' = active_cycles + 1
  <2> DEFINE x == time_ * Divider + phase_
             y == base + active_cycles
             m == Full * Divider
  <2>1. (time_' * Divider + phase_') % m = (x + 1) % m
    BY <1>2, TickAddsOne DEF MInv
  <2>2. base' + active_cycles' = y + 1
    BY <1>0, <1>2, KeptValues
  <2>3. x \in Int /\ y \in Int /\ m \in Nat \ {0} /\ x % m = y % m
    BY KeptValues
  <2>4. (x + 1) % m = (y + 1) % m
    <3>1. 1 \in Int
      OBVIOUS
    <3> HIDE DEF x, y, m
    <3> QED BY <2>3, <3>1, SameRemainder, Zenon
  <2> QED BY <1>0, <2>1, <2>2, <2>4, Zenon DEF Kept, MtimeKeepsTime
<1> QED BY <1>1, <1>2, EndClockCounts

LEMMA PokeKeepsTime == MInv /\ Kept /\ Poke => Kept'
<1> SUFFICES ASSUME MInv, Kept, Poke PROVE Kept'
  OBVIOUS
<1> DEFINE x == time_ * Divider + phase_
           y == base + active_cycles
           m == Full * Divider
           d == (time_' - time_) * Divider
<1>1. base' = (base + d) % m /\ active_cycles' = active_cycles
  BY DEF Poke, Step, Access, simVars
<1>2. phase_' = phase_
  BY DEF Poke, ClintWrite, WriteRegister, clintVars
<1>3. time_' \in Int
  BY PokeStep, FullSize DEF ClintTypeOK, U64
<1>4. /\ x \in Int /\ y \in Int /\ m \in Nat \ {0} /\ x % m = y % m /\ d \in Int
      /\ base \in Int /\ active_cycles \in Int
  BY <1>3, KeptValues DEF Kept
<1>5. x + d = time_' * Divider + phase_'
  BY <1>2, <1>3, KeptValues
<1>6. y + d = (base + d) + active_cycles
  BY <1>4
<1> HIDE DEF x, y, m, d
<1>7. base' \in Int /\ base + d \in Int
  BY <1>1, <1>4
<1>8. (x + d) % m = (y + d) % m
  <2>1. x \in Int /\ y \in Int /\ d \in Int
    BY <1>4, Zenon
  <2>2. m \in Nat \ {0} /\ x % m = y % m
    BY <1>4, Zenon
  <2> QED BY <2>1, <2>2, SameRemainder, Zenon
<1>9. (base' + active_cycles') % m = ((base + d) + active_cycles) % m
  BY <1>1, <1>4, <1>7, AddModulo
<1> QED BY <1>5, <1>6, <1>7, <1>8, <1>9, Zenon DEF Kept, MtimeKeepsTime, m

LEMMA NextKeepsTime == MInv /\ Kept /\ [MachineNext]_machineVars => Kept'
<1> SUFFICES ASSUME MInv, Kept, [MachineNext]_machineVars PROVE Kept'
  OBVIOUS
<1>1. CASE UNCHANGED <<time_, phase_, base, active_cycles>>
  BY <1>1, Zenon DEF Kept, MtimeKeepsTime
<1>2. CASE UNCHANGED machineVars \/ Elsewhere \/ Interrupt
  <2>1. UNCHANGED <<time_, phase_, base>>
    BY <1>2 DEF machineVars, Elsewhere, Interrupt, clintVars, hartVars
  <2>2. active_cycles' = active_cycles
    BY <1>2 DEF machineVars, simVars, Elsewhere, Interrupt, Configure, NotConfigured, LoopTest,
                AfterLoop, Report, handle_interrupt, hostVars
  <2> QED BY <1>1, <2>1, <2>2
<1>3. CASE Drive
  BY <1>1, <1>3, DriveKeepsClint DEF Drive, clintVars, hartVars, simVars
<1>4. CASE ReadHigh \/ ReadLow \/ ReadAgain \/ UseTime
  BY <1>1, <1>4 DEF ReadHigh, ReadLow, ReadAgain, UseTime, Step, Access, simVars, clintVars
<1>5. CASE Arm \/ ArmHigh \/ ArmLow
  <2>1. UNCHANGED <<base, active_cycles>>
    BY <1>5 DEF Arm, ArmHigh, ArmLow, Step, Access, simVars
  <2>2. UNCHANGED <<time_, phase_>>
    BY <1>5, LowStore, HighStore DEF Arm, ArmHigh, ArmLow
  <2> QED BY <1>1, <2>1, <2>2
<1> QED BY <1>2, <1>3, <1>4, <1>5, EndClockKeepsTime, PokeKeepsTime DEF MachineNext, Guest

(* mtime is exact for every divider and width: one tick for every Divider  *)
(* active clocks since the last write of it, none in reset, none lost or   *)
(* gained where a half or the whole counter wraps.                         *)
THEOREM MachineMtimeKeepsTime == MachineSpec => []MtimeKeepsTime
<1>1. MachineInit => Kept
  <2> SUFFICES ASSUME MachineInit PROVE Kept
    OBVIOUS
  <2>1. time_ = 0 /\ phase_ = 0 /\ base = 0 /\ active_cycles = 0 /\ Divider \in Nat
    BY ClintAssumption DEF MachineInit, ClintInit, Init
  <2>2. time_ * Divider + phase_ = base + active_cycles
    BY <2>1
  <2> QED BY <2>1, <2>2 DEF Kept, MtimeKeepsTime
<1>2. Kept => MtimeKeepsTime
  BY DEF Kept
<1> QED BY <1>1, <1>2, MachineInvariant, NextKeepsTime, PTL DEF MachineSpec
=============================================================================
