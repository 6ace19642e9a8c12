-------------------------------- MODULE Machine --------------------------------
(***************************************************************************)
(* The simulation loop (SimLoop.tla) with the CLINT of the Fuxi platform   *)
(* (Clint.tla) on its bus and sideband, and an RV32 hart.  The hart moves  *)
(* mtimecmp by the low/high/low sequence of stores of                      *)
(* examples/fuxi/software/peripheral_irq.S, and reads mtime in halves      *)
(* until the high half is stable: the usual RV32 way to read a 64-bit      *)
(* timer, which no program of the repository uses but any guest may.       *)
(*                                                                         *)
(* A clock has three stages: begin_cycle and SidebandBinding::drive, then  *)
(* the accesses that the fabric commits in it, then end_cycle.  Each store *)
(* or load of the hart falls into some clock.                              *)
(***************************************************************************)
EXTENDS SimLoop, Clint

CONSTANTS
  Alarms,   \* values the hart arms mtimecmp with
  Pokes     \* other writes: [offset, lanes, value]

ASSUME MachineAssumption ==
  /\ Alarms \subseteq U64
  /\ \A poke \in Pokes : poke.value \in Value(poke.lanes)

VARIABLES
  stage,    \* of a clock: "begin", "commit", or "end" after an access
  pins,     \* irq_mtip and rtc_time of the model, and the alarms of the hart
  hart,     \* where the program of the hart is
  alarm,    \* mtimecmp as the hart last completed it
  target,   \* the value being armed
  hi, lo,   \* halves of mtime read so far
  began,    \* mtime when the first of them was read
  base      \* mtime at active cycle 0, in clocks, by the last write of it

pinVars  == <<stage, pins>>
hartVars == <<hart, alarm, target, hi, lo, began, base>>
machineVars == <<simVars, clintVars, pinVars, hartVars>>

LowLanes  == 0 .. 3
HighLanes == 4 .. 7
Never     == Full - 1

NoPins    == [mtip |-> FALSE, time |-> 0, moving |-> FALSE, due |-> {Never}]

MachineInit ==
  /\ Init
  /\ ClintInit
  /\ stage = "begin"
  /\ pins = NoPins
  /\ hart = "idle" /\ alarm = Never /\ target = Never
  /\ hi = 0 /\ lo = 0 /\ began = 0
  /\ base = 0

-----------------------------------------------------------------------------
Moving == hart \in {"arm high", "arm low"}

(* begin_cycle(reset), with the reset of the CLINT, and drive.             *)
Drive ==
  /\ pc = "clock" /\ stage = "begin"
  /\ IF InReset /\ ~was_reset THEN ClintReset ELSE UNCHANGED clintVars
  /\ pins' = [mtip |-> timer_', time |-> time_', moving |-> Moving,
              due |-> IF Moving THEN {alarm, target} ELSE {alarm}]
  /\ stage' = "commit"
  /\ UNCHANGED <<simVars, hartVars>>

(* The rest of the clock: the commit of a clock without an access, or the  *)
(* end of one with accesses, and the tick of end_cycle.                    *)
EndClock ==
  /\ stage # "begin"
  /\ stage' = "begin" /\ pins' = NoPins
  /\ \/ /\ \E finishes \in BOOLEAN : Clock(finishes)
        /\ IF InReset THEN UNCHANGED clintVars ELSE ClintTick
     \/ (\E finishes \in BOOLEAN : ClockThrows(finishes)) /\ UNCHANGED clintVars
  /\ UNCHANGED hartVars

Elsewhere ==
  /\ Configure \/ NotConfigured \/ LoopTest \/ AfterLoop \/ Report
  /\ UNCHANGED <<clintVars, pinVars, hartVars>>

Interrupt == handle_interrupt /\ UNCHANGED <<clintVars, pinVars, hartVars>>

-----------------------------------------------------------------------------
(* The hart waits for its loads and stores: one of them a clock.           *)
Access == /\ pc = "clock" /\ stage = "commit" /\ ~InReset
          /\ stage' = "end"
          /\ UNCHANGED <<simVars, pins>>

Step(from, to) == Access /\ hart = from /\ hart' = to

(* sw -1, 0(mtimecmp); sw hi, 4(mtimecmp); sw lo, 0(mtimecmp), the high    *)
(* half being 0 in peripheral_irq.S.                                       *)
Arm ==
  /\ Step("idle", "arm high")
  /\ target' \in Alarms
  /\ ClintWrite(MTIMECMP, LowLanes, Half - 1)
  /\ UNCHANGED <<alarm, hi, lo, began, base>>

ArmHigh ==
  /\ Step("arm high", "arm low")
  /\ ClintWrite(MTIMECMP, HighLanes, target \div Half)
  /\ UNCHANGED <<alarm, target, hi, lo, began, base>>

ArmLow ==
  /\ Step("arm low", "idle")
  /\ ClintWrite(MTIMECMP, LowLanes, target % Half)
  /\ alarm' = target /\ target' = Never
  /\ UNCHANGED <<hi, lo, began, base>>

(* lw hi, 4(mtime); lw lo, 0(mtime); lw again, 4(mtime); bne hi, again.    *)
ReadHigh ==
  /\ Step("idle", "read low")
  /\ hi' = ReadValue(MTIME, HighLanes)
  /\ began' = time_
  /\ UNCHANGED <<clintVars, alarm, target, lo, base>>

ReadLow ==
  /\ Step("read low", "read again")
  /\ lo' = ReadValue(MTIME, LowLanes)
  /\ UNCHANGED <<clintVars, alarm, target, hi, began, base>>

ReadAgain ==
  /\ Access /\ hart = "read again"
  /\ IF ReadValue(MTIME, HighLanes) = hi
     THEN hart' = "time known" /\ UNCHANGED <<hi, began>>
     ELSE hart' = "read low" /\ hi' = ReadValue(MTIME, HighLanes) /\ began' = time_
  /\ UNCHANGED <<clintVars, alarm, target, lo, base>>

UseTime ==
  /\ Step("time known", "idle")
  /\ hi' = 0 /\ lo' = 0 /\ began' = 0
  /\ UNCHANGED <<clintVars, alarm, target, base>>

(* Any other write: a refused one changes nothing.                         *)
Poke ==
  /\ Step("idle", "idle")
  /\ \E poke \in Pokes :
       IF Responds(poke.offset, poke.lanes) /\ poke.lanes # {}
       THEN ClintWrite(poke.offset, poke.lanes, poke.value)
       ELSE UNCHANGED clintVars
  /\ alarm' = compare_'
  /\ base' = (base + (time_' - time_) * Divider) % (Full * Divider)
  /\ UNCHANGED <<target, hi, lo, began>>

Guest == Arm \/ ArmHigh \/ ArmLow \/ ReadHigh \/ ReadLow \/ ReadAgain \/ UseTime \/ Poke

MachineNext ==
  \/ Drive
  \/ EndClock
  \/ Elsewhere
  \/ Interrupt
  \/ Guest
  \/ Terminated /\ UNCHANGED machineVars

(* The process runs, and a clock has only finitely many accesses.          *)
MachineSpec ==
  /\ MachineInit /\ [][MachineNext]_machineVars
  /\ WF_machineVars(Drive) /\ WF_machineVars(EndClock) /\ WF_machineVars(Elsewhere)

-----------------------------------------------------------------------------
(* In every clock the model sees mtip raised exactly when rtc_time, on the *)
(* pins of the same clock, has reached the alarm; while the alarm is being *)
(* moved by three stores, never before the earlier of the old and the new. *)
AlarmIsExact ==
  stage # "begin" =>
    /\ pins.mtip => \E w \in pins.due : pins.time >= w
    /\ ~pins.moving /\ (\A w \in pins.due : pins.time >= w) => pins.mtip

(* The 32-bit reads of the CLINT serve the usual high/low/high loop of an  *)
(* RV32 guest: the two halves of mtime that it puts together are a time    *)
(* between the start and the end of its read, also when the low half       *)
(* overflows or the whole counter wraps in between.                        *)
TimeReadIsConsistent ==
  hart = "time known" => (hi * Half + lo - began) % Full <= (time_ - began) % Full

(* mtime counts the active clocks, Divider to a tick, from the last value  *)
(* written to it: it stands still during reset and never skips.            *)
MtimeKeepsTime ==
  (time_ * Divider + phase_) % (Full * Divider) = (base + active_cycles) % (Full * Divider)
=============================================================================
