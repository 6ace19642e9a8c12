-------------------------------- MODULE SimLoop --------------------------------
(***************************************************************************)
(* The simulator process: main and run_simulation of src/sim_main.cpp,     *)
(* with begin_cycle and end_cycle of src/platform.cpp.                     *)
(*                                                                         *)
(* One turn of the while loop is one clock of the fabric (AxiFabric.tla),  *)
(* here reduced to what the loop can see of it:                            *)
(*                                                                         *)
(*   "running"   commit returned and no exit is recorded                   *)
(*   "pass"      the response of an exit write with code 0 was taken       *)
(*   "fail"      the same with another code                                *)
(*   "protocol"  commit threw a ProtocolError                              *)
(*   "broken"    the tick of a device threw another exception              *)
(*                                                                         *)
(* The model may call $finish in any clock, and SIGINT may arrive between  *)
(* any two reads of `interrupted'.                                         *)
(***************************************************************************)
EXTENDS Integers

CONSTANTS
  MaxCycles,      \* --max-cycles
  ResetCycles,    \* --reset-cycles
  CounterModulus  \* 2^64: the counters are std::uint64_t

ASSUME SimAssumption ==
  /\ MaxCycles \in Nat \ {0}
  /\ ResetCycles \in Nat
  /\ CounterModulus \in Nat
  /\ MaxCycles + ResetCycles < CounterModulus

VARIABLES
  pc,             \* what the host does next
  total_cycles, active_cycles,
  interrupted,    \* set by handle_interrupt
  gotFinish,      \* VerilatedContext::gotFinish
  outcome,        \* of the last clock
  was_reset,      \* Platform::was_reset_
  ticks,          \* clocks every device has seen, modulo 2^64
  resets,         \* resets every device has seen since its construction
  finals,         \* calls of top.final()
  status          \* the exit status, NoStatus while the process runs

hostVars == <<pc, total_cycles, active_cycles, status>>
deviceVars == <<was_reset, ticks, resets>>
simVars == <<pc, total_cycles, active_cycles, interrupted, gotFinish, outcome,
             was_reset, ticks, resets, finals, status>>

Outcome == {"running", "pass", "fail", "protocol", "broken"}

NoStatus            == 256
CONFIGURATION_ERROR == 2
PROTOCOL_ERROR      == 3
TIMEOUT_ERROR       == 124

-----------------------------------------------------------------------------
Init ==
  /\ pc = "configure"
  /\ total_cycles = 0 /\ active_cycles = 0
  /\ interrupted = 0
  /\ gotFinish = FALSE
  /\ outcome = "running"
  /\ was_reset = FALSE
  /\ ticks = 0 /\ resets = 0 /\ finals = 0
  /\ status = NoStatus

Return(code) == pc' = "done" /\ status' = code

(* Options, platform, images, model and trace file are ready; the signal   *)
(* handler is installed.                                                   *)
Configure ==
  /\ pc = "configure"
  /\ pc' = "test"
  /\ UNCHANGED <<total_cycles, active_cycles, interrupted, gotFinish, outcome,
                 deviceVars, finals, status>>

(* --help, or an exception before the loop.                                *)
NotConfigured ==
  /\ pc = "configure"
  /\ \E code \in {0, CONFIGURATION_ERROR} : Return(code)
  /\ UNCHANGED <<total_cycles, active_cycles, interrupted, gotFinish, outcome,
                 deviceVars, finals>>

handle_interrupt ==
  /\ pc \notin {"configure", "done"}
  /\ interrupted' = 1
  /\ UNCHANGED <<hostVars, gotFinish, outcome, deviceVars, finals>>

LoopCondition == active_cycles < MaxCycles /\ interrupted = 0 /\ ~gotFinish

LoopTest ==
  /\ pc = "test"
  /\ pc' = IF LoopCondition THEN "clock" ELSE "final"
  /\ UNCHANGED <<total_cycles, active_cycles, interrupted, gotFinish, outcome,
                 deviceVars, finals, status>>

(* Mutant: the length of the reset is measured in active cycles.           *)
InResetActive == active_cycles < ResetCycles

InReset == total_cycles < ResetCycles

(* Mutant: every clock of a reset resets the devices again.                *)
begin_cycle_again(reset) ==
  /\ resets' = resets + IF reset THEN 1 ELSE 0
  /\ was_reset' = reset

begin_cycle(reset) ==
  /\ resets' = resets + IF reset /\ ~was_reset THEN 1 ELSE 0
  /\ was_reset' = reset

end_cycle(reset) == ticks' = IF reset THEN ticks ELSE (ticks + 1) % CounterModulus

(* Mutant: reset clocks count against --max-cycles.                        *)
CountAllCycles(reset) ==
  /\ total_cycles' = (total_cycles + 1) % CounterModulus
  /\ active_cycles' = (active_cycles + 1) % CounterModulus

CountCycle(reset) ==
  /\ total_cycles' = (total_cycles + 1) % CounterModulus
  /\ active_cycles' = IF reset THEN active_cycles
                      ELSE (active_cycles + 1) % CounterModulus

(* The exit test at the end of a turn.  Mutant: only when the loop would   *)
(* go on.                                                                  *)
ExitSeenLate == outcome' \in {"pass", "fail"} /\ active_cycles' < MaxCycles
ExitSeen     == outcome' \in {"pass", "fail"}

(* A clock that ends without an exception.  In reset the fabric takes no   *)
(* response, so there is no exit.                                          *)
Clock(finishes) ==
  /\ pc = "clock"
  /\ outcome' \in {"running", "pass", "fail"}
  /\ InReset => outcome' = "running"
  /\ gotFinish' = (gotFinish \/ finishes)
  /\ begin_cycle(InReset)
  /\ end_cycle(InReset)
  /\ CountCycle(InReset)
  /\ IF ExitSeen
     THEN finals' = finals + 1 /\ Return(IF outcome' = "pass" THEN 0 ELSE 1)
     ELSE pc' = "test" /\ UNCHANGED <<finals, status>>
  /\ UNCHANGED interrupted

(* commit or a tick throws: catch (...) calls final and throws again, main *)
(* turns the exception into a status.  Not in reset, where neither runs.   *)
ClockThrows(finishes) ==
  /\ pc = "clock"
  /\ ~InReset
  /\ outcome' \in {"protocol", "broken"}
  /\ gotFinish' = (gotFinish \/ finishes)
  /\ begin_cycle(FALSE)
  /\ finals' = finals + 1
  /\ Return(IF outcome' = "protocol" THEN PROTOCOL_ERROR ELSE CONFIGURATION_ERROR)
  /\ UNCHANGED <<total_cycles, active_cycles, interrupted, ticks>>

(* Mutant: the model is finalised by the report as well.                   *)
FinalAgain == finals' = finals + 2

Final == finals' = finals + 1

AfterLoop ==
  /\ pc = "final"
  /\ pc' = "report"
  /\ Final
  /\ UNCHANGED <<total_cycles, active_cycles, interrupted, gotFinish, outcome,
                 deviceVars, status>>

Report ==
  /\ pc = "report"
  /\ Return(IF interrupted # 0 THEN 128 + interrupted
            ELSE IF gotFinish THEN PROTOCOL_ERROR ELSE TIMEOUT_ERROR)
  /\ UNCHANGED <<total_cycles, active_cycles, interrupted, gotFinish, outcome,
                 deviceVars, finals>>

Host ==
  \/ Configure
  \/ NotConfigured
  \/ LoopTest
  \/ \E finishes \in BOOLEAN : Clock(finishes) \/ ClockThrows(finishes)
  \/ AfterLoop
  \/ Report

Terminated == pc = "done" /\ UNCHANGED simVars

Next == Host \/ handle_interrupt \/ Terminated

Spec == Init /\ [][Next]_simVars

(* The host process is scheduled and every evaluation of the model returns.*)
FairSpec == Spec /\ WF_simVars(Host)

-----------------------------------------------------------------------------
(* The state has the shape of the C++ locals.                              *)
SimTypeOK ==
  /\ pc \in {"configure", "test", "clock", "final", "report", "done"}
  /\ total_cycles \in 0 .. CounterModulus - 1
  /\ active_cycles \in 0 .. CounterModulus - 1
  /\ interrupted \in {0, 1}
  /\ gotFinish \in BOOLEAN
  /\ outcome \in Outcome
  /\ was_reset \in BOOLEAN
  /\ ticks \in 0 .. CounterModulus - 1
  /\ resets \in Nat
  /\ finals \in Nat
  /\ status \in {0, 1, 2, 3, 124, 129, NoStatus}

(* An exit the guest has been told of is what the process reports, even    *)
(* when the last permitted clock, a $finish or a SIGINT coincide with it;  *)
(* and a run that reports the guest's status had such an exit.             *)
NoExitIsLost ==
  /\ outcome = "pass" => status = 0
  /\ outcome = "fail" => status = 1
  /\ status \in {0, 1} /\ finals > 0 => outcome \in {"pass", "fail"}

(* A timeout means the guest had all its MaxCycles active clocks, after    *)
(* the whole reset, and never a clock more.                                *)
TimeoutMeansFullBudget ==
  /\ active_cycles <= MaxCycles
  /\ active_cycles > 0 => total_cycles = ResetCycles + active_cycles
  /\ status = TIMEOUT_ERROR => active_cycles = MaxCycles

(* Devices see one reset, at the start of the reset, and one tick for each *)
(* active clock, so that their time is the time of the report.             *)
DevicesKeepTime ==
  /\ resets = IF ResetCycles > 0 /\ total_cycles > 0 THEN 1 ELSE 0
  /\ ticks = active_cycles

(* top.final() and the closing of the trace happen exactly once on every   *)
(* way out of the loop, the exceptional one included.                      *)
FinalOnce ==
  /\ finals <= 1
  /\ status \in {1, PROTOCOL_ERROR, TIMEOUT_ERROR, 129} => finals = 1

(* README: "timeout `124`, and SIGINT `130`".  The statuses above that of  *)
(* a timeout are those of an interrupted run.                              *)
InterruptIs130 == status # NoStatus /\ status > TIMEOUT_ERROR => status = 130

(* The simulation ends, whatever the guest does.                           *)
SimulationEnds == <>(pc = "done")
=============================================================================
