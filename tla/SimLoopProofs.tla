----------------------------- MODULE SimLoopProofs -----------------------------
(***************************************************************************)
(* What the exit status of the simulator means, for every --max-cycles and *)
(* every --reset-cycles.                                                   *)
(***************************************************************************)
EXTENDS SimLoop, TLAPS

(* No counter reaches 2^64 in a run.                                       *)
LEMMA NextCount ==
  ASSUME NEW n \in Nat, n + 1 < CounterModulus
  PROVE  (n + 1) % CounterModulus = n + 1
BY SimAssumption

(* What the loop knows at each point: a clock is entered only with budget  *)
(* left, the process has no status before it returns, and the loop ends    *)
(* early only for a reason the report names.                               *)
Budget ==
  /\ active_cycles <= MaxCycles
  /\ total_cycles <= ResetCycles + active_cycles
  /\ active_cycles > 0 => total_cycles = ResetCycles + active_cycles
  /\ pc = "clock" => active_cycles < MaxCycles
  /\ pc \in {"final", "report"} =>
       active_cycles = MaxCycles \/ interrupted = 1 \/ gotFinish

Progress ==
  /\ pc # "done" => status = NoStatus /\ outcome = "running"
  /\ pc \in {"configure", "test", "clock", "final"} => finals = 0
  /\ pc = "report" => finals = 1

(* was_reset_ tells the first clock of the reset from the others.          *)
ResetOnce == total_cycles < ResetCycles => (was_reset <=> total_cycles > 0)

IInv == /\ SimTypeOK /\ Budget /\ Progress /\ ResetOnce
        /\ NoExitIsLost /\ TimeoutMeansFullBudget /\ DevicesKeepTime /\ FinalOnce

LEMMA InitIInv == Init => IInv
<1> SUFFICES ASSUME Init PROVE IInv
  OBVIOUS
<1>1. ResetOnce
  <2>1. ~(total_cycles > 0) /\ was_reset = FALSE
    BY DEF Init
  <2> QED BY <2>1 DEF ResetOnce
<1>2. SimTypeOK
  <2>1. 0 \in 0 .. CounterModulus - 1
    BY SimAssumption
  <2> QED BY <2>1 DEF Init, SimTypeOK, Outcome
<1>3. Budget /\ TimeoutMeansFullBudget /\ DevicesKeepTime
  BY SimAssumption DEF Init, Budget, TimeoutMeansFullBudget, DevicesKeepTime,
                       NoStatus, TIMEOUT_ERROR
<1>4. Progress /\ NoExitIsLost /\ FinalOnce
  BY DEF Init, Progress, NoExitIsLost, FinalOnce, NoStatus, TIMEOUT_ERROR, PROTOCOL_ERROR
<1> QED BY <1>1, <1>2, <1>3, <1>4 DEF IInv

(* One clock moves the counters together.                                  *)
LEMMA ClockCounts ==
  ASSUME IInv, pc = "clock", CountCycle(InReset), begin_cycle(InReset), end_cycle(InReset)
  PROVE  /\ total_cycles' = total_cycles + 1
         /\ total_cycles' < CounterModulus
         /\ active_cycles' = IF total_cycles < ResetCycles THEN active_cycles
                             ELSE active_cycles + 1
         /\ ticks' = active_cycles'
         /\ active_cycles' \in 0 .. MaxCycles
         /\ was_reset' = (total_cycles < ResetCycles)
         /\ resets' = IF ResetCycles > 0 THEN 1 ELSE 0
<1>1. /\ total_cycles \in Nat /\ active_cycles \in Nat /\ ticks = active_cycles
      /\ total_cycles + 1 < CounterModulus /\ active_cycles + 1 < CounterModulus
      /\ active_cycles < MaxCycles
  BY SimAssumption DEF IInv, SimTypeOK, Budget, DevicesKeepTime
<1>2. /\ (total_cycles + 1) % CounterModulus = total_cycles + 1
      /\ (active_cycles + 1) % CounterModulus = active_cycles + 1
  BY <1>1, NextCount
<1>3. /\ total_cycles' = total_cycles + 1
      /\ active_cycles' = IF InReset THEN active_cycles ELSE active_cycles + 1
      /\ ticks' = active_cycles'
  BY <1>1, <1>2 DEF CountCycle, end_cycle
<1>4. /\ resets' = resets + IF InReset /\ ~was_reset THEN 1 ELSE 0
      /\ was_reset' = InReset
  BY DEF begin_cycle
<1>5. resets = IF ResetCycles > 0 /\ total_cycles > 0 THEN 1 ELSE 0
  BY DEF IInv, DevicesKeepTime
<1>6. InReset => (was_reset <=> total_cycles > 0)
  BY DEF IInv, ResetOnce, InReset
<1>7. resets' = IF ResetCycles > 0 THEN 1 ELSE 0
  <2>1. CASE InReset
    <3>1. ResetCycles > 0
      BY <2>1, <1>1, SimAssumption DEF InReset
    <3>2. CASE total_cycles > 0
      <4>1. resets' = resets + 0
        BY <2>1, <3>2, <1>4, <1>6
      <4> QED BY <4>1, <3>1, <3>2, <1>5
    <3>3. CASE ~(total_cycles > 0)
      <4>1. resets' = resets + 1
        BY <2>1, <3>3, <1>4, <1>6
      <4> QED BY <4>1, <3>1, <3>3, <1>5
    <3> QED BY <3>2, <3>3
  <2>2. CASE ~InReset
    BY <2>2, <1>1, <1>4, <1>5, SimAssumption DEF InReset
  <2> QED BY <2>1, <2>2
<1> QED BY <1>1, <1>3, <1>4, <1>7, SimAssumption DEF InReset

LEMMA ClockKeepsIInv ==
  ASSUME IInv, NEW finishes \in BOOLEAN, Clock(finishes)
  PROVE  IInv'
<1>1. /\ pc = "clock" /\ UNCHANGED interrupted
      /\ CountCycle(InReset) /\ begin_cycle(InReset) /\ end_cycle(InReset)
      /\ outcome' \in {"running", "pass", "fail"}
      /\ gotFinish' \in BOOLEAN
  BY DEF Clock, IInv, SimTypeOK
<1>2. finals = 0 /\ status = NoStatus
  BY <1>1 DEF IInv, Progress
<1>3. \/ /\ outcome' \in {"pass", "fail"} /\ finals' = 1 /\ pc' = "done"
         /\ status' = IF outcome' = "pass" THEN 0 ELSE 1
      \/ outcome' = "running" /\ pc' = "test" /\ finals' = 0 /\ status' = NoStatus
  BY <1>1, <1>2 DEF Clock, ExitSeen, Return
<1>4. /\ total_cycles' = total_cycles + 1
      /\ total_cycles' < CounterModulus
      /\ active_cycles' = IF total_cycles < ResetCycles THEN active_cycles
                          ELSE active_cycles + 1
      /\ ticks' = active_cycles'
      /\ active_cycles' \in 0 .. MaxCycles
      /\ was_reset' = (total_cycles < ResetCycles)
      /\ resets' = IF ResetCycles > 0 THEN 1 ELSE 0
  BY <1>1, ClockCounts
<1>5. /\ total_cycles \in Nat /\ active_cycles \in Nat
      /\ total_cycles <= ResetCycles + active_cycles
      /\ active_cycles > 0 => total_cycles = ResetCycles + active_cycles
  BY SimAssumption DEF IInv, SimTypeOK, Budget
<1>6. SimTypeOK'
  <2>1. /\ total_cycles' \in 0 .. CounterModulus - 1
        /\ active_cycles' \in 0 .. CounterModulus - 1
        /\ ticks' \in 0 .. CounterModulus - 1
        /\ resets' \in Nat
    BY <1>4, <1>5, SimAssumption
  <2>2. was_reset' \in BOOLEAN
    BY <1>4
  <2>3. /\ finals' \in Nat /\ status' \in {0, 1, 2, 3, 124, 129, NoStatus}
        /\ pc' \in {"configure", "test", "clock", "final", "report", "done"}
        /\ outcome' \in Outcome
    BY <1>3 DEF Outcome
  <2>4. interrupted' \in {0, 1}
    BY <1>1 DEF IInv, SimTypeOK
  <2> QED BY <1>1, <2>1, <2>2, <2>3, <2>4 DEF SimTypeOK
<1>7. Budget'
  BY <1>3, <1>4, <1>5, SimAssumption DEF Budget
<1>8. Progress'
  BY <1>3 DEF Progress
<1>9. ResetOnce'
  <2>1. total_cycles' < ResetCycles => total_cycles < ResetCycles /\ total_cycles' > 0
    BY <1>4, <1>5, SimAssumption
  <2> QED BY <1>4, <2>1 DEF ResetOnce
<1>10. NoExitIsLost' /\ FinalOnce'
  BY <1>3 DEF NoExitIsLost, FinalOnce, NoStatus, PROTOCOL_ERROR, TIMEOUT_ERROR
<1>11. TimeoutMeansFullBudget'
  BY <1>3, <1>7 DEF Budget, TimeoutMeansFullBudget, NoStatus, TIMEOUT_ERROR
<1>12. DevicesKeepTime'
  BY <1>4, <1>5 DEF DevicesKeepTime
<1> QED BY <1>6, <1>7, <1>8, <1>9, <1>10, <1>11, <1>12 DEF IInv

(* A step that leaves the counters and the devices alone.                  *)
LEMMA QuietStep ==
  ASSUME IInv, SimTypeOK', Progress', NoExitIsLost', FinalOnce',
         UNCHANGED <<total_cycles, active_cycles, ticks, resets>>,
         total_cycles < ResetCycles => UNCHANGED was_reset,
         pc' = "clock" => active_cycles < MaxCycles,
         pc' \in {"final", "report"} =>
           active_cycles = MaxCycles \/ interrupted' = 1 \/ gotFinish',
         status' = TIMEOUT_ERROR => active_cycles = MaxCycles
  PROVE  IInv'
<1>1. Budget'
  BY DEF IInv, Budget
<1>2. ResetOnce'
  <2>1. ASSUME total_cycles < ResetCycles PROVE (was_reset' <=> total_cycles > 0)
    BY <2>1 DEF IInv, ResetOnce
  <2> QED BY <2>1 DEF ResetOnce
<1>3. TimeoutMeansFullBudget'
  BY DEF IInv, TimeoutMeansFullBudget
<1>4. DevicesKeepTime'
  BY DEF IInv, DevicesKeepTime
<1> QED BY <1>1, <1>2, <1>3, <1>4 DEF IInv

LEMMA NextKeepsIInv == IInv /\ [Next]_simVars => IInv'
<1> SUFFICES ASSUME IInv, [Next]_simVars PROVE IInv'
  OBVIOUS
<1> USE DEF NoStatus, CONFIGURATION_ERROR, PROTOCOL_ERROR, TIMEOUT_ERROR
<1>1. CASE Configure
  <2>1. SimTypeOK' /\ Progress' /\ NoExitIsLost' /\ FinalOnce'
    BY <1>1 DEF IInv, Configure, SimTypeOK, Progress, NoExitIsLost, FinalOnce, deviceVars
  <2> QED BY <1>1, <2>1, QuietStep DEF IInv, Configure, Progress, deviceVars
<1>2. CASE NotConfigured
  <2>1. SimTypeOK' /\ Progress' /\ NoExitIsLost' /\ FinalOnce'
    BY <1>2 DEF IInv, NotConfigured, Return, SimTypeOK, Progress, NoExitIsLost, FinalOnce,
                deviceVars
  <2> QED BY <1>2, <2>1, QuietStep DEF IInv, NotConfigured, Return, deviceVars
<1>3. CASE handle_interrupt
  <2>1. SimTypeOK' /\ Progress' /\ NoExitIsLost' /\ FinalOnce'
    BY <1>3 DEF IInv, handle_interrupt, SimTypeOK, Progress, NoExitIsLost, FinalOnce,
                hostVars, deviceVars
  <2> QED BY <1>3, <2>1, QuietStep
          DEF IInv, Budget, TimeoutMeansFullBudget, handle_interrupt, hostVars, deviceVars
<1>4. CASE LoopTest
  <2>1. SimTypeOK' /\ Progress' /\ NoExitIsLost' /\ FinalOnce'
    BY <1>4 DEF IInv, LoopTest, SimTypeOK, Progress, NoExitIsLost, FinalOnce, deviceVars
  <2>2. /\ active_cycles \in Nat /\ active_cycles <= MaxCycles
        /\ interrupted \in {0, 1} /\ status = 256
    BY <1>4, SimAssumption DEF IInv, LoopTest, SimTypeOK, Budget, Progress
  <2>3. /\ pc' = "clock" => active_cycles < MaxCycles
        /\ pc' = "final" => active_cycles = MaxCycles \/ interrupted = 1 \/ gotFinish
        /\ pc' # "report"
    BY <1>4, <2>2, SimAssumption DEF LoopTest, LoopCondition
  <2> QED BY <1>4, <2>1, <2>2, <2>3, QuietStep DEF LoopTest, deviceVars
<1>5. ASSUME NEW finishes \in BOOLEAN, Clock(finishes) PROVE IInv'
  BY <1>5, ClockKeepsIInv
<1>6. ASSUME NEW finishes \in BOOLEAN, ClockThrows(finishes) PROVE IInv'
  <2>1. /\ pc = "clock" /\ pc' = "done" /\ outcome' \in {"protocol", "broken"}
        /\ status' \in {2, 3} /\ finals' = finals + 1 /\ ~InReset
        /\ gotFinish' \in BOOLEAN /\ was_reset' = FALSE
        /\ UNCHANGED <<total_cycles, active_cycles, interrupted, ticks>>
    BY <1>6 DEF ClockThrows, Return, begin_cycle, IInv, SimTypeOK
  <2>2. resets' = resets
    <3>1. resets' = resets + 0 /\ resets \in Nat
      BY <1>6 DEF ClockThrows, begin_cycle, IInv, SimTypeOK
    <3> QED BY <3>1
  <2>3. finals = 0
    BY <2>1 DEF IInv, Progress
  <2>4. SimTypeOK'
    <3>1. /\ finals' \in Nat /\ pc' \in {"configure", "test", "clock", "final", "report", "done"}
          /\ status' \in {0, 1, 2, 3, 124, 129, NoStatus}
      BY <2>1, <2>3
    <3>2. outcome' \in Outcome /\ was_reset' \in BOOLEAN
      BY <2>1 DEF Outcome
    <3> QED BY <2>1, <2>2, <3>1, <3>2 DEF IInv, SimTypeOK
  <2>5. Progress' /\ NoExitIsLost' /\ FinalOnce'
    BY <2>1, <2>3 DEF Progress, NoExitIsLost, FinalOnce
  <2> QED BY <2>1, <2>2, <2>4, <2>5, QuietStep DEF InReset
<1>7. CASE AfterLoop
  <2>1. finals = 0 /\ finals' = 1 /\ pc = "final" /\ pc' = "report" /\ status' = 256
    BY <1>7 DEF IInv, AfterLoop, Final, Progress
  <2>2. SimTypeOK' /\ Progress' /\ NoExitIsLost' /\ FinalOnce'
    BY <1>7, <2>1 DEF IInv, AfterLoop, SimTypeOK, Progress, NoExitIsLost, FinalOnce,
                      deviceVars
  <2> QED BY <1>7, <2>1, <2>2, QuietStep DEF IInv, Budget, AfterLoop, deviceVars
<1>8. CASE Report
  <2>1. /\ finals = 1 /\ outcome = "running" /\ interrupted \in {0, 1}
        /\ active_cycles = MaxCycles \/ interrupted = 1 \/ gotFinish
    BY <1>8 DEF IInv, Report, Progress, Budget, SimTypeOK
  <2>2. /\ status' \in {3, 124, 129} /\ pc' = "done"
        /\ status' = 124 => active_cycles = MaxCycles
    BY <1>8, <2>1 DEF Report, Return
  <2>3. SimTypeOK' /\ Progress' /\ NoExitIsLost' /\ FinalOnce'
    BY <1>8, <2>1, <2>2 DEF IInv, Report, SimTypeOK, Progress, NoExitIsLost, FinalOnce,
                            deviceVars
  <2> QED BY <1>8, <2>2, <2>3, QuietStep DEF Report, deviceVars
<1>9. CASE UNCHANGED simVars
  BY <1>9 DEF simVars, IInv, SimTypeOK, Budget, Progress, ResetOnce, NoExitIsLost,
              TimeoutMeansFullBudget, DevicesKeepTime, FinalOnce
<1> QED BY <1>1, <1>2, <1>3, <1>4, <1>5, <1>6, <1>7, <1>8, <1>9
        DEF Next, Host, Terminated

LEMMA SimInvariant == Spec => []IInv
BY InitIInv, NextKeepsIInv, PTL DEF Spec

(* A guest exit that run_simulation saw is the status of the process,      *)
(* whatever coincides with it.                                             *)
THEOREM SimReportsExit == Spec => []NoExitIsLost
<1>1. IInv => NoExitIsLost
  BY DEF IInv
<1> QED BY <1>1, SimInvariant, PTL

(* Status 124 is returned after exactly --max-cycles active clocks that    *)
(* follow all of --reset-cycles.                                           *)
THEOREM SimTimeoutIsExact == Spec => []TimeoutMeansFullBudget
<1>1. IInv => TimeoutMeansFullBudget
  BY DEF IInv
<1> QED BY <1>1, SimInvariant, PTL

(* The devices of the platform see one reset and every active clock.       *)
THEOREM SimDevicesKeepTime == Spec => []DevicesKeepTime
<1>1. IInv => DevicesKeepTime
  BY DEF IInv
<1> QED BY <1>1, SimInvariant, PTL

(* The model is finalised, and the trace closed, exactly once.             *)
THEOREM SimFinalisesOnce == Spec => []FinalOnce
<1>1. IInv => FinalOnce
  BY DEF IInv
<1> QED BY <1>1, SimInvariant, PTL
=============================================================================
