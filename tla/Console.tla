-------------------------------- MODULE Console --------------------------------
(***************************************************************************)
(* The interrupt-driven console: the UART, the PLIC its irq is connected   *)
(* to, Platform of src/platform.cpp that clocks both, and a guest driver.  *)
(*                                                                         *)
(* A turn of the run loop is the phases                                    *)
(*                                                                         *)
(*   drive   the sideband binding samples the outputs for the core         *)
(*   clock   the fabric commits; the guest accesses at most one device     *)
(*   tick    end_cycle ticks the devices                                   *)
(*   settle  end_cycle settles them in topological order                   *)
(*                                                                         *)
(* A reset is the rising edge of begin_cycle: it resets the devices in     *)
(* order, settles them, and restarts the guest.                            *)
(*                                                                         *)
(* The driver stands for the guest software: it sets the devices up, waits *)
(* for its interrupt, claims, reads RBR until LSR says it is empty, and    *)
(* completes.                                                              *)
(***************************************************************************)
EXTENDS Uart

CONSTANTS
  Sources, UartSource,   \* of the PLIC, and the one uart.irq drives
  Setup,                 \* the UART stores of the driver's setup, in order
  MaxResets              \* bound: resets of the platform

VARIABLES
  priority, threshold, enables, pending, busy, irqs, serving,  \* of the PLIC
  phase,
  driver,    \* what the driver does next
  setup,     \* stores of the setup already made
  meip,      \* the interrupt line as the core sees it
  resets

plicState   == <<priority, threshold, enables, pending, busy, irqs, serving>>
driverVars  == <<driver, setup>>
consoleVars == <<uartVars, plicState, phase, driver, setup, meip, resets>>

P == INSTANCE Plic WITH Context <- {"M"}, MaxPriority <- 1,
                        level <- IF irq THEN {UartSource} ELSE {}

ConsoleInit ==
  /\ Init /\ P!Init /\ serving # P!NoRecord
  /\ phase = "drive" /\ driver = "setup" /\ setup = 0 /\ meip = FALSE /\ resets = 0

-----------------------------------------------------------------------------
(* SidebandBinding::drive.  An idle driver takes the interrupt.            *)
Drive ==
  /\ phase = "drive"
  /\ meip' = irqs["M"]
  /\ driver' = IF driver = "idle" /\ irqs["M"] THEN "claim" ELSE driver
  /\ phase' = "clock"
  /\ UNCHANGED <<uartVars, plicState, setup, resets>>

(* The guest makes no access in this clock.                                *)
NoAccess ==
  /\ phase = "clock" /\ beat = NoBeat
  /\ phase' = "tick"
  /\ UNCHANGED <<uartVars, plicState, driverVars, meip, resets>>

(* An access to the UART begins, and goes on register by register.         *)
SetupUart ==
  /\ phase = "clock" /\ driver = "setup" /\ setup < Len(Setup)
  /\ write_impl(Setup[setup + 1])
  /\ setup' = setup + 1
  /\ UNCHANGED <<plicState, phase, driver, meip, resets>>

Load ==
  /\ phase = "clock"
  /\ \/ driver = "status" /\ read_impl({5})
     \/ driver = "data" /\ read_impl({0})
  /\ UNCHANGED <<plicState, phase, driverVars, meip, resets>>

UartRegister ==
  /\ phase = "clock"
  /\ read_register \/ write_register
  /\ phase' = IF beat' = NoBeat THEN "tick" ELSE "clock"
  /\ driver' = IF ~At("read", 5) /\ ~At("read", 0) THEN driver
               ELSE IF driver = "data" THEN "status"
               ELSE IF receive_fifo = <<>> THEN "complete" ELSE "data"
  /\ UNCHANGED <<plicState, setup, meip, resets>>

(* The accesses to the PLIC, of a driver that has the UART set up.         *)
SetupPlic ==
  /\ phase = "clock" /\ beat = NoBeat /\ driver = "setup" /\ setup = Len(Setup)
  /\ UNCHANGED uartVars
  /\ IF priority[UartSource] = 0 THEN P!WritePriority /\ priority'[UartSource] = 1
                                      /\ UNCHANGED driver
     ELSE P!WriteEnable /\ UartSource \in enables'["M"] /\ driver' = "idle"
  /\ phase' = "tick"
  /\ UNCHANGED <<setup, meip, resets>>

Claim ==
  /\ phase = "clock" /\ beat = NoBeat /\ driver = "claim"
  /\ UNCHANGED uartVars
  /\ driver' = IF P!best("M") = 0 THEN "idle" ELSE "status"
  /\ P!ReadClaim
  /\ phase' = "tick"
  /\ UNCHANGED <<setup, meip, resets>>

Complete ==
  /\ phase = "clock" /\ beat = NoBeat /\ driver = "complete"
  /\ UNCHANGED uartVars
  /\ driver' = "idle"
  /\ P!WriteComplete
  /\ phase' = "tick"
  /\ UNCHANGED <<setup, meip, resets>>

(* end_cycle: the ticks.                                                   *)
Tick ==
  /\ phase = "tick"
  /\ tick
  /\ phase' = "settle"
  /\ UNCHANGED <<plicState, driverVars, meip, resets>>

(* end_cycle: settle.  Mutant: the devices are not settled.                *)
Unsettled == UNCHANGED plicState
SettlePlic == P!settle

Settle ==
  /\ phase = "settle"
  /\ UNCHANGED uartVars
  /\ SettlePlic
  /\ phase' = "drive"
  /\ UNCHANGED <<driverVars, meip, resets>>

(* Platform::reset: the devices in order, then settle.                     *)
ResetUart ==
  /\ phase = "drive" /\ resets < MaxResets
  /\ reset
  /\ resets' = resets + 1
  /\ driver' = "setup" /\ setup' = 0
  /\ phase' = "reset"
  /\ UNCHANGED <<plicState, meip>>

ResetPlic ==
  /\ phase = "reset"
  /\ UNCHANGED uartVars
  /\ P!reset
  /\ phase' = "settle"
  /\ UNCHANGED <<driverVars, meip, resets>>

HostTypes ==
  /\ HostSends
  /\ UNCHANGED <<plicState, phase, driverVars, meip, resets>>

DriverAccess == SetupUart \/ Load \/ SetupPlic \/ Claim \/ Complete

ConsoleNext ==
  \/ Drive \/ NoAccess \/ DriverAccess \/ UartRegister
  \/ Tick \/ Settle \/ ResetUart \/ ResetPlic \/ HostTypes

ConsoleSpec == ConsoleInit /\ [][ConsoleNext]_consoleVars

(* The run loop goes on and a running guest gets its accesses through.     *)
ConsoleFairness ==
  /\ WF_consoleVars(Drive \/ NoAccess \/ UartRegister \/ Tick \/ Settle \/ ResetPlic)
  /\ SF_consoleVars(DriverAccess)

ConsoleFairSpec == ConsoleSpec /\ ConsoleFairness

-----------------------------------------------------------------------------
(* When the core samples the lines, an interrupt of the UART has reached   *)
(* the gateway, and a driver that waits is told of it: no order of MMIO,   *)
(* ticks and settling leaves the UART asserting in silence.                *)
NoSilentUart ==
  phase = "drive" /\ irq =>
    /\ UartSource \in busy
    /\ driver = "idle" => irqs["M"]

(* Every byte the host types is read by the driver, or was discarded by    *)
(* its setup or a reset: the trigger level, the receive timeout, the       *)
(* polling wait, the level-triggered gateway and the claim/complete        *)
(* protocol never leave one behind.                                        *)
ConsoleReceivesAll ==
  \A n \in 1 .. HostBytes :
    (sent >= n) ~> (n \in cleared \/ \E i \in DOMAIN taken : taken[i] = n)
=============================================================================
