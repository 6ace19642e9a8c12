--------------------------------- MODULE MCUart ---------------------------------
(***************************************************************************)
(* A small UART: two slots, triggers at one and two bytes, and a guest     *)
(* that uses the receiver, the transmitter and the loopback path.          *)
(***************************************************************************)
EXTENDS Uart, TLC

MCTrigger == [i \in 0 .. 3 |-> IF i = 0 THEN 1 ELSE 2]

Fcr(enabled, clear_rx, clear_tx, trigger) ==
  [enabled |-> enabled, clear_rx |-> clear_rx, clear_tx |-> clear_tx, trigger |-> trigger]
Mcr(loop, outputs) == [loop |-> loop, outputs |-> outputs]

(* Single registers, and words over several.                               *)
MCLoads == {{0}, {6}, {0, 1, 2, 3}, {4, 5}}

(* Interrupt enables, FIFO modes and clears, DLAB, loopback with changing  *)
(* modem outputs, THR alone and together with IER.                         *)
MCStores == {0 :> 0, 1 :> Interrupt, 1 :> {},
             2 :> Fcr(TRUE, FALSE, TRUE, 1), 2 :> Fcr(FALSE, FALSE, FALSE, 0),
             2 :> Fcr(TRUE, TRUE, FALSE, 1),
             3 :> [dlab |-> TRUE], 3 :> [dlab |-> FALSE],
             4 :> Mcr(TRUE, {"RTS", "OUT1"}), 4 :> Mcr(TRUE, {"DTR"}), 4 :> Mcr(FALSE, {}),
             (0 :> 0) @@ (1 :> Interrupt) @@ (7 :> 0)}
=============================================================================
