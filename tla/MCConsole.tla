-------------------------------- MODULE MCConsole --------------------------------
(* A FIFO of three bytes with its trigger at two, and a driver that enables  *)
(* the FIFO and then the receive interrupt.                                  *)
EXTENDS Console, TLC

MCTrigger == [i \in 0 .. 3 |-> IF i = 0 THEN 1 ELSE 2]
MCSetup   == <<2 :> [enabled |-> TRUE, clear_rx |-> FALSE, clear_tx |-> FALSE, trigger |-> 1],
               1 :> {"rx"}>>
MCLoads   == {{0}, {5}}
MCStores  == {MCSetup[i] : i \in DOMAIN MCSetup}
=============================================================================
