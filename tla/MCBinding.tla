------------------------------- MODULE MCBinding -------------------------------
(* Two ports with 3-bit ids in 4-bit words: the id of port 1 lies across a   *)
(* word boundary.  A ring of three slots.                                    *)
EXTENDS Binding

Bytes(x, y) == [i \in 0 .. 1 |-> IF i = 0 THEN x ELSE y]
MCValue == {"a", "b"}
MCPayload == [a |-> [id |-> 5, data |-> Bytes(1, 2)], b |-> [id |-> 2, data |-> Bytes(3, 0)]]
=============================================================================
