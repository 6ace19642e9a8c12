---------------------------------- MODULE Fifo ----------------------------------
(***************************************************************************)
(* What the fabric relies on when it uses a RingBuffer: a bounded queue.   *)
(* `result' is what the last call returned to its caller.                  *)
(***************************************************************************)
EXTENDS Integers, Sequences

CONSTANTS
  Capacity,  \* at most this many values
  Value      \* what is stored

VARIABLES queue, result

FifoInit == queue = <<>> /\ result = "none"

(* A full queue refuses the value and says so.                             *)
FifoPush(v) ==
  IF Len(queue) < Capacity
  THEN queue' = Append(queue, v) /\ result' = "true"
  ELSE queue' = queue /\ result' = "false"

FifoFront == result' = (IF queue = <<>> THEN "throw" ELSE Head(queue)) /\ queue' = queue

FifoPop ==
  IF queue = <<>>
  THEN queue' = queue /\ result' = "throw"
  ELSE queue' = Tail(queue) /\ result' = "none"

FifoClear == queue' = <<>> /\ result' = "none"

FifoNext ==
  \/ \E v \in Value : FifoPush(v)
  \/ FifoFront
  \/ FifoPop
  \/ FifoClear

FifoSpec == FifoInit /\ [][FifoNext]_<<queue, result>>
=============================================================================
