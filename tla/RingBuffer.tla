------------------------------- MODULE RingBuffer -------------------------------
(***************************************************************************)
(* class RingBuffer of src/axi.hpp: an array, the index of its oldest      *)
(* value and a count.  Every FIFO of the fabric is one.  Both overloads of *)
(* push do the same; `result' is what a call gives its caller: "true" or   *)
(* "false" from push, "throw" for a std::logic_error, a value from         *)
(* front(), "none" from a void call.                                       *)
(***************************************************************************)
EXTENDS Integers, Sequences

CONSTANTS
  Capacity,  \* the template parameter
  Value      \* the values_ of type T

ASSUME RingAssumption == Capacity \in Nat \ {0} /\ "throw" \notin Value

VARIABLES values_, head_, size_, result

ringVars == <<values_, head_, size_, result>>

Index == 0 .. Capacity - 1

empty == size_ = 0
full  == size_ = Capacity

(* The array starts value-initialised: with any one value of T.            *)
Init ==
  /\ \E v \in Value : values_ = [i \in Index |-> v]
  /\ head_ = 0
  /\ size_ = 0
  /\ result = "none"

front ==
  /\ result' = IF empty THEN "throw" ELSE values_[head_]
  /\ UNCHANGED <<values_, head_, size_>>

(* Mutant: the tail does not wrap where the array ends.                    *)
AfterTailStuck == IF head_ + size_ < Capacity THEN head_ + size_ ELSE Capacity - 1

AfterTail == (head_ + size_) % Capacity

push(v) ==
  IF full
  THEN result' = "false" /\ UNCHANGED <<values_, head_, size_>>
  ELSE /\ values_' = [values_ EXCEPT ![AfterTail] = v]
       /\ size_' = size_ + 1
       /\ result' = "true"
       /\ UNCHANGED head_

AfterHead == (head_ + 1) % Capacity

pop ==
  IF empty
  THEN result' = "throw" /\ UNCHANGED <<values_, head_, size_>>
  ELSE /\ head_' = AfterHead
       /\ size_' = size_ - 1
       /\ result' = "none"
       /\ UNCHANGED values_

clear ==
  /\ head_' = 0
  /\ size_' = 0
  /\ result' = "none"
  /\ UNCHANGED values_

Next ==
  \/ \E v \in Value : push(v)
  \/ front
  \/ pop
  \/ clear

Spec == Init /\ [][Next]_ringVars

-----------------------------------------------------------------------------
(* The members stay in range, so every array access is inside the array.   *)
RingTypeOK ==
  /\ values_ \in [Index -> Value]
  /\ head_ \in Index
  /\ size_ \in 0 .. Capacity

(* The queue a ring stands for: size_ values from head_ on, around the end.*)
Contents == [i \in 1 .. size_ |-> values_[(head_ + i - 1) % Capacity]]

Queue == INSTANCE Fifo WITH queue <- Contents

(* A ring is a bounded FIFO: push, pop, front and clear return what a      *)
(* queue would, at every position of head_ and across the wrap.            *)
RingIsFifo == Queue!FifoSpec
=============================================================================
