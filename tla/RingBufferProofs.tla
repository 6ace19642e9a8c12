--------------------------- MODULE RingBufferProofs ---------------------------
(***************************************************************************)
(* A RingBuffer of any capacity, over any type of values_, is a bounded     *)
(* FIFO.                                                                   *)
(***************************************************************************)
EXTENDS RingBuffer, TLAPS

(* The only modular sums of the class: two numbers below twice the         *)
(* capacity, so `%' subtracts the capacity at most once.                   *)
LEMMA WrapOnce ==
  ASSUME NEW x \in 0 .. 2 * Capacity - 1
  PROVE  x % Capacity = IF x < Capacity THEN x ELSE x - Capacity
<1>1. CASE x < Capacity
  BY <1>1, RingAssumption
<1>2. CASE x >= Capacity
  <2>1. x = Capacity * 1 + (x - Capacity) /\ x - Capacity \in 0 .. Capacity - 1
    BY <1>2, RingAssumption
  <2> QED BY <2>1, <1>2, RingAssumption
<1> QED BY <1>1, <1>2, RingAssumption

(* Every member of RingBuffer stays in range: no call indexes outside the  *)
(* array.                                                                  *)
THEOREM RingTypeCorrect == Spec => []RingTypeOK
<1>1. Init => RingTypeOK
  BY RingAssumption DEF Init, RingTypeOK, Index
<1>2. RingTypeOK /\ [Next]_ringVars => RingTypeOK'
  <2> SUFFICES ASSUME RingTypeOK, [Next]_ringVars PROVE RingTypeOK'
    OBVIOUS
  <2> USE RingAssumption DEF RingTypeOK, Index
  <2>1. ASSUME NEW v \in Value, push(v) PROVE RingTypeOK'
    BY <2>1 DEF push, full, AfterTail
  <2>2. CASE front
    BY <2>2 DEF front
  <2>3. CASE pop
    BY <2>3 DEF pop, empty, AfterHead
  <2>4. CASE clear
    BY <2>4 DEF clear
  <2>5. CASE UNCHANGED ringVars
    BY <2>5 DEF ringVars
  <2> QED BY <2>1, <2>2, <2>3, <2>4, <2>5 DEF Next
<1> QED BY <1>1, <1>2, PTL DEF Spec

(* The slot a position of the queue lives in.                              *)
Slot(h, i) == IF h + i - 1 < Capacity THEN h + i - 1 ELSE h + i - 1 - Capacity

LEMMA SlotIsModulo ==
  ASSUME NEW h \in Index, NEW i \in 1 .. Capacity
  PROVE  /\ (h + i - 1) % Capacity = Slot(h, i)
         /\ Slot(h, i) \in Index
<1>1. h + i - 1 \in 0 .. 2 * Capacity - 1
  BY RingAssumption DEF Index
<1> QED BY <1>1, WrapOnce, RingAssumption DEF Slot, Index

LEMMA HeadIsModulo ==
  ASSUME NEW h \in Index
  PROVE  (h + 1) % Capacity = Slot(h, 2)
<1> DEFINE x == h + 1
<1>1. x \in 0 .. 2 * Capacity - 1
  BY RingAssumption DEF Index
<1> HIDE DEF x
<1>2. x % Capacity = IF x < Capacity THEN x ELSE x - Capacity
  BY <1>1, WrapOnce
<1> QED BY <1>2, RingAssumption DEF x, Slot, Index

(* The sequence an array, a head and a count stand for.                    *)
SeqOf(vs, h, n) == [i \in 1 .. n |-> vs[(h + i - 1) % Capacity]]

LEMMA SlotsOfContents ==
  ASSUME NEW vs \in [Index -> Value], NEW h \in Index, NEW n \in 0 .. Capacity
  PROVE  /\ SeqOf(vs, h, n) \in Seq(Value) /\ Len(SeqOf(vs, h, n)) = n
         /\ \A i \in 1 .. n : SeqOf(vs, h, n)[i] = vs[Slot(h, i)]
<1> DEFINE c == SeqOf(vs, h, n)
<1>1. \A i \in 1 .. n : i \in 1 .. Capacity
  BY RingAssumption
<1>2. \A i \in 1 .. n : c[i] = vs[Slot(h, i)] /\ Slot(h, i) \in Index
  BY <1>1, SlotIsModulo DEF SeqOf
<1>3. \A i \in 1 .. n : c[i] \in Value
  BY <1>2
<1>4. n \in Nat /\ DOMAIN c = 1 .. n /\ c = [i \in 1 .. n |-> c[i]]
  BY RingAssumption DEF SeqOf
<1>5. c \in [1 .. n -> Value]
  BY <1>3, <1>4
<1> QED BY <1>2, <1>4, <1>5

(* Spec implements Fifo under the mapping of RingBuffer!Contents: the      *)
(* claim RingBuffer.tla makes for every ring of the fabric.                *)
THEOREM RingImplementsFifo == Spec => RingIsFifo
<1>1. Init => Queue!FifoInit
  BY RingAssumption DEF Init, Queue!FifoInit, Contents
<1>2. ASSUME RingTypeOK, RingTypeOK', [Next]_ringVars
      PROVE  [Queue!FifoNext]_<<Contents, result>>
  <2> USE RingAssumption
  <2>t. /\ values_ \in [Index -> Value] /\ head_ \in Index /\ size_ \in 0 .. Capacity
        /\ values_' \in [Index -> Value] /\ head_' \in Index /\ size_' \in 0 .. Capacity
    BY <1>2 DEF RingTypeOK
  <2>0. Contents = SeqOf(values_, head_, size_) /\ Contents' = SeqOf(values_', head_', size_')
    BY DEF Contents, SeqOf
  <2>1. /\ Contents \in Seq(Value) /\ Len(Contents) = size_
        /\ \A i \in 1 .. size_ : Contents[i] = values_[Slot(head_, i)]
    BY <2>t, <2>0, SlotsOfContents
  <2>2. /\ Contents' \in Seq(Value) /\ Len(Contents') = size_'
        /\ \A i \in 1 .. size_' : Contents'[i] = values_'[Slot(head_', i)]
    BY <2>t, <2>0, SlotsOfContents
  <2>3. ASSUME NEW v \in Value, push(v) PROVE Queue!FifoPush(v)
    <3>1. CASE full
      <4>1. Contents' = Contents
        BY <2>3, <3>1 DEF push, Contents
      <4> QED BY <2>1, <2>3, <3>1, <4>1 DEF push, full, Queue!FifoPush
    <3>2. CASE ~full
      <4>1. /\ size_' = size_ + 1 /\ head_' = head_ /\ size_ < Capacity
            /\ AfterTail = Slot(head_, size_ + 1)
            /\ values_' = [values_ EXCEPT ![Slot(head_, size_ + 1)] = v]
        BY <2>t, <2>3, <3>2, SlotIsModulo DEF push, full, AfterTail, Index
      <4>2. \A i \in 1 .. size_ : Contents'[i] = Contents[i]
        BY <2>t, <2>1, <2>2, <4>1 DEF Slot, Index
      <4>3. Contents'[size_ + 1] = v
        BY <2>t, <2>2, <4>1, SlotIsModulo DEF Index
      <4>4. Contents' = Append(Contents, v)
        BY <2>t, <2>1, <2>2, <4>1, <4>2, <4>3
      <4> QED BY <2>1, <2>3, <3>2, <4>1, <4>4 DEF push, Queue!FifoPush
    <3> QED BY <3>1, <3>2
  <2>4. ASSUME front PROVE Queue!FifoFront
    <3>1. Contents' = Contents
      BY <2>4 DEF front, Contents
    <3>2. ~empty => Head(Contents) = values_[head_]
      BY <2>t, <2>1 DEF empty, Slot, Index
    <3>3. empty <=> Contents = <<>>
      BY <2>t, <2>1 DEF empty
    <3> QED BY <2>4, <3>1, <3>2, <3>3 DEF front, Queue!FifoFront
  <2>5. ASSUME pop PROVE Queue!FifoPop
    <3>1. empty <=> Contents = <<>>
      BY <2>t, <2>1 DEF empty
    <3>2. CASE empty
      <4>1. Contents' = Contents
        BY <2>5, <3>2 DEF pop, Contents
      <4> QED BY <2>5, <3>1, <3>2, <4>1 DEF pop, Queue!FifoPop
    <3>3. CASE ~empty
      <4>1. /\ size_' = size_ - 1 /\ values_' = values_ /\ size_ > 0
            /\ head_' = Slot(head_, 2)
        <5>1. AfterHead = Slot(head_, 2)
          BY <2>t, HeadIsModulo DEF AfterHead
        <5> QED BY <2>t, <2>5, <3>3, <5>1 DEF pop, empty
      <4>2. \A i \in 1 .. size_ - 1 : Slot(head_', i) = Slot(head_, i + 1)
        BY <2>t, <4>1 DEF Slot, Index
      <4>3. Contents' = Tail(Contents)
        BY <2>t, <2>1, <2>2, <4>1, <4>2
      <4> QED BY <2>5, <3>1, <3>3, <4>3 DEF pop, Queue!FifoPop
    <3> QED BY <3>2, <3>3
  <2>6. ASSUME clear PROVE Queue!FifoClear
    BY <2>2, <2>6 DEF clear, Queue!FifoClear
  <2>7. CASE UNCHANGED ringVars
    BY <2>7 DEF ringVars, Contents
  <2> QED BY <1>2, <2>3, <2>4, <2>5, <2>6, <2>7 DEF Next, Queue!FifoNext
<1> QED BY <1>1, <1>2, RingTypeCorrect, PTL DEF Spec, RingIsFifo, Queue!FifoSpec
=============================================================================
