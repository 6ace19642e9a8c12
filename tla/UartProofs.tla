------------------------------- MODULE UartProofs -------------------------------
(***************************************************************************)
(* The safety invariants of Uart.tla for every FIFO depth, trigger level,  *)
(* timing and guest.  They are inductive together with the shape of the    *)
(* call in progress.                                                       *)
(***************************************************************************)
EXTENDS Uart, SequenceTheorems, TLAPS

BeatOK ==
  /\ beat.kind = "write" => beat.store \in Stores /\ beat.registers \subseteq DOMAIN beat.store
  /\ beat = NoBeat \/ beat.registers # {}

(* UartTypeOK in the groups the registers disturb together.                *)
ControlOK ==
  /\ fifo_control \in FifoControl
  /\ interrupt_enable \subseteq Interrupt
  /\ line_control \in LineControl
  /\ modem_control \in ModemControl
HostOK ==
  /\ taken \in Seq(1 .. HostBytes) /\ cleared \subseteq 1 .. HostBytes
  /\ sent \in 0 .. HostBytes
  /\ input \in Seq(1 .. HostBytes)
ReceiveOK ==
  /\ receive_fifo \in Seq(0 .. HostBytes)
  /\ receive_idle_cycles \in 0 .. IdleLimit
  /\ input_poll_remaining \in 0 .. InputPollCycles
TransmitOK ==
  /\ thre_pending \in BOOLEAN /\ tx_pending \in BOOLEAN
  /\ ThreMeansIdle
ModemOK ==
  /\ modem_status \subseteq ModemInput /\ modem_delta \subseteq ModemInput
  /\ modem_rose \subseteq ModemInput /\ modem_fell \subseteq ModemInput
  /\ ModemChangesReported
StateOK ==
  ControlOK /\ HostOK /\ ReceiveOK /\ TransmitOK /\ ModemOK /\ overrun \in BOOLEAN
  /\ FifoFitsItsMode

IInv ==
  /\ UartTypeOK
  /\ BeatOK
  /\ FifoFitsItsMode
  /\ ThreMeansIdle
  /\ ModemChangesReported
  /\ IrqIsLevel

-----------------------------------------------------------------------------
(* interrupt_identification names a source exactly when one asserts.       *)
LEMMA IdentifiesAsserted ==
  ASSUME UartTypeOK'
  PROVE  (interrupt_identification' # "none") <=> Asserted'
<1>1. /\ receive_fifo' \in Seq(0 .. HostBytes) /\ fifo_control' \in FifoControl
  BY DEF UartTypeOK
<1>2. TriggerLevel' \in Nat /\ TriggerLevel' >= 1
  BY <1>1, UartAssumption DEF TriggerLevel, FifoControl
<1>3. Len(receive_fifo') >= TriggerLevel' => receive_fifo' # <<>>
  BY <1>1, <1>2
<1> QED BY <1>3 DEF interrupt_identification, Asserted

LEMMA SettledIsLevel ==
  ASSUME UartTypeOK', settle
  PROVE  IrqIsLevel'
BY IdentifiesAsserted DEF settle, IrqIsLevel

(* A register step leaves a well-formed call, or none, behind.             *)
LEMMA NextLaneFacts ==
  ASSUME UartTypeOK, BeatOK, NEW n \in Register, NextLane(n), n \in beat.registers
  PROVE  /\ beat' \in [kind : {"none", "read", "write"}, registers : SUBSET Register,
                       store : Stores \cup {<<>>}]
         /\ BeatOK'
         /\ irq \in BOOLEAN => irq' \in BOOLEAN
         /\ UartTypeOK' => IrqIsLevel'
<1>0. beat \in [kind : {"none", "read", "write"}, registers : SUBSET Register,
                store : Stores \cup {<<>>}]
  BY DEF UartTypeOK
<1>1. CASE beat.registers = {n}
  <2>1. beat' = NoBeat /\ settle
    BY <1>1 DEF NextLane
  <2>2. beat' \in [kind : {"none", "read", "write"}, registers : SUBSET Register,
                   store : Stores \cup {<<>>}]
    BY <2>1 DEF NoBeat
  <2>3. BeatOK'
    BY <2>1 DEF BeatOK, NoBeat
  <2>4. irq' \in BOOLEAN
    BY <2>1 DEF settle
  <2> QED BY <2>1, <2>2, <2>3, <2>4, SettledIsLevel
<1>2. CASE beat.registers # {n}
  <2>1. beat' = [beat EXCEPT !.registers = beat.registers \ {n}] /\ irq' = irq
    BY <1>2 DEF NextLane
  <2>2. /\ beat'.kind = beat.kind /\ beat'.store = beat.store
        /\ beat'.registers = beat.registers \ {n}
    BY <1>0, <2>1
  <2>3. beat.registers \ {n} # {}
    BY <1>2
  <2>4. beat' # NoBeat
    BY <2>2, <2>3 DEF NoBeat
  <2>5. BeatOK'
    BY <2>2, <2>3 DEF BeatOK
  <2> QED BY <1>0, <2>1, <2>4, <2>5 DEF IrqIsLevel
<1> QED BY <1>1, <1>2

(* The groups together with irq and beat are the type invariant.           *)
LEMMA StateIsTyped ==
  IInv <=> /\ StateOK /\ BeatOK /\ IrqIsLevel /\ irq \in BOOLEAN
           /\ beat \in [kind : {"none", "read", "write"}, registers : SUBSET Register,
                        store : Stores \cup {<<>>}]
BY DEF IInv, StateOK, UartTypeOK, ControlOK, HostOK, ReceiveOK, TransmitOK, ModemOK

LEMMA StateIsTypedNext ==
  /\ StateOK' /\ irq' \in BOOLEAN
  /\ beat' \in [kind : {"none", "read", "write"}, registers : SUBSET Register,
                store : Stores \cup {<<>>}]
  => UartTypeOK'
BY DEF StateOK, UartTypeOK, ControlOK, HostOK, ReceiveOK, TransmitOK, ModemOK

(* A register step that keeps the state well formed keeps the invariant.   *)
LEMMA LaneKeepsIInv ==
  ASSUME IInv, NEW n \in Register, NextLane(n), n \in beat.registers, StateOK'
  PROVE  IInv'
<1>1. UartTypeOK /\ BeatOK /\ irq \in BOOLEAN
  BY DEF IInv, UartTypeOK
<1>2. UartTypeOK'
  BY <1>1, NextLaneFacts, StateIsTypedNext
<1>3. BeatOK' /\ IrqIsLevel'
  BY <1>1, <1>2, NextLaneFacts
<1> QED BY <1>2, <1>3 DEF IInv, StateOK, TransmitOK, ModemOK

-----------------------------------------------------------------------------
LEMMA InitOK == Init => IInv
<1> SUFFICES ASSUME Init PROVE IInv
  OBVIOUS
<1>1. ControlOK /\ HostOK
  BY UartAssumption DEF Init, ControlOK, HostOK, FifoControl, LineControl, ModemControl
<1>2. ReceiveOK /\ FifoFitsItsMode
  BY UartAssumption DEF Init, ReceiveOK, FifoFitsItsMode, FifoCapacity, IdleLimit
<1>3. TransmitOK /\ ModemOK /\ overrun \in BOOLEAN
  BY DEF Init, TransmitOK, ThreMeansIdle, ModemOK, ModemChangesReported, ConsoleLines, ModemInput
<1>4. BeatOK /\ irq \in BOOLEAN
  BY DEF Init, BeatOK, NoBeat
<1>5. beat \in [kind : {"none", "read", "write"}, registers : SUBSET Register,
                store : Stores \cup {<<>>}]
  BY DEF Init, NoBeat
<1>6. ~Asserted
  BY DEF Init, Asserted
<1>7. IrqIsLevel
  BY <1>6 DEF Init, IrqIsLevel
<1> QED BY <1>1, <1>2, <1>3, <1>4, <1>5, <1>7, StateIsTyped DEF StateOK

(* The two parts of a sequence cut after its nth element.                  *)
LEMMA SplitSeq ==
  ASSUME NEW S, NEW s \in Seq(S), NEW n \in 0 .. Len(s)
  PROVE  /\ SubSeq(s, 1, n) \in Seq(S) /\ Len(SubSeq(s, 1, n)) = n
         /\ SubSeq(s, n + 1, Len(s)) \in Seq(S)
<1>1. Len(s) \in Nat /\ n \in Int /\ n + 1 \in Int /\ Len(s) \in Int /\ 1 \in Int
  OBVIOUS
<1>2. \A i \in 1 .. Len(s) : s[i] \in S
  OBVIOUS
<1>3. \A i \in 1 .. n : s[i] \in S
  BY <1>1, <1>2
<1>4. \A i \in n + 1 .. Len(s) : s[i] \in S
  BY <1>1, <1>2
<1>5. SubSeq(s, 1, n) \in Seq(S)
  BY <1>1, <1>3, SubSeqProperties, Zenon
<1>6. Len(SubSeq(s, 1, n)) = n
  OBVIOUS
<1>7. SubSeq(s, n + 1, Len(s)) \in Seq(S)
  BY <1>1, <1>4, SubSeqProperties, Zenon
<1> QED BY <1>5, <1>6, <1>7

(* poll_input keeps the receiver within its bounds.                        *)
LEMMA PollKeepsReceiver ==
  ASSUME StateOK, NEW remaining \in 0 .. InputPollCycles, NEW idle \in 0 .. IdleLimit,
         poll_input(remaining, idle), UNCHANGED controlVars
  PROVE  /\ ReceiveOK' /\ FifoFitsItsMode'
         /\ input' \in Seq(1 .. HostBytes)
<1>1. /\ receive_fifo \in Seq(0 .. HostBytes) /\ input \in Seq(1 .. HostBytes)
      /\ Len(receive_fifo) <= FifoCapacity
  BY DEF StateOK, ReceiveOK, HostOK, FifoFitsItsMode
<1>2. FifoCapacity \in Nat /\ FifoCapacity' = FifoCapacity
  BY UartAssumption DEF FifoCapacity, controlVars
<1>3. Len(receive_fifo) \in Nat /\ Len(input) \in Nat
  BY <1>1
<1>4. IdleLimit' = IdleLimit /\ IdleLimit \in Nat
  BY UartAssumption DEF IdleLimit
<1>5. CASE modem_control.loop \/ remaining # 0 \/ Len(receive_fifo) >= FifoCapacity
  <2>1. /\ input_poll_remaining' = remaining /\ receive_idle_cycles' = idle
        /\ receive_fifo' = receive_fifo /\ input' = input
    BY <1>5 DEF poll_input
  <2> QED BY <1>1, <1>2, <1>4, <2>1 DEF ReceiveOK, FifoFitsItsMode
<1>6. CASE ~(modem_control.loop \/ remaining # 0 \/ Len(receive_fifo) >= FifoCapacity)
  <2>1. /\ receive_fifo' = receive_fifo \o SubSeq(input, 1, Polled)
        /\ input' = SubSeq(input, Polled + 1, Len(input))
        /\ input_poll_remaining' \in {InputPollCycles, 0}
        /\ receive_idle_cycles' \in {idle, 0}
    BY <1>6 DEF poll_input, LeftInInput, IdleAfterPoll
  <2>2. Polled \in 0 .. Len(input) /\ Len(receive_fifo) + Polled <= FifoCapacity
    BY <1>1, <1>2, <1>3 DEF Polled
  <2>3. /\ SubSeq(input, 1, Polled) \in Seq(1 .. HostBytes)
        /\ Len(SubSeq(input, 1, Polled)) = Polled
    BY <1>1, <2>2, SplitSeq
  <2>4. SubSeq(input, Polled + 1, Len(input)) \in Seq(1 .. HostBytes)
    BY <1>1, <2>2, SplitSeq
  <2>5. SubSeq(input, 1, Polled) \in Seq(0 .. HostBytes)
    BY <2>3
  <2>6. /\ receive_fifo' \in Seq(0 .. HostBytes)
        /\ Len(receive_fifo') = Len(receive_fifo) + Polled
    BY <1>1, <2>1, <2>3, <2>5
  <2>7. FifoFitsItsMode'
    BY <1>2, <2>2, <2>6 DEF FifoFitsItsMode
  <2>8. receive_idle_cycles' \in 0 .. IdleLimit' /\ input_poll_remaining' \in 0 .. InputPollCycles
    <3>1. 0 \in 0 .. IdleLimit /\ InputPollCycles \in 0 .. InputPollCycles
      BY <1>4, UartAssumption
    <3>2. 0 \in 0 .. InputPollCycles
      BY UartAssumption
    <3> QED BY <1>4, <2>1, <3>1, <3>2
  <2> QED BY <2>1, <2>4, <2>6, <2>7, <2>8 DEF ReceiveOK
<1> QED BY <1>5, <1>6

-----------------------------------------------------------------------------
LEMMA HostSendsOK == IInv /\ HostSends => IInv'
<1> SUFFICES ASSUME IInv, HostSends PROVE IInv'
  OBVIOUS
<1> USE DEF HostSends, controlVars, transmitVars, modemVars
<1>0. StateOK
  BY StateIsTyped
<1>1. sent + 1 \in 1 .. HostBytes /\ sent' = sent + 1 /\ input' = Append(input, sent + 1)
  <2>1. sent \in 0 .. HostBytes
    BY <1>0 DEF StateOK, HostOK
  <2>2. sent < HostBytes /\ sent' = sent + 1 /\ input' = Append(input, sent + 1)
    OBVIOUS
  <2>3. sent + 1 \in 1 .. HostBytes
    BY <2>1, <2>2, UartAssumption
  <2> QED BY <2>2, <2>3
<1>2. input' \in Seq(1 .. HostBytes)
  BY <1>0, <1>1 DEF StateOK, HostOK
<1>3. HostOK'
  BY <1>0, <1>1, <1>2 DEF StateOK, HostOK
<1>4. ControlOK' /\ ReceiveOK' /\ FifoFitsItsMode'
  BY <1>0 DEF StateOK, ControlOK, ReceiveOK, FifoFitsItsMode, FifoCapacity, IdleLimit
<1>5. TransmitOK' /\ ModemOK' /\ overrun' \in BOOLEAN
  BY <1>0 DEF StateOK, TransmitOK, ThreMeansIdle, ModemOK, ModemChangesReported
<1>6. UartTypeOK'
  BY <1>3, <1>4, <1>5, StateIsTypedNext, StateIsTyped DEF StateOK
<1>7. BeatOK' /\ IrqIsLevel'
  BY DEF IInv, BeatOK, IrqIsLevel, Asserted, TriggerLevel, IdleLimit
<1> QED BY <1>4, <1>5, <1>6, <1>7 DEF IInv, TransmitOK, ModemOK

LEMMA TickOK == IInv /\ tick => IInv'
<1> SUFFICES ASSUME IInv, tick PROVE IInv'
  OBVIOUS
<1>0. StateOK
  BY StateIsTyped
<1> DEFINE remaining == IF input_poll_remaining # 0 THEN input_poll_remaining - 1 ELSE 0
<1>1. remaining \in 0 .. InputPollCycles
  BY <1>0, UartAssumption DEF StateOK, ReceiveOK
<1>2. IdleAfterTick \in 0 .. IdleLimit
  BY <1>0, UartAssumption DEF StateOK, ReceiveOK, IdleAfterTick, IdleLimit
<1>3. /\ poll_input(remaining, IdleAfterTick) /\ UNCHANGED controlVars
      /\ UNCHANGED <<modemVars, overrun, beat, sent, taken, cleared>> /\ settle
      /\ tx_pending' = FALSE /\ thre_pending' = (thre_pending \/ tx_pending)
  BY DEF tick
<1> HIDE DEF remaining
<1>4. ReceiveOK' /\ FifoFitsItsMode' /\ input' \in Seq(1 .. HostBytes)
  BY <1>0, <1>1, <1>2, <1>3, PollKeepsReceiver
<1>5. ControlOK' /\ HostOK'
  BY <1>0, <1>3, <1>4 DEF StateOK, ControlOK, HostOK, controlVars
<1>6. TransmitOK'
  BY <1>0, <1>3 DEF StateOK, TransmitOK, ThreMeansIdle
<1>7. ModemOK' /\ overrun' \in BOOLEAN
  BY <1>0, <1>3 DEF StateOK, ModemOK, ModemChangesReported, modemVars
<1>8. irq' \in BOOLEAN
  BY <1>3 DEF settle
<1>9. UartTypeOK'
  BY <1>3, <1>4, <1>5, <1>6, <1>7, <1>8, StateIsTypedNext, StateIsTyped DEF StateOK
<1>10. IrqIsLevel'
  BY <1>3, <1>9, SettledIsLevel
<1>11. BeatOK'
  BY <1>3 DEF IInv, BeatOK
<1> QED BY <1>4, <1>6, <1>7, <1>9, <1>10, <1>11 DEF IInv, TransmitOK, ModemOK

(* The host bytes of the FIFO.                                             *)
LEMMA HostByteSetTyped ==
  ASSUME ReceiveOK
  PROVE  HostByteSet(receive_fifo) \subseteq 1 .. HostBytes
BY UartAssumption DEF ReceiveOK, HostByteSet

LEMMA ResetOK == IInv /\ reset => IInv'
<1> SUFFICES ASSUME IInv, reset PROVE IInv'
  OBVIOUS
<1> USE DEF reset
<1>0. StateOK
  BY StateIsTyped
<1>1. ControlOK'
  BY DEF ControlOK, FifoControl, LineControl, ModemControl
<1>2. HostOK'
  BY <1>0, HostByteSetTyped DEF StateOK, HostOK
<1>3. ReceiveOK' /\ FifoFitsItsMode'
  BY UartAssumption DEF ReceiveOK, FifoFitsItsMode, FifoCapacity, IdleLimit
<1>4. TransmitOK' /\ overrun' \in BOOLEAN
  BY DEF TransmitOK, ThreMeansIdle
<1>5. ModemOK'
  BY DEF ModemOK, ModemChangesReported, ConsoleLines, ModemInput
<1>6. UartTypeOK'
  BY <1>1, <1>2, <1>3, <1>4, <1>5, StateIsTypedNext, StateIsTyped DEF StateOK
<1>7. ~Asserted'
  BY DEF Asserted
<1>8. IrqIsLevel' /\ BeatOK'
  BY <1>7 DEF IInv, IrqIsLevel, BeatOK
<1> QED BY <1>3, <1>4, <1>5, <1>6, <1>8 DEF IInv, TransmitOK, ModemOK

LEMMA ReadImplOK ==
  ASSUME IInv, NEW registers \in Loads, read_impl(registers)
  PROVE  IInv'
<1>0. StateOK
  BY StateIsTyped
<1>1. registers \subseteq Register /\ registers # {}
  BY UartAssumption
<1>2. /\ poll_input(input_poll_remaining, receive_idle_cycles) /\ UNCHANGED controlVars
      /\ beat' = [kind |-> "read", registers |-> registers, store |-> <<>>]
      /\ UNCHANGED <<transmitVars, modemVars, overrun, irq, sent, taken, cleared>>
  BY DEF read_impl
<1>3. ReceiveOK' /\ FifoFitsItsMode' /\ input' \in Seq(1 .. HostBytes)
  <2>1. input_poll_remaining \in 0 .. InputPollCycles /\ receive_idle_cycles \in 0 .. IdleLimit
    BY <1>0 DEF StateOK, ReceiveOK
  <2> QED BY <1>0, <1>2, <2>1, PollKeepsReceiver
<1>4. ControlOK' /\ HostOK'
  BY <1>0, <1>2, <1>3 DEF StateOK, ControlOK, HostOK, controlVars
<1>5. TransmitOK' /\ ModemOK' /\ overrun' \in BOOLEAN
  BY <1>0, <1>2 DEF StateOK, TransmitOK, ThreMeansIdle, ModemOK, ModemChangesReported,
                    transmitVars, modemVars
<1>6. UartTypeOK'
  <2>1. beat' \in [kind : {"none", "read", "write"}, registers : SUBSET Register,
                   store : Stores \cup {<<>>}]
    BY <1>1, <1>2
  <2> QED BY <1>2, <1>3, <1>4, <1>5, <2>1, StateIsTypedNext, StateIsTyped DEF StateOK
<1>7. BeatOK' /\ beat' # NoBeat
  BY <1>1, <1>2 DEF BeatOK, NoBeat
<1> QED BY <1>3, <1>5, <1>6, <1>7 DEF IInv, IrqIsLevel, TransmitOK, ModemOK

LEMMA WriteImplOK ==
  ASSUME IInv, NEW store \in Stores, write_impl(store)
  PROVE  IInv'
<1> USE DEF write_impl, controlVars, receiveVars, transmitVars, modemVars
<1>0. StateOK
  BY StateIsTyped
<1>1. DOMAIN store \subseteq Register /\ DOMAIN store # {}
  BY UartAssumption
<1>2. ControlOK' /\ HostOK'
  BY <1>0 DEF StateOK, ControlOK, HostOK
<1>3. ReceiveOK' /\ FifoFitsItsMode' /\ overrun' \in BOOLEAN
  BY <1>0 DEF StateOK, ReceiveOK, FifoFitsItsMode, FifoCapacity, IdleLimit
<1>4. TransmitOK' /\ ModemOK'
  BY <1>0 DEF StateOK, TransmitOK, ThreMeansIdle, ModemOK, ModemChangesReported
<1>5. beat' = [kind |-> "write", registers |-> DOMAIN store, store |-> store]
  OBVIOUS
<1>6. UartTypeOK'
  <2>1. beat' \in [kind : {"none", "read", "write"}, registers : SUBSET Register,
                   store : Stores \cup {<<>>}]
    BY <1>1, <1>5
  <2> QED BY <1>2, <1>3, <1>4, <2>1, StateIsTypedNext, StateIsTyped DEF StateOK
<1>7. BeatOK' /\ beat' # NoBeat
  BY <1>1, <1>5 DEF BeatOK, NoBeat
<1> QED BY <1>3, <1>4, <1>6, <1>7 DEF IInv, IrqIsLevel, TransmitOK, ModemOK

-----------------------------------------------------------------------------
LEMMA ReadRegisterOK == IInv /\ read_register => IInv'
<1> SUFFICES ASSUME IInv, read_register PROVE IInv'
  OBVIOUS
<1> USE DEF controlVars, receiveVars, transmitVars, modemVars
<1>0. StateOK
  BY StateIsTyped
<1>1. CASE ReadData
  <2>1. NextLane(0) /\ 0 \in beat.registers
    BY <1>1 DEF ReadData, At
  <2>2. ControlOK' /\ TransmitOK' /\ ModemOK' /\ overrun' \in BOOLEAN
    BY <1>0, <1>1 DEF ReadData, StateOK, ControlOK, TransmitOK, ThreMeansIdle, ModemOK,
                      ModemChangesReported
  <2>3. ReceiveOK' /\ FifoFitsItsMode' /\ HostOK'
    <3>1. CASE line_control.dlab \/ receive_fifo = <<>>
      BY <1>0, <1>1, <3>1 DEF ReadData, StateOK, HostOK, ReceiveOK, FifoFitsItsMode,
                              FifoCapacity, IdleLimit
    <3>2. CASE ~(line_control.dlab \/ receive_fifo = <<>>)
      <4>1. receive_fifo \in Seq(0 .. HostBytes) /\ receive_fifo # <<>>
        BY <1>0, <3>2 DEF StateOK, ReceiveOK
      <4>2. /\ receive_fifo' = Tail(receive_fifo) /\ receive_idle_cycles' = 0
            /\ taken' = IF Head(receive_fifo) = 0 THEN taken
                        ELSE Append(taken, Head(receive_fifo))
        BY <1>1, <3>2 DEF ReadData
      <4>3. /\ Head(receive_fifo) \in 0 .. HostBytes /\ Tail(receive_fifo) \in Seq(0 .. HostBytes)
            /\ Len(Tail(receive_fifo)) = Len(receive_fifo) - 1
        BY <4>1, HeadTailProperties
      <4>4. taken' \in Seq(1 .. HostBytes)
        <5>1. Head(receive_fifo) # 0 => Head(receive_fifo) \in 1 .. HostBytes
          BY <4>3
        <5>2. taken \in Seq(1 .. HostBytes)
          BY <1>0 DEF StateOK, HostOK
        <5> QED BY <4>2, <5>1, <5>2, AppendProperties
      <4>5. HostOK'
        BY <1>0, <1>1, <4>4 DEF ReadData, StateOK, HostOK
      <4>6. ReceiveOK'
        <5>1. 0 \in 0 .. IdleLimit /\ IdleLimit' = IdleLimit
          BY UartAssumption DEF IdleLimit
        <5>2. input_poll_remaining' = input_poll_remaining
          BY <1>1 DEF ReadData
        <5> QED BY <1>0, <4>2, <4>3, <5>1, <5>2 DEF StateOK, ReceiveOK
      <4>7. FifoCapacity' = FifoCapacity /\ FifoCapacity \in Nat /\ Len(receive_fifo) \in Nat
        BY <1>1, <4>1, UartAssumption DEF ReadData, FifoCapacity
      <4>8. FifoFitsItsMode'
        BY <1>0, <4>2, <4>3, <4>7 DEF StateOK, FifoFitsItsMode
      <4> QED BY <4>5, <4>6, <4>8
    <3> QED BY <3>1, <3>2
  <2> QED BY <2>1, <2>2, <2>3, LaneKeepsIInv DEF StateOK, Register
<1>2. CASE ReadIdentification
  <2>1. NextLane(2) /\ 2 \in beat.registers
    BY <1>2 DEF ReadIdentification, At
  <2>2. ControlOK' /\ ModemOK' /\ HostOK' /\ overrun' \in BOOLEAN
    BY <1>0, <1>2 DEF ReadIdentification, StateOK, ControlOK, HostOK, ModemOK,
                      ModemChangesReported
  <2>3. ReceiveOK' /\ FifoFitsItsMode'
    BY <1>0, <1>2 DEF ReadIdentification, StateOK, ReceiveOK, FifoFitsItsMode, FifoCapacity,
                      IdleLimit
  <2>4. TransmitOK'
    BY <1>0, <1>2 DEF ReadIdentification, StateOK, TransmitOK, ThreMeansIdle
  <2> QED BY <2>1, <2>2, <2>3, <2>4, LaneKeepsIInv DEF StateOK, Register
<1>3. CASE ReadLineStatus
  <2>1. NextLane(5) /\ 5 \in beat.registers
    BY <1>3 DEF ReadLineStatus, At
  <2>2. ControlOK' /\ ModemOK' /\ HostOK' /\ TransmitOK' /\ overrun' \in BOOLEAN
    BY <1>0, <1>3 DEF ReadLineStatus, StateOK, ControlOK, HostOK, ModemOK,
                      ModemChangesReported, TransmitOK, ThreMeansIdle
  <2>3. ReceiveOK' /\ FifoFitsItsMode'
    BY <1>0, <1>3 DEF ReadLineStatus, StateOK, ReceiveOK, FifoFitsItsMode, FifoCapacity,
                      IdleLimit
  <2> QED BY <2>1, <2>2, <2>3, LaneKeepsIInv DEF StateOK, Register
<1>4. CASE ReadModemStatus
  <2>1. NextLane(6) /\ 6 \in beat.registers
    BY <1>4 DEF ReadModemStatus, At
  <2>2. ControlOK' /\ HostOK' /\ TransmitOK' /\ overrun' \in BOOLEAN
    BY <1>0, <1>4 DEF ReadModemStatus, StateOK, ControlOK, HostOK, TransmitOK, ThreMeansIdle
  <2>3. ReceiveOK' /\ FifoFitsItsMode'
    BY <1>0, <1>4 DEF ReadModemStatus, StateOK, ReceiveOK, FifoFitsItsMode, FifoCapacity,
                      IdleLimit
  <2>4. ModemOK'
    BY <1>0, <1>4 DEF ReadModemStatus, StateOK, ModemOK, ModemChangesReported
  <2> QED BY <2>1, <2>2, <2>3, <2>4, LaneKeepsIInv DEF StateOK, Register
<1>5. CASE ReadPlain
  <2>1. PICK i \in {1, 3, 4, 7} :
          /\ At("read", i) /\ NextLane(i)
          /\ UNCHANGED <<controlVars, receiveVars, transmitVars, modemVars, overrun, sent, taken>>
    BY <1>5 DEF ReadPlain
  <2>2. ControlOK' /\ ModemOK' /\ HostOK' /\ TransmitOK' /\ overrun' \in BOOLEAN
    BY <1>0, <2>1 DEF StateOK, ControlOK, HostOK, ModemOK, ModemChangesReported, TransmitOK,
                      ThreMeansIdle
  <2>3. ReceiveOK' /\ FifoFitsItsMode'
    BY <1>0, <2>1 DEF StateOK, ReceiveOK, FifoFitsItsMode, FifoCapacity, IdleLimit
  <2>4. i \in Register /\ NextLane(i) /\ i \in beat.registers
    BY <2>1 DEF Register, At
  <2>5. StateOK'
    BY <2>2, <2>3 DEF StateOK
  <2> QED BY <2>4, <2>5, LaneKeepsIInv
<1> QED BY <1>1, <1>2, <1>3, <1>4, <1>5 DEF read_register

-----------------------------------------------------------------------------
(* What a write carries for a register it still has to store.              *)
LEMMA StoreTyped ==
  ASSUME IInv, beat.kind = "write"
  PROVE  /\ 0 \in beat.registers => beat.store[0] = 0
         /\ 1 \in beat.registers => beat.store[1] \subseteq Interrupt
         /\ 2 \in beat.registers => beat.store[2] \in FifoControlValue
         /\ 3 \in beat.registers => beat.store[3] \in LineControl
         /\ 4 \in beat.registers => beat.store[4] \in ModemControl
<1>1. beat.store \in Stores /\ beat.registers \subseteq DOMAIN beat.store
  BY DEF IInv, BeatOK
<1> QED BY <1>1, UartAssumption

LEMMA WriteDataOK == IInv /\ WriteData => IInv'
<1> SUFFICES ASSUME IInv, WriteData PROVE IInv'
  OBVIOUS
<1> USE DEF controlVars, transmitVars, modemVars
<1>0. StateOK
  BY StateIsTyped
<1>1. NextLane(0) /\ 0 \in beat.registers /\ beat.store[0] = 0
  BY StoreTyped DEF WriteData, At
<1>2. ControlOK' /\ HostOK' /\ ModemOK'
  BY <1>0 DEF WriteData, StateOK, ControlOK, HostOK, ModemOK, ModemChangesReported
<1>3. TransmitOK'
  BY <1>0 DEF WriteData, transmit, StateOK, TransmitOK, ThreMeansIdle
<1>4. /\ receive_fifo \in Seq(0 .. HostBytes) /\ Len(receive_fifo) \in Nat
      /\ FifoCapacity \in Nat /\ FifoCapacity' = FifoCapacity
      /\ Len(receive_fifo) <= FifoCapacity
  <2>1. receive_fifo \in Seq(0 .. HostBytes) /\ Len(receive_fifo) <= FifoCapacity
    BY <1>0 DEF StateOK, ReceiveOK, FifoFitsItsMode
  <2>2. FifoCapacity \in Nat /\ FifoCapacity' = FifoCapacity
    BY UartAssumption DEF FifoCapacity, WriteData
  <2> QED BY <2>1, <2>2
<1>5. \/ receive_fifo' = receive_fifo
      \/ receive_fifo' = Append(receive_fifo, 0) /\ Len(receive_fifo) < FifoCapacity
  <2>1. \/ receive_fifo' = receive_fifo
        \/ receive_fifo' = Append(receive_fifo, 0) /\ ~(Len(receive_fifo) >= FifoCapacity)
    BY <1>1 DEF WriteData, transmit
  <2> QED BY <1>4, <2>1
<1>6. receive_fifo' \in Seq(0 .. HostBytes) /\ FifoFitsItsMode'
  <2>1. 0 \in 0 .. HostBytes
    BY UartAssumption
  <2>2. /\ Append(receive_fifo, 0) \in Seq(0 .. HostBytes)
        /\ Len(Append(receive_fifo, 0)) = Len(receive_fifo) + 1
    BY <1>4, <2>1, AppendProperties
  <2>3. CASE receive_fifo' = receive_fifo
    BY <1>4, <2>3 DEF FifoFitsItsMode
  <2>4. CASE receive_fifo' = Append(receive_fifo, 0) /\ Len(receive_fifo) < FifoCapacity
    <3>1. Len(receive_fifo') = Len(receive_fifo) + 1
      BY <2>2, <2>4
    <3>2. Len(receive_fifo) + 1 <= FifoCapacity
      BY <1>4, <2>4
    <3>3. Len(receive_fifo') <= FifoCapacity'
      BY <1>4, <3>1, <3>2
    <3> QED BY <2>2, <2>4, <3>3 DEF FifoFitsItsMode
  <2> QED BY <1>5, <2>3, <2>4
<1>7. ReceiveOK'
  <2>1. 0 \in 0 .. IdleLimit /\ IdleLimit' = IdleLimit
    BY UartAssumption DEF IdleLimit
  <2>2. /\ receive_idle_cycles' \in {receive_idle_cycles, 0}
        /\ input_poll_remaining' = input_poll_remaining
    BY DEF WriteData, transmit
  <2> QED BY <1>0, <1>6, <2>1, <2>2 DEF StateOK, ReceiveOK
<1>8. overrun' \in BOOLEAN
  <2>1. overrun' \in {overrun, TRUE}
    BY DEF WriteData, transmit
  <2> QED BY <1>0, <2>1 DEF StateOK
<1> QED BY <1>1, <1>2, <1>3, <1>6, <1>7, <1>8, LaneKeepsIInv DEF StateOK, Register

LEMMA WriteInterruptEnableOK == IInv /\ WriteInterruptEnable => IInv'
<1> SUFFICES ASSUME IInv, WriteInterruptEnable PROVE IInv'
  OBVIOUS
<1> USE DEF receiveVars, modemVars
<1>0. StateOK
  BY StateIsTyped
<1>1. NextLane(1) /\ 1 \in beat.registers /\ beat.store[1] \subseteq Interrupt
  BY StoreTyped DEF WriteInterruptEnable, At
<1>2. HostOK' /\ ModemOK' /\ overrun' \in BOOLEAN
  BY <1>0 DEF WriteInterruptEnable, StateOK, HostOK, ModemOK, ModemChangesReported
<1>3. ReceiveOK' /\ FifoFitsItsMode'
  BY <1>0 DEF WriteInterruptEnable, StateOK, ReceiveOK, FifoFitsItsMode, FifoCapacity, IdleLimit
<1>4. ControlOK'
  BY <1>0, <1>1 DEF WriteInterruptEnable, StateOK, ControlOK
<1>5. TransmitOK'
  <2>1. /\ tx_pending' = tx_pending /\ thre_pending' \in BOOLEAN
        /\ thre_pending' => thre_pending \/ ~tx_pending
    BY <1>0 DEF WriteInterruptEnable, RaisesThre, StateOK, TransmitOK
  <2> QED BY <1>0, <2>1 DEF StateOK, TransmitOK, ThreMeansIdle
<1> QED BY <1>1, <1>2, <1>3, <1>4, <1>5, LaneKeepsIInv DEF StateOK, Register

LEMMA WriteFifoControlOK == IInv /\ WriteFifoControl => IInv'
<1> SUFFICES ASSUME IInv, WriteFifoControl PROVE IInv'
  OBVIOUS
<1> USE DEF modemVars
<1>0. StateOK
  BY StateIsTyped
<1>1. NextLane(2) /\ 2 \in beat.registers /\ beat.store[2] \in FifoControlValue
  BY StoreTyped DEF WriteFifoControl, At
<1> DEFINE value == beat.store[2]
<1>2. /\ fifo_control' = [enabled |-> value.enabled, trigger |-> value.trigger]
      /\ tx_pending' = (tx_pending /\ ~value.clear_tx)
      /\ thre_pending' = (thre_pending \/ value.clear_tx)
      /\ \/ receive_fifo' = <<>> /\ receive_idle_cycles' = 0
            /\ cleared' = cleared \cup HostByteSet(receive_fifo)
         \/ /\ value.enabled = fifo_control.enabled
            /\ UNCHANGED <<receive_fifo, receive_idle_cycles, cleared>>
      /\ UNCHANGED <<interrupt_enable, line_control, modem_control, input_poll_remaining, input,
                     modemVars, overrun, sent, taken>>
  BY DEF WriteFifoControl, ClearsFifo
<1>3. value \in FifoControlValue
  BY <1>1
<1> HIDE DEF value
<1>4. ControlOK'
  BY <1>0, <1>2, <1>3 DEF StateOK, ControlOK, FifoControl, FifoControlValue
<1>5. ModemOK' /\ overrun' \in BOOLEAN
  BY <1>0, <1>2 DEF StateOK, ModemOK, ModemChangesReported
<1>6. HostOK'
  BY <1>0, <1>2, HostByteSetTyped DEF StateOK, HostOK
<1>7. TransmitOK'
  <2>1. value.clear_tx \in BOOLEAN
    BY <1>3 DEF FifoControlValue
  <2> QED BY <1>0, <1>2, <2>1 DEF StateOK, TransmitOK, ThreMeansIdle
<1>8. ReceiveOK'
  <2>1. 0 \in 0 .. IdleLimit /\ IdleLimit' = IdleLimit
    BY UartAssumption DEF IdleLimit
  <2>2. receive_fifo' \in Seq(0 .. HostBytes)
    <3>1. receive_fifo' = receive_fifo \/ receive_fifo' = <<>>
      BY <1>2
    <3>2. receive_fifo \in Seq(0 .. HostBytes)
      BY <1>0 DEF StateOK, ReceiveOK
    <3>3. <<>> \in Seq(0 .. HostBytes)
      OBVIOUS
    <3> QED BY <3>1, <3>2, <3>3
  <2>3. receive_idle_cycles' \in {receive_idle_cycles, 0}
    BY <1>2
  <2>4. receive_idle_cycles' \in 0 .. IdleLimit'
    BY <1>0, <2>1, <2>3 DEF StateOK, ReceiveOK
  <2> QED BY <1>0, <1>2, <2>2, <2>4 DEF StateOK, ReceiveOK
<1>9. FifoFitsItsMode'
  <2>1. CASE receive_fifo' = <<>>
    BY <2>1, UartAssumption DEF FifoFitsItsMode, FifoCapacity
  <2>2. CASE value.enabled = fifo_control.enabled /\ receive_fifo' = receive_fifo
    <3>1. fifo_control'.enabled = fifo_control.enabled
      BY <1>2, <2>2
    <3> QED BY <1>0, <2>2, <3>1 DEF StateOK, FifoFitsItsMode, FifoCapacity
  <2> QED BY <1>2, <2>1, <2>2
<1> QED BY <1>1, <1>4, <1>5, <1>6, <1>7, <1>8, <1>9, LaneKeepsIInv DEF StateOK, Register

LEMMA WriteLineControlOK == IInv /\ WriteLineControl => IInv'
<1> SUFFICES ASSUME IInv, WriteLineControl PROVE IInv'
  OBVIOUS
<1> USE DEF receiveVars, transmitVars, modemVars, WriteLineControl
<1>0. StateOK
  BY StateIsTyped
<1>1. NextLane(3) /\ 3 \in beat.registers /\ beat.store[3] \in LineControl
  BY StoreTyped DEF At
<1>2. HostOK' /\ ModemOK' /\ TransmitOK' /\ overrun' \in BOOLEAN
  BY <1>0 DEF StateOK, HostOK, ModemOK, ModemChangesReported, TransmitOK, ThreMeansIdle
<1>3. ReceiveOK' /\ FifoFitsItsMode'
  BY <1>0 DEF StateOK, ReceiveOK, FifoFitsItsMode, FifoCapacity, IdleLimit
<1>4. ControlOK'
  BY <1>0, <1>1 DEF StateOK, ControlOK
<1> QED BY <1>1, <1>2, <1>3, <1>4, LaneKeepsIInv DEF StateOK, Register

(* The write adds to the delta bits what it adds to the recorded edges.    *)
LEMMA WriteModemControlOK == IInv /\ WriteModemControl => IInv'
<1> SUFFICES ASSUME IInv, WriteModemControl PROVE IInv'
  OBVIOUS
<1> USE DEF receiveVars, transmitVars, WriteModemControl
<1>0. StateOK
  BY StateIsTyped
<1>1. NextLane(4) /\ 4 \in beat.registers /\ beat.store[4] \in ModemControl
  BY StoreTyped DEF At
<1>2. HostOK' /\ TransmitOK' /\ overrun' \in BOOLEAN
  BY <1>0 DEF StateOK, HostOK, TransmitOK, ThreMeansIdle
<1>3. ReceiveOK' /\ FifoFitsItsMode'
  BY <1>0 DEF StateOK, ReceiveOK, FifoFitsItsMode, FifoCapacity, IdleLimit
<1>4. ControlOK'
  BY <1>0, <1>1 DEF StateOK, ControlOK
<1>5. ModemOK'
  <2> DEFINE lines == LinesOf(beat.store[4])
  <2>1. lines \subseteq ModemInput
    BY DEF LinesOf, ConsoleLines, ModemInput
  <2>2. /\ modem_status' = lines
        /\ modem_delta' = modem_delta \cup Changed(modem_status, lines)
        /\ modem_rose' = modem_rose \cup (lines \ modem_status)
        /\ modem_fell' = modem_fell \cup (modem_status \ lines)
    BY DEF DeltaAfter
  <2> HIDE DEF lines
  <2>3. /\ modem_status \subseteq ModemInput /\ modem_delta \subseteq ModemInput
        /\ modem_rose \subseteq ModemInput /\ modem_fell \subseteq ModemInput
        /\ modem_delta = modem_fell \cup (modem_rose \ {"RI"})
    BY <1>0 DEF StateOK, ModemOK, ModemChangesReported
  <2>4. Changed(modem_status, lines) = (modem_status \ lines) \cup ((lines \ modem_status) \ {"RI"})
    BY <2>1, <2>3 DEF Changed
  <2>5. ModemChangesReported'
    BY <2>2, <2>3, <2>4 DEF ModemChangesReported
  <2> QED BY <2>1, <2>2, <2>3, <2>4, <2>5 DEF ModemOK
<1> QED BY <1>1, <1>2, <1>3, <1>4, <1>5, LaneKeepsIInv DEF StateOK, Register

LEMMA WritePlainOK == IInv /\ WritePlain => IInv'
<1> SUFFICES ASSUME IInv, WritePlain PROVE IInv'
  OBVIOUS
<1> USE DEF controlVars, receiveVars, transmitVars, modemVars
<1>0. StateOK
  BY StateIsTyped
<1>1. PICK i \in {5, 6, 7} :
        /\ At("write", i) /\ NextLane(i)
        /\ UNCHANGED <<controlVars, receiveVars, transmitVars, modemVars, overrun, sent, taken>>
  BY DEF WritePlain
<1>2. ControlOK' /\ ModemOK' /\ HostOK' /\ TransmitOK' /\ overrun' \in BOOLEAN
  BY <1>0, <1>1 DEF StateOK, ControlOK, HostOK, ModemOK, ModemChangesReported, TransmitOK,
                    ThreMeansIdle
<1>3. ReceiveOK' /\ FifoFitsItsMode'
  BY <1>0, <1>1 DEF StateOK, ReceiveOK, FifoFitsItsMode, FifoCapacity, IdleLimit
<1>4. i \in Register /\ NextLane(i) /\ i \in beat.registers
  BY <1>1 DEF Register, At
<1>5. StateOK'
  BY <1>2, <1>3 DEF StateOK
<1> QED BY <1>4, <1>5, LaneKeepsIInv

-----------------------------------------------------------------------------
(* Every call of the device and every register step preserves IInv.        *)
THEOREM Inductive == Init /\ [][Next]_uartVars => []IInv
<1>1. IInv /\ [Next]_uartVars => IInv'
  <2> SUFFICES ASSUME IInv, [Next]_uartVars PROVE IInv'
    OBVIOUS
  <2>1. CASE UNCHANGED uartVars
    <3> USE <2>1 DEF uartVars, controlVars, receiveVars, transmitVars, modemVars
    <3>1. UartTypeOK'
      BY DEF IInv, UartTypeOK, IdleLimit
    <3>2. BeatOK' /\ FifoFitsItsMode' /\ ThreMeansIdle' /\ ModemChangesReported'
      BY DEF IInv, BeatOK, FifoFitsItsMode, FifoCapacity, ThreMeansIdle, ModemChangesReported
    <3>3. IrqIsLevel'
      BY DEF IInv, IrqIsLevel, Asserted, TriggerLevel, IdleLimit
    <3> QED BY <3>1, <3>2, <3>3 DEF IInv
  <2>2. CASE read_register
    BY <2>2, ReadRegisterOK
  <2>3. CASE write_register
    BY <2>3, WriteDataOK, WriteInterruptEnableOK, WriteFifoControlOK, WriteLineControlOK,
       WriteModemControlOK, WritePlainOK DEF write_register
  <2>4. ASSUME NEW registers \in Loads, read_impl(registers) PROVE IInv'
    BY <2>4, ReadImplOK
  <2>5. ASSUME NEW store \in Stores, write_impl(store) PROVE IInv'
    BY <2>5, WriteImplOK
  <2> QED BY <2>1, <2>2, <2>3, <2>4, <2>5, HostSendsOK, TickOK, ResetOK DEF Next
<1> QED BY <1>1, InitOK, PTL

(* Between calls the interrupt line is the level of the enabled            *)
(* conditions: every path through UartDevice ends in settle.               *)
THEOREM IrqAlwaysLevel == Spec => []IrqIsLevel
BY Inductive, PTL DEF Spec, IInv

(* poll_input, transmit and the FIFO mode switch never overfill the FIFO.  *)
THEOREM FifoAlwaysFits == Spec => []FifoFitsItsMode
BY Inductive, PTL DEF Spec, IInv

(* THRE is never pending while a character is on its way out.              *)
THEOREM ThreAlwaysIdle == Spec => []ThreMeansIdle
BY Inductive, PTL DEF Spec, IInv

(* The delta bits of set_modem_control are the edges of the modem inputs   *)
(* since MSR was last read, none forgotten and none invented, whatever the *)
(* guest writes to MCR.                                                    *)
THEOREM ModemAlwaysReported == Spec => []ModemChangesReported
BY Inductive, PTL DEF Spec, IInv

(* The variables keep their types.                                         *)
THEOREM UartTypeCorrect == Spec => []UartTypeOK
BY Inductive, PTL DEF Spec, IInv
=============================================================================
