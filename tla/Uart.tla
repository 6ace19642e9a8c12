---------------------------------- MODULE Uart ----------------------------------
(***************************************************************************)
(* UartDevice of src/devices.cpp: the 16550 subset behind the console.     *)
(*                                                                         *)
(* A beat reaches the device in one call, which handles its registers in   *)
(* ascending order and then settles the interrupt line.  Each register of  *)
(* the beat is one step here; `beat' holds what the call has left to do,   *)
(* and no other call of the device is taken before it returns.  A beat     *)
(* outside the eight registers answers SLVERR and changes nothing, as does *)
(* a stuttering step.                                                      *)
(*                                                                         *)
(* Control registers are records and sets instead of bit fields.  The      *)
(* divisor latches and the scratch register are plain storage, and what is *)
(* transmitted leaves the system: neither is kept.  The bytes the host     *)
(* sends are numbered 1, 2, ...; a byte the guest loops back is 0.         *)
(***************************************************************************)
EXTENDS Integers, Sequences

CONSTANTS
  RxDepth,          \* slots of receive_fifo_ (16)
  Trigger,          \* the receive trigger levels (1, 4, 8, 14)
  CharacterCycles,  \* character_cycles_
  InputPollCycles,  \* input_poll_cycles_
  HostBytes,        \* bound: the bytes the host sends
  Loads,            \* the sets of registers the guest reads in one beat
  Stores            \* the beats the guest writes: [registers -> values]

Register == 0 .. 7

Interrupt   == {"rx", "thre", "line", "modem"}
ModemOutput == {"DTR", "RTS", "OUT1", "OUT2"}
ModemInput  == {"CTS", "DSR", "RI", "DCD"}

FifoControl      == [enabled : BOOLEAN, trigger : 0 .. 3]
FifoControlValue == [enabled : BOOLEAN, clear_rx : BOOLEAN, clear_tx : BOOLEAN, trigger : 0 .. 3]
LineControl      == [dlab : BOOLEAN]
ModemControl     == [loop : BOOLEAN, outputs : SUBSET ModemOutput]

ASSUME UartAssumption ==
  /\ RxDepth \in Nat \ {0}
  /\ Trigger \in [0 .. 3 -> 1 .. RxDepth]
  /\ CharacterCycles \in Nat \ {0}
  /\ InputPollCycles \in Nat \ {0}
  /\ HostBytes \in Nat
  /\ Loads \subseteq SUBSET Register /\ {} \notin Loads
  /\ \A s \in Stores :
       /\ DOMAIN s \subseteq Register /\ DOMAIN s # {}
       /\ 0 \in DOMAIN s => s[0] = 0
       /\ 1 \in DOMAIN s => s[1] \subseteq Interrupt
       /\ 2 \in DOMAIN s => s[2] \in FifoControlValue
       /\ 3 \in DOMAIN s => s[3] \in LineControl
       /\ 4 \in DOMAIN s => s[4] \in ModemControl

VARIABLES
  receive_fifo, fifo_control, interrupt_enable, line_control, modem_control,
  receive_idle_cycles, input_poll_remaining,
  thre_pending, tx_pending, overrun, modem_status, modem_delta,
  irq,      \* the interrupt output
  beat,     \* the call in progress
  input,    \* sent by the host and not yet read from the backend
  sent,     \* number of bytes the host has sent
  taken,    \* host bytes the guest has read, in order
  cleared,  \* host bytes discarded by a clear or a reset
  modem_rose, modem_fell  \* the modem inputs with such an edge since MSR was last read

controlVars == <<fifo_control, interrupt_enable, line_control, modem_control>>
receiveVars == <<receive_fifo, receive_idle_cycles, input_poll_remaining, input, cleared>>
transmitVars == <<thre_pending, tx_pending>>
modemVars == <<modem_status, modem_delta, modem_rose, modem_fell>>
uartVars == <<controlVars, receiveVars, transmitVars, modemVars, overrun, irq, beat,
              sent, taken>>

NoBeat == [kind |-> "none", registers |-> {}, store |-> <<>>]

(* The modem inputs a host console asserts: 0xb0.                          *)
ConsoleLines == {"CTS", "DSR", "DCD"}

-----------------------------------------------------------------------------
Init ==
  /\ receive_fifo = <<>> /\ input = <<>> /\ sent = 0 /\ taken = <<>> /\ cleared = {}
  /\ fifo_control = [enabled |-> FALSE, trigger |-> 0]
  /\ interrupt_enable = {}
  /\ line_control = [dlab |-> FALSE]
  /\ modem_control = [loop |-> FALSE, outputs |-> {}]
  /\ receive_idle_cycles = 0 /\ input_poll_remaining = 0
  /\ thre_pending = TRUE /\ tx_pending = FALSE /\ overrun = FALSE
  /\ modem_status = ConsoleLines /\ modem_delta = {} /\ modem_rose = {} /\ modem_fell = {}
  /\ irq = FALSE /\ beat = NoBeat

FifoCapacity == IF fifo_control.enabled THEN RxDepth ELSE 1
TriggerLevel == IF fifo_control.enabled THEN Trigger[fifo_control.trigger] ELSE 1
IdleLimit    == 4 * CharacterCycles

HostByteSet(bytes) == {bytes[i] : i \in DOMAIN bytes} \ {0}

(* The highest source in interrupt_identification.                         *)
interrupt_identification ==
  IF "line" \in interrupt_enable /\ overrun THEN "line"
  ELSE IF "rx" \in interrupt_enable /\ Len(receive_fifo) >= TriggerLevel THEN "rx"
  ELSE IF /\ "rx" \in interrupt_enable /\ receive_fifo # <<>> /\ fifo_control.enabled
          /\ receive_idle_cycles >= IdleLimit THEN "timeout"
  ELSE IF "thre" \in interrupt_enable /\ thre_pending THEN "thre"
  ELSE IF "modem" \in interrupt_enable /\ modem_delta # {} THEN "modem"
  ELSE "none"

settle == irq' = (interrupt_identification' # "none")

(* The host types a byte.                                                  *)
HostSends ==
  /\ sent < HostBytes
  /\ sent' = sent + 1
  /\ input' = Append(input, sent + 1)
  /\ UNCHANGED <<controlVars, receive_fifo, receive_idle_cycles, input_poll_remaining,
                 cleared, transmitVars, modemVars, overrun, irq, beat, taken>>

(* How many bytes poll_input moves.  Mutant: it asks for one byte more     *)
(* than it can keep, which is lost.                                        *)
Polled == LET room == FifoCapacity - Len(receive_fifo)
          IN  IF Len(input) < room THEN Len(input) ELSE room
LeftWithOneLost(n) == SubSeq(input, n + 2, Len(input))
LeftInInput(n)     == SubSeq(input, n + 1, Len(input))

(* Mutant: every poll restarts the receive timeout.                        *)
IdleAfterAnyPoll(n, idle) == 0
IdleAfterPoll(n, idle)    == IF n = 0 THEN idle ELSE 0

(* poll_input, called with these values of input_poll_remaining_ and       *)
(* receive_idle_cycles_.                                                   *)
poll_input(remaining, idle) ==
  IF modem_control.loop \/ remaining # 0 \/ Len(receive_fifo) >= FifoCapacity
  THEN /\ input_poll_remaining' = remaining
       /\ receive_idle_cycles' = idle
       /\ UNCHANGED <<receive_fifo, input>>
  ELSE /\ receive_fifo' = receive_fifo \o SubSeq(input, 1, Polled)
       /\ input' = LeftInInput(Polled)
       /\ input_poll_remaining' =
            IF Len(receive_fifo) + Polled < FifoCapacity /\ InputPollCycles # 1
            THEN InputPollCycles ELSE 0
       /\ receive_idle_cycles' = IdleAfterPoll(Polled, idle)

(* The receive timeout counts up to its limit.                             *)
IdleAfterTick ==
  receive_idle_cycles +
  IF receive_fifo # <<>> /\ receive_idle_cycles < IdleLimit THEN 1 ELSE 0

tick ==
  /\ beat = NoBeat
  /\ tx_pending' = FALSE
  /\ thre_pending' = (thre_pending \/ tx_pending)
  /\ poll_input(IF input_poll_remaining # 0 THEN input_poll_remaining - 1 ELSE 0,
                IdleAfterTick)
  /\ UNCHANGED <<controlVars, modemVars, overrun, beat, sent, taken, cleared>>
  /\ settle

reset ==
  /\ beat = NoBeat
  /\ receive_fifo' = <<>>
  /\ cleared' = cleared \cup HostByteSet(receive_fifo)
  /\ fifo_control' = [enabled |-> FALSE, trigger |-> 0]
  /\ interrupt_enable' = {}
  /\ line_control' = [dlab |-> FALSE]
  /\ modem_control' = [loop |-> FALSE, outputs |-> {}]
  /\ receive_idle_cycles' = 0 /\ input_poll_remaining' = 0
  /\ thre_pending' = TRUE /\ tx_pending' = FALSE /\ overrun' = FALSE
  /\ modem_status' = ConsoleLines /\ modem_delta' = {} /\ modem_rose' = {} /\ modem_fell' = {}
  /\ irq' = FALSE
  /\ UNCHANGED <<input, sent, taken, beat>>

-----------------------------------------------------------------------------
(* The loop of read_impl and write_impl over the lanes of a beat.          *)
read_impl(registers) ==
  /\ beat = NoBeat
  /\ beat' = [kind |-> "read", registers |-> registers, store |-> <<>>]
  /\ poll_input(input_poll_remaining, receive_idle_cycles)
  /\ UNCHANGED <<controlVars, transmitVars, modemVars, overrun, irq, sent, taken, cleared>>

write_impl(store) ==
  /\ beat = NoBeat
  /\ beat' = [kind |-> "write", registers |-> DOMAIN store, store |-> store]
  /\ UNCHANGED <<controlVars, receiveVars, transmitVars, modemVars, overrun, irq, sent, taken>>

At(kind, i) ==
  /\ beat.kind = kind
  /\ i \in beat.registers
  /\ \A j \in beat.registers : i <= j

(* Mutant: reading a register does not settle the line.                    *)
NextLaneUnsettledRead(i) ==
  IF beat.registers = {i}
  THEN beat' = NoBeat /\ IF beat.kind = "read" THEN UNCHANGED irq ELSE settle
  ELSE beat' = [beat EXCEPT !.registers = @ \ {i}] /\ UNCHANGED irq

NextLane(i) ==
  IF beat.registers = {i}
  THEN beat' = NoBeat /\ settle
  ELSE beat' = [beat EXCEPT !.registers = @ \ {i}] /\ UNCHANGED irq

(* RBR, or the divisor latch.                                              *)
ReadData ==
  /\ At("read", 0)
  /\ IF line_control.dlab \/ receive_fifo = <<>>
     THEN UNCHANGED <<receive_fifo, receive_idle_cycles, taken>>
     ELSE /\ receive_fifo' = Tail(receive_fifo)
          /\ receive_idle_cycles' = 0
          /\ taken' = IF Head(receive_fifo) = 0 THEN taken
                      ELSE Append(taken, Head(receive_fifo))
  /\ UNCHANGED <<controlVars, input_poll_remaining, input, cleared, transmitVars, modemVars,
                 overrun, sent>>
  /\ NextLane(0)

(* IIR: reporting THRE acknowledges it.                                    *)
ReadIdentification ==
  /\ At("read", 2)
  /\ thre_pending' = (thre_pending /\ interrupt_identification # "thre")
  /\ UNCHANGED <<controlVars, receiveVars, tx_pending, modemVars, overrun, sent, taken>>
  /\ NextLane(2)

(* LSR: reading it clears the overrun flag.                                *)
ReadLineStatus ==
  /\ At("read", 5)
  /\ overrun' = FALSE
  /\ UNCHANGED <<controlVars, receiveVars, transmitVars, modemVars, sent, taken>>
  /\ NextLane(5)

(* MSR: reading it clears the delta bits.                                  *)
ReadModemStatus ==
  /\ At("read", 6)
  /\ modem_delta' = {}
  /\ modem_rose' = {} /\ modem_fell' = {}
  /\ UNCHANGED <<controlVars, receiveVars, transmitVars, modem_status, overrun, sent, taken>>
  /\ NextLane(6)

(* IER, LCR, MCR and SCR have no side effect.                              *)
ReadPlain ==
  \E i \in {1, 3, 4, 7} :
    /\ At("read", i)
    /\ UNCHANGED <<controlVars, receiveVars, transmitVars, modemVars, overrun, sent, taken>>
    /\ NextLane(i)

transmit(byte) ==
  /\ thre_pending' = FALSE
  /\ tx_pending' = TRUE
  /\ IF modem_control.loop
     THEN /\ receive_idle_cycles' = 0
          /\ IF Len(receive_fifo) >= FifoCapacity
             THEN overrun' = TRUE /\ UNCHANGED receive_fifo
             ELSE receive_fifo' = Append(receive_fifo, byte) /\ UNCHANGED overrun
     ELSE UNCHANGED <<receive_fifo, receive_idle_cycles, overrun>>

(* THR, or the divisor latch.                                              *)
WriteData ==
  /\ At("write", 0)
  /\ IF line_control.dlab
     THEN UNCHANGED <<transmitVars, receive_fifo, receive_idle_cycles, overrun>>
     ELSE transmit(beat.store[0])
  /\ UNCHANGED <<controlVars, input_poll_remaining, input, cleared, modemVars, sent, taken>>
  /\ NextLane(0)

(* Enabling THRE on an idle transmitter raises it.  Mutant: on any         *)
(* transmitter.                                                            *)
RaisesThreAlways(enables) == "thre" \in enables /\ "thre" \notin interrupt_enable
RaisesThre(enables) ==
  "thre" \in enables /\ "thre" \notin interrupt_enable /\ ~tx_pending

WriteInterruptEnable ==
  /\ At("write", 1)
  /\ IF line_control.dlab
     THEN UNCHANGED <<interrupt_enable, thre_pending>>
     ELSE /\ interrupt_enable' = beat.store[1]
          /\ thre_pending' = (thre_pending \/ RaisesThre(beat.store[1]))
  /\ UNCHANGED <<fifo_control, line_control, modem_control, receiveVars, tx_pending,
                 modemVars, overrun, sent, taken>>
  /\ NextLane(1)

(* The clear bit empties the FIFO, and so does a change of its mode.       *)
ClearsFifo(value) == value.clear_rx \/ value.enabled # fifo_control.enabled

WriteFifoControl ==
  /\ At("write", 2)
  /\ LET value == beat.store[2]
     IN  /\ IF ClearsFifo(value)
            THEN /\ receive_fifo' = <<>>
                 /\ receive_idle_cycles' = 0
                 /\ cleared' = cleared \cup HostByteSet(receive_fifo)
            ELSE UNCHANGED <<receive_fifo, receive_idle_cycles, cleared>>
         /\ tx_pending' = (tx_pending /\ ~value.clear_tx)
         /\ thre_pending' = (thre_pending \/ value.clear_tx)
         /\ fifo_control' = [enabled |-> value.enabled, trigger |-> value.trigger]
  /\ UNCHANGED <<interrupt_enable, line_control, modem_control, input_poll_remaining, input,
                 modemVars, overrun, sent, taken>>
  /\ NextLane(2)

WriteLineControl ==
  /\ At("write", 3)
  /\ line_control' = beat.store[3]
  /\ UNCHANGED <<fifo_control, interrupt_enable, modem_control, receiveVars, transmitVars,
                 modemVars, overrun, sent, taken>>
  /\ NextLane(3)

(* In loopback the modem outputs come back as the modem inputs.            *)
LinesOf(value) ==
  IF ~value.loop THEN ConsoleLines
  ELSE {line \in ModemInput : \/ line = "CTS" /\ "RTS" \in value.outputs
                              \/ line = "DSR" /\ "DTR" \in value.outputs
                              \/ line = "RI"  /\ "OUT1" \in value.outputs
                              \/ line = "DCD" /\ "OUT2" \in value.outputs}

(* The delta bits a change of the modem inputs sets.  RI counts on its     *)
(* trailing edge.                                                          *)
Changed(from, to) ==
  {line \in ModemInput : IF line = "RI" THEN line \in from /\ line \notin to
                         ELSE (line \in from) # (line \in to)}

(* Mutant: ^= for |=, a second change of a line takes the first one back.  *)
DeltaToggled(lines) ==
  (modem_delta \cup Changed(modem_status, lines)) \ (modem_delta \cap Changed(modem_status, lines))
DeltaAfter(lines) == modem_delta \cup Changed(modem_status, lines)

(* set_modem_control.                                                      *)
WriteModemControl ==
  /\ At("write", 4)
  /\ modem_control' = beat.store[4]
  /\ modem_status' = LinesOf(beat.store[4])
  /\ modem_delta' = DeltaAfter(LinesOf(beat.store[4]))
  /\ modem_rose' = modem_rose \cup (modem_status' \ modem_status)
  /\ modem_fell' = modem_fell \cup (modem_status \ modem_status')
  /\ UNCHANGED <<fifo_control, interrupt_enable, line_control, receiveVars, transmitVars,
                 overrun, sent, taken>>
  /\ NextLane(4)

(* LSR and MSR ignore writes; SCR is storage.                              *)
WritePlain ==
  \E i \in {5, 6, 7} :
    /\ At("write", i)
    /\ UNCHANGED <<controlVars, receiveVars, transmitVars, modemVars, overrun, sent, taken>>
    /\ NextLane(i)

read_register ==
  ReadData \/ ReadIdentification \/ ReadLineStatus \/ ReadModemStatus \/ ReadPlain

write_register ==
  \/ WriteData \/ WriteInterruptEnable \/ WriteFifoControl
  \/ WriteLineControl \/ WriteModemControl \/ WritePlain

Next ==
  \/ HostSends \/ tick \/ reset
  \/ \E registers \in Loads : read_impl(registers)
  \/ \E store \in Stores : write_impl(store)
  \/ read_register \/ write_register

Spec == Init /\ [][Next]_uartVars

-----------------------------------------------------------------------------
(* What the variables hold.                                                *)
UartTypeOK ==
  /\ receive_fifo \in Seq(0 .. HostBytes) /\ input \in Seq(1 .. HostBytes)
  /\ taken \in Seq(1 .. HostBytes) /\ cleared \subseteq 1 .. HostBytes
  /\ sent \in 0 .. HostBytes
  /\ fifo_control \in FifoControl
  /\ interrupt_enable \subseteq Interrupt
  /\ line_control \in LineControl
  /\ modem_control \in ModemControl
  /\ receive_idle_cycles \in 0 .. IdleLimit
  /\ input_poll_remaining \in 0 .. InputPollCycles
  /\ thre_pending \in BOOLEAN /\ tx_pending \in BOOLEAN /\ overrun \in BOOLEAN
  /\ modem_status \subseteq ModemInput /\ modem_delta \subseteq ModemInput
  /\ modem_rose \subseteq ModemInput /\ modem_fell \subseteq ModemInput
  /\ irq \in BOOLEAN
  /\ beat \in [kind : {"none", "read", "write"}, registers : SUBSET Register,
               store : Stores \cup {<<>>}]

(* Between calls the interrupt line is exactly the level of the enabled    *)
(* conditions, whatever the order of reads, writes, ticks and resets that  *)
(* led there: every path through the device ends in settle.                *)
Asserted ==
  \/ "line" \in interrupt_enable /\ overrun
  \/ /\ "rx" \in interrupt_enable /\ receive_fifo # <<>>
     /\ \/ Len(receive_fifo) >= TriggerLevel
        \/ fifo_control.enabled /\ receive_idle_cycles >= IdleLimit
  \/ "thre" \in interrupt_enable /\ thre_pending
  \/ "modem" \in interrupt_enable /\ modem_delta # {}
IrqIsLevel == beat = NoBeat => (irq <=> Asserted)

(* The FIFO never holds more than the mode it is in allows, although the   *)
(* mode changes under it and both poll_input and transmit fill it.         *)
FifoFitsItsMode == Len(receive_fifo) <= FifoCapacity

(* Every byte the host sent is in one place: still with the host, in the   *)
(* FIFO, read by the guest, or thrown away by a clear or reset the guest   *)
(* asked for; and the guest reads them in the order they were sent.  A     *)
(* full FIFO holds the host back and loses nothing.                        *)
HostBytesOf(bytes) == SelectSeq(bytes, LAMBDA x : x # 0)
HostInputConserved ==
  LET onTheWay == taken \o HostBytesOf(receive_fifo) \o input
  IN  /\ \A i, j \in DOMAIN onTheWay : i < j => onTheWay[i] < onTheWay[j]
      /\ HostByteSet(onTheWay) \cup cleared = 1 .. sent
      /\ HostByteSet(onTheWay) \cap cleared = {}

(* The transmitter never claims to be empty while a character is on its    *)
(* way out.                                                                *)
ThreMeansIdle == ~(thre_pending /\ tx_pending)

(* The delta bits tell exactly which edges the modem inputs had since the  *)
(* guest last read MSR: either edge of CTS, DSR and DCD, the trailing edge *)
(* of RI.  An edge stays reported when later writes of MCR undo or repeat  *)
(* it, and a read that clears the bits loses none that comes after it.     *)
ModemChangesReported == modem_delta = modem_fell \cup (modem_rose \ {"RI"})
=============================================================================
