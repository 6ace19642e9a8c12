-------------------------------- MODULE Binding --------------------------------
(***************************************************************************)
(* VerilatedAxiBinding of src/verilated_binding.hpp: it copies the channel *)
(* signals of all ports between the packed vectors of the Verilated model  *)
(* and the structures of the fabric.  The many signals of a channel differ *)
(* in width only; the three here are a VALID (one bit a port), an ID (any  *)
(* width, across word boundaries) and the data bytes.                      *)
(*                                                                         *)
(* The path of one port is closed by a ring of the fabric (RingBuffer):    *)
(* what sample reads is pushed, drive shows the front to the model, and    *)
(* the model's READY pops it.  The model's side of a vector is defined bit *)
(* by bit, as the concatenation of the ports in the RTL.                   *)
(***************************************************************************)
EXTENDS RingBuffer, Packed

CONSTANTS
  NumPorts,
  IdBits,
  DataBytes,
  ScalarBits,  \* of the C++ type that holds one bit a port
  Payload,     \* the id and the data bytes of a value of the ring
  Watched      \* the port whose ring is modelled

ASSUME BindingAssumption ==
  /\ NumPorts \in Nat \ {0} /\ IdBits \in Nat \ {0} /\ DataBytes \in Nat \ {0}
  /\ ScalarBits \in NumPorts .. WordBits - 1
  /\ Watched \in 0 .. NumPorts - 1
  /\ \A v \in Value, w \in Value : Payload[v] = Payload[w] => v = w

VARIABLES
  master,  \* the vectors the model drives
  slave,   \* the vectors the fabric drives
  offer,   \* what each port of the model put on its channel
  answer   \* what the fabric has for each port

bindingVars == <<ringVars, master, slave, offer, answer>>

Port     == 0 .. NumPorts - 1
DataBits == DataBytes * ByteBits
Channel  == [valid : BOOLEAN, payload : {Payload[v] : v \in Value}]

(* The C++ type of a vector: a scalar for one bit a port, words otherwise. *)
Scalar == [bits |-> ScalarBits, words |-> [i \in 0 .. 0 |-> 0]]
Wide(bits) ==
  LET words == (bits + WordBits - 1) \div WordBits
  IN  [bits |-> words * WordBits, words |-> [i \in 0 .. words - 1 |-> 0]]

Blank == [valid |-> Scalar, id |-> Wide(NumPorts * IdBits),
          data |-> Wide(NumPorts * DataBits)]

-----------------------------------------------------------------------------
sample(top) ==
  [p \in Port |->
    [valid |-> bit(top.valid, p),
     payload |-> [id |-> read_u64(top.id, p * IdBits, IdBits),
                  data |-> read_bytes(top.data, p * DataBits, DataBytes)]]]

(* One port of the loop in drive.                                          *)
DrivePort(top, p, value) ==
  [valid |-> set_bit(top.valid, p, value.valid),
   id |-> write_u64(top.id, p * IdBits, IdBits, value.payload.id),
   data |-> write_bytes(top.data, p * DataBits, DataBytes, value.payload.data)]

RECURSIVE drive_through(_, _, _)
drive_through(top, values, p) ==
  IF p < 0 THEN top ELSE DrivePort(drive_through(top, values, p - 1), p, values[p])

drive(top, values) == drive_through(top, values, NumPorts - 1)

-----------------------------------------------------------------------------
(* The RTL's view: bit number n of a vector, and the slice of a port.      *)
WireBit(signal, n) == (signal.words[n \div WordBits] \div 2^(n % WordBits)) % 2

Slice(signal, lsb, width) == MapThenSumSet(LAMBDA k : WireBit(signal, lsb + k) * 2^k, 0 .. width - 1)

Wired(top) ==
  [p \in Port |->
    [valid |-> WireBit(top.valid, p) = 1,
     payload |-> [id |-> Slice(top.id, p * IdBits, IdBits),
                  data |-> [i \in 0 .. DataBytes - 1 |->
                              Slice(top.data, p * DataBits + i * ByteBits, ByteBits)]]]]

(* The vectors in which the model concatenates what its ports offer.       *)
Field(values, p, k) == (values[p] \div 2^k) % 2
Concatenation(blank, width, values) ==
  [blank EXCEPT !.words =
     [w \in DOMAIN blank.words |->
        MapThenSumSet(LAMBDA n : Field(values, n \div width, n % width) * 2^(n % WordBits),
                      {n \in 0 .. NumPorts * width - 1 : n \div WordBits = w})]]

RECURSIVE Number(_, _)
Number(bytes, n) == IF n = 0 THEN 0 ELSE Number(bytes, n - 1) + bytes[n - 1] * 2^((n - 1) * ByteBits)

Wires(values) ==
  [valid |-> Concatenation(Blank.valid, 1, [p \in Port |-> IF values[p].valid THEN 1 ELSE 0]),
   id |-> Concatenation(Blank.id, IdBits, [p \in Port |-> values[p].payload.id]),
   data |-> Concatenation(Blank.data, DataBits,
                          [p \in Port |-> Number(values[p].payload.data, DataBytes)])]

-----------------------------------------------------------------------------
BindingInit ==
  /\ Init
  /\ \E v \in Value : /\ offer = [p \in Port |-> [valid |-> FALSE, payload |-> Payload[v]]]
                      /\ answer = [p \in Port |-> [valid |-> FALSE, payload |-> Payload[v]]]
  /\ master = Wires(offer)
  /\ slave = Blank

(* The ports of the model change their signals.                            *)
Offer ==
  /\ \E p \in Port, c \in Channel : offer' = [offer EXCEPT ![p] = c]
  /\ master' = Wires(offer')
  /\ UNCHANGED <<ringVars, slave, answer>>

(* sample, and the watched port's transfer.                                *)
Sample ==
  /\ LET got == sample(master)[Watched]
     IN  got.valid /\ \E v \in Value : Payload[v] = got.payload /\ push(v)
  /\ UNCHANGED <<master, slave, offer, answer>>

(* drive: the watched port shows the front of its ring, the others         *)
(* anything.                                                               *)
DriveSlave ==
  /\ \E p \in Port \ {Watched}, c \in Channel :
       answer' = [answer EXCEPT ![p] = c,
                                ![Watched] = [valid |-> ~empty,
                                              payload |-> IF empty THEN @.payload
                                                          ELSE Payload[values_[head_]]]]
  /\ IF empty THEN UNCHANGED ringVars ELSE front
  /\ slave' = drive(slave, answer')
  /\ UNCHANGED <<master, offer>>

(* The watched port of the model takes what its wires show.                *)
Take ==
  /\ Wired(slave)[Watched].valid
  /\ ~empty /\ pop
  /\ UNCHANGED <<master, slave, offer, answer>>

(* RingBuffer::clear, which reset_state calls, and the calls that throw.   *)
OtherCall ==
  /\ clear \/ (empty /\ front) \/ (empty /\ pop)
  /\ UNCHANGED <<master, slave, offer, answer>>

BindingNext == Offer \/ Sample \/ DriveSlave \/ Take \/ OtherCall

BindingSpec == BindingInit /\ [][BindingNext]_bindingVars

-----------------------------------------------------------------------------
(* Each port reads and writes its own bits and nobody else's, wherever its *)
(* fields lie in the words: sample returns what every port of the model    *)
(* put on its wires, every port sees the last value driven for it, and the *)
(* spare bits of the last word stay zero, as Verilator demands.            *)
PortsKeepApart ==
  /\ sample(master) = offer
  /\ slave = Blank \/ slave = Wires(answer)
=============================================================================
