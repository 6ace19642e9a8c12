# A TLA+ model of the AXI4 testbench

The repository is a C++20 simulator that connects an RTL design (the *design
under test*, compiled by Verilator) to devices through an AXI4 fabric. The
specifications here model the fabric and what surrounds it, check them with TLC
on small instances and prove the main invariants with TLAPS for every number of
ports, every depth, every address map and every burst. The UART, the PLIC, the
CLINT, the platform that builds, clocks and connects them, the image loader and the
binding to the Verilated model are modelled next to it.

## The system and where it is modelled

| Part | Source | Modules | State |
|---|---|---|---|
| AXI fabric | `src/fabric.hpp` | `AxiFabric`, `AxiFabricProofs` | modelled |
| the masters that use it | design under test | `AxiSystem`, `MCAxiSystem` | external |
| burst arithmetic | `src/axi.hpp`, `BurstCursor` | `BurstCursor`, `BurstCursorProofs` | modelled |
| ring buffer | `src/axi.hpp`, `RingBuffer` | `RingBuffer`, `Fifo`, `RingBufferProofs` | modelled |
| Verilator binding, packed vectors | `src/verilated_binding.hpp`, `src/packed.hpp` | `Packed`, `Binding` | modelled, one signal of each kind |
| address space, RAM, ROM, exit device | `src/device*.hpp`, `src/devices.cpp` | `AddressMap`, `AddressSpace`, `Loader` | modelled |
| platform | `src/platform.cpp` | `Startup`, `HostServices`, `Connect`, `SimLoop`, `Console`, `StartupProofs` | modelled |
| registry, options | `src/platform.cpp`, `src/sim_main.cpp` | `Startup` | without the parsing of text |
| image loader | `src/elf_loader.cpp` | `Loader`, `Startup` | modelled, on the fields of the headers |
| simulation loop, statuses | `src/sim_main.cpp` | `SimLoop`, `SimLoopProofs`, `Machine` | without `--stats` and traces |
| UART | `src/devices.cpp` | `Uart`, `UartProofs` | modelled |
| PLIC | `examples/fuxi/sim/` | `Plic`, `PlicProofs` | modelled |
| CLINT | `examples/fuxi/sim/` | `Clint`, `Machine`, `MachineProofs` | modelled, with a hart (external) |
| console interrupt path | `examples/fuxi/sim/`, `src/platform.cpp` | `Console` | context 0, with a driver (external) |
| RTL, guest programs, CMake | | | not modelled, see below |

The process goes through three stages. `Startup` is everything before the first clock
and after the last one: options, construction, loading, destruction. `SimLoop` and
`Machine` are the loop of clocks in between. `AxiFabric`, `Binding`, `Uart`, `Plic` and
`Clint` are what happens inside a clock.

A clock of the simulation is `drive`, an evaluation of the design, `commit`, and
a tick of every device. `SimLoop` is the loop around the clock; `AxiFabric` is
what happens inside `drive` and `commit`. Nothing else runs meanwhile: the
concurrency of this system is that of the ports, whose five channels advance at
their own pace, against one pair of route FIFOs, one monitor table and one set
of devices.

## AxiFabric

One clock is taken in up to four steps, told apart by `phase`: `Ingress` (READY
and VALID, stability check, retired responses, accepted transfers, for all ports
at once), `ArbitrateAddresses`, one of the write steps, and a read step, which is
left out when the write step wrote to a device (`suppress_read_this_cycle_`).
The rings of a port are `aw`, `w`, `ar`, `b`, `r`; a `*_watch` is `<<>>` or holds the
stalled payload; `monitors` is the set of valid reservations. A `ProtocolError`
sets `error`, and no step follows. `allow_ready` is any Boolean. A route keeps
its staged beats as a sequence, `beat` and `data_complete` of the code being its
length. `Next` lets the masters do anything at all, legal or not.

`AxiSystem` adds masters with plans: writes and reads issued in order, W before
AW included, READY given or withheld at any clock. Each written byte is tagged
with the reset epoch, port, write, beat and lane it comes from, so a property
can say which writes reached a device. A master may misbehave only where a plan or
`MayMisbehave` says so.

## Uart, Plic, Console and Connect

`Uart` has the registers and flags of `UartDevice` under their names. A beat of the
bus is one call, `read_impl` or `write_impl`, that handles its registers in ascending
order and then settles; each register is a step, and `beat` holds what the call has
left to do. Bit fields are records and sets. The bytes of the host are numbered, so
that `input`, `receive_fifo`, `taken` and `cleared` tell where each one is; looped-back
bytes are 0. `modem_rose` and `modem_fell` are ghosts: the lines that rose and fell since MSR was
last read, kept apart from the delta bits of the code. What is transmitted, the divisor latches and the scratch register
influence nothing and are left out.

In `Plic` each register access of the guest is an action together with the `settle`
or `notify` it ends in. `best` is the source a claim has to return, `scan` the loop
that computes it, and a run compares the two. `serving` is a ghost: what the drivers
have claimed and not completed, when they complete nothing else; `NoRecord` stands for
drivers that complete any source at any time, which the PLIC must survive as well.

`Console` composes both. A clock is `drive` (the core samples the interrupt line),
at most one access of the driver, the ticks, and settling in topological order. The
driver enables the FIFO and the receive interrupt, waits for its interrupt, claims,
reads RBR until LSR reports it empty, and completes. The PLIC's input is the UART's
`irq`: an `INSTANCE` with that expression for `level`.

## Clint and Machine

`Clint` has the registers of the class with two halves of `Half` values each (2^32 in
the code), and `access()` on sets of lanes. A write is one action with the `settle` it
ends in. `Machine` puts the CLINT into the loop of `SimLoop`: a clock is `Drive`
(`begin_cycle`, with the reset of the CLINT, and `SidebandBinding::drive`), at most one
access of a hart, and `EndClock`, which is the `Clock` of `SimLoop` together with the tick
of the CLINT. The hart moves `mtimecmp` by the three stores of
`examples/fuxi/software/peripheral_irq.S`. It also reads `mtime` in halves until the high half
is stable, which no program of the repository does: it is the usual way on RV32, and what the
64-bit register in two halves is for. And it makes any of the writes in `Pokes`, refused ones
included. `alarm`, `target`, `began`
and `base` are ghosts that say what the hart means and when.

`MachineSpec` implements `SimLoop`'s `Spec` with the identity as the mapping
(`MachineImplementsLoop`), so `machine` checks the properties of the loop too.

## Packed and Binding

`Packed` has the functions of `packed.hpp` on words of `WordBits` bits, with their loops as
recursion over `copied`. `Binding` closes the path of one port: the model concatenates what
its ports offer into vectors (`Wires`, defined bit by bit, as the RTL does), `sample` takes
them apart, a `RingBuffer` keeps what the watched port sent, `drive` shows its front, and the
model reads its wires (`Wired`). The signals of the channels differ in their widths only, and
there is one of each kind.

## Startup and its parts

`Startup` follows `main`. `Argument` applies one edit of a platform definition or one
option to the `PlatformSpec`; `Configure`, `Create`, `Map`, `Freeze` and `ConnectStep` are
the loops of the constructor, one element a step, and each has its failing twin; `Plan`,
`Preflight` and `LoadPiece` are `load_images` and the two loops of `ImageLoadPlan::apply`,
one call of `AddressSpace::load` a step. An exception goes to `unwind`, where the
destructors run in their order. What may fail outside the program is a choice: a file that
cannot be opened, `tcsetattr`, a device whose constructor throws when its files are open
already, and a custom device that refuses what its `can_load` accepted. `Schema` gives each
type its options: texts, numbers with their largest value and flags. `Malformed` are the
names that `validate_name` refuses.

`AddressMap` is `map` and `resolve` on the sorted vector; `AxiFabric` assumes of its map what
is shown of this one. `HostServices` is a record of open files, switched terminals and the
modes of the terminals. `Connect` is the algorithm of `Platform::connect`, loop by loop; a
connection that names a missing signal or one of another width is one that does not fit.
`Loader` has every check of `add_elf` and `add_raw`. A file is a record of the fields of
its headers, and its byte `o` is the pair `<<file, o>>`, so that a property can say which
byte of which image is where. Numbers are parsed: a target of `--load` has a name and
the number its text denotes, or -1.

## Runs

| Run | Instance | What it shows |
|---|---|---|
| `traffic` | two ports, bursts of 1 and 2 beats, B and R rings of depth 1, one reset at any clock and other plans after it | conservation and order of responses, no overflow, atomic commit, round robin, no false protocol error, nothing crosses a reset |
| `responses` | a two-byte bus, RAM shorter than its window, WRAP and unaligned bursts over either end of a window with an odd base, exclusive pairs of both ports, up to three exit writes, every kind of rule violation, some in the last beat only | responses and the exit code say what reached the devices, and each byte lies where its burst addressed it; a rejected burst leaves no byte; a successful exclusive write saw no foreign write |
| `live` | fair clock and masters | every plan completes |
| `binding` | 2 ports, 3-bit ids in 4-bit words, a ring of 3 | `sample` and `drive` keep the ports apart; `RingBuffer` refines `Fifo` |
| `machine` | 9 active and 2 reset cycles, registers of two 2-bit halves, a tick every 3 clocks | statuses, finalisation, termination; the timer interrupt on the pins, the time read in halves, time against cycles |
| `uart` | FIFO of 2, 2 host bytes, loopback, DLAB, all interrupt sources, beats of one and of four registers | every host byte is in one place, in order; the line is the level of its conditions; THRE; MSR reports every edge of a modem line, also one that was undone |
| `plic` | two sources, two contexts, four priorities, disciplined drivers and any others | one request per source, lines never stale, the scan of `best()`, requests are not retracted |
| `console` | FIFO of 3, 3 host bytes, one reset | the UART never asserts in silence; every byte is read |
| `startup` | 23554 command lines, see below | address map, settle order, loaded bytes, all-or-nothing loading, validation before effects, restored terminal |
| `alias` | RAM in two windows | *violated*, see below |
| `unmapped` | exclusive write to an unmapped address | *violated*, see below |
| `sigint` | 4 active and 2 reset cycles | *violated*, see below |

**Bounds.** Two ports are the least that can race and the least round robin can
be unfair to. Depths of 1 and 2 make every ring full, and with it back pressure,
a B ring without room and a blocked route, within a few clocks. Two beats
distinguish the first from the last. `MaxEpoch` bounds resets, `Plans` and, after a
reset, `Restarts` bound the transactions; counters of `SimLoop` are taken modulo `CounterModulus` (2^64),
which a run never reaches. `HostBytes` bounds what the host types: with more bytes
than slots the FIFO fills and holds the host back (`console` and, where loopback
competes for the slots, `uart`). The FIFO of 3 in `console`, with its trigger at 2,
has room for "below the trigger", "at it" and "full". The window of three bytes at
base 7 in `responses` is neither aligned nor a multiple of the bus: a WRAP burst can start
above its base and come back below it, and an unaligned burst may start at a base whose
aligned address lies outside. The contexts of `plic` are
symmetric: they differ in nothing but their index.

In `machine` both halves of `mtime` overflow: 9 clocks make 3 ticks, and a write of 14
lets a counter of 16 values wrap. `CounterModulus` is above `MaxCycles`, as 2^64 is. In
`binding` the id of port 1 lies across two words, the type of VALID is narrower than a word
and the last word of the ids has spare bits. The command lines of `startup` come in
families: every list of up to three connections of three devices (a path, two drivers, a
double edge, a self-loop, longer cycles); up to three edits of the map, with mappings that
touch, nest, are empty or leave the address space of 32 bytes (`Top`) or the 16 bytes of the
narrow bus (`Limit`); up to two images of every kind, good and bad, beside an alias of the
RAM or a custom memory; up to two edits of devices and properties, with terminals and
shared inputs, numbers at and above their maximum, malformed names and unknown options. Zeros are loaded one at a time (`PageBytes`). The proofs need none of these
bounds.

**Fairness.** `live` assumes weak fairness of the clock and of the steps inside
it (the loop of `run_simulation` does not wait for anything), and for each port
strong fairness of a clock in which its master uses every channel it can and no
stall is drawn. The second half is an assumption on the design under test: the
write routes are one FIFO, so a master that never sends the data of an accepted
address stops all others. That no stall is drawn again and again follows from a
stall probability below 1 (0 by default). `machine` assumes only
that the host process runs and that the model's evaluation returns: the three stages of the
loop are fair, the accesses of the hart are not.

`console` assumes that the loop goes on, so that every clock ends with a tick and the
register steps of a call come to their end, and, of the guest, that an access it wants
to make gets through again and again (strong fairness, because every clock without it
is a choice of `NoAccess`).

## What TLC found to differ from the documents

* `alias`: reservations are compared by bus address, so a write through another
  mapping of the same RAM does not clear them (`fabric.hpp`, `invalidate_monitors`),
  although `tests/host_fabric.cpp` says that a conflicting port invalidates the
  reservation and `docs/platform.md` supports aliases.
* `unmapped`: an exclusive access without a mapping answers SLVERR; the README
  says unmapped accesses return DECERR.
* `sigint`: the handler stores 1, so SIGINT gives status 129; the README says 130.

One more difference was met and is left out of a property instead. `platform.hpp` says that
terminal mode changes are restored on destruction. `HostServices` recognises a terminal by
its descriptor, so a terminal opened as standard input by one UART and by its path by another
is saved twice, the second time raw, and the modes are restored in the order of the
switches: it stays raw. `HostIsRestored` excludes exactly that case (`Shared`), and holds
for standard input shared by several UARTs.

## Proofs

`AxiFabricProofs` proves `Spec => []IInv`, where `Spec` has arbitrary masters,
and from it each property below. `IInv` joins

* `TypeOK`, `NoRingOverflows`, `RoutesStayInTheirMapping`,
  `DevicesSeeValidatedBursts`, `OnlyFrontWriteHasData`, `BurstCommitIsAtomic`,
  `OneMonitorPerMaster`, and
* two facts that only make it inductive: the monitor table is finite, and a read
  route in the ring has a beat left to serve (without it RLAST could be missed).

The conjuncts need each other. A commit is atomic because a route that has begun
keeps all its data and its place in the B ring (`DevicesSeeValidatedBursts`),
which holds because no other route is touched meanwhile
(`OnlyFrontWriteHasData`). That device offsets are not negative, hence that
memory keeps its type, uses `RoutesStayInTheirMapping`.

The type invariants are proved, not checked by runs.

| Theorem | For every value of the constants |
|---|---|
| `FabricTypeCorrect`, `FabricLosesNoPush` | types; no push into a full ring |
| `FabricStaysInMappings`, `FabricValidatesBursts` | bytes inside the mapping; WLAST and WSTRB checked first |
| `FabricCommitsAtomically`, `FabricKeepsOneMonitor` | no read inside a commit; one reservation per `{port, id}` |
| `FabricMovesWaitingPortsUp` | round robin passes no waiting port over |
| `RingTypeCorrect`, `RingImplementsFifo` | a ring buffer is a bounded FIFO |
| `IrqAlwaysLevel`, `FifoAlwaysFits`, `ThreAlwaysIdle`, `ModemAlwaysReported` | the UART's line, FIFO bound, THRE, and that the modem deltas are the edges since MSR was read |
| `PlicTypeCorrect`, `PlicTellsTheTruth`, `PlicKeepsOneRequest`, `PlicKeepsRequests` | the PLIC's types, lines and requests |
| `ClintIsLevel`, `MachineAlarmIsExact`, `MachineMtimeKeepsTime` | the comparison, the timer interrupt on the pins, the time |
| `MachineImplementsLoop` | the loop with the CLINT is the loop |
| `OverlapsIsExact`, `ResolveIsExact`, `StartupMapIsExact` | the address map of every platform |
| `SimReportsExit`, `SimTimeoutIsExact`, `SimDevicesKeepTime`, `SimFinalisesOnce` | exit statuses and device time |

The assumptions are those named in the modules: positive sizes and depths,
disjoint mappings (which `StartupMapIsExact` shows of every map that a platform builds), `AxSIZE` of three bits,
for `SimLoop` that the cycle limits fit their counter, and for `Uart` trigger levels
within the FIFO and writes that hold values of their registers. `PowersArePositive` is a
fact of arithmetic the provers lack.

`SimLoopProofs` strengthens its properties by what the loop knows at each point:
a clock is entered only with budget left, no status exists before the return,
and the loop ends early only for a reason that the report then names.

The invariant of `UartProofs` adds to the type invariant and the four properties the
shape of the call in progress (`BeatOK`: a call always has a register left, and a
write only registers it carries a value for). The line is right after a call because
its last register settles, and nothing is claimed about it inside a call.

`PlicProofs` proves the type invariant first, and that `notify` computes the level from
the scan; every other action leaves the inputs of the level alone or ends in `notify`.

`MachineProofs` has the invariant `MInv`. To the properties it adds that the CLINT
is as `reset` leaves it until the reset phase ends, so that the reset of the first clock
undoes no alarm (`Fresh`), and what `mtimecmp` holds at each of the three stores (`Armed`):
with its low half all ones, a mixed value lies above the old alarm or above the new one. `MtimeKeepsTime` is an
equation modulo `Full * Divider`; the lemmas before it are the modular arithmetic the
provers lack, from uniqueness of quotient and remainder on.

`StartupProofs` shows that on a sorted, disjoint vector the look at two neighbours is
enough, that `insert` at `lower_bound` keeps it sorted and disjoint, and that `resolve` is
exact; `MapInv` carries this through the loop of the constructor. `StartupMapIsExact` has
the premise `[]SpecTyped`: the mappings of the specification are records of a natural base
and size. In C++ that is the type `MappingSpec`; in the model it depends on the command
lines, which the constants give, and on `SelectSeq`, which the provers cannot expand.

Only model-checked: liveness (`EverythingCompletes`, `SimulationEnds`,
`ConsoleReceivesAll`), which the prover does not handle; the properties of `AxiSystem`,
which speak about the plans of the masters; `HostInputConserved`, which is about a
filtered sequence; `ScanFindsBest`, whose loop is a recursive
function; `TimeReadIsConsistent`, which
in general needs that `mtime` does not wrap all around during one read; `Packed` and
`Binding`, which are recursive; `Console`, and of `Startup` all but the address map.

## Not modelled

* `ReadStatistics` (`--stats`) and the trace writer: they observe the loop and influence
  nothing in it.
* The parsing of numbers, names and endpoints, the decoding of bytes into the fields of an
  ELF header, `DeviceRegistry::add` and the help texts: string handling without state. Their
  results, good and bad, are the inputs of `Startup`.
* `FileUartBackend` and the choice between `mmap` and a vector in `RamDevice`: pure I/O and
  allocation. The host of `Uart` is a queue of bytes, the RAM its bytes.
* The reserved registers of the PLIC and the lane decoding of its accesses; context 1 and
  `msip` on the pins. `SidebandBinding` looks its signals up once and throws where one is
  missing; `Startup` has the platform without a sideband.
* A signal before its handler is installed ends the process without any destructor.
* SystemVerilog adapters, guest programs, benchmarks and CMake code: outside the simulator.
  The masters of `AxiSystem`, the driver of `Console` and the hart of `Machine` stand for them.

## Running

    tlc -config Traffic.cfg MCAxiSystem    # likewise Responses, Live, Alias, Unmapped
    tlc -config Binding.cfg MCBinding
    tlc -config Machine.cfg MCMachine
    tlc -config Sigint.cfg SimLoop
    tlc -config Uart.cfg MCUart
    tlc -config Plic.cfg MCPlic
    tlc -config Console.cfg MCConsole
    tlc -config Startup.cfg MCStartup
    tlapm AxiFabricProofs.tla              # likewise the other *Proofs modules
