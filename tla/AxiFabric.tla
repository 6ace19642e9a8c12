------------------------------- MODULE AxiFabric -------------------------------
(***************************************************************************)
(* The AXI4 fabric of src/fabric.hpp: NumPorts masters share the devices   *)
(* of one address space.                                                   *)
(*                                                                         *)
(* One simulated clock is drive(), the evaluation of the design under test *)
(* and commit().  Nothing runs between them, so the model takes a clock in *)
(* a few steps, told apart by `phase':                                     *)
(*                                                                         *)
(*   "ingress"    drive's READY and VALID outputs, the masters' signals,   *)
(*                check_stability, retire_responses and accept_ingress     *)
(*   "arbitrate"  arbitrate_addresses                                      *)
(*   "write"      process_write_beat                                       *)
(*   "read"       process_read_beat, skipped when the write step set       *)
(*                suppress_read_this_cycle_                                *)
(*                                                                         *)
(* A ProtocolError leaves commit() and ends the simulation: `error' names  *)
(* it and no step follows.  The ring buffers are sequences (RingBuffer.tla *)
(* shows that a ring is one), a watch is <<>> or <<the blocked payload>>,  *)
(* and the table of exclusive monitors is the set of its valid entries.    *)
(* An exit code is NoCode or the bytes of the exit register.  cycle_ only  *)
(* labels error messages and is left out.                                  *)
(***************************************************************************)
EXTENDS BurstCursor, AddressSpace, Sequences, FiniteSetsExt

CONSTANTS
  NumPorts,        \* the ports are 0 .. NumPorts - 1
  AddressDepth,    \* capacity of a port's AW and AR rings
  WriteDataDepth,  \* capacity of a port's W ring
  ResponseDepth,   \* capacity of a port's B and R rings
  RouteDepth,      \* capacity of the route rings and of the monitor table
  AddressLimit,    \* the largest address of AddressBits bits
  ResetDevicesToo, \* reset_devices: reset of the fabric resets the devices
  AddressPayload,  \* the AW and AR payloads a master may present
  WriteBeat        \* the W payloads a master may present

Port == 0 .. NumPorts - 1

ASSUME FabricAssumption ==
  /\ NumPorts \in Nat \ {0}
  /\ AddressDepth \in Nat \ {0}
  /\ WriteDataDepth \in Nat \ {0}
  /\ ResponseDepth \in Nat \ {0}
  /\ RouteDepth \in Nat \ {0}
  /\ AddressLimit \in Nat
  /\ ResetDevicesToo \in BOOLEAN
  /\ \A p \in AddressPayload : /\ p.address \in Nat
                               /\ p.length \in Nat
                               /\ p.size \in AxSize
                               /\ p.burst \in BurstType
                               /\ p.lock \in BOOLEAN
  /\ \A beat \in WriteBeat : /\ beat.data \in [Lanes -> Value]
                             /\ beat.strobe \in SUBSET Lanes
                             /\ beat.last \in BOOLEAN

VARIABLES
  phase, error,
  aw, w, ar, b, r,               \* the five rings of every port
  aw_watch, w_watch, ar_watch,   \* payloads a master presents and must hold
  write_routes, read_routes,     \* accepted transactions, in service order
  monitors,                      \* the valid exclusive reservations
  next_aw_port, next_ar_port,    \* where round robin starts looking
  exit_completed, exit_code,
  was_reset,
  memory                         \* [device -> its bytes]

ingressVars == <<aw, w, ar, aw_watch, w_watch, ar_watch>>
routeVars   == <<write_routes, read_routes, next_aw_port, next_ar_port>>
exitVars    == <<exit_completed, exit_code>>
vars == <<phase, error, aw, w, ar, b, r, aw_watch, w_watch, ar_watch,
          write_routes, read_routes, monitors, next_aw_port, next_ar_port,
          exit_completed, exit_code, was_reset, memory>>

NoCode == <<>>

Running(step) == phase = step /\ error = "none"

-----------------------------------------------------------------------------
(***************************************************************************)
(* Ingress.  in[p] is the MasterSignals of port p, allow[p] what           *)
(* allow_ready() answers for its three ingress channels: a pseudo-random   *)
(* number compared with the stall probability, here any BOOLEAN.           *)
(***************************************************************************)
AwReady(p, allow) == Len(aw[p]) # AddressDepth /\ allow[p].aw
WReady(p, allow)  == Len(w[p]) # WriteDataDepth /\ allow[p].w
ArReady(p, allow) == Len(ar[p]) # AddressDepth /\ allow[p].ar

(* A blocked master keeps VALID and its payload.                           *)
HeldStable(watch, valid, payload) ==
  watch # <<>> => valid /\ watch = <<payload>>

Stable(in) ==
  \A p \in Port : /\ HeldStable(aw_watch[p], in[p].aw_valid, in[p].aw)
                  /\ HeldStable(w_watch[p], in[p].w_valid, in[p].w)
                  /\ HeldStable(ar_watch[p], in[p].ar_valid, in[p].ar)

Watched(valid, ready, payload) ==
  IF valid /\ ~ready THEN <<payload>> ELSE <<>>

WatchIngress(in, allow) ==
  /\ aw_watch' = [p \in Port |-> Watched(in[p].aw_valid, AwReady(p, allow), in[p].aw)]
  /\ w_watch'  = [p \in Port |-> Watched(in[p].w_valid, WReady(p, allow), in[p].w)]
  /\ ar_watch' = [p \in Port |-> Watched(in[p].ar_valid, ArReady(p, allow), in[p].ar)]

Retired(ring, ready) ==
  IF ring # <<>> /\ ready THEN Tail(ring) ELSE ring

(* The ports whose master takes the response of an exit write; the first   *)
(* such response ever taken decides the exit code.                         *)
TakesExit(in) ==
  {p \in Port : b[p] # <<>> /\ in[p].b_ready /\ Head(b[p]).exit # NoCode}

(* Mutant: the code is read from the register, not from the response.      *)
ExitCodeNow(p) == memory[CHOOSE d \in Device : IsExit(d)]

ExitCodeOf(p) == Head(b[p]).exit

RetireResponses(in) ==
  /\ IF ~exit_completed /\ TakesExit(in) # {}
     THEN exit_completed' = TRUE /\ exit_code' = ExitCodeOf(Min(TakesExit(in)))
     ELSE UNCHANGED exitVars
  /\ b' = [p \in Port |-> Retired(b[p], in[p].b_ready)]
  /\ r' = [p \in Port |-> Retired(r[p], in[p].r_ready)]

Accepted(ring, valid, ready, payload) ==
  IF valid /\ ready THEN Append(ring, payload) ELSE ring

AcceptIngress(in, allow) ==
  /\ aw' = [p \in Port |-> Accepted(aw[p], in[p].aw_valid, AwReady(p, allow), in[p].aw)]
  /\ w'  = [p \in Port |-> Accepted(w[p], in[p].w_valid, WReady(p, allow), in[p].w)]
  /\ ar' = [p \in Port |-> Accepted(ar[p], in[p].ar_valid, ArReady(p, allow), in[p].ar)]

Ingress(in, allow) ==
  /\ Running("ingress")
  /\ Stable(in)
  /\ WatchIngress(in, allow)
  /\ RetireResponses(in)
  /\ AcceptIngress(in, allow)
  /\ phase' = "arbitrate"
  /\ was_reset' = FALSE
  /\ UNCHANGED <<error, routeVars, monitors, memory>>

(* check_stability throws, before any response is retired.  The watches it *)
(* may have updated on the way are never read again.                       *)
UnstableMaster(in) ==
  /\ Running("ingress")
  /\ ~Stable(in)
  /\ error' = "stability"
  /\ was_reset' = FALSE
  /\ UNCHANGED <<phase, ingressVars, b, r, routeVars, monitors, exitVars, memory>>

-----------------------------------------------------------------------------
(***************************************************************************)
(* arbitrate_addresses and initialize_route.                               *)
(***************************************************************************)
ExclusiveBytes(p) == Beats(p) * BeatBytes(p)

(* validate_exclusive.                                                     *)
LegalExclusive(p) ==
  /\ p.burst = "INCR"
  /\ Beats(p) <= 16
  /\ ExclusiveBytes(p) \in {1, 2, 4, 8, 16, 32, 64, 128}
  /\ p.address % ExclusiveBytes(p) = 0

(* initialize_route returns instead of throwing.                           *)
Routable(p) ==
  /\ LegalBurst(p)
  /\ \A a \in BurstBytes(p) : a <= AddressLimit
  /\ p.lock => LegalExclusive(p)

(* The one mapping that holds every byte of the burst.                     *)
HoldsBurst(m, p) == BurstBytes(p) # {} /\ \A a \in BurstBytes(p) : Resolve(a) = m

(* Mutant: the bytes from the address up, as if no burst wrapped.          *)
RouteMappingSpan(p) ==
  LET m == Resolve(p.address)
  IN  IF p.address + Beats(p) * BeatBytes(p) <= End(m) THEN m ELSE NoMapping

RouteMapping(p) ==
  IF \E m \in Mappings : HoldsBurst(m, p) THEN CHOOSE m \in Mappings : HoldsBurst(m, p)
                                          ELSE NoMapping

ForcedResponse(p, mapping) ==
  CASE p.lock /\ (mapping = NoMapping \/ ~SupportsExclusive(mapping.device)) -> "SLVERR"
    [] ~p.lock /\ mapping = NoMapping -> "DECERR"
    [] OTHER -> IF p.length > 0 /\ ~SupportsBurst(mapping.device) THEN "SLVERR" ELSE "OKAY"

WriteRouteFor(port, p) ==
  [port |-> port, payload |-> p, mapping |-> RouteMapping(p),
   forced_response |-> ForcedResponse(p, RouteMapping(p)),
   staged |-> <<>>, commit_beat |-> 0, response |-> "OKAY", exit |-> NoCode]

ReadRouteFor(port, p) ==
  [port |-> port, payload |-> p, mapping |-> RouteMapping(p),
   forced_response |-> ForcedResponse(p, RouteMapping(p)), beat |-> 0]

(* Round robin: the port with a waiting address met first from `next' on.  *)
Offset(p, next) == (p + NumPorts - next) % NumPorts

Waiting(rings) == {p \in Port : rings[p] # <<>>}

(* Mutant: fixed priority.                                                 *)
GrantedLowest(rings, next) == Min(Waiting(rings))

Granted(rings, next) ==
  CHOOSE p \in Waiting(rings) :
    \A q \in Waiting(rings) : Offset(p, next) <= Offset(q, next)

GrantsAw == Waiting(aw) # {} /\ Len(write_routes) # RouteDepth
GrantsAr == Waiting(ar) # {} /\ Len(read_routes) # RouteDepth

AfterGrant(p) == (p + 1) % NumPorts

ArbitrateAw ==
  LET p == Granted(aw, next_aw_port)
  IN  IF GrantsAw
      THEN /\ write_routes' = Append(write_routes, WriteRouteFor(p, Head(aw[p])))
           /\ aw' = [aw EXCEPT ![p] = Tail(@)]
           /\ next_aw_port' = AfterGrant(p)
      ELSE UNCHANGED <<write_routes, aw, next_aw_port>>

ArbitrateAr ==
  LET p == Granted(ar, next_ar_port)
  IN  IF GrantsAr
      THEN /\ read_routes' = Append(read_routes, ReadRouteFor(p, Head(ar[p])))
           /\ ar' = [ar EXCEPT ![p] = Tail(@)]
           /\ next_ar_port' = AfterGrant(p)
      ELSE UNCHANGED <<read_routes, ar, next_ar_port>>

AwRoutable == GrantsAw => Routable(Head(aw[Granted(aw, next_aw_port)]))
ArRoutable == GrantsAr => Routable(Head(ar[Granted(ar, next_ar_port)]))

ArbitrateAddresses ==
  /\ Running("arbitrate")
  /\ AwRoutable /\ ArRoutable
  /\ ArbitrateAw
  /\ ArbitrateAr
  /\ phase' = "write"
  /\ UNCHANGED <<error, w, b, r, aw_watch, w_watch, ar_watch, monitors,
                 exitVars, was_reset, memory>>

(* make_cursor, initialize_route or validate_exclusive throws.  AW comes   *)
(* first: its route is queued when it is AR that is illegal.               *)
RejectAddress ==
  /\ Running("arbitrate")
  /\ ~(AwRoutable /\ ArRoutable)
  /\ IF AwRoutable THEN ArbitrateAw ELSE UNCHANGED <<write_routes, aw, next_aw_port>>
  /\ error' = "address"
  /\ UNCHANGED <<phase, w, ar, b, r, aw_watch, w_watch, ar_watch, read_routes,
                 next_ar_port, monitors, exitVars, was_reset, memory>>

-----------------------------------------------------------------------------
(***************************************************************************)
(* process_write_beat and process_write_commit.                            *)
(***************************************************************************)
DataComplete(route) == Len(route.staged) = Beats(route.payload)

(* The front route with the W beat of this clock staged, if it still needs *)
(* data; the last beat and the first device write share a clock.           *)
Loaded ==
  LET route == Head(write_routes)
  IN  IF DataComplete(route) THEN route
      ELSE [route EXCEPT !.staged = Append(@, Head(w[route.port]))]

TakeWriteBeat ==
  LET route == Head(write_routes)
  IN  w' = IF DataComplete(route) THEN w
           ELSE [w EXCEPT ![route.port] = Tail(@)]

NoWriteBeat ==
  write_routes # <<>> => /\ ~DataComplete(Head(write_routes))
                         /\ w[Head(write_routes).port] = <<>>

(* Mutant: WSTRB is not checked.                                           *)
ValidLastOnly ==
  LET route == Head(write_routes)
      beat  == Head(w[route.port])
  IN  ~DataComplete(route) =>
        beat.last = (Len(route.staged) + 1 = Beats(route.payload))

(* The beat agrees with the burst in WLAST and selects legal lanes only.   *)
ValidWriteBeat ==
  LET route == Head(write_routes)
      beat  == Head(w[route.port])
      index == Len(route.staged)
  IN  ~DataComplete(route) => /\ beat.last = (index + 1 = Beats(route.payload))
                              /\ beat.strobe \subseteq LaneMask(route.payload, index)

(* Mutants: room in the B ring is not checked, or one slot too early.      *)
CanCommitUnchecked == DataComplete(Loaded)
CanCommitOffByOne  == DataComplete(Loaded) /\ Len(b[Loaded.port]) + 1 # ResponseDepth

CanCommit == DataComplete(Loaded) /\ Len(b[Loaded.port]) # ResponseDepth

MonitorOf(port, id) == {m \in monitors : m.port = port /\ m.payload.id = id}

Reserves(m, a) ==
  /\ m.payload.address <= a
  /\ a < (m.payload.address + ExclusiveBytes(m.payload)) % AddressModulus

(* Mutant: a write leaves the reservations alone.                          *)
UnreservedNever(bytes) == monitors

(* invalidate_monitors for every byte of a set.                            *)
Unreserved(bytes) == {m \in monitors : \A a \in bytes : ~Reserves(m, a)}

(* Mutant: the response does not carry the id of its transaction.          *)
CompleteWriteRouteNoId(route) ==
  /\ b' = [b EXCEPT ![route.port] =
             Append(@, [id |-> 0, response |-> route.response, exit |-> route.exit])]
  /\ write_routes' = Tail(write_routes)

(* complete_write_route.                                                   *)
CompleteWriteRoute(route) ==
  /\ b' = [b EXCEPT ![route.port] =
             Append(@, [id |-> route.payload.id, response |-> route.response,
                        exit |-> route.exit])]
  /\ write_routes' = Tail(write_routes)

(* The front write route after a step of it.                               *)
UpdateFront(route) == [write_routes EXCEPT ![1] = route]

(* suppress_read_this_cycle_: a clock that writes a device reads none.     *)
(* Mutant: it does.                                                        *)
AfterDeviceWriteRead == "read"
AfterDeviceWrite == "ingress"

WriteFrame ==
  UNCHANGED <<error, aw, ar, r, aw_watch, w_watch, ar_watch, read_routes,
              next_aw_port, next_ar_port, exitVars, was_reset>>

WriteIdle ==
  /\ Running("write")
  /\ NoWriteBeat
  /\ phase' = "read"
  /\ UNCHANGED <<w, b, write_routes, monitors, memory>> /\ WriteFrame

(* A beat is staged, or a complete burst waits for room in the B ring.     *)
StageWriteBeat ==
  /\ Running("write")
  /\ ~NoWriteBeat /\ ValidWriteBeat
  /\ ~CanCommit
  /\ TakeWriteBeat
  /\ write_routes' = UpdateFront(Loaded)
  /\ phase' = "read"
  /\ UNCHANGED <<b, monitors, memory>> /\ WriteFrame

RejectWriteBeat ==
  /\ Running("write")
  /\ ~NoWriteBeat /\ ~ValidWriteBeat
  /\ error' = "write_data"
  /\ UNCHANGED <<phase, ingressVars, b, r, routeVars, monitors, exitVars,
                 was_reset, memory>>

Commits == Running("write") /\ ~NoWriteBeat /\ ValidWriteBeat /\ CanCommit

(* An unmapped or unsupported write is answered without a device access;   *)
(* it does not suppress the read of this clock.                            *)
CommitForced ==
  /\ Commits
  /\ ~Loaded.payload.lock /\ Loaded.forced_response # "OKAY"
  /\ CompleteWriteRoute([Loaded EXCEPT !.response =
                           CombineResponse(@, Loaded.forced_response)])
  /\ TakeWriteBeat
  /\ phase' = "read"
  /\ UNCHANGED <<monitors, memory>> /\ WriteFrame

(* write_device_beat for one beat of an ordinary write.                    *)
BeatWrite(route) ==
  LET i     == route.commit_beat
      mask  == LaneMask(route.payload, i)
      first == Min(mask)
      base  == BusWordAddress(route.payload, i)
      lanes == mask \cap route.staged[i + 1].strobe
  IN  [offset |-> base + first - route.mapping.base,
       count  |-> Max(mask) - first + 1,
       strobe |-> {lane - first : lane \in lanes},
       bytes  |-> [n \in {lane - first : lane \in lanes} |->
                     route.staged[i + 1].data[first + n]],
       touched |-> {base + lane : lane \in lanes}]

GatheredBeats(p) == 0 .. p.length

(* finish_exclusive_write gathers the whole burst into one device write.   *)
ExclusiveWrite(route) ==
  LET p          == route.payload
      enabled(i) == LaneMask(p, i) \cap route.staged[i + 1].strobe
      touched    == UNION {{BusWordAddress(p, i) + lane : lane \in enabled(i)}
                             : i \in GatheredBeats(p)}
      beat(a)    == CHOOSE i \in GatheredBeats(p) : a - BusWordAddress(p, i) \in enabled(i)
      byte(a)    == route.staged[beat(a) + 1].data[a - BusWordAddress(p, beat(a))]
  IN  [offset |-> p.address - route.mapping.base,
       count  |-> ExclusiveBytes(p),
       strobe |-> {a - p.address : a \in touched},
       bytes  |-> [n \in {a - p.address : a \in touched} |-> byte(p.address + n)],
       touched |-> touched]

AccessResponse(d, access) ==
  WriteResponse(d, access.offset, access.count, access.strobe)

(* What a successful device write changes; a refused one changes nothing.  *)
Perform(d, access) ==
  [memory EXCEPT ![d] = Written(@, access.offset, access.strobe, access.bytes)]

(* One beat of an ordinary write reaches its device.  An error ends the    *)
(* burst: the remaining beats are skipped, the earlier ones stay.          *)
CommitBeat ==
  LET route    == Loaded
      d        == route.mapping.device
      access   == BeatWrite(route)
      empty    == LaneMask(route.payload, route.commit_beat) = {}
      response == IF empty THEN "OKAY" ELSE AccessResponse(d, access)
      takes    == ~empty /\ ResponseIsSuccess(response)
      next     == [route EXCEPT
                     !.response = CombineResponse(@, response),
                     !.commit_beat = IF ResponseIsSuccess(response) THEN @ + 1
                                     ELSE Beats(route.payload),
                     !.exit = IF takes /\ IsExit(d) THEN Perform(d, access)[d] ELSE @]
  IN  /\ Commits
      /\ ~route.payload.lock /\ route.forced_response = "OKAY"
      /\ IF takes
         THEN /\ memory' = Perform(d, access)
              /\ monitors' = Unreserved(access.touched)
         ELSE UNCHANGED <<memory, monitors>>
      /\ IF next.commit_beat = Beats(next.payload)
         THEN CompleteWriteRoute(next)
         ELSE write_routes' = UpdateFront(next) /\ UNCHANGED b
      /\ TakeWriteBeat
      /\ phase' = AfterDeviceWrite
      /\ WriteFrame

(* The reservation that lets an exclusive write through.                   *)
Reserved(route) ==
  \E m \in MonitorOf(route.port, route.payload.id) : m.payload = route.payload

CommitExclusive ==
  LET route    == Loaded
      d        == route.mapping.device
      own      == MonitorOf(route.port, route.payload.id)
      access   == ExclusiveWrite(route)
      tried    == route.forced_response = "OKAY" /\ Reserved(route)
      takes    == tried /\ ResponseIsSuccess(AccessResponse(d, access))
      response == CASE route.forced_response # "OKAY" -> route.forced_response
                    [] takes -> "EXOKAY"
                    [] tried /\ ~takes -> AccessResponse(d, access)
                    [] OTHER -> "OKAY"
  IN  /\ Commits
      /\ route.payload.lock
      /\ IF takes
         THEN /\ memory' = Perform(d, access)
              /\ monitors' = Unreserved(access.touched) \ own
         ELSE /\ monitors' = monitors \ own
              /\ UNCHANGED memory
      /\ CompleteWriteRoute([route EXCEPT !.response = response])
      /\ TakeWriteBeat
      /\ phase' = AfterDeviceWrite
      /\ WriteFrame

-----------------------------------------------------------------------------
(***************************************************************************)
(* process_read_beat.                                                      *)
(***************************************************************************)
NoReadBeat ==
  read_routes # <<>> => Len(r[Head(read_routes).port]) = ResponseDepth

(* The first beat of an exclusive read makes the reservation.              *)
Establishes(route) ==
  route.payload.lock /\ route.beat = 0 /\ route.forced_response = "OKAY"

(* The table has neither an entry for this {port, id} nor a free one.      *)
TableExhausted(route) ==
  /\ Establishes(route)
  /\ MonitorOf(route.port, route.payload.id) = {}
  /\ Cardinality(monitors) = RouteDepth

(* An earlier reservation of the same master is replaced.                  *)
EstablishMonitor(route) ==
  monitors' = IF Establishes(route)
              THEN (monitors \ MonitorOf(route.port, route.payload.id))
                     \cup {[port |-> route.port, payload |-> route.payload]}
              ELSE monitors

(* Mutant: off by one.                                                     *)
IsLastReadBeatEarly(route) == route.beat + 1 = route.payload.length

IsLastReadBeat(route) == route.beat + 1 = Beats(route.payload)

(* The R beat a route produces.                                            *)
ReadResult(route) ==
  LET mask     == LaneMask(route.payload, route.beat)
      base     == BusWordAddress(route.payload, route.beat)
      m        == route.mapping
      offset   == base + Min(mask) - m.base
      response == IF mask = {} THEN "OKAY"
                  ELSE ReadResponse(m.device, offset, Max(mask) - Min(mask) + 1)
      zeros    == [lane \in Lanes |-> Zero]
  IN  [id |-> route.payload.id,
       last |-> IsLastReadBeat(route),
       response |-> IF route.forced_response # "OKAY" THEN route.forced_response
                    ELSE IF route.payload.lock /\ response = "OKAY" THEN "EXOKAY"
                    ELSE response,
       data |-> IF route.forced_response # "OKAY" \/ response # "OKAY" THEN zeros
                ELSE [lane \in Lanes |-> IF lane \in mask
                                         THEN memory[m.device][base + lane - m.base]
                                         ELSE Zero]]

ReadFrame ==
  UNCHANGED <<ingressVars, b, write_routes, next_aw_port, next_ar_port,
              exitVars, was_reset, memory>>

ReadIdle ==
  /\ Running("read")
  /\ NoReadBeat
  /\ phase' = "ingress"
  /\ UNCHANGED <<error, r, read_routes, monitors>> /\ ReadFrame

ProcessReadBeat ==
  LET route == Head(read_routes)
  IN  /\ Running("read")
      /\ ~NoReadBeat
      /\ ~TableExhausted(route)
      /\ EstablishMonitor(route)
      /\ r' = [r EXCEPT ![route.port] = Append(@, ReadResult(route))]
      /\ read_routes' = IF IsLastReadBeat(route) THEN Tail(read_routes)
                        ELSE [read_routes EXCEPT ![1].beat = @ + 1]
      /\ phase' = "ingress"
      /\ UNCHANGED error /\ ReadFrame

(* establish_monitor throws.                                               *)
RejectExclusiveRead ==
  /\ Running("read")
  /\ ~NoReadBeat
  /\ TableExhausted(Head(read_routes))
  /\ error' = "monitors"
  /\ UNCHANGED <<phase, r, read_routes, monitors>> /\ ReadFrame

-----------------------------------------------------------------------------
(***************************************************************************)
(* A clock with reset asserted.  reset_state runs on the first of them.    *)
(***************************************************************************)
ResetAddresses ==
  /\ aw' = [p \in Port |-> <<>>]
  /\ ar' = [p \in Port |-> <<>>]

(* Mutant: data that came before its address survives.                     *)
ResetWriteDataNot == UNCHANGED w

ResetWriteData == w' = [p \in Port |-> <<>>]

ResetResponses ==
  /\ b' = [p \in Port |-> <<>>]
  /\ r' = [p \in Port |-> <<>>]

(* Mutant: a stall before the reset is held against the master after it.   *)
ResetWatchesNot == UNCHANGED <<aw_watch, w_watch, ar_watch>>

ResetWatches ==
  /\ aw_watch' = [p \in Port |-> <<>>]
  /\ w_watch'  = [p \in Port |-> <<>>]
  /\ ar_watch' = [p \in Port |-> <<>>]

(* Mutant: reservations survive.                                           *)
ResetMonitorsNot == UNCHANGED monitors

ResetMonitors == monitors' = {}

ResetState ==
  /\ ResetAddresses
  /\ ResetWriteData
  /\ ResetResponses
  /\ ResetWatches
  /\ ResetMonitors
  /\ write_routes' = <<>>
  /\ read_routes' = <<>>
  /\ next_aw_port' = 0
  /\ next_ar_port' = 0
  /\ exit_completed' = FALSE
  /\ exit_code' = NoCode

ResetCycle ==
  /\ Running("ingress")
  /\ ~was_reset
  /\ ResetState
  /\ memory' = IF ResetDevicesToo THEN ResetDevices(memory) ELSE memory
  /\ was_reset' = TRUE
  /\ UNCHANGED <<phase, error>>

(* clear_exit_completed, called by the host between two clocks.            *)
ClearExitCompleted ==
  /\ Running("ingress")
  /\ exit_completed' = FALSE
  /\ exit_code' = NoCode
  /\ UNCHANGED <<phase, error, ingressVars, b, r, routeVars, monitors,
                 was_reset, memory>>

Init ==
  /\ phase = "ingress" /\ error = "none"
  /\ aw = [p \in Port |-> <<>>]
  /\ w  = [p \in Port |-> <<>>]
  /\ ar = [p \in Port |-> <<>>]
  /\ b  = [p \in Port |-> <<>>]
  /\ r  = [p \in Port |-> <<>>]
  /\ aw_watch = [p \in Port |-> <<>>]
  /\ w_watch  = [p \in Port |-> <<>>]
  /\ ar_watch = [p \in Port |-> <<>>]
  /\ write_routes = <<>>
  /\ read_routes = <<>>
  /\ monitors = {}
  /\ next_aw_port = 0
  /\ next_ar_port = 0
  /\ exit_completed = FALSE
  /\ exit_code = NoCode
  /\ was_reset = FALSE
  /\ memory = [d \in Device |-> [o \in 0 .. Capacity[d] - 1 |-> Zero]]

(* The steps that need no signal of a master.                              *)
Internal ==
  \/ ArbitrateAddresses
  \/ RejectAddress
  \/ WriteIdle
  \/ StageWriteBeat
  \/ RejectWriteBeat
  \/ CommitForced
  \/ CommitBeat
  \/ CommitExclusive
  \/ ReadIdle
  \/ ProcessReadBeat
  \/ RejectExclusiveRead

MasterSignals ==
  [aw_valid : BOOLEAN, aw : AddressPayload, w_valid : BOOLEAN, w : WriteBeat,
   ar_valid : BOOLEAN, ar : AddressPayload, b_ready : BOOLEAN, r_ready : BOOLEAN]

Allow == [aw : BOOLEAN, w : BOOLEAN, ar : BOOLEAN]

(* The fabric under any masters at all.                                    *)
Next ==
  \/ \E in \in [Port -> MasterSignals], allow \in [Port -> Allow] : Ingress(in, allow)
  \/ \E in \in [Port -> MasterSignals] : UnstableMaster(in)
  \/ Internal
  \/ ResetCycle
  \/ ClearExitCompleted

Spec == Init /\ [][Next]_vars

-----------------------------------------------------------------------------
(***************************************************************************)
(* What the fabric promises to any masters.                                *)
(***************************************************************************)
MappingOrNone == Mappings \cup {NoMapping}

Contents(d) == [0 .. Capacity[d] - 1 -> Value]

AnyContents == UNION {Contents(d) : d \in Device}

Code == AnyContents \cup {NoCode}

Id == {p.id : p \in AddressPayload}

WriteResponseBeat == [id : Id, response : Response, exit : Code]

ReadBeat == [id : Id, last : BOOLEAN, response : Response, data : [Lanes -> Value]]

WriteRoute ==
  [port : Port, payload : AddressPayload, mapping : MappingOrNone,
   forced_response : Response, staged : Seq(WriteBeat), commit_beat : Nat,
   response : Response, exit : Code]

ReadRoute ==
  [port : Port, payload : AddressPayload, mapping : MappingOrNone,
   forced_response : Response, beat : Nat]

(* The state has the shape the C++ members give it.                        *)
TypeOK ==
  /\ phase \in {"ingress", "arbitrate", "write", "read"}
  /\ error \in {"none", "stability", "address", "write_data", "monitors"}
  /\ aw \in [Port -> Seq(AddressPayload)]
  /\ w \in [Port -> Seq(WriteBeat)]
  /\ ar \in [Port -> Seq(AddressPayload)]
  /\ b \in [Port -> Seq(WriteResponseBeat)]
  /\ r \in [Port -> Seq(ReadBeat)]
  /\ aw_watch \in [Port -> Seq(AddressPayload)]
  /\ w_watch \in [Port -> Seq(WriteBeat)]
  /\ ar_watch \in [Port -> Seq(AddressPayload)]
  /\ write_routes \in Seq(WriteRoute)
  /\ read_routes \in Seq(ReadRoute)
  /\ monitors \subseteq [port : Port, payload : AddressPayload]
  /\ next_aw_port \in Port
  /\ next_ar_port \in Port
  /\ exit_completed \in BOOLEAN
  /\ exit_code \in Code
  /\ was_reset \in BOOLEAN
  /\ memory \in [Device -> AnyContents]
  /\ \A d \in Device : memory[d] \in Contents(d)

(* No push is ever lost.  The results of the B, R and route pushes of      *)
(* process_read_beat, complete_write_route and arbitrate_addresses are     *)
(* ignored by the code, so a ring that could exceed its depth would drop a *)
(* response or a transaction without a word.                               *)
NoRingOverflows ==
  /\ \A p \in Port : /\ Len(aw[p]) <= AddressDepth
                     /\ Len(ar[p]) <= AddressDepth
                     /\ Len(w[p]) <= WriteDataDepth
                     /\ Len(b[p]) <= ResponseDepth
                     /\ Len(r[p]) <= ResponseDepth
  /\ Len(write_routes) <= RouteDepth
  /\ Len(read_routes) <= RouteDepth

(* A transaction that will reach a device stays inside the mapping it was  *)
(* routed to: initialize_route resolves every byte of the burst, so the    *)
(* unsigned `base + first - mapping->base' of process_read_beat and        *)
(* write_device_beat never wraps below zero, beat after beat.              *)
RouteInside(route) ==
  route.forced_response = "OKAY" =>
    /\ route.mapping \in Mappings
    /\ \A a \in BurstBytes(route.payload) :
         route.mapping.base <= a /\ a < End(route.mapping)

RoutesStayInTheirMapping ==
  /\ \A i \in DOMAIN write_routes : RouteInside(write_routes[i])
  /\ \A i \in DOMAIN read_routes : RouteInside(read_routes[i])

(* "Do not expose any beat to a device until WLAST and every WSTRB in the  *)
(* complete burst have been validated" (process_write_beat): a route that  *)
(* has begun to commit holds all its beats, each with the WLAST and WSTRB  *)
(* its burst allows, and the B ring has kept the room for its response.    *)
ValidatedRoute(route) ==
  /\ Len(route.staged) <= Beats(route.payload)
  /\ \A i \in DOMAIN route.staged :
       /\ route.staged[i].last = (i = Beats(route.payload))
       /\ route.staged[i].strobe \subseteq LaneMask(route.payload, i - 1)
  /\ route.commit_beat < Beats(route.payload)
  /\ route.commit_beat > 0 => /\ DataComplete(route)
                              /\ Len(b[route.port]) < ResponseDepth

DevicesSeeValidatedBursts ==
  \A i \in DOMAIN write_routes : ValidatedRoute(write_routes[i])

(* The beats of one ordinary write reach their device without a read beat  *)
(* between them: no clock that reads finds the front write half committed. *)
(* It rests on suppress_read_this_cycle_ and on the B ring not filling up  *)
(* again once the commit has begun.                                        *)
BurstCommitIsAtomic ==
  phase = "read" /\ write_routes # <<>> => Head(write_routes).commit_beat = 0

(* Only the front write has data: a burst behind it has neither staged a   *)
(* beat nor touched a device, so a device error, a reset or a late WLAST   *)
(* error concerns one transaction only.                                    *)
OnlyFrontWriteHasData ==
  \A i \in 2 .. Len(write_routes) :
    write_routes[i].staged = <<>> /\ write_routes[i].commit_beat = 0

(* One reservation per {port, id}: establish_monitor reuses the entry it   *)
(* finds, so find_monitor's first match is the only one.                   *)
OneMonitorPerMaster ==
  /\ \A m, n \in monitors : m.port = n.port /\ m.payload.id = n.payload.id => m = n
  /\ Cardinality(monitors) <= RouteDepth

(* Round robin: whenever another port's address is routed, a waiting port  *)
(* moves up, so it is overtaken fewer than NumPorts times.                 *)
MovesUp(rings, next) ==
  \A p \in Port : rings[p] # <<>> /\ rings'[p] = rings[p] /\ rings' # rings =>
                    Offset(p, next') < Offset(p, next)

Arbitrates == phase = "arbitrate" /\ phase' = "write"

WaitingPortsMoveUp ==
  [][Arbitrates => MovesUp(aw, next_aw_port) /\ MovesUp(ar, next_ar_port)]_vars
=============================================================================
