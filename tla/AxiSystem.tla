------------------------------- MODULE AxiSystem -------------------------------
(***************************************************************************)
(* The fabric composed with one master per port.                           *)
(*                                                                         *)
(* A master (the design under test, not part of src/) is given a plan: a   *)
(* sequence of writes and a sequence of reads it issues in order, each     *)
(* channel at its own pace, W before AW included.  A write                 *)
(*                                                                         *)
(*   [payload, strobe, last, after]                                        *)
(*                                                                         *)
(* is issued once `after' reads of the same port are complete, a read      *)
(* [payload, after] once `after' write responses have come back.  strobe   *)
(* is "lanes", "none", "outside" (an illegal lane in every beat) or "late" *)
(* (in the last beat only), last is "final", "wrong" (WLAST inverted) or   *)
(* "missing".  A master holds a stalled VALID and payload unless           *)
(* MayMisbehave.  Every byte a write carries has a value of its own: the   *)
(* epoch (number of resets so far), port, write, beat and lane it comes    *)
(* from, so that the state of a device tells which writes reached it.      *)
(***************************************************************************)
EXTENDS AxiFabric

CONSTANTS
  Plans,         \* the plans a run starts from
  Restarts,      \* the plans after a reset
  MaxEpoch,      \* bound on the number of resets
  MayMisbehave   \* masters may drop VALID while stalled

VARIABLES
  plan,          \* [Port -> [writes, reads]]
  aw_sent,       \* addresses the fabric has accepted, per port
  w_sent,        \* write beats it has accepted
  ar_sent,
  b_log,         \* the write responses a master has taken, in order
  r_got,         \* the number of read beats it has taken
  seen,          \* [port][id][address]: last value an exclusive read brought
  written,       \* every value that ever was in a device
  held,          \* the channels on which a master was stalled last clock
  epoch

masterVars ==
  <<plan, aw_sent, w_sent, ar_sent, b_log, r_got, seen, written, held, epoch>>
allVars == <<vars, masterVars>>

Ids == {p.id : p \in AddressPayload}
ReservedBytes == UNION {BurstBytes(p) : p \in {q \in AddressPayload : q.lock}}
Unseen == <<0>>
NothingHeld == [p \in Port |-> [aw |-> FALSE, w |-> FALSE, ar |-> FALSE]]

Tag(e, p, i, k, lane) == <<e, p, i, k, lane>>

-----------------------------------------------------------------------------
(* The number of beats in the first n transactions of a sequence.          *)
BeatsThrough(txs, n) ==
  LET sum[i \in 0 .. n] == IF i = 0 THEN 0 ELSE sum[i - 1] + Beats(txs[i].payload)
  IN  sum[n]

(* The transaction that beat number n (from 1) of a sequence belongs to,   *)
(* and its index in that transaction (from 0).                             *)
TxOf(txs, n) == CHOOSE i \in 1 .. Len(txs) : /\ BeatsThrough(txs, i - 1) < n
                                             /\ n <= BeatsThrough(txs, i)
BeatOf(txs, n) == n - BeatsThrough(txs, TxOf(txs, n) - 1) - 1

ReadsDone(p) ==
  Cardinality({i \in 1 .. Len(plan[p].reads) : BeatsThrough(plan[p].reads, i) <= r_got[p]})

MayWrite(p, i) == ReadsDone(p) >= plan[p].writes[i].after

CanAw(p) == aw_sent[p] < Len(plan[p].writes) /\ MayWrite(p, aw_sent[p] + 1)

CanW(p) == /\ w_sent[p] < BeatsThrough(plan[p].writes, Len(plan[p].writes))
           /\ MayWrite(p, TxOf(plan[p].writes, w_sent[p] + 1))

CanAr(p) == /\ ar_sent[p] < Len(plan[p].reads)
            /\ Len(b_log[p]) >= plan[p].reads[ar_sent[p] + 1].after

Strobe(tx, k) ==
  CASE tx.strobe = "lanes"   -> LaneMask(tx.payload, k)
    [] tx.strobe = "none"    -> {}
    [] tx.strobe = "outside" -> Lanes
    [] tx.strobe = "late"    -> IF k = tx.payload.length THEN Lanes ELSE LaneMask(tx.payload, k)

(* Beat k of write i of port p, sent in epoch e.                           *)
BeatFor(e, p, i, k, tx) ==
  [data |-> [lane \in Lanes |-> Tag(e, p, i, k, lane)],
   strobe |-> Strobe(tx, k),
   last |-> tx.last # "missing" /\ (k = tx.payload.length) # (tx.last = "wrong")]

(* W beat number n of port p.                                              *)
PlannedBeat(p, n) ==
  LET i == TxOf(plan[p].writes, n)
  IN  BeatFor(epoch, p, i, BeatOf(plan[p].writes, n), plan[p].writes[i])

(* What a master does in one clock on an ingress channel: stay silent, or  *)
(* offer its next payload, which may "go" or meet a stall.  A blocked      *)
(* master may not fall silent.                                             *)
Silent(p, payloads) ==
  [port |-> p, valid |-> FALSE, payload |-> CHOOSE x \in payloads : TRUE, go |-> FALSE]

Offers(p, can, stalled, room, payload, payloads) ==
  {o \in {Silent(p, payloads)} : ~can \/ ~stalled \/ MayMisbehave} \cup
  (IF can THEN [port : {p}, valid : {TRUE}, payload : {payload},
                go : {g \in BOOLEAN : g => room}]
          ELSE {})

AwRoom(p) == Len(aw[p]) # AddressDepth
WRoom(p)  == Len(w[p]) # WriteDataDepth
ArRoom(p) == Len(ar[p]) # AddressDepth

AwOffers == UNION {Offers(p, CanAw(p), held[p].aw, AwRoom(p),
                          plan[p].writes[aw_sent[p] + 1].payload, AddressPayload) : p \in Port}
WOffers  == UNION {Offers(p, CanW(p), held[p].w, WRoom(p),
                          PlannedBeat(p, w_sent[p] + 1), WriteBeat) : p \in Port}
ArOffers == UNION {Offers(p, CanAr(p), held[p].ar, ArRoom(p),
                          plan[p].reads[ar_sent[p] + 1].payload, AddressPayload) : p \in Port}

(* One offer of each port.                                                 *)
PerPort(offers) == {f \in [Port -> offers] : \A p \in Port : f[p].port = p}

Takes(rings) == {f \in [Port -> BOOLEAN] : \A p \in Port : f[p] => rings[p] # <<>>}

Signals(a, d, c, y, z) ==
  [p \in Port |-> [aw_valid |-> a[p].valid, aw |-> a[p].payload,
                   w_valid |-> d[p].valid, w |-> d[p].payload,
                   ar_valid |-> c[p].valid, ar |-> c[p].payload,
                   b_ready |-> y[p], r_ready |-> z[p]]]

(* What an exclusive read brings is remembered byte by byte.               *)
Remember(p, beat) ==
  LET tx == plan[p].reads[TxOf(plan[p].reads, r_got[p] + 1)].payload
      k  == BeatOf(plan[p].reads, r_got[p] + 1)
  IN  IF ~tx.lock THEN seen[p]
      ELSE [seen[p] EXCEPT ![tx.id] =
              [a \in ReservedBytes |-> IF a \in BeatBytesAt(tx, k)
                                       THEN beat.data[a - BusWordAddress(tx, k)]
                                       ELSE @[a]]]

(* The masters' side of one clock: what they count as sent and taken.      *)
MastersStep(in, allow) ==
  /\ aw_sent' = [p \in Port |-> aw_sent[p] +
                   IF in[p].aw_valid /\ AwReady(p, allow) THEN 1 ELSE 0]
  /\ w_sent'  = [p \in Port |-> w_sent[p] +
                   IF in[p].w_valid /\ WReady(p, allow) THEN 1 ELSE 0]
  /\ ar_sent' = [p \in Port |-> ar_sent[p] +
                   IF in[p].ar_valid /\ ArReady(p, allow) THEN 1 ELSE 0]
  /\ b_log' = [p \in Port |-> IF b[p] # <<>> /\ in[p].b_ready
                              THEN Append(b_log[p], Head(b[p])) ELSE b_log[p]]
  /\ r_got' = [p \in Port |-> IF r[p] # <<>> /\ in[p].r_ready
                              THEN r_got[p] + 1 ELSE r_got[p]]
  /\ seen' = [p \in Port |-> IF r[p] # <<>> /\ in[p].r_ready
                             THEN Remember(p, Head(r[p])) ELSE seen[p]]
  /\ held' = [p \in Port |-> [aw |-> in[p].aw_valid /\ ~AwReady(p, allow),
                             w  |-> in[p].w_valid /\ ~WReady(p, allow),
                             ar |-> in[p].ar_valid /\ ~ArReady(p, allow)]]
  /\ UNCHANGED <<plan, written, epoch>>

(* One clock up to arbitration.  The ports in `eager' move on every        *)
(* channel they can and meet no stall.                                     *)
Clock(eager) ==
  /\ Running("ingress")
  /\ \E a \in PerPort(AwOffers), d \in PerPort(WOffers), c \in PerPort(ArOffers),
        y \in Takes(b), z \in Takes(r) :
       LET in    == Signals(a, d, c, y, z)
           allow == [p \in Port |-> [aw |-> a[p].go, w |-> d[p].go, ar |-> c[p].go]]
       IN  /\ \A p \in eager : /\ CanAw(p) /\ AwRoom(p) => a[p].go
                               /\ CanW(p) /\ WRoom(p) => d[p].go
                               /\ CanAr(p) /\ ArRoom(p) => c[p].go
                               /\ b[p] # <<>> => y[p]
                               /\ r[p] # <<>> => z[p]
           /\ \/ Ingress(in, allow) /\ MastersStep(in, allow)
              \/ UnstableMaster(in) /\ UNCHANGED masterVars

FabricStep ==
  /\ Internal
  /\ written' = written \cup UNION {{memory'[d][o] : o \in DOMAIN memory'[d]} : d \in Device}
  /\ UNCHANGED <<plan, aw_sent, w_sent, ar_sent, b_log, r_got, seen, held, epoch>>

(* Reset restarts the masters too, on any plan.                            *)
Reset ==
  /\ epoch < MaxEpoch
  /\ ResetCycle
  /\ epoch' = epoch + 1
  /\ aw_sent' = [p \in Port |-> 0]
  /\ w_sent'  = [p \in Port |-> 0]
  /\ ar_sent' = [p \in Port |-> 0]
  /\ b_log'   = [p \in Port |-> <<>>]
  /\ r_got'   = [p \in Port |-> 0]
  /\ seen'    = [p \in Port |-> [id \in Ids |-> [a \in ReservedBytes |-> Unseen]]]
  /\ held' = NothingHeld
  /\ plan' \in Restarts
  /\ UNCHANGED written

ClearExit == exit_completed /\ ClearExitCompleted /\ UNCHANGED masterVars

(* A protocol error has ended the simulation.                              *)
Stopped == error # "none" /\ UNCHANGED allVars

SystemInit ==
  /\ Init
  /\ plan \in Plans
  /\ aw_sent = [p \in Port |-> 0]
  /\ w_sent  = [p \in Port |-> 0]
  /\ ar_sent = [p \in Port |-> 0]
  /\ b_log   = [p \in Port |-> <<>>]
  /\ r_got   = [p \in Port |-> 0]
  /\ seen    = [p \in Port |-> [id \in Ids |-> [a \in ReservedBytes |-> Unseen]]]
  /\ written = {Zero}
  /\ held    = NothingHeld
  /\ epoch   = 0

SystemNext ==
  \/ Clock({})
  \/ FabricStep
  \/ Reset
  \/ ClearExit
  \/ Stopped

SystemSpec == SystemInit /\ [][SystemNext]_allVars

(* The clock keeps running, and every port sees, again and again, a clock  *)
(* in which its master takes part on all channels and no stall is drawn.   *)
Fairness ==
  /\ WF_allVars(Clock({}))
  /\ WF_allVars(FabricStep)
  /\ \A p \in Port : SF_allVars(Clock({p}))

FairSystemSpec == SystemSpec /\ Fairness

-----------------------------------------------------------------------------
(***************************************************************************)
(* What the masters may rely on.                                           *)
(***************************************************************************)
ResponseIds(ring) == [k \in DOMAIN ring |-> ring[k].id]
PayloadIds(ring)  == [k \in DOMAIN ring |-> ring[k].payload.id]
AddressIds(ring)  == [k \in DOMAIN ring |-> ring[k].id]
RoutesOf(routes, p) == SelectSeq(routes, LAMBDA route : route.port = p)

(* Every accepted AW has exactly one B, on its own port and in AW order:   *)
(* what the master has taken, the B ring, the routes and the AW ring,      *)
(* together, are the addresses sent (complete_write_route, arbitration and *)
(* reset may neither lose, nor duplicate, nor reorder one).                *)
WritesConserved ==
  \A p \in Port :
    ResponseIds(b_log[p] \o b[p]) \o PayloadIds(RoutesOf(write_routes, p)) \o AddressIds(aw[p])
      = [i \in 1 .. aw_sent[p] |-> plan[p].writes[i].payload.id]

(* The R beats of a port are those of its reads in order, none missing or  *)
(* doubled, never those of two bursts interleaved, with RLAST on the last. *)
ReadsConserved ==
  \A p \in Port :
    LET reads  == plan[p].reads
        routes == RoutesOf(read_routes, p)
        queued == Len(r[p])
        total  == BeatsThrough(reads, ar_sent[p])
        owed   == MapThenSumSet(LAMBDA k : Beats(routes[k].payload) - routes[k].beat,
                                DOMAIN routes)
                  + MapThenSumSet(LAMBDA k : Beats(ar[p][k]), DOMAIN ar[p])
    IN  /\ r_got[p] + queued + owed = total
        /\ \A k \in 1 .. queued :
             LET i == TxOf(reads, r_got[p] + k)
             IN  /\ r[p][k].id = reads[i].payload.id
                 /\ r[p][k].last = (r_got[p] + k = BeatsThrough(reads, i))

(* The values write i of port p carries in its first n beats.              *)
Carries(p, i, n) ==
  LET tx == plan[p].writes[i]
  IN  UNION {{Tag(epoch, p, i, k, lane) : lane \in Strobe(tx, k)} : k \in 0 .. n - 1}

AllBeats(p, i) == Beats(plan[p].writes[i].payload)

(* A byte of a device lies where the write it comes from addressed it.     *)
AtItsAddress(d, o) ==
  LET value   == memory[d][o]
      payload == plan[value[2]].writes[value[3]].payload
  IN  value # Zero /\ value[1] = epoch =>
        \E m \in Mappings :
          m.device = d /\ m.base + o = BusWordAddress(payload, value[4]) + value[5]

(* A write response tells what happened to the devices.  OKAY of an        *)
(* ordinary write and EXOKAY mean that every strobed byte was written; an  *)
(* exclusive write that is not EXOKAY and a decode error wrote nothing; an *)
(* error in the middle of a burst leaves the beats before it, as a prefix. *)
(* What was written lies at its address, in the order of a wrapping burst  *)
(* and at the odd start of an unaligned one too.                           *)
ResponsesTellTheTruth ==
  /\ \A d \in Device : \A o \in DOMAIN memory[d] : AtItsAddress(d, o)
  /\ \A p \in Port : \A i \in 1 .. Len(b_log[p] \o b[p]) :
       LET response == (b_log[p] \o b[p])[i].response
           lock     == plan[p].writes[i].payload.lock
           reached  == Carries(p, i, AllBeats(p, i)) \cap written
       IN  /\ response = "EXOKAY" => lock
           /\ response = "EXOKAY" \/ (response = "OKAY" /\ ~lock) =>
                reached = Carries(p, i, AllBeats(p, i))
           /\ response = "DECERR" \/ (response # "EXOKAY" /\ lock) => reached = {}
           /\ response = "SLVERR" =>
                \E n \in 0 .. AllBeats(p, i) : reached = Carries(p, i, n)

(* No byte of a write reaches a device before the whole burst has been     *)
(* accepted and found legal, also when its last beat is the only bad one:  *)
(* README, "Device writes begin only after every beat has passed           *)
(* WLAST/WSTRB validation".                                                *)
NoPartialBurst ==
  \A p \in Port : \A i \in 1 .. Len(plan[p].writes) :
    Carries(p, i, AllBeats(p, i)) \cap written # {} =>
      /\ w_sent[p] >= BeatsThrough(plan[p].writes, i)
      /\ aw_sent[p] >= i
      /\ plan[p].writes[i].last = "final"
      /\ plan[p].writes[i].strobe \in {"lanes", "none"}

(* An exclusive write that succeeds finds its bytes as the master's last   *)
(* exclusive read with that id brought them: nobody wrote in between.      *)
ExclusiveMeansUnchanged ==
  [][memory' # memory /\ epoch' = epoch /\ Head(write_routes).payload.lock =>
       LET route == Head(write_routes)
           p     == route.payload
       IN  \A a \in BurstBytes(p) :
             memory[route.mapping.device][a - route.mapping.base]
               = seen[route.port][p.id][a]]_allVars

(* A reset discards the writes in flight: what reaches a device carries    *)
(* the current epoch, never data a master sent before the reset            *)
(* (reset_state empties the W rings and the routes).                       *)
ResetDiscardsWrites ==
  [][\A d \in Device : \A o \in DOMAIN memory[d] :
       memory'[d][o] # memory[d][o] /\ memory'[d][o] # Zero =>
         memory'[d][o][1] = epoch']_allVars

(* Masters that keep the rules never meet a ProtocolError: no stall is     *)
(* held against a transfer it does not belong to, and no W beat is         *)
(* measured against another burst than its own.                            *)
NoFalseAlarm == error = "none"

(* README: "Unmapped accesses return DECERR".                              *)
UnmappedIsDecodeError ==
  \A p \in Port : \A i \in 1 .. Len(b_log[p] \o b[p]) :
    (\A a \in BurstBytes(plan[p].writes[i].payload) : Resolve(a) = NoMapping) =>
      (b_log[p] \o b[p])[i].response = "DECERR"

(* The simulation's exit code is that of an exit write whose response its  *)
(* master has taken, and not of a later write to the same register.        *)
ExitCodeIsAcknowledged ==
  exit_completed =>
    \E p \in Port : \E i \in 1 .. Len(b_log[p]) :
      /\ b_log[p][i].response = "OKAY"
      /\ exit_code # NoCode
      /\ \A o \in DOMAIN exit_code : \E lane \in Lanes :
           exit_code[o] = Tag(epoch, p, i, 0, lane)

(* Every plan of legal transactions is carried out: no write waits for a   *)
(* response, no read for a beat, whatever the other ports do.              *)
Completed ==
  \A p \in Port :
    /\ Len(b_log[p]) = Len(plan[p].writes)
    /\ r_got[p] = BeatsThrough(plan[p].reads, Len(plan[p].reads))

EverythingCompletes == <>Completed
=============================================================================
