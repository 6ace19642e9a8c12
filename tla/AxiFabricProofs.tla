---------------------------- MODULE AxiFabricProofs ----------------------------
(***************************************************************************)
(* The fabric keeps its promises for every number of ports, every depth of *)
(* the rings, every address map and every payload.                         *)
(***************************************************************************)
EXTENDS AxiFabric, BurstCursorProofs, FiniteSetTheorems, TLAPS

-----------------------------------------------------------------------------
(* Sequences, and functions from ports to sequences.                       *)
LEMMA AppendFacts ==
  ASSUME NEW S, NEW s \in Seq(S), NEW e \in S
  PROVE  /\ Append(s, e) \in Seq(S)
         /\ Len(Append(s, e)) = Len(s) + 1
         /\ DOMAIN Append(s, e) = 1 .. Len(s) + 1
         /\ \A i \in DOMAIN s : Append(s, e)[i] = s[i]
         /\ Append(s, e)[Len(s) + 1] = e
         /\ s # <<>> => Head(Append(s, e)) = Head(s)
OBVIOUS

LEMMA TailFacts ==
  ASSUME NEW S, NEW s \in Seq(S), s # <<>>
  PROVE  /\ Tail(s) \in Seq(S)
         /\ Head(s) \in S
         /\ Head(s) = s[1]
         /\ Len(s) \in Nat \ {0}
         /\ Len(Tail(s)) = Len(s) - 1
         /\ DOMAIN Tail(s) = 1 .. Len(s) - 1
         /\ \A i \in 1 .. Len(s) - 1 : Tail(s)[i] = s[i + 1] /\ i + 1 \in DOMAIN s
         /\ Tail(s) # <<>> => Head(Tail(s)) = s[2] /\ 2 \in DOMAIN s
OBVIOUS

LEMMA TailIsShorter ==
  ASSUME NEW S, NEW s \in Seq(S), s # <<>>
  PROVE  Tail(s) # s
<1> DEFINE before == Len(s)
           after == Len(Tail(s))
<1>1. before \in Nat /\ after = before - 1
  BY TailFacts
<1> HIDE DEF before, after
<1>2. after # before
  BY <1>1
<1> QED BY <1>2, Zenon DEF before, after

LEMMA FrontFacts ==
  ASSUME NEW S, NEW s \in Seq(S), s # <<>>, NEW e \in S
  PROVE  /\ [s EXCEPT ![1] = e] \in Seq(S)
         /\ Len([s EXCEPT ![1] = e]) = Len(s)
         /\ DOMAIN [s EXCEPT ![1] = e] = DOMAIN s
         /\ [s EXCEPT ![1] = e] # <<>>
         /\ Head([s EXCEPT ![1] = e]) = e
         /\ [s EXCEPT ![1] = e][1] = e
         /\ \A i \in DOMAIN s : i # 1 => [s EXCEPT ![1] = e][i] = s[i]
         /\ 1 \in DOMAIN s
<1>1. 1 \in DOMAIN s
  OBVIOUS
<1> DEFINE t == [s EXCEPT ![1] = e]
<1>2. t \in Seq(S) /\ Len(t) = Len(s) /\ DOMAIN t = DOMAIN s
  OBVIOUS
<1>3. t[1] = e /\ \A i \in DOMAIN s : i # 1 => t[i] = s[i]
  BY <1>1
<1>4. t # <<>>
  BY <1>1, <1>2
<1>5. Head(t) = e
  BY <1>2, <1>3, <1>4
<1> QED BY <1>1, <1>2, <1>3, <1>4, <1>5

LEMMA EmptyFacts ==
  ASSUME NEW S
  PROVE  <<>> \in Seq(S) /\ Len(<<>>) = 0
OBVIOUS

-----------------------------------------------------------------------------
(* Payloads, responses and routes.                                         *)
LEMMA Depths ==
  /\ AddressDepth \in Nat /\ WriteDataDepth \in Nat
  /\ ResponseDepth \in Nat /\ RouteDepth \in Nat
  /\ NumPorts \in Nat \ {0} /\ Port \subseteq Nat
BY FabricAssumption DEF Port

LEMMA PayloadFacts ==
  ASSUME NEW p \in AddressPayload
  PROVE  /\ IsPayload(p)
         /\ p.lock \in BOOLEAN
         /\ p.id \in Id
         /\ Beats(p) \in Nat \ {0}
         /\ Beats(p) = p.length + 1
         /\ p.length \in Nat
<1>1. IsPayload(p) /\ p.lock \in BOOLEAN /\ p.id \in Id
  BY FabricAssumption DEF IsPayload, Id
<1> QED BY <1>1, BeatsPositive DEF Beats, IsPayload

LEMMA ResponseFacts ==
  /\ \A x, y \in Response : CombineResponse(x, y) \in Response
  /\ \A d, o, n : ReadResponse(d, o, n) \in Response
  /\ \A d \in Device : \A o, n, s : WriteResponse(d, o, n, s) \in Response
<1>1. \A x, y \in Response : CombineResponse(x, y) \in Response
  BY DEF CombineResponse, Response
<1>2. \A d, o, n : ReadResponse(d, o, n) \in Response
  BY DEF ReadResponse, Response
<1>3. ASSUME NEW d \in Device, NEW o, NEW n, NEW s
      PROVE  WriteResponse(d, o, n, s) \in Response
  <2>1. Kind[d] \in {"ram", "rom", "exit"}
    BY AddressSpaceAssumption
  <2> QED BY <2>1 DEF WriteResponse, RamWriteResponse, RomWriteResponse, ExitWriteResponse,
                      Response
<1> QED BY <1>1, <1>2, <1>3

LEMMA NoMappingIsNone ==
  NoMapping \notin Mappings
BY AddressSpaceAssumption DEF NoMapping

(* A byte that resolves to a mapping lies in it.                           *)
LEMMA ResolveFacts ==
  ASSUME NEW a, NEW m \in Mappings, Resolve(a) = m
  PROVE  m.base <= a /\ a < End(m)
BY NoMappingIsNone DEF Resolve

LEMMA RouteMappingFacts ==
  ASSUME NEW p
  PROVE  /\ RouteMapping(p) \in MappingOrNone
         /\ RouteMapping(p) # NoMapping =>
              /\ RouteMapping(p) \in Mappings
              /\ \A a \in BurstBytes(p) : /\ RouteMapping(p).base <= a
                                          /\ a < End(RouteMapping(p))
<1> DEFINE m == RouteMapping(p)
<1>1. m = NoMapping \/ (m \in Mappings /\ HoldsBurst(m, p))
  BY DEF RouteMapping
<1>2. ASSUME m \in Mappings, HoldsBurst(m, p), NEW a \in BurstBytes(p)
      PROVE  m.base <= a /\ a < End(m)
  BY <1>2, ResolveFacts DEF HoldsBurst
<1> HIDE DEF m
<1> QED BY <1>1, <1>2 DEF MappingOrNone, m

LEMMA ForcedResponseFacts ==
  ASSUME NEW p \in AddressPayload, NEW m \in MappingOrNone
  PROVE  /\ ForcedResponse(p, m) \in Response
         /\ ForcedResponse(p, m) = "OKAY" => m # NoMapping
BY PayloadFacts DEF ForcedResponse, Response

LEMMA RouteForFacts ==
  ASSUME NEW port \in Port, NEW p \in AddressPayload
  PROVE  /\ WriteRouteFor(port, p) \in WriteRoute
         /\ ReadRouteFor(port, p) \in ReadRoute
         /\ RouteInside(WriteRouteFor(port, p))
         /\ RouteInside(ReadRouteFor(port, p))
         /\ WriteRouteFor(port, p).staged = <<>>
         /\ WriteRouteFor(port, p).commit_beat = 0
         /\ WriteRouteFor(port, p).payload = p
         /\ ReadRouteFor(port, p).beat = 0
         /\ ReadRouteFor(port, p).payload = p
<1>1. RouteMapping(p) \in MappingOrNone
  BY RouteMappingFacts
<1>2. ForcedResponse(p, RouteMapping(p)) \in Response
  BY <1>1, ForcedResponseFacts
<1>3. WriteRouteFor(port, p) \in WriteRoute /\ ReadRouteFor(port, p) \in ReadRoute
  BY <1>1, <1>2 DEF WriteRouteFor, ReadRouteFor, WriteRoute, ReadRoute, Code, NoCode,
                    Response
<1>4. RouteInside(WriteRouteFor(port, p)) /\ RouteInside(ReadRouteFor(port, p))
  BY <1>1, ForcedResponseFacts, RouteMappingFacts
     DEF WriteRouteFor, ReadRouteFor, RouteInside
<1> QED BY <1>3, <1>4 DEF WriteRouteFor, ReadRouteFor

-----------------------------------------------------------------------------
(* The inductive invariant.  Beside the promises themselves it says that a *)
(* read route has a beat left and that the monitor table is finite.        *)
ReadsHaveBeatsLeft ==
  \A i \in DOMAIN read_routes : read_routes[i].beat < Beats(read_routes[i].payload)

IInv ==
  /\ TypeOK
  /\ NoRingOverflows
  /\ RoutesStayInTheirMapping
  /\ DevicesSeeValidatedBursts
  /\ OnlyFrontWriteHasData
  /\ BurstCommitIsAtomic
  /\ OneMonitorPerMaster
  /\ IsFiniteSet(monitors)
  /\ ReadsHaveBeatsLeft

(* The conjuncts on the routes and monitors follow the variables they      *)
(* mention.                                                                *)
LEMMA RoutesUnchanged ==
  ASSUME IInv, UNCHANGED <<write_routes, read_routes, monitors>>
  PROVE  /\ RoutesStayInTheirMapping'
         /\ OnlyFrontWriteHasData'
         /\ OneMonitorPerMaster'
         /\ IsFiniteSet(monitors)'
         /\ ReadsHaveBeatsLeft'
         /\ (\A p \in Port : Len(b'[p]) <= Len(b[p])) /\ TypeOK' => DevicesSeeValidatedBursts'
<1>1. RoutesStayInTheirMapping'
  BY DEF IInv, RoutesStayInTheirMapping, RouteInside
<1>2. OnlyFrontWriteHasData'
  BY DEF IInv, OnlyFrontWriteHasData
<1>3. OneMonitorPerMaster' /\ IsFiniteSet(monitors)'
  BY DEF IInv, OneMonitorPerMaster
<1>4. ReadsHaveBeatsLeft'
  BY DEF IInv, ReadsHaveBeatsLeft
<1>5. ASSUME \A p \in Port : Len(b'[p]) <= Len(b[p]), TypeOK', NEW i \in DOMAIN write_routes
      PROVE  ValidatedRoute(write_routes[i])'
  <2>1. ValidatedRoute(write_routes[i]) /\ write_routes[i] \in WriteRoute
    <3>1. ValidatedRoute(write_routes[i])
      BY DEF IInv, DevicesSeeValidatedBursts
    <3>2. write_routes \in Seq(WriteRoute)
      BY DEF IInv, TypeOK
    <3>3. write_routes[i] \in WriteRoute
      BY <3>2
    <3> QED BY <3>1, <3>3
  <2>2. write_routes[i].port \in Port
    BY <2>1 DEF WriteRoute
  <2>3. Len(b'[write_routes[i].port]) <= Len(b[write_routes[i].port])
    BY <1>5, <2>2
  <2>4. /\ Len(b'[write_routes[i].port]) \in Nat
        /\ Len(b[write_routes[i].port]) \in Nat
    <3>1. b \in [Port -> Seq(WriteResponseBeat)] /\ b' \in [Port -> Seq(WriteResponseBeat)]
      BY <1>5 DEF IInv, TypeOK
    <3> QED BY <2>2, <3>1
  <2>5. Len(b[write_routes[i].port]) < ResponseDepth => Len(b'[write_routes[i].port]) < ResponseDepth
    BY <2>3, <2>4, Depths
  <2> QED BY <2>1, <2>5 DEF ValidatedRoute, DataComplete
<1> QED BY <1>1, <1>2, <1>3, <1>4, <1>5 DEF DevicesSeeValidatedBursts

LEMMA FrontWriteFacts ==
  ASSUME IInv, write_routes # <<>>
  PROVE  LET route == Head(write_routes)
         IN  /\ route \in WriteRoute
             /\ route.port \in Port
             /\ route.payload \in AddressPayload
             /\ route.staged \in Seq(WriteBeat)
             /\ route.commit_beat \in Nat
             /\ ValidatedRoute(route)
             /\ RouteInside(route)
<1>1. write_routes \in Seq(WriteRoute)
  BY DEF IInv, TypeOK
<1>2. 1 \in DOMAIN write_routes /\ Head(write_routes) = write_routes[1]
      /\ Head(write_routes) \in WriteRoute
  BY <1>1
<1> QED BY <1>2 DEF IInv, DevicesSeeValidatedBursts, RoutesStayInTheirMapping, WriteRoute

LEMMA FrontReadFacts ==
  ASSUME IInv, read_routes # <<>>
  PROVE  LET route == Head(read_routes)
         IN  /\ route \in ReadRoute
             /\ route.port \in Port
             /\ route.payload \in AddressPayload
             /\ route.beat \in Nat
             /\ route.beat < Beats(route.payload)
             /\ RouteInside(route)
<1>1. read_routes \in Seq(ReadRoute)
  BY DEF IInv, TypeOK
<1>2. 1 \in DOMAIN read_routes /\ Head(read_routes) = read_routes[1]
      /\ Head(read_routes) \in ReadRoute
  BY <1>1
<1> QED BY <1>2 DEF IInv, ReadsHaveBeatsLeft, RoutesStayInTheirMapping, ReadRoute

(* A ring that takes a payload only while it is not full.                  *)
LEMMA AcceptedFacts ==
  ASSUME NEW S, NEW ring \in Seq(S), NEW depth \in Nat, Len(ring) <= depth,
         NEW valid \in BOOLEAN, NEW ready \in BOOLEAN, ready => Len(ring) # depth, NEW e \in S
  PROVE  /\ Accepted(ring, valid, ready, e) \in Seq(S)
         /\ Len(Accepted(ring, valid, ready, e)) <= depth
         /\ Watched(valid, ready, e) \in Seq(S)
BY DEF Accepted, Watched

LEMMA RetiredFacts ==
  ASSUME NEW S, NEW ring \in Seq(S), NEW ready \in BOOLEAN
  PROVE  /\ Retired(ring, ready) \in Seq(S)
         /\ Len(Retired(ring, ready)) <= Len(ring)
BY DEF Retired

LEMMA IngressKeepsIInv ==
  ASSUME IInv, NEW in \in [Port -> MasterSignals], NEW allow \in [Port -> Allow],
         Ingress(in, allow)
  PROVE  IInv'
<1>1. ASSUME NEW p \in Port
      PROVE  /\ in[p].aw_valid \in BOOLEAN /\ in[p].aw \in AddressPayload
             /\ in[p].w_valid \in BOOLEAN /\ in[p].w \in WriteBeat
             /\ in[p].ar_valid \in BOOLEAN /\ in[p].ar \in AddressPayload
             /\ in[p].b_ready \in BOOLEAN /\ in[p].r_ready \in BOOLEAN
             /\ AwReady(p, allow) \in BOOLEAN /\ (AwReady(p, allow) => Len(aw[p]) # AddressDepth)
             /\ WReady(p, allow) \in BOOLEAN /\ (WReady(p, allow) => Len(w[p]) # WriteDataDepth)
             /\ ArReady(p, allow) \in BOOLEAN /\ (ArReady(p, allow) => Len(ar[p]) # AddressDepth)
  BY <1>1 DEF MasterSignals, Allow, AwReady, WReady, ArReady
<1>2. ASSUME NEW p \in Port
      PROVE  /\ aw[p] \in Seq(AddressPayload) /\ Len(aw[p]) <= AddressDepth
             /\ w[p] \in Seq(WriteBeat) /\ Len(w[p]) <= WriteDataDepth
             /\ ar[p] \in Seq(AddressPayload) /\ Len(ar[p]) <= AddressDepth
             /\ b[p] \in Seq(WriteResponseBeat) /\ Len(b[p]) <= ResponseDepth
             /\ r[p] \in Seq(ReadBeat) /\ Len(r[p]) <= ResponseDepth
  BY <1>2 DEF IInv, TypeOK, NoRingOverflows
<1>3. /\ aw' \in [Port -> Seq(AddressPayload)] /\ aw_watch' \in [Port -> Seq(AddressPayload)]
      /\ \A p \in Port : Len(aw'[p]) <= AddressDepth
  <2>1. ASSUME NEW p \in Port
        PROVE  /\ Accepted(aw[p], in[p].aw_valid, AwReady(p, allow), in[p].aw) \in Seq(AddressPayload)
               /\ Len(Accepted(aw[p], in[p].aw_valid, AwReady(p, allow), in[p].aw)) <= AddressDepth
               /\ Watched(in[p].aw_valid, AwReady(p, allow), in[p].aw) \in Seq(AddressPayload)
    <3>1. /\ in[p].aw_valid \in BOOLEAN /\ in[p].aw \in AddressPayload
          /\ AwReady(p, allow) \in BOOLEAN /\ (AwReady(p, allow) => Len(aw[p]) # AddressDepth)
          /\ aw[p] \in Seq(AddressPayload) /\ Len(aw[p]) <= AddressDepth
      BY <1>1, <1>2, <2>1
    <3> QED BY <3>1, AcceptedFacts, Depths
  <2> QED BY <2>1 DEF Ingress, AcceptIngress, WatchIngress
<1>4. /\ w' \in [Port -> Seq(WriteBeat)] /\ w_watch' \in [Port -> Seq(WriteBeat)]
      /\ \A p \in Port : Len(w'[p]) <= WriteDataDepth
  <2>1. ASSUME NEW p \in Port
        PROVE  /\ Accepted(w[p], in[p].w_valid, WReady(p, allow), in[p].w) \in Seq(WriteBeat)
               /\ Len(Accepted(w[p], in[p].w_valid, WReady(p, allow), in[p].w)) <= WriteDataDepth
               /\ Watched(in[p].w_valid, WReady(p, allow), in[p].w) \in Seq(WriteBeat)
    <3>1. /\ in[p].w_valid \in BOOLEAN /\ in[p].w \in WriteBeat
          /\ WReady(p, allow) \in BOOLEAN /\ (WReady(p, allow) => Len(w[p]) # WriteDataDepth)
          /\ w[p] \in Seq(WriteBeat) /\ Len(w[p]) <= WriteDataDepth
      BY <1>1, <1>2, <2>1
    <3> QED BY <3>1, AcceptedFacts, Depths
  <2> QED BY <2>1 DEF Ingress, AcceptIngress, WatchIngress
<1>5. /\ ar' \in [Port -> Seq(AddressPayload)] /\ ar_watch' \in [Port -> Seq(AddressPayload)]
      /\ \A p \in Port : Len(ar'[p]) <= AddressDepth
  <2>1. ASSUME NEW p \in Port
        PROVE  /\ Accepted(ar[p], in[p].ar_valid, ArReady(p, allow), in[p].ar) \in Seq(AddressPayload)
               /\ Len(Accepted(ar[p], in[p].ar_valid, ArReady(p, allow), in[p].ar)) <= AddressDepth
               /\ Watched(in[p].ar_valid, ArReady(p, allow), in[p].ar) \in Seq(AddressPayload)
    <3>1. /\ in[p].ar_valid \in BOOLEAN /\ in[p].ar \in AddressPayload
          /\ ArReady(p, allow) \in BOOLEAN /\ (ArReady(p, allow) => Len(ar[p]) # AddressDepth)
          /\ ar[p] \in Seq(AddressPayload) /\ Len(ar[p]) <= AddressDepth
      BY <1>1, <1>2, <2>1
    <3> QED BY <3>1, AcceptedFacts, Depths
  <2> QED BY <2>1 DEF Ingress, AcceptIngress, WatchIngress
<1>6. /\ b' \in [Port -> Seq(WriteResponseBeat)]
      /\ \A p \in Port : Len(b'[p]) <= Len(b[p])
  BY <1>1, <1>2, RetiredFacts DEF Ingress, RetireResponses
<1>7. /\ r' \in [Port -> Seq(ReadBeat)]
      /\ \A p \in Port : Len(r'[p]) <= Len(r[p])
  BY <1>1, <1>2, RetiredFacts DEF Ingress, RetireResponses
<1>8. exit_completed' \in BOOLEAN /\ exit_code' \in Code
  <2>1. CASE ~exit_completed /\ TakesExit(in) # {}
    <3> DEFINE p == Min(TakesExit(in))
    <3>1. TakesExit(in) \in SUBSET Nat
      BY FabricAssumption DEF TakesExit, Port
    <3>2. p \in TakesExit(in)
      BY <2>1, <3>1, MinOfNaturals
    <3> HIDE DEF p
    <3>3. p \in Port /\ b[p] # <<>>
      BY <3>2 DEF TakesExit
    <3>4. Head(b[p]) \in WriteResponseBeat
      BY <1>2, <3>3, TailFacts
    <3>5. ExitCodeOf(p) \in Code
      BY <3>4 DEF ExitCodeOf, WriteResponseBeat
    <3> QED BY <2>1, <3>5 DEF Ingress, RetireResponses, p
  <2>2. CASE ~(~exit_completed /\ TakesExit(in) # {})
    BY <2>2 DEF Ingress, RetireResponses, exitVars, IInv, TypeOK
  <2> QED BY <2>1, <2>2
<1>9. TypeOK'
  BY <1>3, <1>4, <1>5, <1>6, <1>7, <1>8 DEF Ingress, routeVars, IInv, TypeOK
<1>10. NoRingOverflows'
  <2>1. \A p \in Port : /\ Len(b[p]) \in Nat /\ Len(b'[p]) \in Nat
                        /\ Len(r[p]) \in Nat /\ Len(r'[p]) \in Nat
    BY <1>2, <1>6, <1>7
  <2>2. \A p \in Port : Len(b'[p]) <= ResponseDepth /\ Len(r'[p]) <= ResponseDepth
    BY <1>2, <1>6, <1>7, <2>1, Depths
  <2> QED BY <1>3, <1>4, <1>5, <2>2 DEF Ingress, routeVars, IInv, NoRingOverflows
<1>11. UNCHANGED <<write_routes, read_routes, monitors>> /\ phase' = "arbitrate"
  BY DEF Ingress, routeVars
<1> QED BY <1>6, <1>9, <1>10, <1>11, RoutesUnchanged DEF IInv, BurstCommitIsAtomic

(* The steps that throw, that have nothing to do, or that only touch the   *)
(* exit flag.                                                              *)
LEMMA QuietStepKeepsIInv ==
  ASSUME IInv,
         UNCHANGED <<aw, w, ar, b, r, aw_watch, w_watch, ar_watch, write_routes, read_routes,
                     monitors, next_aw_port, next_ar_port, memory>>,
         phase' \in {"ingress", "arbitrate", "write", "read"},
         phase' = "read" => phase = "read" \/ (Running("write") /\ NoWriteBeat),
         error' \in {"none", "stability", "address", "write_data", "monitors"},
         exit_completed' \in BOOLEAN, exit_code' \in Code, was_reset' \in BOOLEAN
  PROVE  IInv'
<1>1. TypeOK'
  BY DEF IInv, TypeOK
<1>2. NoRingOverflows'
  BY DEF IInv, NoRingOverflows
<1>3. \A p \in Port : Len(b'[p]) <= Len(b[p])
  <2>1. b \in [Port -> Seq(WriteResponseBeat)]
    BY DEF IInv, TypeOK
  <2> QED BY <2>1
<1>4. BurstCommitIsAtomic'
  <2>1. ASSUME Running("write"), NoWriteBeat, write_routes # <<>>
        PROVE  Head(write_routes).commit_beat = 0
    <3>1. ValidatedRoute(Head(write_routes)) /\ Head(write_routes).commit_beat \in Nat
      BY <2>1, FrontWriteFacts
    <3> QED BY <2>1, <3>1 DEF NoWriteBeat, ValidatedRoute
  <2> QED BY <2>1 DEF IInv, BurstCommitIsAtomic
<1> QED BY <1>1, <1>2, <1>3, <1>4, RoutesUnchanged DEF IInv

LEMMA UnstableMasterKeepsIInv ==
  ASSUME IInv, NEW in \in [Port -> MasterSignals], UnstableMaster(in)
  PROVE  IInv'
BY QuietStepKeepsIInv
   DEF UnstableMaster, IInv, TypeOK, ingressVars, routeVars, exitVars

LEMMA WriteIdleKeepsIInv ==
  ASSUME IInv, WriteIdle
  PROVE  IInv'
BY QuietStepKeepsIInv DEF WriteIdle, WriteFrame, IInv, TypeOK, exitVars

LEMMA RejectWriteBeatKeepsIInv ==
  ASSUME IInv, RejectWriteBeat
  PROVE  IInv'
BY QuietStepKeepsIInv
   DEF RejectWriteBeat, IInv, TypeOK, ingressVars, routeVars, exitVars

LEMMA ReadIdleKeepsIInv ==
  ASSUME IInv, ReadIdle
  PROVE  IInv'
BY QuietStepKeepsIInv DEF ReadIdle, ReadFrame, IInv, TypeOK, ingressVars, exitVars

LEMMA RejectExclusiveReadKeepsIInv ==
  ASSUME IInv, RejectExclusiveRead
  PROVE  IInv'
BY QuietStepKeepsIInv DEF RejectExclusiveRead, ReadFrame, IInv, TypeOK, ingressVars, exitVars

LEMMA ClearExitCompletedKeepsIInv ==
  ASSUME IInv, ClearExitCompleted
  PROVE  IInv'
BY QuietStepKeepsIInv
   DEF ClearExitCompleted, IInv, TypeOK, ingressVars, routeVars, Code, NoCode

(* What a reset leaves behind; the initial state is one of these states.   *)
EmptyFabric ==
  /\ aw = [p \in Port |-> <<>>] /\ w = [p \in Port |-> <<>>] /\ ar = [p \in Port |-> <<>>]
  /\ b = [p \in Port |-> <<>>] /\ r = [p \in Port |-> <<>>]
  /\ aw_watch = [p \in Port |-> <<>>]
  /\ w_watch = [p \in Port |-> <<>>]
  /\ ar_watch = [p \in Port |-> <<>>]
  /\ write_routes = <<>> /\ read_routes = <<>> /\ monitors = {}
  /\ next_aw_port = 0 /\ next_ar_port = 0
  /\ exit_completed = FALSE /\ exit_code = NoCode
  /\ phase = "ingress" /\ error = "none" /\ was_reset \in BOOLEAN
  /\ memory \in [Device -> AnyContents]
  /\ \A d \in Device : memory[d] \in Contents(d)

LEMMA EmptyFabricHasIInv ==
  EmptyFabric => IInv
<1> SUFFICES ASSUME EmptyFabric PROVE IInv
  OBVIOUS
<1>1. 0 \in Port
  BY FabricAssumption DEF Port
<1>2. TypeOK
  BY <1>1, EmptyFacts DEF EmptyFabric, TypeOK, Code
<1>3. NoRingOverflows
  BY EmptyFacts, Depths DEF EmptyFabric, NoRingOverflows
<1>4. IsFiniteSet(monitors) /\ Cardinality(monitors) = 0
  BY FS_EmptySet DEF EmptyFabric
<1>5. OneMonitorPerMaster
  BY <1>4, Depths DEF EmptyFabric, OneMonitorPerMaster
<1>6. /\ write_routes = <<>> /\ read_routes = <<>> /\ phase = "ingress"
      /\ DOMAIN write_routes = {} /\ DOMAIN read_routes = {}
  BY EmptyFacts DEF EmptyFabric
<1>7. RoutesStayInTheirMapping
  BY <1>6 DEF RoutesStayInTheirMapping
<1>8. DevicesSeeValidatedBursts /\ OnlyFrontWriteHasData
  BY <1>6 DEF DevicesSeeValidatedBursts, OnlyFrontWriteHasData
<1>9. BurstCommitIsAtomic /\ ReadsHaveBeatsLeft
  BY <1>6 DEF BurstCommitIsAtomic, ReadsHaveBeatsLeft
<1> QED BY <1>2, <1>3, <1>4, <1>5, <1>7, <1>8, <1>9 DEF IInv

LEMMA InitHasIInv ==
  Init => IInv
<1> SUFFICES ASSUME Init PROVE EmptyFabric
  BY EmptyFabricHasIInv
<1>1. \A d \in Device : [o \in 0 .. Capacity[d] - 1 |-> Zero] \in Contents(d)
  BY AddressSpaceAssumption DEF Contents
<1> QED BY <1>1 DEF Init, EmptyFabric, AnyContents

LEMMA ResetCycleKeepsIInv ==
  ASSUME IInv, ResetCycle
  PROVE  IInv'
<1>1. \A d \in Device : ResetDevices(memory)[d] \in Contents(d)
  BY AddressSpaceAssumption DEF ResetDevices, IInv, TypeOK, Contents
<1>2. ResetDevices(memory) \in [Device -> AnyContents]
  BY <1>1 DEF ResetDevices, AnyContents
<1>3. EmptyFabric'
  BY <1>1, <1>2 DEF ResetCycle, ResetState, ResetAddresses, ResetWriteData, ResetResponses,
                    ResetWatches, ResetMonitors, EmptyFabric, Running, IInv, TypeOK
<1> QED BY <1>3, EmptyFabricHasIInv, PTL

-----------------------------------------------------------------------------
(* Round robin.                                                            *)
LEMMA OffsetFacts ==
  ASSUME NEW p \in Port, NEW next \in Port
  PROVE  /\ Offset(p, next) \in Nat
         /\ p >= next => Offset(p, next) = p - next
         /\ p < next => Offset(p, next) = p + NumPorts - next
<1>1. p \in 0 .. NumPorts - 1 /\ next \in 0 .. NumPorts - 1 /\ NumPorts \in Nat \ {0}
  BY FabricAssumption DEF Port
<1>2. ASSUME NEW x \in 0 .. 2 * NumPorts - 1
      PROVE  x % NumPorts = IF x < NumPorts THEN x ELSE x - NumPorts
  BY <1>1, SMTT(30)
<1>3. p + NumPorts - next \in 0 .. 2 * NumPorts - 1
  BY <1>1
<1> QED BY <1>1, <1>2, <1>3 DEF Offset

LEMMA GrantedFacts ==
  ASSUME NEW rings, NEW next \in Port, Waiting(rings) # {}
  PROVE  /\ Granted(rings, next) \in Port
         /\ rings[Granted(rings, next)] # <<>>
         /\ \A q \in Waiting(rings) : Offset(Granted(rings, next), next) <= Offset(q, next)
<1> DEFINE T == {Offset(q, next) : q \in Waiting(rings)}
<1>1. T \in SUBSET Nat /\ T # {}
  <2>1. \A q \in Waiting(rings) : Offset(q, next) \in Nat
    BY OffsetFacts DEF Waiting
  <2> QED BY <2>1, Zenon
<1>2. PICK t \in T : \A y \in T : t <= y
  BY <1>1, LeastNatural
<1>3. \E q \in Waiting(rings) : \A x \in Waiting(rings) : Offset(q, next) <= Offset(x, next)
  BY <1>2, Zenon
<1>4. /\ Granted(rings, next) \in Waiting(rings)
      /\ \A q \in Waiting(rings) : Offset(Granted(rings, next), next) <= Offset(q, next)
  BY <1>3, Zenon DEF Granted
<1> QED BY <1>4 DEF Waiting

LEMMA AfterGrantFacts ==
  ASSUME NEW p \in Port
  PROVE  /\ AfterGrant(p) \in Port
         /\ AfterGrant(p) = IF p + 1 = NumPorts THEN 0 ELSE p + 1
BY FabricAssumption DEF AfterGrant, Port

LEMMA ArbitrateAwFacts ==
  ASSUME IInv, ArbitrateAw, UNCHANGED b
  PROVE  /\ aw' \in [Port -> Seq(AddressPayload)]
         /\ \A p \in Port : Len(aw'[p]) <= AddressDepth
         /\ write_routes' \in Seq(WriteRoute)
         /\ Len(write_routes') <= RouteDepth
         /\ next_aw_port' \in Port
         /\ \A i \in DOMAIN write_routes' : RouteInside(write_routes'[i])
         /\ DevicesSeeValidatedBursts'
         /\ OnlyFrontWriteHasData'
<1> DEFINE p == Granted(aw, next_aw_port)
           route == WriteRouteFor(p, Head(aw[p]))
<1>1. /\ aw \in [Port -> Seq(AddressPayload)] /\ write_routes \in Seq(WriteRoute)
      /\ next_aw_port \in Port
  BY DEF IInv, TypeOK
<1>2. /\ \A q \in Port : Len(aw[q]) <= AddressDepth
      /\ Len(write_routes) <= RouteDepth
      /\ \A i \in DOMAIN write_routes : RouteInside(write_routes[i])
  BY DEF IInv, NoRingOverflows, RoutesStayInTheirMapping
<1>3. CASE ~GrantsAw
  <2>1. UNCHANGED <<aw, write_routes, next_aw_port>>
    BY <1>3 DEF ArbitrateAw
  <2>2. DevicesSeeValidatedBursts'
    BY <2>1 DEF IInv, DevicesSeeValidatedBursts, ValidatedRoute, DataComplete
  <2>3. OnlyFrontWriteHasData'
    BY <2>1 DEF IInv, OnlyFrontWriteHasData
  <2> QED BY <1>1, <1>2, <2>1, <2>2, <2>3
<1>4. CASE GrantsAw
  <2>1. p \in Port /\ aw[p] # <<>>
    BY <1>1, <1>4, GrantedFacts DEF GrantsAw
  <2>2. /\ write_routes' = Append(write_routes, route)
        /\ aw' = [aw EXCEPT ![p] = Tail(@)]
        /\ next_aw_port' = AfterGrant(p)
    BY <1>4 DEF ArbitrateAw
  <2>3. Head(aw[p]) \in AddressPayload
    BY <1>1, <2>1
  <2> HIDE DEF p
  <2>4. /\ route \in WriteRoute /\ RouteInside(route)
        /\ route.staged = <<>> /\ route.commit_beat = 0
    BY <2>1, <2>3, RouteForFacts
  <2>5. Beats(route.payload) \in Nat \ {0}
    BY <2>1, <2>3, RouteForFacts, PayloadFacts
  <2> HIDE DEF route
  <2>6. aw' \in [Port -> Seq(AddressPayload)] /\ \A q \in Port : Len(aw'[q]) <= AddressDepth
    <3>1. Tail(aw[p]) \in Seq(AddressPayload) /\ Len(Tail(aw[p])) <= AddressDepth
      BY <1>1, <1>2, <2>1, TailFacts, Depths
    <3> QED BY <1>1, <1>2, <2>1, <2>2, <3>1
  <2>7. next_aw_port' \in Port
    BY <2>1, <2>2, AfterGrantFacts
  <2>8. write_routes' \in Seq(WriteRoute) /\ Len(write_routes') = Len(write_routes) + 1
    BY <1>1, <2>2, <2>4
  <2>9. Len(write_routes') <= RouteDepth
    BY <1>1, <1>2, <1>4, <2>8, Depths DEF GrantsAw
  <2>10. ASSUME NEW i \in DOMAIN write_routes'
         PROVE  write_routes'[i] = route \/ (i \in DOMAIN write_routes /\ write_routes'[i] = write_routes[i])
    BY <1>1, <2>2, <2>4, AppendFacts
  <2>11. \A i \in DOMAIN write_routes' : RouteInside(write_routes'[i])
    BY <1>2, <2>4, <2>10
  <2>12. ASSUME NEW i \in DOMAIN write_routes'
         PROVE  ValidatedRoute(write_routes[i])'
    <3>1. CASE write_routes'[i] = route
      BY <2>4, <2>5, <3>1, EmptyFacts DEF ValidatedRoute
    <3>2. CASE i \in DOMAIN write_routes /\ write_routes'[i] = write_routes[i]
      <4>1. ValidatedRoute(write_routes[i])
        BY <3>2 DEF IInv, DevicesSeeValidatedBursts
      <4> QED BY <3>2, <4>1 DEF ValidatedRoute, DataComplete
    <3> QED BY <2>10, <3>1, <3>2
  <2>13. ASSUME NEW i \in 2 .. Len(write_routes')
         PROVE  write_routes'[i].staged = <<>> /\ write_routes'[i].commit_beat = 0
    <3>1. i \in DOMAIN write_routes' /\ (i \in DOMAIN write_routes => i \in 2 .. Len(write_routes))
      BY <1>1, <2>8
    <3> QED BY <2>4, <2>10, <3>1 DEF IInv, OnlyFrontWriteHasData
  <2> QED BY <2>6, <2>7, <2>8, <2>9, <2>11, <2>12, <2>13
          DEF DevicesSeeValidatedBursts, OnlyFrontWriteHasData
<1> QED BY <1>3, <1>4

LEMMA ArbitrateArFacts ==
  ASSUME IInv, ArbitrateAr
  PROVE  /\ ar' \in [Port -> Seq(AddressPayload)]
         /\ \A p \in Port : Len(ar'[p]) <= AddressDepth
         /\ read_routes' \in Seq(ReadRoute)
         /\ Len(read_routes') <= RouteDepth
         /\ next_ar_port' \in Port
         /\ \A i \in DOMAIN read_routes' : RouteInside(read_routes'[i])
         /\ ReadsHaveBeatsLeft'
<1> DEFINE p == Granted(ar, next_ar_port)
           route == ReadRouteFor(p, Head(ar[p]))
<1>1. /\ ar \in [Port -> Seq(AddressPayload)] /\ read_routes \in Seq(ReadRoute)
      /\ next_ar_port \in Port
  BY DEF IInv, TypeOK
<1>2. /\ \A q \in Port : Len(ar[q]) <= AddressDepth
      /\ Len(read_routes) <= RouteDepth
      /\ \A i \in DOMAIN read_routes : RouteInside(read_routes[i])
  BY DEF IInv, NoRingOverflows, RoutesStayInTheirMapping
<1>3. CASE ~GrantsAr
  <2>1. UNCHANGED <<ar, read_routes, next_ar_port>>
    BY <1>3 DEF ArbitrateAr
  <2>2. ReadsHaveBeatsLeft'
    BY <2>1 DEF IInv, ReadsHaveBeatsLeft
  <2> QED BY <1>1, <1>2, <2>1, <2>2
<1>4. CASE GrantsAr
  <2>1. p \in Port /\ ar[p] # <<>>
    BY <1>1, <1>4, GrantedFacts DEF GrantsAr
  <2>2. /\ read_routes' = Append(read_routes, route)
        /\ ar' = [ar EXCEPT ![p] = Tail(@)]
        /\ next_ar_port' = AfterGrant(p)
    BY <1>4 DEF ArbitrateAr
  <2>3. Head(ar[p]) \in AddressPayload
    BY <1>1, <2>1
  <2> HIDE DEF p
  <2>4. route \in ReadRoute /\ RouteInside(route) /\ route.beat = 0
    BY <2>1, <2>3, RouteForFacts
  <2>5. Beats(route.payload) \in Nat \ {0}
    BY <2>1, <2>3, RouteForFacts, PayloadFacts
  <2> HIDE DEF route
  <2>6. ar' \in [Port -> Seq(AddressPayload)] /\ \A q \in Port : Len(ar'[q]) <= AddressDepth
    <3>1. Tail(ar[p]) \in Seq(AddressPayload) /\ Len(Tail(ar[p])) <= AddressDepth
      BY <1>1, <1>2, <2>1, TailFacts, Depths
    <3> QED BY <1>1, <1>2, <2>1, <2>2, <3>1
  <2>7. next_ar_port' \in Port
    BY <2>1, <2>2, AfterGrantFacts
  <2>8. read_routes' \in Seq(ReadRoute) /\ Len(read_routes') = Len(read_routes) + 1
    BY <1>1, <2>2, <2>4
  <2>9. Len(read_routes') <= RouteDepth
    BY <1>1, <1>2, <1>4, <2>8, Depths DEF GrantsAr
  <2>10. ASSUME NEW i \in DOMAIN read_routes'
         PROVE  read_routes'[i] = route \/ (i \in DOMAIN read_routes /\ read_routes'[i] = read_routes[i])
    BY <1>1, <2>2, <2>4, AppendFacts
  <2>11. \A i \in DOMAIN read_routes' : RouteInside(read_routes'[i])
    BY <1>2, <2>4, <2>10
  <2>12. ASSUME NEW i \in DOMAIN read_routes'
         PROVE  read_routes'[i].beat < Beats(read_routes'[i].payload)
    BY <2>4, <2>5, <2>10 DEF IInv, ReadsHaveBeatsLeft
  <2> QED BY <2>6, <2>7, <2>8, <2>9, <2>11, <2>12 DEF ReadsHaveBeatsLeft
<1> QED BY <1>3, <1>4

LEMMA ArbitrateAddressesKeepsIInv ==
  ASSUME IInv, ArbitrateAddresses
  PROVE  IInv'
<1>1. ArbitrateAw /\ ArbitrateAr /\ UNCHANGED b
  BY DEF ArbitrateAddresses
<1>2. TypeOK'
  BY <1>1, ArbitrateAwFacts, ArbitrateArFacts DEF ArbitrateAddresses, IInv, TypeOK, exitVars
<1>3. NoRingOverflows'
  BY <1>1, ArbitrateAwFacts, ArbitrateArFacts DEF ArbitrateAddresses, IInv, NoRingOverflows
<1>4. RoutesStayInTheirMapping'
  BY <1>1, ArbitrateAwFacts, ArbitrateArFacts DEF RoutesStayInTheirMapping
<1>5. OneMonitorPerMaster' /\ IsFiniteSet(monitors)'
  BY DEF ArbitrateAddresses, IInv, OneMonitorPerMaster
<1>6. BurstCommitIsAtomic'
  BY DEF ArbitrateAddresses, BurstCommitIsAtomic
<1> QED BY <1>1, <1>2, <1>3, <1>4, <1>5, <1>6, ArbitrateAwFacts, ArbitrateArFacts DEF IInv

LEMMA RejectAddressKeepsIInv ==
  ASSUME IInv, RejectAddress
  PROVE  IInv'
<1>1. CASE AwRoutable
  <2>1. ArbitrateAw /\ UNCHANGED b
    BY <1>1 DEF RejectAddress
  <2>2. TypeOK'
    BY <2>1, ArbitrateAwFacts DEF RejectAddress, IInv, TypeOK, exitVars
  <2>3. NoRingOverflows'
    BY <2>1, ArbitrateAwFacts DEF RejectAddress, IInv, NoRingOverflows
  <2>4. RoutesStayInTheirMapping'
    BY <2>1, ArbitrateAwFacts DEF RejectAddress, IInv, RoutesStayInTheirMapping
  <2>5. OneMonitorPerMaster' /\ IsFiniteSet(monitors)' /\ ReadsHaveBeatsLeft'
    BY DEF RejectAddress, IInv, OneMonitorPerMaster, ReadsHaveBeatsLeft
  <2>6. BurstCommitIsAtomic'
    BY DEF RejectAddress, BurstCommitIsAtomic, Running
  <2> QED BY <2>1, <2>2, <2>3, <2>4, <2>5, <2>6, ArbitrateAwFacts DEF IInv
<1>2. CASE ~AwRoutable
  BY <1>2, QuietStepKeepsIInv DEF RejectAddress, Running, IInv, TypeOK, exitVars
<1> QED BY <1>1, <1>2

-----------------------------------------------------------------------------
(* The front write route, and what replaces it.                            *)
LEMMA LoadedFacts ==
  ASSUME IInv, ~NoWriteBeat, ValidWriteBeat
  PROVE  /\ write_routes # <<>>
         /\ Loaded \in WriteRoute
         /\ Loaded.port \in Port
         /\ Loaded.payload \in AddressPayload
         /\ Loaded.mapping \in MappingOrNone
         /\ Loaded.staged \in Seq(WriteBeat)
         /\ Loaded.commit_beat \in Nat
         /\ Loaded.response \in Response
         /\ Loaded.forced_response \in Response
         /\ Loaded.exit \in Code
         /\ ValidatedRoute(Loaded)
         /\ RouteInside(Loaded)
<1> DEFINE route == Head(write_routes)
           beat == Head(w[route.port])
<1>1. write_routes # <<>> /\ (DataComplete(route) \/ w[route.port] # <<>>)
  BY DEF NoWriteBeat
<1>2. /\ route \in WriteRoute /\ route.port \in Port /\ route.payload \in AddressPayload
      /\ route.staged \in Seq(WriteBeat) /\ route.commit_beat \in Nat
      /\ ValidatedRoute(route) /\ RouteInside(route)
  BY <1>1, FrontWriteFacts
<1>3. Beats(route.payload) \in Nat
  BY <1>2, PayloadFacts
<1>4. CASE DataComplete(route)
  <2>1. Loaded = route
    BY <1>4 DEF Loaded
  <2> HIDE DEF route
  <2> QED BY <1>1, <1>2, <2>1 DEF WriteRoute
<1>5. CASE ~DataComplete(route)
  <2>1. w \in [Port -> Seq(WriteBeat)]
    BY DEF IInv, TypeOK
  <2>2. beat \in WriteBeat
    BY <1>1, <1>2, <1>5, <2>1
  <2>3. /\ beat.last = (Len(route.staged) + 1 = Beats(route.payload))
        /\ beat.strobe \subseteq LaneMask(route.payload, Len(route.staged))
    BY <1>5 DEF ValidWriteBeat
  <2>4. Loaded = [route EXCEPT !.staged = Append(@, beat)]
    BY <1>5 DEF Loaded
  <2> HIDE DEF route, beat
  <2> DEFINE staged == Append(route.staged, beat)
  <2>5. /\ Loaded \in WriteRoute
        /\ Loaded.staged = staged
        /\ Loaded.payload = route.payload /\ Loaded.commit_beat = route.commit_beat
        /\ Loaded.port = route.port /\ Loaded.mapping = route.mapping
        /\ Loaded.forced_response = route.forced_response
    BY <1>2, <2>2, <2>4, AppendFacts DEF WriteRoute
  <2>6. RouteInside(Loaded)
    BY <1>2, <2>5 DEF RouteInside
  <2>7. Len(route.staged) < Beats(route.payload) /\ Len(route.staged) \in Nat
    <3>1. Len(route.staged) \in Nat
      BY <1>2
    <3>2. Len(route.staged) <= Beats(route.payload) /\ Len(route.staged) # Beats(route.payload)
      BY <1>2, <1>5 DEF ValidatedRoute, DataComplete
    <3> QED BY <1>3, <3>1, <3>2
  <2>8. Len(staged) <= Beats(route.payload)
    BY <1>2, <1>3, <2>2, <2>7, AppendFacts
  <2>9. route.commit_beat = 0
    BY <1>2, <1>5 DEF ValidatedRoute
  <2>10. ASSUME NEW i \in DOMAIN staged
         PROVE  /\ staged[i].last = (i = Beats(route.payload))
                /\ staged[i].strobe \subseteq LaneMask(route.payload, i - 1)
    <3>1. /\ i \in 1 .. Len(route.staged) + 1
          /\ DOMAIN route.staged = 1 .. Len(route.staged)
          /\ \A j \in DOMAIN route.staged : staged[j] = route.staged[j]
          /\ staged[Len(route.staged) + 1] = beat
      <4>1. route.staged \in Seq(WriteBeat)
        BY <1>2
      <4>2. DOMAIN staged = 1 .. Len(route.staged) + 1
        BY <2>2, <4>1, AppendFacts
      <4>3. /\ \A j \in DOMAIN route.staged : staged[j] = route.staged[j]
            /\ staged[Len(route.staged) + 1] = beat
        BY <2>2, <4>1, AppendFacts
      <4> QED BY <2>10, <4>1, <4>2, <4>3
    <3>2. CASE i \in DOMAIN route.staged
      BY <1>2, <3>1, <3>2 DEF ValidatedRoute
    <3>3. CASE i = Len(route.staged) + 1
      <4>1. i - 1 = Len(route.staged)
        BY <2>7, <3>3
      <4> QED BY <2>3, <3>1, <3>3, <4>1
    <3>4. i \in DOMAIN route.staged \/ i = Len(route.staged) + 1
      BY <2>7, <3>1
    <3> QED BY <3>2, <3>3, <3>4
  <2> HIDE DEF staged
  <2>11. ValidatedRoute(Loaded)
    <3>1. 0 < Beats(route.payload)
      BY <1>2, <2>9 DEF ValidatedRoute
    <3>2. ~(0 > 0)
      OBVIOUS
    <3> QED BY <2>5, <2>8, <2>9, <2>10, <3>1, <3>2 DEF ValidatedRoute
  <2> QED BY <1>1, <2>5, <2>6, <2>11 DEF WriteRoute
<1> QED BY <1>4, <1>5

LEMMA TakeWriteBeatFacts ==
  ASSUME IInv, ~NoWriteBeat, TakeWriteBeat
  PROVE  w' \in [Port -> Seq(WriteBeat)] /\ \A p \in Port : Len(w'[p]) <= WriteDataDepth
<1> DEFINE route == Head(write_routes)
<1>1. write_routes # <<>> /\ (DataComplete(route) \/ w[route.port] # <<>>)
  BY DEF NoWriteBeat
<1>2. route.port \in Port
  BY <1>1, FrontWriteFacts
<1>3. w' = IF DataComplete(route) THEN w ELSE [w EXCEPT ![route.port] = Tail(@)]
  BY DEF TakeWriteBeat
<1> HIDE DEF route
<1>4. w \in [Port -> Seq(WriteBeat)] /\ \A p \in Port : Len(w[p]) <= WriteDataDepth
  BY DEF IInv, TypeOK, NoRingOverflows
<1>5. CASE DataComplete(route)
  BY <1>3, <1>4, <1>5
<1>6. CASE ~DataComplete(route)
  <2>1. /\ Tail(w[route.port]) \in Seq(WriteBeat)
        /\ Len(Tail(w[route.port])) <= WriteDataDepth
    <3>1. /\ w[route.port] \in Seq(WriteBeat) /\ w[route.port] # <<>>
          /\ Len(w[route.port]) <= WriteDataDepth
      BY <1>1, <1>2, <1>4, <1>6
    <3> QED BY <3>1, TailFacts, Depths
  <2> QED BY <1>2, <1>3, <1>4, <1>6, <2>1
<1> QED BY <1>5, <1>6

LEMMA UpdateFrontFacts ==
  ASSUME IInv, write_routes # <<>>, NEW route \in WriteRoute, RouteInside(route),
         ValidatedRoute(route), UNCHANGED b, write_routes' = UpdateFront(route)
  PROVE  /\ write_routes' \in Seq(WriteRoute)
         /\ Len(write_routes') <= RouteDepth
         /\ \A i \in DOMAIN write_routes' : RouteInside(write_routes'[i])
         /\ DevicesSeeValidatedBursts'
         /\ OnlyFrontWriteHasData'
         /\ write_routes' # <<>> /\ Head(write_routes') = route
<1>1. write_routes \in Seq(WriteRoute) /\ Len(write_routes) <= RouteDepth
  BY DEF IInv, TypeOK, NoRingOverflows
<1>2. /\ write_routes' \in Seq(WriteRoute) /\ Len(write_routes') = Len(write_routes)
      /\ DOMAIN write_routes' = DOMAIN write_routes
      /\ write_routes' # <<>> /\ Head(write_routes') = route
      /\ write_routes'[1] = route
      /\ \A i \in DOMAIN write_routes : i # 1 => write_routes'[i] = write_routes[i]
  BY <1>1, FrontFacts DEF UpdateFront
<1>3. \A i \in DOMAIN write_routes' : RouteInside(write_routes'[i])
  BY <1>2 DEF IInv, RoutesStayInTheirMapping
<1>4. ASSUME NEW i \in DOMAIN write_routes'
      PROVE  ValidatedRoute(write_routes[i])'
  <2>1. ValidatedRoute(write_routes'[i])
    BY <1>2 DEF IInv, DevicesSeeValidatedBursts
  <2> QED BY <2>1 DEF ValidatedRoute, DataComplete
<1>5. ASSUME NEW i \in 2 .. Len(write_routes')
      PROVE  write_routes'[i].staged = <<>> /\ write_routes'[i].commit_beat = 0
  <2>1. i \in DOMAIN write_routes /\ i \in 2 .. Len(write_routes) /\ i # 1
    BY <1>1, <1>2
  <2> QED BY <1>2, <2>1 DEF IInv, OnlyFrontWriteHasData
<1> QED BY <1>1, <1>2, <1>3, <1>4, <1>5 DEF DevicesSeeValidatedBursts, OnlyFrontWriteHasData

LEMMA CompleteWriteRouteFacts ==
  ASSUME IInv, write_routes # <<>>, NEW route \in WriteRoute,
         Len(b[route.port]) # ResponseDepth, CompleteWriteRoute(route)
  PROVE  /\ b' \in [Port -> Seq(WriteResponseBeat)]
         /\ \A p \in Port : Len(b'[p]) <= ResponseDepth
         /\ write_routes' \in Seq(WriteRoute)
         /\ Len(write_routes') <= RouteDepth
         /\ \A i \in DOMAIN write_routes' : RouteInside(write_routes'[i])
         /\ DevicesSeeValidatedBursts'
         /\ OnlyFrontWriteHasData'
         /\ write_routes' # <<>> => Head(write_routes').commit_beat = 0
<1> DEFINE resp == [id |-> route.payload.id, response |-> route.response, exit |-> route.exit]
<1>1. /\ write_routes \in Seq(WriteRoute) /\ Len(write_routes) <= RouteDepth
      /\ b \in [Port -> Seq(WriteResponseBeat)]
      /\ \A p \in Port : Len(b[p]) <= ResponseDepth
  BY DEF IInv, TypeOK, NoRingOverflows
<1>2. route.port \in Port /\ resp \in WriteResponseBeat
  <2>1. route.payload.id \in Id
    BY PayloadFacts DEF WriteRoute
  <2> QED BY <2>1 DEF WriteRoute, WriteResponseBeat
<1>3. b' = [b EXCEPT ![route.port] = Append(@, resp)] /\ write_routes' = Tail(write_routes)
  BY DEF CompleteWriteRoute
<1> HIDE DEF resp
<1>4. b' \in [Port -> Seq(WriteResponseBeat)] /\ \A p \in Port : Len(b'[p]) <= ResponseDepth
  <2>1. /\ b[route.port] \in Seq(WriteResponseBeat)
        /\ Len(b[route.port]) \in Nat /\ Len(b[route.port]) <= ResponseDepth
    BY <1>1, <1>2
  <2>2. /\ Append(b[route.port], resp) \in Seq(WriteResponseBeat)
        /\ Len(Append(b[route.port], resp)) <= ResponseDepth
    BY <1>2, <2>1, AppendFacts, Depths
  <2> QED BY <1>1, <1>2, <1>3, <2>2
<1>5. /\ write_routes' \in Seq(WriteRoute)
      /\ Len(write_routes) \in Nat \ {0}
      /\ Len(write_routes') = Len(write_routes) - 1
      /\ DOMAIN write_routes' = 1 .. Len(write_routes) - 1
      /\ \A i \in DOMAIN write_routes' : /\ write_routes'[i] = write_routes[i + 1]
                                         /\ i + 1 \in DOMAIN write_routes
                                         /\ i + 1 \in 2 .. Len(write_routes)
      /\ write_routes' # <<>> => Head(write_routes') = write_routes'[1] /\ 1 \in DOMAIN write_routes'
  BY <1>1, <1>3, TailFacts
<1>6. \A i \in DOMAIN write_routes' : RouteInside(write_routes'[i])
  BY <1>5 DEF IInv, RoutesStayInTheirMapping
<1>7. \A i \in DOMAIN write_routes' : write_routes'[i].staged = <<>> /\ write_routes'[i].commit_beat = 0
  BY <1>5 DEF IInv, OnlyFrontWriteHasData
<1>8. ASSUME NEW i \in DOMAIN write_routes'
      PROVE  ValidatedRoute(write_routes[i])'
  <2>1. Beats(write_routes'[i].payload) \in Nat \ {0}
    <3>1. write_routes'[i] \in WriteRoute
      BY <1>5
    <3> QED BY <3>1, PayloadFacts DEF WriteRoute
  <2>2. /\ write_routes'[i].staged = <<>> /\ write_routes'[i].commit_beat = 0
        /\ DOMAIN write_routes'[i].staged = {} /\ Len(write_routes'[i].staged) = 0
    BY <1>7
  <2>3. 0 < Beats(write_routes'[i].payload) /\ 0 <= Beats(write_routes'[i].payload) /\ ~(0 > 0)
    BY <2>1
  <2> QED BY <2>2, <2>3 DEF ValidatedRoute
<1>9. OnlyFrontWriteHasData'
  <2>1. \A i \in 2 .. Len(write_routes') : i \in DOMAIN write_routes'
    BY <1>5
  <2> QED BY <1>7, <2>1 DEF OnlyFrontWriteHasData
<1>10. Len(write_routes') <= RouteDepth
  BY <1>1, <1>5, Depths
<1> QED BY <1>4, <1>5, <1>6, <1>7, <1>8, <1>9, <1>10 DEF DevicesSeeValidatedBursts

(* A step of the write phase, from what it does to the variables.          *)
LEMMA WriteStepKeepsIInv ==
  ASSUME IInv, Running("write"), WriteFrame,
         phase' \in {"ingress", "read"},
         phase' = "read" /\ write_routes' # <<>> => Head(write_routes').commit_beat = 0,
         w' \in [Port -> Seq(WriteBeat)], \A p \in Port : Len(w'[p]) <= WriteDataDepth,
         b' \in [Port -> Seq(WriteResponseBeat)], \A p \in Port : Len(b'[p]) <= ResponseDepth,
         write_routes' \in Seq(WriteRoute), Len(write_routes') <= RouteDepth,
         \A i \in DOMAIN write_routes' : RouteInside(write_routes'[i]),
         DevicesSeeValidatedBursts', OnlyFrontWriteHasData',
         memory' \in [Device -> AnyContents], \A d \in Device : memory'[d] \in Contents(d),
         monitors' \subseteq monitors
  PROVE  IInv'
<1>1. TypeOK'
  BY DEF IInv, TypeOK, WriteFrame, exitVars
<1>2. NoRingOverflows'
  BY DEF IInv, NoRingOverflows, WriteFrame
<1>3. RoutesStayInTheirMapping' /\ ReadsHaveBeatsLeft'
  BY DEF IInv, RoutesStayInTheirMapping, ReadsHaveBeatsLeft, WriteFrame
<1>4. /\ IsFiniteSet(monitors') /\ Cardinality(monitors') <= Cardinality(monitors)
      /\ Cardinality(monitors) \in Nat /\ Cardinality(monitors') \in Nat
  BY FS_Subset, FS_CardinalityType DEF IInv
<1>5. OneMonitorPerMaster'
  BY <1>4, Depths DEF IInv, OneMonitorPerMaster
<1>6. BurstCommitIsAtomic'
  BY DEF BurstCommitIsAtomic
<1> QED BY <1>1, <1>2, <1>3, <1>4, <1>5, <1>6 DEF IInv

LEMMA StageWriteBeatKeepsIInv ==
  ASSUME IInv, StageWriteBeat
  PROVE  IInv'
<1>1. /\ Running("write") /\ WriteFrame /\ ~NoWriteBeat /\ ValidWriteBeat /\ ~CanCommit
      /\ TakeWriteBeat /\ write_routes' = UpdateFront(Loaded) /\ phase' = "read"
      /\ UNCHANGED <<b, monitors, memory>>
  BY DEF StageWriteBeat
<1>2. Loaded.commit_beat = 0
  <2>1. ValidatedRoute(Loaded) /\ Loaded.commit_beat \in Nat
    BY <1>1, LoadedFacts
  <2>2. ~(Loaded.commit_beat > 0)
    <3>1. Loaded.commit_beat > 0 =>
            DataComplete(Loaded) /\ Len(b[Loaded.port]) < ResponseDepth
      BY <2>1 DEF ValidatedRoute
    <3>2. ~(Len(b[Loaded.port]) < ResponseDepth /\ Len(b[Loaded.port]) = ResponseDepth)
      BY Depths
    <3> QED BY <1>1, <3>1, <3>2 DEF CanCommit
  <2> QED BY <2>1, <2>2
<1>3. /\ write_routes' \in Seq(WriteRoute) /\ Len(write_routes') <= RouteDepth
      /\ \A i \in DOMAIN write_routes' : RouteInside(write_routes'[i])
      /\ DevicesSeeValidatedBursts' /\ OnlyFrontWriteHasData'
      /\ Head(write_routes') = Loaded
  BY <1>1, LoadedFacts, UpdateFrontFacts
<1>4. /\ b' \in [Port -> Seq(WriteResponseBeat)] /\ (\A p \in Port : Len(b'[p]) <= ResponseDepth)
      /\ memory' \in [Device -> AnyContents] /\ (\A d \in Device : memory'[d] \in Contents(d))
      /\ monitors' \subseteq monitors
  BY <1>1 DEF IInv, TypeOK, NoRingOverflows
<1> QED BY <1>1, <1>2, <1>3, <1>4, TakeWriteBeatFacts, WriteStepKeepsIInv

LEMMA CommitForcedKeepsIInv ==
  ASSUME IInv, CommitForced
  PROVE  IInv'
<1> DEFINE route == [Loaded EXCEPT !.response = CombineResponse(@, Loaded.forced_response)]
<1>1. /\ Running("write") /\ WriteFrame /\ ~NoWriteBeat /\ ValidWriteBeat /\ CanCommit
      /\ TakeWriteBeat /\ CompleteWriteRoute(route) /\ phase' = "read"
      /\ UNCHANGED <<monitors, memory>>
  BY DEF CommitForced, Commits
<1>2. route \in WriteRoute /\ route.port = Loaded.port
  <2>1. CombineResponse(Loaded.response, Loaded.forced_response) \in Response
    BY <1>1, LoadedFacts, ResponseFacts
  <2>2. Loaded \in WriteRoute
    BY <1>1, LoadedFacts
  <2> QED BY <2>1, <2>2 DEF WriteRoute
<1>3. Len(b[route.port]) # ResponseDepth /\ write_routes # <<>>
  BY <1>1, <1>2, LoadedFacts DEF CanCommit
<1> HIDE DEF route
<1>4. /\ memory' \in [Device -> AnyContents] /\ (\A d \in Device : memory'[d] \in Contents(d))
      /\ monitors' \subseteq monitors
  BY <1>1 DEF IInv, TypeOK
<1> QED BY <1>1, <1>2, <1>3, <1>4, CompleteWriteRouteFacts, TakeWriteBeatFacts, WriteStepKeepsIInv

-----------------------------------------------------------------------------
(* Device writes: every byte that reaches a device is a byte of the burst. *)
LEMMA PerformFacts ==
  ASSUME IInv, NEW d \in Device, NEW access, \A n \in access.strobe : access.bytes[n] \in Value
  PROVE  /\ Perform(d, access) \in [Device -> AnyContents]
         /\ \A e \in Device : Perform(d, access)[e] \in Contents(e)
         /\ Perform(d, access)[d] \in Code
<1> DEFINE new == Written(memory[d], access.offset, access.strobe, access.bytes)
<1>1. memory \in [Device -> AnyContents] /\ \A e \in Device : memory[e] \in Contents(e)
  BY DEF IInv, TypeOK
<1>2. new \in Contents(d)
  BY <1>1 DEF Written, Contents
<1>3. Perform(d, access) = [memory EXCEPT ![d] = new]
  BY DEF Perform
<1> HIDE DEF new
<1>4. new \in AnyContents
  BY <1>2 DEF AnyContents
<1> QED BY <1>1, <1>2, <1>3, <1>4 DEF Code

LEMMA StagedBeatFacts ==
  ASSUME NEW route \in WriteRoute, DataComplete(route), NEW i \in 0 .. route.payload.length
  PROVE  \A lane \in Lanes : route.staged[i + 1].data[lane] \in Value
<1>1. route.payload \in AddressPayload /\ route.staged \in Seq(WriteBeat)
  BY DEF WriteRoute
<1>2. i + 1 \in 1 .. Len(route.staged)
  BY <1>1, PayloadFacts DEF DataComplete
<1>3. route.staged[i + 1] \in WriteBeat
  BY <1>1, <1>2
<1> QED BY <1>3, FabricAssumption

LEMMA BeatWriteFacts ==
  ASSUME NEW route \in WriteRoute, DataComplete(route), route.commit_beat < Beats(route.payload)
  PROVE  \A n \in BeatWrite(route).strobe : BeatWrite(route).bytes[n] \in Value
<1> DEFINE i == route.commit_beat
           mask == LaneMask(route.payload, i)
           first == Min(mask)
           lanes == mask \cap route.staged[i + 1].strobe
           beat == route.staged[i + 1]
<1>1. i \in 0 .. route.payload.length
  BY PayloadFacts DEF WriteRoute
<1>2. \A lane \in Lanes : beat.data[lane] \in Value
  BY <1>1, StagedBeatFacts
<1>3. /\ BeatWrite(route).strobe = {lane - first : lane \in lanes}
      /\ BeatWrite(route).bytes = [n \in {lane - first : lane \in lanes} |-> beat.data[first + n]]
  BY DEF BeatWrite
<1>4. mask \in SUBSET Lanes /\ Lanes \subseteq Nat
  BY LaneMaskType, BurstAssumption DEF Lanes
<1>5. ASSUME NEW lane \in lanes
      PROVE  beat.data[first + (lane - first)] \in Value
  <2>1. first \in Nat /\ lane \in Nat /\ lane \in Lanes
    BY <1>4, MinOfNaturals
  <2>2. first + (lane - first) = lane
    BY <2>1
  <2> QED BY <1>2, <2>1, <2>2
<1> HIDE DEF first, lanes, beat
<1> QED BY <1>3, <1>5

LEMMA ExclusiveWriteFacts ==
  ASSUME NEW route \in WriteRoute, DataComplete(route)
  PROVE  \A n \in ExclusiveWrite(route).strobe : ExclusiveWrite(route).bytes[n] \in Value
<1> DEFINE p == route.payload
           enabled(i) == LaneMask(p, i) \cap route.staged[i + 1].strobe
           touched == UNION {{BusWordAddress(p, i) + lane : lane \in enabled(i)}
                               : i \in GatheredBeats(p)}
           beat(a) == CHOOSE i \in GatheredBeats(p) : a - BusWordAddress(p, i) \in enabled(i)
           byte(a) == route.staged[beat(a) + 1].data[a - BusWordAddress(p, beat(a))]
<1>1. /\ ExclusiveWrite(route).strobe = {a - p.address : a \in touched}
      /\ ExclusiveWrite(route).bytes = [n \in {a - p.address : a \in touched} |-> byte(p.address + n)]
  BY DEF ExclusiveWrite
<1>2. p \in AddressPayload /\ IsPayload(p) /\ p.address \in Nat /\ p.length \in Nat
  BY PayloadFacts DEF WriteRoute, IsPayload
<1>3. ASSUME NEW i \in GatheredBeats(p)
      PROVE  /\ i \in 0 .. p.length
             /\ BusWordAddress(p, i) \in Int
             /\ enabled(i) \subseteq Lanes
             /\ \A lane \in Lanes : route.staged[i + 1].data[lane] \in Value
  <2>1. i \in 0 .. p.length
    BY DEF GatheredBeats
  <2>2. BusWordAddress(p, i) \in Int
    <3>1. IsPayload(p)
      BY <1>2
    <3> HIDE DEF p
    <3> QED BY <2>1, <3>1, BusWordIsInt
  <2>3. enabled(i) \subseteq Lanes
    BY LaneMaskType
  <2> QED BY <2>1, <2>2, <2>3, StagedBeatFacts
<1>4. Lanes \subseteq Nat
  BY BurstAssumption DEF Lanes
<1>5. ASSUME NEW a \in touched
      PROVE  a \in Int /\ byte(p.address + (a - p.address)) \in Value
  <2>1. PICK i \in GatheredBeats(p) : \E lane \in enabled(i) : a = BusWordAddress(p, i) + lane
    OBVIOUS
  <2>2. PICK lane \in enabled(i) : a = BusWordAddress(p, i) + lane
    BY <2>1
  <2>3. lane \in Nat /\ BusWordAddress(p, i) \in Int
    BY <1>3, <1>4, <2>2
  <2>4. a \in Int /\ a - BusWordAddress(p, i) = lane
    <3> DEFINE word == BusWordAddress(p, i)
    <3>1. a = word + lane /\ lane \in Nat /\ word \in Int
      BY <2>2, <2>3
    <3> HIDE DEF word
    <3>2. a \in Int /\ a - word = lane
      BY <3>1
    <3> QED BY <3>2 DEF word
  <2>5. beat(a) \in GatheredBeats(p) /\ a - BusWordAddress(p, beat(a)) \in enabled(beat(a))
    BY <2>2, <2>4, Zenon
  <2>6. byte(a) \in Value
    BY <1>3, <2>5
  <2>7. p.address + (a - p.address) = a
    <3> DEFINE start == p.address
    <3>1. start \in Nat /\ a \in Int
      BY <1>2, <2>4
    <3> HIDE DEF start
    <3>2. start + (a - start) = a
      BY <3>1
    <3> QED BY <3>2 DEF start
  <2> QED BY <2>4, <2>6, <2>7
<1> HIDE DEF touched, byte
<1> QED BY <1>1, <1>5

LEMMA MappedDevice ==
  ASSUME NEW m \in Mappings
  PROVE  m.device \in Device
BY AddressSpaceAssumption

LEMMA CommitBeatKeepsIInv ==
  ASSUME IInv, CommitBeat
  PROVE  IInv'
<1> DEFINE route == Loaded
           d == route.mapping.device
           access == BeatWrite(route)
           empty == LaneMask(route.payload, route.commit_beat) = {}
           response == IF empty THEN "OKAY" ELSE AccessResponse(d, access)
           takes == ~empty /\ ResponseIsSuccess(response)
           done == IF ResponseIsSuccess(response) THEN route.commit_beat + 1
                   ELSE Beats(route.payload)
           exit == IF takes /\ IsExit(d) THEN Perform(d, access)[d] ELSE route.exit
           next == [route EXCEPT !.response = CombineResponse(@, response),
                                 !.commit_beat = IF ResponseIsSuccess(response) THEN @ + 1
                                                 ELSE Beats(route.payload),
                                 !.exit = IF takes /\ IsExit(d) THEN Perform(d, access)[d] ELSE @]
<1>1. /\ Running("write") /\ WriteFrame /\ ~NoWriteBeat /\ ValidWriteBeat /\ CanCommit
      /\ TakeWriteBeat /\ phase' = "ingress" /\ route.forced_response = "OKAY"
  BY DEF CommitBeat, Commits, AfterDeviceWrite
<1>2. IF takes THEN memory' = Perform(d, access) /\ monitors' = Unreserved(access.touched)
      ELSE UNCHANGED <<memory, monitors>>
  BY DEF CommitBeat
<1>3. IF next.commit_beat = Beats(next.payload) THEN CompleteWriteRoute(next)
      ELSE write_routes' = UpdateFront(next) /\ UNCHANGED b
  BY DEF CommitBeat
<1>4. /\ write_routes # <<>> /\ route \in WriteRoute /\ route.port \in Port
      /\ route.payload \in AddressPayload /\ route.commit_beat \in Nat
      /\ route.response \in Response /\ route.exit \in Code
      /\ ValidatedRoute(route) /\ RouteInside(route)
  BY <1>1, LoadedFacts
<1>5. /\ DataComplete(route) /\ Len(b[route.port]) # ResponseDepth
      /\ route.commit_beat < Beats(route.payload)
  BY <1>1, <1>4 DEF CanCommit, ValidatedRoute
<1>6. Beats(route.payload) \in Nat
  BY <1>4, PayloadFacts
<1>7. d \in Device
  BY <1>1, <1>4, MappedDevice DEF RouteInside
<1> HIDE DEF route
<1>8. \A n \in access.strobe : access.bytes[n] \in Value
  BY <1>4, <1>5, BeatWriteFacts
<1>9. response \in Response
  BY <1>7, ResponseFacts DEF AccessResponse, Response
<1> HIDE DEF access
<1>10. /\ Perform(d, access) \in [Device -> AnyContents]
       /\ \A e \in Device : Perform(d, access)[e] \in Contents(e)
       /\ Perform(d, access)[d] \in Code
  BY <1>7, <1>8, PerformFacts
<1>11. /\ CombineResponse(route.response, response) \in Response
       /\ done \in Nat /\ exit \in Code
  <2>1. CombineResponse(route.response, response) \in Response
    BY <1>4, <1>9, ResponseFacts
  <2>2. done \in Nat
    BY <1>4, <1>6
  <2>3. exit \in Code
    BY <1>4, <1>10
  <2> QED BY <2>1, <2>2, <2>3
<1> HIDE DEF d, response
<1>12. next = [route EXCEPT !.response = CombineResponse(route.response, response),
                            !.commit_beat = done, !.exit = exit]
  BY <1>4 DEF WriteRoute
<1> HIDE DEF done, exit, next
<1>13. /\ next \in WriteRoute
       /\ next.port = route.port /\ next.payload = route.payload /\ next.staged = route.staged
       /\ next.mapping = route.mapping /\ next.forced_response = route.forced_response
       /\ next.commit_beat = done
  BY <1>4, <1>11, <1>12 DEF WriteRoute
<1>14. RouteInside(next)
  BY <1>4, <1>13 DEF RouteInside
<1>15. /\ memory' \in [Device -> AnyContents] /\ (\A e \in Device : memory'[e] \in Contents(e))
       /\ monitors' \subseteq monitors
  <2>1. CASE takes
    BY <1>2, <1>10, <2>1 DEF Unreserved
  <2>2. CASE ~takes
    BY <1>2, <2>2 DEF IInv, TypeOK
  <2> QED BY <2>1, <2>2
<1>16. CASE next.commit_beat = Beats(next.payload)
  <2>1. CompleteWriteRoute(next) /\ Len(b[next.port]) # ResponseDepth
    BY <1>3, <1>5, <1>13, <1>16
  <2> QED BY <1>1, <1>4, <1>13, <1>15, <2>1, CompleteWriteRouteFacts, TakeWriteBeatFacts,
             WriteStepKeepsIInv
<1>17. CASE next.commit_beat # Beats(next.payload)
  <2>1. write_routes' = UpdateFront(next) /\ UNCHANGED b
    BY <1>3, <1>17
  <2>2. /\ b \in [Port -> Seq(WriteResponseBeat)]
        /\ \A p \in Port : Len(b[p]) <= ResponseDepth
    BY DEF IInv, TypeOK, NoRingOverflows
  <2>3. Len(b[route.port]) < ResponseDepth
    <3>1. /\ Len(b[route.port]) \in Nat /\ Len(b[route.port]) <= ResponseDepth
          /\ Len(b[route.port]) # ResponseDepth
      BY <1>4, <1>5, <2>2
    <3> QED BY <3>1, Depths
  <2>4. done < Beats(route.payload)
    BY <1>4, <1>5, <1>6, <1>13, <1>17 DEF done
  <2>5. ValidatedRoute(next)
    BY <1>4, <1>5, <1>13, <2>3, <2>4 DEF ValidatedRoute, DataComplete
  <2>6. /\ write_routes' \in Seq(WriteRoute) /\ Len(write_routes') <= RouteDepth
        /\ \A i \in DOMAIN write_routes' : RouteInside(write_routes'[i])
        /\ DevicesSeeValidatedBursts' /\ OnlyFrontWriteHasData'
    BY <1>4, <1>13, <1>14, <2>1, <2>5, UpdateFrontFacts
  <2>7. b' \in [Port -> Seq(WriteResponseBeat)] /\ \A p \in Port : Len(b'[p]) <= ResponseDepth
    BY <2>1, <2>2
  <2> QED BY <1>1, <1>15, <2>6, <2>7, TakeWriteBeatFacts, WriteStepKeepsIInv
<1> QED BY <1>16, <1>17

LEMMA CommitExclusiveKeepsIInv ==
  ASSUME IInv, CommitExclusive
  PROVE  IInv'
<1> DEFINE route == Loaded
           d == route.mapping.device
           own == MonitorOf(route.port, route.payload.id)
           access == ExclusiveWrite(route)
           tried == route.forced_response = "OKAY" /\ Reserved(route)
           takes == tried /\ ResponseIsSuccess(AccessResponse(d, access))
           response == CASE route.forced_response # "OKAY" -> route.forced_response
                         [] takes -> "EXOKAY"
                         [] tried /\ ~takes -> AccessResponse(d, access)
                         [] OTHER -> "OKAY"
           next == [route EXCEPT !.response = response]
<1>1. /\ Running("write") /\ WriteFrame /\ ~NoWriteBeat /\ ValidWriteBeat /\ CanCommit
      /\ TakeWriteBeat /\ phase' = "ingress" /\ CompleteWriteRoute(next)
  BY DEF CommitExclusive, Commits, AfterDeviceWrite
<1>2. IF takes THEN memory' = Perform(d, access) /\ monitors' = Unreserved(access.touched) \ own
      ELSE monitors' = monitors \ own /\ UNCHANGED memory
  BY DEF CommitExclusive
<1>3. /\ write_routes # <<>> /\ route \in WriteRoute /\ route.forced_response \in Response
      /\ RouteInside(route)
  BY <1>1, LoadedFacts
<1>4. DataComplete(route) /\ Len(b[route.port]) # ResponseDepth
  BY <1>1 DEF CanCommit
<1> HIDE DEF route
<1>5. route.forced_response = "OKAY" => d \in Device
  BY <1>3, MappedDevice DEF RouteInside
<1>6. \A n \in access.strobe : access.bytes[n] \in Value
  BY <1>3, <1>4, ExclusiveWriteFacts
<1> HIDE DEF access
<1>7. d \in Device => AccessResponse(d, access) \in Response
  BY ResponseFacts DEF AccessResponse
<1>8. response \in Response
  BY <1>3, <1>5, <1>7 DEF Response
<1> HIDE DEF response
<1>9. next \in WriteRoute /\ next.port = route.port
  BY <1>3, <1>8 DEF WriteRoute
<1> HIDE DEF next
<1>10. /\ memory' \in [Device -> AnyContents] /\ (\A e \in Device : memory'[e] \in Contents(e))
       /\ monitors' \subseteq monitors
  <2>1. CASE takes
    <3>1. d \in Device
      BY <1>5, <2>1
    <3> QED BY <1>2, <1>6, <2>1, <3>1, PerformFacts DEF Unreserved
  <2>2. CASE ~takes
    BY <1>2, <2>2 DEF IInv, TypeOK
  <2> QED BY <2>1, <2>2
<1> QED BY <1>1, <1>3, <1>4, <1>9, <1>10, CompleteWriteRouteFacts, TakeWriteBeatFacts,
           WriteStepKeepsIInv

-----------------------------------------------------------------------------
(* Device reads.                                                           *)
LEMMA LaneInBounds ==
  ASSUME NEW base \in Int, NEW start \in Nat, NEW low \in Nat, NEW high \in Nat,
         NEW lane \in Nat, NEW size \in Nat, start <= base + lane, lane <= high,
         base + low - start + (high - low + 1) <= size
  PROVE  base + lane - start \in 0 .. size - 1
OBVIOUS

LEMMA ReadResultFacts ==
  ASSUME IInv, read_routes # <<>>
  PROVE  ReadResult(Head(read_routes)) \in ReadBeat
<1> DEFINE route == Head(read_routes)
           mask == LaneMask(route.payload, route.beat)
           base == BusWordAddress(route.payload, route.beat)
           m == route.mapping
           low == Min(mask)
           high == Max(mask)
           response == IF mask = {} THEN "OKAY"
                       ELSE ReadResponse(m.device, base + low - m.base, high - low + 1)
           zeros == [lane \in Lanes |-> Zero]
           bytes == [lane \in Lanes |-> IF lane \in mask
                                        THEN memory[m.device][base + lane - m.base] ELSE Zero]
           answer == IF route.forced_response # "OKAY" THEN route.forced_response
                     ELSE IF route.payload.lock /\ response = "OKAY" THEN "EXOKAY"
                     ELSE response
           data == IF route.forced_response # "OKAY" \/ response # "OKAY" THEN zeros ELSE bytes
<1>1. /\ route \in ReadRoute /\ route.payload \in AddressPayload /\ route.beat \in Nat
      /\ route.beat < Beats(route.payload) /\ RouteInside(route)
  BY FrontReadFacts
<1>2. ReadResult(route) = [id |-> route.payload.id, last |-> IsLastReadBeat(route),
                           response |-> answer, data |-> data]
  BY DEF ReadResult
<1> HIDE DEF route
<1>3. /\ IsPayload(route.payload) /\ route.payload.id \in Id
      /\ route.beat \in 0 .. route.payload.length
  <2>1. /\ IsPayload(route.payload) /\ route.payload.id \in Id
        /\ Beats(route.payload) = route.payload.length + 1 /\ route.payload.length \in Nat
    BY <1>1, PayloadFacts
  <2> DEFINE beat == route.beat
             length == route.payload.length
  <2>2. beat \in Nat /\ length \in Nat /\ beat < length + 1
    BY <1>1, <2>1
  <2> HIDE DEF beat, length
  <2>3. beat \in 0 .. length
    BY <2>2
  <2> QED BY <2>1, <2>3 DEF beat, length
<1>4. base \in Int /\ mask \in SUBSET Lanes /\ Lanes \subseteq Nat
  BY <1>3, BusWordIsInt, LaneMaskType, BurstAssumption DEF Lanes
<1>5. answer \in Response
  BY <1>1, ResponseFacts DEF ReadRoute, Response
<1>6. ASSUME route.forced_response = "OKAY", response = "OKAY", NEW lane \in mask
      PROVE  memory[m.device][base + lane - m.base] \in Value
  <2>1. m \in Mappings /\ m.base \in Nat /\ m.device \in Device
    BY <1>1, <1>6, AddressSpaceAssumption DEF RouteInside
  <2>2. m.base <= base + lane
    BY <1>1, <1>3, <1>6, BeatInBurst DEF RouteInside
  <2>3. low \in Nat /\ high \in Nat /\ lane \in Nat /\ lane <= high
    BY <1>4, <1>6, MinOfNaturals, MaxOfLanes
  <2>4. base + low - m.base + (high - low + 1) <= Capacity[m.device]
    BY <1>6 DEF ReadResponse, InBounds
  <2>5. memory[m.device] \in Contents(m.device) /\ Capacity[m.device] \in Nat
    BY <2>1, AddressSpaceAssumption DEF IInv, TypeOK
  <2> HIDE DEF low, high, base, m, mask
  <2>6. base + lane - m.base \in 0 .. Capacity[m.device] - 1
    BY <1>4, <2>1, <2>2, <2>3, <2>4, <2>5, LaneInBounds
  <2> QED BY <2>5, <2>6 DEF Contents
<1>7. Zero \in Value
  BY AddressSpaceAssumption
<1> HIDE DEF mask, base, m, response
<1>8. data \in [Lanes -> Value]
  BY <1>6, <1>7
<1> HIDE DEF answer, data
<1>9. IsLastReadBeat(route) \in BOOLEAN
  BY DEF IsLastReadBeat
<1>10. ReadResult(route) \in ReadBeat
  BY <1>2, <1>3, <1>5, <1>8, <1>9 DEF ReadBeat
<1> QED BY <1>10 DEF route

(* The monitor table takes a reservation only into a free or an own entry. *)
LEMMA EstablishMonitorFacts ==
  ASSUME IInv, NEW route \in ReadRoute, ~TableExhausted(route), EstablishMonitor(route)
  PROVE  /\ monitors' \subseteq [port : Port, payload : AddressPayload]
         /\ IsFiniteSet(monitors')
         /\ OneMonitorPerMaster'
<1> DEFINE own == MonitorOf(route.port, route.payload.id)
           rest == monitors \ own
           new == [port |-> route.port, payload |-> route.payload]
<1>1. /\ monitors \subseteq [port : Port, payload : AddressPayload]
      /\ IsFiniteSet(monitors) /\ Cardinality(monitors) \in Nat
      /\ Cardinality(monitors) <= RouteDepth
      /\ \A x, y \in monitors : x.port = y.port /\ x.payload.id = y.payload.id => x = y
  BY FS_CardinalityType DEF IInv, TypeOK, OneMonitorPerMaster
<1>2. CASE ~Establishes(route)
  <2>1. monitors' = monitors
    BY <1>2 DEF EstablishMonitor
  <2> QED BY <1>1, <2>1 DEF OneMonitorPerMaster
<1>3. CASE Establishes(route)
  <2>1. monitors' = rest \cup {new}
    BY <1>3 DEF EstablishMonitor
  <2>2. new \in [port : Port, payload : AddressPayload]
    BY DEF ReadRoute
  <2>3. own = {} => Cardinality(monitors) # RouteDepth
    BY <1>3 DEF TableExhausted
  <2>4. \A x \in monitors : x \in own <=> x.port = new.port /\ x.payload.id = new.payload.id
    BY DEF MonitorOf
  <2>5. own \subseteq monitors
    BY DEF MonitorOf
  <2> HIDE DEF own, new
  <2>6. /\ IsFiniteSet(rest) /\ Cardinality(rest) \in Nat
        /\ Cardinality(rest) <= Cardinality(monitors)
        /\ own # {} => Cardinality(rest) < Cardinality(monitors)
    <3>1. rest \subseteq monitors
      OBVIOUS
    <3>2. /\ IsFiniteSet(rest) /\ Cardinality(rest) <= Cardinality(monitors)
          /\ Cardinality(rest) = Cardinality(monitors) => rest = monitors
      BY <1>1, <3>1, FS_Subset
    <3>3. Cardinality(rest) \in Nat
      BY <3>2, FS_CardinalityType
    <3>4. own # {} => rest # monitors
      BY <2>5
    <3> HIDE DEF rest
    <3> QED BY <1>1, <3>2, <3>3, <3>4
  <2>7. Cardinality(rest) < RouteDepth
    BY <1>1, <2>3, <2>6, Depths
  <2>8. /\ IsFiniteSet(rest \cup {new})
        /\ Cardinality(rest \cup {new}) <= Cardinality(rest) + 1
        /\ Cardinality(rest \cup {new}) \in Nat
    <3>1. /\ IsFiniteSet(rest \cup {new})
          /\ Cardinality(rest \cup {new}) = Cardinality(rest) \/
             Cardinality(rest \cup {new}) = Cardinality(rest) + 1
      BY <2>6, FS_AddElement
    <3> HIDE DEF rest
    <3> QED BY <2>6, <3>1
  <2>9. Cardinality(monitors') <= RouteDepth
    BY <2>1, <2>6, <2>7, <2>8, Depths
  <2>10. \A x, y \in monitors' : x.port = y.port /\ x.payload.id = y.payload.id => x = y
    BY <1>1, <2>1, <2>4
  <2> QED BY <1>1, <2>1, <2>2, <2>8, <2>9, <2>10 DEF OneMonitorPerMaster
<1> QED BY <1>2, <1>3

LEMMA ReadRoutesAdvance ==
  ASSUME IInv, read_routes # <<>>,
         read_routes' = IF IsLastReadBeat(Head(read_routes)) THEN Tail(read_routes)
                        ELSE [read_routes EXCEPT ![1].beat = @ + 1]
  PROVE  /\ read_routes' \in Seq(ReadRoute)
         /\ Len(read_routes') <= RouteDepth
         /\ \A i \in DOMAIN read_routes' : RouteInside(read_routes'[i])
         /\ ReadsHaveBeatsLeft'
<1> DEFINE route == Head(read_routes)
           next == [route EXCEPT !.beat = @ + 1]
<1>1. /\ read_routes \in Seq(ReadRoute) /\ Len(read_routes) <= RouteDepth
      /\ \A i \in DOMAIN read_routes : RouteInside(read_routes[i])
      /\ \A i \in DOMAIN read_routes : read_routes[i].beat < Beats(read_routes[i].payload)
  BY DEF IInv, TypeOK, NoRingOverflows, RoutesStayInTheirMapping, ReadsHaveBeatsLeft
<1>2. CASE IsLastReadBeat(route)
  <2>1. /\ read_routes' \in Seq(ReadRoute) /\ Len(read_routes') <= RouteDepth
        /\ \A i \in DOMAIN read_routes' : /\ read_routes'[i] = read_routes[i + 1]
                                          /\ i + 1 \in DOMAIN read_routes
    BY <1>1, <1>2, TailFacts, Depths
  <2> QED BY <1>1, <2>1 DEF ReadsHaveBeatsLeft
<1>3. CASE ~IsLastReadBeat(route)
  <2>1. /\ route \in ReadRoute /\ route.beat \in Nat /\ route.payload \in AddressPayload
        /\ route.beat < Beats(route.payload) /\ RouteInside(route)
    BY FrontReadFacts
  <2>2. route = read_routes[1] /\ 1 \in DOMAIN read_routes
    BY <1>1
  <2>3. read_routes' = [read_routes EXCEPT ![1] = next]
    BY <1>3, <2>2
  <2> HIDE DEF route
  <2>4. /\ next \in ReadRoute /\ next.payload = route.payload /\ next.mapping = route.mapping
        /\ next.forced_response = route.forced_response /\ next.beat = route.beat + 1
    BY <2>1 DEF ReadRoute
  <2> HIDE DEF next
  <2>5. RouteInside(next)
    BY <2>1, <2>4 DEF RouteInside
  <2>6. Beats(route.payload) \in Nat
    BY <2>1, PayloadFacts
  <2>7. next.beat < Beats(next.payload)
    BY <1>3, <2>1, <2>4, <2>6 DEF IsLastReadBeat
  <2>8. /\ read_routes' \in Seq(ReadRoute) /\ Len(read_routes') = Len(read_routes)
        /\ DOMAIN read_routes' = DOMAIN read_routes
        /\ read_routes'[1] = next
        /\ \A i \in DOMAIN read_routes : i # 1 => read_routes'[i] = read_routes[i]
    BY <1>1, <2>3, <2>4, FrontFacts
  <2> QED BY <1>1, <2>5, <2>7, <2>8 DEF ReadsHaveBeatsLeft
<1> QED BY <1>2, <1>3

LEMMA ProcessReadBeatKeepsIInv ==
  ASSUME IInv, ProcessReadBeat
  PROVE  IInv'
<1> DEFINE route == Head(read_routes)
<1>1. /\ Running("read") /\ read_routes # <<>> /\ Len(r[route.port]) # ResponseDepth
      /\ ~TableExhausted(route) /\ EstablishMonitor(route)
      /\ r' = [r EXCEPT ![route.port] = Append(@, ReadResult(route))]
      /\ read_routes' = IF IsLastReadBeat(route) THEN Tail(read_routes)
                        ELSE [read_routes EXCEPT ![1].beat = @ + 1]
      /\ phase' = "ingress" /\ UNCHANGED error /\ ReadFrame
  BY DEF ProcessReadBeat, NoReadBeat
<1>2. /\ route \in ReadRoute /\ route.port \in Port
      /\ ReadResult(route) \in ReadBeat
  BY <1>1, FrontReadFacts, ReadResultFacts
<1>3. /\ read_routes' \in Seq(ReadRoute) /\ Len(read_routes') <= RouteDepth
      /\ \A i \in DOMAIN read_routes' : RouteInside(read_routes'[i])
      /\ ReadsHaveBeatsLeft'
  BY <1>1, ReadRoutesAdvance
<1> HIDE DEF route
<1>4. /\ monitors' \subseteq [port : Port, payload : AddressPayload]
      /\ IsFiniteSet(monitors') /\ OneMonitorPerMaster'
  BY <1>1, <1>2, EstablishMonitorFacts
<1>5. r' \in [Port -> Seq(ReadBeat)] /\ \A p \in Port : Len(r'[p]) <= ResponseDepth
  <2>1. r \in [Port -> Seq(ReadBeat)] /\ \A p \in Port : Len(r[p]) <= ResponseDepth
    BY DEF IInv, TypeOK, NoRingOverflows
  <2>2. /\ r[route.port] \in Seq(ReadBeat) /\ Len(r[route.port]) \in Nat
        /\ Len(r[route.port]) <= ResponseDepth /\ Len(r[route.port]) # ResponseDepth
    BY <1>1, <1>2, <2>1
  <2>3. /\ Append(r[route.port], ReadResult(route)) \in Seq(ReadBeat)
        /\ Len(Append(r[route.port], ReadResult(route))) <= ResponseDepth
    BY <1>2, <2>2, AppendFacts, Depths
  <2> QED BY <1>1, <1>2, <2>1, <2>3
<1>6. TypeOK'
  BY <1>1, <1>3, <1>4, <1>5 DEF IInv, TypeOK, ReadFrame, ingressVars, exitVars
<1>7. NoRingOverflows'
  BY <1>1, <1>3, <1>5 DEF IInv, NoRingOverflows, ReadFrame, ingressVars
<1>8. RoutesStayInTheirMapping' /\ OnlyFrontWriteHasData'
  BY <1>1, <1>3 DEF IInv, RoutesStayInTheirMapping, OnlyFrontWriteHasData, ReadFrame
<1>9. DevicesSeeValidatedBursts'
  BY <1>1 DEF IInv, DevicesSeeValidatedBursts, ValidatedRoute, DataComplete, ReadFrame
<1>10. BurstCommitIsAtomic'
  BY <1>1 DEF BurstCommitIsAtomic
<1> QED BY <1>3, <1>4, <1>6, <1>7, <1>8, <1>9, <1>10 DEF IInv

-----------------------------------------------------------------------------
LEMMA NextKeepsIInv ==
  IInv /\ [Next]_vars => IInv'
<1> SUFFICES ASSUME IInv, [Next]_vars PROVE IInv'
  OBVIOUS
<1>1. ASSUME NEW in \in [Port -> MasterSignals], NEW allow \in [Port -> Allow], Ingress(in, allow)
      PROVE  IInv'
  BY <1>1, IngressKeepsIInv
<1>2. ASSUME NEW in \in [Port -> MasterSignals], UnstableMaster(in)
      PROVE  IInv'
  BY <1>2, UnstableMasterKeepsIInv
<1>3. CASE Internal
  BY <1>3, ArbitrateAddressesKeepsIInv, RejectAddressKeepsIInv, WriteIdleKeepsIInv,
     StageWriteBeatKeepsIInv, RejectWriteBeatKeepsIInv, CommitForcedKeepsIInv,
     CommitBeatKeepsIInv, CommitExclusiveKeepsIInv, ReadIdleKeepsIInv,
     ProcessReadBeatKeepsIInv, RejectExclusiveReadKeepsIInv
     DEF Internal
<1>4. CASE ResetCycle
  BY <1>4, ResetCycleKeepsIInv
<1>5. CASE ClearExitCompleted
  BY <1>5, ClearExitCompletedKeepsIInv
<1>6. CASE UNCHANGED vars
  <2>1. UNCHANGED <<aw, w, ar, b, r, aw_watch, w_watch, ar_watch, write_routes, read_routes,
                    monitors, next_aw_port, next_ar_port, memory>>
        /\ UNCHANGED <<phase, error, exit_completed, exit_code, was_reset>>
    BY <1>6 DEF vars
  <2> QED BY <2>1, QuietStepKeepsIInv DEF IInv, TypeOK
<1> QED BY <1>1, <1>2, <1>3, <1>4, <1>5, <1>6 DEF Next

(* The fabric never leaves its inductive invariant.                        *)
THEOREM FabricInvariant ==
  Spec => []IInv
BY InitHasIInv, NextKeepsIInv, PTL DEF Spec

(* The members of the fabric keep their types, whatever the masters do.    *)
THEOREM FabricTypeCorrect ==
  Spec => []TypeOK
<1>1. IInv => TypeOK
  BY DEF IInv
<1> QED BY <1>1, FabricInvariant, PTL

(* No push of the fabric finds its ring full: the ignored results of the   *)
(* B, R and route pushes are never FALSE.                                  *)
THEOREM FabricLosesNoPush ==
  Spec => []NoRingOverflows
<1>1. IInv => NoRingOverflows
  BY DEF IInv
<1> QED BY <1>1, FabricInvariant, PTL

(* Offsets of device accesses never wrap below the base of the mapping.    *)
THEOREM FabricStaysInMappings ==
  Spec => []RoutesStayInTheirMapping
<1>1. IInv => RoutesStayInTheirMapping
  BY DEF IInv
<1> QED BY <1>1, FabricInvariant, PTL

(* No beat reaches a device before its whole burst has been validated, and *)
(* a burst that has begun to commit always finds room for its response.    *)
THEOREM FabricValidatesBursts ==
  Spec => [](DevicesSeeValidatedBursts /\ OnlyFrontWriteHasData)
<1>1. IInv => DevicesSeeValidatedBursts /\ OnlyFrontWriteHasData
  BY DEF IInv
<1> QED BY <1>1, FabricInvariant, PTL

(* No read beat is served while the front write is half committed.         *)
THEOREM FabricCommitsAtomically ==
  Spec => []BurstCommitIsAtomic
<1>1. IInv => BurstCommitIsAtomic
  BY DEF IInv
<1> QED BY <1>1, FabricInvariant, PTL

(* A master id holds at most one reservation and the table never           *)
(* overflows.                                                              *)
THEOREM FabricKeepsOneMonitor ==
  Spec => []OneMonitorPerMaster
<1>1. IInv => OneMonitorPerMaster
  BY DEF IInv
<1> QED BY <1>1, FabricInvariant, PTL

-----------------------------------------------------------------------------
LEMMA OthersMoveUp ==
  ASSUME NEW p \in Port, NEW g \in Port, NEW n \in Port, p # g, Offset(g, n) <= Offset(p, n)
  PROVE  Offset(p, AfterGrant(g)) < Offset(p, n)
<1>1. p \in 0 .. NumPorts - 1 /\ g \in 0 .. NumPorts - 1 /\ n \in 0 .. NumPorts - 1
      /\ NumPorts \in Nat \ {0}
  BY FabricAssumption DEF Port
<1>2. AfterGrant(g) \in Port /\ AfterGrant(g) = IF g + 1 = NumPorts THEN 0 ELSE g + 1
  BY AfterGrantFacts
<1>3. /\ p >= n => Offset(p, n) = p - n
      /\ p < n => Offset(p, n) = p + NumPorts - n
      /\ g >= n => Offset(g, n) = g - n
      /\ g < n => Offset(g, n) = g + NumPorts - n
      /\ p >= AfterGrant(g) => Offset(p, AfterGrant(g)) = p - AfterGrant(g)
      /\ p < AfterGrant(g) => Offset(p, AfterGrant(g)) = p + NumPorts - AfterGrant(g)
  BY <1>2, OffsetFacts
<1> DEFINE after == AfterGrant(g)
           gone  == Offset(g, n)
           old   == Offset(p, n)
           new   == Offset(p, after)
<1>4. /\ after = IF g + 1 = NumPorts THEN 0 ELSE g + 1
      /\ gone <= old
      /\ p >= n => old = p - n
      /\ p < n => old = p + NumPorts - n
      /\ g >= n => gone = g - n
      /\ g < n => gone = g + NumPorts - n
      /\ p >= after => new = p - after
      /\ p < after => new = p + NumPorts - after
  BY <1>2, <1>3, Zenon
<1> HIDE DEF after, gone, old, new
<1>5. new < old
  <2>1. CASE g + 1 = NumPorts
    BY <1>1, <1>4, <2>1
  <2>2. CASE g + 1 # NumPorts
    BY <1>1, <1>4, <2>2
  <2> QED BY <2>1, <2>2
<1> QED BY <1>5 DEF new, old, after

LEMMA OnlyArbitrationArbitrates ==
  ASSUME Next, Arbitrates
  PROVE  ArbitrateAddresses
<1> USE DEF Arbitrates, Running
<1>1. ~\E in \in [Port -> MasterSignals], allow \in [Port -> Allow] : Ingress(in, allow)
  BY DEF Ingress
<1>2. ~\E in \in [Port -> MasterSignals] : UnstableMaster(in)
  BY DEF UnstableMaster
<1>3. ~(ResetCycle \/ ClearExitCompleted)
  BY DEF ResetCycle, ClearExitCompleted
<1>4. ~(RejectAddress \/ WriteIdle \/ StageWriteBeat \/ RejectWriteBeat)
  BY DEF RejectAddress, WriteIdle, StageWriteBeat, RejectWriteBeat
<1>5. ~(CommitForced \/ CommitBeat \/ CommitExclusive)
  BY DEF CommitForced, CommitBeat, CommitExclusive, Commits
<1>6. ~(ReadIdle \/ ProcessReadBeat \/ RejectExclusiveRead)
  BY DEF ReadIdle, ProcessReadBeat, RejectExclusiveRead
<1> QED BY <1>1, <1>2, <1>3, <1>4, <1>5, <1>6 DEF Next, Internal

LEMMA ArbitrationMovesUp ==
  ASSUME IInv, ArbitrateAddresses
  PROVE  MovesUp(aw, next_aw_port) /\ MovesUp(ar, next_ar_port)
<1>1. /\ aw \in [Port -> Seq(AddressPayload)] /\ next_aw_port \in Port
      /\ ar \in [Port -> Seq(AddressPayload)] /\ next_ar_port \in Port
  BY DEF IInv, TypeOK
<1>2. ASSUME NEW p \in Port, aw[p] # <<>>, aw'[p] = aw[p], aw' # aw
      PROVE  Offset(p, next_aw_port') < Offset(p, next_aw_port)
  <2> DEFINE g == Granted(aw, next_aw_port)
  <2>1. GrantsAw /\ aw' = [aw EXCEPT ![g] = Tail(@)] /\ next_aw_port' = AfterGrant(g)
    BY <1>2 DEF ArbitrateAddresses, ArbitrateAw
  <2>2. p \in Waiting(aw)
    BY <1>2 DEF Waiting
  <2>3. g \in Port /\ aw[g] # <<>> /\ Offset(g, next_aw_port) <= Offset(p, next_aw_port)
    BY <1>1, <2>2, GrantedFacts
  <2> HIDE DEF g
  <2>4. aw'[g] # aw[g]
    <3>1. aw[g] \in Seq(AddressPayload) /\ aw'[g] = Tail(aw[g])
      BY <1>1, <2>1, <2>3
    <3> QED BY <2>3, <3>1, TailIsShorter
  <2> QED BY <1>1, <1>2, <2>1, <2>3, <2>4, OthersMoveUp
<1>3. ASSUME NEW p \in Port, ar[p] # <<>>, ar'[p] = ar[p], ar' # ar
      PROVE  Offset(p, next_ar_port') < Offset(p, next_ar_port)
  <2> DEFINE g == Granted(ar, next_ar_port)
  <2>1. GrantsAr /\ ar' = [ar EXCEPT ![g] = Tail(@)] /\ next_ar_port' = AfterGrant(g)
    BY <1>3 DEF ArbitrateAddresses, ArbitrateAr
  <2>2. p \in Waiting(ar)
    BY <1>3 DEF Waiting
  <2>3. g \in Port /\ ar[g] # <<>> /\ Offset(g, next_ar_port) <= Offset(p, next_ar_port)
    BY <1>1, <2>2, GrantedFacts
  <2> HIDE DEF g
  <2>4. ar'[g] # ar[g]
    <3>1. ar[g] \in Seq(AddressPayload) /\ ar'[g] = Tail(ar[g])
      BY <1>1, <2>1, <2>3
    <3> QED BY <2>3, <3>1, TailIsShorter
  <2> QED BY <1>1, <1>3, <2>1, <2>3, <2>4, OthersMoveUp
<1> QED BY <1>2, <1>3 DEF MovesUp

(* Round robin does not let a waiting port be overtaken without bound:     *)
(* each grant to another port brings it nearer to its own.                 *)
THEOREM FabricMovesWaitingPortsUp ==
  Spec => WaitingPortsMoveUp
<1>1. IInv /\ [Next]_vars =>
        [Arbitrates => MovesUp(aw, next_aw_port) /\ MovesUp(ar, next_ar_port)]_vars
  BY OnlyArbitrationArbitrates, ArbitrationMovesUp
<1> QED BY <1>1, FabricInvariant, PTL DEF Spec, WaitingPortsMoveUp
=============================================================================
