-------------------------------- MODULE Connect --------------------------------
(***************************************************************************)
(* Platform::connect of src/platform.cpp: it wires the sideband signals of *)
(* the devices and puts the devices in the order in which settle visits    *)
(* them, by removing devices without unvisited drivers one after another.  *)
(*                                                                         *)
(* A connection runs from the output of a device to an input of a device;  *)
(* whether the two signals exist and agree in width is one bit, `fits'.    *)
(***************************************************************************)
EXTENDS Integers, Sequences, FiniteSets

VARIABLES
  spec,         \* the PlatformSpec, with its devices and connections
  pc,
  wired,        \* connections already handled
  driven,       \* inputs that have a source
  successors, indegree, order,
  i, j          \* position in order_, and in the successors of that device

connectVars == <<wired, driven, successors, indegree, order, i, j>>

Device == {spec.devices[k].id : k \in DOMAIN spec.devices}

ConnectInit ==
  /\ wired = 0 /\ driven = {}
  /\ successors = <<>> /\ indegree = <<>>
  /\ order = <<>> /\ i = 1 /\ j = 1

-----------------------------------------------------------------------------
(* connect is called: every device has no driver yet.                      *)
Enter ==
  /\ pc = "connect"
  /\ pc' = "wire"
  /\ successors' = [d \in Device |-> <<>>]
  /\ indegree' = [d \in Device |-> 0]
  /\ UNCHANGED <<wired, driven, order, i, j>>

(* Both devices and signals exist, and the input has no driver yet.        *)
Accepts(c) == /\ {c.source, c.destination} \subseteq Device
              /\ c.fits
              /\ <<c.destination, c.port>> \notin driven

(* The first loop: one connection.                                         *)
Wire ==
  /\ pc = "wire" /\ wired < Len(spec.connections)
  /\ LET c == spec.connections[wired + 1]
     IN  /\ Accepts(c)
         /\ driven' = driven \cup {<<c.destination, c.port>>}
         /\ successors' = [successors EXCEPT ![c.source] = Append(@, c.destination)]
         /\ indegree' = [indegree EXCEPT ![c.destination] = @ + 1]
  /\ wired' = wired + 1
  /\ UNCHANGED <<pc, order, i, j>>

BadConnection ==
  /\ pc = "wire" /\ wired < Len(spec.connections)
  /\ ~Accepts(spec.connections[wired + 1])

(* The devices nothing drives, in the order of the specification.          *)
Roots ==
  /\ pc = "wire" /\ wired = Len(spec.connections)
  /\ LET ids == [k \in DOMAIN spec.devices |-> spec.devices[k].id]
     IN  order' = SelectSeq(ids, LAMBDA d : indegree[d] = 0)
  /\ pc' = "sort"
  /\ UNCHANGED <<wired, driven, successors, indegree, i, j>>

(* A driver of `next' is in the order; with its last one, `next' follows.  *)
(* Mutant: with its first one.                                             *)
ReadyAtFirst(next) == \A k \in DOMAIN order : order[k] # next
Ready(next) == indegree[next] = 1

Visit ==
  /\ pc = "sort" /\ i <= Len(order) /\ j <= Len(successors[order[i]])
  /\ LET next == successors[order[i]][j]
     IN  /\ indegree' = [indegree EXCEPT ![next] = @ - 1]
         /\ order' = IF Ready(next) THEN Append(order, next) ELSE order
  /\ j' = j + 1
  /\ UNCHANGED <<pc, wired, driven, successors, i>>

NextDevice ==
  /\ pc = "sort" /\ i <= Len(order) /\ j > Len(successors[order[i]])
  /\ i' = i + 1
  /\ j' = 1
  /\ UNCHANGED <<pc, wired, driven, successors, indegree, order>>

Cycle == pc = "sort" /\ i > Len(order) /\ Len(order) # Cardinality(Device)

Ordered ==
  /\ pc = "sort" /\ i > Len(order) /\ Len(order) = Cardinality(Device)
  /\ pc' = "plan"
  /\ UNCHANGED connectVars

ConnectNext == Enter \/ Wire \/ Roots \/ Visit \/ NextDevice \/ Ordered
=============================================================================
