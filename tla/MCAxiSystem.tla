------------------------------ MODULE MCAxiSystem ------------------------------
(***************************************************************************)
(* Small instances of AxiSystem: one-byte beats, a RAM of two bytes in a   *)
(* window of three (the third is refused by the device), an exit register  *)
(* and unmapped addresses.  Each set of plans is a scenario of a run.      *)
(***************************************************************************)
EXTENDS AxiSystem, TLC

MCMappings == {[base |-> 0, size |-> 3, device |-> "ram"],
               [base |-> 4, size |-> 1, device |-> "exit"]}
MCKind     == [d \in {"ram", "exit"} |-> d]
MCCapacity == [d \in {"ram", "exit"} |-> IF d = "ram" THEN 2 ELSE 1]
MCZero     == <<>>

Burst(id, address, beats, lock) ==
  [id |-> id, address |-> address, length |-> beats - 1, size |-> 0,
   burst |-> "INCR", lock |-> lock, attr |-> 0]

W(payload)          == [payload |-> payload, strobe |-> "lanes", last |-> "final", after |-> 0]
WAfter(payload, n)  == [W(payload) EXCEPT !.after = n]
R(payload)          == [payload |-> payload, after |-> 0]
RAfter(payload, n)  == [payload |-> payload, after |-> n]
Plan(writes, reads) == [writes |-> writes, reads |-> reads]

Payloads == UNION {UNION {{tx.payload : tx \in Range(pl[p].writes) \cup Range(pl[p].reads)}
                            : p \in Port} : pl \in Plans \cup Restarts}

Values == {MCZero} \cup
          {<<e, p, i, k, lane>> : e \in 0 .. MaxEpoch, p \in Port, i \in 1 .. 2,
                                  k \in 0 .. 1, lane \in 0 .. DataBytes - 1}

(* Every beat of every plan, and one for a master that is idle.            *)
WBeats ==
  {[data |-> [lane \in Lanes |-> MCZero], strobe |-> {}, last |-> FALSE]} \cup
  UNION {UNION {UNION {{BeatFor(e, p, i, k, pl[p].writes[i]) :
                          e \in 0 .. MaxEpoch, k \in 0 .. pl[p].writes[i].payload.length}
                         : i \in DOMAIN pl[p].writes}
                  : p \in Port} : pl \in Plans \cup Restarts}

-----------------------------------------------------------------------------
Ports2(zero, one) == (0 :> zero) @@ (1 :> one)

(* Ordering: two writes, or two reads, of one port race with the other.    *)
OrderPlans ==
  {Ports2(Plan(<<W(Burst(0, 0, 2, FALSE)), W(Burst(1, 1, 1, FALSE))>>, <<>>),
          Plan(<<W(Burst(0, 0, 2, FALSE))>>, <<>>)),
   Ports2(Plan(<<>>, <<R(Burst(0, 0, 2, FALSE)), R(Burst(1, 1, 1, FALSE))>>),
          Plan(<<>>, <<R(Burst(0, 0, 2, FALSE))>>)),
   Ports2(Plan(<<W(Burst(0, 0, 2, FALSE))>>, <<R(Burst(1, 0, 2, FALSE))>>),
          Plan(<<W(Burst(0, 0, 1, FALSE))>>, <<>>))}

(* Errors in the middle of a burst, a burst that leaves its mapping, one   *)
(* for a device without bursts, strobes that are off.                      *)
ErrorPlans ==
  {Ports2(Plan(<<W(Burst(0, 1, 2, FALSE)), W(Burst(1, 2, 2, FALSE))>>,
               <<R(Burst(1, 1, 2, FALSE))>>),
          Plan(<<[W(Burst(0, 0, 2, FALSE)) EXCEPT !.strobe = "none"]>>, <<>>)),
   Ports2(Plan(<<W(Burst(0, 1, 2, FALSE)), W(Burst(1, 4, 2, FALSE))>>,
               <<R(Burst(1, 1, 2, FALSE))>>),
          Plan(<<W(Burst(0, 1, 1, FALSE))>>, <<>>))}

(* A load-exclusive, store-exclusive pair against another master that does *)
(* the same, writes a byte of it, or writes next to it.                    *)
Pair(id, address, beats) ==
  Plan(<<WAfter(Burst(id, address, beats, TRUE), 1)>>, <<R(Burst(id, address, beats, TRUE))>>)

ExclusivePlans ==
  {Ports2(Pair(0, 0, 2), y) :
     y \in {Pair(0, 0, 2), Pair(0, 1, 1), Plan(<<W(Burst(0, 1, 1, FALSE))>>, <<>>),
            Plan(<<[W(Burst(0, 1, 1, FALSE)) EXCEPT !.strobe = "none"]>>, <<>>)}}
  \cup
  {Ports2(Plan(<<WAfter(Burst(0, 0, 1, TRUE), 2)>>,
               <<R(Burst(0, 0, 2, TRUE)), R(Burst(0, 0, 1, TRUE))>>),
          Plan(<<W(Burst(0, 1, 1, FALSE))>>, <<>>))}

(* Masters that break a rule: WLAST or an illegal lane, in every beat or   *)
(* in the last one, an illegal burst, an illegal exclusive shape, more     *)
(* reservations than the table holds.                                      *)
FaultPlans ==
  {Ports2(x, Plan(<<W(Burst(0, 0, 2, FALSE))>>, <<>>)) :
     x \in {Plan(<<[W(Burst(0, 0, 2, FALSE)) EXCEPT !.last = last]>>, <<>>) :
              last \in {"wrong", "missing"}} \cup
           {Plan(<<[W(Burst(0, 0, 2, FALSE)) EXCEPT !.strobe = strobe]>>, <<>>) :
              strobe \in {"outside", "late"}} \cup
           {Plan(<<W(Burst(0, 15, 2, FALSE))>>, <<>>),
            Plan(<<>>, <<R([Burst(0, 0, 2, FALSE) EXCEPT !.burst = "RESERVED"])>>),
            Plan(<<>>, <<R(Burst(0, 1, 2, TRUE))>>),
            Plan(<<>>, <<R(Burst(0, 0, 1, TRUE)), R(Burst(1, 0, 1, TRUE)),
                         R(Burst(2, 0, 1, TRUE))>>)}}

(* Reset at any clock, with a burst, a reservation and an exit write open. *)
(* Then a lone exclusive write meets any reservation that survived.        *)
ResetPlans ==
  {Ports2(Plan(<<W(Burst(0, 0, 2, FALSE))>>, <<>>), Pair(0, 0, 1)),
   Ports2(Plan(<<W(Burst(0, 0, 2, FALSE))>>, <<>>), Plan(<<W(Burst(0, 4, 1, FALSE))>>, <<>>))}
RestartPlans ==
  {Ports2(Plan(<<W(Burst(0, 0, 2, FALSE))>>, <<>>), Plan(<<W(Burst(0, 0, 1, TRUE))>>, <<>>))}
NoPlans == {}

(* Two ports write the exit register, one of them twice; one tries a burst *)
(* or an exclusive access that the register refuses.                       *)
ExitPlans ==
  {Ports2(Plan(<<W(Burst(0, 4, 1, FALSE)), W(Burst(1, 4, 1, n = 1))>>, <<>>),
          Plan(<<W(Burst(0, 4, n, FALSE))>>, <<R(Burst(1, 4, 1, FALSE))>>)) : n \in {1, 2}}

(* Bursts whose bytes are not those from their address up.  A second RAM   *)
(* begins at an odd address, in the middle of a bus word and of a wrap     *)
(* container.  A burst wraps to below the base of a mapping, starts below  *)
(* it, wraps into it from above its end, or leaves it at the top; others   *)
(* wrap or start off a word and stay inside.                               *)
EdgeMappings == MCMappings \cup {[base |-> 7, size |-> 3, device |-> "buffer"]}
EdgeKind     == MCKind @@ ("buffer" :> "ram")
EdgeCapacity == MCCapacity @@ ("buffer" :> 3)

Wrap(id, address, size) ==
  [Burst(id, address, 2, FALSE) EXCEPT !.burst = "WRAP", !.size = size]
Wide(id, address, beats) == [Burst(id, address, beats, FALSE) EXCEPT !.size = 1]

EdgePlans ==
  {Ports2(Plan(<<W(x)>>, <<>>), Plan(<<>>, <<R(x)>>)) :
     x \in {Wrap(0, 7, 0), Wrap(0, 10, 1), Wrap(0, 8, 1), Wide(0, 5, 2)}}
  \cup
  {Ports2(Plan(<<W(x)>>, <<>>), Plan(<<W(Wide(0, 9, 1))>>, <<R(x)>>)) :
     x \in {Wrap(0, 1, 0), Wrap(0, 9, 0), Wide(0, 7, 2)}}

TrafficPlans  == OrderPlans \cup ResetPlans
ResponsePlans == EdgePlans \cup ErrorPlans \cup ExclusivePlans \cup ExitPlans \cup FaultPlans

(* The RAM appears in two windows, as docs/platform.md allows: one master  *)
(* reserves through one, the other writes through the other.               *)
AliasMappings == {[base |-> 0, size |-> 2, device |-> "ram"],
                  [base |-> 8, size |-> 2, device |-> "ram"]}
AliasPlans == {Ports2(Pair(0, 0, 1), Plan(<<W(Burst(0, 8, 1, FALSE))>>, <<>>))}

(* An access to an address nobody answers for, ordinary and exclusive.     *)
UnmappedPlans == {Ports2(Plan(<<W(Burst(0, 12, 1, FALSE))>>, <<>>),
                         Plan(<<W(Burst(0, 12, 1, TRUE))>>, <<>>))}

(* Reads and writes of both ports at once.                                 *)
LivePlans ==
  {Ports2(Plan(<<W(Burst(0, 0, 2, FALSE))>>, <<>>),
          Plan(<<WAfter(Burst(0, 1, 1, FALSE), 1)>>, <<R(Burst(1, 0, 2, FALSE))>>)),
   Ports2(Pair(0, 0, 1), Plan(<<W(Burst(0, 8, 2, FALSE))>>, <<RAfter(Burst(0, 4, 2, FALSE), 1)>>))}
=============================================================================
