------------------------------- MODULE AddressMap -------------------------------
(***************************************************************************)
(* AddressSpace::map and resolve of src/devices.cpp on the sorted vector   *)
(* mappings_.  A mapping is a record with base, size and device; the name  *)
(* of a mapping is the id of its device.  A pointer to a mapping is its    *)
(* position, and 0 the null pointer.                                       *)
(***************************************************************************)
EXTENDS Integers, Sequences, FiniteSetsExt

CONSTANT Top  \* the largest std::uint64_t

ASSUME AddressMapAssumption == Top \in Nat

End(m) == m.base + m.size

(* std::ranges::lower_bound and upper_bound: the first position that is    *)
(* not below, or above, the address; one past the end if there is none.    *)
LowerBound(ms, a) == Min({k \in 1 .. Len(ms) : ms[k].base >= a} \cup {Len(ms) + 1})
UpperBound(ms, a) == Min({k \in 1 .. Len(ms) : ms[k].base > a} \cup {Len(ms) + 1})

(* The new mapping meets one of its neighbours.  Mutant: only the next one *)
(* is looked at.                                                           *)
OverlapsNext(ms, m) ==
  LET p == LowerBound(ms, m.base)
  IN  p <= Len(ms) /\ End(m) > ms[p].base
Overlaps(ms, m) ==
  LET p == LowerBound(ms, m.base)
  IN  \/ p # 1 /\ End(ms[p - 1]) > m.base
      \/ p <= Len(ms) /\ End(m) > ms[p].base

Representable(m) == m.size # 0 /\ m.size <= Top - m.base

Inserted(ms, m) ==
  LET p == LowerBound(ms, m.base)
  IN  SubSeq(ms, 1, p - 1) \o <<m>> \o SubSeq(ms, p, Len(ms))

resolve(ms, address, length) ==
  LET p == UpperBound(ms, address) - 1
  IN  IF /\ length # 0 /\ p # 0
         /\ address >= ms[p].base /\ address < End(ms[p])
         /\ length <= End(ms[p]) - address
      THEN p ELSE 0

-----------------------------------------------------------------------------
(* What map keeps true of mappings_: in the order of their bases, and      *)
(* without a common byte.                                                  *)
Disjoint(ms) == \A k, l \in 1 .. Len(ms) : k < l => End(ms[k]) <= ms[l].base

(* What resolve is for: the mapping that holds every byte of the range.    *)
Holds(m, address, length) ==
  length # 0 /\ m.base <= address /\ address + length <= End(m)
=============================================================================
