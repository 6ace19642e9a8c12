----------------------------- MODULE StartupProofs -----------------------------
(***************************************************************************)
(* The address map for any number of mappings at any 64-bit addresses, in  *)
(* any order: the two neighbours that map looks at decide about overlap,   *)
(* the vector stays sorted and disjoint, and the one mapping that resolve  *)
(* looks at is the one that holds the range.  Then the same of the map     *)
(* that the constructor of Platform builds.                                *)
(***************************************************************************)
EXTENDS Startup, WellFoundedInduction, TLAPS

(* MappingSpec and AddressSpace::Mapping: the fields are std::uint64_t.    *)
Mapping == [base : Nat, size : Nat, device : STRING]

(* map lets no empty mapping in.                                           *)
Solid(ms) == \A k \in 1 .. Len(ms) : ms[k].size # 0

LEMMA Fields ==
  ASSUME NEW m \in Mapping
  PROVE  m.base \in Nat /\ m.size \in Nat /\ End(m) = m.base + m.size /\ End(m) \in Nat
BY DEF Mapping, End

LEMMA MinIsLeast ==
  ASSUME NEW S \in SUBSET Nat, S # {}
  PROVE  Min(S) \in S /\ \A n \in S : Min(S) <= n
<1>1. PICK m \in S : \A n \in S : ~(<<n, m>> \in OpToRel(<, Nat))
  BY WFMin, NatLessThanWellFounded
<1>2. \A n \in S : ~(n < m)
  BY <1>1 DEF OpToRel
<1>3. \A n \in S : m <= n
  BY <1>2
<1> QED BY <1>3, Zenon DEF Min

(* Where the two searches end.                                             *)
LEMMA LowerBoundIs ==
  ASSUME NEW ms \in Seq(Mapping), NEW a \in Nat
  PROVE  /\ LowerBound(ms, a) \in 1 .. Len(ms) + 1
         /\ \A k \in 1 .. Len(ms) : k < LowerBound(ms, a) => ms[k].base < a
         /\ LowerBound(ms, a) <= Len(ms) => ms[LowerBound(ms, a)].base >= a
<1> DEFINE S == {k \in 1 .. Len(ms) : ms[k].base >= a} \cup {Len(ms) + 1}
<1>1. S \in SUBSET Nat /\ S # {} /\ S \subseteq 1 .. Len(ms) + 1
  OBVIOUS
<1>2. LowerBound(ms, a) \in S /\ \A n \in S : LowerBound(ms, a) <= n
  BY <1>1, MinIsLeast, Zenon DEF LowerBound
<1>3. ASSUME NEW k \in 1 .. Len(ms) PROVE ms[k].base \in Nat
  BY Fields
<1>4. ASSUME NEW k \in 1 .. Len(ms), k < LowerBound(ms, a)
      PROVE  ms[k].base < a
  <2>1. k \notin S
    BY <1>1, <1>2, <1>4
  <2> QED BY <1>3, <2>1
<1> QED BY <1>1, <1>2, <1>4

LEMMA UpperBoundIs ==
  ASSUME NEW ms \in Seq(Mapping), NEW a \in Nat
  PROVE  /\ UpperBound(ms, a) \in 1 .. Len(ms) + 1
         /\ \A k \in 1 .. Len(ms) : k < UpperBound(ms, a) => ms[k].base <= a
         /\ UpperBound(ms, a) <= Len(ms) => ms[UpperBound(ms, a)].base > a
<1> DEFINE S == {k \in 1 .. Len(ms) : ms[k].base > a} \cup {Len(ms) + 1}
<1>1. S \in SUBSET Nat /\ S # {} /\ S \subseteq 1 .. Len(ms) + 1
  OBVIOUS
<1>2. UpperBound(ms, a) \in S /\ \A n \in S : UpperBound(ms, a) <= n
  BY <1>1, MinIsLeast, Zenon DEF UpperBound
<1>3. ASSUME NEW k \in 1 .. Len(ms) PROVE ms[k].base \in Nat
  BY Fields
<1>4. ASSUME NEW k \in 1 .. Len(ms), k < UpperBound(ms, a)
      PROVE  ms[k].base <= a
  <2>1. k \notin S
    BY <1>1, <1>2, <1>4
  <2> QED BY <1>3, <2>1
<1> QED BY <1>1, <1>2, <1>4

-----------------------------------------------------------------------------
(* Two mappings share a byte.                                              *)
Meet(m, n) == m.base < End(n) /\ n.base < End(m)

(* map looks at the two neighbours only, and that is enough: it refuses a  *)
(* mapping exactly when it shares a byte with one that is there.           *)
THEOREM OverlapsIsExact ==
  ASSUME NEW ms \in Seq(Mapping), Solid(ms), Disjoint(ms), NEW m \in Mapping, m.size # 0
  PROVE  Overlaps(ms, m) <=> \E k \in 1 .. Len(ms) : Meet(ms[k], m)
<1> DEFINE p == LowerBound(ms, m.base)
<1>0. /\ \A k \in 1 .. Len(ms) : ms[k].base \in Nat /\ End(ms[k]) \in Nat /\ ms[k].base < End(ms[k])
      /\ m.base \in Nat /\ End(m) \in Nat /\ m.base < End(m)
  <2>1. ASSUME NEW k \in 1 .. Len(ms)
        PROVE  ms[k].base \in Nat /\ End(ms[k]) \in Nat /\ ms[k].base < End(ms[k])
    BY Fields DEF Solid
  <2> QED BY <2>1, Fields
<1>1. /\ p \in 1 .. Len(ms) + 1
      /\ \A k \in 1 .. Len(ms) : k < p => ms[k].base < m.base
      /\ p <= Len(ms) => ms[p].base >= m.base
  BY <1>0, LowerBoundIs
<1>2. Overlaps(ms, m) <=> \/ p # 1 /\ End(ms[p - 1]) > m.base
                          \/ p <= Len(ms) /\ End(m) > ms[p].base
  BY DEF Overlaps
<1> HIDE DEF p
<1>3. ASSUME p # 1, End(ms[p - 1]) > m.base
      PROVE  \E k \in 1 .. Len(ms) : Meet(ms[k], m)
  <2>1. p - 1 \in 1 .. Len(ms) /\ ms[p - 1].base < m.base
    BY <1>1, <1>3
  <2> QED BY <1>0, <1>3, <2>1 DEF Meet
<1>4. ASSUME p <= Len(ms), End(m) > ms[p].base
      PROVE  \E k \in 1 .. Len(ms) : Meet(ms[k], m)
  <2>1. p \in 1 .. Len(ms) /\ ms[p].base >= m.base
    BY <1>1, <1>4
  <2> QED BY <1>0, <1>4, <2>1 DEF Meet
<1>5. ASSUME NEW k \in 1 .. Len(ms), Meet(ms[k], m), k < p
      PROVE  p # 1 /\ End(ms[p - 1]) > m.base
  <2>1. p # 1 /\ p - 1 \in 1 .. Len(ms) /\ k <= p - 1 /\ ms[p - 1].base < m.base
    BY <1>1, <1>5
  <2>2. k < p - 1 => End(ms[k]) <= ms[p - 1].base
    BY <2>1 DEF Disjoint
  <2> QED BY <1>0, <1>5, <2>1, <2>2 DEF Meet
<1>6. ASSUME NEW k \in 1 .. Len(ms), Meet(ms[k], m), ~(k < p)
      PROVE  p <= Len(ms) /\ End(m) > ms[p].base
  <2>1. p \in 1 .. Len(ms) /\ p <= k
    BY <1>1, <1>6
  <2>2. p < k => End(ms[p]) <= ms[k].base
    BY <2>1 DEF Disjoint
  <2> QED BY <1>0, <1>6, <2>1, <2>2 DEF Meet
<1> QED BY <1>2, <1>3, <1>4, <1>5, <1>6

-----------------------------------------------------------------------------
LEMMA InsertedIs ==
  ASSUME NEW ms \in Seq(Mapping), NEW m \in Mapping
  PROVE  LET p == LowerBound(ms, m.base)
             ns == Inserted(ms, m)
         IN  /\ ns \in Seq(Mapping) /\ Len(ns) = Len(ms) + 1 /\ p \in 1 .. Len(ms) + 1
             /\ \A k \in 1 .. p - 1 : ns[k] = ms[k]
             /\ ns[p] = m
             /\ \A k \in p + 1 .. Len(ms) + 1 : ns[k] = ms[k - 1]
<1> DEFINE p == LowerBound(ms, m.base)
           a == SubSeq(ms, 1, p - 1)
           b == SubSeq(ms, p, Len(ms))
<1>1. p \in 1 .. Len(ms) + 1
  BY Fields, LowerBoundIs
<1> HIDE DEF p
<1>2. a \in Seq(Mapping) /\ Len(a) = p - 1 /\ \A k \in 1 .. p - 1 : a[k] = ms[k]
  BY <1>1
<1>3. /\ b \in Seq(Mapping) /\ Len(b) = Len(ms) + 1 - p
      /\ \A k \in 1 .. Len(ms) + 1 - p : b[k] = ms[p + k - 1]
  BY <1>1
<1> HIDE DEF a, b
<1> DEFINE c == a \o <<m>>
<1>4. c \in Seq(Mapping) /\ Len(c) = p /\ (\A k \in 1 .. p - 1 : c[k] = ms[k]) /\ c[p] = m
  BY <1>1, <1>2
<1> HIDE DEF c
<1> DEFINE ns == c \o b
<1>5. ns \in Seq(Mapping) /\ Len(ns) = Len(ms) + 1
  <2>1. ns \in Seq(Mapping) /\ Len(ns) = Len(c) + Len(b)
    BY <1>3, <1>4
  <2> QED BY <1>1, <1>3, <1>4, <2>1
<1>6. \A k \in 1 .. p : ns[k] = c[k]
  BY <1>1, <1>3, <1>4
<1>7. ASSUME NEW k \in p + 1 .. Len(ms) + 1 PROVE ns[k] = ms[k - 1]
  <2>1. k - p \in 1 .. Len(ms) + 1 - p /\ ns[k] = b[k - p]
    BY <1>1, <1>3, <1>4
  <2> QED BY <1>1, <1>3, <2>1
<1>8. Inserted(ms, m) = ns
  BY DEF Inserted, ns, c, a, b, p
<1> HIDE DEF ns
<1>9. /\ \A k \in 1 .. p - 1 : ns[k] = ms[k]
      /\ ns[p] = m
  BY <1>1, <1>4, <1>6
<1> QED BY <1>1, <1>5, <1>7, <1>8, <1>9 DEF p

(* A mapping that meets none keeps the vector sorted and disjoint, and     *)
(* adds itself only.                                                       *)
LEMMA InsertKeepsDisjoint ==
  ASSUME NEW ms \in Seq(Mapping), Solid(ms), Disjoint(ms), NEW m \in Mapping, m.size # 0,
         ~Overlaps(ms, m)
  PROVE  /\ Inserted(ms, m) \in Seq(Mapping)
         /\ Solid(Inserted(ms, m)) /\ Disjoint(Inserted(ms, m))
         /\ Range(Inserted(ms, m)) = Range(ms) \cup {m}
<1> DEFINE p  == LowerBound(ms, m.base)
           ns == Inserted(ms, m)
<1>1. /\ ns \in Seq(Mapping) /\ Len(ns) = Len(ms) + 1 /\ p \in 1 .. Len(ms) + 1
      /\ \A k \in 1 .. p - 1 : ns[k] = ms[k]
      /\ ns[p] = m
      /\ \A k \in p + 1 .. Len(ms) + 1 : ns[k] = ms[k - 1]
  BY InsertedIs
<1>2. /\ p # 1 => End(ms[p - 1]) <= m.base
      /\ p <= Len(ms) => End(m) <= ms[p].base
  <2>1. /\ p # 1 => ~(End(ms[p - 1]) > m.base)
        /\ p <= Len(ms) => ~(End(m) > ms[p].base)
    BY DEF Overlaps
  <2>2. /\ m.base \in Nat /\ End(m) \in Nat
        /\ p # 1 => p - 1 \in 1 .. Len(ms)
        /\ p <= Len(ms) => p \in 1 .. Len(ms)
    BY <1>1, Fields
  <2>3. \A k \in 1 .. Len(ms) : ms[k].base \in Nat /\ End(ms[k]) \in Nat
    BY Fields
  <2> HIDE DEF p
  <2> QED BY <2>1, <2>2, <2>3
<1> HIDE DEF p, ns
<1>3. \A k \in 1 .. Len(ms) + 1 :
        \/ k < p /\ k \in 1 .. Len(ms) /\ ns[k] = ms[k]
        \/ k = p /\ ns[k] = m
        \/ k > p /\ k - 1 \in 1 .. Len(ms) /\ ns[k] = ms[k - 1]
  BY <1>1
<1>4. Solid(ns)
  BY <1>1, <1>3 DEF Solid
<1>5. /\ \A k \in 1 .. Len(ms) : /\ ms[k].base \in Nat /\ End(ms[k]) \in Nat
                                 /\ ms[k].base <= End(ms[k])
      /\ m.base \in Nat /\ End(m) \in Nat /\ m.base <= End(m)
  <2>1. ASSUME NEW k \in 1 .. Len(ms)
        PROVE  ms[k].base \in Nat /\ End(ms[k]) \in Nat /\ ms[k].base <= End(ms[k])
    BY Fields
  <2> QED BY <2>1, Fields
<1>6. \A k \in 1 .. Len(ms) : k < p => End(ms[k]) <= m.base
  <2> SUFFICES ASSUME NEW k \in 1 .. Len(ms), k < p PROVE End(ms[k]) <= m.base
    OBVIOUS
  <2>1. p # 1 /\ p - 1 \in 1 .. Len(ms) /\ (k = p - 1 \/ k < p - 1)
    BY <1>1
  <2>2. k < p - 1 => End(ms[k]) <= ms[p - 1].base
    BY <2>1 DEF Disjoint
  <2> QED BY <1>2, <1>5, <2>1, <2>2
<1>7. \A k \in 1 .. Len(ms) : k >= p => End(m) <= ms[k].base
  <2> SUFFICES ASSUME NEW k \in 1 .. Len(ms), k >= p PROVE End(m) <= ms[k].base
    OBVIOUS
  <2>1. p \in 1 .. Len(ms) /\ (k = p \/ p < k)
    BY <1>1
  <2>2. p < k => End(ms[p]) <= ms[k].base
    BY <2>1 DEF Disjoint
  <2> QED BY <1>2, <1>5, <2>1, <2>2
<1>8. Disjoint(ns)
  <2> SUFFICES ASSUME NEW k \in 1 .. Len(ms) + 1, NEW l \in 1 .. Len(ms) + 1, k < l
               PROVE  End(ns[k]) <= ns[l].base
    BY <1>1 DEF Disjoint
  <2>0. p \in Int /\ k \in Int /\ l \in Int
    BY <1>1
  <2>1. CASE k < p /\ l < p
    BY <1>3, <2>0, <2>1 DEF Disjoint
  <2>2. CASE k < p /\ l = p
    BY <1>3, <1>6, <2>0, <2>2
  <2>3. CASE k < p /\ l > p
    <3>1. ns[k] = ms[k] /\ ns[l] = ms[l - 1] /\ k \in 1 .. Len(ms) /\ l - 1 \in 1 .. Len(ms) /\ k < l - 1
      BY <1>3, <2>0, <2>3
    <3> QED BY <3>1 DEF Disjoint
  <2>4. CASE k = p
    BY <1>3, <1>7, <2>0, <2>4
  <2>5. CASE k > p
    <3>1. /\ ns[k] = ms[k - 1] /\ ns[l] = ms[l - 1] /\ k - 1 \in 1 .. Len(ms)
          /\ l - 1 \in 1 .. Len(ms) /\ k - 1 < l - 1
      BY <1>3, <2>0, <2>5
    <3> QED BY <3>1 DEF Disjoint
  <2> QED BY <2>0, <2>1, <2>2, <2>3, <2>4, <2>5
<1>9. Range(ns) = Range(ms) \cup {m}
  <2>1. DOMAIN ns = 1 .. Len(ms) + 1 /\ DOMAIN ms = 1 .. Len(ms)
    BY <1>1
  <2>2. ASSUME NEW x \in Range(ns) PROVE x \in Range(ms) \cup {m}
    BY <1>3, <2>1, <2>2 DEF Range
  <2>3. ASSUME NEW x \in Range(ms) \cup {m} PROVE x \in Range(ns)
    <3>1. CASE x = m
      BY <1>1, <2>1, <3>1 DEF Range
    <3>2. CASE x \in Range(ms)
      <4>1. PICK k \in 1 .. Len(ms) : x = ms[k]
        BY <2>1, <3>2 DEF Range
      <4>2. CASE k < p
        BY <1>1, <2>1, <4>1, <4>2 DEF Range
      <4>3. CASE k >= p
        <5>1. k + 1 \in p + 1 .. Len(ms) + 1 /\ ns[k + 1] = ms[k] /\ k + 1 \in DOMAIN ns
          BY <1>1, <2>1, <4>1, <4>3
        <5> QED BY <4>1, <5>1 DEF Range
      <4> QED BY <1>1, <4>1, <4>2, <4>3
    <3> QED BY <2>3, <3>1, <3>2
  <2> QED BY <2>2, <2>3
<1> QED BY <1>1, <1>4, <1>8, <1>9 DEF ns

(* resolve looks at one mapping, the last that begins at or below the      *)
(* address: it returns a mapping exactly if that one holds every byte of   *)
(* the range, and no other mapping does.                                   *)
THEOREM ResolveIsExact ==
  ASSUME NEW ms \in Seq(Mapping), Solid(ms), Disjoint(ms), NEW a \in Nat, NEW length \in Nat,
         NEW n \in 1 .. Len(ms)
  PROVE  n = resolve(ms, a, length) <=> Holds(ms[n], a, length)
<1> DEFINE p == UpperBound(ms, a) - 1
<1>1. /\ p \in 0 .. Len(ms)
      /\ \A k \in 1 .. Len(ms) : k <= p => ms[k].base <= a
      /\ p < Len(ms) => ms[p + 1].base > a
  <2>1. /\ UpperBound(ms, a) \in 1 .. Len(ms) + 1
        /\ \A k \in 1 .. Len(ms) : k < UpperBound(ms, a) => ms[k].base <= a
        /\ UpperBound(ms, a) <= Len(ms) => ms[UpperBound(ms, a)].base > a
    BY UpperBoundIs
  <2> QED BY <2>1
<1>2. resolve(ms, a, length) = IF /\ length # 0 /\ p # 0
                                  /\ a >= ms[p].base /\ a < End(ms[p])
                                  /\ length <= End(ms[p]) - a
                               THEN p ELSE 0
  BY DEF resolve
<1> HIDE DEF p
<1>3. /\ \A k \in 1 .. Len(ms) : /\ ms[k].base \in Nat /\ End(ms[k]) \in Nat
                                 /\ ms[k].base <= End(ms[k])
  BY Fields
<1>4. ASSUME n = resolve(ms, a, length) PROVE Holds(ms[n], a, length)
  <2>1. /\ n = p /\ length # 0 /\ ms[n].base <= a /\ length <= End(ms[n]) - a
    BY <1>1, <1>2, <1>3, <1>4
  <2> QED BY <1>3, <2>1 DEF Holds
<1>5. ASSUME Holds(ms[n], a, length) PROVE n = resolve(ms, a, length)
  <2>1. length # 0 /\ ms[n].base <= a /\ a + length <= End(ms[n])
    BY <1>5 DEF Holds
  <2>2. n <= p
    <3> SUFFICES ASSUME p < n PROVE FALSE
      BY <1>1
    <3>1. p + 1 \in 1 .. Len(ms) /\ ms[p + 1].base > a /\ (n = p + 1 \/ p + 1 < n)
      BY <1>1
    <3>2. p + 1 < n => End(ms[p + 1]) <= ms[n].base
      BY <3>1 DEF Disjoint
    <3> QED BY <1>3, <2>1, <3>1, <3>2
  <2>3. n = p
    <3> SUFFICES ASSUME n < p PROVE FALSE
      BY <1>1, <2>2
    <3>1. p \in 1 .. Len(ms) /\ End(ms[n]) <= ms[p].base /\ ms[p].base <= a
      BY <1>1 DEF Disjoint
    <3> QED BY <1>3, <2>1, <3>1
  <2>4. /\ p # 0 /\ a >= ms[p].base /\ a < End(ms[p]) /\ length <= End(ms[p]) - a
    BY <1>3, <2>1, <2>3
  <2> QED BY <1>2, <2>1, <2>3, <2>4
<1> QED BY <1>4, <1>5

-----------------------------------------------------------------------------
(* The constructor of Platform.                                            *)
Out == {"unwind", "unwind host", "done"}

(* The specification has the types of PlatformSpec.                        *)
SpecTyped == spec.mappings \in Seq(Mapping)

(* mappings_ holds exactly the first `mapped' mappings of a specification  *)
(* that no longer changes.                                                 *)
MapInv ==
  /\ mappings_ \in Seq(Mapping) /\ Solid(mappings_) /\ Disjoint(mappings_)
  /\ mapped \in 0 .. Len(spec.mappings)
  /\ Range(mappings_) = {spec.mappings[k] : k \in 1 .. mapped}
  /\ pc = "options" => mapped = 0 /\ mappings_ = <<>>
  /\ pc = "connect" => mapped = Len(spec.mappings)
  /\ pc \notin Out => error = "none"

(* A refusal for overlap is a real one.                                    *)
RealOverlap ==
  error = "overlap" =>
    LET m == spec.mappings[mapped + 1]
    IN  \E k \in 1 .. mapped, a \in m.base .. End(m) - 1 : Holds(spec.mappings[k], a, 1)

(* Steps that leave the specification and the map alone.                   *)
Quiet ==
  /\ UNCHANGED <<spec, mappings_, mapped>>
  /\ pc' = "options" => pc = "options"
  /\ pc' = "connect" => mapped = Len(spec.mappings) \/ pc = "connect"
  /\ pc' \notin Out => pc \notin Out /\ error' = error
  /\ error' = "overlap" => error = "overlap"

LEMMA QuietSteps ==
  ASSUME [Next]_startupVars
  PROVE  Quiet \/ Argument \/ Map \/ BadMapping
<1>1. CASE UNCHANGED startupVars
  BY <1>1 DEF Quiet, startupVars, buildVars, Out
<1>2. CASE BadArgument \/ BadDevice \/ BadImageOption \/ BadRequest \/ BadChunk \/ LoadRejected
           \/ Simulate \/ ConnectFails
  BY <1>2 DEF BadArgument, BadDevice, BadImageOption, BadRequest, BadChunk, LoadRejected, Simulate,
              ConnectFails, Throw, Quiet, buildVars, Out
<1>3. CASE ArgumentsDone \/ Configure \/ Create \/ CreateFails \/ Created
  BY <1>3 DEF ArgumentsDone, Configure, Create, CreateFails, Created, Quiet, buildVars, Out
<1>4. CASE Freeze
  BY <1>4 DEF Freeze, Quiet, buildVars, Out
<1>5. CASE ConnectStep
  BY <1>5 DEF ConnectStep, ConnectNext, Enter, Wire, Roots, Visit, NextDevice, Ordered,
              Quiet, buildVars, Out
<1>6. CASE Plan \/ Preflight \/ LoadPiece \/ Begin
  BY <1>6 DEF Plan, Preflight, LoadPiece, Begin, Planned, Quiet, buildVars, Out
<1>7. CASE DestroyDevices \/ DestroyHost \/ Done
  BY <1>7 DEF DestroyDevices, DestroyHost, Done, startupVars, Quiet, buildVars, Out
<1> QED BY <1>1, <1>2, <1>3, <1>4, <1>5, <1>6, <1>7 DEF Next

LEMMA NextMapping ==
  ASSUME SpecTyped, MapInv, mapped < Len(spec.mappings)
  PROVE  /\ spec.mappings[mapped + 1] \in Mapping
         /\ {spec.mappings[k] : k \in 1 .. mapped + 1}
              = {spec.mappings[k] : k \in 1 .. mapped} \cup {spec.mappings[mapped + 1]}
<1>1. mapped \in Nat /\ mapped + 1 \in 1 .. Len(spec.mappings)
  BY DEF MapInv, SpecTyped
<1>2. 1 .. mapped + 1 = 1 .. mapped \cup {mapped + 1}
  BY <1>1
<1> QED BY <1>1, <1>2 DEF SpecTyped

LEMMA MapStep ==
  ASSUME SpecTyped, MapInv, RealOverlap, Map
  PROVE  MapInv' /\ RealOverlap'
<1> DEFINE m == spec.mappings[mapped + 1]
<1>1. /\ pc = "map" /\ pc' = pc /\ error' = error /\ spec' = spec /\ mapped' = mapped + 1
      /\ mapped < Len(spec.mappings) /\ m.size # 0 /\ ~Overlaps(mappings_, m)
      /\ mappings_' = Inserted(mappings_, m)
  BY DEF Map, Fits, Representable
<1>2. m \in Mapping /\ {spec.mappings[k] : k \in 1 .. mapped + 1}
                         = {spec.mappings[k] : k \in 1 .. mapped} \cup {m}
  BY <1>1, NextMapping
<1>3. mapped \in Nat /\ mapped' \in 0 .. Len(spec.mappings)
  BY <1>1 DEF MapInv, SpecTyped
<1> HIDE DEF m
<1>4. /\ mappings_' \in Seq(Mapping) /\ Solid(mappings_') /\ Disjoint(mappings_')
      /\ Range(mappings_') = Range(mappings_) \cup {m}
  BY <1>1, <1>2, InsertKeepsDisjoint DEF MapInv
<1>5. Range(mappings_') = {spec.mappings[k] : k \in 1 .. mapped'}
  BY <1>1, <1>2, <1>4 DEF MapInv
<1>6. error = "none"
  BY <1>1 DEF MapInv, Out
<1>7. MapInv'
  BY <1>1, <1>3, <1>4, <1>5, <1>6 DEF MapInv
<1> QED BY <1>1, <1>6, <1>7 DEF RealOverlap

LEMMA BadMappingStep ==
  ASSUME SpecTyped, MapInv, RealOverlap, BadMapping
  PROVE  MapInv' /\ RealOverlap'
<1> DEFINE m == spec.mappings[mapped + 1]
<1>1. /\ pc' = "unwind" /\ UNCHANGED <<spec, mapped, mappings_>> /\ mapped < Len(spec.mappings)
      /\ error' = "mapping" \/ (error' = "overlap" /\ m.size # 0 /\ Overlaps(mappings_, m))
  BY DEF BadMapping, Throw, buildVars, Fits, Representable
<1>2. MapInv'
  BY <1>1 DEF MapInv, Out
<1>3. ASSUME error' = "overlap"
      PROVE  \E k \in 1 .. mapped, a \in m.base .. End(m) - 1 : Holds(spec.mappings[k], a, 1)
  <2>1. m \in Mapping
    BY <1>1, NextMapping
  <2>2. PICK l \in 1 .. Len(mappings_) : Meet(mappings_[l], m)
    <3> HIDE DEF m
    <3> QED BY <1>1, <1>3, <2>1, OverlapsIsExact DEF MapInv
  <2>3. mappings_[l] \in Range(mappings_)
    BY DEF MapInv, Range
  <2>4. PICK k \in 1 .. mapped : spec.mappings[k] = mappings_[l]
    BY <2>3 DEF MapInv
  <2> DEFINE n == mappings_[l]
  <2>5. /\ n.base \in Nat /\ n.size \in Nat /\ End(n) \in Nat
        /\ m.base \in Nat /\ m.size \in Nat /\ End(m) \in Nat /\ End(m) = m.base + m.size
    <3>1. n \in Mapping
      BY DEF MapInv
    <3> QED BY <2>1, <3>1, Fields
  <2>6. n.base < End(m) /\ m.base < End(n) /\ m.size # 0 /\ n.size # 0
    BY <1>1, <1>3, <2>2 DEF Meet, MapInv, Solid
  <2> HIDE DEF n, m
  <2>7. \E a \in m.base .. End(m) - 1 : Holds(n, a, 1)
    <3>1. CASE n.base <= m.base
      <4>1. m.base \in m.base .. End(m) - 1 /\ m.base + 1 <= End(n)
        BY <2>5, <2>6
      <4> QED BY <3>1, <4>1 DEF Holds
    <3>2. CASE m.base < n.base
      <4>1. n.base \in m.base .. End(m) - 1
        BY <2>5, <2>6, <3>2
      <4>2. n.base <= n.base /\ n.base + 1 <= End(n)
        <5>1. End(n) = n.base + n.size
          BY DEF End
        <5> QED BY <2>5, <2>6, <3>2, <5>1
      <4> QED BY <4>1, <4>2 DEF Holds
    <3> QED BY <2>5, <3>1, <3>2
  <2>8. spec.mappings[k] = n
    BY <2>4 DEF n
  <2> QED BY <2>7, <2>8
<1>4. RealOverlap'
  BY <1>1, <1>3, Zenon DEF RealOverlap
<1> QED BY <1>2, <1>4

LEMMA NextKeepsMap ==
  SpecTyped /\ SpecTyped' /\ MapInv /\ RealOverlap /\ [Next]_startupVars => MapInv' /\ RealOverlap'
<1> SUFFICES ASSUME SpecTyped, SpecTyped', MapInv, RealOverlap, [Next]_startupVars
             PROVE  MapInv' /\ RealOverlap'
  OBVIOUS
<1>1. CASE Quiet
  <2>1. MapInv'
    BY <1>1 DEF Quiet, MapInv
  <2>2. RealOverlap'
    BY <1>1, Zenon DEF Quiet, RealOverlap
  <2> QED BY <2>1, <2>2
<1>2. CASE Argument
  <2>1. /\ pc = "options" /\ pc' = pc /\ error' = error
        /\ mappings_' = mappings_ /\ mapped' = mapped
    BY <1>2 DEF Argument, buildVars
  <2>2. mapped = 0 /\ error = "none" /\ mappings_ = <<>>
    BY <2>1 DEF MapInv, Out
  <2>3. 0 \in 0 .. Len(spec'.mappings)
    BY DEF SpecTyped
  <2>4. {spec'.mappings[k] : k \in 1 .. 0} = Range(mappings_)
    <3>1. Range(mappings_) = {} /\ 1 .. 0 = {}
      BY <2>2 DEF Range
    <3> QED BY <3>1
  <2>5. MapInv'
    BY <2>1, <2>2, <2>3, <2>4 DEF MapInv
  <2> QED BY <2>1, <2>2, <2>5 DEF RealOverlap
<1>3. CASE Map
  BY <1>3, MapStep
<1>4. CASE BadMapping
  BY <1>4, BadMappingStep
<1> QED BY <1>1, <1>2, <1>3, <1>4, QuietSteps

LEMMA InitMap == SpecTyped /\ Init => MapInv /\ RealOverlap
<1> SUFFICES ASSUME SpecTyped, Init PROVE MapInv /\ RealOverlap
  OBVIOUS
<1>1. /\ mappings_ = <<>> /\ mapped = 0 /\ pc = "options" /\ error = "none"
  BY DEF Init
<1>2. Range(mappings_) = {} /\ 1 .. 0 = {} /\ 0 \in 0 .. Len(spec.mappings)
  BY <1>1 DEF Range, SpecTyped
<1>3. Solid(mappings_) /\ Disjoint(mappings_) /\ mappings_ \in Seq(Mapping)
  BY <1>1 DEF Solid, Disjoint
<1> QED BY <1>1, <1>2, <1>3 DEF MapInv, RealOverlap

LEMMA MapImpliesExact ==
  ASSUME SpecTyped, MapInv, RealOverlap, Top \in Nat
  PROVE  AddressMapIsExact
<1>1. ASSUME pc = "connect" PROVE Range(mappings_) = Range(spec.mappings)
  <2>1. DOMAIN spec.mappings = 1 .. mapped
    BY <1>1 DEF MapInv, SpecTyped
  <2> QED BY <2>1 DEF MapInv, Range
<1>2. ASSUME NEW address \in 0 .. Top, NEW length \in 0 .. Top, NEW n \in DOMAIN mappings_
      PROVE  n = resolve(mappings_, address, length) <=> Holds(mappings_[n], address, length)
  <2>1. address \in Nat /\ length \in Nat /\ n \in 1 .. Len(mappings_)
    BY DEF MapInv
  <2> QED BY <2>1, ResolveIsExact DEF MapInv
<1>3. Disjoint(mappings_)
  BY DEF MapInv
<1> QED BY <1>1, <1>2, <1>3, Zenon DEF AddressMapIsExact, RealOverlap

(* Whatever mappings a platform and its command line name, at whatever     *)
(* 64-bit addresses and in whatever order: the map that the constructor    *)
(* builds is disjoint and complete, resolve is exact on it, and only a     *)
(* mapping that shares a byte with an earlier one is refused as            *)
(* overlapping.                                                            *)
THEOREM StartupMapIsExact == Spec /\ []SpecTyped => []AddressMapIsExact
<1>1. SpecTyped /\ MapInv /\ RealOverlap => AddressMapIsExact
  BY MapImpliesExact, AddressMapAssumption
<1> QED BY <1>1, InitMap, NextKeepsMap, PTL DEF Spec
=============================================================================
