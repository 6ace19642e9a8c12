--------------------------- MODULE BurstCursorProofs ---------------------------
(***************************************************************************)
(* Facts about the burst arithmetic that hold for every bus width and      *)
(* every payload, and that the proofs about the fabric rest on.            *)
(***************************************************************************)
EXTENDS BurstCursor, FiniteSetsExt, WellFoundedInduction, TLAPS

(* A nonempty set of naturals has a least element.                         *)
LEMMA LeastNatural ==
  ASSUME NEW S \in SUBSET Nat, S # {}
  PROVE  \E x \in S : \A y \in S : x <= y
<1>1. PICK x \in S : \A y \in S : ~ (<<y, x>> \in OpToRel(<, Nat))
  BY WFMin, NatLessThanWellFounded
<1>2. ASSUME NEW y \in S, y < x PROVE <<y, x>> \in OpToRel(<, Nat)
  <2>1. <<y, x>> \in Nat \X Nat /\ <<y, x>>[1] = y /\ <<y, x>>[2] = x
    OBVIOUS
  <2> QED BY <2>1, <1>2, Zenon DEF OpToRel
<1>3. \A y \in S : ~(y < x)
  BY <1>1, <1>2
<1> QED BY <1>3

LEMMA MinOfNaturals ==
  ASSUME NEW S \in SUBSET Nat, S # {}
  PROVE  Min(S) \in S /\ \A y \in S : Min(S) <= y
BY LeastNatural, Zenon DEF Min

(* A nonempty set of lanes has a greatest element: the least one seen from *)
(* the other end of the bus.                                               *)
LEMMA MaxOfLanes ==
  ASSUME NEW S \in SUBSET Lanes, S # {}
  PROVE  Max(S) \in S /\ \A y \in S : Max(S) >= y
<1> DEFINE T == {DataBytes - 1 - x : x \in S}
<1>1. T \in SUBSET Nat /\ T # {}
  <2>1. \A x \in S : DataBytes - 1 - x \in Nat
    BY BurstAssumption DEF Lanes
  <2> QED BY <2>1, Zenon
<1>2. PICK t \in T : \A y \in T : t <= y
  BY <1>1, LeastNatural
<1>3. PICK x \in S : t = DataBytes - 1 - x
  BY <1>2
<1>4. \A y \in S : x >= y
  <2> TAKE y \in S
  <2>1. DataBytes - 1 - y \in T
    OBVIOUS
  <2>2. t <= DataBytes - 1 - y
    BY <1>2, <2>1
  <2> QED BY <1>3, <2>2, BurstAssumption DEF Lanes
<1> QED BY <1>3, <1>4, Zenon DEF Max

(* What a payload is.                                                      *)
IsPayload(p) ==
  /\ p.address \in Nat
  /\ p.length \in Nat
  /\ p.size \in AxSize
  /\ p.burst \in BurstType

LEMMA AlignDownIsInt ==
  ASSUME NEW x \in Int, NEW n \in Nat \ {0}
  PROVE  AlignDown(x, n) \in Int
BY DEF AlignDown

LEMMA BeatsPositive ==
  ASSUME NEW p, IsPayload(p)
  PROVE  Beats(p) \in Nat \ {0} /\ BeatBytes(p) \in Nat \ {0}
BY PowersArePositive DEF IsPayload, Beats, BeatBytes

LEMMA ProductPositive ==
  ASSUME NEW m \in Nat \ {0}, NEW n \in Nat \ {0}
  PROVE  m * n \in Nat \ {0}
OBVIOUS

(* Every beat of every payload has an integer address.                     *)
LEMMA BusWordIsInt ==
  ASSUME NEW p, IsPayload(p), NEW i \in Nat
  PROVE  WideBeatAddress(p, i) \in Int /\ BusWordAddress(p, i) \in Int
<1> DEFINE bytes == BeatBytes(p)
           boundary == Beats(p) * bytes
<1>1. bytes \in Nat \ {0} /\ boundary \in Nat \ {0}
  BY BeatsPositive, ProductPositive
<1>2. p.address \in Int /\ i * bytes \in Int
  BY <1>1 DEF IsPayload
<1>3. AlignDown(p.address, boundary) \in Int /\ AlignDown(p.address, bytes) \in Int
  BY <1>1, <1>2, AlignDownIsInt
<1> DEFINE base == AlignDown(p.address, boundary)
           start == AlignDown(p.address, bytes)
           step == i * bytes
<1>4. WideBeatAddress(p, i) \in
        {p.address, start + step, base + ((p.address - base + step) % boundary), AddressModulus}
  BY DEF WideBeatAddress, IsPayload, BurstType
<1> HIDE DEF base, start, step, boundary, bytes
<1>5. base \in Int /\ start \in Int /\ step \in Int /\ boundary \in Nat \ {0}
  BY <1>1, <1>2, <1>3 DEF base, start, step
<1>6. (p.address - base + step) % boundary \in Int
  BY <1>2, <1>5
<1>7. WideBeatAddress(p, i) \in Int
  BY <1>2, <1>4, <1>5, <1>6, BurstAssumption
<1> QED BY <1>7, AlignDownIsInt, BurstAssumption DEF BusWordAddress

LEMMA LaneMaskType ==
  ASSUME NEW p, NEW i
  PROVE  LaneMask(p, i) \in SUBSET Lanes
BY DEF LaneMask

LEMMA BeatInBurst ==
  ASSUME NEW p, NEW i \in 0 .. p.length, NEW lane \in LaneMask(p, i)
  PROVE  BusWordAddress(p, i) + lane \in BurstBytes(p)
BY DEF BurstBytes, BeatBytesAt
=============================================================================
