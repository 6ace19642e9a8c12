------------------------------- MODULE PlicProofs -------------------------------
(***************************************************************************)
(* The PLIC with any number of sources and contexts and any priorities:    *)
(* its lines are never stale, a source has at most one request, and        *)
(* requests are not retracted.                                             *)
(***************************************************************************)
EXTENDS Plic, WellFoundedInduction, TLAPS

LEMMA SomeLeast ==
  ASSUME NEW S \in SUBSET Nat, S # {}
  PROVE  \E m \in S : \A n \in S : m <= n
<1>1. PICK m \in S : \A n \in S : ~(<<n, m>> \in OpToRel(<, Nat))
  BY WFMin, NatLessThanWellFounded
<1>2. \A n \in S : ~(n < m)
  BY <1>1 DEF OpToRel
<1> QED BY <1>2

(* A set of sources has one that beats all others under any priorities.    *)
LEMMA SomeBest ==
  ASSUME NEW C \in SUBSET Source, C # {}, NEW p \in [Source -> Priority]
  PROVE  \E s \in C : \A t \in C : p[s] > p[t] \/ (p[s] = p[t] /\ s <= t)
<1> DEFINE Gap == {MaxPriority - p[s] : s \in C}
           Top == {s \in C : \A t \in C : p[s] >= p[t]}
<1>1. C \subseteq Nat /\ \A s \in C : p[s] \in Nat /\ MaxPriority - p[s] \in Nat
  BY PlicAssumption DEF Source, Priority
<1>2. Gap \in SUBSET Nat /\ Gap # {}
  BY <1>1
<1>3. PICK g \in Gap : \A h \in Gap : g <= h
  BY <1>2, SomeLeast
<1>4. PICK s \in C : g = MaxPriority - p[s]
  BY <1>3
<1>5. \A t \in C : MaxPriority - p[s] <= MaxPriority - p[t]
  BY <1>3, <1>4
<1>6. \A t \in C : p[s] >= p[t]
  BY <1>1, <1>5, PlicAssumption
<1>7. Top \in SUBSET Nat /\ Top # {}
  BY <1>1, <1>6
<1>8. PICK m \in Top : \A n \in Top : m <= n
  BY <1>7, SomeLeast
<1>9. ASSUME NEW t \in C PROVE p[m] > p[t] \/ (p[m] = p[t] /\ m <= t)
  <2>1. p[m] >= p[t] /\ p[m] \in Nat /\ p[t] \in Nat
    BY <1>1, <1>8
  <2>2. p[m] = p[t] => t \in Top
    BY <1>8
  <2> QED BY <1>8, <2>1, <2>2
<1> QED BY <1>8, <1>9

(* best() returns a candidate that beats all others.                       *)
LEMMA BestIsCandidate ==
  ASSUME PlicTypeOK, NEW c \in Context, Candidates(c) # {}
  PROVE  /\ best(c) \in Candidates(c)
         /\ \A t \in Candidates(c) : Beats(best(c), t)
<1>1. Candidates(c) \in SUBSET Source /\ priority \in [Source -> Priority]
  BY DEF PlicTypeOK, Candidates
<1>2. \E s \in Candidates(c) : \A t \in Candidates(c) : Beats(s, t)
  BY <1>1, SomeBest DEF Beats
<1> QED BY <1>2 DEF best

LEMMA BestType ==
  ASSUME PlicTypeOK, NEW c \in Context
  PROVE  best(c) = 0 \/ best(c) \in pending
BY BestIsCandidate DEF best, Candidates

-----------------------------------------------------------------------------
LEMMA PlicInitType == Init => PlicTypeOK
BY PlicAssumption DEF Init, PlicTypeOK, Priority, NoneTaken, NoRecord

LEMMA MaskedIsPriority == \A value \in Word : Masked(value) \in Priority
BY PlicAssumption DEF Word, Masked, Priority

LEMMA SettleType ==
  ASSUME level \subseteq Source, NEW x, x \subseteq Source, NEW y, y \subseteq Source,
         SettleFrom(x, y)
  PROVE  pending' \subseteq Source /\ busy' \subseteq Source
BY DEF SettleFrom, Accepted

LEMMA PlicNextType == PlicTypeOK /\ [Next]_plicVars => PlicTypeOK'
<1> SUFFICES ASSUME PlicTypeOK, [Next]_plicVars PROVE PlicTypeOK'
  OBVIOUS
<1>0. ASSUME notify PROVE irqs' \in [Context -> BOOLEAN]
  <2>1. \A c \in Context : Notifies(c)' \in BOOLEAN
    BY DEF Notifies
  <2> QED BY <1>0, <2>1, Zenon DEF notify
<1>1. CASE InputChanges
  BY <1>1 DEF InputChanges, PlicTypeOK, configVars
<1>2. CASE settle
  BY <1>0, <1>2, SettleType DEF settle, PlicTypeOK, configVars
<1>3. CASE reset
  <2>1. serving' = NoRecord \/ serving' \in [Context -> SUBSET Source]
    BY <1>3 DEF reset, NoneTaken
  <2> QED BY <1>3, <2>1, PlicAssumption DEF reset, PlicTypeOK, Priority
<1>4. CASE WritePriority
  BY <1>0, <1>4, SettleType, MaskedIsPriority DEF WritePriority, PlicTypeOK
<1>5. CASE WriteEnable
  BY <1>0, <1>5, SettleType DEF WriteEnable, PlicTypeOK
<1>6. CASE WriteThreshold
  BY <1>0, <1>6, SettleType, MaskedIsPriority DEF WriteThreshold, PlicTypeOK
<1>7. CASE WriteComplete
  <2> PICK c \in Context, id \in Source :
         /\ SettleFrom(busy \ {id}, pending) \/ SettleFrom(busy, pending)
         /\ serving' = NoRecord \/ serving' = [serving EXCEPT ![c] = @ \ {id}] \/ serving' = serving
         /\ UNCHANGED <<level, configVars>>
         /\ notify
         /\ serving = NoRecord => serving' = NoRecord \/ serving' = serving
    BY <1>7 DEF WriteComplete
  <2>1. pending' \subseteq Source /\ busy' \subseteq Source
    BY SettleType DEF PlicTypeOK
  <2>2. serving' = NoRecord \/ serving' \in [Context -> SUBSET Source]
    BY DEF PlicTypeOK
  <2> QED BY <1>0, <2>1, <2>2 DEF PlicTypeOK, configVars
<1>8. CASE ReadClaim
  <2> PICK c \in Context :
         /\ pending' = pending \ {best(c)}
         /\ serving' = IF best(c) = 0 \/ serving = NoRecord THEN serving
                       ELSE [serving EXCEPT ![c] = @ \cup {best(c)}]
         /\ UNCHANGED <<level, configVars, busy>>
         /\ notify
    BY <1>8 DEF ReadClaim
  <2>1. best(c) = 0 \/ best(c) \in Source
    BY BestType DEF PlicTypeOK
  <2>2. serving' = NoRecord \/ serving' \in [Context -> SUBSET Source]
    BY <2>1 DEF PlicTypeOK
  <2> QED BY <1>0, <2>2 DEF PlicTypeOK, configVars
<1>9. CASE UNCHANGED plicVars
  BY <1>9 DEF plicVars, configVars, PlicTypeOK
<1> QED BY <1>1, <1>2, <1>3, <1>4, <1>5, <1>6, <1>7, <1>8, <1>9 DEF Next

(* The PLIC keeps its types under any guest and any inputs.                *)
THEOREM PlicTypeCorrect == Spec => []PlicTypeOK
BY PlicInitType, PlicNextType, PTL DEF Spec

-----------------------------------------------------------------------------
(* The comparison with the best candidate alone decides whether any        *)
(* enabled source is pending above the threshold.                          *)
LEMMA BestDecides ==
  ASSUME NEW P \in SUBSET Source, NEW p \in [Source -> Priority], NEW least \in Priority,
         NEW b, \/ b = 0 /\ \A s \in P : ~(p[s] > 0)
                \/ b \in P /\ \A t \in P : p[t] > 0 => p[b] >= p[t]
  PROVE  (b # 0 /\ p[b] > least) <=> \E s \in P : p[s] > least
<1>1. least \in Nat /\ \A s \in P : s # 0 /\ p[s] \in Nat
  BY PlicAssumption DEF Priority, Source
<1>2. CASE b = 0
  BY <1>1, <1>2
<1>3. CASE b # 0
  BY <1>1, <1>3
<1> QED BY <1>2, <1>3

(* What the CHOOSE of best() gives.                                        *)
LEMMA ChosenBest ==
  ASSUME NEW P \in SUBSET Source, NEW p \in [Source -> Priority]
  PROVE  LET K == {s \in P : p[s] > 0}
             b == IF K = {} THEN 0
                  ELSE CHOOSE s \in K : \A t \in K : p[s] > p[t] \/ (p[s] = p[t] /\ s <= t)
         IN  \/ b = 0 /\ \A s \in P : ~(p[s] > 0)
             \/ b \in P /\ \A t \in P : p[t] > 0 => p[b] >= p[t]
<1> DEFINE K == {s \in P : p[s] > 0}
           b == IF K = {} THEN 0
                ELSE CHOOSE s \in K : \A t \in K : p[s] > p[t] \/ (p[s] = p[t] /\ s <= t)
<1>1. K \in SUBSET Source /\ \A s \in P : p[s] > 0 <=> s \in K
  OBVIOUS
<1>2. \A s \in Source : p[s] \in Nat
  BY PlicAssumption DEF Priority
<1>3. CASE K = {}
  <2>1. b = 0
    BY <1>3, Zenon
  <2> QED BY <1>1, <1>3, <2>1
<1>4. CASE K # {}
  <2>1. \E s \in K : \A t \in K : p[s] > p[t] \/ (p[s] = p[t] /\ s <= t)
    BY <1>1, <1>4, SomeBest
  <2>2. b \in K /\ \A t \in K : p[b] > p[t] \/ (p[b] = p[t] /\ b <= t)
    BY <1>4, <2>1, Zenon
  <2>3. b \in P
    BY <2>2
  <2> HIDE DEF b
  <2>4. \A t \in P : p[t] > 0 => p[b] >= p[t]
    BY <1>1, <1>2, <2>2, <2>3
  <2> QED BY <2>3, <2>4, Zenon DEF b
<1> QED BY <1>3, <1>4

LEMMA NotifyTellsTheTruth ==
  ASSUME PlicTypeOK', notify
  PROVE  IrqTellsTheTruth'
<1> SUFFICES ASSUME NEW c \in Context
             PROVE  irqs'[c] <=> \E s \in pending' \cap enables'[c] : priority'[s] > threshold'[c]
  BY DEF IrqTellsTheTruth
<1>1. irqs'[c] = Notifies(c)'
  BY Zenon DEF notify
<1>2. /\ pending' \cap enables'[c] \in SUBSET Source
      /\ priority' \in [Source -> Priority] /\ threshold'[c] \in Priority
  BY DEF PlicTypeOK
<1> DEFINE P == pending' \cap enables'[c]
           p == priority'
           b == best(c)'
<1>4. \/ b = 0 /\ \A s \in P : ~(p[s] > 0)
      \/ b \in P /\ \A t \in P : p[t] > 0 => p[b] >= p[t]
  <2> DEFINE K == {s \in P : p[s] > 0}
  <2>1. b = IF K = {} THEN 0
            ELSE CHOOSE s \in K : \A t \in K : p[s] > p[t] \/ (p[s] = p[t] /\ s <= t)
    BY Zenon DEF best, Beats, Candidates
  <2>2. P \in SUBSET Source /\ p \in [Source -> Priority]
    BY <1>2
  <2> HIDE DEF P, p, b
  <2> QED BY <2>1, <2>2, ChosenBest, Zenon
<1>5. Notifies(c)' <=> (b # 0 /\ p[b] > threshold'[c])
  BY DEF Notifies
<1> HIDE DEF P, p, b
<1>6. P \in SUBSET Source /\ p \in [Source -> Priority]
  BY <1>2 DEF P, p
<1>7. (b # 0 /\ p[b] > threshold'[c]) <=> \E s \in P : p[s] > threshold'[c]
  BY <1>2, <1>4, <1>6, BestDecides
<1> QED BY <1>1, <1>5, <1>7 DEF P, p

(* Every access ends in notify, or leaves what notify looks at alone.      *)
LEMMA NextTellsTheTruth ==
  PlicTypeOK' /\ IrqTellsTheTruth /\ [Next]_plicVars => IrqTellsTheTruth'
<1> SUFFICES ASSUME PlicTypeOK', IrqTellsTheTruth, [Next]_plicVars PROVE IrqTellsTheTruth'
  OBVIOUS
<1>1. CASE InputChanges \/ UNCHANGED plicVars
  BY <1>1 DEF InputChanges, plicVars, configVars, IrqTellsTheTruth
<1>2. CASE reset
  BY <1>2 DEF reset, IrqTellsTheTruth
<1>3. CASE notify
  BY <1>3, NotifyTellsTheTruth
<1> QED BY <1>1, <1>2, <1>3
        DEF Next, settle, WritePriority, WriteEnable, WriteThreshold, WriteComplete, ReadClaim

(* For any number of sources and contexts, the line of a context is        *)
(* exactly "a source it enabled is pending above its threshold".           *)
THEOREM PlicTellsTheTruth == Spec => []IrqTellsTheTruth
<1>1. Init => IrqTellsTheTruth
  BY DEF Init, IrqTellsTheTruth
<1> QED BY <1>1, PlicTypeCorrect, NextTellsTheTruth, PTL DEF Spec

-----------------------------------------------------------------------------
(* settle gives a request to sources that have none.                       *)
LEMMA SettleKeepsOne ==
  ASSUME PlicTypeOK, NEW x, NEW f \in [Context -> SUBSET Source],
         x = pending \cup UNION {f[c] : c \in Context},
         \A c \in Context : f[c] \cap pending = {},
         SettleFrom(x, pending)
  PROVE  /\ busy' = pending' \cup UNION {f[c] : c \in Context}
         /\ \A c \in Context : f[c] \cap pending' = {}
BY DEF SettleFrom, Accepted

LEMMA NextKeepsOne ==
  PlicTypeOK /\ PlicTypeOK' /\ OneRequestPerSource /\ [Next]_plicVars => OneRequestPerSource'
<1> SUFFICES ASSUME PlicTypeOK, PlicTypeOK', OneRequestPerSource, [Next]_plicVars,
                    serving' # NoRecord
             PROVE  OneRequestPerSource'
  BY DEF OneRequestPerSource
<1>0. serving # NoRecord
  BY DEF Next, InputChanges, settle, reset, WritePriority, WriteEnable, WriteThreshold,
         WriteComplete, ReadClaim, plicVars
<1>1. /\ busy = pending \cup UNION {serving[c] : c \in Context}
      /\ \A c \in Context : serving[c] \cap pending = {}
      /\ \A c, d \in Context : c # d => serving[c] \cap serving[d] = {}
      /\ serving \in [Context -> SUBSET Source]
  BY <1>0 DEF OneRequestPerSource, PlicTypeOK
<1>2. CASE SettleFrom(busy, pending) /\ UNCHANGED serving
  BY <1>1, <1>2, SettleKeepsOne DEF OneRequestPerSource
<1>3. CASE InputChanges \/ UNCHANGED plicVars
  BY <1>1, <1>3 DEF InputChanges, plicVars, OneRequestPerSource
<1>4. CASE reset
  BY <1>0, <1>4 DEF reset, NoneTaken, OneRequestPerSource
<1>5. CASE WriteComplete
  <2>1. PICK c \in Context, id \in Source :
          /\ serving # NoRecord => id \in serving[c]
          /\ IF id \in enables[c]
             THEN /\ SettleFrom(busy \ {id}, pending)
                  /\ serving' = IF serving = NoRecord THEN NoRecord
                                ELSE [serving EXCEPT ![c] = @ \ {id}]
             ELSE SettleFrom(busy, pending) /\ UNCHANGED serving
    BY <1>5 DEF WriteComplete
  <2>2. CASE id \notin enables[c]
    BY <1>2, <2>1, <2>2
  <2>3. CASE id \in enables[c]
    <3>1. /\ SettleFrom(busy \ {id}, pending)
          /\ serving' = [serving EXCEPT ![c] = @ \ {id}]
          /\ id \in serving[c]
      BY <1>0, <2>1, <2>3
    <3>2. /\ serving' \in [Context -> SUBSET Source]
          /\ serving'[c] = serving[c] \ {id}
          /\ \A d \in Context : d # c => serving'[d] = serving[d]
      BY <1>1, <3>1
    <3>3. \A d \in Context : d # c => id \notin serving[d]
      BY <1>1, <3>1
    <3>4. busy \ {id} = pending \cup UNION {serving'[d] : d \in Context}
      <4>1. (UNION {serving[d] : d \in Context}) \ {id} = UNION {serving'[d] : d \in Context}
        <5>1. \A s, d : d \in Context /\ s \in serving[d] /\ s # id => s \in serving'[d]
          BY <3>2
        <5>2. \A s, d : d \in Context /\ s \in serving'[d] => s \in serving[d] /\ s # id
          BY <3>2, <3>3
        <5>3. \A s : s \in UNION {serving[d] : d \in Context} <=> \E d \in Context : s \in serving[d]
          BY Zenon
        <5>4. \A s : s \in UNION {serving'[d] : d \in Context} <=> \E d \in Context : s \in serving'[d]
          BY Zenon
        <5>5. ASSUME NEW s
              PROVE  s \in (UNION {serving[d] : d \in Context}) \ {id}
                     <=> s \in UNION {serving'[d] : d \in Context}
          BY <5>1, <5>2, <5>3, <5>4, Zenon
        <5> QED BY <5>5, Zenon
      <4> QED BY <1>1, <3>1, <4>1
    <3>5. \A d \in Context : serving'[d] \cap pending = {}
      BY <1>1, <3>2
    <3>6. \A d, e \in Context : d # e => serving'[d] \cap serving'[e] = {}
      BY <1>1, <3>2
    <3>7. /\ busy' = pending' \cup UNION {serving'[d] : d \in Context}
          /\ \A d \in Context : serving'[d] \cap pending' = {}
      <4> DEFINE f == serving'
      <4>1. /\ f \in [Context -> SUBSET Source]
            /\ busy \ {id} = pending \cup UNION {f[d] : d \in Context}
            /\ \A d \in Context : f[d] \cap pending = {}
        BY <3>2, <3>4, <3>5
      <4> HIDE DEF f
      <4>2. /\ busy' = pending' \cup UNION {f[d] : d \in Context}
            /\ \A d \in Context : f[d] \cap pending' = {}
        BY <3>1, <4>1, SettleKeepsOne
      <4> QED BY <4>2 DEF f
    <3> QED BY <3>6, <3>7 DEF OneRequestPerSource
  <2> QED BY <2>2, <2>3
<1>6. CASE ReadClaim
  <2>1. PICK c \in Context :
          /\ pending' = pending \ {best(c)}
          /\ serving' = IF best(c) = 0 \/ serving = NoRecord THEN serving
                        ELSE [serving EXCEPT ![c] = @ \cup {best(c)}]
          /\ UNCHANGED busy
    BY <1>6 DEF ReadClaim
  <2>2. CASE best(c) = 0
    <3>1. 0 \notin pending
      BY DEF PlicTypeOK, Source
    <3> QED BY <1>1, <2>1, <2>2, <3>1 DEF OneRequestPerSource
  <2>3. CASE best(c) # 0
    <3> DEFINE id == best(c)
    <3>1. id \in pending
      BY <2>3, BestType
    <3>2. serving' = [serving EXCEPT ![c] = @ \cup {id}]
      BY <1>0, <2>1, <2>3
    <3> HIDE DEF id
    <3>3. /\ serving'[c] = serving[c] \cup {id}
          /\ \A d \in Context : d # c => serving'[d] = serving[d]
      BY <1>1, <3>2
    <3>4. UNION {serving'[d] : d \in Context} = {id} \cup UNION {serving[d] : d \in Context}
      BY <3>3
    <3>5. pending' = pending \ {id} /\ busy' = busy
      BY <2>1 DEF id
    <3>6. busy' = pending' \cup UNION {serving'[d] : d \in Context}
      BY <1>1, <3>1, <3>4, <3>5
    <3> QED BY <1>1, <3>1, <3>3, <3>5, <3>6 DEF OneRequestPerSource
  <2> QED BY <2>2, <2>3
<1> QED BY <1>2, <1>3, <1>4, <1>5, <1>6
        DEF Next, settle, WritePriority, WriteEnable, WriteThreshold

(* With drivers that complete only what they claimed, a source never has   *)
(* two requests and its gateway never stays closed without one.            *)
THEOREM PlicKeepsOneRequest == Spec => []OneRequestPerSource
<1>1. Init => OneRequestPerSource
  BY DEF Init, OneRequestPerSource, NoneTaken, NoRecord
<1> QED BY <1>1, PlicTypeCorrect, NextKeepsOne, PTL DEF Spec

(* A pending request is taken back by nothing but a claim or a reset.      *)
THEOREM PlicKeepsRequests == Spec => RequestsAreKept
<1>1. [Next]_plicVars => [reset \/ ReadClaim \/ pending \subseteq pending']_plicVars
  BY DEF Next, InputChanges, settle, WritePriority, WriteEnable, WriteThreshold,
         WriteComplete, SettleFrom, plicVars
<1> QED BY <1>1, PTL DEF Spec, RequestsAreKept
=============================================================================
