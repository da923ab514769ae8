-------------------------- MODULE WitnessV2Proofs --------------------------
(***************************************************************************)
(* Lemmas about witness documents and planners, shared by the proofs of    *)
(* the modules built on WitnessV2.                                         *)
(***************************************************************************)
EXTENDS WitnessV2, FiniteSetsExt, FiniteSetTheorems, WellFoundedInduction, TLAPS

(* A non-empty set of versions has a maximum.                              *)
LEMMA MaxExists ==
  ASSUME NEW n \in Nat, NEW S \in SUBSET (1..n), S # {}
  PROVE  /\ Max(S) \in S
         /\ \A y \in S : y <= Max(S)
<1> DEFINE Above(x) == {y \in S : y > x}
           T == {Above(x) : x \in S}
           R == StrictSubsetOrdering(1..n)
<1>1. T # {} /\ T \subseteq SUBSET (1..n)
  OBVIOUS
<1>2. IsWellFoundedOn(R, SUBSET (1..n))
  <2>1. IsFiniteSet(1..n)
    BY FS_Interval
  <2> QED BY <2>1, FS_StrictSubsetOrderingWellFounded, FS_FiniteSubsetsOfFinite
<1>3. PICK U \in T : \A W \in T : <<W, U>> \notin R
  <2> HIDE DEF T, R
  <2> QED BY <1>1, <1>2, WFMin
<1>4. PICK x \in S : U = Above(x)
  OBVIOUS
<1>5. ASSUME NEW y \in S, y > x PROVE FALSE
  <2>1. Above(y) \subseteq Above(x) /\ y \in Above(x) /\ y \notin Above(y)
    <3>1. S \subseteq Nat
      OBVIOUS
    <3>2. \A z \in S : z > y => z > x
      BY <1>5, <3>1
    <3>3. ~(y > y)
      BY <3>1
    <3> QED BY <1>5, <3>2, <3>3
  <2>2. <<Above(y), Above(x)>> \in R
    BY <2>1 DEF StrictSubsetOrdering
  <2> QED BY <2>2, <1>3, <1>4
<1>6. x \in S /\ \A y \in S : x >= y
  BY <1>5
<1> QED BY <1>6 DEF Max

(* ... and a minimum.                                                      *)
LEMMA MinExists ==
  ASSUME NEW n \in Nat, NEW S \in SUBSET (1..n), S # {}
  PROVE  /\ Min(S) \in S
         /\ \A y \in S : Min(S) <= y
<1> DEFINE T == {n + 1 - x : x \in S}
<1>1. T \in SUBSET (1..n) /\ T # {}
  <2>1. \A x \in S : x \in 1..n /\ n + 1 - x \in 1..n
    OBVIOUS
  <2> QED BY <2>1
<1>2. Max(T) \in T /\ \A y \in T : y <= Max(T)
  <2> HIDE DEF T
  <2> QED BY <1>1, MaxExists
<1>3. PICK x \in S : Max(T) = n + 1 - x
  BY <1>2
<1>4. \A y \in S : x <= y
  <2> SUFFICES ASSUME NEW y \in S PROVE x <= y
    OBVIOUS
  <2>1. n + 1 - y \in T /\ x \in Nat /\ y \in Nat
    OBVIOUS
  <2>2. n + 1 - y <= n + 1 - x
    BY <1>2, <1>3, <2>1
  <2> QED BY <2>1, <2>2
<1> QED BY <1>4 DEF Min

(* A document has a newest entry.                                          *)
LEMMA DocsHaveNewest ==
  \A d \in Docs : Len(d) \in Nat \ {0} /\ Newest(d) \in Entries
BY DEF Docs, Newest

(* Appending an entry gives the next version and rewrites nothing.         *)
LEMMA AppendIsDoc ==
  ASSUME NEW d \in Docs, NEW e \in Entries
  PROVE  /\ Append(d, e) \in Docs
         /\ Len(Append(d, e)) = Len(d) + 1
         /\ Newest(Append(d, e)) = e
         /\ \A i \in 1..Len(d) : Append(d, e)[i] = d[i]
BY DEF Docs, Newest

(* What an appended entry consumes is consumed with what was before.       *)
LEMMA ConsumedAppend ==
  ASSUME NEW d \in Docs, NEW e \in Entries
  PROVE  Consumed(Append(d, e)) = Consumed(d) \cup ({e.auth} \ {NoAuth})
<1> DEFINE f == Append(d, e)
<1>1. /\ DOMAIN d = 1..Len(d) /\ DOMAIN f = 1..(Len(d) + 1) /\ Len(d) \in Nat
      /\ f[Len(d) + 1] = e /\ \A i \in 1..Len(d) : f[i] = d[i]
  BY AppendIsDoc DEF Docs, Newest
<1> HIDE DEF f
<1>2. {f[i].auth : i \in DOMAIN f} = {d[i].auth : i \in DOMAIN d} \cup {e.auth}
  <2>1. \A i \in 1..(Len(d) + 1) : i \in 1..Len(d) \/ i = Len(d) + 1
    BY <1>1
  <2>2. \A i \in 1..Len(d) : i \in 1..(Len(d) + 1)
    BY <1>1
  <2>3. Len(d) + 1 \in 1..(Len(d) + 1)
    BY <1>1
  <2> QED BY <1>1, <2>1, <2>2, <2>3
<1> QED BY <1>2 DEF Consumed, f

(* The genesis is a document of version 1.                                 *)
LEMMA GenesisIsDoc == Genesis \in Docs /\ Len(Genesis) = 1
<1>1. GenesisEntry \in Entries
  BY WitnessV2Assumption DEF GenesisEntry, Entries, Heads
<1> QED BY <1>1 DEF Genesis, Docs

(* What the planners return can be appended.                               *)
LEMMA PlansAreEntries ==
  ASSUME NEW d \in Docs, NEW position \in Nat
  PROVE  /\ PlanLedgerAdvance(d, position) \subseteq Entries
         /\ \A id \in AuthIds, a \in Authorizations :
              /\ PlanRegistryHeadAdvance(d, id, a) \subseteq Entries
              /\ PlanEpochAdvance(d, id, a, position) \subseteq Entries
<1>1. Newest(d) \in Entries
  BY DocsHaveNewest
<1>2. PlanLedgerAdvance(d, position) \subseteq Entries
  BY <1>1 DEF PlanLedgerAdvance, Entries
<1>3. ASSUME NEW id \in AuthIds, NEW a \in Authorizations
      PROVE  /\ PlanRegistryHeadAdvance(d, id, a) \subseteq Entries
             /\ PlanEpochAdvance(d, id, a, position) \subseteq Entries
  <2>1. a.target \in Heads /\ a.epoch \in Nat
    BY DEF Authorizations
  <2>2. PlanRegistryHeadAdvance(d, id, a) \subseteq Entries
    BY <1>1, <2>1 DEF PlanRegistryHeadAdvance, Entries
  <2>3. PlanEpochAdvance(d, id, a, position) \subseteq Entries
    BY <1>1, <2>1 DEF PlanEpochAdvance, Entries
  <2> QED BY <2>2, <2>3
<1> QED BY <1>2, <1>3

(* The owner signs well-formed authorizations.                             *)
LEMMA IssuedIsAuthorization ==
  ASSUME NEW kind \in {HEAD, EPOCH}, NEW d \in Docs, NEW digest \in Digests
  PROVE  AuthorizationFor(kind, d, digest) \in Authorizations
<1>1. Newest(d) \in Entries
  BY DocsHaveNewest
<1> QED BY <1>1 DEF AuthorizationFor, Authorizations, Entries, Heads

=============================================================================
