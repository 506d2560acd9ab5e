----------------------------- MODULE LruCacheProofs ----------------------------
(***************************************************************************)
(* Proofs about the bounded cache, for every capacity, every set of keys   *)
(* and every width of the recency counter.                                 *)
(***************************************************************************)
EXTENDS LruCache, FiniteSetTheorems, TLAPS

IInv == TypeOK /\ Bounded /\ StampsDistinct

(* A non-empty set of stamps has a least one.                                *)
LEMMA LeastNatural ==
    ASSUME NEW T \in SUBSET Nat, T # {}
    PROVE  \E x \in T : \A y \in T : x <= y
  <1>1. IsWellFoundedOn(OpToRel(<, Nat), Nat)
    BY NatLessThanWellFounded
  <1>2. PICK x \in T : \A y \in T : ~(<<y, x>> \in OpToRel(<, Nat))
    BY <1>1, WFMin
  <1>3. \A y \in T : ~(y < x)
    BY <1>2 DEF OpToRel
  <1> QED
    BY <1>3

(* The cached keys are finitely many.                                        *)
LEMMA CachedFinite ==
    ASSUME TypeOK
    PROVE  IsFiniteSet(Cached) /\ Cardinality(Cached) \in Nat
  <1>1. IsFiniteSet(Cached)
    BY FS_Subset, CapacityAssumption DEF TypeOK
  <1> QED
    BY <1>1, FS_CardinalityType

(***************************************************************************)
(* The sorted, deduplicated stamps that rebase_recency builds: there are   *)
(* no more of them than entries, ranks lie between one and their number,   *)
(* and a larger stamp has a larger rank.                                   *)
(***************************************************************************)
LEMMA RankOrder ==
    ASSUME TypeOK
    PROVE  /\ Cardinality(Stamps(entries)) \in Nat
           /\ Cardinality(Stamps(entries)) <= Cardinality(Cached)
           /\ \A s \in Stamps(entries) :
                 Rank(entries, s) \in 1 .. Cardinality(Stamps(entries))
           /\ \A s, t \in Stamps(entries) : s < t => Rank(entries, s) < Rank(entries, t)
  <1> DEFINE S == Stamps(entries)
             L(s) == {t \in S : t <= s}
             f == [k \in Cached |-> entries[k].last_used]
  <1>1. \A k \in Cached : entries[k].last_used \in 1 .. MaxRecency
    BY DEF TypeOK, CacheEntry
  <1>2. S \subseteq Nat
    BY <1>1, CapacityAssumption DEF Stamps, Cached
  <1>3. f \in Surjection(Cached, S)
    BY DEF Surjection, Stamps, Cached
  <1> HIDE DEF f
  <1>4. IsFiniteSet(S) /\ Cardinality(S) <= Cardinality(Cached)
    BY <1>3, CachedFinite, FS_Surjection
  <1> HIDE DEF S
  <1>5. Cardinality(S) \in Nat
    BY <1>4, FS_CardinalityType
  <1>6. \A s : IsFiniteSet(L(s)) /\ Cardinality(L(s)) \in Nat /\ Cardinality(L(s)) <= Cardinality(S)
    <2> TAKE s
    <2>1. L(s) \in SUBSET S
      OBVIOUS
    <2> HIDE DEF L
    <2> QED
      BY <1>4, <2>1, FS_Subset, FS_CardinalityType
  <1>7. \A s \in S : Cardinality(L(s)) \in 1 .. Cardinality(S)
    <2> TAKE s \in S
    <2>1. s \in L(s)
      BY <1>2
    <2>2. Cardinality(L(s)) # 0
      <3> HIDE DEF L
      <3> QED BY <1>6, <2>1, FS_EmptySet
    <2> QED
      BY <1>5, <1>6, <2>2
  <1>8. \A s, t \in S : s < t => Cardinality(L(s)) < Cardinality(L(t))
    <2> SUFFICES ASSUME NEW s \in S, NEW t \in S, s < t
                 PROVE  Cardinality(L(s)) < Cardinality(L(t))
      OBVIOUS
    <2>1. L(s) \in SUBSET L(t) /\ L(s) # L(t)
      <3>1. t \in L(t) /\ t \notin L(s)
        BY <1>2
      <3>2. \A x \in S : x <= s => x <= t
        BY <1>2
      <3> QED
        BY <3>1, <3>2
    <2> HIDE DEF L
    <2>2. Cardinality(L(s)) <= Cardinality(L(t)) /\ Cardinality(L(t)) # Cardinality(L(s))
      BY <1>6, <2>1, FS_Subset
    <2> QED
      BY <1>6, <2>2
  <1> QED
    BY <1>4, <1>5, <1>7, <1>8 DEF Rank, S

(***************************************************************************)
(* next_recency, overflow or not: the stamp it returns is larger than      *)
(* every stamp it leaves, and the order of the entries is as it was.       *)
(***************************************************************************)
LEMMA NextRecencyEffect ==
    ASSUME IInv
    PROVE  /\ NextRecency \in 1 .. MaxRecency
           /\ DOMAIN Renumbered = Cached
           /\ \A k \in Cached : /\ Renumbered[k] \in CacheEntry
                               /\ Renumbered[k].last_used \in Nat
                               /\ Renumbered[k].last_used < NextRecency
           /\ \A j, k \in Cached :
                 entries[j].last_used < entries[k].last_used
                    => Renumbered[j].last_used < Renumbered[k].last_used
  <1>1. \A k \in Cached : /\ entries[k] \in CacheEntry
                         /\ entries[k].value \in Values
                         /\ entries[k].last_used \in 1 .. MaxRecency
                         /\ entries[k].last_used <= recency
    BY DEF IInv, TypeOK, CacheEntry, StampsDistinct
  <1>2. recency \in 0 .. MaxRecency /\ MaxRecency \in Nat
    BY CapacityAssumption DEF IInv, TypeOK
  <1>3. CASE recency < MaxRecency
    BY <1>1, <1>2, <1>3 DEF NextRecency, Renumbered, Cached
  <1>4. CASE ~(recency < MaxRecency)
    <2> DEFINE n == Cardinality(Stamps(entries))
               r(k) == Rank(entries, entries[k].last_used)
    <2>1. NextRecency = n + 1 /\ Renumbered = RebaseRecency(entries)
      BY <1>4 DEF NextRecency, Renumbered
    <2>2. n \in Nat /\ n < MaxRecency
      <3>1. n \in Nat /\ n <= Cardinality(Cached) /\ Cardinality(Cached) \in Nat
        BY RankOrder, CachedFinite DEF IInv
      <3> HIDE DEF n
      <3> QED
        BY <1>2, <3>1, CapacityAssumption DEF IInv, Bounded
    <2>3. \A k \in Cached : entries[k].last_used \in Stamps(entries)
      BY DEF Stamps, Cached
    <2>4. \A k \in Cached : r(k) \in 1 .. n
      BY <2>3, RankOrder DEF IInv
    <2>5. \A j, k \in Cached : entries[j].last_used < entries[k].last_used => r(j) < r(k)
      BY <2>3, RankOrder DEF IInv
    <2> HIDE DEF n, r
    <2>6. /\ DOMAIN Renumbered = Cached
          /\ \A k \in Cached : Renumbered[k] = [value |-> entries[k].value, last_used |-> r(k)]
      BY <2>1 DEF RebaseRecency, Cached, r
    <2>7. \A k \in Cached : Renumbered[k] \in CacheEntry /\ Renumbered[k].last_used = r(k)
      <3>1. \A k \in Cached : r(k) \in 1 .. MaxRecency
        BY <1>2, <2>2, <2>4
      <3> QED
        BY <1>1, <2>6, <3>1 DEF CacheEntry
    <2> QED
      BY <1>2, <2>1, <2>2, <2>4, <2>5, <2>6, <2>7
  <1> QED
    BY <1>3, <1>4

(* Entries that differ have different stamps after renumbering too.          *)
LEMMA RenumberedDistinct ==
    ASSUME IInv, NEW j \in Cached, NEW k \in Cached, j # k
    PROVE  /\ entries[j].last_used \in Nat /\ entries[k].last_used \in Nat
           /\ \/ entries[j].last_used < entries[k].last_used
                 /\ Renumbered[j].last_used < Renumbered[k].last_used
              \/ entries[k].last_used < entries[j].last_used
                 /\ Renumbered[k].last_used < Renumbered[j].last_used
  <1>1. /\ entries[j].last_used \in Nat /\ entries[k].last_used \in Nat
        /\ entries[j].last_used # entries[k].last_used
    BY CapacityAssumption DEF IInv, TypeOK, CacheEntry, StampsDistinct
  <1>2. \/ entries[j].last_used < entries[k].last_used
        \/ entries[k].last_used < entries[j].last_used
    BY <1>1
  <1> QED
    BY <1>1, <1>2, NextRecencyEffect

(* evict_lru removes exactly one entry, the least recently used.             *)
LEMMA EvictEffect ==
    ASSUME IInv, Cached # {}
    PROVE  \E o \in Cached :
              /\ EvictLru(Renumbered) = [j \in Cached \ {o} |-> Renumbered[j]]
              /\ \A j \in Cached \ {o} : entries[o].last_used < entries[j].last_used
  <1> DEFINE S == Stamps(entries)
  <1>1. S \in SUBSET Nat /\ S # {}
    BY CapacityAssumption DEF IInv, TypeOK, CacheEntry, Stamps, Cached
  <1>2. PICK x \in S : \A y \in S : x <= y
    BY <1>1, LeastNatural
  <1>3. PICK o \in Cached : entries[o].last_used = x
    BY DEF Stamps, Cached
  <1>4. \A j \in Cached : entries[o].last_used <= entries[j].last_used
    BY <1>2, <1>3 DEF Stamps, Cached
  <1>5. \A j \in Cached \ {o} : /\ entries[o].last_used < entries[j].last_used
                              /\ Renumbered[o].last_used < Renumbered[j].last_used
    BY <1>4, RenumberedDistinct
  <1>6. \A j \in Cached : Renumbered[j].last_used \in Nat
    BY NextRecencyEffect
  <1>7. {j \in Cached : \E i \in Cached : Renumbered[i].last_used < Renumbered[j].last_used}
          = Cached \ {o}
    <2>1. \A i \in Cached : ~(Renumbered[i].last_used < Renumbered[o].last_used)
      BY <1>5, <1>6
    <2> QED
      BY <1>5, <2>1
  <1>8. EvictLru(Renumbered) = [j \in Cached \ {o} |-> Renumbered[j]]
    <2>1. DOMAIN Renumbered = Cached
      BY NextRecencyEffect
    <2> QED
      BY <1>7, <2>1 DEF EvictLru
  <1> QED
    BY <1>5, <1>8

(***************************************************************************)
(* What get and insert have in common: the entries of D are kept under     *)
(* their new stamps, and k becomes the most recently used.                 *)
(***************************************************************************)
LEMMA UseStep ==
    ASSUME IInv, NEW D \in SUBSET Cached, NEW k \in Keys, NEW v \in Values,
           Cardinality(D \cup {k}) <= Capacity,
           recency' = NextRecency,
           entries' = Put([j \in D |-> Renumbered[j]], k, v, NextRecency)
    PROVE  /\ IInv'
           /\ Cached' = D \cup {k}
           /\ entries'[k].last_used = recency'
           /\ \A j \in D \ {k} : entries'[j].last_used = Renumbered[j].last_used
  <1>1. /\ NextRecency \in 1 .. MaxRecency
        /\ \A j \in D : /\ Renumbered[j] \in CacheEntry
                       /\ Renumbered[j].last_used \in Nat
                       /\ Renumbered[j].last_used < NextRecency
    BY NextRecencyEffect
  <1>2. entries' = [j \in D \cup {k} |-> IF j = k THEN [value |-> v, last_used |-> NextRecency]
                                        ELSE Renumbered[j]]
    BY DEF Put
  <1>3. Cached' = D \cup {k}
    BY <1>2 DEF Cached
  <1>4. /\ entries'[k] = [value |-> v, last_used |-> NextRecency]
        /\ \A j \in D \ {k} : entries'[j] = Renumbered[j]
    BY <1>2
  <1>5. TypeOK'
    <2>1. [value |-> v, last_used |-> NextRecency] \in CacheEntry
      BY <1>1 DEF CacheEntry
    <2>2. entries' \in [D \cup {k} -> CacheEntry]
      BY <1>1, <1>2, <2>1
    <2>3. D \cup {k} \subseteq Keys
      BY DEF IInv, TypeOK
    <2>4. recency' \in 0 .. MaxRecency
      BY <1>1, CapacityAssumption
    <2> QED
      BY <1>3, <2>2, <2>3, <2>4 DEF TypeOK
  <1>6. Bounded'
    BY <1>3 DEF Bounded
  <1>7. entries'[k].last_used = recency'
    BY <1>4
  <1>8. \A j \in D \ {k} : entries'[j].last_used < recency' /\ entries'[j].last_used \in Nat
    BY <1>1, <1>4
  <1>9. \A i, j \in D \ {k} : i # j => entries'[i].last_used # entries'[j].last_used
    BY <1>1, <1>4, RenumberedDistinct
  <1>10. recency' \in Nat
    BY <1>1, CapacityAssumption
  <1>11. StampsDistinct'
    <2>1. \A j \in Cached' : j = k \/ j \in D \ {k}
      BY <1>3
    <2>2. \A j \in Cached' : entries'[j].last_used <= recency'
      BY <1>7, <1>8, <1>10, <2>1
    <2>3. \A i, j \in Cached' : entries'[i].last_used = entries'[j].last_used => i = j
      BY <1>7, <1>8, <1>9, <1>10, <2>1
    <2> QED
      BY <2>2, <2>3 DEF StampsDistinct
  <1> QED
    BY <1>3, <1>4, <1>5, <1>6, <1>7, <1>11 DEF IInv

(* A hit of get, or an insertion over an existing key, keeps every key.      *)
LEMMA TouchStep ==
    ASSUME IInv, NEW k \in Cached, NEW v \in Values,
           recency' = NextRecency, entries' = Put(Renumbered, k, v, NextRecency)
    PROVE  /\ IInv' /\ Cached' = Cached
           /\ entries'[k].last_used = recency'
           /\ \A j \in Cached \ {k} : entries'[j].last_used = Renumbered[j].last_used
  <1>1. Put(Renumbered, k, v, NextRecency) = Put([j \in Cached |-> Renumbered[j]], k, v, NextRecency)
    <2>1. DOMAIN Renumbered = Cached
      BY NextRecencyEffect
    <2> QED
      BY <2>1 DEF Put
  <1>2. Cached \cup {k} = Cached /\ Cardinality(Cached) <= Capacity /\ k \in Keys
    BY DEF IInv, Bounded, TypeOK
  <1>3. /\ entries' = Put([j \in Cached |-> Renumbered[j]], k, v, NextRecency)
        /\ Cardinality(Cached \cup {k}) <= Capacity
        /\ Cached \in SUBSET Cached
    BY <1>1, <1>2
  <1>4. /\ IInv' /\ Cached' = Cached \cup {k}
        /\ entries'[k].last_used = recency'
        /\ \A j \in Cached \ {k} : entries'[j].last_used = Renumbered[j].last_used
    BY <1>2, <1>3, UseStep
  <1> QED
    BY <1>2, <1>4

(***************************************************************************)
(* An insertion of a new key keeps every key if there is room, and drops   *)
(* the least recently used one otherwise.                                  *)
(***************************************************************************)
LEMMA InsertStep ==
    ASSUME IInv, NEW k \in Keys, NEW v \in Values, InsertNew(k, v)
    PROVE  \E D \in SUBSET Cached :
              /\ IInv' /\ Cached' = D \cup {k} /\ k \notin Cached
              /\ entries'[k].last_used = recency'
              /\ \A j \in D : entries'[j].last_used = Renumbered[j].last_used
              /\ \A o \in Cached \ D :
                    \A j \in Cached \ {o} : j \in D /\ entries[o].last_used < entries[j].last_used
  <1>1. /\ k \notin Cached /\ recency' = NextRecency
        /\ IsFiniteSet(Cached) /\ Cardinality(Cached) \in Nat
        /\ Cardinality(Cached) <= Capacity /\ Capacity \in Nat \ {0}
    BY CachedFinite, CapacityAssumption DEF InsertNew, IInv, Bounded
  <1>2. CASE Cardinality(Cached) = Capacity
    <2>1. Cached # {}
      BY <1>1, <1>2, FS_EmptySet
    <2>2. PICK o \in Cached :
              /\ EvictLru(Renumbered) = [j \in Cached \ {o} |-> Renumbered[j]]
              /\ \A j \in Cached \ {o} : entries[o].last_used < entries[j].last_used
      BY <2>1, EvictEffect
    <2> DEFINE D == Cached \ {o}
    <2>3. entries' = Put([j \in D |-> Renumbered[j]], k, v, NextRecency)
      BY <1>2, <2>2 DEF InsertNew
    <2>4. Cardinality(D \cup {k}) <= Capacity
      <3>1. IsFiniteSet(D) /\ Cardinality(D) = Cardinality(Cached) - 1
        BY <1>1, FS_RemoveElement
      <3>2. Cardinality(D \cup {k}) = Cardinality(D) + 1
        BY <1>1, <3>1, FS_AddElement
      <3> QED
        BY <1>1, <3>1, <3>2
    <2>5. /\ IInv' /\ Cached' = D \cup {k}
          /\ entries'[k].last_used = recency'
          /\ \A j \in D \ {k} : entries'[j].last_used = Renumbered[j].last_used
      BY <1>1, <2>3, <2>4, UseStep
    <2>6. \A p \in Cached \ D :
             \A j \in Cached \ {p} : j \in D /\ entries[p].last_used < entries[j].last_used
      BY <2>2
    <2>7. D \in SUBSET Cached /\ \A j \in D : entries'[j].last_used = Renumbered[j].last_used
      BY <1>1, <2>5
    <2> HIDE DEF D
    <2> QED
      BY <1>1, <2>5, <2>6, <2>7
  <1>3. CASE Cardinality(Cached) # Capacity
    <2>1. entries' = Put([j \in Cached |-> Renumbered[j]], k, v, NextRecency)
      <3>1. DOMAIN Renumbered = Cached
        BY NextRecencyEffect
      <3> QED
        BY <1>3, <3>1 DEF InsertNew, Put
    <2>2. Cardinality(Cached \cup {k}) <= Capacity
      <3>1. Cardinality(Cached \cup {k}) = Cardinality(Cached) + 1
        BY <1>1, FS_AddElement
      <3> QED
        BY <1>1, <1>3, <3>1
    <2>3. /\ IInv' /\ Cached' = Cached \cup {k}
          /\ entries'[k].last_used = recency'
          /\ \A j \in Cached \ {k} : entries'[j].last_used = Renumbered[j].last_used
      BY <1>1, <2>1, <2>2, UseStep
    <2> QED
      BY <1>1, <2>3
  <1> QED
    BY <1>2, <1>3

--------------------------------------------------------------------------------
(* The theorems.                                                             *)

(* get keeps the value of the entry it finds.                                *)
LEMMA CachedValue ==
    ASSUME IInv, NEW k \in Cached
    PROVE  k \in Keys /\ entries[k].value \in Values
  BY DEF IInv, TypeOK, CacheEntry

(* The empty function is a cache.                                            *)
LEMMA EmptyCache ==
    ASSUME NEW e, e = [k \in {} |-> 0]
    PROVE  DOMAIN e = {} /\ e \in [{} -> CacheEntry]
  OBVIOUS

LEMMA InitIInv == Init => IInv
  <1> SUFFICES ASSUME Init PROVE IInv
    OBVIOUS
  <1>1. Cached = {} /\ entries \in [{} -> CacheEntry] /\ recency = 0
    BY EmptyCache DEF Init, Cached
  <1> QED
    BY <1>1, CapacityAssumption, FS_EmptySet DEF IInv, TypeOK, Bounded, StampsDistinct

(* Each operation, in terms of the keys it keeps and of the key it uses.     *)
Uses(D, k) ==
    /\ D \in SUBSET Cached /\ Cached' = D \cup {k}
    /\ entries'[k].last_used = recency'
    /\ \A j \in D \ {k} : entries'[j].last_used = Renumbered[j].last_used
    /\ \A o \in Cached \ D :
          \A j \in Cached \ {o} : j \in D /\ entries[o].last_used < entries[j].last_used

LEMMA StepEffect ==
    ASSUME IInv, Next
    PROVE  IInv' /\ (Cached' = {} \/ \E k \in Keys, D \in SUBSET Cached : Uses(D, k))
  <1>1. ASSUME NEW k \in Keys, Get(k)
        PROVE  IInv' /\ Uses(Cached, k)
    <2>1. /\ IInv' /\ Cached' = Cached /\ k \in Cached
          /\ entries'[k].last_used = recency'
          /\ \A j \in Cached \ {k} : entries'[j].last_used = Renumbered[j].last_used
      BY <1>1, CachedValue, TouchStep DEF Get
    <2> QED
      BY <2>1 DEF Uses
  <1>2. ASSUME NEW k \in Keys, NEW v \in Values, InsertExisting(k, v)
        PROVE  IInv' /\ Uses(Cached, k)
    <2>1. /\ IInv' /\ Cached' = Cached /\ k \in Cached
          /\ entries'[k].last_used = recency'
          /\ \A j \in Cached \ {k} : entries'[j].last_used = Renumbered[j].last_used
      BY <1>2, TouchStep DEF InsertExisting
    <2> QED
      BY <2>1 DEF Uses
  <1>3. ASSUME NEW k \in Keys, NEW v \in Values, InsertNew(k, v)
        PROVE  IInv' /\ \E D \in SUBSET Cached : Uses(D, k)
    BY <1>3, InsertStep DEF Uses
  <1>4. ASSUME Clear
        PROVE  IInv' /\ Cached' = {}
    <2>1. Cached' = {} /\ entries' \in [{} -> CacheEntry] /\ recency' = 0
      BY <1>4, EmptyCache DEF Clear, Cached
    <2> QED
      BY <2>1, CapacityAssumption, FS_EmptySet DEF IInv, TypeOK, Bounded, StampsDistinct
  <1> QED
    BY <1>1, <1>2, <1>3, <1>4 DEF Next

(* A step that changes nothing keeps the invariant.                          *)
LEMMA StutterIInv == IInv /\ UNCHANGED vars => IInv'
  BY DEF IInv, TypeOK, Bounded, StampsDistinct, Cached, vars

(* The invariant holds of the cache for every capacity and counter width.    *)
THEOREM Invariance == Spec => []IInv
  <1>1. Init => IInv
    BY InitIInv
  <1>2. IInv /\ [Next]_vars => IInv'
    BY StepEffect, StutterIInv
  <1> QED
    BY <1>1, <1>2, PTL DEF Spec

(* The cache never holds more than Capacity entries.                         *)
THEOREM CapacityRespected == Spec => []Bounded
  <1>1. IInv => Bounded
    BY DEF IInv
  <1> QED
    BY <1>1, Invariance, PTL

(* No two entries share a stamp, before and after a rebase of the counter.   *)
THEOREM StampsStayDistinct == Spec => []StampsDistinct
  <1>1. IInv => StampsDistinct
    BY DEF IInv
  <1> QED
    BY <1>1, Invariance, PTL

(* rebase_recency and every other step keep the order of the entries.        *)
THEOREM RecencyOrderKept == Spec => OrderKept
  <1> DEFINE Kept == \A j, k \in Cached \cap Cached' :
                        entries[j].last_used < entries[k].last_used
                           => \/ entries'[j].last_used < entries'[k].last_used
                              \/ entries'[j].last_used = recency'
  <1>1. ASSUME IInv, Next PROVE Kept
    <2> SUFFICES ASSUME NEW i \in Cached \cap Cached', NEW j \in Cached \cap Cached',
                        entries[i].last_used < entries[j].last_used
                 PROVE  \/ entries'[i].last_used < entries'[j].last_used
                        \/ entries'[i].last_used = recency'
      OBVIOUS
    <2>1. PICK k \in Keys, D \in SUBSET Cached : Uses(D, k)
      BY <1>1, StepEffect
    <2>2. /\ Renumbered[i].last_used < Renumbered[j].last_used
          /\ Renumbered[i].last_used < NextRecency
      BY <1>1, NextRecencyEffect
    <2>3. CASE i = k
      BY <2>1, <2>3 DEF Uses
    <2>4. CASE i # k /\ j # k
      BY <2>1, <2>2, <2>4 DEF Uses
    <2>5. CASE i # k /\ j = k
      <3>1. entries'[i].last_used = Renumbered[i].last_used /\ entries'[j].last_used = recency'
        BY <2>1, <2>5 DEF Uses
      <3>2. recency' = NextRecency
        <4>1. Cached' # {}
          OBVIOUS
        <4> QED
          BY <1>1, <4>1, EmptyCache DEF Next, Get, InsertExisting, InsertNew, Clear, Cached
      <3> QED
        BY <2>2, <3>1, <3>2
    <2> QED
      BY <2>3, <2>4, <2>5
  <1>2. IInv /\ [Next]_vars => [Kept]_vars
    BY <1>1
  <1> QED
    BY <1>2, Invariance, PTL DEF Spec, OrderKept

(* An insertion evicts at most one entry, and it is the oldest.              *)
THEOREM OldestEvicted == Spec => EvictsOldest
  <1> DEFINE Oldest == Cached' # {} =>
                         \A k \in Cached \ Cached' :
                             \A j \in Cached \ {k} :
                                 j \in Cached' /\ entries[k].last_used < entries[j].last_used
  <1>1. ASSUME IInv, Next PROVE Oldest
    BY <1>1, StepEffect DEF Uses
  <1>2. IInv /\ [Next]_vars => [Oldest]_vars
    BY <1>1
  <1> QED
    BY <1>2, Invariance, PTL DEF Spec, EvictsOldest

================================================================================
