------------------------------- MODULE LruCache --------------------------------
(***************************************************************************)
(* The bounded cache of search pages and thread details                    *)
(* (crates/notm-ui/src/cache.rs).                                          *)
(*                                                                         *)
(* Recency is a stamp from a counter of fixed width.  When the counter is  *)
(* exhausted every stamp is replaced by its rank, and the counter goes on  *)
(* from the number of entries.                                             *)
(***************************************************************************)
EXTENDS Naturals, FiniteSets

CONSTANTS
    Keys,
    Values,
    Capacity,     \* entries the cache may hold
    MaxRecency    \* the largest stamp: u64::MAX

(* The assertions of new, and a cache over finitely many keys. *)
ASSUME CapacityAssumption ==
    /\ Capacity \in Nat \ {0}
    /\ MaxRecency \in Nat
    /\ Capacity < MaxRecency
    /\ IsFiniteSet(Keys)

CacheEntry == [value : Values, last_used : 1 .. MaxRecency]

VARIABLES
    entries,   \* a function from the cached keys to their entries
    recency    \* the last stamp that was handed out

vars == <<entries, recency>>

Cached == DOMAIN entries

--------------------------------------------------------------------------------
Stamps(e) == {e[k].last_used : k \in DOMAIN e}

(* The position of a stamp among the sorted stamps of e. *)
Rank(e, s) == Cardinality({t \in Stamps(e) : t <= s})

RebaseRecency(e) ==
    [k \in DOMAIN e |-> [value |-> e[k].value, last_used |-> Rank(e, e[k].last_used)]]

(* next_recency: the stamp it returns, and the entries it leaves. *)
NextRecency ==
    IF recency < MaxRecency THEN recency + 1 ELSE Cardinality(Stamps(entries)) + 1

Renumbered == IF recency < MaxRecency THEN entries ELSE RebaseRecency(entries)

(* Faulty variant: the newest entry goes. *)
EvictNewest(e) ==
    [k \in {j \in DOMAIN e : \E i \in DOMAIN e : e[j].last_used < e[i].last_used} |-> e[k]]

(* evict_lru retains what is not of the smallest stamp. *)
EvictLru(e) ==
    [k \in {j \in DOMAIN e : \E i \in DOMAIN e : e[i].last_used < e[j].last_used} |-> e[k]]

Put(e, k, v, stamp) ==
    [j \in DOMAIN e \cup {k} |->
        IF j = k THEN [value |-> v, last_used |-> stamp] ELSE e[j]]

Init ==
    /\ entries = [k \in {} |-> 0]
    /\ recency = 0

(* A hit of get; a miss changes nothing. *)
Get(k) ==
    /\ k \in Cached
    /\ recency' = NextRecency
    /\ entries' = Put(Renumbered, k, entries[k].value, NextRecency)

(* Faulty variant: replacing a value is not a use. *)
InsertExistingInPlace(k, v) ==
    /\ k \in Cached
    /\ entries' = Put(entries, k, v, entries[k].last_used)
    /\ UNCHANGED recency

InsertExisting(k, v) ==
    /\ k \in Cached
    /\ recency' = NextRecency
    /\ entries' = Put(Renumbered, k, v, NextRecency)

InsertNew(k, v) ==
    /\ k \notin Cached
    /\ recency' = NextRecency
    /\ entries' = Put(IF Cardinality(Cached) = Capacity
                      THEN EvictLru(Renumbered) ELSE Renumbered,
                      k, v, NextRecency)

Clear ==
    /\ entries' = [k \in {} |-> 0]
    /\ recency' = 0

Next ==
    \/ \E k \in Keys : Get(k)
    \/ \E k \in Keys, v \in Values : InsertExisting(k, v) \/ InsertNew(k, v)
    \/ Clear

Spec == Init /\ [][Next]_vars

--------------------------------------------------------------------------------
(* Properties.                                                               *)

TypeOK ==
    /\ Cached \subseteq Keys
    /\ entries \in [Cached -> CacheEntry]
    /\ recency \in 0 .. MaxRecency

(* insert's debug_assert: the cache never holds more than its capacity.      *)
Bounded == Cardinality(Cached) <= Capacity

(***************************************************************************)
(* evict_lru removes every entry of the smallest stamp and asserts that it *)
(* removed one: stamps are distinct and none is ahead of the counter, also *)
(* after the counter has been rebased.                                     *)
(***************************************************************************)
StampsDistinct ==
    /\ \A j, k \in Cached : entries[j].last_used = entries[k].last_used => j = k
    /\ \A k \in Cached : entries[k].last_used <= recency

(***************************************************************************)
(* Rebasing is invisible: of two entries that stay in the cache, the one   *)
(* used later stays ahead unless the step itself uses the other one.       *)
(***************************************************************************)
OrderKept ==
    [][\A j, k \in Cached \cap Cached' :
          entries[j].last_used < entries[k].last_used
             => \/ entries'[j].last_used < entries'[k].last_used
                \/ entries'[j].last_used = recency']_vars

(***************************************************************************)
(* An insertion evicts one entry at most, and the least recently used one. *)
(***************************************************************************)
EvictsOldest ==
    [][Cached' # {} =>
          \A k \in Cached \ Cached' :
              \A j \in Cached \ {k} :
                  j \in Cached' /\ entries[k].last_used < entries[j].last_used]_vars

================================================================================
