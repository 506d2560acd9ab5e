------------------------------ MODULE MCLruCache -------------------------------
(***************************************************************************)
(* The cache with a counter that overflows after a few uses, and its       *)
(* refinement of the recency list.                                         *)
(***************************************************************************)
EXTENDS LruCache, SequencesExt

(* The cached entries from the oldest stamp to the newest. *)
ByRecency ==
    LET older(j, k) == entries[j].last_used < entries[k].last_used
        keys == SetToSortSeq(Cached, older)
    IN  [i \in 1 .. Len(keys) |-> [key |-> keys[i], value |-> entries[keys[i]].value]]

Abstract == INSTANCE RecencyList WITH list <- ByRecency

(***************************************************************************)
(* The cache behaves as a recency list: neither the stamps nor the rebase  *)
(* of the counter can be observed.                                         *)
(***************************************************************************)
ImplementsRecencyList == Abstract!Spec

================================================================================
