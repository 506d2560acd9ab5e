------------------------------ MODULE RecencyList ------------------------------
(***************************************************************************)
(* What the cache promises: a list of entries from the least to the most   *)
(* recently used, of which insertions drop the first when the list is      *)
(* full.  There are no stamps and no counter.                              *)
(***************************************************************************)
EXTENDS Naturals, Sequences

CONSTANTS Keys, Values, Capacity

VARIABLE list   \* sequence of [key, value]

Others(k) == SelectSeq(list, LAMBDA e : e.key # k)

Holds(k) == \E i \in 1 .. Len(list) : list[i].key = k

Used(k, v) == list' = Append(Others(k), [key |-> k, value |-> v])

Init == list = <<>>

Get(k) ==
    \E i \in 1 .. Len(list) : list[i].key = k /\ Used(k, list[i].value)

Insert(k, v) ==
    \/ (Holds(k) \/ Len(list) < Capacity) /\ Used(k, v)
    \/ /\ ~Holds(k) /\ Len(list) = Capacity
       /\ list' = Append(Tail(list), [key |-> k, value |-> v])

Clear == list' = <<>>

Next ==
    \/ Clear
    \/ \E k \in Keys : Get(k)
    \/ \E k \in Keys, v \in Values : Insert(k, v)

Spec == Init /\ [][Next]_list

================================================================================
