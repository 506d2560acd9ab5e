-------------------------- MODULE DraftAutosaveProofs --------------------------
(***************************************************************************)
(* Proofs about the recovery-draft writer, for any number of generations,  *)
(* requests and flushes, and about the composer over it, for any number of *)
(* edits and user steps.                                                   *)
(***************************************************************************)
EXTENDS Composer, WellFoundedInduction, TLAPS

(***************************************************************************)
(* What the proofs need beside the properties.  Request ids come from one  *)
(* counter and name one request each, the pending request is not also      *)
(* queued, callbacks are numbered by the calls of flush, and a writer that *)
(* is past the rename has left its own action in the recovery file.        *)
(***************************************************************************)
UniqueIds(c) ==
    \A r, s \in Outstanding(c) : r.request_id = s.request_id => r = s

PendingApart(c) ==
    c.pending # NoRequest =>
        \A r \in Outstanding(c) : r.request_id # c.pending.request_id

IdsIssued(c) ==
    /\ c.pending.request_id < c.next_request_id
    /\ \A r \in Outstanding(c) : r.request_id < c.next_request_id

IdsOK(c) == UniqueIds(c) /\ PendingApart(c) /\ IdsIssued(c)

FlushesNumbered == \A x \in ctl.waiters : x.flush <= flushes

WrittenStays ==
    \A w \in workers : w.phase \in {"written", "ok"} => recovery = w.request.action

IInv ==
    /\ TypeOK
    /\ OneWriter
    /\ IdsOK(ctl)
    /\ WaitersServed
    /\ FlushesNumbered
    /\ WrittenStays

--------------------------------------------------------------------------------
(* Sequences of requests, as the sets of their elements.                     *)

(* start_pending_write's pop_front: the head and the tail hold the same      *)
(* requests as the queue.                                                    *)
LEMMA PopKeepsElements ==
    ASSUME NEW S, NEW q \in Seq(S), q # <<>>
    PROVE  /\ Head(q) \in S
           /\ Tail(q) \in Seq(S)
           /\ {q[i] : i \in 1 .. Len(q)}
                 = {Head(q)} \cup {Tail(q)[i] : i \in 1 .. Len(Tail(q))}
  <1>1. Head(q) = q[1] /\ Head(q) \in S /\ Tail(q) \in Seq(S) /\ Len(q) \in Nat \ {0}
    OBVIOUS
  <1>2. Len(Tail(q)) = Len(q) - 1 /\ \A i \in 1 .. Len(Tail(q)) : Tail(q)[i] = q[i + 1]
    OBVIOUS
  <1>3. \A i \in 1 .. Len(q) : i = 1 \/ (i - 1 \in 1 .. Len(Tail(q)) /\ q[i] = Tail(q)[i - 1])
    BY <1>1, <1>2
  <1>4. \A i \in 1 .. Len(Tail(q)) : i + 1 \in 1 .. Len(q) /\ Tail(q)[i] = q[i + 1]
    BY <1>1, <1>2
  <1> QED
    BY <1>1, <1>3, <1>4

(* queue_flush's push_back adds exactly one request.                         *)
LEMMA PushAddsElement ==
    ASSUME NEW S, NEW q \in Seq(S), NEW e \in S
    PROVE  /\ Append(q, e) \in Seq(S)
           /\ {Append(q, e)[i] : i \in 1 .. Len(Append(q, e))}
                 = {q[i] : i \in 1 .. Len(q)} \cup {e}
  <1>1. /\ Append(q, e) \in Seq(S)
        /\ Len(q) \in Nat
        /\ Len(Append(q, e)) = Len(q) + 1
        /\ Append(q, e)[Len(q) + 1] = e
        /\ \A i \in 1 .. Len(q) : Append(q, e)[i] = q[i]
    OBVIOUS
  <1>2. \A i \in 1 .. Len(Append(q, e)) : i \in 1 .. Len(q) \/ i = Len(q) + 1
    BY <1>1
  <1>3. Len(q) + 1 \in 1 .. Len(Append(q, e))
        /\ \A i \in 1 .. Len(q) : i \in 1 .. Len(Append(q, e))
    BY <1>1
  <1> QED
    BY <1>1, <1>2, <1>3

--------------------------------------------------------------------------------
(* What the controller's methods do to the outstanding requests.             *)

(* NoRequest is no request: its id is 0.                                     *)
LEMMA NoRequestApart ==
    /\ NoRequest \notin DraftWriteRequest
    /\ NoRequest.request_id = 0
  BY DEF NoRequest, DraftWriteRequest

(* A request that a method makes has its type.                               *)
LEMMA MakeRequestType ==
    ASSUME NEW c \in Controller, NEW g \in Generations, NEW a \in RecoveryAction
    PROVE  /\ MakeRequest(c, g, a) \in DraftWriteRequest
           /\ MakeRequest(c, g, a).request_id = c.next_request_id
           /\ SameWrite(MakeRequest(c, g, a), g, a)
  <1>1. c.next_request_id \in Nat \ {0}
    BY DEF Controller
  <1>2. MakeRequest(c, g, a) \in DraftWriteRequest
    BY <1>1 DEF MakeRequest, DraftWriteRequest
  <1> QED
    BY <1>2, NoRequestApart DEF MakeRequest, SameWrite

LEMMA OutstandingType ==
    ASSUME NEW c \in Controller
    PROVE  Outstanding(c) \subseteq DraftWriteRequest
  <1>1. c.active \in DraftWriteRequest \cup {NoRequest} /\ c.urgent \in Seq(DraftWriteRequest)
    BY DEF Controller
  <1>2. \A i \in 1 .. Len(c.urgent) : c.urgent[i] \in DraftWriteRequest
    BY <1>1
  <1> QED
    BY <1>1, <1>2 DEF Outstanding

(***************************************************************************)
(* start_pending_write keeps every outstanding request, and either leaves  *)
(* the pending request alone or makes it the active one.                   *)
(***************************************************************************)
LEMMA StartEffect ==
    ASSUME NEW c \in Controller
    PROVE  LET d == StartPendingWrite(c)
           IN  /\ d \in Controller
               /\ d.waiters = c.waiters
               /\ d.next_request_id = c.next_request_id
               /\ c.active # NoRequest => d.active = c.active
               /\ \/ d.pending = c.pending /\ Outstanding(d) = Outstanding(c)
                  \/ /\ d.pending = NoRequest
                     /\ Outstanding(d) = Outstanding(c) \cup ({c.pending} \ {NoRequest})
  <1> DEFINE d == StartPendingWrite(c)
  <1>1. CASE c.active = NoRequest /\ c.urgent # <<>>
    <2>1. d = [c EXCEPT !.active = Head(c.urgent), !.urgent = Tail(c.urgent)]
      BY <1>1 DEF StartPendingWrite
    <2>2. /\ c.urgent \in Seq(DraftWriteRequest)
          /\ Head(c.urgent) \in DraftWriteRequest
          /\ Tail(c.urgent) \in Seq(DraftWriteRequest)
          /\ {c.urgent[i] : i \in 1 .. Len(c.urgent)}
               = {Head(c.urgent)} \cup {Tail(c.urgent)[i] : i \in 1 .. Len(Tail(c.urgent))}
      <3>1. c.urgent \in Seq(DraftWriteRequest)
        BY DEF Controller
      <3> QED
        BY <1>1, <3>1, PopKeepsElements
    <2>3. d \in Controller
      BY <2>1, <2>2 DEF Controller
    <2>4. /\ d.active = Head(c.urgent) /\ d.urgent = Tail(c.urgent)
          /\ d.pending = c.pending /\ d.waiters = c.waiters
          /\ d.next_request_id = c.next_request_id
      BY <2>1 DEF Controller
    <2>5. Outstanding(d) = Outstanding(c)
      BY <1>1, <2>2, <2>4 DEF Outstanding
    <2> QED
      BY <1>1, <2>3, <2>4, <2>5
  <1>2. CASE c.active = NoRequest /\ c.urgent = <<>> /\ c.pending_ready
    <2>1. d = [c EXCEPT !.active = c.pending, !.pending = NoRequest, !.pending_ready = FALSE]
      BY <1>2 DEF StartPendingWrite
    <2>2. d \in Controller
      BY <2>1 DEF Controller
    <2>3. /\ d.active = c.pending /\ d.urgent = c.urgent /\ d.pending = NoRequest
          /\ d.waiters = c.waiters /\ d.next_request_id = c.next_request_id
      BY <2>1 DEF Controller
    <2>4. Outstanding(d) = Outstanding(c) \cup ({c.pending} \ {NoRequest})
      BY <1>2, <2>3 DEF Outstanding
    <2> QED
      BY <1>2, <2>2, <2>3, <2>4
  <1>3. CASE ~(c.active = NoRequest /\ c.urgent # <<>>)
             /\ ~(c.active = NoRequest /\ c.urgent = <<>> /\ c.pending_ready)
    <2>1. d = c
      BY <1>3 DEF StartPendingWrite
    <2> QED
      BY <2>1
  <1> QED
    BY <1>1, <1>2, <1>3

(* start_pending_write moves requests about and issues no id.                *)
LEMMA StartKeepsIds ==
    ASSUME NEW c \in Controller, IdsOK(c)
    PROVE  IdsOK(StartPendingWrite(c))
  <1> DEFINE d == StartPendingWrite(c)
  <1>1. /\ d.next_request_id = c.next_request_id
        /\ \/ d.pending = c.pending /\ Outstanding(d) = Outstanding(c)
           \/ /\ d.pending = NoRequest
              /\ Outstanding(d) = Outstanding(c) \cup ({c.pending} \ {NoRequest})
    BY StartEffect
  <1>2. c.next_request_id \in Nat \ {0}
    BY DEF Controller
  <1>3. CASE d.pending = c.pending /\ Outstanding(d) = Outstanding(c)
    BY <1>1, <1>3 DEF IdsOK, UniqueIds, PendingApart, IdsIssued
  <1>4. CASE /\ d.pending = NoRequest
             /\ Outstanding(d) = Outstanding(c) \cup ({c.pending} \ {NoRequest})
    <2>1. UniqueIds(d)
      BY <1>4 DEF IdsOK, UniqueIds, PendingApart
    <2>2. PendingApart(d)
      BY <1>4 DEF PendingApart
    <2>3. IdsIssued(d)
      BY <1>1, <1>2, <1>4, NoRequestApart DEF IdsOK, IdsIssued
    <2> QED
      BY <2>1, <2>2, <2>3 DEF IdsOK
  <1> QED
    BY <1>1, <1>3, <1>4

(* next_request_id advances the counter and touches no request.              *)
LEMMA NextIdEffect ==
    ASSUME NEW k \in Controller
    PROVE  LET n == NextRequestId(k)
           IN  /\ n \in Controller
               /\ n.urgent = k.urgent /\ n.active = k.active /\ n.pending = k.pending
               /\ n.waiters = k.waiters /\ n.next_request_id = k.next_request_id + 1
  <1>1. k.next_request_id \in Nat /\ k.next_request_id + 1 \in Nat \ {0}
    BY DEF Controller
  <1> QED
    BY <1>1 DEF NextRequestId, Controller

(* What queue_flush leaves of the pending request before it issues an id.    *)
LEMMA KeepNewerEffect ==
    ASSUME NEW c \in Controller, NEW g \in Generations
    PROVE  LET k == KeepNewerPending(c, g)
           IN  /\ k \in Controller
               /\ k.urgent = c.urgent /\ k.active = c.active
               /\ k.waiters = c.waiters /\ k.next_request_id = c.next_request_id
               /\ \/ k.pending = c.pending
                  \/ k.pending = NoRequest /\ c.pending.generation <= g
  <1>0. c.pending # NoRequest => c.pending.generation \in Nat
    BY DEF Controller, DraftWriteRequest, Generations
  <1>g. g \in Nat
    BY DEF Generations
  <1>1. CASE c.pending = NoRequest
    <2>1. KeepNewerPending(c, g) = c
      BY <1>1 DEF KeepNewerPending
    <2> QED BY <2>1
  <1>2. CASE c.pending # NoRequest /\ c.pending.generation > g
    <2>1. KeepNewerPending(c, g) = [c EXCEPT !.pending_ready = TRUE]
      BY <1>2 DEF KeepNewerPending
    <2> QED BY <2>1 DEF Controller
  <1>3. CASE c.pending # NoRequest /\ ~(c.pending.generation > g)
    <2>1. KeepNewerPending(c, g) = [c EXCEPT !.pending = NoRequest, !.pending_ready = FALSE]
      BY <1>3 DEF KeepNewerPending
    <2>2. c.pending.generation <= g
      BY <1>0, <1>g, <1>3
    <2> QED BY <2>1, <2>2 DEF Controller
  <1> QED
    BY <1>1, <1>2, <1>3

(***************************************************************************)
(* queue_flush has three outcomes, and in each the request whose id it     *)
(* returns is outstanding and writes what the flush asked for.             *)
(***************************************************************************)
Joined(c, d, id, g, a) ==
    /\ d = c
    /\ \E r \in Outstanding(c) : r.request_id = id /\ SameWrite(r, g, a)

Promoted(c, d, id, g, a) ==
    /\ d.pending = NoRequest
    /\ d.next_request_id = c.next_request_id
    /\ Outstanding(d) = Outstanding(c) \cup {c.pending}
    /\ id = c.pending.request_id
    /\ SameWrite(c.pending, g, a)

Appended(c, d, id, g, a) ==
    /\ d.pending = c.pending \/ (d.pending = NoRequest /\ c.pending.generation <= g)
    /\ d.next_request_id = c.next_request_id + 1
    /\ Outstanding(d) = Outstanding(c) \cup {MakeRequest(c, g, a)}
    /\ id = c.next_request_id

LEMMA QueueFlushEffect ==
    ASSUME NEW c \in Controller, NEW g \in Generations, NEW a \in RecoveryAction
    PROVE  LET d == QueueFlush(c, g, a)
               id == FlushRequestId(c, g, a)
           IN  /\ d \in Controller
               /\ d.waiters = c.waiters /\ d.active = c.active
               /\ \/ Joined(c, d, id, g, a)
                  \/ Promoted(c, d, id, g, a)
                  \/ Appended(c, d, id, g, a)
  <1> DEFINE d == QueueFlush(c, g, a)
             id == FlushRequestId(c, g, a)
  <1>u. /\ c.urgent \in Seq(DraftWriteRequest)
        /\ c.next_request_id \in Nat \ {0}
        /\ c.pending \in DraftWriteRequest \cup {NoRequest}
    BY DEF Controller
  <1>1. CASE Joins(c, g, a)
    <2>1. d = c /\ id = (CHOOSE r \in Joinable(c, g, a) : TRUE).request_id
      BY <1>1 DEF QueueFlush, FlushRequestId, Promotes
    <2>2. (CHOOSE r \in Joinable(c, g, a) : TRUE) \in Joinable(c, g, a)
      BY <1>1 DEF Joins
    <2>3. Joined(c, d, id, g, a)
      BY <2>1, <2>2 DEF Joined, Joinable
    <2> QED
      BY <2>1, <2>3
  <1>2. CASE Promotes(c, g, a)
    <2>1. /\ d = [c EXCEPT !.urgent = Append(c.urgent, c.pending),
                            !.pending = NoRequest, !.pending_ready = FALSE]
          /\ id = c.pending.request_id
          /\ SameWrite(c.pending, g, a)
      BY <1>2 DEF QueueFlush, FlushRequestId, Promotes
    <2>2. c.pending \in DraftWriteRequest
      BY <1>u, <2>1 DEF SameWrite
    <2>3. /\ Append(c.urgent, c.pending) \in Seq(DraftWriteRequest)
          /\ {Append(c.urgent, c.pending)[i] : i \in 1 .. Len(Append(c.urgent, c.pending))}
                = {c.urgent[i] : i \in 1 .. Len(c.urgent)} \cup {c.pending}
      BY <1>u, <2>2, PushAddsElement
    <2>4. d \in Controller
      BY <2>1, <2>3 DEF Controller
    <2>5. /\ d.urgent = Append(c.urgent, c.pending) /\ d.active = c.active
          /\ d.pending = NoRequest /\ d.waiters = c.waiters
          /\ d.next_request_id = c.next_request_id
      BY <2>1 DEF Controller
    <2>6. Outstanding(d) = Outstanding(c) \cup {c.pending}
      BY <2>2, <2>3, <2>5, NoRequestApart DEF Outstanding
    <2> QED
      BY <2>1, <2>4, <2>5, <2>6 DEF Promoted
  <1>3. CASE ~Joins(c, g, a) /\ ~Promotes(c, g, a)
    <2> DEFINE k == KeepNewerPending(c, g)
               n == NextRequestId(k)
    <2>1. /\ d = [n EXCEPT !.urgent = Append(c.urgent, MakeRequest(c, g, a))]
          /\ id = c.next_request_id
      BY <1>3 DEF QueueFlush, FlushRequestId
    <2>2. /\ k \in Controller
          /\ k.urgent = c.urgent /\ k.active = c.active
          /\ k.waiters = c.waiters /\ k.next_request_id = c.next_request_id
          /\ k.pending = c.pending \/ (k.pending = NoRequest /\ c.pending.generation <= g)
      BY KeepNewerEffect
    <2>4. /\ n \in Controller
          /\ n.urgent = c.urgent /\ n.active = c.active /\ n.pending = k.pending
          /\ n.waiters = c.waiters /\ n.next_request_id = c.next_request_id + 1
      BY <2>2, NextIdEffect
    <2>5. MakeRequest(c, g, a) \in DraftWriteRequest
      BY MakeRequestType
    <2> DEFINE m == MakeRequest(c, g, a)
    <2> HIDE DEF m, n, k
    <2>6. /\ Append(c.urgent, m) \in Seq(DraftWriteRequest)
          /\ {Append(c.urgent, m)[i] : i \in 1 .. Len(Append(c.urgent, m))}
                = {c.urgent[i] : i \in 1 .. Len(c.urgent)} \cup {m}
      BY <1>u, <2>5, PushAddsElement DEF m
    <2>7. d = [n EXCEPT !.urgent = Append(c.urgent, m)]
      BY <2>1 DEF m
    <2>8. d \in Controller
      BY <2>4, <2>6, <2>7 DEF Controller
    <2>9. /\ d.urgent = Append(c.urgent, m) /\ d.active = c.active /\ d.pending = k.pending
          /\ d.waiters = c.waiters /\ d.next_request_id = c.next_request_id + 1
      BY <2>4, <2>7 DEF Controller
    <2>10. Outstanding(d) = Outstanding(c) \cup {m}
      BY <2>5, <2>6, <2>9, NoRequestApart DEF Outstanding, m
    <2>11. Appended(c, d, id, g, a)
      BY <2>1, <2>2, <2>9, <2>10 DEF Appended, m
    <2> QED
      BY <2>8, <2>9, <2>11
  <1> QED
    BY <1>1, <1>2, <1>3

(* Equal slots and queues hold equal requests and keep their ids.            *)
LEMMA SameQueues ==
    ASSUME NEW c, NEW d, c.active = d.active, c.urgent = d.urgent,
           c.pending = d.pending, c.next_request_id = d.next_request_id
    PROVE  Outstanding(c) = Outstanding(d) /\ (IdsOK(c) => IdsOK(d))
  <1>1. Outstanding(c) = Outstanding(d)
    BY DEF Outstanding
  <1> QED
    BY <1>1 DEF IdsOK, UniqueIds, PendingApart, IdsIssued

(* queue_flush keeps ids unique: a new request takes an id never issued.     *)
LEMMA QueueFlushKeepsIds ==
    ASSUME NEW c \in Controller, IdsOK(c), NEW g \in Generations, NEW a \in RecoveryAction
    PROVE  IdsOK(QueueFlush(c, g, a))
  <1> DEFINE d == QueueFlush(c, g, a)
             id == FlushRequestId(c, g, a)
             m == MakeRequest(c, g, a)
  <1>1. Joined(c, d, id, g, a) \/ Promoted(c, d, id, g, a) \/ Appended(c, d, id, g, a)
    BY QueueFlushEffect
  <1>2. /\ c.next_request_id \in Nat \ {0}
        /\ \A r \in Outstanding(c) : r.request_id \in Nat
        /\ c.pending.request_id \in Nat
    <2>1. c.pending \in DraftWriteRequest \cup {NoRequest} /\ c.next_request_id \in Nat \ {0}
      BY DEF Controller
    <2>2. \A r \in DraftWriteRequest : r.request_id \in Nat
      BY DEF DraftWriteRequest
    <2> QED
      BY <2>1, <2>2, OutstandingType, NoRequestApart
  <1>3. m.request_id = c.next_request_id
    BY MakeRequestType
  <1> HIDE DEF d, id, m
  <1>4. CASE Joined(c, d, id, g, a)
    BY <1>4 DEF Joined, d
  <1>5. CASE Promoted(c, d, id, g, a)
    <2>1. /\ d.pending = NoRequest
          /\ d.next_request_id = c.next_request_id
          /\ Outstanding(d) = Outstanding(c) \cup {c.pending}
          /\ c.pending # NoRequest
      BY <1>5 DEF Promoted, SameWrite
    <2>2. UniqueIds(d)
      BY <2>1 DEF IdsOK, UniqueIds, PendingApart
    <2>3. PendingApart(d)
      BY <2>1 DEF PendingApart
    <2>4. IdsIssued(d)
      BY <1>2, <2>1, NoRequestApart DEF IdsOK, IdsIssued
    <2> QED
      BY <2>2, <2>3, <2>4 DEF IdsOK, d
  <1>6. CASE Appended(c, d, id, g, a)
    <2>1. /\ d.pending \in {c.pending, NoRequest}
          /\ d.next_request_id = c.next_request_id + 1
          /\ Outstanding(d) = Outstanding(c) \cup {m}
      BY <1>6 DEF Appended, m
    <2>2. \A r \in Outstanding(c) : r.request_id # m.request_id
      BY <1>2, <1>3 DEF IdsOK, IdsIssued
    <2>3. UniqueIds(d)
      BY <2>1, <2>2 DEF IdsOK, UniqueIds
    <2>4. c.pending.request_id # m.request_id
      BY <1>2, <1>3 DEF IdsOK, IdsIssued
    <2>5. PendingApart(d)
      BY <2>1, <2>4 DEF IdsOK, PendingApart
    <2>6. IdsIssued(d)
      BY <1>2, <1>3, <2>1, NoRequestApart DEF IdsOK, IdsIssued
    <2> QED
      BY <2>3, <2>5, <2>6 DEF IdsOK, d
  <1> QED
    BY <1>1, <1>4, <1>5, <1>6 DEF d

(* WaitersServed, of any controller. *)
Served(c) ==
    \A x \in c.waiters :
        \E r \in Outstanding(c) :
            /\ r.request_id = x.request_id
            /\ SameWrite(r, x.generation, x.action)

(***************************************************************************)
(* flush registers exactly one callback, on an outstanding request that    *)
(* writes what it asked for, keeps every other one served, and drops a     *)
(* pending edit only if it is not newer than the boundary.                 *)
(***************************************************************************)
LEMMA FlushEffect ==
    ASSUME NEW c \in Controller, IdsOK(c), Served(c),
           NEW g \in Generations, NEW a \in RecoveryAction, NEW k \in Nat \ {0}
    PROVE  LET f == Flush(c, g, a, k)
           IN  /\ f \in Controller
               /\ IdsOK(f)
               /\ Served(f)
               /\ \E x \in FlushWaiter :
                     /\ f.waiters = c.waiters \cup {x}
                     /\ x.flush = k /\ x.generation = g /\ x.action = a
               /\ c.active # NoRequest => f.active = c.active
               /\ \/ c.pending \in Outstanding(f) \cup {NoRequest, f.pending}
                  \/ c.pending.generation <= g
  <1> DEFINE b == CancelDebounce(c)
             q == QueueFlush(b, g, a)
             id == FlushRequestId(b, g, a)
             x == Waiter(b, g, a, k)
             p == [q EXCEPT !.waiters = c.waiters \cup {x}]
             f == StartPendingWrite(p)
  <1>0. Flush(c, g, a, k) = f
    BY DEF Flush
  <1>1. /\ b \in Controller /\ b.active = c.active /\ b.urgent = c.urgent
        /\ b.pending = c.pending /\ b.next_request_id = c.next_request_id
        /\ b.waiters = c.waiters
    BY DEF CancelDebounce, Controller
  <1>2. Outstanding(b) = Outstanding(c) /\ IdsOK(b)
    BY <1>1, SameQueues
  <1> HIDE DEF b
  <1>3. /\ q \in Controller
        /\ q.waiters = c.waiters /\ q.active = c.active
        /\ Joined(b, q, id, g, a) \/ Promoted(b, q, id, g, a) \/ Appended(b, q, id, g, a)
    BY <1>1, QueueFlushEffect
  <1>4. IdsOK(q)
    BY <1>1, <1>2, QueueFlushKeepsIds
  <1>5. /\ Outstanding(c) \subseteq Outstanding(q)
        /\ \E r \in Outstanding(q) : r.request_id = id /\ SameWrite(r, g, a)
    <2> HIDE DEF q, id
    <2>1. CASE Joined(b, q, id, g, a)
      BY <1>2, <2>1 DEF Joined
    <2>2. CASE Promoted(b, q, id, g, a)
      BY <1>2, <2>2 DEF Promoted
    <2>3. CASE Appended(b, q, id, g, a)
      BY <1>1, <1>2, <2>3, MakeRequestType DEF Appended
    <2> QED
      BY <1>3, <2>1, <2>2, <2>3
  <1>6. x \in FlushWaiter /\ x.request_id = id /\ x.flush = k /\ x.generation = g /\ x.action = a
    <2>1. id \in Nat \ {0}
      <3>1. \A r \in DraftWriteRequest : r.request_id \in Nat \ {0}
        BY DEF DraftWriteRequest
      <3> QED
        BY <1>3, <1>5, <3>1, OutstandingType
    <2> HIDE DEF id
    <2>2. x = [request_id |-> id, flush |-> k, generation |-> g, action |-> a]
      BY DEF Waiter, id
    <2> QED
      BY <2>1, <2>2 DEF FlushWaiter
  <1>7. /\ p \in Controller /\ p.waiters = c.waiters \cup {x}
        /\ p.active = q.active /\ p.urgent = q.urgent /\ p.pending = q.pending
        /\ p.next_request_id = q.next_request_id
    <2> HIDE DEF q, x
    <2>1. c.waiters \cup {x} \in SUBSET FlushWaiter
      BY <1>6 DEF Controller
    <2> QED
      BY <1>3, <2>1 DEF Controller
  <1>8. Outstanding(p) = Outstanding(q) /\ IdsOK(p)
    BY <1>4, <1>7, SameQueues
  <1>9. Served(p)
    <2> HIDE DEF p, q, x, id
    <2>1. \A y \in c.waiters :
            \E r \in Outstanding(p) :
              r.request_id = y.request_id /\ SameWrite(r, y.generation, y.action)
      BY <1>5, <1>8 DEF Served
    <2> QED
      BY <1>5, <1>6, <1>7, <1>8, <2>1 DEF Served
  <1> HIDE DEF p, q, x, id
  <1>10. /\ f \in Controller /\ f.waiters = p.waiters
         /\ p.active # NoRequest => f.active = p.active
         /\ \/ f.pending = p.pending /\ Outstanding(f) = Outstanding(p)
            \/ /\ f.pending = NoRequest
               /\ Outstanding(f) = Outstanding(p) \cup ({p.pending} \ {NoRequest})
    BY <1>7, StartEffect
  <1>11. IdsOK(f)
    BY <1>7, <1>8, StartKeepsIds
  <1> HIDE DEF f
  <1>12. Served(f)
    BY <1>9, <1>10 DEF Served
  <1>13. q.pending = b.pending \/ b.pending \in Outstanding(q) \/ b.pending.generation <= g
    BY <1>3 DEF Joined, Promoted, Appended
  <1>14. \/ c.pending \in Outstanding(f) \cup {NoRequest, f.pending}
         \/ c.pending.generation <= g
    BY <1>1, <1>7, <1>8, <1>10, <1>13
  <1> QED
    BY <1>0, <1>3, <1>6, <1>7, <1>10, <1>11, <1>12, <1>14

(* schedule replaces the pending request by one with an id of its own.       *)
LEMMA ScheduleEffect ==
    ASSUME NEW c \in Controller, IdsOK(c), NEW g \in Generations, NEW a \in RecoveryAction
    PROVE  LET s == Schedule(c, g, a)
           IN  /\ s \in Controller
               /\ IdsOK(s)
               /\ s.active = c.active /\ s.waiters = c.waiters
               /\ Outstanding(s) = Outstanding(c)
               /\ s.pending.request_id > c.pending.request_id
  <1> DEFINE b == CancelDebounce(c)
             n == NextRequestId(b)
             m == MakeRequest(b, g, a)
             s == Schedule(c, g, a)
  <1>1. /\ b \in Controller /\ b.active = c.active /\ b.urgent = c.urgent
        /\ b.pending = c.pending /\ b.next_request_id = c.next_request_id
        /\ b.waiters = c.waiters
    BY DEF CancelDebounce, Controller
  <1> HIDE DEF b
  <1>2. /\ n \in Controller
        /\ n.urgent = c.urgent /\ n.active = c.active
        /\ n.waiters = c.waiters /\ n.next_request_id = c.next_request_id + 1
    BY <1>1, NextIdEffect
  <1>3. m \in DraftWriteRequest /\ m.request_id = c.next_request_id
    BY <1>1, MakeRequestType
  <1>4. s = [n EXCEPT !.pending = m, !.pending_ready = FALSE, !.debounce_source = TRUE]
    BY DEF Schedule, QueueDebounced, b
  <1> HIDE DEF n, m, s
  <1>5. /\ s \in Controller /\ s.active = c.active /\ s.urgent = c.urgent
        /\ s.waiters = c.waiters /\ s.pending = m
        /\ s.next_request_id = c.next_request_id + 1
    BY <1>2, <1>3, <1>4 DEF Controller
  <1>6. Outstanding(s) = Outstanding(c)
    BY <1>5 DEF Outstanding
  <1>7. /\ c.next_request_id \in Nat
        /\ \A r \in Outstanding(c) : r.request_id \in Nat
        /\ c.pending.request_id \in Nat
    <2>1. c.pending \in DraftWriteRequest \cup {NoRequest} /\ c.next_request_id \in Nat
      BY DEF Controller
    <2>2. \A r \in DraftWriteRequest : r.request_id \in Nat
      BY DEF DraftWriteRequest
    <2> QED
      BY <2>1, <2>2, OutstandingType, NoRequestApart
  <1>8. /\ c.pending.request_id < c.next_request_id
        /\ \A r \in Outstanding(c) : r.request_id < c.next_request_id
    BY DEF IdsOK, IdsIssued
  <1>9. UniqueIds(s)
    BY <1>6 DEF IdsOK, UniqueIds
  <1>10. PendingApart(s)
    BY <1>3, <1>5, <1>6, <1>7, <1>8 DEF PendingApart
  <1>11. IdsIssued(s)
    BY <1>3, <1>5, <1>6, <1>7, <1>8 DEF IdsIssued
  <1> QED
    BY <1>3, <1>5, <1>6, <1>7, <1>8, <1>9, <1>10, <1>11 DEF IdsOK, s

(* The debounce callback loses no outstanding request and no pending edit.   *)
LEMMA ElapsedEffect ==
    ASSUME NEW c \in Controller, IdsOK(c), Served(c)
    PROVE  LET d == DebounceElapsed(c)
           IN  /\ d \in Controller /\ IdsOK(d) /\ Served(d)
               /\ d.waiters = c.waiters
               /\ c.active # NoRequest => d.active = c.active
               /\ c.pending \in Outstanding(d) \cup {NoRequest, d.pending}
  <1> DEFINE e == [c EXCEPT !.debounce_source = FALSE, !.pending_ready = TRUE]
             d == StartPendingWrite(e)
  <1>0. DebounceElapsed(c) = d
    BY DEF DebounceElapsed
  <1>1. /\ e \in Controller /\ e.active = c.active /\ e.urgent = c.urgent
        /\ e.pending = c.pending /\ e.next_request_id = c.next_request_id
        /\ e.waiters = c.waiters
    BY DEF Controller
  <1> HIDE DEF e
  <1>2. Outstanding(e) = Outstanding(c) /\ IdsOK(e)
    BY <1>1, SameQueues
  <1>3. IdsOK(d)
    BY <1>1, <1>2, StartKeepsIds
  <1>4. /\ d \in Controller /\ d.waiters = e.waiters
        /\ e.active # NoRequest => d.active = e.active
        /\ \/ d.pending = e.pending /\ Outstanding(d) = Outstanding(e)
           \/ /\ d.pending = NoRequest
              /\ Outstanding(d) = Outstanding(e) \cup ({e.pending} \ {NoRequest})
    BY <1>1, StartEffect
  <1> HIDE DEF d
  <1>5. Served(d)
    BY <1>1, <1>2, <1>4 DEF Served
  <1> QED
    BY <1>0, <1>1, <1>2, <1>3, <1>4, <1>5

(* finish_write releases the active request and exactly its own waiters.     *)
LEMMA ReleaseEffect ==
    ASSUME NEW c \in Controller, IdsOK(c), Served(c)
    PROVE  LET d == ReleaseActive(c)
           IN  /\ d \in Controller /\ IdsOK(d) /\ Served(d)
               /\ d.active = NoRequest /\ d.pending = c.pending
               /\ d.waiters = c.waiters \ ReadyWaiters(c)
  <1> DEFINE d == ReleaseActive(c)
  <1>1. /\ d.active = NoRequest /\ d.urgent = c.urgent /\ d.pending = c.pending
        /\ d.next_request_id = c.next_request_id
        /\ d.waiters = c.waiters \ ReadyWaiters(c)
        /\ d \in Controller
    <2>1. c.waiters \ ReadyWaiters(c) \in SUBSET FlushWaiter
      BY DEF Controller
    <2> QED
      BY <2>1 DEF ReleaseActive, Controller
  <1> HIDE DEF d
  <1>2. Outstanding(d) = {r \in {c.urgent[i] : i \in 1 .. Len(c.urgent)} : r # NoRequest}
    BY <1>1 DEF Outstanding
  <1>3. Outstanding(d) \subseteq Outstanding(c) /\ Outstanding(c) \subseteq Outstanding(d) \cup {c.active}
    BY <1>2 DEF Outstanding
  <1>4. IdsOK(d)
    BY <1>1, <1>3 DEF IdsOK, UniqueIds, PendingApart, IdsIssued
  <1>5. Served(d)
    <2> SUFFICES ASSUME NEW x \in d.waiters
                 PROVE  \E r \in Outstanding(d) :
                            /\ r.request_id = x.request_id
                            /\ SameWrite(r, x.generation, x.action)
      BY DEF Served
    <2>1. x \in c.waiters /\ x.request_id # c.active.request_id
      BY <1>1 DEF ReadyWaiters
    <2> QED
      BY <1>3, <2>1 DEF Served
  <1> QED
    BY <1>1, <1>4, <1>5 DEF d

--------------------------------------------------------------------------------
(* The inductive invariant.                                                  *)

Single(ws, c) == \A w \in ws : w.request = c.active /\ (\A v \in ws : v = w)

(***************************************************************************)
(* start_pending_write spawns a worker only when the active slot was free, *)
(* and then no other worker is live.                                       *)
(***************************************************************************)
LEMMA SpawnEffect ==
    ASSUME NEW c \in Controller, NEW d \in Controller, NEW ws \in SUBSET DraftWorker,
           Single(ws, c), c.active # NoRequest => d.active = c.active
    PROVE  LET n == ws \cup Spawned(c, d)
           IN  /\ n \subseteq DraftWorker
               /\ Single(n, d)
               /\ \A w \in n : w \in ws \/ w.phase = "running"
  <1> DEFINE sp == [request |-> d.active, phase |-> "running"]
  <1>1. \A w \in ws : w.request \in DraftWriteRequest /\ w.request # NoRequest
    BY NoRequestApart DEF DraftWorker
  <1>2. CASE d.active \in {c.active, NoRequest}
    <2>1. Spawned(c, d) = {}
      BY <1>2 DEF Spawned
    <2>2. d.active = c.active \/ ws = {}
      BY <1>1, <1>2 DEF Single
    <2> QED
      BY <2>1, <2>2 DEF Single
  <1>3. CASE d.active \notin {c.active, NoRequest}
    <2>1. Spawned(c, d) = {sp}
      BY <1>3 DEF Spawned
    <2>2. c.active = NoRequest /\ ws = {}
      BY <1>1, <1>3 DEF Single
    <2>3. d.active \in DraftWriteRequest
      BY <1>3 DEF Controller
    <2>4. sp \in DraftWorker /\ sp.request = d.active /\ sp.phase = "running"
      BY <2>3 DEF DraftWorker, WorkerPhases
    <2> QED
      BY <2>1, <2>2, <2>4 DEF Single
  <1> QED
    BY <1>2, <1>3

(* The empty controller of with_writer satisfies the invariant.              *)
LEMMA InitIInv == Init => IInv
  <1> SUFFICES ASSUME Init PROVE IInv
    OBVIOUS
  <1>1. Clear \in RecoveryAction
    BY DEF RecoveryAction
  <1>2. NewController \in Controller
    <2>1. <<>> \in Seq(DraftWriteRequest) /\ {} \in SUBSET FlushWaiter
      OBVIOUS
    <2> QED
      BY <2>1 DEF NewController, Controller
  <1>3. TypeOK
    BY <1>1, <1>2 DEF Init, TypeOK
  <1>4. Outstanding(ctl) = {} /\ ctl.pending = NoRequest /\ ctl.next_request_id = 1 /\ ctl.waiters = {}
    BY DEF Init, NewController, Outstanding
  <1>5. IdsOK(ctl)
    BY <1>4, NoRequestApart DEF IdsOK, UniqueIds, PendingApart, IdsIssued
  <1> QED
    BY <1>3, <1>4, <1>5 DEF IInv, Init, OneWriter, WaitersServed, FlushesNumbered, WrittenStays

(* Every step of the controller and of its workers keeps the invariant.      *)
LEMMA NextIInv == IInv /\ [Next]_vars => IInv'
  <1> SUFFICES ASSUME IInv, [Next]_vars PROVE IInv'
    OBVIOUS
  <1>t. /\ ctl \in Controller /\ workers \in SUBSET DraftWorker
        /\ recovery \in RecoveryAction /\ flushes \in Nat /\ finishing \in BOOLEAN
    BY DEF IInv, TypeOK
  <1>i. IdsOK(ctl) /\ Served(ctl) /\ Single(workers, ctl) /\ FlushesNumbered /\ WrittenStays
    BY DEF IInv, WaitersServed, Served, OneWriter, Single
  (* A step is done once the primed state meets the parts of the invariant. *)
  <1>p. ASSUME ctl' \in Controller, workers' \in SUBSET DraftWorker,
               recovery' \in RecoveryAction, flushes' \in Nat, finishing' \in BOOLEAN,
               IdsOK(ctl'), Served(ctl'), Single(workers', ctl'),
               FlushesNumbered', WrittenStays'
        PROVE  IInv'
    <2>1. TypeOK'
      BY <1>p DEF TypeOK
    <2>2. WaitersServed' /\ OneWriter'
      BY <1>p DEF WaitersServed, Served, OneWriter, Single
    <2>3. IdsOK(ctl)'
      BY <1>p DEF IdsOK, UniqueIds, PendingApart, IdsIssued, Outstanding
    <2> QED
      BY <1>p, <2>1, <2>2, <2>3 DEF IInv
  <1>1. ASSUME NEW g \in Generations, NEW a \in RecoveryAction, ScheduleEdit(g, a)
        PROVE  IInv'
    <2>1. /\ ctl' \in Controller /\ IdsOK(ctl') /\ ctl'.active = ctl.active
          /\ ctl'.waiters = ctl.waiters /\ Outstanding(ctl') = Outstanding(ctl)
      BY <1>1, <1>t, <1>i, ScheduleEffect DEF ScheduleEdit
    <2>2. /\ workers' = workers /\ recovery' = recovery
          /\ flushes' = flushes /\ finishing' = finishing
      BY <1>1 DEF ScheduleEdit
    <2>3. Served(ctl') /\ Single(workers', ctl')
      BY <1>i, <2>1, <2>2 DEF Served, Single
    <2>4. FlushesNumbered' /\ WrittenStays'
      BY <1>i, <2>1, <2>2 DEF FlushesNumbered, WrittenStays
    <2> QED
      BY <1>p, <1>t, <2>1, <2>2, <2>3, <2>4
  <1>2. ASSUME NEW g \in Generations, NEW a \in RecoveryAction, FlushBoundary(g, a)
        PROVE  IInv'
    <2>1. /\ flushes' = flushes + 1 /\ recovery' = recovery /\ finishing' = finishing
          /\ ctl' = Flush(ctl, g, a, flushes + 1)
          /\ workers' = workers \cup Spawned(ctl, ctl')
      BY <1>2 DEF FlushBoundary
    <2>2. flushes + 1 \in Nat \ {0}
      BY <1>t
    <2>3. /\ ctl' \in Controller /\ IdsOK(ctl') /\ Served(ctl')
          /\ ctl.active # NoRequest => ctl'.active = ctl.active
          /\ \E x \in FlushWaiter : ctl'.waiters = ctl.waiters \cup {x} /\ x.flush = flushes + 1
      BY <1>t, <1>i, <2>1, <2>2, FlushEffect
    <2>4. /\ workers' \subseteq DraftWorker /\ Single(workers', ctl')
          /\ \A w \in workers' : w \in workers \/ w.phase = "running"
      <3>1. /\ ctl \in Controller /\ ctl' \in Controller /\ workers \in SUBSET DraftWorker
            /\ Single(workers, ctl) /\ (ctl.active # NoRequest => ctl'.active = ctl.active)
        BY <1>t, <1>i, <2>3
      <3>2. LET n == workers \cup Spawned(ctl, ctl')
            IN  /\ n \subseteq DraftWorker
                /\ Single(n, ctl')
                /\ \A w \in n : w \in workers \/ w.phase = "running"
        BY <3>1, SpawnEffect
      <3> QED
        BY <2>1, <3>2
    <2>5. FlushesNumbered'
      <3>1. \A x \in ctl.waiters : x.flush \in Nat
        BY <1>t DEF Controller, FlushWaiter
      <3> QED
        BY <1>t, <1>i, <2>1, <2>3, <3>1 DEF FlushesNumbered
    <2>6. WrittenStays'
      BY <1>i, <2>1, <2>4 DEF WrittenStays
    <2> QED
      BY <1>p, <1>t, <2>1, <2>2, <2>3, <2>4, <2>5, <2>6
  <1>3. ASSUME DebounceFires
        PROVE  IInv'
    <2>1. /\ recovery' = recovery /\ flushes' = flushes /\ finishing' = finishing
          /\ ctl' = DebounceElapsed(ctl)
          /\ workers' = workers \cup Spawned(ctl, ctl')
      BY <1>3 DEF DebounceFires
    <2>2. /\ ctl' \in Controller /\ IdsOK(ctl') /\ Served(ctl')
          /\ ctl'.waiters = ctl.waiters
          /\ ctl.active # NoRequest => ctl'.active = ctl.active
      BY <1>t, <1>i, <2>1, ElapsedEffect
    <2>3. /\ workers' \subseteq DraftWorker /\ Single(workers', ctl')
          /\ \A w \in workers' : w \in workers \/ w.phase = "running"
      BY <1>t, <1>i, <2>1, <2>2, SpawnEffect
    <2>4. FlushesNumbered' /\ WrittenStays'
      BY <1>i, <2>1, <2>2, <2>3 DEF FlushesNumbered, WrittenStays
    <2> QED
      BY <1>p, <1>t, <2>1, <2>2, <2>3, <2>4
  <1>4. ASSUME NEW w \in workers, WorkerStep(w)
        PROVE  IInv'
    <2>1. /\ ctl' = ctl /\ flushes' = flushes /\ finishing' = finishing
      BY <1>4 DEF WorkerStep, WriterCommits, WriterSucceeds, WriterFails
    <2>2. PICK ph \in {"written", "ok", "failed"} :
              /\ workers' = (workers \ {w}) \cup {[w EXCEPT !.phase = ph]}
              /\ ph = "written" => recovery' = w.request.action
              /\ ph # "written" => recovery' = recovery
              /\ ph = "ok" => w.phase = "written"
      BY <1>4 DEF WorkerStep, WriterCommits, WriterSucceeds, WriterFails
    <2>3. workers = {w} /\ w.request = ctl.active /\ w \in DraftWorker
      BY <1>t, <1>i DEF Single
    <2> DEFINE v == [w EXCEPT !.phase = ph]
    <2>4. v \in DraftWorker /\ v.request = w.request /\ v.phase = ph
      BY <2>3 DEF DraftWorker, WorkerPhases
    <2>5. workers' = {v}
      BY <2>2, <2>3
    <2> HIDE DEF v
    <2>6. Single(workers', ctl')
      BY <2>1, <2>3, <2>4, <2>5 DEF Single
    <2>7. WrittenStays'
      BY <1>i, <2>2, <2>3, <2>4, <2>5 DEF WrittenStays
    <2>8. recovery' \in RecoveryAction
      <3>1. w.request.action \in RecoveryAction
        BY <2>3 DEF DraftWorker, DraftWriteRequest
      <3> QED
        BY <1>t, <2>2, <3>1
    <2>9. FlushesNumbered'
      BY <1>i, <2>1 DEF FlushesNumbered
    <2> QED
      BY <1>p, <1>t, <1>i, <2>1, <2>4, <2>5, <2>6, <2>7, <2>8, <2>9
  <1>5. ASSUME NEW w \in workers, FinishWrite(w)
        PROVE  IInv'
    <2>1. /\ recovery' = recovery /\ flushes' = flushes /\ finishing' = TRUE
          /\ ctl' = ReleaseActive(ctl)
          /\ workers' = workers \ {w}
      BY <1>5 DEF FinishWrite
    <2>2. /\ ctl' \in Controller /\ IdsOK(ctl') /\ Served(ctl')
          /\ ctl'.waiters \subseteq ctl.waiters
      BY <1>t, <1>i, <2>1, ReleaseEffect
    <2>3. workers' = {}
      BY <1>i, <2>1 DEF Single
    <2>4. Single(workers', ctl') /\ FlushesNumbered' /\ WrittenStays'
      BY <1>i, <2>1, <2>2, <2>3 DEF Single, FlushesNumbered, WrittenStays
    <2> QED
      BY <1>p, <1>t, <2>1, <2>2, <2>3, <2>4
  <1>6. ASSUME ResumeWrites
        PROVE  IInv'
    <2>1. /\ recovery' = recovery /\ flushes' = flushes /\ finishing' = FALSE
          /\ ctl' = StartPendingWrite(ctl)
          /\ workers' = workers \cup Spawned(ctl, ctl')
      BY <1>6 DEF ResumeWrites
    <2>2. /\ ctl' \in Controller /\ IdsOK(ctl')
          /\ ctl'.waiters = ctl.waiters
          /\ ctl.active # NoRequest => ctl'.active = ctl.active
          /\ Outstanding(ctl) \subseteq Outstanding(ctl')
      BY <1>t, <1>i, <2>1, StartEffect, StartKeepsIds
    <2>3. Served(ctl')
      BY <1>i, <2>2 DEF Served
    <2>4. /\ workers' \subseteq DraftWorker /\ Single(workers', ctl')
          /\ \A w \in workers' : w \in workers \/ w.phase = "running"
      BY <1>t, <1>i, <2>1, <2>2, SpawnEffect
    <2>5. FlushesNumbered' /\ WrittenStays'
      BY <1>i, <2>1, <2>2, <2>4 DEF FlushesNumbered, WrittenStays
    <2> QED
      BY <1>p, <1>t, <2>1, <2>2, <2>3, <2>4, <2>5
  <1>7. CASE UNCHANGED vars
    <2>1. /\ ctl' = ctl /\ workers' = workers /\ recovery' = recovery
          /\ flushes' = flushes /\ finishing' = finishing
      BY <1>7 DEF vars
    <2>2. FlushesNumbered' /\ WrittenStays'
      BY <1>i, <2>1 DEF FlushesNumbered, WrittenStays
    <2> QED
      BY <1>p, <1>t, <1>i, <2>1, <2>2
  <1> QED
    BY <1>1, <1>2, <1>3, <1>4, <1>5, <1>6, <1>7 DEF Next

--------------------------------------------------------------------------------
(* The theorems.                                                             *)

(* Every reachable state of the recovery writer satisfies the invariant.     *)
THEOREM Invariance == Spec => []IInv
  <1>1. Init => IInv
    BY InitIInv
  <1>2. IInv /\ [Next]_vars => IInv'
    BY NextIInv
  <1> QED
    BY <1>1, <1>2, PTL DEF Spec

(* The controller's fields keep their types, for every bound.                *)
THEOREM TypeCorrect == Spec => []TypeOK
  <1>1. IInv => TypeOK
    BY DEF IInv
  <1> QED
    BY <1>1, Invariance, PTL

(* start_pending_write never has two workers on the recovery file.           *)
THEOREM SingleWriter == Spec => []OneWriter
  <1>1. IInv => OneWriter
    BY DEF IInv
  <1> QED
    BY <1>1, Invariance, PTL

(* No callback of flush is left without the write it waits for.              *)
THEOREM EveryWaiterServed == Spec => []WaitersServed
  <1>1. IInv => WaitersServed
    BY DEF IInv
  <1> QED
    BY <1>1, Invariance, PTL

(***************************************************************************)
(* finish_write answers a callback Ok only while the recovery file holds   *)
(* what its flush asked for.                                               *)
(***************************************************************************)
THEOREM DurableBeforeAnswer == Spec => AnsweredWhenDurable
  <1> DEFINE Left == \A x \in ctl.waiters \ ctl'.waiters :
                        \E w \in workers :
                            /\ w.request.request_id = x.request_id
                            /\ \/ w.phase = "failed"
                               \/ w.phase = "ok" /\ recovery = x.action
  <1>1. ASSUME IInv, [Next]_vars PROVE [Left]_vars
    <2>t. /\ ctl \in Controller /\ flushes \in Nat
          /\ IdsOK(ctl) /\ Served(ctl)
      BY <1>1 DEF IInv, TypeOK, WaitersServed, Served
    <2>1. ASSUME NEW g \in Generations, NEW a \in RecoveryAction, ScheduleEdit(g, a)
          PROVE  ctl.waiters \ ctl'.waiters = {}
      BY <2>t, <2>1, ScheduleEffect DEF ScheduleEdit
    <2>2. ASSUME NEW g \in Generations, NEW a \in RecoveryAction, FlushBoundary(g, a)
          PROVE  ctl.waiters \ ctl'.waiters = {}
      <3>1. flushes + 1 \in Nat \ {0} /\ ctl' = Flush(ctl, g, a, flushes + 1)
        BY <2>t, <2>2 DEF FlushBoundary
      <3> QED
        BY <2>t, <3>1, FlushEffect
    <2>3. ASSUME DebounceFires PROVE ctl.waiters \ ctl'.waiters = {}
      BY <2>t, <2>3, ElapsedEffect DEF DebounceFires
    <2>4. ASSUME NEW w \in workers, WorkerStep(w) PROVE ctl.waiters \ ctl'.waiters = {}
      BY <2>4 DEF WorkerStep, WriterCommits, WriterSucceeds, WriterFails
    <2>5. ASSUME NEW w \in workers, FinishWrite(w) PROVE Left
      <3> SUFFICES ASSUME NEW x \in ctl.waiters, x \notin ctl'.waiters
                   PROVE  /\ w.request.request_id = x.request_id
                          /\ w.phase = "failed" \/ (w.phase = "ok" /\ recovery = x.action)
        OBVIOUS
      <3>1. /\ w.phase \in {"ok", "failed"} /\ w.request = ctl.active
            /\ ctl'.waiters = ctl.waiters \ ReadyWaiters(ctl)
        BY <1>1, <2>t, <2>5, ReleaseEffect DEF FinishWrite, IInv, OneWriter
      <3>2. x.request_id = ctl.active.request_id
        BY <3>1 DEF ReadyWaiters
      <3>3. PICK r \in Outstanding(ctl) :
                r.request_id = x.request_id /\ SameWrite(r, x.generation, x.action)
        BY <2>t DEF Served
      <3>4. ctl.active \in Outstanding(ctl)
        <4>1. w.request \in DraftWriteRequest
          BY <1>1 DEF IInv, TypeOK, DraftWorker
        <4> QED
          BY <3>1, <4>1, NoRequestApart DEF Outstanding
      <3>5. ctl.active.action = x.action
        BY <2>t, <3>2, <3>3, <3>4 DEF IdsOK, UniqueIds, SameWrite
      <3>6. w.phase = "ok" => recovery = w.request.action
        BY <1>1 DEF IInv, WrittenStays
      <3> QED
        BY <3>1, <3>2, <3>5, <3>6
    <2>6. ASSUME ResumeWrites PROVE ctl.waiters \ ctl'.waiters = {}
      BY <2>t, <2>6, StartEffect DEF ResumeWrites
    <2> QED
      BY <1>1, <2>1, <2>2, <2>3, <2>4, <2>5, <2>6 DEF Next
  <1> QED
    BY <1>1, Invariance, PTL DEF Spec, AnsweredWhenDurable

(***************************************************************************)
(* queue_flush and start_pending_write never drop a pending edit that is   *)
(* newer than the boundary at hand.                                        *)
(***************************************************************************)
THEOREM NewerEditKept == Spec => NewerEditSurvives
  <1> DEFINE Kept == \/ ctl.pending \in Outstanding(ctl') \cup {NoRequest, ctl'.pending}
                     \/ ctl'.pending.request_id > ctl.pending.request_id
                     \/ \E x \in ctl'.waiters \ ctl.waiters :
                            x.generation >= ctl.pending.generation
  <1>1. ASSUME IInv, [Next]_vars PROVE [Kept]_vars
    <2>t. /\ ctl \in Controller /\ flushes \in Nat
          /\ IdsOK(ctl) /\ Served(ctl) /\ FlushesNumbered
      BY <1>1 DEF IInv, TypeOK, WaitersServed, Served
    <2>1. ASSUME NEW g \in Generations, NEW a \in RecoveryAction, ScheduleEdit(g, a)
          PROVE  Kept
      BY <2>t, <2>1, ScheduleEffect DEF ScheduleEdit
    <2>2. ASSUME NEW g \in Generations, NEW a \in RecoveryAction, FlushBoundary(g, a)
          PROVE  Kept
      <3>1. flushes + 1 \in Nat \ {0} /\ ctl' = Flush(ctl, g, a, flushes + 1)
        BY <2>t, <2>2 DEF FlushBoundary
      <3>2. PICK x \in FlushWaiter : /\ ctl'.waiters = ctl.waiters \cup {x}
                                     /\ x.flush = flushes + 1 /\ x.generation = g
        BY <2>t, <3>1, FlushEffect
      <3>3. x \notin ctl.waiters
        BY <2>t, <3>2 DEF FlushesNumbered
      <3>4. \/ ctl.pending \in Outstanding(ctl') \cup {NoRequest, ctl'.pending}
            \/ ctl.pending.generation <= g
        BY <2>t, <3>1, FlushEffect
      <3>5. g \in Nat /\ ctl.pending.generation \in Nat
        BY <2>t DEF Generations, Controller, DraftWriteRequest, NoRequest
      <3> QED
        BY <3>2, <3>3, <3>4, <3>5
    <2>3. ASSUME DebounceFires PROVE Kept
      BY <2>t, <2>3, ElapsedEffect DEF DebounceFires
    <2>4. ASSUME NEW w \in workers, WorkerStep(w) PROVE Kept
      BY <2>4 DEF WorkerStep, WriterCommits, WriterSucceeds, WriterFails
    <2>5. ASSUME NEW w \in workers, FinishWrite(w) PROVE Kept
      BY <2>t, <2>5, ReleaseEffect DEF FinishWrite
    <2>6. ASSUME ResumeWrites PROVE Kept
      BY <2>t, <2>6, StartEffect DEF ResumeWrites
    <2> QED
      BY <1>1, <2>1, <2>2, <2>3, <2>4, <2>5, <2>6 DEF Next
  <1> QED
    BY <1>1, Invariance, PTL DEF Spec, NewerEditSurvives

--------------------------------------------------------------------------------
(* The composer: types, and the steps by what they do.                       *)

Texts == 0 .. MaxGeneration
DraftRefs == [path : Nat, saved_fields : Texts]
FlushOps == {"send", "clear", "close", "sent clear", "sent repersist", "save boundary",
             "save updated", "reconciled", "delete cleared", "delete updated"}
SendPhases == {"idle", "flushing", "transport", "refused", "accepted", "deleting", "deleted",
               "kept", "clearing", "repersisting"}
SavePhases == {"idle", "boundary", "writing", "replacing", "saved", "failed", "updating",
               "reconciling", "deleting", "deleted", "delete updating"}
Questions == {"none", "clear", "new", "send", "save", "delete", "close"}
FlushCallbacks == [flush : Nat, op : FlushOps, generation : Generations]
All == callbacks \cup delivering

ComposerTyped ==
  /\ compose_generation \in Generations
  /\ fields \in Texts /\ fields \in {Blank, compose_generation}
  /\ active_draft \in DraftRefs
  /\ drafts \subseteq [path : Nat, content : Texts]
  /\ capture \in Generations
  /\ confirmation \in [kind : Questions, generation : Generations, fields : Texts, draft : DraftRefs]
  /\ confirmation.kind = "save" => confirmation.fields # Blank
  /\ send \in [phase : SendPhases, generation : Generations, fields : Texts, draft : DraftRefs]
  /\ save \in [phase : SavePhases, generation : Generations, fields : Texts, draft : DraftRefs, path : Nat]
  /\ window \in [visible : BOOLEAN, close_when_idle : BOOLEAN, close_flush : BOOLEAN,
                 exit : BOOLEAN, closed : BOOLEAN]
  /\ callbacks \subseteq FlushCallbacks /\ delivering \subseteq FlushCallbacks
  /\ outcome \in {"ok", "failed"}
  /\ operations \in Nat

Idle == send.phase = "idle" /\ save.phase = "idle"
Quiet == UNCHANGED <<drafts, delivering, outcome, accepted>>
Counted == operations' \in {operations, operations + 1}

(* A question before a transition; the text of a send or a save is captured. *)
Asks(kind, g, f, d) ==
  /\ ~finishing /\ confirmation = NoConfirmation /\ Idle
  /\ confirmation' = [kind |-> kind, generation |-> g, fields |-> f, draft |-> d]
  /\ \/ /\ kind \in {"clear", "new", "close"}
        /\ g = 0 /\ f = Blank /\ d = NoActiveDraft /\ capture' = capture
     \/ /\ kind = "delete" /\ active_draft # NoActiveDraft
        /\ g = 0 /\ f = Blank /\ d = active_draft /\ capture' = capture
     \/ /\ kind \in {"send", "save"} /\ active_draft # NoActiveDraft
        /\ g = compose_generation /\ f = fields /\ d = active_draft /\ capture' = 0
        /\ kind = "save" => fields # Blank /\ active_draft.saved_fields # fields
  /\ operations' = operations + 1
  /\ window' \in {window, [window EXCEPT !.exit = TRUE]}
  /\ NoFlush /\ KeepComposer /\ Quiet
  /\ UNCHANGED <<send, save, given_up>>

Clears ==
  /\ ~finishing /\ Idle /\ confirmation' = NoConfirmation
  /\ ClearNow /\ KeepComposer /\ Quiet /\ Counted
  /\ UNCHANGED <<send, save, window>>

Replaces ==
  /\ ~finishing /\ Idle /\ confirmation' = NoConfirmation
  /\ ReplaceNow /\ Quiet /\ Counted
  /\ UNCHANGED <<send, save, window>>

(* A send starts: of the text at hand, or of the text a question captured. *)
Sends(f, d, g) ==
  /\ ~finishing /\ Idle /\ confirmation' = NoConfirmation
  /\ \/ /\ confirmation = NoConfirmation /\ active_draft = NoActiveDraft
        /\ f = fields /\ d = NoActiveDraft /\ g = compose_generation /\ capture' = 0
     \/ /\ confirmation.kind = "send" /\ f = confirmation.fields /\ d = confirmation.draft
        /\ g = confirmation.generation /\ capture' = capture
  /\ StartCapturedSend(f, d, g) /\ KeepComposer /\ Quiet /\ Counted
  /\ UNCHANGED <<save, window, given_up>>

Reconciles ==
  /\ ~finishing /\ Idle /\ confirmation = NoConfirmation /\ confirmation' = NoConfirmation
  /\ fields # Blank /\ active_draft # NoActiveDraft /\ active_draft.saved_fields = fields
  /\ capture' = 0
  /\ save' = [NoSave EXCEPT !.phase = "reconciling"]
  /\ FlushThen(compose_generation, Clear, "reconciled")
  /\ KeepComposer /\ Quiet /\ operations' = operations + 1
  /\ UNCHANGED <<send, window, given_up>>

Saves(f, d) ==
  /\ ~finishing /\ Idle /\ confirmation' = NoConfirmation
  /\ \/ /\ confirmation = NoConfirmation /\ active_draft = NoActiveDraft /\ fields # Blank
        /\ f = fields /\ d = NoActiveDraft /\ capture' = 0 /\ operations' = operations + 1
     \/ /\ confirmation.kind = "save" /\ f = confirmation.fields /\ d = confirmation.draft
        /\ capture' = capture /\ operations' = operations
  /\ StartCapturedSave(f, d) /\ KeepComposer /\ Quiet
  /\ UNCHANGED <<send, window, given_up>>

Hides ==
  /\ ~finishing /\ ~Idle /\ confirmation' = confirmation
  /\ window' \in [visible : BOOLEAN, close_when_idle : BOOLEAN, close_flush : BOOLEAN,
                  exit : BOOLEAN, closed : BOOLEAN]
  /\ window'.close_flush = window.close_flush /\ window'.closed = window.closed
  /\ NoFlush /\ KeepComposer /\ Quiet /\ operations' = operations + 1
  /\ UNCHANGED <<capture, send, save, given_up>>

Closes ==
  /\ ~finishing /\ Idle /\ confirmation' = NoConfirmation
  /\ window' \in {[window EXCEPT !.close_flush = TRUE],
                  [window EXCEPT !.close_flush = TRUE, !.exit = TRUE]}
  /\ FlushAndClose(fields, active_draft, compose_generation)
  /\ KeepComposer /\ Quiet /\ Counted
  /\ UNCHANGED <<send, save, given_up>>

(* Whatever is in progress ends, in a poll or in a callback.                 *)
Reason ==
  /\ finishing /\ delivering # {} /\ First.generation = compose_generation
  /\ \/ First.op = "sent clear" /\ send' = NoSend
     \/ First.op = "delete cleared" /\ save' = NoSave

Ends ==
  /\ \/ send' = NoSend /\ save' = save
     \/ save' = NoSave /\ send' = send
  /\ \/ KeepComposer
     \/ EmptyComposer /\ Reason
     \/ /\ send.phase = "deleted" /\ send' = NoSend
        /\ active_draft' = NoActiveDraft /\ UNCHANGED <<fields, compose_generation>>
  /\ \/ ~finishing /\ delivering' = delivering
        /\ \/ send.phase \in {"refused", "accepted", "deleted", "kept"} /\ send' = NoSend
              /\ (send.phase = "deleted" => active_draft' = NoActiveDraft \/ active_draft # send.draft)
           \/ save.phase = "failed" /\ save' = NoSave
     \/ /\ finishing /\ delivering # {} /\ delivering' = delivering \ {First}
        /\ \/ First.op \in {"sent clear", "sent repersist"} /\ send' = NoSend
           \/ First.op = "save boundary" /\ outcome = "failed" /\ save' = NoSave
           \/ First.op \in {"save updated", "reconciled", "delete cleared", "delete updated"} /\ save' = NoSave
  /\ CloseAfterActivity(fields', active_draft', compose_generation')
  /\ UNCHANGED <<drafts, outcome, operations, accepted, given_up>>

Step ==
  \/ \E f \in {Blank, compose_generation + 1} : Edit(f)
  \/ \E kind \in Questions, g \in Generations, f \in Texts, d \in DraftRefs : Asks(kind, g, f, d)
  \/ Clears \/ Replaces
  \/ \E f \in Texts, d \in DraftRefs, g \in Generations : Sends(f, d, g)
  \/ Reconciles
  \/ \E f \in Texts, d \in DraftRefs : Saves(f, d)
  \/ AcceptDelete
  \/ Hides \/ Closes \/ Present \/ Reject
  \/ CaptureFires \/ (MainLoop /\ DebounceFires /\ UNCHANGED composerVars) \/ RecoveryWriter
  \/ \E w \in workers : ReceiveResult(w)
  \/ CallbacksDone
  \/ SendFlushed \/ ComposerCleared \/ CloseFlushed
  \/ Ends
  \/ SentCleared /\ send'.phase = "repersisting"
  \/ SaveBoundaryFlushed /\ outcome = "ok"
  \/ TransportAccepts \/ TransportRefuses
  \/ \E ok \in BOOLEAN : SentDraftDelete(ok)
  \/ SendAccepted /\ send'.phase = "deleting"
  \/ (SendAccepted \/ SentDraftHandled) /\ send'.phase = "clearing"
  \/ SaveWritesDraft \/ SaveWriteFails \/ SaveDeletesPrevious
  \/ \E ok \in BOOLEAN : SaveRollsBack(ok)
  \/ \E ok \in BOOLEAN : DeleteSource(ok)
  \/ SaveSucceeded \/ DeleteSucceeded

LEMMA Classified ==
  ASSUME ComposerTyped, ComposerNext
  PROVE  Step
  <1> USE DEF Quiet, Counted, Idle
  <1>t. /\ compose_generation \in Generations /\ fields \in Texts /\ active_draft \in DraftRefs
        /\ NoActiveDraft \in DraftRefs /\ Blank \in Texts /\ 0 \in Generations
        /\ confirmation.generation \in Generations /\ confirmation.fields \in Texts
        /\ confirmation.draft \in DraftRefs
    BY ComposerAssumption, BoundsAssumption DEF ComposerTyped, NoActiveDraft, DraftRefs, Texts, Blank, Generations
  <1>n. NoConfirmation = [kind |-> "none", generation |-> 0, fields |-> Blank, draft |-> NoActiveDraft]
    BY DEF NoConfirmation
  <1>w. window \in [visible : BOOLEAN, close_when_idle : BOOLEAN, close_flush : BOOLEAN,
                    exit : BOOLEAN, closed : BOOLEAN]
    BY DEF ComposerTyped
  <1>a. ASSUME NEW kind \in Questions, NEW g \in Generations, NEW f \in Texts, NEW d \in DraftRefs,
               Asks(kind, g, f, d)
        PROVE  Step
    BY <1>a DEF Step
  <1>1. CASE \E f \in {Blank, compose_generation + 1} : Edit(f)
    BY <1>1 DEF Step
  <1>2. CASE ClearComposer
    <2>1. CASE RequiresConfirmation(fields, active_draft)
      <3>1. Asks("clear", 0, Blank, NoActiveDraft)
        BY <1>2, <2>1 DEF ClearComposer, Asked, UserStep, MainLoop, OperationAllowed, Confirm, Asks, KeepComposer
      <3> QED
        BY <3>1, <1>t, <1>a DEF Questions
    <2>2. CASE ~RequiresConfirmation(fields, active_draft)
      <3>1. Clears
        BY <1>2, <2>2 DEF ClearComposer, Asked, UserStep, MainLoop, OperationAllowed, Clears
      <3> QED
        BY <3>1 DEF Step
    <2> QED
      BY <2>1, <2>2
  <1>3. CASE NewMessage
    <2>1. CASE RequiresConfirmation(fields, active_draft)
      <3>1. Asks("new", 0, Blank, NoActiveDraft)
        BY <1>3, <2>1 DEF NewMessage, Asked, UserStep, MainLoop, OperationAllowed, Confirm, Asks, KeepComposer
      <3> QED
        BY <3>1, <1>t, <1>a DEF Questions
    <2>2. CASE ~RequiresConfirmation(fields, active_draft)
      <3>1. Replaces
        BY <1>3, <2>2 DEF NewMessage, Asked, UserStep, MainLoop, OperationAllowed, Replaces
      <3> QED
        BY <3>1 DEF Step
    <2> QED
      BY <2>1, <2>2
  <1>4. CASE SendCompose
    <2>1. CASE active_draft # NoActiveDraft
      <3>1. Asks("send", compose_generation, fields, active_draft)
        BY <1>4, <2>1 DEF SendCompose, Asked, UserStep, MainLoop, OperationAllowed, Confirm, Asks, KeepComposer
      <3> QED
        BY <3>1, <1>t, <1>a DEF Questions
    <2>2. CASE active_draft = NoActiveDraft
      <3>1. Sends(fields, NoActiveDraft, compose_generation)
        BY <1>4, <2>2 DEF SendCompose, Asked, UserStep, MainLoop, OperationAllowed, Sends
      <3> QED
        BY <3>1, <1>t DEF Step
    <2> QED
      BY <2>1, <2>2
  <1>5. CASE SaveDraft
    <2>0. /\ ~finishing /\ Idle /\ confirmation = NoConfirmation /\ operations' = operations + 1
          /\ fields # Blank /\ capture' = 0 /\ KeepComposer
          /\ UNCHANGED <<drafts, send, window, delivering, outcome, accepted, given_up>>
      BY <1>5 DEF SaveDraft, Asked, UserStep, MainLoop, OperationAllowed
    <2>1. CASE /\ active_draft # NoActiveDraft /\ active_draft.saved_fields = fields
               /\ save' = [NoSave EXCEPT !.phase = "reconciling"]
               /\ FlushThen(compose_generation, Clear, "reconciled")
               /\ UNCHANGED confirmation
      <3>1. Reconciles
        BY <2>0, <2>1 DEF Reconciles
      <3> QED
        BY <3>1 DEF Step
    <2>2. CASE /\ active_draft # NoActiveDraft /\ active_draft.saved_fields # fields
               /\ Confirm("save", fields, active_draft, compose_generation)
               /\ UNCHANGED save
      <3>1. Asks("save", compose_generation, fields, active_draft)
        BY <2>0, <2>2 DEF Confirm, Asks, KeepComposer
      <3> QED
        BY <3>1, <1>t, <1>a DEF Questions
    <2>3. CASE /\ active_draft = NoActiveDraft
               /\ StartCapturedSave(fields, NoActiveDraft)
               /\ UNCHANGED confirmation
      <3>1. Saves(fields, NoActiveDraft)
        BY <2>0, <2>3 DEF Saves
      <3> QED
        BY <3>1, <1>t DEF Step
    <2> QED
      BY <1>5, <2>1, <2>2, <2>3 DEF SaveDraft
  <1>6. CASE DeleteActiveDraft
    <2>1. Asks("delete", 0, Blank, active_draft)
      BY <1>6 DEF DeleteActiveDraft, Asked, UserStep, MainLoop, OperationAllowed, Confirm, Asks, KeepComposer
    <2> QED
      BY <2>1, <1>t, <1>a DEF Questions
  <1>7. ASSUME NEW exit \in BOOLEAN, CloseRequest(exit) PROVE Step
    <2>0. /\ ~finishing /\ confirmation = NoConfirmation /\ operations' = operations + 1
          /\ KeepComposer
          /\ UNCHANGED <<drafts, send, save, delivering, outcome, accepted, given_up>>
      BY <1>7 DEF CloseRequest, UserStep, MainLoop
    <2>x. window.exit \/ exit \in {window.exit, TRUE}
      BY <1>w
    <2>1. CASE /\ ~OperationAllowed
               /\ window' = [window EXCEPT !.close_when_idle = TRUE, !.visible = FALSE,
                                           !.exit = window.exit \/ exit]
               /\ NoFlush /\ UNCHANGED <<capture, confirmation>>
      <3>1. window.exit \/ exit \in BOOLEAN
        OBVIOUS
      <3>2. Hides
        BY <2>0, <2>1, <3>1, <1>w DEF Hides, OperationAllowed
      <3> QED
        BY <3>2 DEF Step
    <2>2. CASE /\ OperationAllowed
               /\ window' = [window EXCEPT !.close_flush = TRUE, !.exit = window.exit \/ exit]
               /\ FlushAndClose(fields, active_draft, compose_generation)
               /\ UNCHANGED confirmation
      <3>1. window' \in {[window EXCEPT !.close_flush = TRUE],
                         [window EXCEPT !.close_flush = TRUE, !.exit = TRUE]}
        <4>1. CASE window.exit \/ exit
          BY <2>2, <4>1
        <4>2. CASE ~(window.exit \/ exit)
          <5>1. window.exit = FALSE
            BY <4>2, <1>w
          <5>2. window' = [window EXCEPT !.close_flush = TRUE, !.exit = window.exit]
            BY <2>2, <4>2, <5>1
          <5> QED
            BY <5>2, <1>w
        <4> QED
          BY <4>1, <4>2
      <3>2. Closes
        BY <2>0, <2>2, <3>1 DEF Closes, OperationAllowed
      <3> QED
        BY <3>2 DEF Step
    <2>3. CASE /\ OperationAllowed
               /\ window' = [window EXCEPT !.exit = window.exit \/ exit]
               /\ Confirm("close", Blank, NoActiveDraft, 0)
               /\ UNCHANGED capture
      <3>1. window' \in {window, [window EXCEPT !.exit = TRUE]}
        <4>1. CASE window.exit \/ exit
          BY <2>3, <4>1
        <4>2. CASE ~(window.exit \/ exit)
          <5>1. window.exit = FALSE
            BY <4>2, <1>w
          <5>2. window' = [window EXCEPT !.exit = window.exit]
            BY <2>3, <4>2, <5>1
          <5> QED
            BY <5>2, <1>w
        <4> QED
          BY <4>1, <4>2
      <3>2. Asks("close", 0, Blank, NoActiveDraft)
        BY <2>0, <2>3, <3>1 DEF Asks, Confirm, OperationAllowed, KeepComposer
      <3> QED
        BY <3>2, <1>t, <1>a DEF Questions
    <2> QED
      BY <1>7, <2>1, <2>2, <2>3 DEF CloseRequest
  <1>8. CASE Present \/ Reject \/ AcceptDelete
    BY <1>8 DEF Step
  <1>9. CASE AcceptClear
    <2>1. Clears
      BY <1>9 DEF AcceptClear, AcceptConfirmation, MainLoop, OperationAllowed, Clears
    <2> QED
      BY <2>1 DEF Step
  <1>10. CASE AcceptNew
    <2>1. Replaces
      BY <1>10 DEF AcceptNew, AcceptConfirmation, MainLoop, OperationAllowed, Replaces
    <2> QED
      BY <2>1 DEF Step
  <1>11. CASE AcceptSend
    <2>1. Sends(confirmation.fields, confirmation.draft, confirmation.generation)
      BY <1>11 DEF AcceptSend, AcceptConfirmation, MainLoop, OperationAllowed, Sends
    <2> QED
      BY <2>1, <1>t DEF Step
  <1>12. CASE AcceptSave
    <2>1. Saves(confirmation.fields, confirmation.draft)
      BY <1>12 DEF AcceptSave, AcceptConfirmation, MainLoop, OperationAllowed, Saves
    <2> QED
      BY <2>1, <1>t DEF Step
  <1>13. CASE AcceptClose
    <2>1. Closes
      BY <1>13 DEF AcceptClose, AcceptConfirmation, MainLoop, OperationAllowed, Closes
    <2> QED
      BY <2>1 DEF Step
  <1>14. CASE Timers \/ RecoveryWriter
    BY <1>14 DEF Step, Timers
  <1>15. CASE (\E w \in workers : ReceiveResult(w)) \/ CallbacksDone \/ SendFlushed \/ ComposerCleared \/ CloseFlushed
    BY <1>15 DEF Step
  <1>16. CASE SentCleared
    <2>0. /\ finishing /\ delivering # {} /\ First.op = "sent clear" /\ delivering' = delivering \ {First}
          /\ UNCHANGED <<drafts, outcome, operations, accepted, given_up>> /\ save' = save
      BY <1>16 DEF SentCleared, Callback
    <2>1. CASE /\ EmptyComposer /\ send' = NoSend /\ Current
               /\ CloseAfterActivity(Blank, NoActiveDraft, compose_generation + 1)
      <3>1. fields' = Blank /\ active_draft' = NoActiveDraft /\ compose_generation' = compose_generation + 1
        BY <2>1 DEF EmptyComposer
      <3>2. CloseAfterActivity(fields', active_draft', compose_generation')
        BY <2>1, <3>1
      <3>3. Reason
        BY <2>0, <2>1 DEF Reason, Current
      <3>4. Ends
        BY <2>0, <2>1, <3>2, <3>3 DEF Ends
      <3> QED
        BY <3>4 DEF Step
    <2>2. CASE /\ KeepComposer /\ send' = NoSend
               /\ CloseAfterActivity(fields, active_draft, compose_generation)
      <3>1. CloseAfterActivity(fields', active_draft', compose_generation')
        BY <2>2 DEF KeepComposer
      <3>4. Ends
        BY <2>0, <2>2, <3>1 DEF Ends
      <3> QED
        BY <3>4 DEF Step
    <2>3. CASE send' = [send EXCEPT !.phase = "repersisting"]
      <3>1. send'.phase = "repersisting"
        BY <2>3 DEF ComposerTyped
      <3> QED
        BY <3>1, <1>16 DEF Step
    <2> QED
      BY <1>16, <2>1, <2>2, <2>3 DEF SentCleared
  <1>17. CASE SentRepersisted \/ SaveUpdated \/ (SaveBoundaryFlushed /\ outcome = "failed")
    <2>1. CloseAfterActivity(fields', active_draft', compose_generation') /\ KeepComposer
      BY <1>17 DEF SentRepersisted, SaveUpdated, SaveBoundaryFlushed, KeepComposer
    <2>2. /\ finishing /\ delivering # {} /\ delivering' = delivering \ {First}
          /\ UNCHANGED <<drafts, outcome, operations, accepted, given_up>>
      BY <1>17 DEF SentRepersisted, SaveUpdated, SaveBoundaryFlushed, Callback
    <2>3. CASE SentRepersisted
      <3>1. First.op = "sent repersist" /\ send' = NoSend /\ save' = save
        BY <2>3 DEF SentRepersisted, Callback
      <3>2. Ends
        BY <2>1, <2>2, <3>1 DEF Ends
      <3> QED
        BY <3>2 DEF Step
    <2>4. CASE SaveUpdated
      <3>1. First.op \in {"save updated", "reconciled"} /\ save' = NoSave /\ send' = send
        BY <2>4 DEF SaveUpdated, Callback
      <3>2. Ends
        BY <2>1, <2>2, <3>1 DEF Ends
      <3> QED
        BY <3>2 DEF Step
    <2>5. CASE SaveBoundaryFlushed /\ outcome = "failed"
      <3>1. First.op = "save boundary" /\ save' = NoSave /\ send' = send
        BY <2>5 DEF SaveBoundaryFlushed, Callback
      <3>2. Ends
        BY <2>1, <2>2, <2>5, <3>1 DEF Ends
      <3> QED
        BY <3>2 DEF Step
    <2> QED
      BY <1>17, <2>3, <2>4, <2>5
  <1>18. CASE SaveBoundaryFlushed /\ outcome = "ok"
    BY <1>18 DEF Step
  <1>19. CASE DeleteUpdated
    <2>0. /\ finishing /\ delivering # {} /\ First.op \in {"delete cleared", "delete updated"}
          /\ delivering' = delivering \ {First}
          /\ UNCHANGED <<drafts, outcome, operations, accepted, given_up>> /\ send' = send /\ save' = NoSave
      BY <1>19 DEF DeleteUpdated, Callback
    <2>1. CASE outcome = "ok" /\ First.op = "delete cleared" /\ Current
      <3>1. EmptyComposer /\ CloseAfterActivity(Blank, NoActiveDraft, compose_generation + 1)
        BY <1>19, <2>1 DEF DeleteUpdated
      <3>2. fields' = Blank /\ active_draft' = NoActiveDraft /\ compose_generation' = compose_generation + 1
        BY <3>1 DEF EmptyComposer
      <3>3. CloseAfterActivity(fields', active_draft', compose_generation')
        BY <3>1, <3>2
      <3>4. Reason
        BY <2>0, <2>1 DEF Reason, Current
      <3>5. Ends
        BY <2>0, <3>1, <3>3, <3>4 DEF Ends
      <3> QED
        BY <3>5 DEF Step
    <2>2. CASE ~(outcome = "ok" /\ First.op = "delete cleared" /\ Current)
      <3>1. KeepComposer /\ CloseAfterActivity(fields, active_draft, compose_generation)
        BY <1>19, <2>2 DEF DeleteUpdated
      <3>2. CloseAfterActivity(fields', active_draft', compose_generation')
        BY <3>1 DEF KeepComposer
      <3>5. Ends
        BY <2>0, <3>1, <3>2 DEF Ends
      <3> QED
        BY <3>5 DEF Step
    <2> QED
      BY <2>1, <2>2
  <1>20. CASE TransportAccepts \/ TransportRefuses \/ (\E ok \in BOOLEAN : SentDraftDelete(ok))
    BY <1>20 DEF Step
  <1>21. CASE SendRefused
    <2>1. Ends
      BY <1>21 DEF SendRefused, SendPoll, MainLoop, KeepComposer, Ends
    <2> QED
      BY <2>1 DEF Step
  <1>f. ASSUME NEW deleted \in BOOLEAN, FinishSendSuccess(deleted), SendPoll,
               send.phase \in {"accepted", "deleted", "kept"}, deleted <=> send.phase = "deleted"
        PROVE  send'.phase = "clearing" \/ Ends
    <2> DEFINE clearActive == send.draft # NoActiveDraft /\ deleted /\ active_draft = send.draft
               draft == IF clearActive THEN NoActiveDraft ELSE active_draft
               clearRecovery == /\ compose_generation = send.generation
                                /\ send.draft = NoActiveDraft \/ deleted
    <2>1. CASE clearRecovery
      <3>1. send' = [send EXCEPT !.phase = "clearing"]
        BY <1>f, <2>1 DEF FinishSendSuccess
      <3> QED
        BY <3>1 DEF ComposerTyped
    <2>2. CASE ~clearRecovery
      <3>1. /\ send' = NoSend /\ active_draft' = draft /\ UNCHANGED <<fields, compose_generation>>
            /\ CloseAfterActivity(fields, draft, compose_generation)
        BY <1>f, <2>2 DEF FinishSendSuccess
      <3>2. CloseAfterActivity(fields', active_draft', compose_generation')
        BY <3>1
      <3>3. ~finishing /\ UNCHANGED <<drafts, save, delivering, outcome, operations, accepted, given_up>>
        BY <1>f DEF SendPoll, MainLoop
      <3>4. KeepComposer \/ (send.phase = "deleted" /\ active_draft' = NoActiveDraft)
        BY <1>f, <3>1 DEF KeepComposer
      <3>5. send.phase = "deleted" => active_draft' = NoActiveDraft \/ active_draft # send.draft
        BY <1>f, <3>1
      <3>6. Ends
        BY <1>f, <3>1, <3>2, <3>3, <3>4, <3>5 DEF Ends
      <3> QED
        BY <3>6
    <2> QED
      BY <2>1, <2>2
  <1>22. CASE SendAccepted
    <2>0. SendPoll /\ send.phase = "accepted"
      BY <1>22 DEF SendAccepted
    <2>1. CASE send.draft = NoActiveDraft \/ active_draft # send.draft
      <3>1. FinishSendSuccess(FALSE)
        BY <1>22, <2>1 DEF SendAccepted
      <3>2. send'.phase = "clearing" \/ Ends
        BY <2>0, <3>1, <1>f
      <3> QED
        BY <1>22, <3>2 DEF Step
    <2>2. CASE ~(send.draft = NoActiveDraft \/ active_draft # send.draft)
      <3>1. send' = [send EXCEPT !.phase = "deleting"]
        BY <1>22, <2>2 DEF SendAccepted
      <3>2. send'.phase = "deleting"
        BY <3>1 DEF ComposerTyped
      <3> QED
        BY <1>22, <3>2 DEF Step
    <2> QED
      BY <2>1, <2>2
  <1>23. CASE SentDraftHandled
    <2>0. SendPoll /\ send.phase \in {"deleted", "kept"} /\ FinishSendSuccess(send.phase = "deleted")
      BY <1>23 DEF SentDraftHandled
    <2>1. send'.phase = "clearing" \/ Ends
      <3>1. CASE send.phase = "deleted"
        <4>1. FinishSendSuccess(TRUE)
          <5>1. (send.phase = "deleted") = TRUE
            BY <3>1
          <5> QED
            BY <2>0, <5>1
        <4> QED
          BY <2>0, <3>1, <4>1, <1>f
      <3>2. CASE send.phase = "kept"
        <4>1. FinishSendSuccess(FALSE)
          <5>1. (send.phase = "deleted") = FALSE
            BY <3>2
          <5> QED
            BY <2>0, <5>1
        <4> QED
          BY <2>0, <3>2, <4>1, <1>f
      <3> QED
        BY <2>0, <3>1, <3>2
    <2> QED
      BY <1>23, <2>1 DEF Step
  <1>24. CASE \/ SaveWritesDraft \/ SaveWriteFails \/ SaveDeletesPrevious
              \/ (\E ok \in BOOLEAN : SaveRollsBack(ok)) \/ (\E ok \in BOOLEAN : DeleteSource(ok))
              \/ SaveSucceeded \/ DeleteSucceeded
    BY <1>24 DEF Step
  <1>25. CASE SaveFailed
    <2>1. Ends
      BY <1>25 DEF SaveFailed, SavePoll, MainLoop, KeepComposer, Ends
    <2> QED
      BY <2>1 DEF Step
  <1>26. outcome \in {"ok", "failed"}
    BY DEF ComposerTyped
  <1>27. CASE UserActions
    BY <1>27, <1>1, <1>2, <1>3, <1>4, <1>5, <1>6, <1>7, <1>8, <1>9, <1>10, <1>11, <1>12, <1>13 DEF UserActions
  <1>28. CASE Callbacks
    BY <1>28, <1>15, <1>16, <1>17, <1>18, <1>19, <1>26 DEF Callbacks
  <1>29. CASE SendSteps
    BY <1>29, <1>20, <1>21, <1>22, <1>23 DEF SendSteps
  <1>30. CASE SaveSteps
    BY <1>30, <1>24, <1>25 DEF SaveSteps
  <1> QED
    BY <1>14, <1>27, <1>28, <1>29, <1>30 DEF ComposerNext

--------------------------------------------------------------------------------
(* Types, and that nothing is newer than the composer.                       *)

NotNewer ==
  /\ active_draft.saved_fields <= compose_generation
  /\ save.fields <= compose_generation
  /\ capture <= compose_generation
  /\ confirmation.generation <= compose_generation
  /\ confirmation.fields <= compose_generation
  /\ send.generation <= compose_generation
  /\ save.generation <= compose_generation
  /\ \A cb \in All : cb.generation <= compose_generation

Base == IInv /\ ComposerTyped /\ NotNewer

(* A callback is taken from those that finish_write has to run. *)
Popped == delivering' = delivering \/ (finishing /\ delivering # {} /\ delivering' = delivering \ {First})

Receives(w) ==
  /\ FinishWrite(w)
  /\ delivering' = {cb \in callbacks : \E x \in ReadyWaiters(ctl) : x.flush = cb.flush}
  /\ callbacks' = callbacks \ delivering'

Cleans == (SendAccepted \/ SentDraftHandled) /\ send'.phase = "clearing"
Repersists == SentCleared /\ send'.phase = "repersisting"

(* The step that registers a callback for op, of generation g, with action a. *)
Origin(g, a, op) ==
  /\ op = "clear" => Clears /\ g = compose_generation /\ a = Clear
  /\ op = "send" =>
       \E f \in Texts, d \in DraftRefs : Sends(f, d, g) /\ a = RecoveryActionFor(f, active_draft)
  /\ op = "close" =>
       /\ g = compose_generation' /\ a = RecoveryActionFor(fields', active_draft')
       /\ (~window.close_flush /\ (Closes \/ Ends)) \/ CloseFlushed
  /\ op = "sent clear" => Cleans /\ g = send.generation /\ g = compose_generation /\ a = Clear
  /\ op = "sent repersist" =>
       Repersists /\ g = compose_generation /\ a = RecoveryActionFor(fields, active_draft)
  /\ op = "save boundary" =>
       /\ g = compose_generation
       /\ \E f \in Texts, d \in DraftRefs : Saves(f, d) /\ a = Persist(f)
  /\ op = "save updated" =>
       SaveSucceeded /\ g = compose_generation /\ a = RecoveryActionFor(fields, active_draft')
  /\ op = "reconciled" => Reconciles /\ g = compose_generation /\ a = Clear
  /\ op = "delete cleared" =>
       DeleteSucceeded /\ g = compose_generation /\ g = save.generation /\ a = Clear
  /\ op = "delete updated" =>
       DeleteSucceeded /\ g = compose_generation /\ a = RecoveryActionFor(fields, active_draft')

FlushStep(g, a, op) ==
  /\ g <= compose_generation'
  /\ FlushThen(g, a, op) /\ Popped
  /\ Origin(g, a, op)

(* The step that schedules the write of generation g with action a. *)
Scheduler(g, a) ==
  \/ CaptureFires /\ g = capture /\ a = RecoveryActionFor(fields, active_draft)
  \/ Replaces /\ g = compose_generation' /\ a = Clear

(* What a step of the composer does to the recovery writer. *)
WriterStep ==
  /\ compose_generation <= compose_generation'
  /\ \/ NoFlush /\ Popped
     \/ \E g \in Generations, a \in RecoveryAction :
            /\ g <= compose_generation' /\ ScheduleEdit(g, a) /\ Scheduler(g, a)
            /\ UNCHANGED <<callbacks, delivering>>
     \/ \E g \in Generations, a \in RecoveryAction, op \in FlushOps : FlushStep(g, a, op)
     \/ DebounceFires /\ UNCHANGED <<callbacks, delivering, compose_generation>>
     \/ \E w \in workers : WorkerStep(w) /\ UNCHANGED <<callbacks, delivering, compose_generation>>
     \/ \E w \in workers : Receives(w) /\ UNCHANGED compose_generation
     \/ ResumeWrites /\ delivering = {} /\ UNCHANGED <<callbacks, delivering, compose_generation>>

LEMMA TextsAre ==
  /\ Texts \subseteq Nat /\ Generations = Texts /\ 0 \in Texts /\ Blank = 0
  /\ \A f \in Texts : f # Blank => f \in Contents
  /\ NoActiveDraft \in DraftRefs /\ NoActiveDraft.path = 0 /\ NoActiveDraft.saved_fields = 0
  /\ Blank \notin Contents
  BY BoundsAssumption, ComposerAssumption DEF Texts, Generations, Blank, NoActiveDraft, DraftRefs

(* recovery_action_for_fields clears for nothing and for a draft that is saved. *)
LEMMA RecoveryIs ==
  ASSUME NEW f \in Texts, NEW d
  PROVE  /\ RecoveryActionFor(f, d) \in RecoveryAction
         /\ \/ RecoveryActionFor(f, d) = Persist(f) /\ f # Blank
            \/ /\ RecoveryActionFor(f, d) = Clear
               /\ f = Blank \/ (d # NoActiveDraft /\ d.saved_fields = f)
  BY TextsAre DEF RecoveryActionFor, RecoveryAction, Persist, Clear

LEMMA PersistIs ==
  ASSUME NEW f \in Texts, f # Blank
  PROVE  Persist(f) \in RecoveryAction
  BY TextsAre DEF RecoveryAction

LEMMA ClearIs == Clear \in RecoveryAction
  BY DEF RecoveryAction

WindowIs == [visible : BOOLEAN, close_when_idle : BOOLEAN, close_flush : BOOLEAN,
             exit : BOOLEAN, closed : BOOLEAN]

(* close_main_window_after_background_activity waits, asks, or closes. *)
LEMMA AfterActivity ==
  ASSUME window \in WindowIs, NEW f, NEW d, NEW g, CloseAfterActivity(f, d, g)
  PROVE  /\ window' \in WindowIs /\ window'.closed = window.closed
         /\ window.close_flush => window'.close_flush
         /\ confirmation' = confirmation \/ confirmation' = [NoConfirmation EXCEPT !.kind = "close"]
         /\ \/ NoFlush /\ capture' = capture
            \/ /\ ~window.close_flush /\ window'.close_flush /\ capture' = 0
               /\ confirmation' = confirmation
               /\ FlushThen(g, RecoveryActionFor(f, d), "close")
  <1>1. CASE ~window.close_when_idle
    BY <1>1 DEF CloseAfterActivity
  <1>2. CASE window.close_when_idle /\ window.exit /\ RequiresConfirmation(f, d)
    BY <1>2 DEF CloseAfterActivity, WindowIs
  <1>3. CASE window.close_when_idle /\ ~(window.exit /\ RequiresConfirmation(f, d))
    <2>1. /\ window' = [window EXCEPT !.close_when_idle = FALSE, !.close_flush = TRUE]
          /\ FlushAndClose(f, d, g) /\ UNCHANGED confirmation
      BY <1>3 DEF CloseAfterActivity
    <2>2. window' \in WindowIs /\ window'.closed = window.closed /\ window'.close_flush = TRUE
      BY <2>1 DEF WindowIs
    <2>3. CASE window.close_flush
      BY <2>1, <2>2, <2>3 DEF FlushAndClose
    <2>4. CASE ~window.close_flush
      BY <2>1, <2>2, <2>4 DEF FlushAndClose
    <2> QED
      BY <2>3, <2>4
  <1> QED
    BY <1>1, <1>2, <1>3

LEMMA NewerIs ==
  ASSUME compose_generation \in Generations, compose_generation < MaxGeneration
  PROVE  compose_generation + 1 \in Generations /\ compose_generation <= compose_generation + 1
  BY BoundsAssumption DEF Generations

LEMMA EmptyIs ==
  ASSUME compose_generation \in Generations, EmptyComposer
  PROVE  /\ compose_generation' = compose_generation + 1 /\ compose_generation' \in Generations
         /\ compose_generation <= compose_generation' /\ compose_generation < compose_generation'
         /\ fields' = Blank /\ active_draft' = NoActiveDraft
  BY BoundsAssumption DEF Generations, EmptyComposer

LEMMA EndsComposer ==
  ASSUME Base, Ends
  PROVE  /\ compose_generation <= compose_generation' /\ compose_generation' \in Generations
         /\ fields' \in Texts /\ fields' \in {Blank, compose_generation'}
         /\ active_draft' \in {active_draft, NoActiveDraft}
         /\ Popped
         /\ CloseAfterActivity(fields', active_draft', compose_generation')
  <1>1. /\ compose_generation \in Generations /\ fields \in Texts /\ fields \in {Blank, compose_generation}
    BY DEF Base, ComposerTyped
  <1>2. Popped /\ CloseAfterActivity(fields', active_draft', compose_generation')
    BY DEF Ends, Popped
  <1>3. CASE KeepComposer
    BY <1>1, <1>2, <1>3, TextsAre DEF KeepComposer
  <1>4. CASE EmptyComposer
    BY <1>1, <1>2, <1>4, EmptyIs, TextsAre
  <1>5. CASE active_draft' = NoActiveDraft /\ UNCHANGED <<fields, compose_generation>>
    BY <1>1, <1>2, <1>5, TextsAre
  <1> QED
    BY <1>3, <1>4, <1>5 DEF Ends

LEMMA Writes ==
  ASSUME Base, Step
  PROVE  WriterStep
  <1>t. /\ compose_generation \in Generations /\ fields \in Texts /\ active_draft \in DraftRefs
        /\ compose_generation <= compose_generation
        /\ send.generation \in Generations /\ send.generation <= compose_generation
        /\ confirmation.generation \in Generations /\ confirmation.generation <= compose_generation
        /\ confirmation.fields \in Texts
        /\ capture \in Generations /\ capture <= compose_generation /\ window \in WindowIs
    BY TextsAre DEF Base, ComposerTyped, NotNewer, WindowIs
  <1>n. ASSUME NoFlush, Popped, compose_generation <= compose_generation' PROVE WriterStep
    BY <1>n DEF WriterStep
  <1>f. ASSUME NEW g \in Generations, NEW a \in RecoveryAction, NEW op \in FlushOps, FlushThen(g, a, op),
               Popped, compose_generation' = compose_generation, g <= compose_generation, Origin(g, a, op)
        PROVE  WriterStep
    BY <1>f, <1>t DEF WriterStep, FlushStep
  <1>s. ASSUME NEW g \in Generations, NEW a \in RecoveryAction, ScheduleEdit(g, a), Scheduler(g, a),
               UNCHANGED <<callbacks, delivering>>, compose_generation <= compose_generation', g <= compose_generation'
        PROVE  WriterStep
    BY <1>s DEF WriterStep
  <1>k. KeepComposer => compose_generation' = compose_generation
    BY DEF KeepComposer
  <1>q. Quiet => Popped
    BY DEF Quiet, Popped
  <1>o. \A op \in {"send", "clear", "close", "sent clear", "sent repersist", "save boundary", "save updated",
                   "reconciled", "delete cleared", "delete updated"} : op \in FlushOps
    BY DEF FlushOps
  <1>cb. ASSUME NEW op, Callback(op) PROVE Popped
    BY <1>cb DEF Callback, Popped
  <1>1. ASSUME NEW f \in {Blank, compose_generation + 1}, Edit(f) PROVE WriterStep
    BY <1>1, <1>t, <1>n, NewerIs DEF Edit, Popped
  <1>2. ASSUME NEW kind \in Questions, NEW g \in Generations, NEW f \in Texts, NEW d \in DraftRefs,
               Asks(kind, g, f, d)
        PROVE  WriterStep
    BY <1>2, <1>t, <1>n, <1>k, <1>q DEF Asks
  <1>3. CASE Clears
    <2>1. FlushThen(compose_generation, Clear, "clear") /\ Popped /\ compose_generation' = compose_generation
      BY <1>3, <1>k, <1>q DEF Clears, ClearNow
    <2>2. Origin(compose_generation, Clear, "clear")
      BY <1>3 DEF Origin
    <2> QED
      BY <2>1, <2>2, <1>t, <1>f, <1>o, ClearIs
  <1>4. CASE Replaces
    <2>1. /\ compose_generation' = compose_generation + 1 /\ compose_generation' \in Generations
          /\ compose_generation <= compose_generation'
          /\ ScheduleEdit(compose_generation', Clear) /\ UNCHANGED <<callbacks, delivering>>
      BY <1>4, <1>t, EmptyIs DEF Replaces, ReplaceNow, Quiet
    <2>2. compose_generation' <= compose_generation'
      BY <2>1 DEF Generations
    <2>3. Scheduler(compose_generation', Clear)
      BY <1>4 DEF Scheduler
    <2> QED
      BY <2>1, <2>2, <2>3, <1>s, ClearIs
  <1>5. ASSUME NEW f \in Texts, NEW d \in DraftRefs, NEW g \in Generations, Sends(f, d, g) PROVE WriterStep
    <2>1. g <= compose_generation
      BY <1>5, <1>t DEF Sends
    <2>2. FlushThen(g, RecoveryActionFor(f, active_draft), "send") /\ Popped
          /\ compose_generation' = compose_generation
      BY <1>5, <1>k, <1>q DEF Sends, StartCapturedSend
    <2>3. Origin(g, RecoveryActionFor(f, active_draft), "send")
      BY <1>5 DEF Origin
    <2> QED
      BY <2>1, <2>2, <2>3, <1>f, <1>o, RecoveryIs
  <1>6. CASE Reconciles
    <2>1. FlushThen(compose_generation, Clear, "reconciled") /\ Popped /\ compose_generation' = compose_generation
      BY <1>6, <1>k, <1>q DEF Reconciles
    <2>2. Origin(compose_generation, Clear, "reconciled")
      BY <1>6 DEF Origin
    <2> QED
      BY <2>1, <2>2, <1>t, <1>f, <1>o, ClearIs
  <1>7. ASSUME NEW f \in Texts, NEW d \in DraftRefs, Saves(f, d) PROVE WriterStep
    <2>1. FlushThen(compose_generation, Persist(f), "save boundary") /\ Popped
          /\ compose_generation' = compose_generation
      BY <1>7, <1>k, <1>q DEF Saves, StartCapturedSave
    <2>2. f # Blank
      BY <1>7 DEF Saves, Base, ComposerTyped
    <2>3. Persist(f) \in RecoveryAction
      BY <2>2, PersistIs
    <2>4. Origin(compose_generation, Persist(f), "save boundary")
      BY <1>7 DEF Origin
    <2> QED
      BY <2>1, <2>3, <2>4, <1>t, <1>f, <1>o
  <1>8. CASE AcceptDelete
    BY <1>8, <1>t, <1>n, <1>k DEF AcceptDelete, AcceptConfirmation, StartDelete, Popped
  <1>9. CASE Hides
    BY <1>9, <1>t, <1>n, <1>k, <1>q DEF Hides
  <1>10. CASE Closes
    <2>1. Popped /\ compose_generation' = compose_generation
          /\ FlushAndClose(fields, active_draft, compose_generation)
      BY <1>10, <1>k, <1>q DEF Closes
    <2>2. CASE window.close_flush
      BY <2>1, <2>2, <1>t, <1>n DEF FlushAndClose
    <2>3. CASE ~window.close_flush
      <3>1. FlushThen(compose_generation, RecoveryActionFor(fields, active_draft), "close")
        BY <2>1, <2>3 DEF FlushAndClose
      <3>2. Origin(compose_generation, RecoveryActionFor(fields, active_draft), "close")
        BY <1>10, <2>1, <2>3 DEF Origin, Closes, KeepComposer
      <3> QED
        BY <2>1, <3>1, <3>2, <1>t, <1>f, <1>o, RecoveryIs
    <2> QED
      BY <2>2, <2>3
  <1>11. CASE Present \/ Reject
    BY <1>11, <1>t, <1>n DEF Present, Reject, Popped
  <1>12. CASE CaptureFires
    <2>1. ScheduleEdit(capture, RecoveryActionFor(fields, active_draft))
          /\ UNCHANGED <<callbacks, delivering, compose_generation>>
      BY <1>12 DEF CaptureFires
    <2>2. Scheduler(capture, RecoveryActionFor(fields, active_draft))
      BY <1>12 DEF Scheduler
    <2> QED
      BY <2>1, <2>2, <1>t, <1>s, RecoveryIs
  <1>13. CASE MainLoop /\ DebounceFires /\ UNCHANGED composerVars
    BY <1>13, <1>t DEF WriterStep, composerVars
  <1>14. CASE RecoveryWriter
    BY <1>14, <1>t DEF RecoveryWriter, WriterStep, composerVars
  <1>15. ASSUME NEW w \in workers, ReceiveResult(w) PROVE WriterStep
    <2>1. Receives(w) /\ UNCHANGED compose_generation
      BY <1>15 DEF ReceiveResult, Receives
    <2> QED
      BY <2>1, <1>t DEF WriterStep
  <1>16. CASE CallbacksDone
    BY <1>16, <1>t DEF CallbacksDone, WriterStep, composerVars
  <1>17. CASE SendFlushed
    BY <1>17, <1>t, <1>n, <1>k, <1>cb DEF SendFlushed
  <1>18. CASE ComposerCleared
    <2>1. NoFlush /\ Popped
      BY <1>18, <1>cb DEF ComposerCleared
    <2>2. KeepComposer \/ EmptyComposer
      BY <1>18 DEF ComposerCleared
    <2> QED
      BY <2>1, <2>2, <1>t, <1>n, <1>k, EmptyIs
  <1>19. CASE CloseFlushed
    <2>1. Popped /\ compose_generation' = compose_generation
      BY <1>19, <1>cb, <1>k DEF CloseFlushed
    <2>2. NoFlush \/ FlushThen(compose_generation, RecoveryActionFor(fields, active_draft), "close")
      BY <1>19 DEF CloseFlushed
    <2>3. Origin(compose_generation, RecoveryActionFor(fields, active_draft), "close")
      BY <1>19 DEF Origin, CloseFlushed, KeepComposer
    <2> QED
      BY <2>1, <2>2, <2>3, <1>t, <1>n, <1>f, <1>o, RecoveryIs
  <1>20. CASE Ends
    <2>1. /\ compose_generation <= compose_generation' /\ compose_generation' \in Generations
          /\ fields' \in Texts /\ Popped
          /\ CloseAfterActivity(fields', active_draft', compose_generation')
      BY <1>20, EndsComposer
    <2>2. \/ NoFlush
          \/ FlushThen(compose_generation', RecoveryActionFor(fields', active_draft'), "close") /\ ~window.close_flush
      BY <2>1, <1>t, AfterActivity
    <2>3. compose_generation' <= compose_generation'
      BY <2>1 DEF Generations
    <2>4. RecoveryActionFor(fields', active_draft') \in RecoveryAction
      BY <2>1, RecoveryIs
    <2>5. ~window.close_flush => Origin(compose_generation', RecoveryActionFor(fields', active_draft'), "close")
      BY <1>20 DEF Origin
    <2> QED
      BY <2>1, <2>2, <2>3, <2>4, <2>5, <1>n, <1>o DEF WriterStep, FlushStep
  <1>21. CASE SentCleared /\ send'.phase = "repersisting"
    <2>1. CASE send' = NoSend
      BY <1>21, <2>1 DEF NoSend
    <2>2. CASE ~(send' = NoSend)
      <3>1. /\ FlushThen(compose_generation, RecoveryActionFor(fields, active_draft), "sent repersist")
            /\ KeepComposer
        BY <1>21, <2>2 DEF SentCleared
      <3>2. Popped
        BY <1>21, <1>cb DEF SentCleared
      <3>3. Origin(compose_generation, RecoveryActionFor(fields, active_draft), "sent repersist")
        BY <1>21 DEF Origin, Repersists
      <3> QED
        BY <3>1, <3>2, <3>3, <1>t, <1>f, <1>k, <1>o, RecoveryIs
    <2> QED
      BY <2>1, <2>2
  <1>22. CASE SaveBoundaryFlushed /\ outcome = "ok"
    BY <1>22, <1>t, <1>n, <1>k, <1>cb DEF SaveBoundaryFlushed
  <1>23. CASE TransportAccepts \/ TransportRefuses \/ (\E ok \in BOOLEAN : SentDraftDelete(ok))
    BY <1>23, <1>t, <1>n, <1>k DEF TransportAccepts, TransportRefuses, SentDraftDelete, SendWorkerStep, Popped
  <1>24. CASE SendAccepted /\ send'.phase = "deleting"
    <2>1. CASE send.draft = NoActiveDraft \/ active_draft # send.draft
      <3>1. FinishSendSuccess(FALSE)
        BY <1>24, <2>1 DEF SendAccepted
      <3>2. send' = NoSend \/ send' = [send EXCEPT !.phase = "clearing"]
        BY <3>1 DEF FinishSendSuccess
      <3>3. send'.phase # "deleting"
        BY <3>2 DEF NoSend, Base, ComposerTyped
      <3> QED
        BY <3>3, <1>24
    <2>2. CASE ~(send.draft = NoActiveDraft \/ active_draft # send.draft)
      BY <1>24, <2>2, <1>t, <1>n, <1>k DEF SendAccepted, SendPoll, Popped
    <2> QED
      BY <2>1, <2>2
  <1>25. CASE (SendAccepted \/ SentDraftHandled) /\ send'.phase = "clearing"
    <2>1. SendPoll /\ (\E deleted \in BOOLEAN : FinishSendSuccess(deleted))
      BY <1>25 DEF SendAccepted, SentDraftHandled, Base, ComposerTyped
    <2>2. PICK deleted \in BOOLEAN : FinishSendSuccess(deleted)
      BY <2>1
    <2>3. send' # NoSend
      BY <1>25 DEF NoSend
    <2>4. /\ FlushThen(send.generation, Clear, "sent clear") /\ UNCHANGED <<fields, compose_generation>>
          /\ compose_generation = send.generation
      BY <2>2, <2>3 DEF FinishSendSuccess
    <2>5. Popped
      BY <2>1 DEF SendPoll, Popped
    <2>6. Origin(send.generation, Clear, "sent clear")
      BY <1>25, <2>4 DEF Origin, Cleans
    <2> QED
      BY <2>4, <2>5, <2>6, <1>t, <1>f, <1>o, ClearIs
  <1>26. CASE \/ SaveWritesDraft \/ SaveWriteFails \/ SaveDeletesPrevious
              \/ (\E ok \in BOOLEAN : SaveRollsBack(ok)) \/ (\E ok \in BOOLEAN : DeleteSource(ok))
    BY <1>26, <1>t, <1>n, <1>k DEF SaveWritesDraft, SaveWriteFails, SaveDeletesPrevious, SaveRollsBack,
         DeleteSource, SaveWorkerStep, Popped
  <1>27. CASE SaveSucceeded
    <2>1. /\ FlushThen(compose_generation, RecoveryActionFor(fields, active_draft'), "save updated")
          /\ compose_generation' = compose_generation /\ Popped
      BY <1>27 DEF SaveSucceeded, SavePoll, Popped
    <2>2. Origin(compose_generation, RecoveryActionFor(fields, active_draft'), "save updated")
      BY <1>27 DEF Origin
    <2> QED
      BY <2>1, <2>2, <1>t, <1>f, <1>o, RecoveryIs
  <1>28. CASE DeleteSucceeded
    <2>1. compose_generation' = compose_generation /\ Popped
      BY <1>28 DEF DeleteSucceeded, SavePoll, Popped
    <2>2. \/ /\ FlushThen(compose_generation, Clear, "delete cleared")
             /\ compose_generation = save.generation
          \/ FlushThen(compose_generation, RecoveryActionFor(fields, active_draft'), "delete updated")
      BY <1>28 DEF DeleteSucceeded
    <2>3. Origin(compose_generation, RecoveryActionFor(fields, active_draft'), "delete updated")
      BY <1>28 DEF Origin
    <2>4. compose_generation = save.generation => Origin(compose_generation, Clear, "delete cleared")
      BY <1>28 DEF Origin
    <2>5. CASE FlushThen(compose_generation, Clear, "delete cleared") /\ compose_generation = save.generation
      BY <2>1, <2>4, <2>5, <1>t, <1>f, <1>o, ClearIs
    <2>6. CASE FlushThen(compose_generation, RecoveryActionFor(fields, active_draft'), "delete updated")
      BY <2>1, <2>3, <2>6, <1>t, <1>f, <1>o, RecoveryIs
    <2> QED
      BY <2>2, <2>5, <2>6
  <1> QED
    BY <1>1, <1>2, <1>3, <1>4, <1>5, <1>6, <1>7, <1>8, <1>9, <1>10, <1>11, <1>12, <1>13, <1>14, <1>15,
       <1>16, <1>17, <1>18, <1>19, <1>20, <1>21, <1>22, <1>23, <1>24, <1>25, <1>26, <1>27, <1>28 DEF Step

LEMMA WritesIsNext ==
  ASSUME WriterStep
  PROVE  [Next]_vars
  <1>1. CASE NoFlush
    BY <1>1 DEF NoFlush, vars
  <1>2. ASSUME NEW g \in Generations, NEW a \in RecoveryAction, ScheduleEdit(g, a) PROVE [Next]_vars
    BY <1>2 DEF Next
  <1>3. ASSUME NEW g \in Generations, NEW a \in RecoveryAction, NEW op, FlushStep(g, a, op) PROVE [Next]_vars
    BY <1>3 DEF Next, FlushStep, FlushThen
  <1>4. CASE DebounceFires \/ (\E w \in workers : WorkerStep(w)) \/ ResumeWrites
    BY <1>4 DEF Next
  <1>5. ASSUME NEW w \in workers, Receives(w) PROVE [Next]_vars
    BY <1>5 DEF Next, Receives
  <1> QED
    BY <1>1, <1>2, <1>3, <1>4, <1>5 DEF WriterStep

(* A callback that is new was registered by this step's flush. *)
LEMMA CallbacksAre ==
  ASSUME Base, WriterStep
  PROVE  /\ callbacks' \subseteq FlushCallbacks /\ delivering' \subseteq FlushCallbacks
         /\ \A cb \in All' : cb \in All \/ cb.generation <= compose_generation'
  <1>t. callbacks \subseteq FlushCallbacks /\ delivering \subseteq FlushCallbacks /\ flushes \in Nat
    BY DEF Base, ComposerTyped, IInv, TypeOK
  <1>p. Popped => delivering' \subseteq delivering
    BY DEF Popped
  <1>1. CASE NoFlush /\ Popped
    BY <1>1, <1>t, <1>p DEF NoFlush, All
  <1>2. CASE UNCHANGED <<callbacks, delivering>>
    BY <1>2, <1>t DEF All
  <1>3. ASSUME NEW g \in Generations, NEW a \in RecoveryAction, NEW op \in FlushOps, FlushStep(g, a, op)
        PROVE  /\ callbacks' \subseteq FlushCallbacks /\ delivering' \subseteq FlushCallbacks
               /\ \A cb \in All' : cb \in All \/ cb.generation <= compose_generation'
    <2> DEFINE n == [flush |-> flushes + 1, op |-> op, generation |-> g]
    <2>1. callbacks' = callbacks \cup {n} /\ delivering' \subseteq delivering /\ g <= compose_generation'
      BY <1>3, <1>p DEF FlushStep, FlushThen
    <2>2. n \in FlushCallbacks /\ n.generation = g
      BY <1>t DEF FlushCallbacks
    <2> HIDE DEF n
    <2> QED
      BY <2>1, <2>2, <1>t DEF All
  <1>4. ASSUME NEW w \in workers, Receives(w)
        PROVE  /\ callbacks' \subseteq FlushCallbacks /\ delivering' \subseteq FlushCallbacks
               /\ \A cb \in All' : cb \in All \/ cb.generation <= compose_generation'
    <2>1. callbacks' \subseteq callbacks /\ delivering' \subseteq callbacks
      BY <1>4 DEF Receives
    <2> QED
      BY <2>1, <1>t DEF All
  <1> QED
    BY <1>1, <1>2, <1>3, <1>4 DEF WriterStep

(* The types of everything but the writer and the callbacks. *)
Texted ==
  /\ compose_generation \in Generations
  /\ fields \in Texts /\ fields \in {Blank, compose_generation}
  /\ active_draft \in DraftRefs /\ active_draft.saved_fields <= compose_generation
  /\ capture \in Generations /\ capture <= compose_generation

Recorded ==
  /\ confirmation \in [kind : Questions, generation : Generations, fields : Texts, draft : DraftRefs]
  /\ confirmation.kind = "save" => confirmation.fields # Blank
  /\ send \in [phase : SendPhases, generation : Generations, fields : Texts, draft : DraftRefs]
  /\ save \in [phase : SavePhases, generation : Generations, fields : Texts, draft : DraftRefs, path : Nat]
  /\ save.fields <= compose_generation
  /\ confirmation.generation <= compose_generation
  /\ confirmation.fields <= compose_generation
  /\ send.generation <= compose_generation
  /\ save.generation <= compose_generation

LEMMA BaseIs ==
  Base <=>
    /\ IInv /\ Texted /\ Recorded
    /\ window \in WindowIs
    /\ drafts \subseteq [path : Nat, content : Texts]
    /\ callbacks \subseteq FlushCallbacks /\ delivering \subseteq FlushCallbacks
    /\ outcome \in {"ok", "failed"} /\ operations \in Nat
    /\ \A cb \in All : cb.generation <= compose_generation
  BY DEF Base, ComposerTyped, NotNewer, Texted, Recorded, WindowIs

--------------------------------------------------------------------------------
(* Base is kept by every step. *)

SendIs == [phase : SendPhases, generation : Generations, fields : Texts, draft : DraftRefs]
SaveIs == [phase : SavePhases, generation : Generations, fields : Texts, draft : DraftRefs, path : Nat]
QuestionIs == [kind : Questions, generation : Generations, fields : Texts, draft : DraftRefs]

(* What most steps leave of the questions, the send and the save. *)
SameQuestion == confirmation' \in {confirmation, NoConfirmation, [NoConfirmation EXCEPT !.kind = "close"]}
SameSend == send' = send \/ send' = NoSend \/ \E p \in SendPhases : send' = [send EXCEPT !.phase = p]
SaveAs(p, n) == [save EXCEPT !.phase = p, !.path = n]
SameSave == save' = save \/ save' = NoSave \/ \E p \in SavePhases, n \in Nat : save' = SaveAs(p, n)

LEMMA NothingIs ==
  /\ NoSend \in SendIs /\ NoSend.phase = "idle" /\ NoSend.generation = 0 /\ NoSend.fields = Blank
  /\ NoSend.draft = NoActiveDraft
  /\ NoSave \in SaveIs /\ NoSave.phase = "idle" /\ NoSave.generation = 0 /\ NoSave.fields = Blank
  /\ NoSave.draft = NoActiveDraft /\ NoSave.path = 0
  /\ NoConfirmation \in QuestionIs /\ NoConfirmation.kind = "none" /\ NoConfirmation.generation = 0
  /\ NoConfirmation.fields = Blank /\ NoConfirmation.draft = NoActiveDraft
  BY TextsAre DEF NoSend, NoSave, NoConfirmation, SendIs, SaveIs, QuestionIs, SendPhases, SavePhases, Questions

LEMMA KeepTexted ==
  ASSUME Texted, KeepComposer, capture' \in {capture, 0}
  PROVE  Texted'
  BY TextsAre DEF Texted, KeepComposer

LEMMA EmptyTexted ==
  ASSUME Texted, EmptyComposer, capture' \in {capture, 0}
  PROVE  Texted'
  <1>1. /\ compose_generation' \in Generations /\ compose_generation <= compose_generation'
        /\ fields' = Blank /\ active_draft' = NoActiveDraft
    BY EmptyIs DEF Texted
  <1>2. compose_generation \in Nat /\ compose_generation' \in Nat
    BY <1>1, TextsAre DEF Texted
  <1>3. active_draft' \in DraftRefs /\ active_draft'.saved_fields <= compose_generation'
    BY <1>1, <1>2, TextsAre
  <1>4. capture' \in Generations /\ capture' <= compose_generation'
    BY <1>1, <1>2, TextsAre DEF Texted
  <1>5. fields' \in Texts /\ fields' \in {Blank, compose_generation'}
    BY <1>1, TextsAre
  <1> QED
    BY <1>1, <1>3, <1>4, <1>5 DEF Texted

LEMMA RecordedIs ==
  Recorded <=>
    /\ confirmation \in QuestionIs /\ send \in SendIs /\ save \in SaveIs
    /\ confirmation.kind = "save" => confirmation.fields # Blank
    /\ save.fields <= compose_generation /\ save.generation <= compose_generation
    /\ confirmation.generation <= compose_generation /\ confirmation.fields <= compose_generation
    /\ send.generation <= compose_generation
  BY DEF Recorded, QuestionIs, SendIs, SaveIs

LEMMA KeepRecorded ==
  ASSUME Texted, Recorded, compose_generation <= compose_generation', compose_generation' \in Generations,
         SameQuestion, SameSend, SameSave
  PROVE  Recorded'
  <1>t. /\ confirmation \in QuestionIs /\ send \in SendIs /\ save \in SaveIs
        /\ compose_generation \in Nat /\ compose_generation' \in Nat /\ Texts \subseteq Nat /\ Generations = Texts
    BY RecordedIs, TextsAre DEF Texted
  <1>q. /\ confirmation.generation \in Nat /\ confirmation.fields \in Nat
        /\ send.generation \in Nat /\ save.generation \in Nat /\ save.fields \in Nat
    BY <1>t DEF QuestionIs, SendIs, SaveIs
  <1>r. /\ save.fields <= compose_generation' /\ save.generation <= compose_generation'
        /\ confirmation.generation <= compose_generation' /\ confirmation.fields <= compose_generation'
        /\ send.generation <= compose_generation'
        /\ confirmation.kind = "save" => confirmation.fields # Blank
        /\ 0 <= compose_generation' /\ Blank = 0
    BY <1>t, <1>q, RecordedIs, TextsAre
  <1>1. /\ confirmation' \in QuestionIs
        /\ confirmation'.kind = "save" => confirmation'.fields # Blank
        /\ confirmation'.generation <= compose_generation' /\ confirmation'.fields <= compose_generation'
    <2>1. CASE confirmation' = confirmation
      BY <2>1, <1>t, <1>r
    <2>2. CASE confirmation' = NoConfirmation
      BY <2>2, <1>r, NothingIs
    <2>3. CASE confirmation' = [NoConfirmation EXCEPT !.kind = "close"]
      BY <2>3, <1>r, NothingIs DEF QuestionIs, Questions
    <2> QED
      BY <2>1, <2>2, <2>3 DEF SameQuestion
  <1>2. send' \in SendIs /\ send'.generation <= compose_generation'
    <2>1. CASE send' = send
      BY <2>1, <1>t, <1>r
    <2>2. CASE send' = NoSend
      BY <2>2, <1>r, NothingIs
    <2>3. CASE \E p \in SendPhases : send' = [send EXCEPT !.phase = p]
      BY <2>3, <1>t, <1>r DEF SendIs
    <2> QED
      BY <2>1, <2>2, <2>3 DEF SameSend
  <1>3. save' \in SaveIs /\ save'.generation <= compose_generation' /\ save'.fields <= compose_generation'
    <2>1. CASE save' = save
      BY <2>1, <1>t, <1>r
    <2>2. CASE save' = NoSave
      BY <2>2, <1>r, NothingIs
    <2>3. CASE \E p \in SavePhases, n \in Nat : save' = SaveAs(p, n)
      <3>1. PICK p \in SavePhases, n \in Nat : save' = SaveAs(p, n)
        BY <2>3
      <3> QED
        BY <3>1, <1>t, <1>r DEF SaveIs, SaveAs
    <2> QED
      BY <2>1, <2>2, <2>3 DEF SameSave
  <1> QED
    BY <1>1, <1>2, <1>3 DEF Recorded, QuestionIs, SendIs, SaveIs


LEMMA SavePhased ==
  ASSUME save \in SaveIs, NEW p \in SavePhases, save' = [save EXCEPT !.phase = p]
  PROVE  SameSave
  <1>1. save.path \in Nat /\ save' = SaveAs(p, save.path)
    BY DEF SaveIs, SaveAs
  <1> QED
    BY <1>1 DEF SameSave

LEMMA SendPhased ==
  ASSUME NEW p \in SendPhases, send' = [send EXCEPT !.phase = p]
  PROVE  SameSend
  BY DEF SameSend

Rest ==
  /\ window \in WindowIs
  /\ drafts \subseteq [path : Nat, content : Texts]
  /\ outcome \in {"ok", "failed"} /\ operations \in Nat

LEMMA StepTyped ==
  ASSUME Base, Step
  PROVE  Texted' /\ Recorded' /\ Rest'
  <1>t. /\ IInv /\ Texted /\ Recorded /\ window \in WindowIs /\ drafts \subseteq [path : Nat, content : Texts]
        /\ outcome \in {"ok", "failed"} /\ operations \in Nat
        /\ confirmation \in QuestionIs /\ send \in SendIs /\ save \in SaveIs
        /\ confirmation.kind = "save" => confirmation.fields # Blank
    BY BaseIs, RecordedIs
  <1>m. /\ compose_generation \in Generations /\ compose_generation \in Nat /\ compose_generation <= compose_generation
        /\ fields \in Texts /\ fields <= compose_generation /\ active_draft \in DraftRefs
    BY <1>t, TextsAre DEF Texted
  <1>k. KeepComposer => compose_generation' = compose_generation
    BY DEF KeepComposer
  <1>n. ASSUME compose_generation' = compose_generation, SameQuestion, SameSend, SameSave PROVE Recorded'
    BY <1>n, <1>t, <1>m, KeepRecorded
  <1>e. ASSUME EmptyComposer, SameQuestion, SameSend, SameSave PROVE Recorded'
    <2>1. compose_generation <= compose_generation' /\ compose_generation' \in Generations
      BY <1>e, <1>m, EmptyIs
    <2> QED
      BY <2>1, <1>e, <1>t, <1>m, KeepRecorded
  <1>r. ASSUME window' \in WindowIs, UNCHANGED <<drafts, outcome>>, operations' \in {operations, operations + 1} PROVE Rest'
    BY <1>r, <1>t DEF Rest
  <1>s. UNCHANGED window => window' \in WindowIs
    BY <1>t
  <1>u. /\ UNCHANGED send => SameSend
        /\ UNCHANGED save => SameSave
        /\ send' = NoSend => SameSend
        /\ save' = NoSave => SameSave
        /\ UNCHANGED confirmation => SameQuestion
        /\ confirmation' = NoConfirmation => SameQuestion
    BY DEF SameSend, SameSave, SameQuestion
  <1>c. ASSUME NEW op, Callback(op) PROVE UNCHANGED <<drafts, outcome, operations>>
    BY <1>c DEF Callback
  <1>1. ASSUME NEW f \in {Blank, compose_generation + 1}, Edit(f) PROVE Texted' /\ Recorded' /\ Rest'
    <2>1. /\ compose_generation' = compose_generation + 1 /\ compose_generation < MaxGeneration
          /\ fields' = f /\ capture' = compose_generation + 1
          /\ UNCHANGED <<active_draft, drafts, confirmation, send, save, window, outcome>>
          /\ operations' = operations + 1
      BY <1>1 DEF Edit, UserStep
    <2>2. compose_generation' \in Generations /\ compose_generation <= compose_generation' /\ compose_generation' \in Nat
      BY <2>1, <1>m, NewerIs, TextsAre
    <2>3. Recorded'
      BY <2>1, <2>2, <1>t, <1>u, KeepRecorded
    <2>4. fields' \in Texts /\ fields' \in {Blank, compose_generation'}
      BY <2>1, <2>2, TextsAre
    <2>a. active_draft.saved_fields \in Nat /\ active_draft.saved_fields <= compose_generation
      BY <1>t, <1>m, TextsAre DEF Texted, DraftRefs
    <2>5. active_draft' \in DraftRefs /\ active_draft'.saved_fields <= compose_generation'
      BY <2>1, <2>2, <2>a, <1>m
    <2>6. Texted'
      BY <2>1, <2>2, <2>4, <2>5 DEF Texted
    <2> QED
      BY <2>1, <2>3, <2>6, <1>r, <1>s
  <1>2. ASSUME NEW kind \in Questions, NEW g \in Generations, NEW f \in Texts, NEW d \in DraftRefs,
               Asks(kind, g, f, d)
        PROVE  Texted' /\ Recorded' /\ Rest'
    <2>1. /\ confirmation' = [kind |-> kind, generation |-> g, fields |-> f, draft |-> d]
          /\ UNCHANGED <<drafts, outcome, send, save>> /\ KeepComposer /\ operations' = operations + 1
          /\ window' \in {window, [window EXCEPT !.exit = TRUE]}
      BY <1>2 DEF Asks, Quiet
    <2>2. capture' \in {capture, 0}
      BY <1>2 DEF Asks
    <2>3. g \in {0, compose_generation} /\ f \in {Blank, fields} /\ (kind = "save" => f # Blank)
      BY <1>2 DEF Asks
    <2>4. window' \in WindowIs
      BY <2>1, <1>t DEF WindowIs
    <2>5. /\ confirmation' \in QuestionIs
          /\ confirmation'.kind = "save" => confirmation'.fields # Blank
          /\ confirmation'.generation <= compose_generation
          /\ confirmation'.fields <= compose_generation
      BY <2>1, <2>3, <1>m, TextsAre DEF QuestionIs
    <2>6. Recorded'
      BY <2>1, <2>5, <1>k, <1>t, RecordedIs DEF Recorded, QuestionIs, SendIs, SaveIs
    <2> QED
      BY <2>1, <2>2, <2>4, <2>6, <1>t, <1>r, KeepTexted
  <1>3. CASE Clears
    BY <1>3, <1>t, <1>k, <1>n, <1>r, <1>s, <1>u, KeepTexted DEF Clears, ClearNow, Quiet, Counted
  <1>4. CASE Replaces
    BY <1>4, <1>t, <1>e, <1>r, <1>s, <1>u, EmptyTexted DEF Replaces, ReplaceNow, Quiet, Counted
  <1>5. ASSUME NEW f \in Texts, NEW d \in DraftRefs, NEW g \in Generations, Sends(f, d, g)
        PROVE  Texted' /\ Recorded' /\ Rest'
    <2>1. /\ send' = [phase |-> "flushing", generation |-> g, fields |-> f, draft |-> d]
          /\ confirmation' = NoConfirmation /\ KeepComposer
          /\ UNCHANGED <<drafts, outcome, save, window>> /\ operations' \in {operations, operations + 1}
          /\ capture' \in {0, capture}
      BY <1>5 DEF Sends, StartCapturedSend, Quiet, Counted
    <2>2. g \in {compose_generation, confirmation.generation}
      BY <1>5 DEF Sends
    <2>3. g <= compose_generation
      BY <2>2, <1>m, <1>t DEF Recorded
    <2>4. send' \in SendIs /\ send'.generation <= compose_generation
      BY <2>1, <2>3 DEF SendIs, SendPhases
    <2>5. Recorded'
      BY <2>1, <2>4, <1>k, <1>t, NothingIs, <1>m, TextsAre DEF Recorded, QuestionIs, SendIs, SaveIs
    <2> QED
      BY <2>1, <2>5, <1>t, <1>r, <1>s, KeepTexted
  <1>6. CASE Reconciles
    <2>2. /\ save' = [NoSave EXCEPT !.phase = "reconciling"] /\ UNCHANGED <<send, confirmation, window, drafts, outcome>>
          /\ KeepComposer /\ operations' = operations + 1 /\ capture' = 0
      BY <1>6 DEF Reconciles, Quiet
    <2>3. save' \in SaveIs /\ save'.fields = 0 /\ save'.generation = 0
      BY <2>2, NothingIs, TextsAre DEF SaveIs, SavePhases, NoSave
    <2>4. Recorded'
      BY <2>2, <2>3, <1>k, <1>t, <1>m DEF Recorded, QuestionIs, SendIs, SaveIs
    <2> QED
      BY <2>2, <2>4, <1>t, <1>r, <1>s, KeepTexted
  <1>7. ASSUME NEW f \in Texts, NEW d \in DraftRefs, Saves(f, d) PROVE Texted' /\ Recorded' /\ Rest'
    <2>2. /\ save' = [NoSave EXCEPT !.phase = "boundary", !.fields = f, !.draft = d]
          /\ UNCHANGED <<send, window, drafts, outcome>> /\ confirmation' = NoConfirmation
          /\ KeepComposer /\ operations' \in {operations, operations + 1} /\ capture' \in {0, capture}
      BY <1>7 DEF Saves, StartCapturedSave, Quiet
    <2>3. f \in {fields, confirmation.fields}
      BY <1>7 DEF Saves
    <2>4. f <= compose_generation
      BY <2>3, <1>m, <1>t DEF Recorded
    <2>5. save' \in SaveIs /\ save'.fields <= compose_generation /\ save'.generation = 0
      BY <2>2, <2>4, NothingIs, TextsAre DEF SaveIs, SavePhases, NoSave
    <2>6. Recorded'
      BY <2>2, <2>5, <1>k, <1>t, <1>m, NothingIs, TextsAre DEF Recorded, QuestionIs, SendIs, SaveIs
    <2> QED
      BY <2>2, <2>6, <1>t, <1>r, <1>s, KeepTexted
  <1>8. CASE AcceptDelete
    <2>1. /\ save' = [NoSave EXCEPT !.phase = "deleting", !.generation = compose_generation, !.draft = confirmation.draft]
          /\ UNCHANGED <<send, window, drafts, outcome, operations, capture>> /\ confirmation' = NoConfirmation
          /\ KeepComposer
      BY <1>8 DEF AcceptDelete, AcceptConfirmation, StartDelete
    <2>2. confirmation.draft \in DraftRefs
      BY <1>t DEF QuestionIs
    <2>5. save' \in SaveIs /\ save'.fields = 0 /\ save'.generation = compose_generation
      BY <2>1, <2>2, <1>m, NothingIs, TextsAre DEF SaveIs, SavePhases, NoSave
    <2>6. Recorded'
      BY <2>1, <2>5, <1>k, <1>t, <1>m, NothingIs, TextsAre DEF Recorded, QuestionIs, SendIs, SaveIs
    <2> QED
      BY <2>1, <2>6, <1>t, <1>r, <1>s, KeepTexted
  <1>9. CASE Hides
    BY <1>9, <1>t, <1>k, <1>n, <1>r, <1>u, KeepTexted DEF Hides, Quiet, WindowIs
  <1>10. CASE Closes
    <2>1. /\ KeepComposer /\ UNCHANGED <<send, save, drafts, outcome>> /\ operations' \in {operations, operations + 1}
          /\ window' \in {[window EXCEPT !.close_flush = TRUE], [window EXCEPT !.close_flush = TRUE, !.exit = TRUE]}
          /\ confirmation' = NoConfirmation
      BY <1>10 DEF Closes, Quiet, Counted
    <2>2. capture' \in {capture, 0}
      BY <1>10 DEF Closes, FlushAndClose
    <2>3. window' \in WindowIs
      BY <2>1, <1>t DEF WindowIs
    <2> QED
      BY <2>1, <2>2, <2>3, <1>t, <1>k, <1>n, <1>r, <1>u, KeepTexted
  <1>11. CASE Present \/ Reject
    <2>1. /\ UNCHANGED <<compose_generation, fields, active_draft, capture, send, save, drafts, outcome, operations>>
          /\ confirmation' \in {confirmation, NoConfirmation}
      BY <1>11 DEF Present, Reject
    <2>2. window' \in WindowIs
      BY <1>11, <1>t DEF WindowIs, Present, Reject
    <2>3. KeepComposer
      BY <2>1 DEF KeepComposer
    <2> QED
      BY <2>1, <2>2, <2>3, <1>t, <1>n, <1>r, <1>u, KeepTexted
  <1>12. CASE CaptureFires
    BY <1>12, <1>t, <1>n, <1>r, <1>s, <1>u, KeepTexted DEF CaptureFires, KeepComposer
  <1>13. CASE (MainLoop /\ DebounceFires /\ UNCHANGED composerVars) \/ RecoveryWriter \/ CallbacksDone
    <2>1. UNCHANGED composerVars
      BY <1>13 DEF RecoveryWriter, CallbacksDone
    <2> QED
      BY <2>1, <1>t, <1>n, <1>r, <1>s, <1>u, KeepTexted DEF composerVars, KeepComposer
  <1>14. ASSUME NEW w \in workers, ReceiveResult(w) PROVE Texted' /\ Recorded' /\ Rest'
    <2>1. /\ UNCHANGED <<compose_generation, fields, active_draft, drafts, capture,
                         confirmation, send, save, window, operations>>
          /\ outcome' = w.phase /\ w.phase \in {"ok", "failed"}
      BY <1>14 DEF ReceiveResult, FinishWrite
    <2>2. Rest'
      BY <2>1, <1>t DEF Rest
    <2> QED
      BY <2>1, <2>2, <1>t, <1>n, <1>u, KeepTexted DEF KeepComposer
  <1>15. CASE SendFlushed
    <2>1. /\ KeepComposer /\ UNCHANGED <<capture, confirmation, save, drafts, outcome, operations>>
          /\ window' \in {window, [window EXCEPT !.close_when_idle = FALSE, !.exit = FALSE, !.visible = TRUE]}
          /\ send' = NoSend \/ send' = [send EXCEPT !.phase = "transport"]
      BY <1>15, <1>c DEF SendFlushed
    <2>2. window' \in WindowIs
      BY <2>1, <1>t DEF WindowIs
    <2>3. "transport" \in SendPhases
      BY DEF SendPhases
    <2>4. SameSend
      BY <2>1, <2>3, <1>u, SendPhased
    <2> QED
      BY <2>1, <2>2, <2>4, <1>t, <1>k, <1>n, <1>r, <1>u, KeepTexted
  <1>16. CASE ComposerCleared
    <2>1. /\ KeepComposer \/ EmptyComposer
          /\ UNCHANGED <<capture, confirmation, send, save, window, drafts, outcome, operations>>
      BY <1>16, <1>c DEF ComposerCleared
    <2> QED
      BY <2>1, <1>t, <1>k, <1>n, <1>e, <1>r, <1>s, <1>u, KeepTexted, EmptyTexted
  <1>17. CASE CloseFlushed
    <2>1. /\ KeepComposer /\ UNCHANGED <<confirmation, send, save, drafts, outcome, operations>>
          /\ capture' \in {capture, 0}
      BY <1>17, <1>c DEF CloseFlushed
    <2>2. \/ window' = window
          \/ window' = [window EXCEPT !.close_flush = FALSE, !.exit = FALSE, !.closed = TRUE]
          \/ window' = [window EXCEPT !.close_flush = FALSE, !.exit = FALSE, !.visible = TRUE]
      BY <1>17 DEF CloseFlushed
    <2>3. window' \in WindowIs
      BY <2>2, <1>t DEF WindowIs
    <2> QED
      BY <2>1, <2>3, <1>t, <1>k, <1>n, <1>r, <1>u, KeepTexted
  <1>18. CASE Ends
    <2>1. /\ compose_generation <= compose_generation' /\ compose_generation' \in Generations
          /\ fields' \in Texts /\ fields' \in {Blank, compose_generation'}
          /\ active_draft' \in {active_draft, NoActiveDraft}
          /\ CloseAfterActivity(fields', active_draft', compose_generation')
      BY <1>18, EndsComposer
    <2>2. UNCHANGED <<drafts, outcome, operations>> /\ SameSend /\ SameSave
      BY <1>18, <1>u DEF Ends
    <2>3. /\ window' \in WindowIs /\ capture' \in {capture, 0}
          /\ confirmation' = confirmation \/ confirmation' = [NoConfirmation EXCEPT !.kind = "close"]
      <3>1. window' \in WindowIs /\ (confirmation' = confirmation \/ confirmation' = [NoConfirmation EXCEPT !.kind = "close"])
        BY <2>1, <1>t, AfterActivity
      <3>2. capture' \in {capture, 0}
        BY <2>1, <1>t, AfterActivity
      <3> QED
        BY <3>1, <3>2
    <2>4. Recorded'
      BY <2>1, <2>2, <2>3, <1>t, KeepRecorded DEF SameQuestion
    <2>5. capture' \in Generations /\ capture' <= compose_generation'
      BY <2>1, <2>3, <1>t, TextsAre DEF Texted
    <2>6. active_draft' \in DraftRefs /\ active_draft'.saved_fields <= compose_generation'
      <3>1. CASE active_draft' = active_draft
        <4>1. active_draft.saved_fields \in Nat /\ compose_generation' \in Nat
          BY <2>1, <1>m, TextsAre DEF DraftRefs
        <4> QED
          BY <3>1, <4>1, <2>1, <1>t, <1>m DEF Texted
      <3>2. CASE active_draft' = NoActiveDraft
        BY <3>2, <2>1, TextsAre
      <3> QED
        BY <2>1, <3>1, <3>2
    <2> QED
      BY <2>1, <2>2, <2>3, <2>4, <2>5, <2>6, <1>r DEF Texted
  <1>19. CASE SentCleared /\ send'.phase = "repersisting"
    <2>1. CASE send' = NoSend
      BY <1>19, <2>1, NothingIs
    <2>2. CASE ~(send' = NoSend)
      <3>1. /\ capture' = 0 /\ send' = [send EXCEPT !.phase = "repersisting"] /\ KeepComposer
            /\ UNCHANGED <<window, confirmation, save, drafts, outcome, operations>>
        BY <1>19, <2>2, <1>c DEF SentCleared
      <3>2. "repersisting" \in SendPhases
        BY DEF SendPhases
      <3>3. SameSend
        BY <3>1, <3>2, SendPhased
      <3> QED
        BY <3>1, <3>3, <1>t, <1>k, <1>n, <1>r, <1>s, <1>u, KeepTexted
    <2> QED
      BY <2>1, <2>2
  <1>20. CASE SaveBoundaryFlushed /\ outcome = "ok"
    <2>1. /\ save' = [save EXCEPT !.phase = "writing"] /\ KeepComposer
          /\ UNCHANGED <<window, capture, confirmation, send, drafts, outcome, operations>>
      BY <1>20, <1>c DEF SaveBoundaryFlushed
    <2>2. "writing" \in SavePhases
      BY DEF SavePhases
    <2>3. SameSave
      BY <2>1, <2>2, <1>t, SavePhased
    <2> QED
      BY <2>1, <2>3, <1>t, <1>k, <1>n, <1>r, <1>s, <1>u, KeepTexted
  <1>21. CASE TransportAccepts \/ TransportRefuses \/ (\E ok \in BOOLEAN : SentDraftDelete(ok))
    <2>1. /\ KeepComposer /\ UNCHANGED <<capture, confirmation, save, window, outcome, operations>>
          /\ drafts' \subseteq drafts
      BY <1>21 DEF TransportAccepts, TransportRefuses, SentDraftDelete, SendWorkerStep
    <2>2. \E p \in {"accepted", "refused", "deleted", "kept"} : send' = [send EXCEPT !.phase = p]
      BY <1>21 DEF TransportAccepts, TransportRefuses, SentDraftDelete
    <2>3. SameSend
      BY <2>2, SendPhased DEF SendPhases
    <2>4. Rest'
      BY <2>1, <1>t DEF Rest
    <2> QED
      BY <2>1, <2>3, <2>4, <1>t, <1>k, <1>n, <1>u, KeepTexted
  <1>22. CASE (SendAccepted \/ SentDraftHandled) /\ send'.phase \in {"clearing", "deleting"}
    <2>1. UNCHANGED <<drafts, save, outcome, operations>>
      BY <1>22 DEF SendAccepted, SentDraftHandled, SendPoll
    <2>2. send' # NoSend
      BY <1>22, NothingIs
    <2>3. /\ UNCHANGED <<window, capture, confirmation, fields, compose_generation>>
          /\ active_draft' \in {active_draft, NoActiveDraft}
          /\ \E p \in {"clearing", "deleting"} : send' = [send EXCEPT !.phase = p]
      <3>1. ASSUME NEW deleted, FinishSendSuccess(deleted)
            PROVE  /\ UNCHANGED <<window, capture, confirmation, fields, compose_generation>>
                   /\ active_draft' \in {active_draft, NoActiveDraft}
                   /\ \E p \in {"clearing", "deleting"} : send' = [send EXCEPT !.phase = p]
        BY <2>2, <3>1 DEF FinishSendSuccess
      <3> QED
        BY <1>22, <3>1 DEF SendAccepted, SentDraftHandled, KeepComposer
    <2>4. SameSend
      BY <2>3, SendPhased DEF SendPhases
    <2>5. Texted'
      <3>1. active_draft' \in DraftRefs /\ active_draft'.saved_fields <= compose_generation
        BY <2>3, <1>t, <1>m, TextsAre DEF Texted
      <3> QED
        BY <3>1, <2>3, <1>t DEF Texted
    <2> QED
      BY <2>1, <2>3, <2>4, <2>5, <1>n, <1>r, <1>s, <1>u
  <1>23. CASE \/ SaveWriteFails \/ SaveDeletesPrevious
              \/ (\E ok \in BOOLEAN : SaveRollsBack(ok)) \/ (\E ok \in BOOLEAN : DeleteSource(ok))
    <2>1. /\ KeepComposer /\ UNCHANGED <<capture, confirmation, send, window, outcome, operations>>
          /\ drafts' \subseteq drafts
      BY <1>23 DEF SaveWriteFails, SaveDeletesPrevious, SaveRollsBack, DeleteSource, SaveWorkerStep, Without
    <2>2. \E p \in {"failed", "saved", "deleted"} : save' = [save EXCEPT !.phase = p]
      BY <1>23 DEF SaveWriteFails, SaveDeletesPrevious, SaveRollsBack, DeleteSource
    <2>3. SameSave
      BY <2>2, <1>t, SavePhased DEF SavePhases
    <2>4. Rest'
      BY <2>1, <1>t DEF Rest
    <2> QED
      BY <2>1, <2>3, <2>4, <1>t, <1>k, <1>n, <1>u, KeepTexted
  <1>24. CASE SaveWritesDraft
    <2>1. KeepComposer /\ UNCHANGED <<capture, confirmation, send, window, outcome, operations>>
      BY <1>24 DEF SaveWritesDraft, SaveWorkerStep
    <2>2. PICK path \in {operations, save.draft.path} \ {0} :
           /\ drafts' = Without(path) \cup {[path |-> path, content |-> save.fields]}
           /\ save' = [save EXCEPT
                  !.phase = IF save.draft.path \in {0, path} THEN "saved" ELSE "replacing",
                  !.path = path]
      BY <1>24 DEF SaveWritesDraft
    <2>3. path \in Nat /\ save.fields \in Texts
      BY <1>t DEF SaveIs, DraftRefs
    <2>4. Rest'
      BY <2>1, <2>2, <2>3, <1>t DEF Rest, Without
    <2>5. \E p \in SavePhases : save' = SaveAs(p, path)
      BY <2>2 DEF SaveAs, SavePhases
    <2>6. SameSave
      BY <2>3, <2>5 DEF SameSave
    <2> QED
      BY <2>1, <2>4, <2>6, <1>t, <1>k, <1>n, <1>u, KeepTexted
  <1>25. CASE SaveSucceeded
    <2>1. /\ active_draft' = [path |-> save.path, saved_fields |-> save.fields]
          /\ save' = [save EXCEPT !.phase = "updating"]
          /\ UNCHANGED <<fields, compose_generation, window, capture, confirmation, drafts, send, outcome, operations>>
      BY <1>25 DEF SaveSucceeded, SavePoll
    <2>2. "updating" \in SavePhases
      BY DEF SavePhases
    <2>3. SameSave
      BY <2>1, <2>2, <1>t, SavePhased
    <2>4. active_draft' \in DraftRefs /\ active_draft'.saved_fields <= compose_generation
      BY <2>1, <1>t DEF SaveIs, DraftRefs, Recorded
    <2>5. Texted'
      BY <2>1, <2>4, <1>t DEF Texted
    <2> QED
      BY <2>1, <2>3, <2>5, <1>n, <1>r, <1>s, <1>u
  <1>26. CASE DeleteSucceeded
    <2>1. /\ active_draft' \in {active_draft, NoActiveDraft}
          /\ save' = [save EXCEPT !.phase = "delete updating"]
          /\ UNCHANGED <<fields, compose_generation, window, capture, confirmation, drafts, send, outcome, operations>>
      BY <1>26 DEF DeleteSucceeded, SavePoll
    <2>2. "delete updating" \in SavePhases
      BY DEF SavePhases
    <2>3. SameSave
      BY <2>1, <2>2, <1>t, SavePhased
    <2>a. active_draft.saved_fields <= compose_generation /\ NoActiveDraft.saved_fields <= compose_generation
          /\ NoActiveDraft \in DraftRefs
      BY <1>t, <1>m, TextsAre DEF Texted
    <2>4. active_draft' \in DraftRefs /\ active_draft'.saved_fields <= compose_generation
      BY <2>1, <2>a, <1>m
    <2>5. Texted'
      BY <2>1, <2>4, <1>t DEF Texted
    <2> QED
      BY <2>1, <2>3, <2>5, <1>n, <1>r, <1>s, <1>u
  <1> QED
    BY <1>1, <1>2, <1>3, <1>4, <1>5, <1>6, <1>7, <1>8, <1>9, <1>10, <1>11, <1>12, <1>13, <1>14, <1>15,
       <1>16, <1>17, <1>18, <1>19, <1>20, <1>21, <1>22, <1>23, <1>24, <1>25, <1>26 DEF Step

LEMMA BaseKept ==
  ASSUME Base, Step
  PROVE  Base'
  <1>1. WriterStep
    BY Writes
  <1>2. IInv'
    BY <1>1, WritesIsNext, NextIInv DEF Base
  <1>3. Texted' /\ Recorded' /\ Rest'
    BY StepTyped
  <1>4. /\ callbacks' \subseteq FlushCallbacks /\ delivering' \subseteq FlushCallbacks
        /\ \A cb \in All' : cb \in All \/ cb.generation <= compose_generation'
    BY <1>1, CallbacksAre
  <1>5. compose_generation <= compose_generation'
    BY <1>1 DEF WriterStep
  <1>6. \A cb \in All' : cb.generation <= compose_generation'
    <2>1. /\ compose_generation \in Nat /\ compose_generation' \in Nat
          /\ \A cb \in All : cb.generation \in Nat /\ cb.generation <= compose_generation
      BY <1>3, TextsAre DEF Base, NotNewer, ComposerTyped, Texted, FlushCallbacks, All
    <2> QED
      BY <2>1, <1>4, <1>5
  <1>7. ComposerTyped'
    BY <1>3, <1>4 DEF ComposerTyped, Texted, Recorded, Rest, WindowIs
  <1>8. NotNewer'
    BY <1>3, <1>6 DEF NotNewer, Texted, Recorded
  <1> QED
    BY <1>2, <1>7, <1>8 DEF Base

LEMMA BaseStarts == ComposerInit => Base
  <1> SUFFICES ASSUME ComposerInit PROVE Base
    OBVIOUS
  <1>1. IInv
    BY InitIInv DEF ComposerInit
  <1>2. Texted
    BY TextsAre DEF ComposerInit, Texted
  <1>3. Recorded
    BY NothingIs, TextsAre DEF ComposerInit, Recorded, QuestionIs, SendIs, SaveIs
  <1>4. window \in WindowIs /\ drafts = {} /\ callbacks = {} /\ delivering = {} /\ outcome = "ok" /\ operations = 0
    BY DEF ComposerInit, WindowIs
  <1> QED
    BY <1>1, <1>2, <1>3, <1>4, BaseIs DEF All

--------------------------------------------------------------------------------
(* A callback waits for the activity that registered it, once. *)

SendOp(op) == op \in {"send", "sent clear", "sent repersist"}
SaveOp(op) == op \in {"save boundary", "save updated", "reconciled", "delete cleared", "delete updated"}

SendLinked(cb, s) ==
  /\ cb.op = "send" => s.phase = "flushing" /\ cb.generation = s.generation
  /\ cb.op = "sent clear" => s.phase = "clearing"
  /\ cb.op = "sent repersist" => s.phase = "repersisting"

SaveLinked(cb, v) ==
  /\ cb.op = "save boundary" => v.phase = "boundary"
  /\ cb.op = "save updated" => v.phase = "updating"
  /\ cb.op = "reconciled" => v.phase = "reconciling"
  /\ cb.op \in {"delete cleared", "delete updated"} => v.phase = "delete updating"

CloseLinked(cb, w) == cb.op = "close" => w.close_flush

Linked == \A cb \in All : SendLinked(cb, send) /\ SaveLinked(cb, save) /\ CloseLinked(cb, window)

SameActivity(p, q) ==
  \/ SendOp(p) /\ SendOp(q)
  \/ SaveOp(p) /\ SaveOp(q)
  \/ p = "close" /\ q = "close"

Once == \A a, b \in All : SameActivity(a.op, b.op) => a = b

Numbered ==
  /\ \A a, b \in All : a.flush = b.flush => a = b
  /\ \A a \in All : a.flush <= flushes
  /\ callbacks \cap delivering = {}
  /\ ~finishing => delivering = {}

Registered == Linked /\ Once /\ Numbered

LEMMA LeastNumber ==
  ASSUME NEW T, T \subseteq Nat, T # {}
  PROVE  \E x \in T : \A y \in T : x <= y
  <1>1. PICK R : R = OpToRel(<, Nat)
    OBVIOUS
  <1>2. \E x \in T : \A y \in T : ~ (<<y, x>> \in R)
    BY <1>1, NatLessThanWellFounded, WFMin
  <1>3. \A x, y \in Nat : y < x => <<y, x>> \in R
    BY <1>1 DEF OpToRel
  <1>4. PICK x \in T : \A y \in T : ~ (<<y, x>> \in R)
    BY <1>2
  <1>5. \A y \in T : ~ (y < x)
    BY <1>3, <1>4
  <1>6. \A y \in T : x <= y
    BY <1>5
  <1> QED
    BY <1>6

(* finish_write runs the callbacks in the order they were registered. *)
LEMMA FirstIs ==
  ASSUME delivering \subseteq FlushCallbacks, delivering # {}
  PROVE  First \in delivering /\ \A d \in delivering : First.flush <= d.flush
  <1> DEFINE T == {cb.flush : cb \in delivering}
  <1>1. T \subseteq Nat /\ T # {}
    BY DEF FlushCallbacks
  <1> HIDE DEF T
  <1>2. \E x \in T : \A y \in T : x <= y
    BY <1>1, LeastNumber
  <1>3. \E cb \in delivering : \A d \in delivering : cb.flush <= d.flush
    BY <1>2 DEF T
  <1> QED
    BY <1>3 DEF First

NewCallback(op, g) == [flush |-> flushes + 1, op |-> op, generation |-> g]

LEMMA NewIs ==
  ASSUME Base, NEW op \in FlushOps, NEW g \in Generations
  PROVE  /\ NewCallback(op, g) \in FlushCallbacks
         /\ NewCallback(op, g).op = op /\ NewCallback(op, g).generation = g
         /\ NewCallback(op, g).flush = flushes + 1 /\ flushes \in Nat
  <1>1. flushes \in Nat
    BY DEF Base, IInv, TypeOK
  <1> QED
    BY <1>1 DEF NewCallback, FlushCallbacks

(* The callbacks after a step, and the writer's finishing flag. *)
LEMMA AllAre ==
  ASSUME Base, Numbered, WriterStep
  PROVE  /\ \/ All' \subseteq All /\ flushes' = flushes
            \/ \E g \in Generations, a \in RecoveryAction, op \in FlushOps :
                 /\ FlushStep(g, a, op) /\ All' \subseteq All \cup {NewCallback(op, g)}
                 /\ NewCallback(op, g) \in callbacks' /\ flushes' = flushes + 1
         /\ callbacks' \cap delivering' = {}
         /\ ~finishing' => delivering' = {}
  <1>t. callbacks \subseteq FlushCallbacks /\ delivering \subseteq FlushCallbacks /\ flushes \in Nat
    BY DEF Base, ComposerTyped, IInv, TypeOK
  <1>n. callbacks \cap delivering = {} /\ (~finishing => delivering = {})
    BY DEF Numbered
  <1>p. Popped => delivering' \subseteq delivering
    BY DEF Popped
  <1>1. CASE NoFlush /\ Popped
    BY <1>1, <1>t, <1>n, <1>p DEF NoFlush, All
  <1>2. CASE UNCHANGED <<callbacks, delivering, flushes>> /\ (finishing' = finishing \/ delivering = {})
    BY <1>2, <1>t, <1>n DEF All
  <1>3. ASSUME NEW g \in Generations, NEW a \in RecoveryAction, NEW op \in FlushOps, FlushStep(g, a, op)
        PROVE  /\ All' \subseteq All \cup {NewCallback(op, g)}
               /\ NewCallback(op, g) \in callbacks' /\ flushes' = flushes + 1
               /\ callbacks' \cap delivering' = {}
               /\ ~finishing' => delivering' = {}
    <2>1. /\ callbacks' = callbacks \cup {NewCallback(op, g)} /\ delivering' \subseteq delivering
          /\ flushes' = flushes + 1 /\ finishing' = finishing
      BY <1>3, <1>p DEF FlushStep, FlushThen, FlushBoundary, NewCallback
    <2>2. NewCallback(op, g) \notin delivering
      <3>1. NewCallback(op, g).flush = flushes + 1
        BY NewIs
      <3>2. \A cb \in delivering : cb.flush <= flushes
        BY DEF Numbered, All
      <3> QED
        BY <3>1, <3>2, <1>t
    <2> QED
      BY <2>1, <2>2, <1>n DEF All
  <1>4. ASSUME NEW w \in workers, Receives(w)
        PROVE  /\ All' \subseteq All /\ flushes' = flushes
               /\ callbacks' \cap delivering' = {} /\ finishing'
    <2>1. callbacks' = callbacks \ delivering' /\ delivering' \subseteq callbacks /\ flushes' = flushes /\ finishing'
      BY <1>4 DEF Receives, FinishWrite
    <2> QED
      BY <2>1 DEF All
  <1>5. CASE \E g \in Generations, a \in RecoveryAction :
                g <= compose_generation' /\ ScheduleEdit(g, a) /\ UNCHANGED <<callbacks, delivering>>
    BY <1>5, <1>2 DEF ScheduleEdit
  <1>6. CASE DebounceFires /\ UNCHANGED <<callbacks, delivering, compose_generation>>
    BY <1>6, <1>2 DEF DebounceFires
  <1>7. CASE \E w \in workers : WorkerStep(w) /\ UNCHANGED <<callbacks, delivering, compose_generation>>
    BY <1>7, <1>2 DEF WorkerStep, WriterCommits, WriterSucceeds, WriterFails
  <1>8. CASE ResumeWrites /\ delivering = {} /\ UNCHANGED <<callbacks, delivering, compose_generation>>
    BY <1>8, <1>2 DEF ResumeWrites
  <1>9. CASE \E g \in Generations, a \in RecoveryAction, op \in FlushOps : FlushStep(g, a, op)
    BY <1>3, <1>9
  <1>10. CASE \E w \in workers : Receives(w) /\ UNCHANGED compose_generation
    BY <1>4, <1>10
  <1> QED
    BY <1>1, <1>5, <1>6, <1>7, <1>8, <1>9, <1>10 DEF WriterStep

LEMMA NumberedKept ==
  ASSUME Base, Numbered, WriterStep
  PROVE  Numbered'
  <1>t. All \subseteq FlushCallbacks /\ flushes \in Nat
    BY DEF Base, ComposerTyped, IInv, TypeOK, All
  <1>o. \A a \in All : a.flush \in Nat /\ a.flush <= flushes
    BY <1>t DEF Numbered, FlushCallbacks
  <1>1. callbacks' \cap delivering' = {} /\ (~finishing' => delivering' = {})
    BY AllAre
  <1>2. CASE All' \subseteq All /\ flushes' = flushes
    BY <1>1, <1>2 DEF Numbered
  <1>3. ASSUME NEW g \in Generations, NEW op \in FlushOps,
               All' \subseteq All \cup {NewCallback(op, g)}, flushes' = flushes + 1
        PROVE  Numbered'
    <2> DEFINE n == NewCallback(op, g)
    <2>1. n.flush = flushes + 1
      BY NewIs
    <2> HIDE DEF n
    <2>2. All' \subseteq All \cup {n}
      BY <1>3 DEF n
    <2>3. \A a \in All' : a.flush <= flushes'
      BY <2>1, <2>2, <1>o, <1>t, <1>3
    <2>4. \A a \in All : a.flush # n.flush
      BY <2>1, <1>o, <1>t
    <2>5. \A a, b \in All' : a.flush = b.flush => a = b
      BY <2>2, <2>4 DEF Numbered
    <2> QED
      BY <2>3, <2>5, <1>1 DEF Numbered
  <1> QED
    BY <1>2, <1>3, AllAre

(* A callback that runs is gone. *)
LEMMA RunOnce ==
  ASSUME Base, Numbered, WriterStep, finishing, delivering # {}, delivering' = delivering \ {First}
  PROVE  First \in delivering /\ First \in All /\ First \notin All'
  <1>t. delivering \subseteq FlushCallbacks /\ flushes \in Nat
    BY DEF Base, ComposerTyped, IInv, TypeOK
  <1>1. First \in delivering
    BY <1>t, FirstIs
  <1>2. First \notin callbacks /\ First.flush <= flushes /\ First.flush \in Nat
    BY <1>1, <1>t DEF Numbered, All, FlushCallbacks
  <1>3. callbacks' \subseteq callbacks \/
        \E g \in Generations, op \in FlushOps : callbacks' = callbacks \cup {NewCallback(op, g)}
    <2>1. CASE NoFlush \/ UNCHANGED callbacks
      BY <2>1 DEF NoFlush
    <2>2. ASSUME NEW g \in Generations, NEW a \in RecoveryAction, NEW op \in FlushOps, FlushStep(g, a, op)
          PROVE  callbacks' = callbacks \cup {NewCallback(op, g)}
      BY <2>2 DEF FlushStep, FlushThen, NewCallback
    <2>3. ASSUME NEW w \in workers, Receives(w) PROVE FALSE
      BY <2>3 DEF Receives, FinishWrite
    <2> QED
      BY <2>1, <2>2, <2>3 DEF WriterStep
  <1>4. First \notin callbacks'
    <2>1. ASSUME NEW g \in Generations, NEW op \in FlushOps, callbacks' = callbacks \cup {NewCallback(op, g)}
          PROVE  First \notin callbacks'
      <3>1. NewCallback(op, g).flush = flushes + 1
        BY NewIs
      <3> QED
        BY <2>1, <3>1, <1>2, <1>t
    <2> QED
      BY <2>1, <1>2, <1>3
  <1> QED
    BY <1>1, <1>4 DEF All

LEMMA CleansIs ==
  ASSUME Base, Cleans
  PROVE  /\ ~finishing /\ send.phase \in {"accepted", "deleted", "kept"}
         /\ send' = [send EXCEPT !.phase = "clearing"]
         /\ send.generation = compose_generation
         /\ send.draft = NoActiveDraft \/ send.phase = "deleted"
         /\ \/ active_draft' = active_draft
            \/ send.phase = "deleted" /\ active_draft = send.draft /\ active_draft' = NoActiveDraft
         /\ send.phase = "deleted" => active_draft' = NoActiveDraft \/ active_draft # send.draft
         /\ FlushThen(send.generation, Clear, "sent clear")
         /\ UNCHANGED <<window, capture, confirmation, fields, compose_generation, drafts, save, delivering,
                        outcome, operations, accepted, given_up>>
  <1>t. send \in SendIs
    BY BaseIs, RecordedIs
  <1>1. /\ ~finishing /\ UNCHANGED <<drafts, save, delivering, outcome, operations, accepted, given_up>>
        /\ send.phase \in {"accepted", "deleted", "kept"}
    BY DEF Cleans, SendAccepted, SentDraftHandled, SendPoll, MainLoop
  <1>2. send' # NoSend
    BY NothingIs DEF Cleans
  <1>3. \E deleted \in BOOLEAN : FinishSendSuccess(deleted) /\ (deleted <=> send.phase = "deleted")
    <2>1. CASE SentDraftHandled
      <3>1. FinishSendSuccess(send.phase = "deleted")
        BY <2>1 DEF SentDraftHandled
      <3> QED
        BY <3>1
    <2>2. CASE SendAccepted
      <3>1. CASE send.draft = NoActiveDraft \/ active_draft # send.draft
        <4>1. FinishSendSuccess(FALSE) /\ send.phase = "accepted"
          BY <2>2, <3>1 DEF SendAccepted
        <4> QED
          BY <4>1
      <3>2. CASE ~(send.draft = NoActiveDraft \/ active_draft # send.draft)
        <4>1. send' = [send EXCEPT !.phase = "deleting"]
          BY <2>2, <3>2 DEF SendAccepted
        <4>2. send'.phase = "deleting"
          BY <4>1, <1>t DEF SendIs
        <4> QED
          BY <4>2 DEF Cleans
      <3> QED
        BY <3>1, <3>2
    <2> QED
      BY <2>1, <2>2 DEF Cleans
  <1>4. PICK deleted \in BOOLEAN : FinishSendSuccess(deleted) /\ (deleted <=> send.phase = "deleted")
    BY <1>3
  <1>5. /\ compose_generation = send.generation /\ (send.draft = NoActiveDraft \/ deleted)
        /\ send' = [send EXCEPT !.phase = "clearing"]
        /\ FlushThen(send.generation, Clear, "sent clear")
        /\ UNCHANGED <<window, capture, confirmation, fields, compose_generation>>
    BY <1>2, <1>4 DEF FinishSendSuccess
  <1>6. active_draft' = IF send.draft # NoActiveDraft /\ deleted /\ active_draft = send.draft
                        THEN NoActiveDraft ELSE active_draft
    BY <1>4 DEF FinishSendSuccess
  <1> QED
    BY <1>1, <1>4, <1>5, <1>6

LEMMA RepersistsIs ==
  ASSUME Base, Repersists
  PROVE  /\ finishing /\ delivering # {} /\ First.op = "sent clear" /\ delivering' = delivering \ {First}
         /\ First.generation # compose_generation
         /\ capture' = 0 /\ send' = [send EXCEPT !.phase = "repersisting"] /\ KeepComposer
         /\ FlushThen(compose_generation, RecoveryActionFor(fields, active_draft), "sent repersist")
         /\ UNCHANGED <<window, confirmation, save, drafts, outcome, operations, accepted, given_up>>
  <1>1. send' # NoSend
    BY NothingIs DEF Repersists
  <1> QED
    BY <1>1 DEF Repersists, SentCleared, Callback, Current

LEMMA DeletingIs ==
  ASSUME Base, SendAccepted, send'.phase = "deleting"
  PROVE  /\ ~finishing /\ send.phase = "accepted" /\ send' = [send EXCEPT !.phase = "deleting"]
         /\ send.draft # NoActiveDraft /\ active_draft = send.draft
         /\ NoFlush /\ KeepComposer
         /\ UNCHANGED <<window, capture, confirmation, drafts, save, delivering, outcome, operations, accepted, given_up>>
  <1>t. send \in SendIs
    BY BaseIs, RecordedIs
  <1>1. CASE send.draft = NoActiveDraft \/ active_draft # send.draft
    <2>1. FinishSendSuccess(FALSE)
      BY <1>1 DEF SendAccepted
    <2>2. send' = NoSend \/ send' = [send EXCEPT !.phase = "clearing"]
      BY <2>1 DEF FinishSendSuccess
    <2>3. send'.phase # "deleting"
      BY <2>2, <1>t, NothingIs DEF SendIs
    <2> QED
      BY <2>3
  <1>2. CASE ~(send.draft = NoActiveDraft \/ active_draft # send.draft)
    BY <1>2 DEF SendAccepted, SendPoll, MainLoop
  <1> QED
    BY <1>1, <1>2

(* What ends was in progress. *)
LEMMA EndsIs ==
  ASSUME Base, Registered, Ends
  PROVE  /\ \/ /\ send.phase \in {"refused", "accepted", "deleted", "kept", "clearing", "repersisting"}
               /\ send' = NoSend /\ save' = save
            \/ /\ save.phase \in {"failed", "boundary", "updating", "reconciling", "delete updating"}
               /\ save' = NoSave /\ send' = send
         /\ \/ ~finishing /\ delivering' = delivering
               /\ \/ send.phase \in {"refused", "accepted", "deleted", "kept"} /\ send' = NoSend /\ save' = save
                  \/ save.phase = "failed" /\ save' = NoSave /\ send' = send
            \/ /\ finishing /\ delivering # {} /\ delivering' = delivering \ {First}
               /\ \/ SendOp(First.op) /\ send' = NoSend /\ save' = save
                  \/ SaveOp(First.op) /\ save' = NoSave /\ send' = send
  <1>t. send \in SendIs /\ save \in SaveIs /\ delivering \subseteq FlushCallbacks
    BY BaseIs, RecordedIs
  <1>n. NoSend.phase = "idle" /\ NoSave.phase = "idle"
    BY NothingIs
  <1>e. (send' = NoSend /\ save' = save) \/ (save' = NoSave /\ send' = send)
    BY DEF Ends
  <1>1. CASE /\ ~finishing /\ delivering' = delivering
             /\ \/ send.phase \in {"refused", "accepted", "deleted", "kept"} /\ send' = NoSend
                \/ save.phase = "failed" /\ save' = NoSave
    BY <1>1, <1>e, <1>n
  <1>2. CASE /\ finishing /\ delivering # {} /\ delivering' = delivering \ {First}
             /\ \/ First.op \in {"sent clear", "sent repersist"} /\ send' = NoSend
                \/ First.op = "save boundary" /\ outcome = "failed" /\ save' = NoSave
                \/ First.op \in {"save updated", "reconciled", "delete cleared", "delete updated"} /\ save' = NoSave
    <2>1. First \in All
      BY <1>2, <1>t, FirstIs DEF All
    <2>2. SendLinked(First, send) /\ SaveLinked(First, save)
      BY <2>1 DEF Registered, Linked
    <2>3. CASE First.op \in {"sent clear", "sent repersist"} /\ send' = NoSend
      <3>1. send.phase \in {"clearing", "repersisting"} /\ SendOp(First.op)
        BY <2>2, <2>3 DEF SendLinked, SendOp
      <3> QED
        BY <1>2, <3>1, <2>3, <1>e, <1>n
    <2>4. CASE First.op \in {"save boundary", "save updated", "reconciled", "delete cleared", "delete updated"} /\ save' = NoSave
      <3>1. save.phase \in {"boundary", "updating", "reconciling", "delete updating"} /\ SaveOp(First.op)
        BY <2>2, <2>4 DEF SaveLinked, SaveOp
      <3> QED
        BY <1>2, <3>1, <2>4, <1>e, <1>n
    <2> QED
      BY <1>2, <2>3, <2>4
  <1> QED
    BY <1>1, <1>2 DEF Ends

(* A callback that stays keeps its activity. *)
LEMMA SendMoves ==
  ASSUME Base, Registered, Step, NEW cb \in All, cb \in All'
  PROVE  SendLinked(cb, send')
  <1>t. send \in SendIs /\ delivering \subseteq FlushCallbacks
    BY BaseIs, RecordedIs
  <1>w. WriterStep
    BY Writes
  <1>l. SendLinked(cb, send)
    BY DEF Registered, Linked
  <1>s. CASE send' = send
    BY <1>s, <1>l
  <1>n. CASE ~SendOp(cb.op)
    BY <1>n DEF SendLinked, SendOp
  <1>p. CASE send.phase \notin {"flushing", "clearing", "repersisting"}
    BY <1>p, <1>l, <1>n DEF SendLinked, SendOp
  <1>f. ASSUME finishing, delivering # {}, delivering' = delivering \ {First}, SendOp(First.op)
        PROVE  ~SendOp(cb.op)
    <2>1. First \in All /\ cb # First
      BY <1>f, <1>w, RunOnce DEF Registered
    <2> QED
      BY <2>1, <1>f DEF Registered, Once, SameActivity
  <1>1. ASSUME NEW f \in Texts, NEW d \in DraftRefs, NEW g \in Generations, Sends(f, d, g)
        PROVE  SendLinked(cb, send')
    BY <1>1, <1>p DEF Sends, Idle
  <1>2. CASE SendFlushed
    BY <1>2, <1>f, <1>n DEF SendFlushed, Callback, SendOp
  <1>3. CASE Ends
    BY <1>3, <1>s, <1>f, <1>n, <1>p, EndsIs
  <1>4. CASE SentCleared /\ send'.phase = "repersisting"
    BY <1>4, <1>f, <1>n, RepersistsIs DEF Repersists, SendOp
  <1>5. CASE TransportAccepts \/ TransportRefuses \/ (\E ok \in BOOLEAN : SentDraftDelete(ok))
    BY <1>5, <1>p DEF TransportAccepts, TransportRefuses, SentDraftDelete
  <1>6. CASE SendAccepted /\ send'.phase = "deleting"
    BY <1>6, <1>p DEF SendAccepted
  <1>7. CASE (SendAccepted \/ SentDraftHandled) /\ send'.phase = "clearing"
    BY <1>7, <1>p, CleansIs DEF Cleans
  <1>8. CASE \/ (\E f \in {Blank, compose_generation + 1} : Edit(f))
             \/ (\E kind \in Questions, g \in Generations, f \in Texts, d \in DraftRefs : Asks(kind, g, f, d))
             \/ Clears \/ Replaces \/ Reconciles \/ (\E f \in Texts, d \in DraftRefs : Saves(f, d))
             \/ AcceptDelete \/ Hides \/ Closes \/ Present \/ Reject \/ CaptureFires
    BY <1>8, <1>s DEF Edit, Asks, Clears, Replaces, Reconciles, Saves, AcceptDelete, Hides, Closes, Present, Reject, CaptureFires
  <1>9. CASE \/ (MainLoop /\ DebounceFires /\ UNCHANGED composerVars) \/ RecoveryWriter
             \/ (\E w \in workers : ReceiveResult(w)) \/ CallbacksDone
    BY <1>9, <1>s DEF RecoveryWriter, composerVars, ReceiveResult, CallbacksDone
  <1>10. CASE ComposerCleared \/ CloseFlushed \/ SaveBoundaryFlushed
    BY <1>10, <1>s DEF ComposerCleared, CloseFlushed, SaveBoundaryFlushed
  <1>11. CASE \/ SaveWritesDraft \/ SaveWriteFails \/ SaveDeletesPrevious
              \/ (\E ok \in BOOLEAN : SaveRollsBack(ok)) \/ (\E ok \in BOOLEAN : DeleteSource(ok))
              \/ SaveSucceeded \/ DeleteSucceeded
    BY <1>11, <1>s DEF SaveWritesDraft, SaveWriteFails, SaveDeletesPrevious, SaveRollsBack, DeleteSource,
         SaveSucceeded, DeleteSucceeded, SaveWorkerStep, SavePoll
  <1> QED
    BY <1>1, <1>2, <1>3, <1>4, <1>5, <1>6, <1>7, <1>8, <1>9, <1>10, <1>11 DEF Step

LEMMA SaveMoves ==
  ASSUME Base, Registered, Step, NEW cb \in All, cb \in All'
  PROVE  SaveLinked(cb, save')
  <1>t. save \in SaveIs /\ delivering \subseteq FlushCallbacks
    BY BaseIs, RecordedIs
  <1>w. WriterStep
    BY Writes
  <1>l. SaveLinked(cb, save)
    BY DEF Registered, Linked
  <1>s. CASE save' = save
    BY <1>s, <1>l
  <1>n. CASE ~SaveOp(cb.op)
    BY <1>n DEF SaveLinked, SaveOp
  <1>p. CASE save.phase \notin {"boundary", "updating", "reconciling", "delete updating"}
    BY <1>p, <1>l, <1>n DEF SaveLinked, SaveOp
  <1>f. ASSUME finishing, delivering # {}, delivering' = delivering \ {First}, SaveOp(First.op)
        PROVE  ~SaveOp(cb.op)
    <2>1. First \in All /\ cb # First
      BY <1>f, <1>w, RunOnce DEF Registered
    <2> QED
      BY <2>1, <1>f DEF Registered, Once, SameActivity
  <1>1. ASSUME NEW f \in Texts, NEW d \in DraftRefs, Saves(f, d)
        PROVE  SaveLinked(cb, save')
    BY <1>1, <1>p DEF Saves, Idle
  <1>2. CASE SaveBoundaryFlushed
    BY <1>2, <1>f, <1>n DEF SaveBoundaryFlushed, Callback, SaveOp
  <1>3. CASE Ends
    BY <1>3, <1>s, <1>f, <1>n, <1>p, EndsIs
  <1>4. CASE Reconciles \/ AcceptDelete
    BY <1>4, <1>p DEF Reconciles, Idle, AcceptDelete, AcceptConfirmation, OperationAllowed
  <1>5. CASE \/ SaveWritesDraft \/ SaveWriteFails \/ SaveDeletesPrevious
             \/ (\E ok \in BOOLEAN : SaveRollsBack(ok)) \/ (\E ok \in BOOLEAN : DeleteSource(ok))
             \/ SaveSucceeded \/ DeleteSucceeded
    BY <1>5, <1>p DEF SaveWritesDraft, SaveWriteFails, SaveDeletesPrevious, SaveRollsBack, DeleteSource,
         SaveSucceeded, DeleteSucceeded
  <1>8. CASE \/ (\E f \in {Blank, compose_generation + 1} : Edit(f))
             \/ (\E kind \in Questions, g \in Generations, f \in Texts, d \in DraftRefs : Asks(kind, g, f, d))
             \/ Clears \/ Replaces \/ (\E f \in Texts, d \in DraftRefs, g \in Generations : Sends(f, d, g))
             \/ Hides \/ Closes \/ Present \/ Reject \/ CaptureFires
    BY <1>8, <1>s DEF Edit, Asks, Clears, Replaces, Sends, Hides, Closes, Present, Reject, CaptureFires
  <1>9. CASE \/ (MainLoop /\ DebounceFires /\ UNCHANGED composerVars) \/ RecoveryWriter
             \/ (\E w \in workers : ReceiveResult(w)) \/ CallbacksDone
    BY <1>9, <1>s DEF RecoveryWriter, composerVars, ReceiveResult, CallbacksDone
  <1>10. CASE ComposerCleared \/ CloseFlushed \/ SendFlushed \/ SentCleared
    BY <1>10, <1>s DEF ComposerCleared, CloseFlushed, SendFlushed, SentCleared
  <1>11. CASE TransportAccepts \/ TransportRefuses \/ (\E ok \in BOOLEAN : SentDraftDelete(ok)) \/ SendAccepted \/ SentDraftHandled
    BY <1>11, <1>s DEF TransportAccepts, TransportRefuses, SentDraftDelete, SendAccepted, SentDraftHandled, SendWorkerStep, SendPoll
  <1> QED
    BY <1>1, <1>2, <1>3, <1>4, <1>5, <1>8, <1>9, <1>10, <1>11 DEF Step

LEMMA WindowMoves ==
  ASSUME Base, Step
  PROVE  \/ window.close_flush => window'.close_flush
         \/ CloseFlushed
  <1>t. window \in WindowIs
    BY BaseIs
  <1>1. CASE Ends
    BY <1>1, <1>t, EndsComposer, AfterActivity
  <1>2. CASE UNCHANGED window
    BY <1>2
  <1>3. CASE Hides \/ Closes \/ Present \/ Reject \/ SendFlushed
    BY <1>3, <1>t DEF Hides, Closes, Present, Reject, SendFlushed, WindowIs
  <1>4. CASE \E kind \in Questions, g \in Generations, f \in Texts, d \in DraftRefs : Asks(kind, g, f, d)
    BY <1>4, <1>t DEF Asks, WindowIs
  <1>5. CASE CloseFlushed
    BY <1>5
  <1>6. CASE SentCleared /\ send'.phase = "repersisting"
    BY <1>2, <1>6, RepersistsIs DEF Repersists
  <1>7. CASE (SendAccepted \/ SentDraftHandled) /\ send'.phase = "clearing"
    BY <1>2, <1>7, CleansIs DEF Cleans
  <1>8. CASE SendAccepted /\ send'.phase = "deleting"
    BY <1>2, <1>8, DeletingIs
  <1>9. CASE \/ (\E f \in {Blank, compose_generation + 1} : Edit(f))
             \/ Clears \/ Replaces \/ (\E f \in Texts, d \in DraftRefs, g \in Generations : Sends(f, d, g))
             \/ Reconciles \/ (\E f \in Texts, d \in DraftRefs : Saves(f, d)) \/ AcceptDelete \/ CaptureFires
    BY <1>2, <1>9 DEF Edit, Clears, Replaces, Sends, Reconciles, Saves, AcceptDelete, CaptureFires
  <1>10. CASE \/ (MainLoop /\ DebounceFires /\ UNCHANGED composerVars) \/ RecoveryWriter
              \/ (\E w \in workers : ReceiveResult(w)) \/ CallbacksDone \/ ComposerCleared
              \/ (SaveBoundaryFlushed /\ outcome = "ok")
    BY <1>2, <1>10 DEF RecoveryWriter, composerVars, ReceiveResult, CallbacksDone, ComposerCleared, SaveBoundaryFlushed
  <1>11. CASE TransportAccepts \/ TransportRefuses \/ (\E ok \in BOOLEAN : SentDraftDelete(ok))
    BY <1>2, <1>11 DEF TransportAccepts, TransportRefuses, SentDraftDelete, SendWorkerStep
  <1>12. CASE \/ SaveWritesDraft \/ SaveWriteFails \/ SaveDeletesPrevious
              \/ (\E ok \in BOOLEAN : SaveRollsBack(ok)) \/ (\E ok \in BOOLEAN : DeleteSource(ok))
              \/ SaveSucceeded \/ DeleteSucceeded
    BY <1>2, <1>12 DEF SaveWritesDraft, SaveWriteFails, SaveDeletesPrevious, SaveRollsBack, DeleteSource,
         SaveSucceeded, DeleteSucceeded, SaveWorkerStep
  <1> QED
    BY <1>1, <1>3, <1>4, <1>5, <1>6, <1>7, <1>8, <1>9, <1>10, <1>11, <1>12 DEF Step

LEMMA CloseMoves ==
  ASSUME Base, Registered, Step, NEW cb \in All, cb \in All'
  PROVE  CloseLinked(cb, window')
  <1>t. window \in WindowIs /\ delivering \subseteq FlushCallbacks
    BY BaseIs
  <1>w. WriterStep
    BY Writes
  <1>1. CASE window.close_flush => window'.close_flush
    BY <1>1 DEF Registered, Linked, CloseLinked
  <1>2. CASE CloseFlushed
    <2>1. finishing /\ delivering # {} /\ delivering' = delivering \ {First} /\ First.op = "close"
      BY <1>2 DEF CloseFlushed, Callback
    <2>2. First \in All /\ cb # First
      BY <2>1, <1>w, RunOnce DEF Registered
    <2>3. cb.op # "close"
      BY <2>1, <2>2 DEF Registered, Once, SameActivity
    <2> QED
      BY <2>3 DEF CloseLinked
  <1> QED
    BY <1>1, <1>2, WindowMoves

(* A new callback belongs to the activity that its step starts or goes on with. *)
LEMMA NewLinked ==
  ASSUME Base, Registered, NEW g \in Generations, NEW a \in RecoveryAction, NEW op \in FlushOps, FlushStep(g, a, op)
  PROVE  LET n == NewCallback(op, g)
         IN  SendLinked(n, send') /\ SaveLinked(n, save') /\ CloseLinked(n, window')
  <1>t. send \in SendIs /\ save \in SaveIs /\ window \in WindowIs
    BY BaseIs, RecordedIs
  <1> DEFINE n == NewCallback(op, g)
  <1>n. n.op = op /\ n.generation = g
    BY NewIs
  <1> HIDE DEF n
  <1>f. FlushThen(g, a, op) /\ Origin(g, a, op)
    BY DEF FlushStep
  <1>1. SendLinked(n, send')
    <2>1. CASE op = "send"
      <3>1. PICK f \in Texts, d \in DraftRefs : Sends(f, d, g)
        BY <2>1, <1>f DEF Origin
      <3>2. send' = [phase |-> "flushing", generation |-> g, fields |-> f, draft |-> d]
        BY <3>1 DEF Sends, StartCapturedSend
      <3> QED
        BY <2>1, <3>2, <1>n DEF SendLinked
    <2>2. CASE op = "sent clear"
      <3>1. send' = [send EXCEPT !.phase = "clearing"]
        BY <2>2, <1>f, CleansIs DEF Origin
      <3> QED
        BY <2>2, <3>1, <1>n, <1>t DEF SendLinked, SendIs
    <2>3. CASE op = "sent repersist"
      <3>1. send' = [send EXCEPT !.phase = "repersisting"]
        BY <2>3, <1>f, RepersistsIs DEF Origin
      <3> QED
        BY <2>3, <3>1, <1>n, <1>t DEF SendLinked, SendIs
    <2> QED
      BY <2>1, <2>2, <2>3, <1>n DEF SendLinked
  <1>2. SaveLinked(n, save')
    <2>1. CASE op = "save boundary"
      <3>1. PICK f \in Texts, d \in DraftRefs : Saves(f, d)
        BY <2>1, <1>f DEF Origin
      <3>2. save' = [NoSave EXCEPT !.phase = "boundary", !.fields = f, !.draft = d]
        BY <3>1 DEF Saves, StartCapturedSave
      <3> QED
        BY <2>1, <3>2, <1>n DEF SaveLinked, NoSave
    <2>2. CASE op = "save updated"
      <3>1. save' = [save EXCEPT !.phase = "updating"]
        BY <2>2, <1>f DEF Origin, SaveSucceeded
      <3> QED
        BY <2>2, <3>1, <1>n, <1>t DEF SaveLinked, SaveIs
    <2>3. CASE op = "reconciled"
      <3>1. save' = [NoSave EXCEPT !.phase = "reconciling"]
        BY <2>3, <1>f DEF Origin, Reconciles
      <3> QED
        BY <2>3, <3>1, <1>n, <1>t DEF SaveLinked, NoSave
    <2>4. CASE op \in {"delete cleared", "delete updated"}
      <3>1. save' = [save EXCEPT !.phase = "delete updating"]
        BY <2>4, <1>f DEF Origin, DeleteSucceeded
      <3> QED
        BY <2>4, <3>1, <1>n, <1>t DEF SaveLinked, SaveIs
    <2> QED
      BY <2>1, <2>2, <2>3, <2>4, <1>n DEF SaveLinked
  <1>3. CloseLinked(n, window')
    <2>1. CASE op = "close"
      <3>1. CASE ~window.close_flush /\ Closes
        BY <3>1, <1>t DEF Closes, CloseLinked, WindowIs
      <3>2. CASE ~window.close_flush /\ Ends
        <4>1. CloseAfterActivity(fields', active_draft', compose_generation')
          BY <3>2 DEF Ends
        <4>2. NoFlush \/ window'.close_flush
          BY <4>1, <1>t, AfterActivity
        <4>3. ~NoFlush
          BY <1>f, NewIs DEF FlushThen, FlushBoundary, NoFlush
        <4> QED
          BY <4>2, <4>3 DEF CloseLinked
      <3>3. CASE CloseFlushed
        <4>1. window' = window
          <5>1. ~NoFlush
            BY <1>f, NewIs DEF FlushThen, FlushBoundary, NoFlush
          <5> QED
            BY <3>3, <5>1 DEF CloseFlushed
        <4>2. First \in All /\ First.op = "close"
          <5>1. First \in delivering /\ First.op = "close"
            BY <3>3, FirstIs, BaseIs DEF CloseFlushed, Callback
          <5> QED
            BY <5>1 DEF All
        <4> QED
          BY <4>1, <4>2 DEF Registered, Linked, CloseLinked
      <3> QED
        BY <2>1, <3>1, <3>2, <3>3, <1>f DEF Origin
    <2> QED
      BY <2>1, <1>n DEF CloseLinked
  <1> QED
    BY <1>1, <1>2, <1>3 DEF n

(* Nothing else waits for the activity of a new callback. *)
LEMMA NewAlone ==
  ASSUME Base, Registered, Step, NEW g \in Generations, NEW a \in RecoveryAction, NEW op \in FlushOps,
         FlushStep(g, a, op), NEW cb \in All, cb \in All'
  PROVE  ~SameActivity(cb.op, op)
  <1>t. send \in SendIs /\ save \in SaveIs /\ window \in WindowIs /\ delivering \subseteq FlushCallbacks
    BY BaseIs, RecordedIs
  <1>w. WriterStep
    BY Writes
  <1>l. SendLinked(cb, send) /\ SaveLinked(cb, save) /\ CloseLinked(cb, window)
    BY DEF Registered, Linked
  <1>o. Origin(g, a, op)
    BY DEF FlushStep
  <1>f. ASSUME finishing, delivering # {}, delivering' = delivering \ {First}
        PROVE  ~SameActivity(cb.op, First.op)
    <2>1. First \in All /\ cb # First
      BY <1>f, <1>w, RunOnce DEF Registered
    <2> QED
      BY <2>1 DEF Registered, Once
  <1>1. CASE op = "send"
    <2>1. Idle
      BY <1>1, <1>o DEF Origin, Sends
    <2> QED
      BY <1>1, <2>1, <1>l DEF Idle, SendLinked, SameActivity, SendOp, SaveOp
  <1>2. CASE op = "sent clear"
    <2>1. send.phase \in {"accepted", "deleted", "kept"}
      BY <1>2, <1>o, CleansIs DEF Origin
    <2> QED
      BY <1>2, <2>1, <1>l DEF SendLinked, SameActivity, SendOp, SaveOp
  <1>3. CASE op = "sent repersist"
    <2>1. ~SameActivity(cb.op, First.op) /\ First.op = "sent clear"
      BY <1>3, <1>o, <1>f, RepersistsIs DEF Origin
    <2> QED
      BY <1>3, <2>1 DEF SameActivity, SendOp, SaveOp
  <1>4. CASE op \in {"save boundary", "reconciled"}
    <2>1. Idle
      BY <1>4, <1>o DEF Origin, Saves, Reconciles
    <2> QED
      BY <1>4, <2>1, <1>l DEF Idle, SaveLinked, SameActivity, SendOp, SaveOp
  <1>5. CASE op \in {"save updated", "delete cleared", "delete updated"}
    <2>1. save.phase \in {"saved", "deleted"}
      BY <1>5, <1>o DEF Origin, SaveSucceeded, DeleteSucceeded
    <2> QED
      BY <1>5, <2>1, <1>l DEF SaveLinked, SameActivity, SendOp, SaveOp
  <1>6. CASE op = "clear"
    BY <1>6 DEF SameActivity, SendOp, SaveOp
  <1>7. CASE op = "close"
    <2>1. CASE ~window.close_flush
      BY <1>7, <2>1, <1>l DEF CloseLinked, SameActivity, SendOp, SaveOp
    <2>2. CASE CloseFlushed
      <3>1. ~SameActivity(cb.op, First.op) /\ First.op = "close"
        BY <2>2, <1>f DEF CloseFlushed, Callback
      <3> QED
        BY <1>7, <3>1 DEF SameActivity, SendOp, SaveOp
    <2> QED
      BY <1>7, <2>1, <2>2, <1>o DEF Origin
  <1> QED
    BY <1>1, <1>2, <1>3, <1>4, <1>5, <1>6, <1>7 DEF FlushOps

LEMMA RegisteredKept ==
  ASSUME Base, Registered, Step
  PROVE  Registered'
  <1>w. WriterStep
    BY Writes
  <1>n. Numbered'
    BY <1>w, NumberedKept DEF Registered
  <1>o. \A cb \in All \cap All' : SendLinked(cb, send') /\ SaveLinked(cb, save') /\ CloseLinked(cb, window')
    BY SendMoves, SaveMoves, CloseMoves
  <1>1. CASE All' \subseteq All
    BY <1>1, <1>n, <1>o DEF Registered, Linked, Once
  <1>2. ASSUME NEW g \in Generations, NEW a \in RecoveryAction, NEW op \in FlushOps,
               FlushStep(g, a, op), All' \subseteq All \cup {NewCallback(op, g)}
        PROVE  Registered'
    <2> DEFINE n == NewCallback(op, g)
    <2>1. SendLinked(n, send') /\ SaveLinked(n, save') /\ CloseLinked(n, window') /\ n.op = op
      BY <1>2, NewLinked, NewIs
    <2>2. \A cb \in All \cap All' : ~SameActivity(cb.op, op)
      BY <1>2, NewAlone
    <2> HIDE DEF n
    <2>3. All' \subseteq All \cup {n}
      BY <1>2 DEF n
    <2>4. Linked'
      BY <2>1, <2>3, <1>o DEF Linked
    <2>5. \A p, q : SameActivity(p, q) => SameActivity(q, p)
      BY DEF SameActivity
    <2>6. Once'
      BY <2>1, <2>2, <2>3, <2>5 DEF Registered, Once
    <2> QED
      BY <2>4, <2>6, <1>n DEF Registered
  <1> QED
    BY <1>1, <1>2, <1>w, AllAre DEF Registered

LEMMA RegisteredStarts == ComposerInit => Registered
  BY DEF ComposerInit, Registered, Linked, Once, Numbered, All

--------------------------------------------------------------------------------
(* Nothing that was typed is lost. *)

Asking == confirmation # NoConfirmation

Exclusive ==
  /\ send.phase = "idle" \/ save.phase = "idle"
  /\ Asking => Idle

(* What a send, a question before one and a deletion captured is still the text. *)
SendingText == send.phase # "idle" /\ send.generation = compose_generation => fields = send.fields

AskedText ==
  confirmation.kind = "send" =>
    \/ confirmation.generation = compose_generation /\ fields = confirmation.fields
    \/ confirmation.generation # compose_generation /\ fields = Blank

AcceptedText ==
  send.phase \in {"accepted", "deleting", "deleted", "kept", "clearing", "repersisting"} => send.fields \in accepted

DeletingText ==
  save.phase \in {"deleting", "deleted"} /\ save.generation = compose_generation => fields \in given_up

Captured == SendingText /\ AskedText /\ AcceptedText /\ DeletingText

(* A callback that empties the composer it was registered for may do so. *)
Excused ==
  \A cb \in All : cb.generation = compose_generation =>
    /\ cb.op \in {"clear", "delete cleared"} => fields \in given_up
    /\ cb.op = "sent clear" => fields \in accepted

Texting == Exclusive /\ Captured /\ Excused

(* The composer's text changes only with its generation, and nothing is un-accepted. *)
LEMMA TextMoves ==
  ASSUME Base, Step
  PROVE  /\ compose_generation' = compose_generation => fields' = fields
         /\ \/ compose_generation' = compose_generation \/ fields' = Blank
            \/ \E f \in {Blank, compose_generation + 1} : Edit(f)
         /\ accepted \subseteq accepted' /\ given_up \subseteq given_up'
         /\ \/ \E f \in {Blank, compose_generation + 1} : Edit(f)
            \/ fields' = fields
            \/ fields' = Blank /\ compose_generation < compose_generation'
               /\ (Replaces \/ ComposerCleared \/ (Ends /\ Reason))
         /\ \/ compose_generation' = compose_generation
            \/ \E f \in {Blank, compose_generation + 1} : Edit(f)
            \/ EmptyComposer /\ (Replaces \/ ComposerCleared \/ (Ends /\ Reason))
  <1>t. compose_generation \in Generations /\ compose_generation \in Nat
    BY BaseIs, TextsAre DEF Texted
  <1>k. KeepComposer => fields' = fields /\ compose_generation' = compose_generation
    BY DEF KeepComposer
  <1>e. EmptyComposer => fields' = Blank /\ compose_generation < compose_generation' /\ compose_generation' \in Nat
    BY <1>t, EmptyIs, TextsAre
  <1>1. CASE \E f \in {Blank, compose_generation + 1} : Edit(f)
    <2>1. compose_generation' = compose_generation + 1 /\ UNCHANGED <<accepted, given_up>>
      BY <1>1 DEF Edit
    <2> QED
      BY <1>1, <2>1, <1>t
  <1>s. CASE fields' = fields /\ compose_generation' = compose_generation /\ UNCHANGED <<accepted, given_up>>
    BY <1>s
  <1>2. CASE \/ (\E kind \in Questions, g \in Generations, f \in Texts, d \in DraftRefs : Asks(kind, g, f, d))
             \/ (\E f \in Texts, d \in DraftRefs, g \in Generations : Sends(f, d, g))
             \/ Reconciles \/ (\E f \in Texts, d \in DraftRefs : Saves(f, d))
             \/ Hides \/ Closes \/ Present \/ Reject \/ CaptureFires
    BY <1>2, <1>s, <1>k DEF Asks, Sends, Reconciles, Saves, Hides, Closes, Present, Reject, CaptureFires, Quiet
  <1>3. CASE Clears \/ AcceptDelete
    <2>1. fields' = fields /\ compose_generation' = compose_generation /\ UNCHANGED accepted /\ given_up \subseteq given_up'
      BY <1>3, <1>k DEF Clears, ClearNow, Quiet, AcceptDelete, AcceptConfirmation
    <2> QED
      BY <2>1
  <1>4. CASE Replaces
    <2>1. EmptyComposer /\ UNCHANGED accepted /\ given_up \subseteq given_up'
      BY <1>4 DEF Replaces, ReplaceNow, Quiet
    <2> QED
      BY <1>4, <2>1, <1>e, <1>t
  <1>5. CASE \/ (MainLoop /\ DebounceFires /\ UNCHANGED composerVars) \/ RecoveryWriter
             \/ (\E w \in workers : ReceiveResult(w)) \/ CallbacksDone
    BY <1>5, <1>s DEF RecoveryWriter, composerVars, ReceiveResult, CallbacksDone
  <1>6. CASE SendFlushed \/ CloseFlushed \/ (SaveBoundaryFlushed /\ outcome = "ok")
    BY <1>6, <1>s, <1>k DEF SendFlushed, CloseFlushed, SaveBoundaryFlushed, Callback
  <1>7. CASE ComposerCleared
    <2>1. (EmptyComposer \/ KeepComposer) /\ UNCHANGED <<accepted, given_up>>
      BY <1>7 DEF ComposerCleared, Callback
    <2> QED
      BY <1>7, <2>1, <1>e, <1>k, <1>s, <1>t
  <1>8. CASE Ends
    <2>1. /\ UNCHANGED <<accepted, given_up>>
          /\ (fields' = fields /\ compose_generation' = compose_generation) \/ (EmptyComposer /\ Reason)
      BY <1>8, <1>k DEF Ends
    <2> QED
      BY <1>8, <2>1, <1>e, <1>s, <1>t
  <1>9. CASE SentCleared /\ send'.phase = "repersisting"
    BY <1>9, <1>s, <1>k, RepersistsIs DEF Repersists
  <1>10. CASE (SendAccepted \/ SentDraftHandled) /\ send'.phase = "clearing"
    BY <1>10, <1>s, CleansIs DEF Cleans
  <1>11. CASE SendAccepted /\ send'.phase = "deleting"
    BY <1>11, <1>s, <1>k, DeletingIs
  <1>12. CASE TransportAccepts \/ TransportRefuses \/ (\E ok \in BOOLEAN : SentDraftDelete(ok))
    <2>1. fields' = fields /\ compose_generation' = compose_generation /\ UNCHANGED given_up /\ accepted \subseteq accepted'
      BY <1>12, <1>k DEF TransportAccepts, TransportRefuses, SentDraftDelete, SendWorkerStep
    <2> QED
      BY <2>1
  <1>13. CASE \/ SaveWritesDraft \/ SaveWriteFails \/ SaveDeletesPrevious
              \/ (\E ok \in BOOLEAN : SaveRollsBack(ok)) \/ (\E ok \in BOOLEAN : DeleteSource(ok))
              \/ SaveSucceeded \/ DeleteSucceeded
    BY <1>13, <1>s, <1>k DEF SaveWritesDraft, SaveWriteFails, SaveDeletesPrevious, SaveRollsBack, DeleteSource,
         SaveSucceeded, DeleteSucceeded, SaveWorkerStep, SavePoll
  <1> QED
    BY <1>1, <1>2, <1>3, <1>4, <1>5, <1>6, <1>7, <1>8, <1>9, <1>10, <1>11, <1>12, <1>13 DEF Step

AfterAcceptance == {"accepted", "deleting", "deleted", "kept", "clearing", "repersisting"}

SendGoes ==
  /\ send.phase # "idle" /\ save' = save /\ confirmation' = confirmation
  /\ send.phase = "flushing" => SendFlushed
  /\ \E p \in SendPhases \ {"idle"} :
       /\ send' = [send EXCEPT !.phase = p]
       /\ p \in AfterAcceptance => send.phase \in AfterAcceptance \/ TransportAccepts

SaveGoes ==
  /\ save.phase \in {"boundary", "writing", "replacing", "saved", "deleting", "deleted"}
  /\ send' = send /\ confirmation' = confirmation
  /\ save'.phase # "idle" /\ save'.generation = save.generation /\ save'.fields = save.fields
  /\ save'.phase \in {"writing", "replacing", "saved"} =>
       save.phase \in {"writing", "replacing"} \/ (SaveBoundaryFlushed /\ outcome = "ok")
  /\ save'.phase \in {"deleting", "deleted"} => save.phase = "deleting"

(* What a step does to the activities and to the question. *)
LEMMA Ways ==
  ASSUME Base, Registered, Step
  PROVE  \/ send' = send /\ save' = save /\ confirmation' \in {confirmation, NoConfirmation}
         \/ \E kind \in Questions, g \in Generations, f \in Texts, d \in DraftRefs : Asks(kind, g, f, d)
         \/ \E f \in Texts, d \in DraftRefs, g \in Generations : Sends(f, d, g)
         \/ \E f \in Texts, d \in DraftRefs : Saves(f, d)
         \/ Reconciles \/ AcceptDelete \/ Ends \/ SendGoes \/ SaveGoes
         \/ send.phase = "flushing" /\ send' = NoSend /\ save' = save /\ confirmation' = confirmation
  <1>t. send \in SendIs /\ save \in SaveIs /\ delivering \subseteq FlushCallbacks
    BY BaseIs, RecordedIs
  <1>s. CASE send' = send /\ save' = save /\ confirmation' \in {confirmation, NoConfirmation}
    BY <1>s
  <1>g. CASE SendGoes \/ SaveGoes
    BY <1>g
  <1>1. CASE \/ (\E kind \in Questions, g \in Generations, f \in Texts, d \in DraftRefs : Asks(kind, g, f, d))
             \/ (\E f \in Texts, d \in DraftRefs, g \in Generations : Sends(f, d, g))
             \/ (\E f \in Texts, d \in DraftRefs : Saves(f, d))
             \/ Reconciles \/ AcceptDelete \/ Ends
    BY <1>1
  <1>2. CASE \/ (\E f \in {Blank, compose_generation + 1} : Edit(f))
             \/ Clears \/ Replaces \/ Hides \/ Closes \/ Present \/ Reject \/ CaptureFires
    BY <1>2, <1>s DEF Edit, Clears, Replaces, Hides, Closes, Present, Reject, CaptureFires
  <1>3. CASE \/ (MainLoop /\ DebounceFires /\ UNCHANGED composerVars) \/ RecoveryWriter
             \/ (\E w \in workers : ReceiveResult(w)) \/ CallbacksDone
    BY <1>3, <1>s DEF RecoveryWriter, composerVars, ReceiveResult, CallbacksDone
  <1>4. CASE ComposerCleared \/ CloseFlushed
    BY <1>4, <1>s DEF ComposerCleared, CloseFlushed
  <1>5. CASE SentCleared /\ send'.phase = "repersisting"
    <2>1. First \in All /\ First.op = "sent clear"
      BY <1>5, <1>t, RepersistsIs, FirstIs DEF Repersists, All
    <2>2. send.phase = "clearing"
      BY <2>1 DEF Registered, Linked, SendLinked
    <2>3. send' = [send EXCEPT !.phase = "repersisting"] /\ save' = save /\ confirmation' = confirmation
      BY <1>5, RepersistsIs DEF Repersists
    <2> QED
      BY <2>2, <2>3, <1>g DEF SendGoes, SendPhases, AfterAcceptance
  <1>6. CASE (SendAccepted \/ SentDraftHandled) /\ send'.phase = "clearing"
    BY <1>6, <1>g, CleansIs DEF Cleans, SendGoes, SendPhases, AfterAcceptance
  <1>7. CASE SendAccepted /\ send'.phase = "deleting"
    BY <1>7, <1>g, DeletingIs DEF SendGoes, SendPhases, AfterAcceptance
  <1>8. CASE TransportAccepts \/ TransportRefuses \/ (\E ok \in BOOLEAN : SentDraftDelete(ok))
    <2>1. send.phase \in {"transport", "deleting"} /\ save' = save /\ confirmation' = confirmation
      BY <1>8 DEF TransportAccepts, TransportRefuses, SentDraftDelete, SendWorkerStep
    <2>2. \E p \in {"accepted", "refused", "deleted", "kept"} :
            /\ send' = [send EXCEPT !.phase = p]
            /\ p \in AfterAcceptance => send.phase \in AfterAcceptance \/ TransportAccepts
      BY <1>8 DEF TransportAccepts, TransportRefuses, SentDraftDelete, AfterAcceptance
    <2> QED
      BY <2>1, <2>2, <1>g DEF SendGoes, SendPhases
  <1>9. CASE SendFlushed
    <2>0. First \in All /\ First.op = "send"
      BY <1>9, <1>t, FirstIs DEF SendFlushed, Callback, All
    <2>1. send.phase = "flushing"
      BY <2>0 DEF Registered, Linked, SendLinked
    <2>2. save' = save /\ confirmation' = confirmation /\ (send' = NoSend \/ send' = [send EXCEPT !.phase = "transport"])
      BY <1>9 DEF SendFlushed
    <2>3. "transport" \in SendPhases \ {"idle"} /\ "transport" \notin AfterAcceptance
      BY DEF SendPhases, AfterAcceptance
    <2> QED
      BY <2>1, <2>2, <2>3, <1>9, <1>g DEF SendGoes
  <1>10. CASE SaveBoundaryFlushed /\ outcome = "ok"
    <2>1. First \in All /\ First.op = "save boundary"
      BY <1>10, <1>t, FirstIs DEF SaveBoundaryFlushed, Callback, All
    <2>2. save.phase = "boundary"
      BY <2>1 DEF Registered, Linked, SaveLinked
    <2>3. send' = send /\ save' = [save EXCEPT !.phase = "writing"] /\ confirmation' = confirmation
      BY <1>10 DEF SaveBoundaryFlushed
    <2> QED
      BY <1>10, <2>2, <2>3, <1>t, <1>g DEF SaveGoes, SaveIs
  <1>11. CASE SaveWritesDraft
    <2>1. send' = send /\ confirmation' = confirmation /\ save.phase = "writing"
      BY <1>11 DEF SaveWritesDraft, SaveWorkerStep
    <2>2. \E p \in {"saved", "replacing"} : \E n : save' = SaveAs(p, n)
      BY <1>11 DEF SaveWritesDraft, SaveAs
    <2> QED
      BY <2>1, <2>2, <1>t, <1>g DEF SaveGoes, SaveIs, SaveAs
  <1>12. CASE \/ SaveWriteFails \/ SaveDeletesPrevious
              \/ (\E ok \in BOOLEAN : SaveRollsBack(ok)) \/ (\E ok \in BOOLEAN : DeleteSource(ok))
    <2>1. send' = send /\ confirmation' = confirmation /\ save.phase \in {"writing", "replacing", "deleting"}
      BY <1>12 DEF SaveWriteFails, SaveDeletesPrevious, SaveRollsBack, DeleteSource, SaveWorkerStep
    <2>2. \E p \in {"failed", "saved", "deleted"} :
            /\ save' = [save EXCEPT !.phase = p]
            /\ (p = "deleted" => save.phase = "deleting") /\ (p = "saved" => save.phase = "replacing")
      BY <1>12 DEF SaveWriteFails, SaveDeletesPrevious, SaveRollsBack, DeleteSource
    <2> QED
      BY <2>1, <2>2, <1>t, <1>g DEF SaveGoes, SaveIs
  <1>13. CASE SaveSucceeded \/ DeleteSucceeded
    <2>1. send' = send /\ confirmation' = confirmation /\ save.phase \in {"saved", "deleted"}
      BY <1>13 DEF SaveSucceeded, DeleteSucceeded, SavePoll
    <2>2. \E p \in {"updating", "delete updating"} : save' = [save EXCEPT !.phase = p]
      BY <1>13 DEF SaveSucceeded, DeleteSucceeded
    <2> QED
      BY <2>1, <2>2, <1>t, <1>g DEF SaveGoes, SaveIs
  <1> QED
    BY <1>1, <1>2, <1>3, <1>4, <1>5, <1>6, <1>7, <1>8, <1>9, <1>10, <1>11, <1>12, <1>13 DEF Step

LEMMA TextingKept ==
  ASSUME Base, Registered, Texting, Step
  PROVE  Texting'
  <1>t. /\ confirmation \in QuestionIs /\ send \in SendIs /\ save \in SaveIs
        /\ send.generation <= compose_generation /\ save.generation <= compose_generation
        /\ confirmation.generation <= compose_generation
        /\ send.generation \in Nat /\ save.generation \in Nat /\ confirmation.generation \in Nat
        /\ compose_generation \in Nat /\ delivering \subseteq FlushCallbacks
        /\ \A cb \in All : cb.generation <= compose_generation
    BY BaseIs, RecordedIs, TextsAre DEF Texted, QuestionIs, SendIs, SaveIs
  <1>w. WriterStep
    BY Writes
  <1>g. compose_generation <= compose_generation' /\ compose_generation' \in Nat
    BY <1>w, StepTyped, TextsAre DEF WriterStep, Texted
  <1>x. Exclusive /\ SendingText /\ AskedText /\ AcceptedText /\ DeletingText /\ Excused
    BY DEF Texting, Captured
  <1>m. /\ compose_generation' = compose_generation => fields' = fields
        /\ \/ compose_generation' = compose_generation \/ fields' = Blank
           \/ \E f \in {Blank, compose_generation + 1} : Edit(f)
        /\ accepted \subseteq accepted' /\ given_up \subseteq given_up'
    BY TextMoves
  <1>o. ASSUME NEW g \in Nat, g = compose_generation', g <= compose_generation
        PROVE  g = compose_generation /\ compose_generation' = compose_generation /\ fields' = fields
    BY <1>o, <1>g, <1>m, <1>t
  <1>n. /\ NoSend.phase = "idle" /\ NoSave.phase = "idle" /\ NoSave.generation = 0
        /\ NoConfirmation.kind = "none"
    BY NothingIs
  <1>q. ASSUME NEW kind \in Questions, NEW g \in Generations, NEW f \in Texts, NEW d \in DraftRefs,
               Asks(kind, g, f, d)
        PROVE  Exclusive' /\ SendingText' /\ AskedText' /\ AcceptedText' /\ DeletingText'
    <2>1. /\ Idle /\ send' = send /\ save' = save /\ compose_generation' = compose_generation /\ fields' = fields
          /\ confirmation' = [kind |-> kind, generation |-> g, fields |-> f, draft |-> d]
          /\ kind = "send" => g = compose_generation /\ f = fields
      BY <1>q DEF Asks, KeepComposer
    <2> QED
      BY <2>1 DEF Exclusive, SendingText, AskedText, AcceptedText, DeletingText, Idle
  <1>s. ASSUME NEW f \in Texts, NEW d \in DraftRefs, NEW g \in Generations, Sends(f, d, g)
        PROVE  Exclusive' /\ SendingText' /\ AskedText' /\ AcceptedText' /\ DeletingText'
    <2>1. /\ Idle /\ save' = save /\ compose_generation' = compose_generation /\ fields' = fields
          /\ send' = [phase |-> "flushing", generation |-> g, fields |-> f, draft |-> d]
          /\ confirmation' = NoConfirmation
          /\ \/ f = fields
             \/ confirmation.kind = "send" /\ f = confirmation.fields /\ g = confirmation.generation
      BY <1>s DEF Sends, StartCapturedSend, KeepComposer
    <2>2. g = compose_generation => f = fields
      BY <2>1, <1>x DEF AskedText
    <2> QED
      BY <2>1, <2>2, <1>n DEF Exclusive, SendingText, AskedText, AcceptedText, DeletingText, Idle, Asking
  <1>a. ASSUME AcceptDelete
        PROVE  Exclusive' /\ SendingText' /\ AskedText' /\ AcceptedText' /\ DeletingText'
    <2>1. /\ Idle /\ send' = send /\ compose_generation' = compose_generation /\ fields' = fields
          /\ save' = [NoSave EXCEPT !.phase = "deleting", !.generation = compose_generation, !.draft = confirmation.draft]
          /\ confirmation' = NoConfirmation /\ fields \in given_up'
      BY <1>a DEF AcceptDelete, AcceptConfirmation, OperationAllowed, StartDelete, KeepComposer, Idle
    <2> QED
      BY <2>1, <1>n DEF Exclusive, SendingText, AskedText, AcceptedText, DeletingText, Idle, Asking
  <1>v. ASSUME Reconciles \/ (\E f \in Texts, d \in DraftRefs : Saves(f, d))
        PROVE  Exclusive' /\ SendingText' /\ AskedText' /\ AcceptedText' /\ DeletingText'
    <2>1. Idle /\ send' = send /\ confirmation' = NoConfirmation
      BY <1>v DEF Reconciles, Saves
    <2>2. save'.phase \in {"reconciling", "boundary"}
      <3>1. ASSUME NEW f, NEW d, save' = [NoSave EXCEPT !.phase = "boundary", !.fields = f, !.draft = d]
            PROVE  save'.phase = "boundary"
        BY <3>1 DEF NoSave
      <3>2. CASE Reconciles
        BY <3>2 DEF Reconciles, NoSave
      <3> QED
        BY <1>v, <3>1, <3>2 DEF Saves, StartCapturedSave
    <2> QED
      BY <2>1, <2>2, <1>n DEF Exclusive, SendingText, AskedText, AcceptedText, DeletingText, Idle, Asking
  <1>e. ASSUME Ends
        PROVE  Exclusive' /\ SendingText' /\ AskedText' /\ AcceptedText' /\ DeletingText'
    <2>1. /\ \/ send.phase # "idle" /\ send' = NoSend /\ save' = save
             \/ save.phase # "idle" /\ save' = NoSave /\ send' = send
          /\ confirmation' = confirmation \/ confirmation' = [NoConfirmation EXCEPT !.kind = "close"]
      <3>1. window \in WindowIs /\ CloseAfterActivity(fields', active_draft', compose_generation')
        BY <1>e, BaseIs, EndsComposer
      <3>2. confirmation' = confirmation \/ confirmation' = [NoConfirmation EXCEPT !.kind = "close"]
        BY <3>1, AfterActivity
      <3> QED
        BY <1>e, <3>2, EndsIs
    <2>2. ~Asking /\ confirmation'.kind \in {"none", "close"}
      BY <2>1, <1>x, <1>n DEF Exclusive, Idle, Asking, NoConfirmation
    <2>3. send'.phase = "idle" /\ save'.phase = "idle"
      BY <2>1, <1>x, <1>n DEF Exclusive
    <2> QED
      BY <2>2, <2>3 DEF Exclusive, SendingText, AskedText, AcceptedText, DeletingText, Idle, Asking, AfterAcceptance
  <1>k. ASSUME confirmation' \in {confirmation, NoConfirmation}, confirmation' = NoConfirmation \/ (send' = send /\ save' = save)
        PROVE  AskedText'
    <2>1. CASE confirmation'.kind # "send"
      BY <2>1 DEF AskedText
    <2>2. CASE confirmation'.kind = "send"
      <3>1. confirmation' = confirmation /\ Asking
        BY <2>2, <1>k, <1>n DEF Asking
      <3>2. ~(\E f \in {Blank, compose_generation + 1} : Edit(f))
        BY <3>1 DEF Edit, UserStep, Asking
      <3>3. CASE compose_generation' = compose_generation
        BY <3>1, <3>3, <1>m, <1>x DEF AskedText
      <3>4. CASE compose_generation' # compose_generation
        <4>1. fields' = Blank
          BY <3>2, <3>4, <1>m
        <4>2. confirmation'.generation # compose_generation'
          BY <3>1, <3>4, <1>t, <1>g
        <4> QED
          BY <4>1, <4>2 DEF AskedText
      <3> QED
        BY <3>3, <3>4
    <2> QED
      BY <2>1, <2>2
  <1>1. ASSUME send' = send PROVE SendingText' /\ AcceptedText'
    <2>1. SendingText'
      BY <1>1, <1>x, <1>t, <1>o DEF SendingText
    <2>2. AcceptedText'
      BY <1>1, <1>x, <1>m DEF AcceptedText
    <2> QED
      BY <2>1, <2>2
  <1>2. ASSUME save'.generation = save.generation,
               save'.phase \in {"deleting", "deleted"} => save.phase \in {"deleting", "deleted"}
        PROVE  DeletingText'
    BY <1>2, <1>x, <1>t, <1>o, <1>m DEF DeletingText
  <1>i. ASSUME send' = send /\ save' = save /\ confirmation' \in {confirmation, NoConfirmation}
        PROVE  Exclusive' /\ SendingText' /\ AskedText' /\ AcceptedText' /\ DeletingText'
    <2>1. Exclusive'
      BY <1>i, <1>x DEF Exclusive, Asking, Idle
    <2> QED
      BY <2>1, <1>i, <1>k, <1>1, <1>2
  <1>j. ASSUME SendGoes
        PROVE  Exclusive' /\ SendingText' /\ AskedText' /\ AcceptedText' /\ DeletingText'
    <2>1. /\ send.phase # "idle" /\ save' = save /\ confirmation' = confirmation
      BY <1>j DEF SendGoes
    <2>2. PICK p \in SendPhases \ {"idle"} :
            /\ send' = [send EXCEPT !.phase = p]
            /\ p \in AfterAcceptance => send.phase \in AfterAcceptance \/ TransportAccepts
      BY <1>j DEF SendGoes
    <2>3. /\ send'.phase = p /\ send'.generation = send.generation /\ send'.fields = send.fields
      BY <2>2, <1>t DEF SendIs
    <2>4. confirmation = NoConfirmation /\ save.phase = "idle"
      BY <2>1, <1>x DEF Exclusive, Asking, Idle
    <2>5. Exclusive'
      BY <2>1, <2>4 DEF Exclusive, Asking
    <2>6. SendingText'
      BY <2>1, <2>3, <1>x, <1>t, <1>o DEF SendingText
    <2>7. AcceptedText'
      <3>1. CASE p \in AfterAcceptance /\ TransportAccepts
        BY <3>1, <2>3 DEF TransportAccepts, AcceptedText
      <3>2. CASE p \in AfterAcceptance /\ send.phase \in AfterAcceptance
        BY <3>2, <2>3, <1>x, <1>m DEF AcceptedText, AfterAcceptance
      <3>3. CASE p \notin AfterAcceptance
        BY <3>3, <2>3 DEF AcceptedText, AfterAcceptance
      <3> QED
        BY <2>2, <3>1, <3>2, <3>3
    <2> QED
      BY <2>1, <2>4, <2>5, <2>6, <2>7, <1>k, <1>2
  <1>l. ASSUME SaveGoes
        PROVE  Exclusive' /\ SendingText' /\ AskedText' /\ AcceptedText' /\ DeletingText'
    <2>1. /\ save.phase # "idle" /\ send' = send /\ confirmation' = confirmation
          /\ save'.generation = save.generation
          /\ save'.phase \in {"deleting", "deleted"} => save.phase = "deleting"
      BY <1>l DEF SaveGoes
    <2>4. confirmation = NoConfirmation /\ send.phase = "idle"
      BY <2>1, <1>x DEF Exclusive, Asking, Idle
    <2>5. Exclusive'
      BY <2>1, <2>4 DEF Exclusive, Asking
    <2> QED
      BY <2>1, <2>4, <2>5, <1>k, <1>1, <1>2
  <1>p. ASSUME send.phase = "flushing" /\ send' = NoSend /\ save' = save /\ confirmation' = confirmation
        PROVE  Exclusive' /\ SendingText' /\ AskedText' /\ AcceptedText' /\ DeletingText'
    <2>4. confirmation = NoConfirmation /\ save.phase = "idle"
      BY <1>p, <1>x DEF Exclusive, Asking, Idle
    <2>5. Exclusive' /\ SendingText' /\ AcceptedText'
      BY <1>p, <2>4, <1>n DEF Exclusive, Asking, SendingText, AcceptedText
    <2> QED
      BY <1>p, <2>4, <2>5, <1>k, <1>2
  <1>z. Exclusive' /\ SendingText' /\ AskedText' /\ AcceptedText' /\ DeletingText'
    BY <1>q, <1>s, <1>a, <1>v, <1>e, <1>i, <1>j, <1>l, <1>p, Ways
  <1>c. Excused'
    <2>1. ASSUME NEW cb \in All, cb.generation = compose_generation'
          PROVE  /\ cb.op \in {"clear", "delete cleared"} => fields' \in given_up'
                 /\ cb.op = "sent clear" => fields' \in accepted'
      <3>1. cb.generation <= compose_generation /\ cb.generation \in Nat
        BY <1>t, <1>g, <2>1
      <3>2. cb.generation = compose_generation /\ fields' = fields
        BY <3>1, <2>1, <1>o
      <3> QED
        BY <3>2, <1>x, <1>m DEF Excused
    <2>2. ASSUME NEW g \in Generations, NEW a \in RecoveryAction, NEW op \in FlushOps, FlushStep(g, a, op),
                 g = compose_generation'
          PROVE  /\ op \in {"clear", "delete cleared"} => fields' \in given_up'
                 /\ op = "sent clear" => fields' \in accepted'
      <3>o. Origin(g, a, op)
        BY <2>2 DEF FlushStep
      <3>1. CASE op = "clear"
        BY <3>1, <3>o DEF Origin, Clears, ClearNow, KeepComposer
      <3>2. CASE op = "delete cleared"
        <4>1. DeleteSucceeded /\ compose_generation = save.generation
          BY <3>2, <3>o DEF Origin
        <4>2. save.phase = "deleted" /\ fields' = fields /\ given_up' = given_up
          BY <4>1 DEF DeleteSucceeded, SavePoll
        <4> QED
          BY <3>2, <4>1, <4>2, <1>x DEF DeletingText
      <3>3. CASE op = "sent clear"
        <4>1. Cleans /\ send.generation = compose_generation
          BY <3>3, <3>o DEF Origin
        <4>2. send.phase \in {"accepted", "deleted", "kept"} /\ fields' = fields /\ accepted' = accepted
          BY <4>1, CleansIs
        <4> QED
          BY <3>3, <4>1, <4>2, <1>x DEF AcceptedText, SendingText
      <3> QED
        BY <3>1, <3>2, <3>3
    <2>3. CASE All' \subseteq All
      BY <2>1, <2>3 DEF Excused
    <2>4. ASSUME NEW g \in Generations, NEW a \in RecoveryAction, NEW op \in FlushOps,
                 FlushStep(g, a, op), All' \subseteq All \cup {NewCallback(op, g)}
          PROVE  Excused'
      <3> DEFINE n == NewCallback(op, g)
      <3>1. n.op = op /\ n.generation = g
        BY NewIs
      <3> HIDE DEF n
      <3>2. All' \subseteq All \cup {n}
        BY <2>4 DEF n
      <3> QED
        BY <3>1, <3>2, <2>1, <2>2, <2>4 DEF Excused
    <2> QED
      BY <2>3, <2>4, <1>w, AllAre DEF Registered
  <1> QED
    BY <1>z, <1>c DEF Texting, Captured

LEMMA TextingStarts == ComposerInit => Texting
  BY NothingIs DEF ComposerInit, Texting, Exclusive, Asking, Idle, Captured, SendingText, AskedText, AcceptedText,
     DeletingText, Excused, All

(* The text that a step drops was accepted, given up or blank. *)
LEMMA DropsIt ==
  ASSUME Base, Registered, Texting, Step, fields' # fields, capture' # compose_generation'
  PROVE  fields \in accepted \cup given_up'
  <1>t. delivering \subseteq FlushCallbacks
    BY BaseIs
  <1>0. ~(\E f \in {Blank, compose_generation + 1} : Edit(f))
    BY DEF Edit
  <1>1. CASE Replaces
    BY <1>1 DEF Replaces, ReplaceNow
  <1>2. CASE ComposerCleared
    <2>1. First \in All /\ First.op = "clear"
      BY <1>2, <1>t, FirstIs DEF ComposerCleared, Callback, All
    <2>2. Current /\ given_up' = given_up
      BY <1>2 DEF ComposerCleared, KeepComposer, Callback
    <2> QED
      BY <2>1, <2>2 DEF Texting, Excused, Current
  <1>3. CASE Ends /\ Reason
    <2>1. First \in All /\ First.op \in {"sent clear", "delete cleared"} /\ First.generation = compose_generation
      BY <1>3, <1>t, FirstIs DEF Reason, All
    <2>2. given_up' = given_up
      BY <1>3 DEF Ends
    <2> QED
      BY <2>1, <2>2 DEF Texting, Excused
  <1> QED
    BY <1>0, <1>1, <1>2, <1>3, TextMoves

ComposerInv == Base /\ Registered /\ Texting

LEMMA ComposerStep ==
  ASSUME ComposerInv, [ComposerNext]_allVars
  PROVE  ComposerInv'
  <1>1. CASE ComposerNext
    <2>1. Step
      BY <1>1, Classified DEF ComposerInv, Base
    <2> QED
      BY <2>1, BaseKept, RegisteredKept, TextingKept DEF ComposerInv
  <1>2. CASE UNCHANGED allVars
    <2>1. UNCHANGED vars /\ UNCHANGED composerVars
      BY <1>2 DEF allVars
    <2>2. IInv'
      BY <2>1, NextIInv DEF ComposerInv, Base
    <2>3. ComposerTyped' /\ NotNewer'
      BY <2>1 DEF composerVars, ComposerInv, Base, ComposerTyped, NotNewer, All
    <2>4. Registered'
      BY <2>1 DEF vars, composerVars, ComposerInv, Registered, Linked, Once, Numbered, All
    <2>5. Texting'
      BY <2>1 DEF composerVars, ComposerInv, Texting, Exclusive, Asking, Idle, Captured, SendingText, AskedText,
         AcceptedText, DeletingText, Excused, All
    <2> QED
      BY <2>2, <2>3, <2>4, <2>5 DEF ComposerInv, Base
  <1> QED
    BY <1>1, <1>2

(***************************************************************************)
(* The handlers, timers, workers and callbacks of the composer keep its    *)
(* types and its recovery writer's invariant, answer every callback once,  *)
(* for the activity that registered it, and run one activity at a time     *)
(* over the text it captured.                                              *)
(***************************************************************************)
THEOREM ComposerInvariance == ComposerSpec => []ComposerInv
  <1>1. ComposerInit => ComposerInv
    BY BaseStarts, RegisteredStarts, TextingStarts DEF ComposerInv
  <1>2. ComposerInv /\ [ComposerNext]_allVars => ComposerInv'
    BY ComposerStep
  <1> QED
    BY <1>1, <1>2, PTL DEF ComposerSpec

(***************************************************************************)
(* A clear, a delete or a send that ends late never takes away what was    *)
(* typed meanwhile: but for the user's own edits, the composer drops a     *)
(* text only if that text was accepted, given up or saved.                 *)
(***************************************************************************)
THEOREM TypedTextKept == ComposerSpec => NothingTypedIsLost
  <1>1. ComposerInv /\ [ComposerNext]_allVars =>
          [fields' # fields /\ capture' # compose_generation'
             => fields \in accepted \cup given_up' \cup Durable \cup {Blank}]_allVars
    <2> SUFFICES ASSUME ComposerInv, ComposerNext, fields' # fields, capture' # compose_generation'
                 PROVE  fields \in accepted \cup given_up' \cup Durable \cup {Blank}
      OBVIOUS
    <2>1. Step
      BY Classified DEF ComposerInv, Base
    <2>2. fields \in accepted \cup given_up'
      BY <2>1, DropsIt DEF ComposerInv
    <2> QED
      BY <2>2
  <1> QED
    BY <1>1, ComposerInvariance, PTL DEF ComposerSpec, NothingTypedIsLost

--------------------------------------------------------------------------------
(* A draft file is deleted only when its text is of no more use. *)

Backed(d) == d = NoActiveDraft \/ [path |-> d.path, content |-> d.saved_fields] \in drafts

(* One file has one path, which the active draft knows. *)
PathsApart ==
  /\ \A d \in drafts : d.path # 0 /\ d.path <= operations
  /\ \A d, e \in drafts : d.path = e.path => d = e
  /\ active_draft.path = 0 => active_draft = NoActiveDraft

(* A question about a draft is about the active one, whose file exists. *)
AskedDraft ==
  confirmation.kind \in {"send", "save", "delete"} =>
    /\ active_draft \in {confirmation.draft, NoActiveDraft}
    /\ Backed(confirmation.draft) /\ confirmation.draft # NoActiveDraft /\ confirmation.draft.path # 0

(* The number of the user's step is no file's yet when a save is to name one. *)
NewPath ==
  confirmation.kind = "save" \/ save.phase \in {"boundary", "writing"} => \A d \in drafts : d.path < operations

SentDraft == send.phase \in {"deleting", "deleted", "kept"} => active_draft \in {send.draft, NoActiveDraft}

SavedDraft ==
  /\ save.phase \in {"boundary", "writing", "replacing", "saved", "failed", "deleting", "deleted"}
       => active_draft \in {save.draft, NoActiveDraft}
  /\ save.phase \in {"boundary", "writing", "replacing"} =>
       Backed(save.draft) /\ (save.draft.path = 0 => save.draft = NoActiveDraft)
  /\ save.phase \in {"replacing", "saved"} =>
       [path |-> save.path, content |-> save.fields] \in drafts /\ save.path # 0
  /\ save.phase = "replacing" => save.path # save.draft.path /\ save.draft # NoActiveDraft

DeletedDraft == save.phase = "deleting" => \A d \in drafts : d.path = save.draft.path => d.content \in given_up

ActiveBacked == Backed(active_draft) \/ send.phase = "deleted" \/ save.phase \in {"saved", "deleted"}

Stored == PathsApart /\ AskedDraft /\ NewPath /\ SentDraft /\ SavedDraft /\ DeletedDraft /\ ActiveBacked

LEMMA StoredSame ==
  ASSUME Base, Base', Stored, drafts' = drafts, operations <= operations', given_up \subseteq given_up',
         active_draft' \in {active_draft, NoActiveDraft},
         confirmation' = confirmation \/ confirmation'.kind \notin {"send", "save", "delete"},
         \/ send' = send
         \/ /\ send'.phase \notin {"deleting", "deleted", "kept"}
            /\ send.phase = "deleted" => active_draft' = NoActiveDraft,
         \/ save' = save
         \/ /\ save'.phase \notin {"boundary", "writing", "replacing", "saved", "failed", "deleting", "deleted"}
            /\ save.phase \in {"saved", "deleted"} => active_draft' = NoActiveDraft
  PROVE  Stored'
  <1>t. /\ operations \in Nat /\ operations' \in Nat /\ drafts \subseteq [path : Nat, content : Texts]
        /\ \A d \in drafts : d.path \in Nat
    BY DEF Base, ComposerTyped
  <1>b. \A d : Backed(d) => Backed(d)'
    BY DEF Backed
  <1>n. Backed(NoActiveDraft)' /\ NoActiveDraft.path = 0
    BY TextsAre DEF Backed
  <1>1. PathsApart'
    BY <1>t, <1>n DEF Stored, PathsApart
  <1>2. AskedDraft'
    <2>1. CASE confirmation' = confirmation
      BY <2>1, <1>b DEF Stored, AskedDraft, Backed
    <2>2. CASE confirmation'.kind \notin {"send", "save", "delete"}
      BY <2>2 DEF AskedDraft
    <2> QED
      BY <2>1, <2>2
  <1>3. NewPath'
    <2>1. CASE confirmation.kind = "save" \/ save.phase \in {"boundary", "writing"}
      <3>1. \A d \in drafts' : d.path < operations'
        BY <2>1, <1>t DEF Stored, NewPath
      <3> QED
        BY <3>1 DEF NewPath
    <2>2. CASE ~(confirmation.kind = "save" \/ save.phase \in {"boundary", "writing"})
      BY <2>2 DEF NewPath
    <2> QED
      BY <2>1, <2>2
  <1>4. SentDraft'
    BY DEF Stored, SentDraft
  <1>5. SavedDraft'
    <2>1. CASE save' = save
      BY <2>1 DEF Stored, SavedDraft, Backed
    <2>2. CASE save'.phase \notin {"boundary", "writing", "replacing", "saved", "failed", "deleting", "deleted"}
      BY <2>2 DEF SavedDraft
    <2> QED
      BY <2>1, <2>2
  <1>6. DeletedDraft'
    BY DEF Stored, DeletedDraft
  <1>7. ActiveBacked'
    <2>1. CASE active_draft' = NoActiveDraft
      BY <2>1, <1>n DEF ActiveBacked, Backed
    <2>2. CASE active_draft' = active_draft /\ active_draft' # NoActiveDraft
      BY <2>2 DEF Stored, ActiveBacked, Backed
    <2> QED
      BY <2>1, <2>2
  <1> QED
    BY <1>1, <1>2, <1>3, <1>4, <1>5, <1>6, <1>7 DEF Stored

(* Most steps leave the files alone and start nothing that is about one. *)
LEMMA StoredMost ==
  ASSUME Base, Registered, Texting, Stored, Step,
         \/ \E f \in {Blank, compose_generation + 1} : Edit(f)
         \/ Clears \/ Replaces \/ (\E f \in Texts, d \in DraftRefs, g \in Generations : Sends(f, d, g)) \/ Reconciles
         \/ Hides \/ Closes \/ Present \/ Reject \/ CaptureFires
         \/ (MainLoop /\ DebounceFires /\ UNCHANGED composerVars) \/ RecoveryWriter
         \/ (\E w \in workers : ReceiveResult(w)) \/ CallbacksDone
         \/ SendFlushed \/ ComposerCleared \/ CloseFlushed \/ Ends \/ Repersists
         \/ TransportAccepts \/ TransportRefuses \/ Cleans \/ DeleteSucceeded
  PROVE  Stored'
  <1>t. /\ operations \in Nat /\ operations <= operations /\ operations <= operations + 1 /\ send \in SendIs /\ save \in SaveIs
        /\ confirmation \in QuestionIs /\ delivering \subseteq FlushCallbacks
    BY BaseIs, RecordedIs
  <1>n. NoSend.phase = "idle" /\ NoSave.phase = "idle" /\ NoConfirmation.kind = "none"
    BY NothingIs
  <1>b. Base'
    BY BaseKept
  <1>g. given_up \subseteq given_up'
    BY TextMoves
  <1>k. /\ KeepComposer => active_draft' \in {active_draft, NoActiveDraft}
        /\ EmptyComposer => active_draft' \in {active_draft, NoActiveDraft}
    BY DEF KeepComposer, EmptyComposer
  <1>s. ASSUME drafts' = drafts, operations' \in {operations, operations + 1}, active_draft' \in {active_draft, NoActiveDraft},
               confirmation' \in {confirmation, NoConfirmation}, send' = send, save' = save
        PROVE  Stored'
    BY <1>s, <1>t, <1>n, <1>b, <1>g, StoredSame
  <1>1. CASE \E f \in {Blank, compose_generation + 1} : Edit(f)
    BY <1>1, <1>s DEF Edit, UserStep
  <1>2. CASE Clears \/ Replaces
    BY <1>2, <1>s, <1>k DEF Clears, Replaces, ReplaceNow, Quiet, Counted
  <1>3. ASSUME NEW f \in Texts, NEW d \in DraftRefs, NEW g \in Generations, Sends(f, d, g) PROVE Stored'
    <2>1. /\ send' = [phase |-> "flushing", generation |-> g, fields |-> f, draft |-> d]
          /\ Idle /\ confirmation' = NoConfirmation /\ drafts' = drafts /\ save' = save
          /\ operations' \in {operations, operations + 1} /\ active_draft' \in {active_draft, NoActiveDraft}
      BY <1>3, <1>k DEF Sends, StartCapturedSend, Quiet, Counted
    <2>2. send'.phase \notin {"deleting", "deleted", "kept"} /\ send.phase # "deleted"
      BY <2>1 DEF Idle
    <2> QED
      BY <2>1, <2>2, <1>t, <1>n, <1>b, <1>g, StoredSame
  <1>4. CASE Reconciles
    <2>1. /\ save' = [NoSave EXCEPT !.phase = "reconciling"]
          /\ Idle /\ confirmation' = NoConfirmation /\ drafts' = drafts /\ send' = send
          /\ operations' = operations + 1 /\ active_draft' \in {active_draft, NoActiveDraft}
      BY <1>4, <1>k DEF Reconciles, Quiet
    <2>2. save'.phase = "reconciling" /\ save.phase = "idle"
      BY <2>1 DEF Idle, NoSave
    <2> QED
      BY <2>1, <2>2, <1>t, <1>n, <1>b, <1>g, StoredSame
  <1>5. CASE Hides \/ Closes \/ Present \/ Reject
    BY <1>5, <1>s, <1>k DEF Hides, Closes, Present, Reject, Quiet, Counted
  <1>6. CASE CaptureFires \/ (MainLoop /\ DebounceFires /\ UNCHANGED composerVars) \/ RecoveryWriter
             \/ (\E w \in workers : ReceiveResult(w)) \/ CallbacksDone
    BY <1>6, <1>s DEF CaptureFires, RecoveryWriter, composerVars, ReceiveResult, CallbacksDone
  <1>7. CASE ComposerCleared \/ CloseFlushed
    BY <1>7, <1>s, <1>k DEF ComposerCleared, CloseFlushed, Callback
  <1>8. CASE SendFlushed
    <2>1. First \in All /\ First.op = "send"
      BY <1>8, <1>t, FirstIs DEF SendFlushed, Callback, All
    <2>2. send.phase = "flushing"
      BY <2>1 DEF Registered, Linked, SendLinked
    <2>3. /\ drafts' = drafts /\ operations' = operations /\ active_draft' \in {active_draft, NoActiveDraft}
          /\ confirmation' = confirmation /\ save' = save
          /\ send' = NoSend \/ send' = [send EXCEPT !.phase = "transport"]
      BY <1>8, <1>k DEF SendFlushed, Callback
    <2>4. send'.phase \in {"idle", "transport"}
      BY <2>3, <1>t, <1>n DEF SendIs
    <2> QED
      BY <2>2, <2>3, <2>4, <1>t, <1>b, <1>g, StoredSame
  <1>9. CASE Ends
    <2>1. /\ drafts' = drafts /\ operations' = operations
          /\ active_draft' \in {active_draft, NoActiveDraft}
      BY <1>9, <1>k DEF Ends
    <2>2. confirmation' = confirmation \/ confirmation' = [NoConfirmation EXCEPT !.kind = "close"]
      <3>1. window \in WindowIs /\ CloseAfterActivity(fields', active_draft', compose_generation')
        BY <1>9, BaseIs, EndsComposer
      <3> QED
        BY <3>1, AfterActivity
    <2>3. confirmation' = confirmation \/ confirmation'.kind \notin {"send", "save", "delete"}
      BY <2>2 DEF NoConfirmation
    <2>4. \/ send' = NoSend /\ save' = save
          \/ /\ save.phase \in {"failed", "boundary", "updating", "reconciling", "delete updating"}
             /\ save' = NoSave /\ send' = send
      BY <1>9, EndsIs
    <2>5. send' = NoSend /\ save' = save /\ send.phase = "deleted" => active_draft' = NoActiveDraft
      <3>1. SUFFICES ASSUME send' = NoSend, save' = save, send.phase = "deleted" PROVE active_draft' = NoActiveDraft
        OBVIOUS
      <3>2. save.phase = "idle" /\ ~Asking
        BY <3>1 DEF Texting, Exclusive, Idle
      <3>3. ~(finishing /\ delivering # {} /\ SendOp(First.op))
        <4>1. SUFFICES ASSUME finishing, delivering # {}, SendOp(First.op) PROVE FALSE
          OBVIOUS
        <4>2. First \in All
          BY <4>1, <1>t, FirstIs DEF All
        <4> QED
          BY <4>1, <4>2, <3>1 DEF Registered, Linked, SendLinked, SendOp
      <3>4. ~(save.phase \in {"failed", "boundary", "updating", "reconciling", "delete updating"})
        BY <3>2
      <3>5. ~finishing
        <4>1. SUFFICES ASSUME finishing PROVE FALSE
          OBVIOUS
        <4>2. delivering # {} /\ SaveOp(First.op)
          BY <4>1, <1>9, <3>3, EndsIs
        <4>3. First \in All
          BY <4>2, <1>t, FirstIs DEF All
        <4> QED
          BY <4>2, <4>3, <3>2 DEF Registered, Linked, SaveLinked, SaveOp
      <3>6. active_draft' = NoActiveDraft \/ active_draft # send.draft
        <4>1. save.phase # "failed"
          BY <3>2
        <4> QED
          BY <1>9, <3>1, <3>5, <4>1 DEF Ends
      <3>7. active_draft \in {send.draft, NoActiveDraft}
        BY <3>1 DEF Stored, SentDraft
      <3> QED
        BY <3>6, <3>7, <2>1
    <2>6. CASE send' = NoSend /\ save' = save
      BY <2>6, <2>1, <2>3, <2>5, <1>t, <1>n, <1>b, <1>g, StoredSame
    <2>7. CASE /\ save.phase \in {"failed", "boundary", "updating", "reconciling", "delete updating"}
               /\ save' = NoSave /\ send' = send
      BY <2>7, <2>1, <2>3, <1>t, <1>n, <1>b, <1>g, StoredSame
    <2> QED
      BY <2>4, <2>6, <2>7
  <1>10. CASE Repersists
    <2>1. First \in All /\ First.op = "sent clear"
      BY <1>10, <1>t, FirstIs, RepersistsIs DEF All
    <2>2. send.phase = "clearing"
      BY <2>1 DEF Registered, Linked, SendLinked
    <2>3. /\ drafts' = drafts /\ operations' = operations /\ active_draft' \in {active_draft, NoActiveDraft}
          /\ confirmation' = confirmation /\ save' = save /\ send' = [send EXCEPT !.phase = "repersisting"]
      BY <1>10, <1>k, RepersistsIs
    <2>4. send'.phase = "repersisting"
      BY <2>3, <1>t DEF SendIs
    <2> QED
      BY <2>2, <2>3, <2>4, <1>t, <1>b, <1>g, StoredSame
  <1>11. CASE TransportAccepts \/ TransportRefuses
    <2>1. /\ drafts' = drafts /\ operations' = operations /\ active_draft' \in {active_draft, NoActiveDraft}
          /\ confirmation' = confirmation /\ save' = save /\ send.phase = "transport"
          /\ \E p \in {"accepted", "refused"} : send' = [send EXCEPT !.phase = p]
      BY <1>11, <1>k DEF TransportAccepts, TransportRefuses, SendWorkerStep
    <2>4. send'.phase \in {"accepted", "refused"}
      BY <2>1, <1>t DEF SendIs
    <2> QED
      BY <2>1, <2>4, <1>t, <1>b, <1>g, StoredSame
  <1>12. CASE Cleans
    <2>1. /\ drafts' = drafts /\ operations' = operations /\ active_draft' \in {active_draft, NoActiveDraft}
          /\ confirmation' = confirmation /\ save' = save /\ send' = [send EXCEPT !.phase = "clearing"]
          /\ send.phase = "deleted" => active_draft' = NoActiveDraft \/ active_draft # send.draft
      BY <1>12, CleansIs
    <2>2. send'.phase = "clearing"
      BY <2>1, <1>t DEF SendIs
    <2>3. send.phase = "deleted" => active_draft' = NoActiveDraft
      BY <2>1 DEF Stored, SentDraft
    <2> QED
      BY <2>1, <2>2, <2>3, <1>t, <1>b, <1>g, StoredSame
  <1>13. CASE DeleteSucceeded
    <2>1. /\ drafts' = drafts /\ operations' = operations /\ send' = send /\ confirmation' = confirmation
          /\ save.phase = "deleted" /\ save' = [save EXCEPT !.phase = "delete updating"]
      BY <1>13 DEF DeleteSucceeded, SavePoll
    <2>2. active_draft' = IF active_draft = save.draft THEN NoActiveDraft ELSE active_draft
      BY <1>13 DEF DeleteSucceeded
    <2>3. active_draft' = NoActiveDraft
      BY <2>1, <2>2 DEF Stored, SavedDraft
    <2>4. save'.phase = "delete updating"
      BY <2>1, <1>t DEF SaveIs
    <2> QED
      BY <2>1, <2>3, <2>4, <1>t, <1>b, <1>g, StoredSame
  <1> QED
    BY <1>1, <1>2, <1>3, <1>4, <1>5, <1>6, <1>7, <1>8, <1>9, <1>10, <1>11, <1>12, <1>13

LEMMA SameFiles ==
  ASSUME Base, Base', Stored, drafts' = drafts, operations <= operations', active_draft' = active_draft
  PROVE  PathsApart' /\ \A d : Backed(d) => Backed(d)'
  <1>t. operations \in Nat /\ operations' \in Nat /\ \A d \in drafts : d.path \in Nat
    BY DEF Base, ComposerTyped
  <1> QED
    BY <1>t DEF Stored, PathsApart, Backed

LEMMA StoredAsks ==
  ASSUME Base, Stored, Step, NEW kind \in Questions, NEW g \in Generations, NEW f \in Texts, NEW d \in DraftRefs,
         Asks(kind, g, f, d)
  PROVE  Stored'
  <1>b. Base' /\ operations \in Nat /\ operations <= operations + 1 /\ \A e \in drafts : e.path \in Nat
    BY BaseKept DEF Base, ComposerTyped
  <1>1. /\ Idle /\ drafts' = drafts /\ operations' = operations + 1 /\ active_draft' = active_draft
        /\ send' = send /\ save' = save /\ given_up' = given_up
        /\ confirmation' = [kind |-> kind, generation |-> g, fields |-> f, draft |-> d]
        /\ kind \in {"send", "save", "delete"} => active_draft # NoActiveDraft /\ d = active_draft
    BY DEF Asks, KeepComposer, Quiet
  <1>2. PathsApart' /\ \A e : Backed(e) => Backed(e)'
    BY <1>1, <1>b, SameFiles
  <1>3. Backed(active_draft)
    BY <1>1 DEF Stored, ActiveBacked, Idle
  <1>4. AskedDraft'
    BY <1>1, <1>2, <1>3 DEF AskedDraft, Stored, PathsApart
  <1>5. NewPath'
    <2>1. \A e \in drafts' : e.path < operations'
      BY <1>1, <1>b DEF Stored, PathsApart
    <2> QED
      BY <2>1 DEF NewPath
  <1>6. SentDraft' /\ SavedDraft' /\ DeletedDraft'
    BY <1>1 DEF SentDraft, SavedDraft, DeletedDraft, Idle
  <1>7. ActiveBacked'
    BY <1>1, <1>2, <1>3 DEF ActiveBacked, Backed
  <1> QED
    BY <1>2, <1>4, <1>5, <1>6, <1>7 DEF Stored

LEMMA StoredSaves ==
  ASSUME Base, Stored, Step, NEW f \in Texts, NEW d \in DraftRefs, Saves(f, d)
  PROVE  Stored'
  <1>b. /\ Base' /\ operations \in Nat /\ operations <= operations /\ operations <= operations + 1
        /\ \A e \in drafts : e.path \in Nat
    BY BaseKept DEF Base, ComposerTyped
  <1>1. /\ Idle /\ drafts' = drafts /\ operations' \in {operations, operations + 1} /\ active_draft' = active_draft
        /\ send' = send /\ confirmation' = NoConfirmation
        /\ save' = [NoSave EXCEPT !.phase = "boundary", !.fields = f, !.draft = d]
    BY DEF Saves, StartCapturedSave, KeepComposer, Quiet
  <1>2. PathsApart' /\ \A e : Backed(e) => Backed(e)'
    BY <1>1, <1>b, SameFiles
  <1>3. Backed(active_draft)
    BY <1>1 DEF Stored, ActiveBacked, Idle
  <1>s. save'.phase = "boundary" /\ save'.draft = d /\ confirmation'.kind = "none"
    BY <1>1, NothingIs DEF NoSave
  <1>4. active_draft \in {d, NoActiveDraft} /\ Backed(d) /\ (d.path = 0 => d = NoActiveDraft)
        /\ \A e \in drafts' : e.path < operations'
    <2>1. CASE /\ confirmation = NoConfirmation /\ active_draft = NoActiveDraft /\ d = NoActiveDraft
               /\ operations' = operations + 1
      BY <2>1, <1>1, <1>b DEF Backed, Stored, PathsApart
    <2>2. CASE confirmation.kind = "save" /\ d = confirmation.draft /\ operations' = operations
      BY <2>2, <1>1 DEF Stored, AskedDraft, NewPath
    <2> QED
      BY <2>1, <2>2 DEF Saves
  <1>5. AskedDraft' /\ NewPath' /\ SentDraft' /\ DeletedDraft'
    BY <1>1, <1>s, <1>4 DEF AskedDraft, NewPath, SentDraft, DeletedDraft, Idle
  <1>6. SavedDraft'
    BY <1>1, <1>2, <1>s, <1>4 DEF SavedDraft, Backed
  <1>7. ActiveBacked'
    BY <1>1, <1>2, <1>3 DEF ActiveBacked, Backed
  <1> QED
    BY <1>2, <1>5, <1>6, <1>7 DEF Stored

LEMMA StoredDeletes ==
  ASSUME Base, Stored, Step, AcceptDelete
  PROVE  Stored'
  <1>b. /\ Base' /\ operations \in Nat /\ operations <= operations /\ \A e \in drafts : e.path \in Nat
        /\ drafts \subseteq [path : Nat, content : Texts]
    BY BaseKept DEF Base, ComposerTyped
  <1>1. /\ Idle /\ drafts' = drafts /\ operations' = operations /\ active_draft' = active_draft
        /\ send' = send /\ confirmation' = NoConfirmation /\ confirmation.kind = "delete"
        /\ save' = [NoSave EXCEPT !.phase = "deleting", !.generation = compose_generation, !.draft = confirmation.draft]
        /\ given_up' = given_up \cup {confirmation.draft.saved_fields, fields}
    BY DEF AcceptDelete, AcceptConfirmation, OperationAllowed, Idle, StartDelete, KeepComposer
  <1>2. PathsApart' /\ \A e : Backed(e) => Backed(e)'
    BY <1>1, <1>b, SameFiles
  <1>3. Backed(active_draft)
    BY <1>1 DEF Stored, ActiveBacked, Idle
  <1>s. save'.phase = "deleting" /\ save'.draft = confirmation.draft /\ confirmation'.kind = "none"
    BY <1>1, NothingIs DEF NoSave
  <1>4. /\ active_draft \in {confirmation.draft, NoActiveDraft} /\ confirmation.draft # NoActiveDraft
        /\ Backed(confirmation.draft)
    BY <1>1 DEF Stored, AskedDraft
  <1>5. AskedDraft' /\ NewPath' /\ SentDraft'
    BY <1>1, <1>s DEF AskedDraft, NewPath, SentDraft, Idle
  <1>6. SavedDraft'
    BY <1>1, <1>s, <1>4 DEF SavedDraft
  <1>8. DeletedDraft'
    <2> DEFINE e == [path |-> confirmation.draft.path, content |-> confirmation.draft.saved_fields]
    <2>1. e \in drafts /\ e.path = confirmation.draft.path /\ e.content = confirmation.draft.saved_fields
      BY <1>4 DEF Backed
    <2> HIDE DEF e
    <2>2. \A x \in drafts : x.path = confirmation.draft.path => x.content \in given_up'
      BY <2>1, <1>1 DEF Stored, PathsApart
    <2> QED
      BY <2>2, <1>1, <1>s DEF DeletedDraft
  <1>7. ActiveBacked'
    BY <1>1, <1>2, <1>3 DEF ActiveBacked, Backed
  <1> QED
    BY <1>2, <1>5, <1>6, <1>7, <1>8 DEF Stored

LEMMA StoredGoesOn ==
  ASSUME Base, Registered, Texting, Stored, Step,
         \/ SaveBoundaryFlushed /\ outcome = "ok"
         \/ SendAccepted /\ send'.phase = "deleting"
         \/ SaveWriteFails
  PROVE  Stored'
  <1>t. /\ operations \in Nat /\ operations <= operations /\ send \in SendIs /\ save \in SaveIs /\ Base'
        /\ delivering \subseteq FlushCallbacks
    BY BaseIs, RecordedIs, BaseKept
  <1>1. CASE SaveBoundaryFlushed /\ outcome = "ok"
    <2>0. First \in All /\ First.op = "save boundary"
      BY <1>1, <1>t, FirstIs DEF SaveBoundaryFlushed, Callback, All
    <2>1. save.phase = "boundary"
      BY <2>0 DEF Registered, Linked, SaveLinked
    <2>2. /\ drafts' = drafts /\ operations' = operations /\ active_draft' = active_draft /\ confirmation' = confirmation
          /\ send' = send /\ given_up' = given_up /\ save' = [save EXCEPT !.phase = "writing"]
      BY <1>1 DEF SaveBoundaryFlushed, Callback, KeepComposer
    <2>3. save'.phase = "writing" /\ save'.draft = save.draft
      BY <2>2, <1>t DEF SaveIs
    <2>4. PathsApart' /\ \A e : Backed(e) => Backed(e)'
      BY <2>2, <1>t, SameFiles
    <2>5. AskedDraft' /\ NewPath' /\ SentDraft'
      BY <2>1, <2>2, <2>3 DEF Stored, AskedDraft, NewPath, SentDraft, Backed
    <2>6. SavedDraft' /\ DeletedDraft' /\ ActiveBacked'
      BY <2>1, <2>2, <2>3 DEF Stored, SavedDraft, DeletedDraft, ActiveBacked, Backed
    <2> QED
      BY <2>4, <2>5, <2>6 DEF Stored
  <1>2. CASE SendAccepted /\ send'.phase = "deleting"
    <2>2. /\ drafts' = drafts /\ operations' = operations /\ active_draft' = active_draft /\ confirmation' = confirmation
          /\ save' = save /\ given_up' = given_up /\ send' = [send EXCEPT !.phase = "deleting"]
          /\ send.phase = "accepted" /\ active_draft = send.draft
      BY <1>2, DeletingIs DEF KeepComposer
    <2>3. send'.phase = "deleting" /\ send'.draft = send.draft
      BY <2>2, <1>t DEF SendIs
    <2>4. PathsApart' /\ \A e : Backed(e) => Backed(e)'
      BY <2>2, <1>t, SameFiles
    <2>5. AskedDraft' /\ NewPath' /\ SentDraft'
      BY <2>2, <2>3 DEF Stored, AskedDraft, NewPath, SentDraft, Backed
    <2>6. SavedDraft' /\ DeletedDraft' /\ ActiveBacked'
      BY <2>2, <2>3 DEF Stored, SavedDraft, DeletedDraft, ActiveBacked, Backed
    <2> QED
      BY <2>4, <2>5, <2>6 DEF Stored
  <1>3. CASE SaveWriteFails
    <2>2. /\ drafts' = drafts /\ operations' = operations /\ active_draft' = active_draft /\ confirmation' = confirmation
          /\ send' = send /\ given_up' = given_up /\ save' = [save EXCEPT !.phase = "failed"] /\ save.phase = "writing"
      BY <1>3 DEF SaveWriteFails, SaveWorkerStep, KeepComposer
    <2>3. save'.phase = "failed" /\ save'.draft = save.draft
      BY <2>2, <1>t DEF SaveIs
    <2>4. PathsApart' /\ \A e : Backed(e) => Backed(e)'
      BY <2>2, <1>t, SameFiles
    <2>5. AskedDraft' /\ NewPath' /\ SentDraft'
      BY <2>2, <2>3 DEF Stored, AskedDraft, NewPath, SentDraft, Backed
    <2>6. SavedDraft' /\ DeletedDraft' /\ ActiveBacked'
      BY <2>2, <2>3 DEF Stored, SavedDraft, DeletedDraft, ActiveBacked, Backed
    <2> QED
      BY <2>4, <2>5, <2>6 DEF Stored
  <1> QED
    BY <1>1, <1>2, <1>3

LEMMA StoredSucceeds ==
  ASSUME Base, Texting, Stored, Step, SaveSucceeded
  PROVE  Stored'
  <1>t. /\ operations \in Nat /\ save \in SaveIs /\ Base'
    BY BaseIs, RecordedIs, BaseKept
  <1>2. /\ drafts' = drafts /\ operations' = operations /\ confirmation' = confirmation
        /\ send' = send /\ save' = [save EXCEPT !.phase = "updating"] /\ save.phase = "saved"
        /\ active_draft' = [path |-> save.path, saved_fields |-> save.fields]
    BY DEF SaveSucceeded, SavePoll
  <1>3. save'.phase = "updating"
    BY <1>2, <1>t DEF SaveIs
  <1>4. active_draft'.path = save.path /\ active_draft'.saved_fields = save.fields
    BY <1>2
  <1>5. save.path # 0 /\ [path |-> save.path, content |-> save.fields] \in drafts
    BY <1>2 DEF Stored, SavedDraft
  <1>6. ~Asking /\ send.phase = "idle"
    BY <1>2 DEF Texting, Exclusive, Idle
  <1>7. confirmation'.kind = "none" /\ send'.phase = "idle"
    BY <1>2, <1>6, NothingIs DEF Asking
  <1>8. PathsApart'
    BY <1>2, <1>4, <1>5 DEF Stored, PathsApart
  <1>9. Backed(active_draft)'
    BY <1>2, <1>4, <1>5 DEF Backed
  <1>10. AskedDraft' /\ NewPath' /\ SentDraft'
    BY <1>3, <1>7 DEF AskedDraft, NewPath, SentDraft
  <1>11. SavedDraft' /\ DeletedDraft' /\ ActiveBacked'
    BY <1>3, <1>9 DEF SavedDraft, DeletedDraft, ActiveBacked
  <1> QED
    BY <1>8, <1>10, <1>11 DEF Stored

(* Nothing is asked and nothing else is in progress while one worker runs. *)
LEMMA OnlyOne ==
  ASSUME Base, Texting
  PROVE  /\ send.phase # "idle" => save.phase = "idle" /\ confirmation.kind = "none"
         /\ save.phase # "idle" => send.phase = "idle" /\ confirmation.kind = "none"
  BY NothingIs DEF Texting, Exclusive, Asking, Idle

LEMMA StoredRemoves ==
  ASSUME Base, Texting, Stored, Step, NEW ok \in BOOLEAN, SentDraftDelete(ok) \/ DeleteSource(ok)
  PROVE  Stored'
  <1>t. operations \in Nat /\ send \in SendIs /\ save \in SaveIs
    BY BaseIs, RecordedIs
  <1>1. drafts' \subseteq drafts /\ operations' = operations /\ active_draft' = active_draft /\ confirmation' = confirmation
    BY DEF SentDraftDelete, DeleteSource, SendWorkerStep, SaveWorkerStep, KeepComposer, Without
  <1>2. PathsApart'
    BY <1>1 DEF Stored, PathsApart
  <1>3. CASE SentDraftDelete(ok)
    <2>1. /\ send.phase = "deleting" /\ send' = [send EXCEPT !.phase = IF ok THEN "deleted" ELSE "kept"]
          /\ save' = save /\ (~ok => drafts' = drafts)
      BY <1>3 DEF SentDraftDelete, SendWorkerStep
    <2>2. send'.draft = send.draft /\ send'.phase = IF ok THEN "deleted" ELSE "kept"
      BY <2>1, <1>t DEF SendIs
    <2>3. save'.phase = "idle" /\ save.phase = "idle" /\ confirmation'.kind = "none"
      BY <2>1, <1>1, OnlyOne
    <2>4. AskedDraft' /\ NewPath' /\ SavedDraft' /\ DeletedDraft'
      BY <2>3 DEF AskedDraft, NewPath, SavedDraft, DeletedDraft
    <2>5. SentDraft'
      BY <2>1, <2>2, <1>1 DEF Stored, SentDraft
    <2>6. ActiveBacked'
      <3>1. CASE ok
        BY <2>2, <3>1 DEF ActiveBacked
      <3>2. CASE ~ok
        <4>1. Backed(active_draft)
          BY <2>1, <2>3 DEF Stored, ActiveBacked
        <4>2. drafts' = drafts
          BY <2>1, <3>2 DEF SentDraftDelete
        <4> QED
          BY <4>1, <4>2, <1>1 DEF ActiveBacked, Backed
      <3> QED
        BY <3>1, <3>2
    <2> QED
      BY <1>2, <2>4, <2>5, <2>6 DEF Stored
  <1>4. CASE DeleteSource(ok)
    <2>1. /\ save.phase = "deleting" /\ save' = [save EXCEPT !.phase = IF ok THEN "deleted" ELSE "failed"]
          /\ send' = send
      BY <1>4 DEF DeleteSource, SaveWorkerStep
    <2>2. save'.draft = save.draft /\ save'.phase = IF ok THEN "deleted" ELSE "failed"
      BY <2>1, <1>t DEF SaveIs
    <2>3. send'.phase = "idle" /\ send.phase = "idle" /\ confirmation'.kind = "none"
      BY <2>1, <1>1, OnlyOne
    <2>4. AskedDraft' /\ NewPath' /\ SentDraft' /\ DeletedDraft'
      BY <2>2, <2>3 DEF AskedDraft, NewPath, SentDraft, DeletedDraft
    <2>5. SavedDraft'
      BY <2>1, <2>2, <1>1 DEF Stored, SavedDraft
    <2>6. ActiveBacked'
      <3>1. CASE ok
        BY <2>2, <3>1 DEF ActiveBacked
      <3>2. CASE ~ok
        <4>1. Backed(active_draft)
          BY <2>1, <2>3 DEF Stored, ActiveBacked
        <4>2. drafts' = drafts
          BY <1>4, <3>2 DEF DeleteSource
        <4> QED
          BY <4>1, <4>2, <1>1 DEF ActiveBacked, Backed
      <3> QED
        BY <3>1, <3>2
    <2> QED
      BY <1>2, <2>4, <2>5, <2>6 DEF Stored
  <1> QED
    BY <1>3, <1>4

LEMMA StoredReplaces ==
  ASSUME Base, Texting, Stored, Step, SaveDeletesPrevious \/ \E ok \in BOOLEAN : SaveRollsBack(ok)
  PROVE  Stored'
  <1>t. operations \in Nat /\ save \in SaveIs
    BY BaseIs, RecordedIs
  <1>1. /\ drafts' \subseteq drafts /\ operations' = operations /\ active_draft' = active_draft
        /\ confirmation' = confirmation /\ send' = send /\ save.phase = "replacing"
    BY DEF SaveDeletesPrevious, SaveRollsBack, SaveWorkerStep, KeepComposer, Without
  <1>2. PathsApart'
    BY <1>1 DEF Stored, PathsApart
  <1>3. send'.phase = "idle" /\ send.phase = "idle" /\ confirmation'.kind = "none"
    BY <1>1, OnlyOne
  <1>4. AskedDraft' /\ SentDraft'
    BY <1>3 DEF AskedDraft, SentDraft
  <1>5. /\ active_draft \in {save.draft, NoActiveDraft} /\ Backed(save.draft)
        /\ [path |-> save.path, content |-> save.fields] \in drafts /\ save.path # 0
        /\ save.path # save.draft.path /\ save.draft # NoActiveDraft
    BY <1>1 DEF Stored, SavedDraft
  <1>6. CASE SaveDeletesPrevious
    <2>1. save' = [save EXCEPT !.phase = "saved"] /\ drafts' = {d \in drafts : d.path # save.draft.path}
      BY <1>6 DEF SaveDeletesPrevious, Without
    <2>2. save'.phase = "saved" /\ save'.path = save.path /\ save'.fields = save.fields /\ save'.draft = save.draft
      BY <2>1, <1>t DEF SaveIs
    <2> DEFINE n == [path |-> save.path, content |-> save.fields]
    <2>3. n \in drafts'
      <3>1. n \in drafts /\ n.path = save.path
        BY <1>5
      <3> HIDE DEF n
      <3> QED
        BY <3>1, <2>1, <1>5
    <2>4. SavedDraft'
      BY <2>2, <2>3, <1>1, <1>5 DEF SavedDraft
    <2>5. NewPath' /\ DeletedDraft' /\ ActiveBacked'
      BY <2>2, <1>3 DEF NewPath, DeletedDraft, ActiveBacked
    <2> QED
      BY <1>2, <1>4, <2>4, <2>5 DEF Stored
  <1>7. ASSUME NEW ok \in BOOLEAN, SaveRollsBack(ok) PROVE Stored'
    <2>1. /\ save' = [save EXCEPT !.phase = "failed"]
          /\ drafts' = {d \in drafts : d.path # save.path} \/ drafts' = drafts
      BY <1>7 DEF SaveRollsBack, Without
    <2>2. save'.phase = "failed" /\ save'.draft = save.draft
      BY <2>1, <1>t DEF SaveIs
    <2> DEFINE n == [path |-> save.draft.path, content |-> save.draft.saved_fields]
    <2>3. n \in drafts'
      <3>1. n \in drafts /\ n.path = save.draft.path
        BY <1>5 DEF Backed
      <3> HIDE DEF n
      <3> QED
        BY <3>1, <2>1, <1>5
    <2>4. SavedDraft' /\ NewPath' /\ DeletedDraft'
      BY <2>2, <1>1, <1>3, <1>5 DEF SavedDraft, NewPath, DeletedDraft
    <2>5. Backed(active_draft)'
      BY <2>3, <1>1, <1>5 DEF Backed
    <2> QED
      BY <1>2, <1>4, <2>4, <2>5 DEF Stored, ActiveBacked
  <1> QED
    BY <1>6, <1>7

LEMMA StoredWrites ==
  ASSUME Base, Texting, Stored, Step, SaveWritesDraft
  PROVE  Stored'
  <1>t. operations \in Nat /\ save \in SaveIs /\ \A d \in drafts : d.path \in Nat
    BY BaseIs, RecordedIs DEF Base, ComposerTyped
  <1>1. /\ operations' = operations /\ active_draft' = active_draft
        /\ confirmation' = confirmation /\ send' = send /\ save.phase = "writing"
    BY DEF SaveWritesDraft, SaveWorkerStep, KeepComposer
  <1>p. PICK path \in {operations, save.draft.path} \ {0} :
           /\ drafts' = Without(path) \cup {[path |-> path, content |-> save.fields]}
           /\ save' = [save EXCEPT
                  !.phase = IF save.draft.path \in {0, path} THEN "saved" ELSE "replacing",
                  !.path = path]
    BY DEF SaveWritesDraft
  <1> DEFINE n == [path |-> path, content |-> save.fields]
  <1>n. n.path = path /\ drafts' = {d \in drafts : d.path # path} \cup {n}
    BY <1>p DEF Without
  <1>3. send'.phase = "idle" /\ send.phase = "idle" /\ confirmation'.kind = "none"
    BY <1>1, OnlyOne
  <1>4. AskedDraft' /\ SentDraft'
    BY <1>3 DEF AskedDraft, SentDraft
  <1>5. /\ active_draft \in {save.draft, NoActiveDraft} /\ Backed(save.draft)
        /\ save.draft.path = 0 => save.draft = NoActiveDraft
    BY <1>1 DEF Stored, SavedDraft
  <1>6. \A d \in drafts : d.path < operations
    BY <1>1 DEF Stored, NewPath
  <1>s. /\ save'.path = path /\ save'.fields = save.fields /\ save'.draft = save.draft
        /\ save'.phase = IF save.draft.path \in {0, path} THEN "saved" ELSE "replacing"
    BY <1>p, <1>t DEF SaveIs
  <1> DEFINE o == [path |-> save.draft.path, content |-> save.draft.saved_fields]
  <1>o. o.path = save.draft.path /\ (save.draft # NoActiveDraft => o \in drafts)
    BY <1>5 DEF Backed
  <1>m. n \in drafts' /\ save'.path # 0 /\ n = [path |-> save'.path, content |-> save'.fields]
    BY <1>n, <1>s, <1>p
  <1> HIDE DEF n, o
  <1>7. path <= operations /\ path # 0
    <2>1. CASE path = operations
      BY <2>1, <1>t, <1>p
    <2>2. CASE path = save.draft.path
      <3>1. save.draft # NoActiveDraft
        BY <2>2, <1>p DEF NoActiveDraft
      <3> QED
        BY <3>1, <2>2, <1>o, <1>6, <1>t, <1>p
    <2> QED
      BY <2>1, <2>2, <1>p
  <1>8. PathsApart'
    <2>1. \A d \in drafts' : d.path # 0 /\ d.path <= operations
      BY <1>n, <1>7 DEF Stored, PathsApart
    <2>2. \A d, e \in drafts' : d.path = e.path => d = e
      BY <1>n DEF Stored, PathsApart
    <2> QED
      BY <2>1, <2>2, <1>1 DEF Stored, PathsApart
  <1>9. SavedDraft'
    <2>1. CASE save.draft.path \in {0, path}
      BY <2>1, <1>s, <1>m, <1>1, <1>5 DEF SavedDraft
    <2>2. CASE save.draft.path \notin {0, path}
      <3>1. save'.phase = "replacing" /\ save.draft # NoActiveDraft
        BY <2>2, <1>s DEF NoActiveDraft
      <3>2. o \in drafts'
        BY <3>1, <2>2, <1>o, <1>n
      <3>3. Backed(save.draft)'
        BY <3>2, <1>s DEF Backed, o
      <3> QED
        BY <3>1, <3>3, <2>2, <1>s, <1>m, <1>1, <1>5 DEF SavedDraft
    <2> QED
      BY <2>1, <2>2
  <1>10. NewPath' /\ DeletedDraft'
    BY <1>s, <1>3 DEF NewPath, DeletedDraft
  <1>11. ActiveBacked'
    <2>1. CASE save.draft.path \in {0, path}
      BY <2>1, <1>s DEF ActiveBacked
    <2>2. CASE save.draft.path \notin {0, path}
      BY <2>2, <1>9, <1>s, <1>1, <1>5 DEF SavedDraft, ActiveBacked, Backed
    <2> QED
      BY <2>1, <2>2
  <1> QED
    BY <1>4, <1>8, <1>9, <1>10, <1>11 DEF Stored

LEMMA StoredKept ==
  ASSUME Base, Registered, Texting, Stored, Step
  PROVE  Stored'
  <1>1. CASE \E kind \in Questions, g \in Generations, f \in Texts, d \in DraftRefs : Asks(kind, g, f, d)
    BY <1>1, StoredAsks
  <1>2. CASE \E f \in Texts, d \in DraftRefs : Saves(f, d)
    BY <1>2, StoredSaves
  <1>3. CASE AcceptDelete
    BY <1>3, StoredDeletes
  <1>4. CASE \/ SaveBoundaryFlushed /\ outcome = "ok"
             \/ SendAccepted /\ send'.phase = "deleting"
             \/ SaveWriteFails
    BY <1>4, StoredGoesOn
  <1>5. CASE \E ok \in BOOLEAN : SentDraftDelete(ok) \/ DeleteSource(ok)
    BY <1>5, StoredRemoves
  <1>6. CASE SaveDeletesPrevious \/ \E ok \in BOOLEAN : SaveRollsBack(ok)
    BY <1>6, StoredReplaces
  <1>7. CASE SaveWritesDraft
    BY <1>7, StoredWrites
  <1>8. CASE SaveSucceeded
    BY <1>8, StoredSucceeds
  <1>9. CASE \/ \E f \in {Blank, compose_generation + 1} : Edit(f)
             \/ Clears \/ Replaces \/ (\E f \in Texts, d \in DraftRefs, g \in Generations : Sends(f, d, g)) \/ Reconciles
             \/ Hides \/ Closes \/ Present \/ Reject \/ CaptureFires
             \/ (MainLoop /\ DebounceFires /\ UNCHANGED composerVars) \/ RecoveryWriter
             \/ (\E w \in workers : ReceiveResult(w)) \/ CallbacksDone
             \/ SendFlushed \/ ComposerCleared \/ CloseFlushed \/ Ends \/ Repersists
             \/ TransportAccepts \/ TransportRefuses \/ Cleans \/ DeleteSucceeded
    BY <1>9, StoredMost
  <1> QED
    BY <1>1, <1>2, <1>3, <1>4, <1>5, <1>6, <1>7, <1>8, <1>9 DEF Step, Repersists, Cleans

LEMMA StoredStarts == ComposerInit => Stored
  <1> SUFFICES ASSUME ComposerInit PROVE Stored
    OBVIOUS
  <1>1. drafts = {} /\ active_draft = NoActiveDraft /\ confirmation.kind = "none" /\ send.phase = "idle" /\ save.phase = "idle"
    BY NothingIs DEF ComposerInit
  <1> QED
    BY <1>1 DEF Stored, PathsApart, AskedDraft, NewPath, SentDraft, SavedDraft, DeletedDraft, ActiveBacked, Backed

(***************************************************************************)
(* One file has one path; a save writes to a path of its own or over the   *)
(* draft that it replaces, and the active draft's file exists unless it    *)
(* has just been deleted (perform_captured_draft_save, spawn_sent_draft_   *)
(* delete, delete_captured_active_draft).                                  *)
(***************************************************************************)
THEOREM DraftFilesInvariance == ComposerSpec => []Stored
  <1>1. ComposerInit => Stored
    BY StoredStarts
  <1>2. ComposerInv /\ Stored /\ [ComposerNext]_allVars => Stored'
    <2> SUFFICES ASSUME ComposerInv, Stored, [ComposerNext]_allVars PROVE Stored'
      OBVIOUS
    <2>1. CASE ComposerNext
      <3>1. Step
        BY <2>1, Classified DEF ComposerInv, Base
      <3> QED
        BY <3>1, StoredKept DEF ComposerInv
    <2>2. CASE UNCHANGED allVars
      <3>1. UNCHANGED composerVars
        BY <2>2 DEF allVars
      <3>2. PathsApart' /\ AskedDraft' /\ NewPath' /\ SentDraft'
        BY <3>1 DEF composerVars, Stored, PathsApart, AskedDraft, NewPath, SentDraft, Backed
      <3>3. SavedDraft' /\ DeletedDraft' /\ ActiveBacked'
        BY <3>1 DEF composerVars, Stored, SavedDraft, DeletedDraft, ActiveBacked, Backed
      <3> QED
        BY <3>2, <3>3 DEF Stored
    <2> QED
      BY <2>1, <2>2
  <1> QED
    BY <1>1, <1>2, ComposerInvariance, PTL DEF ComposerSpec

(* The only steps that write or remove a draft file. *)
LEMMA FilesMove ==
  ASSUME Base, Step
  PROVE  \/ drafts' = drafts
         \/ \E ok \in BOOLEAN : SentDraftDelete(ok)
         \/ SaveWritesDraft \/ SaveDeletesPrevious
         \/ \E ok \in BOOLEAN : SaveRollsBack(ok)
         \/ \E ok \in BOOLEAN : DeleteSource(ok)
  <1>1. CASE \/ \E f \in {Blank, compose_generation + 1} : Edit(f)
             \/ CaptureFires \/ RecoveryWriter \/ (MainLoop /\ DebounceFires /\ UNCHANGED composerVars)
             \/ (\E w \in workers : ReceiveResult(w)) \/ CallbacksDone
    BY <1>1 DEF Edit, CaptureFires, RecoveryWriter, ReceiveResult, CallbacksDone, composerVars
  <1>2. CASE \/ \E kind \in Questions, g \in Generations, f \in Texts, d \in DraftRefs : Asks(kind, g, f, d)
             \/ Clears \/ Replaces \/ Reconciles \/ Hides \/ Closes \/ Present \/ Reject
    BY <1>2 DEF Asks, Clears, Replaces, Reconciles, Hides, Closes, Present, Reject, Quiet
  <1>3. CASE \/ \E f \in Texts, d \in DraftRefs, g \in Generations : Sends(f, d, g)
             \/ \E f \in Texts, d \in DraftRefs : Saves(f, d)
             \/ AcceptDelete
    BY <1>3 DEF Sends, Saves, AcceptDelete, AcceptConfirmation, Quiet
  <1>4. CASE SendFlushed \/ ComposerCleared \/ CloseFlushed \/ Ends \/ SentCleared \/ SaveBoundaryFlushed
    BY <1>4 DEF SendFlushed, ComposerCleared, CloseFlushed, Ends, SentCleared, SaveBoundaryFlushed, Callback
  <1>5. CASE TransportAccepts \/ TransportRefuses \/ SendAccepted \/ SentDraftHandled \/ SaveWriteFails
    BY <1>5 DEF TransportAccepts, TransportRefuses, SendAccepted, SentDraftHandled, SendPoll, SaveWriteFails
  <1>6. CASE SaveSucceeded \/ DeleteSucceeded
    BY <1>6 DEF SaveSucceeded, DeleteSucceeded, SavePoll
  <1> QED
    BY <1>1, <1>2, <1>3, <1>4, <1>5, <1>6 DEF Step

(***************************************************************************)
(* The text of a saved draft leaves the disk only when the transport       *)
(* accepted it or its edited text, when the user gave it up, when what     *)
(* replaces it is saved, or when it is the new copy of a replacement that  *)
(* failed and whose predecessor is still there.                            *)
(***************************************************************************)
THEOREM DraftFilesKept == ComposerSpec => DraftDeletedAfterUse
  <1> DEFINE Excuse(d) ==
               \/ d.content \in {e.content : e \in drafts'} \cup recovery' \cup accepted \cup given_up
               \/ save.phase # "idle" /\ save.fields \in {e.content : e \in drafts'} \cup recovery'
               \/ d.path = save.path /\ save.draft.path \in {e.path : e \in drafts'}
               \/ d.path = send.draft.path /\ send.fields \in accepted
  <1>1. ASSUME ComposerInv, Stored, ComposerNext, NEW d \in drafts PROVE Excuse(d)
    <2>1. Step
      BY <1>1, Classified DEF ComposerInv, Base
    <2>2. CASE drafts' = drafts
      BY <2>2
    <2>3. ASSUME NEW ok \in BOOLEAN, SentDraftDelete(ok) PROVE Excuse(d)
      <3>1. d \in drafts' \/ d.path = send.draft.path
        BY <2>3 DEF SentDraftDelete
      <3>2. send.fields \in accepted
        BY <1>1, <2>3 DEF SentDraftDelete, ComposerInv, Texting, Captured, AcceptedText
      <3> QED
        BY <3>1, <3>2
    <2>4. CASE SaveWritesDraft
      <3>1. PICK path \in {operations, save.draft.path} \ {0} :
              drafts' = Without(path) \cup {[path |-> path, content |-> save.fields]}
        BY <2>4 DEF SaveWritesDraft
      <3> DEFINE n == [path |-> path, content |-> save.fields]
      <3>2. n \in drafts' /\ n.content = save.fields /\ save.phase # "idle"
        BY <3>1, <2>4 DEF SaveWritesDraft
      <3> HIDE DEF n
      <3> QED
        BY <3>2
    <2>5. CASE SaveDeletesPrevious
      <3> DEFINE n == [path |-> save.path, content |-> save.fields]
      <3>1. n \in drafts /\ n.path = save.path /\ n.content = save.fields /\ save.path # save.draft.path
        BY <1>1, <2>5 DEF SaveDeletesPrevious, Stored, SavedDraft
      <3>2. save.phase # "idle" /\ drafts' = {e \in drafts : e.path # save.draft.path}
        BY <2>5 DEF SaveDeletesPrevious, Without
      <3> HIDE DEF n
      <3> QED
        BY <3>1, <3>2
    <2>6. ASSUME NEW ok \in BOOLEAN, SaveRollsBack(ok) PROVE Excuse(d)
      <3> DEFINE o == [path |-> save.draft.path, content |-> save.draft.saved_fields]
      <3>1. o \in drafts /\ o.path = save.draft.path /\ save.path # save.draft.path
        BY <1>1, <2>6 DEF SaveRollsBack, Stored, SavedDraft, Backed
      <3>2. drafts' = {e \in drafts : e.path # save.path} \/ drafts' = drafts
        BY <2>6 DEF SaveRollsBack, Without
      <3> HIDE DEF o
      <3>3. d \in drafts' \/ d.path = save.path
        BY <1>1, <3>2
      <3>4. o \in drafts'
        BY <3>1, <3>2
      <3> QED
        BY <3>1, <3>3, <3>4
    <2>7. ASSUME NEW ok \in BOOLEAN, DeleteSource(ok) PROVE Excuse(d)
      <3>1. d \in drafts' \/ d.path = save.draft.path
        BY <1>1, <2>7 DEF DeleteSource, Without
      <3>2. d.path = save.draft.path => d.content \in given_up
        BY <1>1, <2>7 DEF DeleteSource, Stored, DeletedDraft
      <3> QED
        BY <3>1, <3>2
    <2> QED
      BY <1>1, <2>1, <2>2, <2>3, <2>4, <2>5, <2>6, <2>7, FilesMove DEF ComposerInv
  <1>2. ComposerInv /\ Stored /\ [ComposerNext]_allVars =>
          [\A d \in drafts :
              LET kept == {e.content : e \in drafts'} \cup recovery'
              IN  \/ d.content \in kept \cup accepted \cup given_up
                  \/ save.phase # "idle" /\ save.fields \in kept
                  \/ d.path = save.path /\ save.draft.path \in {e.path : e \in drafts'}
                  \/ d.path = send.draft.path /\ send.fields \in accepted]_allVars
    <2> SUFFICES ASSUME ComposerInv, Stored, ComposerNext, NEW d \in drafts PROVE Excuse(d)
      OBVIOUS
    <2> QED
      BY <1>1
  <1> QED
    BY <1>2, ComposerInvariance, DraftFilesInvariance, PTL DEF ComposerSpec, DraftDeletedAfterUse

--------------------------------------------------------------------------------
(* The transport starts only when what it sends is on disk. *)

HeldByDraft == active_draft # NoActiveDraft /\ active_draft.saved_fields = fields

(* A callback is that of the waiter that flush registered with it. *)
Matched == \A cb \in callbacks, x \in ctl.waiters : x.flush = cb.flush => x.generation = cb.generation

(* finish_write answers the flushes of one generation. *)
Together == \A a, b \in delivering : a.generation = b.generation

(* Until a send or a close that is up to date has its answer, nothing is written. *)
Rests ==
  \A cb \in delivering :
    cb.op \in {"send", "close"} /\ cb.generation = compose_generation => workers = {} /\ ctl.active = NoRequest

SendHeld ==
  /\ \A cb \in callbacks, x \in ctl.waiters :
       cb.op = "send" /\ x.flush = cb.flush /\ cb.generation = compose_generation
         => fields \in x.action \cup {Blank} \/ HeldByDraft
  /\ \A cb \in delivering :
       cb.op = "send" /\ outcome = "ok" /\ cb.generation = compose_generation
         => fields \in recovery \cup {Blank} \/ HeldByDraft

Answers == Matched /\ Together /\ Rests

(* What finish_write finds: its worker is gone, its waiters had its action. *)
LEMMA ReceivedIs ==
  ASSUME IInv, NEW w \in workers, Receives(w)
  PROVE  /\ workers' = {} /\ ctl'.active = NoRequest /\ recovery' = recovery /\ ~finishing
         /\ callbacks' \subseteq callbacks /\ ctl'.waiters \subseteq ctl.waiters
         /\ ctl.active \in Outstanding(ctl)
         /\ w.phase = "ok" => recovery = ctl.active.action
         /\ \A cb \in delivering' :
              /\ cb \in callbacks
              /\ \E x \in ctl.waiters : /\ x.flush = cb.flush /\ x.request_id = ctl.active.request_id
                                        /\ x.generation = ctl.active.generation
                                        /\ x.action = ctl.active.action
  <1>t. /\ ctl \in Controller /\ w.request = ctl.active /\ workers = {w} /\ w.request \in DraftWriteRequest
        /\ IdsOK(ctl) /\ Served(ctl)
    BY DEF IInv, TypeOK, OneWriter, DraftWorker, WaitersServed, Served
  <1>1. ctl.active # NoRequest /\ ctl.active \in Outstanding(ctl)
    BY <1>t, NoRequestApart DEF Outstanding
  <1>2. /\ workers' = {} /\ ctl' = ReleaseActive(ctl) /\ recovery' = recovery /\ ~finishing
        /\ callbacks' = callbacks \ delivering'
        /\ delivering' = {cb \in callbacks : \E x \in ReadyWaiters(ctl) : x.flush = cb.flush}
    BY <1>t DEF Receives, FinishWrite
  <1>3. ctl'.active = NoRequest /\ ctl'.waiters \subseteq ctl.waiters
    BY <1>2, <1>t, ReleaseEffect
  <1>4. w.phase = "ok" => recovery = ctl.active.action
    BY <1>t DEF IInv, WrittenStays
  <1>5. ASSUME NEW x \in ReadyWaiters(ctl)
        PROVE  x \in ctl.waiters /\ x.request_id = ctl.active.request_id
               /\ x.generation = ctl.active.generation /\ x.action = ctl.active.action
    <2>1. x \in ctl.waiters /\ x.request_id = ctl.active.request_id
      BY DEF ReadyWaiters
    <2>2. PICK r \in Outstanding(ctl) : r.request_id = x.request_id /\ SameWrite(r, x.generation, x.action)
      BY <2>1, <1>t DEF Served
    <2>3. r = ctl.active
      BY <2>1, <2>2, <1>1, <1>t DEF IdsOK, UniqueIds
    <2> QED
      BY <2>1, <2>2, <2>3 DEF SameWrite
  <1>6. \A cb \in delivering' : cb \in callbacks /\ \E x \in ReadyWaiters(ctl) : x.flush = cb.flush
    BY <1>2
  <1> QED
    BY <1>1, <1>2, <1>3, <1>4, <1>5, <1>6

(* What a flush registers. *)
LEMMA FlushedIs ==
  ASSUME Base, NEW g \in Generations, NEW a \in RecoveryAction, NEW op \in FlushOps, FlushStep(g, a, op)
  PROVE  \E x \in FlushWaiter :
           /\ ctl'.waiters = ctl.waiters \cup {x}
           /\ x.flush = flushes + 1 /\ x.generation = g /\ x.action = a
  <1>1. ctl' = Flush(ctl, g, a, flushes + 1) /\ flushes \in Nat /\ flushes + 1 \in Nat \ {0}
    BY DEF FlushStep, FlushThen, FlushBoundary, Base, IInv, TypeOK
  <1>2. ctl \in Controller /\ IdsOK(ctl) /\ Served(ctl)
    BY DEF Base, IInv, TypeOK, WaitersServed, Served
  <1> QED
    BY <1>1, <1>2, FlushEffect

(* The composer's draft changes with its generation, or when an activity on it ends. *)
LEMMA ActiveMoves ==
  ASSUME Base, Registered, Step, active_draft' # active_draft
  PROVE  /\ \/ compose_generation < compose_generation'
            \/ save.phase \in {"saved", "deleted"}
            \/ send.phase = "deleted"
         /\ \/ active_draft' = NoActiveDraft
            \/ save.phase = "saved" /\ active_draft'.saved_fields = save.fields
  <1>e. EmptyComposer => compose_generation < compose_generation' /\ active_draft' = NoActiveDraft
    BY EmptyIs, BaseIs DEF Texted
  <1>k. ~KeepComposer
    BY DEF KeepComposer
  <1>1. CASE Edit(Blank) \/ Edit(compose_generation + 1)
    BY <1>1 DEF Edit
  <1>2. CASE \/ (\E kind \in Questions, g \in Generations, f \in Texts, d \in DraftRefs : Asks(kind, g, f, d))
             \/ Clears
             \/ (\E f \in Texts, d \in DraftRefs, g \in Generations : Sends(f, d, g))
             \/ Reconciles \/ (\E f \in Texts, d \in DraftRefs : Saves(f, d))
             \/ AcceptDelete \/ Hides \/ Closes \/ Present \/ Reject \/ CaptureFires
    BY <1>2, <1>k DEF Asks, Clears, Sends, Reconciles, Saves, AcceptDelete, Hides, Closes, Present, Reject, CaptureFires
  <1>3. CASE \/ (MainLoop /\ DebounceFires /\ UNCHANGED composerVars) \/ RecoveryWriter
             \/ (\E w \in workers : ReceiveResult(w)) \/ CallbacksDone
    BY <1>3 DEF RecoveryWriter, composerVars, ReceiveResult, CallbacksDone
  <1>4. CASE Replaces \/ ComposerCleared
    BY <1>4, <1>e, <1>k DEF Replaces, ReplaceNow, ComposerCleared
  <1>5. CASE SendFlushed \/ CloseFlushed \/ (SaveBoundaryFlushed /\ outcome = "ok")
    BY <1>5, <1>k DEF SendFlushed, CloseFlushed, SaveBoundaryFlushed
  <1>6. CASE Ends
    BY <1>6, <1>e, <1>k DEF Ends
  <1>7. CASE Repersists \/ (SendAccepted /\ send'.phase = "deleting")
    BY <1>7, <1>k, RepersistsIs, DeletingIs
  <1>8. CASE Cleans
    BY <1>8, CleansIs
  <1>9. CASE TransportAccepts \/ TransportRefuses \/ (\E ok \in BOOLEAN : SentDraftDelete(ok))
    BY <1>9, <1>k DEF TransportAccepts, TransportRefuses, SentDraftDelete, SendWorkerStep
  <1>10. CASE \/ SaveWritesDraft \/ SaveWriteFails \/ SaveDeletesPrevious
              \/ (\E ok \in BOOLEAN : SaveRollsBack(ok)) \/ (\E ok \in BOOLEAN : DeleteSource(ok))
    BY <1>10, <1>k DEF SaveWritesDraft, SaveWriteFails, SaveDeletesPrevious, SaveRollsBack, DeleteSource, SaveWorkerStep
  <1>11. CASE SaveSucceeded
    <2>1. save.phase = "saved" /\ active_draft' = [path |-> save.path, saved_fields |-> save.fields]
      BY <1>11 DEF SaveSucceeded
    <2>2. active_draft'.saved_fields = save.fields
      BY <2>1
    <2> QED
      BY <2>1, <2>2
  <1>12. CASE DeleteSucceeded
    BY <1>12 DEF DeleteSucceeded
  <1> QED
    BY <1>1, <1>2, <1>3, <1>4, <1>5, <1>6, <1>7, <1>8, <1>9, <1>10, <1>11, <1>12 DEF Step, Repersists, Cleans

(* The flush of a callback that runs ended as finish_write found it. *)
LEMMA OutcomeMoves ==
  ASSUME Base, Registered, Step
  PROVE  \/ \E w \in workers : ReceiveResult(w)
         \/ outcome' = outcome /\ delivering' \subseteq delivering
  <1>p. Popped => delivering' \subseteq delivering
    BY DEF Popped
  <1>c. ASSUME NEW op, Callback(op) PROVE outcome' = outcome /\ delivering' \subseteq delivering
    BY <1>c DEF Callback
  <1>2. CASE \/ (\E kind \in Questions, g \in Generations, f \in Texts, d \in DraftRefs : Asks(kind, g, f, d))
             \/ Clears \/ Replaces
             \/ (\E f \in Texts, d \in DraftRefs, g \in Generations : Sends(f, d, g))
             \/ Reconciles \/ (\E f \in Texts, d \in DraftRefs : Saves(f, d)) \/ Hides \/ Closes
    BY <1>2 DEF Asks, Clears, Replaces, Sends, Reconciles, Saves, Hides, Closes, Quiet
  <1>3. CASE \/ (\E f \in {Blank, compose_generation + 1} : Edit(f))
             \/ AcceptDelete \/ Present \/ Reject \/ CaptureFires
             \/ (MainLoop /\ DebounceFires /\ UNCHANGED composerVars) \/ RecoveryWriter \/ CallbacksDone
    BY <1>3 DEF Edit, AcceptDelete, AcceptConfirmation, Present, Reject, CaptureFires, RecoveryWriter, composerVars, CallbacksDone
  <1>5. CASE SendFlushed \/ CloseFlushed \/ ComposerCleared \/ (SaveBoundaryFlushed /\ outcome = "ok")
    BY <1>5, <1>c DEF SendFlushed, CloseFlushed, ComposerCleared, SaveBoundaryFlushed
  <1>6. CASE Ends
    BY <1>6, <1>p, EndsComposer DEF Ends
  <1>7. CASE Repersists \/ (SendAccepted /\ send'.phase = "deleting") \/ Cleans
    BY <1>7, RepersistsIs, DeletingIs, CleansIs
  <1>9. CASE TransportAccepts \/ TransportRefuses \/ (\E ok \in BOOLEAN : SentDraftDelete(ok))
    BY <1>9 DEF TransportAccepts, TransportRefuses, SentDraftDelete, SendWorkerStep
  <1>10. CASE \/ SaveWritesDraft \/ SaveWriteFails \/ SaveDeletesPrevious
              \/ (\E ok \in BOOLEAN : SaveRollsBack(ok)) \/ (\E ok \in BOOLEAN : DeleteSource(ok))
    BY <1>10 DEF SaveWritesDraft, SaveWriteFails, SaveDeletesPrevious, SaveRollsBack, DeleteSource, SaveWorkerStep
  <1>11. CASE SaveSucceeded \/ DeleteSucceeded
    BY <1>11 DEF SaveSucceeded, DeleteSucceeded, SavePoll
  <1>12. CASE \E w \in workers : ReceiveResult(w)
    BY <1>12
  <1> QED
    BY <1>2, <1>3, <1>5, <1>6, <1>7, <1>9, <1>10, <1>11, <1>12 DEF Step, Repersists, Cleans

(* A step that registers nothing adds neither a callback nor a waiter. *)
LEMMA WaitersAre ==
  ASSUME Base, WriterStep
  PROVE  \/ callbacks' = callbacks /\ ctl'.waiters = ctl.waiters
         \/ \E w \in workers : Receives(w)
         \/ \E g \in Generations, a \in RecoveryAction, op \in FlushOps : FlushStep(g, a, op)
  <1>t. ctl \in Controller
    BY DEF Base, IInv, TypeOK
  <1>s. \A c \in Controller : StartPendingWrite(c).waiters = c.waiters
    BY DEF StartPendingWrite, Controller
  <1>1. CASE NoFlush
    BY <1>1 DEF NoFlush
  <1>2. ASSUME NEW g \in Generations, NEW a \in RecoveryAction, ScheduleEdit(g, a) PROVE ctl'.waiters = ctl.waiters
    BY <1>2, <1>t DEF ScheduleEdit, Schedule, QueueDebounced, NextRequestId, CancelDebounce, Controller
  <1>3. ASSUME DebounceFires PROVE ctl'.waiters = ctl.waiters
    <2>1. [ctl EXCEPT !.debounce_source = FALSE, !.pending_ready = TRUE] \in Controller
          /\ [ctl EXCEPT !.debounce_source = FALSE, !.pending_ready = TRUE].waiters = ctl.waiters
      BY <1>t DEF Controller
    <2> QED
      BY <1>3, <2>1, <1>s DEF DebounceFires, DebounceElapsed
  <1>4. ASSUME NEW w \in workers, WorkerStep(w) PROVE ctl'.waiters = ctl.waiters
    BY <1>4 DEF WorkerStep, WriterCommits, WriterSucceeds, WriterFails
  <1>6. ASSUME ResumeWrites PROVE ctl'.waiters = ctl.waiters
    BY <1>6, <1>t, <1>s DEF ResumeWrites
  <1> QED
    BY <1>1, <1>2, <1>3, <1>4, <1>6 DEF WriterStep

(* A callback and its waiter are both old, or this step's flush registers both. *)
LEMMA Pairs ==
  ASSUME Base, Registered, WriterStep, NEW cb \in callbacks', NEW x \in ctl'.waiters, x.flush = cb.flush
  PROVE  \/ cb \in callbacks /\ x \in ctl.waiters
         \/ \E g \in Generations, a \in RecoveryAction, op \in FlushOps :
              FlushStep(g, a, op) /\ cb = NewCallback(op, g) /\ x.generation = g /\ x.action = a
  <1>t. callbacks \subseteq FlushCallbacks /\ flushes \in Nat /\ ctl \in Controller
    BY BaseIs DEF Base, IInv, TypeOK
  <1>o. /\ \A d \in callbacks : d.flush \in Nat /\ d.flush <= flushes
        /\ \A y \in ctl.waiters : y.flush \in Nat /\ y.flush <= flushes
    <2>1. \A d \in callbacks : d.flush \in Nat /\ d.flush <= flushes
      BY <1>t DEF Registered, Numbered, All, FlushCallbacks
    <2>2. \A y \in ctl.waiters : y.flush \in Nat /\ y.flush <= flushes
      BY <1>t DEF Base, IInv, FlushesNumbered, Controller, FlushWaiter
    <2> QED
      BY <2>1, <2>2
  <1>1. ASSUME NEW w \in workers, Receives(w)
        PROVE  callbacks' \subseteq callbacks /\ ctl'.waiters \subseteq ctl.waiters
    BY <1>1, ReceivedIs DEF Base
  <1>2. ASSUME NEW g \in Generations, NEW a \in RecoveryAction, NEW op \in FlushOps, FlushStep(g, a, op),
               ~(cb \in callbacks /\ x \in ctl.waiters)
        PROVE  cb = NewCallback(op, g) /\ x.generation = g /\ x.action = a
    <2>1. PICK y \in FlushWaiter : /\ ctl'.waiters = ctl.waiters \cup {y}
                                   /\ y.flush = flushes + 1 /\ y.generation = g /\ y.action = a
      BY <1>2, FlushedIs
    <2> DEFINE n == NewCallback(op, g)
    <2>2. n.flush = flushes + 1
      BY NewIs
    <2>3. callbacks' = callbacks \cup {n}
      BY <1>2 DEF FlushStep, FlushThen, NewCallback
    <2> HIDE DEF n
    <2>4. ASSUME cb \in callbacks PROVE FALSE
      <3>1. x = y
        BY <2>4, <1>2, <2>1
      <3>2. cb.flush = flushes + 1 /\ cb.flush \in Nat /\ cb.flush <= flushes
        BY <3>1, <2>1, <2>4, <1>o
      <3> QED
        BY <3>2, <1>t
    <2>5. ASSUME x \in ctl.waiters, cb = n PROVE FALSE
      <3>1. x.flush = flushes + 1 /\ x.flush \in Nat /\ x.flush <= flushes
        BY <2>2, <2>5, <1>o
      <3> QED
        BY <3>1, <1>t
    <2>6. cb = n /\ x = y
      BY <2>1, <2>3, <2>4, <2>5
    <2> QED
      BY <2>1, <2>6 DEF n
  <1> QED
    BY <1>1, <1>2, WaitersAre

(* A flush that waited before this step is not the one that this step makes. *)
LEMMA MatchedKept ==
  ASSUME Base, Registered, Answers, Step
  PROVE  Matched'
  <1>1. ASSUME NEW cb \in callbacks', NEW x \in ctl'.waiters, x.flush = cb.flush
        PROVE  x.generation = cb.generation
    <2>1. CASE cb \in callbacks /\ x \in ctl.waiters
      BY <1>1, <2>1 DEF Answers, Matched
    <2>2. ASSUME NEW g \in Generations, NEW op \in FlushOps, cb = NewCallback(op, g), x.generation = g
          PROVE  x.generation = cb.generation
      BY <2>2, NewIs
    <2> QED
      BY <1>1, <2>1, <2>2, Pairs, Writes
  <1> QED
    BY <1>1 DEF Matched

LEMMA TogetherKept ==
  ASSUME Base, Registered, Answers, Step
  PROVE  Together'
  <1>1. ASSUME NEW w \in workers, ReceiveResult(w) PROVE Together'
    <2>1. Receives(w)
      BY <1>1 DEF ReceiveResult, Receives
    <2>2. \A cb \in delivering' : cb.generation = ctl.active.generation
      BY <2>1, ReceivedIs DEF Base, Answers, Matched
    <2> QED
      BY <2>2 DEF Together
  <1>2. CASE delivering' \subseteq delivering
    BY <1>2 DEF Answers, Together
  <1> QED
    BY <1>1, <1>2, OutcomeMoves

(* While a send or a close that is up to date waits to be run, nothing is registered. *)
LEMMA NothingNew ==
  ASSUME Base, Registered, Texting, Answers, Step, NEW cb \in delivering, cb.op \in {"send", "close"},
         cb.generation = compose_generation,
         NEW g \in Generations, NEW a \in RecoveryAction, NEW op \in FlushOps, FlushStep(g, a, op)
  PROVE  FALSE
  <1>t. delivering \subseteq FlushCallbacks
    BY BaseIs
  <1>f. finishing /\ cb \in All
    BY DEF Registered, Numbered, All
  <1>l. SendLinked(cb, send) /\ SaveLinked(cb, save) /\ CloseLinked(cb, window)
    BY <1>f DEF Registered, Linked
  <1>g. delivering # {} => First.generation = compose_generation
    BY <1>t, FirstIs DEF Answers, Together
  <1>o. Origin(g, a, op)
    BY DEF FlushStep
  <1>1. CASE op \in {"clear", "send", "save boundary", "reconciled"}
    BY <1>1, <1>o, <1>f DEF Origin, Clears, Sends, Saves, Reconciles
  <1>2. CASE op \in {"save updated", "delete cleared", "delete updated"}
    BY <1>2, <1>o, <1>f DEF Origin, SaveSucceeded, DeleteSucceeded, SavePoll, MainLoop
  <1>3. CASE op = "sent clear"
    BY <1>3, <1>o, <1>f, CleansIs DEF Origin
  <1>4. CASE op = "sent repersist"
    BY <1>4, <1>o, <1>g, RepersistsIs DEF Origin
  <1>5. CASE op = "close"
    <2>1. CASE CloseFlushed
      <3>1. ~Current
        BY <2>1, <1>5, NewIs DEF CloseFlushed, FlushStep, FlushThen, FlushBoundary, NoFlush
      <3> QED
        BY <2>1, <3>1, <1>g DEF CloseFlushed, Callback, Current
    <2>2. CASE ~window.close_flush /\ Closes
      BY <2>2, <1>f DEF Closes
    <2>3. CASE ~window.close_flush /\ Ends
      <3>1. cb.op = "send" /\ send.phase = "flushing"
        BY <2>3, <1>l DEF CloseLinked, SendLinked
      <3>2. save.phase = "idle"
        BY <3>1 DEF Texting, Exclusive
      <3> QED
        BY <2>3, <3>1, <3>2, EndsIs
    <2> QED
      BY <2>1, <2>2, <2>3, <1>5, <1>o DEF Origin
  <1> QED
    BY <1>1, <1>2, <1>3, <1>4, <1>5 DEF FlushOps

(* What the composer holds for a callback that was registered before this step. *)
LEMMA StillCurrent ==
  ASSUME Base, Registered, Texting, Step, NEW cb \in All, cb.generation = compose_generation'
  PROVE  /\ compose_generation' = compose_generation /\ fields' = fields
         /\ cb.op = "send" => active_draft' = active_draft
  <1>t. /\ compose_generation \in Nat /\ compose_generation' \in Nat
        /\ compose_generation <= compose_generation' /\ cb.generation <= compose_generation
    <2>1. compose_generation <= compose_generation' /\ compose_generation' \in Nat
      BY Writes, StepTyped, TextsAre DEF WriterStep, Texted
    <2>2. compose_generation \in Nat /\ cb.generation <= compose_generation
      BY BaseIs, TextsAre DEF Texted
    <2> QED
      BY <2>1, <2>2
  <1>1. compose_generation' = compose_generation
    <2>1. cb.generation \in Nat
      BY <1>t
    <2> QED
      BY <1>t, <2>1
  <1>2. fields' = fields
    BY <1>1, TextMoves
  <1>3. ASSUME cb.op = "send" PROVE active_draft' = active_draft
    <2>1. send.phase = "flushing"
      BY <1>3 DEF Registered, Linked, SendLinked
    <2>2. save.phase = "idle"
      BY <2>1 DEF Texting, Exclusive
    <2> QED
      BY <1>1, <1>t, <2>1, <2>2, ActiveMoves
  <1> QED
    BY <1>1, <1>2, <1>3

LEMMA RestsKept ==
  ASSUME Base, Registered, Texting, Answers, Step
  PROVE  Rests'
  <1>w. WriterStep
    BY Writes
  <1>t. ctl \in Controller
    BY DEF Base, IInv, TypeOK
  <1>1. ASSUME NEW w \in workers, Receives(w) PROVE Rests'
    <2>1. workers' = {} /\ ctl'.active = NoRequest
      BY <1>1, ReceivedIs DEF Base
    <2> QED
      BY <2>1 DEF Rests
  <1>2. ASSUME delivering' \subseteq delivering, NEW cb \in delivering', cb.op \in {"send", "close"},
               cb.generation = compose_generation', ~(\E w \in workers : Receives(w))
        PROVE  workers' = {} /\ ctl'.active = NoRequest
    <2>1. cb \in delivering /\ cb \in All /\ finishing
      BY <1>2 DEF All, Registered, Numbered
    <2>2. compose_generation' = compose_generation
      BY <1>2, <2>1, StillCurrent
    <2>3. workers = {} /\ ctl.active = NoRequest
      BY <1>2, <2>1, <2>2 DEF Answers, Rests
    <2>4. ~(\E g \in Generations, a \in RecoveryAction, op \in FlushOps : FlushStep(g, a, op))
      BY <1>2, <2>1, <2>2, NothingNew
    <2>5. CASE NoFlush
      BY <2>3, <2>5 DEF NoFlush
    <2>6. ASSUME NEW g \in Generations, NEW a \in RecoveryAction, ScheduleEdit(g, a)
          PROVE  workers' = {} /\ ctl'.active = NoRequest
      BY <2>3, <2>6, <1>t DEF ScheduleEdit, Schedule, QueueDebounced, NextRequestId, CancelDebounce, Controller
    <2>7. ~DebounceFires /\ delivering # {}
      BY <2>1 DEF DebounceFires
    <2> QED
      BY <1>w, <1>2, <2>3, <2>4, <2>5, <2>6, <2>7 DEF WriterStep
  <1>3. CASE ~(\E w \in workers : Receives(w))
    <2>1. delivering' \subseteq delivering
      BY <1>3, OutcomeMoves DEF ReceiveResult, Receives
    <2> QED
      BY <1>2, <1>3, <2>1 DEF Rests
  <1> QED
    BY <1>1, <1>3

(* What a send captured is what the composer holds. *)
LEMMA SendsCurrent ==
  ASSUME Texting, NEW f, NEW d, NEW g, Sends(f, d, g), g = compose_generation
  PROVE  f = fields
  BY DEF Sends, Texting, Captured, AskedText

(* A recovery action for the text holds it, unless the draft does. *)
LEMMA ActionHolds ==
  ASSUME NEW f \in Texts, NEW d
  PROVE  \/ f \in RecoveryActionFor(f, d) \cup {Blank}
         \/ d # NoActiveDraft /\ d.saved_fields = f
  BY RecoveryIs DEF Persist

LEMMA SendHeldKept ==
  ASSUME Base, Registered, Texting, Answers, SendHeld, Step
  PROVE  SendHeld'
  <1>w. WriterStep
    BY Writes
  <1>t. fields \in Texts
    BY BaseIs DEF Texted
  <1>a. callbacks \subseteq All /\ delivering \subseteq All
    BY DEF All
  <1>s. ASSUME NEW cb \in All, cb.op = "send", cb.generation = compose_generation'
        PROVE  /\ cb.generation = compose_generation /\ fields' = fields /\ (HeldByDraft' <=> HeldByDraft)
    BY <1>s, StillCurrent DEF HeldByDraft
  <1>1. ASSUME NEW cb \in callbacks', NEW x \in ctl'.waiters,
               cb.op = "send", x.flush = cb.flush, cb.generation = compose_generation'
        PROVE  fields' \in x.action \cup {Blank} \/ HeldByDraft'
    <2>1. CASE cb \in callbacks /\ x \in ctl.waiters
      BY <1>1, <1>a, <1>s, <2>1 DEF SendHeld
    <2>2. ASSUME NEW g \in Generations, NEW a \in RecoveryAction, NEW op \in FlushOps, FlushStep(g, a, op),
                 cb = NewCallback(op, g), x.action = a
          PROVE  fields' \in x.action \cup {Blank} \/ HeldByDraft'
      <3>1. op = "send" /\ g = compose_generation'
        BY <1>1, <2>2, NewIs
      <3>2. PICK f \in Texts, d \in DraftRefs : Sends(f, d, g) /\ a = RecoveryActionFor(f, active_draft)
        BY <2>2, <3>1 DEF FlushStep, Origin
      <3>3. fields' = fields /\ active_draft' = active_draft /\ g = compose_generation
        BY <3>1, <3>2 DEF Sends, KeepComposer
      <3>4. f = fields
        BY <3>2, <3>3, SendsCurrent
      <3> QED
        BY <2>2, <3>2, <3>3, <3>4, <1>t, ActionHolds DEF HeldByDraft
    <2> QED
      BY <1>1, <2>1, <2>2, <1>w, Pairs
  <1>2. ASSUME NEW cb \in delivering', cb.op = "send", outcome' = "ok", cb.generation = compose_generation'
        PROVE  fields' \in recovery' \cup {Blank} \/ HeldByDraft'
    <2>1. ASSUME NEW w \in workers, ReceiveResult(w)
          PROVE  fields' \in recovery' \cup {Blank} \/ HeldByDraft'
      <3>1. Receives(w) /\ w.phase = "ok"
        BY <1>2, <2>1 DEF ReceiveResult, Receives
      <3>2. /\ recovery' = recovery /\ recovery = ctl.active.action /\ cb \in callbacks
            /\ \E x \in ctl.waiters : x.flush = cb.flush /\ x.action = ctl.active.action
        BY <3>1, ReceivedIs DEF Base
      <3>3. fields \in recovery \cup {Blank} \/ HeldByDraft
        BY <1>2, <3>2, <1>a, <1>s DEF SendHeld
      <3> QED
        BY <1>2, <3>2, <3>3, <1>a, <1>s
    <2>2. CASE outcome' = outcome /\ delivering' \subseteq delivering
      <3>1. cb \in delivering /\ cb.generation = compose_generation /\ fields' = fields /\ (HeldByDraft' <=> HeldByDraft)
        BY <1>2, <2>2, <1>a, <1>s
      <3>2. fields \in recovery \cup {Blank} \/ HeldByDraft
        BY <1>2, <2>2, <3>1 DEF SendHeld
      <3>3. workers = {}
        BY <1>2, <3>1 DEF Answers, Rests
      <3>4. recovery' = recovery
        BY <3>3, <1>w DEF WriterStep, NoFlush, ScheduleEdit, FlushStep, FlushThen, FlushBoundary, DebounceFires,
           ResumeWrites
      <3> QED
        BY <3>1, <3>2, <3>4
    <2> QED
      BY <2>1, <2>2, OutcomeMoves
  <1> QED
    BY <1>1, <1>2 DEF SendHeld

Answered == Answers /\ SendHeld

(* The transport starts in the callback of the send's flush, which succeeded. *)
LEMMA TransportIs ==
  ASSUME Base, Registered, Step, send.phase = "flushing", send'.phase = "transport"
  PROVE  /\ outcome = "ok" /\ First \in delivering /\ First.op = "send"
         /\ First.generation = send.generation
  <1>t. send \in SendIs /\ delivering \subseteq FlushCallbacks
    BY BaseIs, RecordedIs
  <1>n. send' # send /\ send' # NoSend
    BY NothingIs
  <1>0. SendFlushed
    <2>1. CASE \/ (\E f \in {Blank, compose_generation + 1} : Edit(f))
               \/ (\E kind \in Questions, g \in Generations, f \in Texts, d \in DraftRefs : Asks(kind, g, f, d))
               \/ Clears \/ Replaces \/ Reconciles \/ (\E f \in Texts, d \in DraftRefs : Saves(f, d))
               \/ AcceptDelete \/ Hides \/ Closes \/ Present \/ Reject \/ CaptureFires
      BY <2>1, <1>n DEF Edit, Asks, Clears, Replaces, Reconciles, Saves, AcceptDelete, Hides, Closes, Present, Reject, CaptureFires
    <2>2. CASE \E f \in Texts, d \in DraftRefs, g \in Generations : Sends(f, d, g)
      BY <2>2 DEF Sends, Idle
    <2>3. CASE \/ (MainLoop /\ DebounceFires /\ UNCHANGED composerVars) \/ RecoveryWriter
               \/ (\E w \in workers : ReceiveResult(w)) \/ CallbacksDone
      BY <2>3, <1>n DEF RecoveryWriter, composerVars, ReceiveResult, CallbacksDone
    <2>4. CASE CloseFlushed \/ ComposerCleared \/ (SaveBoundaryFlushed /\ outcome = "ok")
      BY <2>4, <1>n DEF CloseFlushed, ComposerCleared, SaveBoundaryFlushed
    <2>5. CASE Ends
      BY <2>5, <1>n DEF Ends
    <2>6. CASE Repersists \/ (SendAccepted /\ send'.phase = "deleting") \/ Cleans
      BY <2>6 DEF Repersists, Cleans
    <2>7. CASE TransportAccepts \/ TransportRefuses \/ (\E ok \in BOOLEAN : SentDraftDelete(ok))
      BY <2>7 DEF TransportAccepts, TransportRefuses, SentDraftDelete
    <2>8. CASE \/ SaveWritesDraft \/ SaveWriteFails \/ SaveDeletesPrevious
               \/ (\E ok \in BOOLEAN : SaveRollsBack(ok)) \/ (\E ok \in BOOLEAN : DeleteSource(ok))
               \/ SaveSucceeded \/ DeleteSucceeded
      BY <2>8, <1>n DEF SaveWritesDraft, SaveWriteFails, SaveDeletesPrevious, SaveRollsBack, DeleteSource,
         SaveWorkerStep, SaveSucceeded, DeleteSucceeded, SavePoll
    <2> QED
      BY <2>1, <2>2, <2>3, <2>4, <2>5, <2>6, <2>7, <2>8 DEF Step, Repersists, Cleans
  <1>1. delivering # {} /\ First.op = "send" /\ outcome = "ok"
    BY <1>0, <1>n DEF SendFlushed, Callback
  <1>2. First \in delivering /\ First \in All
    BY <1>1, <1>t, FirstIs DEF All
  <1> QED
    BY <1>1, <1>2 DEF Registered, Linked, SendLinked

(***************************************************************************)
(* finish_write answers the flushes of one generation, each with the       *)
(* write of its own waiter, and while the callback of an up-to-date send   *)
(* or close has still to run nothing is being written.  What an up-to-date *)
(* send waits for holds the text, or the saved draft does.                 *)
(***************************************************************************)
THEOREM AnswersInvariance == ComposerSpec => []Answered
  <1>1. ComposerInit => Answered
    BY DEF ComposerInit, Init, Answered, Answers, Matched, Together, Rests, SendHeld
  <1>2. ComposerInv /\ Answered /\ [ComposerNext]_allVars => Answered'
    <2>1. CASE ComposerInv /\ Answered /\ ComposerNext
      <3>1. Step
        BY <2>1, Classified DEF ComposerInv, Base
      <3> QED
        BY <2>1, <3>1, MatchedKept, TogetherKept, RestsKept, SendHeldKept DEF ComposerInv, Answered, Answers
    <2>2. ASSUME Answered, UNCHANGED allVars PROVE Answered'
      <3>1. UNCHANGED vars /\ UNCHANGED composerVars
        BY <2>2 DEF allVars
      <3> QED
        BY <2>2, <3>1 DEF vars, composerVars, Answered, Answers, Matched, Together, Rests, SendHeld, HeldByDraft
    <2> QED
      BY <2>1, <2>2
  <1> QED
    BY <1>1, <1>2, ComposerInvariance, PTL DEF ComposerSpec

(***************************************************************************)
(* launch_captured_send_after_flush spawns the transport only when the     *)
(* text that is being sent is on disk, as the recovery draft or as the     *)
(* saved one, unless the user has edited it since.                         *)
(***************************************************************************)
THEOREM SentWhenDurable == ComposerSpec => TransportAfterDurable
  <1>1. ASSUME ComposerInv, Stored, Answered, ComposerNext,
               send.phase = "flushing", send'.phase = "transport", send.generation = compose_generation
        PROVE  send.fields \in Durable \cup {Blank}
    <2>1. Step
      BY <1>1, Classified DEF ComposerInv, Base
    <2>2. outcome = "ok" /\ First \in delivering /\ First.op = "send" /\ First.generation = compose_generation
      BY <1>1, <2>1, TransportIs DEF ComposerInv
    <2>3. fields \in recovery \cup {Blank} \/ HeldByDraft
      BY <1>1, <2>2 DEF Answered, SendHeld
    <2>4. fields = send.fields
      BY <1>1 DEF ComposerInv, Texting, Captured, SendingText
    <2>5. save.phase = "idle"
      BY <1>1 DEF ComposerInv, Texting, Exclusive
    <2>6. CASE HeldByDraft
      <3> DEFINE e == [path |-> active_draft.path, content |-> active_draft.saved_fields]
      <3>1. e \in drafts
        BY <1>1, <2>5, <2>6 DEF Stored, ActiveBacked, Backed, HeldByDraft
      <3>2. e.content = fields
        BY <2>6 DEF HeldByDraft
      <3> HIDE DEF e
      <3> QED
        BY <2>4, <3>1, <3>2 DEF Durable
    <2>7. CASE fields \in recovery \cup {Blank}
      BY <2>4, <2>7 DEF Durable
    <2> QED
      BY <2>3, <2>6, <2>7
  <1>2. ComposerInv /\ Stored /\ Answered /\ [ComposerNext]_allVars =>
          [/\ send.phase = "flushing" /\ send'.phase = "transport"
           /\ send.generation = compose_generation
           => send.fields \in Durable \cup {Blank}]_allVars
    BY <1>1
  <1> QED
    BY <1>2, ComposerInvariance, DraftFilesInvariance, AnswersInvariance, PTL DEF ComposerSpec, TransportAfterDurable

--------------------------------------------------------------------------------
(* The order of the requests, and that one write is asked for once.          *)

(* s is written before r. *)
Before(c, s, r) ==
  /\ s \in Outstanding(c) /\ r \in Outstanding(c)
  /\ \/ s = c.active
     \/ \E i, j \in 1 .. Len(c.urgent) : i < j /\ c.urgent[i] = s /\ c.urgent[j] = r

OneOfEach(c) == \A r, s \in Outstanding(c) : r.generation = s.generation /\ r.action = s.action => r = s

(* Each request is in the queue once. *)
NoRepeat(c) ==
  /\ \A i \in 1 .. Len(c.urgent) : c.urgent[i] # c.active
  /\ \A i, j \in 1 .. Len(c.urgent) : i < j => c.urgent[i] # c.urgent[j]

(* A method lets no request overtake another, and asks for no write twice. *)
InOrder(c, d) ==
  /\ \A r \in Outstanding(c), s \in Outstanding(d) : Before(d, s, r) => Before(c, s, r) \/ s = r
  /\ OneOfEach(c) => OneOfEach(d)
  /\ NoRepeat(c) => NoRepeat(d)

UpTo(c, n) == c.pending.generation <= n /\ \A r \in Outstanding(c) : r.generation <= n

LEMMA SameOrder ==
  ASSUME NEW c, NEW d, c.active = d.active, c.urgent = d.urgent
  PROVE  Outstanding(c) = Outstanding(d) /\ InOrder(c, d)
  <1>1. Outstanding(c) = Outstanding(d)
    BY DEF Outstanding
  <1> QED
    BY <1>1 DEF InOrder, OneOfEach, Before, NoRepeat

(* start_pending_write takes the first request. *)
LEMMA StartInOrder ==
  ASSUME NEW c \in Controller
  PROVE  InOrder(c, StartPendingWrite(c))
  <1> DEFINE d == StartPendingWrite(c)
  <1>u. c.urgent \in Seq(DraftWriteRequest)
    BY DEF Controller
  <1>1. CASE c.active = NoRequest /\ c.urgent # <<>>
    <2>1. d = [c EXCEPT !.active = Head(c.urgent), !.urgent = Tail(c.urgent)]
      BY <1>1 DEF StartPendingWrite
    <2>2. /\ d.active = Head(c.urgent) /\ d.urgent = Tail(c.urgent) /\ d.pending = c.pending
      BY <2>1 DEF Controller
    <2>3. Head(c.urgent) = c.urgent[1] /\ Len(c.urgent) \in Nat \ {0}
          /\ Len(Tail(c.urgent)) = Len(c.urgent) - 1
          /\ \A i \in 1 .. Len(Tail(c.urgent)) : Tail(c.urgent)[i] = c.urgent[i + 1]
      BY <1>1, <1>u
    <2>4. {c.urgent[i] : i \in 1 .. Len(c.urgent)}
             = {Head(c.urgent)} \cup {Tail(c.urgent)[i] : i \in 1 .. Len(Tail(c.urgent))}
      BY <1>1, <1>u, PopKeepsElements
    <2>5. Outstanding(d) = Outstanding(c)
      BY <1>1, <2>2, <2>4 DEF Outstanding
    <2>6. ASSUME NEW r \in Outstanding(c), NEW s \in Outstanding(d), Before(d, s, r)
          PROVE  Before(c, s, r) \/ s = r
      <3>1. CASE s = d.active
        <4>1. r = s \/ \E j \in 1 .. Len(Tail(c.urgent)) : r = Tail(c.urgent)[j]
          BY <1>1, <2>2, <2>4, <3>1 DEF Outstanding
        <4>2. ASSUME NEW j \in 1 .. Len(Tail(c.urgent)), r = Tail(c.urgent)[j] PROVE Before(c, s, r)
          <5>1. 1 \in 1 .. Len(c.urgent) /\ j + 1 \in 1 .. Len(c.urgent) /\ 1 < j + 1
                /\ c.urgent[1] = s /\ c.urgent[j + 1] = r
            BY <2>2, <2>3, <3>1, <4>2
          <5> QED
            BY <5>1, <2>5 DEF Before
        <4> QED
          BY <4>1, <4>2
      <3>2. CASE \E i, j \in 1 .. Len(d.urgent) : i < j /\ d.urgent[i] = s /\ d.urgent[j] = r
        <4>1. PICK i \in 1 .. Len(d.urgent), j \in 1 .. Len(d.urgent) : i < j /\ d.urgent[i] = s /\ d.urgent[j] = r
          BY <3>2
        <4>2. i + 1 \in 1 .. Len(c.urgent) /\ j + 1 \in 1 .. Len(c.urgent) /\ i + 1 < j + 1
              /\ c.urgent[i + 1] = s /\ c.urgent[j + 1] = r
          BY <2>2, <2>3, <4>1
        <4> QED
          BY <4>2, <2>5 DEF Before
      <3> QED
        BY <2>6, <3>1, <3>2 DEF Before
    <2>7. NoRepeat(c) => NoRepeat(d)
      <3>1. \A i \in 1 .. Len(Tail(c.urgent)) : i + 1 \in 1 .. Len(c.urgent) /\ 1 < i + 1
        BY <2>3
      <3>2. 1 \in 1 .. Len(c.urgent)
        BY <2>3
      <3>3. \A i, j \in 1 .. Len(Tail(c.urgent)) : i < j => i + 1 < j + 1
        OBVIOUS
      <3>4. NoRepeat(c) => \A i \in 1 .. Len(Tail(c.urgent)) : d.urgent[i] # d.active
        BY <2>2, <2>3, <3>1, <3>2 DEF NoRepeat
      <3>5. NoRepeat(c) => \A i, j \in 1 .. Len(Tail(c.urgent)) : i < j => d.urgent[i] # d.urgent[j]
        BY <2>2, <2>3, <3>1, <3>3 DEF NoRepeat
      <3> QED
        BY <2>2, <3>4, <3>5 DEF NoRepeat
    <2> QED
      BY <2>5, <2>6, <2>7 DEF InOrder, OneOfEach
  <1>2. CASE c.active = NoRequest /\ c.urgent = <<>> /\ c.pending_ready
    <2>1. d = [c EXCEPT !.active = c.pending, !.pending = NoRequest, !.pending_ready = FALSE]
      BY <1>2 DEF StartPendingWrite
    <2>2. d.active = c.pending /\ d.urgent = c.urgent
      BY <2>1 DEF Controller
    <2>3. Outstanding(c) = {} /\ Outstanding(d) \subseteq {c.pending}
      BY <1>2, <2>2 DEF Outstanding
    <2>4. NoRepeat(d)
      BY <1>2, <2>2 DEF NoRepeat
    <2> QED
      BY <2>3, <2>4 DEF InOrder, OneOfEach
  <1>3. CASE ~(c.active = NoRequest /\ c.urgent # <<>>)
             /\ ~(c.active = NoRequest /\ c.urgent = <<>> /\ c.pending_ready)
    <2>1. d = c
      BY <1>3 DEF StartPendingWrite
    <2> QED
      BY <2>1, SameOrder
  <1> QED
    BY <1>1, <1>2, <1>3

(* A request that is queued goes to the end. *)
LEMMA PushInOrder ==
  ASSUME NEW c \in Controller, NEW d \in Controller, NEW n \in DraftWriteRequest, n \notin Outstanding(c),
         \A r \in Outstanding(c) : ~SameWrite(r, n.generation, n.action),
         d.active = c.active, d.urgent = Append(c.urgent, n)
  PROVE  InOrder(c, d) /\ Outstanding(d) = Outstanding(c) \cup {n}
  <1>u. c.urgent \in Seq(DraftWriteRequest)
    BY DEF Controller
  <1>1. {d.urgent[i] : i \in 1 .. Len(d.urgent)} = {c.urgent[i] : i \in 1 .. Len(c.urgent)} \cup {n}
    BY <1>u, PushAddsElement
  <1>2. Outstanding(d) = Outstanding(c) \cup {n}
    BY <1>1, NoRequestApart DEF Outstanding
  <1>3. Len(c.urgent) \in Nat /\ Len(d.urgent) = Len(c.urgent) + 1 /\ d.urgent[Len(c.urgent) + 1] = n
        /\ \A i \in 1 .. Len(c.urgent) : d.urgent[i] = c.urgent[i]
    BY <1>u
  <1>4. ASSUME NEW r \in Outstanding(c), NEW s \in Outstanding(d), Before(d, s, r)
        PROVE  Before(c, s, r)
    <2>1. CASE s = d.active
      <3>1. s \in Outstanding(c)
        BY <2>1, <1>2, <1>4 DEF Outstanding
      <3> QED
        BY <2>1, <3>1 DEF Before
    <2>2. CASE \E i, j \in 1 .. Len(d.urgent) : i < j /\ d.urgent[i] = s /\ d.urgent[j] = r
      <3>1. PICK i \in 1 .. Len(d.urgent), j \in 1 .. Len(d.urgent) : i < j /\ d.urgent[i] = s /\ d.urgent[j] = r
        BY <2>2
      <3>2. j # Len(c.urgent) + 1
        BY <1>3, <3>1
      <3>3. i \in 1 .. Len(c.urgent) /\ j \in 1 .. Len(c.urgent)
        BY <1>3, <3>1, <3>2
      <3>4. c.urgent[i] = s /\ c.urgent[j] = r
        BY <1>3, <3>1, <3>3
      <3>5. s \in Outstanding(c)
        BY <3>3, <3>4, <1>4, <1>2 DEF Outstanding
      <3> QED
        BY <3>1, <3>3, <3>4, <3>5 DEF Before
    <2> QED
      BY <1>4, <2>1, <2>2 DEF Before
  <1>5. OneOfEach(c) => OneOfEach(d)
    <2>1. \A r \in Outstanding(c) : ~(r.generation = n.generation /\ r.action = n.action)
      <3>1. \A r \in Outstanding(c) : r # NoRequest
        BY DEF Outstanding
      <3> QED
        BY <3>1 DEF SameWrite
    <2> QED
      BY <1>2, <2>1 DEF OneOfEach
  <1>6. NoRepeat(c) => NoRepeat(d)
    <2>1. n # c.active
      BY NoRequestApart DEF Outstanding
    <2>2. \A i \in 1 .. Len(c.urgent) : c.urgent[i] # n
      BY <1>1, <1>3, NoRequestApart, OutstandingType, <1>u DEF Outstanding
    <2>3. \A i \in 1 .. Len(d.urgent) : i \in 1 .. Len(c.urgent) \/ i = Len(c.urgent) + 1
      BY <1>3
    <2>4. \A i, j \in 1 .. Len(d.urgent) : i < j => i \in 1 .. Len(c.urgent)
      BY <1>3
    <2>5. NoRepeat(c) => \A i \in 1 .. Len(d.urgent) : d.urgent[i] # d.active
      BY <1>3, <2>1, <2>3 DEF NoRepeat
    <2>6. NoRepeat(c) => \A i, j \in 1 .. Len(d.urgent) : i < j => d.urgent[i] # d.urgent[j]
      BY <1>3, <2>2, <2>3, <2>4 DEF NoRepeat
    <2> QED
      BY <2>5, <2>6 DEF NoRepeat
  <1> QED
    BY <1>2, <1>4, <1>5, <1>6 DEF InOrder

LEMMA QueueInOrder ==
  ASSUME NEW c \in Controller, IdsOK(c), NEW g \in Generations, NEW a \in RecoveryAction
  PROVE  LET d == QueueFlush(c, g, a)
         IN  /\ InOrder(c, d)
             /\ Outstanding(c) \subseteq Outstanding(d)
             /\ \A n \in Nat : UpTo(c, n) /\ g <= n => UpTo(d, n)
  <1> DEFINE d == QueueFlush(c, g, a)
  <1>u. /\ c.urgent \in Seq(DraftWriteRequest) /\ c.next_request_id \in Nat
        /\ c.pending \in DraftWriteRequest \cup {NoRequest} /\ d \in Controller
    BY QueueFlushEffect DEF Controller
  <1>1. CASE Joins(c, g, a)
    <2>1. d = c
      BY <1>1 DEF QueueFlush, Promotes
    <2> QED
      BY <2>1, SameOrder
  <1>2. ASSUME NEW n \in DraftWriteRequest, ~Joins(c, g, a), SameWrite(n, g, a), n \notin Outstanding(c),
               d.active = c.active, d.urgent = Append(c.urgent, n), d.pending \in {c.pending, NoRequest}
        PROVE  /\ InOrder(c, d)
               /\ Outstanding(c) \subseteq Outstanding(d)
               /\ \A m \in Nat : UpTo(c, m) /\ g <= m => UpTo(d, m)
    <2> HIDE DEF d
    <2>1. \A r \in Outstanding(c) : ~SameWrite(r, n.generation, n.action)
      BY <1>2 DEF Joins, Joinable, SameWrite
    <2>2. InOrder(c, d) /\ Outstanding(d) = Outstanding(c) \cup {n}
      BY <1>2, <1>u, <2>1, PushInOrder
    <2>3. NoRequest.generation = 0 /\ n.generation = g
      BY <1>2 DEF NoRequest, SameWrite
    <2>4. \A m \in Nat : 0 <= m
      OBVIOUS
    <2> QED
      BY <1>2, <2>2, <2>3, <2>4 DEF UpTo
  <1>3. CASE Promotes(c, g, a)
    <2>1. /\ d = [c EXCEPT !.urgent = Append(c.urgent, c.pending), !.pending = NoRequest, !.pending_ready = FALSE]
          /\ ~Joins(c, g, a) /\ SameWrite(c.pending, g, a)
      BY <1>3 DEF QueueFlush, Promotes
    <2>2. d.active = c.active /\ d.urgent = Append(c.urgent, c.pending) /\ d.pending = NoRequest
      BY <2>1 DEF Controller
    <2>3. c.pending \in DraftWriteRequest /\ c.pending \notin Outstanding(c)
      BY <1>u, <2>1 DEF SameWrite, IdsOK, PendingApart
    <2> HIDE DEF d
    <2> QED
      BY <1>2, <2>1, <2>2, <2>3 DEF d
  <1>4. CASE ~Joins(c, g, a) /\ ~Promotes(c, g, a)
    <2> DEFINE k == KeepNewerPending(c, g)
               n == NextRequestId(k)
               m == MakeRequest(c, g, a)
    <2>1. d = [n EXCEPT !.urgent = Append(c.urgent, m)]
      BY <1>4 DEF QueueFlush
    <2>2. /\ k \in Controller /\ k.active = c.active
          /\ k.pending = c.pending \/ k.pending = NoRequest
      BY KeepNewerEffect
    <2>3. n \in Controller /\ n.active = c.active /\ n.pending = k.pending
      BY <2>2, NextIdEffect
    <2>4. m \in DraftWriteRequest /\ m.request_id = c.next_request_id /\ SameWrite(m, g, a)
      BY MakeRequestType
    <2>5. m \notin Outstanding(c)
      BY <2>4, <1>u DEF IdsOK, IdsIssued
    <2> HIDE DEF m, n, k
    <2>6. d.active = c.active /\ d.urgent = Append(c.urgent, m) /\ d.pending \in {c.pending, NoRequest}
      BY <2>1, <2>2, <2>3 DEF Controller
    <2> HIDE DEF d
    <2> QED
      BY <1>2, <1>4, <2>4, <2>5, <2>6 DEF d
  <1> QED
    BY <1>1, <1>3, <1>4

LEMMA StartUpTo ==
  ASSUME NEW c \in Controller
  PROVE  LET d == StartPendingWrite(c)
         IN  /\ Outstanding(c) \subseteq Outstanding(d)
             /\ \A n \in Nat : UpTo(c, n) => UpTo(d, n)
  <1> DEFINE d == StartPendingWrite(c)
  <1>1. \/ d.pending = c.pending /\ Outstanding(d) = Outstanding(c)
        \/ /\ d.pending = NoRequest
           /\ Outstanding(d) = Outstanding(c) \cup ({c.pending} \ {NoRequest})
    BY StartEffect
  <1>2. NoRequest.generation = 0 /\ \A n \in Nat : 0 <= n
    BY DEF NoRequest
  <1> HIDE DEF d
  <1> QED
    BY <1>1, <1>2 DEF UpTo, d

LEMMA InOrderTwice ==
  ASSUME NEW c, NEW d, NEW e, InOrder(c, d), InOrder(d, e), Outstanding(c) \subseteq Outstanding(d)
  PROVE  InOrder(c, e)
  <1>1. ASSUME NEW r \in Outstanding(c), NEW s \in Outstanding(e), Before(e, s, r), s # r
        PROVE  Before(c, s, r)
    <2>1. Before(d, s, r)
      BY <1>1 DEF InOrder
    <2>2. s \in Outstanding(d)
      BY <2>1 DEF Before
    <2> QED
      BY <1>1, <2>1, <2>2 DEF InOrder
  <1> QED
    BY <1>1 DEF InOrder

LEMMA FlushInOrder ==
  ASSUME NEW c \in Controller, IdsOK(c), NEW g \in Generations, NEW a \in RecoveryAction, NEW k \in Nat \ {0}
  PROVE  LET f == Flush(c, g, a, k)
         IN  /\ InOrder(c, f)
             /\ Outstanding(c) \subseteq Outstanding(f)
             /\ \A n \in Nat : UpTo(c, n) /\ g <= n => UpTo(f, n)
  <1> DEFINE b == CancelDebounce(c)
             q == QueueFlush(b, g, a)
             x == Waiter(b, g, a, k)
             p == [q EXCEPT !.waiters = c.waiters \cup {x}]
             f == StartPendingWrite(p)
  <1>0. Flush(c, g, a, k) = f
    BY DEF Flush
  <1>1. /\ b \in Controller /\ b.active = c.active /\ b.urgent = c.urgent
        /\ b.pending = c.pending /\ b.next_request_id = c.next_request_id
    BY DEF CancelDebounce, Controller
  <1>2. Outstanding(b) = Outstanding(c) /\ IdsOK(b) /\ InOrder(c, b)
    BY <1>1, SameQueues, SameOrder
  <1>3. \A n \in Nat : UpTo(c, n) => UpTo(b, n)
    BY <1>1, <1>2 DEF UpTo
  <1>x. x \in FlushWaiter
    <2>1. QueueFlush(b, g, a).waiters = b.waiters
      BY <1>1, QueueFlushEffect
    <2>2. FlushRequestId(b, g, a) \in Nat \ {0}
      <3>1. \/ Joined(b, q, FlushRequestId(b, g, a), g, a) \/ Promoted(b, q, FlushRequestId(b, g, a), g, a)
            \/ Appended(b, q, FlushRequestId(b, g, a), g, a)
        BY <1>1, QueueFlushEffect
      <3>2. \A r \in DraftWriteRequest : r.request_id \in Nat \ {0}
        BY DEF DraftWriteRequest
      <3>3. Outstanding(b) \subseteq DraftWriteRequest /\ b.pending \in DraftWriteRequest \cup {NoRequest}
            /\ b.next_request_id \in Nat \ {0}
        BY <1>1, OutstandingType DEF Controller
      <3> HIDE DEF b, q
      <3> QED
        BY <3>1, <3>2, <3>3 DEF Joined, Promoted, Appended, SameWrite
    <2> HIDE DEF b
    <2> QED
      BY <2>2 DEF Waiter, FlushWaiter
  <1> HIDE DEF b, x
  <1>4. /\ InOrder(b, q) /\ Outstanding(b) \subseteq Outstanding(q)
        /\ \A n \in Nat : UpTo(b, n) /\ g <= n => UpTo(q, n)
    BY <1>1, <1>2, QueueInOrder
  <1>5. q \in Controller
    BY <1>1, QueueFlushEffect
  <1> HIDE DEF q
  <1>6. /\ p \in Controller /\ p.active = q.active /\ p.urgent = q.urgent /\ p.pending = q.pending
    <2>1. c.waiters \cup {x} \in SUBSET FlushWaiter
      BY <1>x DEF Controller
    <2> QED
      BY <1>5, <2>1 DEF Controller
  <1> HIDE DEF p
  <1>7. Outstanding(q) = Outstanding(p) /\ InOrder(q, p)
    BY <1>6, SameOrder
  <1>8. \A n \in Nat : UpTo(q, n) => UpTo(p, n)
    BY <1>6, <1>7 DEF UpTo
  <1>9. /\ InOrder(p, f) /\ Outstanding(p) \subseteq Outstanding(f)
        /\ \A n \in Nat : UpTo(p, n) => UpTo(f, n)
    BY <1>6, StartInOrder, StartUpTo
  <1> HIDE DEF f
  <1>10. InOrder(c, q)
    BY <1>2, <1>4, InOrderTwice
  <1>11. InOrder(c, p)
    BY <1>2, <1>4, <1>7, <1>10, InOrderTwice
  <1>12. InOrder(c, f)
    BY <1>2, <1>4, <1>7, <1>9, <1>11, InOrderTwice
  <1> QED
    BY <1>0, <1>2, <1>3, <1>4, <1>7, <1>8, <1>9, <1>12

LEMMA ReleaseInOrder ==
  ASSUME NEW c \in Controller
  PROVE  LET d == ReleaseActive(c)
         IN  /\ InOrder(c, d)
             /\ Outstanding(d) \subseteq Outstanding(c)
             /\ \A n \in Nat : UpTo(c, n) => UpTo(d, n)
  <1> DEFINE d == ReleaseActive(c)
  <1>1. d.active = NoRequest /\ d.urgent = c.urgent /\ d.pending = c.pending
    BY DEF ReleaseActive, Controller
  <1> HIDE DEF d
  <1>2. Outstanding(d) \subseteq Outstanding(c) /\ NoRequest \notin Outstanding(d)
    BY <1>1 DEF Outstanding
  <1>3. ASSUME NEW r \in Outstanding(c), NEW s \in Outstanding(d), Before(d, s, r) PROVE Before(c, s, r)
    BY <1>1, <1>2, <1>3 DEF Before
  <1>4. NoRepeat(c) => NoRepeat(d)
    <2>1. c.urgent \in Seq(DraftWriteRequest)
      BY DEF Controller
    <2>2. \A i \in 1 .. Len(c.urgent) : c.urgent[i] # NoRequest
      BY <2>1, NoRequestApart
    <2> QED
      BY <1>1, <2>2 DEF NoRepeat
  <1> QED
    BY <1>1, <1>2, <1>3, <1>4 DEF InOrder, OneOfEach, UpTo, d

LEMMA ScheduleInOrder ==
  ASSUME NEW c \in Controller, IdsOK(c), NEW g \in Generations, NEW a \in RecoveryAction
  PROVE  LET d == Schedule(c, g, a)
         IN  /\ InOrder(c, d)
             /\ Outstanding(d) = Outstanding(c)
             /\ \A n \in Nat : UpTo(c, n) /\ g <= n => UpTo(d, n)
  <1> DEFINE d == Schedule(c, g, a)
  <1>1. d.active = c.active /\ d.urgent = c.urgent /\ d.pending = MakeRequest(CancelDebounce(c), g, a)
    BY DEF Schedule, QueueDebounced, NextRequestId, CancelDebounce, Controller
  <1>2. d.pending.generation = g
    BY <1>1 DEF MakeRequest
  <1> HIDE DEF d
  <1> QED
    BY <1>1, <1>2, SameOrder DEF UpTo, d

LEMMA ElapsedInOrder ==
  ASSUME NEW c \in Controller
  PROVE  LET d == DebounceElapsed(c)
         IN  /\ InOrder(c, d)
             /\ Outstanding(c) \subseteq Outstanding(d)
             /\ \A n \in Nat : UpTo(c, n) => UpTo(d, n)
  <1> DEFINE e == [c EXCEPT !.debounce_source = FALSE, !.pending_ready = TRUE]
             d == StartPendingWrite(e)
  <1>0. DebounceElapsed(c) = d
    BY DEF DebounceElapsed
  <1>1. e \in Controller /\ e.active = c.active /\ e.urgent = c.urgent /\ e.pending = c.pending
    BY DEF Controller
  <1> HIDE DEF e
  <1>2. Outstanding(c) = Outstanding(e) /\ InOrder(c, e)
    BY <1>1, SameOrder
  <1>3. \A n \in Nat : UpTo(c, n) => UpTo(e, n)
    BY <1>1, <1>2 DEF UpTo
  <1>4. /\ InOrder(e, d) /\ Outstanding(e) \subseteq Outstanding(d)
        /\ \A n \in Nat : UpTo(e, n) => UpTo(d, n)
    BY <1>1, StartInOrder, StartUpTo
  <1> HIDE DEF d
  <1> QED
    BY <1>0, <1>2, <1>3, <1>4, InOrderTwice
LEMMA SameAnswer ==
  ASSUME NEW c, OneOfEach(c), Served(c), NEW x \in c.waiters, NEW y \in c.waiters,
         x.generation = y.generation, x.action = y.action
  PROVE  x.request_id = y.request_id
  <1>1. PICK r \in Outstanding(c) : r.request_id = x.request_id /\ SameWrite(r, x.generation, x.action)
    BY DEF Served
  <1>2. PICK s \in Outstanding(c) : s.request_id = y.request_id /\ SameWrite(s, y.generation, y.action)
    BY DEF Served
  <1>3. r = s
    BY <1>1, <1>2 DEF OneOfEach, SameWrite
  <1> QED
    BY <1>1, <1>2, <1>3

LEMMA UpToMore ==
  ASSUME NEW c \in Controller, NEW m \in Nat, NEW n \in Nat, m <= n, UpTo(c, m)
  PROVE  UpTo(c, n)
  <1>1. c.pending.generation \in Nat
    BY BoundsAssumption DEF Controller, DraftWriteRequest, NoRequest, Generations
  <1>2. \A r \in Outstanding(c) : r.generation \in Nat
    BY OutstandingType, BoundsAssumption DEF DraftWriteRequest, Generations
  <1> QED
    BY <1>1, <1>2 DEF UpTo

--------------------------------------------------------------------------------
(* The order of the answers: who closes waits for nothing newer.             *)

Waited == \A cb \in callbacks : \E x \in ctl.waiters : x.flush = cb.flush

InTurn ==
  \A cb \in callbacks, x \in ctl.waiters, r, s \in Outstanding(ctl) :
    cb.op = "close" /\ x.flush = cb.flush /\ r.request_id = x.request_id /\ Before(ctl, s, r)
      => s.generation <= r.generation

Queueing == UpTo(ctl, compose_generation) /\ OneOfEach(ctl) /\ Waited /\ InTurn

(* What a step of the composer does to the order of the requests. *)
LEMMA WriterInOrder ==
  ASSUME Base, Step, UpTo(ctl, compose_generation)
  PROVE  /\ InOrder(ctl, ctl') /\ UpTo(ctl', compose_generation')
         /\ Outstanding(ctl) \subseteq Outstanding(ctl') \/ (\E w \in workers : Receives(w))
  <1>t. ctl \in Controller /\ IdsOK(ctl) /\ flushes \in Nat
    BY DEF Base, IInv, TypeOK
  <1>w. WriterStep
    BY Writes
  <1>n. /\ compose_generation \in Nat /\ compose_generation' \in Nat
        /\ compose_generation <= compose_generation'
    BY <1>w, BaseIs, StepTyped, TextsAre DEF Texted, WriterStep
  <1>u. UpTo(ctl, compose_generation')
    BY <1>t, <1>n, UpToMore
  <1>1. CASE ctl' = ctl
    BY <1>1, <1>u, SameOrder
  <1>2. ASSUME NEW g \in Generations, NEW a \in RecoveryAction, g <= compose_generation', ScheduleEdit(g, a)
        PROVE  InOrder(ctl, ctl') /\ UpTo(ctl', compose_generation') /\ Outstanding(ctl) \subseteq Outstanding(ctl')
    <2>1. ctl' = Schedule(ctl, g, a)
      BY <1>2 DEF ScheduleEdit
    <2> QED
      BY <2>1, <1>2, <1>n, <1>t, <1>u, ScheduleInOrder
  <1>3. ASSUME NEW g \in Generations, NEW a \in RecoveryAction, NEW op \in FlushOps, FlushStep(g, a, op)
        PROVE  InOrder(ctl, ctl') /\ UpTo(ctl', compose_generation') /\ Outstanding(ctl) \subseteq Outstanding(ctl')
    <2>1. ctl' = Flush(ctl, g, a, flushes + 1) /\ g <= compose_generation' /\ flushes + 1 \in Nat \ {0}
      BY <1>3, <1>t DEF FlushStep, FlushThen, FlushBoundary
    <2> QED
      BY <2>1, <1>n, <1>t, <1>u, FlushInOrder
  <1>4. CASE DebounceFires
    <2>1. ctl' = DebounceElapsed(ctl)
      BY <1>4 DEF DebounceFires
    <2> QED
      BY <2>1, <1>n, <1>t, <1>u, ElapsedInOrder
  <1>5. CASE ResumeWrites
    <2>1. ctl' = StartPendingWrite(ctl)
      BY <1>5 DEF ResumeWrites
    <2> QED
      BY <2>1, <1>n, <1>t, <1>u, StartInOrder, StartUpTo
  <1>6. ASSUME NEW w \in workers, Receives(w)
        PROVE  InOrder(ctl, ctl') /\ UpTo(ctl', compose_generation')
    <2>1. ctl' = ReleaseActive(ctl)
      BY <1>6 DEF Receives, FinishWrite
    <2> QED
      BY <2>1, <1>n, <1>t, <1>u, ReleaseInOrder
  <1>7. NoFlush => ctl' = ctl
    BY DEF NoFlush
  <1>8. (\E w \in workers : WorkerStep(w)) => ctl' = ctl
    BY DEF WorkerStep, WriterCommits, WriterSucceeds, WriterFails
  <1> QED
    BY <1>w, <1>1, <1>2, <1>3, <1>4, <1>5, <1>6, <1>7, <1>8 DEF WriterStep

(* A callback waits until its waiter is answered. *)
LEMMA WaitedKept ==
  ASSUME Base, Step, Waited
  PROVE  Waited'
  <1>w. WriterStep
    BY Writes
  <1>1. CASE callbacks' = callbacks /\ ctl'.waiters = ctl.waiters
    BY <1>1 DEF Waited
  <1>2. ASSUME NEW w \in workers, Receives(w) PROVE Waited'
    <2>1. ctl'.waiters = ctl.waiters \ ReadyWaiters(ctl)
      BY <1>2 DEF Receives, FinishWrite, ReleaseActive, Base, IInv, TypeOK, Controller
    <2>2. callbacks' = callbacks \ {cb \in callbacks : \E x \in ReadyWaiters(ctl) : x.flush = cb.flush}
      BY <1>2 DEF Receives
    <2> QED
      BY <2>1, <2>2 DEF Waited
  <1>3. ASSUME NEW g \in Generations, NEW a \in RecoveryAction, NEW op \in FlushOps, FlushStep(g, a, op)
        PROVE  Waited'
    <2>1. PICK y \in FlushWaiter : ctl'.waiters = ctl.waiters \cup {y} /\ y.flush = flushes + 1
      BY <1>3, FlushedIs
    <2> DEFINE n == NewCallback(op, g)
    <2>2. n.flush = flushes + 1
      BY NewIs
    <2>3. callbacks' = callbacks \cup {n}
      BY <1>3 DEF FlushStep, FlushThen, NewCallback
    <2> HIDE DEF n
    <2> QED
      BY <2>1, <2>2, <2>3 DEF Waited
  <1> QED
    BY <1>1, <1>2, <1>3, <1>w, WaitersAre

LEMMA InTurnKept ==
  ASSUME Base, Registered, Queueing, Step
  PROVE  InTurn'
  <1>w. WriterStep
    BY Writes
  <1>b. Base'
    BY BaseKept
  <1>t. /\ ctl \in Controller /\ ctl' \in Controller /\ UniqueIds(ctl)
        /\ UniqueIds(ctl') /\ Served(ctl) /\ Served(ctl')
    BY <1>b DEF Base, IInv, TypeOK, WaitersServed, Served, IdsOK
  <1>o. /\ InOrder(ctl, ctl') /\ UpTo(ctl', compose_generation')
        /\ Outstanding(ctl) \subseteq Outstanding(ctl') \/ (\E w \in workers : Receives(w))
    BY WriterInOrder DEF Queueing
  <1>n. \A r \in Outstanding(ctl') : r.generation \in Nat
    BY <1>t, OutstandingType, BoundsAssumption DEF DraftWriteRequest, Generations
  <1>1. ASSUME NEW cb \in callbacks', NEW x \in ctl'.waiters, NEW r \in Outstanding(ctl'), NEW s \in Outstanding(ctl'),
               cb.op = "close", x.flush = cb.flush, r.request_id = x.request_id, Before(ctl', s, r), s # r
        PROVE  s.generation <= r.generation
    <2>1. CASE cb \in callbacks /\ x \in ctl.waiters
      <3>1. r \in Outstanding(ctl)
        <4>1. CASE \E w \in workers : Receives(w)
          <5>1. ctl' = ReleaseActive(ctl)
            BY <4>1 DEF Receives, FinishWrite
          <5> QED
            BY <5>1, <1>t, <1>1, ReleaseInOrder
        <4>2. CASE Outstanding(ctl) \subseteq Outstanding(ctl')
          <5>1. PICK q \in Outstanding(ctl) : q.request_id = x.request_id
            BY <1>t, <2>1 DEF Served
          <5>2. q = r
            BY <1>1, <1>t, <4>2, <5>1 DEF UniqueIds
          <5> QED
            BY <5>2
        <4> QED
          BY <4>1, <4>2, <1>o
      <3>2. Before(ctl, s, r)
        BY <1>1, <1>o, <3>1 DEF InOrder
      <3>3. s \in Outstanding(ctl)
        BY <3>2 DEF Before
      <3> QED
        BY <1>1, <2>1, <3>1, <3>2, <3>3 DEF Queueing, InTurn
    <2>2. ASSUME NEW g \in Generations, NEW a \in RecoveryAction, NEW op \in FlushOps,
                 FlushStep(g, a, op), cb = NewCallback(op, g), x.generation = g
          PROVE  s.generation <= r.generation
      <3>1. g = compose_generation'
        BY <1>1, <2>2, NewIs DEF FlushStep, Origin
      <3>2. PICK q \in Outstanding(ctl') : q.request_id = x.request_id /\ q.generation = x.generation
        BY <1>t DEF Served, SameWrite
      <3>3. q = r
        BY <1>1, <1>t, <3>2 DEF UniqueIds
      <3>4. s.generation <= compose_generation'
        BY <1>o DEF UpTo
      <3> QED
        BY <2>2, <3>1, <3>2, <3>3, <3>4
    <2> QED
      BY <1>1, <1>w, <2>1, <2>2, Pairs
  <1>2. \A r \in Outstanding(ctl') : r.generation <= r.generation
    BY <1>n
  <1> QED
    BY <1>1, <1>2 DEF InTurn

LEMMA QueueingKept ==
  ASSUME Base, Registered, Queueing, Step
  PROVE  Queueing'
  <1>1. InOrder(ctl, ctl') /\ UpTo(ctl', compose_generation')
    BY WriterInOrder DEF Queueing
  <1> QED
    BY <1>1, InTurnKept, WaitedKept DEF Queueing, InOrder

--------------------------------------------------------------------------------
(* What the draft holds, or will, is no newer than a close that waits.       *)

Saved(v) == v.phase \in {"writing", "replacing", "saved"}

ClosedSince ==
  /\ \A cb \in All : cb.op = "save boundary" => save.fields <= cb.generation
  /\ \A cb \in All : cb.op = "close" => active_draft.saved_fields <= cb.generation
  /\ Saved(save) \/ (\E b \in delivering : b.op = "save boundary") =>
       \A cb \in All : cb.op = "close" => save.fields <= cb.generation

(* A save in progress keeps what it captured until it ends. *)
LEMMA SaveFieldsAre ==
  ASSUME Base, Registered, Step
  PROVE  /\ save.phase # "idle" => save'.fields = save.fields \/ save'.fields = Blank
         /\ Saved(save') => /\ save'.fields = save.fields
                            /\ Saved(save) \/ (SaveBoundaryFlushed /\ outcome = "ok")
  <1>1. CASE save' = save
    BY <1>1
  <1>2. ASSUME NEW f \in Texts, NEW d \in DraftRefs, Saves(f, d)
        PROVE  save.phase = "idle" /\ save'.phase = "boundary"
    BY <1>2, NothingIs DEF Saves, Idle, StartCapturedSave, SaveIs
  <1>3. CASE Reconciles
    BY <1>3, NothingIs DEF Reconciles, Idle, SaveIs, Saved
  <1>4. CASE AcceptDelete
    BY <1>4, NothingIs DEF AcceptDelete, AcceptConfirmation, OperationAllowed, StartDelete, SaveIs, Saved
  <1>5. CASE Ends
    BY <1>5, NothingIs DEF Ends, Saved
  <1>6. CASE SaveGoes
    BY <1>6 DEF SaveGoes, Saved
  <1>7. CASE \/ SendGoes
             \/ (\E kind \in Questions, g \in Generations, f \in Texts, d \in DraftRefs : Asks(kind, g, f, d))
             \/ (\E f \in Texts, d \in DraftRefs, g \in Generations : Sends(f, d, g))
    BY <1>1, <1>7 DEF SendGoes, Asks, Sends
  <1> QED
    BY <1>1, <1>2, <1>3, <1>4, <1>5, <1>6, <1>7, Ways DEF Saved

LEMMA ClosedSinceKept ==
  ASSUME Base, Registered, Answers, Queueing, ClosedSince, Step
  PROVE  ClosedSince'
  <1>w. WriterStep
    BY Writes
  <1>b. Base' /\ Registered'
    BY BaseKept, RegisteredKept
  <1>t. /\ active_draft.saved_fields \in Nat /\ active_draft'.saved_fields \in Nat
        /\ save.fields \in Nat /\ save'.fields \in Nat /\ Blank = 0 /\ NoActiveDraft.saved_fields = 0
        /\ active_draft'.saved_fields <= compose_generation' /\ save'.fields <= compose_generation'
        /\ save \in SaveIs
    <2>1. Texted /\ Recorded /\ Texted' /\ Recorded'
      BY BaseIs, StepTyped
    <2> QED
      BY <2>1, TextsAre DEF Texted, Recorded, DraftRefs, SaveIs
  <1>g. \A cb \in All : cb.generation \in Nat
    BY BaseIs, TextsAre DEF All, FlushCallbacks
  <1>c. \A cb \in All' : \/ cb \in All
                         \/ cb.generation = compose_generation' \/ cb.op \notin {"close", "save boundary"}
    <2>1. ASSUME NEW g \in Generations, NEW a \in RecoveryAction, NEW op \in FlushOps, FlushStep(g, a, op)
          PROVE  LET n == NewCallback(op, g)
                 IN  n.generation = compose_generation' \/ n.op \notin {"close", "save boundary"}
      <3>1. op = "close" => g = compose_generation'
        BY <2>1 DEF FlushStep, Origin
      <3>2. op = "save boundary" => g = compose_generation'
        BY <2>1 DEF FlushStep, Origin, Saves, KeepComposer
      <3> QED
        BY <3>1, <3>2, NewIs
    <2> QED
      BY <2>1, <1>w, AllAre DEF Registered
  <1>s. ASSUME NEW cb \in All, cb.op = "save boundary"
        PROVE  save'.fields = save.fields \/ save'.fields = 0
    <2>1. save.phase # "idle"
      BY <1>s DEF Registered, Linked, SaveLinked
    <2> QED
      BY <2>1, <1>t, SaveFieldsAre
  <1>1. ASSUME NEW cb \in All', cb.op = "save boundary" PROVE save'.fields <= cb.generation
    <2>1. CASE cb \in All
      <3>1. save.fields <= cb.generation
        BY <1>1, <2>1 DEF ClosedSince
      <3>2. save'.fields = save.fields \/ save'.fields = 0
        BY <1>1, <1>s, <2>1
      <3>3. cb.generation \in Nat
        BY <1>g, <2>1
      <3> QED
        BY <3>1, <3>2, <3>3
    <2> QED
      BY <1>1, <1>c, <1>t, <2>1
  <1>2. ASSUME NEW cb \in All', cb.op = "close" PROVE active_draft'.saved_fields <= cb.generation
    <2>1. CASE cb \in All
      <3>1. active_draft.saved_fields <= cb.generation
        BY <1>2, <2>1 DEF ClosedSince
      <3>2. Saved(save) => save.fields <= cb.generation
        BY <1>2, <2>1 DEF ClosedSince
      <3> QED
        BY <3>1, <3>2, <2>1, <1>g, <1>t, ActiveMoves DEF Saved
    <2> QED
      BY <1>2, <1>c, <1>t, <2>1
  <1>3. ASSUME NEW cb \in All', cb.op = "close", Saved(save') PROVE save'.fields <= cb.generation
    <2>1. CASE cb \in All
      <3>1. save'.fields = save.fields /\ (Saved(save) \/ (SaveBoundaryFlushed /\ outcome = "ok"))
        BY <1>3, SaveFieldsAre
      <3>2. SaveBoundaryFlushed => First \in delivering /\ First.op = "save boundary"
        BY BaseIs, FirstIs DEF SaveBoundaryFlushed, Callback
      <3> QED
        BY <1>3, <2>1, <3>1, <3>2 DEF ClosedSince
    <2> QED
      BY <1>3, <1>c, <1>t, <2>1
  <1>4. ASSUME NEW cb \in All', cb.op = "close", NEW b \in delivering', b.op = "save boundary"
        PROVE  save'.fields <= cb.generation
    <2>1. CASE cb \notin All
      BY <1>4, <1>c, <1>t, <2>1
    <2>2. CASE cb \in All /\ delivering' \subseteq delivering
      <3>1. save.fields <= cb.generation
        BY <1>4, <2>2 DEF ClosedSince
      <3>2. save'.fields = save.fields \/ save'.fields = 0
        BY <1>4, <1>s, <2>2 DEF All
      <3>3. cb.generation \in Nat
        BY <1>g, <2>2
      <3> QED
        BY <3>1, <3>2, <3>3
    <2>3. ASSUME NEW w \in workers, ReceiveResult(w), cb \in All PROVE save'.fields <= cb.generation
      <3>1. Receives(w) /\ save' = save
        BY <2>3 DEF ReceiveResult, Receives
      <3>2. /\ \A d \in delivering' : d \in callbacks /\ d.generation = ctl.active.generation
            /\ ctl.active \in Outstanding(ctl) /\ callbacks' \subseteq callbacks
        BY <3>1, ReceivedIs DEF Base, Answers, Matched
      <3>3. save.fields <= ctl.active.generation
        BY <1>4, <3>2 DEF ClosedSince, All
      <3>4. CASE cb \in delivering'
        BY <3>1, <3>2, <3>3, <3>4
      <3>5. CASE cb \in callbacks'
        <4>1. PICK x \in ctl.waiters : x.flush = cb.flush
          BY <3>2, <3>5 DEF Queueing, Waited
        <4>2. PICK r \in Outstanding(ctl) : r.request_id = x.request_id /\ r.generation = x.generation
          BY DEF Base, IInv, WaitersServed, SameWrite
        <4>3. cb.generation = r.generation
          BY <3>2, <3>5, <4>1, <4>2 DEF Answers, Matched
        <4>4. ctl.active.generation <= r.generation
          BY <1>4, <3>2, <3>5, <4>1, <4>2 DEF Queueing, InTurn, Before
        <4>5. ctl.active.generation \in Nat /\ r.generation \in Nat
          BY <3>2, <4>2, OutstandingType, BoundsAssumption DEF Base, IInv, TypeOK, DraftWriteRequest, Generations
        <4> QED
          BY <3>1, <3>3, <4>3, <4>4, <4>5, <1>t
      <3> QED
        BY <1>4, <3>4, <3>5 DEF All
    <2> QED
      BY <2>1, <2>2, <2>3, OutcomeMoves
  <1> QED
    BY <1>1, <1>2, <1>3, <1>4 DEF ClosedSince

--------------------------------------------------------------------------------
(* The window closes only when the text is on disk or was given up.          *)

(* Only a deletion, and so giving the text up, can take the draft that holds it. *)
CloseBacked ==
  /\ HeldByDraft /\ confirmation.kind # "save"
  /\ save.phase \in {"idle", "reconciling"} /\ send.phase \in {"idle", "flushing"}

(* A send that waits joined the write that the close waits for, after it. *)
SendsAfter(cb, x) ==
  /\ \A sb \in callbacks, y \in ctl.waiters :
       sb.op = "send" /\ y.flush = sb.flush => cb.flush < sb.flush /\ y.request_id = x.request_id
  /\ \A sb \in delivering : sb.op # "send"

CloseWaits(cb, x) ==
  \/ fields \in x.action \cup {Blank} \cup given_up
  \/ CloseBacked /\ x.action = Clear /\ SendsAfter(cb, x)

CloseRuns(cb) ==
  \/ fields \in recovery \cup {Blank} \cup given_up
  \/ CloseBacked /\ \A sb \in All : sb.op = "send" => sb \in delivering /\ cb.flush < sb.flush

CloseHeld ==
  /\ \A cb \in callbacks, x \in ctl.waiters :
       cb.op = "close" /\ x.flush = cb.flush /\ cb.generation = compose_generation => CloseWaits(cb, x)
  /\ \A cb \in delivering :
       cb.op = "close" /\ outcome = "ok" /\ cb.generation = compose_generation => CloseRuns(cb)

(* The draft that holds the text stays, unless a send of it is let go or it is deleted. *)
LEMMA BackedKept ==
  ASSUME Base, Registered, Texting, Step, CloseBacked, compose_generation' = compose_generation,
         fields \notin given_up'
  PROVE  CloseBacked' \/ SendFlushed
  <1>t. send \in SendIs /\ save \in SaveIs /\ confirmation \in QuestionIs
        /\ ~(compose_generation < compose_generation)
    <2>1. compose_generation \in Nat
      BY BaseIs, TextsAre DEF Texted
    <2> QED
      BY <2>1, BaseIs, RecordedIs
  <1>h. HeldByDraft'
    <2>1. active_draft' = active_draft
      BY <1>t, ActiveMoves DEF CloseBacked
    <2>2. fields' = fields
      BY TextMoves
    <2> QED
      BY <2>1, <2>2 DEF CloseBacked, HeldByDraft
  <1>n. NoConfirmation.kind = "none" /\ [NoConfirmation EXCEPT !.kind = "close"].kind = "close"
    BY DEF NoConfirmation
  <1>1. CASE send' = send /\ save' = save /\ confirmation' \in {confirmation, NoConfirmation}
    BY <1>1, <1>h, <1>n DEF CloseBacked
  <1>2. ASSUME NEW kind \in Questions, NEW g \in Generations, NEW f \in Texts, NEW d \in DraftRefs,
               Asks(kind, g, f, d)
        PROVE  CloseBacked'
    <2>1. confirmation'.kind = kind /\ kind # "save" /\ send' = send /\ save' = save
      BY <1>2 DEF Asks, CloseBacked, HeldByDraft
    <2> QED
      BY <2>1, <1>h DEF CloseBacked
  <1>3. ASSUME NEW f \in Texts, NEW d \in DraftRefs, NEW g \in Generations, Sends(f, d, g)
        PROVE  CloseBacked'
    <2>1. send'.phase = "flushing" /\ save' = save /\ confirmation' = NoConfirmation
      BY <1>3 DEF Sends, StartCapturedSend
    <2> QED
      BY <2>1, <1>h, <1>n DEF CloseBacked
  <1>4. ASSUME NEW f \in Texts, NEW d \in DraftRefs, Saves(f, d)
        PROVE  FALSE
    BY <1>4 DEF Saves, CloseBacked, HeldByDraft
  <1>5. CASE Reconciles
    <2>1. save'.phase = "reconciling" /\ send' = send /\ confirmation' = NoConfirmation
      BY <1>5, NothingIs DEF Reconciles, SaveIs
    <2> QED
      BY <2>1, <1>h, <1>n DEF CloseBacked
  <1>6. ASSUME AcceptDelete PROVE FALSE
    BY <1>6 DEF AcceptDelete
  <1>7. CASE Ends
    <2>1. confirmation' = confirmation \/ confirmation' = [NoConfirmation EXCEPT !.kind = "close"]
      BY <1>7, BaseIs, AfterActivity DEF Ends
    <2>2. send'.phase \in {"idle", "flushing"} /\ save'.phase \in {"idle", "reconciling"}
      BY <1>7, NothingIs DEF Ends, CloseBacked
    <2> QED
      BY <2>1, <2>2, <1>h, <1>n DEF CloseBacked
  <1>8. CASE SendGoes
    BY <1>8 DEF SendGoes, CloseBacked
  <1>9. ASSUME SaveGoes PROVE FALSE
    BY <1>9 DEF SaveGoes, CloseBacked
  <1>10. CASE send.phase = "flushing" /\ send' = NoSend /\ save' = save /\ confirmation' = confirmation
    BY <1>10, <1>h, NothingIs DEF CloseBacked
  <1> QED
    BY <1>1, <1>2, <1>3, <1>4, <1>5, <1>6, <1>7, <1>8, <1>9, <1>10, Ways

(* A send of the text that the draft holds needs no recovery file either. *)
LEMMA SendClears ==
  ASSUME Base, Texting, CloseBacked, fields # Blank, NEW f \in Texts, NEW d \in DraftRefs, NEW g \in Generations,
         Sends(f, d, g)
  PROVE  g = compose_generation /\ RecoveryActionFor(f, active_draft) = Clear
  <1>1. confirmation.kind = "send" /\ f = confirmation.fields /\ g = confirmation.generation
    BY DEF Sends, CloseBacked, HeldByDraft
  <1>2. g = compose_generation /\ f = fields
    BY <1>1 DEF Texting, Captured, AskedText
  <1> QED
    BY <1>2 DEF RecoveryActionFor, CloseBacked, HeldByDraft

(* A close that is registered finds the text in its action or in the draft. *)
LEMMA CloseStarts ==
  ASSUME Base, Registered, Texting, ClosedSince, Step, NEW g \in Generations, NEW a \in RecoveryAction,
         FlushStep(g, a, "close"), NEW cb, NEW x, x.action = a
  PROVE  CloseWaits(cb, x)'
  <1>b. Base' /\ Registered'
    BY BaseKept, RegisteredKept
  <1>t. fields' \in Texts /\ compose_generation \in Nat /\ fields \in {Blank, compose_generation}
        /\ window \in WindowIs /\ delivering \subseteq FlushCallbacks
    BY StepTyped, BaseIs, TextsAre DEF Texted
  <1>n. /\ NoConfirmation.kind = "none" /\ [NoConfirmation EXCEPT !.kind = "close"].kind = "close"
        /\ NoSend.phase = "idle" /\ NoSave.phase = "idle"
    BY NothingIs DEF NoConfirmation
  <1>o. /\ a = RecoveryActionFor(fields', active_draft')
        /\ (~window.close_flush /\ (Closes \/ Ends)) \/ CloseFlushed
    BY DEF FlushStep, Origin
  <1>a. \/ fields' \in a \cup {Blank}
        \/ a = Clear /\ HeldByDraft'
    BY <1>o, <1>t, RecoveryIs DEF Persist, HeldByDraft
  <1>i. send'.phase = "idle" => \A sb \in All' : sb.op # "send"
    BY <1>b DEF Registered, Linked, SendLinked
  <1>1. CASE Closes
    <2>1. send' = send /\ save' = save /\ confirmation' = NoConfirmation /\ Idle
      BY <1>1 DEF Closes
    <2> QED
      BY <2>1, <1>a, <1>i, <1>n DEF CloseWaits, CloseBacked, SendsAfter, Idle, All
  <1>2. CASE Ends
    <2>1. send'.phase = "idle" /\ save'.phase = "idle" /\ ~Idle
      BY <1>2, <1>n, EndsIs DEF Texting, Exclusive, Idle
    <2>2. confirmation = NoConfirmation
      BY <2>1 DEF Texting, Exclusive, Asking
    <2>3. confirmation' = confirmation \/ confirmation' = [NoConfirmation EXCEPT !.kind = "close"]
      BY <1>2, <1>t, AfterActivity DEF Ends
    <2> QED
      BY <2>1, <2>2, <2>3, <1>a, <1>i, <1>n DEF CloseWaits, CloseBacked, SendsAfter, All
  <1>3. CASE CloseFlushed
    <2>1. ~Current /\ fields' = fields /\ active_draft' = active_draft
      BY <1>3 DEF CloseFlushed, FlushStep, FlushThen, FlushBoundary, NoFlush, KeepComposer, Base, IInv, TypeOK
    <2>2. First \in delivering /\ First.op = "close"
      BY <1>3, <1>t, FirstIs DEF CloseFlushed, Callback
    <2>3. First.generation <= compose_generation /\ active_draft.saved_fields <= First.generation
      BY <2>2, BaseIs DEF ClosedSince, All
    <2>4. First.generation \in Nat /\ active_draft.saved_fields \in Nat
      BY <2>2, <1>t, BaseIs, TextsAre DEF FlushCallbacks, Texted, DraftRefs
    <2>5. active_draft.saved_fields # compose_generation
      BY <2>1, <2>3, <2>4, <1>t DEF Current
    <2>6. HeldByDraft' => fields' = Blank
      BY <2>1, <2>5, <1>t DEF HeldByDraft
    <2> QED
      BY <2>6, <1>a DEF CloseWaits
  <1> QED
    BY <1>o, <1>1, <1>2, <1>3

(* A close that waits stays held. *)
LEMMA CloseWaitsKept ==
  ASSUME Base, Registered, Texting, Answers, Queueing, CloseHeld, Step,
         NEW cb \in callbacks, cb \in callbacks', NEW x \in ctl.waiters, x \in ctl'.waiters,
         cb.op = "close", x.flush = cb.flush, cb.generation = compose_generation'
  PROVE  CloseWaits(cb, x)'
  <1>w. WriterStep
    BY Writes
  <1>s. compose_generation' = compose_generation /\ fields' = fields /\ given_up \subseteq given_up'
    BY StillCurrent, TextMoves DEF All
  <1>t. delivering \subseteq FlushCallbacks /\ callbacks \subseteq FlushCallbacks /\ ctl \in Controller
    BY BaseIs DEF Base, IInv, TypeOK
  <1>h. CloseWaits(cb, x)
    BY <1>s DEF CloseHeld
  <1>1. CASE fields \in x.action \cup {Blank} \cup given_up
    BY <1>1, <1>s DEF CloseWaits
  <1>2. ASSUME fields \notin {Blank} \cup given_up', CloseBacked, x.action = Clear, SendsAfter(cb, x)
        PROVE  CloseBacked' /\ SendsAfter(cb, x)'
    <2>1. ~SendFlushed
      BY <1>2, <1>t, FirstIs DEF SendFlushed, Callback, SendsAfter
    <2>2. CloseBacked'
      BY <1>2, <1>s, <2>1, BackedKept
    <2>3. ASSUME NEW sb \in callbacks', NEW y \in ctl'.waiters, sb.op = "send", y.flush = sb.flush
          PROVE  cb.flush < sb.flush /\ y.request_id = x.request_id
      <3>1. CASE sb \in callbacks /\ y \in ctl.waiters
        BY <1>2, <2>3, <3>1 DEF SendsAfter
      <3>2. ASSUME NEW g \in Generations, NEW a \in RecoveryAction, NEW op \in FlushOps,
                   FlushStep(g, a, op), sb = NewCallback(op, g), y.generation = g, y.action = a
            PROVE  cb.flush < sb.flush /\ y.request_id = x.request_id
        <4>1. op = "send" /\ sb.flush = flushes + 1 /\ flushes \in Nat
          BY <2>3, <3>2, NewIs
        <4>2. cb.flush \in Nat /\ cb.flush <= flushes
          BY <1>t DEF Registered, Numbered, All, FlushCallbacks
        <4>3. PICK f \in Texts, d \in DraftRefs : Sends(f, d, g) /\ a = RecoveryActionFor(f, active_draft)
          BY <3>2, <4>1 DEF FlushStep, Origin
        <4>4. g = compose_generation /\ a = Clear
          BY <1>2, <4>3, SendClears
        <4>5. x.generation = y.generation /\ x.action = y.action
          BY <1>2, <1>s, <3>2, <4>4 DEF Answers, Matched
        <4>6. OneOfEach(ctl') /\ Served(ctl')
          BY QueueingKept, BaseKept DEF Queueing, Base, IInv, WaitersServed, Served
        <4>7. y.request_id = x.request_id
          BY <4>5, <4>6, SameAnswer
        <4> QED
          BY <4>1, <4>2, <4>7
      <3> QED
        BY <2>3, <3>1, <3>2, <1>w, Pairs
    <2>4. ASSUME NEW sb \in delivering', sb.op = "send" PROVE FALSE
      <3>1. CASE delivering' \subseteq delivering
        BY <1>2, <2>4, <3>1 DEF SendsAfter
      <3>2. ASSUME NEW w \in workers, ReceiveResult(w) PROVE FALSE
        <4>1. Receives(w)
          BY <3>2 DEF ReceiveResult, Receives
        <4>2. PICK y \in ctl.waiters : sb \in callbacks /\ y.flush = sb.flush /\ y.request_id = ctl.active.request_id
          BY <2>4, <4>1, ReceivedIs DEF Base
        <4>3. y.request_id = x.request_id
          BY <1>2, <2>4, <4>2 DEF SendsAfter
        <4>4. ctl'.waiters = ctl.waiters \ ReadyWaiters(ctl)
          BY <4>1, <1>t DEF Receives, FinishWrite, ReleaseActive, Controller
        <4> QED
          BY <4>2, <4>3, <4>4 DEF ReadyWaiters
      <3> QED
        BY <3>1, <3>2, OutcomeMoves
    <2> QED
      BY <2>2, <2>3, <2>4 DEF SendsAfter
  <1> QED
    BY <1>1, <1>2, <1>h, <1>s DEF CloseWaits

(* A close whose flush succeeds finds its action on disk. *)
LEMMA CloseReceived ==
  ASSUME Base, Registered, Answers, Queueing, CloseHeld, Step, NEW w \in workers, ReceiveResult(w),
         NEW cb \in delivering', cb.op = "close", outcome' = "ok", cb.generation = compose_generation'
  PROVE  CloseRuns(cb)'
  <1>1. Receives(w) /\ outcome' = w.phase
        /\ UNCHANGED <<compose_generation, fields, active_draft, confirmation, send, save, given_up>>
    BY DEF ReceiveResult, Receives
  <1>2. PICK x \in ctl.waiters : /\ cb \in callbacks /\ x.flush = cb.flush
                                 /\ x.request_id = ctl.active.request_id /\ x.action = ctl.active.action
    BY <1>1, ReceivedIs DEF Base
  <1>3. recovery' = x.action /\ callbacks' \subseteq callbacks /\ \A sb \in delivering' : sb \in callbacks
    BY <1>1, <1>2, ReceivedIs DEF Base
  <1>4. CloseWaits(cb, x)
    BY <1>1, <1>2 DEF CloseHeld
  <1>5. CASE fields \in x.action \cup {Blank} \cup given_up
    BY <1>1, <1>3, <1>5 DEF CloseRuns
  <1>6. ASSUME CloseBacked, SendsAfter(cb, x) PROVE CloseRuns(cb)'
    <2>1. CloseBacked'
      BY <1>1, <1>6 DEF CloseBacked, HeldByDraft
    <2>2. ASSUME NEW sb \in All', sb.op = "send" PROVE sb \in delivering' /\ cb.flush < sb.flush
      <3>1. sb \in callbacks
        BY <1>3, <2>2 DEF All
      <3>2. PICK y \in ctl.waiters : y.flush = sb.flush
        BY <3>1 DEF Queueing, Waited
      <3>3. cb.flush < sb.flush /\ y.request_id = ctl.active.request_id
        BY <1>2, <1>6, <2>2, <3>1, <3>2 DEF SendsAfter
      <3>4. sb \in delivering'
        BY <1>1, <3>1, <3>2, <3>3 DEF Receives, ReadyWaiters
      <3> QED
        BY <3>3, <3>4
    <2> QED
      BY <2>1, <2>2 DEF CloseRuns
  <1> QED
    BY <1>4, <1>5, <1>6 DEF CloseWaits

(* A close that is about to run stays held. *)
LEMMA CloseRunsKept ==
  ASSUME Base, Registered, Texting, Answers, CloseHeld, Step, delivering' \subseteq delivering, outcome' = outcome,
         NEW cb \in delivering', cb.op = "close", outcome = "ok", cb.generation = compose_generation'
  PROVE  CloseRuns(cb)'
  <1>w. WriterStep
    BY Writes
  <1>s. compose_generation' = compose_generation /\ fields' = fields /\ given_up \subseteq given_up' /\ cb \in delivering
    BY StillCurrent, TextMoves DEF All
  <1>t. delivering \subseteq FlushCallbacks /\ callbacks \cap delivering = {} /\ finishing
    BY <1>s, BaseIs DEF Registered, Numbered
  <1>h. CloseRuns(cb)
    BY <1>s DEF CloseHeld
  <1>r. recovery' = recovery
    <2>1. workers = {}
      BY <1>s DEF Answers, Rests
    <2> QED
      BY <2>1, <1>w DEF WriterStep, NoFlush, ScheduleEdit, FlushStep, FlushThen, FlushBoundary, DebounceFires,
         ResumeWrites
  <1>c. callbacks' = callbacks
    <2>1. ~(\E w \in workers : Receives(w))
      BY <1>t DEF Receives, FinishWrite
    <2>2. ~(\E g \in Generations, a \in RecoveryAction, op \in FlushOps : FlushStep(g, a, op))
      BY <1>s, NothingNew
    <2> QED
      BY <2>1, <2>2, <1>w, WaitersAre
  <1>1. CASE fields \in recovery \cup {Blank} \cup given_up
    BY <1>1, <1>s, <1>r DEF CloseRuns
  <1>2. ASSUME fields \notin given_up', CloseBacked,
               \A sb \in All : sb.op = "send" => sb \in delivering /\ cb.flush < sb.flush
        PROVE  CloseRuns(cb)'
    <2>1. ~SendFlushed
      <3>1. SendFlushed => First \in delivering /\ First.op = "send" /\ First.flush <= cb.flush
        BY <1>s, <1>t, FirstIs DEF SendFlushed, Callback
      <3>2. \A d \in delivering : d.flush \in Nat
        BY <1>t DEF FlushCallbacks
      <3> QED
        BY <1>2, <1>s, <3>1, <3>2 DEF All
    <2>2. CloseBacked'
      BY <1>2, <1>s, <2>1, BackedKept
    <2>3. \A sb \in All' : sb.op = "send" => sb \in delivering' /\ cb.flush < sb.flush
      BY <1>2, <1>c, <1>t DEF All
    <2> QED
      BY <2>2, <2>3 DEF CloseRuns
  <1> QED
    BY <1>1, <1>2, <1>h, <1>s DEF CloseRuns

LEMMA CloseHeldKept ==
  ASSUME Base, Registered, Texting, Answers, Queueing, ClosedSince, CloseHeld, Step
  PROVE  CloseHeld'
  <1>w. WriterStep
    BY Writes
  <1>1. ASSUME NEW cb \in callbacks', NEW x \in ctl'.waiters,
               cb.op = "close", x.flush = cb.flush, cb.generation = compose_generation'
        PROVE  CloseWaits(cb, x)'
    <2>1. CASE cb \in callbacks /\ x \in ctl.waiters
      BY <1>1, <2>1, CloseWaitsKept
    <2>2. ASSUME NEW g \in Generations, NEW a \in RecoveryAction, NEW op \in FlushOps, FlushStep(g, a, op),
                 cb = NewCallback(op, g), x.action = a
          PROVE  CloseWaits(cb, x)'
      <3>1. op = "close"
        BY <1>1, <2>2, NewIs
      <3> QED
        BY <2>2, <3>1, CloseStarts
    <2> QED
      BY <1>1, <1>w, <2>1, <2>2, Pairs
  <1>2. ASSUME NEW cb \in delivering', cb.op = "close", outcome' = "ok", cb.generation = compose_generation'
        PROVE  CloseRuns(cb)'
    <2>1. ASSUME NEW w \in workers, ReceiveResult(w) PROVE CloseRuns(cb)'
      BY <1>2, <2>1, CloseReceived
    <2>2. CASE outcome' = outcome /\ delivering' \subseteq delivering
      BY <1>2, <2>2, CloseRunsKept
    <2> QED
      BY <2>1, <2>2, OutcomeMoves
  <1> QED
    BY <1>1, <1>2 DEF CloseHeld

ClosingInv == Queueing /\ ClosedSince /\ CloseHeld

(***************************************************************************)
(* The write queue of the composer holds no two requests for the same      *)
(* write, none newer than the composer's generation, and none newer than a *)
(* close ahead of the write that the close waits for: so no save that was  *)
(* asked for after a close ends before it, and the write of an up-to-date  *)
(* close holds the text, or the saved draft goes on holding it.            *)
(***************************************************************************)
THEOREM ClosingInvariance == ComposerSpec => []ClosingInv
  <1>1. ComposerInit => ClosingInv
    <2> SUFFICES ASSUME ComposerInit PROVE ClosingInv
      OBVIOUS
    <2>1. ctl = NewController /\ compose_generation = 0 /\ callbacks = {} /\ delivering = {} /\ save = NoSave
      BY DEF ComposerInit, Init
    <2>2. Outstanding(ctl) = {} /\ ctl.pending.generation = 0
      BY <2>1 DEF Outstanding, NewController, NoRequest
    <2> QED
      BY <2>1, <2>2 DEF ClosingInv, Queueing, UpTo, OneOfEach, Waited, InTurn, ClosedSince, All, CloseHeld
  <1>2. ComposerInv /\ Answered /\ ClosingInv /\ [ComposerNext]_allVars => ClosingInv'
    <2>1. CASE ComposerInv /\ Answered /\ ClosingInv /\ ComposerNext
      <3>1. Step
        BY <2>1, Classified DEF ComposerInv, Base
      <3> QED
        BY <2>1, <3>1, QueueingKept, ClosedSinceKept, CloseHeldKept DEF ComposerInv, Answered, ClosingInv
    <2>2. ASSUME ClosingInv, UNCHANGED allVars PROVE ClosingInv'
      <3>1. UNCHANGED vars /\ UNCHANGED composerVars
        BY <2>2 DEF allVars
      <3>2. Queueing'
        BY <2>2, <3>1 DEF vars, composerVars, ClosingInv, Queueing, UpTo, OneOfEach, Waited, InTurn, Before, Outstanding
      <3>3. ClosedSince'
        BY <2>2, <3>1 DEF vars, composerVars, ClosingInv, ClosedSince, Saved, All
      <3>4. CloseHeld'
        BY <2>2, <3>1 DEF vars, composerVars, ClosingInv, CloseHeld, CloseWaits, CloseRuns, CloseBacked, HeldByDraft,
           SendsAfter, All
      <3> QED
        BY <3>2, <3>3, <3>4 DEF ClosingInv
    <2> QED
      BY <2>1, <2>2
  <1> QED
    BY <1>1, <1>2, ComposerInvariance, AnswersInvariance, PTL DEF ComposerSpec

(* The window closes in the callback of an up-to-date flush, which succeeded. *)
LEMMA ClosesIs ==
  ASSUME Base, Step, window'.closed, ~window.closed
  PROVE  /\ outcome = "ok" /\ First \in delivering /\ First.op = "close"
         /\ First.generation = compose_generation
  <1>t. window \in WindowIs /\ delivering \subseteq FlushCallbacks
    BY BaseIs
  <1>1. CASE Ends
    BY <1>1, <1>t, EndsComposer, AfterActivity
  <1>2. window' # window
    OBVIOUS
  <1>3. CASE Hides \/ Closes \/ Present \/ Reject \/ SendFlushed
    BY <1>3, <1>t DEF Hides, Closes, Present, Reject, SendFlushed, WindowIs
  <1>4. CASE \E kind \in Questions, g \in Generations, f \in Texts, d \in DraftRefs : Asks(kind, g, f, d)
    BY <1>4, <1>t DEF Asks, WindowIs
  <1>5. CASE CloseFlushed
    <2>1. outcome = "ok" /\ Current
      BY <1>5, <1>t DEF CloseFlushed, WindowIs
    <2>2. First \in delivering /\ First.op = "close"
      BY <1>5, <1>t, FirstIs DEF CloseFlushed, Callback
    <2> QED
      BY <2>1, <2>2 DEF Current
  <1>6. CASE Repersists \/ Cleans \/ (SendAccepted /\ send'.phase = "deleting")
    BY <1>2, <1>6, RepersistsIs, CleansIs, DeletingIs
  <1>9. CASE \/ (\E f \in {Blank, compose_generation + 1} : Edit(f))
             \/ Clears \/ Replaces \/ (\E f \in Texts, d \in DraftRefs, g \in Generations : Sends(f, d, g))
             \/ Reconciles \/ (\E f \in Texts, d \in DraftRefs : Saves(f, d)) \/ AcceptDelete \/ CaptureFires
    BY <1>2, <1>9 DEF Edit, Clears, Replaces, Sends, Reconciles, Saves, AcceptDelete, CaptureFires
  <1>10. CASE \/ (MainLoop /\ DebounceFires /\ UNCHANGED composerVars) \/ RecoveryWriter
              \/ (\E w \in workers : ReceiveResult(w)) \/ CallbacksDone \/ ComposerCleared
              \/ (SaveBoundaryFlushed /\ outcome = "ok")
    BY <1>2, <1>10 DEF RecoveryWriter, composerVars, ReceiveResult, CallbacksDone, ComposerCleared, SaveBoundaryFlushed
  <1>11. CASE TransportAccepts \/ TransportRefuses \/ (\E ok \in BOOLEAN : SentDraftDelete(ok))
    BY <1>2, <1>11 DEF TransportAccepts, TransportRefuses, SentDraftDelete, SendWorkerStep
  <1>12. CASE \/ SaveWritesDraft \/ SaveWriteFails \/ SaveDeletesPrevious
              \/ (\E ok \in BOOLEAN : SaveRollsBack(ok)) \/ (\E ok \in BOOLEAN : DeleteSource(ok))
              \/ SaveSucceeded \/ DeleteSucceeded
    BY <1>2, <1>12 DEF SaveWritesDraft, SaveWriteFails, SaveDeletesPrevious, SaveRollsBack, DeleteSource,
         SaveSucceeded, DeleteSucceeded, SaveWorkerStep
  <1> QED
    BY <1>1, <1>3, <1>4, <1>5, <1>6, <1>9, <1>10, <1>11, <1>12 DEF Step, Repersists, Cleans

(***************************************************************************)
(* flush_latest_draft_then_close's callback destroys the window only when  *)
(* what the composer holds is on disk or was given up by the user, however *)
(* many edits, saves, sends and deletions ran while the flush waited.      *)
(***************************************************************************)
THEOREM ClosedWhenDurable == ComposerSpec => CloseKeepsDraft
  <1>1. ASSUME ComposerInv, Stored, ClosingInv, ComposerNext, window'.closed, ~window.closed
        PROVE  fields \in Durable \cup given_up \cup {Blank}
    <2>1. Step
      BY <1>1, Classified DEF ComposerInv, Base
    <2>2. outcome = "ok" /\ First \in delivering /\ First.op = "close" /\ First.generation = compose_generation
      BY <1>1, <2>1, ClosesIs DEF ComposerInv
    <2>3. CloseRuns(First)
      BY <1>1, <2>2 DEF ClosingInv, CloseHeld
    <2>4. CASE CloseBacked
      <3> DEFINE e == [path |-> active_draft.path, content |-> active_draft.saved_fields]
      <3>1. e \in drafts
        BY <1>1, <2>4 DEF Stored, ActiveBacked, Backed, CloseBacked, HeldByDraft
      <3>2. e.content = fields
        BY <2>4 DEF CloseBacked, HeldByDraft
      <3> HIDE DEF e
      <3> QED
        BY <3>1, <3>2 DEF Durable
    <2>5. CASE fields \in recovery \cup {Blank} \cup given_up
      BY <2>5 DEF Durable
    <2> QED
      BY <2>3, <2>4, <2>5 DEF CloseRuns
  <1>2. ComposerInv /\ Stored /\ ClosingInv /\ [ComposerNext]_allVars =>
          [window'.closed /\ ~window.closed => fields \in Durable \cup given_up \cup {Blank}]_allVars
    BY <1>1
  <1> QED
    BY <1>2, ComposerInvariance, DraftFilesInvariance, ClosingInvariance, PTL DEF ComposerSpec, CloseKeepsDraft

--------------------------------------------------------------------------------
(* The debounce timer: what a method leaves of it. *)

(* A flush stops the timer, and strands what it was for only when it joins. *)
LEMMA FlushTimer ==
  ASSUME NEW c \in Controller, IdsOK(c), NEW g \in Generations, NEW a \in RecoveryAction, NEW k \in Nat \ {0}
  PROVE  LET f == Flush(c, g, a, k)
         IN  /\ f.debounce_source = FALSE
             /\ f.pending \in {c.pending, NoRequest}
             /\ \A r \in Outstanding(f) : r \in Outstanding(c) \/ r = c.pending \/ SameWrite(r, g, a)
             /\ Stranded(f) => f.pending = c.pending /\ ~c.pending_ready /\ Joins(c, g, a)
  <1> DEFINE b == CancelDebounce(c)
             q == QueueFlush(b, g, a)
             x == Waiter(b, g, a, k)
             p == [q EXCEPT !.waiters = c.waiters \cup {x}]
             f == StartPendingWrite(p)
  <1>0. Flush(c, g, a, k) = f
    BY DEF Flush
  <1>1. /\ b \in Controller /\ b.active = c.active /\ b.urgent = c.urgent /\ b.debounce_source = FALSE
        /\ b.pending = c.pending /\ b.next_request_id = c.next_request_id /\ b.pending_ready = c.pending_ready
    BY DEF CancelDebounce, Controller
  <1>2. Outstanding(b) = Outstanding(c)
    BY <1>1, SameQueues
  <1> HIDE DEF b
  <1>3. /\ q \in Controller /\ q.debounce_source = FALSE
        /\ \/ q = b /\ Joins(b, g, a)
           \/ q.pending = NoRequest
           \/ q.pending = b.pending /\ q.pending_ready
    <2>1. CASE Joins(b, g, a)
      BY <1>1, <2>1 DEF QueueFlush, Promotes
    <2>2. CASE Promotes(b, g, a)
      <3>1. q = [b EXCEPT !.urgent = Append(b.urgent, b.pending), !.pending = NoRequest, !.pending_ready = FALSE]
        BY <2>2 DEF QueueFlush, Promotes
      <3>2. q \in Controller
        BY <1>1, QueueFlushEffect
      <3> QED
        BY <1>1, <3>1, <3>2 DEF Controller
    <2>3. CASE ~Joins(b, g, a) /\ ~Promotes(b, g, a)
      <3> DEFINE n == KeepNewerPending(b, g)
                 m == MakeRequest(b, g, a)
      <3>1. q = [NextRequestId(n) EXCEPT !.urgent = Append(b.urgent, m)]
        BY <2>3 DEF QueueFlush
      <3>2. n.debounce_source = FALSE /\ (n.pending = NoRequest \/ (n.pending = b.pending /\ n.pending_ready))
        <4>1. CASE b.pending = NoRequest
          BY <1>1, <4>1 DEF KeepNewerPending
        <4>2. CASE b.pending # NoRequest /\ b.pending.generation > g
          <5>1. n = [b EXCEPT !.pending_ready = TRUE]
            BY <4>2 DEF KeepNewerPending
          <5> QED
            BY <1>1, <5>1 DEF Controller
        <4>3. CASE b.pending # NoRequest /\ ~(b.pending.generation > g)
          <5>1. n = [b EXCEPT !.pending = NoRequest, !.pending_ready = FALSE]
            BY <4>3 DEF KeepNewerPending
          <5> QED
            BY <1>1, <5>1 DEF Controller
        <4> QED
          BY <4>1, <4>2, <4>3
      <3>3. n \in Controller
        BY <1>1, KeepNewerEffect
      <3>4. q \in Controller
        BY <1>1, QueueFlushEffect
      <3> HIDE DEF n, m
      <3>5. q.debounce_source = n.debounce_source /\ q.pending = n.pending /\ q.pending_ready = n.pending_ready
        BY <3>1, <3>3 DEF NextRequestId, Controller
      <3> QED
        BY <3>2, <3>4, <3>5
    <2> QED
      BY <2>1, <2>2, <2>3
  <1>4. \A r \in Outstanding(q) : r \in Outstanding(b) \/ r = b.pending \/ SameWrite(r, g, a)
    <2>1. \/ Joined(b, q, FlushRequestId(b, g, a), g, a) \/ Promoted(b, q, FlushRequestId(b, g, a), g, a)
          \/ Appended(b, q, FlushRequestId(b, g, a), g, a)
      BY <1>1, QueueFlushEffect
    <2>2. SameWrite(MakeRequest(b, g, a), g, a)
      BY <1>1, MakeRequestType
    <2> HIDE DEF q
    <2> QED
      BY <2>1, <2>2 DEF Joined, Promoted, Appended
  <1>5. q.pending \in {b.pending, NoRequest}
    BY <1>3
  <1>x. x \in FlushWaiter
    <2>1. \/ Joined(b, q, FlushRequestId(b, g, a), g, a) \/ Promoted(b, q, FlushRequestId(b, g, a), g, a)
          \/ Appended(b, q, FlushRequestId(b, g, a), g, a)
      BY <1>1, QueueFlushEffect
    <2>2. \A r \in DraftWriteRequest : r.request_id \in Nat \ {0}
      BY DEF DraftWriteRequest
    <2>3. Outstanding(b) \subseteq DraftWriteRequest /\ b.pending \in DraftWriteRequest \cup {NoRequest}
          /\ b.next_request_id \in Nat \ {0}
      BY <1>1, OutstandingType DEF Controller
    <2>4. FlushRequestId(b, g, a) \in Nat \ {0}
      <3> HIDE DEF q
      <3> QED
        BY <2>1, <2>2, <2>3 DEF Joined, Promoted, Appended, SameWrite
    <2> QED
      BY <2>4 DEF Waiter, FlushWaiter
  <1> HIDE DEF q, x
  <1>6. /\ p \in Controller /\ p.active = q.active /\ p.urgent = q.urgent /\ p.pending = q.pending
        /\ p.debounce_source = q.debounce_source /\ p.pending_ready = q.pending_ready
    <2>1. c.waiters \cup {x} \in SUBSET FlushWaiter
      BY <1>x DEF Controller
    <2> QED
      BY <1>3, <2>1 DEF Controller
  <1>7. Outstanding(p) = Outstanding(q)
    BY <1>6, SameOrder
  <1> HIDE DEF p
  <1>8. /\ f.debounce_source = FALSE
        /\ (f.pending = p.pending /\ f.pending_ready = p.pending_ready) \/ f.pending = NoRequest
    BY <1>3, <1>6 DEF StartPendingWrite, Controller
  <1>9. /\ f.pending \in {p.pending, NoRequest}
        /\ \A r \in Outstanding(f) : r \in Outstanding(p) \/ r = p.pending
    BY <1>6, StartEffect
  <1> HIDE DEF f
  <1>10. \A r \in Outstanding(f) : r \in Outstanding(c) \/ r = c.pending \/ SameWrite(r, g, a)
    <2>1. \A r \in Outstanding(f) : r # NoRequest
      BY DEF Outstanding
    <2> QED
      BY <2>1, <1>1, <1>2, <1>4, <1>5, <1>6, <1>7, <1>9
  <1>11. Stranded(f) => f.pending = c.pending /\ ~c.pending_ready /\ Joins(c, g, a)
    <2>1. Joins(b, g, a) => Joins(c, g, a)
      BY <1>2 DEF Joins, Joinable
    <2> QED
      BY <2>1, <1>1, <1>3, <1>6, <1>8 DEF Stranded
  <1> QED
    BY <1>0, <1>1, <1>5, <1>6, <1>8, <1>9, <1>10, <1>11

(* The timer is set again, for a write of generation g with action a. *)
Rearmed(g, a) ==
  /\ ctl'.pending # NoRequest /\ ctl'.pending.generation = g /\ ctl'.pending.action = a
  /\ ~ctl'.pending_ready
  /\ Outstanding(ctl') = Outstanding(ctl)

(* The timer runs on, for the same request. *)
RunsOn ==
  /\ ctl.debounce_source
  /\ ctl.pending # NoRequest /\ ~ctl.pending_ready =>
       ctl'.pending = ctl.pending /\ ~ctl'.pending_ready /\ Outstanding(ctl') \subseteq Outstanding(ctl)

(* start_pending_write leaves a pending request alone until it is ready. *)
LEMMA StartTimer ==
  ASSUME NEW c \in Controller
  PROVE  LET d == StartPendingWrite(c)
         IN  /\ d.debounce_source = c.debounce_source
             /\ (d.pending = c.pending /\ d.pending_ready = c.pending_ready /\ Outstanding(d) = Outstanding(c))
                \/ (d.pending = NoRequest /\ c.pending_ready)
             /\ Outstanding(d) \subseteq Outstanding(c) \cup {c.pending}
  <1> DEFINE d == StartPendingWrite(c)
  <1>u. c.urgent \in Seq(DraftWriteRequest)
    BY DEF Controller
  <1>1. CASE c.active = NoRequest /\ c.urgent # <<>>
    <2>1. d = [c EXCEPT !.active = Head(c.urgent), !.urgent = Tail(c.urgent)]
      BY <1>1 DEF StartPendingWrite
    <2>2. /\ d.active = Head(c.urgent) /\ d.urgent = Tail(c.urgent) /\ d.pending = c.pending
          /\ d.pending_ready = c.pending_ready /\ d.debounce_source = c.debounce_source
      BY <2>1 DEF Controller
    <2>3. {c.urgent[i] : i \in 1 .. Len(c.urgent)}
             = {Head(c.urgent)} \cup {Tail(c.urgent)[i] : i \in 1 .. Len(Tail(c.urgent))}
      BY <1>1, <1>u, PopKeepsElements
    <2>4. Outstanding(d) = Outstanding(c)
      BY <1>1, <2>2, <2>3 DEF Outstanding
    <2> HIDE DEF d
    <2> QED
      BY <2>2, <2>4 DEF d
  <1>2. CASE c.active = NoRequest /\ c.urgent = <<>> /\ c.pending_ready
    <2>1. d = [c EXCEPT !.active = c.pending, !.pending = NoRequest, !.pending_ready = FALSE]
      BY <1>2 DEF StartPendingWrite
    <2>2. d.active = c.pending /\ d.urgent = c.urgent /\ d.pending = NoRequest /\ d.debounce_source = c.debounce_source
      BY <2>1 DEF Controller
    <2>3. Outstanding(d) \subseteq {c.pending}
      BY <1>2, <2>2 DEF Outstanding
    <2> HIDE DEF d
    <2> QED
      BY <1>2, <2>2, <2>3 DEF d
  <1>3. CASE ~(c.active = NoRequest /\ c.urgent # <<>>)
             /\ ~(c.active = NoRequest /\ c.urgent = <<>> /\ c.pending_ready)
    <2>1. d = c
      BY <1>3 DEF StartPendingWrite
    <2> QED
      BY <2>1
  <1> QED
    BY <1>1, <1>2, <1>3

(* What a step of the composer does to the timer and to what it is for. *)
LEMMA TimerIs ==
  ASSUME Base, Step
  PROVE  /\ \A r \in Outstanding(ctl') :
              \/ r \in Outstanding(ctl) \/ r = ctl.pending
              \/ \E g \in Generations, a \in RecoveryAction, op \in FlushOps : FlushStep(g, a, op) /\ SameWrite(r, g, a)
         /\ \/ ctl'.pending \in {ctl.pending, NoRequest}
            \/ CaptureFires /\ Rearmed(capture, RecoveryActionFor(fields, active_draft))
            \/ Replaces /\ Rearmed(compose_generation', Clear)
         /\ ctl'.debounce_source =>
              \/ CaptureFires /\ Rearmed(capture, RecoveryActionFor(fields, active_draft))
              \/ Replaces /\ Rearmed(compose_generation', Clear)
              \/ RunsOn
  <1>t. ctl \in Controller /\ IdsOK(ctl) /\ flushes \in Nat
    BY DEF Base, IInv, TypeOK
  <1>w. WriterStep
    BY Writes
  <1>1. CASE ctl' = ctl
    BY <1>1 DEF RunsOn
  <1>2. ASSUME NEW g \in Generations, NEW a \in RecoveryAction, ScheduleEdit(g, a) PROVE Rearmed(g, a)
    <2> DEFINE m == MakeRequest(CancelDebounce(ctl), g, a)
    <2>1. ctl' = Schedule(ctl, g, a)
      BY <1>2 DEF ScheduleEdit
    <2>2. Outstanding(ctl') = Outstanding(ctl)
      BY <1>t, <2>1, ScheduleEffect
    <2>3. ctl'.pending = m /\ ctl'.pending_ready = FALSE
      BY <1>t, <2>1 DEF Schedule, QueueDebounced, NextRequestId, CancelDebounce, Controller
    <2>4. CancelDebounce(ctl) \in Controller
      BY <1>t DEF CancelDebounce, Controller
    <2>5. m \in DraftWriteRequest /\ m.generation = g /\ m.action = a
      BY <2>4, MakeRequestType DEF SameWrite
    <2> HIDE DEF m
    <2> QED
      BY <2>2, <2>3, <2>5, NoRequestApart DEF Rearmed
  <1>3. ASSUME NEW g \in Generations, NEW a \in RecoveryAction, NEW op \in FlushOps, FlushStep(g, a, op)
        PROVE  /\ ctl'.debounce_source = FALSE /\ ctl'.pending \in {ctl.pending, NoRequest}
               /\ \A r \in Outstanding(ctl') : r \in Outstanding(ctl) \/ r = ctl.pending \/ SameWrite(r, g, a)
    <2>1. ctl' = Flush(ctl, g, a, flushes + 1) /\ flushes + 1 \in Nat \ {0}
      BY <1>3, <1>t DEF FlushStep, FlushThen, FlushBoundary
    <2> QED
      BY <2>1, <1>t, FlushTimer
  <1>4. CASE DebounceFires
    <2> DEFINE e == [ctl EXCEPT !.debounce_source = FALSE, !.pending_ready = TRUE]
    <2>1. ctl' = StartPendingWrite(e)
      BY <1>4 DEF DebounceFires, DebounceElapsed
    <2>2. e \in Controller /\ e.active = ctl.active /\ e.urgent = ctl.urgent /\ e.pending = ctl.pending
          /\ e.debounce_source = FALSE
      BY <1>t DEF Controller
    <2> HIDE DEF e
    <2>3. Outstanding(e) = Outstanding(ctl)
      BY <2>2, SameOrder
    <2>4. /\ ctl'.debounce_source = FALSE /\ ctl'.pending \in {ctl.pending, NoRequest}
          /\ Outstanding(ctl') \subseteq Outstanding(ctl) \cup {ctl.pending}
      BY <2>1, <2>2, <2>3, StartTimer
    <2> QED
      BY <2>4
  <1>5. CASE ResumeWrites
    <2>1. ctl' = StartPendingWrite(ctl)
      BY <1>5 DEF ResumeWrites
    <2>2. /\ ctl'.debounce_source = ctl.debounce_source
          /\ (ctl'.pending = ctl.pending /\ ctl'.pending_ready = ctl.pending_ready /\ Outstanding(ctl') = Outstanding(ctl))
             \/ (ctl'.pending = NoRequest /\ ctl.pending_ready)
          /\ Outstanding(ctl') \subseteq Outstanding(ctl) \cup {ctl.pending}
      BY <2>1, <1>t, StartTimer
    <2> QED
      BY <2>2 DEF RunsOn
  <1>6. ASSUME NEW w \in workers, Receives(w)
        PROVE  /\ Outstanding(ctl') \subseteq Outstanding(ctl) /\ ctl'.pending = ctl.pending
               /\ ctl'.debounce_source => RunsOn
    <2>1. ctl' = ReleaseActive(ctl)
      BY <1>6 DEF Receives, FinishWrite
    <2>2. Outstanding(ctl') \subseteq Outstanding(ctl)
      BY <2>1, <1>t, ReleaseInOrder
    <2>3. ctl'.pending = ctl.pending /\ ctl'.debounce_source = ctl.debounce_source /\ ctl'.pending_ready = ctl.pending_ready
      BY <2>1, <1>t DEF ReleaseActive, Controller
    <2> QED
      BY <2>2, <2>3 DEF RunsOn
  <1>7. NoFlush => ctl' = ctl
    BY DEF NoFlush
  <1>8. (\E w \in workers : WorkerStep(w)) => ctl' = ctl
    BY DEF WorkerStep, WriterCommits, WriterSucceeds, WriterFails
  <1>9. ASSUME NEW g \in Generations, NEW a \in RecoveryAction, ScheduleEdit(g, a), Scheduler(g, a)
        PROVE  /\ \/ CaptureFires /\ Rearmed(capture, RecoveryActionFor(fields, active_draft))
                  \/ Replaces /\ Rearmed(compose_generation', Clear)
               /\ Outstanding(ctl') = Outstanding(ctl)
    BY <1>2, <1>9 DEF Scheduler, Rearmed
  <1> QED
    BY <1>w, <1>1, <1>3, <1>4, <1>5, <1>6, <1>7, <1>8, <1>9 DEF WriterStep

--------------------------------------------------------------------------------
(* No edit is stranded. *)

TextAction == IF fields = Blank THEN Clear ELSE Persist(fields)

(* The text is in no draft file, and none is being written with it. *)
Unsaved == fields = Blank \/ (active_draft.saved_fields # fields /\ save.fields # fields)

Still == capture = 0 /\ ~ctl.debounce_source

LEMMA NoFlushIs == NoFlush => flushes' = flushes /\ ctl' = ctl /\ callbacks' = callbacks
  BY DEF NoFlush

LEMMA FlushCounts ==
  ASSUME Base, NEW g, NEW a, NEW op, FlushThen(g, a, op)
  PROVE  ~NoFlush
  <1>1. flushes' = flushes + 1 /\ flushes \in Nat
    BY DEF FlushThen, FlushBoundary, Base, IInv, TypeOK
  <1> QED
    BY <1>1, NoFlushIs

(* Only an edit starts the capture timer. *)
LEMMA CaptureMoves ==
  ASSUME Base, Step
  PROVE  (\E f \in {Blank, compose_generation + 1} : Edit(f)) \/ capture' \in {capture, 0}
  <1>w. window \in WindowIs
    BY BaseIs
  <1>1. CASE \/ (\E kind \in Questions, g \in Generations, f \in Texts, d \in DraftRefs : Asks(kind, g, f, d))
             \/ (\E f \in Texts, d \in DraftRefs, g \in Generations : Sends(f, d, g))
             \/ Reconciles \/ (\E f \in Texts, d \in DraftRefs : Saves(f, d))
    BY <1>1 DEF Asks, Sends, Reconciles, Saves
  <1>2. CASE Clears \/ Replaces \/ AcceptDelete \/ Hides \/ Present \/ Reject \/ CaptureFires
    BY <1>2 DEF Clears, ClearNow, Replaces, ReplaceNow, AcceptDelete, Hides, Present, Reject, CaptureFires
  <1>3. CASE Closes
    BY <1>3 DEF Closes, FlushAndClose
  <1>4. CASE \/ (MainLoop /\ DebounceFires /\ UNCHANGED composerVars) \/ RecoveryWriter
             \/ (\E w \in workers : ReceiveResult(w)) \/ CallbacksDone
    BY <1>4 DEF RecoveryWriter, composerVars, ReceiveResult, CallbacksDone
  <1>5. CASE SendFlushed \/ CloseFlushed \/ ComposerCleared
    BY <1>5 DEF SendFlushed, CloseFlushed, ComposerCleared
  <1>6. CASE SaveBoundaryFlushed /\ outcome = "ok"
    BY <1>6 DEF SaveBoundaryFlushed
  <1>7. CASE Ends
    BY <1>7, <1>w, AfterActivity DEF Ends
  <1>8. CASE SentCleared /\ send'.phase = "repersisting"
    BY <1>8, RepersistsIs DEF Repersists
  <1>9. CASE (SendAccepted \/ SentDraftHandled) /\ send'.phase = "clearing"
    BY <1>9, CleansIs DEF Cleans
  <1>10. CASE SendAccepted /\ send'.phase = "deleting"
    BY <1>10, DeletingIs
  <1>11. CASE TransportAccepts \/ TransportRefuses \/ (\E ok \in BOOLEAN : SentDraftDelete(ok))
    BY <1>11 DEF TransportAccepts, TransportRefuses, SentDraftDelete, SendWorkerStep
  <1>12. CASE \/ SaveWritesDraft \/ SaveWriteFails \/ SaveDeletesPrevious
              \/ (\E ok \in BOOLEAN : SaveRollsBack(ok)) \/ (\E ok \in BOOLEAN : DeleteSource(ok))
              \/ SaveSucceeded \/ DeleteSucceeded
    BY <1>12 DEF SaveWritesDraft, SaveWriteFails, SaveDeletesPrevious, SaveRollsBack, DeleteSource,
         SaveSucceeded, DeleteSucceeded, SaveWorkerStep
  <1> QED
    BY <1>1, <1>2, <1>3, <1>4, <1>5, <1>6, <1>7, <1>8, <1>9, <1>10, <1>11, <1>12 DEF Step

(* All but three kinds of flush stop the capture timer, if it is running. *)
LEMMA FlushStops ==
  ASSUME Base, NEW g \in Generations, NEW a \in RecoveryAction, NEW op \in FlushOps, FlushStep(g, a, op),
         confirmation.kind \in {"send", "save"} => capture = 0,
         send.phase # "idle" /\ send.generation = compose_generation => capture = 0
  PROVE  capture' = 0 \/ (SaveSucceeded /\ op = "save updated")
           \/ (DeleteSucceeded /\ op \in {"delete cleared", "delete updated"})
  <1>w. window \in WindowIs
    BY BaseIs
  <1>o. Origin(g, a, op) /\ ~NoFlush
    BY FlushCounts DEF FlushStep
  <1>1. CASE op = "clear"
    BY <1>1, <1>o DEF Origin, Clears, ClearNow
  <1>2. CASE op = "send"
    BY <1>2, <1>o DEF Origin, Sends
  <1>3. CASE op = "close"
    <2>1. Closes \/ Ends \/ CloseFlushed
      BY <1>3, <1>o DEF Origin
    <2>2. CASE Closes
      BY <2>2, <1>o DEF Closes, FlushAndClose
    <2>3. CASE Ends
      BY <2>3, <1>o, <1>w, AfterActivity DEF Ends
    <2>4. CASE CloseFlushed
      BY <2>4, <1>o DEF CloseFlushed
    <2> QED
      BY <2>1, <2>2, <2>3, <2>4
  <1>4. CASE op = "sent clear"
    <2>1. Cleans
      BY <1>4, <1>o DEF Origin
    <2>2. send.phase \in {"accepted", "deleted", "kept"} /\ send.generation = compose_generation /\ capture' = capture
      BY <2>1, CleansIs
    <2> QED
      BY <2>2
  <1>5. CASE op = "sent repersist"
    BY <1>5, <1>o, RepersistsIs DEF Origin
  <1>6. CASE op = "save boundary"
    BY <1>6, <1>o DEF Origin, Saves
  <1>7. CASE op = "reconciled"
    BY <1>7, <1>o DEF Origin, Reconciles
  <1>8. CASE op \in {"save updated", "delete cleared", "delete updated"}
    BY <1>8, <1>o DEF Origin
  <1> QED
    BY <1>1, <1>2, <1>3, <1>4, <1>5, <1>6, <1>7, <1>8 DEF FlushOps

(* A text that is not saved stays so until it is saved. *)
LEMMA UnsavedKept ==
  ASSUME Base, Registered, Step, Unsaved, compose_generation' = compose_generation, fields' = fields
  PROVE  Unsaved' \/ \E f \in Texts, d \in DraftRefs : Saves(f, d)
  <1>1. CASE fields = Blank
    BY <1>1 DEF Unsaved
  <1>2. CASE fields # Blank /\ ~(\E f \in Texts, d \in DraftRefs : Saves(f, d))
    <2>t. compose_generation \in Nat /\ compose_generation' \in Nat
      BY BaseIs, TextsAre DEF Texted
    <2>1. active_draft.saved_fields # fields /\ save.fields # fields
      BY <1>2 DEF Unsaved
    <2>2. active_draft'.saved_fields # fields
      <3>1. CASE active_draft' = active_draft
        BY <2>1, <3>1
      <3>2. CASE active_draft' # active_draft
        <4>1. active_draft' = NoActiveDraft \/ (save.phase = "saved" /\ active_draft'.saved_fields = save.fields)
          BY <3>2, ActiveMoves
        <4> QED
          BY <4>1, <2>1, <1>2, TextsAre DEF Blank
      <3> QED
        BY <3>1, <3>2
    <2>3. save'.fields \in {save.fields, Blank}
      <3>1. CASE save.phase # "idle"
        BY <3>1, SaveFieldsAre
      <3>2. CASE save.phase = "idle"
        <4>1. CASE save' = save
          BY <4>1
        <4>2. CASE Reconciles \/ AcceptDelete
          <5>1. NoSave \in SaveIs /\ NoSave.fields = Blank
            BY NothingIs
          <5>2. save'.fields = NoSave.fields
            BY <4>2, <5>1 DEF Reconciles, AcceptDelete, StartDelete, SaveIs
          <5> QED
            BY <5>1, <5>2
        <4>3. CASE Ends
          BY <4>3, <3>2, EndsIs
        <4>4. CASE SendGoes
          BY <4>4, <3>2 DEF SendGoes
        <4>5. CASE SaveGoes
          BY <4>5, <3>2 DEF SaveGoes
        <4>6. CASE \/ (\E kind \in Questions, g \in Generations, f \in Texts, d \in DraftRefs : Asks(kind, g, f, d))
                   \/ (\E f \in Texts, d \in DraftRefs, g \in Generations : Sends(f, d, g))
          BY <4>6 DEF Asks, Sends
        <4> QED
          BY <1>2, <4>1, <4>2, <4>3, <4>4, <4>5, <4>6, Ways
      <3> QED
        BY <3>1, <3>2
    <2> QED
      BY <1>2, <2>1, <2>2, <2>3 DEF Unsaved
  <1> QED
    BY <1>1, <1>2

NoneNow == \A r \in Outstanding(ctl) : r.generation # compose_generation

(* A deletion is about to empty the composer. *)
Deleting == \E cb \in callbacks : cb.op = "delete cleared" /\ cb.generation = compose_generation

(* What is being written of the composer's generation is its text. *)
Matching ==
  \A r \in Outstanding(ctl) : r.generation = compose_generation =>
    r.action = TextAction \/ (r.action = Clear /\ Deleting)

(* The composer was emptied while a timer ran. *)
Emptied ==
  /\ fields = Blank /\ active_draft = NoActiveDraft /\ Idle
  /\ confirmation.kind \notin {"send", "save", "delete"}
  /\ NoneNow /\ ctl.pending.generation # compose_generation

Timed ==
  ctl.debounce_source =>
    /\ ctl.pending # NoRequest /\ ~ctl.pending_ready
    /\ ctl.pending.generation = compose_generation => Unsaved /\ Matching /\ ctl.pending.action = TextAction
    /\ ctl.pending.generation # compose_generation => NoneNow

Capturing ==
  capture # 0 =>
    /\ capture = compose_generation => Unsaved /\ Matching /\ ctl.pending.generation # compose_generation
    /\ capture # compose_generation => Emptied

(* Who is about to empty or to send the composer has stopped the timers. *)
Stopped ==
  /\ \A cb \in All : cb.op \in {"clear", "sent clear"} /\ cb.generation = compose_generation => Still
  /\ confirmation.kind \in {"send", "save"} => capture = 0
  /\ confirmation.kind = "send" /\ confirmation.generation # compose_generation => ~ctl.debounce_source
  /\ send.phase # "idle" /\ send.generation = compose_generation => Still

LEMMA QuestionMoves ==
  ASSUME Base, Registered, Step
  PROVE  \/ confirmation' = confirmation \/ confirmation'.kind \in {"none", "close"}
         \/ \E kind \in Questions, g \in Generations, f \in Texts, d \in DraftRefs : Asks(kind, g, f, d)
  <1>n. NoConfirmation.kind = "none" /\ [NoConfirmation EXCEPT !.kind = "close"].kind = "close"
    BY DEF NoConfirmation
  <1>w. window \in WindowIs
    BY BaseIs
  <1>1. CASE Ends
    BY <1>1, <1>n, <1>w, AfterActivity DEF Ends
  <1>2. CASE \/ (\E f \in Texts, d \in DraftRefs, g \in Generations : Sends(f, d, g))
             \/ (\E f \in Texts, d \in DraftRefs : Saves(f, d))
             \/ Reconciles \/ AcceptDelete
    BY <1>2, <1>n DEF Sends, Saves, Reconciles, AcceptDelete, AcceptConfirmation
  <1>3. CASE SendGoes \/ SaveGoes
    BY <1>3 DEF SendGoes, SaveGoes
  <1> QED
    BY <1>1, <1>2, <1>3, <1>n, Ways

(* Timers that are stopped start again with an edit or a replacement only. *)
LEMMA StillKept ==
  ASSUME Base, Step
  PROVE  /\ \/ \E f \in {Blank, compose_generation + 1} : Edit(f)
            \/ capture = 0 => capture' = 0
         /\ \/ ctl'.debounce_source => ctl.debounce_source
            \/ CaptureFires \/ Replaces
         /\ CaptureFires => capture # 0
         /\ compose_generation' = compose_generation /\ Still => Still'
  <1>t. compose_generation \in Nat /\ capture \in Nat
    BY BaseIs, TextsAre DEF Texted
  <1>1. (\E f \in {Blank, compose_generation + 1} : Edit(f)) \/ (capture = 0 => capture' = 0)
    BY CaptureMoves
  <1>2. (ctl'.debounce_source => ctl.debounce_source) \/ CaptureFires \/ Replaces
    BY TimerIs DEF RunsOn
  <1>3. CaptureFires => capture # 0
    BY DEF CaptureFires
  <1>4. Replaces => compose_generation' # compose_generation
    BY <1>t DEF Replaces, ReplaceNow, EmptyComposer
  <1>5. (\E f \in {Blank, compose_generation + 1} : Edit(f)) => compose_generation' # compose_generation
    BY <1>t DEF Edit
  <1> QED
    BY <1>1, <1>2, <1>3, <1>4, <1>5 DEF Still

LEMMA StoppedKept ==
  ASSUME ComposerInv, Stopped, Step
  PROVE  Stopped'
  <1>i. Base /\ Registered /\ Texting
    BY DEF ComposerInv
  <1>w. WriterStep
    BY <1>i, Writes
  <1>t. /\ compose_generation \in Nat /\ compose_generation' \in Nat /\ compose_generation <= compose_generation'
        /\ send.generation \in Nat /\ send.generation <= compose_generation
        /\ confirmation.generation \in Nat /\ confirmation.generation <= compose_generation
        /\ \A cb \in All : cb.generation \in Nat /\ cb.generation <= compose_generation
    <2>1. /\ confirmation \in QuestionIs /\ send \in SendIs /\ callbacks \subseteq FlushCallbacks
          /\ delivering \subseteq FlushCallbacks /\ Texts \subseteq Nat /\ Generations = Texts
      BY <1>i, BaseIs, RecordedIs, TextsAre
    <2>2. confirmation.generation \in Nat /\ send.generation \in Nat /\ \A cb \in All : cb.generation \in Nat
      BY <2>1 DEF QuestionIs, SendIs, FlushCallbacks, All
    <2> QED
      BY <1>i, <1>w, <2>2, BaseIs, RecordedIs, StepTyped, TextsAre DEF WriterStep, Texted
  <1>s. /\ \/ \E f \in {Blank, compose_generation + 1} : Edit(f)
           \/ capture = 0 => capture' = 0
        /\ \/ ctl'.debounce_source => ctl.debounce_source
           \/ CaptureFires \/ Replaces
        /\ CaptureFires => capture # 0
        /\ compose_generation' = compose_generation /\ Still => Still'
    BY <1>i, StillKept
  <1>e. ASSUME NEW f \in {Blank, compose_generation + 1}, Edit(f)
        PROVE  confirmation'.kind = "none"
    BY <1>e DEF Edit, UserStep, NoConfirmation
  <1>r. Replaces => confirmation'.kind = "none"
    BY DEF Replaces, NoConfirmation
  <1>q. ASSUME NEW kind \in Questions, NEW g \in Generations, NEW f \in Texts, NEW d \in DraftRefs,
               Asks(kind, g, f, d), confirmation'.kind \in {"send", "save"}
        PROVE  /\ capture' = 0 /\ confirmation'.generation = compose_generation'
    BY <1>q DEF Asks, KeepComposer
  <1>n. ASSUME NEW g \in Generations, NEW a \in RecoveryAction, NEW op \in FlushOps, FlushStep(g, a, op)
        PROVE  ~ctl'.debounce_source
    <2>1. ctl \in Controller /\ IdsOK(ctl) /\ flushes \in Nat
      BY <1>i DEF Base, IInv, TypeOK
    <2>2. ctl' = Flush(ctl, g, a, flushes + 1) /\ flushes + 1 \in Nat \ {0}
      BY <1>n, <2>1 DEF FlushStep, FlushThen, FlushBoundary
    <2> QED
      BY <2>1, <2>2, FlushTimer
  <1>1. ASSUME NEW cb \in All', cb.op \in {"clear", "sent clear"}, cb.generation = compose_generation' PROVE Still'
    <2>1. CASE cb \in All
      <3>0. cb.generation = compose_generation'
        BY <1>1
      <3>1. compose_generation' = compose_generation /\ cb.generation = compose_generation
        BY <1>t, <2>1, <3>0
      <3> QED
        BY <1>1, <1>s, <2>1, <3>1 DEF Stopped
    <2>2. CASE cb \notin All
      <3>1. PICK g \in Generations, a \in RecoveryAction, op \in FlushOps :
              FlushStep(g, a, op) /\ All' \subseteq All \cup {NewCallback(op, g)}
        BY <1>1, <1>i, <1>w, <2>2, AllAre DEF Registered
      <3>2. cb = NewCallback(op, g)
        BY <2>2, <3>1, <1>1
      <3>3. op \in {"clear", "sent clear"}
        BY <1>1, <1>i, <3>2, NewIs
      <3>4. capture' = 0
        BY <1>i, <3>1, <3>3, FlushStops DEF Stopped, Still
      <3> QED
        BY <1>n, <3>1, <3>4 DEF Still
    <2> QED
      BY <2>1, <2>2
  <1>2. ASSUME confirmation'.kind \in {"send", "save"} PROVE capture' = 0
    <2>1. CASE confirmation' = confirmation
      <3>1. capture = 0
        BY <1>2, <2>1 DEF Stopped
      <3> QED
        BY <1>2, <1>e, <1>s, <3>1
    <2> QED
      BY <1>2, <1>i, <1>q, <2>1, QuestionMoves
  <1>3. ASSUME confirmation'.kind = "send", confirmation'.generation # compose_generation'
        PROVE  ~ctl'.debounce_source
    <2>1. CASE confirmation' = confirmation
      <3>1. capture = 0
        BY <1>3, <2>1 DEF Stopped
      <3>2. ~CaptureFires /\ ~Replaces /\ ~(\E f \in {Blank, compose_generation + 1} : Edit(f))
        BY <1>3, <1>e, <1>r, <1>s, <3>1
      <3>3. ctl'.debounce_source => ctl.debounce_source
        BY <1>s, <3>2
      <3>4. CASE confirmation.generation # compose_generation
        BY <1>3, <2>1, <3>3, <3>4 DEF Stopped
      <3>5. CASE confirmation.generation = compose_generation
        <4>1. compose_generation' # compose_generation
          BY <1>3, <2>1, <3>5
        <4>2. ComposerCleared \/ (Ends /\ Reason)
          BY <1>i, <3>2, <4>1, TextMoves
        <4>3. Idle
          BY <1>3, <1>i, <2>1 DEF Texting, Exclusive, Asking, NoConfirmation
        <4>4. ~Ends
          BY <1>i, <4>3, EndsIs DEF Idle
        <4>5. /\ finishing /\ delivering # {} /\ First.op = "clear" /\ First.generation = compose_generation
          BY <4>1, <4>2, <4>4 DEF ComposerCleared, Callback, Current, KeepComposer
        <4>6. First \in All /\ First.op \in {"clear", "sent clear"}
          BY <1>i, <4>5, BaseIs, FirstIs DEF All
        <4> QED
          BY <3>3, <4>5, <4>6 DEF Stopped, Still
      <3> QED
        BY <3>4, <3>5
    <2> QED
      BY <1>3, <1>i, <1>q, <2>1, QuestionMoves
  <1>4. ASSUME send'.phase # "idle", send'.generation = compose_generation' PROVE Still'
    <2>1. CASE send.phase # "idle" /\ send'.generation = send.generation
      <3>1. compose_generation' = compose_generation /\ send.generation = compose_generation
        BY <1>4, <1>t, <2>1
      <3> QED
        BY <1>s, <2>1, <3>1 DEF Stopped
    <2>2. ASSUME NEW f \in Texts, NEW d \in DraftRefs, NEW g \in Generations, Sends(f, d, g) PROVE Still'
      <3>1. FlushThen(g, RecoveryActionFor(f, active_draft), "send") /\ Popped /\ KeepComposer
        BY <2>2 DEF Sends, StartCapturedSend, Quiet, Popped
      <3>2. g <= compose_generation'
        BY <1>4, <1>t, <2>2 DEF Sends, StartCapturedSend
      <3>3. Origin(g, RecoveryActionFor(f, active_draft), "send")
        BY <2>2 DEF Origin
      <3>4. "send" \in FlushOps /\ RecoveryActionFor(f, active_draft) \in RecoveryAction
        BY RecoveryIs DEF FlushOps
      <3>5. FlushStep(g, RecoveryActionFor(f, active_draft), "send")
        BY <3>1, <3>2, <3>3 DEF FlushStep
      <3>6. capture' = 0
        BY <2>2 DEF Sends, Stopped
      <3> QED
        BY <1>n, <3>4, <3>5, <3>6 DEF Still
    <2>3. send' = send \/ send'.phase = "idle" \/ (send.phase # "idle" /\ send'.generation = send.generation)
            \/ (\E f \in Texts, d \in DraftRefs, g \in Generations : Sends(f, d, g))
      <3>1. NoSend.phase = "idle" /\ send \in SendIs
        BY <1>i, NothingIs, BaseIs, RecordedIs
      <3>2. CASE SendGoes
        BY <3>1, <3>2 DEF SendGoes, SendIs
      <3>3. CASE \/ (\E kind \in Questions, g \in Generations, f \in Texts, d \in DraftRefs : Asks(kind, g, f, d))
                 \/ (\E f \in Texts, d \in DraftRefs : Saves(f, d))
                 \/ Reconciles \/ AcceptDelete \/ SaveGoes
        BY <3>3 DEF Asks, Saves, Reconciles, AcceptDelete, SaveGoes
      <3>4. CASE Ends
        BY <3>1, <3>4 DEF Ends
      <3> QED
        BY <1>i, <3>1, <3>2, <3>3, <3>4, Ways
    <2> QED
      BY <1>4, <2>1, <2>2, <2>3
  <1> QED
    BY <1>1, <1>2, <1>3, <1>4 DEF Stopped

(* Who deletes the draft of an unchanged composer waits for a clear. *)
DeleteClears ==
  \A cb \in callbacks, x \in ctl.waiters : cb.op = "delete cleared" /\ x.flush = cb.flush => x.action = Clear

LEMMA DeleteClearsKept ==
  ASSUME Base, Registered, DeleteClears, Step
  PROVE  DeleteClears'
  <1>w. WriterStep
    BY Writes
  <1>1. ASSUME NEW cb \in callbacks', NEW x \in ctl'.waiters, cb.op = "delete cleared", x.flush = cb.flush
        PROVE  x.action = Clear
    <2>1. CASE cb \in callbacks /\ x \in ctl.waiters
      BY <1>1, <2>1 DEF DeleteClears
    <2>2. ASSUME NEW g \in Generations, NEW a \in RecoveryAction, NEW op \in FlushOps, FlushStep(g, a, op),
                 cb = NewCallback(op, g), x.action = a
          PROVE  x.action = Clear
      <3>1. op = "delete cleared"
        BY <1>1, <2>2, NewIs
      <3> QED
        BY <2>2, <3>1 DEF FlushStep, Origin
    <2> QED
      BY <1>1, <1>w, <2>1, <2>2, Pairs
  <1> QED
    BY <1>1 DEF DeleteClears

(* A write of the text stays one, and a clear stays before its deletion. *)
LEMMA MatchingStays ==
  ASSUME ComposerInv, Answered, Queueing, NoRepeat(ctl), DeleteClears, Matching, Step,
         compose_generation' = compose_generation, fields' = fields,
         NEW r \in Outstanding(ctl'), r \in Outstanding(ctl), r.generation = compose_generation
  PROVE  r.action = TextAction' \/ (r.action = Clear /\ Deleting')
  <1>i. Base /\ Registered /\ IInv
    BY DEF ComposerInv, Base
  <1>w. WriterStep
    BY <1>i, Writes
  <1>1. TextAction' = TextAction
    BY DEF TextAction
  <1>2. CASE r.action = TextAction
    BY <1>1, <1>2
  <1>3. CASE r.action = Clear /\ Deleting
    <2>1. PICK cb \in callbacks : cb.op = "delete cleared" /\ cb.generation = compose_generation
      BY <1>3 DEF Deleting
    <2>2. CASE cb \in callbacks'
      BY <1>3, <2>1, <2>2 DEF Deleting
    <2>3. CASE cb \notin callbacks'
      <3>1. PICK w \in workers : Receives(w)
        <4>1. ASSUME NEW g \in Generations, NEW a \in RecoveryAction, NEW op \in FlushOps, FlushStep(g, a, op)
              PROVE  FALSE
          BY <2>3, <4>1 DEF FlushStep, FlushThen
        <4> QED
          BY <1>i, <1>w, <2>3, <4>1, WaitersAre
      <3>2. cb \in delivering'
        BY <2>3, <3>1 DEF Receives
      <3>3. ctl.active \in Outstanding(ctl)
        BY <1>i, <3>1, ReceivedIs
      <3>4. PICK x \in ctl.waiters : /\ x.flush = cb.flush /\ x.generation = ctl.active.generation
                                     /\ x.action = ctl.active.action
        BY <1>i, <3>1, <3>2, ReceivedIs
      <3>5. x.generation = compose_generation /\ x.action = Clear
        BY <2>1, <3>4 DEF Answered, Answers, Matched, DeleteClears
      <3>6. r = ctl.active
        BY <1>3, <3>3, <3>4, <3>5 DEF Queueing, OneOfEach
      <3>7. ctl'.active = NoRequest /\ ctl'.urgent = ctl.urgent
        BY <1>i, <3>1 DEF Receives, FinishWrite, ReleaseActive, IInv, TypeOK, Controller
      <3>8. r # NoRequest /\ \E i \in 1 .. Len(ctl.urgent) : r = ctl.urgent[i]
        BY <3>7 DEF Outstanding
      <3> QED
        BY <3>6, <3>8 DEF NoRepeat
    <2> QED
      BY <2>2, <2>3
  <1> QED
    BY <1>2, <1>3 DEF Matching

(* A save is a flush, and stops both timers. *)
LEMMA SavesStop ==
  ASSUME Base, Stopped, NEW f \in Texts, NEW d \in DraftRefs, Saves(f, d)
  PROVE  capture' = 0 /\ ~ctl'.debounce_source
  <1>1. ctl \in Controller /\ IdsOK(ctl) /\ flushes \in Nat
    BY DEF Base, IInv, TypeOK
  <1>2. f # Blank
    BY DEF Saves, Base, ComposerTyped
  <1>3. Persist(f) \in RecoveryAction /\ compose_generation \in Generations
    BY <1>2, PersistIs, BaseIs DEF Texted
  <1>4. ctl' = Flush(ctl, compose_generation, Persist(f), flushes + 1) /\ flushes + 1 \in Nat \ {0}
    <2>1. FlushThen(compose_generation, Persist(f), "save boundary")
      BY DEF Saves, StartCapturedSave
    <2>2. flushes + 1 \in Nat \ {0}
      BY <1>1
    <2>3. ctl' = Flush(ctl, compose_generation, Persist(f), flushes + 1)
      BY <2>1 DEF FlushThen, FlushBoundary
    <2> QED
      BY <2>2, <2>3
  <1>5. ~ctl'.debounce_source
    BY <1>1, <1>3, <1>4, FlushTimer
  <1>6. capture' = 0
    BY DEF Saves, Stopped
  <1> QED
    BY <1>5, <1>6

(* An unsaved text needs a write of that text. *)
LEMMA UnsavedNeeds ==
  ASSUME Unsaved
  PROVE  RecoveryActionFor(fields, active_draft) = TextAction
  BY DEF Unsaved, RecoveryActionFor, TextAction

(* No request is of a generation that is just beginning. *)
LEMMA NoneOfNewer ==
  ASSUME Base, Base', UpTo(ctl, compose_generation), compose_generation' # compose_generation,
         compose_generation <= compose_generation'
  PROVE  /\ \A r \in Outstanding(ctl) : r.generation # compose_generation'
         /\ ctl.pending.generation # compose_generation'
  <1>1. compose_generation \in Nat /\ compose_generation' \in Nat
    BY BaseIs, TextsAre DEF Texted, Base, ComposerTyped
  <1>2. ctl.pending.generation \in Nat /\ \A r \in Outstanding(ctl) : r.generation \in Nat
    <2>1. ctl \in Controller
      BY DEF Base, IInv, TypeOK
    <2>2. ctl.pending.generation \in Nat
      BY <2>1, BoundsAssumption DEF Controller, DraftWriteRequest, NoRequest, Generations
    <2>3. \A r \in Outstanding(ctl) : r.generation \in Nat
      BY <2>1, OutstandingType, BoundsAssumption DEF DraftWriteRequest, Generations
    <2> QED
      BY <2>2, <2>3
  <1> QED
    BY <1>1, <1>2 DEF UpTo

NothingStranded == Timed /\ Capturing /\ Stopped /\ DeleteClears /\ NoRepeat(ctl)

LEMMA TimedKept ==
  ASSUME ComposerInv, Answered, Queueing, NothingStranded, Step
  PROVE  Timed'
  <1>i. Base /\ Registered /\ Texting /\ IInv /\ Timed /\ Capturing /\ Stopped
    BY DEF ComposerInv, Base, NothingStranded
  <1>w. WriterStep /\ compose_generation <= compose_generation'
    BY <1>i, Writes DEF WriterStep
  <1>b. Base'
    BY <1>i, BaseKept
  <1>m. compose_generation' = compose_generation => fields' = fields
    BY <1>i, TextMoves
  <1>o. UpTo(ctl, compose_generation)
    BY DEF Queueing
  <1>1. CASE ctl'.debounce_source /\ RunsOn
    <2>1. /\ ctl.pending # NoRequest /\ ~ctl.pending_ready
          /\ ctl.pending.generation = compose_generation => Unsaved /\ Matching /\ ctl.pending.action = TextAction
          /\ ctl.pending.generation # compose_generation => NoneNow
      BY <1>1, <1>i DEF Timed, RunsOn
    <2>2. ctl'.pending = ctl.pending /\ ~ctl'.pending_ready /\ Outstanding(ctl') \subseteq Outstanding(ctl)
      BY <1>1, <2>1 DEF RunsOn
    <2>3. CASE compose_generation' = compose_generation /\ ctl.pending.generation = compose_generation
      <3>1. Unsaved' \/ \E f \in Texts, d \in DraftRefs : Saves(f, d)
        BY <1>i, <1>m, <2>1, <2>3, UnsavedKept
      <3>2. Unsaved'
        BY <1>1, <1>i, <3>1, SavesStop
      <3>3. TextAction' = TextAction
        BY <1>m, <2>3 DEF TextAction
      <3>4. ASSUME NEW r \in Outstanding(ctl'), r.generation = compose_generation'
            PROVE  r.action = TextAction' \/ (r.action = Clear /\ Deleting')
        BY <1>m, <2>1, <2>2, <2>3, <3>4, MatchingStays DEF NothingStranded
      <3> QED
        BY <2>1, <2>2, <2>3, <3>2, <3>3, <3>4 DEF Timed, Matching
    <2>4. CASE compose_generation' = compose_generation /\ ctl.pending.generation # compose_generation
      BY <2>1, <2>2, <2>4 DEF Timed, NoneNow
    <2>5. CASE compose_generation' # compose_generation
      <3>1. /\ \A r \in Outstanding(ctl) : r.generation # compose_generation'
            /\ ctl.pending.generation # compose_generation'
        BY <1>i, <1>b, <1>o, <1>w, <2>5, NoneOfNewer
      <3> QED
        BY <2>1, <2>2, <3>1 DEF Timed, NoneNow
    <2> QED
      BY <2>3, <2>4, <2>5
  <1>2. CASE CaptureFires /\ Rearmed(capture, RecoveryActionFor(fields, active_draft))
    <2>1. /\ capture # 0 /\ UNCHANGED <<fields, active_draft, save, compose_generation, callbacks>>
      BY <1>2 DEF CaptureFires
    <2>2. CASE capture = compose_generation
      <3>1. Unsaved /\ Matching
        BY <1>i, <2>1, <2>2 DEF Capturing
      <3>2. Unsaved' /\ TextAction' = TextAction /\ (Deleting => Deleting')
        BY <2>1, <3>1 DEF Unsaved, TextAction, Deleting
      <3>3. Outstanding(ctl') = Outstanding(ctl)
        BY <1>2 DEF Rearmed
      <3>4. ASSUME NEW r \in Outstanding(ctl'), r.generation = compose_generation'
            PROVE  r.action = TextAction' \/ (r.action = Clear /\ Deleting')
        BY <2>1, <3>1, <3>2, <3>3, <3>4 DEF Matching
      <3>5. ctl'.pending.action = TextAction
        BY <1>2, <3>1, UnsavedNeeds DEF Rearmed
      <3>6. ctl'.pending # NoRequest /\ ~ctl'.pending_ready /\ ctl'.pending.generation = compose_generation'
        BY <1>2, <2>1, <2>2 DEF Rearmed
      <3> QED
        BY <3>2, <3>4, <3>5, <3>6 DEF Timed, Matching
    <2>3. CASE capture # compose_generation
      <3>1. NoneNow
        BY <1>i, <2>1, <2>3 DEF Capturing, Emptied
      <3>2. NoneNow'
        BY <1>2, <2>1, <3>1 DEF NoneNow, Rearmed
      <3>3. ctl'.pending # NoRequest /\ ~ctl'.pending_ready /\ ctl'.pending.generation # compose_generation'
        BY <1>2, <2>1, <2>3 DEF Rearmed
      <3> QED
        BY <3>2, <3>3 DEF Timed
    <2> QED
      BY <2>2, <2>3
  <1>3. CASE Replaces /\ Rearmed(compose_generation', Clear)
    <2>1. fields' = Blank /\ compose_generation' # compose_generation
      <3>1. EmptyComposer /\ compose_generation \in Generations
        BY <1>3, <1>i, BaseIs DEF Replaces, ReplaceNow, Texted
      <3>2. fields' = Blank /\ compose_generation' = compose_generation + 1
        BY <3>1, EmptyIs
      <3> QED
        BY <3>1, <3>2, TextsAre
    <2>2. \A r \in Outstanding(ctl) : r.generation # compose_generation'
      BY <1>i, <1>b, <1>o, <1>w, <2>1, NoneOfNewer
    <2>3. Unsaved' /\ TextAction' = Clear
      BY <2>1 DEF Unsaved, TextAction
    <2>4. Matching'
      BY <1>3, <2>2 DEF Matching, Rearmed
    <2>5. /\ ctl'.pending # NoRequest /\ ~ctl'.pending_ready /\ ctl'.pending.generation = compose_generation'
          /\ ctl'.pending.action = Clear
      BY <1>3 DEF Rearmed
    <2> QED
      BY <2>3, <2>4, <2>5 DEF Timed
  <1>4. CASE ~ctl'.debounce_source
    BY <1>4 DEF Timed
  <1> QED
    BY <1>i, <1>1, <1>2, <1>3, <1>4, TimerIs

(* A composer that was emptied stays as it is until the timer fires. *)
LEMMA EmptiedKept ==
  ASSUME ComposerInv, Stopped, Step, Emptied, capture' # 0, capture' = capture,
         compose_generation' = compose_generation, fields' = fields,
         \A r \in Outstanding(ctl') : r \in Outstanding(ctl) \/ r = ctl.pending,
         ctl'.pending.generation # compose_generation
  PROVE  Emptied'
  <1>i. Base /\ Registered
    BY DEF ComposerInv
  <1>t. compose_generation \in Nat /\ NoSave.phase = "idle" /\ NoConfirmation.kind = "none"
    BY <1>i, BaseIs, TextsAre, NothingIs DEF Texted
  <1>e. /\ fields = Blank /\ active_draft = NoActiveDraft /\ Idle
        /\ confirmation.kind \notin {"send", "save", "delete"}
        /\ NoneNow /\ ctl.pending.generation # compose_generation
    BY DEF Emptied
  <1>1. active_draft' = NoActiveDraft
    <2>1. SUFFICES ASSUME active_draft' # active_draft PROVE FALSE
      BY <1>e
    <2>2. ~(compose_generation < compose_generation')
      BY <1>t
    <2>3. save.phase \notin {"saved", "deleted"} /\ send.phase # "deleted"
      BY <1>e DEF Idle
    <2> QED
      BY <1>i, <2>1, <2>2, <2>3, ActiveMoves
  <1>2. NoneNow'
    BY <1>e DEF NoneNow
  <1>3. Idle' /\ confirmation'.kind \notin {"send", "save", "delete"}
    <2>1. CASE send' = send /\ save' = save /\ confirmation' \in {confirmation, NoConfirmation}
      BY <1>e, <1>t, <2>1 DEF Idle
    <2>2. ASSUME NEW kind \in Questions, NEW g \in Generations, NEW f \in Texts, NEW d \in DraftRefs,
                 Asks(kind, g, f, d)
          PROVE  Idle' /\ confirmation'.kind \notin {"send", "save", "delete"}
      BY <1>e, <2>2 DEF Asks, Idle
    <2>3. ASSUME NEW f \in Texts, NEW d \in DraftRefs, NEW g \in Generations, Sends(f, d, g) PROVE FALSE
      BY <1>e, <2>3 DEF Sends
    <2>4. ASSUME NEW f \in Texts, NEW d \in DraftRefs, Saves(f, d) PROVE FALSE
      BY <1>e, <2>4 DEF Saves
    <2>5. ~Reconciles /\ ~AcceptDelete
      BY <1>e DEF Reconciles, AcceptDelete, AcceptConfirmation
    <2>6. ~Ends
      BY <1>i, <1>e, EndsIs DEF Idle
    <2>7. ~SendGoes /\ ~SaveGoes /\ send.phase # "flushing"
      BY <1>e DEF Idle, SendGoes, SaveGoes
    <2> QED
      BY <1>i, <2>1, <2>2, <2>3, <2>4, <2>5, <2>6, <2>7, Ways
  <1> QED
    BY <1>1, <1>2, <1>3, <1>e DEF Emptied

(* A composer is emptied under a running timer by a deletion only. *)
LEMMA EmptiedByDeletion ==
  ASSUME ComposerInv, Queueing, Stopped, Step, capture' # 0, compose_generation' # compose_generation,
         ~(\E f \in {Blank, compose_generation + 1} : Edit(f))
  PROVE  Emptied' /\ capture' # compose_generation'
  <1>i. Base /\ Registered /\ Texting
    BY DEF ComposerInv
  <1>t. /\ compose_generation \in Nat /\ compose_generation' \in Nat /\ compose_generation <= compose_generation'
        /\ capture \in Nat /\ capture <= compose_generation /\ window \in WindowIs
        /\ NoSave.phase = "idle" /\ NoSend.phase = "idle" /\ NoConfirmation.kind = "none"
    BY <1>i, BaseIs, StepTyped, TextsAre, NothingIs, Writes DEF Texted, WriterStep
  <1>c. capture' = capture /\ capture # 0
    BY <1>i, CaptureMoves
  <1>1. EmptyComposer /\ (ComposerCleared \/ (Ends /\ Reason))
    <2>1. EmptyComposer /\ (Replaces \/ ComposerCleared \/ (Ends /\ Reason))
      BY <1>i, TextMoves
    <2>2. ~Replaces
      BY DEF Replaces, ReplaceNow
    <2> QED
      BY <2>1, <2>2
  <1>f. ASSUME delivering # {} PROVE First \in All
    BY <1>f, <1>i, BaseIs, FirstIs DEF All
  <1>2. ~ComposerCleared
    <2>1. SUFFICES ASSUME ComposerCleared PROVE FALSE
      OBVIOUS
    <2>2. delivering # {} /\ First.op = "clear" /\ First.generation = compose_generation
      BY <2>1 DEF ComposerCleared, Callback, Current, KeepComposer
    <2> QED
      BY <1>c, <1>f, <2>2 DEF Stopped, Still
  <1>3. Ends /\ Reason
    BY <1>1, <1>2
  <1>4. First.op = "delete cleared" /\ save' = NoSave /\ delivering # {}
    <2>1. delivering # {} /\ First.generation = compose_generation
      BY <1>3 DEF Reason
    <2>2. First.op # "sent clear"
      BY <1>c, <1>f, <2>1 DEF Stopped, Still
    <2> QED
      BY <1>3, <2>1, <2>2 DEF Reason
  <1>5. save.phase = "delete updating"
    BY <1>i, <1>f, <1>4 DEF Registered, Linked, SaveLinked
  <1>6. send.phase = "idle" /\ confirmation = NoConfirmation
    BY <1>i, <1>5 DEF Texting, Exclusive, Asking, Idle
  <1>7. Idle'
    BY <1>i, <1>3, <1>4, <1>6, <1>t, EndsIs DEF Idle
  <1>8. /\ ctl' = ctl
        /\ confirmation' = confirmation \/ confirmation' = [NoConfirmation EXCEPT !.kind = "close"]
    BY <1>3, <1>c, <1>t, AfterActivity, NoFlushIs DEF Ends
  <1>9. confirmation'.kind \notin {"send", "save", "delete"}
    BY <1>6, <1>8, <1>t DEF NoConfirmation
  <1>10. fields' = Blank /\ active_draft' = NoActiveDraft
    BY <1>1 DEF EmptyComposer
  <1>11. /\ \A r \in Outstanding(ctl) : r.generation # compose_generation'
         /\ ctl.pending.generation # compose_generation'
    BY <1>i, <1>t, BaseKept, NoneOfNewer DEF Queueing
  <1>12. NoneNow' /\ ctl'.pending.generation # compose_generation'
    BY <1>8, <1>11 DEF NoneNow
  <1>13. capture' # compose_generation'
    BY <1>c, <1>t
  <1> QED
    BY <1>7, <1>9, <1>10, <1>12, <1>13 DEF Emptied

LEMMA CapturingKept ==
  ASSUME ComposerInv, Answered, Queueing, NothingStranded, Step
  PROVE  Capturing'
  <1>i. Base /\ Registered /\ Texting /\ IInv /\ Capturing /\ Stopped
    BY DEF ComposerInv, Base, NothingStranded
  <1>w. WriterStep /\ compose_generation <= compose_generation'
    BY <1>i, Writes DEF WriterStep
  <1>b. Base'
    BY <1>i, BaseKept
  <1>t. /\ compose_generation \in Nat /\ capture \in Nat /\ capture <= compose_generation
        /\ active_draft.saved_fields \in Nat /\ active_draft.saved_fields <= compose_generation
        /\ save.fields \in Nat /\ save.fields <= compose_generation /\ NoRequest.generation = 0
    <2>1. save \in SaveIs /\ active_draft \in DraftRefs /\ save.fields <= compose_generation
      BY <1>i, BaseIs, RecordedIs DEF Texted
    <2>2. save.fields \in Nat /\ active_draft.saved_fields \in Nat
      BY <2>1, TextsAre DEF SaveIs, DraftRefs
    <2> QED
      BY <1>i, <2>1, <2>2, BaseIs, TextsAre DEF Texted, NoRequest
  <1>m. compose_generation' = compose_generation => fields' = fields
    BY <1>i, TextMoves
  <1>o. UpTo(ctl, compose_generation)
    BY DEF Queueing
  <1>1. ASSUME NEW f \in {Blank, compose_generation + 1}, Edit(f) PROVE Capturing'
    <2>1. /\ fields' = f /\ compose_generation' = compose_generation + 1 /\ capture' = compose_generation'
          /\ active_draft' = active_draft /\ save' = save /\ NoFlush
      BY <1>1 DEF Edit
    <2>2. ctl' = ctl /\ compose_generation' # compose_generation
      BY <1>t, <2>1, NoFlushIs
    <2>3. /\ \A r \in Outstanding(ctl) : r.generation # compose_generation'
          /\ ctl.pending.generation # compose_generation'
      BY <1>i, <1>b, <1>o, <1>w, <2>2, NoneOfNewer
    <2>4. Matching'
      BY <2>2, <2>3 DEF Matching
    <2>5. Unsaved'
      <3>1. CASE f = Blank
        BY <2>1, <3>1 DEF Unsaved
      <3>2. CASE f # Blank
        BY <1>t, <2>1, <3>2 DEF Unsaved
      <3> QED
        BY <3>1, <3>2
    <2> QED
      BY <2>1, <2>2, <2>3, <2>4, <2>5 DEF Capturing
  <1>2. ASSUME capture' # 0, ~(\E f \in {Blank, compose_generation + 1} : Edit(f)),
               compose_generation' = compose_generation
        PROVE  Capturing'
    <2>c. capture' = capture /\ capture # 0 /\ fields' = fields
      BY <1>i, <1>m, <1>2, CaptureMoves
    <2>1. ctl'.pending \in {ctl.pending, NoRequest}
      <3>1. ~CaptureFires /\ ~Replaces
        BY <1>2 DEF CaptureFires, Replaces, ReplaceNow
      <3> QED
        BY <1>i, <3>1, TimerIs
    <2>2. ctl.pending.generation # compose_generation
      BY <1>i, <2>c DEF Capturing, Emptied
    <2>3. ctl'.pending.generation # compose_generation
      BY <1>t, <2>c, <2>1, <2>2
    <2>4. ASSUME NEW g \in Generations, NEW a \in RecoveryAction, NEW op \in FlushOps, FlushStep(g, a, op)
          PROVE  (SaveSucceeded /\ op = "save updated")
                   \/ (DeleteSucceeded /\ op \in {"delete cleared", "delete updated"})
      BY <1>2, <1>i, <2>4, FlushStops DEF Stopped, Still
    <2>5. CASE capture = compose_generation
      <3>1. Unsaved /\ Matching
        BY <1>i, <2>c, <2>5 DEF Capturing
      <3>2. Unsaved'
        BY <1>2, <1>i, <2>c, <3>1, UnsavedKept, SavesStop
      <3>3. TextAction' = TextAction
        BY <2>c DEF TextAction
      <3>4. ASSUME NEW r \in Outstanding(ctl'), r.generation = compose_generation
            PROVE  r.action = TextAction' \/ (r.action = Clear /\ Deleting')
        <4>1. CASE r \in Outstanding(ctl)
          BY <1>2, <2>c, <3>1, <3>4, <4>1, MatchingStays DEF NothingStranded
        <4>2. ASSUME NEW g \in Generations, NEW a \in RecoveryAction, NEW op \in FlushOps, FlushStep(g, a, op),
                     SameWrite(r, g, a)
              PROVE  r.action = TextAction' \/ (r.action = Clear /\ Deleting')
          <5>1. r.action = a
            BY <4>2 DEF SameWrite
          <5>2. CASE op \in {"save updated", "delete updated"}
            <6>1. a = RecoveryActionFor(fields, active_draft')
              BY <4>2, <5>2 DEF FlushStep, Origin
            <6>2. RecoveryActionFor(fields', active_draft') = TextAction'
              BY <3>2, UnsavedNeeds DEF Unsaved, RecoveryActionFor, TextAction
            <6> QED
              BY <2>c, <5>1, <6>1, <6>2
          <5>3. CASE op = "delete cleared"
            <6>1. a = Clear /\ g = compose_generation /\ NewCallback(op, g) \in callbacks'
              BY <4>2, <5>3 DEF FlushStep, FlushThen, Origin, NewCallback
            <6>2. NewCallback(op, g).op = "delete cleared" /\ NewCallback(op, g).generation = compose_generation'
              BY <1>2, <1>i, <5>3, <6>1, NewIs
            <6>3. Deleting'
              BY <6>1, <6>2 DEF Deleting
            <6> QED
              BY <5>1, <6>1, <6>3
          <5> QED
            BY <2>4, <4>2, <5>2, <5>3
        <4> QED
          BY <1>i, <2>2, <3>4, <4>1, <4>2, TimerIs
      <3>5. Matching'
        BY <1>2, <3>4 DEF Matching
      <3> QED
        BY <1>2, <2>3, <2>5, <2>c, <3>2, <3>5 DEF Capturing
    <2>6. CASE capture # compose_generation
      <3>1. Emptied
        BY <1>i, <2>c, <2>6 DEF Capturing
      <3>2. \A r \in Outstanding(ctl') : r \in Outstanding(ctl) \/ r = ctl.pending
        <4>1. ASSUME NEW g \in Generations, NEW a \in RecoveryAction, NEW op \in FlushOps, FlushStep(g, a, op)
              PROVE  FALSE
          BY <2>4, <3>1, <4>1 DEF Emptied, Idle, SaveSucceeded, DeleteSucceeded
        <4> QED
          BY <1>i, <4>1, TimerIs
      <3>3. Emptied'
        BY <1>2, <1>i, <2>3, <2>c, <3>1, <3>2, EmptiedKept
      <3> QED
        BY <1>2, <2>6, <2>c, <3>3 DEF Capturing
    <2> QED
      BY <2>5, <2>6
  <1>3. ASSUME capture' # 0, ~(\E f \in {Blank, compose_generation + 1} : Edit(f)),
               compose_generation' # compose_generation
        PROVE  Capturing'
    <2>1. Emptied' /\ capture' # compose_generation'
      BY <1>3, <1>i, EmptiedByDeletion
    <2> QED
      BY <2>1 DEF Capturing
  <1>4. CASE capture' = 0
    BY <1>4 DEF Capturing
  <1> QED
    BY <1>1, <1>2, <1>3, <1>4

LEMMA NothingStrandedKept ==
  ASSUME ComposerInv, Answered, Queueing, NothingStranded, Step
  PROVE  NothingStranded'
  <1>i. Base /\ Registered /\ Stopped /\ DeleteClears /\ NoRepeat(ctl) /\ UpTo(ctl, compose_generation)
    BY DEF ComposerInv, NothingStranded, Queueing
  <1>1. Timed'
    BY TimedKept
  <1>2. Capturing'
    BY CapturingKept
  <1>3. Stopped'
    BY <1>i, StoppedKept
  <1>4. DeleteClears'
    BY <1>i, DeleteClearsKept
  <1>5. NoRepeat(ctl')
    BY <1>i, WriterInOrder DEF InOrder
  <1> QED
    BY <1>1, <1>2, <1>3, <1>4, <1>5 DEF NothingStranded

(***************************************************************************)
(* A running debounce timer of DraftAutosaveController is for the text in  *)
(* the composer, which is in no draft file, and whatever else is being     *)
(* written of that generation is that text, or a clear that an ending      *)
(* deletion waits for; a timer that was overtaken has nothing of the new   *)
(* generation beside it.  Who is about to empty or to send the composer    *)
(* has stopped the timers, and each request is in the queue once.          *)
(***************************************************************************)
THEOREM StrandingInvariance == ComposerSpec => []NothingStranded
  <1>1. ComposerInit => NothingStranded
    <2> SUFFICES ASSUME ComposerInit PROVE NothingStranded
      OBVIOUS
    <2>1. /\ ctl = NewController /\ callbacks = {} /\ delivering = {} /\ capture = 0
          /\ confirmation = NoConfirmation /\ send = NoSend
      BY DEF ComposerInit, Init
    <2>2. ctl.debounce_source = FALSE /\ ctl.urgent = <<>>
      BY <2>1 DEF NewController
    <2>3. NoRepeat(ctl)
      BY <2>2 DEF NoRepeat
    <2>4. Timed /\ Capturing /\ DeleteClears
      BY <2>1, <2>2 DEF Timed, Capturing, DeleteClears
    <2>5. Stopped
      BY <2>1, <2>2, NothingIs DEF Stopped, All, NoConfirmation, NoSend
    <2> QED
      BY <2>3, <2>4, <2>5 DEF NothingStranded
  <1>2. ComposerInv /\ Answered /\ ClosingInv /\ NothingStranded /\ [ComposerNext]_allVars => NothingStranded'
    <2>1. CASE ComposerInv /\ Answered /\ ClosingInv /\ NothingStranded /\ ComposerNext
      <3>1. Step
        BY <2>1, Classified DEF ComposerInv, Base
      <3> QED
        BY <2>1, <3>1, NothingStrandedKept DEF ClosingInv
    <2>2. ASSUME NothingStranded, UNCHANGED allVars PROVE NothingStranded'
      <3>1. UNCHANGED vars /\ UNCHANGED composerVars
        BY <2>2 DEF allVars
      <3>2. /\ UNCHANGED <<ctl, compose_generation, fields, active_draft, capture>>
            /\ UNCHANGED <<confirmation, send, save, callbacks, delivering>>
        BY <3>1 DEF vars, composerVars
      <3>3. Timed'
        BY <2>2, <3>2 DEF NothingStranded, Timed, Unsaved, Matching, TextAction, Deleting, NoneNow, Outstanding
      <3>4. Capturing'
        BY <2>2, <3>2 DEF NothingStranded, Capturing, Unsaved, Matching, TextAction, Deleting, NoneNow, Outstanding,
           Emptied, Idle
      <3>5. Stopped' /\ DeleteClears' /\ NoRepeat(ctl')
        BY <2>2, <3>2 DEF NothingStranded, Stopped, Still, All, DeleteClears
      <3> QED
        BY <3>3, <3>4, <3>5 DEF NothingStranded
    <2> QED
      BY <2>1, <2>2
  <1> QED
    BY <1>1, <1>2, ComposerInvariance, AnswersInvariance, ClosingInvariance, PTL DEF ComposerSpec

(* Only a flush that stops a running timer and joins a write strands a request. *)
LEMMA StrandedBy ==
  ASSUME Base, Step, Stranded(ctl'), ~(Stranded(ctl) /\ ctl'.pending = ctl.pending)
  PROVE  /\ ctl'.pending = ctl.pending /\ ctl.debounce_source
         /\ \E g \in Generations, a \in RecoveryAction, op \in FlushOps : FlushStep(g, a, op) /\ Joins(ctl, g, a)
  <1>t. ctl \in Controller /\ IdsOK(ctl) /\ flushes \in Nat
    BY DEF Base, IInv, TypeOK
  <1>w. WriterStep
    BY Writes
  <1>k. ctl' # ctl
    BY DEF Stranded
  <1>1. ASSUME NEW g \in Generations, NEW a \in RecoveryAction, ScheduleEdit(g, a) PROVE FALSE
    <2>1. ctl' = Schedule(ctl, g, a)
      BY <1>1 DEF ScheduleEdit
    <2>2. ctl'.debounce_source
      BY <1>t, <2>1 DEF Schedule, QueueDebounced, NextRequestId, CancelDebounce, Controller
    <2> QED
      BY <2>2 DEF Stranded
  <1>2. ASSUME NEW g \in Generations, NEW a \in RecoveryAction, NEW op \in FlushOps, FlushStep(g, a, op)
        PROVE  ctl'.pending = ctl.pending /\ ctl.debounce_source /\ Joins(ctl, g, a)
    <2>1. ctl' = Flush(ctl, g, a, flushes + 1) /\ flushes + 1 \in Nat \ {0}
      BY <1>2, <1>t DEF FlushStep, FlushThen, FlushBoundary
    <2>2. ctl'.pending = ctl.pending /\ ~ctl.pending_ready /\ Joins(ctl, g, a)
      BY <2>1, <1>t, FlushTimer
    <2>3. ctl.debounce_source
      BY <2>2 DEF Stranded
    <2> QED
      BY <2>2, <2>3
  <1>3. ~DebounceFires
    <2> SUFFICES ASSUME DebounceFires PROVE FALSE
      OBVIOUS
    <2> DEFINE e == [ctl EXCEPT !.debounce_source = FALSE, !.pending_ready = TRUE]
    <2>1. ctl' = StartPendingWrite(e)
      BY DEF DebounceFires, DebounceElapsed
    <2>2. e \in Controller /\ e.pending_ready
      BY <1>t DEF Controller
    <2> HIDE DEF e
    <2>3. ctl'.pending_ready \/ ctl'.pending = NoRequest
      BY <2>1, <2>2, StartTimer
    <2> QED
      BY <2>3 DEF Stranded
  <1>4. ~ResumeWrites
    <2> SUFFICES ASSUME ResumeWrites PROVE FALSE
      OBVIOUS
    <2>1. ctl' = StartPendingWrite(ctl)
      BY DEF ResumeWrites
    <2>2. /\ ctl'.debounce_source = ctl.debounce_source
          /\ \/ ctl'.pending = ctl.pending /\ ctl'.pending_ready = ctl.pending_ready
             \/ ctl'.pending = NoRequest
      BY <2>1, <1>t, StartTimer
    <2> QED
      BY <2>2 DEF Stranded
  <1>5. ASSUME NEW w \in workers, Receives(w) PROVE FALSE
    <2>1. ctl' = ReleaseActive(ctl)
      BY <1>5 DEF Receives, FinishWrite
    <2>2. ctl'.pending = ctl.pending /\ ctl'.debounce_source = ctl.debounce_source /\ ctl'.pending_ready = ctl.pending_ready
      BY <2>1, <1>t DEF ReleaseActive, Controller
    <2> QED
      BY <2>2 DEF Stranded
  <1>6. NoFlush => ctl' = ctl
    BY DEF NoFlush
  <1>7. (\E w \in workers : WorkerStep(w)) => ctl' = ctl
    BY DEF WorkerStep, WriterCommits, WriterSucceeds, WriterFails
  <1> QED
    BY <1>w, <1>k, <1>1, <1>2, <1>3, <1>4, <1>5, <1>6, <1>7 DEF WriterStep

(* A flush under a running timer is of the composer's generation. *)
LEMMA FlushIsNow ==
  ASSUME ComposerInv, Queueing, Stopped, Step, ctl.debounce_source,
         NEW g \in Generations, NEW a \in RecoveryAction, NEW op \in FlushOps, FlushStep(g, a, op), Joins(ctl, g, a)
  PROVE  g = compose_generation
  <1>i. Base /\ Registered /\ UpTo(ctl, compose_generation)
    BY DEF ComposerInv, Queueing
  <1>b. Base' /\ compose_generation <= compose_generation'
    BY <1>i, BaseKept, Writes DEF WriterStep
  <1>o. Origin(g, a, op)
    BY DEF FlushStep
  <1>1. CASE op = "send"
    <2>1. PICK f \in Texts, d \in DraftRefs : Sends(f, d, g)
      BY <1>1, <1>o DEF Origin
    <2>2. g = compose_generation \/ (confirmation.kind = "send" /\ g = confirmation.generation)
      BY <2>1 DEF Sends
    <2> QED
      BY <2>2 DEF Stopped
  <1>2. CASE op = "close"
    <2>1. g = compose_generation'
      BY <1>2, <1>o DEF Origin
    <2>2. PICK r \in Outstanding(ctl) : r.generation = g
      BY DEF Joins, Joinable, SameWrite
    <2>3. compose_generation' = compose_generation
      BY <1>i, <1>b, <2>1, <2>2, NoneOfNewer
    <2> QED
      BY <2>1, <2>3
  <1>3. CASE op \notin {"send", "close"}
    BY <1>3, <1>o DEF Origin, FlushOps
  <1> QED
    BY <1>1, <1>2, <1>3

(* While a deletion waits for its flush, only a close that goes on flushes. *)
LEMMA FlushWhileDeleting ==
  ASSUME ComposerInv, Step, Deleting,
         NEW g \in Generations, NEW a \in RecoveryAction, NEW op \in FlushOps, FlushStep(g, a, op)
  PROVE  op = "close" /\ CloseFlushed
  <1>i. Base /\ Registered /\ Texting
    BY DEF ComposerInv
  <1>o. Origin(g, a, op)
    BY DEF FlushStep
  <1>1. PICK cb \in callbacks : cb.op = "delete cleared"
    BY DEF Deleting
  <1>2. cb \in All /\ save.phase = "delete updating"
    BY <1>i, <1>1 DEF Registered, Linked, SaveLinked, All
  <1>3. send.phase = "idle" /\ ~Idle
    BY <1>i, <1>2 DEF Texting, Exclusive, Idle
  <1>4. ~Closes /\ ~Clears /\ ~Reconciles
    BY <1>3 DEF Closes, Clears, Reconciles
  <1>5. /\ \A f \in Texts, d \in DraftRefs : ~Sends(f, d, g)
        /\ \A f \in Texts, d \in DraftRefs : ~Saves(f, d)
    BY <1>3 DEF Sends, Saves
  <1>6. ~SaveSucceeded /\ ~DeleteSucceeded
    BY <1>2 DEF SaveSucceeded, DeleteSucceeded
  <1>7. ~Cleans
    BY <1>3 DEF Cleans, SendAccepted, SentDraftHandled
  <1>8. ~Repersists
    <2> SUFFICES ASSUME Repersists PROVE FALSE
      OBVIOUS
    <2>1. delivering # {} /\ First.op = "sent clear"
      BY DEF Repersists, SentCleared, Callback
    <2>2. First \in All
      BY <1>i, <2>1, BaseIs, FirstIs DEF All
    <2> QED
      BY <1>i, <1>3, <2>1, <2>2 DEF Registered, Linked, SendLinked
  <1>9. ~Ends
    <2> SUFFICES ASSUME Ends PROVE FALSE
      OBVIOUS
    <2>1. delivering # {} /\ (SendOp(First.op) \/ SaveOp(First.op))
      BY <1>i, <1>2, <1>3, EndsIs
    <2>2. First \in delivering /\ First \in All
      BY <1>i, <2>1, BaseIs, FirstIs DEF All
    <2>3. ~SendOp(First.op)
      BY <1>i, <1>3, <2>2 DEF Registered, Linked, SendLinked, SendOp
    <2>4. SaveOp(First.op) /\ SaveOp(cb.op)
      BY <1>1, <2>1, <2>3 DEF SaveOp
    <2>5. First = cb
      BY <1>i, <1>2, <2>2, <2>4 DEF Registered, Once, SameActivity
    <2> QED
      BY <1>i, <1>1, <2>2, <2>5 DEF Registered, Numbered
  <1> QED
    BY <1>o, <1>4, <1>5, <1>6, <1>7, <1>8, <1>9 DEF Origin, FlushOps

LEMMA StrandedJoins ==
  ASSUME ComposerInv, Queueing, NothingStranded, Step,
         Stranded(ctl'), ~(Stranded(ctl) /\ ctl'.pending = ctl.pending)
  PROVE  Joins(ctl', ctl'.pending.generation, ctl'.pending.action)
  <1>i. Base /\ Registered /\ Timed /\ Stopped /\ UpTo(ctl, compose_generation)
    BY DEF ComposerInv, NothingStranded, Queueing
  <1>1. ctl'.pending = ctl.pending /\ ctl.debounce_source
    BY <1>i, StrandedBy
  <1>2. PICK g \in Generations, a \in RecoveryAction, op \in FlushOps : FlushStep(g, a, op) /\ Joins(ctl, g, a)
    BY <1>i, StrandedBy
  <1>3. PICK r \in Outstanding(ctl) : SameWrite(r, g, a)
    BY <1>2 DEF Joins, Joinable
  <1>4. r.generation = compose_generation
    <2>1. g = compose_generation
      BY <1>1, <1>2, <1>i, FlushIsNow
    <2> QED
      BY <1>3, <2>1 DEF SameWrite
  <1>5. ctl.pending.generation = compose_generation /\ Unsaved /\ Matching /\ ctl.pending.action = TextAction
    BY <1>i, <1>1, <1>4 DEF Timed, NoneNow
  <1>6. r.action = TextAction
    <2>1. r.action = TextAction \/ (r.action = Clear /\ Deleting)
      BY <1>4, <1>5 DEF Matching
    <2>2. ASSUME r.action = Clear, Deleting PROVE r.action = TextAction
      <3>1. op = "close" /\ CloseFlushed
        BY <1>2, <2>2, FlushWhileDeleting
      <3>2. a = RecoveryActionFor(fields', active_draft')
        BY <1>2, <3>1 DEF FlushStep, Origin
      <3>3. fields' = fields /\ active_draft' = active_draft
        BY <3>1 DEF CloseFlushed, KeepComposer
      <3>4. a = TextAction
        BY <1>5, <3>2, <3>3, UnsavedNeeds
      <3> QED
        BY <1>3, <3>4 DEF SameWrite
    <2> QED
      BY <2>1, <2>2
  <1>7. r \in Outstanding(ctl')
    <2>1. ctl' = Flush(ctl, g, a, flushes + 1) /\ flushes \in Nat
      BY <1>2, <1>i DEF FlushStep, FlushThen, FlushBoundary, Base, IInv, TypeOK
    <2>2. ctl \in Controller /\ IdsOK(ctl) /\ flushes + 1 \in Nat \ {0}
      BY <1>i, <2>1 DEF Base, IInv, TypeOK
    <2> QED
      BY <2>1, <2>2, FlushInOrder
  <1>8. r # NoRequest
    BY <1>3 DEF SameWrite
  <1> QED
    BY <1>1, <1>4, <1>5, <1>6, <1>7, <1>8 DEF Joins, Joinable, SameWrite

(***************************************************************************)
(* A flush of the composer that stops the debounce timer and leaves its    *)
(* edit pending, as queue_flush does when it joins a write in progress,    *)
(* joined the write of that very edit: no send, save, close or deletion    *)
(* leaves an edit behind that nothing writes.                              *)
(***************************************************************************)
THEOREM EditNotStranded == ComposerSpec => NoStrandedEdit
  <1> DEFINE Sound ==
        Stranded(ctl') /\ ~(Stranded(ctl) /\ ctl'.pending = ctl.pending) =>
          Joins(ctl', ctl'.pending.generation, ctl'.pending.action)
  <1>1. ComposerInv /\ ClosingInv /\ NothingStranded /\ [ComposerNext]_allVars => [Sound]_ctl
    <2>1. ASSUME ComposerInv, ClosingInv, NothingStranded, ComposerNext PROVE Sound
      <3>1. Step
        BY <2>1, Classified DEF ComposerInv, Base
      <3> QED
        BY <2>1, <3>1, StrandedJoins DEF ClosingInv
    <2>2. ASSUME UNCHANGED allVars PROVE UNCHANGED ctl
      BY <2>2 DEF allVars, vars
    <2> HIDE DEF Sound
    <2> QED
      BY <2>1, <2>2
  <1>2. NoStrandedEdit <=> [][Sound]_ctl
    BY DEF NoStrandedEdit
  <1> QED
    BY <1>1, <1>2, ComposerInvariance, ClosingInvariance, StrandingInvariance, PTL DEF ComposerSpec

================================================================================
