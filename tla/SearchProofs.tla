----------------------------- MODULE SearchProofs ------------------------------
(***************************************************************************)
(* Proofs about the searches of the main window (SearchWorker and          *)
(* SearchActivity), for every set of queries, any number of pages, refresh *)
(* requests and user operations.                                           *)
(***************************************************************************)
EXTENDS SearchActivity, FiniteSetTheorems, TLAPS

(***************************************************************************)
(* Types.                                                                  *)
(***************************************************************************)
Worker ==
    [queue : Seq(Job \cup {NoJob}), running : Job \cup {NoJob}, since : Nat, active : Nat,
     replies : SUBSET Reply]
Bar ==
    [generation : Nat \ {0}, requested : Queries \cup {NoQuery},
     timer : [generation : Nat, query : Queries \cup {NoQuery}]]
Ui ==
    [search_generation : Nat, search_loading : BOOLEAN, pending_query : Queries \cup {NoQuery},
     search_error : BOOLEAN, current_query : Queries, items : ItemSet,
     outcome_generation : Nat, outcome_error : BOOLEAN, sync_in_progress : BOOLEAN,
     tag_in_progress : BOOLEAN, tag_warning : BOOLEAN, tag_paths_uncertain : BOOLEAN]
Update == [generation : Nat, kind : Kinds \cup {"settings"}, live : BOOLEAN, target : ItemSet]

PaneTypes ==
    /\ bar \in Bar /\ ui \in Ui /\ worker \in Worker /\ updates \subseteq Update
    /\ db \in Nat /\ worker.since <= db
    /\ window \in {"visible", "hidden", "closed"}
    /\ bar.timer # NoTimer => bar.timer.query \in Queries /\ bar.timer.generation > 0

(* The flag of every job is set, or is the one the service remembers. *)
Reached(w) ==
    /\ \A i \in DOMAIN w.queue : w.queue[i].generation \in {0, w.active} \/ w.queue[i].cancelled
    /\ w.running.generation \in {0, w.active} \/ w.running.cancelled

(***************************************************************************)
(* Generations.  The window and its search bar agree on the current one;   *)
(* nothing has a later one.                                                *)
(***************************************************************************)
QueueGens(w) == {w.queue[i].generation : i \in DOMAIN w.queue}
JobGens(w) == QueueGens(w) \cup {w.running.generation}

Generations ==
    /\ ui.search_generation = bar.generation
    /\ ui.outcome_generation <= bar.generation
    /\ bar.timer.generation <= bar.generation
    /\ \A g \in JobGens(worker) : g <= bar.generation
    /\ \A r \in worker.replies : r.generation <= bar.generation
    /\ \A x \in updates : x.generation <= bar.generation

(* A generation has one reply, which waits while there is a job for it. *)
OneReply ==
    /\ \A r, s \in worker.replies : r.generation = s.generation => r = s
    /\ \A r \in worker.replies : r.generation \in JobGens(worker) => r.status = "waiting"
    /\ worker.running # NoJob => worker.running.generation \notin QueueGens(worker)

(* The current generation is in one place: debounced, with the worker, or    *)
(* being applied to the list.                                                *)
Announced == ui.search_loading <=> ui.pending_query # NoQuery
Debounced ==
    bar.timer.generation = bar.generation =>
        /\ bar.generation \notin JobGens(worker)
        /\ \A r \in worker.replies : r.generation # bar.generation
        /\ \A x \in updates : x.generation # bar.generation
        /\ ui.search_loading /\ ui.pending_query = bar.timer.query
CurrentReply ==
    \A r \in worker.replies : r.generation = bar.generation =>
        /\ ui.search_loading /\ ui.pending_query = r.query
        /\ \A x \in updates : x.generation # bar.generation
        /\ r.kind = "append" => ui.items.pages \in 1 .. MaxPages - 1 /\ r.query = ui.items.query
        /\ r.status = "ok" => r.version >= ui.items.version
CurrentJob ==
    /\ worker.running.generation = bar.generation => worker.since >= ui.items.version
    /\ ui.items.version <= db
    /\ \A r \in worker.replies : r.status = "ok" => r.version <= db
CurrentIsLast ==
    window # "closed" /\ bar.generation \in QueueGens(worker)
        => LatestSearchJob(worker.queue).generation = bar.generation
(* The list model is made to show the items of the window. *)
TargetsItems ==
    /\ \A x \in updates : x.live => x.target = ui.items
    /\ \A x, y \in updates : x.live /\ y.live => x = y
    /\ rows \in ItemSet \cup {Partial}
    /\ ui.items # NoItems => ui.items.query = ui.current_query

PaneInv ==
    /\ PaneTypes /\ Generations /\ OneReply /\ Announced /\ Debounced /\ CurrentReply
    /\ CurrentJob /\ CurrentIsLast /\ Reached(worker) /\ TargetsItems /\ AwaitedSearchNotDropped

(***************************************************************************)
(* Freshness.  FreshFrom(m, s): a full search of generation m or later     *)
(* shows the database as of commit s or later.                             *)
(***************************************************************************)
FreshFrom(m, s) ==
    /\ worker.running.generation >= m => worker.since >= s
    /\ \A r \in worker.replies : r.status = "ok" /\ r.generation >= m => r.version >= s
    /\ \A x \in updates : x.kind = "full" /\ x.generation >= m => ui.items.version >= s
    /\ ui.outcome_generation >= m /\ ~ui.outcome_error => ui.items.version >= s

SyncFresh ==
    /\ sync \in [phase : {"idle", "commands", "ended", "refresh"}, generation : Nat, since : Nat,
                 ok : BOOLEAN]
    /\ sync.since <= db
    /\ sync.phase = "refresh" => sync.generation > 0 /\ FreshFrom(sync.generation, sync.since)
TagFresh ==
    /\ tag \in [phase : {"idle", "running", "done"}, interrupted : BOOLEAN, reserved : Nat,
                since : Nat, result : TagResults \cup {"none"}]
    /\ tag.since <= db
    /\ tag.phase # "idle" => ui.tag_in_progress /\ ~ui.tag_warning
    /\ ui.tag_warning => FreshFrom(ui.search_generation, tag.since)
RefreshesFresh ==
    /\ refreshes \in [Requests -> [status : {"new", "waiting", "ok", "failed"}, since : Nat,
                                   minimum : Nat]]
    /\ \A r \in Requests : refreshes[r].since <= db
    /\ \A r \in Requests : refreshes[r].status = "waiting" =>
         refreshes[r].minimum > 0 /\ FreshFrom(refreshes[r].minimum, refreshes[r].since)

ActivityInv == PaneInv /\ agenda \in AgendaSet /\ SyncFresh /\ TagFresh /\ RefreshesFresh

(***************************************************************************)
(* What the operations of the worker service do to the generations.        *)
(***************************************************************************)
Trimmed(w, v) ==
    /\ v \in Worker
    /\ QueueGens(v) \subseteq QueueGens(w) \cup {0}
    /\ v.running.generation = w.running.generation
    /\ v.since = w.since /\ v.replies = w.replies
Launched(w, v, g, k, q) ==
    /\ v \in Worker
    /\ QueueGens(v) \subseteq QueueGens(w) \cup {0, g}
    /\ v.running.generation = w.running.generation
    /\ v.since = w.since
    /\ v.replies = w.replies \cup {[generation |-> g, kind |-> k, query |-> q,
                                    status |-> "waiting", version |-> 0]}

LEMMA FlaggedJob ==
    ASSUME NEW w \in Worker, NEW j \in Job \cup {NoJob}
    PROVE  /\ Flagged(w, j) \in Job \cup {NoJob}
           /\ Flagged(w, j).generation = j.generation
           /\ Flagged(w, j).cancelled \in BOOLEAN
           /\ j.generation = w.active /\ j # NoJob => Flagged(w, j).cancelled
           /\ j.cancelled => Flagged(w, j).cancelled
           /\ (j = NoJob) <=> (j.generation = 0)
  <1>1. CASE j = NoJob
    BY <1>1 DEF Flagged, NoJob
  <1>2. CASE j \in Job
    <2>1. j # NoJob /\ j.generation # 0
      BY <1>2 DEF NoJob, Job
    <2>2. [j EXCEPT !.cancelled = TRUE] \in Job
      BY <1>2 DEF Job
    <2>3. [j EXCEPT !.cancelled = TRUE].generation = j.generation
          /\ [j EXCEPT !.cancelled = TRUE].cancelled = TRUE
      BY <1>2 DEF Job
    <2>4. j.cancelled \in BOOLEAN
      BY <1>2 DEF Job
    <2>5. CASE j.generation = w.active
      BY <1>2, <2>1, <2>2, <2>3, <2>5 DEF Flagged
    <2>6. CASE j.generation # w.active
      BY <1>2, <2>1, <2>4, <2>6 DEF Flagged
    <2> QED
      BY <2>5, <2>6
  <1> QED
    BY <1>1, <1>2

LEMMA CancelActiveSets ==
    ASSUME NEW w \in Worker
    PROVE  /\ CancelActive(w).queue = [i \in DOMAIN w.queue |-> Flagged(w, w.queue[i])]
           /\ CancelActive(w).running = Flagged(w, w.running)
           /\ CancelActive(w).active = 0
           /\ CancelActive(w).since = w.since /\ CancelActive(w).replies = w.replies
           /\ CancelActive(w) = [queue |-> [i \in DOMAIN w.queue |-> Flagged(w, w.queue[i])],
                running |-> Flagged(w, w.running), since |-> w.since, active |-> 0,
                replies |-> w.replies]
  <1>1. w = [queue |-> w.queue, running |-> w.running, since |-> w.since, active |-> w.active,
             replies |-> w.replies]
    BY DEF Worker
  <1> DEFINE f == [i \in DOMAIN w.queue |-> Flagged(w, w.queue[i])]
             r == Flagged(w, w.running)
  <1>3. CancelActive(w) = [w EXCEPT !.queue = f, !.running = r, !.active = 0]
    BY DEF CancelActive
  <1>2. CancelActive(w) = [queue |-> f, running |-> r, since |-> w.since, active |-> 0,
                           replies |-> w.replies]
    <2> HIDE DEF f, r
    <2> QED
      BY <1>1, <1>3
  <1> QED
    BY <1>2

LEMMA CancelActiveFlags ==
    ASSUME NEW w \in Worker, Reached(w)
    PROVE  /\ CancelActive(w) \in Worker
           /\ Len(CancelActive(w).queue) = Len(w.queue)
           /\ \A i \in 1 .. Len(w.queue) :
                /\ CancelActive(w).queue[i] \in Job \cup {NoJob}
                /\ CancelActive(w).queue[i].generation = w.queue[i].generation
                /\ w.queue[i].generation = 0 \/ CancelActive(w).queue[i].cancelled
           /\ w.running.generation = 0 \/ CancelActive(w).running.cancelled
           /\ CancelActive(w).running.generation = w.running.generation
  <1>1. w.queue \in Seq(Job \cup {NoJob}) /\ w.running \in Job \cup {NoJob}
        /\ w.since \in Nat /\ w.active \in Nat /\ w.replies \subseteq Reply
    BY DEF Worker
  <1>2. DOMAIN w.queue = 1 .. Len(w.queue) /\ Len(w.queue) \in Nat
        /\ \A i \in 1 .. Len(w.queue) : w.queue[i] \in Job \cup {NoJob}
    BY <1>1
  <1>3. \A i \in 1 .. Len(w.queue) :
          /\ Flagged(w, w.queue[i]) \in Job \cup {NoJob}
          /\ Flagged(w, w.queue[i]).generation = w.queue[i].generation
          /\ w.queue[i].generation = 0 \/ Flagged(w, w.queue[i]).cancelled
    <2> TAKE i \in 1 .. Len(w.queue)
    <2>1. w.queue[i] \in Job \cup {NoJob}
      BY <1>2
    <2>2. w.queue[i].generation \in {0, w.active} \/ w.queue[i].cancelled
      BY <1>2 DEF Reached
    <2> QED
      BY <2>1, <2>2, FlaggedJob
  <1>4. /\ Flagged(w, w.running) \in Job \cup {NoJob}
        /\ Flagged(w, w.running).generation = w.running.generation
        /\ w.running.generation = 0 \/ Flagged(w, w.running).cancelled
    BY <1>1, FlaggedJob DEF Reached
  <1> DEFINE f == [i \in 1 .. Len(w.queue) |-> Flagged(w, w.queue[i])]
  <1>5. f \in Seq(Job \cup {NoJob}) /\ Len(f) = Len(w.queue)
    <2> HIDE DEF Flagged
    <2> QED
      BY <1>2, <1>3
  <1>6. CancelActive(w).queue = f
    BY <1>2, CancelActiveSets
  <1>7. CancelActive(w) \in Worker
    <2> DEFINE r == Flagged(w, w.running)
    <2>1. CancelActive(w) = [queue |-> f, running |-> r, since |-> w.since, active |-> 0,
                             replies |-> w.replies]
      BY <1>2, CancelActiveSets
    <2> HIDE DEF f, r
    <2>2. r \in Job \cup {NoJob}
      BY <1>4 DEF r
    <2> QED
      BY <1>1, <1>5, <2>1, <2>2 DEF Worker
  <1> QED
    BY <1>3, <1>4, <1>5, <1>6, <1>7, CancelActiveSets

LEMMA JobsKeeps ==
    ASSUME NEW S, NEW s \in Seq(S)
    PROVE  /\ Jobs(s) \in Seq(S) /\ Len(Jobs(s)) <= Len(s)
           /\ \A i \in 1 .. Len(Jobs(s)) : Jobs(s)[i] = s[i]
  <1>1. CASE s # <<>> /\ s[Len(s)] = NoJob
    <2>1. Len(s) \in Nat /\ Len(s) >= 1
      BY <1>1
    <2>2. Jobs(s) = SubSeq(s, 1, Len(s) - 1)
      BY <1>1 DEF Jobs
    <2> QED
      BY <2>1, <2>2
  <1>2. CASE ~(s # <<>> /\ s[Len(s)] = NoJob)
    BY <1>2 DEF Jobs
  <1> QED
    BY <1>1, <1>2

(* A queue of flagged jobs, without a trailing Cancel, and one more command. *)
LEMMA QueueWith ==
    ASSUME NEW w \in Worker, Reached(w), NEW j \in Job \cup {NoJob}, NEW v \in Worker,
           v.queue = Append(Jobs(CancelActive(w).queue), j),
           v.running = CancelActive(w).running, v.active = j.generation
    PROVE  /\ QueueGens(v) \subseteq QueueGens(w) \cup {j.generation}
           /\ LatestSearchJob(v.queue) = j
           /\ v.running.generation = w.running.generation
           /\ Reached(v)
  <1> DEFINE c == CancelActive(w)
             s == Jobs(c.queue)
  <1>1. c.queue \in Seq(Job \cup {NoJob}) /\ w.queue \in Seq(Job \cup {NoJob})
    BY CancelActiveFlags DEF Worker
  <1>2. /\ s \in Seq(Job \cup {NoJob}) /\ Len(s) <= Len(c.queue)
        /\ \A i \in 1 .. Len(s) : s[i] = c.queue[i]
    BY <1>1, JobsKeeps
  <1>3. \A i \in 1 .. Len(s) :
          /\ i \in 1 .. Len(w.queue)
          /\ s[i].generation = w.queue[i].generation
          /\ w.queue[i].generation = 0 \/ s[i].cancelled
    BY <1>1, <1>2, CancelActiveFlags
  <1> HIDE DEF s
  <1>4. /\ v.queue = Append(s, j) /\ Len(v.queue) = Len(s) + 1 /\ v.queue[Len(s) + 1] = j
        /\ \A i \in 1 .. Len(s) : v.queue[i] = s[i]
        /\ DOMAIN v.queue = 1 .. Len(s) + 1 /\ Len(s) \in Nat
    BY <1>2 DEF s
  <1>5. QueueGens(v) \subseteq QueueGens(w) \cup {j.generation}
    <2> SUFFICES ASSUME NEW i \in 1 .. Len(s) + 1
                 PROVE  v.queue[i].generation \in QueueGens(w) \cup {j.generation}
      BY <1>4 DEF QueueGens
    <2>1. CASE i = Len(s) + 1
      BY <1>4, <2>1
    <2>2. CASE i \in 1 .. Len(s)
      BY <1>1, <1>3, <1>4, <2>2 DEF QueueGens
    <2> QED
      BY <1>4, <2>1, <2>2
  <1>6. Reached(v)
    <2>1. ASSUME NEW i \in DOMAIN v.queue
          PROVE  v.queue[i].generation \in {0, v.active} \/ v.queue[i].cancelled
      <3>1. CASE i = Len(s) + 1
        BY <1>4, <3>1
      <3>2. CASE i \in 1 .. Len(s)
        BY <1>3, <1>4, <3>2
      <3> QED
        BY <1>4, <2>1, <3>1, <3>2
    <2>2. v.running.generation \in {0, v.active} \/ v.running.cancelled
      BY CancelActiveFlags
    <2> QED
      BY <2>1, <2>2 DEF Reached
  <1> QED
    BY <1>4, <1>5, <1>6, CancelActiveFlags DEF LatestSearchJob

LEMMA CancelTrims ==
    ASSUME NEW w \in Worker, Reached(w)
    PROVE  Trimmed(w, Cancel(w)) /\ Reached(Cancel(w))
  <1> DEFINE c == CancelActive(w)
             s == Append(Jobs(c.queue), NoJob)
  <1>1. c \in Worker /\ c.active = 0 /\ c.since = w.since /\ c.replies = w.replies
    BY CancelActiveFlags, CancelActiveSets
  <1>2. s \in Seq(Job \cup {NoJob})
    BY <1>1, JobsKeeps DEF Worker
  <1>3. Cancel(w) = [c EXCEPT !.queue = s]
    BY DEF Cancel
  <1> HIDE DEF c, s
  <1>4. /\ Cancel(w) \in Worker /\ Cancel(w).queue = s /\ Cancel(w).running = c.running
        /\ Cancel(w).active = 0 /\ Cancel(w).since = w.since /\ Cancel(w).replies = w.replies
    BY <1>1, <1>2, <1>3 DEF Worker
  <1>5. NoJob.generation = 0
    BY DEF NoJob
  <1>6. QueueGens(Cancel(w)) \subseteq QueueGens(w) \cup {0} /\ Reached(Cancel(w))
        /\ Cancel(w).running.generation = w.running.generation
    <2> USE DEF c, s
    <2> QED
      BY <1>4, <1>5, QueueWith
  <1> QED
    BY <1>4, <1>6 DEF Trimmed

LEMMA SubmitLaunches ==
    ASSUME NEW w \in Worker, Reached(w), NEW g \in Nat \ {0}, NEW k \in Kinds, NEW q \in Queries
    PROVE  /\ Launched(w, Submit(w, g, k, q), g, k, q) /\ Reached(Submit(w, g, k, q))
           /\ LatestSearchJob(Submit(w, g, k, q).queue).generation = g
  <1> DEFINE c == CancelActive(w)
             j == [generation |-> g, kind |-> k, query |-> q, cancelled |-> FALSE]
             r == [generation |-> g, kind |-> k, query |-> q, status |-> "waiting", version |-> 0]
             s == Append(Jobs(c.queue), j)
             v == Submit(w, g, k, q)
  <1>1. c \in Worker /\ c.since = w.since /\ c.replies = w.replies
    BY CancelActiveFlags, CancelActiveSets
  <1>2. j \in Job \cup {NoJob} /\ r \in Reply /\ j.generation = g
    BY DEF Job, Reply
  <1>3. s \in Seq(Job \cup {NoJob})
    BY <1>1, <1>2, JobsKeeps DEF Worker
  <1>4. v = [c EXCEPT !.active = g, !.queue = s, !.replies = c.replies \cup {r}]
    BY DEF Submit
  <1>5. /\ v \in Worker /\ v.queue = s /\ v.running = c.running /\ v.active = g
        /\ v.since = w.since /\ v.replies = w.replies \cup {r}
    <2> HIDE DEF c, s, r, v
    <2> QED
      BY <1>1, <1>2, <1>3, <1>4 DEF Worker
  <1>6. /\ QueueGens(v) \subseteq QueueGens(w) \cup {g} /\ LatestSearchJob(v.queue) = j
        /\ v.running.generation = w.running.generation /\ Reached(v)
    <2>1. v.queue = Append(Jobs(CancelActive(w).queue), j) /\ v.running = CancelActive(w).running
      BY <1>5
    <2>2. v \in Worker /\ v.active = j.generation /\ j.generation = g /\ j \in Job \cup {NoJob}
      BY <1>2, <1>5
    <2> HIDE DEF j, v, c, s, r
    <2> QED
      BY <2>1, <2>2, QueueWith
  <1> QED
    BY <1>2, <1>5, <1>6 DEF Launched

(***************************************************************************)
(* The steps of the window, by what they do to generations.                *)
(***************************************************************************)
SameView ==
    /\ ui'.items = ui.items /\ ui'.current_query = ui.current_query
    /\ ui'.outcome_generation = ui.outcome_generation /\ ui'.outcome_error = ui.outcome_error
SameUpdates ==
    \A y \in updates' : \/ y.generation = 0 /\ y.kind = "settings"
                        \/ \E x \in updates : x.generation = y.generation /\ x.kind = y.kind
LiveOne ==
    /\ \A x \in updates : x.live => x.target = ui.items
    /\ \A x, y \in updates : x.live /\ y.live => x = y

(* A handler reserves generation g, to launch nothing now or a search, or    *)
(* launches the search of the generation that was reserved for a typed query.*)
Reserves(g) ==
    /\ g \in Nat
    /\ g > bar.generation \/ (g = bar.generation /\ bar.timer.generation = g /\ bar'.timer = NoTimer)
    /\ bar' \in Bar /\ bar'.generation = g
    /\ ui' \in Ui /\ ui'.search_generation = g /\ Announced' /\ SameView
    /\ updates' \subseteq Update /\ SameUpdates /\ LiveOne'
    /\ db' = db /\ rows' = rows /\ window' \in {window, "closed"}
    /\ Reached(worker')
    /\ \/ /\ Trimmed(worker, worker')
          /\ \/ bar'.timer \in {bar.timer, NoTimer}
             \/ /\ bar'.timer = [generation |-> g, query |-> ui'.pending_query]
                /\ ui'.search_loading
       \/ \E k \in Kinds, q \in Queries :
            /\ Launched(worker, worker', g, k, q)
            /\ window' # "closed" => LatestSearchJob(worker'.queue).generation = g
            /\ bar'.timer \in {bar.timer, NoTimer}
            /\ ui'.search_loading /\ ui'.pending_query = q
            /\ k = "append" => ui.items.pages \in 1 .. MaxPages - 1 /\ ui.items.query = q

(* A handler leaves the current generation where it is. *)
Rests ==
    /\ bar' \in Bar /\ bar'.generation = bar.generation /\ bar'.timer \in {bar.timer, NoTimer}
    /\ ui' \in Ui /\ ui'.search_generation = ui.search_generation /\ SameView
    /\ ui'.search_loading = ui.search_loading /\ ui'.pending_query = ui.pending_query
    /\ updates' \subseteq Update /\ SameUpdates /\ LiveOne'
    /\ db' \in Nat /\ db' >= db /\ rows' \in ItemSet \cup {Partial}
    /\ window' \in {"visible", "hidden", "closed"} /\ (window = "closed" => window' = "closed")
    /\ worker' \in Worker /\ Reached(worker')
    /\ worker'.running.generation = worker.running.generation /\ worker'.since = worker.since
    /\ worker'.replies \subseteq worker.replies
    /\ QueueGens(worker') \subseteq QueueGens(worker) \cup {0}
    /\ worker'.queue = worker.queue \/ window' = "closed"

LEMMA Numbers ==
    ASSUME PaneTypes
    PROVE  /\ bar.generation \in Nat \ {0} /\ ui.search_generation \in Nat
           /\ ui.outcome_generation \in Nat /\ bar.timer.generation \in Nat
           /\ worker.running.generation \in Nat /\ worker.since \in Nat /\ db \in Nat
           /\ ui.items.version \in Nat
           /\ \A g \in JobGens(worker) : g \in Nat
           /\ \A r \in worker.replies : r.generation \in Nat \ {0} /\ r.version \in Nat
           /\ \A x \in updates : x.generation \in Nat
  <1>1. bar.generation \in Nat \ {0} /\ bar.timer.generation \in Nat
    BY DEF PaneTypes, Bar
  <1>2. ui.search_generation \in Nat /\ ui.outcome_generation \in Nat /\ ui.items \in ItemSet
    BY DEF PaneTypes, Ui
  <1>3. ui.items.version \in Nat
    BY <1>2 DEF ItemSet, NoItems
  <1>4. /\ worker.since \in Nat /\ db \in Nat /\ worker.running \in Job \cup {NoJob}
        /\ worker.queue \in Seq(Job \cup {NoJob}) /\ worker.replies \subseteq Reply
    BY DEF PaneTypes, Worker
  <1>5. \A j \in Job \cup {NoJob} : j.generation \in Nat
    BY DEF Job, NoJob
  <1>6. worker.running.generation \in Nat
    BY <1>4, <1>5
  <1>7. \A i \in DOMAIN worker.queue : worker.queue[i].generation \in Nat
    BY <1>4, <1>5
  <1>8. \A r \in worker.replies : r.generation \in Nat \ {0} /\ r.version \in Nat
    BY <1>4 DEF Reply
  <1>9. \A x \in updates : x.generation \in Nat
    BY DEF PaneTypes, Update
  <1> QED
    BY <1>1, <1>2, <1>3, <1>4, <1>6, <1>7, <1>8, <1>9 DEF JobGens, QueueGens

LEMMA RestKeeps ==
    ASSUME PaneInv, Rests
    PROVE  PaneInv'
  <1> USE Numbers DEF PaneInv
  <1>n. PaneTypes' => /\ ui'.items.version \in Nat /\ worker'.since \in Nat
    BY DEF Rests, SameView
  <1>1. PaneTypes'
    BY DEF PaneTypes, Rests, NoTimer
  <1>2. JobGens(worker') \subseteq JobGens(worker) \cup {0}
    BY DEF JobGens, Rests
  <1>3. NoTimer.generation = 0
    BY DEF NoTimer
  <1>u. \A y \in updates' : y.generation = 0 \/ \E x \in updates : x.generation = y.generation
    BY DEF Rests, SameUpdates
  <1>4. Generations'
    <2>1. bar'.timer.generation <= bar'.generation
      BY <1>3 DEF Generations, Rests
    <2>2. \A g \in JobGens(worker') : g <= bar'.generation
      BY <1>2 DEF Generations, Rests
    <2>3. \A r \in worker'.replies : r.generation <= bar'.generation
      BY DEF Generations, Rests
    <2>4. \A x \in updates' : x.generation <= bar'.generation
      BY <1>u DEF Generations, Rests
    <2> QED
      BY <2>1, <2>2, <2>3, <2>4 DEF Generations, Rests, SameView
  <1>5. OneReply'
    <2>1. \A r \in worker'.replies : r.generation # 0
      BY DEF Rests
    <2>2. \A r \in worker'.replies : r.generation \in JobGens(worker') => r.status = "waiting"
      BY <1>2, <2>1 DEF OneReply, Rests
    <2>3. worker'.running # NoJob => worker'.running.generation \notin QueueGens(worker')
      <3>1. \A j \in Job \cup {NoJob} : (j # NoJob) <=> (j.generation # 0)
        BY DEF Job, NoJob
      <3>2. worker.running \in Job \cup {NoJob} /\ worker'.running \in Job \cup {NoJob}
        BY DEF PaneTypes, Worker, Rests
      <3> QED
        BY <3>1, <3>2 DEF OneReply, Rests
    <2> QED
      BY <2>2, <2>3 DEF OneReply, Rests
  <1>6. Announced'
    BY DEF Announced, Rests
  <1>7. Debounced'
    <2>1. SUFFICES ASSUME bar'.timer.generation = bar'.generation
                   PROVE  /\ bar'.generation \notin JobGens(worker')
                          /\ \A r \in worker'.replies : r.generation # bar'.generation
                          /\ \A x \in updates' : x.generation # bar'.generation
                          /\ ui'.search_loading /\ ui'.pending_query = bar'.timer.query
      BY DEF Debounced
    <2>2. bar'.timer = bar.timer /\ bar.timer.generation = bar.generation
      BY <1>3, <2>1 DEF Rests
    <2> QED
      BY <1>2, <1>u, <2>2 DEF Debounced, Rests
  <1>8. CurrentReply'
    BY <1>u DEF CurrentReply, Rests, SameView
  <1>9. CurrentJob'
    <2>1. worker'.running.generation = bar'.generation => worker'.since >= ui'.items.version
      BY DEF CurrentJob, Rests, SameView
    <2>2. ui'.items.version <= db'
      BY DEF CurrentJob, Rests, SameView
    <2>3. \A r \in worker'.replies : r.status = "ok" => r.version <= db'
      BY DEF CurrentJob, Rests
    <2> QED
      BY <2>1, <2>2, <2>3 DEF CurrentJob
  <1>10. CurrentIsLast'
    <2>1. worker'.queue = worker.queue => QueueGens(worker') = QueueGens(worker)
      BY DEF QueueGens
    <2> QED
      BY <2>1 DEF CurrentIsLast, Rests
  <1>11. TargetsItems'
    BY DEF TargetsItems, LiveOne, Rests, SameView
  <1>12. AwaitedSearchNotDropped'
    BY DEF AwaitedSearchNotDropped, Rests
  <1>13. Reached(worker)'
    BY DEF Rests
  <1> QED
    BY <1>1, <1>4, <1>5, <1>6, <1>7, <1>8, <1>9, <1>10, <1>11, <1>12, <1>13

LEMMA ReservedIsNew ==
    ASSUME PaneInv, NEW g, Reserves(g)
    PROVE  /\ g \in Nat /\ g > 0 /\ g >= bar.generation
           /\ \A h \in JobGens(worker) : h < g
           /\ \A r \in worker.replies : r.generation < g
           /\ \A x \in updates : x.generation < g
           /\ ui.outcome_generation <= g
           /\ bar'.timer = bar.timer => bar.timer.generation < g
  <1> USE Numbers DEF PaneInv
  <1>1. CASE g > bar.generation
    BY <1>1 DEF Generations, Reserves
  <1>2. CASE g = bar.generation /\ bar.timer.generation = g /\ bar'.timer = NoTimer
    <2>1. \A h \in JobGens(worker) : h < g
      BY <1>2 DEF Generations, Debounced
    <2>2. \A r \in worker.replies : r.generation < g
      BY <1>2 DEF Generations, Debounced
    <2>3. \A x \in updates : x.generation < g
      BY <1>2 DEF Generations, Debounced
    <2>4. bar'.timer # bar.timer
      BY <1>2 DEF NoTimer
    <2> QED
      BY <1>2, <2>1, <2>2, <2>3, <2>4 DEF Generations
  <1> QED
    BY <1>1, <1>2 DEF Reserves

LEMMA ReserveKeeps ==
    ASSUME PaneInv, NEW g, Reserves(g)
    PROVE  PaneInv'
  <1> USE Numbers DEF PaneInv
  <1>t. NoTimer.generation = 0
    BY DEF NoTimer
  <1>g. g \in Nat /\ g > 0 /\ bar'.generation = g /\ ui'.search_generation = g
    BY ReservedIsNew DEF Reserves
  <1>w. /\ worker' \in Worker /\ QueueGens(worker') \subseteq QueueGens(worker) \cup {0, g}
        /\ worker'.running.generation = worker.running.generation /\ worker'.since = worker.since
        /\ \A r \in worker'.replies :
             r \in worker.replies \/ (r.generation = g /\ r.status = "waiting")
    <2>1. CASE Trimmed(worker, worker')
      BY <2>1 DEF Trimmed
    <2>2. ASSUME NEW k, NEW q, Launched(worker, worker', g, k, q)
          PROVE  \A r \in worker'.replies :
                   r \in worker.replies \/ (r.generation = g /\ r.status = "waiting")
      BY <2>2 DEF Launched
    <2>3. ASSUME NEW k, NEW q, Launched(worker, worker', g, k, q)
          PROVE  /\ worker' \in Worker /\ QueueGens(worker') \subseteq QueueGens(worker) \cup {0, g}
                 /\ worker'.running.generation = worker.running.generation
                 /\ worker'.since = worker.since
      BY <2>3 DEF Launched
    <2>4. CASE \E k \in Kinds, q \in Queries : Launched(worker, worker', g, k, q)
      BY <2>2, <2>3, <2>4
    <2> QED
      BY <2>1, <2>4 DEF Reserves
  <1>1. PaneTypes'
    <2>1. bar'.timer # NoTimer => bar'.timer.query \in Queries /\ bar'.timer.generation > 0
      BY <1>g DEF Reserves, PaneTypes, Announced, Ui
    <2>2. bar' \in Bar /\ ui' \in Ui /\ updates' \subseteq Update /\ db' \in Nat
          /\ window' \in {"visible", "hidden", "closed"}
      BY DEF Reserves, PaneTypes
    <2>3. worker'.since <= db'
      BY <1>w DEF Reserves, PaneTypes
    <2> QED
      BY <1>w, <2>1, <2>2, <2>3 DEF PaneTypes
  <1>2. JobGens(worker') \subseteq JobGens(worker) \cup {0, g}
    BY <1>w DEF JobGens
  <1>3. \A h \in JobGens(worker') : h <= g
    BY <1>2, <1>g, ReservedIsNew
  <1>u. \A y \in updates' : y.generation < g
    <2> TAKE y \in updates'
    <2>1. y.generation = 0 \/ \E x \in updates : x.generation = y.generation
      BY DEF Reserves, SameUpdates
    <2> QED
      BY <1>g, <2>1, ReservedIsNew
  <1>r. \A r \in worker.replies : r.generation < g
    BY ReservedIsNew
  <1>j. \A h \in JobGens(worker) : h < g
    BY ReservedIsNew
  <1>v. ui'.items = ui.items /\ ui'.outcome_generation = ui.outcome_generation /\ db' = db
    BY DEF Reserves, SameView
  <1>4. Generations'
    <2>1. bar'.timer.generation <= bar'.generation
      BY <1>t, <1>g, ReservedIsNew DEF Reserves
    <2>2. \A r \in worker'.replies : r.generation <= bar'.generation
      BY <1>w, <1>r, <1>g
    <2>3. ui'.outcome_generation <= bar'.generation
      BY <1>v, <1>g, ReservedIsNew
    <2>4. \A x \in updates' : x.generation <= bar'.generation
      <3>1. \A x \in updates' : x.generation \in Nat
        BY DEF Reserves, Update
      <3> QED
        BY <1>u, <1>g, <3>1
    <2> QED
      BY <1>3, <1>g, <2>1, <2>2, <2>3, <2>4 DEF Generations
  <1>5. OneReply'
    <2>1. ASSUME NEW r \in worker'.replies, NEW s \in worker'.replies, r.generation = s.generation
          PROVE  r = s
      <3>1. CASE r \in worker.replies /\ s \in worker.replies
        BY <2>1, <3>1 DEF OneReply
      <3>2. CASE Trimmed(worker, worker')
        BY <2>1, <3>1, <3>2 DEF Trimmed
      <3>3. ASSUME NEW k, NEW q, Launched(worker, worker', g, k, q) PROVE r = s
        BY <1>r, <2>1, <3>1, <3>3, <1>g DEF Launched
      <3> QED
        BY <3>2, <3>3 DEF Reserves
    <2>2. ASSUME NEW r \in worker'.replies, r.generation \in JobGens(worker')
          PROVE  r.status = "waiting"
      <3>1. CASE r \in worker.replies
        BY <1>2, <1>r, <2>2, <3>1 DEF OneReply
      <3> QED
        BY <1>w, <3>1
    <2>3. worker'.running # NoJob => worker'.running.generation \notin QueueGens(worker')
      <3>1. \A j \in Job \cup {NoJob} : (j # NoJob) <=> (j.generation # 0)
        BY DEF Job, NoJob
      <3>2. worker.running \in Job \cup {NoJob} /\ worker'.running \in Job \cup {NoJob}
        BY <1>w DEF PaneTypes, Worker
      <3>3. worker.running.generation < g
        BY <1>j DEF JobGens
      <3> QED
        BY <1>w, <3>1, <3>2, <3>3 DEF OneReply
    <2> QED
      BY <2>1, <2>2, <2>3 DEF OneReply
  <1>6. Announced'
    BY DEF Reserves
  <1>7. Debounced'
    <2>1. SUFFICES ASSUME bar'.timer.generation = bar'.generation
                   PROVE  /\ bar'.generation \notin JobGens(worker')
                          /\ \A r \in worker'.replies : r.generation # bar'.generation
                          /\ \A x \in updates' : x.generation # bar'.generation
                          /\ ui'.search_loading /\ ui'.pending_query = bar'.timer.query
      BY DEF Debounced
    <2>2. bar'.timer \notin {bar.timer, NoTimer}
      BY <1>t, <1>g, <2>1, ReservedIsNew
    <2>3. /\ Trimmed(worker, worker') /\ ui'.search_loading
          /\ bar'.timer = [generation |-> g, query |-> ui'.pending_query]
      BY <2>2 DEF Reserves
    <2>4. JobGens(worker') \subseteq JobGens(worker) \cup {0}
      BY <2>3 DEF Trimmed, JobGens
    <2>5. g \notin JobGens(worker')
      BY <1>g, <1>j, <2>4
    <2>6. \A x \in updates' : x.generation # g
      BY <1>u, <1>g
    <2> QED
      BY <1>g, <1>r, <2>3, <2>5, <2>6 DEF Trimmed
  <1>8. CurrentReply'
    <2> SUFFICES ASSUME NEW r \in worker'.replies, r.generation = g
                 PROVE  /\ ui'.search_loading /\ ui'.pending_query = r.query
                        /\ \A x \in updates' : x.generation # g
                        /\ r.kind = "append" => ui'.items.pages \in 1 .. MaxPages - 1
                                                /\ r.query = ui'.items.query
                        /\ r.status = "ok" => r.version >= ui'.items.version
      BY <1>g DEF CurrentReply
    <2>1. r \notin worker.replies
      BY <1>r, <1>g
    <2>2. PICK k \in Kinds, q \in Queries :
            /\ Launched(worker, worker', g, k, q)
            /\ ui'.search_loading /\ ui'.pending_query = q
            /\ k = "append" => ui.items.pages \in 1 .. MaxPages - 1 /\ ui.items.query = q
      BY <2>1 DEF Reserves, Trimmed
    <2>3. r = [generation |-> g, kind |-> k, query |-> q, status |-> "waiting", version |-> 0]
      BY <2>1, <2>2 DEF Launched
    <2>4. \A x \in updates' : x.generation # g
      BY <1>u, <1>g
    <2> QED
      BY <1>v, <2>2, <2>3, <2>4
  <1>9. CurrentJob'
    <2>1. worker'.running.generation # bar'.generation
      <3>1. worker.running.generation \in JobGens(worker)
        BY DEF JobGens
      <3> QED
        BY <1>g, <1>w, <1>j, <3>1
    <2>2. ui'.items.version <= db'
      BY <1>v DEF CurrentJob
    <2>3. \A r \in worker'.replies : r.status = "ok" => r.version <= db'
      BY <1>w, <1>v DEF CurrentJob
    <2> QED
      BY <2>1, <2>2, <2>3 DEF CurrentJob
  <1>10. CurrentIsLast'
    <2>1. SUFFICES ASSUME window' # "closed", g \in QueueGens(worker')
                   PROVE  LatestSearchJob(worker'.queue).generation = g
      BY <1>g DEF CurrentIsLast
    <2>2. ~Trimmed(worker, worker')
      BY <2>1, <1>j, <1>g DEF Trimmed, JobGens
    <2> QED
      BY <2>1, <2>2 DEF Reserves
  <1>11. TargetsItems'
    BY DEF TargetsItems, LiveOne, Reserves, SameView
  <1>12. AwaitedSearchNotDropped'
    <2>1. \A r \in worker'.replies : r.status = "dropped" => r.generation < ui'.search_generation
      BY <1>w, <1>r, <1>g
    <2> QED
      BY <2>1 DEF AwaitedSearchNotDropped
  <1>13. Reached(worker)'
    BY DEF Reserves
  <1> QED
    BY <1>1, <1>4, <1>5, <1>6, <1>7, <1>8, <1>9, <1>10, <1>11, <1>12, <1>13

(* A search that is launched later is as fresh as the ones before it, and a  *)
(* new generation starts without any result.                                 *)
LEMMA ReserveFresh ==
    ASSUME PaneInv, NEW g, Reserves(g), NEW m \in Nat \ {0}, NEW s \in Nat, FreshFrom(m, s)
    PROVE  FreshFrom(m, s)'
  <1>1. /\ worker'.running.generation = worker.running.generation /\ worker'.since = worker.since
        /\ \A r \in worker'.replies : r \in worker.replies \/ r.status = "waiting"
    BY DEF Reserves, Trimmed, Launched
  <1>2. \A x \in updates' : x.kind = "full" =>
          \E y \in updates : y.generation = x.generation /\ y.kind = x.kind
    BY DEF Reserves, SameUpdates
  <1>3. /\ ui'.items = ui.items /\ ui'.outcome_generation = ui.outcome_generation
        /\ ui'.outcome_error = ui.outcome_error
    BY DEF Reserves, SameView
  <1> QED
    BY <1>1, <1>2, <1>3 DEF FreshFrom

LEMMA ReserveStartsFresh ==
    ASSUME PaneInv, NEW g, Reserves(g), g > bar.generation, NEW s \in Nat
    PROVE  FreshFrom(g, s)'
  <1> USE Numbers DEF PaneInv
  <1>g. g \in Nat /\ g > bar.generation
    BY DEF Reserves
  <1>1. /\ worker'.running.generation = worker.running.generation
        /\ \A r \in worker'.replies : r \in worker.replies \/ r.status = "waiting"
    BY DEF Reserves, Trimmed, Launched
  <1>2. \A x \in updates' : x.kind = "full" =>
          \E y \in updates : y.generation = x.generation /\ y.kind = x.kind
    BY DEF Reserves, SameUpdates
  <1>3. ui'.outcome_generation = ui.outcome_generation
    BY DEF Reserves, SameView
  <1>4. ~(worker'.running.generation >= g)
    <2>1. worker.running.generation \in JobGens(worker)
      BY DEF JobGens
    <2>2. worker.running.generation <= bar.generation
      BY <2>1 DEF Generations
    <2> QED
      BY <1>g, <1>1, <2>2
  <1>5. \A r \in worker'.replies : r.status = "ok" => ~(r.generation >= g)
    BY <1>g, <1>1 DEF Generations
  <1>6. \A x \in updates' : x.kind = "full" => ~(x.generation >= g)
    BY <1>g, <1>2 DEF Generations
  <1>7. ~(ui'.outcome_generation >= g)
    BY <1>g, <1>3 DEF Generations
  <1> QED
    BY <1>4, <1>5, <1>6, <1>7 DEF FreshFrom

LEMMA RestFresh ==
    ASSUME PaneInv, Rests, NEW m \in Nat \ {0}, NEW s \in Nat, FreshFrom(m, s)
    PROVE  FreshFrom(m, s)'
  <1>1. /\ worker'.running.generation = worker.running.generation /\ worker'.since = worker.since
        /\ worker'.replies \subseteq worker.replies
    BY DEF Rests
  <1>2. \A x \in updates' : x.kind = "full" =>
          \E y \in updates : y.generation = x.generation /\ y.kind = x.kind
    BY DEF Rests, SameUpdates
  <1>3. /\ ui'.items = ui.items /\ ui'.outcome_generation = ui.outcome_generation
        /\ ui'.outcome_error = ui.outcome_error
    BY DEF Rests, SameView
  <1> QED
    BY <1>1, <1>2, <1>3 DEF FreshFrom

(* The update of the current generation ends, applied or cancelled. *)
Finishes(x) ==
    /\ x \in updates /\ x.generation = ui.search_generation
    /\ bar' = bar /\ db' = db /\ rows' \in ItemSet \cup {Partial}
    /\ ui' \in Ui /\ ui'.search_generation = ui.search_generation
    /\ ui'.items = ui.items /\ ui'.current_query = ui.current_query
    /\ ~ui'.search_loading /\ ui'.pending_query = NoQuery
    /\ \/ SameView
       \/ x.kind = "full" /\ ui'.outcome_generation = x.generation
    /\ updates' \subseteq Update /\ SameUpdates /\ LiveOne'
    /\ window' \in {"visible", "hidden", "closed"} /\ (window = "closed" => window' = "closed")
    /\ Reached(worker')
    /\ Trimmed(worker, worker')
    /\ worker'.queue = worker.queue \/ window' = "closed"

LEMMA FinishKeeps ==
    ASSUME PaneInv, NEW x, Finishes(x)
    PROVE  PaneInv'
  <1> USE Numbers DEF PaneInv
  <1>1. PaneTypes'
    BY DEF PaneTypes, Finishes, Trimmed
  <1>2. JobGens(worker') \subseteq JobGens(worker) \cup {0}
    BY DEF JobGens, Finishes, Trimmed
  <1>x. x \in updates /\ x.generation = bar.generation /\ bar' = bar
    BY DEF Finishes, Generations
  <1>u. \A y \in updates' : y.generation = 0 \/ \E z \in updates : z.generation = y.generation
    BY DEF Finishes, SameUpdates
  <1>4. Generations'
    <2>1. \A g \in JobGens(worker') : g <= bar'.generation
      BY <1>2, <1>x DEF Generations
    <2>2. \A r \in worker'.replies : r.generation <= bar'.generation
      BY <1>x DEF Generations, Finishes, Trimmed
    <2>3. \A y \in updates' : y.generation <= bar'.generation
      BY <1>u, <1>x DEF Generations
    <2>4. ui'.outcome_generation <= bar'.generation
      BY <1>x DEF Generations, Finishes, SameView
    <2> QED
      BY <1>x, <2>1, <2>2, <2>3, <2>4 DEF Generations, Finishes
  <1>5. OneReply'
    <2>1. \A r \in worker'.replies : r.generation # 0 /\ r \in worker.replies
      BY DEF Finishes, Trimmed
    <2>2. \A r \in worker'.replies : r.generation \in JobGens(worker') => r.status = "waiting"
      BY <1>2, <2>1 DEF OneReply
    <2>3. worker'.running # NoJob => worker'.running.generation \notin QueueGens(worker')
      <3>1. \A j \in Job \cup {NoJob} : (j # NoJob) <=> (j.generation # 0)
        BY DEF Job, NoJob
      <3>2. worker.running \in Job \cup {NoJob} /\ worker'.running \in Job \cup {NoJob}
        BY DEF PaneTypes, Worker, Finishes, Trimmed
      <3> QED
        BY <3>1, <3>2 DEF OneReply, Finishes, Trimmed
    <2> QED
      BY <2>1, <2>2, <2>3 DEF OneReply
  <1>6. Announced'
    BY DEF Announced, Finishes, Ui
  <1>7. Debounced'
    BY <1>x DEF Debounced
  <1>8. CurrentReply'
    <2>1. \A r \in worker'.replies : r.generation # bar'.generation
      BY <1>x DEF CurrentReply, Finishes, Trimmed
    <2> QED
      BY <2>1 DEF CurrentReply
  <1>9. CurrentJob'
    BY <1>x DEF CurrentJob, Finishes, Trimmed
  <1>10. CurrentIsLast'
    <2>1. worker'.queue = worker.queue => QueueGens(worker') = QueueGens(worker)
      BY DEF QueueGens
    <2> QED
      BY <1>x, <2>1 DEF CurrentIsLast, Finishes
  <1>11. TargetsItems'
    BY DEF TargetsItems, LiveOne, Finishes
  <1>12. AwaitedSearchNotDropped'
    BY DEF AwaitedSearchNotDropped, Finishes, Trimmed
  <1>13. Reached(worker)'
    BY DEF Finishes
  <1> QED
    BY <1>1, <1>4, <1>5, <1>6, <1>7, <1>8, <1>9, <1>10, <1>11, <1>12, <1>13

LEMMA FinishFresh ==
    ASSUME PaneInv, NEW x, Finishes(x), NEW m \in Nat \ {0}, NEW s \in Nat, FreshFrom(m, s)
    PROVE  FreshFrom(m, s)'
  <1>1. /\ worker'.running.generation = worker.running.generation /\ worker'.since = worker.since
        /\ worker'.replies = worker.replies /\ ui'.items = ui.items
    BY DEF Finishes, Trimmed
  <1>2. \A y \in updates' : y.kind = "full" =>
          \E z \in updates : z.generation = y.generation /\ z.kind = y.kind
    BY DEF Finishes, SameUpdates
  <1>3. ui'.outcome_generation >= m /\ ~ui'.outcome_error => ui'.items.version >= s
    BY <1>1 DEF Finishes, SameView, FreshFrom
  <1> QED
    BY <1>1, <1>2, <1>3 DEF FreshFrom

LEMMA CancelledUpdates ==
    ASSUME NEW us, us \subseteq Update
    PROVE  /\ CancelModelUpdate(us) \subseteq Update
           /\ \A y \in CancelModelUpdate(us) :
                ~y.live /\ \E x \in us : x.generation = y.generation /\ x.kind = y.kind
  <1>1. \A x \in us : /\ [x EXCEPT !.live = FALSE] \in Update
                       /\ [x EXCEPT !.live = FALSE].live = FALSE
                       /\ [x EXCEPT !.live = FALSE].generation = x.generation
                       /\ [x EXCEPT !.live = FALSE].kind = x.kind
    BY DEF Update
  <1>2. \A y \in CancelModelUpdate(us) : \E x \in us : y = [x EXCEPT !.live = FALSE]
    BY DEF CancelModelUpdate
  <1> QED
    BY <1>1, <1>2

LEMMA AppliedUpdates ==
    ASSUME NEW us, us \subseteq Update, NEW g \in Nat, NEW k \in Kinds \cup {"settings"},
           NEW u, u.items \in ItemSet
    PROVE  /\ ApplyModelUpdate(us, g, k, u) \subseteq Update
           /\ \A y \in ApplyModelUpdate(us, g, k, u) :
                \/ y.generation = g /\ y.kind = k
                \/ \E x \in us : x.generation = y.generation /\ x.kind = y.kind
           /\ \A y \in ApplyModelUpdate(us, g, k, u) : y.live => y.target = u.items
           /\ \A x, y \in ApplyModelUpdate(us, g, k, u) : x.live /\ y.live => x = y
  <1> DEFINE n == [generation |-> g, kind |-> k, live |-> TRUE, target |-> u.items]
  <1>1. ApplyModelUpdate(us, g, k, u) = CancelModelUpdate(us) \cup {n}
    BY DEF ApplyModelUpdate
  <1>2. n \in Update /\ n.generation = g /\ n.kind = k /\ n.target = u.items
    BY DEF Update
  <1> HIDE DEF n
  <1> QED
    BY <1>1, <1>2, CancelledUpdates

(* The page a reply brings is typed, not older than the list, and of the     *)
(* query that is announced.                                                  *)
LEMMA ItemsAccepted ==
    ASSUME PaneInv, NEW r \in worker.replies, r.status = "ok", Accepts(r)
    PROVE  /\ ItemsWith(r) \in ItemSet
           /\ ItemsWith(r).version >= ui.items.version /\ ItemsWith(r).version <= db
           /\ ItemsWith(r).query = r.query /\ r.query \in Queries
           /\ r.kind # "append" => ItemsWith(r).version = r.version
           /\ ui.search_loading /\ ui.pending_query = r.query
           /\ r.generation = bar.generation /\ r.generation \in Nat \ {0} /\ r.kind \in Kinds
  <1> USE Numbers DEF PaneInv
  <1>1. r \in Reply
    BY DEF PaneTypes, Worker
  <1>2. r.query \in Queries /\ r.version \in Nat /\ r.kind \in Kinds /\ r.generation \in Nat \ {0}
    BY <1>1 DEF Reply
  <1>3. /\ r.generation = bar.generation /\ ui.search_loading /\ ui.pending_query = r.query
        /\ r.version >= ui.items.version /\ r.version <= db /\ ui.items.version <= db
        /\ r.kind = "append" => ui.items.pages \in 1 .. MaxPages - 1 /\ r.query = ui.items.query
    BY DEF Accepts, CurrentReply, CurrentJob
  <1>m. MaxPages \in Nat \ {0}
    BY ActivityAssumption
  <1>4. CASE r.kind = "append"
    <2>1. ui.items \in ItemSet /\ ui.items.pages \in 1 .. MaxPages - 1
      BY <1>3, <1>4 DEF PaneTypes, Ui
    <2>2. ui.items # NoItems
      BY <2>1 DEF NoItems
    <2>3. ui.items \in [query : Queries, version : Nat, pages : 1 .. MaxPages]
      BY <2>1, <2>2 DEF ItemSet
    <2>4. ItemsWith(r) = [query |-> ui.items.query, version |-> ui.items.version,
                          pages |-> ui.items.pages + 1]
      BY <1>4, <2>3 DEF ItemsWith
    <2>5. ui.items.pages + 1 \in 1 .. MaxPages
      BY <1>m, <2>1
    <2>6. ItemsWith(r) \in ItemSet
      BY <2>3, <2>4, <2>5 DEF ItemSet
    <2> QED
      BY <1>2, <1>3, <1>4, <2>4, <2>6
  <1>5. CASE r.kind # "append"
    <2>1. ItemsWith(r) = [query |-> r.query, version |-> r.version, pages |-> 1]
      BY <1>5 DEF ItemsWith
    <2>2. ItemsWith(r) \in ItemSet
      BY <1>2, <1>m, <2>1 DEF ItemSet
    <2> QED
      BY <1>2, <1>3, <1>5, <2>1, <2>2
  <1> QED
    BY <1>4, <1>5

(* Taking a reply out changes nothing else of the worker. *)
LEMMA ReceivedReply ==
    ASSUME PaneTypes, NEW r
    PROVE  /\ Received(r) \in Worker /\ Received(r).queue = worker.queue
           /\ Received(r).running = worker.running /\ Received(r).since = worker.since
           /\ Received(r).active = worker.active /\ Received(r).replies = worker.replies \ {r}
           /\ QueueGens(Received(r)) = QueueGens(worker) /\ JobGens(Received(r)) = JobGens(worker)
           /\ Reached(worker) => Reached(Received(r))
  <1>1. /\ Received(r) \in Worker /\ Received(r).queue = worker.queue
        /\ Received(r).running = worker.running /\ Received(r).since = worker.since
        /\ Received(r).active = worker.active /\ Received(r).replies = worker.replies \ {r}
    BY DEF PaneTypes, Worker, Received
  <1>2. QueueGens(Received(r)) = QueueGens(worker)
    BY <1>1 DEF QueueGens
  <1> QED
    BY <1>1, <1>2 DEF JobGens, Reached

LEMMA AcceptPageKeeps ==
    ASSUME PaneInv, NEW r \in worker.replies, AcceptPage(r)
    PROVE  /\ PaneInv'
           /\ \A m \in Nat \ {0}, s \in Nat : FreshFrom(m, s) => FreshFrom(m, s)'
  <1> USE Numbers DEF PaneInv
  <1>a. r.status = "ok" /\ Accepts(r) /\ worker' = Received(r)
        /\ bar' = bar /\ db' = db /\ rows' = rows /\ window' = window
    BY DEF AcceptPage
  <1>b. /\ ItemsWith(r) \in ItemSet
        /\ ItemsWith(r).version >= ui.items.version /\ ItemsWith(r).version <= db
        /\ ItemsWith(r).query = r.query /\ r.query \in Queries
        /\ r.kind # "append" => ItemsWith(r).version = r.version
        /\ ui.search_loading /\ ui.pending_query = r.query
        /\ r.generation = bar.generation /\ r.generation \in Nat \ {0} /\ r.kind \in Kinds
    BY <1>a, ItemsAccepted
  <1>c. /\ ui' \in Ui /\ ui'.items = ItemsWith(r) /\ ui'.current_query = r.query
        /\ ui'.search_generation = ui.search_generation /\ ui'.search_loading = ui.search_loading
        /\ ui'.pending_query = ui.pending_query /\ ui'.outcome_error = ui.outcome_error
        /\ ui'.outcome_generation = ui.outcome_generation
    BY <1>b DEF AcceptPage, PaneTypes, Ui
  <1>d. updates' = ApplyModelUpdate(updates, r.generation, r.kind, ui')
    BY DEF AcceptPage
  <1>e. /\ updates' \subseteq Update
        /\ \A y \in updates' : \/ y.generation = bar.generation /\ y.kind = r.kind
                               \/ \E x \in updates : x.generation = y.generation /\ x.kind = y.kind
        /\ \A y \in updates' : y.live => y.target = ui'.items
        /\ \A x, y \in updates' : x.live /\ y.live => x = y
    <2>1. updates \subseteq Update /\ ui'.items \in ItemSet /\ r.generation \in Nat
          /\ r.kind \in Kinds \cup {"settings"}
      BY <1>b, <1>c DEF PaneTypes
    <2> QED
      BY <1>b, <1>d, <2>1, AppliedUpdates
  <1>w. /\ worker' \in Worker /\ worker'.queue = worker.queue
        /\ worker'.running = worker.running /\ worker'.since = worker.since
        /\ worker'.replies = worker.replies \ {r}
        /\ QueueGens(worker') = QueueGens(worker) /\ JobGens(worker') = JobGens(worker)
        /\ Reached(worker')
    BY <1>a, ReceivedReply
  <1>o. \A z \in worker'.replies : z \in worker.replies /\ z.generation # bar.generation
    BY <1>w, <1>b DEF OneReply
  <1>j. bar.generation \notin JobGens(worker)
    BY <1>a, <1>b DEF OneReply
  <1>k. bar.timer.generation # bar.generation
    BY <1>b DEF Debounced
  <1>1. PaneTypes'
    BY <1>a, <1>c, <1>e, <1>w DEF PaneTypes
  <1>4. Generations'
    <2>1. \A x \in updates' : x.generation <= bar'.generation
      BY <1>a, <1>e DEF Generations
    <2> QED
      BY <1>a, <1>c, <1>w, <2>1 DEF Generations
  <1>5. OneReply'
    BY <1>w DEF OneReply
  <1>6. Announced'
    BY <1>c DEF Announced
  <1>7. Debounced'
    BY <1>a, <1>k DEF Debounced
  <1>8. CurrentReply'
    BY <1>a, <1>o DEF CurrentReply
  <1>9. CurrentJob'
    <2>1. worker'.running.generation # bar'.generation
      BY <1>a, <1>j, <1>w DEF JobGens
    <2> QED
      BY <1>a, <1>b, <1>c, <1>w, <2>1 DEF CurrentJob
  <1>10. CurrentIsLast'
    BY <1>a, <1>w DEF CurrentIsLast
  <1>11. TargetsItems'
    BY <1>a, <1>b, <1>c, <1>e DEF TargetsItems
  <1>12. AwaitedSearchNotDropped'
    BY <1>a, <1>c, <1>w DEF AwaitedSearchNotDropped
  <1>13. ASSUME NEW m \in Nat \ {0}, NEW s \in Nat, FreshFrom(m, s)
         PROVE  FreshFrom(m, s)'
    <2>1. bar.generation >= m /\ r.kind # "append" => ui'.items.version >= s
      BY <1>a, <1>b, <1>c, <1>13 DEF FreshFrom
    <2>v. ui'.items.version \in Nat /\ ui'.items.version >= ui.items.version
      BY <1>b, <1>c DEF ItemSet, NoItems
    <2>2. ASSUME NEW x \in updates', x.kind = "full", x.generation >= m
          PROVE  ui'.items.version >= s
      <3>1. CASE x.generation = bar.generation /\ x.kind = r.kind
        BY <2>1, <2>2, <3>1
      <3>2. CASE \E y \in updates : y.generation = x.generation /\ y.kind = x.kind
        BY <1>13, <2>2, <2>v, <3>2 DEF FreshFrom
      <3> QED
        BY <1>e, <3>1, <3>2
    <2>3. ui'.outcome_generation >= m /\ ~ui'.outcome_error => ui'.items.version >= s
      BY <1>c, <1>13, <2>v DEF FreshFrom
    <2>4. worker'.running.generation >= m => worker'.since >= s
      BY <1>w, <1>13 DEF FreshFrom
    <2>5. \A z \in worker'.replies : z.status = "ok" /\ z.generation >= m => z.version >= s
      BY <1>w, <1>13 DEF FreshFrom
    <2> QED
      BY <2>2, <2>3, <2>4, <2>5 DEF FreshFrom
  <1> QED
    BY <1>1, <1>4, <1>5, <1>6, <1>7, <1>8, <1>9, <1>10, <1>11, <1>12, <1>13, <1>w

LEMMA AcceptErrorKeeps ==
    ASSUME PaneInv, NEW r \in worker.replies, AcceptError(r), window # "closed"
    PROVE  /\ PaneInv'
           /\ \A m \in Nat \ {0}, s \in Nat : FreshFrom(m, s) => FreshFrom(m, s)'
  <1> USE Numbers DEF PaneInv
  <1>a. /\ r.status \in {"error", "dropped"} /\ Accepts(r) /\ worker' = Received(r)
        /\ bar' = bar /\ db' = db /\ rows' = rows /\ window' \in {window, "visible"}
    BY DEF AcceptError
  <1>b. /\ ui.search_loading /\ ui.pending_query = r.query
        /\ r.generation = bar.generation /\ r.generation \in Nat \ {0}
    BY <1>a DEF Accepts, CurrentReply
  <1>c. /\ ui' \in Ui /\ ui'.items = ui.items /\ ui'.current_query = ui.current_query
        /\ ui'.search_generation = ui.search_generation /\ ui'.search_loading = FALSE
        /\ ui'.pending_query = NoQuery
        /\ \/ /\ ui'.outcome_error = ui.outcome_error
              /\ ui'.outcome_generation = ui.outcome_generation
           \/ ui'.outcome_error = TRUE /\ ui'.outcome_generation = r.generation
    <2> DEFINE u == [FinishActivity(ui) EXCEPT !.search_error = TRUE]
    <2>1. /\ u \in Ui /\ u.items = ui.items /\ u.current_query = ui.current_query
          /\ u.search_generation = ui.search_generation /\ u.search_loading = FALSE
          /\ u.pending_query = NoQuery /\ u.search_error = TRUE
          /\ u.outcome_error = ui.outcome_error /\ u.outcome_generation = ui.outcome_generation
      BY DEF FinishActivity, PaneTypes, Ui
    <2>2. ui' = RecordOutcome(u, r.generation) \/ ui' = u
      BY DEF AcceptError
    <2> HIDE DEF u
    <2>3. CASE ui' = u
      BY <2>1, <2>3
    <2>4. CASE ui' = RecordOutcome(u, r.generation)
      BY <1>b, <2>1, <2>4 DEF RecordOutcome, Ui
    <2> QED
      BY <2>2, <2>3, <2>4
  <1>d. updates' \in {updates, CancelModelUpdate(updates)}
    BY DEF AcceptError
  <1>e. /\ updates' \subseteq Update
        /\ \A y \in updates' : \E x \in updates : x.generation = y.generation /\ x.kind = y.kind
        /\ \A y \in updates' : y.live => y.target = ui'.items
        /\ \A x, y \in updates' : x.live /\ y.live => x = y
    <2>1. updates \subseteq Update
      BY DEF PaneTypes
    <2>2. CASE updates' = updates
      BY <1>c, <2>1, <2>2 DEF TargetsItems
    <2>3. CASE updates' = CancelModelUpdate(updates)
      BY <2>1, <2>3, CancelledUpdates
    <2> QED
      BY <1>d, <2>2, <2>3
  <1>w. /\ worker' \in Worker /\ worker'.queue = worker.queue
        /\ worker'.running = worker.running /\ worker'.since = worker.since
        /\ worker'.replies = worker.replies \ {r}
        /\ QueueGens(worker') = QueueGens(worker) /\ JobGens(worker') = JobGens(worker)
        /\ Reached(worker')
    BY <1>a, ReceivedReply
  <1>o. \A z \in worker'.replies : z \in worker.replies /\ z.generation # bar.generation
    BY <1>w, <1>b DEF OneReply
  <1>k. bar.timer.generation # bar.generation
    BY <1>b DEF Debounced
  <1>1. PaneTypes'
    BY <1>a, <1>c, <1>e, <1>w DEF PaneTypes
  <1>4. Generations'
    <2>1. \A x \in updates' : x.generation <= bar'.generation
      BY <1>a, <1>e DEF Generations
    <2>2. ui'.outcome_generation <= bar'.generation
      BY <1>a, <1>b, <1>c DEF Generations
    <2> QED
      BY <1>a, <1>c, <1>w, <2>1, <2>2 DEF Generations
  <1>5. OneReply'
    BY <1>w DEF OneReply
  <1>6. Announced'
    BY <1>c DEF Announced
  <1>7. Debounced'
    BY <1>a, <1>k DEF Debounced
  <1>8. CurrentReply'
    BY <1>a, <1>o DEF CurrentReply
  <1>9. CurrentJob'
    BY <1>a, <1>c, <1>w DEF CurrentJob
  <1>10. CurrentIsLast'
    BY <1>a, <1>w DEF CurrentIsLast
  <1>11. TargetsItems'
    BY <1>a, <1>c, <1>e DEF TargetsItems
  <1>12. AwaitedSearchNotDropped'
    BY <1>a, <1>c, <1>w DEF AwaitedSearchNotDropped
  <1>13. ASSUME NEW m \in Nat \ {0}, NEW s \in Nat, FreshFrom(m, s)
         PROVE  FreshFrom(m, s)'
    <2>1. ui'.outcome_generation >= m /\ ~ui'.outcome_error => ui'.items.version >= s
      BY <1>c, <1>13 DEF FreshFrom
    <2>2. \A x \in updates' : x.kind = "full" /\ x.generation >= m => ui'.items.version >= s
      BY <1>c, <1>e, <1>13 DEF FreshFrom
    <2>3. worker'.running.generation >= m => worker'.since >= s
      BY <1>w, <1>13 DEF FreshFrom
    <2>4. \A z \in worker'.replies : z.status = "ok" /\ z.generation >= m => z.version >= s
      BY <1>w, <1>13 DEF FreshFrom
    <2> QED
      BY <2>1, <2>2, <2>3, <2>4 DEF FreshFrom
  <1> QED
    BY <1>1, <1>4, <1>5, <1>6, <1>7, <1>8, <1>9, <1>10, <1>11, <1>12, <1>13, <1>w

(***************************************************************************)
(* The worker thread.                                                      *)
(***************************************************************************)
Answered(y, gs, status, v) ==
    IF y.generation \in gs THEN [y EXCEPT !.status = status, !.version = v] ELSE y

LEMMA AnswerReplies ==
    ASSUME NEW w, NEW gs, NEW status, NEW v
    PROVE  \A z \in Answer(w, gs, status, v) : \E y \in w.replies : z = Answered(y, gs, status, v)
  BY DEF Answer, Answered

(* What stays the same while the worker thread makes a step. *)
ThreadOnly ==
    /\ UNCHANGED <<bar, ui, updates, rows, window, db>>
    /\ window # "closed"

LEMMA WorkerTakesKeeps ==
    ASSUME PaneInv, WorkerTakes, ThreadOnly
    PROVE  /\ PaneInv'
           /\ \A m \in Nat \ {0}, s \in Nat : s <= db /\ FreshFrom(m, s) => FreshFrom(m, s)'
  <1> USE Numbers DEF PaneInv
  <1>z. SUFFICES ASSUME NEW zero \in Nat, zero = 0,
                        NEW drop \in {"ok", "error", "dropped"}, drop = "dropped"
               PROVE  /\ PaneInv'
                      /\ \A m \in Nat \ {0}, s \in Nat : s <= db /\ FreshFrom(m, s) => FreshFrom(m, s)'
    OBVIOUS
  <1> DEFINE job == LatestSearchJob(worker.queue)
             gs == QueueGens(worker) \ {job.generation}
             replied == Answer(worker, gs, drop, zero)
             t == IF job = NoJob THEN 0 ELSE db
  <1>u. /\ bar' = bar /\ ui' = ui /\ updates' = updates /\ rows' = rows /\ window' = window
        /\ db' = db /\ window # "closed"
    BY DEF ThreadOnly
  <1>q. worker \in Worker /\ worker.queue \in Seq(Job \cup {NoJob}) /\ worker.queue # <<>>
        /\ worker.running = NoJob
    BY DEF PaneTypes, Worker, WorkerTakes
  <1>l. /\ job \in Job \cup {NoJob} /\ job.generation \in QueueGens(worker)
        /\ job.generation \in {0, worker.active} \/ job.cancelled
    <2>1. Len(worker.queue) \in DOMAIN worker.queue
      BY <1>q
    <2> QED
      BY <1>q, <2>1 DEF LatestSearchJob, QueueGens, Reached
  <1>a. /\ replied \subseteq Reply
        /\ \A z \in replied : \E y \in worker.replies :
             /\ z = Answered(y, gs, drop, zero)
             /\ z.generation = y.generation /\ z.kind = y.kind /\ z.query = y.query
             /\ y.generation \in gs => z.status = drop
             /\ y.generation \notin gs => z = y
    <2>1. worker.replies \subseteq Reply
      BY <1>q DEF Worker
    <2>2. \A z \in replied : \E y \in worker.replies : z = Answered(y, gs, drop, zero)
      BY AnswerReplies
    <2> HIDE DEF gs, replied
    <2>3. \A y \in worker.replies :
            /\ Answered(y, gs, drop, zero) \in Reply
            /\ Answered(y, gs, drop, zero).generation = y.generation
            /\ Answered(y, gs, drop, zero).kind = y.kind
            /\ Answered(y, gs, drop, zero).query = y.query
            /\ y.generation \in gs => Answered(y, gs, drop, zero).status = drop
            /\ y.generation \notin gs => Answered(y, gs, drop, zero) = y
      <3> TAKE y \in worker.replies
      <3>1. y \in Reply
        BY <2>1
      <3>2. CASE y.generation \in gs
        BY <3>1, <3>2 DEF Reply, Answered
      <3>3. CASE y.generation \notin gs
        BY <3>1, <3>3 DEF Answered
      <3> QED
        BY <3>2, <3>3
    <2> QED
      BY <2>2, <2>3
  <1>e. worker' = [worker EXCEPT !.queue = <<>>, !.running = job, !.since = t, !.replies = replied]
    BY <1>z DEF WorkerTakes, QueueGens
  <1>t. t \in Nat /\ t <= db /\ (job.generation > 0 => t = db)
    BY <1>l DEF NoJob
  <1> HIDE DEF job, gs, replied, t
  <1>w. /\ worker' \in Worker /\ worker'.queue = <<>> /\ worker'.running = job
        /\ worker'.since = t /\ worker'.active = worker.active /\ worker'.replies = replied
    <2>1. worker = [queue |-> worker.queue, running |-> worker.running, since |-> worker.since,
                    active |-> worker.active, replies |-> worker.replies]
      BY <1>q DEF Worker
    <2>2. worker' = [queue |-> <<>>, running |-> job, since |-> t, active |-> worker.active,
                     replies |-> replied]
      BY <1>e, <2>1
    <2>3. worker.active \in Nat
      BY <1>q DEF Worker
    <2> QED
      BY <1>l, <1>a, <1>t, <2>2, <2>3 DEF Worker
  <1>g. QueueGens(worker') = {} /\ JobGens(worker') = {job.generation}
        /\ JobGens(worker') \subseteq JobGens(worker)
    BY <1>w, <1>l DEF QueueGens, JobGens
  <1>1. PaneTypes'
    BY <1>u, <1>w, <1>t DEF PaneTypes
  <1>4. Generations'
    <2>1. \A g \in JobGens(worker') : g <= bar'.generation
      BY <1>g, <1>u DEF Generations
    <2>2. \A z \in worker'.replies : z.generation <= bar'.generation
      BY <1>w, <1>a, <1>u DEF Generations
    <2> QED
      BY <1>u, <2>1, <2>2 DEF Generations
  <1>5. OneReply'
    <2>1. ASSUME NEW x \in replied, NEW z \in replied, x.generation = z.generation
          PROVE  x = z
      BY <1>a, <2>1 DEF OneReply
    <2>2. ASSUME NEW z \in replied, z.generation = job.generation
          PROVE  z.status = "waiting"
      <3>1. job.generation \notin gs /\ job.generation \in JobGens(worker)
        BY <1>l DEF gs, JobGens
      <3> QED
        BY <1>a, <2>2, <3>1, <1>z DEF OneReply
    <2> QED
      BY <1>w, <1>g, <2>1, <2>2 DEF OneReply
  <1>6. Announced'
    BY <1>u DEF Announced
  <1>7. Debounced'
    BY <1>u, <1>g, <1>w, <1>a DEF Debounced
  <1>8. CurrentReply'
    <2> SUFFICES ASSUME NEW z \in replied, z.generation = bar.generation
                 PROVE  /\ ui.search_loading /\ ui.pending_query = z.query
                        /\ \A x \in updates : x.generation # bar.generation
                        /\ z.kind = "append" => ui.items.pages \in 1 .. MaxPages - 1
                                                /\ z.query = ui.items.query
                        /\ z.status = "ok" => z.version >= ui.items.version
      BY <1>u, <1>w DEF CurrentReply
    <2>1. PICK y \in worker.replies :
            /\ z.generation = y.generation /\ z.kind = y.kind /\ z.query = y.query
            /\ y.generation \in gs => z.status = "dropped"
            /\ y.generation \notin gs => z = y
      BY <1>a, <1>z
    <2> QED
      BY <2>1 DEF CurrentReply
  <1>9. CurrentJob'
    <2>1. worker'.running.generation = bar'.generation => worker'.since >= ui'.items.version
      BY <1>u, <1>w, <1>t DEF CurrentJob
    <2>2. \A z \in worker'.replies : z.status = "ok" => z.version <= db'
      BY <1>u, <1>w, <1>a, <1>z DEF CurrentJob
    <2> QED
      BY <1>u, <2>1, <2>2 DEF CurrentJob
  <1>10. CurrentIsLast'
    BY <1>g DEF CurrentIsLast
  <1>11. TargetsItems'
    BY <1>u DEF TargetsItems
  <1>12. AwaitedSearchNotDropped'
    <2> SUFFICES ASSUME NEW z \in replied, z.status = "dropped"
                 PROVE  z.generation < ui.search_generation
      BY <1>u, <1>w DEF AwaitedSearchNotDropped
    <2>1. PICK y \in worker.replies :
            z.generation = y.generation /\ (y.generation \notin gs => z = y)
      BY <1>a
    <2>2. CASE y.generation \in gs
      <3>1. y.generation # bar.generation
        BY <1>u, <2>2 DEF CurrentIsLast, gs, job
      <3> QED
        BY <2>1, <3>1 DEF Generations
    <2>3. CASE y.generation \notin gs
      BY <1>u, <2>1, <2>3 DEF AwaitedSearchNotDropped
    <2> QED
      BY <2>2, <2>3
  <1>13. Reached(worker)'
    BY <1>w, <1>l DEF Reached
  <1>14. ASSUME NEW m \in Nat \ {0}, NEW s \in Nat, s <= db, FreshFrom(m, s)
         PROVE  FreshFrom(m, s)'
    <2>1. worker'.running.generation >= m => worker'.since >= s
      <3>1. job.generation \in Nat
        BY <1>l DEF Job, NoJob
      <3> QED
        BY <1>w, <1>t, <1>14, <3>1
    <2>2. \A z \in worker'.replies : z.status = "ok" /\ z.generation >= m => z.version >= s
      BY <1>w, <1>a, <1>14, <1>z DEF FreshFrom
    <2> QED
      BY <1>u, <1>14, <2>1, <2>2 DEF FreshFrom
  <1> QED
    BY <1>1, <1>4, <1>5, <1>6, <1>7, <1>8, <1>9, <1>10, <1>11, <1>12, <1>13, <1>14

LEMMA WorkerEndsKeeps ==
    ASSUME PaneInv, NEW status \in {"ok", "error"}, NEW v \in Nat, WorkerEnds(status, v), ThreadOnly,
           status = "ok" => v \in worker.since .. db
    PROVE  /\ PaneInv'
           /\ \A m \in Nat \ {0}, s \in Nat : FreshFrom(m, s) => FreshFrom(m, s)'
  <1> USE Numbers DEF PaneInv
  <1> DEFINE rg == worker.running.generation
             replied == Answer(worker, {rg}, status, v)
             act == IF worker.active = rg THEN 0 ELSE worker.active
  <1>u. /\ bar' = bar /\ ui' = ui /\ updates' = updates /\ rows' = rows /\ window' = window
        /\ db' = db /\ window # "closed"
    BY DEF ThreadOnly
  <1>q. worker \in Worker /\ worker.queue \in Seq(Job \cup {NoJob}) /\ worker.running # NoJob
        /\ worker.running \in Job \cup {NoJob} /\ worker.active \in Nat
    BY DEF PaneTypes, Worker, WorkerEnds
  <1>n. rg \in Nat \ {0} /\ rg \notin QueueGens(worker)
    BY <1>q DEF Job, OneReply
  <1>a. /\ replied \subseteq Reply
        /\ \A z \in replied : \E y \in worker.replies :
             /\ z = Answered(y, {rg}, status, v)
             /\ z.generation = y.generation /\ z.kind = y.kind /\ z.query = y.query
             /\ y.generation = rg => z.status = status /\ z.version = v
             /\ y.generation # rg => z = y
    <2>1. worker.replies \subseteq Reply
      BY <1>q DEF Worker
    <2>2. \A z \in replied : \E y \in worker.replies : z = Answered(y, {rg}, status, v)
      BY AnswerReplies
    <2> HIDE DEF rg, replied
    <2>3. \A y \in worker.replies :
            /\ Answered(y, {rg}, status, v) \in Reply
            /\ Answered(y, {rg}, status, v).generation = y.generation
            /\ Answered(y, {rg}, status, v).kind = y.kind
            /\ Answered(y, {rg}, status, v).query = y.query
            /\ y.generation = rg => /\ Answered(y, {rg}, status, v).status = status
                                   /\ Answered(y, {rg}, status, v).version = v
            /\ y.generation # rg => Answered(y, {rg}, status, v) = y
      <3> TAKE y \in worker.replies
      <3>1. y \in Reply
        BY <2>1
      <3>2. CASE y.generation = rg
        BY <3>1, <3>2 DEF Reply, Answered
      <3>3. CASE y.generation # rg
        BY <3>1, <3>3 DEF Answered
      <3> QED
        BY <3>2, <3>3
    <2>4. replied \subseteq Reply
      BY <2>2, <2>3
    <2>5. ASSUME NEW z \in replied
          PROVE  \E y \in worker.replies :
                   /\ z = Answered(y, {rg}, status, v)
                   /\ z.generation = y.generation /\ z.kind = y.kind /\ z.query = y.query
                   /\ y.generation = rg => z.status = status /\ z.version = v
                   /\ y.generation # rg => z = y
      <3>1. PICK y \in worker.replies : z = Answered(y, {rg}, status, v)
        BY <2>2
      <3> QED
        BY <2>3, <3>1
    <2> QED
      BY <2>4, <2>5
  <1>e. worker' = [worker EXCEPT !.running = NoJob, !.since = 0, !.active = act, !.replies = replied]
    BY DEF WorkerEnds
  <1>c. act \in Nat /\ (act = worker.active \/ (act = 0 /\ worker.active = rg))
    BY <1>q
  <1> HIDE DEF rg, replied, act
  <1>w. /\ worker' \in Worker /\ worker'.queue = worker.queue /\ worker'.running = NoJob
        /\ worker'.since = 0 /\ worker'.active = act /\ worker'.replies = replied
    <2>1. worker = [queue |-> worker.queue, running |-> worker.running, since |-> worker.since,
                    active |-> worker.active, replies |-> worker.replies]
      BY <1>q DEF Worker
    <2>2. worker' = [queue |-> worker.queue, running |-> NoJob, since |-> 0, active |-> act,
                     replies |-> replied]
      BY <1>e, <2>1
    <2> QED
      BY <1>q, <1>a, <1>c, <2>2 DEF Worker
  <1>g. /\ QueueGens(worker') = QueueGens(worker) /\ JobGens(worker') = QueueGens(worker) \cup {0}
        /\ worker'.running.generation = 0
    BY <1>w DEF QueueGens, JobGens, NoJob
  <1>1. PaneTypes'
    BY <1>u, <1>w DEF PaneTypes
  <1>4. Generations'
    <2>1. \A g \in JobGens(worker') : g <= bar'.generation
      BY <1>g, <1>u DEF Generations, JobGens
    <2>2. \A z \in worker'.replies : z.generation <= bar'.generation
      BY <1>w, <1>a, <1>u DEF Generations
    <2> QED
      BY <1>u, <2>1, <2>2 DEF Generations
  <1>5. OneReply'
    <2>1. ASSUME NEW x \in replied, NEW z \in replied, x.generation = z.generation
          PROVE  x = z
      BY <1>a, <2>1 DEF OneReply
    <2>2. ASSUME NEW z \in replied, z.generation \in QueueGens(worker) \cup {0}
          PROVE  z.status = "waiting"
      <3>1. PICK y \in worker.replies : z.generation = y.generation /\ (y.generation # rg => z = y)
        BY <1>a
      <3>2. y.generation # 0 /\ y.generation \in QueueGens(worker)
        BY <2>2, <3>1
      <3>3. y.generation # rg /\ y.generation \in JobGens(worker)
        BY <1>n, <3>2 DEF JobGens
      <3> QED
        BY <3>1, <3>3 DEF OneReply
    <2> QED
      BY <1>w, <1>g, <2>1, <2>2 DEF OneReply
  <1>6. Announced'
    BY <1>u DEF Announced
  <1>7. Debounced'
    <2>1. \A z \in worker'.replies : \E y \in worker.replies : z.generation = y.generation
      BY <1>w, <1>a
    <2>2. bar.generation # 0
      OBVIOUS
    <2> QED
      BY <1>u, <1>g, <2>1, <2>2 DEF Debounced, JobGens
  <1>8. CurrentReply'
    <2> SUFFICES ASSUME NEW z \in replied, z.generation = bar.generation
                 PROVE  /\ ui.search_loading /\ ui.pending_query = z.query
                        /\ \A x \in updates : x.generation # bar.generation
                        /\ z.kind = "append" => ui.items.pages \in 1 .. MaxPages - 1
                                                /\ z.query = ui.items.query
                        /\ z.status = "ok" => z.version >= ui.items.version
      BY <1>u, <1>w DEF CurrentReply
    <2>1. PICK y \in worker.replies :
            /\ z.generation = y.generation /\ z.kind = y.kind /\ z.query = y.query
            /\ y.generation = rg => z.status = status /\ z.version = v
            /\ y.generation # rg => z = y
      BY <1>a
    <2>2. z.status = "ok" => z.version >= ui.items.version
      <3>1. CASE y.generation = rg
        BY <2>1, <3>1 DEF CurrentJob, rg
      <3>2. CASE y.generation # rg
        BY <2>1, <3>2 DEF CurrentReply
      <3> QED
        BY <3>1, <3>2
    <2> QED
      BY <2>1, <2>2 DEF CurrentReply
  <1>9. CurrentJob'
    <2>1. worker'.running.generation # bar'.generation
      BY <1>u, <1>g
    <2>2. \A z \in worker'.replies : z.status = "ok" => z.version <= db'
      BY <1>u, <1>w, <1>a DEF CurrentJob
    <2> QED
      BY <1>u, <2>1, <2>2 DEF CurrentJob
  <1>10. CurrentIsLast'
    BY <1>u, <1>g, <1>w DEF CurrentIsLast
  <1>11. TargetsItems'
    BY <1>u DEF TargetsItems
  <1>12. AwaitedSearchNotDropped'
    BY <1>u, <1>w, <1>a DEF AwaitedSearchNotDropped
  <1>13. Reached(worker)'
    <2>1. \A i \in DOMAIN worker.queue : worker.queue[i].generation # rg
      BY <1>n DEF QueueGens
    <2> QED
      BY <1>w, <1>g, <1>c, <2>1 DEF Reached
  <1>14. ASSUME NEW m \in Nat \ {0}, NEW s \in Nat, FreshFrom(m, s)
         PROVE  FreshFrom(m, s)'
    <2>1. ~(worker'.running.generation >= m)
      BY <1>g
    <2>2. \A z \in worker'.replies : z.status = "ok" /\ z.generation >= m => z.version >= s
      <3> SUFFICES ASSUME NEW z \in replied, z.status = "ok", z.generation >= m
                   PROVE  z.version >= s
        BY <1>w
      <3>1. PICK y \in worker.replies :
              /\ z.generation = y.generation
              /\ y.generation = rg => z.status = status /\ z.version = v
              /\ y.generation # rg => z = y
        BY <1>a
      <3>2. CASE y.generation = rg
        BY <1>14, <3>1, <3>2 DEF FreshFrom, rg
      <3>3. CASE y.generation # rg
        BY <1>14, <3>1, <3>3 DEF FreshFrom
      <3> QED
        BY <3>2, <3>3
    <2> QED
      BY <1>u, <1>14, <2>1, <2>2 DEF FreshFrom
  <1> QED
    BY <1>1, <1>4, <1>5, <1>6, <1>7, <1>8, <1>9, <1>10, <1>11, <1>12, <1>13, <1>14

(***************************************************************************)
(* The handlers, by kind of step.                                          *)
(***************************************************************************)
LEMMA SubmitAfterCancel ==
    ASSUME NEW w \in Worker, Reached(w), NEW g \in Nat \ {0}, NEW k \in Kinds, NEW q \in Queries,
           NEW v, v = Submit(Cancel(w), g, k, q)
    PROVE  Launched(w, v, g, k, q) /\ Reached(v) /\ LatestSearchJob(v.queue).generation = g
  <1> DEFINE c == Cancel(w)
  <1>1. Trimmed(w, c) /\ Reached(c) /\ c \in Worker
    BY CancelTrims DEF Trimmed
  <1> HIDE DEF c
  <1>2. Launched(c, v, g, k, q) /\ Reached(v) /\ LatestSearchJob(v.queue).generation = g
    BY <1>1, SubmitLaunches DEF c
  <1>3. QueueGens(v) \subseteq QueueGens(w) \cup {0, g}
    BY <1>1, <1>2 DEF Launched, Trimmed
  <1> QED
    BY <1>1, <1>2, <1>3 DEF Launched, Trimmed

LEMMA TrimmedAfterLaunch ==
    ASSUME NEW w \in Worker, NEW g, NEW k, NEW q, NEW v \in Worker, Launched(w, v, g, k, q), Reached(v)
    PROVE  Launched(w, Cancel(v), g, k, q) /\ Reached(Cancel(v))
  <1>1. Trimmed(v, Cancel(v)) /\ Reached(Cancel(v))
    BY CancelTrims
  <1>2. QueueGens(Cancel(v)) \subseteq QueueGens(w) \cup {0, g}
    BY <1>1 DEF Launched, Trimmed
  <1> QED
    BY <1>1, <1>2 DEF Launched, Trimmed

LEMMA SameWorker ==
    ASSUME PaneInv
    PROVE  Trimmed(worker, worker) /\ Reached(worker)
  BY DEF PaneInv, PaneTypes, Trimmed

(* Updates that are kept or cancelled. *)
LEMMA KeptUpdates ==
    ASSUME PaneInv, updates' \in {updates, CancelModelUpdate(updates)}, ui'.items = ui.items
    PROVE  updates' \subseteq Update /\ SameUpdates /\ LiveOne'
  <1>1. updates \subseteq Update
    BY DEF PaneInv, PaneTypes
  <1>2. CASE updates' = updates
    BY <1>1, <1>2 DEF SameUpdates, LiveOne, PaneInv, TargetsItems
  <1>3. CASE updates' = CancelModelUpdate(updates)
    BY <1>1, <1>3, CancelledUpdates DEF SameUpdates, LiveOne
  <1> QED
    BY <1>2, <1>3

LEMMA ScheduleReserves ==
    ASSUME PaneInv, NEW b \in Bar, NEW u \in Ui, NEW q \in Queries, ScheduleSearch(b, u, q),
           b.generation >= bar.generation, b.timer \in {bar.timer, NoTimer},
           u.items = ui.items, u.current_query = ui.current_query,
           u.outcome_generation = ui.outcome_generation, u.outcome_error = ui.outcome_error,
           db' = db, rows' = rows, window' = window
    PROVE  /\ Reserves(b.generation + 1) /\ b.generation + 1 > bar.generation
           /\ ui'.search_generation = b.generation + 1 /\ ui'.tag_warning = u.tag_warning
           /\ ui'.tag_in_progress = u.tag_in_progress
  <1> DEFINE g == b.generation + 1
  <1>n. g \in Nat \ {0} /\ g > bar.generation
    BY DEF PaneInv, PaneTypes, Bar
  <1>1. bar' \in Bar /\ bar'.generation = g /\ bar'.timer = b.timer
    BY <1>n DEF ScheduleSearch, Bar
  <1>2. ui' = BeginActivity(u, g, q) /\ worker' = Submit(Cancel(worker), g, "full", q)
        /\ updates' = CancelModelUpdate(updates)
    BY DEF ScheduleSearch
  <1> HIDE DEF g
  <1>3. /\ ui' \in Ui /\ ui'.search_generation = g /\ ui'.search_loading = TRUE
        /\ ui'.pending_query = q /\ SameView /\ Announced'
        /\ ui'.tag_warning = u.tag_warning /\ ui'.tag_in_progress = u.tag_in_progress
    <2>1. /\ ui' \in Ui /\ ui'.search_generation = g /\ ui'.search_loading = TRUE
          /\ ui'.pending_query = q /\ ui'.items = u.items /\ ui'.current_query = u.current_query
          /\ ui'.outcome_generation = u.outcome_generation /\ ui'.outcome_error = u.outcome_error
          /\ ui'.tag_warning = u.tag_warning /\ ui'.tag_in_progress = u.tag_in_progress
          /\ q # NoQuery
      BY <1>n, <1>2, QueriesAssumption DEF BeginActivity, Ui
    <2>2. SameView
      BY <2>1 DEF SameView
    <2>3. Announced'
      BY <2>1 DEF Announced
    <2> QED
      BY <2>1, <2>2, <2>3
  <1>4. updates' \subseteq Update /\ SameUpdates /\ LiveOne'
    BY <1>2, <1>3, KeptUpdates DEF SameView
  <1>5. /\ Launched(worker, worker', g, "full", q) /\ Reached(worker')
        /\ LatestSearchJob(worker'.queue).generation = g
    <2>1. worker \in Worker /\ Reached(worker) /\ "full" \in Kinds
      BY DEF PaneInv, PaneTypes, Kinds
    <2> QED
      BY <1>n, <1>2, <2>1, SubmitAfterCancel
  <1>6. Reserves(g)
    <2>1. "full" \in Kinds
      BY DEF Kinds
    <2> QED
      BY <1>n, <1>1, <1>3, <1>4, <1>5, <2>1 DEF Reserves
  <1> QED
    BY <1>n, <1>3, <1>6 DEF g

LEMMA RefreshQueryTyped ==
    ASSUME PaneTypes
    PROVE  SyncRefreshQuery \in Queries /\ ui.current_query \in Queries
  BY DEF PaneTypes, Bar, Ui, SyncRefreshQuery

(* What every step keeps; a generation that is new has no result yet. *)
Kept ==
    /\ PaneInv' /\ db' >= db
    /\ \A m \in Nat \ {0}, s \in Nat : s <= db /\ FreshFrom(m, s) => FreshFrom(m, s)'
    /\ \/ ui'.search_generation = ui.search_generation /\ (ui'.tag_warning => ui.tag_warning)
       \/ \A s \in Nat : FreshFrom(ui.search_generation, s)'

LEMMA RestsKept ==
    ASSUME PaneInv, Rests, ui'.tag_warning => ui.tag_warning
    PROVE  Kept
  BY RestKeeps, RestFresh DEF Kept, Rests

LEMMA ReservesKept ==
    ASSUME PaneInv, NEW g, Reserves(g),
           g > bar.generation \/ (ui'.tag_warning => ui.tag_warning)
    PROVE  Kept
  <1>1. PaneInv'
    BY ReserveKeeps
  <1>2. \A m \in Nat \ {0}, s \in Nat : FreshFrom(m, s) => FreshFrom(m, s)'
    BY ReserveFresh
  <1>3. ui'.search_generation = g /\ db' = db
    BY DEF Reserves
  <1>4. db' >= db
    BY <1>3 DEF PaneInv, PaneTypes
  <1>5. CASE g > bar.generation
    <2>1. \A s \in Nat : FreshFrom(g, s)'
      BY <1>5, ReserveStartsFresh
    <2>2. \A s \in Nat : FreshFrom(ui.search_generation, s)'
      BY <1>3, <2>1 DEF FreshFrom
    <2> QED
      BY <1>1, <1>2, <1>4, <2>2 DEF Kept
  <1>6. CASE ~(g > bar.generation)
    <2>1. g = ui.search_generation
      BY <1>6 DEF Reserves, PaneInv, Generations
    <2> QED
      BY <1>1, <1>2, <1>3, <1>4, <1>6, <2>1 DEF Kept
  <1> QED
    BY <1>5, <1>6

LEMMA FinishesKept ==
    ASSUME PaneInv, NEW x, Finishes(x), ui'.tag_warning => ui.tag_warning
    PROVE  Kept
  <1>1. ui'.search_generation = ui.search_generation /\ db' = db
    BY DEF Finishes
  <1>2. db' >= db
    BY <1>1 DEF PaneInv, PaneTypes
  <1> QED
    BY <1>1, <1>2, FinishKeeps, FinishFresh DEF Kept

(* Nothing of the window changes but what is listed. *)
LEMMA UntouchedRests ==
    ASSUME PaneInv, bar' = bar, ui' = ui, worker' = worker, updates' = updates,
           db' \in {db, db + 1}, rows' \in ItemSet \cup {Partial},
           window' \in {"visible", "hidden", "closed"}, window = "closed" => window' = "closed"
    PROVE  Kept
  <1>1. updates' \subseteq Update /\ SameUpdates /\ LiveOne'
    BY KeptUpdates
  <1>2. worker' \in Worker /\ Reached(worker') /\ QueueGens(worker') \subseteq QueueGens(worker) \cup {0}
    BY DEF PaneInv, PaneTypes
  <1>3. SameView
    BY DEF SameView
  <1>4. db' \in Nat /\ db' >= db
    BY DEF PaneInv, PaneTypes
  <1>5. Rests
    BY <1>1, <1>2, <1>3, <1>4 DEF Rests, PaneInv, PaneTypes
  <1> QED
    BY <1>5, RestsKept

LEMMA TypeQueryKept ==
    ASSUME PaneInv, NEW q \in Queries, TypeQuery(q)
    PROVE  Kept
  <1> DEFINE g == bar.generation + 1
  <1>n. g \in Nat \ {0} /\ g > bar.generation
    BY DEF PaneInv, PaneTypes, Bar
  <1>1. /\ bar' = [generation |-> g, requested |-> q, timer |-> [generation |-> g, query |-> q]]
        /\ ui' = BeginActivity(ui, g, q) /\ worker' = Cancel(worker)
        /\ updates' = CancelModelUpdate(updates) /\ db' = db /\ rows' = rows /\ window' = window
    BY DEF TypeQuery
  <1> HIDE DEF g
  <1>2. bar' \in Bar /\ bar'.generation = g /\ bar'.timer = [generation |-> g, query |-> q]
    BY <1>n, <1>1 DEF Bar
  <1>3. /\ ui' \in Ui /\ ui'.search_generation = g /\ ui'.search_loading = TRUE
        /\ ui'.pending_query = q /\ ui'.items = ui.items /\ ui'.current_query = ui.current_query
        /\ ui'.outcome_generation = ui.outcome_generation /\ ui'.outcome_error = ui.outcome_error
        /\ q # NoQuery
    BY <1>n, <1>1, QueriesAssumption DEF BeginActivity, Ui, PaneInv, PaneTypes
  <1>4. SameView /\ Announced'
    BY <1>3 DEF SameView, Announced
  <1>5. updates' \subseteq Update /\ SameUpdates /\ LiveOne'
    BY <1>1, <1>3, KeptUpdates
  <1>6. Trimmed(worker, worker') /\ Reached(worker')
    BY <1>1, CancelTrims DEF PaneInv, PaneTypes
  <1>7. Reserves(g)
    BY <1>n, <1>1, <1>2, <1>3, <1>4, <1>5, <1>6 DEF Reserves
  <1> QED
    BY <1>n, <1>7, ReservesKept

LEMMA ClearKept ==
    ASSUME PaneInv, ClearKeepsSyncRefresh \/ ClearEntry
    PROVE  Kept
  <1>1. CASE ClearKeepsSyncRefresh
    <2>1. /\ bar' = [bar EXCEPT !.requested = NoQuery, !.timer = NoTimer] /\ ui' = ui
          /\ worker' = worker /\ updates' = updates /\ db' = db /\ rows' = rows /\ window' = window
      BY <1>1 DEF ClearKeepsSyncRefresh
    <2>2. bar' \in Bar /\ bar'.generation = bar.generation /\ bar'.timer = NoTimer
      BY <2>1 DEF Bar, NoTimer, PaneInv, PaneTypes
    <2>3. updates' \subseteq Update /\ SameUpdates /\ LiveOne'
      BY <2>1, KeptUpdates
    <2>4. worker' \in Worker /\ Reached(worker')
          /\ QueueGens(worker') \subseteq QueueGens(worker) \cup {0}
      BY <2>1 DEF PaneInv, PaneTypes
    <2>5. db' \in Nat /\ db' >= db /\ rows' \in ItemSet \cup {Partial}
      BY <2>1 DEF PaneInv, PaneTypes, TargetsItems
    <2>6. SameView
      BY <2>1 DEF SameView
    <2>7. Rests
      BY <2>1, <2>2, <2>3, <2>4, <2>5, <2>6 DEF Rests, PaneInv, PaneTypes
    <2> QED
      BY <2>1, <2>7, RestsKept
  <1>2. CASE ClearEntry
    <2> DEFINE g == bar.generation + 1
               replace == ui.sync_in_progress /\ ui.search_loading
               h == IF replace THEN g + 1 ELSE g
               q == ui.current_query
    <2>n. g \in Nat \ {0} /\ g > bar.generation /\ h \in Nat \ {0} /\ h > bar.generation
          /\ q \in Queries
      BY DEF PaneInv, PaneTypes, Bar, Ui
    <2>1. /\ bar' = [generation |-> h, requested |-> NoQuery, timer |-> NoTimer]
          /\ ui' = IF replace THEN BeginActivity(CancelActivity(ui, g), h, q) ELSE CancelActivity(ui, h)
          /\ worker' = IF replace THEN Submit(Cancel(worker), h, "full", q) ELSE Cancel(worker)
          /\ updates' = CancelModelUpdate(updates) /\ db' = db /\ rows' = rows /\ window' = window
      BY <1>2 DEF ClearEntry
    <2> HIDE DEF g, h, q, replace
    <2>2. bar' \in Bar /\ bar'.generation = h /\ bar'.timer = NoTimer
      BY <2>n, <2>1 DEF Bar, NoTimer
    <2>3. /\ ui' \in Ui /\ ui'.search_generation = h /\ ui'.items = ui.items
          /\ ui'.current_query = ui.current_query
          /\ ui'.outcome_generation = ui.outcome_generation /\ ui'.outcome_error = ui.outcome_error
          /\ replace => ui'.search_loading = TRUE /\ ui'.pending_query = q
          /\ ~replace => ui'.search_loading = FALSE /\ ui'.pending_query = NoQuery
      <3>1. CASE replace
        BY <2>n, <2>1, <3>1 DEF BeginActivity, CancelActivity, Ui, PaneInv, PaneTypes
      <3>2. CASE ~replace
        BY <2>n, <2>1, <3>2 DEF CancelActivity, Ui, PaneInv, PaneTypes
      <3> QED
        BY <3>1, <3>2
    <2>4. SameView
      BY <2>3 DEF SameView
    <2>a. Announced'
      <3>1. q # NoQuery
        BY <2>n, QueriesAssumption
      <3> QED
        BY <2>3, <3>1 DEF Announced
    <2>5. updates' \subseteq Update /\ SameUpdates /\ LiveOne'
      BY <2>1, <2>3, KeptUpdates
    <2>6. CASE replace
      <3>1. worker \in Worker /\ Reached(worker) /\ "full" \in Kinds
        BY DEF PaneInv, PaneTypes, Kinds
      <3>2. /\ Launched(worker, worker', h, "full", q) /\ Reached(worker')
            /\ LatestSearchJob(worker'.queue).generation = h
        BY <2>n, <2>1, <2>6, <3>1, SubmitAfterCancel
      <3>3. Reserves(h)
        BY <2>n, <2>1, <2>2, <2>3, <2>4, <2>a, <2>5, <2>6, <3>1, <3>2 DEF Reserves
      <3> QED
        BY <2>n, <3>3, ReservesKept
    <2>7. CASE ~replace
      <3>1. Trimmed(worker, worker') /\ Reached(worker')
        BY <2>1, <2>7, CancelTrims DEF PaneInv, PaneTypes
      <3>2. Reserves(h)
        BY <2>n, <2>1, <2>2, <2>3, <2>4, <2>a, <2>5, <2>7, <3>1 DEF Reserves
      <3> QED
        BY <2>n, <3>2, ReservesKept
    <2> QED
      BY <2>6, <2>7
  <1> QED
    BY <1>1, <1>2

LEMMA ScheduleKept ==
    ASSUME PaneInv, NEW q \in Queries, ScheduleSearch(bar, ui, q), db' = db, rows' = rows,
           window' = window
    PROVE  /\ Kept /\ Reserves(bar.generation + 1)
           /\ ui'.tag_warning = ui.tag_warning /\ ui'.tag_in_progress = ui.tag_in_progress
  <1>1. bar \in Bar /\ ui \in Ui /\ bar.generation \in Nat
    BY DEF PaneInv, PaneTypes, Bar
  <1>2. /\ Reserves(bar.generation + 1) /\ bar.generation + 1 > bar.generation
        /\ ui'.tag_warning = ui.tag_warning /\ ui'.tag_in_progress = ui.tag_in_progress
    BY <1>1, ScheduleReserves
  <1> QED
    BY <1>2, ReservesKept

LEMMA LoadPageKept ==
    ASSUME PaneInv, NEW k \in Kinds, LoadPage(k),
           k = "append" => ui.items.pages \in 1 .. MaxPages - 1
    PROVE  Kept
  <1> DEFINE g == bar.generation + 1
             q == ui.current_query
  <1>n. g \in Nat \ {0} /\ g > bar.generation /\ q \in Queries
    BY DEF PaneInv, PaneTypes, Bar, Ui
  <1>1. /\ bar' = [bar EXCEPT !.generation = g]
        /\ ui' = BeginActivity(ui, g, q) /\ worker' = Submit(worker, g, k, q)
        /\ updates' = updates /\ db' = db /\ rows' = rows /\ window' = window
    BY DEF LoadPage
  <1>s. k = "append" => ui.items.query = q
    <2>1. ui.items.pages \in 1 .. MaxPages - 1 => ui.items # NoItems
      BY DEF NoItems
    <2> QED
      BY <2>1 DEF PaneInv, TargetsItems
  <1> HIDE DEF g, q
  <1>2. bar' \in Bar /\ bar'.generation = g /\ bar'.timer = bar.timer
    BY <1>n, <1>1 DEF Bar, PaneInv, PaneTypes
  <1>3. /\ ui' \in Ui /\ ui'.search_generation = g /\ ui'.search_loading = TRUE
        /\ ui'.pending_query = q /\ ui'.items = ui.items /\ ui'.current_query = ui.current_query
        /\ ui'.outcome_generation = ui.outcome_generation /\ ui'.outcome_error = ui.outcome_error
        /\ q # NoQuery
    BY <1>n, <1>1, QueriesAssumption DEF BeginActivity, Ui, PaneInv, PaneTypes
  <1>4. SameView /\ Announced'
    BY <1>3 DEF SameView, Announced
  <1>5. updates' \subseteq Update /\ SameUpdates /\ LiveOne'
    BY <1>1, <1>3, KeptUpdates
  <1>6. /\ Launched(worker, worker', g, k, q) /\ Reached(worker')
        /\ LatestSearchJob(worker'.queue).generation = g
    <2>1. worker \in Worker /\ Reached(worker)
      BY DEF PaneInv, PaneTypes
    <2> QED
      BY <1>n, <1>1, <2>1, SubmitLaunches
  <1>7. Reserves(g)
    BY <1>n, <1>1, <1>2, <1>3, <1>4, <1>5, <1>6, <1>s DEF Reserves
  <1> QED
    BY <1>n, <1>7, ReservesKept

LEMMA ApplyAppearanceKept ==
    ASSUME PaneInv, ApplyAppearance
    PROVE  Kept
  <1>1. /\ updates' = ApplyModelUpdate(updates, 0, "settings", ui)
        /\ bar' = bar /\ ui' = ui /\ worker' = worker /\ db' = db /\ rows' = rows /\ window' = window
    BY DEF ApplyAppearance
  <1>2. SameView
    BY <1>1 DEF SameView
  <1>3. updates' \subseteq Update /\ SameUpdates /\ LiveOne'
    <2>1. updates \subseteq Update /\ ui.items \in ItemSet
      BY DEF PaneInv, PaneTypes, Ui
    <2> QED
      BY <1>1, <2>1, AppliedUpdates DEF SameUpdates, LiveOne
  <1>4. worker' \in Worker /\ Reached(worker') /\ QueueGens(worker') \subseteq QueueGens(worker) \cup {0}
    BY <1>1 DEF PaneInv, PaneTypes
  <1>5. db' \in Nat /\ db' >= db /\ rows' \in ItemSet \cup {Partial}
    BY <1>1 DEF PaneInv, PaneTypes, TargetsItems
  <1>6. Rests
    BY <1>1, <1>2, <1>3, <1>4, <1>5 DEF Rests, PaneInv, PaneTypes
  <1> QED
    BY <1>1, <1>6, RestsKept

(* Only the flags of syncs and tag operations change, and the window may     *)
(* close.                                                                    *)
LEMMA FlagsRest ==
    ASSUME PaneInv, ui' \in Ui, ui'.search_generation = ui.search_generation,
           ui'.search_loading = ui.search_loading, ui'.pending_query = ui.pending_query, SameView,
           ui'.tag_warning => ui.tag_warning,
           bar' = bar, db' = db, rows' = rows, window' \in {"visible", "hidden", "closed"},
           window = "closed" => window' = "closed",
           worker' = worker \/ (worker' = Cancel(worker) /\ window' = "closed"),
           updates' \in {updates, CancelModelUpdate(updates)}
    PROVE  Kept
  <1>1. updates' \subseteq Update /\ SameUpdates /\ LiveOne'
    BY KeptUpdates DEF SameView
  <1>2. db' \in Nat /\ db' >= db /\ rows' \in ItemSet \cup {Partial}
    BY DEF PaneInv, PaneTypes, TargetsItems
  <1>3. /\ Trimmed(worker, worker') /\ Reached(worker')
        /\ worker'.queue = worker.queue \/ window' = "closed"
    <2>1. CASE worker' = worker
      BY <2>1, SameWorker
    <2>2. CASE worker' = Cancel(worker) /\ window' = "closed"
      BY <2>2, CancelTrims DEF PaneInv, PaneTypes
    <2> QED
      BY <2>1, <2>2
  <1>4. Rests
    BY <1>1, <1>2, <1>3 DEF Rests, Trimmed, PaneInv, PaneTypes
  <1> QED
    BY <1>4, RestsKept

LEMMA StartSyncKept ==
    ASSUME PaneInv, StartSync
    PROVE  /\ Kept
           /\ ui'.tag_warning = ui.tag_warning /\ ui'.tag_in_progress = ui.tag_in_progress
  <1>1. /\ ui' = [ui EXCEPT !.sync_in_progress = TRUE] /\ bar' = bar /\ worker' = worker
        /\ updates' = updates /\ db' = db /\ rows' = rows /\ window' = window
    BY DEF StartSync
  <1>2. /\ ui' \in Ui /\ ui'.search_generation = ui.search_generation
        /\ ui'.search_loading = ui.search_loading /\ ui'.pending_query = ui.pending_query
        /\ ui'.tag_warning = ui.tag_warning /\ ui'.tag_in_progress = ui.tag_in_progress
        /\ ui'.items = ui.items /\ ui'.current_query = ui.current_query
        /\ ui'.outcome_generation = ui.outcome_generation /\ ui'.outcome_error = ui.outcome_error
    BY <1>1 DEF PaneInv, PaneTypes, Ui
  <1>3. SameView
    BY <1>2 DEF SameView
  <1>4. window' \in {"visible", "hidden", "closed"} /\ (window = "closed" => window' = "closed")
    BY <1>1 DEF PaneInv, PaneTypes
  <1> QED
    BY <1>1, <1>2, <1>3, <1>4, FlagsRest

LEMMA FinishSyncKept ==
    ASSUME PaneInv, NEW ok, FinishSync(ok)
    PROVE  /\ Kept
           /\ ui'.tag_warning = ui.tag_warning /\ ui'.tag_in_progress = ui.tag_in_progress
           /\ ui'.items = ui.items
  <1>1. /\ ui' = [ui EXCEPT !.sync_in_progress = FALSE] /\ bar' = bar /\ db' = db /\ rows' = rows
        /\ window' \in {window, "closed"}
        /\ worker' = worker \/ (worker' = Cancel(worker) /\ window' = "closed")
        /\ updates' \in {updates, CancelModelUpdate(updates)}
    BY DEF FinishSync, CloseWhenIdle
  <1>2. /\ ui' \in Ui /\ ui'.search_generation = ui.search_generation
        /\ ui'.search_loading = ui.search_loading /\ ui'.pending_query = ui.pending_query
        /\ ui'.tag_warning = ui.tag_warning /\ ui'.tag_in_progress = ui.tag_in_progress
        /\ ui'.items = ui.items /\ ui'.current_query = ui.current_query
        /\ ui'.outcome_generation = ui.outcome_generation /\ ui'.outcome_error = ui.outcome_error
    BY <1>1 DEF PaneInv, PaneTypes, Ui
  <1>3. SameView
    BY <1>2 DEF SameView
  <1>4. window' \in {"visible", "hidden", "closed"} /\ (window = "closed" => window' = "closed")
    BY <1>1 DEF PaneInv, PaneTypes
  <1> QED
    BY <1>1, <1>2, <1>3, <1>4, FlagsRest

LEMMA CloseRequestKept ==
    ASSUME PaneInv, CloseRequest
    PROVE  Kept /\ ui' = ui
  <1>1. /\ bar' = bar /\ ui' = ui /\ db' = db /\ rows' = rows
        /\ window' \in {"hidden", "closed"} /\ window = "visible"
        /\ worker' = worker \/ (worker' = Cancel(worker) /\ window' = "closed")
        /\ updates' \in {updates, CancelModelUpdate(updates)}
    BY DEF CloseRequest, UserStep
  <1>2. SameView /\ ui' \in Ui
    BY <1>1 DEF SameView, PaneInv, PaneTypes
  <1> QED
    BY <1>1, <1>2, FlagsRest

(* A generation is reserved and nothing launched. *)
LEMMA CancelActivityReserves ==
    ASSUME PaneInv, NEW g \in Nat, g > bar.generation, bar' = [bar EXCEPT !.generation = g],
           ui' \in Ui, ui'.search_generation = g, ~ui'.search_loading, ui'.pending_query = NoQuery,
           SameView, db' = db, rows' = rows, window' \in {window, "closed"},
           worker' \in {worker, Cancel(worker)}, updates' \in {updates, CancelModelUpdate(updates)}
    PROVE  Kept
  <1>1. bar' \in Bar /\ bar'.generation = g /\ bar'.timer = bar.timer
    BY DEF PaneInv, PaneTypes, Bar
  <1>2. Announced'
    BY DEF Announced
  <1>3. updates' \subseteq Update /\ SameUpdates /\ LiveOne'
    BY KeptUpdates DEF SameView
  <1>4. Trimmed(worker, worker') /\ Reached(worker')
    BY SameWorker, CancelTrims DEF PaneInv, PaneTypes
  <1>5. Reserves(g)
    BY <1>1, <1>2, <1>3, <1>4 DEF Reserves
  <1> QED
    BY <1>5, ReservesKept

LEMMA StartTagKept ==
    ASSUME PaneInv, StartTag
    PROVE  Kept /\ ui'.tag_in_progress /\ ~ui'.tag_warning
  <1> DEFINE g == bar.generation + 1
  <1>n. g \in Nat /\ g > bar.generation
    BY DEF PaneInv, PaneTypes, Bar
  <1>1. /\ ui' = [CancelActivity(ui, g) EXCEPT !.tag_in_progress = TRUE]
        /\ bar' = [bar EXCEPT !.generation = g] /\ ~ui.tag_warning
        /\ worker' = worker /\ updates' = updates /\ db' = db /\ rows' = rows /\ window' = window
    BY DEF StartTag, OperationAllowed
  <1> HIDE DEF g
  <1>2. /\ ui' \in Ui /\ ui'.search_generation = g /\ ui'.search_loading = FALSE
        /\ ui'.pending_query = NoQuery /\ ui'.tag_in_progress /\ ui'.tag_warning = ui.tag_warning
        /\ ui'.items = ui.items /\ ui'.current_query = ui.current_query
        /\ ui'.outcome_generation = ui.outcome_generation /\ ui'.outcome_error = ui.outcome_error
    BY <1>n, <1>1 DEF CancelActivity, PaneInv, PaneTypes, Ui
  <1>3. SameView
    BY <1>2 DEF SameView
  <1> QED
    BY <1>n, <1>1, <1>2, <1>3, CancelActivityReserves

LEMMA TagStartFailsKept ==
    ASSUME PaneInv, TagStartFails
    PROVE  Kept /\ ~ui.tag_in_progress
  <1> DEFINE g == bar.generation + 1
             b == [bar EXCEPT !.generation = @ + 1]
  <1>n. g \in Nat /\ g > bar.generation
    BY DEF PaneInv, PaneTypes, Bar
  <1>b. b \in Bar /\ b.generation = g /\ b.timer = bar.timer /\ b = [bar EXCEPT !.generation = g]
    BY DEF PaneInv, PaneTypes, Bar
  <1>1. /\ ~ui.tag_in_progress
        /\ db' = db /\ rows' = rows /\ window' = window
        /\ \/ /\ ui.search_loading
              /\ ScheduleSearch(b, [CancelActivity(ui, b.generation) EXCEPT !.tag_warning = TRUE],
                                SyncRefreshQuery)
           \/ /\ bar' = b /\ ui' = CancelActivity(ui, b.generation)
              /\ worker' = worker /\ updates' = updates
    BY DEF TagStartFails, OperationAllowed
  <1> HIDE DEF g, b
  <1>2. CASE /\ bar' = b /\ ui' = CancelActivity(ui, b.generation)
             /\ worker' = worker /\ updates' = updates
    <2>1. /\ ui' \in Ui /\ ui'.search_generation = g /\ ui'.search_loading = FALSE
          /\ ui'.pending_query = NoQuery
          /\ ui'.items = ui.items /\ ui'.current_query = ui.current_query
          /\ ui'.outcome_generation = ui.outcome_generation /\ ui'.outcome_error = ui.outcome_error
      BY <1>n, <1>b, <1>2 DEF CancelActivity, PaneInv, PaneTypes, Ui
    <2>2. SameView
      BY <2>1 DEF SameView
    <2> QED
      BY <1>n, <1>b, <1>1, <1>2, <2>1, <2>2, CancelActivityReserves
  <1>3. CASE ScheduleSearch(b, [CancelActivity(ui, b.generation) EXCEPT !.tag_warning = TRUE],
                            SyncRefreshQuery)
    <2> DEFINE u == [CancelActivity(ui, b.generation) EXCEPT !.tag_warning = TRUE]
    <2>1. /\ u \in Ui /\ u.items = ui.items /\ u.current_query = ui.current_query
          /\ u.outcome_generation = ui.outcome_generation /\ u.outcome_error = ui.outcome_error
      BY <1>n, <1>b DEF CancelActivity, PaneInv, PaneTypes, Ui
    <2>2. SyncRefreshQuery \in Queries
      BY RefreshQueryTyped DEF PaneInv
    <2>3. b.generation >= bar.generation
      BY <1>n, <1>b DEF PaneInv, PaneTypes, Bar
    <2>4. ScheduleSearch(b, u, SyncRefreshQuery)
      BY <1>3
    <2> HIDE DEF u
    <2>5. Reserves(b.generation + 1) /\ b.generation + 1 > bar.generation
      BY <1>b, <1>1, <2>1, <2>2, <2>3, <2>4, ScheduleReserves
    <2> QED
      BY <1>1, <2>5, ReservesKept
  <1> QED
    BY <1>1, <1>2, <1>3

LEMMA DebounceKept ==
    ASSUME PaneInv, DebounceFires
    PROVE  Kept /\ ui' = ui
  <1> DEFINE g == bar.timer.generation
             q == bar.timer.query
  <1>1. /\ bar' = [bar EXCEPT !.timer = NoTimer] /\ bar.timer # NoTimer
        /\ ui' = ui /\ updates' = updates /\ db' = db /\ rows' = rows /\ window' = window
        /\ worker' = IF g = bar.generation THEN Submit(worker, g, "full", q) ELSE worker
    BY DEF DebounceFires
  <1>2. bar' \in Bar /\ bar'.generation = bar.generation /\ bar'.timer = NoTimer
    BY <1>1 DEF Bar, NoTimer, PaneInv, PaneTypes
  <1>3. updates' \subseteq Update /\ SameUpdates /\ LiveOne'
    BY <1>1, KeptUpdates
  <1>4. SameView /\ ui' \in Ui /\ Announced'
    BY <1>1 DEF SameView, PaneInv, PaneTypes, Announced
  <1>5. q \in Queries /\ g \in Nat \ {0}
    BY <1>1 DEF PaneInv, PaneTypes, Bar
  <1>6. worker \in Worker /\ Reached(worker) /\ "full" \in Kinds
    BY DEF PaneInv, PaneTypes, Kinds
  <1>7. CASE g = bar.generation
    <2>1. worker' = Submit(worker, g, "full", q)
      BY <1>1, <1>7
    <2>2. ui'.search_loading /\ ui'.pending_query = q /\ ui'.search_generation = g
      BY <1>1, <1>7 DEF PaneInv, Debounced, Generations
    <2> HIDE DEF g, q
    <2>3. /\ Launched(worker, worker', g, "full", q) /\ Reached(worker')
          /\ LatestSearchJob(worker'.queue).generation = g
      BY <1>5, <1>6, <2>1, SubmitLaunches
    <2>4. Reserves(g)
      <3>1. bar.timer.generation = g
        BY DEF g
      <3> QED
        BY <1>1, <1>2, <1>3, <1>4, <1>5, <1>6, <1>7, <2>2, <2>3, <3>1 DEF Reserves
    <2> QED
      BY <1>1, <2>4, ReservesKept
  <1>8. CASE g # bar.generation
    <2>1. worker' = worker
      BY <1>1, <1>8
    <2>2. QueueGens(worker') \subseteq QueueGens(worker) \cup {0}
      BY <2>1
    <2>3. db' \in Nat /\ db' >= db /\ rows' \in ItemSet \cup {Partial}
      BY <1>1 DEF PaneInv, PaneTypes, TargetsItems
    <2>4. Rests
      BY <1>1, <1>2, <1>3, <1>4, <1>6, <2>1, <2>2, <2>3 DEF Rests, PaneInv, PaneTypes
    <2> QED
      BY <1>1, <2>4, RestsKept
  <1> QED
    BY <1>7, <1>8

LEMMA IgnoreRepliesKept ==
    ASSUME PaneInv, IgnoreReplies
    PROVE  Kept /\ ui' = ui
  <1> DEFINE kept == worker.replies \ {r \in worker.replies : r.status # "waiting" /\ ~Accepts(r)}
  <1>1. /\ worker' = [worker EXCEPT !.replies = kept]
        /\ bar' = bar /\ ui' = ui /\ updates' = updates /\ db' = db /\ rows' = rows /\ window' = window
    BY DEF IgnoreReplies
  <1>2. kept \subseteq worker.replies
    OBVIOUS
  <1> HIDE DEF kept
  <1>3. /\ worker' \in Worker /\ worker'.queue = worker.queue /\ worker'.running = worker.running
        /\ worker'.since = worker.since /\ worker'.active = worker.active
        /\ worker'.replies \subseteq worker.replies
    BY <1>1, <1>2 DEF PaneInv, PaneTypes, Worker
  <1>4. Reached(worker') /\ QueueGens(worker') = QueueGens(worker)
    BY <1>3 DEF PaneInv, Reached, QueueGens
  <1>5. updates' \subseteq Update /\ SameUpdates /\ LiveOne'
    BY <1>1, KeptUpdates
  <1>6. SameView /\ ui' \in Ui
    BY <1>1 DEF SameView, PaneInv, PaneTypes
  <1>7. db' \in Nat /\ db' >= db /\ rows' \in ItemSet \cup {Partial}
    BY <1>1 DEF PaneInv, PaneTypes, TargetsItems
  <1>8. Rests
    BY <1>1, <1>3, <1>4, <1>5, <1>6, <1>7 DEF Rests, PaneInv, PaneTypes
  <1> QED
    BY <1>1, <1>8, RestsKept

LEMMA FewerUpdates ==
    ASSUME PaneInv, NEW us, us \subseteq updates, updates' \in {us, CancelModelUpdate(us)},
           ui'.items = ui.items
    PROVE  updates' \subseteq Update /\ SameUpdates /\ LiveOne'
  <1>1. updates \subseteq Update /\ us \subseteq Update
    BY DEF PaneInv, PaneTypes
  <1>2. CASE updates' = us
    BY <1>1, <1>2 DEF SameUpdates, LiveOne, PaneInv, TargetsItems
  <1>3. CASE updates' = CancelModelUpdate(us)
    <2>1. \A y \in updates' :
            ~y.live /\ \E x \in us : x.generation = y.generation /\ x.kind = y.kind
      BY <1>1, <1>3, CancelledUpdates
    <2> QED
      BY <1>1, <1>3, <2>1, CancelledUpdates DEF SameUpdates, LiveOne
  <1> QED
    BY <1>2, <1>3

LEMMA CompleteKept ==
    ASSUME PaneInv, NEW x \in updates, NEW applied \in BOOLEAN, Complete(x, applied),
           bar' = bar, db' = db, rows' \in ItemSet \cup {Partial}, window # "closed"
    PROVE  /\ Kept /\ ui'.tag_in_progress = ui.tag_in_progress /\ ui'.items = ui.items
           /\ ui'.tag_warning => ui.tag_warning
           /\ ui.tag_warning /\ ~ui'.tag_warning
                => x.kind = "full" /\ x.generation = ui.search_generation
           /\ ui'.outcome_generation # ui.outcome_generation => applied
  <1> DEFINE us == updates \ {x}
             f == FinishActivity(ui)
             n == IF applied THEN RecordOutcome(f, x.generation) ELSE f
             k == [n EXCEPT !.tag_warning = n.tag_paths_uncertain]
  <1>t. ui \in Ui /\ worker \in Worker /\ x.generation \in Nat /\ us \subseteq updates
    BY DEF PaneInv, PaneTypes, Update
  <1>1. CASE /\ x.kind = "settings" \/ x.generation # ui.search_generation
             /\ updates' = us /\ ui' = ui /\ worker' = worker /\ window' = window
    <2>1. updates' \subseteq Update /\ SameUpdates /\ LiveOne'
      BY <1>1, <1>t, FewerUpdates
    <2>2. SameView /\ ui' \in Ui
      BY <1>1, <1>t DEF SameView
    <2>3. worker' \in Worker /\ Reached(worker')
          /\ QueueGens(worker') \subseteq QueueGens(worker) \cup {0}
      BY <1>1 DEF PaneInv, PaneTypes
    <2>4. db' \in Nat /\ db' >= db
      BY DEF PaneInv, PaneTypes
    <2>5. Rests
      BY <1>1, <2>1, <2>2, <2>3, <2>4 DEF Rests, PaneInv, PaneTypes
    <2> QED
      BY <1>1, <2>5, RestsKept
  <1>f. /\ f \in Ui /\ f.search_generation = ui.search_generation
        /\ f.search_loading = FALSE /\ f.pending_query = NoQuery
        /\ f.items = ui.items /\ f.current_query = ui.current_query
        /\ f.outcome_generation = ui.outcome_generation /\ f.outcome_error = ui.outcome_error
        /\ f.tag_warning = ui.tag_warning /\ f.tag_in_progress = ui.tag_in_progress
    BY <1>t DEF FinishActivity, Ui
  <1>n. /\ n \in Ui /\ n.search_generation = ui.search_generation
        /\ n.search_loading = FALSE /\ n.pending_query = NoQuery
        /\ n.items = ui.items /\ n.current_query = ui.current_query
        /\ n.tag_warning = ui.tag_warning /\ n.tag_in_progress = ui.tag_in_progress
        /\ applied => n.outcome_generation = x.generation
        /\ ~applied => /\ n.outcome_generation = ui.outcome_generation
                       /\ n.outcome_error = ui.outcome_error
    <2> HIDE DEF f
    <2>1. CASE applied
      BY <1>t, <1>f, <2>1 DEF RecordOutcome, Ui
    <2>2. CASE ~applied
      BY <1>f, <2>2
    <2> QED
      BY <2>1, <2>2
  <1>k. /\ k \in Ui /\ k.search_generation = n.search_generation
        /\ k.search_loading = n.search_loading /\ k.pending_query = n.pending_query
        /\ k.items = n.items /\ k.current_query = n.current_query
        /\ k.tag_in_progress = n.tag_in_progress
        /\ k.outcome_generation = n.outcome_generation /\ k.outcome_error = n.outcome_error
    <2> HIDE DEF n
    <2> QED
      BY <1>n DEF Ui
  <1>2. CASE /\ x.kind \in {"append", "locate"} /\ x.generation = ui.search_generation
             /\ ui' = f /\ updates' = us /\ worker' = worker /\ window' = window
    <2> HIDE DEF f
    <2>1. updates' \subseteq Update /\ SameUpdates /\ LiveOne'
      BY <1>2, <1>f, <1>t, FewerUpdates
    <2>2. SameView
      BY <1>2, <1>f DEF SameView
    <2>3. Finishes(x)
      BY <1>2, <1>f, <2>1, <2>2, SameWorker DEF Finishes, PaneInv, PaneTypes
    <2> QED
      BY <1>2, <1>f, <2>3, FinishesKept
  <1>3. CASE /\ x.kind = "full" /\ x.generation = ui.search_generation
             /\ RestoreTagWarning(n, applied, us)
    <2>1. \/ /\ n.tag_warning /\ applied /\ ui' = k /\ window' \in {window, "closed"}
             /\ worker' = worker \/ (worker' = Cancel(worker) /\ window' = "closed")
             /\ updates' \in {us, CancelModelUpdate(us)}
          \/ ui' = n /\ updates' = us /\ worker' = worker /\ window' \in {window, "visible"}
      <3> HIDE DEF n, us
      <3> QED
        BY <1>3 DEF RestoreTagWarning, CloseWhenIdle
    <2> HIDE DEF n, k, us
    <2>2. /\ ui' \in Ui /\ ui'.search_generation = ui.search_generation
          /\ ui'.search_loading = FALSE /\ ui'.pending_query = NoQuery
          /\ ui'.items = ui.items /\ ui'.current_query = ui.current_query
          /\ ui'.tag_in_progress = ui.tag_in_progress
          /\ applied => ui'.outcome_generation = x.generation
          /\ ~applied => /\ ui'.outcome_generation = ui.outcome_generation
                         /\ ui'.outcome_error = ui.outcome_error
          /\ ui'.tag_warning => ui.tag_warning
      BY <1>n, <1>k, <2>1
    <2>3. updates' \subseteq Update /\ SameUpdates /\ LiveOne'
      BY <1>t, <2>1, <2>2, FewerUpdates
    <2>4. SameView \/ ui'.outcome_generation = x.generation
      BY <2>2 DEF SameView
    <2>5. /\ Trimmed(worker, worker') /\ Reached(worker')
          /\ worker'.queue = worker.queue \/ window' = "closed"
      <3>1. CASE worker' = worker
        BY <3>1, SameWorker
      <3>2. CASE worker' = Cancel(worker) /\ window' = "closed"
        BY <1>t, <3>2, CancelTrims DEF PaneInv
      <3> QED
        BY <2>1, <3>1, <3>2
    <2>6. window' \in {"visible", "hidden", "closed"}
      BY <2>1 DEF PaneInv, PaneTypes
    <2>7. Finishes(x)
      BY <1>3, <2>2, <2>3, <2>4, <2>5, <2>6 DEF Finishes
    <2> QED
      BY <1>3, <2>2, <2>7, FinishesKept
  <1> QED
    BY <1>1, <1>2, <1>3 DEF Complete

LEMMA FinishTagWorkerKept ==
    ASSUME PaneInv, FinishTagWorker, window # "closed"
    PROVE  Kept /\ ui'.items = ui.items /\ ui'.outcome_generation = ui.outcome_generation
  <1> DEFINE h == bar.generation + 1
             g == h + 1
             b == [bar EXCEPT !.generation = @ + 1]
             warn == tag.result \in {"partial", "uncertain"}
             unsure == tag.result = "uncertain"
             u == [CancelActivity(ui, h) EXCEPT !.tag_in_progress = FALSE, !.tag_warning = warn,
                                                !.tag_paths_uncertain = unsure]
             q == SyncRefreshQuery
             n == BeginActivity(u, g, q)
  <1>n. h \in Nat /\ h > bar.generation /\ g \in Nat \ {0} /\ g > bar.generation
    BY DEF PaneInv, PaneTypes, Bar
  <1>b. b \in Bar /\ b.generation = h /\ b = [bar EXCEPT !.generation = h]
        /\ b.timer = bar.timer
    BY DEF PaneInv, PaneTypes, Bar
  <1>q. q \in Queries /\ q # NoQuery
    BY RefreshQueryTyped, QueriesAssumption DEF PaneInv
  <1>1. /\ db' = db /\ rows' = rows
        /\ \/ /\ bar' = [b EXCEPT !.generation = @ + 1, !.requested = q]
              /\ CloseWhenIdle(n, Submit(Cancel(worker), g, "full", q), CancelModelUpdate(updates))
           \/ bar' = b /\ CloseWhenIdle(u, worker, updates)
    BY <1>b DEF FinishTagWorker
  <1>u. /\ u \in Ui /\ u.search_generation = h /\ u.search_loading = FALSE
        /\ u.pending_query = NoQuery /\ u.items = ui.items /\ u.current_query = ui.current_query
        /\ u.outcome_generation = ui.outcome_generation /\ u.outcome_error = ui.outcome_error
    <2>1. warn \in BOOLEAN /\ unsure \in BOOLEAN
      OBVIOUS
    <2> HIDE DEF h, warn, unsure
    <2> QED
      BY <1>n, <2>1 DEF CancelActivity, Ui, PaneInv, PaneTypes
  <1> HIDE DEF h, u, q, b
  <1>2. CASE bar' = b /\ CloseWhenIdle(u, worker, updates)
    <2>1. /\ ui' = u /\ window' \in {window, "closed"} /\ worker' \in {worker, Cancel(worker)}
          /\ updates' \in {updates, CancelModelUpdate(updates)}
      BY <1>2 DEF CloseWhenIdle
    <2>2. SameView
      BY <1>u, <2>1 DEF SameView
    <2> QED
      BY <1>n, <1>b, <1>u, <1>1, <1>2, <2>1, <2>2, CancelActivityReserves
  <1>3. CASE /\ bar' = [b EXCEPT !.generation = @ + 1, !.requested = q]
             /\ CloseWhenIdle(n, Submit(Cancel(worker), g, "full", q), CancelModelUpdate(updates))
    <2> DEFINE w == Submit(Cancel(worker), g, "full", q)
               us == CancelModelUpdate(updates)
    <2>1. /\ ui' = n /\ window' \in {window, "closed"}
          /\ worker' = w \/ (worker' = Cancel(w) /\ window' = "closed")
          /\ updates' \in {us, CancelModelUpdate(us)}
      BY <1>3 DEF CloseWhenIdle
    <2>2. bar' \in Bar /\ bar'.generation = g /\ bar'.timer = bar.timer
      BY <1>n, <1>b, <1>q, <1>3 DEF Bar
    <2> HIDE DEF g, us
    <2>3. /\ ui' \in Ui /\ ui'.search_generation = g /\ ui'.search_loading = TRUE
          /\ ui'.pending_query = q /\ ui'.items = ui.items /\ ui'.current_query = ui.current_query
          /\ ui'.outcome_generation = ui.outcome_generation /\ ui'.outcome_error = ui.outcome_error
      BY <1>n, <1>q, <1>u, <2>1 DEF BeginActivity, Ui
    <2>4. SameView /\ Announced'
      BY <1>q, <2>3 DEF SameView, Announced
    <2>5. updates' \subseteq Update /\ SameUpdates /\ LiveOne'
      <3>1. /\ us \subseteq Update
            /\ \A y \in us : ~y.live /\ \E x \in updates : x.generation = y.generation /\ x.kind = y.kind
        BY CancelledUpdates DEF us, PaneInv, PaneTypes
      <3>2. CASE updates' = us
        BY <3>1, <3>2 DEF SameUpdates, LiveOne
      <3>3. CASE updates' = CancelModelUpdate(us)
        <4>1. /\ updates' \subseteq Update
              /\ \A y \in updates' : ~y.live /\ \E x \in us : x.generation = y.generation
                                                                /\ x.kind = y.kind
          BY <3>1, <3>3, CancelledUpdates
        <4> QED
          BY <3>1, <4>1 DEF SameUpdates, LiveOne
      <3> QED
        BY <2>1, <3>2, <3>3
    <2>6. worker \in Worker /\ Reached(worker) /\ "full" \in Kinds
      BY DEF PaneInv, PaneTypes, Kinds
    <2>7. Launched(worker, w, g, "full", q) /\ Reached(w) /\ LatestSearchJob(w.queue).generation = g
          /\ w \in Worker
      BY <1>n, <1>q, <2>6, SubmitAfterCancel DEF Launched
    <2> HIDE DEF w
    <2>8. /\ Launched(worker, worker', g, "full", q) /\ Reached(worker')
          /\ window' # "closed" => LatestSearchJob(worker'.queue).generation = g
      <3>1. CASE worker' = w
        BY <2>7, <3>1
      <3>2. CASE worker' = Cancel(w) /\ window' = "closed"
        BY <2>6, <2>7, <3>2, TrimmedAfterLaunch
      <3> QED
        BY <2>1, <3>1, <3>2
    <2>9. Reserves(g)
      BY <1>n, <1>q, <1>1, <2>1, <2>2, <2>3, <2>4, <2>5, <2>6, <2>8 DEF Reserves
    <2> QED
      BY <1>n, <2>3, <2>9, ReservesKept
  <1> QED
    BY <1>1, <1>2, <1>3

(***************************************************************************)
(* The invariant.                                                          *)
(***************************************************************************)
LEMMA ActivityInitInv == ActivityInit => ActivityInv
  <1> SUFFICES ASSUME ActivityInit PROVE ActivityInv
    OBVIOUS
  <1>q. DefaultQuery \in Queries /\ DefaultQuery # NoQuery /\ MaxPages \in Nat \ {0}
    BY ActivityAssumption, QueriesAssumption
  <1>n. NoItems \in ItemSet /\ NoItems.version = 0 /\ NoTimer.generation = 0
        /\ NoTimer.query = NoQuery
    BY DEF ItemSet, NoItems, NoTimer
  <1>1. /\ bar \in Bar /\ bar.generation = 1 /\ bar.timer = NoTimer
    BY <1>q, <1>n DEF ActivityInit, Bar, NoTimer
  <1>2. /\ ui \in Ui /\ ui.search_generation = 1 /\ ui.search_loading = TRUE
        /\ ui.pending_query = DefaultQuery /\ ui.items = NoItems /\ ui.outcome_generation = 0
        /\ ui.tag_warning = FALSE
    <2> DEFINE none == NoItems
    <2>1. none \in ItemSet
      BY <1>n
    <2> HIDE DEF none
    <2>2. ui = [search_generation |-> 1, search_loading |-> TRUE, pending_query |-> DefaultQuery,
             search_error |-> FALSE, current_query |-> DefaultQuery, items |-> none,
             outcome_generation |-> 0, outcome_error |-> FALSE, sync_in_progress |-> FALSE,
             tag_in_progress |-> FALSE, tag_warning |-> FALSE, tag_paths_uncertain |-> FALSE]
      BY DEF ActivityInit, none
    <2>3. ui \in Ui
      BY <1>q, <2>1, <2>2 DEF Ui
    <2> QED
      BY <2>2, <2>3 DEF none
  <1>3. NewWorker \in Worker /\ Reached(NewWorker) /\ QueueGens(NewWorker) = {}
        /\ NewWorker.replies = {} /\ NewWorker.running.generation = 0 /\ NewWorker.since = 0
    BY DEF NewWorker, Worker, Reached, QueueGens, NoJob
  <1>4. /\ Launched(NewWorker, worker, 1, "full", DefaultQuery) /\ Reached(worker)
        /\ LatestSearchJob(worker.queue).generation = 1
    <2>1. worker = Submit(Cancel(NewWorker), 1, "full", DefaultQuery) /\ "full" \in Kinds
      BY DEF ActivityInit, Kinds
    <2> QED
      BY <1>q, <1>3, <2>1, SubmitAfterCancel
  <1>5. /\ worker \in Worker /\ QueueGens(worker) \subseteq {0, 1}
        /\ worker.running.generation = 0 /\ worker.since = 0
        /\ worker.replies = {[generation |-> 1, kind |-> "full", query |-> DefaultQuery,
                              status |-> "waiting", version |-> 0]}
    BY <1>3, <1>4 DEF Launched
  <1>6. updates = {} /\ db = 0 /\ rows = NoItems /\ window = "visible" /\ sync = NoSync /\ tag = NoTag
    BY DEF ActivityInit
  <1>7. PaneTypes
    BY <1>1, <1>2, <1>5, <1>6 DEF PaneTypes
  <1>8. Generations
    BY <1>1, <1>2, <1>5, <1>6, <1>n DEF Generations, JobGens
  <1>9. OneReply
    <2>1. \A j \in Job : j.generation # 0
      BY DEF Job
    <2>2. worker.running = NoJob
      BY <1>5, <2>1 DEF Worker
    <2> QED
      BY <1>5, <2>2 DEF OneReply
  <1>10. Announced /\ Debounced /\ CurrentReply
    BY <1>1, <1>2, <1>5, <1>6, <1>q, <1>n DEF Announced, Debounced, CurrentReply
  <1>11. CurrentJob /\ CurrentIsLast
    BY <1>1, <1>2, <1>4, <1>5, <1>6, <1>n DEF CurrentJob, CurrentIsLast
  <1>12. TargetsItems /\ AwaitedSearchNotDropped
    BY <1>2, <1>5, <1>6, <1>n DEF TargetsItems, AwaitedSearchNotDropped
  <1>13. PaneInv
    BY <1>4, <1>7, <1>8, <1>9, <1>10, <1>11, <1>12 DEF PaneInv
  <1>14. SyncFresh
    BY <1>6 DEF SyncFresh, NoSync
  <1>15. TagFresh
    BY <1>2, <1>6 DEF TagFresh, NoTag
  <1>16. RefreshesFresh
    BY <1>6 DEF RefreshesFresh, ActivityInit
  <1>17. agenda \in AgendaSet
    BY ActivityAssumption DEF ActivityInit
  <1> QED
    BY <1>13, <1>14, <1>15, <1>16, <1>17 DEF ActivityInv

(* Nothing can have happened in a generation that is to come. *)
LEMMA NextIsFresh ==
    ASSUME PaneInv, NEW s \in Nat
    PROVE  FreshFrom(ui.search_generation + 1, s) /\ ui.search_generation + 1 \in Nat \ {0}
  <1> USE Numbers DEF PaneInv
  <1>1. ~(worker.running.generation >= ui.search_generation + 1)
    <2>1. worker.running.generation \in JobGens(worker)
      BY DEF JobGens
    <2> QED
      BY <2>1 DEF Generations
  <1>2. \A r \in worker.replies : ~(r.generation >= ui.search_generation + 1)
    BY DEF Generations
  <1>3. \A x \in updates : ~(x.generation >= ui.search_generation + 1)
    BY DEF Generations
  <1>4. ~(ui.outcome_generation >= ui.search_generation + 1)
    BY DEF Generations
  <1> QED
    BY <1>1, <1>2, <1>3, <1>4 DEF FreshFrom

LEMMA SyncStaysFresh ==
    ASSUME ActivityInv, Kept, sync' = sync
    PROVE  SyncFresh'
  <1>1. sync.since <= db /\ sync.since \in Nat /\ db \in Nat /\ db' \in Nat /\ db' >= db
    BY DEF ActivityInv, SyncFresh, PaneInv, PaneTypes, Kept
  <1>2. ASSUME sync.phase = "refresh" PROVE FreshFrom(sync.generation, sync.since)'
    <2>1. FreshFrom(sync.generation, sync.since) /\ sync.generation \in Nat \ {0}
      BY <1>2 DEF ActivityInv, SyncFresh
    <2>2. ASSUME NEW m \in Nat \ {0}, NEW s \in Nat, s <= db, FreshFrom(m, s),
                 m = sync.generation, s = sync.since
          PROVE  FreshFrom(sync.generation, sync.since)'
      <3>1. FreshFrom(m, s)'
        BY <2>2 DEF Kept
      <3> QED
        BY <2>2, <3>1 DEF FreshFrom
    <2> QED
      BY <1>1, <2>1, <2>2
  <1> QED
    BY <1>1, <1>2 DEF SyncFresh, ActivityInv

LEMMA RefreshesStayFresh ==
    ASSUME ActivityInv, Kept, NEW r \in Requests, refreshes'[r] = refreshes[r],
           refreshes[r].status = "waiting"
    PROVE  FreshFrom(refreshes[r].minimum, refreshes[r].since)' /\ refreshes'[r].minimum > 0
  <1>1. /\ FreshFrom(refreshes[r].minimum, refreshes[r].since) /\ refreshes[r].minimum \in Nat \ {0}
        /\ refreshes[r].since \in Nat /\ refreshes[r].since <= db
    BY DEF ActivityInv, RefreshesFresh
  <1>2. ASSUME NEW m \in Nat \ {0}, NEW s \in Nat, s <= db, FreshFrom(m, s),
               m = refreshes[r].minimum, s = refreshes[r].since
        PROVE  FreshFrom(refreshes[r].minimum, refreshes[r].since)'
    <2>1. FreshFrom(m, s)'
      BY <1>2 DEF Kept
    <2> QED
      BY <1>2, <2>1 DEF FreshFrom
  <1> QED
    BY <1>1, <1>2

LEMMA SameRefreshesFresh ==
    ASSUME ActivityInv, Kept, refreshes' = refreshes
    PROVE  RefreshesFresh'
  <1>1. \A r \in Requests : refreshes[r].since \in Nat /\ refreshes[r].since <= db'
    BY DEF ActivityInv, RefreshesFresh, Kept, PaneInv, PaneTypes
  <1>2. \A r \in Requests : refreshes'[r].status = "waiting" =>
          refreshes'[r].minimum > 0 /\ FreshFrom(refreshes[r].minimum, refreshes[r].since)'
    BY RefreshesStayFresh
  <1> QED
    BY <1>1, <1>2 DEF ActivityInv, RefreshesFresh

(* The warning of a tag operation: its generation is new, or as fresh as it  *)
(* was.                                                                      *)
LEMMA WarningStaysFresh ==
    ASSUME ActivityInv, Kept, ui'.tag_warning, tag'.since \in Nat,
           ui.tag_warning => tag'.since = tag.since
    PROVE  FreshFrom(ui.search_generation, tag.since)'
  <1>1. CASE \A s \in Nat : FreshFrom(ui.search_generation, s)'
    <2>1. ASSUME NEW s \in Nat, s = tag'.since PROVE FreshFrom(ui.search_generation, tag.since)'
      BY <1>1, <2>1 DEF FreshFrom
    <2> QED
      BY <2>1
  <1>2. CASE ui'.search_generation = ui.search_generation /\ ui.tag_warning
    <2>1. /\ FreshFrom(ui.search_generation, tag.since) /\ tag.since \in Nat /\ tag.since <= db
          /\ tag'.since = tag.since /\ ui.search_generation \in Nat \ {0}
      BY <1>2, Numbers DEF ActivityInv, TagFresh, PaneInv, Generations
    <2>2. ASSUME NEW m \in Nat \ {0}, NEW s \in Nat, s <= db, FreshFrom(m, s),
                 m = ui.search_generation, s = tag.since
          PROVE  FreshFrom(ui.search_generation, tag.since)'
      <3>1. FreshFrom(m, s)'
        BY <2>2 DEF Kept
      <3> QED
        BY <1>2, <2>1, <2>2, <3>1 DEF FreshFrom
    <2> QED
      BY <2>1, <2>2
  <1> QED
    BY <1>1, <1>2 DEF Kept

SameTag == ui'.tag_in_progress = ui.tag_in_progress /\ (ui'.tag_warning => ui.tag_warning)

LEMMA SameTagFresh ==
    ASSUME ActivityInv, Kept, SameTag, tag' = tag
    PROVE  TagFresh'
  <1>1. tag.since \in Nat /\ tag.since <= db'
    BY DEF ActivityInv, TagFresh, Kept, PaneInv, PaneTypes
  <1>2. ui'.tag_warning => FreshFrom(ui.search_generation, tag.since)'
    BY <1>1, WarningStaysFresh
  <1> QED
    BY <1>1, <1>2 DEF ActivityInv, TagFresh, SameTag

(* The step of a handler that keeps the window's state and nothing else. *)
LEMMA QuietStep ==
    ASSUME ActivityInv, Kept, SameTag, UNCHANGED <<sync, tag, refreshes>>, agenda' \in AgendaSet
    PROVE  ActivityInv'
  <1>1. SyncFresh'
    BY SyncStaysFresh
  <1>2. TagFresh'
    BY SameTagFresh
  <1>3. RefreshesFresh'
    BY SameRefreshesFresh
  <1> QED
    BY <1>1, <1>2, <1>3 DEF ActivityInv, Kept

LEMMA UserStepAgenda ==
    ASSUME agenda \in AgendaSet, agenda.left > 0, agenda' = [agenda EXCEPT !.left = @ - 1]
    PROVE  agenda' \in AgendaSet
  BY DEF AgendaSet

LEMMA UserStepTyped ==
    ASSUME agenda \in AgendaSet, NEW op, UserStep(op)
    PROVE  agenda' \in AgendaSet
  BY UserStepAgenda DEF UserStep

(* The flags of tag operations in the handlers that leave them alone. *)
LEMMA ActivityFlags ==
    ASSUME NEW u \in Ui, NEW g, NEW q
    PROVE  /\ BeginActivity(u, g, q).tag_warning = u.tag_warning
           /\ BeginActivity(u, g, q).tag_in_progress = u.tag_in_progress
           /\ CancelActivity(u, g).tag_warning = u.tag_warning
           /\ CancelActivity(u, g).tag_in_progress = u.tag_in_progress
           /\ BeginActivity(CancelActivity(u, g), g + 1, q).tag_warning = u.tag_warning
           /\ BeginActivity(CancelActivity(u, g), g + 1, q).tag_in_progress = u.tag_in_progress
  BY DEF BeginActivity, CancelActivity, Ui

LEMMA UserInv ==
    ASSUME ActivityInv, UserAction
    PROVE  ActivityInv'
  <1>a. PaneInv /\ agenda \in AgendaSet /\ ui \in Ui /\ agenda.asks \subseteq Queries
    BY DEF ActivityInv, PaneInv, PaneTypes, AgendaSet
  <1>q. ui.current_query \in Queries /\ SyncRefreshQuery \in Queries
    BY <1>a, RefreshQueryTyped DEF PaneInv
  <1>1. ASSUME NEW q \in agenda.asks, TypeQuery(q) PROVE ActivityInv'
    <2>1. Kept
      BY <1>1, <1>a, TypeQueryKept
    <2>2. SameTag
      BY <1>1, <1>a DEF TypeQuery, SameTag, BeginActivity, Ui
    <2>3. agenda' \in AgendaSet /\ UNCHANGED <<sync, tag, refreshes>>
      BY <1>1, <1>a, UserStepTyped DEF TypeQuery
    <2> QED
      BY <2>1, <2>2, <2>3, QuietStep
  <1>2. ASSUME NEW q \in agenda.asks, SearchNow(q) PROVE ActivityInv'
    <2>1. /\ UserStep("search") /\ ScheduleSearch(bar, ui, q)
          /\ UNCHANGED <<db, rows, sync, tag, refreshes, window>>
      BY <1>2 DEF SearchNow
    <2>2. Kept /\ SameTag
      BY <1>a, <2>1, ScheduleKept DEF SameTag
    <2>3. agenda' \in AgendaSet
      BY <1>a, <2>1, UserStepTyped
    <2> QED
      BY <2>1, <2>2, <2>3, QuietStep
  <1>3. CASE ClearKeepsSyncRefresh \/ ClearEntry
    <2>1. Kept
      BY <1>3, <1>a, ClearKept
    <2>2. SameTag
      <3>1. CASE ClearKeepsSyncRefresh
        BY <3>1 DEF ClearKeepsSyncRefresh, SameTag
      <3>2. CASE ClearEntry
        <4> DEFINE g == bar.generation + 1
        <4>1. ui' = BeginActivity(CancelActivity(ui, g), g + 1, ui.current_query)
              \/ ui' = CancelActivity(ui, g)
          BY <3>2 DEF ClearEntry
        <4> HIDE DEF g
        <4> QED
          BY <1>a, <4>1, ActivityFlags DEF SameTag
      <3> QED
        BY <1>3, <3>1, <3>2
    <2>3. agenda' \in AgendaSet /\ UNCHANGED <<sync, tag, refreshes>>
      BY <1>3, <1>a, UserStepTyped DEF ClearKeepsSyncRefresh, ClearEntry
    <2> QED
      BY <2>1, <2>2, <2>3, QuietStep
  <1>4. CASE LoadMoreThreads \/ LoadThreadPage
    <2>1. \E k \in Kinds : LoadPage(k) /\ (k = "append" => ui.items.pages \in 1 .. MaxPages - 1)
      BY <1>4 DEF LoadMoreThreads, LoadThreadPage, Kinds
    <2>2. PICK k \in Kinds : LoadPage(k) /\ (k = "append" => ui.items.pages \in 1 .. MaxPages - 1)
      BY <2>1
    <2>3. Kept
      BY <1>a, <2>2, LoadPageKept
    <2>4. SameTag
      BY <1>a, <2>2 DEF LoadPage, SameTag, BeginActivity, Ui
    <2>5. agenda' \in AgendaSet /\ UNCHANGED <<sync, tag, refreshes>>
      BY <1>4, <1>a, <2>2, UserStepTyped DEF LoadMoreThreads, LoadThreadPage, LoadPage
    <2> QED
      BY <2>3, <2>4, <2>5, QuietStep
  <1>5. CASE ApplyAppearance
    <2>1. Kept
      BY <1>5, <1>a, ApplyAppearanceKept
    <2>2. SameTag /\ UNCHANGED <<sync, tag, refreshes>> /\ UserStep("settings")
      BY <1>5 DEF ApplyAppearance, SameTag
    <2>3. agenda' \in AgendaSet
      BY <1>a, <2>2, UserStepTyped
    <2> QED
      BY <2>1, <2>2, <2>3, QuietStep
  <1>6. CASE ApplyPaging
    <2>1. /\ UserStep("settings") /\ ScheduleSearch(bar, ui, ui.current_query)
          /\ UNCHANGED <<db, rows, sync, tag, refreshes, window>>
      BY <1>6 DEF ApplyPaging
    <2>2. Kept /\ SameTag
      BY <1>a, <1>q, <2>1, ScheduleKept DEF SameTag
    <2>3. agenda' \in AgendaSet
      BY <1>a, <2>1, UserStepTyped
    <2> QED
      BY <2>1, <2>2, <2>3, QuietStep
  <1>7. CASE StartSync
    <2>1. Kept /\ SameTag
      BY <1>7, <1>a, StartSyncKept DEF SameTag
    <2>2. /\ sync' = [NoSync EXCEPT !.phase = "commands"] /\ UNCHANGED <<tag, refreshes>>
          /\ UserStep("sync")
      BY <1>7 DEF StartSync
    <2>3. SyncFresh'
      <3>1. sync' = [phase |-> "commands", generation |-> 0, since |-> 0, ok |-> TRUE]
        BY <2>2 DEF NoSync
      <3>2. db' \in Nat
        BY <2>1 DEF Kept, PaneInv, PaneTypes
      <3>3. sync'.phase # "refresh" /\ sync'.since <= db'
        BY <3>1, <3>2
      <3> QED
        BY <3>1, <3>3 DEF SyncFresh
    <2>4. agenda' \in AgendaSet
      BY <1>a, <2>2, UserStepTyped
    <2> QED
      BY <2>1, <2>2, <2>3, <2>4, SameTagFresh, SameRefreshesFresh DEF ActivityInv, Kept
  <1>8. CASE StartTag
    <2>1. Kept /\ ui'.tag_in_progress /\ ~ui'.tag_warning
      BY <1>8, <1>a, StartTagKept
    <2>2. /\ tag' = [NoTag EXCEPT !.phase = "running", !.interrupted = ui.search_loading,
                                 !.reserved = bar.generation + 1]
          /\ UNCHANGED <<sync, refreshes>> /\ UserStep("tag")
      BY <1>8 DEF StartTag
    <2>3. TagFresh'
      <3>1. ui.search_loading \in BOOLEAN /\ bar.generation + 1 \in Nat /\ db' \in Nat
        BY <1>a, <2>1 DEF Ui, PaneInv, PaneTypes, Bar, Kept
      <3>2. tag' = [phase |-> "running", interrupted |-> ui.search_loading,
                    reserved |-> bar.generation + 1, since |-> 0, result |-> "none"]
        BY <2>2 DEF NoTag
      <3>3. tag'.since <= db'
        BY <3>1, <3>2
      <3> QED
        BY <2>1, <3>1, <3>2, <3>3 DEF TagFresh
    <2>4. agenda' \in AgendaSet
      BY <1>a, <2>2, UserStepTyped
    <2> QED
      BY <2>1, <2>2, <2>3, <2>4, SyncStaysFresh, SameRefreshesFresh DEF ActivityInv, Kept
  <1>9. CASE TagStartFails
    <2>1. Kept /\ ~ui.tag_in_progress
      BY <1>9, <1>a, TagStartFailsKept
    <2>2. UNCHANGED <<sync, tag, refreshes>> /\ UserStep("tag")
      BY <1>9 DEF TagStartFails
    <2>3. TagFresh'
      <3>1. tag.since \in Nat /\ tag.since <= db' /\ tag.phase = "idle"
        BY <2>1 DEF ActivityInv, TagFresh, Kept, PaneInv, PaneTypes
      <3>2. ui'.tag_warning => FreshFrom(ui.search_generation, tag.since)'
        BY <2>1, <2>2, <3>1, WarningStaysFresh
      <3> QED
        BY <2>2, <3>1, <3>2 DEF ActivityInv, TagFresh
    <2>4. agenda' \in AgendaSet
      BY <1>a, <2>2, UserStepTyped
    <2> QED
      BY <2>1, <2>2, <2>3, <2>4, SyncStaysFresh, SameRefreshesFresh DEF ActivityInv, Kept
  <1>10. CASE CloseRequest
    <2>1. Kept /\ SameTag
      BY <1>10, <1>a, CloseRequestKept DEF SameTag
    <2>2. UNCHANGED <<sync, tag, refreshes>> /\ UserStep("close")
      BY <1>10 DEF CloseRequest
    <2>3. agenda' \in AgendaSet
      BY <1>a, <2>2, UserStepTyped
    <2> QED
      BY <2>1, <2>2, <2>3, QuietStep
  <1>11. CASE Present
    <2>1. /\ bar' = bar /\ ui' = ui /\ worker' = worker /\ updates' = updates /\ db' = db
          /\ rows' = rows /\ window = "hidden" /\ window' = "visible"
          /\ UNCHANGED <<sync, tag, refreshes>>
      BY <1>11 DEF Present, paneVars
    <2>2. rows' \in ItemSet \cup {Partial}
      BY <1>a, <2>1 DEF PaneInv, TargetsItems
    <2>3. Kept /\ SameTag
      BY <1>a, <2>1, <2>2, UntouchedRests DEF SameTag
    <2>4. agenda' \in AgendaSet
      BY <1>11, <1>a, UserStepAgenda DEF Present
    <2> QED
      BY <2>1, <2>3, <2>4, QuietStep
  <1> QED
    BY <1>1, <1>2, <1>3, <1>4, <1>5, <1>6, <1>7, <1>8, <1>9, <1>10, <1>11 DEF UserAction

LEMMA WorkerKept ==
    ASSUME PaneInv, WorkerStep, window # "closed", UNCHANGED <<bar, ui, updates, rows, window>>
    PROVE  Kept
  <1>d. db \in Nat /\ worker.since \in Nat
    BY DEF PaneInv, PaneTypes, Worker
  <1>1. CASE WorkerTakes
    <2>1. ThreadOnly
      BY <1>1 DEF WorkerTakes, ThreadOnly
    <2> QED
      BY <1>1, <1>d, <2>1, WorkerTakesKeeps DEF Kept, ThreadOnly
  <1>2. ASSUME NEW status \in {"ok", "error"}, NEW v \in Nat, WorkerEnds(status, v),
               status = "ok" => v \in worker.since .. db
        PROVE  Kept
    <2>1. ThreadOnly
      BY <1>2 DEF WorkerEnds, ThreadOnly
    <2>2. /\ PaneInv'
          /\ \A m \in Nat \ {0}, s \in Nat : FreshFrom(m, s) => FreshFrom(m, s)'
      BY <1>2, <2>1, WorkerEndsKeeps
    <2> QED
      BY <1>d, <2>1, <2>2 DEF Kept, ThreadOnly
  <1>3. CASE WorkerSucceeds
    <2>1. PICK v \in worker.since .. db : WorkerEnds("ok", v)
      BY <1>3 DEF WorkerSucceeds
    <2>2. v \in Nat
      BY <1>d
    <2> QED
      BY <1>2, <2>1, <2>2
  <1>4. CASE WorkerFails
    BY <1>2, <1>4 DEF WorkerFails
  <1> QED
    BY <1>1, <1>3, <1>4 DEF WorkerStep

(* Something of the outside happens; the pane is as it was. *)
LEMMA OutsideKept ==
    ASSUME PaneInv, UNCHANGED <<paneVars, rows, window>>, db' \in {db, db + 1}
    PROVE  Kept /\ ui' = ui
  <1>1. bar' = bar /\ ui' = ui /\ worker' = worker /\ updates' = updates /\ rows' = rows
        /\ window' = window
    BY DEF paneVars
  <1>2. rows' \in ItemSet \cup {Partial} /\ window' \in {"visible", "hidden", "closed"}
    BY <1>1 DEF PaneInv, TargetsItems, PaneTypes
  <1> QED
    BY <1>1, <1>2, UntouchedRests

LEMMA ThreadInv ==
    ASSUME ActivityInv, ThreadStep
    PROVE  ActivityInv'
  <1>a. PaneInv /\ agenda \in AgendaSet /\ db \in Nat /\ window # "closed"
    BY DEF ActivityInv, PaneInv, PaneTypes, ThreadStep
  <1>1. ASSUME WorkerStep,
               UNCHANGED <<bar, ui, updates, rows, sync, tag, refreshes, window, agenda>>
        PROVE  ActivityInv'
    <2>1. Kept
      BY <1>1, <1>a, WorkerKept
    <2>2. SameTag /\ UNCHANGED <<sync, tag, refreshes>> /\ agenda' \in AgendaSet
      BY <1>1, <1>a DEF SameTag
    <2> QED
      BY <2>1, <2>2, QuietStep
  <1>2. ASSUME NEW ok \in BOOLEAN, SyncCommandsEnd(ok) PROVE ActivityInv'
    <2>1. /\ db' = db + 1 /\ UNCHANGED <<paneVars, rows, tag, refreshes, window, agenda>>
          /\ sync' = [sync EXCEPT !.phase = "ended", !.since = db + 1, !.ok = ok]
      BY <1>2 DEF SyncCommandsEnd
    <2>2. Kept /\ ui' = ui
      BY <1>a, <2>1, OutsideKept
    <2>3. SameTag
      BY <2>2 DEF SameTag
    <2>4. SyncFresh'
      <3>1. sync \in [phase : {"idle", "commands", "ended", "refresh"}, generation : Nat,
                      since : Nat, ok : BOOLEAN]
        BY DEF ActivityInv, SyncFresh
      <3>2. sync' = [phase |-> "ended", generation |-> sync.generation, since |-> db + 1,
                     ok |-> ok]
        BY <2>1, <3>1
      <3>3. sync.generation \in Nat /\ db + 1 \in Nat /\ db + 1 <= db'
        BY <1>a, <2>1, <3>1
      <3> QED
        BY <3>2, <3>3 DEF SyncFresh
    <2>5. TagFresh' /\ RefreshesFresh'
      BY <2>1, <2>2, <2>3, SameTagFresh, SameRefreshesFresh
    <2> QED
      BY <1>a, <2>1, <2>2, <2>4, <2>5 DEF ActivityInv, Kept
  <1>3. ASSUME NEW result \in TagResults, TagWorkerRuns(result) PROVE ActivityInv'
    <2>1. /\ db' = db + 1 /\ UNCHANGED <<paneVars, rows, sync, refreshes, window, agenda>>
          /\ tag.phase = "running"
          /\ tag' = [tag EXCEPT !.phase = "done", !.since = db + 1, !.result = result]
      BY <1>3 DEF TagWorkerRuns
    <2>2. Kept /\ ui' = ui
      BY <1>a, <2>1, OutsideKept
    <2>3. TagFresh'
      <3>1. tag \in [phase : {"idle", "running", "done"}, interrupted : BOOLEAN, reserved : Nat,
                     since : Nat, result : TagResults \cup {"none"}]
            /\ ui.tag_in_progress /\ ~ui.tag_warning
        BY <2>1 DEF ActivityInv, TagFresh
      <3>2. tag' = [phase |-> "done", interrupted |-> tag.interrupted,
                    reserved |-> tag.reserved, since |-> db + 1, result |-> result]
        BY <2>1, <3>1
      <3>3. tag.interrupted \in BOOLEAN /\ tag.reserved \in Nat /\ db + 1 \in Nat
            /\ db + 1 <= db'
        BY <1>a, <2>1, <3>1
      <3> QED
        BY <2>2, <3>1, <3>2, <3>3 DEF TagFresh
    <2>4. SyncFresh' /\ RefreshesFresh'
      BY <2>1, <2>2, SyncStaysFresh, SameRefreshesFresh
    <2> QED
      BY <1>a, <2>1, <2>2, <2>3, <2>4 DEF ActivityInv, Kept
  <1> QED
    BY <1>1, <1>2, <1>3 DEF ThreadStep

(* A request and the answer of it. *)
LEMMA RefreshesChange ==
    ASSUME ActivityInv, Kept, NEW r \in Requests,
           NEW e \in [status : {"new", "waiting", "ok", "failed"}, since : Nat, minimum : Nat],
           refreshes' = [refreshes EXCEPT ![r] = e], e.since <= db',
           e.status = "waiting" => e.minimum > 0 /\ FreshFrom(e.minimum, e.since)'
    PROVE  RefreshesFresh'
  <1> DEFINE E == [status : {"new", "waiting", "ok", "failed"}, since : Nat, minimum : Nat]
  <1>1. refreshes \in [Requests -> E] /\ \A p \in Requests : refreshes[p].since <= db
    BY DEF ActivityInv, RefreshesFresh
  <1>2. refreshes' \in [Requests -> E] /\ refreshes'[r] = e
    BY <1>1
  <1>3. \A p \in Requests : p # r => refreshes'[p] = refreshes[p]
    BY <1>1
  <1>4. db \in Nat /\ db' \in Nat /\ db' >= db
    BY DEF ActivityInv, PaneInv, PaneTypes, Kept
  <1>5. \A p \in Requests : refreshes'[p].since <= db'
    <2> TAKE p \in Requests
    <2>1. refreshes[p].since \in Nat
      BY <1>1
    <2> QED
      BY <1>1, <1>2, <1>3, <1>4, <2>1
  <1>6. ASSUME NEW p \in Requests, refreshes'[p].status = "waiting"
        PROVE  FreshFrom(refreshes[p].minimum, refreshes[p].since)' /\ refreshes'[p].minimum > 0
    <2>1. CASE p = r
      BY <1>2, <1>6, <2>1
    <2>2. CASE p # r
      BY <1>3, <1>6, <2>2, RefreshesStayFresh
    <2> QED
      BY <2>1, <2>2
  <1> QED
    BY <1>2, <1>5, <1>6 DEF RefreshesFresh

LEMMA RefreshInv ==
    ASSUME ActivityInv, NEW r \in Requests,
           RequestRefresh(r) \/ RefreshRefused(r) \/ RefreshWaitsForWriters(r) \/ RefreshAnswered(r)
    PROVE  ActivityInv'
  <1> DEFINE E == [status : {"new", "waiting", "ok", "failed"}, since : Nat, minimum : Nat]
  <1>a. PaneInv /\ agenda \in AgendaSet /\ db \in Nat
    BY DEF ActivityInv, PaneInv, PaneTypes
  <1>b. refreshes \in [Requests -> E] /\ refreshes[r] \in E /\ refreshes[r].since <= db
        /\ (refreshes[r].status = "waiting" =>
               refreshes[r].minimum > 0 /\ FreshFrom(refreshes[r].minimum, refreshes[r].since))
    BY DEF ActivityInv, RefreshesFresh
  <1>c. /\ UNCHANGED <<paneVars, rows, sync, tag, window, agenda>> /\ db' \in {db, db + 1}
    BY DEF RequestRefresh, RefreshRefused, RefreshWaitsForWriters, RefreshAnswered, AnswerRefresh
  <1>d. Kept /\ ui' = ui /\ SameTag
    BY <1>a, <1>c, OutsideKept DEF SameTag
  <1>e. db' \in Nat /\ db <= db'
    BY <1>a, <1>c
  <1>f. \A m, s : FreshFrom(m, s) => FreshFrom(m, s)'
    BY <1>c DEF FreshFrom, paneVars
  <1>g. \A s \in Nat : FreshFrom(ui.search_generation + 1, s)
                       /\ ui.search_generation + 1 \in Nat \ {0}
    BY <1>a, NextIsFresh
  <1> DEFINE Changes ==
                 \E e \in E : /\ refreshes' = [refreshes EXCEPT ![r] = e] /\ e.since <= db'
                              /\ (e.status = "waiting" =>
                                    e.minimum > 0 /\ FreshFrom(e.minimum, e.since))
  <1>1. Changes
    <2>1. ASSUME NEW st \in {"ok", "failed"}, refreshes' = [refreshes EXCEPT ![r].status = st]
          PROVE  Changes
      <3>1. PICK e : e = [refreshes[r] EXCEPT !.status = st]
        OBVIOUS
      <3>2. e \in E /\ e.status = st /\ e.since = refreshes[r].since /\ refreshes[r].since \in Nat
        BY <1>b, <3>1
      <3>3. refreshes' = [refreshes EXCEPT ![r] = e]
        BY <1>b, <2>1, <3>1
      <3>4. e.since <= db'
        BY <1>a, <1>b, <1>e, <3>2
      <3> QED
        BY <3>2, <3>3, <3>4
    <2>2. ASSUME NEW s \in Nat, s <= db',
                 refreshes' = [refreshes EXCEPT ![r] = [status |-> "waiting", since |-> s,
                                                   minimum |-> ui.search_generation + 1]]
          PROVE  Changes
      <3>1. PICK e : e = [status |-> "waiting", since |-> s, minimum |-> ui.search_generation + 1]
        OBVIOUS
      <3>2. FreshFrom(ui.search_generation + 1, s) /\ ui.search_generation + 1 \in Nat \ {0}
        BY <1>g
      <3>3. e.since = s /\ e.minimum = ui.search_generation + 1 /\ e \in E
        BY <3>1, <3>2
      <3>4. FreshFrom(e.minimum, e.since) /\ e.minimum > 0
        BY <3>2, <3>3
      <3> QED
        BY <2>2, <3>1, <3>3, <3>4
    <2>3. CASE RequestRefresh(r) /\ Cardinality(Pending) >= MaxPending
      <3>1. refreshes' = [refreshes EXCEPT ![r].status = "failed"]
        BY <1>b, <2>3 DEF RequestRefresh
      <3> QED
        BY <2>1, <3>1
    <2>4. CASE RequestRefresh(r) /\ ~(Cardinality(Pending) >= MaxPending)
      <3>1. db + 1 \in Nat /\ db + 1 <= db'
        BY <1>a, <1>b, <2>4 DEF RequestRefresh
      <3>2. refreshes' = [refreshes EXCEPT ![r] = [status |-> "waiting", since |-> db + 1,
                                                   minimum |-> ui.search_generation + 1]]
        BY <1>b, <2>4 DEF RequestRefresh
      <3> QED
        BY <2>2, <3>1, <3>2
    <2>5. CASE RefreshRefused(r) \/ RefreshAnswered(r)
      <3>1. \E st \in {"ok", "failed"} : refreshes' = [refreshes EXCEPT ![r].status = st]
        BY <2>5 DEF RefreshRefused, RefreshAnswered, AnswerRefresh
      <3> QED
        BY <2>1, <3>1
    <2>6. CASE RefreshWaitsForWriters(r)
      <3>1. /\ refreshes' = [refreshes EXCEPT ![r].minimum = ui.search_generation + 1]
            /\ refreshes[r].status = "waiting"
        BY <2>6 DEF RefreshWaitsForWriters
      <3>2. [refreshes[r] EXCEPT !.minimum = ui.search_generation + 1]
              = [status |-> "waiting", since |-> refreshes[r].since,
                 minimum |-> ui.search_generation + 1]
        BY <1>b, <3>1
      <3>3. refreshes' = [refreshes EXCEPT ![r] = [status |-> "waiting",
                 since |-> refreshes[r].since, minimum |-> ui.search_generation + 1]]
        BY <1>b, <3>1, <3>2
      <3>4. refreshes[r].since \in Nat /\ refreshes[r].since <= db'
        BY <1>a, <1>b, <1>e
      <3> QED
        BY <2>2, <3>3, <3>4
    <2> QED
      BY <2>3, <2>4, <2>5, <2>6
  <1>2. PICK e \in E : /\ refreshes' = [refreshes EXCEPT ![r] = e] /\ e.since <= db'
                       /\ e.status = "waiting" => e.minimum > 0 /\ FreshFrom(e.minimum, e.since)
    BY <1>1
  <1>3. RefreshesFresh'
    BY <1>2, <1>d, <1>f, RefreshesChange
  <1>4. SyncFresh' /\ TagFresh' /\ agenda' \in AgendaSet
    BY <1>a, <1>c, <1>d, SyncStaysFresh, SameTagFresh
  <1> QED
    BY <1>3, <1>4, <1>d DEF ActivityInv, Kept

LEMMA LoopInv ==
    ASSUME ActivityInv, LoopStep
    PROVE  ActivityInv'
  <1>a. PaneInv /\ agenda \in AgendaSet /\ db \in Nat /\ window # "closed"
    BY DEF ActivityInv, PaneInv, PaneTypes, LoopStep
  <1>q. PaneTypes /\ SyncRefreshQuery \in Queries /\ ui.current_query \in Queries
    BY <1>a, RefreshQueryTyped DEF PaneInv
  <1>n. bar.generation \in Nat /\ ui \in Ui
    BY <1>q DEF PaneTypes, Bar
  <1>s. sync \in [phase : {"idle", "commands", "ended", "refresh"}, generation : Nat,
                  since : Nat, ok : BOOLEAN] /\ sync.since <= db
    BY DEF ActivityInv, SyncFresh
  <1>1. CASE DebounceFires \/ IgnoreReplies
    <2>1. Kept /\ ui' = ui
      BY <1>1, <1>a, DebounceKept, IgnoreRepliesKept
    <2>2. SameTag /\ UNCHANGED <<sync, tag, refreshes>> /\ agenda' \in AgendaSet
      BY <1>1, <1>a, <2>1 DEF DebounceFires, IgnoreReplies, SameTag
    <2> QED
      BY <2>1, <2>2, QuietStep
  <1>2. ASSUME NEW r \in worker.replies, AcceptPage(r) \/ AcceptError(r) PROVE ActivityInv'
    <2>1. /\ PaneInv' /\ db' = db
          /\ \A m \in Nat \ {0}, s \in Nat : FreshFrom(m, s) => FreshFrom(m, s)'
      <3>1. db' = db
        BY <1>2 DEF AcceptPage, AcceptError
      <3>2. CASE AcceptPage(r)
        BY <1>a, <3>1, <3>2, AcceptPageKeeps
      <3>3. CASE AcceptError(r)
        BY <1>a, <3>1, <3>3, AcceptErrorKeeps
      <3> QED
        BY <1>2, <3>2, <3>3
    <2>2. /\ ui'.search_generation = ui.search_generation
          /\ ui'.tag_warning = ui.tag_warning /\ ui'.tag_in_progress = ui.tag_in_progress
      <3>1. CASE AcceptPage(r)
        BY <3>1, <1>n DEF AcceptPage, Ui
      <3>2. CASE AcceptError(r)
        <4> DEFINE u == [FinishActivity(ui) EXCEPT !.search_error = TRUE]
        <4>1. ui' = RecordOutcome(u, r.generation) \/ ui' = u
          BY <3>2 DEF AcceptError
        <4>2. u = [ui EXCEPT !.search_loading = FALSE, !.pending_query = NoQuery,
                             !.search_error = TRUE]
          BY <1>n DEF FinishActivity, Ui
        <4> HIDE DEF u
        <4> QED
          BY <1>n, <4>1, <4>2 DEF RecordOutcome, Ui
      <3> QED
        BY <1>2, <3>1, <3>2
    <2>3. Kept /\ SameTag
      BY <1>a, <2>1, <2>2 DEF Kept, SameTag
    <2>4. UNCHANGED <<sync, tag, refreshes>> /\ agenda' \in AgendaSet
      BY <1>2, <1>a DEF AcceptPage, AcceptError
    <2> QED
      BY <2>3, <2>4, QuietStep
  <1>3. ASSUME NEW x \in updates, UpdateBegins(x) PROVE ActivityInv'
    <2>1. /\ bar' = bar /\ ui' = ui /\ worker' = worker /\ updates' = updates /\ db' = db
          /\ rows' = Partial /\ window' = window /\ UNCHANGED <<sync, tag, refreshes, agenda>>
      BY <1>3 DEF UpdateBegins, paneVars
    <2>2. window' \in {"visible", "hidden", "closed"}
      BY <1>q, <2>1 DEF PaneTypes
    <2>3. Kept /\ SameTag
      BY <1>a, <2>1, <2>2, UntouchedRests DEF SameTag
    <2> QED
      BY <1>a, <2>1, <2>3, QuietStep
  <1>4. ASSUME NEW x \in updates, UpdateApplied(x) \/ UpdateCancelled(x) PROVE ActivityInv'
    <2>1. x.target \in ItemSet
      BY <1>q DEF PaneTypes, Update
    <2>2. \E applied \in BOOLEAN : Complete(x, applied)
      BY <1>4 DEF UpdateApplied, UpdateCancelled
    <2>3. /\ bar' = bar /\ db' = db /\ rows' \in ItemSet \cup {Partial}
          /\ UNCHANGED <<sync, tag, refreshes, agenda>>
      BY <1>4, <1>a, <2>1 DEF UpdateApplied, UpdateCancelled, PaneInv, TargetsItems
    <2>4. Kept /\ SameTag
      BY <1>a, <2>2, <2>3, CompleteKept DEF SameTag
    <2> QED
      BY <1>a, <2>3, <2>4, QuietStep
  <1>5. CASE SyncFailed \/ SyncRefreshed
    <2>1. PICK ok \in BOOLEAN : FinishSync(ok)
      BY <1>5, <1>n DEF SyncFailed, SyncRefreshed, Ui
    <2>2. Kept /\ SameTag
      BY <1>a, <2>1, FinishSyncKept DEF SameTag
    <2>3. sync' = [phase |-> "idle", generation |-> 0, since |-> sync.since, ok |-> ok]
      BY <2>1 DEF FinishSync, NoSync
    <2>4. UNCHANGED <<db, tag, refreshes, agenda>>
      BY <2>1 DEF FinishSync
    <2>5. SyncFresh'
      BY <1>s, <2>3, <2>4 DEF SyncFresh
    <2>6. TagFresh' /\ RefreshesFresh'
      BY <2>2, <2>4, SameTagFresh, SameRefreshesFresh
    <2> QED
      BY <1>a, <2>2, <2>4, <2>5, <2>6 DEF ActivityInv, Kept
  <1>6. CASE SyncRefresh
    <2>1. /\ ScheduleSearch(bar, ui, SyncRefreshQuery)
          /\ sync' = [sync EXCEPT !.phase = "refresh", !.generation = bar.generation + 1]
          /\ UNCHANGED <<db, rows, tag, refreshes, window, agenda>>
      BY <1>6 DEF SyncRefresh
    <2>2. Kept /\ SameTag /\ Reserves(bar.generation + 1)
      BY <1>a, <1>q, <2>1, ScheduleKept DEF SameTag
    <2>3. PICK g : g = bar.generation + 1
      OBVIOUS
    <2>4. g \in Nat /\ g > bar.generation /\ Reserves(g) /\ g > 0
      BY <1>n, <2>2, <2>3
    <2>5. \A s \in Nat : FreshFrom(g, s)'
      BY <1>a, <2>4, ReserveStartsFresh
    <2>6. sync' = [phase |-> "refresh", generation |-> g, since |-> sync.since, ok |-> sync.ok]
      BY <1>s, <2>1, <2>3
    <2>7. SyncFresh'
      <3>1. sync'.generation = g /\ sync'.since = sync.since /\ sync.since \in Nat
            /\ sync.ok \in BOOLEAN
        BY <1>s, <2>6
      <3>2. FreshFrom(sync.generation, sync.since)'
        BY <2>5, <3>1 DEF FreshFrom
      <3> QED
        BY <1>s, <2>1, <2>4, <2>6, <3>1, <3>2 DEF SyncFresh
    <2>8. TagFresh' /\ RefreshesFresh'
      BY <2>1, <2>2, SameTagFresh, SameRefreshesFresh
    <2> QED
      BY <1>a, <2>1, <2>2, <2>7, <2>8 DEF ActivityInv, Kept
  <1>7. CASE FinishTagWorker
    <2>1. Kept
      BY <1>7, <1>a, FinishTagWorkerKept
    <2>2. tag' = [phase |-> "idle", interrupted |-> FALSE, reserved |-> 0, since |-> tag.since,
                  result |-> "none"]
      BY <1>7 DEF FinishTagWorker, NoTag
    <2>3. db' = db /\ UNCHANGED <<sync, refreshes, agenda>>
      BY <1>7 DEF FinishTagWorker
    <2>4. tag.since \in Nat /\ tag.since <= db /\ tag'.since = tag.since
      BY <2>2 DEF ActivityInv, TagFresh
    <2>5. ui'.tag_warning => FreshFrom(ui.search_generation, tag.since)'
      BY <2>1, <2>4, WarningStaysFresh
    <2>6. TagFresh'
      BY <2>2, <2>3, <2>4, <2>5 DEF TagFresh
    <2>7. SyncFresh' /\ RefreshesFresh'
      BY <2>1, <2>3, SyncStaysFresh, SameRefreshesFresh
    <2> QED
      BY <1>a, <2>1, <2>3, <2>6, <2>7 DEF ActivityInv, Kept
  <1>8. ASSUME NEW r \in Requests, RefreshSearches(r) PROVE ActivityInv'
    <2>1. /\ ScheduleSearch(bar, ui, ui.current_query)
          /\ UNCHANGED <<db, rows, sync, tag, refreshes, window, agenda>>
      BY <1>8 DEF RefreshSearches
    <2>2. Kept /\ SameTag
      BY <1>a, <1>q, <2>1, ScheduleKept DEF SameTag
    <2> QED
      BY <1>a, <2>1, <2>2, QuietStep
  <1> QED
    BY <1>1, <1>2, <1>3, <1>4, <1>5, <1>6, <1>7, <1>8, RefreshInv DEF LoopStep

LEMMA ActivityStep ==
    ASSUME ActivityInv, [ActivityNext]_activityVars
    PROVE  ActivityInv'
  <1>1. CASE UNCHANGED activityVars
    <2>1. /\ UNCHANGED <<paneVars, rows, window>> /\ db' = db
          /\ UNCHANGED <<sync, tag, refreshes>> /\ agenda' \in AgendaSet
      BY <1>1 DEF activityVars, paneVars, ActivityInv
    <2>2. Kept /\ ui' = ui
      BY <2>1, OutsideKept DEF ActivityInv
    <2> QED
      BY <2>1, <2>2, QuietStep DEF SameTag
  <1>2. CASE ActivityNext
    BY <1>2, UserInv, ThreadInv, LoopInv, RefreshInv DEF ActivityNext
  <1> QED
    BY <1>1, <1>2

(***************************************************************************)
(* The steps that put items, an outcome or a warning aside.                *)
(***************************************************************************)
SameList ==
    /\ ui'.items = ui.items /\ ui'.outcome_generation = ui.outcome_generation
    /\ ui.tag_warning => ui'.tag_warning

LEMMA ListFields ==
    ASSUME NEW u \in Ui, NEW g, NEW q
    PROVE  /\ BeginActivity(u, g, q).items = u.items
           /\ BeginActivity(u, g, q).outcome_generation = u.outcome_generation
           /\ BeginActivity(u, g, q).tag_warning = u.tag_warning
           /\ CancelActivity(u, g).items = u.items
           /\ CancelActivity(u, g).outcome_generation = u.outcome_generation
           /\ CancelActivity(u, g).tag_warning = u.tag_warning
           /\ BeginActivity(CancelActivity(u, g), g + 1, q).items = u.items
           /\ BeginActivity(CancelActivity(u, g), g + 1, q).outcome_generation
                = u.outcome_generation
           /\ BeginActivity(CancelActivity(u, g), g + 1, q).tag_warning = u.tag_warning
  BY DEF BeginActivity, CancelActivity, Ui

LEMMA ListSteps ==
    ASSUME ActivityInv, ActivityNext
    PROVE  \/ SameList
           \/ \E r \in worker.replies : AcceptPage(r) \/ AcceptError(r)
           \/ window # "closed" /\ \E x \in updates : UpdateApplied(x) \/ UpdateCancelled(x)
  <1>a. ui \in Ui /\ PaneInv /\ PaneTypes
    BY DEF ActivityInv, PaneInv, PaneTypes
  <1>b. bar \in Bar /\ bar.generation \in Nat
    BY <1>a DEF PaneTypes, Bar
  <1>0. ASSUME ui' = ui PROVE SameList
    BY <1>0 DEF SameList
  <1>1. ASSUME NEW q, ScheduleSearch(bar, ui, q) PROVE SameList
    <2>1. ui' = BeginActivity(ui, bar.generation + 1, q)
      BY <1>1 DEF ScheduleSearch
    <2> QED
      BY <1>a, <2>1, ListFields DEF SameList
  <1>2. CASE UserAction
    <2>1. ASSUME NEW q, TypeQuery(q) PROVE SameList
      <3>1. ui' = BeginActivity(ui, bar.generation + 1, q)
        BY <2>1 DEF TypeQuery
      <3> QED
        BY <1>a, <3>1, ListFields DEF SameList
    <2>2. ASSUME NEW q, SearchNow(q) PROVE SameList
      BY <1>1, <2>2 DEF SearchNow
    <2>3. CASE ClearEntry
      <3> DEFINE g == bar.generation + 1
      <3>1. ui' = BeginActivity(CancelActivity(ui, g), g + 1, ui.current_query)
            \/ ui' = CancelActivity(ui, g)
        BY <2>3 DEF ClearEntry
      <3> HIDE DEF g
      <3> QED
        BY <1>a, <3>1, ListFields DEF SameList
    <2>4. ASSUME NEW k, LoadPage(k) PROVE SameList
      <3>1. ui' = BeginActivity(ui, bar.generation + 1, ui.current_query)
        BY <2>4 DEF LoadPage
      <3> QED
        BY <1>a, <3>1, ListFields DEF SameList
    <2>5. CASE ApplyPaging
      BY <1>1, <2>5 DEF ApplyPaging
    <2>6. CASE StartSync
      BY <1>a, <2>6 DEF StartSync, SameList, Ui
    <2>7. CASE StartTag
      <3>1. ui' = [CancelActivity(ui, bar.generation + 1) EXCEPT !.tag_in_progress = TRUE]
            /\ ~ui.tag_warning
        BY <2>7 DEF StartTag, OperationAllowed
      <3> QED
        BY <1>a, <3>1 DEF SameList, CancelActivity, Ui
    <2>8. CASE TagStartFails
      <3> DEFINE b == [bar EXCEPT !.generation = @ + 1]
                 u == [CancelActivity(ui, b.generation) EXCEPT !.tag_warning = TRUE]
      <3>1. ~ui.tag_warning
        BY <2>8 DEF TagStartFails, OperationAllowed
      <3>2. \/ \E g, q : ui' = BeginActivity(u, g, q)
            \/ ui' = CancelActivity(ui, b.generation)
        BY <2>8 DEF TagStartFails, ScheduleSearch
      <3>3. u.items = ui.items /\ u.outcome_generation = ui.outcome_generation /\ u.tag_warning
            /\ DOMAIN u = DOMAIN ui
        BY <1>a DEF CancelActivity, Ui
      <3> HIDE DEF b
      <3>4. CASE ui' = CancelActivity(ui, b.generation)
        BY <1>a, <3>1, <3>4, ListFields DEF SameList
      <3>5. CASE \E g, q : ui' = BeginActivity(u, g, q)
        BY <1>a, <3>1, <3>5 DEF SameList, BeginActivity, CancelActivity, Ui
      <3> QED
        BY <3>2, <3>4, <3>5
    <2>9. CASE ClearKeepsSyncRefresh \/ ApplyAppearance \/ CloseRequest \/ Present
      BY <1>0, <2>9 DEF ClearKeepsSyncRefresh, ApplyAppearance, CloseRequest, Present, paneVars
    <2> QED
      BY <1>2, <2>1, <2>2, <2>3, <2>4, <2>5, <2>6, <2>7, <2>8, <2>9
         DEF UserAction, LoadMoreThreads, LoadThreadPage
  <1>3. CASE ThreadStep
    <2>1. ASSUME NEW ok, SyncCommandsEnd(ok) PROVE SameList
      BY <1>0, <2>1 DEF SyncCommandsEnd, paneVars
    <2>2. ASSUME NEW result, TagWorkerRuns(result) PROVE SameList
      BY <1>0, <2>2 DEF TagWorkerRuns, paneVars
    <2>3. ASSUME UNCHANGED <<bar, ui, updates, rows, sync, tag, refreshes, window, agenda>>
          PROVE  SameList
      BY <1>0, <2>3
    <2> QED
      BY <1>3, <2>1, <2>2, <2>3 DEF ThreadStep
  <1>4. CASE LoopStep
    <2>1. CASE DebounceFires \/ IgnoreReplies
      BY <1>0, <2>1 DEF DebounceFires, IgnoreReplies
    <2>2. ASSUME NEW x, UpdateBegins(x) PROVE SameList
      BY <1>0, <2>2 DEF UpdateBegins, paneVars
    <2>3. CASE SyncFailed \/ SyncRefreshed
      <3>1. PICK ok : FinishSync(ok)
        BY <2>3 DEF SyncFailed, SyncRefreshed
      <3>2. ui' = [ui EXCEPT !.sync_in_progress = FALSE]
        BY <3>1 DEF FinishSync, CloseWhenIdle
      <3> QED
        BY <1>a, <3>2 DEF SameList, Ui
    <2>4. CASE SyncRefresh
      BY <1>1, <2>4 DEF SyncRefresh
    <2>5. CASE FinishTagWorker
      <3>1. ui'.items = ui.items /\ ui'.outcome_generation = ui.outcome_generation
        BY <1>4, <1>a, <2>5, FinishTagWorkerKept DEF LoopStep
      <3>2. ~ui.tag_warning
        BY <2>5 DEF FinishTagWorker, ActivityInv, TagFresh
      <3> QED
        BY <3>1, <3>2 DEF SameList
    <2>6. ASSUME NEW r, RefreshWaitsForWriters(r) \/ RefreshAnswered(r) \/ RefreshSearches(r)
          PROVE  SameList
      BY <1>0, <1>1, <2>6
         DEF RefreshWaitsForWriters, RefreshAnswered, RefreshSearches, AnswerRefresh, paneVars
    <2> QED
      BY <1>4, <2>1, <2>2, <2>3, <2>4, <2>5, <2>6 DEF LoopStep
  <1>5. ASSUME NEW r, RequestRefresh(r) \/ RefreshRefused(r) PROVE SameList
    BY <1>0, <1>5 DEF RequestRefresh, RefreshRefused, AnswerRefresh, paneVars
  <1> QED
    BY <1>2, <1>3, <1>4, <1>5 DEF ActivityNext

(* Only the sync's own steps change it, and only requests and their answers  *)
(* change the requests.                                                      *)
LEMMA WaitingSteps ==
    ASSUME ActivityNext
    PROVE  /\ \/ sync' = sync
              \/ StartSync \/ (\E ok \in BOOLEAN : SyncCommandsEnd(ok))
              \/ SyncRefresh \/ SyncFailed \/ SyncRefreshed
           /\ \/ refreshes' = refreshes
              \/ \E r \in Requests : \/ RequestRefresh(r) \/ RefreshRefused(r)
                                     \/ RefreshWaitsForWriters(r) \/ RefreshAnswered(r)
  <1>1. CASE UserAction
    <2>1. \A q : TypeQuery(q) \/ SearchNow(q) => UNCHANGED <<sync, refreshes>>
      BY DEF TypeQuery, SearchNow
    <2>2. \A k : LoadPage(k) => UNCHANGED <<sync, refreshes>>
      BY DEF LoadPage
    <2>3. StartSync => refreshes' = refreshes
      BY DEF StartSync
    <2>4. ClearKeepsSyncRefresh \/ ClearEntry \/ ApplyAppearance \/ ApplyPaging \/ StartTag
          \/ TagStartFails \/ CloseRequest \/ Present => UNCHANGED <<sync, refreshes>>
      BY DEF ClearKeepsSyncRefresh, ClearEntry, ApplyAppearance, ApplyPaging, StartTag,
         TagStartFails, CloseRequest, Present
    <2> QED
      BY <1>1, <2>1, <2>2, <2>3, <2>4 DEF UserAction, LoadMoreThreads, LoadThreadPage
  <1>2. CASE ThreadStep
    <2>1. \A ok : SyncCommandsEnd(ok) => refreshes' = refreshes
      BY DEF SyncCommandsEnd
    <2>2. \A result : TagWorkerRuns(result) => UNCHANGED <<sync, refreshes>>
      BY DEF TagWorkerRuns
    <2> QED
      BY <1>2, <2>1, <2>2 DEF ThreadStep
  <1>3. CASE LoopStep
    <2>1. DebounceFires \/ IgnoreReplies \/ FinishTagWorker => UNCHANGED <<sync, refreshes>>
      BY DEF DebounceFires, IgnoreReplies, FinishTagWorker
    <2>2. \A r : AcceptPage(r) \/ AcceptError(r) => UNCHANGED <<sync, refreshes>>
      BY DEF AcceptPage, AcceptError
    <2>3. \A x : UpdateBegins(x) \/ UpdateApplied(x) \/ UpdateCancelled(x)
            => UNCHANGED <<sync, refreshes>>
      BY DEF UpdateBegins, UpdateApplied, UpdateCancelled
    <2>4. SyncFailed \/ SyncRefreshed \/ SyncRefresh => refreshes' = refreshes
      BY DEF SyncFailed, SyncRefreshed, SyncRefresh, FinishSync
    <2>5. \A r : RefreshWaitsForWriters(r) \/ RefreshAnswered(r) => sync' = sync
      BY DEF RefreshWaitsForWriters, RefreshAnswered, AnswerRefresh
    <2>6. \A r : RefreshSearches(r) => UNCHANGED <<sync, refreshes>>
      BY DEF RefreshSearches
    <2> QED
      BY <1>3, <2>1, <2>2, <2>3, <2>4, <2>5, <2>6 DEF LoopStep
  <1>4. \A r : RequestRefresh(r) \/ RefreshRefused(r) => sync' = sync
    BY DEF RequestRefresh, RefreshRefused, AnswerRefresh
  <1> QED
    BY <1>1, <1>2, <1>3, <1>4 DEF ActivityNext

--------------------------------------------------------------------------------
(***************************************************************************)
(* The theorems about the searches of the window.                          *)
(***************************************************************************)
THEOREM ActivityInvariant == ActivitySpec => []ActivityInv
  BY ActivityInitInv, ActivityStep, PTL DEF ActivitySpec

(***************************************************************************)
(* Type correctness: the window and the search bar agree on the current    *)
(* generation, loading is what has a pending query, and at most one update *)
(* of the list model is live.                                              *)
(***************************************************************************)
THEOREM ActivityTypeCorrect == ActivitySpec => []ActivityTypeOK
  <1>1. ActivityInv => ActivityTypeOK
    <2> SUFFICES ASSUME ActivityInv PROVE ActivityTypeOK
      OBVIOUS
    <2>a. PaneInv /\ PaneTypes
      BY DEF ActivityInv, PaneInv
    <2>n. worker.since \in Nat /\ db \in Nat /\ bar.generation \in Nat
          /\ ui.outcome_generation \in Nat
      BY <2>a, Numbers
    <2>1. WorkerTypeOK
      BY <2>a, <2>n DEF PaneTypes, Worker, WorkerTypeOK
    <2>2. /\ bar.requested \in Queries \cup {NoQuery} /\ ui.items \in ItemSet
          /\ window \in {"visible", "hidden", "closed"}
      BY <2>a DEF PaneTypes, Bar, Ui
    <2>3. ui.search_generation = bar.generation /\ ui.outcome_generation \in 0 .. bar.generation
      BY <2>a, <2>n DEF PaneInv, Generations
    <2>4. (ui.search_loading <=> ui.pending_query # NoQuery) /\ rows \in ItemSet \cup {Partial}
      BY <2>a DEF PaneInv, Announced, TargetsItems
    <2>5. Cardinality({x \in updates : x.live}) <= 1
      <3> DEFINE L == {x \in updates : x.live}
      <3>1. \A x, y \in L : x = y
        BY <2>a DEF PaneInv, TargetsItems
      <3> HIDE DEF L
      <3>2. CASE L = {}
        BY <3>2, FS_EmptySet DEF L
      <3>3. CASE L # {}
        <4>1. PICK x : x \in L
          BY <3>3
        <4>2. L = {x}
          BY <3>1, <4>1
        <4>3. Cardinality(L) = 1
          BY <4>2, FS_Singleton
        <4> QED
          BY <4>3 DEF L
      <3> QED
        BY <3>2, <3>3
    <2> QED
      BY <2>n, <2>1, <2>2, <2>3, <2>4, <2>5 DEF ActivityTypeOK
  <1> QED
    BY <1>1, ActivityInvariant, PTL

(***************************************************************************)
(* The search the window waits for is never the one the worker drops from  *)
(* its queue (latest_search_job), whoever cancels, supersedes or closes.   *)
(***************************************************************************)
THEOREM AwaitedSearchKept == ActivitySpec => []AwaitedSearchNotDropped
  <1>1. ActivityInv => AwaitedSearchNotDropped
    BY DEF ActivityInv, PaneInv
  <1> QED
    BY <1>1, ActivityInvariant, PTL

(***************************************************************************)
(* Of the jobs the worker has, only the one whose flag the service         *)
(* remembers is not cancelled (cancel_active), so that the next request    *)
(* reaches all of them.                                                    *)
(***************************************************************************)
THEOREM CancelReachesJobs == ActivitySpec => []CancelReachesEveryJob
  <1>1. ActivityInv => CancelReachesEveryJob
    <2> SUFFICES ASSUME ActivityInv, NEW j \in Unfinished(worker)
                 PROVE  j.cancelled \/ j.generation = worker.active
      BY DEF CancelReachesEveryJob
    <2>1. worker \in Worker /\ Reached(worker)
      BY DEF ActivityInv, PaneInv, PaneTypes
    <2>2. j # NoJob /\ j \in Job \cup {NoJob}
          /\ (j = worker.running \/ \E i \in DOMAIN worker.queue : j = worker.queue[i])
      BY <2>1 DEF Unfinished, Worker
    <2>3. j.generation # 0
      BY <2>2 DEF Job
    <2> QED
      BY <2>1, <2>2, <2>3 DEF Reached
  <1> QED
    BY <1>1, ActivityInvariant, PTL

(***************************************************************************)
(* A sync that reports success (wait_for_sync_refresh) does so when the    *)
(* list has been read after its commands, whatever searches, page loads    *)
(* and tag operations came between.                                        *)
(***************************************************************************)
THEOREM SyncReportsNewMail == ActivitySpec => SyncShowsNewMail
  <1> DEFINE P == sync.phase # "idle" /\ sync'.phase = "idle" /\ sync'.ok
                    => ui.items.version >= sync.since
  <1>1. ActivityInv /\ [ActivityNext]_activityVars => [P]_activityVars
    <2> SUFFICES ASSUME ActivityInv, ActivityNext, sync.phase # "idle", sync'.phase = "idle",
                        sync'.ok
                 PROVE  ui.items.version >= sync.since
      OBVIOUS
    <2>s. /\ sync \in [phase : {"idle", "commands", "ended", "refresh"}, generation : Nat,
                        since : Nat, ok : BOOLEAN]
          /\ sync.phase = "refresh" => FreshFrom(sync.generation, sync.since)
      BY DEF ActivityInv, SyncFresh
    <2>1. ~StartSync
      <3> SUFFICES ASSUME StartSync PROVE FALSE
        OBVIOUS
      <3>1. sync' = [phase |-> "commands", generation |-> 0, since |-> 0, ok |-> TRUE]
        BY DEF StartSync, NoSync
      <3> QED
        BY <3>1
    <2>2. ~SyncRefresh /\ \A ok \in BOOLEAN : ~SyncCommandsEnd(ok)
      <3>1. SyncRefresh => sync'.phase = "refresh"
        BY <2>s DEF SyncRefresh
      <3>2. ASSUME NEW ok \in BOOLEAN, SyncCommandsEnd(ok) PROVE FALSE
        <4>1. sync' = [sync EXCEPT !.phase = "ended", !.since = db + 1, !.ok = ok]
          BY <3>2 DEF SyncCommandsEnd
        <4>2. sync'.phase = "ended"
          BY <2>s, <4>1
        <4> QED
          BY <4>2
      <3> QED
        BY <3>1, <3>2
    <2>3. ~SyncFailed
      <3> SUFFICES ASSUME SyncFailed PROVE FALSE
        OBVIOUS
      <3>1. sync' = [phase |-> "idle", generation |-> 0, since |-> sync.since, ok |-> FALSE]
        BY DEF SyncFailed, FinishSync, NoSync
      <3> QED
        BY <3>1
    <2>4. SyncRefreshed
      BY <2>1, <2>2, <2>3, WaitingSteps
    <2>5. sync' = [phase |-> "idle", generation |-> 0, since |-> sync.since,
                   ok |-> ~ui.outcome_error]
      BY <2>4 DEF SyncRefreshed, FinishSync, NoSync
    <2>6. ~ui.outcome_error /\ ui.outcome_generation >= sync.generation /\ sync.phase = "refresh"
      BY <2>4, <2>5 DEF SyncRefreshed
    <2> QED
      BY <2>s, <2>6 DEF FreshFrom
  <1> QED
    BY <1>1, ActivityInvariant, PTL DEF ActivitySpec, SyncShowsNewMail

(***************************************************************************)
(* A refresh request is answered with success (external_refresh.rs) only   *)
(* when the list shows what had been committed when it was received.       *)
(***************************************************************************)
THEOREM RefreshAnsweredFresh == ActivitySpec => RefreshAnswersFresh
  <1> DEFINE P == \A r \in Requests :
                     refreshes[r].status = "waiting" /\ refreshes'[r].status = "ok" =>
                        ui.items.version >= refreshes[r].since
  <1>1. ActivityInv /\ [ActivityNext]_activityVars => [P]_activityVars
    <2> SUFFICES ASSUME ActivityInv, ActivityNext, NEW r \in Requests,
                        refreshes[r].status = "waiting", refreshes'[r].status = "ok"
                 PROVE  ui.items.version >= refreshes[r].since
      OBVIOUS
    <2> DEFINE E == [status : {"new", "waiting", "ok", "failed"}, since : Nat, minimum : Nat]
    <2>s. refreshes \in [Requests -> E] /\ refreshes[r] \in E
          /\ FreshFrom(refreshes[r].minimum, refreshes[r].since)
      BY DEF ActivityInv, RefreshesFresh
    <2>1. PICK p \in Requests : \/ RequestRefresh(p) \/ RefreshRefused(p)
                                \/ RefreshWaitsForWriters(p) \/ RefreshAnswered(p)
      BY WaitingSteps
    <2>2. ~RequestRefresh(p)
      <3> SUFFICES ASSUME RequestRefresh(p) PROVE FALSE
        OBVIOUS
      <3>1. p # r /\ \E e : refreshes' = [refreshes EXCEPT ![p] = e]
        BY DEF RequestRefresh
      <3> QED
        BY <2>s, <3>1
    <2>3. ~RefreshRefused(p) /\ ~RefreshWaitsForWriters(p)
      BY <2>s DEF RefreshRefused, RefreshWaitsForWriters, AnswerRefresh
    <2>4. RefreshAnswered(p)
      BY <2>1, <2>2, <2>3
    <2>5. p = r /\ ~ui.outcome_error /\ ui.outcome_generation >= refreshes[r].minimum
      BY <2>s, <2>4 DEF RefreshAnswered, AnswerRefresh
    <2> QED
      BY <2>s, <2>5 DEF FreshFrom
  <1> QED
    BY <1>1, ActivityInvariant, PTL DEF ActivitySpec, RefreshAnswersFresh

(***************************************************************************)
(* The warning that a tag operation may have been applied in part is       *)
(* withdrawn (restore_tag_warning_after_search) only when the list has     *)
(* been read after that operation.                                         *)
(***************************************************************************)
THEOREM WarningKeptUntilRead == ActivitySpec => WarningOutlivesStaleSearch
  <1> DEFINE P == ui.tag_warning /\ ~ui'.tag_warning => ui.items.version >= tag.since
  <1>1. ActivityInv /\ [ActivityNext]_activityVars => [P]_activityVars
    <2> SUFFICES ASSUME ActivityInv, ActivityNext, ui.tag_warning, ~ui'.tag_warning
                 PROVE  ui.items.version >= tag.since
      OBVIOUS
    <2>a. PaneInv /\ ui \in Ui /\ FreshFrom(ui.search_generation, tag.since)
      BY DEF ActivityInv, PaneInv, PaneTypes, TagFresh
    <2>1. \A r : ~AcceptPage(r)
      BY <2>a DEF AcceptPage, Ui
    <2>2. \A r : ~AcceptError(r)
      BY <2>a DEF AcceptError, FinishActivity, RecordOutcome, Ui
    <2>3. PICK x \in updates : window # "closed" /\ (UpdateApplied(x) \/ UpdateCancelled(x))
      BY <2>1, <2>2, ListSteps DEF SameList
    <2>4. PICK applied \in BOOLEAN : Complete(x, applied)
      BY <2>3 DEF UpdateApplied, UpdateCancelled
    <2>5. bar' = bar /\ db' = db /\ rows' \in ItemSet \cup {Partial}
      BY <2>3, <2>a DEF UpdateApplied, UpdateCancelled, PaneInv, PaneTypes, TargetsItems, Update
    <2>6. x.kind = "full" /\ x.generation = ui.search_generation
      BY <2>a, <2>3, <2>4, <2>5, CompleteKept
    <2>7. ui.search_generation \in Nat
      BY <2>a DEF Ui
    <2> QED
      BY <2>a, <2>6, <2>7 DEF FreshFrom
  <1> QED
    BY <1>1, ActivityInvariant, PTL DEF ActivitySpec, WarningOutlivesStaleSearch

(***************************************************************************)
(* Stale results do not reach the list: the items change only when a page  *)
(* of the announced query is accepted (accept_search_page_response), and   *)
(* never to something read earlier than what they replace.                 *)
(***************************************************************************)
THEOREM AnnouncedSearchShown == ActivitySpec => ShowsTheAnnouncedSearch
  <1> DEFINE P == ui'.items # ui.items =>
                    /\ ui.search_loading /\ ui'.items.query = ui.pending_query
                    /\ ui'.items.version >= ui.items.version
  <1>1. ActivityInv /\ [ActivityNext]_activityVars => [P]_activityVars
    <2> SUFFICES ASSUME ActivityInv, ActivityNext, ui'.items # ui.items
                 PROVE  /\ ui.search_loading /\ ui'.items.query = ui.pending_query
                        /\ ui'.items.version >= ui.items.version
      BY DEF activityVars
    <2>a. PaneInv /\ ui \in Ui
      BY DEF ActivityInv, PaneInv, PaneTypes
    <2>1. \A r : ~AcceptError(r)
      BY <2>a DEF AcceptError, FinishActivity, RecordOutcome, Ui
    <2>2. \A x \in updates : window # "closed" => ~UpdateApplied(x) /\ ~UpdateCancelled(x)
      <3> SUFFICES ASSUME NEW x \in updates, window # "closed",
                          UpdateApplied(x) \/ UpdateCancelled(x)
                   PROVE  FALSE
        OBVIOUS
      <3>1. PICK applied \in BOOLEAN : Complete(x, applied)
        BY DEF UpdateApplied, UpdateCancelled
      <3>2. bar' = bar /\ db' = db /\ rows' \in ItemSet \cup {Partial}
        BY <2>a DEF UpdateApplied, UpdateCancelled, PaneInv, PaneTypes, TargetsItems, Update
      <3> QED
        BY <2>a, <3>1, <3>2, CompleteKept
    <2>3. PICK r \in worker.replies : AcceptPage(r)
      BY <2>1, <2>2, ListSteps DEF SameList
    <2>4. r.status = "ok" /\ Accepts(r) /\ ui'.items = ItemsWith(r)
      BY <2>a, <2>3 DEF AcceptPage, Ui
    <2> QED
      BY <2>a, <2>4, ItemsAccepted
  <1> QED
    BY <1>1, ActivityInvariant, PTL DEF ActivitySpec, ShowsTheAnnouncedSearch

(***************************************************************************)
(* A full search is recorded as complete (record_full_search_outcome) only *)
(* when the list model shows its result.                                   *)
(***************************************************************************)
THEOREM CompletedSearchShown == ActivitySpec => OutcomeIsShown
  <1> DEFINE P == ui'.outcome_generation # ui.outcome_generation /\ ~ui'.outcome_error =>
                    rows' = ui'.items
  <1>1. ActivityInv /\ [ActivityNext]_activityVars => [P]_activityVars
    <2> SUFFICES ASSUME ActivityInv, ActivityNext,
                        ui'.outcome_generation # ui.outcome_generation, ~ui'.outcome_error
                 PROVE  rows' = ui'.items
      BY DEF activityVars
    <2>a. PaneInv /\ ui \in Ui
      BY DEF ActivityInv, PaneInv, PaneTypes
    <2>1. \A r : ~AcceptPage(r)
      BY <2>a DEF AcceptPage, Ui
    <2>2. \A r : ~AcceptError(r)
      BY <2>a DEF AcceptError, FinishActivity, RecordOutcome, Ui
    <2>3. PICK x \in updates : window # "closed" /\ (UpdateApplied(x) \/ UpdateCancelled(x))
      BY <2>1, <2>2, ListSteps DEF SameList
    <2>4. PICK applied \in BOOLEAN :
            /\ Complete(x, applied)
            /\ applied => UpdateApplied(x)
      BY <2>3 DEF UpdateApplied, UpdateCancelled
    <2>5. bar' = bar /\ db' = db /\ rows' \in ItemSet \cup {Partial}
      BY <2>3, <2>a DEF UpdateApplied, UpdateCancelled, PaneInv, PaneTypes, TargetsItems, Update
    <2>6. applied /\ ui'.items = ui.items
      BY <2>a, <2>3, <2>4, <2>5, CompleteKept
    <2>7. x.live /\ rows' = x.target
      BY <2>4, <2>6 DEF UpdateApplied
    <2> QED
      BY <2>a, <2>6, <2>7 DEF PaneInv, TargetsItems
  <1> QED
    BY <1>1, ActivityInvariant, PTL DEF ActivitySpec, OutcomeIsShown

================================================================================
