----------------------------- MODULE SearchWorker ------------------------------
(***************************************************************************)
(* The search worker service (crates/notm-ui/src/widgets/thread_list.rs):  *)
(* one thread that takes search jobs from a channel, runs the latest one   *)
(* and drops the others, and a cancellation flag per job of which the      *)
(* service remembers the last.                                             *)
(*                                                                         *)
(* A job is named by its search generation.  The database is a counter of  *)
(* its commits; a search reads it at some moment of its run.               *)
(***************************************************************************)
EXTENDS Naturals, Sequences

CONSTANT Queries

NoQuery == "no query"

ASSUME QueriesAssumption == NoQuery \notin Queries /\ Queries # {}

Kinds == {"full", "append", "locate"}

(* SearchPageJob.  NoJob is also the Cancel command. *)
NoJob == [generation |-> 0, kind |-> "full", query |-> NoQuery, cancelled |-> FALSE]

Job == [generation : Nat \ {0}, kind : Kinds, query : Queries, cancelled : BOOLEAN]

VARIABLES
    worker,   \* [queue, running, since, active, replies]
    db        \* commits of the Notmuch database

(* A reply is what the receiver of a launch will see: nothing yet, a page    *)
(* read at some commit, an error, or a sender dropped with its job.          *)
Reply ==
    [generation : Nat \ {0}, kind : Kinds, query : Queries,
     status : {"waiting", "ok", "error", "dropped"}, version : Nat]

NewWorker ==
    [queue |-> <<>>, running |-> NoJob, since |-> 0, active |-> 0, replies |-> {}]

Unfinished(w) == ({w.queue[i] : i \in DOMAIN w.queue} \cup {w.running}) \ {NoJob}

(* cancel_active sets the remembered flag and forgets it. *)
Flagged(w, j) == IF j # NoJob /\ j.generation = w.active THEN [j EXCEPT !.cancelled = TRUE] ELSE j
CancelActive(w) ==
    [w EXCEPT !.queue = [i \in DOMAIN w.queue |-> Flagged(w, w.queue[i])],
              !.running = Flagged(w, w.running),
              !.active = 0]

(* A Cancel command that another command follows is without effect: only the *)
(* last one is kept.                                                         *)
Jobs(queue) ==
    IF queue # <<>> /\ queue[Len(queue)] = NoJob
    THEN SubSeq(queue, 1, Len(queue) - 1)
    ELSE queue

Submit(w, g, k, q) ==
    [CancelActive(w) EXCEPT
        !.active = g,
        !.queue = Append(Jobs(@), [generation |-> g, kind |-> k, query |-> q,
                                   cancelled |-> FALSE]),
        !.replies = @ \cup {[generation |-> g, kind |-> k, query |-> q,
                             status |-> "waiting", version |-> 0]}]

Cancel(w) == [CancelActive(w) EXCEPT !.queue = Append(Jobs(@), NoJob)]

(* Faulty variant: the queue is served in order. *)
LatestSearchJobFirst(queue) == queue[1]

(* latest_search_job: the last command decides. *)
LatestSearchJob(queue) == queue[Len(queue)]

Answer(w, gs, status, version) ==
    {IF r.generation \in gs THEN [r EXCEPT !.status = status, !.version = version] ELSE r :
        r \in w.replies}

WorkerTakes ==
    LET job     == LatestSearchJob(worker.queue)
        dropped == {worker.queue[i].generation : i \in DOMAIN worker.queue} \ {job.generation}
    IN  /\ worker.running = NoJob
        /\ worker.queue # <<>>
        /\ worker' = [worker EXCEPT
              !.queue = <<>>,
              !.running = job,
              !.since = IF job = NoJob THEN 0 ELSE db,
              !.replies = Answer(worker, dropped, "dropped", 0)]
        /\ UNCHANGED db

WorkerEnds(status, version) ==
    /\ worker.running # NoJob
    /\ worker' = [worker EXCEPT
          !.running = NoJob, !.since = 0,
          !.active = IF @ = worker.running.generation THEN 0 ELSE @,
          !.replies = Answer(worker, {worker.running.generation}, status, version)]
    /\ UNCHANGED db

(* The page was read at some commit since the database was opened. A search  *)
(* cancelled after its last check still succeeds.                            *)
WorkerSucceeds == \E v \in worker.since .. db : WorkerEnds("ok", v)

WorkerFails == WorkerEnds("error", 0)

WorkerStep == WorkerTakes \/ WorkerSucceeds \/ WorkerFails

--------------------------------------------------------------------------------
WorkerTypeOK ==
    /\ db \in Nat
    /\ worker.queue \in Seq(Job \cup {NoJob})
    /\ worker.running \in Job \cup {NoJob}
    /\ worker.since \in 0 .. db
    /\ worker.active \in Nat
    /\ worker.replies \subseteq Reply

(***************************************************************************)
(* docs/architecture.md: a newer request cancels active work.  Of the jobs *)
(* that are queued or running, only the one whose flag the service still   *)
(* remembers is not cancelled, so the next request or cancellation reaches *)
(* all of them.                                                            *)
(***************************************************************************)
CancelReachesEveryJob ==
    \A j \in Unfinished(worker) : j.cancelled \/ j.generation = worker.active

================================================================================
