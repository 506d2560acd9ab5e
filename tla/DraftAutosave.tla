----------------------------- MODULE DraftAutosave -----------------------------
(***************************************************************************)
(* The recovery-draft writer of the composer                               *)
(* (crates/notm-ui/src/draft_autosave.rs).                                 *)
(*                                                                         *)
(* Every method of the controller runs on the GTK main thread.  Edits are  *)
(* scheduled behind a debounce timer, boundaries (send, save, close) flush *)
(* at once, and at most one worker thread writes the recovery file.  The   *)
(* controller's RefCell is the record ctl, and each method is an operator  *)
(* from one ctl to the next, so that the composer's handlers can use them. *)
(***************************************************************************)
EXTENDS Naturals, Sequences

CONSTANTS
    Contents,       \* the non-empty fields a composer may hold
    MaxGeneration,  \* bound on the compose generations that are explored
    MaxRequests,    \* bound on the request ids that are handed out
    MaxFlushes      \* bound on the calls of flush

ASSUME BoundsAssumption ==
    MaxGeneration \in Nat /\ MaxRequests \in Nat /\ MaxFlushes \in Nat

Generations == 0 .. MaxGeneration

(***************************************************************************)
(* A recovery action is the set of drafts the recovery file holds once it  *)
(* has been carried out: Clear leaves none, Persist(c) leaves c.           *)
(***************************************************************************)
Clear == {}
Persist(c) == {c}
RecoveryAction == {Clear} \cup {Persist(c) : c \in Contents}

DraftWriteRequest ==
    [request_id : Nat \ {0}, generation : Generations, action : RecoveryAction]

(* Option::None of a request. *)
NoRequest == [request_id |-> 0, generation |-> 0, action |-> Clear]

FlushWaiter ==
    [request_id : Nat \ {0}, flush : Nat \ {0},
     generation : Generations, action : RecoveryAction]

(***************************************************************************)
(* A worker is running, has replaced or removed the file but not returned, *)
(* or has its result in the channel.  The writer may fail on either side   *)
(* of the rename: a directory sync and the removal of the legacy file      *)
(* follow it.  A thread that cannot be spawned and one that disconnects    *)
(* are workers that fail before the rename.                                *)
(***************************************************************************)
WorkerPhases == {"running", "written", "ok", "failed"}

DraftWorker == [request : DraftWriteRequest, phase : WorkerPhases]

VARIABLES
    ctl,        \* DraftAutosaveState
    workers,    \* worker threads whose result has not been received
    recovery,   \* the recovery file: the set of drafts it holds
    flushes,    \* number of calls of flush so far; names their callbacks
    finishing   \* finish_write is running the event handler and callbacks

vars == <<ctl, workers, recovery, flushes, finishing>>

Controller ==
    [pending : DraftWriteRequest \cup {NoRequest},
     pending_ready : BOOLEAN,
     urgent : Seq(DraftWriteRequest),
     active : DraftWriteRequest \cup {NoRequest},
     debounce_source : BOOLEAN,
     next_request_id : Nat \ {0},
     latest_request_id : Nat,
     waiters : SUBSET FlushWaiter]

(* with_writer *)
NewController ==
    [pending |-> NoRequest, pending_ready |-> FALSE, urgent |-> <<>>,
     active |-> NoRequest, debounce_source |-> FALSE,
     next_request_id |-> 1, latest_request_id |-> 0, waiters |-> {}]

--------------------------------------------------------------------------------
(* The controller's methods, as operators on ctl.                            *)

MakeRequest(c, g, a) ==
    [request_id |-> c.next_request_id, generation |-> g, action |-> a]

(* next_request_id: what it leaves in c once MakeRequest has used the id.    *)
NextRequestId(c) ==
    [c EXCEPT !.next_request_id = c.next_request_id + 1,
              !.latest_request_id = c.next_request_id]

CancelDebounce(c) == [c EXCEPT !.debounce_source = FALSE]

QueueDebounced(c, g, a) ==
    [NextRequestId(c) EXCEPT !.pending = MakeRequest(c, g, a),
                             !.pending_ready = FALSE]

(* schedule: a newer edit replaces the pending one and restarts the timer.   *)
Schedule(c, g, a) ==
    [QueueDebounced(CancelDebounce(c), g, a) EXCEPT !.debounce_source = TRUE]

SameWrite(r, g, a) == r # NoRequest /\ r.generation = g /\ r.action = a

(* The requests that are being written or queued at a boundary. *)
Outstanding(c) ==
    {r \in {c.active} \cup {c.urgent[i] : i \in 1 .. Len(c.urgent)} : r # NoRequest}

Joinable(c, g, a) == {r \in Outstanding(c) : SameWrite(r, g, a)}

Joins(c, g, a) == Joinable(c, g, a) # {}

Promotes(c, g, a) == ~Joins(c, g, a) /\ SameWrite(c.pending, g, a)

(* Faulty variant: a flush supersedes whatever is pending. *)
KeepNewerPendingNever(c, g) == [c EXCEPT !.pending = NoRequest, !.pending_ready = FALSE]

(***************************************************************************)
(* queue_flush: join an equal outstanding write, promote an equal pending  *)
(* one, or append a new urgent request.  A pending edit newer than the     *)
(* boundary survives and becomes ready; an older one is superseded.        *)
(***************************************************************************)
KeepNewerPending(c, g) ==
    CASE c.pending = NoRequest -> c
      [] c.pending # NoRequest /\ c.pending.generation > g ->
            [c EXCEPT !.pending_ready = TRUE]
      [] OTHER -> [c EXCEPT !.pending = NoRequest, !.pending_ready = FALSE]

QueueFlush(c, g, a) ==
    CASE Joins(c, g, a) -> c
      [] Promotes(c, g, a) ->
            [c EXCEPT !.urgent = Append(c.urgent, c.pending),
                      !.pending = NoRequest,
                      !.pending_ready = FALSE]
      [] OTHER ->
            [NextRequestId(KeepNewerPending(c, g)) EXCEPT
                !.urgent = Append(c.urgent, MakeRequest(c, g, a))]

(* The request id that queue_flush returns. *)
FlushRequestId(c, g, a) ==
    CASE Joins(c, g, a) -> (CHOOSE r \in Joinable(c, g, a) : TRUE).request_id
      [] Promotes(c, g, a) -> c.pending.request_id
      [] OTHER -> c.next_request_id

(* start_pending_write: one write at a time, urgent ones first. *)
StartPendingWrite(c) ==
    CASE c.active = NoRequest /\ c.urgent # <<>> ->
            [c EXCEPT !.active = Head(c.urgent), !.urgent = Tail(c.urgent)]
      [] c.active = NoRequest /\ c.urgent = <<>> /\ c.pending_ready ->
            [c EXCEPT !.active = c.pending,
                      !.pending = NoRequest,
                      !.pending_ready = FALSE]
      [] OTHER -> c

(* flush: cancel the debounce, queue, register the k-th callback, start. *)
Waiter(c, g, a, k) ==
    [request_id |-> FlushRequestId(c, g, a), flush |-> k,
     generation |-> g, action |-> a]

Flush(c, g, a, k) ==
    LET d == CancelDebounce(c)
    IN  StartPendingWrite(
            [QueueFlush(d, g, a) EXCEPT !.waiters = c.waiters \cup {Waiter(d, g, a, k)}])

(* Faulty variant: the timer forgets to mark the pending request ready. *)
DebounceElapsedUnready(c) == StartPendingWrite([c EXCEPT !.debounce_source = FALSE])

(* The debounce timer's callback. *)
DebounceElapsed(c) ==
    StartPendingWrite([c EXCEPT !.debounce_source = FALSE, !.pending_ready = TRUE])

(* Faulty variant: a write answers every flush of its generation. *)
ReadyWaitersByGeneration(c) == {x \in c.waiters : x.generation = c.active.generation}

(* finish_write up to the callbacks: the slot is free, its waiters leave.    *)
ReadyWaiters(c) == {x \in c.waiters : x.request_id = c.active.request_id}

ReleaseActive(c) ==
    [c EXCEPT !.active = NoRequest, !.waiters = c.waiters \ ReadyWaiters(c)]

(* start_pending_write spawns a worker for the request it made active. *)
Spawned(before, after) ==
    IF after.active \in {before.active, NoRequest} THEN {}
    ELSE {[request |-> after.active, phase |-> "running"]}

--------------------------------------------------------------------------------
(* The controller under every sequence of calls.  While finishing, only the  *)
(* callbacks of finish_write hold the main thread, and they may call         *)
(* schedule and flush.                                                       *)

Init ==
    /\ ctl = NewController
    /\ workers = {}
    /\ recovery = Clear
    /\ flushes = 0
    /\ finishing = FALSE

ScheduleEdit(g, a) ==
    /\ ctl.next_request_id <= MaxRequests
    /\ ctl' = Schedule(ctl, g, a)
    /\ UNCHANGED <<workers, recovery, flushes, finishing>>

FlushBoundary(g, a) ==
    /\ flushes < MaxFlushes
    /\ ctl.next_request_id <= MaxRequests
    /\ flushes' = flushes + 1
    /\ ctl' = Flush(ctl, g, a, flushes + 1)
    /\ workers' = workers \cup Spawned(ctl, ctl')
    /\ UNCHANGED <<recovery, finishing>>

DebounceFires ==
    /\ ~finishing
    /\ ctl.debounce_source
    /\ ctl' = DebounceElapsed(ctl)
    /\ workers' = workers \cup Spawned(ctl, ctl')
    /\ UNCHANGED <<recovery, flushes, finishing>>

(* The writer replaces or removes the recovery file in one rename or unlink. *)
WriterCommits(w) ==
    /\ w.phase = "running"
    /\ recovery' = w.request.action
    /\ workers' = (workers \ {w}) \cup {[w EXCEPT !.phase = "written"]}
    /\ UNCHANGED <<ctl, flushes, finishing>>

WriterSucceeds(w) ==
    /\ w.phase = "written"
    /\ workers' = (workers \ {w}) \cup {[w EXCEPT !.phase = "ok"]}
    /\ UNCHANGED <<ctl, recovery, flushes, finishing>>

WriterFails(w) ==
    /\ w.phase \in {"running", "written"}
    /\ workers' = (workers \ {w}) \cup {[w EXCEPT !.phase = "failed"]}
    /\ UNCHANGED <<ctl, recovery, flushes, finishing>>

(* The 25 ms poll receives a worker's result: finish_write begins.           *)
FinishWrite(w) ==
    /\ ~finishing
    /\ w.phase \in {"ok", "failed"}
    /\ w.request.request_id = ctl.active.request_id
    /\ ctl' = ReleaseActive(ctl)
    /\ workers' = workers \ {w}
    /\ finishing' = TRUE
    /\ UNCHANGED <<recovery, flushes>>

(* Faulty variant: finish_write does not start what was queued meanwhile. *)
ResumeWritesIdle ==
    /\ finishing
    /\ finishing' = FALSE
    /\ UNCHANGED <<ctl, workers, recovery, flushes>>

(* The last callback has returned: finish_write starts the next write.       *)
ResumeWrites ==
    /\ finishing
    /\ ctl' = StartPendingWrite(ctl)
    /\ workers' = workers \cup Spawned(ctl, ctl')
    /\ finishing' = FALSE
    /\ UNCHANGED <<recovery, flushes>>

WorkerStep(w) == WriterCommits(w) \/ WriterSucceeds(w) \/ WriterFails(w)

Next ==
    \/ \E g \in Generations, a \in RecoveryAction : ScheduleEdit(g, a)
    \/ \E g \in Generations, a \in RecoveryAction : FlushBoundary(g, a)
    \/ DebounceFires
    \/ \E w \in workers : WorkerStep(w)
    \/ \E w \in workers : FinishWrite(w)
    \/ ResumeWrites

(***************************************************************************)
(* The main loop dispatches an armed timer and the worker's poll, the      *)
(* callbacks return, and the writer, a bounded number of system calls on a *)
(* local file, ends.                                                       *)
(***************************************************************************)
Fairness ==
    /\ WF_vars(DebounceFires)
    /\ WF_vars(\E w \in workers : WorkerStep(w))
    /\ WF_vars(\E w \in workers : FinishWrite(w))
    /\ WF_vars(ResumeWrites)

Spec == Init /\ [][Next]_vars /\ Fairness

--------------------------------------------------------------------------------
(* Properties.                                                               *)

TypeOK ==
    /\ ctl \in Controller
    /\ workers \subseteq DraftWorker
    /\ recovery \in RecoveryAction
    /\ flushes \in Nat
    /\ finishing \in BOOLEAN

(***************************************************************************)
(* start_pending_write never lets two workers write the recovery file at   *)
(* once: the only live worker is the one of the active request.            *)
(***************************************************************************)
OneWriter ==
    \A w \in workers : w.request = ctl.active /\ (\A v \in workers : v = w)

(***************************************************************************)
(* Every registered flush callback waits on a request that is still going  *)
(* to be written, and that writes exactly what the caller asked to have    *)
(* written: joining an outstanding request, promoting the pending one and  *)
(* superseding an older one never leave a waiter without its write.        *)
(***************************************************************************)
WaitersServed ==
    \A x \in ctl.waiters :
        \E r \in Outstanding(ctl) :
            /\ r.request_id = x.request_id
            /\ SameWrite(r, x.generation, x.action)

(***************************************************************************)
(* A callback leaves the waiting list only when its own write has ended,   *)
(* and if that write succeeded the recovery file holds at that moment      *)
(* exactly what the flush asked for: no other write slips in between.      *)
(***************************************************************************)
AnsweredWhenDurable ==
    [][\A x \in ctl.waiters \ ctl'.waiters :
          \E w \in workers :
              /\ w.request.request_id = x.request_id
              /\ \/ w.phase = "failed"
                 \/ w.phase = "ok" /\ recovery = x.action]_vars

(***************************************************************************)
(* A boundary never discards an edit newer than itself: a pending edit     *)
(* leaves the pending slot only for the write queue, for a later edit, or  *)
(* for a flush of its own or of a later generation.                        *)
(***************************************************************************)
NewerEditSurvives ==
    [][ \/ ctl.pending \in Outstanding(ctl') \cup {NoRequest, ctl'.pending}
        \/ ctl'.pending.request_id > ctl.pending.request_id
        \/ \E x \in ctl'.waiters \ ctl.waiters :
               x.generation >= ctl.pending.generation ]_vars

(***************************************************************************)
(* queue_flush keeps a newer pending edit runnable "instead of leaving it  *)
(* stranded with no source to mark it ready": when a pending edit loses    *)
(* its timer without becoming ready, an outstanding write has the same     *)
(* text.  A flush that joins an outstanding write cancels the timer of     *)
(* whatever is pending, so this depends on how the composer calls the      *)
(* controller and is checked in module Composer.                           *)
(***************************************************************************)
Stranded(c) == c.pending # NoRequest /\ ~c.debounce_source /\ ~c.pending_ready

NoStrandedEdit ==
    [][Stranded(ctl') /\ ~(Stranded(ctl) /\ ctl'.pending = ctl.pending) =>
          Joins(ctl', ctl'.pending.generation, ctl'.pending.action)]_ctl

(***************************************************************************)
(* Every flush is answered: the callback on which sending, saving and      *)
(* closing wait runs, whatever is scheduled or flushed meanwhile.          *)
(***************************************************************************)
FlushAnswered ==
    \A k \in 1 .. MaxFlushes :
        flushes >= k ~> ~\E x \in ctl.waiters : x.flush = k

================================================================================
