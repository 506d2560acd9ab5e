-------------------------------- MODULE TagUndo --------------------------------
(***************************************************************************)
(* Tag operations and their undo history                                   *)
(* (crates/notm-notmuch/src/database.rs, crates/notm-ui/src/               *)
(* main_window.rs).                                                        *)
(*                                                                         *)
(* A worker applies a batch of tag mutations, each message with an outcome *)
(* of its own, and reports what changed.  The main loop turns the report   *)
(* into an undo action, keeps a bounded history of them, and sends every   *)
(* change of the history to a thread that persists it.  An undo takes its  *)
(* actions out of the history first and puts them back unless it completes.*)
(*                                                                         *)
(* The list and the searches around a tag operation are in SearchActivity; *)
(* here a search that reconciles is the one step Reconciled.               *)
(***************************************************************************)
EXTENDS Naturals, Sequences, FiniteSets, SequencesExt

CONSTANTS
    Messages,
    Tags,
    MaxHistory,      \* MAX_UNDO_TAG_ACTIONS
    MaxOperations    \* bound on the steps of the user and of other programs

ASSUME TagUndoAssumption == MaxHistory \in Nat \ {0} /\ MaxOperations \in Nat

(* MessageTagMutation; an undo action is a set of them, one per message. *)
Mutation == [message : Messages, add : SUBSET Tags, remove : SUBSET Tags]
UndoTagAction == SUBSET Mutation

VARIABLES
    tags,        \* what the database holds
    worker,      \* the tag operation in progress
    status,      \* "ok", "warning" until a search, "uncertain" until a restart
    history,     \* UndoState: undo actions, oldest first
    queue,       \* snapshots on their way to the persistence thread
    file,        \* tag-undo.json
    window,      \* "open", "closing" while the queue is flushed, or "closed"
    operations,  \* number of steps of the user and of other programs
    unsaved,     \* history variable: the last write of the file failed
    original,    \* history variable: what undoing all of the history must give
    doubtful     \* history variable: messages whose change was misreported

vars == <<tags, worker, status, history, queue, file, window, operations, unsaved,
          original, doubtful>>

(* actions: what an undo has taken out of the history, newest first; todo:   *)
(* the actions whose batches have not begun; batch: what is left of the one  *)
(* that has, and before: the tags at its beginning.                          *)
NoTagWork == [phase |-> "idle", actions |-> <<>>, todo |-> <<>>, batch |-> {},
              before |-> <<>>, changes |-> {}, complete |-> TRUE, uncertain |-> FALSE]

--------------------------------------------------------------------------------
(* What mutations do to tags.                                                *)

Apply(ts, x) == (ts \ x.remove) \cup x.add

Changed(m, before, after) ==
    [message |-> m, add |-> after \ before, remove |-> before \ after]

(* AppliedTagChange::inverse *)
InverseOf(c) == [c EXCEPT !.add = c.remove, !.remove = c.add]

(* Faulty variant: tags that were removed are not put back. *)
InverseTagMutationsRemoving(changes) ==
    {[InverseOf(c) EXCEPT !.add = {}] : c \in {d \in changes : d.add # {} \/ d.remove # {}}}

(* inverse_tag_mutations *)
InverseTagMutations(changes) ==
    {InverseOf(c) : c \in {d \in changes : d.add # {} \/ d.remove # {}}}

(***************************************************************************)
(* mutate_message: the tags it leaves, the change it reports and how it    *)
(* failed.  "lookup" is a message or a thread that has gone, "sync" a file *)
(* that was not renamed.  Tags are removed first, then added, and the      *)
(* first failure stops it.  What a message holds that could not be thawed  *)
(* is unknown, and no change is reported for it.                           *)
(***************************************************************************)
MessageOutcomes(x, before) ==
    LET full  == Apply(before, x)
        reach == {before \ r : r \in SUBSET (before \ full)}
                    \cup {(before \cap full) \cup a : a \in SUBSET (full \ before)}
        Outcome(after, reported, failure) ==
            [after |-> after, reported |-> reported, failure |-> failure]
        Seen(after) == Changed(x.message, before, after)
    IN  {Outcome(full, Seen(full), f) : f \in {"none", "sync"}}
            \cup {Outcome(before, Seen(before), "lookup")}
            \cup {Outcome(t, Seen(t), "uncertain") : t \in reach}
            \cup {Outcome(t, Seen(before), "uncertain") : t \in reach}

--------------------------------------------------------------------------------
(* The history.  Each change of it sends a snapshot to be persisted.         *)

Newest(h) == IF Len(h) > MaxHistory THEN SubSeq(h, Len(h) - MaxHistory + 1, Len(h)) ELSE h

(* push_undo_tag_action *)
Pushed(h, action) == Newest(Append(h, action))

(* Faulty variant: the actions come back in the order of their execution. *)
RestoredInOrder(h, actions) == Newest(h \o actions)

(* restore_undo_tag_actions_in_memory *)
Restored(h, actions) == Newest(h \o Reverse(actions))

(* The selection sorted, and taken from its end. *)
HighestFirst(S) ==
    CHOOSE s \in [1 .. Cardinality(S) -> S] : \A i, j \in DOMAIN s : i < j => s[i] > s[j]

(* remove_undo_tag_action for each index of S, the highest first. *)
Removed(h, S) ==
    LET kept == Reverse(HighestFirst(DOMAIN h \ S)) IN [i \in DOMAIN kept |-> h[kept[i]]]

Snapshots(h, S) ==
    LET last == HighestFirst(S)
    IN  [k \in DOMAIN last |-> Removed(h, {last[i] : i \in 1 .. k})]

Picked(h, S) ==
    LET last == HighestFirst(S) IN [k \in DOMAIN last |-> h[last[k]]]

(* What an action says of tag t of message m. *)
About(action, m, t) == \E x \in action : x.message = m /\ t \in x.add \cup x.remove
Adds(action, m, t) == \E x \in action : x.message = m /\ t \in x.add

(* The actions of h undone one after the other, the newest first: the oldest one that is     *)
(* about a tag is the last that touches it.                                                  *)
UndoAll(tg, h) ==
    [m \in Messages |-> {t \in Tags :
        \/ t \in tg[m] /\ \A i \in DOMAIN h : ~About(h[i], m, t)
        \/ \E i \in DOMAIN h : Adds(h[i], m, t) /\ \A j \in 1 .. i - 1 : ~About(h[j], m, t)}]

(* The history as it is, if what is in progress is counted as well. *)
Owed ==
    IF worker.actions # <<>> THEN history \o Reverse(worker.actions)
    ELSE IF InverseTagMutations(worker.changes) = {} THEN history
    ELSE Append(history, InverseTagMutations(worker.changes))

--------------------------------------------------------------------------------
(* The user and other programs.                                              *)

Step ==
    /\ window = "open"
    /\ worker.phase = "idle"
    /\ operations < MaxOperations
    /\ operations' = operations + 1

(* ensure_user_operation_allowed for Tag *)
TagAllowed == status = "ok"

(* schedule_tag_mutation for the messages of a thread or a single one. *)
StartTag(ms, add, remove) ==
    /\ Step /\ TagAllowed
    /\ worker' = [NoTagWork EXCEPT
          !.phase = "running",
          !.todo = <<{[message |-> m, add |-> add, remove |-> remove] : m \in ms}>>]
    /\ UNCHANGED <<tags, status, history, queue, file, window, unsaved, original, doubtful>>

(* undo_last_tag, and apply_selected_undo_dialog_actions for a selection S.  *)
(* Undoing an action before a newer one is what the user asked for.          *)
UndoTagActions(S) ==
    /\ Step /\ TagAllowed
    /\ worker' = [NoTagWork EXCEPT !.phase = "running",
                                   !.actions = Picked(history, S), !.todo = Picked(history, S)]
    /\ history' = Removed(history, S)
    /\ queue' = queue \o Snapshots(history, S)
    /\ original' = IF S = Len(history) - Cardinality(S) + 1 .. Len(history) THEN original
                   ELSE UndoAll(tags, history' \o Reverse(worker'.actions))
    /\ UNCHANGED <<tags, status, file, window, unsaved, doubtful>>

(* The worker thread of an undo cannot be started: restored at once.         *)
UndoStartFails(S) ==
    /\ Step /\ TagAllowed
    /\ history' = Restored(Removed(history, S), Picked(history, S))
    /\ queue' = (queue \o Snapshots(history, S)) \o <<history'>>
    /\ original' = IF history' = history THEN original ELSE UndoAll(tags, history')
    /\ UNCHANGED <<tags, worker, status, file, window, unsaved, doubtful>>

(* Another program changes a tag that no undo action is about. *)
OtherProgram(m, t) ==
    /\ Step
    /\ \A i \in DOMAIN history : \A x \in history[i] :
           x.message = m => t \notin x.add \cup x.remove
    /\ LET Toggle(f) == [f EXCEPT ![m] = IF t \in @ THEN @ \ {t} ELSE @ \cup {t}]
       IN  tags' = Toggle(tags) /\ original' = Toggle(original)
    /\ UNCHANGED <<worker, status, history, queue, file, window, unsaved, doubtful>>

--------------------------------------------------------------------------------
(* execute_tag_worker.                                                       *)

WorkerOnly == UNCHANGED <<status, history, queue, file, window, operations, unsaved, original>>

(* The database is opened, or an atomic section begun. *)
BatchBegins ==
    /\ worker.phase = "running"
    /\ worker' = [worker EXCEPT !.phase = "batch", !.todo = Tail(@),
                                !.batch = Head(worker.todo), !.before = tags]
    /\ UNCHANGED <<tags, doubtful>> /\ WorkerOnly

(* The database cannot be opened, or the section of a later action not begun.*)
WorkerFails(uncertain) ==
    /\ worker.phase = "running"
    /\ uncertain \/ worker.changes # {}
    /\ worker' = [worker EXCEPT !.phase = "done", !.complete = FALSE, !.uncertain = uncertain]
    /\ UNCHANGED <<tags, doubtful>> /\ WorkerOnly

MutateMessage(x) ==
    /\ worker.phase = "batch"
    /\ \E o \in MessageOutcomes(x, tags[x.message]) :
          /\ tags' = [tags EXCEPT ![x.message] = o.after]
          /\ doubtful' = IF o.reported = Changed(x.message, tags[x.message], o.after)
                         THEN doubtful ELSE doubtful \cup {x.message}
          /\ worker' = [worker EXCEPT
                !.batch = @ \ {x},
                !.changes = @ \cup {o.reported},
                !.complete = @ /\ o.failure = "none",
                !.uncertain = @ \/ o.failure = "uncertain"]
    /\ WorkerOnly

(* end_atomic: the next action only after a complete one. *)
BatchEnds ==
    /\ worker.phase = "batch" /\ worker.batch = {}
    /\ worker' = [worker EXCEPT
          !.phase = IF worker.complete /\ worker.todo # <<>> THEN "running" ELSE "done"]
    /\ UNCHANGED <<tags, doubtful>> /\ WorkerOnly

(* The section cannot be ended, or the database not be closed: its changes   *)
(* are kept or lost, and reported all the same.                              *)
CommitFails ==
    /\ worker.phase = "batch" /\ worker.batch = {}
    /\ tags' \in {tags, worker.before}
    /\ doubtful' = doubtful \cup {m \in Messages : tags'[m] # tags[m]}
    /\ worker' = [worker EXCEPT !.phase = "done", !.complete = FALSE, !.uncertain = TRUE]
    /\ WorkerOnly

--------------------------------------------------------------------------------
(* finish_tag_worker and apply_completed_tag_report.                         *)

FinishTagWorker ==
    LET action == InverseTagMutations(worker.changes)
    IN  /\ worker.phase = "done"
        /\ \/ /\ worker.actions # <<>> /\ ~worker.complete
              /\ history' = Restored(history, worker.actions)
              /\ queue' = Append(queue, history')
           \/ /\ worker.actions = <<>> /\ action # {}
              /\ history' = Pushed(history, action)
              /\ queue' = Append(queue, history')
           \/ /\ IF worker.actions = <<>> THEN action = {} ELSE worker.complete
              /\ UNCHANGED <<history, queue>>
        /\ original' = IF Len(Owed) > MaxHistory /\ worker.actions = <<>>
                       THEN UndoAll(tags, history') ELSE original
        /\ status' = IF worker.complete THEN "ok"
                     ELSE IF worker.uncertain THEN "uncertain" ELSE "warning"
        /\ worker' = NoTagWork
        /\ UNCHANGED <<tags, file, window, operations, unsaved, doubtful>>

(* restore_tag_warning_after_search *)
Reconciled ==
    /\ status = "warning" /\ worker.phase = "idle"
    /\ status' = "ok"
    /\ UNCHANGED <<tags, worker, history, queue, file, window, operations, unsaved,
                   original, doubtful>>

--------------------------------------------------------------------------------
(* Persistence, closing and restarting.                                      *)

(* The persistence thread writes snapshots in order, and drops one it cannot *)
(* write.                                                                    *)
PersistSnapshot(ok) ==
    /\ window # "closed"
    /\ queue # <<>>
    /\ queue' = Tail(queue)
    /\ file' = IF ok THEN Head(queue) ELSE file
    /\ unsaved' = ~ok
    /\ UNCHANGED <<tags, worker, status, history, window, operations, original, doubtful>>

(* The close is deferred while a tag operation runs.  The final close flushes*)
(* the queue (flush_undo_tag_persistence).                                   *)
Close ==
    /\ window = "open" /\ worker.phase = "idle"
    /\ window' = "closing"
    /\ UNCHANGED <<tags, worker, status, history, queue, file, operations, unsaved,
                   original, doubtful>>

Flushed ==
    /\ window = "closing"
    /\ queue = <<>>
    /\ window' = "closed"
    /\ UNCHANGED <<tags, worker, status, history, queue, file, operations, unsaved,
                   original, doubtful>>

(* load_undo_tag_actions in a new process. *)
Restart ==
    /\ worker' = NoTagWork
    /\ status' = "ok"
    /\ history' = file
    /\ queue' = <<>>
    /\ window' = "open"
    /\ unsaved' = FALSE
    /\ operations < MaxOperations
    /\ operations' = operations + 1
    /\ UNCHANGED file

StartAgain ==
    /\ window = "closed"
    /\ original' = IF unsaved THEN UndoAll(tags, file) ELSE original
    /\ Restart
    /\ UNCHANGED <<tags, doubtful>>

(* The process dies.  What the history owed and the file did not say is lost.*)
Crash ==
    /\ window # "closed"
    /\ tags' \in IF worker.phase = "batch" THEN {worker.before} ELSE {tags}
    /\ original' = IF file = Owed THEN original ELSE UndoAll(tags', file)
    /\ Restart
    /\ UNCHANGED doubtful

--------------------------------------------------------------------------------
Init ==
    /\ tags \in [Messages -> SUBSET Tags]
    /\ worker = NoTagWork
    /\ status = "ok"
    /\ history = <<>>
    /\ queue = <<>>
    /\ file = <<>>
    /\ window = "open"
    /\ operations = 0
    /\ unsaved = FALSE
    /\ original = tags
    /\ doubtful = {}

Selections == (SUBSET (DOMAIN history)) \ {{}}

Next ==
    \/ \E ms \in (SUBSET Messages) \ {{}}, add, remove \in SUBSET Tags :
          /\ add \cap remove = {} /\ add \cup remove # {}
          /\ StartTag(ms, add, remove)
    \/ \E S \in Selections : UndoTagActions(S) \/ UndoStartFails(S)
    \/ \E m \in Messages, t \in Tags : OtherProgram(m, t)
    \/ BatchBegins \/ BatchEnds \/ CommitFails
    \/ \E uncertain \in BOOLEAN : WorkerFails(uncertain)
    \/ \E x \in worker.batch : MutateMessage(x)
    \/ FinishTagWorker \/ Reconciled
    \/ \E ok \in BOOLEAN : PersistSnapshot(ok)
    \/ Close \/ Flushed \/ StartAgain \/ Crash

Spec == Init /\ [][Next]_vars

--------------------------------------------------------------------------------
(* Properties.                                                               *)

TypeOK ==
    /\ tags \in [Messages -> SUBSET Tags]
    /\ worker.phase \in {"idle", "running", "batch", "done"}
    /\ worker.changes \subseteq Mutation
    /\ status \in {"ok", "warning", "uncertain"}
    /\ Len(history) <= MaxHistory /\ Len(file) <= MaxHistory
    /\ \A i \in DOMAIN history : history[i] \in UndoTagAction \ {{}}
    /\ window \in {"open", "closing", "closed"}

(***************************************************************************)
(* The history undoes exactly what notm has done: undoing all of it, the   *)
(* newest first, gives the tags from before, whichever operations failed   *)
(* half way, were undone in part and restored, and whatever is in progress.*)
(* Excepted are messages whose change notm could not observe.              *)
(***************************************************************************)
UndoAllRestores ==
    \A m \in Messages \ doubtful : UndoAll(tags, Owed)[m] = original[m]

(***************************************************************************)
(* An undo that does not complete loses none of its actions: they are at   *)
(* the end of the history in the order in which they were, also when the   *)
(* history is full.  One that completes leaves nothing to be undone.       *)
(***************************************************************************)
UndoNotLost ==
    [][worker.actions # <<>> /\ worker' = NoTagWork /\ operations' = operations =>
          \/ history' = history \o Reverse(worker.actions)
          \/ history' = history /\ UndoAll(tags, Reverse(worker.actions)) = tags]_vars

(***************************************************************************)
(* The window closes with the history in its file, unless the last write   *)
(* failed, so that the next start can go on undoing.                       *)
(***************************************************************************)
CloseSavesHistory == window = "closed" => file = history \/ unsaved

================================================================================
