------------------------ MODULE ComposerReplacement ------------------------
(***************************************************************************)
(* How a reply, a forward or a stored draft reaches the composer: a        *)
(* cancellable preparation worker, a confirmation when text would be lost, *)
(* then a worker that copies the attachments into a private directory      *)
(* which the composer owns from the moment its fields name it.  The user   *)
(* edits, selects, searches and asks again at any point between.           *)
(*                                                                         *)
(* Texts are their generations, the selection (thread, message, search) is *)
(* a counter, and a cache directory is named after its request.            *)
(***************************************************************************)
EXTENDS Naturals, FiniteSets

CONSTANTS
    MaxPrepared,    \* bound: preparations and cancellations of one
    MaxCached,      \* bound: attachment cache requests and cancellations
    MaxChanges,     \* bound: edits and selections by the user
    EarlierErrors   \* may an error be showing when a draft is selected?

ASSUME ReplacementAssumption ==
    MaxPrepared \in Nat /\ MaxCached \in Nat /\ MaxChanges \in Nat /\ EarlierErrors \in BOOLEAN

VARIABLES
    composer,   \* [generation, typed, files]: text, unsaved content, directory
    selection,  \* what composer_preparation_selection compares
    lastError,  \* UiState.last_error is set
    prep,       \* ComposerPreparationCoordinator: [next, active]
    prepWorkers,\* preparation workers: generation -> request and answer
    question,   \* the replacement a confirmation dialog is about
    cacheUi,    \* the window: [generation, active, replacement]
    service,    \* ComposerAttachmentCacheService: [active, pending, wake, stopped]
    cacheJob,   \* the cache worker: [generation, at]
    answers,    \* responses in the channel of the live poll source
    directories,\* cache directories on disk
    committed,  \* those whose lease was committed to a text
    halfway,    \* submit has stored the job and not yet woken the worker
    changes     \* edits and selections so far

replacementVars == <<composer, selection, lastError, prep, prepWorkers, question, cacheUi,
                     service, cacheJob, answers, directories, committed, halfway,
                     changes>>
cacheVars == <<cacheUi, service, cacheJob, answers, directories, committed, halfway>>

Kinds == {"reply", "forward"}
\* forward-as-attachment and stored drafts bring sources that must be cached
HasSources(kind) == kind \in {"forward", "draft"}

\* A request: what it is, the text and selection it was asked for, and the
\* error its selection snapshot would put back.
NoReplacement == [kind |-> "none", asked |-> 0, selection |-> 0, snapshotError |-> FALSE]
NoAnswer == [generation |-> 0, ok |-> FALSE]
IdleJob == [generation |-> 0, at |-> "idle"]

ReplacementInit ==
    /\ composer = [generation |-> 0, typed |-> FALSE, files |-> 0]
    /\ selection = 0 /\ lastError = FALSE
    /\ prep = [next |-> 0, active |-> 0]
    /\ prepWorkers = [g \in {} |-> NoReplacement]
    /\ question = NoReplacement
    /\ cacheUi = [generation |-> 0, active |-> 0, captured |-> 0, replacement |-> NoReplacement]
    /\ service = [active |-> 0, pending |-> 0, wake |-> FALSE, stopped |-> {}]
    /\ cacheJob = IdleJob /\ answers = NoAnswer
    /\ directories = {} /\ committed = {} /\ halfway = FALSE /\ changes = 0

---------------------------------------------------------------------------
(* The attachment cache service, as the window uses it. *)

\* cancel_active_composer_cache and the pending slot: the job is told to stop,
\* and one that was not taken yet is dropped.
ServiceCancelled ==
    [service EXCEPT !.active = 0, !.pending = 0,
                    !.stopped = @ \cup ({service.active} \ {0})]

\* Removing the poll source drops its receiver: an answer that waits in it is
\* dropped with its lease, which removes the directory.
DropReceiver == directories \ {answers.generation}

\* The window forgets the copy it waits for, and its generation passes.
CacheForgotten ==
    [cacheUi EXCEPT !.active = 0, !.replacement = NoReplacement,
                    !.generation = IF cacheUi.active # 0 THEN @ + 1 ELSE @]

\* cancel_composer_attachment_cache
CancelCache ==
    /\ cacheUi' = CacheForgotten
    /\ service' = ServiceCancelled
    /\ answers' = NoAnswer
    /\ directories' = DropReceiver
    /\ UNCHANGED <<cacheJob, committed, halfway>>

\* ComposerAttachmentCacheService::submit, to the point where the job is stored.
Submitted(g) == [ServiceCancelled EXCEPT !.active = g, !.pending = g]

\* schedule_composer_attachment_cache
ScheduleCache(replacement) ==
    LET g == cacheUi.generation + (IF cacheUi.active # 0 THEN 2 ELSE 1)
    IN  /\ g <= MaxCached
        /\ cacheUi' = [generation |-> g, active |-> g, captured |-> composer.generation,
                       replacement |-> [replacement EXCEPT !.selection = selection]]
        /\ service' = Submitted(g)
        /\ answers' = NoAnswer
        /\ directories' = DropReceiver
        /\ halfway' = TRUE
        /\ UNCHANGED <<cacheJob, committed>>

\* The rest of submit: the channel holds one wake-up, a second changes nothing.
WakeWorker ==
    /\ halfway
    /\ halfway' = FALSE
    /\ service' = [service EXCEPT !.wake = TRUE]
    /\ UNCHANGED <<composer, selection, lastError, prep, prepWorkers, question, cacheUi,
                   cacheJob, answers, directories, committed, changes>>

---------------------------------------------------------------------------
(* Filling the composer (apply_prepared_composer_replacement). *)

Filled(kind, files) ==
    [generation |-> composer.generation + 1, typed |-> kind # "new", files |-> files]

\* apply_message_selection_snapshot puts back the error that was showing when
\* a draft was selected, and an error that is showing after the fields were
\* replaced makes the caller give the attachments up.
Accepted(replacement) == ~(replacement.kind = "draft" /\ replacement.snapshotError)

FillPlain(replacement) ==
    /\ composer' = Filled(replacement.kind, 0)
    /\ lastError' = ~Accepted(replacement)

\* The first call, with sources still to be copied, leads to the cache.
ApplyReplacement(replacement) ==
    IF HasSources(replacement.kind)
    THEN ScheduleCache(replacement) /\ UNCHANGED <<composer, lastError>>
    ELSE FillPlain(replacement) /\ CancelCache

---------------------------------------------------------------------------
(* Preparation of a reply, forward or draft. *)

LoopFree == ~halfway    \* the main loop is not inside submit

\* A request for a text: what it will replace and where it was asked.
Requested(kind, sel) ==
    [kind |-> kind, asked |-> composer.generation, selection |-> sel,
     snapshotError |-> kind = "draft" /\ lastError]

\* A worker thread is spawned for the request of this generation.
Spawned(g, request) ==
    [h \in DOMAIN prepWorkers \cup {g} |->
        IF h = g THEN [request |-> request, at |-> "start"] ELSE prepWorkers[h]]

BeginReplacement(kind, sel) ==
    /\ prep' = [next |-> prep.next + 1, active |-> prep.next + 1]
    /\ prepWorkers' = Spawned(prep.next + 1, Requested(kind, sel))

\* schedule_composer_preparation for an answer to the message that is shown.
Respond(kind) ==
    /\ LoopFree /\ question = NoReplacement
    /\ prep.next < MaxPrepared
    /\ BeginReplacement(kind, selection)
    /\ CancelCache
    /\ UNCHANGED <<composer, selection, lastError, question, changes>>

\* open_compose: a blank composer needs no worker.
OpenCompose ==
    /\ LoopFree /\ question = NoReplacement /\ prep.next < MaxPrepared
    /\ prep' = [next |-> prep.next + 1, active |-> 0]
    /\ IF composer.typed
       THEN /\ question' = Requested("new", selection)
            /\ CancelCache
            /\ UNCHANGED <<composer, lastError>>
       ELSE ApplyReplacement(Requested("new", selection)) /\ UNCHANGED question
    /\ UNCHANGED <<selection, prepWorkers, changes>>

\* select_message_by_index with a draft: older preparations are cancelled, the
\* selection moves, and the snapshot is taken with the error that is showing.
SelectDraft ==
    /\ LoopFree /\ question = NoReplacement
    /\ prep.next + 2 <= MaxPrepared /\ changes < MaxChanges
    /\ (EarlierErrors \/ ~lastError)
    /\ changes' = changes + 1
    /\ selection' = selection + 1
    /\ prep' = [next |-> prep.next + 2, active |-> prep.next + 2]
    /\ prepWorkers' = Spawned(prep.next + 2, Requested("draft", selection + 1))
    /\ CancelCache
    /\ UNCHANGED <<composer, lastError, question>>

\* ensure_current: the token still is of the generation of the coordinator.
TokenCurrent(g) == prep.next = g

\* The worker: it is cancelled, fails, or has the text.
Prepare(g, ok) ==
    /\ prepWorkers[g].at = "start"
    /\ prepWorkers' = [prepWorkers EXCEPT ![g].at = IF ok /\ TokenCurrent(g) THEN "ok" ELSE "error"]
    /\ UNCHANGED <<composer, selection, lastError, prep, question, cacheVars, changes>>

\* The poll of one preparation ends with its answer.
Polled(g) == [h \in DOMAIN prepWorkers \ {g} |-> prepWorkers[h]]

\* ComposerPreparationCoordinator::finish
Finishes(g) == prep.active = g /\ TokenCurrent(g)

\* Text and selection are still those the request was made for.
Fresh(request) ==
    request.asked = composer.generation /\ request.selection = selection

PollStale(g) ==
    /\ ~Finishes(g)
    /\ UNCHANGED <<composer, selection, lastError, prep, question, cacheVars>>

\* Superseded, or failed: the selection snapshot of the request is put back.
PollGivesUp(g) ==
    /\ Finishes(g)
    /\ ~Fresh(prepWorkers[g].request) \/ prepWorkers[g].at = "error"
    /\ prep' = [prep EXCEPT !.active = 0]
    /\ selection' = IF prepWorkers[g].request.kind = "draft" THEN selection + 1 ELSE selection
    /\ lastError' = IF Fresh(prepWorkers[g].request)
                    THEN TRUE
                    ELSE IF prepWorkers[g].request.kind = "draft"
                         THEN prepWorkers[g].request.snapshotError ELSE lastError
    /\ UNCHANGED <<composer, question, cacheVars>>

\* request_pending_action: cancels what is being prepared or cached; then the
\* replacement is refused by other activity, asked about, or applied at once.
PollRequests(g, allowed) ==
    LET request == prepWorkers[g].request
    IN  /\ Finishes(g) /\ Fresh(request) /\ prepWorkers[g].at = "ok"
        /\ prep' = [next |-> prep.next + 1, active |-> 0]
        /\ \/ /\ ~allowed
              /\ selection' = IF request.kind = "draft" THEN selection + 1 ELSE selection
              /\ lastError' = IF request.kind = "draft" THEN request.snapshotError ELSE lastError
              /\ CancelCache
              /\ UNCHANGED <<composer, question>>
           \/ /\ allowed /\ composer.typed
              /\ question' = request
              /\ CancelCache
              /\ UNCHANGED <<composer, selection, lastError>>
           \/ /\ allowed /\ ~composer.typed
              /\ ApplyReplacement(request)
              /\ UNCHANGED <<selection, question>>

PollPreparation(g) ==
    /\ LoopFree
    /\ prepWorkers[g].at # "start"
    /\ prepWorkers' = Polled(g)
    /\ PollStale(g) \/ PollGivesUp(g) \/ \E allowed \in BOOLEAN : PollRequests(g, allowed)
    /\ UNCHANGED changes

\* The dialog is modal: no edit comes between the question and the answer.
Confirm ==
    /\ LoopFree /\ question # NoReplacement
    /\ question' = NoReplacement
    /\ ApplyReplacement(question)
    /\ UNCHANGED <<selection, prep, prepWorkers, changes>>

Reject ==
    /\ LoopFree /\ question # NoReplacement
    /\ question' = NoReplacement
    /\ selection' = IF question.kind = "draft" THEN selection + 1 ELSE selection
    /\ lastError' = IF question.kind = "draft" THEN question.snapshotError ELSE lastError
    /\ UNCHANGED <<composer, prep, prepWorkers, cacheVars, changes>>

---------------------------------------------------------------------------
(* What else the user does meanwhile. *)

\* autosave_draft_from_widgets
TypeText ==
    /\ LoopFree /\ question = NoReplacement /\ changes < MaxChanges
    /\ changes' = changes + 1
    /\ composer' = [composer EXCEPT !.generation = @ + 1, !.typed = TRUE]
    /\ CancelCache
    /\ UNCHANGED <<selection, lastError, prep, prepWorkers, question>>

\* A search replaces the selection without cancelling anything here.
Search ==
    /\ LoopFree /\ changes < MaxChanges
    /\ changes' = changes + 1
    /\ selection' = selection + 1
    /\ UNCHANGED <<composer, lastError, prep, prepWorkers, question, cacheVars>>

\* Another operation of the program fails, or succeeds and withdraws its error.
OtherOutcome(failed) ==
    /\ LoopFree /\ lastError # failed
    /\ lastError' = failed
    /\ UNCHANGED <<composer, selection, prep, prepWorkers, question, cacheVars, changes>>

---------------------------------------------------------------------------
(* composer_attachment_cache_worker *)

CacheWakes ==
    /\ cacheJob.at = "idle" /\ service.wake
    /\ service' = [service EXCEPT !.wake = FALSE, !.pending = 0]
    /\ cacheJob' = IF service.pending = 0 THEN IdleJob
                   ELSE [generation |-> service.pending, at |-> "check"]
    /\ UNCHANGED <<composer, selection, lastError, prep, prepWorkers, question, cacheUi, answers,
                   directories, committed, halfway, changes>>

Stopped == cacheJob.generation \in service.stopped

\* The directory of the request is made and its files written; the flag is
\* looked at before and after, and every error removes the directory.
CacheWrites ==
    /\ cacheJob.at = "check"
    /\ cacheJob' = [cacheJob EXCEPT !.at = IF Stopped THEN "failed" ELSE "written"]
    /\ directories' = IF Stopped THEN directories
                                 ELSE directories \cup {cacheJob.generation}
    /\ UNCHANGED <<composer, selection, lastError, prep, prepWorkers, question, cacheUi, service,
                   answers, committed, halfway, changes>>

\* Faulty variant: what a failed request has written is left behind.
KeptAfterError(g) == directories \cup {g}

\* cleanup_cache_directory_after_error
DirectoryCleaned(g) == directories \ {g}

CacheFinishes(ok) ==
    /\ cacheJob.at = "written"
    /\ LET done == ok /\ ~Stopped
       IN  /\ cacheJob' = [cacheJob EXCEPT !.at = IF done THEN "done" ELSE "failed"]
           /\ directories' = IF done THEN directories ELSE DirectoryCleaned(cacheJob.generation)
    /\ UNCHANGED <<composer, selection, lastError, prep, prepWorkers, question, cacheUi, service,
                   answers, committed, halfway, changes>>

\* clear_active_composer_cache: the slot is emptied if it still is this job's.
Cleared(g) == IF service.active = g THEN 0 ELSE service.active

\* The answer reaches the receiver if it is still there, else it is dropped
\* with its lease; the loop then looks for another job before it sleeps.
CacheAnswers ==
    /\ cacheJob.at \in {"done", "failed"}
    /\ LET g == cacheJob.generation
           live == cacheUi.active = g
       IN  /\ answers' = IF live THEN [generation |-> g, ok |-> cacheJob.at = "done"]
                                 ELSE answers
           /\ directories' = IF live \/ cacheJob.at = "failed" THEN directories
                                                               ELSE directories \ {g}
           /\ service' = [service EXCEPT !.active = Cleared(g), !.pending = 0]
           /\ cacheJob' = IF service.pending = 0 THEN IdleJob
                          ELSE [generation |-> service.pending, at |-> "check"]
    /\ UNCHANGED <<composer, selection, lastError, prep, prepWorkers, question, cacheUi, committed,
                   halfway, changes>>

CacheStep == CacheWakes \/ CacheWrites \/ CacheAnswers \/ \E ok \in BOOLEAN : CacheFinishes(ok)

\* The answer is for the text and the selection the copy was begun for.
CacheFresh ==
    /\ composer.generation = cacheUi.captured
    /\ selection = cacheUi.replacement.selection

\* Faulty variant: the lease is never committed.
LeasedNever(g, kept) == directories \ {g}

\* The lease is committed when the replacement was accepted, else dropped.
Leased(g, kept) == IF kept THEN directories ELSE directories \ {g}

\* The poll of the cache: superseded, failed, or the composer is filled.
PollCache ==
    /\ LoopFree
    /\ cacheUi.active # 0 /\ answers.generation = cacheUi.active
    /\ cacheUi' = [cacheUi EXCEPT !.active = 0, !.replacement = NoReplacement]
    /\ answers' = NoAnswer
    /\ \/ /\ ~CacheFresh
          /\ directories' = DropReceiver
          /\ UNCHANGED <<composer, lastError, committed>>
       \/ /\ CacheFresh /\ ~answers.ok
          /\ lastError' = TRUE
          /\ UNCHANGED <<composer, directories, committed>>
       \/ /\ CacheFresh /\ answers.ok
          /\ composer' = Filled(cacheUi.replacement.kind, answers.generation)
          /\ lastError' = ~Accepted(cacheUi.replacement)
          /\ directories' = Leased(answers.generation, Accepted(cacheUi.replacement))
          /\ committed' = committed \cup (directories' \cap {answers.generation})
    /\ UNCHANGED <<selection, prep, prepWorkers, question, service, cacheJob, halfway, changes>>

---------------------------------------------------------------------------
ReplacementNext ==
    \/ \E kind \in Kinds : Respond(kind)
    \/ OpenCompose \/ SelectDraft \/ Confirm \/ Reject \/ TypeText \/ Search \/ WakeWorker
    \/ \E failed \in BOOLEAN : OtherOutcome(failed)
    \/ \E g \in DOMAIN prepWorkers : PollPreparation(g) \/ \E ok \in BOOLEAN : Prepare(g, ok)
    \/ CacheStep
    \/ PollCache

\* The worker thread runs, the main loop polls every 20 ms and finishes submit.
ReplacementFairness ==
    /\ WF_replacementVars(WakeWorker)
    /\ WF_replacementVars(CacheStep)
    /\ WF_replacementVars(PollCache)

ReplacementSpec == ReplacementInit /\ [][ReplacementNext]_replacementVars /\ ReplacementFairness

---------------------------------------------------------------------------
(* Properties *)

\* The shape of the state; a generation is never ahead of its counter.
ReplacementTypeOK ==
    /\ composer.files \in directories \cup 0..MaxCached
    /\ prep.active \in {0, prep.next}
    /\ DOMAIN prepWorkers \subseteq 1..prep.next
    /\ cacheUi.active \in {0, cacheUi.generation}
    /\ service.pending \in {0, service.active}
    /\ cacheJob.at \in {"idle", "check", "written", "done", "failed"}
    /\ answers.generation \in {0, cacheUi.active}
    /\ halfway \in BOOLEAN /\ lastError \in BOOLEAN

\* The files the composer's fields name are on disk: the lease of the copies
\* is given up only when the fields were not filled (attachment_io.rs:560-586,
\* main_window.rs:8441-8456).
AttachedFilesExist == composer.files # 0 => composer.files \in directories

\* No directory is left behind by a superseded, cancelled or failed request:
\* each belongs to the running job, to an answer that will be read, or to a
\* text that was filled (attachment_io.rs:888-909).
NoOrphanDirectory ==
    \A d \in directories :
        \/ d = cacheJob.generation /\ cacheJob.at \in {"written", "done"}
        \/ d = answers.generation
        \/ d \in committed

\* A job the window has lost interest in is told to stop: whichever job runs
\* or waits is the one awaited, unless its flag is set (attachment_io.rs:1048).
CancelReachesCache ==
    \A g \in {service.pending, cacheJob.generation} \ {0} :
        g = cacheUi.active \/ g \in service.stopped \/ cacheJob.at \in {"done", "failed"}

\* Nothing the user typed after asking is overwritten: the composer is filled
\* only over the text that was there when the request was made, even though
\* the copy of the attachments is compared with a later capture.
FillsOverAskedText ==
    [][/\ (composer'.files # composer.files /\ composer'.files # 0)
            => cacheUi.replacement.asked = composer.generation
       /\ (question # NoReplacement /\ composer' # composer)
            => question.asked = composer.generation]_replacementVars

\* The controls that a pending copy disables come back: every copy ends
\* (main_window.rs:8397-8480).
CacheEnds == \A g \in 1..MaxCached : (cacheUi.active = g) ~> (cacheUi.active # g)
=============================================================================
