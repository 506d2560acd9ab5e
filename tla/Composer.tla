------------------------------- MODULE Composer --------------------------------
(***************************************************************************)
(* The composer of the main window: editing, saving, discarding, sending   *)
(* and deleting a draft, and closing the window, over the recovery writer  *)
(* of DraftAutosave (crates/notm-ui/src/main_window.rs, widgets/           *)
(* composer.rs).                                                           *)
(*                                                                         *)
(* Handlers run one at a time on the main thread.  Those that need the     *)
(* draft to be durable flush it and go on in the flush's callback, while   *)
(* the user keeps editing.  callbacks holds what each registered callback  *)
(* captured, delivering the callbacks that the running finish_write has    *)
(* still to call.                                                          *)
(*                                                                         *)
(* fields is the text in the widgets: Blank or a content, and every edit   *)
(* makes a content of its own, named by the generation it begins.          *)
(***************************************************************************)
EXTENDS DraftAutosave, FiniteSets

CONSTANTS
    Operations,      \* what the user does, besides editing
    MaxOperations    \* bound on the user's steps

ASSUME ComposerAssumption ==
    /\ Operations \subseteq {"send", "save", "clear", "new", "delete", "close"}
    /\ MaxOperations \in Nat
    /\ 1 .. MaxGeneration \subseteq Contents /\ 0 \notin Contents

Blank == 0

(* ActiveDraft: the file the composer was saved to or loaded from. *)
NoActiveDraft == [path |-> 0, saved_fields |-> Blank]

VARIABLES
    compose_generation,
    fields,             \* what the widgets hold
    active_draft,
    drafts,             \* saved draft files: [path, content]
    capture,            \* draft_capture_source: its generation, or 0
    confirmation,       \* the pending confirmation dialog, if any
    send,               \* the send in progress
    save,               \* the draft save or deletion in progress
    window,             \* [visible, close_when_idle, close_flush, exit, closed]
    callbacks,          \* registered flush callbacks: [flush, op, generation]
    delivering,         \* the callbacks finish_write has yet to run
    outcome,            \* the result finish_write delivers
    operations,         \* number of user steps so far
    accepted,           \* history: contents the transport accepted
    given_up            \* history: contents the user chose to discard

composerVars ==
    <<compose_generation, fields, active_draft, drafts, capture, confirmation,
      send, save, window, callbacks, delivering, outcome, operations, accepted,
      given_up>>

allVars == <<vars, composerVars>>

NoSend == [phase |-> "idle", generation |-> 0, fields |-> Blank, draft |-> NoActiveDraft]
NoSave == [phase |-> "idle", generation |-> 0, fields |-> Blank, draft |-> NoActiveDraft,
           path |-> 0]
NoConfirmation ==
    [kind |-> "none", generation |-> 0, fields |-> Blank, draft |-> NoActiveDraft]

ComposerInit ==
    /\ Init
    /\ compose_generation = 0
    /\ fields = Blank
    /\ active_draft = NoActiveDraft
    /\ drafts = {}
    /\ capture = 0
    /\ confirmation = NoConfirmation
    /\ send = NoSend
    /\ save = NoSave
    /\ window = [visible |-> TRUE, close_when_idle |-> FALSE, close_flush |-> FALSE,
                 exit |-> FALSE, closed |-> FALSE]
    /\ callbacks = {}
    /\ delivering = {}
    /\ outcome = "ok"
    /\ operations = 0
    /\ accepted = {}
    /\ given_up = {}

--------------------------------------------------------------------------------
(* What the handlers ask of the state.                                       *)

(* Faulty variant: a draft with a file needs no recovery, edited or not. *)
RecoveryActionForFile(f, draft) ==
    IF f = Blank \/ draft # NoActiveDraft THEN Clear ELSE Persist(f)

(* recovery_action_for_fields *)
RecoveryActionFor(f, draft) ==
    IF f = Blank \/ (draft # NoActiveDraft /\ draft.saved_fields = f)
    THEN Clear ELSE Persist(f)

(* composer_requires_confirmation *)
RequiresConfirmation(f, draft) ==
    IF draft # NoActiveDraft THEN f # draft.saved_fields ELSE f # Blank

(* Application holds: they keep the process alive once the window is gone.   *)
Held ==
    \/ send.phase \notin {"idle", "flushing"}
    \/ save.phase \notin {"idle", "delete updating"}

Alive == ~window.closed \/ Held

(* The main thread is free to dispatch the next handler. *)
MainLoop == Alive /\ ~finishing

(* A user step on the visible window, under no modal dialog. *)
UserStep ==
    /\ MainLoop
    /\ window.visible /\ ~window.closed
    /\ confirmation = NoConfirmation
    /\ operations < MaxOperations
    /\ operations' = operations + 1

(* ensure_user_operation_allowed, for every operation but an edit. *)
OperationAllowed == send.phase = "idle" /\ save.phase = "idle"

(* flush with a callback that remembers op and the generation. *)
FlushThen(g, a, op) ==
    /\ FlushBoundary(g, a)
    /\ callbacks' = callbacks \cup {[flush |-> flushes + 1, op |-> op, generation |-> g]}

NoFlush == UNCHANGED <<ctl, workers, recovery, flushes, finishing, callbacks>>

(* flush_and_close_main_window with the composer as f, draft and g say. *)
FlushAndClose(f, draft, g) ==
    IF window.close_flush
    THEN NoFlush /\ UNCHANGED capture
    ELSE capture' = 0 /\ FlushThen(g, RecoveryActionFor(f, draft), "close")

(* Faulty variant: the deferred close is forgotten. *)
CloseAfterActivityNever(f, draft, g) ==
    NoFlush /\ UNCHANGED <<window, capture, confirmation>>

(***************************************************************************)
(* close_main_window_after_background_activity, called when a send or a    *)
(* save has just ended with the composer as f, draft and g say.  An exit   *)
(* goes through the close handler again, and so may have to ask.           *)
(***************************************************************************)
CloseAfterActivity(f, draft, g) ==
    IF ~window.close_when_idle
    THEN NoFlush /\ UNCHANGED <<window, capture, confirmation>>
    ELSE IF window.exit /\ RequiresConfirmation(f, draft)
    THEN /\ window' = [window EXCEPT !.close_when_idle = FALSE, !.visible = TRUE]
         /\ confirmation' = [NoConfirmation EXCEPT !.kind = "close"]
         /\ NoFlush /\ UNCHANGED capture
    ELSE /\ window' = [window EXCEPT !.close_when_idle = FALSE, !.close_flush = TRUE]
         /\ FlushAndClose(f, draft, g)
         /\ UNCHANGED confirmation

--------------------------------------------------------------------------------
(* Editing.                                                                  *)

(* autosave_draft_from_widgets: the text becomes f and the capture timer     *)
(* starts again for the new generation.                                      *)
Edit(f) ==
    /\ UserStep
    /\ compose_generation < MaxGeneration
    /\ compose_generation' = compose_generation + 1
    /\ fields' = f
    /\ capture' = compose_generation + 1
    /\ NoFlush
    /\ UNCHANGED <<active_draft, drafts, confirmation, send, save, window,
                   delivering, outcome, accepted, given_up>>

(* The capture timer reads the fields and schedules their recovery write.    *)
CaptureFires ==
    /\ MainLoop
    /\ capture # 0
    /\ capture' = 0
    /\ ScheduleEdit(capture, RecoveryActionFor(fields, active_draft))
    /\ UNCHANGED <<compose_generation, fields, active_draft, drafts, confirmation,
                   send, save, window, callbacks, delivering, outcome, operations,
                   accepted, given_up>>

(* clear_draft_widgets, reset_composer_fields: an empty composer of a new    *)
(* generation.                                                               *)
EmptyComposer ==
    /\ compose_generation < MaxGeneration
    /\ fields' = Blank
    /\ compose_generation' = compose_generation + 1
    /\ active_draft' = NoActiveDraft

KeepComposer == UNCHANGED <<fields, compose_generation, active_draft>>

--------------------------------------------------------------------------------
(* Transitions that may need a confirmation (request_pending_action).        *)

Confirm(kind, f, draft, g) ==
    /\ confirmation' = [kind |-> kind, generation |-> g, fields |-> f, draft |-> draft]
    /\ NoFlush

(* clear_current_draft_immediately *)
ClearNow ==
    /\ capture' = 0
    /\ given_up' = given_up \cup {fields}
    /\ FlushThen(compose_generation, Clear, "clear")

(* apply_prepared_composer_replacement with an empty message. *)
ReplaceNow ==
    /\ EmptyComposer
    /\ capture' = 0
    /\ given_up' = given_up \cup {fields}
    /\ ScheduleEdit(compose_generation + 1, Clear)
    /\ UNCHANGED callbacks

(* start_captured_send *)
StartCapturedSend(f, draft, g) ==
    /\ send' = [phase |-> "flushing", generation |-> g, fields |-> f, draft |-> draft]
    /\ FlushThen(g, RecoveryActionFor(f, active_draft), "send")

(* start_captured_draft_save: its boundary is the generation of this moment. *)
StartCapturedSave(f, previous) ==
    /\ save' = [NoSave EXCEPT !.phase = "boundary", !.fields = f, !.draft = previous]
    /\ FlushThen(compose_generation, Persist(f), "save boundary")

(* delete_captured_active_draft *)
StartDelete(draft) ==
    /\ save' = [NoSave EXCEPT !.phase = "deleting", !.generation = compose_generation,
                               !.draft = draft]
    /\ NoFlush

Asked(op) == UserStep /\ op \in Operations /\ OperationAllowed

ClearComposer ==
    /\ Asked("clear")
    /\ IF RequiresConfirmation(fields, active_draft)
       THEN Confirm("clear", Blank, NoActiveDraft, 0) /\ UNCHANGED <<capture, given_up>>
       ELSE ClearNow /\ UNCHANGED confirmation
    /\ KeepComposer
    /\ UNCHANGED <<drafts, send, save, window, delivering, outcome, accepted>>

NewMessage ==
    /\ Asked("new")
    /\ IF RequiresConfirmation(fields, active_draft)
       THEN /\ Confirm("new", Blank, NoActiveDraft, 0)
            /\ KeepComposer /\ UNCHANGED <<capture, given_up>>
       ELSE ReplaceNow /\ UNCHANGED confirmation
    /\ UNCHANGED <<drafts, send, save, window, delivering, outcome, accepted>>

(* send_compose: sending a saved draft deletes it, and so must be confirmed. *)
SendCompose ==
    /\ Asked("send")
    /\ capture' = 0
    /\ IF active_draft # NoActiveDraft
       THEN /\ Confirm("send", fields, active_draft, compose_generation)
            /\ UNCHANGED send
       ELSE /\ StartCapturedSend(fields, NoActiveDraft, compose_generation)
            /\ UNCHANGED confirmation
    /\ KeepComposer
    /\ UNCHANGED <<drafts, save, window, delivering, outcome, accepted, given_up>>

(* request_save_current_draft *)
SaveDraft ==
    /\ Asked("save")
    /\ fields # Blank
    /\ capture' = 0
    /\ \/ /\ active_draft # NoActiveDraft /\ active_draft.saved_fields = fields
          /\ save' = [NoSave EXCEPT !.phase = "reconciling"]
          /\ FlushThen(compose_generation, Clear, "reconciled")
          /\ UNCHANGED confirmation
       \/ /\ active_draft # NoActiveDraft /\ active_draft.saved_fields # fields
          /\ Confirm("save", fields, active_draft, compose_generation)
          /\ UNCHANGED save
       \/ /\ active_draft = NoActiveDraft
          /\ StartCapturedSave(fields, NoActiveDraft)
          /\ UNCHANGED confirmation
    /\ KeepComposer
    /\ UNCHANGED <<drafts, send, window, delivering, outcome, accepted, given_up>>

DeleteActiveDraft ==
    /\ Asked("delete")
    /\ active_draft # NoActiveDraft
    /\ Confirm("delete", Blank, active_draft, 0)
    /\ KeepComposer
    /\ UNCHANGED <<drafts, capture, send, save, window, delivering, outcome,
                   accepted, given_up>>

(* The close-request handler, reached from the window or from Exit.          *)
CloseRequest(exit) ==
    /\ UserStep
    /\ "close" \in Operations
    /\ \/ /\ ~OperationAllowed
          /\ window' = [window EXCEPT !.close_when_idle = TRUE, !.visible = FALSE,
                                      !.exit = window.exit \/ exit]
          /\ NoFlush /\ UNCHANGED <<capture, confirmation>>
       \/ /\ OperationAllowed /\ ~RequiresConfirmation(fields, active_draft)
          /\ window' = [window EXCEPT !.close_flush = TRUE, !.exit = window.exit \/ exit]
          /\ FlushAndClose(fields, active_draft, compose_generation)
          /\ UNCHANGED confirmation
       \/ /\ OperationAllowed /\ RequiresConfirmation(fields, active_draft)
          /\ window' = [window EXCEPT !.exit = window.exit \/ exit]
          /\ Confirm("close", Blank, NoActiveDraft, 0)
          /\ UNCHANGED capture
    /\ KeepComposer
    /\ UNCHANGED <<drafts, send, save, delivering, outcome, accepted, given_up>>

(* open_or_present_main_window: notm is started again. *)
Present ==
    /\ MainLoop
    /\ ~window.closed /\ ~window.visible
    /\ window' = [window EXCEPT !.visible = TRUE, !.close_when_idle = FALSE, !.exit = FALSE]
    /\ NoFlush
    /\ UNCHANGED <<compose_generation, fields, active_draft, drafts, capture,
                   confirmation, send, save, delivering, outcome, operations,
                   accepted, given_up>>

(* complete_pending_confirmation: the dialog is modal, so OperationAllowed   *)
(* still holds when it is answered.                                          *)
Reject ==
    /\ MainLoop
    /\ confirmation # NoConfirmation
    /\ confirmation' = NoConfirmation
    /\ window' = [window EXCEPT !.exit = IF confirmation.kind = "close" THEN FALSE ELSE @]
    /\ NoFlush
    /\ UNCHANGED <<compose_generation, fields, active_draft, drafts, capture, send,
                   save, delivering, outcome, operations, accepted, given_up>>

AcceptConfirmation(kind) ==
    /\ MainLoop
    /\ confirmation.kind = kind
    /\ OperationAllowed
    /\ confirmation' = NoConfirmation
    /\ UNCHANGED <<drafts, delivering, outcome, operations, accepted>>

AcceptClear ==
    /\ AcceptConfirmation("clear")
    /\ ClearNow
    /\ KeepComposer /\ UNCHANGED <<send, save, window>>

AcceptNew ==
    /\ AcceptConfirmation("new")
    /\ ReplaceNow
    /\ UNCHANGED <<send, save, window>>

AcceptSend ==
    /\ AcceptConfirmation("send")
    /\ StartCapturedSend(confirmation.fields, confirmation.draft, confirmation.generation)
    /\ KeepComposer /\ UNCHANGED <<capture, save, window, given_up>>

AcceptSave ==
    /\ AcceptConfirmation("save")
    /\ StartCapturedSave(confirmation.fields, confirmation.draft)
    /\ KeepComposer /\ UNCHANGED <<capture, send, window, given_up>>

AcceptDelete ==
    /\ AcceptConfirmation("delete")
    /\ StartDelete(confirmation.draft)
    /\ given_up' = given_up \cup {confirmation.draft.saved_fields, fields}
    /\ KeepComposer /\ UNCHANGED <<capture, send, window>>

AcceptClose ==
    /\ AcceptConfirmation("close")
    /\ window' = [window EXCEPT !.close_flush = TRUE]
    /\ FlushAndClose(fields, active_draft, compose_generation)
    /\ KeepComposer /\ UNCHANGED <<send, save, given_up>>

--------------------------------------------------------------------------------
(* finish_write and its callbacks, in the order they were registered.        *)

ReceiveResult(w) ==
    /\ MainLoop
    /\ FinishWrite(w)
    /\ delivering' = {cb \in callbacks : \E x \in ReadyWaiters(ctl) : x.flush = cb.flush}
    /\ callbacks' = callbacks \ delivering'
    /\ outcome' = w.phase
    /\ UNCHANGED <<compose_generation, fields, active_draft, drafts, capture,
                   confirmation, send, save, window, operations, accepted, given_up>>

CallbacksDone ==
    /\ delivering = {}
    /\ ResumeWrites
    /\ UNCHANGED composerVars

First == CHOOSE cb \in delivering : \A d \in delivering : cb.flush <= d.flush

Callback(op) ==
    /\ finishing /\ delivering # {} /\ First.op = op
    /\ delivering' = delivering \ {First}
    /\ UNCHANGED <<drafts, outcome, operations, accepted, given_up>>

(* The composer is as it was when the flush was called. *)
Current == compose_generation = First.generation

(* Faulty variant: the transport starts whatever became of the flush. *)
SendFlushedAnyway ==
    /\ Callback("send")
    /\ send' = [send EXCEPT !.phase = "transport"]
    /\ NoFlush /\ KeepComposer
    /\ UNCHANGED <<window, capture, confirmation, save>>

(* launch_captured_send_after_flush, or fail_send_before_transport: without  *)
(* its application the window cannot hold the process for the transport.     *)
SendFlushed ==
    /\ Callback("send")
    /\ \/ /\ outcome = "ok" /\ ~window.closed
          /\ send' = [send EXCEPT !.phase = "transport"]
          /\ UNCHANGED window
       \/ /\ outcome = "failed" \/ window.closed
          /\ send' = NoSend
          /\ window' = [window EXCEPT !.close_when_idle = FALSE, !.exit = FALSE,
                                      !.visible = TRUE]
    /\ NoFlush /\ KeepComposer
    /\ UNCHANGED <<capture, confirmation, save>>

(* clear_current_draft_immediately's callback: superseded by a newer edit.   *)
ComposerCleared ==
    /\ Callback("clear")
    /\ IF outcome = "ok" /\ Current THEN EmptyComposer ELSE KeepComposer
    /\ NoFlush
    /\ UNCHANGED <<capture, confirmation, send, save, window>>

(* flush_latest_draft_then_close's callback: flush again after a newer edit. *)
CloseFlushed ==
    /\ Callback("close")
    /\ \/ /\ outcome = "ok" /\ ~Current
          /\ capture' = 0
          /\ FlushThen(compose_generation, RecoveryActionFor(fields, active_draft), "close")
          /\ UNCHANGED window
       \/ /\ outcome = "ok" /\ Current
          /\ window' = [window EXCEPT !.close_flush = FALSE, !.exit = FALSE, !.closed = TRUE]
          /\ NoFlush /\ UNCHANGED capture
       \/ /\ outcome = "failed"
          /\ window' = [window EXCEPT !.close_flush = FALSE, !.exit = FALSE, !.visible = TRUE]
          /\ NoFlush /\ UNCHANGED capture
    /\ KeepComposer
    /\ UNCHANGED <<confirmation, send, save>>

--------------------------------------------------------------------------------
(* Sending.                                                                  *)

SendWorkerStep ==
    /\ Alive
    /\ NoFlush /\ KeepComposer
    /\ UNCHANGED <<capture, confirmation, save, window, delivering, outcome,
                   operations, given_up>>

(* execute_send: the transport accepts the message, or composing it or       *)
(* handing it over fails, or it is rejected.                                 *)
TransportAccepts ==
    /\ SendWorkerStep
    /\ send.phase = "transport" /\ send.fields # Blank
    /\ send' = [send EXCEPT !.phase = "accepted"]
    /\ accepted' = accepted \cup {send.fields}
    /\ UNCHANGED drafts

TransportRefuses ==
    /\ SendWorkerStep
    /\ send.phase = "transport"
    /\ send' = [send EXCEPT !.phase = "refused"]
    /\ UNCHANGED <<drafts, accepted>>

(* spawn_sent_draft_delete's worker *)
SentDraftDelete(ok) ==
    /\ SendWorkerStep
    /\ send.phase = "deleting"
    /\ send' = [send EXCEPT !.phase = IF ok THEN "deleted" ELSE "kept"]
    /\ drafts' = IF ok THEN {d \in drafts : d.path # send.draft.path} ELSE drafts
    /\ UNCHANGED accepted

SendPoll ==
    /\ MainLoop
    /\ UNCHANGED <<drafts, save, delivering, outcome, operations, accepted, given_up>>

(* finish_send_failure, and finish_send_success of a rejected message *)
SendRefused ==
    /\ SendPoll
    /\ send.phase = "refused"
    /\ send' = NoSend
    /\ KeepComposer
    /\ CloseAfterActivity(fields, active_draft, compose_generation)

(* Faulty variant: the recovery file is left as it was. *)
FinishSendSuccessUncleared(deleted) ==
    /\ active_draft' = IF deleted THEN NoActiveDraft ELSE active_draft
    /\ UNCHANGED <<fields, compose_generation>>
    /\ send' = NoSend
    /\ CloseAfterActivity(fields, active_draft', compose_generation)

(***************************************************************************)
(* finish_send_success of an accepted message.  The recovery file is       *)
(* cleared only if the composer is unchanged and its source is gone        *)
(* (plan_accepted_send_cleanup).                                           *)
(***************************************************************************)
FinishSendSuccess(deleted) ==
    LET clearActive == send.draft # NoActiveDraft /\ deleted /\ active_draft = send.draft
        draft == IF clearActive THEN NoActiveDraft ELSE active_draft
        clearRecovery == /\ compose_generation = send.generation
                         /\ send.draft = NoActiveDraft \/ deleted
    IN  /\ active_draft' = draft
        /\ UNCHANGED <<fields, compose_generation>>
        /\ IF clearRecovery
           THEN /\ send' = [send EXCEPT !.phase = "clearing"]
                /\ FlushThen(send.generation, Clear, "sent clear")
                /\ UNCHANGED <<window, capture, confirmation>>
           ELSE /\ send' = NoSend
                /\ CloseAfterActivity(fields, draft, compose_generation)

(* begin_accepted_send_cleanup *)
SendAccepted ==
    /\ SendPoll
    /\ send.phase = "accepted"
    /\ IF send.draft = NoActiveDraft \/ active_draft # send.draft
       THEN FinishSendSuccess(FALSE)
       ELSE /\ send' = [send EXCEPT !.phase = "deleting"]
            /\ NoFlush /\ KeepComposer
            /\ UNCHANGED <<window, capture, confirmation>>

SentDraftHandled ==
    /\ SendPoll
    /\ send.phase \in {"deleted", "kept"}
    /\ FinishSendSuccess(send.phase = "deleted")

(* Faulty variant: the composer is reset though it was edited meanwhile. *)
SentClearedStale ==
    /\ Callback("sent clear")
    /\ EmptyComposer
    /\ send' = NoSend
    /\ CloseAfterActivity(Blank, NoActiveDraft, compose_generation + 1)
    /\ UNCHANGED save

(* The callback of the accepted send's clear (accepted_send_post_clear_decision). *)
SentCleared ==
    /\ Callback("sent clear")
    /\ \/ /\ ~Current
          /\ capture' = 0
          /\ send' = [send EXCEPT !.phase = "repersisting"]
          /\ FlushThen(compose_generation, RecoveryActionFor(fields, active_draft),
                       "sent repersist")
          /\ KeepComposer
          /\ UNCHANGED <<window, confirmation>>
       \/ /\ Current /\ outcome = "ok"
          /\ EmptyComposer
          /\ send' = NoSend
          /\ CloseAfterActivity(Blank, NoActiveDraft, compose_generation + 1)
       \/ /\ Current /\ outcome = "failed"
          /\ KeepComposer
          /\ send' = NoSend
          /\ CloseAfterActivity(fields, active_draft, compose_generation)
    /\ UNCHANGED save

(* Faulty variant: the send is never marked as finished. *)
SentRepersistedOnly ==
    /\ Callback("sent repersist")
    /\ NoFlush /\ KeepComposer
    /\ UNCHANGED <<window, capture, confirmation, send, save>>

SentRepersisted ==
    /\ Callback("sent repersist")
    /\ send' = NoSend
    /\ KeepComposer
    /\ CloseAfterActivity(fields, active_draft, compose_generation)
    /\ UNCHANGED save

--------------------------------------------------------------------------------
(* Saving and deleting a draft.                                              *)

SaveBoundaryFlushed ==
    /\ Callback("save boundary")
    /\ KeepComposer
    /\ IF outcome = "ok"
       THEN /\ save' = [save EXCEPT !.phase = "writing"]
            /\ NoFlush
            /\ UNCHANGED <<window, capture, confirmation>>
       ELSE /\ save' = NoSave
            /\ CloseAfterActivity(fields, active_draft, compose_generation)
    /\ UNCHANGED send

SaveWorkerStep ==
    /\ Alive
    /\ NoFlush /\ KeepComposer
    /\ UNCHANGED <<capture, confirmation, send, window, delivering, outcome,
                   operations, accepted, given_up>>

Without(path) == {d \in drafts : d.path # path}

(***************************************************************************)
(* perform_captured_draft_save: a local draft saved locally is replaced in *)
(* place, anything else is a new file whose predecessor is then deleted.   *)
(* Where the files live is not modelled, so either may happen.  A new name *)
(* is unique; the number of the user's step stands for it.                 *)
(***************************************************************************)
SaveWritesDraft ==
    /\ SaveWorkerStep
    /\ save.phase = "writing"
    /\ \E path \in {operations, save.draft.path} \ {0} :
           /\ drafts' = Without(path) \cup {[path |-> path, content |-> save.fields]}
           /\ save' = [save EXCEPT
                  !.phase = IF save.draft.path \in {0, path} THEN "saved" ELSE "replacing",
                  !.path = path]

SaveWriteFails ==
    /\ SaveWorkerStep
    /\ save.phase = "writing"
    /\ save' = [save EXCEPT !.phase = "failed"]
    /\ UNCHANGED drafts

SaveDeletesPrevious ==
    /\ SaveWorkerStep
    /\ save.phase = "replacing"
    /\ drafts' = Without(save.draft.path)
    /\ save' = [save EXCEPT !.phase = "saved"]

(* Faulty variant: rolling back also loses the previous draft. *)
SaveRollsBackBoth(ok) ==
    /\ SaveWorkerStep
    /\ save.phase = "replacing"
    /\ drafts' = IF ok THEN Without(save.path) \ {d \in drafts : d.path = save.draft.path}
                 ELSE drafts
    /\ save' = [save EXCEPT !.phase = "failed"]

(* The previous draft cannot be deleted: the new one is rolled back.         *)
SaveRollsBack(ok) ==
    /\ SaveWorkerStep
    /\ save.phase = "replacing"
    /\ drafts' = IF ok THEN Without(save.path) ELSE drafts
    /\ save' = [save EXCEPT !.phase = "failed"]

(* delete_captured_active_draft's worker *)
DeleteSource(ok) ==
    /\ SaveWorkerStep
    /\ save.phase = "deleting"
    /\ drafts' = IF ok THEN Without(save.draft.path) ELSE drafts
    /\ save' = [save EXCEPT !.phase = IF ok THEN "deleted" ELSE "failed"]

SavePoll ==
    /\ MainLoop
    /\ UNCHANGED <<drafts, send, delivering, outcome, operations, accepted, given_up>>

(* finish_draft_save_failure *)
SaveFailed ==
    /\ SavePoll
    /\ save.phase = "failed"
    /\ save' = NoSave
    /\ KeepComposer
    /\ CloseAfterActivity(fields, active_draft, compose_generation)

(* finish_draft_save_worker_success *)
SaveSucceeded ==
    /\ SavePoll
    /\ save.phase = "saved"
    /\ active_draft' = [path |-> save.path, saved_fields |-> save.fields]
    /\ save' = [save EXCEPT !.phase = "updating"]
    /\ FlushThen(compose_generation, RecoveryActionFor(fields, active_draft'), "save updated")
    /\ UNCHANGED <<fields, compose_generation, window, capture, confirmation>>

(* finish_draft_save_success, after a save and after a reconciliation *)
SaveUpdated ==
    /\ Callback("save updated") \/ Callback("reconciled")
    /\ save' = NoSave
    /\ KeepComposer
    /\ CloseAfterActivity(fields, active_draft, compose_generation)
    /\ UNCHANGED send

(* finish_active_draft_delete *)
DeleteSucceeded ==
    /\ SavePoll
    /\ save.phase = "deleted"
    /\ LET wasActive == active_draft = save.draft
           draft == IF wasActive THEN NoActiveDraft ELSE active_draft
           unchanged == wasActive /\ compose_generation = save.generation
       IN  /\ active_draft' = draft
           /\ IF unchanged
              THEN FlushThen(compose_generation, Clear, "delete cleared")
              ELSE FlushThen(compose_generation, RecoveryActionFor(fields, draft),
                             "delete updated")
    /\ save' = [save EXCEPT !.phase = "delete updating"]
    /\ UNCHANGED <<fields, compose_generation, window, capture, confirmation>>

DeleteUpdated ==
    /\ Callback("delete cleared") \/ Callback("delete updated")
    /\ save' = NoSave
    /\ IF outcome = "ok" /\ First.op = "delete cleared" /\ Current
       THEN EmptyComposer /\ CloseAfterActivity(Blank, NoActiveDraft, compose_generation + 1)
       ELSE KeepComposer /\ CloseAfterActivity(fields, active_draft, compose_generation)
    /\ UNCHANGED send

--------------------------------------------------------------------------------
UserActions ==
    \/ \E f \in {Blank, compose_generation + 1} : Edit(f)
    \/ ClearComposer \/ NewMessage \/ SendCompose \/ SaveDraft \/ DeleteActiveDraft
    \/ \E exit \in BOOLEAN : CloseRequest(exit)
    \/ Present
    \/ Reject
    \/ AcceptClear \/ AcceptNew \/ AcceptSend \/ AcceptSave \/ AcceptDelete \/ AcceptClose

Timers ==
    \/ CaptureFires
    \/ MainLoop /\ DebounceFires /\ UNCHANGED composerVars

RecoveryWriter ==
    /\ Alive \/ finishing
    /\ \E w \in workers : WorkerStep(w)
    /\ UNCHANGED composerVars

Callbacks ==
    \/ \E w \in workers : ReceiveResult(w)
    \/ CallbacksDone
    \/ SendFlushed \/ ComposerCleared \/ CloseFlushed
    \/ SentCleared \/ SentRepersisted
    \/ SaveBoundaryFlushed \/ SaveUpdated \/ DeleteUpdated

SendSteps ==
    \/ TransportAccepts \/ TransportRefuses
    \/ \E ok \in BOOLEAN : SentDraftDelete(ok)
    \/ SendRefused \/ SendAccepted \/ SentDraftHandled

SaveSteps ==
    \/ SaveWritesDraft \/ SaveWriteFails \/ SaveDeletesPrevious
    \/ \E ok \in BOOLEAN : SaveRollsBack(ok)
    \/ \E ok \in BOOLEAN : DeleteSource(ok)
    \/ SaveFailed \/ SaveSucceeded \/ DeleteSucceeded

ComposerNext ==
    UserActions \/ Timers \/ RecoveryWriter \/ Callbacks \/ SendSteps \/ SaveSteps

(***************************************************************************)
(* Timers and polls of the main loop are dispatched, worker threads end    *)
(* (the transport has a timeout), and finish_write runs its callbacks.     *)
(* The user owes nothing.                                                  *)
(***************************************************************************)
ComposerFairness ==
    /\ WF_allVars(Timers)
    /\ WF_allVars(RecoveryWriter)
    /\ WF_allVars(Callbacks)
    /\ WF_allVars(SendSteps)
    /\ WF_allVars(SaveSteps)

ComposerSpec == ComposerInit /\ [][ComposerNext]_allVars /\ ComposerFairness

--------------------------------------------------------------------------------
(* Properties.                                                               *)

ComposerTypeOK ==
    /\ TypeOK
    /\ compose_generation \in Generations
    /\ fields \in Contents \cup {Blank}
    /\ active_draft \in [path : Nat, saved_fields : Contents \cup {Blank}]
    /\ drafts \subseteq [path : Nat, content : Contents]
    /\ capture \in Generations
    /\ window \in [visible : BOOLEAN, close_when_idle : BOOLEAN, close_flush : BOOLEAN,
                   exit : BOOLEAN, closed : BOOLEAN]
    /\ flushes < MaxFlushes /\ ctl.next_request_id < MaxRequests
    /\ \A cb \in callbacks : \E x \in ctl.waiters : x.flush = cb.flush

Durable == recovery \cup {d.content : d \in drafts}

(***************************************************************************)
(* start_captured_send flushes before it spawns the transport: when the    *)
(* transport starts, the text that is being sent is on disk, as the        *)
(* recovery draft or as the saved draft, unless the user has edited it     *)
(* since and the newer text may have taken its place there.                *)
(***************************************************************************)
TransportAfterDurable ==
    [][/\ send.phase = "flushing" /\ send'.phase = "transport"
       /\ send.generation = compose_generation
       => send.fields \in Durable \cup {Blank}]_allVars

(***************************************************************************)
(* Apart from the user's own edits, the composer drops a text only if the  *)
(* transport accepted that very text, if the user gave it up, or if it is  *)
(* saved: a clear, a delete or a send that ends late never takes away what *)
(* was typed meanwhile.                                                    *)
(***************************************************************************)
NothingTypedIsLost ==
    [][fields' # fields /\ capture' # compose_generation'
          => fields \in accepted \cup given_up' \cup Durable \cup {Blank}]_allVars

(***************************************************************************)
(* The main window closes only when what the composer holds is on disk, or *)
(* belongs to a draft the user has chosen to delete.                       *)
(***************************************************************************)
CloseKeepsDraft ==
    [][window'.closed /\ ~window.closed 
          => fields \in Durable \cup given_up \cup {Blank}]_allVars

(***************************************************************************)
(* The text of a saved draft leaves the disk only if the transport         *)
(* accepted it or the edited text of that draft, if the user gave it up,   *)
(* if the text that replaces it is already saved, or if it is the new copy *)
(* of a replacement that failed and whose predecessor is still there.      *)
(***************************************************************************)
DraftDeletedAfterUse ==
    [][\A d \in drafts :
          LET kept == {e.content : e \in drafts'} \cup recovery'
          IN  \/ d.content \in kept \cup accepted \cup given_up
              \/ save.phase # "idle" /\ save.fields \in kept
              \/ d.path = save.path /\ save.draft.path \in {e.path : e \in drafts'}
              \/ d.path = send.draft.path /\ send.fields \in accepted]_allVars

(***************************************************************************)
(* README, Keyboard basics: "active work finishes before exit".  The main  *)
(* window never goes while a send has been started whose transport nothing *)
(* keeps alive.  Does not hold: a send begun during the close flush joins  *)
(* its write, and the close callback runs first.                           *)
(***************************************************************************)
CloseWaitsForSend == window.closed => send.phase # "flushing"

(***************************************************************************)
(* CHANGELOG, 0.1.2: "debounced, durable draft autosave".  What the user   *)
(* typed reaches the disk unless it is edited, accepted or given up, or a  *)
(* write fails.  Does not hold: Send and Save cancel the capture before    *)
(* they ask, and a cancelled question does not schedule it again.          *)
(***************************************************************************)
EditBecomesDurable ==
    \A c \in Contents :
        fields = c ~> \/ fields # c
                      \/ c \in Durable
                      \/ outcome = "failed"

(***************************************************************************)
(* accepted_send_post_clear_decision: "the accepted send boundary must not *)
(* leave recovery referring to the sent text".  Once the transport has     *)
(* accepted a text, the recovery file stops holding it, whatever is edited *)
(* meanwhile, unless a write or the deletion of the sent draft fails.      *)
(***************************************************************************)
SentTextLeavesRecovery ==
    \A c \in Contents :
        (send.phase = "accepted" /\ send.fields = c)
            ~> (c \notin recovery \/ outcome = "failed" \/ send.phase = "kept")

(***************************************************************************)
(* Every send that is started ends, by the transport or by a failure, and  *)
(* the composer accepts operations again, whatever the user edits, closes  *)
(* or reopens meanwhile.                                                   *)
(***************************************************************************)
SendEnds == send.phase # "idle" ~> send.phase = "idle"

(***************************************************************************)
(* The close handler hides the window while a send or a save is active.    *)
(* A hidden window is never forgotten: it closes or is shown again.        *)
(***************************************************************************)
HiddenWindowResolves == ~window.visible ~> window.visible \/ window.closed

================================================================================
