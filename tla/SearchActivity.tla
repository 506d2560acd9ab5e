---------------------------- MODULE SearchActivity -----------------------------
(***************************************************************************)
(* Searches of the main window and what waits for them: typed and          *)
(* requested searches, page loads, the incremental list model, the refresh *)
(* after a sync, the reconciliation after a tag operation, refresh         *)
(* requests from the session bus, and the deferred close of the window     *)
(* (crates/notm-ui/src/main_window.rs, widgets/search_bar.rs,              *)
(* widgets/thread_list.rs, main_window/external_refresh.rs).               *)
(*                                                                         *)
(* Handlers run one at a time on the main loop.  Every search has a        *)
(* generation; what answers late is recognised by it.  Result sets are     *)
(* abstracted to their query, the commit they were read at and the number  *)
(* of pages loaded.  The flush of the draft that ends a close is modelled  *)
(* in Composer; here the window closes at once.                            *)
(***************************************************************************)
EXTENDS SearchWorker, FiniteSets

CONSTANTS
    Agendas,         \* what the user does, how often, and whether the bus is used
    MaxPages,        \* pages a result set has
    DefaultQuery,    \* what the startup search asks for
    Requests,        \* refresh requests from the session bus
    MaxPending       \* MAX_PENDING of external_refresh

Operations ==
    {"type", "search", "clear", "page", "locate", "settings", "sync", "tag", "close"}

AgendaSet == [does : SUBSET Operations, left : Nat, asks : SUBSET Queries, bus : BOOLEAN]

ASSUME ActivityAssumption ==
    /\ \A a \in Agendas : a \in AgendaSet
    /\ MaxPages \in Nat \ {0} /\ MaxPending \in Nat
    /\ IsFiniteSet(Requests) /\ DefaultQuery \in Queries

VARIABLES
    bar,         \* the search bar: [generation, requested, timer]
    ui,          \* the fields of UiState that searches use
    updates,     \* idle sources that apply a result set to the list model
    rows,        \* the result set the list model shows, or Partial
    sync,        \* the sync in progress and its refresh
    tag,         \* the tag operation in progress
    refreshes,   \* refresh requests
    window,      \* "visible", "hidden" until idle, or "closed"
    agenda       \* what the user may still do

paneVars == <<bar, ui, worker, updates>>

activityVars == <<bar, ui, worker, db, updates, rows, sync, tag, refreshes, window, agenda>>

NoTimer == [generation |-> 0, query |-> NoQuery]
NoItems == [query |-> NoQuery, version |-> 0, pages |-> 0]
Partial == [query |-> "part of one", version |-> 0, pages |-> 0]

NoSync == [phase |-> "idle", generation |-> 0, since |-> 0, ok |-> TRUE]
NoTag == [phase |-> "idle", interrupted |-> FALSE, reserved |-> 0, since |-> 0,
          result |-> "none"]

--------------------------------------------------------------------------------
(* Search activity: begin_, finish_ and cancel_search_activity.              *)

BeginActivity(u, g, q) ==
    [u EXCEPT !.search_loading = TRUE, !.search_generation = g,
              !.pending_query = q, !.search_error = FALSE]

FinishActivity(u) == [u EXCEPT !.search_loading = FALSE, !.pending_query = NoQuery]

CancelActivity(u, g) ==
    [u EXCEPT !.search_loading = FALSE, !.search_generation = g,
              !.pending_query = NoQuery, !.search_error = FALSE]

(* cancel_model_update: the sources find out at their next turn. *)
CancelModelUpdate(us) == {[x EXCEPT !.live = FALSE] : x \in us}

(* apply_model_update_then: one live source, towards the items of u. *)
ApplyModelUpdate(us, g, k, u) ==
    CancelModelUpdate(us)
        \cup {[generation |-> g, kind |-> k, live |-> TRUE,
               target |-> u.items]}

(* sync_refresh_query: what was asked for last, else what is shown. *)
SyncRefreshQuery == IF bar.requested = NoQuery THEN ui.current_query ELSE bar.requested

(* schedule_search, from a bar and a state that the handler has changed. *)
ScheduleSearch(b, u, q) ==
    LET g == b.generation + 1
    IN  /\ bar' = [b EXCEPT !.generation = g, !.requested = q]
        /\ ui' = BeginActivity(u, g, q)
        /\ worker' = Submit(Cancel(worker), g, "full", q)
        /\ updates' = CancelModelUpdate(updates)

--------------------------------------------------------------------------------
(* The window closes when nothing is going on that must settle first.        *)

(* background_activity_requires_deferred_close *)
Background(u) ==
    u.sync_in_progress \/ u.tag_in_progress \/ (u.tag_warning /\ u.search_loading)

(* close_main_window_after_background_activity after a handler that leaves   *)
(* state u, worker w and model updates us, with the window's destroy handler.*)
CloseWhenIdle(u, w, us) ==
    LET closes == window = "hidden" /\ ~Background(u)
    IN  /\ ui' = u
        /\ window' = IF closes THEN "closed" ELSE window
        /\ worker' = IF closes THEN Cancel(w) ELSE w
        /\ updates' = IF closes THEN CancelModelUpdate(us) ELSE us

(* restore_tag_warning_after_search *)
RestoreTagWarning(u, refreshed, us) ==
    \/ /\ u.tag_warning /\ refreshed
       /\ CloseWhenIdle([u EXCEPT !.tag_warning = u.tag_paths_uncertain], worker, us)
    \/ /\ ~(u.tag_warning /\ refreshed)
       /\ ui' = u
       /\ updates' = us
       /\ window' = IF u.tag_warning /\ window = "hidden" THEN "visible" ELSE window
       /\ UNCHANGED worker

--------------------------------------------------------------------------------
(* The user.                                                                 *)

UserStep(op) ==
    /\ window = "visible"
    /\ op \in agenda.does
    /\ agenda.left > 0
    /\ agenda' = [agenda EXCEPT !.left = @ - 1]

(* ensure_user_operation_allowed for Tag and Sync *)
OperationAllowed ==
    ~(ui.tag_warning \/ ui.tag_paths_uncertain \/ ui.sync_in_progress \/ ui.tag_in_progress)

(* ensure_message_file_actions_allowed, settings_application_block_reason *)
FileActionsAllowed == ~(ui.tag_in_progress \/ ui.tag_paths_uncertain \/ ui.tag_warning)

(* The entry changes: Reserved at once, Dispatch when the debounce elapses. *)
TypeQuery(q) ==
    LET g == bar.generation + 1
    IN  /\ UserStep("type")
        /\ bar' = [generation |-> g, requested |-> q, timer |-> [generation |-> g, query |-> q]]
        /\ ui' = BeginActivity(ui, g, q)
        /\ worker' = Cancel(worker)
        /\ updates' = CancelModelUpdate(updates)
        /\ UNCHANGED <<db, rows, sync, tag, refreshes, window>>

DebounceFires ==
    /\ bar.timer # NoTimer
    /\ bar' = [bar EXCEPT !.timer = NoTimer]
    /\ worker' = IF bar.timer.generation = bar.generation
                 THEN Submit(worker, bar.timer.generation, "full", bar.timer.query)
                 ELSE worker
    /\ UNCHANGED <<ui, updates, db, rows, sync, tag, refreshes, window, agenda>>

(* The refresh of a sync is not cancelled by emptying the entry. *)
ClearKeepsSyncRefresh ==
    /\ UserStep("clear")
    /\ ui.sync_in_progress /\ sync.generation = ui.search_generation
    /\ bar' = [bar EXCEPT !.requested = NoQuery, !.timer = NoTimer]
    /\ UNCHANGED <<ui, worker, updates, db, rows, sync, tag, refreshes, window>>

(* Faulty variant: the cancelled search is not replaced. *)
ClearEntryOnly ==
    LET g == bar.generation + 1
    IN  /\ UserStep("clear")
        /\ ~(ui.sync_in_progress /\ sync.generation = ui.search_generation)
        /\ bar' = [generation |-> g, requested |-> NoQuery, timer |-> NoTimer]
        /\ ui' = CancelActivity(ui, g)
        /\ worker' = Cancel(worker)
        /\ updates' = CancelModelUpdate(updates)
        /\ UNCHANGED <<db, rows, sync, tag, refreshes, window>>

(* Any other search is cancelled; during a sync it is replaced. *)
ClearEntry ==
    LET g == bar.generation + 1
        replace == ui.sync_in_progress /\ ui.search_loading
    IN  /\ UserStep("clear")
        /\ ~(ui.sync_in_progress /\ sync.generation = ui.search_generation)
        /\ bar' = [generation |-> IF replace THEN g + 1 ELSE g,
                   requested |-> NoQuery, timer |-> NoTimer]
        /\ ui' = IF replace
                 THEN BeginActivity(CancelActivity(ui, g), g + 1, ui.current_query)
                 ELSE CancelActivity(ui, g)
        /\ worker' = IF replace
                     THEN Submit(Cancel(worker), g + 1, "full", ui.current_query)
                     ELSE Cancel(worker)
        /\ updates' = CancelModelUpdate(updates)
        /\ UNCHANGED <<db, rows, sync, tag, refreshes, window>>

SearchNow(q) ==
    /\ UserStep("search")
    /\ ScheduleSearch(bar, ui, q)
    /\ UNCHANGED <<db, rows, sync, tag, refreshes, window>>

LoadPage(k) ==
    LET g == bar.generation + 1
    IN  /\ ~ui.search_loading
        /\ bar' = [bar EXCEPT !.generation = g]
        /\ ui' = BeginActivity(ui, g, ui.current_query)
        /\ worker' = Submit(worker, g, k, ui.current_query)
        /\ UNCHANGED <<updates, db, rows, sync, tag, refreshes, window>>

LoadMoreThreads ==
    /\ UserStep("page")
    /\ ui.items.pages \in 1 .. MaxPages - 1
    /\ LoadPage("append")

(* load_thread_page_containing_index, outside visual selection *)
LoadThreadPage ==
    /\ UserStep("locate")
    /\ FileActionsAllowed
    /\ ui.items # NoItems
    /\ LoadPage("locate")

(* apply_settings_application: of the appearance only, or of the page size. *)
ApplyAppearance ==
    /\ UserStep("settings")
    /\ FileActionsAllowed
    /\ updates' = ApplyModelUpdate(updates, 0, "settings", ui)
    /\ UNCHANGED <<bar, ui, worker, db, rows, sync, tag, refreshes, window>>

ApplyPaging ==
    /\ UserStep("settings")
    /\ FileActionsAllowed
    /\ ScheduleSearch(bar, ui, ui.current_query)
    /\ UNCHANGED <<db, rows, sync, tag, refreshes, window>>

CloseRequest ==
    /\ UserStep("close")
    /\ \/ /\ Background(ui)
          /\ window' = "hidden"
          /\ UNCHANGED <<worker, updates>>
       \/ /\ ~Background(ui)
          /\ window' = "closed"
          /\ worker' = Cancel(worker)
          /\ updates' = CancelModelUpdate(updates)
    /\ UNCHANGED <<bar, ui, db, rows, sync, tag, refreshes>>

(* open_or_present_main_window: another launch of notm. *)
Present ==
    /\ window = "hidden"
    /\ agenda.left > 0
    /\ agenda' = [agenda EXCEPT !.left = @ - 1]
    /\ window' = "visible"
    /\ UNCHANGED <<paneVars, db, rows, sync, tag, refreshes>>

--------------------------------------------------------------------------------
(* Replies of the worker, as the poll timer of each launch finds them.       *)

(* Faulty variant: the generation is not compared. *)
AcceptsAny(r) == TRUE

(* accept_search_page_response *)
Accepts(r) == bar.generation = r.generation /\ ui.search_generation = r.generation

Received(r) == [worker EXCEPT !.replies = @ \ {r}]

(* Late replies do nothing; they are polled in one step. *)
IgnoreReplies ==
    LET late == {r \in worker.replies : r.status # "waiting" /\ ~Accepts(r)}
    IN  /\ late # {}
        /\ worker' = [worker EXCEPT !.replies = @ \ late]
        /\ UNCHANGED <<bar, ui, updates, db, rows, sync, tag, refreshes, window, agenda>>

(* reduce_append_search or reduce_replace_search: an extended list is as     *)
(* fresh as its first page.                                                  *)
ItemsWith(r) ==
    IF r.kind = "append"
    THEN [ui.items EXCEPT !.pages = @ + 1]
    ELSE [query |-> r.query, version |-> r.version, pages |-> 1]

AcceptPage(r) ==
    LET u == [ui EXCEPT !.current_query = r.query, !.items = ItemsWith(r),
                        !.search_error = FALSE]
    IN  /\ r.status = "ok"
        /\ Accepts(r)
        /\ worker' = Received(r)
        /\ ui' = u
        /\ updates' = ApplyModelUpdate(updates, r.generation, r.kind, u)
        /\ UNCHANGED <<bar, db, rows, sync, tag, refreshes, window, agenda>>

(* record_full_search_outcome *)
RecordOutcome(u, g) == [u EXCEPT !.outcome_generation = g, !.outcome_error = u.search_error]

(* finish_search_error, with the status row of an empty list; only a full    *)
(* search is recorded and reconciles.                                        *)
AcceptError(r) ==
    LET u == [FinishActivity(ui) EXCEPT !.search_error = TRUE]
        us == IF ui.items = NoItems THEN CancelModelUpdate(updates) ELSE updates
    IN  /\ r.status \in {"error", "dropped"}
        /\ Accepts(r)
        /\ ui' = IF r.kind = "full" THEN RecordOutcome(u, r.generation) ELSE u
        /\ worker' = Received(r)
        /\ updates' = us
        /\ window' = IF r.kind = "full" /\ u.tag_warning /\ window = "hidden"
                     THEN "visible" ELSE window
        /\ UNCHANGED <<bar, db, rows, sync, tag, refreshes, agenda>>

--------------------------------------------------------------------------------
(* The list model is changed 48 rows at a time, in idle callbacks.           *)

(* The completion callback of update x. *)
Complete(x, applied) ==
    LET u  == FinishActivity(ui)
        us == updates \ {x}
    IN  \/ /\ x.kind = "settings" \/ x.generation # ui.search_generation
           /\ updates' = us
           /\ UNCHANGED <<ui, worker, window>>
        \/ /\ x.kind \in {"append", "locate"} /\ x.generation = ui.search_generation
           /\ ui' = u
           /\ updates' = us
           /\ UNCHANGED <<worker, window>>
        \/ /\ x.kind = "full" /\ x.generation = ui.search_generation
           /\ RestoreTagWarning(IF applied THEN RecordOutcome(u, x.generation) ELSE u,
                                applied, us)

UpdateBegins(x) ==
    /\ x.live /\ rows # Partial
    /\ rows' = Partial
    /\ UNCHANGED <<paneVars, db, sync, tag, refreshes, window, agenda>>

UpdateApplied(x) ==
    /\ x.live
    /\ rows' = x.target
    /\ Complete(x, TRUE)
    /\ UNCHANGED <<bar, db, sync, tag, refreshes, agenda>>

UpdateCancelled(x) ==
    /\ ~x.live
    /\ Complete(x, FALSE)
    /\ UNCHANGED <<bar, rows, db, sync, tag, refreshes, agenda>>

--------------------------------------------------------------------------------
(* Sync: external commands on a worker, then a refresh of the search.        *)

StartSync ==
    /\ UserStep("sync")
    /\ OperationAllowed
    /\ ui' = [ui EXCEPT !.sync_in_progress = TRUE]
    /\ sync' = [NoSync EXCEPT !.phase = "commands"]
    /\ UNCHANGED <<bar, worker, updates, db, rows, tag, refreshes, window>>

SyncCommandsEnd(ok) ==
    /\ sync.phase = "commands"
    /\ db' = db + 1
    /\ sync' = [sync EXCEPT !.phase = "ended", !.since = db + 1, !.ok = ok]
    /\ UNCHANGED <<paneVars, rows, tag, refreshes, window, agenda>>

(* Faulty variant: a deferred close is not resumed. *)
FinishSyncOnly(ok) ==
    /\ sync' = [NoSync EXCEPT !.since = sync.since, !.ok = ok]
    /\ ui' = [ui EXCEPT !.sync_in_progress = FALSE]
    /\ UNCHANGED <<bar, worker, updates, db, rows, tag, refreshes, window, agenda>>

FinishSync(ok) ==
    /\ sync' = [NoSync EXCEPT !.since = sync.since, !.ok = ok]
    /\ CloseWhenIdle([ui EXCEPT !.sync_in_progress = FALSE], worker, updates)
    /\ UNCHANGED <<bar, db, rows, tag, refreshes, agenda>>

SyncFailed ==
    /\ sync.phase = "ended" /\ ~sync.ok
    /\ FinishSync(FALSE)

SyncRefresh ==
    /\ sync.phase = "ended" /\ sync.ok
    /\ ScheduleSearch(bar, ui, SyncRefreshQuery)
    /\ sync' = [sync EXCEPT !.phase = "refresh", !.generation = bar.generation + 1]
    /\ UNCHANGED <<db, rows, tag, refreshes, window, agenda>>

(* Faulty variant: the first outcome will do. *)
SyncRefreshedAny ==
    /\ sync.phase = "refresh"
    /\ ui.outcome_generation > 0
    /\ FinishSync(~ui.outcome_error)

(* wait_for_sync_refresh *)
SyncRefreshed ==
    /\ sync.phase = "refresh"
    /\ ~ui.search_loading
    /\ ui.outcome_generation >= sync.generation
    /\ FinishSync(~ui.outcome_error)

--------------------------------------------------------------------------------
(* Tag operations: a worker, and a search that reconciles what it left.      *)

TagResults == {"complete", "undone", "partial", "uncertain"}

(* schedule_tag_mutation reserves a generation but cancels neither the       *)
(* worker nor the model update.                                              *)
StartTag ==
    LET g == bar.generation + 1
    IN  /\ UserStep("tag")
        /\ OperationAllowed
        /\ ui.items # NoItems
        /\ bar' = [bar EXCEPT !.generation = g]
        /\ ui' = [CancelActivity(ui, g) EXCEPT !.tag_in_progress = TRUE]
        /\ tag' = [NoTag EXCEPT !.phase = "running", !.interrupted = ui.search_loading,
                                !.reserved = g]
        /\ UNCHANGED <<worker, updates, db, rows, sync, refreshes, window>>

(* The thread cannot be started: an interrupted search is resumed. *)
TagStartFails ==
    LET b == [bar EXCEPT !.generation = @ + 1]
    IN  /\ UserStep("tag")
        /\ OperationAllowed
        /\ ui.items # NoItems
        /\ \/ /\ ui.search_loading
              /\ ScheduleSearch(b, [CancelActivity(ui, b.generation) EXCEPT !.tag_warning = TRUE],
                                SyncRefreshQuery)
           \/ /\ ~ui.search_loading
              /\ bar' = b
              /\ ui' = CancelActivity(ui, b.generation)
              /\ UNCHANGED <<worker, updates>>
        /\ UNCHANGED <<db, rows, sync, tag, refreshes, window>>

(* execute_tag_worker: all, some or an unknown part of the changes.  After   *)
(* an undo the list is read again in any case.                               *)
TagWorkerRuns(result) ==
    /\ tag.phase = "running"
    /\ db' = db + 1
    /\ tag' = [tag EXCEPT !.phase = "done", !.since = db + 1, !.result = result]
    /\ UNCHANGED <<paneVars, rows, sync, refreshes, window, agenda>>

(* Faulty variant: only the interrupted search is looked at. *)
RefreshRequiredInterrupted == tag.interrupted \/ tag.result # "complete"

RefreshRequired ==
    \/ tag.interrupted
    \/ ui.search_loading \/ bar.generation > tag.reserved   \* concurrent_search
    \/ tag.result # "complete"

(* Faulty variant: a search that is running reconciles the list. *)
FinishTagWorkerJoining ==
    LET u == [ui EXCEPT !.tag_in_progress = FALSE,
                        !.tag_warning = tag.result \in {"partial", "uncertain"},
                        !.tag_paths_uncertain = tag.result = "uncertain"]
    IN  /\ tag.phase = "done"
        /\ tag' = [NoTag EXCEPT !.since = tag.since]
        /\ \/ /\ ui.search_loading
              /\ CloseWhenIdle(u, worker, updates)
              /\ UNCHANGED bar
           \/ /\ ~ui.search_loading
              /\ ScheduleSearch(bar, u, SyncRefreshQuery)
              /\ UNCHANGED window
        /\ UNCHANGED <<db, rows, sync, refreshes, agenda>>

FinishTagWorker ==
    LET b == [bar EXCEPT !.generation = @ + 1]
        u == [CancelActivity(ui, b.generation) EXCEPT
                 !.tag_in_progress = FALSE,
                 !.tag_warning = tag.result \in {"partial", "uncertain"},
                 !.tag_paths_uncertain = tag.result = "uncertain"]
        q == SyncRefreshQuery
        refreshed == BeginActivity(u, b.generation + 1, q)
    IN  /\ tag.phase = "done"
        /\ tag' = [NoTag EXCEPT !.since = tag.since]
        /\ \/ /\ RefreshRequired
              /\ bar' = [b EXCEPT !.generation = @ + 1, !.requested = q]
              /\ CloseWhenIdle(refreshed,
                               Submit(Cancel(worker), b.generation + 1, "full", q),
                               CancelModelUpdate(updates))
           \/ /\ ~RefreshRequired
              /\ bar' = b
              /\ CloseWhenIdle(u, worker, updates)
        /\ UNCHANGED <<db, rows, sync, refreshes, agenda>>

--------------------------------------------------------------------------------
(* Refresh requests over the session bus.                                    *)

Pending == {r \in Requests : refreshes[r].status = "waiting"}

(* The indexer commits, then asks for a refresh. *)
RequestRefresh(r) ==
    /\ window # "closed" /\ agenda.bus
    /\ refreshes[r].status = "new"
    /\ db' = db + 1
    /\ refreshes' = [refreshes EXCEPT ![r] =
          IF Cardinality(Pending) >= MaxPending
          THEN [@ EXCEPT !.status = "failed"]
          ELSE [status |-> "waiting", since |-> db + 1, minimum |-> ui.search_generation + 1]]
    /\ UNCHANGED <<paneVars, rows, sync, tag, window, agenda>>

AnswerRefresh(r, status) ==
    /\ refreshes' = [refreshes EXCEPT ![r].status = status]
    /\ UNCHANGED <<paneVars, db, rows, sync, tag, window, agenda>>

(* The deadline has passed, or the window is closing. *)
RefreshRefused(r) ==
    /\ refreshes[r].status = "waiting"
    /\ AnswerRefresh(r, "failed")

WritersBusy == ui.tag_in_progress \/ ui.sync_in_progress

(* A writer may invalidate what a search has read: ask for a later one. *)
RefreshWaitsForWriters(r) ==
    /\ refreshes[r].status = "waiting"
    /\ window = "visible" /\ WritersBusy
    /\ refreshes[r].minimum # ui.search_generation + 1
    /\ refreshes' = [refreshes EXCEPT ![r].minimum = ui.search_generation + 1]
    /\ UNCHANGED <<paneVars, db, rows, sync, tag, window, agenda>>

Ready(r) ==
    /\ refreshes[r].status = "waiting"
    /\ window = "visible" /\ ~WritersBusy /\ ~ui.search_loading

(* Faulty variant: a search that was under way is good enough. *)
RefreshAnsweredEarly(r) ==
    /\ Ready(r)
    /\ ui.outcome_generation + 1 >= refreshes[r].minimum
    /\ AnswerRefresh(r, IF ui.outcome_error THEN "failed" ELSE "ok")

RefreshAnswered(r) ==
    /\ Ready(r)
    /\ ui.outcome_generation >= refreshes[r].minimum
    /\ AnswerRefresh(r, IF ui.outcome_error THEN "failed" ELSE "ok")

RefreshSearches(r) ==
    /\ Ready(r)
    /\ ui.outcome_generation < refreshes[r].minimum
    /\ ScheduleSearch(bar, ui, ui.current_query)
    /\ UNCHANGED <<db, rows, sync, tag, refreshes, window, agenda>>

--------------------------------------------------------------------------------
(* The startup search has just been scheduled. *)
ActivityInit ==
    /\ bar = [generation |-> 1, requested |-> DefaultQuery, timer |-> NoTimer]
    /\ ui = [search_generation |-> 1, search_loading |-> TRUE, pending_query |-> DefaultQuery,
             search_error |-> FALSE, current_query |-> DefaultQuery, items |-> NoItems,
             outcome_generation |-> 0, outcome_error |-> FALSE, sync_in_progress |-> FALSE,
             tag_in_progress |-> FALSE, tag_warning |-> FALSE, tag_paths_uncertain |-> FALSE]
    /\ db = 0
    /\ worker = Submit(Cancel(NewWorker), 1, "full", DefaultQuery)
    /\ updates = {}
    /\ rows = NoItems
    /\ sync = NoSync
    /\ tag = NoTag
    /\ refreshes = [r \in Requests |-> [status |-> "new", since |-> 0, minimum |-> 0]]
    /\ window = "visible"
    /\ agenda \in Agendas

UserAction ==
    \/ \E q \in agenda.asks : TypeQuery(q) \/ SearchNow(q)
    \/ ClearKeepsSyncRefresh \/ ClearEntry
    \/ LoadMoreThreads \/ LoadThreadPage
    \/ ApplyAppearance \/ ApplyPaging
    \/ StartSync \/ StartTag \/ TagStartFails
    \/ CloseRequest \/ Present

(* Worker threads and external processes. *)
ThreadStep ==
    /\ window # "closed"
    /\ \/ /\ WorkerStep
          /\ UNCHANGED <<bar, ui, updates, rows, sync, tag, refreshes, window, agenda>>
       \/ \E ok \in BOOLEAN : SyncCommandsEnd(ok)
       \/ \E result \in TagResults : TagWorkerRuns(result)

(* Timers and idle callbacks of the main loop. *)
LoopStep ==
    /\ window # "closed"
    /\ \/ DebounceFires
       \/ IgnoreReplies
       \/ \E r \in worker.replies : AcceptPage(r) \/ AcceptError(r)
       \/ \E x \in updates : UpdateBegins(x) \/ UpdateApplied(x) \/ UpdateCancelled(x)
       \/ SyncFailed \/ SyncRefresh \/ SyncRefreshed
       \/ FinishTagWorker
       \/ \E r \in Requests : RefreshWaitsForWriters(r) \/ RefreshAnswered(r) \/ RefreshSearches(r)

ActivityNext ==
    \/ UserAction
    \/ ThreadStep
    \/ LoopStep
    \/ \E r \in Requests : RequestRefresh(r) \/ RefreshRefused(r)

(***************************************************************************)
(* The worker threads end (their commands have timeouts) and the main loop *)
(* gets round to its timers and idle callbacks.  Nothing is assumed of the *)
(* user or of the bus.                                                     *)
(***************************************************************************)
ActivitySpec ==
    ActivityInit /\ [][ActivityNext]_activityVars
        /\ WF_activityVars(ThreadStep) /\ WF_activityVars(LoopStep)

--------------------------------------------------------------------------------
(* Properties.                                                               *)

ItemSet == [query : Queries, version : Nat, pages : 1 .. MaxPages] \cup {NoItems}

ActivityTypeOK ==
    /\ WorkerTypeOK
    /\ bar.generation \in Nat /\ bar.requested \in Queries \cup {NoQuery}
    /\ ui.search_generation = bar.generation
    /\ ui.search_loading <=> ui.pending_query # NoQuery
    /\ ui.items \in ItemSet
    /\ ui.outcome_generation \in 0 .. bar.generation
    /\ Cardinality({x \in updates : x.live}) <= 1
    /\ rows \in ItemSet \cup {Partial}
    /\ window \in {"visible", "hidden", "closed"}

(***************************************************************************)
(* No search the window still waits for is dropped from the worker's       *)
(* queue: whoever cancels or supersedes it reserves a new generation.      *)
(***************************************************************************)
AwaitedSearchNotDropped ==
    \A r \in worker.replies :
        r.status = "dropped" => r.generation < ui.search_generation \/ window = "closed"

(***************************************************************************)
(* CHANGELOG: stale results cannot overwrite the current view.  Whatever   *)
(* page arrives is of the query the window announces as loading, and never *)
(* older than the list it replaces.                                        *)
(***************************************************************************)
ShowsTheAnnouncedSearch ==
    [][ui'.items # ui.items =>
          /\ ui.search_loading /\ ui'.items.query = ui.pending_query
          /\ ui'.items.version >= ui.items.version]_activityVars

(***************************************************************************)
(* docs/external-refresh.md: a completed full search includes the          *)
(* application of its result model.                                        *)
(***************************************************************************)
OutcomeIsShown ==
    [][ui'.outcome_generation # ui.outcome_generation /\ ~ui'.outcome_error =>
          rows' = ui'.items]_activityVars

(***************************************************************************)
(* A sync that reports success has refreshed the list after its commands.  *)
(***************************************************************************)
SyncShowsNewMail ==
    [][sync.phase # "idle" /\ sync'.phase = "idle" /\ sync'.ok =>
          ui.items.version >= sync.since]_activityVars

(***************************************************************************)
(* docs/external-refresh.md: a request is answered after a full search     *)
(* begun after its receipt, so the list shows what the caller had indexed. *)
(***************************************************************************)
RefreshAnswersFresh ==
    [][\A r \in Requests :
          refreshes[r].status = "waiting" /\ refreshes'[r].status = "ok" =>
              ui.items.version >= refreshes[r].since]_activityVars

(***************************************************************************)
(* The warning of a tag operation is withdrawn only by a search that has   *)
(* read what the operation left.                                           *)
(***************************************************************************)
WarningOutlivesStaleSearch ==
    [][ui.tag_warning /\ ~ui'.tag_warning => ui.items.version >= tag.since]_activityVars

(***************************************************************************)
(* A search the window announces is answered, fails, or gives way to a     *)
(* newer wish, also when a tag operation interrupts it.                    *)
(***************************************************************************)
TypedQueryAnswered ==
    \A q \in Queries :
        (ui.search_loading /\ ui.pending_query = q /\ bar.requested = q)
            ~> (ui.current_query = q \/ ui.search_error \/ bar.requested # q
                  \/ window = "closed")

(***************************************************************************)
(* The loading state of the list ends.                                     *)
(***************************************************************************)
SearchSettles == ui.search_loading ~> (~ui.search_loading \/ window = "closed")

(***************************************************************************)
(* docs/automation/README.md: sync_in_progress remains true until the      *)
(* post-sync search refresh also finishes; it finishes.                    *)
(***************************************************************************)
SyncEnds == ui.sync_in_progress ~> ~ui.sync_in_progress

(***************************************************************************)
(* docs/automation/README.md: a deferred close waits until that work       *)
(* settles; a failed reconciliation re-presents the window.                *)
(***************************************************************************)
DeferredCloseEnds == window = "hidden" ~> window # "hidden"

================================================================================
