---------------------------- MODULE ThreadReader ----------------------------
(***************************************************************************)
(* Loading a thread into the message pane: the coordinator that numbers    *)
(* the loads, the single worker that prepares a thread, and the handlers   *)
(* of main_window.rs that start a load, drop it, and apply its result      *)
(* (thread_loader.rs, main_window.rs).                                     *)
(*                                                                         *)
(* A message of a thread is its position 1..Messages; what it says, the    *)
(* highlighted row and the focused pane are left out.                      *)
(***************************************************************************)
EXTENDS Naturals, Sequences, FiniteSets

CONSTANTS
    Threads,        \* threads a search can list
    NoThread,       \* no thread
    TargetHome,     \* the thread of the message that is asked for by its id
    Messages,       \* number of messages of a thread
    MaxGeneration   \* bound: loads and cancellations in a behaviour

ASSUME ReaderAssumption ==
    /\ IsFiniteSet(Threads) /\ TargetHome \in Threads /\ NoThread \notin Threads
    /\ Messages \in Nat \ {0} /\ MaxGeneration \in Nat \ {0}

VARIABLES
    generation,     \* ThreadLoadCoordinator.generation
    active,         \* ThreadLoadCoordinator.active, 0 when None
    channel,        \* commands not yet received: a generation, or 0 for Cancel
    job,            \* the load the worker prepares, 0 when it waits
    token,          \* active_cancel: the load whose flag it holds, 0 when None
    cancelled,      \* loads in the channel or prepared whose flag is set
    requests,       \* the loads whose reply timer runs, with what was asked
    replies,        \* replies sent and not yet received
    workerUp,       \* the worker thread could be started
    list,           \* the threads of the result list
    selected,       \* selected_thread and selected_message
    prepared,       \* the thread of prepared_threads
    pending,        \* pending_message_selection, with the load it was picked in
    openId,         \* pending_open_message_id is set
    searching,      \* the search under way, by what its end does
    blocked,        \* tag_path_actions_blocked
    asking,         \* the composer asks before the message is shown
    wish            \* history: the threads the load waited for may show

coordinatorVars == <<generation, active, channel, token, cancelled>>
workerVars == <<job, replies, workerUp>>
readerViewVars == <<selected, prepared, asking>>
readerVars == <<generation, active, channel, job, token, cancelled, requests,
                replies, workerUp, list, selected, prepared, pending,
                openId, searching, blocked, asking, wish>>

LoadNumbers == 1..MaxGeneration
NoPick == <<0, 0>>
NoSelectionYet == [thread |-> NoThread, message |-> 0]
Selections == [thread : Threads \cup {NoThread}, message : 0..Messages]
Failed == [kind |-> "error", thread |-> NoThread, target |-> 0]

ReaderTypeOK ==
    /\ generation \in 0..MaxGeneration /\ active \in 0..generation
    /\ channel \in Seq(0..generation) /\ job \in 0..generation
    /\ token \in 0..generation /\ cancelled \subseteq LoadNumbers
    /\ DOMAIN requests \subseteq LoadNumbers
    /\ DOMAIN replies \subseteq DOMAIN requests
    /\ list \subseteq Threads /\ selected \in Selections
    /\ prepared \in Threads \cup {NoThread} /\ pending \in (0..Messages + 1) \X (0..MaxGeneration)
    /\ searching \in {"no", "plain", "first", "restore", "id"}
    /\ workerUp \in BOOLEAN /\ openId \in BOOLEAN /\ blocked \in BOOLEAN
    /\ asking \in [new : Selections, old : Selections] \cup {NoSelectionYet}
    /\ wish \subseteq Threads

ReaderInit ==
    /\ generation = 0 /\ active = 0 /\ channel = <<>> /\ token = 0
    /\ cancelled = {} /\ job = 0 /\ replies = <<>> /\ workerUp \in BOOLEAN
    /\ requests = <<>> /\ list = Threads /\ selected = NoSelectionYet
    /\ prepared = NoThread /\ pending = NoPick /\ openId = FALSE /\ searching = "no"
    /\ blocked = FALSE /\ asking = NoSelectionYet /\ wish = {}

----------------------------------------------------------------------------
(* The loader service and the coordinator.                                *)

(* The flag of the load that is current, if any, is set and let go of. *)
CancelActive(c, t) == IF t = 0 THEN c ELSE c \cup {t}

(* ThreadLoaderService.cancel: the flag, then a command for the worker, *)
(* after which a load still in the channel is skipped.                  *)
Skipped == IF workerUp THEN Append(channel, 0) ELSE channel

(* ThreadLoadCoordinator.cancel. *)
CancelLoad ==
    /\ generation < MaxGeneration
    /\ generation' = generation + 1
    /\ active' = 0
    /\ cancelled' = CancelActive(cancelled, token)
    /\ token' = 0
    /\ channel' = Skipped
    /\ wish' = {}

(* Faulty variant: a load is sent ahead of the command that skips the     *)
(* loads before it.                                                       *)
SubmittedFirst(g) == IF workerUp THEN Append(channel, g) \o <<0>> ELSE channel

(* The channel after begin and submit: Cancel for the loads before, then   *)
(* the load.                                                               *)
Submitted(g) == IF workerUp THEN Append(Skipped, g) ELSE channel

(* A load starts with no message picked for it. *)
PendingOfNewLoad == NoPick

(* schedule_thread_load: begin, spawn and the timer that waits for the      *)
(* reply. A worker that could not be started is answered for at once.       *)
ScheduleThreadLoad(request) ==
    /\ generation < MaxGeneration
    /\ LET g == generation + 1 IN
       /\ generation' = g
       /\ active' = g
       /\ channel' = Submitted(g)
       /\ cancelled' = CancelActive(cancelled, token)
       /\ token' = IF workerUp THEN g ELSE 0
       /\ requests' = [h \in DOMAIN requests \cup {g} |->
                           IF h = g THEN request ELSE requests[h]]
       /\ replies' = IF workerUp THEN replies
                     ELSE [h \in DOMAIN replies \cup {g} |->
                               IF h = g THEN Failed ELSE replies[h]]
    /\ pending' = PendingOfNewLoad
    /\ wish' = request.candidates
    /\ UNCHANGED <<job, workerUp>>

(* latest_thread_load_job: of what has arrived only the last command counts. *)
LatestThreadLoadJob == channel[Len(channel)]

WorkerTakes ==
    /\ channel # <<>> /\ job = 0
    /\ job' = LatestThreadLoadJob
    /\ channel' = <<>>
    /\ cancelled' = cancelled \cap {job'}
    /\ UNCHANGED <<generation, active, token, requests, replies, workerUp, list, readerViewVars, pending, openId,
                   searching, blocked, wish>>

(* load_thread: the database is asked for the thread of the wanted message; *)
(* a thread outside the list leaves the thread that was asked for. The      *)
(* message may be gone, and every step may fail or see the flag.            *)
LoadThread(request) ==
    {Failed} \cup
    IF request.intent # "openMessage"
    THEN {[kind |-> "ok", thread |-> request.thread, target |-> 0]}
    ELSE {[kind |-> "absent", thread |-> NoThread, target |-> 0]} \cup
         IF TargetHome \in request.candidates
         THEN {[kind |-> "ok", thread |-> TargetHome, target |-> 1]}
         ELSE {[kind |-> "ok", thread |-> request.thread, target |-> 0]}

(* The worker lets go of the flag it was given, not of a newer load's. *)
TokenAfterJob == IF token = job THEN 0 ELSE token

WorkerEnds ==
    /\ job # 0
    /\ \E outcome \in LoadThread(requests[job]) :
           replies' = [h \in DOMAIN replies \cup {job} |->
                           IF h = job THEN outcome ELSE replies[h]]
    /\ token' = TokenAfterJob
    /\ job' = 0
    /\ cancelled' = cancelled \ {job}
    /\ UNCHANGED <<generation, active, channel, requests, workerUp, list, readerViewVars, pending, openId, searching,
                   blocked, wish>>

----------------------------------------------------------------------------
(* The handlers that start and drop loads.                                 *)

Idle == asking = NoSelectionYet
Request(t, c, i) == [thread |-> t, candidates |-> c, intent |-> i, old |-> selected]

(* select_thread_by_index: the thread that is shown already only drops the  *)
(* load under way.                                                          *)
SelectThread(t) ==
    /\ Idle /\ ~blocked /\ t \in list
    /\ IF selected.thread = t /\ prepared = t
       THEN /\ CancelLoad /\ pending' = NoPick
            /\ UNCHANGED <<requests, workerVars>>
       ELSE ScheduleThreadLoad(Request(t, {t}, "preview"))
    /\ UNCHANGED <<list, readerViewVars, openId, searching, blocked>>

(* open_thread_by_index: into the pane, or a window of its own when the     *)
(* pane is hidden.                                                          *)
OpenThread(t) ==
    /\ Idle /\ ~blocked /\ t \in list
    /\ \E intent \in {"open", "window"} :
           ScheduleThreadLoad(Request(t, {t}, intent))
    /\ UNCHANGED <<list, readerViewVars, openId, searching, blocked>>

(* open_loaded_thread_at_message: some listed thread stands for the load    *)
(* until the database has told the thread of the message.                   *)
OpenLoadedThreadAtMessage(l) ==
    \E first \in l : ScheduleThreadLoad(Request(first, l, "openMessage"))

(* schedule_search drops the load but not the message picked for it. *)
ScheduleSearch(kind) ==
    /\ CancelLoad
    /\ searching' = kind
    /\ UNCHANGED <<requests, workerVars, pending>>

(* open_message_id_request *)
OpenMessageId ==
    /\ Idle
    /\ openId' = TRUE
    /\ IF ~blocked /\ list # {}
       THEN OpenLoadedThreadAtMessage(list) /\ UNCHANGED searching
       ELSE ScheduleSearch("first")
    /\ UNCHANGED <<list, readerViewVars, blocked>>

(* request_show_selected_message: the message is shown at once, or the      *)
(* composer asks first, or refuses and the selection of before comes back;  *)
(* a window of its own is opened without asking.                            *)
ShowSelected(new, request) ==
    \/ /\ request.intent = "window"
       /\ selected' = new /\ UNCHANGED asking
    \/ /\ request.intent # "window" /\ asking = NoSelectionYet
       /\ selected' = new
       /\ asking' \in {NoSelectionYet, [new |-> new, old |-> request.old]}
    \/ /\ request.intent # "window"
       /\ selected' = request.old /\ UNCHANGED asking

(* select_message_by_index: kept for the end of a load under way. *)
SelectMessage(m) ==
    /\ Idle /\ ~blocked
    /\ IF active # 0
       THEN pending' = <<m, active>> /\ UNCHANGED <<selected, asking>>
       ELSE /\ m \in 1..Messages /\ selected.thread # NoThread
            /\ ShowSelected([selected EXCEPT !.message = m],
                            Request(selected.thread, {}, "message"))
            /\ UNCHANGED <<pending>>
    /\ UNCHANGED <<coordinatorVars, workerVars, requests, list,
                   prepared, openId, searching, blocked, wish>>

(* cancel_thread_load_for_composer_activity: editing drops the load. *)
ComposerEdited ==
    /\ active # 0
    /\ CancelLoad /\ pending' = NoPick
    /\ UNCHANGED <<requests, workerVars, list, readerViewVars, openId,
                   searching, blocked>>

(* cancel_thread_load_for_tag_mutation; paths are blocked meanwhile. *)
TagStarts ==
    /\ Idle /\ ~blocked
    /\ blocked' = TRUE
    /\ IF active # 0
       THEN CancelLoad /\ pending' = NoPick
       ELSE UNCHANGED <<coordinatorVars, pending, wish>>
    /\ UNCHANGED <<requests, workerVars, list, readerViewVars, openId,
                   searching>>

(* finish_tag_worker: the list is searched again and the selected thread   *)
(* found in it, or all is left as it is.                                    *)
TagEnds ==
    /\ blocked
    /\ blocked' = FALSE
    /\ \/ ScheduleSearch("restore")
       \/ ScheduleSearch("plain")
       \/ UNCHANGED <<coordinatorVars, workerVars, requests, pending,
                      searching, wish>>
    /\ UNCHANGED <<list, readerViewVars, openId>>

SearchStarts ==
    /\ Idle
    /\ ScheduleSearch("first")
    /\ UNCHANGED <<list, readerViewVars, openId, blocked>>

(* A page of the search has replaced the list: the selection is dropped     *)
(* with the prepared contents, a thread to restore is selected again, and   *)
(* a message asked for by its id is looked for in the new list.             *)
FinishReplacedSearch(l) ==
    /\ searching # "no"
    /\ list' = l
    /\ selected' = IF searching = "restore" /\ selected.thread \in l
                   THEN selected ELSE NoSelectionYet
    /\ prepared' = NoThread
    /\ IF openId
       THEN IF l # {} /\ ~blocked
            THEN /\ \E first \in l :
                        ScheduleThreadLoad([Request(first, l, "openMessage")
                                                EXCEPT !.old = selected'])
                 /\ searching' = "no" /\ UNCHANGED openId
            ELSE IF searching # "id"
                 THEN ScheduleSearch("id") /\ UNCHANGED openId
                 ELSE /\ openId' = FALSE /\ searching' = "no"
                      /\ UNCHANGED <<coordinatorVars, workerVars, requests, pending, wish>>
       ELSE /\ searching' = "no" /\ UNCHANGED openId
            /\ IF searching \in {"first", "id"} /\ l # {} /\ ~blocked
               THEN \E t \in l : ScheduleThreadLoad(
                        [Request(t, {t}, "preview") EXCEPT !.old = selected'])
               ELSE UNCHANGED <<coordinatorVars, workerVars, requests, pending, wish>>
    /\ UNCHANGED <<blocked, asking>>

SearchFails ==
    /\ searching # "no"
    /\ searching' = "no"
    /\ UNCHANGED <<coordinatorVars, workerVars, requests, list,
                   readerViewVars, pending, openId, blocked, wish>>

----------------------------------------------------------------------------
(* The timer of a load: its reply, or the end of the channel.              *)

(* Faulty variant: any reply is taken for the one that is waited for. *)
AcceptsAny(g) == TRUE

(* ThreadLoadCoordinator.accepts *)
Accepts(g) == active = g

(* The command of the load was skipped, so that its sender is gone. *)
Disconnected(g) ==
    /\ g \notin DOMAIN replies /\ job # g
    /\ g \notin {channel[i] : i \in DOMAIN channel}

(* The message to select: the one asked for, one picked meanwhile if the    *)
(* thread has it, else the last.                                            *)
MessageAfterLoad(request, reply) ==
    IF request.intent = "openMessage" THEN reply.target
    ELSE IF pending[1] \in 1..Messages THEN pending[1] ELSE Messages

(* finish_thread_load *)
FinishThreadLoad(request, reply) ==
    \/ /\ reply.kind \in {"error", "absent"}
       /\ selected' = request.old
       /\ openId' = (openId /\ ~(reply.kind = "absent"))
       /\ UNCHANGED <<prepared, pending, asking, searching, channel, generation,
                      token, cancelled>>
    \/ /\ reply.kind = "ok" /\ reply.thread \notin list
       /\ UNCHANGED <<selected, prepared, pending, asking, openId, searching,
                      channel, generation, token, cancelled>>
    \/ /\ reply.kind = "ok" /\ reply.thread \in list
       /\ request.intent = "openMessage" /\ reply.target = 0
       /\ \/ /\ generation < MaxGeneration    \* finish_missing_open_message
             /\ generation' = generation + 1 /\ channel' = Skipped
             /\ cancelled' = CancelActive(cancelled, token) /\ token' = 0
             /\ searching' = "id" /\ UNCHANGED openId
          \/ /\ openId' = FALSE
             /\ UNCHANGED <<searching, channel, generation, token, cancelled>>
       /\ UNCHANGED <<selected, prepared, pending, asking>>
    \/ /\ reply.kind = "ok" /\ reply.thread \in list
       /\ request.intent # "openMessage" \/ reply.target # 0
       /\ ShowSelected([thread |-> reply.thread,
                        message |-> MessageAfterLoad(request, reply)], request)
       /\ prepared' = reply.thread
       /\ pending' = NoPick
       /\ openId' = (openId /\ request.intent # "openMessage")
       /\ UNCHANGED <<searching, channel, generation, token, cancelled>>

(* try_recv has a reply or tells that none can come. *)
Ended(g) == g \in DOMAIN replies \/ Disconnected(g)

Poll(g) ==
    /\ g \in DOMAIN requests
    /\ Ended(g)
    /\ requests' = [h \in DOMAIN requests \ {g} |-> requests[h]]
    /\ replies' = [h \in DOMAIN replies \ {g} |-> replies[h]]
    /\ active' = IF Accepts(g) THEN 0 ELSE active
    /\ IF Accepts(g) /\ g \in DOMAIN replies
       THEN FinishThreadLoad(requests[g], replies[g])
       ELSE UNCHANGED <<selected, prepared, pending, asking, openId, searching,
                        channel, generation, token, cancelled>>
    /\ wish' = IF Accepts(g) THEN {} ELSE wish
    /\ UNCHANGED <<job, workerUp, list, blocked>>

(* The question of the composer is answered: the message is shown, or the   *)
(* selection of before the load comes back.                                 *)
Answer ==
    /\ asking # NoSelectionYet
    /\ selected' \in {asking.new, asking.old}
    /\ asking' = NoSelectionYet
    /\ UNCHANGED <<coordinatorVars, workerVars, requests, list, prepared,
                   pending, openId, searching, blocked, wish>>

ReaderNext ==
    \/ \E t \in Threads : SelectThread(t) \/ OpenThread(t)
    \/ OpenMessageId
    \/ \E m \in 1..Messages + 1 : SelectMessage(m)
    \/ ComposerEdited \/ TagStarts \/ TagEnds \/ SearchStarts
    \/ \E l \in SUBSET Threads : FinishReplacedSearch(l)
    \/ SearchFails \/ Answer
    \/ WorkerTakes \/ WorkerEnds
    \/ \E g \in LoadNumbers : Poll(g)

(* The worker runs and the timers fire; nothing makes the user or a search  *)
(* act.                                                                     *)
ReaderFairness ==
    /\ WF_readerVars(WorkerTakes) /\ WF_readerVars(WorkerEnds)
    /\ \A g \in LoadNumbers : WF_readerVars(Poll(g))

ReaderSpec == ReaderInit /\ [][ReaderNext]_readerVars /\ ReaderFairness

----------------------------------------------------------------------------
(* Properties.                                                             *)

(* The contents of a thread are put in place only by the load the user     *)
(* asked for last and has not dropped since: an older load that the worker *)
(* still finishes never replaces what is shown.                            *)
NewestLoadWins ==
    [][prepared' \notin {prepared, NoThread} => prepared' \in wish]_readerVars

(* A load that is still waited for will be prepared: its flag is not set    *)
(* and no later command in the channel makes the worker skip it.            *)
AwaitedLoadNotSkipped ==
    active # 0 /\ active \notin DOMAIN replies =>
        /\ active \notin cancelled
        /\ job = active \/ (channel # <<>> /\ channel[Len(channel)] = active)

(* A load that is no longer waited for has its flag set while the worker    *)
(* prepares it or has it in the channel, so that it stops early: a worker   *)
(* that ends one load never lets go of the flag of the next.                *)
CancelReachesLoad ==
    \A g \in LoadNumbers \ {active} :
        g = job \/ g \in {channel[i] : i \in DOMAIN channel} => g \in cancelled

(* A message picked while a thread loads is selected only in that thread,   *)
(* whatever drops the load in between.                                      *)
PickBelongsToLoad == active # 0 /\ pending # NoPick => pending[2] = active

(* Every load's timer ends, by its reply or by the end of its channel; the  *)
(* wait for the thread that was asked for last ends with it.                *)
LoadTimersEnd == \A g \in LoadNumbers : g \in DOMAIN requests ~> g \notin DOMAIN requests

(* The comment on finish_replaced_search_then: the prepared contents are    *)
(* those of the selected thread, and a search that replaces the list drops  *)
(* both together.  Does not hold: a search that still lists the thread      *)
(* keeps the selection and drops the prepared contents.                     *)
SelectedIsPrepared ==
    selected.thread # NoThread /\ asking = NoSelectionYet => prepared = selected.thread
=============================================================================
