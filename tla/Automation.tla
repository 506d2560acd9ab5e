----------------------------- MODULE Automation -----------------------------
(***************************************************************************)
(* The test harness: client threads read requests from a socket            *)
(* (automation.rs), the main loop polls their channel and runs each one    *)
(* (setup_automation, handle_automation_request in main_window.rs).        *)
(*                                                                         *)
(* A command is its name; what the model keeps of its arm is the effect it *)
(* has on the rest of the program, as far as the gates tell effects apart. *)
(* The command of a request is chosen when the main loop reads it.         *)
(***************************************************************************)
EXTENDS Naturals, Sequences

CONSTANTS
  Clients,      \* connections to the socket
  MaxCalls,  \* bound on the requests of one connection
  MaxDialogs    \* bound on confirmation dialogs

ASSUME AutomationAssumption == MaxCalls \in Nat /\ MaxDialogs \in Nat

VARIABLES
  launch,         \* LaunchOptions: [fixture, send, tag]
  dialog,         \* the pending confirmation [id, kind]
  dialogs,        \* confirmations so far
  running,        \* work under way in the program
  window,         \* the main window and the process
  client,         \* for each connection [n, waiting]: its request and whether it waits
  requestChannel, \* requests on their way to the main loop
  answers,        \* responses on their way to the client threads
  deferred,       \* requests answered when the draft is saved
  watchers,       \* timers on response_written: [req, kind]
  ending,         \* history: requests that make the window go [req, by]
  performed       \* history: the effect of the last request [effect, began, asked]

autoVars == <<launch, dialog, dialogs, running, window, client, requestChannel, answers, deferred,
              watchers, ending, performed>>

NoDialog == [id |-> 0, kind |-> "none"]
All(names, effect) == names \X {effect}

-----------------------------------------------------------------------------
(* The arms of handle_automation_request: the effect of every command *)

StatusArms == All({"health", "thread_load_status", "composer_preparation_status",
  "recovery_load_status", "draft_autosave_status", "draft_io_status"}, "read")
FixtureArms == All({"refresh_named_drafts", "set_fixture_draft_delay", "set_fixture_thread_delay",
  "set_fixture_composer_preparation_delay", "fail_next_draft_write"}, "edit")
WindowArms ==
  {<<"close_main_window", "close">>} \cup {<<"click_exit", "exit">>}
  \cup All({"app_state", "search_status", "tag_status", "entry_state"}, "read")
  \cup All({"screenshot", "focus_search", "focus_compose_field"}, "edit") \cup {<<"send_key", "key">>}
SearchArms ==
  All({"set_search_query", "run_search", "load_more_threads", "scroll_thread_list_to_bottom",
       "resize_window"}, "edit")
  \cup All({"thread_page_info", "thread_selection_view_state", "selection_view_state",
          "thread_row_layout"}, "read")
SavedArms ==
  All({"select_saved_search", "save_current_search", "save_custom_search", "delete_custom_search",
       "toggle_layout", "set_layout", "set_pane_visibility"}, "edit")
  \cup All({"custom_saved_searches", "pane_visibility", "message_action_labels", "layout_state"}, "read")
SelectArms == All({"select_thread_by_index", "toggle_multi_select_thread", "clear_multi_selection",
  "select_relative_thread", "select_thread_edge", "select_message_by_index",
  "select_relative_message", "open_selected_thread"}, "edit")
StandaloneArms ==
  {<<"standalone_message_windows", "read">>} \cup {<<"standalone_respond", "replace">>}
  \cup All({"close_standalone_message_windows", "standalone_select_message",
          "standalone_show_visual_html", "standalone_image_policy",
          "standalone_scroll_html_lines"}, "edit")
MessageTagArms ==
  {<<"message_tag_state", "read">>} \cup {<<"set_message_tag_entry", "edit">>}
  \cup {<<"click_message_tag_action", "tag">>}
TagArms == {<<"set_custom_tag_entry", "edit">>}
  \cup All({"archive_selected", "mark_read_selected", "mark_unread_selected", "flag_selected",
          "unflag_selected", "trash_selected", "spam_selected"}, "tag")
CustomTagArms ==
  All({"add_custom_tag_from_entry", "remove_custom_tag_from_entry", "tag_selected",
       "add_tag_selected", "remove_tag_selected", "undo_last_tag"}, "tag")
  \cup {<<"undo_tag_actions", "read">>} \cup {<<"run_manual_sync", "sync">>} \cup {<<"open_compose", "replace">>}
ComposeArms ==
  All({"compose_set_from", "compose_set_to", "compose_set_cc", "compose_set_bcc",
       "compose_set_subject", "compose_set_body", "compose_add_attachment",
       "select_address_suggestion_by_index", "autocomplete_recipient"}, "edit")
  \cup {<<"get_address_suggestions", "read">>}
DraftArms ==
  {<<"save_draft", "save">>} \cup {<<"respond_confirmation", "respond">>}
  \cup All({"list_drafts", "draft_list_state", "pending_confirmation"}, "read")
  \cup {<<"select_draft_by_index", "edit">>} \cup {<<"load_draft", "edit">>}
  \cup All({"activate_draft_by_index", "click_delete_selected_draft", "load_selected_draft",
          "delete_selected_draft", "delete_active_draft", "delete_local_draft", "clear_draft"}, "replace")
ResponseArms ==
  {<<"compose_send", "send">>} \cup {<<"toggle_debug_panel", "edit">>}
  \cup All({"reply_selected", "reply_all_selected", "forward_selected",
          "forward_as_attachment_selected"}, "replace")
ViewArms ==
  All({"show_raw_source", "open_raw_source", "show_full_headers", "full_headers",
       "show_rendered_thread", "show_text_thread", "text_view", "toggle_text_visual",
       "toggle_visual_html", "show_visual_html", "show_html_visual", "visual_html",
       "start_link_hints", "input_link_hint", "cancel_link_hints", "scroll_html_view_lines"}, "edit")
  \cup All({"link_hint_state", "html_scroll_state"}, "read")
ImageArms ==
  All({"image_policy", "image_policy_menu", "load_images_once", "show_visual_html_with_images",
       "trust_sender_images", "always_load_sender_images", "untrust_sender_images",
       "click_sender_view_preference", "toggle_quote_collapse"}, "edit")
  \cup All({"trusted_image_senders", "html_view_state", "view_preference_state"}, "read")
ListArms ==
  All({"message_view_text", "thread_ui_details", "thread_list_rows", "command_completion",
       "help_search", "settings_test_state"}, "read")
  \cup All({"copy_message_id", "copy_thread_id", "open_command_palette", "open_shortcuts",
          "show_shortcuts", "open_settings", "respond_settings", "save_settings"}, "edit")
AttachmentArms ==
  All({"attachment_list_items", "attachment_test_state", "attachment_io_status", "get_logs"}, "read")
  \cup All({"select_attachment_by_index", "save_selected_attachment", "save_attachment",
          "open_selected_attachment", "open_attachment", "set_fixture_attachment_delay",
          "fail_next_attachment_write", "respond_attachment_save"}, "edit")
Arms == StatusArms \cup FixtureArms \cup WindowArms \cup SearchArms \cup SavedArms \cup SelectArms
  \cup StandaloneArms \cup MessageTagArms \cup TagArms \cup CustomTagArms \cup ComposeArms \cup DraftArms
  \cup ResponseArms \cup ViewArms \cup ImageArms \cup ListArms \cup AttachmentArms

\* run_named_command, by what the gates tell apart
NamedArms ==
  All({"archive", "mark_read", "mark_unread", "flag", "unflag", "trash", "undo_last_tag", "undo"}, "tag")
  \cup All({"sync", "manual_sync", "run_manual_sync"}, "sync")
  \cup All({"compose", "reply", "reply_all", "forward", "forward_attachment",
          "forward_as_attachment"}, "replace")
  \cup All({"image_policy", "trust_sender_images", "always_load_sender_images",
          "untrust_sender_images", "search", "inbox", "settings"}, "edit")
  \cup All({"q", "quit", "exit"}, "exit")

\* A command is a name and, for run_command, the name it runs; with its effect.
HarnessCommands ==
  {<<<<arm[1], "">>, arm[2]>> : arm \in Arms}
  \cup {<<<<"run_command", arm[1]>>, arm[2]>> : arm \in NamedArms}

-----------------------------------------------------------------------------
(* The gates *)

\* automation_command_allowed_while_confirmation_pending
AllowedWhilePending ==
  {"health", "app_state", "search_status", "tag_status", "draft_autosave_status",
   "draft_io_status", "thread_load_status", "composer_preparation_status", "recovery_load_status",
   "entry_state", "thread_page_info", "thread_selection_view_state", "selection_view_state",
   "thread_row_layout", "custom_saved_searches", "pane_visibility", "message_action_labels",
   "message_tag_state", "layout_state", "standalone_message_windows", "undo_tag_actions",
   "get_address_suggestions", "list_drafts", "draft_list_state", "pending_confirmation",
   "respond_confirmation", "html_scroll_state", "trusted_image_senders", "html_view_state",
   "link_hint_state", "message_view_text", "thread_ui_details", "thread_list_rows",
   "command_completion", "settings_test_state", "attachment_list_items", "attachment_test_state",
   "attachment_io_status", "get_logs"}

\* automation_named_command_operation
NamedTags == {"archive", "mark_read", "mark_unread", "flag", "unflag", "trash", "undo_last_tag", "undo"}
NamedImages == {"image_policy", "trust_sender_images", "always_load_sender_images", "untrust_sender_images"}
NamedOperationNoUndo(name) == IF name \in NamedTags \ {"undo"} THEN "Tag" ELSE "None"
NamedOperation(name) ==
  CASE name \in NamedTags -> "Tag"
    [] name \in {"sync", "manual_sync", "run_manual_sync"} -> "ExternalSync"
    [] name \in NamedImages -> "FixtureOnly"
    [] OTHER -> "None"

\* ensure_automation_request_allowed: the class of a command
Operation(cmd) ==
  CASE cmd[1] = "compose_send" -> "Send"
    [] cmd[1] \in {"archive_selected", "mark_read_selected", "mark_unread_selected", "flag_selected",
                   "unflag_selected", "trash_selected", "spam_selected", "click_message_tag_action",
                   "add_custom_tag_from_entry", "remove_custom_tag_from_entry",
                   "set_fixture_thread_delay", "tag_selected", "add_tag_selected",
                   "remove_tag_selected", "undo_last_tag"} -> "Tag"
    [] cmd[1] = "run_manual_sync" -> "ExternalSync"
    [] cmd[1] \in {"attachment_test_state", "respond_attachment_save", "fail_next_attachment_write",
                   "set_fixture_attachment_delay", "set_fixture_draft_delay", "refresh_named_drafts",
                   "set_fixture_composer_preparation_delay", "fail_next_draft_write",
                   "draft_list_state", "activate_draft_by_index", "click_delete_selected_draft",
                   "settings_test_state", "respond_settings", "view_preference_state",
                   "click_sender_view_preference", "standalone_show_visual_html",
                   "standalone_image_policy", "standalone_scroll_html_lines", "image_policy",
                   "image_policy_menu", "trust_sender_images", "always_load_sender_images",
                   "untrust_sender_images", "send_key", "click_exit"} -> "FixtureOnly"
    [] cmd[1] \in {"pending_confirmation", "respond_confirmation"} -> "ConfirmationControl"
    [] cmd[1] = "run_command" -> NamedOperation(cmd[2])
    [] OTHER -> "None"

\* All that the main loop tells of a command
Profile(cmd, effect) ==
  [effect |-> effect, op |-> Operation(cmd), readOnly |-> cmd[1] \in AllowedWhilePending,
   held |-> cmd[1] \in {"click_exit", "send_key", "run_command"}]
Profiles == {Profile(command[1], command[2]) : command \in HarnessCommands}

Allowed(p) ==
  CASE p.op = "None" -> TRUE
    [] p.op = "FixtureOnly" -> launch.fixture
    [] p.op = "ExternalSync" -> ~launch.fixture
    [] p.op \in {"Send", "ConfirmationControl"} -> launch.fixture \/ launch.send
    [] p.op = "Tag" -> launch.fixture \/ launch.tag

\* ensure_confirmation_control_allowed
ControlAllowed(p) ==
  p.op = "ConfirmationControl" /\ ~launch.fixture => launch.send /\ dialog.kind \in {"send", "close"}

RequestAccepted(p) == (dialog # NoDialog => p.readOnly) /\ Allowed(p) /\ ControlAllowed(p)

-----------------------------------------------------------------------------
(* What the program does, for a request or for the user *)

Asks(kind) ==
  /\ dialogs < MaxDialogs
  /\ dialogs' = dialogs + 1
  /\ dialog' = [id |-> dialogs + 1, kind |-> kind]
NoAsk == UNCHANGED <<dialog, dialogs>>

\* tag_selected, run_manual_sync: refused while the same work runs.
DialogBegins(op) == op \notin running /\ running' = running \cup {op} /\ NoAsk
Refused == NoAsk /\ UNCHANGED running
\* send_compose: a saved draft asks first.
SendStarts == (DialogBegins("send") \/ (Asks("send") /\ UNCHANGED running)) \/ Refused
\* request_save_current_draft
SaveStarts == DialogBegins("save")
SaveAsks == Asks("draft") /\ UNCHANGED running
\* Replacing the composer's text may ask, and may save the draft first.
Replaces == (Asks("draft") /\ UNCHANGED running) \/ Refused

\* flush_and_close_main_window: the recovery file is written before the window goes.
FlushesAndCloses == window' = IF window = "gone" THEN "gone" ELSE "flushing"
\* close_request: an open dialog stops it, an unsaved draft asks, and work under way hides
\* the window until it ends.
WindowCloses ==
  \/ dialog = NoDialog /\ window # "gone" /\ Asks("close") /\ UNCHANGED <<running, window>>
  \/ /\ NoAsk /\ UNCHANGED running
     /\ IF dialog # NoDialog \/ window = "gone" THEN UNCHANGED window
        ELSE IF running = {} THEN FlushesAndCloses ELSE window' = "hidden"
\* The shortcut router: a key may tag, send, save, replace the composer or exit (Z Z).
\* The sync has no key.
KeyActs ==
  \/ (DialogBegins("tag") \/ SaveStarts \/ SendStarts \/ Replaces) /\ UNCHANGED window
  \/ WindowCloses

\* The response to a dialog: what was captured runs once.
Accept ==
  /\ dialog' = NoDialog /\ UNCHANGED dialogs
  /\ CASE dialog.kind = "send" -> (running' = running \cup {"send"} \/ UNCHANGED running) /\ UNCHANGED window
       [] dialog.kind = "close" -> FlushesAndCloses /\ UNCHANGED running
       [] OTHER -> (running' = running \cup {"save"} \/ UNCHANGED running) /\ UNCHANGED window
Reject == dialog' = NoDialog /\ UNCHANGED <<dialogs, running, window>>

-----------------------------------------------------------------------------
(* The client threads: handle_client *)

Req(c) == <<c, client[c].n>>
Serving == window # "ended"
program == <<launch, dialog, dialogs, running, window>>

SendRequest(c) ==
  /\ Serving /\ ~client[c].waiting /\ client[c].n < MaxCalls
  /\ client' = [client EXCEPT ![c] = [n |-> @.n + 1, waiting |-> TRUE]]
  /\ requestChannel' = Append(requestChannel, <<c, client[c].n + 1>>)
  /\ UNCHANGED <<program, answers, deferred, watchers, ending, performed>>

WriteResponse(c) ==
  /\ Serving /\ client[c].waiting /\ Req(c) \in answers
  /\ client' = [client EXCEPT ![c].waiting = FALSE]
  /\ answers' = answers \ {Req(c)}
  /\ UNCHANGED <<program, requestChannel, deferred, watchers, ending, performed>>

\* TEST_HARNESS_RESPONSE_TIMEOUT: the request stays in the channel.
TimeOut(c) ==
  /\ Serving /\ client[c].waiting /\ Req(c) \notin answers
  /\ client' = [client EXCEPT ![c].waiting = FALSE]
  /\ UNCHANGED <<program, requestChannel, answers, deferred, watchers, ending, performed>>

Waits(r) == client[r[1]].waiting /\ client[r[1]].n = r[2]

-----------------------------------------------------------------------------
(* The main loop *)

\* hold_application_for_harness_response; close_main_window closes once its response is written.
HoldForNone(r, p) == {}
HoldFor(r, p) == IF p.held THEN {[req |-> r, kind |-> "hold"]} ELSE {}
ClosesFor(r, p) == IF p.effect = "close" THEN {[req |-> r, kind |-> "close"]} ELSE {}

Answered(r) == answers' = (IF Waits(r) THEN answers \cup {r} ELSE answers) /\ UNCHANGED deferred
Deferred(r) == deferred' = deferred \cup {r} /\ UNCHANGED answers

Perform(r, p) ==
  LET e == p.effect
  IN  CASE e \in {"read", "edit", "close"} -> Refused /\ UNCHANGED window /\ Answered(r)
        [] e \in {"tag", "sync"} -> (DialogBegins(e) \/ Refused) /\ UNCHANGED window /\ Answered(r)
        [] e = "send" -> SendStarts /\ UNCHANGED window /\ Answered(r)
        [] e = "replace" -> Replaces /\ UNCHANGED window /\ Answered(r)
        [] e = "save" -> \/ SaveStarts /\ Deferred(r) /\ UNCHANGED window
                         \/ (SaveAsks \/ Refused) /\ Answered(r) /\ UNCHANGED window
        [] e = "exit" -> WindowCloses /\ Answered(r)
        [] e = "key" -> KeyActs /\ Answered(r)
        [] e = "respond" ->
             IF dialog = NoDialog THEN Refused /\ UNCHANGED window /\ Answered(r)
             ELSE /\ (Accept \/ Reject)
                  /\ IF "save" \in running' THEN Deferred(r) ELSE Answered(r)

Began == IF running' # running THEN CHOOSE op \in running' : op \notin running ELSE "none"

\* What the arm of a request does to the window makes it one that ends the program.
EndsFor(r, p) ==
  IF p.effect = "exit" \/ window' # window THEN {[req |-> r, by |-> p.effect]} ELSE {}

\* handle_automation_request; the poll goes on while the process lives.
Handle(p) ==
  /\ requestChannel # <<>> /\ Serving
  /\ requestChannel' = Tail(requestChannel)
  /\ LET r == Head(requestChannel)
     IN  IF RequestAccepted(p)
         THEN /\ Perform(r, p)
              /\ watchers' = watchers \cup HoldFor(r, p) \cup ClosesFor(r, p)
              /\ ending' = ending \cup EndsFor(r, p)
              /\ performed' = [effect |-> p.effect, began |-> Began, asked |-> dialog # NoDialog]
         ELSE /\ Refused /\ Answered(r) /\ UNCHANGED <<window, watchers, ending>>
              /\ performed' = [effect |-> "refused", began |-> "none", asked |-> dialog # NoDialog]
  /\ UNCHANGED <<launch, client>>

\* A timer sees that the response was written, or that the client gave up.
WatcherFires(w) ==
  /\ Serving /\ w \in watchers /\ ~Waits(w.req)
  /\ watchers' = watchers \ {w}
  /\ IF w.kind = "close" THEN WindowCloses ELSE UNCHANGED <<dialog, dialogs, running, window>>
  /\ UNCHANGED <<launch, client, requestChannel, answers, deferred, ending, performed>>

\* The completion of a draft save and the timer of respond_confirmation answer.
AnsweredWhenSaved(op) == IF op = "save" THEN {r \in deferred : Waits(r)} ELSE {}
\* close_main_window_after_background_activity: with the last work a hidden window is closed;
\* after an exit an unsaved draft asks once more, unless another dialog is open.
HiddenCloses ==
  \/ NoAsk /\ FlushesAndCloses
  \/ dialog = NoDialog /\ Asks("close") /\ window' = "open"
  \/ dialog # NoDialog /\ NoAsk /\ window' \in {"open", "hidden"}
\* Work ends: a saved draft answers the requests that wait for it.
WorkEnds(op) ==
  /\ Serving /\ op \in running
  /\ running' = running \ {op}
  /\ answers' = answers \cup AnsweredWhenSaved(op)
  /\ deferred' = IF op = "save" THEN {} ELSE deferred
  /\ IF window = "hidden" /\ running' = {} THEN HiddenCloses ELSE NoAsk /\ UNCHANGED window
  /\ UNCHANGED <<launch, client, requestChannel, watchers, ending, performed>>
\* flush_latest_draft_then_close: the window closes, whatever work has begun meanwhile, or
\* it is shown again when the write failed.
FlushEnds ==
  /\ window = "flushing" /\ window' \in {"gone", "open"} \cup (IF running = {} THEN {} ELSE {"hidden"})
  /\ UNCHANGED <<launch, dialog, dialogs, running, client, requestChannel, answers, deferred,
                 watchers, ending, performed>>

harness == <<launch, client, requestChannel, answers, deferred, watchers, ending, performed>>
Visible == window \in {"open", "flushing"}
UserStarts(op) == Visible /\ dialog = NoDialog /\ DialogBegins(op) /\ UNCHANGED <<harness, window>>
UserAsks(kind) == Visible /\ dialog = NoDialog /\ Asks(kind) /\ UNCHANGED <<harness, running, window>>
UserAnswers == Visible /\ dialog # NoDialog /\ (Accept \/ Reject) /\ UNCHANGED harness

\* The application ends when no window and no hold is left.
ProcessEnds ==
  /\ window = "gone" /\ running = {} /\ \A w \in watchers : w.kind # "hold"
  /\ window' = "ended"
  /\ UNCHANGED <<harness, dialog, dialogs, running>>

Work == {"send", "tag", "sync", "save"}

AutoInit ==
  /\ launch \in [fixture: BOOLEAN, send: BOOLEAN, tag: BOOLEAN]
  /\ dialog = NoDialog /\ dialogs = 0 /\ running = {} /\ window = "open"
  /\ client = [c \in Clients |-> [n |-> 0, waiting |-> FALSE]]
  /\ requestChannel = <<>> /\ answers = {} /\ deferred = {} /\ watchers = {} /\ ending = {}
  /\ performed = [effect |-> "none", began |-> "none", asked |-> FALSE]

PollRequests == \E p \in Profiles : Handle(p)
AutoNext ==
  \/ \E c \in Clients : SendRequest(c) \/ WriteResponse(c) \/ TimeOut(c)
  \/ PollRequests
  \/ \E w \in watchers : WatcherFires(w)
  \/ \E op \in Work : WorkEnds(op)
  \/ \E op \in Work : UserStarts(op)
  \/ \E kind \in {"send", "close", "draft"} : UserAsks(kind)
  \/ UserAnswers \/ FlushEnds \/ ProcessEnds

\* The main loop polls, the threads write and work ends; nobody has to time out.
AutoFairness ==
  /\ WF_autoVars(PollRequests)
  /\ \A c \in Clients : WF_autoVars(WriteResponse(c))
  /\ \A op \in Work : WF_autoVars(WorkEnds(op))

AutoSpec == AutoInit /\ [][AutoNext]_autoVars /\ AutoFairness

-----------------------------------------------------------------------------
(* Properties *)

AutoTypeOK ==
  /\ running \subseteq Work /\ window \in {"open", "hidden", "flushing", "gone", "ended"}
  /\ dialog \in [id: 0..MaxDialogs, kind: {"none", "send", "close", "draft"}]
  /\ \A r \in answers : Waits(r)

\* No request starts tag changes, a send or a sync that the launch options do not permit,
\* whichever command or palette name asks and also when it answers a dialog that the user
\* opened (ensure_automation_request_allowed, ensure_confirmation_control_allowed).
OnlyPermittedWork ==
  /\ performed.began = "tag" => launch.fixture \/ launch.tag
  /\ performed.began = "send" => launch.fixture \/ launch.send
  /\ performed.began = "sync" => ~launch.fixture

\* While a confirmation is open, requests only read or answer it: no arm that the list of
\* read-only commands lets through changes anything (docs: "harness mutations are rejected").
ConfirmationUndisturbed == performed.asked => performed.effect \in {"refused", "read", "respond"}

\* The process does not end before a request to exit has its response, be it a button, a
\* palette name or a key, unless its client gave up (hold_application_for_harness_response).
ExitAnsweredFirst ==
  window = "ended" => \A e \in ending : e.by \in {"exit", "key"} => ~Waits(e.req)

\* Does not hold: the same of every request whose arm makes the window go.  What accepts
\* the confirmation of a close takes no hold (respond_confirmation; the tests accept a
\* close, expect "ok" and then wait for the exit).
AnsweredBeforeEnd == window = "ended" => \A e \in ending : ~Waits(e.req)

\* Every request is answered while the program runs, also one that waits for a draft.
RequestAnswered == \A c \in Clients : client[c].waiting ~> (~client[c].waiting \/ window = "ended")
=============================================================================
