---------------------------- MODULE MessageView ----------------------------
(***************************************************************************)
(* The views of a message: the message pane of the main window             *)
(* (main_window.rs) and the standalone message windows                     *)
(* (widgets/standalone_message.rs).  Each shows its selected message as    *)
(* text, visual HTML or source, and its WebView may load remote images     *)
(* when the global setting, the trust in the sender or a permission for    *)
(* this one message allows it.  Trust, the setting and the preferred views *)
(* are shared; every change of them has to reach every view.               *)
(*                                                                         *)
(* A message is a pair of a sender and what its content is: "html" renders *)
(* in every view, "plain" has no HTML part, "heavy" has one too large to   *)
(* render, "damaged" could not be prepared at all.  Full headers and raw   *)
(* source are one view, "source".  The retained bytes of a window are      *)
(* abstract: opening one may close any number of the oldest.               *)
(***************************************************************************)
EXTENDS Integers, Sequences

CONSTANTS
  Mail,         \* the messages
  WindowLimit,  \* STANDALONE_MESSAGE_WINDOW_LIMIT
  MaxChoices    \* bound on the changes of preferred views

ASSUME ViewAssumption ==
  /\ Mail \subseteq {"ann", "bob"} \X {"html", "plain", "heavy", "damaged"}
  /\ WindowLimit \in Nat \ {0}
  /\ MaxChoices \in Nat

VARIABLES
  main,      \* the message pane: a view
  windows,   \* the standalone windows, oldest first: views
  policy,    \* [remote, trusted]: ui.remote_images and trusted_image_senders
  prefs,     \* [mail, sender]: remembered views
  activity,  \* "idle", "tags" (paths may change) or "send"
  choices    \* changes of preferred views left

viewVars == <<main, windows, policy, prefs, activity, choices>>

Kinds == {"text", "html", "source"}
Senders == {"ann", "bob"}
NoMail == <<"nobody", "nothing">>
From(m) == m[1]

\* prepared.has_html() and message_has_html of a window
HasHtml(m) == m[2] \in {"html", "heavy"}
\* rendered_text, headers, raw_shared and html_document of a prepared message
Renders(m, kind) == IF kind = "html" THEN m[2] = "html" ELSE m[2] \in {"html", "plain", "heavy"}

\* sel: selected message; ready: its prepared content is retained; behind: it was selected
\* after the page was shown; kind: the active view; stack: the visible page; doc: the
\* message whose HTML the WebView holds;
\* load: WebView loads images; once: history, the user asked for the images of doc;
\* check: the check box "Always load from this sender"; asked: image_policy is Once.
Blank == [sel |-> NoMail, ready |-> TRUE, behind |-> FALSE, kind |-> "text", stack |-> "text", doc |-> NoMail,
          load |-> FALSE, once |-> FALSE, check |-> FALSE, asked |-> FALSE]

ViewInit ==
  /\ main = Blank
  /\ windows = <<>>
  /\ policy = [remote |-> FALSE, trusted |-> {}]
  /\ prefs = [mail |-> [m \in Mail |-> "none"], sender |-> [s \in Senders |-> "none"]]
  /\ activity = "idle"
  /\ choices = 0

-----------------------------------------------------------------------------
(* What a view does *)

Trusted(pol, m) == From(m) \in pol.trusted
\* message_allows_images
Allows(pol, m) == pol.remote \/ Trusted(pol, m)

\* resolve_message_view_preference, with prefer_html_view on
Preferred(m, html) ==
  LET wish == IF prefs.mail[m] # "none" THEN prefs.mail[m]
              ELSE IF prefs.sender[From(m)] # "none" THEN prefs.sender[From(m)] ELSE "html"
  IN  IF wish = "html" /\ ~html THEN "text" ELSE wish

\* update_message_action_buttons and update_message_buttons set the check box to the
\* trust in the sender, so its toggled handler finds nothing to change.
Buttons(v, pol) == [v EXCEPT !.check = Trusted(pol, v.sel)]

Retained(v) == v.sel # NoMail /\ v.ready
\* stop_loading and set_html_image_loading(false)
ImagesStopped(v) == [v EXCEPT !.load = FALSE, !.once = FALSE]

\* show_visual_html_with_image_policy, show_html_message; the buttons follow in any case.
ShownHtmlKeeping(v, pol, once) ==
  IF Retained(v) /\ Renders(v.sel, "html")
  THEN Buttons([v EXCEPT !.load = @ \/ Allows(pol, v.sel) \/ once, !.once = once, !.doc = v.sel,
                         !.kind = "html", !.stack = "html", !.behind = FALSE], pol)
  ELSE Buttons(v, pol)
ShownHtml(v, pol, once) ==
  IF Retained(v) /\ Renders(v.sel, "html")
  THEN Buttons([v EXCEPT !.load = Allows(pol, v.sel) \/ once, !.once = once, !.doc = v.sel,
                         !.kind = "html", !.stack = "html", !.behind = FALSE], pol)
  ELSE Buttons(v, pol)

\* set_active_message_view with a page of text; a failure leaves everything as it is.
TextPage(v, pol, kind) ==
  IF Retained(v) /\ Renders(v.sel, kind)
  THEN Buttons([ImagesStopped(v) EXCEPT !.kind = kind, !.stack = "text", !.behind = FALSE], pol)
  ELSE v

\* The pane: show_selected_message_text_view, show_full_headers, show_raw_source
Shown(v, pol, kind) == IF kind = "html" THEN ShownHtml(v, pol, FALSE) ELSE TextPage(v, pol, kind)
\* show_preferred_selected_message_view
ShownPreferred(v, pol) == Shown(v, pol, Preferred(v.sel, Retained(v) /\ HasHtml(v.sel)))

\* A window: show_message_view turns back before it touches anything when there is no
\* HTML part; otherwise the buttons follow, shown or not.
WindowShown(v, pol, kind) ==
  IF kind # "html" THEN Buttons(TextPage(v, pol, kind), pol)
  ELSE IF HasHtml(v.sel) THEN ShownHtml(v, pol, FALSE) ELSE v
WindowPreferred(v, pol) == WindowShown(v, pol, Preferred(v.sel, HasHtml(v.sel)))

-----------------------------------------------------------------------------
(* Changes that every view has to follow *)

\* refresh_sender_image_policy
SenderRefreshed(v, pol, sender) ==
  IF From(v.sel) # sender THEN v
  ELSE IF v.kind = "html" THEN WindowShown(ImagesStopped([v EXCEPT !.asked = FALSE]), pol, "html")
  ELSE Buttons([v EXCEPT !.asked = FALSE], pol)

\* refresh_remote_image_policy
RemoteRefreshed(v, pol) ==
  LET w == [v EXCEPT !.asked = FALSE]
      stopped == IF w.kind = "html" \/ ~pol.remote THEN ImagesStopped(w) ELSE w
  IN  IF w.kind = "html" THEN WindowShown(stopped, pol, "html") ELSE Buttons(stopped, pol)

\* apply_sender_image_trust: the message pane
MainTrusts(pol, sender, enabled) ==
  LET matches == main.sel # NoMail /\ From(main.sel) = sender
      stopped == IF ~enabled /\ matches THEN ImagesStopped(main) ELSE main
  IN  IF matches /\ main.stack = "html" /\ Retained(main) /\ HasHtml(main.sel)
      THEN ShownHtml(stopped, pol, FALSE) ELSE Buttons(stopped, pol)

\* apply_sender_image_trust, after persist_trusted_image_senders succeeded
ApplyTrust(sender, enabled) ==
  LET pol == [policy EXCEPT !.trusted = IF enabled THEN @ \cup {sender} ELSE @ \ {sender}]
  IN  /\ policy' = pol
      /\ windows' = [i \in DOMAIN windows |-> SenderRefreshed(windows[i], pol, sender)]
      /\ main' = MainTrusts(pol, sender, enabled)

\* The toggled handlers of the check boxes; a failed write changes nothing.
Toggle(v) ==
  /\ HasHtml(v.sel)
  /\ \/ ApplyTrust(From(v.sel), ~v.check)
     \/ UNCHANGED <<main, windows, policy>>
  /\ UNCHANGED <<prefs, activity, choices>>

\* apply_settings_application, as far as images go
SetRemote ==
  /\ activity # "tags"
  /\ LET pol == [policy EXCEPT !.remote = ~@]
     IN  /\ policy' = pol
         /\ windows' = [i \in DOMAIN windows |-> RemoteRefreshed(windows[i], pol)]
         /\ main' = IF main.stack = "html" THEN ShownHtml(main, pol, FALSE)
                    ELSE Buttons([main EXCEPT !.load = pol.remote, !.once = FALSE], pol)
  /\ UNCHANGED <<prefs, activity, choices>>

\* remember_message_view_preference and toggle_sender_view_preference: the value is
\* taken back when it cannot be written.
Remembers(m, kind) ==
  \/ /\ choices < MaxChoices
     /\ choices' = choices + 1
     /\ prefs' = [prefs EXCEPT !.mail[m] = kind]
  \/ UNCHANGED <<prefs, choices>>
SenderDefault(v) ==
  /\ v.sel # NoMail
  /\ choices < MaxChoices
  /\ choices' = choices + 1
  /\ prefs' = [prefs EXCEPT !.sender[From(v.sel)] = IF @ = v.kind THEN "none" ELSE v.kind]
  /\ UNCHANGED <<main, windows, policy, activity>>

-----------------------------------------------------------------------------
(* The message pane *)

MainIs(v) == main' = v /\ UNCHANGED <<windows, policy, activity>>
MainOnly(v) == MainIs(v) /\ UNCHANGED <<prefs, choices>>
FileActions == activity # "tags"   \* ensure_message_file_actions_allowed

\* A message is selected (select_message_by_index, a finished load).  Its page is shown when
\* the recovery file has been written.
MainSelects(m) ==
  /\ FileActions
  /\ \E ready \in {main.ready, TRUE} :
       MainOnly(Buttons([main EXCEPT !.sel = m, !.ready = ready, !.behind = TRUE], policy))

\* ShowSelectedMessage, when that write has ended well: the selection is set again as it
\* was captured, and its page is shown unless it is HTML and tags change its files.
MainShows(m) ==
  \E ready \in {main.ready, main.ready /\ m = main.sel} :
    LET v == Buttons([main EXCEPT !.sel = m, !.ready = ready, !.behind = TRUE], policy)
    IN  MainOnly(IF activity = "tags" /\ Preferred(m, Retained(v) /\ HasHtml(m)) = "html"
                 THEN v ELSE ShownPreferred(v, policy))

\* finish_replaced_search_then: the prepared content goes, and the selection unless the
\* refresh found its thread again.  The page on screen stays, and so do the buttons.
MainRefreshed ==
  \E sel \in {main.sel, NoMail} : MainOnly([main EXCEPT !.ready = FALSE, !.sel = sel])
\* finish_replaced_search_after_model, once the list is filled
MainMenuUpdated == main.sel = NoMail /\ MainOnly(Buttons(main, policy))

\* choose_selected_message_view
MainChoose(kind) ==
  /\ FileActions /\ main.sel # NoMail
  /\ kind = "html" => Retained(main) /\ HasHtml(main.sel)
  /\ LET v == Shown(main, policy, kind)
     IN  /\ MainIs(v)
         /\ IF v.kind = kind /\ Renders(main.sel, kind) /\ main.ready THEN Remembers(main.sel, kind)
            ELSE UNCHANGED <<prefs, choices>>

\* open_image_policy_menu and start_link_hint_mode show the HTML first;
\* toggle_quote_collapse shows the text.
MainShow(kind) ==
  /\ FileActions /\ main.sel # NoMail
  /\ kind = "html" => main.stack = "text" /\ Retained(main) /\ HasHtml(main.sel)
  /\ MainOnly(Shown(main, policy, kind))

\* activate_load_images_once
MainOnce ==
  /\ FileActions
  /\ ~Allows(policy, main.sel) /\ ~(main.stack = "html" /\ main.load)
  /\ MainOnly(ShownHtml(main, policy, TRUE))

MainToggle == FileActions /\ Retained(main) /\ Toggle(main)
MainSenderDefault == SenderDefault(main)

\* show_compose_view covers the page; restore_message_view_after_compose.
MainCompose == main.stack # "compose" /\ MainOnly([main EXCEPT !.stack = "compose"])
MainComposeClosed ==
  /\ main.stack = "compose"
  /\ MainOnly(IF main.sel = NoMail THEN Buttons([main EXCEPT !.stack = "text"], policy)
              ELSE IF activity = "tags" /\ Preferred(main.sel, Retained(main) /\ HasHtml(main.sel)) = "html"
              THEN main ELSE ShownPreferred(main, policy))

-----------------------------------------------------------------------------
(* The standalone windows *)

WindowActions == activity = "idle"   \* path_actions_sensitive

WindowIs(i, v) ==
  /\ windows' = [windows EXCEPT ![i] = v]
  /\ UNCHANGED <<main, policy, activity>>
WindowOnly(i, v) == WindowIs(i, v) /\ UNCHANGED <<prefs, choices>>

\* standalone_window_eviction_count: the count has a limit, and so have the bytes.
Evicted ==
  LET over == Len(windows) + 1 - WindowLimit
  IN  {n \in 0..Len(windows) : n >= over}
\* open_standalone_message_window
NewWindow(m) == [Blank EXCEPT !.sel = m, !.load = policy.remote, !.kind = Preferred(m, HasHtml(m))]

\* StandaloneMessageController::open
OpenWindow(m) ==
  /\ FileActions
  /\ \E n \in Evicted :
       windows' = Append(SubSeq(windows, n + 1, Len(windows)), WindowPreferred(NewWindow(m), policy))
  /\ UNCHANGED <<main, policy, prefs, activity, choices>>

\* The close request of a window; close_all when the main window exits.
CloseWindow ==
  /\ windows # <<>>
  /\ \/ \E i \in DOMAIN windows :
          windows' = SubSeq(windows, 1, i - 1) \o SubSeq(windows, i + 1, Len(windows))
     \/ windows' = <<>>
  /\ UNCHANGED <<main, policy, prefs, activity, choices>>

\* select_message
WindowSelect(i, m) ==
  /\ WindowActions
  /\ WindowOnly(i, WindowPreferred([windows[i] EXCEPT !.sel = m, !.asked = FALSE], policy))

\* choose_message_view
WindowChoose(i, kind) ==
  /\ WindowActions
  /\ kind = "html" => HasHtml(windows[i].sel)
  /\ WindowIs(i, [WindowShown(windows[i], policy, kind) EXCEPT !.asked = IF kind = "html" THEN FALSE ELSE @])
  /\ IF Renders(windows[i].sel, kind) THEN Remembers(windows[i].sel, kind) ELSE UNCHANGED <<prefs, choices>>

\* open_image_policy_menu, start_link_hint_mode; toggle_quote_collapse
WindowShow(i, kind) ==
  /\ WindowActions
  /\ kind = "html" => windows[i].kind # "html" /\ HasHtml(windows[i].sel)
  /\ WindowOnly(i, [WindowShown(windows[i], policy, kind) EXCEPT !.asked = IF kind = "html" THEN FALSE ELSE @])

\* activate_load_images_once: without an HTML part the permission stays until the next
\* message is selected; take_image_policy_for_render ends it otherwise.
WindowOnce(i) ==
  /\ WindowActions
  /\ WindowOnly(i, IF Allows(policy, windows[i].sel) \/ (windows[i].kind = "html" /\ windows[i].load)
                   THEN Buttons(windows[i], policy)
                   ELSE IF HasHtml(windows[i].sel) THEN ShownHtml(windows[i], policy, TRUE)
                   ELSE [windows[i] EXCEPT !.asked = TRUE])

WindowToggle(i) == WindowActions /\ Toggle(windows[i])
WindowSenderDefault(i) == WindowActions /\ SenderDefault(windows[i])

\* Tag operations and sends start and end elsewhere (update_background_activity_controls,
\* set_path_actions_sensitive).
ActivityChanges ==
  /\ activity' \in {"idle", "tags", "send"} \ {activity}
  /\ main' = Buttons(main, policy)
  /\ windows' = [i \in DOMAIN windows |->
                   IF activity' = "idle" THEN Buttons(windows[i], policy) ELSE windows[i]]
  /\ UNCHANGED <<policy, prefs, choices>>

ViewNext ==
  \/ SetRemote \/ ActivityChanges
  \/ \E m \in Mail : MainSelects(m) \/ MainShows(m) \/ OpenWindow(m)
  \/ MainRefreshed \/ MainMenuUpdated
  \/ \E kind \in Kinds : MainChoose(kind)
  \/ \E kind \in {"text", "html"} : MainShow(kind)
  \/ MainOnce \/ MainToggle \/ MainSenderDefault \/ MainCompose \/ MainComposeClosed
  \/ CloseWindow
  \/ \E i \in DOMAIN windows :
       \/ \E m \in Mail : WindowSelect(i, m)
       \/ \E kind \in Kinds : WindowChoose(i, kind)
       \/ \E kind \in {"text", "html"} : WindowShow(i, kind)
       \/ WindowOnce(i) \/ WindowToggle(i) \/ WindowSenderDefault(i)

ViewSpec == ViewInit /\ [][ViewNext]_viewVars

-----------------------------------------------------------------------------
(* Properties *)

View == [sel: Mail \cup {NoMail}, ready: BOOLEAN, behind: BOOLEAN, kind: Kinds, 
         stack: {"text", "html", "compose"}, doc: Mail \cup {NoMail}, load: BOOLEAN, once: BOOLEAN, check: BOOLEAN, asked: BOOLEAN]

\* The state is well typed and the windows respect their limit.
ViewTypeOK ==
  /\ main \in View
  /\ windows \in Seq(View) /\ Len(windows) <= WindowLimit
  /\ policy \in [remote: BOOLEAN, trusted: SUBSET Senders]
  /\ prefs \in [mail: [Mail -> Kinds \cup {"none"}], sender: [Senders -> Kinds \cup {"none"}]]
  /\ activity \in {"idle", "tags", "send"}
  /\ choices \in 0..MaxChoices

Views == {main} \cup {windows[i] : i \in DOMAIN windows}
MayLoad(v) == v.load /\ v.doc # NoMail => Allows(policy, v.doc) \/ v.once

\* A view that shows its selected message loads remote images only while the setting, the
\* trust in its sender or the user's permission for this message allows it, whichever view
\* the permission was given or taken back in (show_visual_html_with_image_policy,
\* apply_sender_image_trust, refresh_remote_image_policy, refresh_sender_image_policy).
ImagesOnlyWhenPermitted ==
  \A v \in Views : Retained(v) /\ v.doc = v.sel /\ ~v.behind /\ v.stack # "compose" => MayLoad(v)

\* A check box that can be pressed shows the trust in the sender of its view's message,
\* whichever view changed it last and whether or not the message could be shown: pressing
\* it grants what is not granted and revokes what is (update_message_buttons,
\* update_message_action_buttons).  Without an HTML part the box is hidden and may lag.
CheckShowsTrust == \A v \in Views : HasHtml(v.sel) => v.check = Trusted(policy, v.sel)

\* README.md and docs/configuration.md say it of every open view: a permission that is
\* taken back reaches the views whose message is no longer the selected one, too.
EveryViewPermitted == \A v \in Views : MayLoad(v)
=============================================================================
