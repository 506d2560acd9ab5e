------------------------------ MODULE Keyboard ------------------------------
(***************************************************************************)
(* The key router of the main window (main_window.rs, install_shortcuts).  *)
(* Every key pressed in the window meets, in this order, the link hints,   *)
(* the normal-mode handler, the fallback handler and, when none of them    *)
(* stops it, the box of an open menu.  The normal-mode handler keeps, in   *)
(* cells of its own, the sequences that were begun and wait for their next *)
(* key, and the count typed so far; the input mode belongs to the window   *)
(* and is changed by many others (focus, the command palette, the tag      *)
(* editors), so the handler compares a generation of the mode on every key.*)
(*                                                                         *)
(* A key is its GDK name; "C-" is Control.  Of the command that a key runs *)
(* the steps keep `via`, the sequence it completed, and the count it used. *)
(***************************************************************************)
EXTENDS Naturals, FiniteSets

CONSTANTS
  MaxCount,   \* counts are capped here
  Pressed     \* the keys of the steps, one of each kind at least

ASSUME KeyboardAssumption == MaxCount \in Nat

VARIABLES
  desk,       \* the state the handlers read and write
  did,        \* [via, times]: how the last step came to run a command
  afterZ,     \* history: the last key, presses of Shift aside, was Z
  crossed     \* history: sequences begun, and the count typed, before the
              \* latest change of the input mode

keyboardVars == <<desk, did, afterZ, crossed>>

Panes == {"sidebar", "threads", "message"}
MenuOrder == <<"response", "view", "copy", "images", "messageTag", "tag", "undo">>
KeyMenus == {MenuOrder[i] : i \in 1..7}
Sequences == KeyMenus \cup {"exit", "custom", "go"}
Digits == {"0", "1"}
TextKeys == {"a", "A", "c", "d", "D", "f", "F", "g", "G", "h", "i", "I", "j",
             "J", "l", "m", "M", "o", "q", "r", "s", "S", "t", "T", "u", "v", "V", "x",
             "y", "z", "Z", "slash", "colon", "comma", "question", "space"} \cup Digits
ControlKeys == {"C-k", "C-s", "C-1", "C-2", "C-3", "C-4", "C-return", "C-h", "C-l",
                "C-f", "C-e", "C-d", "C-c"}

Desk == [mode : {"normal", "insert"}, moved : BOOLEAN, pend : SUBSET Sequences,
         count : 0..MaxCount, open : SUBSET KeyMenus, pane : Panes,
         shown : (SUBSET Panes) \ {{}}, composing : BOOLEAN,
         focus : {"entry", "composer", "body", "none"}, visual : BOOLEAN,
         palette : BOOLEAN, editor : BOOLEAN, hints : BOOLEAN]

Nothing == [via |-> "none", times |-> 0]
NoCommand == [command |-> "none", via |-> "none", times |-> 0]

\* The panes that the configuration shows at the start; it cannot hide them all.
KeyboardInit ==
  /\ \E panes \in (SUBSET Panes) \ {{}} :
     desk = [mode |-> "normal", moved |-> FALSE, pend |-> {}, count |-> 0, open |-> {},
             pane |-> IF "threads" \in panes THEN "threads"
                      ELSE IF "message" \in panes THEN "message" ELSE "sidebar",
             shown |-> panes, composing |-> FALSE, focus |-> "none",
             visual |-> FALSE, palette |-> FALSE, editor |-> FALSE,
             hints |-> FALSE]
  /\ did = Nothing
  /\ afterZ = FALSE
  /\ crossed = {}

-----------------------------------------------------------------------------
(***************************************************************************)
(* Input mode, panes and focus.                                            *)
(***************************************************************************)
SetMode(s, m) == [s EXCEPT !.mode = m, !.moved = @ \/ s.mode # m]

\* Entries in which text is edited; the body of the composer is not among them.
EntryFocus(s) == s.focus \in {"entry", "composer"}

FirstVisible(s) ==
  IF "threads" \in s.shown THEN "threads"
  ELSE IF "message" \in s.shown THEN "message" ELSE "sidebar"

\* focus_active_pane: an active pane that is hidden gives way to a visible one;
\* a composer in it takes the focus in its first field.
FocusPane(s) ==
  LET p == IF s.pane \in s.shown THEN s.pane ELSE FirstVisible(s)
  IN  [s EXCEPT !.pane = p,
                !.focus = IF p = "message" /\ s.composing THEN "composer" ELSE "none"]

SetPane(s, p) ==
  LET t == [s EXCEPT !.pane = IF p \in s.shown THEN p ELSE FirstVisible(s)]
  IN  IF t.mode = "normal" THEN FocusPane(t) ELSE t

\* The pane to the left (-) or to the right (+) of the active one.
Beside(s, k) ==
  LET order == <<"sidebar", "threads", "message">>
      at    == IF s.pane \in s.shown
               THEN CHOOSE i \in 1..3 : order[i] = s.pane
               ELSE CHOOSE i \in 1..3 : /\ order[i] \in s.shown
                                        /\ \A j \in 1..(i-1) : order[j] \notin s.shown
      side  == {i \in 1..3 : order[i] \in s.shown /\ (IF k \in {"l", "C-l"} THEN i > at ELSE i < at)}
      near  == IF side = {} THEN at
               ELSE CHOOSE i \in side : \A j \in side :
                      IF k \in {"l", "C-l"} THEN i <= j ELSE i >= j
  IN  order[near]

TogglePane(s, p) ==
  FocusPane(IF p \in s.shown
            THEN IF s.shown = {p} THEN s
                 ELSE LET t == [s EXCEPT !.shown = @ \ {p}]
                      IN  IF t.pane = p THEN [t EXCEPT !.pane = FirstVisible(t)] ELSE t
            ELSE [s EXCEPT !.shown = @ \cup {p}])

EnterNormal(s) ==
  LET t == SetMode(s, "normal")
  IN  IF s.composing /\ s.focus \in {"composer", "body"} THEN t ELSE FocusPane(t)

\* `i`: the nearest input of the active pane.  A composer that has the focus
\* keeps it, otherwise its first field takes it.
EnterInsert(s) ==
  [SetMode(s, "insert") EXCEPT
     !.focus = IF s.pane # "message" THEN "entry"
               ELSE IF ~s.composing THEN "none"
               ELSE IF s.focus \in {"composer", "body"} THEN s.focus ELSE "composer"]

TagEditor(s) ==
  [SetMode(s, "insert") EXCEPT !.editor = TRUE, !.focus = "entry", !.open = @ \ {"tag"}]

\* Leaving visual selection writes the mode without moving its generation, and
\* makes the list the active pane even when it is hidden.
ClearVisual(s) == [s EXCEPT !.visual = FALSE, !.mode = "normal", !.pane = "threads"]
EnterVisual(s, ok) == IF ok THEN [s EXCEPT !.visual = TRUE, !.pane = "threads"] ELSE s

-----------------------------------------------------------------------------
(***************************************************************************)
(* The sequences: what their next keys run.                                *)
(***************************************************************************)
Bindings ==
  [response   |-> [r |-> "reply", a |-> "replyAll", f |-> "forward", A |-> "forwardAttached"],
   view       |-> [t |-> "text", v |-> "html", h |-> "headers", r |-> "raw", a |-> "senderView"],
   copy       |-> [m |-> "copyId", t |-> "copyThread", f |-> "copyFrom", o |-> "copyTo",
                   c |-> "copyCc", s |-> "copySubject"],
   images     |-> [m |-> "imagesOnce", a |-> "imagesAlways"],
   messageTag |-> [a |-> "archiveOne", u |-> "readOne", f |-> "flagOne", t |-> "trashOne",
                   s |-> "spamOne", T |-> "tagOne"],
   tag        |-> [t |-> "tagThreads", m |-> "tagMultiple"],
   undo       |-> [z |-> "undoLast", m |-> "undoList"],
   go         |-> [g |-> "top", i |-> "inbox", u |-> "unread", f |-> "flagged", s |-> "sent",
                   d |-> "drafts", t |-> "trash", a |-> "all", c |-> "customPrompt"]]

\* The keys that run a command by themselves, or begin a sequence, when no
\* sequence waits.
Commands ==
  [slash |-> "search", colon |-> "palette", i |-> "insert", j |-> "down", J |-> "nextMessage",
   G |-> "bottom", return |-> "open", a |-> "archive", u |-> "toggleUnread", F |-> "hints",
   f |-> "toggleFlag", c |-> "compose", t |-> "trashThreads", s |-> "spam", v |-> "visual",
   q |-> "quotes", d |-> "debug", comma |-> "settings", question |-> "help"]

Begins == [I |-> "images", M |-> "messageTag", T |-> "tag", r |-> "response", V |-> "view",
           y |-> "copy", z |-> "undo", Z |-> "exit", g |-> "go"]

\* The message pane must be visible for these, and not be the composer for two
\* of them (message_pane_shortcuts_available, compose_view_is_visible).
Available(s, q) ==
  /\ q \in {"response", "view", "copy", "images", "messageTag"} => "message" \in s.shown
  /\ q \in {"images", "messageTag"} => ~s.composing

Cancelled(s) == [s EXCEPT !.pend = {}, !.open = {}, !.count = 0]

\* The faulty variant: the handler does not notice that the mode has moved.
ObservedNever(s) == s

\* On every key the generation of the input mode is compared with the one seen
\* at the last key; a change cancels what was begun before it.
Observed(s) == IF s.moved THEN [Cancelled(s) EXCEPT !.moved = FALSE] ELSE s

\* Keys that a focused entry in normal mode swallows.
Blocks(k) ==
  k \in TextKeys \ (Digits \cup
                    {"h", "j", "l", "g", "G", "i", "I", "slash", "colon", "comma", "question"})

ComposerKeys == [A |-> "attach", S |-> "saveDraft", x |-> "clearDraft", D |-> "deleteDraft"]

\* A menu was opened by a key and waits for the next one.
MenuWaits(s, k) == s.pend \cap KeyMenus # {}

\* The first of the handler's checks that key k meets.
Stage(s, k) ==
  IF s.mode = "insert" \/ k \in ControlKeys \/ k = "shift" THEN "fallback"
  ELSE IF "exit" \in s.pend THEN "exit"
  ELSE IF s.composing /\ k \in DOMAIN ComposerKeys THEN "composer"
  ELSE IF "custom" \in s.pend THEN "custom"
  ELSE IF "go" \in s.pend THEN "go"
  ELSE IF k = "return" /\ EntryFocus(s) THEN "edit"
  ELSE IF EntryFocus(s) /\ Blocks(k) /\ k # "Z" THEN "blocked"
  ELSE IF k = "space" /\ s.pane = "threads" THEN "mark"
  ELSE IF k \in {"h", "l"} THEN "pane"
  ELSE IF k = "esc" THEN "escape"
  ELSE IF MenuWaits(s, k) THEN "menu"
  ELSE IF k \in Digits /\ (k # "0" \/ s.count # 0) THEN "digit"
  ELSE IF k \in DOMAIN Begins /\ Available(s, Begins[k]) THEN "begin"
  ELSE IF k \in DOMAIN Commands THEN "command" ELSE "fallback"

-----------------------------------------------------------------------------
(***************************************************************************)
(* The handlers.  Each takes the desk, the key and `ok`, which stands for  *)
(* what the rest of the program answers (a search of that number exists,   *)
(* the images menu could be opened, Vim is ready to be left), and returns  *)
(* [to, run, stop]: the desk, what was run, and whether the key stops here.*)
(***************************************************************************)
Ran(s, command, via, times) ==
  [to |-> s, run |-> [command |-> command, via |-> via, times |-> times], stop |-> TRUE]
Stops(s) == [to |-> s, run |-> NoCommand, stop |-> TRUE]
Proceeds(s) == [to |-> s, run |-> NoCommand, stop |-> FALSE]

ExitKey(s, k) ==
  LET t == [s EXCEPT !.pend = @ \ {"exit"}]
  IN  IF k = "Z" THEN Ran(t, "exit", "exit", 0) ELSE Stops(t)

\* `g c 1`: a number opens a custom search, or says that there is none.
CustomKey(s, k, ok) ==
  LET t == [s EXCEPT !.pend = @ \ {"custom"}, !.count = 0]
  IN  IF k = "1" THEN IF ok THEN Ran(SetPane(t, "threads"), "customSearch", "custom", 0) ELSE Stops(t)
      ELSE IF EntryFocus(t) /\ Blocks(k) THEN Stops(t) ELSE Proceeds(t)

GoKey(s, k, ok) ==
  LET t == [s EXCEPT !.pend = @ \ {"go"}, !.count = 0]
  IN  CASE k = "g" -> Ran(t, "top", "go", s.count)
        [] k = "c" -> Ran([t EXCEPT !.pend = @ \cup {"custom"}], "customPrompt", "go", 0)
        [] k \in DOMAIN Bindings.go \ {"g", "c"} ->
             Ran(SetPane(t, "threads"), Bindings.go[k], "go", 0)
        [] k = "1" /\ s.count = 0 /\ ok -> Ran(SetPane(t, "threads"), "tagSearch", "go", 0)
        [] OTHER -> IF EntryFocus(t) /\ Blocks(k) THEN Stops(t) ELSE Proceeds(t)

\* The first pending menu consumes the key; its popover closes, except that the
\* entry of the message tag menu stays open to be typed into.
MenuKey(s, k, ok) ==
  LET q == MenuOrder[CHOOSE i \in 1..7 : /\ MenuOrder[i] \in s.pend
                                         /\ \A j \in 1..(i-1) : MenuOrder[j] \notin s.pend]
      t == [s EXCEPT !.pend = @ \ {q}, !.open = @ \ {q}, !.count = 0]
  IN  CASE ~Available(s, q) -> Proceeds([t EXCEPT !.count = s.count])
        [] Available(s, q) /\ k \notin DOMAIN Bindings[q] -> Proceeds(t)
        [] OTHER ->
             Ran(CASE q = "tag" -> TagEditor(t)
                   [] q = "messageTag" /\ k = "T" /\ ok ->
                        [SetMode(t, "insert") EXCEPT !.open = s.open, !.focus = "entry"]
                   [] OTHER -> t, Bindings[q][k], q, 0)

\* A key that begins a sequence; only `g` keeps the count.  The images menu may
\* refuse to open.  Beginning the tag sequence closes the tag editors.
BeginKey(s, k, ok) ==
  LET q == Begins[k]
      t == [s EXCEPT !.count = IF q = "go" THEN @ ELSE 0,
                     !.editor = IF q = "tag" THEN FALSE ELSE @]
  IN  IF q = "images" /\ ~ok THEN Stops(t)
      ELSE Stops([t EXCEPT !.pend = @ \cup {q},
                           !.open = IF q \in KeyMenus THEN @ \cup {q} ELSE @])

\* A command key.  Movement uses the count; `v` and the message keys do nothing
\* where they do not apply, but all of them end the count.
CommandKey(s, k, ok) ==
  LET t == [s EXCEPT !.count = 0]
      run(u, times) == Ran(u, Commands[k], "key", times)
  IN  CASE k = "slash" -> run([SetMode(t, "insert") EXCEPT !.pane = "threads", !.focus = "entry"], 0)
        [] k = "colon" -> run([SetMode(t, "insert") EXCEPT !.palette = TRUE, !.focus = "none"], 0)
        [] k = "i" -> run(EnterInsert(t), 0)
        [] k = "j" -> run(IF s.pane = "message" /\ s.composing
                          THEN IF ok THEN [SetMode(t, "insert") EXCEPT !.focus = "body"]
                               ELSE [t EXCEPT !.focus = "composer"]
                          ELSE t, s.count)
        [] k = "G" -> run(t, s.count)
        [] k = "J" -> IF "message" \in s.shown /\ ~s.composing /\ ok THEN run(t, s.count) ELSE Proceeds(t)
        [] k = "F" -> IF ok THEN run([t EXCEPT !.hints = TRUE], 0) ELSE Stops(t)
        [] k = "v" -> IF s.pane = "threads" THEN run(IF s.visual THEN ClearVisual(t) ELSE EnterVisual(t, ok), 0) ELSE Proceeds(t)
        [] k = "q" -> IF "message" \in s.shown THEN run(t, 0) ELSE Proceeds(s)
        [] k = "return" -> IF s.pane = "threads" THEN run(t, 0) ELSE Stops(t)
        [] OTHER -> run(t, 0)

NormalKey(s, k, ok) ==
  LET stage == Stage(s, k)
  IN  CASE stage = "fallback" ->
             Proceeds(IF k \in ControlKeys THEN [s EXCEPT !.pend = @ \ {"exit"}] ELSE s)
        [] stage = "exit" -> ExitKey(s, k)
        [] stage = "composer" -> Ran(Cancelled(s), ComposerKeys[k], "key", 0)
        [] stage = "custom" -> CustomKey(s, k, ok)
        [] stage = "go" -> GoKey(s, k, ok)
        [] stage = "edit" -> Stops(SetMode(Cancelled(s), "insert"))
        [] stage = "blocked" -> Stops(Cancelled(s))
        [] stage = "mark" -> Ran([s EXCEPT !.count = 0, !.visual = FALSE], "mark", "key", 0)
        [] stage = "pane" -> Ran(SetPane([s EXCEPT !.count = 0], Beside(s, k)), "pane", "key", 0)
        [] stage = "escape" -> Stops(IF s.visual THEN ClearVisual(Cancelled(s)) ELSE Cancelled(s))
        [] stage = "menu" -> MenuKey(s, k, ok)
        [] stage = "digit" ->
             LET n == 10 * s.count + (IF k = "1" THEN 1 ELSE 0)
             IN  Stops([s EXCEPT !.count = IF n > MaxCount THEN MaxCount ELSE n])
        [] stage = "begin" -> BeginKey(s, k, ok)
        [] stage = "command" -> CommandKey(s, k, ok)

FallbackKey(s, k, ok) ==
  LET run(u, c) == Ran(u, c, "key", 0)
  IN  CASE s.mode = "normal" /\ EntryFocus(s) /\ k \in {"left", "C-c"} -> Proceeds(SetMode(s, "insert"))
        [] k = "C-k" -> run([SetMode(s, "insert") EXCEPT !.palette = TRUE, !.focus = "none"], "palette")
        [] k = "C-s" -> IF s.composing THEN Proceeds(s)
                        ELSE IF ok THEN run([SetMode(s, "insert") EXCEPT !.focus = "entry"], "saveSearch") ELSE Stops(s)
        [] k = "C-1" -> run(TogglePane(s, "sidebar"), "togglePane")
        [] k = "C-2" -> run(TogglePane(s, "threads"), "togglePane")
        [] k = "C-3" -> run(TogglePane(s, "message"), "togglePane")
        [] k = "C-4" -> run(FocusPane(s), "layout")
        [] k = "esc" /\ s.palette -> Stops(EnterNormal([s EXCEPT !.palette = FALSE]))
        [] k = "C-return" /\ s.composing -> run(s, "send")
        [] k = "esc" /\ ~s.palette /\ s.visual -> Stops(ClearVisual(s))
        [] k = "esc" /\ ~s.palette /\ ~s.visual /\ s.mode = "insert" ->
             IF s.editor THEN Stops(EnterNormal([s EXCEPT !.editor = FALSE, !.open = @ \ {"tag"}]))
             ELSE IF s.focus = "body" /\ ~ok THEN Proceeds(s) ELSE Stops(EnterNormal(s))
        [] s.mode = "normal" /\ k \in {"C-h", "C-l"} -> run(SetPane(s, Beside(s, k)), "pane")
        [] s.mode = "normal" /\ k \in {"C-d", "C-f"} ->
             IF k = "C-d" \/ s.pane = "threads" THEN run(s, "page") ELSE Proceeds(s)
        [] s.mode = "normal" /\ k = "C-e" ->
             IF "threads" \in s.shown /\ ~s.composing /\ ~EntryFocus(s) THEN run(s, "scroll") ELSE Proceeds(s)
        [] s.mode = "normal" /\ k \in {"return", "C-return"} /\ ~(k = "C-return" /\ s.composing) ->
             IF EntryFocus(s) THEN Proceeds(s)
             ELSE IF s.pane = "message" THEN Stops(IF s.composing THEN EnterInsert(s) ELSE s)
             ELSE run(s, "open")
        [] OTHER -> Proceeds(s)

\* The box of an open menu sees the keys that the window let through.  It does
\* not look at the generation, and only the tag menus look at the mode.
BoxKey(s, k, m, ok) ==
  LET t == [s EXCEPT !.pend = @ \ {m}, !.open = @ \ {m}]
  IN  IF ~Available(s, m) THEN Proceeds(t)
      ELSE IF k \in DOMAIN Bindings[m] THEN Ran(t, Bindings[m][k], "box", 0)
      ELSE Proceeds(IF m = "images" THEN t ELSE s)

\* The boxes of the tag menus: in insert mode, and for the keys that move in a
\* menu, they do nothing.
TagBoxKey(s, k, m, ok) ==
  LET t == [s EXCEPT !.pend = @ \ {m}, !.open = @ \ {m}]
      bound == k \in DOMAIN Bindings[m]
  IN  IF s.mode = "insert" THEN Proceeds(s)
      ELSE IF ~Available(s, m) THEN Proceeds(t)
      ELSE IF k \in {"j", "tab", "left", "return", "space"} THEN Proceeds(s)
      ELSE IF ~bound THEN IF m = "tag" THEN Stops(t) ELSE Proceeds(s)
      ELSE Ran(CASE m = "tag" -> TagEditor(t)
                 [] m = "messageTag" /\ k = "T" /\ ok ->
                      [SetMode(t, "insert") EXCEPT !.open = s.open, !.focus = "entry"]
                 [] OTHER -> t, Bindings[m][k], "box", 0)

\* Label keys of the link hints: the hints end, or wait for another letter.
HintsKey(s, k, ok) ==
  IF k = "esc" \/ (ok /\ k \in TextKeys) THEN Stops([s EXCEPT !.hints = FALSE]) ELSE Stops(s)

Routed(s, k, ok) ==
  IF s.hints THEN {HintsKey(s, k, ok)}
  ELSE LET n == NormalKey(Observed(s), k, ok)
           f == IF n.stop THEN n ELSE FallbackKey(n.to, k, ok)
       IN  IF f.stop \/ f.to.open = {} THEN {f} ELSE 
            {IF m \in {"tag", "messageTag"} THEN TagBoxKey(f.to, k, m, ok) ELSE BoxKey(f.to, k, m, ok) :
               m \in f.to.open}

-----------------------------------------------------------------------------
(***************************************************************************)
(* Steps.  `crossed` collects what waits while the mode changes.           *)
(***************************************************************************)
Waiting(s) == s.pend \cup (IF s.count > 0 THEN {"count"} ELSE {})

Notes(from, to) ==
  crossed' = IF to.mode # desk.mode THEN Waiting(to) ELSE crossed \cap Waiting(from) \cap Waiting(to)

Press(k) ==
  /\ \E ok \in BOOLEAN : \E r \in Routed(desk, k, ok) :
       /\ desk' = r.to /\ did' = [via |-> IF r.run.via \in Sequences THEN r.run.via ELSE "none", times |-> r.run.times] 
       /\ Notes(IF desk.hints THEN desk ELSE Observed(desk), r.to)
  /\ afterZ' = IF k = "shift" THEN afterZ ELSE k = "Z"

\* What happens without a key.
Elsewhere(s) ==
  /\ desk' = s /\ did' = Nothing /\ Notes(desk, s)
  /\ UNCHANGED afterZ

\* The focus enters an entry; entering the body of the composer is insert mode.
FocusEntry ==
  \/ \E p \in desk.shown : Elsewhere([desk EXCEPT !.pane = p, !.focus = "entry"])
  \/ desk.composing /\ "message" \in desk.shown
     /\ Elsewhere([desk EXCEPT !.pane = "message", !.focus = "composer"])
  \/ desk.composing /\ "message" \in desk.shown
     /\ Elsewhere([SetMode(desk, "insert") EXCEPT !.pane = "message", !.focus = "body"])

\* A prepared composer is shown, or the composer gives way to a message.
ShowComposer == ~desk.composing /\ Elsewhere([desk EXCEPT !.composing = TRUE, !.pane = "message"])
LeaveComposer ==
  /\ desk.composing
  /\ Elsewhere([desk EXCEPT !.composing = FALSE,
                            !.focus = IF @ \in {"composer", "body"} THEN "none" ELSE @])

\* A menu is opened with the mouse, or dismissed by a click beside it; the
\* handler's pending flag is not told.
ClickMenu == \E m \in KeyMenus : m \notin desk.open /\ desk.open = {} /\ Elsewhere([desk EXCEPT !.open = {m}])
DismissMenu == \E m \in desk.open : Elsewhere([desk EXCEPT !.open = @ \ {m}])

\* The commands of the palette, by family, and what each leaves on the desk.
ThreadCommands == {"quit", "searches", "responses", "visualSelect", "clearVisual", "tags"}
ViewCommands == {"layouts", "views", "linkHints", "images"}
OtherCommands == {"display", "attachments", "copies", "dialogs", "undoLast", "sync"}

RunNamed(s, c, ok) ==
  CASE c = "visualSelect" -> EnterVisual(s, ok)
    [] c = "clearVisual" -> ClearVisual(s)
    [] c = "layouts" -> IF ok THEN FocusPane(s) ELSE s
    [] c = "linkHints" -> [s EXCEPT !.hints = ok]
    [] OTHER -> s

\* Enter in the palette closes it, returns to normal mode and runs the command.
RunPalette ==
  /\ desk.palette
  /\ \E c \in ThreadCommands \cup ViewCommands \cup OtherCommands, ok \in BOOLEAN :
       LET s == RunNamed(EnterNormal([desk EXCEPT !.palette = FALSE]), c, ok)
       IN  /\ desk' = s /\ Notes(desk, s)
           /\ did' = Nothing
           /\ UNCHANGED afterZ

KeyboardNext ==
  \/ \E k \in Pressed : Press(k)
  \/ FocusEntry \/ ShowComposer \/ LeaveComposer \/ ClickMenu \/ DismissMenu \/ RunPalette

KeyboardSpec == KeyboardInit /\ [][KeyboardNext]_keyboardVars

-----------------------------------------------------------------------------
(***************************************************************************)
(* Properties.                                                             *)
(***************************************************************************)

\* The shape of the desk.  At least one pane stays visible, whatever panes are
\* toggled in whatever order (set_pane_visibility_from_control).
KeyboardTypeOK ==
  /\ desk \in Desk
  /\ crossed \subseteq Sequences \cup {"count"}
  /\ did.times \in 0..MaxCount

\* The handler keeps one flag per sequence (install_shortcuts), but at most one
\* of them is ever set: a key never completes two sequences.
OneSequence == Cardinality(desk.pend) <= 1

\* A sequence or a count that was begun before the input mode changed runs no
\* command afterwards: what was typed before an edit never combines with what
\* is typed after it (observed_input_mode_generation).
SequenceWithinMode ==
  [][did'.via \notin crossed /\ (did'.times > 0 => "count" \notin crossed)]_keyboardVars

\* The keyboard exits only on two Zs with no other key between them; presses of
\* Shift do not count (pending_exit).
ExitTakesTwoZ == [][did'.via = "exit" => afterZ]_keyboardVars

\* The sequences of the help window (shortcut_help_entries), as it states them.
Help ==
  {<<"T", "t", "tagThreads">>, <<"T", "m", "tagMultiple">>, <<"z", "z", "undoLast">>,
   <<"z", "m", "undoList">>, <<"g", "i", "inbox">>, <<"g", "u", "unread">>,
   <<"g", "f", "flagged">>, <<"g", "s", "sent">>, <<"g", "d", "drafts">>, <<"g", "t", "trash">>,
   <<"g", "a", "all">>, <<"g", "g", "top">>, <<"M", "a", "archiveOne">>, <<"M", "u", "readOne">>,
   <<"M", "f", "flagOne">>, <<"M", "t", "trashOne">>, <<"M", "s", "spamOne">>, <<"M", "T", "tagOne">>}
MessageHelp ==
  {<<"r", "r", "reply">>, <<"r", "a", "replyAll">>, <<"r", "f", "forward">>,
   <<"r", "A", "forwardAttached">>, <<"V", "t", "text">>, <<"V", "v", "html">>,
   <<"V", "h", "headers">>, <<"V", "r", "raw">>, <<"V", "a", "senderView">>,
   <<"I", "m", "imagesOnce">>, <<"I", "a", "imagesAlways">>, <<"y", "m", "copyId">>,
   <<"y", "t", "copyThread">>, <<"y", "f", "copyFrom">>, <<"y", "o", "copyTo">>,
   <<"y", "c", "copyCc">>, <<"y", "s", "copySubject">>}

\* Nothing is under way and the message is in view: what the help describes.
Ready(s) ==
  /\ s.mode = "normal" /\ ~s.moved /\ s.pend = {} /\ s.open = {} /\ "message" \in s.shown
  /\ ~s.composing /\ ~EntryFocus(s) /\ ~s.hints /\ ~s.palette

\* The two keys of entry e, pressed on this desk, run its command; an images
\* menu that did not open has begun nothing.
RunsEntry(e) ==
  \A ok \in BOOLEAN : \A first \in Routed(desk, e[1], ok) :
    first.to.pend # {} =>
      \A then \in Routed(first.to, e[2], ok) : then.run.command = e[3]

\* From every ready desk that any history of keys and clicks leads to, each
\* sequence that the help window lists runs the command it gives for it, apart
\* from the one whose second key is `h`.
HelpSequencesRun == Ready(desk) => \A e \in Help \cup MessageHelp : e[2] # "h" => RunsEntry(e)

\* The same for every sequence of the help window, `V h` included.  Does not hold:
\* `h` is taken to move to another pane before the menu sees it.
EveryHelpSequenceRuns == Ready(desk) => \A e \in Help \cup MessageHelp : RunsEntry(e)
=============================================================================
