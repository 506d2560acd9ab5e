------------------------------ MODULE HtmlView ------------------------------
(***************************************************************************)
(* The WebView of a message view and the two controllers that talk to it:  *)
(* the lifecycle of a document (html_view_lifecycle.rs: readiness, scroll  *)
(* restore, dark background) and the link hints (widgets/link_hints.rs).   *)
(* Commands to the web process and its events are two queues, so that an   *)
(* answer may be about a document that was replaced since.                 *)
(*                                                                         *)
(* A document is the generation that loaded it; document g shows Links(g)  *)
(* links.  Labels are written with two letters instead of 26.  Metrics,    *)
(* appearance reports and the overlay's drawing are left out.              *)
(***************************************************************************)
EXTENDS Naturals, Sequences

CONSTANTS
  MaxLoads,   \* bound on documents
  MaxStarts,  \* bound on uses of link hints
  MaxTries,   \* collect_attempts of link hints
  MaxAsks     \* bound on scrolls, restores and changes of the background

ASSUME HtmlAssumption ==
  MaxLoads \in Nat /\ MaxStarts \in Nat /\ MaxTries \in Nat /\ MaxAsks \in Nat

VARIABLES
  life,     \* LifecycleState: [gen, ready, pend, flight]
  dark,     \* dark_background
  busy,     \* view.is_loading(), as the UI sees it
  hints,    \* LinkHintState: [phase, gen, doc, prefix, tries]
  timers,   \* link-hint generations with a retry timer
  opened,   \* history: the last link opened [doc, link, shown] or NoLink
  started,  \* uses of link hints so far
  asks,     \* scrolls, restores and changes of the background so far
  web,      \* the web process: [doc, complete, prov, dark, y]
  cmds,     \* commands on their way to the web process
  events    \* events and answers on their way back

htmlVars == <<life, dark, busy, hints, timers, opened, started, asks, web, cmds, events>>

Links(g) == IF g = 0 THEN 0 ELSE IF g = 1 THEN 3 ELSE 1
NoLink == [doc |-> 0, link |-> 0, shown |-> 0]
NoFraction == 0
IdleHints(g) == [phase |-> "idle", gen |-> g, doc |-> 0, prefix |-> <<>>, tries |-> 0]

HtmlInit ==
  /\ life = [gen |-> 0, ready |-> FALSE, pend |-> NoFraction, flight |-> FALSE]
  /\ dark = FALSE /\ busy = FALSE
  /\ hints = IdleHints(0) /\ timers = {} /\ opened = NoLink /\ started = 0 /\ asks = 0
  /\ web = [doc |-> 0, complete |-> FALSE, prov |-> 0, dark |-> FALSE, y |-> NoFraction]
  /\ cmds = <<>> /\ events = <<>>

Ask == asks < MaxAsks /\ asks' = asks + 1
hintVars == <<hints, timers, opened, started>>

-----------------------------------------------------------------------------
(* The lifecycle *)

\* begin_load
BegunLoadKeeping(l) == [l EXCEPT !.gen = @ + 1, !.ready = FALSE, !.pend = NoFraction]
BegunLoad(l) == [gen |-> l.gen + 1, ready |-> FALSE, pend |-> NoFraction, flight |-> FALSE]

\* evaluate_started: the script carries the dark background of the moment.
Evaluation(l, kind) == [op |-> "eval", kind |-> kind, gen |-> l.gen, dark |-> dark, y |-> l.pend]

\* begin_ready_restore, dispatch_ready_restore
CanRestore(l) == l.pend # NoFraction /\ l.ready /\ ~l.flight
Dispatched(l) == IF CanRestore(l) THEN [l EXCEPT !.flight = TRUE] ELSE l
DispatchCommand(l) == IF CanRestore(l) THEN <<Evaluation(l, "restore")>> ELSE <<>>

\* load_html
LoadHtml ==
  /\ life.gen < MaxLoads
  /\ life' = BegunLoad(life)
  /\ busy' = TRUE
  /\ cmds' = cmds \o <<[op |-> "stop"], [op |-> "load", gen |-> life.gen + 1, dark |-> dark]>>
  /\ UNCHANGED <<dark, asks, web, events, hintVars>>

\* set_dark_background
ProbeOnChange(l) == IF l.ready THEN <<[Evaluation(l, "probe") EXCEPT !.dark = ~dark]>> ELSE <<>>
SetDark ==
  /\ Ask
  /\ dark' = ~dark
  /\ cmds' = cmds \o ProbeOnChange(life)
  /\ UNCHANGED <<life, busy, web, events, hintVars>>

\* scroll_lines, scroll_pages, scroll_to_edge
Scroll ==
  /\ Ask
  /\ cmds' = Append(cmds, Evaluation(life, "scroll"))
  /\ UNCHANGED <<life, dark, busy, web, events, hintVars>>

\* restore_fraction, queue_restore
RestoreFraction(y) ==
  /\ Ask
  /\ LET l == [life EXCEPT !.pend = y]
     IN  life' = Dispatched(l) /\ cmds' = cmds \o DispatchCommand(l)
  /\ UNCHANGED <<dark, busy, web, events, hintVars>>

\* record_report, for a report of the observer script
Recorded(l, e) == IF e.doc = l.gen THEN [l EXCEPT !.ready = e.ready] ELSE l

\* complete_evaluation; an answer without a document is an error.
Completed(l, e) ==
  IF e.gen # l.gen THEN l
  ELSE LET landed == [l EXCEPT !.flight = IF e.kind = "restore" THEN FALSE ELSE @]
       IN  IF ~e.ok \/ e.doc # l.gen THEN landed
           ELSE [landed EXCEPT !.ready = e.ready, !.pend = IF e.kind = "restore" /\ e.ready THEN NoFraction ELSE @]
\* Whether the completion goes on to dispatch_ready_restore.
GoesOn(l, e) == e.gen = l.gen /\ e.ok /\ e.doc = l.gen

-----------------------------------------------------------------------------
(* The link hints *)

Collect(g) == [op |-> "collect", gen |-> g]
Loading == {"awaiting", "collecting", "rendering"}

\* start
StartHints ==
  /\ started < MaxStarts
  /\ started' = started + 1
  /\ hints' = [IdleHints(hints.gen + 1) EXCEPT !.phase = IF busy THEN "awaiting" ELSE "collecting"]
  /\ cmds' = IF busy THEN cmds ELSE Append(cmds, Collect(hints.gen + 1))
  /\ UNCHANGED <<life, dark, busy, timers, opened, asks, web, events>>

\* reset: Escape, a page of text, the view unmapped
ResetHints ==
  /\ hints.phase # "idle"
  /\ hints' = IdleHints(hints.gen + 1)
  /\ UNCHANGED <<life, dark, busy, timers, opened, started, asks, web, cmds, events>>

\* connect_load_lifecycle: LoadEvent::Started
HintsAfterStarted(h) ==
  IF h.phase = "awaiting" THEN [IdleHints(h.gen + 1) EXCEPT !.phase = "awaiting"] ELSE IdleHints(h.gen + 1)

\* finish_collecting: no visible link
NoTargets(h, e) ==
  IF e.retry /\ h.gen = e.gen /\ h.phase = "collecting" /\ h.tries < MaxTries
  THEN [h EXCEPT !.tries = @ + 1]
  ELSE IF h.gen = e.gen THEN IdleHints(h.gen + 1) ELSE h
Retries(h, e) == e.links = 0 /\ e.retry /\ h.gen = e.gen /\ h.phase = "collecting" /\ h.tries < MaxTries
\* finish_collecting: links to label
Accepted(h, e) == h.gen = e.gen /\ h.phase = "collecting" /\ e.links > 0
Collected(h, e) ==
  IF e.links = 0 THEN NoTargets(h, e)
  ELSE IF Accepted(h, e) THEN [h EXCEPT !.phase = "rendering", !.doc = e.doc] ELSE h

\* finish_rendering
Rendered(h, e) ==
  IF h.gen # e.gen THEN h
  ELSE IF ~e.ok THEN IdleHints(h.gen + 1)
  ELSE IF h.phase = "rendering" THEN [h EXCEPT !.phase = "active"] ELSE h

\* hint_label_width, hint_label
Width(n) == IF n <= 2 THEN 1 ELSE 2
Label(i, n) == IF Width(n) = 1 THEN <<i % 2>> ELSE <<(i \div 2) % 2, i % 2>>
Matching(p, n) == {i \in 0..(n - 1) : SubSeq(Label(i, n), 1, Len(p)) = p}

\* input_char, apply_link_hint_char
TypeHint(c) ==
  /\ hints.phase = "active"
  /\ LET p == Append(hints.prefix, c)
         n == Links(hints.doc)
     IN  /\ Matching(p, n) # {}
         /\ IF \E i \in 0..(n - 1) : Label(i, n) = p
            THEN /\ opened' = [doc |-> hints.doc, shown |-> web.doc,
                               link |-> 1 + CHOOSE i \in 0..(n - 1) : Label(i, n) = p]
                 /\ hints' = IdleHints(hints.gen + 1)
            ELSE hints' = [hints EXCEPT !.prefix = p] /\ UNCHANGED opened
  /\ UNCHANGED <<life, dark, busy, timers, started, asks, web, cmds, events>>
\* backspace
Backspace ==
  /\ hints.phase = "active" /\ hints.prefix # <<>>
  /\ hints' = [hints EXCEPT !.prefix = SubSeq(@, 1, Len(@) - 1)]
  /\ UNCHANGED <<life, dark, busy, timers, opened, started, asks, web, cmds, events>>

\* The timer of 100 ms that collects again.
RetryTimer(g) ==
  /\ g \in timers
  /\ timers' = timers \ {g}
  /\ cmds' = IF hints.gen = g /\ hints.phase = "collecting" THEN Append(cmds, Collect(g)) ELSE cmds
  /\ UNCHANGED <<life, dark, busy, hints, opened, started, asks, web, events>>

-----------------------------------------------------------------------------
(* Events in the main loop *)

HandleReport(e) ==
  /\ e.op = "report"
  /\ LET l == Recorded(life, e)
         on == e.doc = life.gen
     IN  /\ life' = IF on THEN Dispatched(l) ELSE l
         /\ cmds' = IF on THEN cmds \o DispatchCommand(l) ELSE cmds
  /\ UNCHANGED <<dark, busy, asks, web, hintVars>>

HandleAnswer(e) ==
  /\ e.op = "answer"
  /\ LET l == Completed(life, e)
     IN  /\ life' = IF GoesOn(life, e) THEN Dispatched(l) ELSE l
         /\ cmds' = IF GoesOn(life, e) THEN cmds \o DispatchCommand(l) ELSE cmds
  /\ UNCHANGED <<dark, busy, asks, web, hintVars>>

HandleStarted(e) ==
  /\ e.op = "started"
  /\ hints' = HintsAfterStarted(hints)
  /\ UNCHANGED <<life, dark, busy, timers, opened, started, asks, web, cmds>>

\* LoadEvent::Finished: both controllers listen.
HandleFinished(e) ==
  /\ e.op = "finished"
  /\ busy' = (busy /\ e.doc # life.gen)
  /\ hints' = IF hints.phase = "awaiting" THEN [hints EXCEPT !.phase = "collecting"] ELSE hints
  /\ cmds' = Append(cmds, Evaluation(life, "probe"))
             \o (IF hints.phase = "awaiting" THEN <<Collect(hints.gen)>> ELSE <<>>)
  /\ UNCHANGED <<life, dark, timers, opened, started, asks, web>>

HandleCollected(e) ==
  /\ e.op = "collected"
  /\ hints' = Collected(hints, e)
  /\ timers' = IF Retries(hints, e) THEN timers \cup {e.gen} ELSE timers
  /\ cmds' = IF Accepted(hints, e) THEN Append(cmds, [op |-> "render", gen |-> e.gen, doc |-> e.doc]) ELSE cmds
  /\ UNCHANGED <<life, dark, busy, opened, started, asks, web>>

HandleRendered(e) ==
  /\ e.op = "rendered"
  /\ hints' = Rendered(hints, e)
  /\ UNCHANGED <<life, dark, busy, timers, opened, started, asks, web, cmds>>

HandleEvent ==
  /\ events # <<>>
  /\ events' = Tail(events)
  /\ LET e == Head(events)
     IN  HandleReport(e) \/ HandleAnswer(e) \/ HandleStarted(e) \/ HandleFinished(e)
         \/ HandleCollected(e) \/ HandleRendered(e)

-----------------------------------------------------------------------------
(* The web process *)

Ui == <<life, dark, busy, hints, timers, opened, started, asks>>
NextCommand(op) == cmds # <<>> /\ Head(cmds).op = op /\ cmds' = Tail(cmds) /\ UNCHANGED Ui
Emit(e) == events' = Append(events, e)
Report(g, ready) == [op |-> "report", doc |-> g, ready |-> ready]

\* stop_loading ends a load under way, which still reports that it finished.
WebStops ==
  /\ NextCommand("stop")
  /\ LET loading == web.prov # 0 \/ (web.doc # 0 /\ ~web.complete)
     IN  /\ web' = [web EXCEPT !.prov = 0, !.complete = web.doc # 0]
         /\ IF loading THEN Emit([op |-> "finished", doc |-> IF web.prov # 0 THEN web.prov ELSE web.doc])
            ELSE UNCHANGED events
WebStarts ==
  /\ NextCommand("load")
  /\ web' = [web EXCEPT !.prov = Head(cmds).gen, !.dark = Head(cmds).dark]
  /\ Emit([op |-> "started"])
WebCommits ==
  /\ web.prov # 0
  /\ web' = [web EXCEPT !.doc = web.prov, !.prov = 0, !.complete = FALSE, !.y = NoFraction]
  /\ Emit(Report(web.prov, FALSE))
  /\ UNCHANGED <<Ui, cmds>>
WebCompletes ==
  /\ web.prov = 0 /\ web.doc # 0 /\ ~web.complete
  /\ web' = [web EXCEPT !.complete = TRUE]
  /\ events' = events \o <<Report(web.doc, TRUE), [op |-> "finished", doc |-> web.doc]>>
  /\ UNCHANGED <<Ui, cmds>>

\* scroll_evaluation_script checks the document's token before it acts; a script for a
\* document that is gone may also end in an error.
WebEvaluates ==
  /\ NextCommand("eval")
  /\ LET c == Head(cmds)
         fits == web.doc = c.gen /\ web.complete
     IN  /\ web' = IF fits THEN [web EXCEPT !.dark = c.dark, !.y = IF c.kind = "restore" THEN c.y ELSE @] ELSE web
         /\ \E ok \in {TRUE, fits} :
              Emit([op |-> "answer", kind |-> c.kind, gen |-> c.gen, ok |-> ok, doc |-> web.doc, ready |-> fits])

\* COLLECT_VISIBLE_LINKS_SCRIPT: links of a document that is not laid out are counted only.
WebCollects ==
  /\ NextCommand("collect")
  /\ Emit([op |-> "collected", gen |-> Head(cmds).gen, doc |-> web.doc,
           links |-> IF web.complete THEN Links(web.doc) ELSE 0, retry |-> ~web.complete /\ web.doc # 0])
  /\ UNCHANGED web
WebRenders ==
  /\ NextCommand("render")
  /\ \E ok \in BOOLEAN : Emit([op |-> "rendered", gen |-> Head(cmds).gen, ok |-> ok])
  /\ UNCHANGED web

WebNext == WebStops \/ WebStarts \/ WebCommits \/ WebCompletes \/ WebEvaluates \/ WebCollects \/ WebRenders

HtmlNext ==
  \/ LoadHtml \/ SetDark \/ Scroll \/ (\E y \in 1..2 : RestoreFraction(y))
  \/ StartHints \/ ResetHints \/ (\E c \in 0..1 : TypeHint(c)) \/ Backspace
  \/ (\E g \in timers : RetryTimer(g))
  \/ HandleEvent \/ WebNext

HtmlSpec == HtmlInit /\ [][HtmlNext]_htmlVars

-----------------------------------------------------------------------------
(* Properties *)

HtmlTypeOK ==
  /\ life \in [gen: 0..MaxLoads, ready: BOOLEAN, pend: 0..2, flight: BOOLEAN]
  /\ dark \in BOOLEAN /\ busy \in BOOLEAN
  /\ hints.phase \in {"idle", "active"} \cup Loading
  /\ hints.doc \in 0..MaxLoads
  /\ web \in [doc: 0..MaxLoads, complete: BOOLEAN, prov: 0..MaxLoads, dark: BOOLEAN, y: 0..2]

\* The view is ready only for the document that was loaded last, complete in the web
\* process: no report or answer about an older document makes it so (record_report,
\* complete_evaluation).
ReadyMeansShown == life.ready => web.doc = life.gen /\ web.complete

\* Once nothing is on its way and the last document is complete, it has the background
\* that was chosen last and no scroll restore is left waiting, however loads, changes of
\* the background and restores were interleaved (begin_load, set_dark_background,
\* dispatch_ready_restore).
Quiet == cmds = <<>> /\ events = <<>> /\ web.prov = 0 /\ web.complete /\ web.doc = life.gen
QuietViewFollows == Quiet => web.dark = dark /\ life.pend = NoFraction /\ life.ready

\* While labels can be typed they are those of the document on screen, until the load
\* that replaces it is announced (finish_collecting, finish_rendering,
\* connect_load_lifecycle).
HintsBelongToView ==
  hints.phase = "active" /\ (\A i \in DOMAIN events : events[i].op # "started")
  => hints.doc = web.doc

\* Every label selects one link, and none is the beginning of another (link_hint_labels).
LabelsSelectOne ==
  hints.phase = "active" =>
    \A i \in 0..(Links(hints.doc) - 1) : Matching(Label(i, Links(hints.doc)), Links(hints.doc)) = {i}
=============================================================================
