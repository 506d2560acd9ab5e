-------------------------- MODULE VisualSelection --------------------------
(***************************************************************************)
(* The visual selection of threads (main_window.rs): a range of rows from  *)
(* an anchor to the cursor, which tag commands act on.  The list holds a   *)
(* window of the search results; a range that leaves the window is         *)
(* resolved to thread IDs by a worker that reads the database page by page,*)
(* while the database changes, the window moves and the user goes on       *)
(* pressing keys.                                                          *)
(*                                                                         *)
(* Threads are numbers.  Revision r of the database lists thread           *)
(* (i + r) % Total at position i, so a new revision moves every row.       *)
(* A request for a range carries two generations, and its answer is dropped*)
(* when a newer request or a search came after it.  Neither can be undone, *)
(* so `range` forgets a request at the step that outdates it.              *)
(***************************************************************************)
EXTENDS Naturals, FiniteSets, Sequences

CONSTANTS
  Total,       \* threads of the search
  PageSize,    \* rows of a page
  MaxRevision  \* bound on changes of the database

ASSUME VisualAssumption ==
  Total \in Nat \ {0} /\ PageSize \in Nat \ {0} /\ MaxRevision \in Nat

VARIABLES
  revision,    \* of the database
  view,        \* the window: [off, rows, rev], and cur, the selected row or None
  vis,         \* the visual selection: [on, anchor, cursor, chosen, pending]
  range,       \* the request for the IDs of a range, while its answer counts
  page,        \* the search or page load under way
  preview,     \* [shown, wanted]: thread in the message pane, thread being loaded
  meant        \* history: the threads that the list showed in the range when it was
               \* extended, or when the accepted request for it was made

visualVars == <<revision, view, vis, range, page, preview, meant>>

ListedThreads == 0..(Total - 1)
Rows == 0..(Total - 1)
None == Total
Lower(a, b) == IF a < b THEN a ELSE b
Span(a, b) == Lower(a, b)..(IF a < b THEN b ELSE a)

ThreadAt(r, i) == (i + r) % Total
PageAt(r, off) == [k \in 1..Lower(PageSize, Total - off) |-> ThreadAt(r, off + k - 1)]
PageOf(i) == (i \div PageSize) * PageSize

NoRange == [state |-> "none", anchor |-> None, cursor |-> None, rev |-> 0, opened |-> 0, next |-> 0, got |-> {}]
\* A request whose answer will be dropped: a search came after it.
DroppedRange == [NoRange EXCEPT !.state = "dropped"]
NoPage == [kind |-> "none"]
NoSelection == [on |-> FALSE, anchor |-> None, cursor |-> None, chosen |-> {}, pending |-> FALSE]

VisualInit ==
  /\ revision = 0
  /\ view = [off |-> 0, rows |-> PageAt(0, 0), rev |-> 0, cur |-> 0]
  /\ vis = NoSelection
  /\ range = NoRange
  /\ page = NoPage
  /\ preview = [shown |-> ThreadAt(0, 0), wanted |-> None]
  /\ meant = {}

InWindow(v, i) == i \in v.off..(v.off + Len(v.rows) - 1)
ShownRows(v, a, b) == {v.rows[k] : k \in {n \in 1..Len(v.rows) : v.off + n - 1 \in Span(a, b)}}

-----------------------------------------------------------------------------
(***************************************************************************)
(* Moving the cursor.                                                      *)
(***************************************************************************)

\* The row k of window v becomes the cursor of the selection s: the rows of
\* the window that lie in the range are chosen, and when the range is not all
\* in the window its IDs are requested.
Extended(v, s, k) ==
  LET cursor == v.off + k
      anchor == IF s.anchor = None THEN cursor ELSE s.anchor
  IN  [on |-> TRUE, anchor |-> anchor, cursor |-> cursor,
       chosen |-> ShownRows(v, anchor, cursor),
       pending |-> ~(InWindow(v, anchor) /\ InWindow(v, cursor))]

Requested(v, s) ==
  IF s.pending THEN [NoRange EXCEPT !.state = "open", !.anchor = s.anchor, !.cursor = s.cursor,
                                    !.rev = v.rev]
  ELSE NoRange

\* What the list shows the range to be: its rows, or the positions of the
\* revision that it displays.
Meant(v, s) ==
  IF s.pending THEN {ThreadAt(v.rev, i) : i \in Span(s.anchor, s.cursor)} ELSE s.chosen

\* select_thread_by_index.  A thread that is already in the message pane ends
\* the handler before the visual selection is looked at.  m is what s means.
SelectRow(v, s, m, k) ==
  /\ view' = [v EXCEPT !.cur = k]
  /\ IF preview.shown = v.rows[k + 1]
     THEN /\ preview' = [preview EXCEPT !.wanted = None]
          /\ vis' = s /\ meant' = m
          /\ UNCHANGED range
     ELSE /\ preview' = [preview EXCEPT !.wanted = v.rows[k + 1]]
          /\ IF s.on
             THEN LET t == Extended(v, s, k)
                  IN  vis' = t /\ range' = Requested(v, t) /\ meant' = Meant(v, t)
             ELSE vis' = s /\ meant' = m /\ UNCHANGED range

AfterSearch == IF range = NoRange THEN NoRange ELSE DroppedRange

\* A row outside the window asks for the page that holds it; the selection is
\* remembered, to be restored when the page is there.
LoadPageContaining(i) ==
  /\ page = NoPage
  /\ page' = [kind |-> "locate", target |-> i, off |-> PageOf(i), read |-> FALSE, rev |-> 0,
              applied |-> FALSE, visual |-> vis.on, keep |-> [vis EXCEPT !.pending = FALSE], meant |-> meant,
              asked |-> view.rev, newest |-> TRUE]
  /\ range' = AfterSearch
  /\ UNCHANGED <<view, vis, preview, meant>>

\* A newer request for a range, or the end of the selection, outdates a page
\* load that remembers the selection.
Outdated == IF page = NoPage THEN page ELSE [page EXCEPT !.newest = FALSE]

\* Keys pressed, and threads loaded, between the arrival of a page and its last
\* row are left out.
Steady == page # NoPage => ~page.applied

\* j, k, gg, G and their counts.
MoveTo(i) ==
  /\ Steady
  /\ IF InWindow(view, i)
     THEN /\ SelectRow(view, vis, meant, i - view.off)
          /\ page' = IF vis.on /\ preview.shown # view.rows[i - view.off + 1] THEN Outdated ELSE page
     ELSE LoadPageContaining(i)
  /\ UNCHANGED revision

-----------------------------------------------------------------------------
(***************************************************************************)
(* Entering and leaving the selection.                                     *)
(***************************************************************************)
EnterVisualMode ==
  /\ Steady /\ ~vis.on /\ view.cur # None
  /\ vis' = Extended(view, NoSelection, view.cur)
  /\ meant' = vis'.chosen
  /\ UNCHANGED <<revision, view, range, page, preview>>

ClearVisualMode ==
  /\ Steady /\ vis.on
  /\ vis' = NoSelection /\ range' = NoRange /\ page' = Outdated
  /\ meant' = {}
  /\ UNCHANGED <<revision, view, preview>>

\* reject_visual_selection
Rejected == vis' = NoSelection /\ range' = NoRange /\ meant' = {}

\* Space: a multi-selection, which is not modelled, takes the place of the
\* visual one.  The request for its range stays the newest one.
ToggleMarked ==
  /\ Steady /\ vis.on /\ view.cur # None
  /\ vis' = NoSelection /\ meant' = {}
  /\ UNCHANGED <<revision, view, range, page, preview>>

-----------------------------------------------------------------------------
(***************************************************************************)
(* Tag commands act on the visual selection, and write to the database.    *)
(***************************************************************************)
TagTargets == IF vis.on THEN vis.chosen ELSE {preview.shown} \ {None}

\* The faulty variant: a range that is being resolved is tagged as it stands.
TagAllowedPending == TagTargets # {}

TagAllowed == ~vis.pending /\ TagTargets # {}

TagSelected ==
  /\ Steady /\ TagAllowed
  /\ revision < MaxRevision /\ revision' = revision + 1
  /\ UNCHANGED <<view, vis, range, page, preview, meant>>

-----------------------------------------------------------------------------
(***************************************************************************)
(* The worker that resolves a range.  It opens the database once and reads *)
(* its pages from that revision; after each page, and at the end, it opens *)
(* the database again to compare the revision with the one it expects.     *)
(***************************************************************************)

SameFingerprint(expected, observed) == expected = observed

RangeFails == range' = [range EXCEPT !.state = "failed"]

RangeOpens ==
  /\ range.state = "open"
  /\ IF SameFingerprint(range.rev, revision)
     THEN range' = [range EXCEPT !.state = "page", !.opened = revision,
                                 !.next = PageOf(Lower(range.anchor, range.cursor))]
     ELSE RangeFails
  /\ UNCHANGED <<revision, view, vis, page, preview, meant>>

RangeReads ==
  /\ range.state = "page"
  /\ LET span  == Span(range.anchor, range.cursor)
         found == {ThreadAt(range.opened, i) : i \in span \cap (range.next..(range.next + PageSize - 1))}
         got   == range.got \cup found
         next  == range.next + PageSize
     IN  IF ~SameFingerprint(range.rev, revision) THEN RangeFails
         ELSE IF \E i \in span : i >= next THEN range' = [range EXCEPT !.next = next, !.got = got]
         ELSE IF Cardinality(got) # Cardinality(span) THEN RangeFails
         ELSE range' = [range EXCEPT !.state = "done", !.got = got]
  /\ UNCHANGED <<revision, view, vis, page, preview, meant>>

\* The database cannot be opened or read, or the worker is gone.
RangeBreaks ==
  /\ range.state \in {"open", "page"} /\ RangeFails
  /\ UNCHANGED <<revision, view, vis, page, preview, meant>>

\* A response is used only by the selection that asked for it.
RangeIsCurrent ==
  /\ vis.on /\ vis.anchor = range.anchor
  /\ view.cur # None /\ view.off + view.cur = range.cursor

RangeFailed == Rejected

RangeAnswers ==
  /\ range.state \in {"done", "failed"}
  /\ IF ~RangeIsCurrent THEN range' = DroppedRange /\ UNCHANGED <<vis, meant>>
     ELSE IF range.state = "failed" \/ ~SameFingerprint(range.rev, view.rev) THEN RangeFailed
     ELSE /\ vis' = [vis EXCEPT !.chosen = range.got, !.pending = FALSE]
          /\ range' = NoRange
          /\ meant' = {ThreadAt(range.rev, i) : i \in Span(range.anchor, range.cursor)}
  /\ page' = IF vis.on /\ ~vis'.on THEN Outdated ELSE page
  /\ UNCHANGED <<revision, view, preview>>

-----------------------------------------------------------------------------
(***************************************************************************)
(* Searches, further pages and the changes of the database.                *)
(***************************************************************************)

\* A search supersedes whatever search or page load is under way.
StartSearch ==
  /\ page' = [kind |-> "search", target |-> 0, off |-> 0, read |-> FALSE, rev |-> 0,
              applied |-> FALSE, visual |-> FALSE, keep |-> NoSelection,
              meant |-> {}, asked |-> 0, newest |-> FALSE]
  /\ range' = AfterSearch
  /\ preview' = [preview EXCEPT !.wanted = None]
  /\ UNCHANGED <<revision, view, vis, meant>>

LoadMore(last) ==
  /\ page = NoPage /\ view.off + Len(view.rows) < Total
  /\ page' = [kind |-> "more", target |-> IF last THEN 1 ELSE 0, off |-> view.off + Len(view.rows),
              read |-> FALSE, rev |-> 0, applied |-> FALSE, visual |-> FALSE, keep |-> NoSelection,
              meant |-> {}, asked |-> 0, newest |-> FALSE]
  /\ range' = AfterSearch
  /\ UNCHANGED <<revision, view, vis, preview, meant>>

PageReads ==
  /\ page # NoPage /\ ~page.read
  /\ page' = [page EXCEPT !.read = TRUE, !.rev = revision]
  /\ UNCHANGED <<revision, view, vis, range, preview, meant>>

Arrived == page # NoPage /\ page.read /\ ~page.applied

\* visual_page_selection_is_current
SelectionIsCurrent ==
  page.newest /\ vis.on /\ vis.anchor = page.keep.anchor /\ vis.cursor = page.keep.cursor

\* A page that was asked for in a selection that has changed since is dropped;
\* one that comes from another revision ends the selection.
PageDropped ==
  /\ Arrived /\ page.kind = "locate" /\ page.visual
  /\ \/ ~SelectionIsCurrent /\ UNCHANGED <<vis, range, meant>>
     \/ SelectionIsCurrent /\ ~SameFingerprint(page.asked, page.rev) /\ Rejected
  /\ page' = NoPage
  /\ UNCHANGED <<revision, view, preview>>

Replaced ==
  [off |-> page.off, rows |-> PageAt(page.rev, page.off), rev |-> page.rev, cur |-> None]

\* The results of a search, or the located page, replace the window and end
\* every selection; the rows of the list follow in later iterations.
PageReplaces ==
  /\ Arrived /\ page.kind # "more"
  /\ page.visual => SelectionIsCurrent /\ SameFingerprint(page.asked, page.rev)
  /\ view' = Replaced
  /\ vis' = NoSelection /\ meant' = {}
  /\ preview' = [preview EXCEPT !.shown = None]
  /\ page' = [page EXCEPT !.applied = TRUE]
  /\ UNCHANGED <<revision, range>>

PageAppends ==
  /\ Arrived /\ page.kind = "more"
  /\ view' = [view EXCEPT !.rows = @ \o PageAt(page.rev, page.off), !.rev = page.rev]
  /\ page' = [page EXCEPT !.applied = TRUE]
  /\ UNCHANGED <<revision, vis, range, preview, meant>>

\* The rows are in the list: the remembered selection is put back, and the
\* first row, the asked row or the row that was selected is selected.
RowsApplied ==
  /\ page # NoPage /\ page.applied
  /\ page' = NoPage
  /\ CASE page.kind = "locate" ->
            IF page.visual THEN SelectRow(view, page.keep, page.meant, page.target - view.off)
            ELSE SelectRow(view, vis, meant, page.target - view.off)
       [] page.kind = "search" -> SelectRow(view, vis, meant, 0)
       [] page.kind = "more" /\ (page.target = 1 \/ view.cur # None) ->
            SelectRow(view, vis, meant, IF page.target = 1 THEN Len(view.rows) - 1 ELSE view.cur)
       [] OTHER -> UNCHANGED <<view, vis, range, preview, meant>>
  /\ UNCHANGED revision

\* finish_search_error changes no selection; a located page that cannot be read
\* ends the selection that asked for it.
PageFails ==
  /\ page # NoPage /\ ~page.applied
  /\ page' = NoPage
  /\ IF page.visual /\ SelectionIsCurrent THEN Rejected ELSE UNCHANGED <<vis, range, meant>>
  /\ UNCHANGED <<revision, view, preview>>

\* The message pane has loaded the thread that the cursor asked for, or not.
PreviewLoads ==
  /\ Steady /\ preview.wanted # None
  /\ \/ preview' = [shown |-> preview.wanted, wanted |-> None]
     \/ preview' = [preview EXCEPT !.wanted = None]
  /\ UNCHANGED <<revision, view, vis, range, page, meant>>

\* A tag command, a synchronisation or another program writes to the database.
DatabaseChanges ==
  /\ revision < MaxRevision /\ revision' = revision + 1
  /\ UNCHANGED <<view, vis, range, page, preview, meant>>

VisualNext ==
  \/ \E i \in Rows : MoveTo(i)
  \/ EnterVisualMode \/ ClearVisualMode \/ ToggleMarked \/ TagSelected
  \/ RangeOpens \/ RangeReads \/ RangeBreaks \/ RangeAnswers
  \/ StartSearch \/ (\E last \in BOOLEAN : LoadMore(last)) \/ PageReads
  \/ PageDropped \/ PageReplaces \/ PageAppends \/ RowsApplied \/ PageFails
  \/ PreviewLoads \/ DatabaseChanges

\* The worker thread runs and the timer polls its channel every 50 ms.
VisualFairness == WF_visualVars(RangeOpens \/ RangeReads) /\ WF_visualVars(RangeAnswers)

VisualSpec == VisualInit /\ [][VisualNext]_visualVars /\ VisualFairness

-----------------------------------------------------------------------------
VisualTypeOK ==
  /\ revision \in 0..MaxRevision
  /\ view.off \in Rows /\ view.rows \in Seq(ListedThreads) /\ view.rev \in 0..revision
  /\ view.cur # None => view.cur < Len(view.rows)
  /\ vis \in [on : BOOLEAN, anchor : Rows \cup {None}, cursor : Rows \cup {None},
              chosen : SUBSET ListedThreads, pending : BOOLEAN]
  /\ vis.on <=> vis.anchor # None
  /\ range.state \in {"none", "open", "page", "done", "failed", "dropped"}
  /\ page.kind \in {"none", "search", "locate", "more"}
  /\ preview \in [shown : ListedThreads \cup {None}, wanted : ListedThreads \cup {None}]
  /\ meant \subseteq ListedThreads

\* A tag command that is accepted in visual mode acts on the threads that the
\* list showed in the range, all of them and no others: not on the part of it
\* that happens to be loaded, nor on what the database, the window or earlier
\* requests made of its positions meanwhile (tag_selected_with_delay,
\* maybe_load_visual_selection_range, load_thread_page_containing_index).
TagsTheRange == vis.on /\ TagAllowed => TagTargets = meant

\* A range that is being resolved is resolved in the end or its selection is
\* given up, unless its request was dropped, or the cursor is moved for ever,
\* each move making a request of its own.
RangeResolves ==
  \/ []<>(~vis.pending \/ range.state = "dropped")
  \/ []<><<\E i \in Rows : MoveTo(i)>>_visualVars

\* A range that is being resolved does not stay so ("wait before tagging").  Does not
\* hold: an answer that is dropped leaves the range pending until the next move.
PendingResolves ==
  (vis.pending ~> ~vis.pending) \/ []<><<\E i \in Rows : MoveTo(i)>>_visualVars

\* The cursor of the selection follows the selected row.  Does not hold: a thread that is
\* already loaded is selected without extending the range.
VisualCursorFollows == vis.on /\ page = NoPage => vis.cursor = view.off + view.cur
=============================================================================
