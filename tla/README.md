# A TLA+ model of notm

notm is a GTK mail client over a Notmuch database. Its handlers run one at a
time on the GTK main loop; everything slow (searching, loading threads, writing
drafts, sending, tagging, syncing, copying attachments) runs on worker threads or
in child processes and answers through channels that the main loop polls. Most of
what can go wrong is in between: a handler captures some state, starts a worker,
and goes on in a callback when the user has already done something else. The
modules here model those parts, TLC checks them on small instances, and TLAPS
proves some of the results for every instance.

## 1. Inventory

| Part | State it keeps | Operations | Talks to | Module |
|---|---|---|---|---|
| Recovery draft autosave (`draft_autosave.rs`) | one pending edit, a queue of urgent requests, the active request, a debounce timer, flush callbacks | `schedule`, `flush`, timer, `finish_write` | a writer thread on the recovery file; the composer through callbacks | DraftAutosave |
| Composer (`main_window.rs`, `widgets/composer.rs`) | fields, generation, active draft, capture timer, pending confirmation, send and save in progress | edit, clear, new, send, save, delete, close, exit | autosave, transport, draft files | Composer |
| Composer preparation and attachment cache (`composer_preparation.rs`, `attachment_io.rs`) | generations, one active and one pending job, a lease on a directory | reply, forward, open a draft, confirm, cancel | composer, two workers | ComposerReplacement |
| Draft files (`draft_io.rs`, `draft_recovery.rs`, `widgets/composer.rs`) | named drafts, their legacy store, the recovery file | migrate, list, save, delete, load, recover | file system, composer | DraftFiles |
| LRU cache (`cache.rs`) | entries with recency stamps, a counter | `get`, `insert`, `clear` | thread loading, rendering | LruCache |
| Search worker (`widgets/thread_list.rs`) | command channel, running job, the remembered cancellation flag | `submit`, `cancel`, the worker loop | the database; the main loop | SearchWorker |
| Search activity, list model, sync, tag reconciliation, refresh requests, deferred close (`main_window.rs`, `main_window/external_refresh.rs`, `widgets/search_bar.rs`) | generation, requested query, loading flag, items, outcome of the last full search, who waits for it | type, clear, search, page, locate, settings, sync, tag, refresh, close | search worker, each other | SearchActivity |
| Tag batches and undo (`main_window.rs`, `database.rs`) | tags, the bounded history, its file | tag, undo, undo selected, persist | tag worker, database | TagUndo |
| Thread loader (`thread_loader.rs`) | generation, active load, channel, prepared contents, selection | select, open, open by message ID, cancel, poll | loader worker, search, composer, tags | ThreadReader |
| Paths of message files (`thread_loader.rs`, `database.rs`) | a shared path cell with a generation | resolve, retry, remap after a tag operation | tag worker, readers, other programs | MessageSource |
| MIME structure (`mime.rs`, `thread_loader.rs`) | none: bodies and attachments of a tree of parts, budgets | prepare, extract by index | loader, attachments | Mime |
| Attachment list (`widgets/attachments.rs`, `attachment_io.rs`) | items, rows filled in chunks, action tokens | show, save, open, close | chooser, writer threads, file system | Attachments |
| Visual selection (`main_window.rs`) | anchor, cursor, resolved IDs | move, mark, tag, clear | a resolver worker, the list window, the database | VisualSelection |
| Keyboard (`main_window.rs`) | begun sequences, count, mode generation, open menus | every key | nearly all handlers | Keyboard |
| Message views, standalone windows (`main_window.rs`, `widgets/standalone_message.rs`) | selected message, view, document, image permission | select, choose a view, permit images, trust a sender | settings, HTML view | MessageView |
| HTML view and link hints (`html_view_lifecycle.rs`, `widgets/link_hints.rs`) | load generation, readiness, restore, hint phase | load, scroll, restore, hint, type | the web process | HtmlView |
| Settings (`widgets/settings.rs`, `config.rs`, `app.rs`) | the file, launch options, live settings, the form | launch, edit, apply, save, lists | file system, other writers | Settings |
| Transport and external commands (`transport.rs`, `external_command.rs`) | child process, pipes, deadline | send, run, time out, kill, reap | composer, sync | ExternalCommand |
| Automation harness (`automation.rs`, `main_window.rs`) | request channel, permissions, deferred answers | every command by its effect | clients, the handlers above | Automation |
| RFC 5322, addresses, mailto, HTML sanitising | none: pure functions of text | | | not modelled |
| Command line, themes, remote refresh client, small widgets | start-up, layout | | | not modelled |

What is hard: flushes that join each other's writes; callbacks that run after
the state they captured has moved on; searches and loads that are cancelled,
superseded or dropped by parties that do not know of each other; completions on
which a sync, a refresh request, a hidden window or a test client waits; files
that are renamed, moved or deleted between being named and being read; a child
that waits for its parent; and failures half way through a migration, a
replacement, a batch of tags or the clean-up of a send. `PROJECT.json` lists each
of these hazards at its line with the properties aimed at it.

## 2. Modules and the code

### DraftAutosave

`ctl` is the `RefCell` of `DraftAutosaveController`. Each method is an operator
from one controller record to the next (`Schedule`, `QueueFlush`,
`StartPendingWrite`, `Flush`, `DebounceElapsed`, `ReleaseActive`), so that the
composer's handlers can use the same definitions. `workers` holds the writer
threads: running, written (the rename or unlink has happened), ok or failed. A
failure may come before or after the rename, since `persist_recovery_draft`
still removes the legacy file. `FinishWrite` and `ResumeWrites` are the two
halves of `finish_write`: between them the callbacks hold the main thread and
may schedule and flush again, and nothing else runs. A recovery action is the
set of drafts that the file holds afterwards.

### Composer

Extends DraftAutosave. A content stands for the whole text of the composer;
every edit makes a new one, named by its generation, so that confusing two
texts shows. `callbacks` and `delivering` are the closures given to `flush`, run
in the order of registration by `ReceiveResult`, the callback actions and
`CallbacksDone`. `send` and `save` carry what `PendingSend` and the draft save
captured. `Held` is the application hold of the workers: it keeps the process
alive after the window is gone. A replaced draft may be written in place or to
a new file; both occur in the model, because the placement (local or Maildir)
is a setting. The bound on generations is a guard of `Edit` and of emptying the composer
that no run meets. `accepted` and `given_up` are history variables used by the
properties only. Replacing the composer always puts in an empty message (how a
reply or a draft comes in is ComposerReplacement); a confirmation is modal, so
that nothing but the dialog, timers and workers run until it is answered; the
number of the user's step names a new draft file.

### ComposerReplacement

From asking for a reply, a forward or a draft to a filled composer: the
preparation worker and its poll, the question when text would be lost, the
service that copies attachments (one job active, one pending, a condition
variable), the poll of its answers and the lease that is committed or dropped.
`submit` is two steps, as the worker may run between storing the job and waking it.
`halfway` and `service.wake` are that window. `EarlierErrors` says whether an error
may be on screen when a draft is selected; with TRUE the code deletes files in use
(finding below), so the passing run has FALSE.

### DraftFiles

`disk` is what a reader sees, `after` what each path may hold after a power failure;
a write widens `after`, and only a sync of the directory narrows it. When the process dies,
what it had not synced moves to `earlier`: nobody who reads the store can tell, and it stays
open until a later process syncs that directory. An atomic write
is a step up to the rename and a step for the sync of the directory. A load migrates
the legacy store draft by draft, each move in steps that may fail or be cut off by a
crash; a restart begins again with what is there. The rollback of a save may fail too, and
then both drafts stay; a clear of the recovery file goes on to the legacy file after an
error. `owed` is a history variable: for
every draft the user has saved and neither deleted nor replaced, the texts that may stand
for it (two while a draft is being replaced). A draft is its file: deleting or replacing
one gives up what the file holds at that moment, which may be newer than the text the list
shows (section 5). File names are bounded, and a behavior that has used them all goes no
further. Initial states hold a legacy draft beside
nothing, an equal copy or a different draft in the new store, with a malformed file
or an old recovery file.

### LruCache, RecencyList, MCLruCache

`LruCache` is `BoundedCache` with a counter of `MaxRecency` instead of
`u64::MAX`. `RecencyList` is the abstract specification, a sequence from the
least to the most recently used entry, without stamps. `MCLruCache` gives the
refinement mapping (the entries sorted by stamp).

### SearchWorker

The service of `thread_list.rs`: a channel of jobs and Cancel commands, a
worker that takes all that is queued and keeps the last (`latest_search_job`),
and `active`, the one cancellation flag the service remembers. The database is
a counter of its commits, and a search reads one of the commits between its
beginning and its end. A cancelled search may still succeed (the flag was set
after its last check) or fail.

### SearchActivity, MCSearch

Extends SearchWorker with the main loop around it. `ui` holds the fields of
`UiState` that matter: the loading flag and announced query, the items (query,
commit, number of pages), the outcome of the last full search, the flags of
sync and tag operations. `updates` are the idle sources that apply items to the
list model in chunks; `rows` is what the list shows, or `Partial` while an update
is under way. `sync`, `tag` and `refreshes` are the three parties that wait for
searches. The window is visible, hidden until idle, or closed; the flush that
precedes the close is Composer's. A tag operation leaves one commit and one of four
reports (complete; undone, after which the list is always read again; partial;
uncertain paths). A commit is made by the end of a sync, by a tag operation and
by the caller of a refresh. `agenda` is what the user still does in a behavior:
`MCSearch` lists the agendas of the runs.

### TagUndo, MCTagUndo

A tag operation is a batch of mutations, one per message. `MutateMessage` gives
every outcome of `mutate_message`: applied, not found, stopped after some of the
removals or additions, not renamed on disk, or not thawed, in which case nothing
is reported. `CommitFails` is a failing `end_atomic` or close: the changes are
kept or lost, and the report has them all the same. `FinishTagWorker` pushes the
inverse of the report, or puts back the actions of an undo that did not complete.
`queue` and `file` are the persistence thread and `tag-undo.json`; `Crash` loses the
queue and the atomic section. `original` is a history variable, what undoing
everything must give: it changes only when an operation falls out of the bounded
history, when the user undoes an older action before a newer one, when another
program changes a tag that no action is about, or when a crash or a failed write
has lost part of the history. `doubtful` holds the messages whose change notm could
not observe. `UndoAll`, what undoing the whole history would give, is in closed form:
of the actions about a tag of a message the oldest one decides. `MCTagUndo` checks that
form against undoing one action after the other (`UndoingInTurn`, on every history of up
to two actions), and adds the symmetry of messages and of tags, which is sound as no
liveness is checked and no definition chooses between them. `HighestFirst` is the order
in which the worker takes the actions of a selection.

### ThreadReader

`ThreadLoadCoordinator`, its worker and the handlers that select, open, search, edit
and tag around a load. A load carries what was asked with it (`requests`): preview,
open, open at a message ID, or a standalone window. `wish` is a history variable:
the threads that the newest request may show. A message is its position in the
thread.

### MessageSource

One message file, its path on disk, in the database and in the cell
`CurrentMessagePath` that loader, attachment and composer workers share. Tag
operations rename the file and the database follows; another program may move it at
any time. A reader resolves the path, opens the file, and on failure looks again,
up to four attempts; `RemapCell` starts a new generation, by which a read of the
earlier path is discarded.

### Mime, MCMime

A message is the sequence of its parts in depth-first order. `walk_part` (bodies,
alternatives, related containers, signed and encrypted parts, attachments) and
`collect_attachment_data` (extraction by index) are two traversals written apart in the
code and in the model; the loader's preflight is the third. Recursion over the tree is
a recursive function or a fold. `MCMime` enumerates all trees of up to four parts
over a choice of containers and leaves, usual trees of five, and threads of two and
three messages that meet the budgets.

### Attachments

The list is filled in chunks by idle callbacks, each tied to a render generation.
Saving asks a chooser, opening does not; both start a writer thread with a token, and
`AttachmentIoCoordinator` knows the current one. Publication looks for a free name and
links without replacing; other programs create files of the same names meanwhile.

### VisualSelection

Revision r of the database lists thread (i + r) % Total at row i, so that a change of
the database moves every row. The list holds a window of pages; a range that leaves it is
resolved by a worker that reads page by page and compares the revision. `meant` is a
history variable: the threads the list showed in the range when the user extended it.

### Keyboard

`Routed` is the key handler as a function of the desk, the key and whether the command
succeeds; its parts are the stages of `install_shortcuts` in their order. The input mode
is changed by others too (focus, palette, editors), which is what the handler's
generation notices. `crossed` is the history of what was begun before such a change.

### MessageView, MCMessageView

The message pane and the standalone windows are records of one shape. `policy` is the
global setting and the trusted senders; each change refreshes the views in the way the
code does, one handler a step. A message renders, has no HTML, has too much or is
damaged, so that every failure path of `render_visual_html_for_message` occurs. The pane and
a window differ where they fail: the pane updates its buttons, a window that has no HTML
part to show turns back before (`WindowShown`). In the pane a selection
(`MainSelects`) and its page (`MainShows`), which waits for the recovery file, are two
steps, and `behind` says that the page on screen is of an earlier selection; after a search
the menu and buttons follow once the list is filled (`MainMenuUpdated`).

### HtmlView

Commands to the web process and its events are two queues. `life` is `LifecycleState`;
`web` is external, modelled from how the code uses WebKit: a load is provisional, then
committed, then complete, and `stop_loading` ends either. Link hints collect, render,
retry and are typed against whatever document is there by then.

### Settings

One key stands for each kind of key: applied at once, launch-only, a list joined by
commas, hidden searches, and the lists that the window writes by itself. `Launch` loads
and validates, the dialog is seeded, edited, applied or saved, `Remember` and its kin
write one list. Writes fail, and an editor may leave a file that does not parse.

### Automation

Every command of the harness appears by name with the effect of its arm. `RequestAccepted`
is the chain of gates in `handle_automation_request` (dialog open, permissions of the
launch, permission to control a dialog). Answers are immediate, deferred until a draft is
saved, or tied to the end of the program by an application hold. `ending` is the history of
the requests whose arm makes the window go: the exit button, a palette name, a key (a key
may do anything the shortcut router does, Z Z included) and an accepted close. A window that
goes is first flushed (`FlushEnds`), and may be hidden until work ends (`HiddenCloses`).

### ExternalCommand

`runner` is the body of `run_external_command`: wait, write and drain at once, a deadline,
kill of the group and reaping. The system may refuse the kill, and waiting may fail; the
cleanup is then given up and reported. That the child does not leave its own group is
assumed. The child reads, writes, forks and exits as it likes and is
external. `Spawn` is used by a send with input, a send with a file and the two commands of
a sync.

### MC modules

`MCComposer` fixes one content per generation. `MCAnswers`, `MCFiles` and `MCDesk`
each check several components in one run: they share no state, so a variable `part` picks
the one that runs and the others stay in an initial state in which none of their fair
actions is enabled. Every component is thereby explored as if alone; its behaviours are
those of its own specification, and its state space is as large. Definitions with the
comment "Faulty variant", or with a comment that says what goes wrong, directly before the
definition they imitate are mutants: plausible mistakes in that code which a property must
notice. No specification uses them.


## 3. Runs

| Run | Instance | What it shows |
|---|---|---|
| `composer_send` | four steps of the user among edit, send, close, exit | the transport starts only when the text is on disk (`TransportAfterDurable`), a later edit is neither lost nor cleared (`NothingTypedIsLost`), an accepted text leaves the recovery file (`SentTextLeavesRecovery`), each send and each hidden window comes to an end (`SendEnds`, `HiddenWindowResolves`) |
| `composer_drafts` | five steps among all operations | no edit is left without a timer or a write (`NoStrandedEdit`), the window goes only when the text is somewhere (`CloseKeepsDraft`), a draft file is deleted only when its text is elsewhere, sent or given up (`DraftDeletedAfterUse`) |
| `search` | the agendas of `MCSearch`: three steps among typing, clearing, paging, sync, close; three among typing, clearing, tagging, close; one or two among search, locate, settings, sync, tag with one refresh request; two pages | `AwaitedSearchNotDropped`, `SyncShowsNewMail`, `SyncEnds`, `DeferredCloseEnds`, `WarningOutlivesStaleSearch`, `TypedQueryAnswered`, `RefreshAnswersFresh` |
| `tag_undo` | two messages, two tags, a history of two, three steps of the user and of others | undoing all of the history gives the tags from before (`UndoAllRestores`), an undo that does not complete keeps its action (`UndoNotLost`) |
| `answers` | autosave: one content, two generations, four requests, three flushes; command: two chunks of input and output, a pipe of one, an output limit of one; source: two readers, four attempts, two tag operations, one move by another program; HTML: two loads, one start of hints, one retry | `AnsweredWhenDurable`, `NewerEditSurvives`, `FlushAnswered` of the autosave; `NothingLeftBehind` (when a command has returned its child is reaped, and after a timeout or an error nothing is left in its group, or the error says that the cleanup failed and nothing further is run) and `ChildFinishes` (the pipes never wait for each other) of the command; `ReadFindsFile` of the source; `QuietViewFollows` of the HTML view |
| `files` | drafts: two named drafts, local and Maildir, one edit, one save, one fault, one death of the process or power failure; settings: one failing write or foreign edit; replacement: three preparations, three cache requests, two changes; MIME: every tree of up to four parts; cache: four keys, two values, capacity three, a counter up to five | `SavedDraftSurvives`, `UnsavedTextRecoverable`; `TrustIsOnDisk`; `AttachedFilesExist`, `NoOrphanDirectory`; `ListedIsExtracted`; `EvictsOldest` and the refinement `ImplementsRecencyList` |
| `desk` | keyboard: 27 keys, counts to one; selection: three threads in pages of one, one revision; reader: two threads, three loads; attachments: two threads of two items, rows in chunks of one, two shows, two actions, one file of another program; automation: one client, two calls, one dialog; views: three messages, a pane and one window | `SequenceWithinMode`; `TagsTheRange`; `AwaitedLoadNotSkipped`, `NewestLoadWins`; `OpensWhatIsShown`; `OnlyPermittedWork`, `ExitAnsweredFirst`; `ImagesOnlyWhenPermitted` |
| `sync_meets_settings` | a sync and a settings change | violated: `SyncEnds` |
| `close_meets_page` | a page load, a tag operation and a close | violated: `DeferredCloseEnds` |
| `draft_meets_old_error` | as in `files`, with an error on screen | violated: `AttachedFilesExist` |
| `harness_close` | automation as in `desk` | violated: `AnsweredBeforeEnd` |
| `image_permission` | views as in `desk`, with one kept view preference | violated: `EveryViewPermitted` |

Bounds. In the autosave, three flushes with two generations and two actions suffice
for joining an active write, joining a queued one, promoting and superseding while
one is written. In the composer runs the user's steps are the only bound: the bounds
on generations, requests and flushes are above what those steps can use. Four steps reach
send, edit, close, present; five reach save, edit, save, delete with a close. The
cache's counter overflows with any contents of the cache. In the search run the
startup search is under way when the user begins, so each step meets a running
search, a queued one, an arrived answer or a list that is being filled. The agendas
leave out the two combinations of the findings, which have runs of their own; one refresh
request is explored, so the refusal of further ones is not. A pipe of
one chunk blocks a child that is not drained and a parent whose child does not
read. Two tag operations and one move by another program change the path under a reader
three times in its four attempts; `ReadFindsFile` is about reads that begin when the
renaming is over.
Three preparations are one that is superseded, one that is asked about and one that
replaces it. Three threads in pages of one put a range over loaded and unloaded
rows. Three loads of two threads are an awaited load, a preview that supersedes it
and a return. Trees of four parts contain a container in a container with two leaves,
which is where the traversals could disagree about an index. The properties of the
draft files speak of what a power failure at this moment would leave, so one death of the
process is enough for a power failure after it; with two crashes, 1.9 million states of
`DraftFiles` alone, they hold as well. A fixture permits what
the other two launch options of the harness permit, so they are set with it. The configuration
starts without a name and without send arguments; the argument list that the dialog splits matters only to `ConfigLoads`,
which is proved. Three messages are two
senders, one of them with a second message whose HTML is damaged.

Deadlock is not checked where the user's steps are bounded or the window may close,
since the system may then stop.

Fairness. Weak fairness of the main loop's timers, polls and idle callbacks as
a group (GLib dispatches ready sources), of the worker threads as a group
(each ends: the transport and the sync commands have timeouts, the rest are
bounded loops over local files and the database), and of the
callbacks of a finishing write (straight-line code). `CmdFairness` is the same for the
threads of a command, and for a child that goes on when it can: that is the hypothesis of
`ChildFinishes`, which is about children that read, write and end. A command with a
deadline returns without it. Nothing is assumed of the
user, the session bus or other programs. As long as the user's steps are finite
each fair group runs until nothing in it is enabled, so weak fairness of the
groups suffices.

The modules state more than the runs check. Each has a type invariant, and the following
hold too when TLC is given the constants of the table and the module alone:
`RowsAreItems`, `NothingOverwritten` (Attachments); `ConfirmationUndisturbed`,
`RequestAnswered` (Automation); `CancelReachesCache`, `FillsOverAskedText`, `CacheEnds`
(ComposerReplacement); `SaveKeepsListable`, `SaveKeepsText`, `RecoveryFillsUntouched`,
`PersistenceFrees` (DraftFiles); `CommandReturns`, `MessageOutlivesCommand`
(ExternalCommand); `ReadyMeansShown`, `HintsBelongToView`, `LabelsSelectOne` (HtmlView);
`OneSequence`, `ExitTakesTwoZ`, `HelpSequencesRun` (Keyboard); `RetainedPathsSettle`,
`StalePathsAreOld`, `ReadMatchesCell` (MessageSource); `CheckShowsTrust` (MessageView);
`ImagesOfOwnContainer`, `AttachmentBudget` (Mime); `ShowsTheAnnouncedSearch`,
`OutcomeIsShown`, `SearchSettles` (SearchActivity); `CancelReachesEveryJob`
(SearchWorker); `ConfigLoads` (Settings); `CloseSavesHistory` (TagUndo);
`CancelReachesLoad`, `PickBelongsToLoad`, `LoadTimersEnd` (ThreadReader);
`RangeResolves` (VisualSelection). Definitions whose comment begins "Does not hold" are
what one might expect of the code and TLC refutes; section 5 explains them.

## 4. Findings

- **A settings change during the refresh of a sync** (`sync_meets_settings`).
  `apply_settings_application` starts a model update of its own and so cancels
  the one that the sync's refresh is applying. The cancelled completion ends the
  loading state but records no outcome, and `wait_for_sync_refresh` polls for ever.
- **Closing during a page load with a tag warning** (`close_meets_page`). The page
  load counts as work that defers the close; its end does not look at the hidden
  window.
- **An old error when a draft is opened** (`draft_meets_old_error`). The selection
  snapshot that goes with the replacement puts `last_error` back, the filled
  composer is taken for a failed one, and the directory of its attachments is removed.
- **A close that is accepted through the harness** (`harness_close`). `respond_confirmation`
  accepts the dialog, the flush closes the window, and nothing keeps the process until the
  client thread has written the response, as the hold of `click_exit`, `send_key` and
  `run_command` does; a test accepts a close and expects the answer. The window of time is
  short, since the poll of the harness and the writing thread go on side by side.
- **Permission taken back from a view that shows another message** (`image_permission`).
  The refresh compares the sender of the selected message, not of the document that
  is loaded; the README says that matching open views are refreshed.

## 5. Observations

What the models show besides, without a run of its own. Line numbers are of
`crates/notm-ui/src/main_window.rs` unless a file is named.

Composer and drafts.
A send while the close flushes is accepted, joins the write, and fails when the close
callback has run first (16905, 17485; `CloseWaitsForSend`); the text stays in the
recovery file. Sending and saving cancel the capture timer before they ask; when the
answer is no, the last edit is not captured until the next (17388; `EditBecomesDurable`).
A flush that joins an outstanding write cancels the timer of an equal pending edit
(`draft_autosave.rs` 190); if the write fails, that edit waits for the next one, and the
window reports the failure. `SentTextLeavesRecovery` needs that the composer is not cleared
meanwhile. `save_rfc5322_to_maildir` (18102) never syncs, so a power failure may take a
draft saved to a Maildir (`SavedDraftDurable`). Nor does a migration sync a copy that an
earlier process left: when that process died between the rename of the copy and the sync of
the directory, the next one finds the two equal, removes the legacy draft
(`draft_io.rs` 372, 439) and a power failure then may take both. `SavedDraftSurvives` gives up
what power takes after such a death, and no document promises more. `finish_active_draft_delete` does not
refresh the list, which goes on naming the deleted draft (9288; `ListedDraftsExist`). A
save does not invalidate a refresh of the list that is under way (9058, 9489): one that
scanned the store before the save and is polled after it puts the older text back in the
list, and whoever deletes or loads and saves that entry gives up the newer text without
having seen it. The proof attempt of `SavedDraftSurvives` found this; with three saves TLC
does too. A migration that fails twice, at the limit of
the number of drafts, copies a legacy draft again; a save that fails when the directory
is synced leaves its file.

Searching, selecting, reading.
A page appended to the list may be of a newer revision than the rows above. A thread that
is already loaded is selected without extending a visual range (13450;
`VisualCursorFollows`); an answer to a range that is dropped leaves the range pending until the
next move (14818; `PendingResolves`). A search that still lists the selected thread keeps
the selection and drops its prepared contents (12650; `SelectedIsPrepared`). The undo
action is popped and the shorter history written before the worker begins (14374), so that
a crash between the two loses it; an action is also pushed for changes whose commit failed.

Messages and attachments.
The preflight of `thread_loader.rs` (1681) says that it mirrors the classification of leaves
in `notm_mail`; it counts some parts that the later pass does not, so that the budget may
reject a thread that would fit. Text inside an attached container, in a non-root
part of a related container or in encrypted parts is neither body nor attachment. A save of
an attachment that is superseded reports no outcome (`widgets/attachments.rs` 810, 916).

Commands, keys, settings, automation.
A command that succeeds without reading all its input, or whose descendant keeps standard
output open, is reported as failed (`SuccessReported`). The group is killed after the
leader may have been reaped (`external_command.rs` 157), when its number could in
principle belong to others (`KillStaysInGroup`). The help window lists `V h`, but `h` moves to
another pane before the menu sees it (21890, 6503; `EveryHelpSequenceRuns`).
A launch-only choice that was saved is written over by the next Save of the session, whose
dialog is seeded with the values of the launch (22244, and `widgets/settings.rs` 1641;
`SavedChoiceKept`); Save also writes down values that were derived, and a list
entry with a comma becomes two. A client that has timed out still has its command run.

## 6. Proofs

The theorems hold for all values of the constants that satisfy the named assumptions of
the modules they extend. These say that bounds are natural numbers, that the sets the
environment chooses from are of the right kind, and no more: `BoundsAssumption`,
`CapacityAssumption` (see `LruCache`), `ComposerAssumption`, `CommandAssumption`, `ReaderAssumption`,
`SettingsAssumption`, `ViewAssumption`, `ReplacementAssumption`, `AttachmentsAssumption`,
`DraftFilesAssumption`, `AutomationAssumption`, `VisualAssumption`, `KeyboardAssumption`,
`TagUndoAssumption`, `HtmlAssumption`, `QueriesAssumption` and `ActivityAssumption`. TLC evaluates each of
them in a run. No property below is inductive by itself; each module defines the
invariant that is (checked by TLC before it was proved) and has one step per
action and, under it, one per conjunct that the action can disturb.

`DraftAutosaveProofs`: `TypeCorrect`, `SingleWriter`, `EveryWaiterServed`,
`DurableBeforeAnswer`, `NewerEditKept`. That a waiter's request is still outstanding
needs the fact that request ids are unique among pending, urgent and active requests and
below the counter, and that the file holds what a successful worker wrote needs that
there is no other worker.
The module also holds the proofs about the composer, which is built on the controller:
`TypedTextKept`, `DraftFilesKept`, `SentWhenDurable`, `ClosedWhenDurable` and
`EditNotStranded`. The composer
has thirty-odd actions, so lemmas first say of every step what kind it is: what it may do to
the fields, to the draft files, to the requests of the controller, to the callbacks. The
invariants build on each other. `Base` has the types, that nothing carries a generation
later than the composer's and that the draft that is open has its file. `Registered`: an activity has one callback waiting, and
only while it waits for that flush. `Texting`: one activity at a time, over the text it
captured, and what may still empty the composer is about that text. `Stored`: a file
has one path, a save that does not write in place writes to a fresh one, and what the failure path
would remove is what the save wrote. These give the first two theorems. `Answered`
(`AnswersInvariance`): a callback has the generation of its waiter, `finish_write` answers
callbacks of one generation only, nothing is being written while the callback of an
up-to-date send or close has still to run, and the write that an up-to-date send waits for
holds the text, or the saved draft does. `ClosingInv` (`ClosingInvariance`) says the same of a
close, whose text may also have been given up. Such a close may find the saved draft in place
and just remove the recovery file; the draft then has to stay until the window goes. A
send could delete it, so the send's callback has to come after the close's; a save that was
asked for later could replace it. Hence `Queueing`: no two requests stand for the same write, none is newer
than the composer's generation, and none newer than the close is ahead of its write; and
`ClosedSince`: no draft saved by then holds a text newer than a waiting close. Which of the
callbacks of a write runs first is decided by the least flush number, which
`NatLessThanWellFounded` gives without induction over data. `NothingStranded`
(`StrandingInvariance`) is about the timers. The controller by itself may strand an edit: a
flush of an older generation stops the timer, joins a write in progress and leaves the
newer edit pending. The composer never calls it so: a timer that runs is for the text in
the composer, which no draft holds, and every other request of that generation writes this
text, or is the clear that an ending deletion waits for, under which only a close flushes; and who
is about to empty or to send the composer has stopped the timers first.

`LruCacheProofs`: `CapacityRespected`, `StampsStayDistinct`, `RecencyOrderKept`,
`OldestEvicted`. The argument is that a rebase gives each entry its rank, that
ranks are distinct and ordered as the stamps, and never exceed the number of
entries, which is below the counter's limit.

`ExternalCommandProofs`: `CommandTypeCorrect`, `CommandLeavesNothing`,
`MessageFileOutlivesCommand`. `CmdInv` adds that the runner alone reaps and says so,
that a drained pipe means nobody is left to write to it, and that between a signal that was
not refused and the return the child is dead and its group empty.
The module also holds the proofs about tag operations: `TagTypeCorrect`, `UndoAllIsExact`,
`UndoIsNotLost` and `CloseSaves`. `TagInv` speaks of the owed history: the list and
the operation in flight, as it would be undone after it. `Exact` says that undoing it gives
`original` for every message that is not doubtful; `Tagging` and `InTurn` say what a batch
has done and still has to do, `Progress` what the actions undone so far have settled, and
`Saved` that the persistence thread's queue ends with the list and that the file, when the
queue is empty, holds it unless a write has failed.
That a selection of the history is undone each action once, the highest first, is an
induction over its size; it is done with a smallest counterexample (`SmallestOf`), since
the library's induction theorems cannot be instantiated.

`ThreadReaderProofs`: `ReaderTypeCorrect`, `AwaitedLoadReachesWorker`,
`DroppedLoadIsFlagged`, `PickStaysWithLoad`, `NewestLoadShown`. `ReaderInv` numbers the
loads: whatever is in the channel, being prepared or answered has a number up to the
coordinator's, the awaited one has the last number and is in one place only, and the flag
the service remembers is that of the awaited load until its reply is sent. Without the
last fact a worker that ends an old load could forget the flag of the new one.
`HtmlTypeCorrect`, `ViewReadyMeansShown` and `ViewFollows` are about the HTML view. `HtmlInv`
follows its two queues: documents come in the order of their generations (`Ordered`), no
event speaks of one that is still to come (`Heard`), and once the last document is complete
either the UI knows it or the report that says so is on its way with the end of the load
behind it (`Shown`), which is going to paint the chosen background (`Follows`). A view whose
queues are empty can then only be right. `Flying` and `Served` do the same for the scroll
position that is to be restored.

`TrustProofs`: `SettingsTypeCorrect`, `ConfigStaysLoadable`, `TrustStaysOnDisk` for the
writers of the configuration, `ViewTypeCorrect`, `ImagesNeedPermission`,
`CheckBoxesAgree` for the views. `SettingsInv` adds that the dialog belongs to this run of
the program and that the file validates also while it cannot be parsed; `ViewInv` that an
HTML page on screen belongs to the view kind in use and to a message that can be rendered,
that the check box of every message with an HTML part shows the trust in its sender, and
that a view which loads images has the permission for its message, or, while it shows the
text, the global one: taking back a sender passes such a view by.

`FilesProofs`: `ReplacementTypeCorrect`, `NoDirectoryOrphaned`, `CancelledCopyIsTold`,
`AttachedFilesStay`, `NothingTypedIsOverwritten` for the files a reply takes along,
`AttachTypeCorrect`, `OpensOnlyWhatIsShown`, `NoFileOverwritten` for the attachment list.
`ReplacementInv` says who owns a directory: generations grow, so a directory, which is
named after its generation, belongs to the job that runs, the answer in the channel or one
text. `AttachedFilesStay` has the hypothesis `EarlierErrors = FALSE`: with an error left
by something else it is false, and the run `draft_meets_old_error` (section 4) shows how.
For the draft files, `DraftTypeCorrect`, `SavedDraftsSurvive` and
`UnsavedTextsRecoverable` follow from `DraftInv`, which follows the three writers. A
migration runs beside no operation and no other load; it has at most one draft to move
(the second legacy file of the initial states is malformed or absent), everything local is
settled when it begins to write, and from the sync on the copy holds the text for
good. A save writes where nothing is, or over the draft it replaces; in between, every
other draft is kept by a file other than the new one (`KeptWithout`), so that a rollback
may remove it, and when the old file goes the new one is durable. The recovery writer has
the last unsaved text in its timer, its queue, its write or its file (`InHand`), except
while the composer is about to be emptied by a deletion.
`EarlierInv` goes with it: a writer that has passed its sync has left nothing open in its
directory, so neither the recovery file a save relies on nor the new draft can be taken back
to what a dead process wrote. `SavesKeepTheText` and `RecoveryNeverOverwrites` prove
`SaveKeepsText` and `RecoveryFillsUntouched`, which have no run (`SavingInvariance`). `SavingInv` rests on
`DraftInv` and adds what numbers the texts: none anywhere is later than the last one
typed, so what the composer hands to the writer during a save is never older than the
saved text. Only the startup recovery could bring an older one, and it fills a composer
only while nobody has touched it and no save runs. From the recovery boundary on the
writer and its file therefore hold the text of the save or a later one, until the file of
the save holds it.

`DeskProofs`: `AutoTypeCorrect`, `HarnessStaysWithinPermission`,
`HarnessLeavesConfirmation`, `EndWaitsForAnswer` for the harness, `VisualTypeCorrect` and
`RangeTaggedAsShown` for the visual selection, `KeyboardTypeCorrect`, `OneSequenceAtATime`,
`SequencesStayWithinMode` and `ExitNeedsTwoZ` for the keyboard. The permission of a request is decided
by the class of its command and what it does by another table; the lemmas go through
both tables group by group and show that they agree, and `AutoInv` carries that through
the channel, the dialog and the deferred answers. `EndWaitsForAnswer` is about the requests
to exit, which take the hold before they act; for an accepted close the same is false
(section 4). `VisualInv` says what the worker has read
of a range so far (the threads of its rows on the pages before the next one, all of the
revision it was opened at), what a page load was asked for, and that the message pane is
empty when a located page is in place: otherwise a remembered selection whose range was
never resolved could come back as if it had been.
For the keyboard each handler is a function from the desk to the desk, and the lemmas say
of each what it may do (`Passes`): forget what was begun, but begin nothing, and enter
insert mode only by moving the generation; only the handlers that begin a sequence or a
count do more (`BothNormal`), and they stay in normal mode. So in insert mode nothing
waits that the next key will not cancel, and `KeyInv` follows for any composition of the
handlers. That two Zs are needed also rests on the palette being open in insert mode only:
link hints, which keep a waiting Z, could otherwise be started from it.

`SearchProofs`: `ActivityTypeCorrect`, `AwaitedSearchKept`, `CancelReachesJobs`,
`SyncReportsNewMail`, `RefreshAnsweredFresh`, `WarningKeptUntilRead`,
`AnnouncedSearchShown`, `CompletedSearchShown`. `ActivityInv` has two halves. `PaneInv`
says where the current generation is: the window and the bar agree on it, nothing has a
later one, and it is in one place only - debounced, queued as the last command, running,
answered, or being applied to the list. `FreshFrom(m, s)` says that a full search of
generation `m` or later, wherever it is, shows the database as of commit `s` or later; the
sync that refreshes, every waiting request and the warning of a tag operation each
have one. The actions that change the pane are of three kinds, proved once each: those
that reserve a new generation (nothing is later, so it is fresh from any commit), those
that leave the current one alone, and the one that finishes it.

Only model-checked: the safety properties of MessageSource and Mime;
`HintsBelongToView` and `LabelsSelectOne` of HtmlView; `HelpSequencesRun` of Keyboard; every liveness property (the prover has no
reasoning about fairness); the refinement of `RecencyList`, whose mapping sorts a finite
set, which would need induction over data; and what the recursive functions of Mime
compute.

## 7. Plan

All components of the inventory that keep state have a module, and every safety property
that a run checks is a theorem, except `ListedIsExtracted`, which is about recursive
functions, and the refinement of `RecencyList`. What is left are the safety properties of
MessageSource and the others that section 6 names as only model-checked.

## 8. Not modelled

Text and bytes: header syntax, addresses, mailto URIs, transfer encodings, charsets,
the building of replies and of RFC 5322 messages, HTML sanitising. They are
functions of their input, and examples test them better than small sets of bytes.
Layout: themes, fonts, icons, the contents of rows, the forms of the settings window.
The command line, packaging, logging, the client that asks for a refresh, and
screenshots and results of the automation harness. Sizes in bytes (memory budgets of
rendered text, limits on files) appear as numbers of parts or drafts.

The Notmuch library, WebKit, GLib, the file system and child processes are external:
Notmuch is a counter of commits, the tags and paths of messages and the pages of a
query; WebKit is what the code sees of it; a file system loses what was not synced.
Crashes are modelled in TagUndo and DraftFiles; in Composer and DraftAutosave the
recovery file is replaced in one step. The thread loads, tag commands and keys
of standalone windows repeat those of the main window and are not modelled again.
