----------------------------- MODULE Attachments -----------------------------
(***************************************************************************)
(* The attachments of the thread on screen                                 *)
(* (notm-ui/src/widgets/attachments.rs): the list that is filled in        *)
(* chunks, the chooser, and the threads that save an attachment or prepare *)
(* it to be opened (notm-ui/src/attachment_io.rs).                         *)
(*                                                                         *)
(* Every action takes a token and only the latest token is current: what   *)
(* is shown may change, and another action may begin, while a thread is    *)
(* still writing.  Attachment n of thread t is the pair <<t, n>>, which    *)
(* also stands for its bytes; all attachments have one file name, so that  *)
(* a file is told apart by its directory and its collision number.         *)
(***************************************************************************)
EXTENDS Naturals, Sequences, FiniteSets

CONSTANTS MailThreads,   \* threads that may be shown
          ListLength,    \* attachments of a thread
          RowChunk,      \* rows added in one turn of the main loop
          MaxShows,      \* bounds: threads shown,
          MaxAttachActs, \*   actions begun and
          MaxForeign     \*   files other programs create

ASSUME AttachmentsAssumption ==
    /\ {ListLength, RowChunk} \subseteq Nat \ {0}
    /\ {MaxShows, MaxAttachActs, MaxForeign} \subseteq Nat

VARIABLES items,      \* the attachments of the thread shown
          rows,       \* the rows of the list
          renders,    \* the render generation
          chunks,     \* idle callbacks that add the next rows
          latestAct,  \* tokens given out, and the current one (0: none)
          currentAct,
          chooser,    \* the save chooser that is open, or NoChooser
          writers,    \* threads at work
          attachFiles,\* files by name
          launched,   \* history: what was handed to the system to open, in which state
          allowActs,  \* FALSE while tags are changing
          attachWindow, \* "open", "closed" or "exited"
          foreign     \* bound on the files other programs create

attachVars == <<items, rows, renders, chunks, latestAct, currentAct, chooser, writers,
                attachFiles, launched, allowActs, attachWindow, foreign>>

listVars == <<items, rows, renders, chunks>>

NoChooser == [token |-> 0, item |-> <<>>]
Attached(t) == [n \in 1..ListLength |-> <<t, n>>]

AttachInit ==
    /\ items = <<>> /\ rows = <<>> /\ renders = 0 /\ chunks = {}
    /\ latestAct = 0 /\ currentAct = 0
    /\ chooser = NoChooser
    /\ writers = {}
    /\ attachFiles = <<>>
    /\ launched = {}
    /\ allowActs = TRUE
    /\ attachWindow = "open"
    /\ foreign = 0

-----------------------------------------------------------------------------
(* The list. *)

ChunkCurrent(c) == c.render = renders

\* append_row_chunk
RowsFrom(list, from) ==
    SubSeq(list, from + 1, IF from + RowChunk < Len(list) THEN from + RowChunk ELSE Len(list))

NextChunk(list, from, render) ==
    IF from + RowChunk < Len(list) THEN {[render |-> render, from |-> from + RowChunk]} ELSE {}

\* invalidate_content also forgets the current action, not its writer.
ShowAttachments(t) ==
    /\ attachWindow = "open" /\ renders < MaxShows
    /\ renders' = renders + 1
    /\ items' = Attached(t)
    /\ rows' = RowsFrom(Attached(t), 0)
    /\ chunks' = chunks \cup NextChunk(Attached(t), 0, renders')
    /\ currentAct' = 0
    /\ UNCHANGED <<latestAct, chooser, writers, attachFiles, launched, allowActs,
                   attachWindow, foreign>>

HideAttachments ==
    /\ attachWindow = "open" /\ renders < MaxShows
    /\ renders' = renders + 1
    /\ items' = <<>> /\ rows' = <<>>
    /\ currentAct' = 0
    /\ UNCHANGED <<chunks, latestAct, chooser, writers, attachFiles, launched, allowActs,
                   attachWindow, foreign>>

AddRows(c) ==
    /\ attachWindow # "exited"
    /\ IF ChunkCurrent(c)
       THEN /\ rows' = rows \o RowsFrom(items, c.from)
            /\ chunks' = (chunks \ {c}) \cup NextChunk(items, c.from, renders)
       ELSE chunks' = chunks \ {c} /\ UNCHANGED rows
    /\ UNCHANGED <<items, renders, latestAct, currentAct, chooser, writers, attachFiles,
                   launched, allowActs, attachWindow, foreign>>

\* set_actions_sensitive, around a change of tags.
AllowActions(b) ==
    /\ allowActs # b
    /\ allowActs' = b
    /\ UNCHANGED <<listVars, latestAct, currentAct, chooser, writers, attachFiles, launched,
                   attachWindow, foreign>>

-----------------------------------------------------------------------------
(* Actions on an attachment. *)

\* begin_action
BeginAct ==
    /\ latestAct < MaxAttachActs
    /\ latestAct' = latestAct + 1
    /\ currentAct' = latestAct'

\* An item of a row is acted on only while its payload is there.
HasPayload(item) == allowActs /\ attachWindow = "open" /\ item \in {items[i] : i \in DOMAIN items}

Writer(token, act, item) ==
    [token |-> token, act |-> act, item |-> item, step |-> "load", number |-> 0, ok |-> TRUE]

RequestSave(item) ==
    /\ HasPayload(item) /\ chooser = NoChooser
    /\ BeginAct
    /\ chooser' = [token |-> latestAct', item |-> item]
    /\ UNCHANGED <<listVars, writers, attachFiles, launched, allowActs, attachWindow, foreign>>

\* save_to_directory and open
StartWriter(item, act) ==
    /\ HasPayload(item)
    /\ BeginAct
    /\ writers' = writers \cup {Writer(latestAct', act, item)}
    /\ UNCHANGED <<listVars, chooser, attachFiles, launched, allowActs, attachWindow, foreign>>

\* The chooser is accepted with a path: its own token is used, current or not.
ChooserAccepted ==
    /\ attachWindow = "open" /\ chooser # NoChooser
    /\ chooser' = NoChooser
    /\ writers' = writers \cup {Writer(chooser.token, "save", chooser.item)}
    /\ UNCHANGED <<listVars, latestAct, currentAct, attachFiles, launched, allowActs,
                   attachWindow, foreign>>

\* It is dismissed, or returns no local path.
ChooserDismissed ==
    /\ attachWindow = "open" /\ chooser # NoChooser
    /\ chooser' = NoChooser
    /\ currentAct' = IF currentAct = chooser.token THEN 0 ELSE currentAct
    /\ UNCHANGED <<listVars, latestAct, writers, attachFiles, launched, allowActs,
                   attachWindow, foreign>>

-----------------------------------------------------------------------------
(* A writer: it loads the bytes, writes a temporary file and links it to a *)
(* name that is free.                                                      *)

SaveDirectory(w) == IF w.act = "open" THEN "store" ELSE "target"
FileName(w) == <<SaveDirectory(w), w.number>>

\* persist_noclobber
NameFree(name) == name \notin DOMAIN attachFiles

Became(w, changed) == writers' = (writers \ {w}) \cup {changed}

WriterLoads(w) ==
    /\ w.step = "load"
    /\ \/ Became(w, [w EXCEPT !.step = "publish"])
       \/ Became(w, [w EXCEPT !.step = "answer", !.ok = FALSE])
    /\ UNCHANGED <<listVars, latestAct, currentAct, chooser, attachFiles, launched, allowActs,
                   attachWindow, foreign>>

WriterPublishes(w) ==
    /\ w.step = "publish"
    /\ IF NameFree(FileName(w))
       THEN /\ attachFiles' = [n \in (DOMAIN attachFiles) \cup {FileName(w)} |->
                                 IF n = FileName(w) THEN w.item ELSE attachFiles[n]]
            /\ Became(w, [w EXCEPT !.step = "answer"])
       ELSE /\ Became(w, [w EXCEPT !.number = @ + 1])
            /\ UNCHANGED attachFiles
    /\ UNCHANGED <<listVars, latestAct, currentAct, chooser, launched, allowActs,
                   attachWindow, foreign>>

\* The writing fails, or the thread dies without an answer.
AttachWriterFails(w) ==
    /\ w.step = "publish"
    /\ Became(w, [w EXCEPT !.step = "answer", !.ok = FALSE])
    /\ UNCHANGED <<listVars, latestAct, currentAct, chooser, attachFiles, launched, allowActs,
                   attachWindow, foreign>>

\* A late answer is applied like the current one.
AppliesAny(token) == TRUE

\* AttachmentIoCoordinator::finish
Applies(token) == token = currentAct

\* complete_attachment_worker: only the current action's file is opened.
WriterAnswers(w) ==
    /\ w.step = "answer" /\ attachWindow # "exited"
    /\ writers' = writers \ {w}
    /\ currentAct' = IF currentAct = w.token THEN 0 ELSE currentAct
    /\ launched' = IF Applies(w.token) /\ w.ok /\ w.act = "open"
                   THEN launched \cup {[name |-> FileName(w), item |-> w.item, token |-> w.token,
                                        newest |-> latestAct,
                                        listed |-> w.item \in {items[i] : i \in DOMAIN items}]}
                   ELSE launched
    /\ UNCHANGED <<listVars, latestAct, chooser, attachFiles, allowActs, attachWindow, foreign>>

-----------------------------------------------------------------------------
(* The window, the application and other programs. *)

CloseAttachments ==
    /\ attachWindow = "open"
    /\ attachWindow' = "closed"
    /\ UNCHANGED <<listVars, latestAct, currentAct, chooser, writers, attachFiles, launched,
                   allowActs, foreign>>

\* Every writer holds the application until it has been answered.
MayExit == attachWindow = "closed" /\ writers = {}

ExitAttachments ==
    /\ MayExit
    /\ attachWindow' = "exited"
    /\ UNCHANGED <<listVars, latestAct, currentAct, chooser, writers, attachFiles, launched,
                   allowActs, foreign>>

ForeignFile(number) ==
    /\ foreign < MaxForeign /\ <<"target", number>> \notin DOMAIN attachFiles
    /\ foreign' = foreign + 1
    /\ attachFiles' = [n \in (DOMAIN attachFiles) \cup {<<"target", number>>} |->
                         IF n = <<"target", number>> THEN <<0, 0>> ELSE attachFiles[n]]
    /\ UNCHANGED <<listVars, latestAct, currentAct, chooser, writers, launched, allowActs,
                   attachWindow>>

AttachNext ==
    \/ \E t \in MailThreads : ShowAttachments(t)
    \/ HideAttachments
    \/ \E c \in chunks : AddRows(c)
    \/ \E b \in BOOLEAN : AllowActions(b)
    \/ \E i \in DOMAIN rows : \/ RequestSave(rows[i])
                              \/ \E act \in {"save", "open"} : StartWriter(rows[i], act)
    \/ ChooserAccepted \/ ChooserDismissed
    \/ \E w \in writers : WriterLoads(w) \/ WriterPublishes(w) \/ AttachWriterFails(w) \/ WriterAnswers(w)
    \/ CloseAttachments \/ ExitAttachments
    \/ \E number \in 0..1 : ForeignFile(number)

AttachSpec == AttachInit /\ [][AttachNext]_attachVars

-----------------------------------------------------------------------------
(* Properties. *)

AttachTypeOK ==
    /\ latestAct \in 0..MaxAttachActs /\ currentAct \in 0..latestAct
    /\ attachWindow \in {"open", "closed", "exited"}
    /\ \A w \in writers : w.step \in {"load", "publish", "answer"} /\ w.act \in {"save", "open"}

\* The list shows a prefix of the attachments of the thread on screen,
\* whatever chunks of earlier threads are still to come (append_row_chunk):
\* the row that is selected is the attachment that is acted on.
RowsAreItems == Len(rows) <= Len(items) /\ rows = SubSeq(items, 1, Len(rows))

\* A file is opened only for the action begun last, while its attachment is
\* on screen, and it holds that attachment's bytes: an answer that comes
\* after another action or another thread opens nothing.
OpensWhatIsShown ==
    \A l \in launched : /\ l.token = l.newest /\ l.listed
                        /\ l.name \in DOMAIN attachFiles /\ attachFiles[l.name] = l.item

\* A file that is there keeps its contents, whoever wrote it and however
\* many writers look for a name at once
\* (save_attachment_to_target_atomically_without_overwrite_with).
NothingOverwritten ==
    [][\A n \in DOMAIN attachFiles : n \in DOMAIN attachFiles' /\ attachFiles'[n] = attachFiles[n]]_attachVars
=============================================================================
