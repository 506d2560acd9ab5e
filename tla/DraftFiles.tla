------------------------------- MODULE DraftFiles -------------------------------
(***************************************************************************)
(* The files that hold drafts, and the workers that change them: the       *)
(* recovery file of the composer, the named drafts and their legacy store  *)
(* (crates/notm-ui/src/draft_io.rs, draft_recovery.rs, the file helpers of *)
(* widgets/composer.rs and the draft handlers of main_window.rs).          *)
(*                                                                         *)
(* A file system keeps what it was told in two places: what a reader sees  *)
(* now (disk), and what may be there after a power failure (after), which  *)
(* only a sync of the directory narrows down.  A process that dies loses   *)
(* nothing that a reader sees, but what it had not synced yet stays open   *)
(* (earlier) until a later process syncs that directory.  A temporary file *)
(* is never read, so the steps of an atomic write that only touch it are   *)
(* one with its rename.                                                    *)
(***************************************************************************)
EXTENDS Naturals, FiniteSets

CONSTANTS
    MaxNamed,    \* MAX_NAMED_DRAFTS
    Modes,       \* subset of {"local", "maildir"}: drafts.save_maildir
    MaxText,     \* bound on the texts the user types
    MaxSaves,    \* bound on the saves and deletions of one process
    MaxFaults,   \* bound on the file operations that fail
    MaxCrashes   \* bound on the deaths of the process

ASSUME DraftFilesAssumption ==
    /\ MaxNamed \in Nat \ {0}
    /\ Modes \subseteq {"local", "maildir"}
    /\ {MaxText, MaxSaves, MaxFaults, MaxCrashes} \subseteq Nat

(* Drafts 1 and 2 were saved by earlier runs; the others are typed here. *)
Texts == 1 .. (2 + MaxText)
Empty == 0
(* Numbers no text has, so that contents can be compared. *)
Absent == 3 + MaxText
Torn == 4 + MaxText
Malformed == 5 + MaxText
DraftTexts == Texts \cup {Absent, Torn, Malformed}

(* The names of the legacy drafts, and names with a fresh UUID. *)
FileNames == 1 .. (MaxNamed + 4)
Named == {"drafts"} \X FileNames
Legacy == {"legacy"} \X {1, 2}
Mail == {"mail"} \X FileNames
Recovery == <<"recovery", 0>>
OldRecovery == <<"oldRecovery", 0>>
Stores == Named \cup Legacy \cup Mail
Paths == Stores \cup {Recovery, OldRecovery}
NoPath == <<"none", 0>>
Directory(p) == p[1]

NoDraft == [path |-> NoPath, text |-> Empty]
Draft == [path : Paths, text : Texts]

(* A recovery action: Persist(t) is the text t. *)
ClearRecoveryFile == Empty
NoAction == 6 + MaxText

NoOp == [kind |-> "none", stage |-> "idle", text |-> Empty, path |-> NoPath, prev |-> NoDraft]
NoWrite == [act |-> NoAction, boundary |-> FALSE, stage |-> "idle"]

VARIABLES
    mode,     \* options.save_drafts_to_maildir
    disk,     \* what a reader of each path sees
    after,    \* the contents each path may have after a power failure, as far as
              \* the running process has written it
    earlier,  \* further contents, which a dead process did not sync away
    ui,       \* the composer and the list of named drafts
    op,       \* draft_save_active and its worker
    auto,     \* the recovery writer, in less detail than DraftAutosave
    loads,    \* the workers of spawn_named_draft_load, or their responses
    rec,      \* the startup recovery load
    count,    \* what the bounds count
    owed      \* sets of texts: one text of each is a saved draft the user keeps

draftVars == <<mode, disk, after, earlier, ui, op, auto, loads, rec, count, owed>>

--------------------------------------------------------------------------------
(* The file helpers.                                                         *)

(* Files with the extension json, which json_entries lists. *)
JsonEntries == {p \in Named \cup Legacy : disk[p] # Absent}
Fits(n) == n <= MaxNamed

(* atomic_write_with_sync up to the rename of the synced temporary file. *)
Renamed(p, t) ==
    /\ disk' = [disk EXCEPT ![p] = t]
    /\ after' = [after EXCEPT ![p] = @ \cup {t}]
    /\ UNCHANGED earlier

(* save_rfc5322_to_maildir writes, flushes and renames, and syncs nothing. *)
RenamedIntoMaildir(p, t) ==
    /\ disk' = [disk EXCEPT ![p] = t]
    /\ after' = [after EXCEPT ![p] = @ \cup {t, Torn}]
    /\ UNCHANGED earlier

(* Faulty variant: the directory of the recovery file is not synced. *)
SyncDirectoryOfDrafts(d) ==
    /\ after' = [p \in Paths |-> IF Directory(p) = d /\ d = "drafts" THEN {disk[p]} ELSE after[p]]
    /\ UNCHANGED <<disk, earlier>>

(* sync_directory: every entry of it is settled; unsynced data is not. *)
SyncDirectory(d) ==
    /\ after' = [p \in Paths |->
                    IF Directory(p) = d THEN {disk[p]} \cup (after[p] \cap {Torn}) ELSE after[p]]
    /\ earlier' = [p \in Paths |-> IF Directory(p) = d THEN {} ELSE earlier[p]]
    /\ UNCHANGED disk

(* remove_file_if_present *)
RemoveFile(p) ==
    /\ disk' = [disk EXCEPT ![p] = Absent]
    /\ after' = [after EXCEPT ![p] = @ \cup {Absent}]
    /\ UNCHANGED earlier

KeepFiles == UNCHANGED <<disk, after, earlier>>

--------------------------------------------------------------------------------
(* The drafts that may not be lost.  A draft is its file: to delete or to    *)
(* replace one is to give up what its file holds, even where the list still  *)
(* shows an older text of it.                                                *)

(* A save may leave the old text or the new one in the place of a draft. *)
Replaceable(old, new) == {IF old \in s THEN s \cup {new} ELSE s : s \in owed}
Discarded(t) == {s \in owed : t \notin s}
Held(d) == IF d = NoDraft THEN Empty ELSE disk[d.path]
Settled(t) == {IF t \in s THEN {t} ELSE s : s \in owed} \cup {{t}}

--------------------------------------------------------------------------------
(* The recovery writer.                                                      *)

(* recovery_action_for_fields *)
RecoveryActionFor(text, active) ==
    IF text = Empty \/ active.text = text THEN ClearRecoveryFile ELSE text

(* flush at a boundary supersedes the edit that waits for its timer. *)
FlushText(a) == [auto EXCEPT !.urgent = a, !.pending = NoAction]
ScheduleText(a) == [auto EXCEPT !.pending = a]

AutosaveStarts ==
    /\ auto.write = NoWrite
    /\ \/ /\ auto.urgent # NoAction
          /\ auto' = [auto EXCEPT !.urgent = NoAction,
                        !.write = [act |-> auto.urgent, boundary |-> TRUE, stage |-> "rename"]]
       \/ /\ auto.urgent = NoAction /\ auto.pending # NoAction
          /\ auto' = [auto EXCEPT !.pending = NoAction,
                        !.write = [act |-> auto.pending, boundary |-> FALSE, stage |-> "rename"]]
    /\ UNCHANGED <<mode, disk, after, earlier, ui, op, loads, rec, count, owed>>

Staged(s) == auto' = [auto EXCEPT !.write.stage = s]

(***************************************************************************)
(* persist_recovery_draft replaces the file durably and then removes the   *)
(* legacy one; clear_recovery_draft_files removes both and syncs (the sync *)
(* of the legacy directory, which nothing depends on, is left out).        *)
(***************************************************************************)
AutosaveSteps ==
    /\ \/ /\ auto.write.stage = "rename"
          /\ IF auto.write.act = ClearRecoveryFile THEN RemoveFile(Recovery)
             ELSE Renamed(Recovery, auto.write.act)
          /\ Staged("sync")
       \/ /\ auto.write.stage = "sync" /\ SyncDirectory("recovery") /\ Staged("legacy")
       \/ /\ auto.write.stage = "legacy" /\ RemoveFile(OldRecovery) /\ Staged("ok")
       \/ /\ auto.write.stage = "legacyOnly" /\ RemoveFile(OldRecovery) /\ Staged("failed")
    /\ UNCHANGED <<mode, ui, op, loads, rec, count, owed>>

(* A write stops at its first error; a clear goes on to the legacy file. *)
AutosaveFails ==
    /\ count.faults < MaxFaults
    /\ auto.write.stage \in {"rename", "sync", "legacy", "legacyOnly"}
    /\ Staged(IF auto.write.act = ClearRecoveryFile /\ auto.write.stage \in {"rename", "sync"}
              THEN "legacyOnly" ELSE "failed")
    /\ count' = [count EXCEPT !.faults = @ + 1]
    /\ UNCHANGED <<mode, disk, after, earlier, ui, op, loads, rec, owed>>

--------------------------------------------------------------------------------
(* The list of named drafts.                                                 *)

(* DraftIoCoordinator *)
IoAccepts(g) == ui.ioActive = g

(* begin and spawn_named_draft_load: a migration is never superseded. *)
Begin(u, l) ==
    IF u.ioMigrating THEN [u |-> u, l |-> l]
    ELSE [u |-> [u EXCEPT !.ioGen = @ + 1, !.ioActive = u.ioGen + 1],
          l |-> l \cup {[gen |-> u.ioGen + 1, migrate |-> FALSE, stage |-> "scan",
                         plan |-> {}, move |-> NoDraft, found |-> {}, ok |-> TRUE]}]

Updated(l, new) == loads' = (loads \ {l}) \cup {new}

(* The names a legacy draft or a saved one may get: a fresh UUID.  The names *)
(* are bounded, and a behavior that has used them all goes no further.       *)
FreshNames == {p \in Named : after[p] = {Absent} /\ earlier[p] = {} /\ p[2] > 2}
FreshMails == {p \in Mail : after[p] = {Absent} /\ earlier[p] = {}}
FreshName == CHOOSE p \in FreshNames : TRUE
FreshMail == CHOOSE p \in FreshMails : TRUE

(***************************************************************************)
(* The preflight of migrate_legacy_named_drafts: nothing is moved when the *)
(* two stores together exceed the limits; a malformed entry stays.  A      *)
(* draft the current store has under the same name and with the same text  *)
(* has no destination and is only removed.                                 *)
(***************************************************************************)
Twin(p) == <<"drafts", p[2]>>
Movable == {p \in Legacy : disk[p] \in Texts}
Destination(p) ==
    CASE disk[Twin(p)] = disk[p] -> NoPath
      [] disk[Twin(p)] = Absent -> Twin(p)
      [] OTHER -> FreshName
Moves == {[from |-> p, path |-> Destination(p), text |-> disk[p]] : p \in Movable}
Projected ==
    Cardinality({p \in Named : disk[p] # Absent})
      + Cardinality({m \in Moves : m.path # NoPath})
      + Cardinality({p \in Legacy : disk[p] = Malformed})

MigrationPlans(l) ==
    /\ l.stage = "plan" /\ FreshNames # {}
    /\ IF Fits(Projected)
       THEN Updated(l, [l EXCEPT !.plan = Moves, !.stage = "next"])
       ELSE Updated(l, [l EXCEPT !.ok = FALSE, !.stage = "reply"])
    /\ UNCHANGED <<mode, disk, after, earlier, ui, op, auto, rec, count, owed>>

MigrationPicks(l) ==
    /\ l.stage = "next"
    /\ IF l.plan = {} THEN Updated(l, [l EXCEPT !.stage = "scan"])
       ELSE \E m \in l.plan :
                Updated(l, [l EXCEPT !.plan = @ \ {m}, !.move = m,
                                     !.stage = IF m.path = NoPath THEN "unlink" ELSE "rename"])
    /\ UNCHANGED <<mode, disk, after, earlier, ui, op, auto, rec, count, owed>>

(* Faulty variant: the legacy file goes before its copy is synced. *)
MoveStepsUnsynced(l) ==
    \/ /\ l.stage = "rename" /\ Renamed(l.move.path, l.move.text)
       /\ Updated(l, [l EXCEPT !.stage = "unlink"])
    \/ /\ l.stage = "unlink" /\ RemoveFile(l.move.from) /\ Updated(l, [l EXCEPT !.stage = "next"])

(* atomic_write_durable of the destination, then the removal of the source. *)
MoveSteps(l) ==
    \/ /\ l.stage = "rename" /\ Renamed(l.move.path, l.move.text)
       /\ Updated(l, [l EXCEPT !.stage = "sync"])
    \/ /\ l.stage = "sync" /\ SyncDirectory("drafts")
       /\ Updated(l, [l EXCEPT !.stage = "unlink"])
    \/ /\ l.stage = "unlink" /\ RemoveFile(l.move.from)
       /\ Updated(l, [l EXCEPT !.stage = "next", !.move = NoDraft])

MigrationMoves(l) == MoveSteps(l) /\ UNCHANGED <<mode, ui, op, auto, rec, count, owed>>

(* A failure is fatal: what was moved stays moved, the rest stays behind. *)
MigrationFails(l) ==
    /\ count.faults < MaxFaults
    /\ l.stage \in {"rename", "sync", "unlink"}
    /\ Updated(l, [l EXCEPT !.ok = FALSE, !.stage = "reply"])
    /\ count' = [count EXCEPT !.faults = @ + 1]
    /\ UNCHANGED <<mode, disk, after, earlier, ui, op, auto, rec, owed>>

(* scan_named_drafts: both stores, without a legacy copy of a current draft. *)
Scanned ==
    {[path |-> p, text |-> disk[p]] :
        p \in {q \in JsonEntries : /\ disk[q] \in Texts
                                   /\ q \in Legacy => disk[Twin(q)] # disk[q]}}

LoadScans(l) ==
    /\ l.stage = "scan"
    /\ IF Fits(Cardinality(JsonEntries))
       THEN Updated(l, [l EXCEPT !.found = Scanned, !.stage = "reply"])
       ELSE Updated(l, [l EXCEPT !.ok = FALSE, !.stage = "reply"])
    /\ UNCHANGED <<mode, disk, after, earlier, ui, op, auto, rec, count, owed>>

(* The 20 ms poll of schedule_named_draft_refresh: finish, or a stale reply. *)
LoadArrives(l) ==
    /\ l.stage = "reply"
    /\ loads' = loads \ {l}
    /\ ui' = IF ~IoAccepts(l.gen) THEN ui
             ELSE [ui EXCEPT !.ioActive = 0, !.ioMigrating = FALSE,
                             !.list = IF l.ok THEN l.found ELSE @]
    /\ UNCHANGED <<mode, disk, after, earlier, op, auto, rec, count, owed>>

--------------------------------------------------------------------------------
(* Saving and deleting.                                                      *)

(* named_draft_migration_block_reason and the test of draft_save_active. *)
PersistenceAllowed == op = NoOp /\ ~ui.ioMigrating

Began(o) ==
    /\ count.saves < MaxSaves
    /\ op' = o
    /\ count' = [count EXCEPT !.saves = @ + 1]

(***************************************************************************)
(* request_save_current_draft.  A draft that has not changed is only       *)
(* reconciled; a new text is first persisted as recovery, and replaces the *)
(* active draft once the user has confirmed it.                            *)
(***************************************************************************)
SaveBegins ==
    /\ PersistenceAllowed
    /\ ui.text # Empty
    /\ IF ui.active.text = ui.text
       THEN /\ Began([NoOp EXCEPT !.kind = "finalize", !.stage = "cleanup"])
            /\ auto' = FlushText(ClearRecoveryFile)
            /\ UNCHANGED owed
       ELSE /\ Began([kind |-> "save", stage |-> "flush", text |-> ui.text,
                      path |-> NoPath, prev |-> ui.active])
            /\ auto' = FlushText(ui.text)
            /\ owed' = Replaceable(Held(ui.active), ui.text)
    /\ UNCHANGED <<mode, disk, after, earlier, ui, loads, rec>>

Worked(s) == op' = [op EXCEPT !.stage = s]
WorkerKeeps == UNCHANGED <<mode, ui, auto, loads, rec, count, owed>>

(* A saved local draft is replaced in place, at its own path. *)
ReplacementPath == IF Directory(op.prev.path) = "drafts" THEN op.prev.path ELSE NoPath

(* ensure_named_draft_save_fits *)
SaveFits ==
    /\ ReplacementPath # NoPath => disk[ReplacementPath] # Absent
    /\ Fits(Cardinality(JsonEntries) + IF ReplacementPath = NoPath THEN 1 ELSE 0)

(* perform_captured_draft_save up to the path it is going to write. *)
SavePlaces ==
    /\ op.kind = "save" /\ op.stage = "place" /\ FreshNames # {} /\ FreshMails # {}
    /\ IF mode = "maildir"
       THEN op' = [op EXCEPT !.path = FreshMail, !.stage = "rename"]
       ELSE IF ~SaveFits THEN Worked("err")
       ELSE IF ReplacementPath # NoPath
            THEN op' = [op EXCEPT !.path = ReplacementPath, !.stage = "rename"]
            ELSE op' = [op EXCEPT !.path = FreshName, !.stage = "rename"]
    /\ KeepFiles /\ WorkerKeeps

(* The draft the save replaces is deleted when the new one is elsewhere. *)
AfterWrite == IF op.prev.path \notin {NoPath, op.path} THEN "old" ELSE "ok"

SaveWrites ==
    /\ op.kind = "save"
    /\ \/ /\ op.stage = "rename" /\ mode = "maildir"
          /\ RenamedIntoMaildir(op.path, op.text) /\ Worked("index")
       \/ /\ op.stage = "rename" /\ mode = "local"
          /\ Renamed(op.path, op.text) /\ Worked("sync")
       \/ op.stage = "index" /\ KeepFiles /\ Worked(AfterWrite)
       \/ op.stage = "sync" /\ SyncDirectory("drafts") /\ Worked(AfterWrite)
       \/ op.stage = "old" /\ RemoveFile(op.prev.path) /\ Worked("ok")
       \/ op.stage = "rollback" /\ RemoveFile(op.path) /\ Worked("err")
    /\ WorkerKeeps

(* Only a previous draft that cannot be deleted takes the new one back, and *)
(* when that cannot be deleted either, both stay.                           *)
WorkerFails ==
    /\ count.faults < MaxFaults
    /\ op.stage \in {"rename", "sync", "index", "old", "rollback", "remove"}
    /\ Worked(IF op.stage = "old" THEN "rollback" ELSE "err")
    /\ count' = [count EXCEPT !.faults = @ + 1]
    /\ KeepFiles /\ UNCHANGED <<mode, ui, auto, loads, rec, owed>>

(* delete_captured_active_draft and delete_captured_named_draft *)
DeleteBegins(kind, d) ==
    /\ PersistenceAllowed
    /\ Began([kind |-> kind, stage |-> "remove", text |-> ui.text,
              path |-> d.path, prev |-> d])
    /\ owed' = Discarded(Held(d))
    /\ UNCHANGED <<mode, disk, after, earlier, ui, auto, loads, rec>>

DeleteRemoves ==
    /\ op.stage = "remove"
    /\ RemoveFile(op.path) /\ Worked("ok")
    /\ WorkerKeeps

Without(list, p) == {e \in list : e.path # p}

(* finish_draft_save_worker_success *)
SavedList(u) ==
    LET kept == Without(Without(u.list, op.path), IF op.prev.path = op.path THEN NoPath ELSE op.prev.path)
    IN  IF Directory(op.path) = "drafts" THEN kept \cup {[path |-> op.path, text |-> op.text]}
        ELSE kept

SaveArrives ==
    /\ op.kind = "save" /\ op.stage = "ok"
    /\ LET active == [path |-> op.path, text |-> op.text]
       IN  /\ ui' = [ui EXCEPT !.list = SavedList(ui), !.active = active]
           /\ auto' = FlushText(RecoveryActionFor(ui.text, active))
    /\ owed' = Settled(op.text)
    /\ Worked("cleanup")
    /\ UNCHANGED <<mode, disk, after, earlier, loads, rec, count>>

(* finish_active_draft_delete *)
ActiveDeleteArrives ==
    /\ op.kind = "deleteActive" /\ op.stage = "ok"
    /\ LET was == ui.active = op.prev
           active == IF was THEN NoDraft ELSE ui.active
           unchanged == was /\ ui.text = op.text
       IN  /\ ui' = [ui EXCEPT !.list = Without(@, op.path), !.active = active]
           /\ auto' = FlushText(IF unchanged THEN ClearRecoveryFile ELSE RecoveryActionFor(ui.text, active))
           /\ op' = [op EXCEPT !.stage = "cleanup", !.kind = IF unchanged THEN @ ELSE "deleteKept"]
    /\ UNCHANGED <<mode, disk, after, earlier, loads, rec, count, owed>>

(* The poll of delete_captured_named_draft; it refreshes the list. *)
NamedDeleteArrives ==
    /\ op.kind = "deleteNamed" /\ op.stage = "ok"
    /\ LET was == ui.active.path = op.path
           u == [ui EXCEPT !.list = Without(@, op.path), !.active = IF was THEN NoDraft ELSE @]
           begun == Begin(u, loads)
       IN  /\ ui' = begun.u /\ loads' = begun.l
           /\ auto' = IF was THEN ScheduleText(RecoveryActionFor(ui.text, NoDraft)) ELSE auto
    /\ op' = NoOp
    /\ UNCHANGED <<mode, disk, after, earlier, rec, count, owed>>

(* finish_draft_save_failure *)
FailureArrives ==
    /\ op.stage = "err"
    /\ op' = NoOp
    /\ UNCHANGED <<mode, disk, after, earlier, ui, auto, loads, rec, count, owed>>

(* start_captured_draft_save: a save begins once its text can be recovered. *)
MaySave(ok) == ok

(***************************************************************************)
(* The recovery writer answers a boundary: start_captured_draft_save goes  *)
(* on to its worker, finish_draft_save_success refreshes the list, and a   *)
(* deletion of an unchanged composer empties it.  An edit answers nothing. *)
(***************************************************************************)
FlushAnswers ==
    LET ok == auto.write.stage = "ok"
        cleared == [ui EXCEPT !.text = Empty]
    IN  \/ /\ op.stage = "flush"
           /\ op' = IF MaySave(ok) THEN [op EXCEPT !.stage = "place"] ELSE NoOp
           /\ UNCHANGED <<ui, loads>>
        \/ /\ op.stage = "cleanup" /\ op.kind \in {"save", "finalize"}
           /\ op' = NoOp
           /\ ui' = Begin(ui, loads).u /\ loads' = Begin(ui, loads).l
        \/ /\ op.stage = "cleanup" /\ op.kind \in {"deleteActive", "deleteKept"}
           /\ op' = NoOp
           /\ ui' = IF ok /\ op.kind = "deleteActive" /\ ui.text = op.text THEN cleared ELSE ui
           /\ UNCHANGED loads

AutosaveArrives ==
    /\ auto.write.stage \in {"ok", "failed"}
    /\ IF auto.write.boundary THEN FlushAnswers ELSE UNCHANGED <<ui, loads, op>>
    /\ auto' = [auto EXCEPT !.write = NoWrite, !.kept = auto.write.stage = "ok"]
    /\ UNCHANGED <<mode, disk, after, earlier, rec, count, owed>>

--------------------------------------------------------------------------------
(* The composer.                                                             *)

Supersede == rec' = IF rec.phase = "idle" THEN rec ELSE [rec EXCEPT !.superseded = TRUE]

(* A change of the fields, captured for the recovery writer. *)
Type ==
    /\ count.typed < MaxText
    /\ LET t == 3 + count.typed
       IN  /\ ui' = [ui EXCEPT !.text = t]
           /\ auto' = ScheduleText(t)
           /\ count' = [count EXCEPT !.typed = @ + 1]
    /\ Supersede
    /\ UNCHANGED <<mode, disk, after, earlier, op, loads, owed>>

(* load_selected_named_draft, once the user lets the composer be replaced. *)
LoadNamed(e) ==
    /\ op = NoOp
    /\ e # ui.active
    /\ ui' = [ui EXCEPT !.text = e.text, !.active = e]
    /\ auto' = ScheduleText(ClearRecoveryFile)
    /\ Supersede
    /\ UNCHANGED <<mode, disk, after, earlier, op, loads, count, owed>>

(* load_recovery_with_limit: the current file, else the legacy one. *)
RecoveryReads ==
    /\ rec.phase = "reading"
    /\ rec' = [rec EXCEPT !.phase = "read",
                          !.text = IF disk[Recovery] # Absent THEN disk[Recovery]
                                   ELSE disk[OldRecovery]]
    /\ UNCHANGED <<mode, disk, after, earlier, ui, op, auto, loads, count, owed>>

(* composer_reset_was_superseded and parse_recovery *)
Recovers == ~rec.superseded /\ rec.text \in Texts

(* finish_draft_recovery_load *)
RecoveryArrives ==
    /\ rec.phase = "read"
    /\ rec' = [phase |-> "idle", text |-> Absent, superseded |-> FALSE]
    /\ IF Recovers
       THEN /\ ui' = [ui EXCEPT !.text = rec.text, !.active = NoDraft]
            /\ auto' = ScheduleText(rec.text)
       ELSE UNCHANGED <<ui, auto>>
    /\ UNCHANGED <<mode, disk, after, earlier, op, loads, count, owed>>

--------------------------------------------------------------------------------
(* The process starts, and dies.                                             *)

(* build_ui starts a migration and the recovery load. *)
StartedUi == [text |-> Empty, active |-> NoDraft, list |-> {},
              ioGen |-> 1, ioActive |-> 1, ioMigrating |-> TRUE]
StartedLoads == {[gen |-> 1, migrate |-> TRUE, stage |-> "plan", plan |-> {},
                  move |-> NoDraft, found |-> {}, ok |-> TRUE]}
StartedAuto == [pending |-> NoAction, urgent |-> NoAction, write |-> NoWrite, kept |-> TRUE]
StartedRec == [phase |-> "reading", text |-> Absent, superseded |-> FALSE]

(* Drafts an earlier version left: a migration may have been cut short. *)
Left == {f \in [{<<"drafts", 1>>, <<"drafts", 2>>, <<"legacy", 1>>, <<"legacy", 2>>, OldRecovery}
                  -> {1, 2, Malformed, Absent}] :
            /\ f[<<"legacy", 1>>] = 1
            /\ f[<<"drafts", 1>>] \in {Absent, 1, 2}
            /\ f[<<"drafts", 2>>] = Absent
            /\ f[<<"legacy", 2>>] = IF f[<<"drafts", 1>>] = Absent THEN Malformed ELSE Absent
            /\ f[OldRecovery] = IF f[<<"drafts", 1>>] = 1 THEN 2 ELSE Absent}

DraftInit ==
    /\ mode \in Modes
    /\ \E f \in Left :
        /\ disk = [p \in Paths |-> IF p \in DOMAIN f THEN f[p] ELSE Absent]
        /\ owed = {{t} : t \in {f[p] : p \in DOMAIN f \ {OldRecovery}} \cap Texts}
    /\ after = [p \in Paths |-> {disk[p]}] /\ earlier = [p \in Paths |-> {}]
    /\ ui = StartedUi /\ op = NoOp /\ auto = StartedAuto
    /\ loads = StartedLoads /\ rec = StartedRec
    /\ count = [typed |-> 0, saves |-> 0, faults |-> 0, crashes |-> 0]

Restarted ==
    /\ count.crashes < MaxCrashes
    /\ count' = [count EXCEPT !.crashes = @ + 1]
    /\ ui' = StartedUi /\ op' = NoOp /\ auto' = StartedAuto
    /\ loads' = StartedLoads /\ rec' = StartedRec
    /\ UNCHANGED mode

(* What the dead process did not sync the next one cannot tell from the rest. *)
ProcessDies ==
    /\ Restarted
    /\ after' = [p \in Paths |-> {disk[p]}]
    /\ earlier' = [p \in Paths |-> earlier[p] \cup (after[p] \ {disk[p]})]
    /\ UNCHANGED <<disk, owed>>

AllSynced == \A p \in Paths : earlier[p] = {}

(***************************************************************************)
(* A Maildir save is not durable (SavedDraftDurable), so power stays on    *)
(* there.  What power takes after a process had died before its sync is    *)
(* given up: the next one relies on what it reads (SavedDraftDurable).     *)
(***************************************************************************)
PowerFails ==
    /\ mode = "local"
    /\ Restarted
    /\ LET open == {p \in Paths : Cardinality(after[p] \cup earlier[p]) > 1}
       IN  \E f \in [open -> UNION {after[p] \cup earlier[p] : p \in open}] :
              /\ \A p \in open : f[p] \in after[p] \cup earlier[p]
              /\ disk' = [p \in Paths |-> IF p \in open THEN f[p] ELSE disk[p]]
    /\ after' = [p \in Paths |-> {disk'[p]}] /\ earlier' = [p \in Paths |-> {}]
    /\ owed' = IF AllSynced THEN owed ELSE {s \in owed : \E p \in Stores : disk'[p] \in s}

DraftNext ==
    \/ AutosaveStarts \/ AutosaveSteps \/ AutosaveFails \/ AutosaveArrives
    \/ \E l \in loads :
          \/ MigrationPlans(l) \/ MigrationPicks(l) \/ MigrationMoves(l) \/ MigrationFails(l)
          \/ LoadScans(l) \/ LoadArrives(l)
    \/ SaveBegins \/ SavePlaces \/ SaveWrites \/ WorkerFails
    \/ ui.active # NoDraft /\ DeleteBegins("deleteActive", ui.active)
    \/ \E e \in ui.list : DeleteBegins("deleteNamed", e) \/ LoadNamed(e)
    \/ DeleteRemoves
    \/ SaveArrives \/ ActiveDeleteArrives \/ NamedDeleteArrives \/ FailureArrives
    \/ Type \/ RecoveryReads \/ RecoveryArrives
    \/ ProcessDies \/ PowerFails

(***************************************************************************)
(* Threads that were spawned run, timers that were set fire.  The user,    *)
(* the failures and the deaths of the process are not fair.                *)
(***************************************************************************)
DraftFairness ==
    /\ WF_draftVars(AutosaveStarts) /\ WF_draftVars(AutosaveSteps) /\ WF_draftVars(AutosaveArrives)
    /\ \A g \in 1 .. (MaxSaves + 1) :
          WF_draftVars(\E l \in loads :
              /\ l.gen = g
              /\ \/ MigrationPlans(l) \/ MigrationPicks(l) \/ MigrationMoves(l)
                 \/ LoadScans(l) \/ LoadArrives(l))
    /\ WF_draftVars(SavePlaces \/ SaveWrites \/ DeleteRemoves)
    /\ WF_draftVars(SaveArrives \/ ActiveDeleteArrives \/ NamedDeleteArrives \/ FailureArrives)

DraftSpec == DraftInit /\ [][DraftNext]_draftVars /\ DraftFairness

--------------------------------------------------------------------------------
(* Properties.                                                               *)

(* Type invariant of the files, the composer and the workers. *)
DraftTypeOK ==
    /\ mode \in Modes
    /\ disk \in [Paths -> DraftTexts]
    /\ \A p \in Paths : disk[p] \in after[p] /\ after[p] \cup earlier[p] \subseteq DraftTexts
    /\ ui.text \in Texts \cup {Empty} /\ ui.active \in Draft \cup {NoDraft}
    /\ ui.list \subseteq Draft
    /\ op.text \in Texts \cup {Empty} /\ op.path \in Paths \cup {NoPath}
    /\ auto.pending \in Texts \cup {ClearRecoveryFile, NoAction} /\ auto.urgent \in Texts \cup {ClearRecoveryFile, NoAction}
    /\ rec.phase \in {"reading", "read", "idle"}
    /\ owed \subseteq SUBSET Texts

(***************************************************************************)
(* A draft the user has saved and neither deleted nor replaced is in a     *)
(* draft store, whatever the migration, a replacing save or its rollback   *)
(* are in the middle of, and a power failure at this moment leaves it      *)
(* there: the copy is durable before the original goes (draft_io.rs        *)
(* migrate_legacy_named_drafts, main_window.rs perform_captured_draft_save).*)
(* The durability is that of the running process's own writes: see         *)
(* SavedDraftDurable.  In a Maildir, where nothing is synced, a draft      *)
(* survives only the process.                                              *)
(***************************************************************************)
SavedDraftSurvives ==
    \A s \in owed : \E p \in Stores :
        IF mode = "local" THEN after[p] \subseteq s ELSE disk[p] \in s

(***************************************************************************)
(* From the recovery boundary that opens a save until the save is over,    *)
(* the text that is being saved, or the newer one that replaced it in the  *)
(* recovery file, survives a power failure, even when the save fails       *)
(* (main_window.rs start_captured_draft_save).                             *)
(***************************************************************************)
SaveKeepsText ==
    op.kind = "save" /\ op.stage # "flush" =>
        \E p \in Paths : LET safe == {t \in Texts : t >= op.text}
                         IN  IF mode = "local" THEN after[p] \cup earlier[p] \subseteq safe
                             ELSE disk[p] \in safe

(***************************************************************************)
(* When the recovery writer is at rest and its last write succeeded, an    *)
(* unsaved text of the composer is in the recovery file for good           *)
(* (composer.rs persist_recovery_draft).                                   *)
(***************************************************************************)
UnsavedTextRecoverable ==
    (/\ auto.pending = NoAction /\ auto.urgent = NoAction /\ auto.write = NoWrite /\ auto.kept
     /\ op = NoOp /\ ui.text \notin {Empty, ui.active.text})
        => after[Recovery] \cup earlier[Recovery] = {ui.text}

(***************************************************************************)
(* While a draft is being saved no step takes the stores, the legacy files *)
(* that a migration left behind included, over the number of drafts a scan *)
(* accepts: a save never makes the list unreadable (draft_io.rs            *)
(* ensure_named_draft_save_fits, scan_named_drafts).                       *)
(***************************************************************************)
SaveKeepsListable ==
    [][op.kind = "save" /\ Fits(Cardinality(JsonEntries)) /\ op'.kind # "none"
          => Fits(Cardinality(JsonEntries'))]_draftVars

(***************************************************************************)
(* The recovered text only ever fills a composer nobody has touched since  *)
(* the process started (main_window.rs finish_draft_recovery_load).        *)
(***************************************************************************)
RecoveryFillsUntouched ==
    [][rec.phase = "read" /\ rec'.phase = "idle" /\ count' = count /\ ui'.text # ui.text
          => ui.text = Empty /\ ui.active = NoDraft]_draftVars

(***************************************************************************)
(* Saving and deleting never stay blocked: every migration and every       *)
(* persistence operation comes to an end, whatever fails                   *)
(* (main_window.rs finish_draft_persistence_activity, draft_io.rs finish). *)
(***************************************************************************)
PersistenceFrees == []<>PersistenceAllowed

(***************************************************************************)
(* A saved draft survives a power failure wherever it is saved.  Does not  *)
(* hold in a Maildir: save_rfc5322_to_maildir syncs nothing.  Nor does it  *)
(* after the death of a process between the rename of a migrated draft and *)
(* the sync of the directory: the next migration finds the same draft in   *)
(* both stores and removes the legacy one without a sync of its own.       *)
(***************************************************************************)
SavedDraftDurable ==
    \A s \in owed : \E p \in Stores : after[p] \cup earlier[p] \subseteq s

(***************************************************************************)
(* When no load and no operation is under way, the list names only drafts  *)
(* that exist.  Does not hold: finish_active_draft_delete does not refresh *)
(* the list.                                                               *)
(***************************************************************************)
ListedDraftsExist ==
    op = NoOp /\ ui.ioActive = 0 => \A e \in ui.list : disk[e.path] # Absent
================================================================================
