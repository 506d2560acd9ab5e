--------------------------- MODULE MessageSource ---------------------------
(***************************************************************************)
(* The file behind a prepared message.  A tag operation renames the file   *)
(* (Maildir flags live in its name) on its own thread while loader,        *)
(* attachment and composer workers read it through one shared path cell,   *)
(* and the user interface remaps that cell only when the report of the     *)
(* operation arrives.  Another program may move the file at any time.      *)
(*                                                                         *)
(* A path is where the file lies (its "base") and the one flag that a tag  *)
(* operation toggles; the other bytes of the name never change.            *)
(***************************************************************************)
EXTENDS Naturals, Sequences, FiniteSets

CONSTANTS
    Readers,        \* workers that read through the same cell
    Attempts,       \* the loop of read_bounded_with_path (8 in the code)
    MaxTagged,      \* bound: tag operations
    MaxMoved        \* bound: moves by another program

ASSUME SourceAssumption ==
    /\ Attempts \in Nat \ {0}
    /\ MaxTagged \in Nat
    /\ MaxMoved \in Nat

VARIABLES
    diskPath,       \* the path of the message's file on disk
    indexedPath,    \* the path the Notmuch database holds
    cell,           \* CurrentMessagePath: [path, generation]
    draftPath,      \* the path of the open draft, if the message is one
    tagStep,        \* the tag operation: "no", "renaming", "indexed", "reported"
    pathReport,     \* [previous, current, paths] of MessagePathState
    pathsUncertain, \* tag_paths_uncertain
    reading,        \* where each reader is
    tagRuns,        \* tag operations so far
    moves           \* moves by another program so far

fileVars == <<diskPath, indexedPath, moves>>
tagVars == <<draftPath, tagStep, pathReport, pathsUncertain, tagRuns>>
sourceVars == <<fileVars, cell, tagVars, reading>>

SourcePath == [base : 0..MaxMoved, seen : BOOLEAN]
FirstPath == [base |-> 0, seen |-> FALSE]
NoPath == [base |-> MaxMoved + 1, seen |-> FALSE]
NoReport == [previous |-> NoPath, current |-> NoPath, paths |-> {}]

NotReading == [at |-> "rest", path |-> NoPath, generation |-> 0, left |-> 0]

SourceInit ==
    /\ diskPath = FirstPath /\ indexedPath = FirstPath
    /\ cell = [path |-> FirstPath, generation |-> 0]
    /\ draftPath = FirstPath
    /\ tagStep = "no" /\ pathReport = NoReport
    /\ pathsUncertain = FALSE
    /\ reading = [r \in Readers |-> NotReading]
    /\ tagRuns = 0 /\ moves = 0

---------------------------------------------------------------------------
(* The tag operation, on its worker thread. *)

\* expected_maildir_filename: the same file with the flags its tags ask for.
ExpectedName(path) == [path EXCEPT !.seen = ~path.seen]

\* Tag operations are refused while the paths are uncertain.
StartTag ==
    /\ tagStep = "no" /\ ~pathsUncertain
    /\ tagRuns < MaxTagged
    /\ tagRuns' = tagRuns + 1
    /\ tagStep' = "renaming"
    /\ UNCHANGED <<fileVars, cell, draftPath, pathReport, pathsUncertain, reading>>

\* notmuch_message_tags_to_maildir_flags renames the file it knows of; a file
\* that is not there, or a rename that fails, leaves everything as it was.
RenameForTags(renames) ==
    /\ tagStep = "renaming"
    /\ tagStep' = "indexed"
    /\ LET done == renames /\ diskPath = indexedPath
       IN  /\ diskPath' = IF done THEN ExpectedName(indexedPath) ELSE diskPath
           \* the writer's view until the atomic section ends
           /\ pathReport' = [NoReport EXCEPT !.previous = indexedPath,
                                         !.current = IF done THEN ExpectedName(indexedPath)
                                                             ELSE indexedPath]
    /\ UNCHANGED <<indexedPath, cell, draftPath, pathsUncertain, reading, tagRuns, moves>>

\* reconcile_maildir_filenames: the expected name if the file is there, else
\* the previous one if the file is there, else no path at all.
ReconcileNames(previous) ==
    LET candidates == {ExpectedName(previous), previous} \cap {diskPath}
    IN  [previous |-> previous,
         current |-> IF candidates = {} THEN NoPath ELSE diskPath,
         paths |-> candidates]

\* The names are collected, the atomic section ends and other readers of the
\* database see the new name.
EndTag ==
    /\ tagStep = "indexed"
    /\ tagStep' = "reported"
    /\ indexedPath' = pathReport.current
    /\ pathReport' = ReconcileNames(pathReport.previous)
    /\ UNCHANGED <<diskPath, cell, draftPath, pathsUncertain, reading, tagRuns, moves>>

---------------------------------------------------------------------------
(* finish_tag_worker, on the main loop. *)

\* apply_matching_path_states follows the change that starts at the path held.
FollowReport(path) ==
    IF path = pathReport.previous /\ pathReport.current # NoPath THEN pathReport.current ELSE path

\* A remap is a new generation, so that a read of the old path is discarded.
RemapCell(path) ==
    [path |-> path,
     generation |-> IF path = cell.path THEN cell.generation ELSE cell.generation + 1]

\* A retained path that the report does not list is unresolved: the paths
\* stay uncertain, and path-based actions blocked, until a restart.
PathResolved(path) == path \in pathReport.paths

ApplyReport ==
    /\ tagStep = "reported"
    /\ tagStep' = "no"
    /\ cell' = RemapCell(FollowReport(cell.path))
    /\ draftPath' = FollowReport(draftPath)
    /\ pathsUncertain' = (\E path \in {cell.path, draftPath} : ~PathResolved(FollowReport(path)))
    /\ pathReport' = NoReport
    /\ UNCHANGED <<diskPath, indexedPath, reading, tagRuns, moves>>

---------------------------------------------------------------------------
(* Another program: a move, and the indexing that lets the database know.  *)

MoveElsewhere ==
    /\ moves < MaxMoved
    /\ moves' = moves + 1
    /\ diskPath' = [diskPath EXCEPT !.base = moves + 1]
    /\ UNCHANGED <<indexedPath, cell, tagVars, reading>>

\* `notmuch new` waits for the write lock of a tag operation under way.
IndexElsewhere ==
    /\ tagStep \in {"no", "renaming", "reported"}
    /\ indexedPath # diskPath
    /\ indexedPath' = diskPath
    /\ UNCHANGED <<diskPath, cell, tagVars, reading, moves>>

---------------------------------------------------------------------------
(* read_bounded_with_path, on a worker.  The lock is held in path_snapshot, *)
(* path_generation and replace_path_if_generation only.                    *)

PathSnapshot(left) == [at |-> "read", path |-> cell.path, generation |-> cell.generation,
                   left |-> left]

StartRead(r) ==
    /\ reading[r].at \in {"rest", "ok", "error"}
    /\ reading' = [reading EXCEPT ![r] = PathSnapshot(Attempts)]
    /\ UNCHANGED <<fileVars, cell, tagVars>>

ReadFile(r) ==
    /\ reading[r].at = "read"
    /\ reading' = [reading EXCEPT ![r].at =
                    IF diskPath = reading[r].path THEN "have" ELSE "missing"]
    /\ UNCHANGED <<fileVars, cell, tagVars>>

\* Faulty variant: the retry reads the path of the first attempt.
RetrySamePath(r) == IF reading[r].left > 1
                THEN [reading[r] EXCEPT !.at = "read", !.left = @ - 1]
                ELSE [reading[r] EXCEPT !.at = "error", !.left = 0]

\* The loop of read_bounded_with_path: again while attempts are left.
RetryRead(r) == IF reading[r].left > 1
            THEN PathSnapshot(reading[r].left - 1)
            ELSE [reading[r] EXCEPT !.at = "error", !.left = 0]

SameGeneration(r) == cell.generation = reading[r].generation

CheckRead(r) ==
    /\ reading[r].at \in {"have", "missing"}
    /\ reading' = [reading EXCEPT ![r] =
                    CASE ~SameGeneration(r) -> RetryRead(r)
                      [] SameGeneration(r) /\ reading[r].at = "have" -> [@ EXCEPT !.at = "ok"]
                      [] OTHER -> [@ EXCEPT !.at = "resolve"]]
    /\ UNCHANGED <<fileVars, cell, tagVars>>

\* open_message_id_file: the first path of the database that can be opened.
ResolveInDatabase(r) ==
    /\ reading[r].at = "resolve"
    /\ reading' = [reading EXCEPT
            ![r].at = IF indexedPath = diskPath THEN "resolved" ELSE "unresolved",
            ![r].path = IF indexedPath = diskPath THEN indexedPath ELSE @]
    /\ UNCHANGED <<fileVars, cell, tagVars>>

\* replace_path_if_generation, or the error when nothing could be opened.
ReplacePath(r) ==
    /\ reading[r].at \in {"resolved", "unresolved"}
    /\ \/ /\ ~SameGeneration(r)
          /\ reading' = [reading EXCEPT ![r] = RetryRead(r)]
          /\ UNCHANGED cell
       \/ /\ SameGeneration(r) /\ reading[r].at = "resolved"
          /\ cell' = RemapCell(reading[r].path)
          /\ reading' = [reading EXCEPT ![r].at = "ok"]
       \/ /\ SameGeneration(r) /\ reading[r].at = "unresolved"
          /\ reading' = [reading EXCEPT ![r].at = "error", ![r].left = 0]
          /\ UNCHANGED cell
    /\ UNCHANGED <<fileVars, tagVars>>

ReaderStep(r) == ReadFile(r) \/ CheckRead(r) \/ ResolveInDatabase(r) \/ ReplacePath(r)

SourceNext ==
    \/ StartTag \/ EndTag \/ ApplyReport
    \/ \E renames \in BOOLEAN : RenameForTags(renames)
    \/ MoveElsewhere \/ IndexElsewhere
    \/ \E r \in Readers : StartRead(r) \/ ReaderStep(r)

\* Worker threads are scheduled: a read under way goes on.
SourceFairness == \A r \in Readers : WF_sourceVars(ReaderStep(r))

SourceSpec == SourceInit /\ [][SourceNext]_sourceVars /\ SourceFairness

---------------------------------------------------------------------------
(* Properties *)

\* The shape of the state: a reader is at one of the points of the loop and
\* never has more attempts left than the loop began with.
SourceTypeOK ==
    /\ diskPath \in SourcePath /\ indexedPath \in SourcePath
    /\ cell.path \in SourcePath /\ cell.generation \in 0..(MaxTagged + MaxMoved) * 2
    /\ draftPath \in SourcePath
    /\ tagStep \in {"no", "renaming", "indexed", "reported"}
    /\ pathReport.paths \subseteq SourcePath
    /\ pathsUncertain \in BOOLEAN
    /\ \A r \in Readers :
        /\ reading[r].at \in {"rest", "read", "have", "missing", "resolve", "resolved",
                             "unresolved", "ok", "error"}
        /\ reading[r].left \in 0..Attempts

\* A lookup that was overtaken by a tag report never takes the cell back:
\* whenever no tag operation is under way and its results are certain, the
\* cell and the open draft name the file the database names, unless another
\* program moved the file (thread_loader.rs:235-286, main_window.rs:15516).
RetainedPathsSettle ==
    (tagStep = "no" /\ ~pathsUncertain /\ moves = 0)
        => (cell.path = indexedPath /\ draftPath = indexedPath)

\* After a move by another program the cell may lag, but a settled tag report
\* never leaves a path that is neither the file's nor the database's without
\* the uncertainty that blocks path-based actions: the cell is wrong only as
\* far as the other program made it wrong.
StalePathsAreOld ==
    (tagStep = "no" /\ ~pathsUncertain) =>
        (cell.path \in {indexedPath, diskPath} \/ cell.path.base < moves)

\* A read that begins when nothing renames the file any more ends with it:
\* the loop falls through to an error only when paths changed under it or the
\* database does not have the file.
ReadFindsFile ==
    \A r \in Readers :
        (reading[r].at = "read" /\ reading[r].left = Attempts
            /\ [](diskPath = indexedPath /\ tagStep = "no" /\ moves = MaxMoved))
            ~> reading[r].at = "ok"

\* A finished read of a settled message is of the path the cell holds: the
\* attachment cache names its entries by that path (attachment_io.rs).
ReadMatchesCell ==
    [][\A r \in Readers :
        (reading[r].at # "ok" /\ reading'[r].at = "ok") => reading'[r].path = cell'.path]_sourceVars
=============================================================================
