------------------------ MODULE ExternalCommandProofs ------------------------
(***************************************************************************)
(* Proofs about run_external_command, for every size of input, output,     *)
(* capture limit and pipe, and about tag operations and their undo history,*)
(* for every number of messages and tags and every length of the history.  *)
(***************************************************************************)
EXTENDS ExternalCommand, TagUndo, FiniteSetTheorems, WellFoundedInduction, TLAPS

(***************************************************************************)
(* What the proofs need beside the properties.  The runner's fields have   *)
(* their types; only the runner reaps, and says so (`waited`), except in   *)
(* the second half of terminate_and_reap; between the signal and the       *)
(* return the child is dead and its group is empty, unless the signal was  *)
(* refused.                                                                *)
(***************************************************************************)
Runners ==
  [phase : {"idle", "run", "kill", "reap"}, cause : {"none", "io", "timeout", "refused"}, unsent : Nat,
   written : BOOLEAN, captured : 0..OutputLimit, drained : BOOLEAN, waited : BOOLEAN]
Children == [st : {"none", "alive", "exited", "reaped"}, ok : BOOLEAN, left : Nat]
Pipes == [in : 0..PipeSize, closed : BOOLEAN, out : 0..PipeSize]
Commands == [name : {"receive", "database_update", "send"}, input : Nat, file : BOOLEAN]

CmdTypes ==
  /\ jobs \in Seq(Commands)
  /\ runner \in Runners /\ child \in Children /\ pipes \in Pipes
  /\ timed \in BOOLEAN /\ message \in BOOLEAN
  /\ heirs \subseteq {"group", "away"}
  /\ outcome \in {"none", "success", "status", "error", "cleanup"}

BetweenCommands ==
  /\ runner.phase = "idle" /\ outcome # "cleanup" => child.st \in {"none", "reaped"} /\ "group" \notin heirs
  /\ outcome = "cleanup" => runner.phase = "idle" /\ jobs = <<>>
WaitedMeansReaped == runner.waited => child.st = "reaped"
DrainedMeansAlone == runner.drained => heirs = {} /\ child.st # "alive"
JobUnderWay ==
  runner.phase # "idle" => jobs # <<>> /\ child.st # "none" /\ message = Head(jobs).file
KilledGroup ==
  runner.phase = "reap" => child.st # "alive" /\ ("group" \notin heirs \/ runner.cause = "refused")

CmdInv ==
  /\ CmdTypes
  /\ BetweenCommands /\ WaitedMeansReaped /\ DrainedMeansAlone /\ JobUnderWay /\ KilledGroup

-----------------------------------------------------------------------------

(* The runner begins every command with fields of their types. *)
LEMMA IdleRunner == Idle \in Runners /\ ~Idle.waited /\ ~Idle.drained /\ Idle.phase = "idle"
  BY CommandAssumption DEF Idle, Runners

(* The three lists of commands that the users of run_external_command give. *)
LEMMA InitInv == CmdInit => CmdInv
  <1> SUFFICES ASSUME CmdInit PROVE CmdInv
    OBVIOUS
  <1>1. SyncJobs \in Seq(Commands) /\ StdinJob \in Seq(Commands) /\ FileJob \in Seq(Commands)
    BY CommandAssumption DEF SyncJobs, StdinJob, FileJob, CommandSpec, Commands
  <1>a. jobs \in Seq(Commands)
    BY <1>1 DEF CmdInit
  <1>b. NoChild \in Children /\ NoPipes \in Pipes
    BY CommandAssumption DEF NoChild, Children, NoPipes, Pipes
  <1>2. CmdTypes
    BY <1>a, <1>b, IdleRunner DEF CmdInit, CmdTypes
  <1> QED
    BY <1>2, IdleRunner
       DEF CmdInit, CmdInv, BetweenCommands, WaitedMeansReaped, DrainedMeansAlone, JobUnderWay,
           KilledGroup, NoChild

(* Starting a command. *)
LEMMA SpawnKeeps ==
  ASSUME CmdInv, NEW d \in BOOLEAN, Spawn(d)
  PROVE  CmdInv'
  <1>1. Head(jobs) \in Commands
    BY DEF Spawn, CmdInv, CmdTypes
  <1>2. runner' \in Runners /\ runner'.phase = "run" /\ ~runner'.waited /\ ~runner'.drained
    <2>1. runner' = [phase |-> "run", cause |-> "none", unsent |-> Head(jobs).input,
                     written |-> FALSE, captured |-> 0, drained |-> FALSE, waited |-> FALSE]
      BY DEF Spawn, Idle, Job
    <2>2. Head(jobs).input \in Nat
      BY <1>1 DEF Commands
    <2> QED
      BY <2>1, <2>2, CommandAssumption DEF Runners
  <1>3. CmdTypes'
    BY <1>1, <1>2, CommandAssumption
       DEF Spawn, CmdInv, CmdTypes, Children, Pipes, Job, Commands
  <1> QED
    BY <1>2, <1>3
       DEF Spawn, CmdInv, BetweenCommands, WaitedMeansReaped, DrainedMeansAlone, JobUnderWay,
           KilledGroup, Job

LEMMA SpawnFailsKeeps ==
  ASSUME CmdInv, SpawnFails
  PROVE  CmdInv'
  <1>1. <<>> \in Seq(Commands)
    OBVIOUS
  <1>2. CmdTypes'
    BY <1>1 DEF SpawnFails, CmdInv, CmdTypes
  <1> QED
    BY <1>2 DEF SpawnFails, CmdInv, BetweenCommands, WaitedMeansReaped, DrainedMeansAlone,
       JobUnderWay, KilledGroup

(* What the runner does while the command runs. *)
LEMMA RunnerKeeps ==
  ASSUME CmdInv, RunnerSteps \/ Deadline
  PROVE  CmdInv'
  <1> USE DEF CmdInv
  <1>1. CASE WriteStdin
    <2>a. runner' \in Runners
      BY <1>1 DEF WriteStdin, CmdTypes, Runners
    <2>b. pipes' \in Pipes
      BY <1>1, CommandAssumption DEF WriteStdin, CmdTypes, Pipes
    <2>1. CmdTypes'
      BY <1>1, <2>a, <2>b DEF WriteStdin, CmdTypes
    <2> QED
      BY <1>1, <2>1 DEF WriteStdin, CmdTypes, Runners, Running, BetweenCommands, WaitedMeansReaped,
         DrainedMeansAlone, JobUnderWay, KilledGroup
  <1>2. CASE BrokenPipe \/ Deadline
    <2>1. CmdTypes'
      BY <1>2 DEF BrokenPipe, Deadline, Fail, CmdTypes, Runners
    <2> QED
      BY <1>2, <2>1 DEF BrokenPipe, Deadline, Fail, CmdTypes, Runners, Running, BetweenCommands,
         WaitedMeansReaped, DrainedMeansAlone, JobUnderWay, KilledGroup
  <1>3. CASE CloseStdin
    <2>1. CmdTypes'
      BY <1>3 DEF CloseStdin, CmdTypes, Runners, Pipes
    <2> QED
      BY <1>3, <2>1 DEF CloseStdin, CmdTypes, Runners, Running, BetweenCommands, WaitedMeansReaped,
         DrainedMeansAlone, JobUnderWay, KilledGroup
  <1>4. CASE ReadOutput
    <2>1. Captured \in 0..OutputLimit
      BY CommandAssumption DEF Captured, CmdTypes, Runners
    <2>a. runner' \in Runners
      BY <1>4, <2>1 DEF ReadOutput, CmdTypes, Runners
    <2>b. pipes' \in Pipes
      BY <1>4, CommandAssumption DEF ReadOutput, ReadAll, CmdTypes, Pipes
    <2>2. CmdTypes'
      BY <1>4, <2>a, <2>b DEF ReadOutput, CmdTypes
    <2> QED
      BY <1>4, <2>2 DEF ReadOutput, CmdTypes, Runners, Running, BetweenCommands, WaitedMeansReaped,
         DrainedMeansAlone, JobUnderWay, KilledGroup
  <1>5. CASE ReadEnd
    <2>1. CmdTypes'
      BY <1>5 DEF ReadEnd, CmdTypes, Runners
    <2> QED
      BY <1>5, <2>1 DEF ReadEnd, Holders, CmdTypes, Runners, Running, BetweenCommands,
         WaitedMeansReaped, DrainedMeansAlone, JobUnderWay, KilledGroup
  <1>6. CASE Wait
    <2>1. CmdTypes'
      BY <1>6 DEF Wait, CmdTypes, Runners, Children
    <2> QED
      BY <1>6, <2>1 DEF Wait, CmdTypes, Runners, Children, Running, BetweenCommands,
         WaitedMeansReaped, DrainedMeansAlone, JobUnderWay, KilledGroup
  <1>7. CASE Join
    <2>a. jobs' \in Seq(Commands)
      BY <1>7 DEF Join, Returned, Running, CmdTypes, JobUnderWay
    <2>1. CmdTypes'
      BY <1>7, <2>a, IdleRunner DEF Join, Returned, CmdTypes
    <2> QED
      BY <1>7, <2>1, IdleRunner DEF Join, Returned, Joined, Running, BetweenCommands,
         WaitedMeansReaped, DrainedMeansAlone, JobUnderWay, KilledGroup
  <1> QED
    BY <1>1, <1>2, <1>3, <1>4, <1>5, <1>6, <1>7 DEF RunnerSteps

(* terminate_and_reap: the signal, the wait and the return. *)
LEMMA KillKeeps ==
  ASSUME CmdInv, KillGroup \/ KillRefused \/ Reap \/ CleanedUp \/ WaitFails
  PROVE  CmdInv'
  <1> USE DEF CmdInv
  <1>1. CASE KillGroup
    <2>1. Killed(child) \in Children /\ Killed(child).st # "alive"
          /\ (child.st # "none" => Killed(child).st # "none")
          /\ (child.st = "reaped" => Killed(child).st = "reaped")
      BY DEF Killed, CmdTypes, Children
    <2>2. CmdTypes'
      BY <1>1, <2>1 DEF KillGroup, CmdTypes, Runners, HeirsKilled
    <2> QED
      BY <1>1, <2>1, <2>2 DEF KillGroup, CmdTypes, Runners, HeirsKilled, BetweenCommands,
         WaitedMeansReaped, DrainedMeansAlone, JobUnderWay, KilledGroup
  <1>2. CASE Reap
    <2>1. CmdTypes'
      BY <1>2 DEF Reap, CmdTypes, Children
    <2> QED
      BY <1>2, <2>1 DEF Reap, CmdTypes, Children, BetweenCommands, WaitedMeansReaped,
         DrainedMeansAlone, JobUnderWay, KilledGroup
  <1>3. CASE CleanedUp
    <2>a. jobs' \in Seq(Commands) /\ jobs' = <<>>
      BY <1>3 DEF CleanedUp, Returned
    <2>b. outcome' \in {"error", "cleanup"} /\ runner' = Idle
      BY <1>3 DEF CleanedUp, Returned
    <2>1. CmdTypes'
      BY <1>3, <2>a, <2>b, IdleRunner DEF CleanedUp, Returned, CmdTypes
    <2>2. outcome' # "cleanup" => "group" \notin heirs
      BY <1>3 DEF CleanedUp, Returned, KilledGroup
    <2> QED
      BY <1>3, <2>a, <2>b, <2>1, <2>2, IdleRunner DEF CleanedUp, Returned, ReapedFirst, BetweenCommands,
         WaitedMeansReaped, DrainedMeansAlone, JobUnderWay, KilledGroup
  <1>4. ASSUME Returned("cleanup"), UNCHANGED <<timed, child, heirs, pipes, stranger>>
        PROVE  CmdInv'
    <2>a. jobs' \in Seq(Commands) /\ jobs' = <<>> /\ outcome' = "cleanup" /\ runner' = Idle /\ message' = FALSE
      BY <1>4 DEF Returned
    <2>1. CmdTypes'
      BY <1>4, <2>a, IdleRunner DEF CmdTypes
    <2> QED
      BY <1>4, <2>a, <2>1, IdleRunner DEF BetweenCommands, WaitedMeansReaped, DrainedMeansAlone, JobUnderWay,
         KilledGroup
  <1>5. CASE KillRefused
    <2>1. CASE Returned("cleanup") /\ UNCHANGED child
      BY <1>4, <1>5, <2>1 DEF KillRefused
    <2>2. ASSUME child.st # "reaped", child' = Killed(child),
                 runner' = [runner EXCEPT !.phase = "reap", !.cause = "refused"],
                 UNCHANGED <<jobs, message, outcome>>
          PROVE  CmdInv'
      <3>1. Killed(child) \in Children /\ Killed(child).st # "alive"
            /\ (child.st # "none" => Killed(child).st # "none")
        BY DEF Killed, CmdTypes, Children
      <3>2. runner' \in Runners /\ runner'.phase = "reap" /\ runner'.cause = "refused"
            /\ runner'.waited = runner.waited /\ runner'.drained = runner.drained
        BY <2>2 DEF CmdTypes, Runners
      <3>3. CmdTypes'
        BY <1>5, <2>2, <3>1, <3>2 DEF KillRefused, CmdTypes
      <3>4. ~runner.waited /\ runner.phase = "kill" /\ outcome # "cleanup"
        BY <1>5, <2>2 DEF KillRefused, WaitedMeansReaped, BetweenCommands
      <3> QED
        BY <1>5, <2>2, <3>1, <3>2, <3>3, <3>4 DEF KillRefused, BetweenCommands, WaitedMeansReaped,
           DrainedMeansAlone, JobUnderWay, KilledGroup
    <2> QED
      BY <1>5, <2>1, <2>2 DEF KillRefused
  <1>6. CASE WaitFails
    BY <1>4, <1>6 DEF WaitFails
  <1> QED
    BY <1>1, <1>2, <1>3, <1>5, <1>6

(* Whatever the child and its descendants do; a dead child forks nothing. *)
LEMMA ChildKeeps ==
  ASSUME CmdInv,
         \/ ChildReads \/ ChildWrites \/ ChildEnds \/ ChildQuits \/ NumberReused
         \/ \E where \in {"group", "away"} : ChildForks(where) \/ HeirEnds(where)
  PROVE  CmdInv'
  <1> USE DEF CmdInv, env
  <1>1. CASE ChildReads \/ ChildWrites
    <2>a. pipes' \in Pipes
      BY <1>1, CommandAssumption DEF ChildReads, ChildWrites, CmdTypes, Pipes
    <2>b. child' \in Children
      BY <1>1 DEF ChildReads, ChildWrites, CmdTypes, Children
    <2>1. CmdTypes'
      BY <1>1, <2>a, <2>b DEF ChildReads, ChildWrites, CmdTypes
    <2> QED
      BY <1>1, <2>1 DEF ChildReads, ChildWrites, Alive, CmdTypes, Children, BetweenCommands,
         WaitedMeansReaped, DrainedMeansAlone, JobUnderWay, KilledGroup
  <1>2. CASE ChildEnds \/ ChildQuits
    <2>1. PICK ok \in BOOLEAN : Alive /\ ExitsWith(ok)
      BY <1>2 DEF ChildEnds, ChildQuits
    <2>2. CmdTypes'
      BY <2>1 DEF ExitsWith, CmdTypes, Children
    <2> QED
      BY <2>1, <2>2 DEF ExitsWith, Alive, CmdTypes, Children, BetweenCommands, WaitedMeansReaped,
         DrainedMeansAlone, JobUnderWay, KilledGroup
  <1>3. CASE \E where \in {"group", "away"} : ChildForks(where) \/ HeirEnds(where)
    BY <1>3 DEF ChildForks, HeirEnds, Alive, CmdTypes, BetweenCommands, WaitedMeansReaped,
       DrainedMeansAlone, JobUnderWay, KilledGroup
  <1>4. CASE NumberReused
    BY <1>4 DEF NumberReused, CmdTypes, BetweenCommands, WaitedMeansReaped, DrainedMeansAlone,
       JobUnderWay, KilledGroup
  <1> QED
    BY <1>1, <1>2, <1>3, <1>4

(* The invariant of the runner and its child holds in every state. *)
LEMMA CmdInvariance == CmdSpec => []CmdInv
  <1>1. ASSUME CmdInv, [CmdNext]_cmdVars PROVE CmdInv'
    <2>1. CASE UNCHANGED cmdVars
      BY <1>1, <2>1 DEF cmdVars, CmdInv, CmdTypes, BetweenCommands, WaitedMeansReaped,
         DrainedMeansAlone, JobUnderWay, KilledGroup
    <2>2. CASE CmdNext
      BY <1>1, <2>2, SpawnKeeps, SpawnFailsKeeps, RunnerKeeps, KillKeeps, ChildKeeps DEF CmdNext
    <2> QED
      BY <1>1, <2>1, <2>2
  <1> QED
    BY <1>1, InitInv, PTL DEF CmdSpec

(* Type correctness of run_external_command and its users. *)
THEOREM CommandTypeCorrect == CmdSpec => []CmdTypeOK
  <1>1. CmdInv => CmdTypeOK
    BY CommandAssumption DEF CmdInv, CmdTypes, CmdTypeOK, Runners, Children, Pipes
  <1> QED
    BY <1>1, CmdInvariance, PTL

(***************************************************************************)
(* terminate_and_reap: whatever the child, its descendants and the         *)
(* deadline do, a command that has returned leaves no zombie, and after a  *)
(* timeout or an I/O error nothing in the process group; when the system   *)
(* refused the signal or the wait, that is what the command reports.       *)
(***************************************************************************)
THEOREM CommandLeavesNothing == CmdSpec => []NothingLeftBehind
  <1>1. CmdInv => NothingLeftBehind
    BY DEF CmdInv, BetweenCommands, NothingLeftBehind
  <1> QED
    BY <1>1, CmdInvariance, PTL

(* send_file_arg, send_template: the message file is there while the program runs. *)
THEOREM MessageFileOutlivesCommand == CmdSpec => []MessageOutlivesCommand
  <1>1. CmdInv => MessageOutlivesCommand
    BY DEF CmdInv, CmdTypes, BetweenCommands, JobUnderWay, MessageOutlivesCommand, Job
  <1> QED
    BY <1>1, CmdInvariance, PTL

--------------------------------------------------------------------------------
(***************************************************************************)
(* Tag operations and their undo history, for every number of messages and *)
(* of tags and every length of the history.                                *)
(*                                                                         *)
(* TagInv is inductive.  What is owed is the history together with what    *)
(* the worker has taken out of it (an undo) or changed so far (a tag       *)
(* operation), and Exact says that undoing all of that gives the tags from *)
(* before.  A tag operation has one batch, and what it has changed since   *)
(* its batch began is what it reports (Tagging).  An undo has begun the    *)
(* first of its actions and not the others (InTurn), and the tags are what *)
(* the last of them that is about a tag says of it (Progress); so a        *)
(* complete one leaves nothing to be undone.  It has left room for its     *)
(* actions in the history (Phases), so they come back whole.               *)
(***************************************************************************)

(* One mutation of a message at most. *)
One(a) == \A x, y \in a : x.message = y.message => x = y
Actions == {a \in SUBSET Mutation : One(a)}
Histories == {h \in Seq(Actions) : Len(h) <= MaxHistory /\ \A i \in DOMAIN h : h[i] # {}}
TagSets == [Messages -> SUBSET Tags]
TagWorkers ==
  [phase : {"idle", "running", "batch", "done"}, actions : Seq(Actions), todo : Seq(Actions),
   batch : Actions, before : TagSets \cup {<<>>}, changes : SUBSET Mutation,
   complete : BOOLEAN, uncertain : BOOLEAN]

Typed ==
  /\ tags \in TagSets /\ original \in TagSets /\ doubtful \subseteq Messages
  /\ history \in Histories /\ file \in Histories /\ queue \in Seq(Histories)
  /\ status \in {"ok", "warning", "uncertain"} /\ window \in {"open", "closing", "closed"}
  /\ unsaved \in BOOLEAN /\ operations \in Nat
  /\ worker \in TagWorkers

(* The queue ends with the history, and the file with the last snapshot written. *)
Saved ==
  /\ queue # <<>> => queue[Len(queue)] = history
  /\ queue = <<>> => file = history \/ unsaved
  /\ window = "closed" => queue = <<>>

Undoing == worker.actions # <<>>

Phases ==
  /\ worker.phase = "idle" => worker = NoTagWork
  /\ worker.phase # "idle" => window = "open"
  /\ worker.phase = "batch" => worker.before \in TagSets
  /\ Len(history) + Len(worker.actions) <= MaxHistory
  /\ Undoing => \A i \in DOMAIN worker.actions : worker.actions[i] # {}

(* A tag operation: one batch, and what it changed since it began. *)
Tagging ==
  ~Undoing =>
    /\ One(worker.changes)
    /\ worker.phase = "running" => Len(worker.todo) = 1 /\ worker.changes = {}
    /\ worker.phase = "batch" =>
         /\ worker.todo = <<>>
         /\ \A c \in worker.changes, x \in worker.batch : c.message # x.message
         /\ \A c \in worker.changes : c.message \notin doubtful =>
              c = Changed(c.message, worker.before[c.message], tags[c.message])
         /\ \A m \in Messages \ doubtful :
              (\A c \in worker.changes : c.message # m) => tags[m] = worker.before[m]

(* An undo: how many of its actions have begun, and what they leave to be done. *)
Begun == Len(worker.actions) - Len(worker.todo)
Part(i) == IF worker.phase = "batch" /\ i = Begun THEN worker.actions[i] \ worker.batch ELSE worker.actions[i]

InTurn ==
  Undoing /\ worker.phase \in {"running", "batch"} =>
    /\ Len(worker.todo) <= Len(worker.actions)
    /\ \A i \in DOMAIN worker.todo : worker.todo[i] = worker.actions[i + Begun]
    /\ worker.phase = "running" => worker.todo # <<>>
    /\ worker.phase = "batch" =>
         /\ Begun \in DOMAIN worker.actions /\ worker.batch \subseteq worker.actions[Begun]
         /\ \A m \in Messages, t \in Tags :
              ~About(worker.actions[Begun], m, t) => (t \in tags[m] <=> t \in worker.before[m])

(* What the newest actions left: the last of the first n that is about a tag decides. *)
Settled(tg, n) ==
  \A m \in Messages, t \in Tags, i \in 1..n :
    About(Part(i), m, t) /\ (\A j \in i + 1 .. n : ~About(Part(j), m, t))
      => (t \in tg[m] <=> Adds(Part(i), m, t))

Progress ==
  Undoing /\ worker.complete =>
    /\ worker.phase \in {"running", "batch"} => Settled(tags, Begun)
    /\ worker.phase = "done" => Settled(tags, Len(worker.actions))

Exact == \A m \in Messages \ doubtful : UndoAll(tags, Owed)[m] = original[m]

TagInv == Typed /\ Saved /\ Phases /\ Tagging /\ InTurn /\ Progress /\ Exact
-----------------------------------------------------------------------------
(* The selection from the highest index to the lowest *)

LEMMA SmallestOf ==
  ASSUME NEW T, T \subseteq Nat, T # {}
  PROVE  \E x \in T : \A y \in T : x <= y
  <1>1. PICK R : R = OpToRel(<, Nat)
    OBVIOUS
  <1>2. \E x \in T : \A y \in T : ~ (<<y, x>> \in R)
    BY <1>1, NatLessThanWellFounded, WFMin
  <1>3. \A x, y \in Nat : y < x => <<y, x>> \in R
    BY <1>1 DEF OpToRel
  <1>4. PICK x \in T : \A y \in T : ~ (<<y, x>> \in R)
    BY <1>2
  <1>5. \A y \in T : ~ (y < x)
    BY <1>3, <1>4
  <1>6. \A y \in T : x <= y
    BY <1>5
  <1> QED
    BY <1>6

Decreasing(s) == \A i, j \in DOMAIN s : i < j => s[i] > s[j]

LEMMA FiniteIndices ==
  ASSUME NEW N \in Nat, NEW S \in SUBSET (1..N)
  PROVE  IsFiniteSet(S) /\ Cardinality(S) \in Nat
  <1>1. IsFiniteSet(1..N)
    BY FS_Interval
  <1>2. IsFiniteSet(S)
    BY <1>1, FS_Subset
  <1> QED
    BY <1>2, FS_CardinalityType

LEMMA DecreasingExists ==
  ASSUME NEW N \in Nat
  PROVE  \A S \in SUBSET (1..N) : \E s \in [1..Cardinality(S) -> S] : Decreasing(s)
  <1> DEFINE Bad(n) == \E S \in SUBSET (1..N) : Cardinality(S) = n /\ ~ \E s \in [1..n -> S] : Decreasing(s)
             T == {n \in Nat : Bad(n)}
  <1>1. SUFFICES T = {}
    <2> SUFFICES ASSUME T = {}, NEW S \in SUBSET (1..N)
                 PROVE  \E s \in [1..Cardinality(S) -> S] : Decreasing(s)
      OBVIOUS
    <2>1. Cardinality(S) \in Nat
      BY FiniteIndices
    <2>2. ~Bad(Cardinality(S))
      BY <2>1
    <2> QED
      BY <2>2
  <1>2. SUFFICES ASSUME T # {}
                 PROVE  FALSE
    OBVIOUS
  <1>3. PICK n \in T : \A y \in T : n <= y
    BY <1>2, SmallestOf
  <1>4. PICK S \in SUBSET (1..N) : Cardinality(S) = n /\ ~ \E s \in [1..n -> S] : Decreasing(s)
    OBVIOUS
  <1>5. IsFiniteSet(S) /\ n \in Nat
    BY FiniteIndices
  <1>6. S # {}
    <2> SUFFICES ASSUME S = {}
                 PROVE  FALSE
      OBVIOUS
    <2>1. n = 0
      BY <1>4, FS_EmptySet
    <2>2. [i \in 1..0 |-> i] \in [1..n -> S] /\ Decreasing([i \in 1..0 |-> i])
      BY <2>1 DEF Decreasing
    <2> QED
      BY <2>2, <1>4
  <1>7. PICK a \in S : \A y \in S : a <= y
    <2>1. S \subseteq Nat
      OBVIOUS
    <2> QED
      BY <1>6, <2>1, SmallestOf
  <1> DEFINE U == S \ {a}
  <1>8. U \in SUBSET (1..N) /\ Cardinality(U) = n - 1
    BY <1>4, <1>5, FS_RemoveElement
  <1>9. n # 0
    BY <1>4, <1>5, <1>6, FS_EmptySet
  <1>10. n - 1 \in Nat /\ n - 1 < n
    BY <1>5, <1>9
  <1>11. n - 1 \notin T
    BY <1>3, <1>10
  <1>12. PICK s \in [1..n - 1 -> U] : Decreasing(s)
    BY <1>8, <1>10, <1>11
  <1> DEFINE r == [i \in 1..n |-> IF i = n THEN a ELSE s[i]]
  <1>13. r \in [1..n -> S]
    BY <1>5
  <1>14. \A i, j \in 1..n : i < j => r[i] > r[j]
    <2> SUFFICES ASSUME NEW i \in 1..n, NEW j \in 1..n, i < j
                 PROVE  r[i] > r[j]
      OBVIOUS
    <2>1. i \in 1..n - 1 /\ s[i] \in U /\ r[i] = s[i]
      BY <1>5
    <2>2. CASE j = n
      <3>1. a <= s[i] /\ s[i] # a /\ s[i] \in Nat /\ a \in Nat /\ r[j] = a
        <4>1. s[i] \in S /\ s[i] # a /\ \A x \in S : x \in Nat
          BY <2>1
        <4>2. a <= s[i]
          BY <4>1, <1>7
        <4>3. r[j] = a
          BY <2>2
        <4> QED
          BY <4>1, <4>2, <4>3
      <3> QED
        BY <2>1, <3>1
    <2>3. CASE j # n
      <3>1. j \in 1..n - 1 /\ r[j] = s[j]
        BY <2>3, <1>5
      <3> QED
        BY <2>1, <3>1, <1>12 DEF Decreasing
    <2> QED
      BY <2>2, <2>3
  <1>15. Decreasing(r)
    BY <1>14 DEF Decreasing
  <1> QED
    BY <1>4, <1>13, <1>15

LEMMA HighestFirstIs ==
  ASSUME NEW N \in Nat, NEW S \in SUBSET (1..N)
  PROVE  LET s == HighestFirst(S)
             n == Cardinality(S)
         IN  /\ n \in Nat /\ s \in [1..n -> S] /\ s \in Seq(1..N) /\ Len(s) = n
             /\ Decreasing(s) /\ \A x \in S : \E i \in 1..n : s[i] = x
             /\ \A i, j \in 1..n : s[i] = s[j] => i = j
             /\ S # {} => n # 0
  <1> DEFINE s == HighestFirst(S)
             n == Cardinality(S)
  <1>1. IsFiniteSet(S) /\ n \in Nat
    BY FiniteIndices
  <1>2. \E d \in [1..n -> S] : \A i, j \in DOMAIN d : i < j => d[i] > d[j]
    BY DecreasingExists DEF Decreasing
  <1>3. s \in [1..n -> S] /\ \A i, j \in DOMAIN s : i < j => s[i] > s[j]
    BY <1>2 DEF HighestFirst
  <1> HIDE DEF s
  <1>4. Decreasing(s)
    BY <1>3 DEF Decreasing
  <1>5. \A i, j \in 1..n : s[i] = s[j] => i = j
    <2> SUFFICES ASSUME NEW i \in 1..n, NEW j \in 1..n, s[i] = s[j], i # j
                 PROVE  FALSE
      OBVIOUS
    <2>1. s[i] \in Nat /\ s[j] \in Nat
      <3>1. s[i] \in S /\ s[j] \in S
        BY <1>3
      <3>2. \A x \in S : x \in Nat
        OBVIOUS
      <3> QED
        BY <3>1, <3>2
    <2>2. i < j \/ j < i
      BY <1>1
    <2> QED
      BY <1>3, <2>1, <2>2
  <1>6. s \in Injection(1..n, S)
    BY <1>3, <1>5 DEF Injection, IsInjective
  <1>7. Cardinality(1..n) = n
    BY <1>1, FS_Interval
  <1>8. s \in Surjection(1..n, S)
    BY <1>1, <1>6, <1>7, FS_Injection
  <1>9. \A x \in S : \E i \in 1..n : s[i] = x
    BY <1>8 DEF Surjection
  <1>10. s \in Seq(1..N) /\ Len(s) = n
    <2>1. \A i \in 1..n : s[i] \in 1..N
      BY <1>3
    <2>2. s \in [1..n -> 1..N]
      BY <1>3, <2>1
    <2> QED
      BY <1>1, <2>2
  <1>11. S # {} => n # 0
    BY <1>1, FS_EmptySet
  <1> QED
    BY <1>1, <1>3, <1>4, <1>5, <1>9, <1>10, <1>11 DEF s

LEMMA HighestFirstOfInterval ==
  ASSUME NEW a \in Nat, NEW k \in Nat
  PROVE  LET s == HighestFirst(a + 1 .. a + k)
         IN  Cardinality(a + 1 .. a + k) = k /\ s \in [1..k -> a + 1 .. a + k] /\ \A i \in 1..k : s[i] = (a + k + 1) - i
  <1> DEFINE S == a + 1 .. a + k
             s == HighestFirst(S)
  <1>1. Cardinality(S) = k
    BY FS_Interval
  <1>2. a + k \in Nat /\ S \in SUBSET (1..a + k)
    OBVIOUS
  <1>3. s \in [1..k -> S] /\ Decreasing(s) /\ \A x \in S : \E i \in 1..k : s[i] = x
    <2>1. PICK N \in Nat : N = a + k
      BY <1>2
    <2>2. S \in SUBSET (1..N)
      BY <1>2, <2>1
    <2> HIDE DEF S
    <2>3. s \in [1..Cardinality(S) -> S] /\ Decreasing(s) /\ \A x \in S : \E i \in 1..Cardinality(S) : s[i] = x
      BY <2>2, HighestFirstIs
    <2> QED
      BY <1>1, <2>3
  <1> HIDE DEF s
  <1> DEFINE T == {i \in 1..k : s[i] # (a + k + 1) - i}
  <1>4. T = {}
    <2> SUFFICES ASSUME T # {}
                 PROVE  FALSE
      OBVIOUS
    <2>1. T \subseteq Nat
      OBVIOUS
    <2>2. PICK i \in T : \A j \in T : i <= j
      BY <2>1, SmallestOf
    <2>3. i \in 1..k /\ s[i] # (a + k + 1) - i
      OBVIOUS
    <2>4. \A j \in 1..k : j < i => s[j] = (a + k + 1) - j
      BY <2>2
    <2>5. \A j \in 1..k : s[j] \in S /\ s[j] \in Nat
      <3>1. \A j \in 1..k : s[j] \in S
        BY <1>3
      <3> QED
        BY <3>1
    <2>6. s[i] <= (a + k + 1) - i
      <3>1. CASE i = 1
        BY <3>1, <2>3, <2>5
      <3>2. CASE i # 1
        <4>1. i - 1 \in 1..k /\ s[i - 1] = (a + k + 1) - (i - 1)
          BY <3>2, <2>3, <2>4
        <4>2. s[i - 1] > s[i]
          BY <2>3, <4>1, <1>3 DEF Decreasing
        <4> QED
          BY <4>1, <4>2, <2>3, <2>5
      <3> QED
        BY <3>1, <3>2
    <2>7. (a + k + 1) - i \in S /\ s[i] < (a + k + 1) - i
      BY <2>3, <2>5, <2>6
    <2>8. PICK j \in 1..k : s[j] = (a + k + 1) - i
      BY <2>7, <1>3
    <2>9. CASE j < i
      <3>1. s[j] = (a + k + 1) - j
        BY <2>4, <2>9
      <3> QED
        BY <3>1, <2>3, <2>8, <2>9
    <2>10. CASE j > i
      <3>1. s[i] > s[j]
        BY <2>3, <2>10, <1>3 DEF Decreasing
      <3> QED
        BY <3>1, <2>3, <2>5, <2>7, <2>8
    <2>11. CASE j = i
      BY <2>11, <2>3, <2>8
    <2> QED
      BY <2>3, <2>9, <2>10, <2>11
  <1> QED
    BY <1>1, <1>3, <1>4 DEF s

-----------------------------------------------------------------------------
(* What is removed from the history, and what stays *)

LEMMA ReverseIs ==
  ASSUME NEW X, NEW s \in Seq(X)
  PROVE  Reverse(s) \in Seq(X) /\ Len(Reverse(s)) = Len(s) /\ DOMAIN Reverse(s) = DOMAIN s
         /\ \A i \in DOMAIN s : Reverse(s)[i] = s[(Len(s) - i) + 1] /\ (Len(s) - i) + 1 \in DOMAIN s
  <1>1. \A i \in 1..Len(s) : (Len(s) - i) + 1 \in 1..Len(s) /\ s[(Len(s) - i) + 1] \in X
    OBVIOUS
  <1>2. Reverse(s) \in [1..Len(s) -> X]
    BY <1>1 DEF Reverse
  <1> QED
    BY <1>1, <1>2 DEF Reverse

LEMMA HistoryIs ==
  ASSUME NEW h \in Histories
  PROVE  h \in Seq(Actions) /\ DOMAIN h = 1..Len(h) /\ Len(h) \in Nat /\ Len(h) <= MaxHistory
         /\ \A i \in DOMAIN h : h[i] \in Actions /\ h[i] # {}
  BY DEF Histories

(* A choice of the actions of a history, in any order and none of them twice. *)
LEMMA Chosen ==
  ASSUME NEW h \in Histories, NEW n \in Nat, NEW s \in [1..n -> DOMAIN h],
         NEW c, c = [k \in DOMAIN s |-> h[s[k]]]
  PROVE  /\ c \in Seq(Actions) /\ Len(c) = n /\ DOMAIN c = 1..n
         /\ \A k \in 1..n : c[k] = h[s[k]] /\ c[k] \in Actions /\ c[k] # {}
  <1>1. \A k \in 1..n : h[s[k]] \in Actions /\ h[s[k]] # {}
    BY HistoryIs
  <1>2. DOMAIN s = 1..n
    OBVIOUS
  <1>3. c \in [1..n -> Actions]
    BY <1>1, <1>2
  <1> QED
    BY <1>1, <1>2, <1>3

LEMMA RemovedIs ==
  ASSUME NEW h \in Histories, NEW S \in SUBSET (DOMAIN h)
  PROVE  Removed(h, S) \in Histories /\ Len(Removed(h, S)) = Len(h) - Cardinality(S)
         /\ Cardinality(S) \in Nat
  <1> DEFINE N == Len(h)
             U == DOMAIN h \ S
             n == Cardinality(U)
             kept == Reverse(HighestFirst(U))
  <1>1. N \in Nat /\ DOMAIN h = 1..N /\ N <= MaxHistory /\ h \in Seq(Actions)
    BY HistoryIs
  <1>2. IsFiniteSet(1..N) /\ Cardinality(1..N) = N
    <2>1. PICK m \in Nat : m = N
      BY <1>1
    <2>2. IsFiniteSet(1..m) /\ Cardinality(1..m) = m
      BY FS_Interval
    <2> QED
      BY <2>1, <2>2
  <1>3. S \cap (1..N) = S
    BY <1>1
  <1>4. n = N - Cardinality((1..N) \cap S)
    BY <1>1, <1>2, FS_Difference
  <1>5. Cardinality((1..N) \cap S) = Cardinality(S)
    <2>1. (1..N) \cap S = S
      BY <1>1
    <2> QED
      BY <2>1
  <1>6. U \in SUBSET (1..N)
    BY <1>1
  <1>7. n \in Nat /\ HighestFirst(U) \in [1..n -> U] /\ HighestFirst(U) \in Seq(1..N) /\ Len(HighestFirst(U)) = n
    BY <1>1, <1>6, HighestFirstIs
  <1>8. kept \in Seq(1..N) /\ Len(kept) = n
    BY <1>7, ReverseIs
  <1> HIDE DEF kept, U, n
  <1>9. kept \in [1..n -> DOMAIN h]
    BY <1>1, <1>8
  <1>15. PICK m \in Nat : m = n
    BY <1>7
  <1>16. PICK g \in [1..m -> DOMAIN h] : g = kept
    BY <1>9, <1>15
  <1>14. PICK c : c = [k \in DOMAIN g |-> h[g[k]]]
    OBVIOUS
  <1>10. c \in Seq(Actions) /\ Len(c) = n /\ DOMAIN c = 1..n /\ \A k \in 1..n : c[k] # {}
    <2>1. /\ c \in Seq(Actions) /\ Len(c) = m /\ DOMAIN c = 1..m
          /\ \A k \in 1..m : c[k] = h[g[k]] /\ c[k] \in Actions /\ c[k] # {}
      BY <1>14, Chosen
    <2>2. c \in Seq(Actions) /\ Len(c) = m /\ DOMAIN c = 1..m /\ \A k \in 1..m : c[k] # {}
      BY <2>1
    <2> QED
      BY <2>2, <1>15
  <1>11. Removed(h, S) = c
    BY <1>14, <1>16 DEF Removed, kept, U
  <1>12. Cardinality(S) \in Nat
    <2>1. S \in SUBSET (1..N)
      BY <1>1
    <2> QED
      BY <1>1, <2>1, FiniteIndices
  <1>13. n <= MaxHistory
    BY <1>1, <1>4, <1>5, <1>12, TagUndoAssumption
  <1> QED
    BY <1>1, <1>4, <1>5, <1>10, <1>11, <1>12, <1>13 DEF Histories

LEMMA PickedIs ==
  ASSUME NEW h \in Histories, NEW S \in SUBSET (DOMAIN h), S # {}
  PROVE  /\ Picked(h, S) \in Seq(Actions) /\ Len(Picked(h, S)) = Cardinality(S) /\ Picked(h, S) # <<>>
         /\ \A k \in DOMAIN Picked(h, S) : Picked(h, S)[k] # {}
  <1> DEFINE s == HighestFirst(S)
             n == Cardinality(S)
  <1>1. DOMAIN h = 1..Len(h) /\ Len(h) \in Nat
    BY HistoryIs
  <1>2. n \in Nat /\ n # 0 /\ s \in [1..n -> S]
    BY <1>1, HighestFirstIs
  <1> HIDE DEF s, n
  <1>3. s \in [1..n -> DOMAIN h]
    BY <1>2
  <1>7. PICK m \in Nat : m = n
    BY <1>2
  <1>8. PICK g \in [1..m -> DOMAIN h] : g = s
    BY <1>3, <1>7
  <1>6. PICK c : c = [k \in DOMAIN g |-> h[g[k]]]
    OBVIOUS
  <1>4. /\ c \in Seq(Actions) /\ Len(c) = m /\ DOMAIN c = 1..m
        /\ \A k \in 1..m : c[k] = h[g[k]] /\ c[k] \in Actions /\ c[k] # {}
    BY <1>6, Chosen
  <1>5. Picked(h, S) = c
    BY <1>6, <1>8 DEF Picked, s
  <1> QED
    BY <1>2, <1>4, <1>5, <1>7 DEF n

LEMMA SnapshotsAre ==
  ASSUME NEW h \in Histories, NEW S \in SUBSET (DOMAIN h), S # {}
  PROVE  LET p == Snapshots(h, S)
         IN  p \in Seq(Histories) /\ p # <<>> /\ p[Len(p)] = Removed(h, S)
  <1> DEFINE s == HighestFirst(S)
             n == Cardinality(S)
             p == Snapshots(h, S)
  <1>1. DOMAIN h = 1..Len(h) /\ Len(h) \in Nat
    BY HistoryIs
  <1>2. n \in Nat /\ n # 0 /\ s \in [1..n -> S] /\ \A x \in S : \E i \in 1..n : s[i] = x
    BY <1>1, HighestFirstIs
  <1>3. p = [k \in DOMAIN s |-> Removed(h, {s[i] : i \in 1..k})]
    BY DEF Snapshots
  <1> HIDE DEF s, n, p
  <1>4. \A k \in 1..n : {s[i] : i \in 1..k} \in SUBSET (DOMAIN h)
    BY <1>2
  <1>5. \A k \in 1..n : Removed(h, {s[i] : i \in 1..k}) \in Histories
    BY <1>4, RemovedIs
  <1>6. p \in [1..n -> Histories]
    BY <1>2, <1>3, <1>5
  <1>7. {s[i] : i \in 1..n} = S
    BY <1>2
  <1>8. p[n] = Removed(h, S)
    <2>1. n \in DOMAIN s
      BY <1>2
    <2>2. p[n] = Removed(h, {s[i] : i \in 1..n})
      BY <1>3, <2>1
    <2> QED
      BY <1>7, <2>2
  <1>9. p \in Seq(Histories) /\ Len(p) = n
    BY <1>2, <1>6
  <1> QED
    BY <1>2, <1>8, <1>9 DEF p

LEMMA JoinedInOrder ==
  ASSUME NEW X, NEW r \in Seq(X), NEW v \in Seq(X), NEW h \in Seq(X), Len(h) = Len(r) + Len(v),
         \A i \in DOMAIN r : r[i] = h[i], \A i \in DOMAIN v : v[i] = h[Len(r) + i]
  PROVE  r \o v = h
  <1>1. r \o v \in Seq(X) /\ Len(r \o v) = Len(h)
    OBVIOUS
  <1>2. \A i \in 1..Len(h) : (r \o v)[i] = h[i]
    <2> SUFFICES ASSUME NEW i \in 1..Len(h)
                 PROVE  (r \o v)[i] = h[i]
      OBVIOUS
    <2>1. CASE i \in DOMAIN r
      BY <2>1
    <2>2. CASE i \notin DOMAIN r
      <3>1. i - Len(r) \in DOMAIN v /\ Len(r) + (i - Len(r)) = i
        BY <2>2
      <3> QED
        BY <2>2, <3>1
    <2> QED
      BY <2>1, <2>2
  <1> QED
    BY <1>1, <1>2

(* The newest actions, taken out and put back. *)
LEMMA PickedFromTheEnd ==
  ASSUME NEW h \in Histories, NEW S \in SUBSET (DOMAIN h), S # {},
         S = Len(h) - Cardinality(S) + 1 .. Len(h)
  PROVE  Removed(h, S) \o Reverse(Picked(h, S)) = h
  <1> DEFINE N == Len(h)
             n == Cardinality(S)
             a == N - n
             U == DOMAIN h \ S
             s == HighestFirst(S)
             u == HighestFirst(U)
             r == Removed(h, S)
             p == Picked(h, S)
  <1>1. N \in Nat /\ DOMAIN h = 1..N /\ h \in Seq(Actions)
    BY HistoryIs
  <1>2. r \in Seq(Actions) /\ Len(r) = a /\ n \in Nat /\ p \in Seq(Actions) /\ Len(p) = n
    BY RemovedIs, PickedIs DEF Histories
  <1>3. a \in Nat /\ a + n = N
    BY <1>1, <1>2
  <1>4. S = a + 1 .. a + n
    BY <1>1, <1>2, <1>3
  <1>5. U = 0 + 1 .. 0 + a
    BY <1>1, <1>3, <1>4
  <1>6. s \in [1..n -> S] /\ \A i \in 1..n : s[i] = (a + n + 1) - i
    <2>1. HighestFirst(a + 1 .. a + n) \in [1..n -> a + 1 .. a + n]
          /\ \A i \in 1..n : HighestFirst(a + 1 .. a + n)[i] = (a + n + 1) - i
      BY <1>2, <1>3, HighestFirstOfInterval
    <2> QED
      BY <2>1, <1>4
  <1>7. u \in [1..a -> U] /\ \A i \in 1..a : u[i] = (0 + a + 1) - i
    <2>1. PICK z \in Nat : z = 0
      OBVIOUS
    <2>2. HighestFirst(z + 1 .. z + a) \in [1..a -> z + 1 .. z + a]
          /\ \A i \in 1..a : HighestFirst(z + 1 .. z + a)[i] = (z + a + 1) - i
      BY <1>3, HighestFirstOfInterval
    <2> QED
      BY <2>1, <2>2, <1>5
  <1>8. r = [i \in DOMAIN Reverse(u) |-> h[Reverse(u)[i]]]
    BY DEF Removed
  <1>9. p = [k \in DOMAIN s |-> h[s[k]]]
    BY DEF Picked
  <1> HIDE DEF s, u, r, p, U, N, n, a
  <1>10. u \in Seq(U) /\ Len(u) = a /\ DOMAIN u = 1..a
    BY <1>3, <1>7
  <1>11. \A i \in 1..a : r[i] = h[i]
    <2> SUFFICES ASSUME NEW i \in 1..a
                 PROVE  r[i] = h[i]
      OBVIOUS
    <2>1. i \in DOMAIN Reverse(u) /\ Reverse(u)[i] = u[(a - i) + 1] /\ (a - i) + 1 \in 1..a
      BY <1>10, ReverseIs
    <2>2. u[(a - i) + 1] = i
      BY <2>1, <1>3, <1>7
    <2> QED
      BY <2>1, <2>2, <1>8
  <1>12. \A i \in 1..n : Reverse(p)[i] = h[a + i]
    <2> SUFFICES ASSUME NEW i \in 1..n
                 PROVE  Reverse(p)[i] = h[a + i]
      OBVIOUS
    <2>1. DOMAIN p = 1..n
      BY <1>2
    <2>2. Reverse(p)[i] = p[(n - i) + 1] /\ (n - i) + 1 \in 1..n
      BY <1>2, <2>1, ReverseIs
    <2>3. s[(n - i) + 1] = a + i
      BY <2>2, <1>2, <1>3, <1>6
    <2> QED
      BY <2>1, <2>2, <2>3, <1>6, <1>9
  <1>13. Reverse(p) \in Seq(Actions) /\ Len(Reverse(p)) = n
    BY <1>2, ReverseIs
  <1>14. PICK v \in Seq(Actions) : v = Reverse(p)
    BY <1>13
  <1>15. PICK e \in Seq(Actions) : e = r
    BY <1>2
  <1>16. Len(h) = Len(e) + Len(v) /\ Len(e) = a /\ Len(v) = n /\ DOMAIN e = 1..a /\ DOMAIN v = 1..n
    <2>1. Len(e) = a
      BY <1>2, <1>15
    <2>2. Len(v) = n
      BY <1>13, <1>14
    <2>3. Len(h) = N
      BY DEF N
    <2>4. Len(h) = Len(e) + Len(v)
      BY <2>1, <2>2, <2>3, <1>3
    <2>5. DOMAIN e = 1..Len(e) /\ DOMAIN v = 1..Len(v)
      OBVIOUS
    <2> QED
      BY <2>1, <2>2, <2>4, <2>5
  <1>17. \A i \in DOMAIN e : e[i] = h[i]
    BY <1>11, <1>15, <1>16
  <1>18. \A i \in DOMAIN v : v[i] = h[Len(e) + i]
    BY <1>12, <1>14, <1>16
  <1>19. e \o v = h
    <2>1. h \in Seq(Actions) /\ Len(h) = Len(e) + Len(v)
      BY <1>1, <1>16
    <2> QED
      BY <2>1, <1>17, <1>18, JoinedInOrder
  <1> QED
    BY <1>14, <1>15, <1>19 DEF r, p

(* What undoing a history says of one tag of one message *)
Untouched(h, m, t) == \A i \in DOMAIN h : ~About(h[i], m, t)
Regains(h, m, t) == \E i \in DOMAIN h : Adds(h[i], m, t) /\ \A j \in 1 .. i - 1 : ~About(h[j], m, t)
Undone(tg, h, m, t) == (t \in tg[m] /\ Untouched(h, m, t)) \/ Regains(h, m, t)

LEMMA UndoIs ==
  ASSUME NEW tg, NEW h
  PROVE  UndoAll(tg, h) \in TagSets
         /\ \A m \in Messages, t \in Tags : t \in UndoAll(tg, h)[m] <=> Undone(tg, h, m, t)
  BY DEF UndoAll, TagSets, Undone, Untouched, Regains

LEMMA AddsIsAbout ==
  ASSUME NEW a, NEW m, NEW t, Adds(a, m, t)
  PROVE  About(a, m, t)
  BY DEF Adds, About

LEMMA RegainsIsTouched ==
  ASSUME NEW h, NEW m, NEW t, Untouched(h, m, t)
  PROVE  ~Regains(h, m, t)
  BY AddsIsAbout DEF Untouched, Regains

LEMMA SameUndo ==
  ASSUME NEW tg, NEW h, NEW ug, NEW g, NEW m \in Messages,
         \A t \in Tags : Undone(tg, h, m, t) <=> Undone(ug, g, m, t)
  PROVE  UndoAll(tg, h)[m] = UndoAll(ug, g)[m]
  <1>1. UndoAll(tg, h)[m] \subseteq Tags /\ UndoAll(ug, g)[m] \subseteq Tags
    BY UndoIs DEF TagSets
  <1>2. \A t \in Tags : t \in UndoAll(tg, h)[m] <=> t \in UndoAll(ug, g)[m]
    BY UndoIs
  <1> QED
    BY <1>1, <1>2

(* Only the tags matter that no action is about. *)
LEMMA UndoAgrees ==
  ASSUME NEW tg, NEW ug, NEW h, NEW m \in Messages,
         \A t \in Tags : Untouched(h, m, t) => (t \in tg[m] <=> t \in ug[m])
  PROVE  UndoAll(tg, h)[m] = UndoAll(ug, h)[m]
  <1>1. \A t \in Tags : Undone(tg, h, m, t) <=> Undone(ug, h, m, t)
    BY DEF Undone
  <1> QED
    BY <1>1, SameUndo

LEMMA JoinIs ==
  ASSUME NEW h \in Seq(Actions), NEW g \in Seq(Actions)
  PROVE  /\ h \o g \in Seq(Actions) /\ Len(h \o g) = Len(h) + Len(g)
         /\ \A i \in DOMAIN h : i \in DOMAIN (h \o g) /\ (h \o g)[i] = h[i]
         /\ \A i \in DOMAIN g : Len(h) + i \in DOMAIN (h \o g) /\ (h \o g)[Len(h) + i] = g[i]
         /\ \A i \in DOMAIN (h \o g) : i \in DOMAIN h \/ (i - Len(h) \in DOMAIN g /\ Len(h) + (i - Len(h)) = i)
  OBVIOUS

LEMMA UntouchedJoin ==
  ASSUME NEW h \in Seq(Actions), NEW g \in Seq(Actions), NEW m, NEW t
  PROVE  Untouched(h \o g, m, t) <=> Untouched(h, m, t) /\ Untouched(g, m, t)
  <1>1. ASSUME Untouched(h \o g, m, t)
        PROVE  Untouched(h, m, t) /\ Untouched(g, m, t)
    <2>1. \A i \in DOMAIN h : ~About(h[i], m, t)
      BY <1>1, JoinIs DEF Untouched
    <2>2. ASSUME NEW i \in DOMAIN g
          PROVE  ~About(g[i], m, t)
      <3>1. Len(h) + i \in DOMAIN (h \o g) /\ (h \o g)[Len(h) + i] = g[i]
        BY JoinIs
      <3>2. ~About((h \o g)[Len(h) + i], m, t)
        BY <1>1, <3>1 DEF Untouched
      <3> QED
        BY <3>1, <3>2
    <2> QED
      BY <2>1, <2>2 DEF Untouched
  <1>2. ASSUME Untouched(h, m, t), Untouched(g, m, t)
        PROVE  Untouched(h \o g, m, t)
    <2> SUFFICES ASSUME NEW i \in DOMAIN (h \o g)
                 PROVE  ~About((h \o g)[i], m, t)
      BY DEF Untouched
    <2>1. CASE i \in DOMAIN h
      BY <2>1, <1>2, JoinIs DEF Untouched
    <2>2. CASE i \notin DOMAIN h
      <3>1. i - Len(h) \in DOMAIN g /\ Len(h) + (i - Len(h)) = i
        BY <2>2, JoinIs
      <3>2. (h \o g)[Len(h) + (i - Len(h))] = g[i - Len(h)]
        BY <3>1, JoinIs
      <3> QED
        BY <3>1, <3>2, <1>2 DEF Untouched
    <2> QED
      BY <2>1, <2>2
  <1> QED
    BY <1>1, <1>2

LEMMA RegainsJoin ==
  ASSUME NEW h \in Seq(Actions), NEW g \in Seq(Actions), NEW m, NEW t
  PROVE  Regains(h \o g, m, t) <=> Regains(h, m, t) \/ (Untouched(h, m, t) /\ Regains(g, m, t))
  <1>1. PICK k \in Seq(Actions) : k = h \o g
    BY JoinIs
  <1>2. /\ \A i \in DOMAIN h : i \in DOMAIN k /\ k[i] = h[i]
        /\ \A i \in DOMAIN g : Len(h) + i \in DOMAIN k /\ k[Len(h) + i] = g[i]
        /\ \A i \in DOMAIN k : i \in DOMAIN h \/ (i - Len(h) \in DOMAIN g /\ Len(h) + (i - Len(h)) = i)
    BY <1>1, JoinIs
  <1>3. ASSUME Regains(h, m, t)
        PROVE  Regains(k, m, t)
    <2>1. PICK i \in DOMAIN h : Adds(h[i], m, t) /\ \A j \in 1 .. i - 1 : ~About(h[j], m, t)
      BY <1>3 DEF Regains
    <2>2. \A j \in 1 .. i - 1 : j \in DOMAIN h
      OBVIOUS
    <2>3. \A j \in 1 .. i - 1 : ~About(k[j], m, t)
      BY <2>1, <2>2, <1>2
    <2> QED
      BY <2>1, <2>3, <1>2 DEF Regains
  <1>4. ASSUME Untouched(h, m, t), Regains(g, m, t)
        PROVE  Regains(k, m, t)
    <2>1. PICK i \in DOMAIN g : Adds(g[i], m, t) /\ \A j \in 1 .. i - 1 : ~About(g[j], m, t)
      BY <1>4 DEF Regains
    <2>2. ASSUME NEW j \in 1 .. (Len(h) + i) - 1
          PROVE  ~About(k[j], m, t)
      <3>1. CASE j \in DOMAIN h
        BY <3>1, <1>2, <1>4 DEF Untouched
      <3>2. CASE j \notin DOMAIN h
        <4>1. j - Len(h) \in 1 .. i - 1 /\ j - Len(h) \in DOMAIN g /\ Len(h) + (j - Len(h)) = j
          BY <3>2
        <4>2. k[Len(h) + (j - Len(h))] = g[j - Len(h)]
          BY <4>1, <1>2
        <4> QED
          BY <4>1, <4>2, <2>1
      <3> QED
        BY <3>1, <3>2
    <2>3. Len(h) + i \in DOMAIN k /\ Adds(k[Len(h) + i], m, t)
      BY <2>1, <1>2
    <2> QED
      BY <2>2, <2>3 DEF Regains
  <1>5. ASSUME Regains(k, m, t), ~Regains(h, m, t)
        PROVE  Untouched(h, m, t) /\ Regains(g, m, t)
    <2>1. PICK i \in DOMAIN k : Adds(k[i], m, t) /\ \A j \in 1 .. i - 1 : ~About(k[j], m, t)
      BY <1>5 DEF Regains
    <2>2. i \notin DOMAIN h
      <3> SUFFICES ASSUME i \in DOMAIN h
                   PROVE  FALSE
        OBVIOUS
      <3>1. \A j \in 1 .. i - 1 : j \in DOMAIN h
        OBVIOUS
      <3>2. \A j \in 1 .. i - 1 : ~About(h[j], m, t)
        BY <3>1, <2>1, <1>2
      <3>3. Adds(h[i], m, t)
        BY <2>1, <1>2
      <3> QED
        BY <3>2, <3>3, <1>5 DEF Regains
    <2>3. PICK e \in DOMAIN g : Len(h) + e = i /\ e = i - Len(h)
      BY <2>2, <1>2
    <2>4. Adds(g[e], m, t)
      BY <2>1, <2>3, <1>2
    <2>5. ASSUME NEW j \in 1 .. e - 1
          PROVE  ~About(g[j], m, t)
      <3>1. j \in DOMAIN g /\ Len(h) + j \in 1 .. i - 1
        BY <2>3
      <3> QED
        BY <3>1, <2>1, <1>2
    <2>6. Untouched(h, m, t)
      <3> SUFFICES ASSUME NEW j \in DOMAIN h
                   PROVE  ~About(h[j], m, t)
        BY DEF Untouched
      <3>1. j \in 1 .. i - 1
        BY <2>2
      <3> QED
        BY <3>1, <2>1, <1>2
    <2> QED
      BY <2>4, <2>5, <2>6 DEF Regains
  <1> QED
    BY <1>1, <1>3, <1>4, <1>5

(* The later actions are undone first. *)
LEMMA UndoOfJoin ==
  ASSUME NEW tg, NEW h \in Seq(Actions), NEW g \in Seq(Actions)
  PROVE  UndoAll(tg, h \o g) = UndoAll(UndoAll(tg, g), h)
  <1>1. ASSUME NEW m \in Messages, NEW t \in Tags
        PROVE  Undone(tg, h \o g, m, t) <=> Undone(UndoAll(tg, g), h, m, t)
    <2>1. t \in UndoAll(tg, g)[m] <=> Undone(tg, g, m, t)
      BY UndoIs
    <2> QED
      BY <2>1, UntouchedJoin, RegainsJoin DEF Undone
  <1>2. \A m \in Messages : UndoAll(tg, h \o g)[m] = UndoAll(UndoAll(tg, g), h)[m]
    BY <1>1, SameUndo
  <1>3. UndoAll(tg, h \o g) \in TagSets /\ UndoAll(UndoAll(tg, g), h) \in TagSets
    BY UndoIs
  <1> QED
    BY <1>2, <1>3 DEF TagSets

(* One action alone. *)
LEMMA UndoOfOne ==
  ASSUME NEW tg, NEW a, NEW m \in Messages, NEW t \in Tags
  PROVE  t \in UndoAll(tg, <<a>>)[m] <=> (t \in tg[m] /\ ~About(a, m, t)) \/ Adds(a, m, t)
  <1>1. Untouched(<<a>>, m, t) <=> ~About(a, m, t)
    BY DEF Untouched
  <1>2. Regains(<<a>>, m, t) <=> Adds(a, m, t)
    <2>1. ASSUME Adds(a, m, t)
          PROVE  Regains(<<a>>, m, t)
      <3>1. 1 \in DOMAIN <<a>> /\ <<a>>[1] = a /\ 1 .. 1 - 1 = {}
        OBVIOUS
      <3> QED
        BY <2>1, <3>1 DEF Regains
    <2>2. ASSUME Regains(<<a>>, m, t)
          PROVE  Adds(a, m, t)
      BY <2>2 DEF Regains
    <2> QED
      BY <2>1, <2>2
  <1> QED
    BY <1>1, <1>2, UndoIs DEF Undone

LEMMA UndoOfNothing ==
  ASSUME NEW tg \in TagSets
  PROVE  UndoAll(tg, <<>>) = tg /\ UndoAll(tg, <<{}>>) = tg
  <1>1. ASSUME NEW m \in Messages, NEW t \in Tags
        PROVE  /\ t \in UndoAll(tg, <<>>)[m] <=> t \in tg[m]
               /\ t \in UndoAll(tg, <<{}>>)[m] <=> t \in tg[m]
    <2>1. ~About({}, m, t) /\ ~Adds({}, m, t)
      BY DEF About, Adds
    <2>2. Untouched(<<>>, m, t) /\ ~Regains(<<>>, m, t)
      BY DEF Untouched, Regains
    <2>3. t \in UndoAll(tg, <<>>)[m] <=> t \in tg[m]
      BY <2>2, UndoIs DEF Undone
    <2>4. t \in UndoAll(tg, <<{}>>)[m] <=> t \in tg[m]
      BY <2>1, UndoOfOne
    <2> QED
      BY <2>3, <2>4
  <1>2. UndoAll(tg, <<>>) \in TagSets /\ UndoAll(tg, <<{}>>) \in TagSets
    BY UndoIs
  <1>3. \A m \in Messages : UndoAll(tg, <<>>)[m] = tg[m] /\ UndoAll(tg, <<{}>>)[m] = tg[m]
    BY <1>1, <1>2 DEF TagSets
  <1> QED
    BY <1>2, <1>3 DEF TagSets

(* What the newest actions left, if tags hold of each tag what the last action about it said. *)
LEMMA UndoSettled ==
  ASSUME NEW tg \in TagSets, NEW a \in Seq(Actions),
         \A m \in Messages, t \in Tags, i \in DOMAIN a :
           About(a[i], m, t) /\ (\A j \in i + 1 .. Len(a) : ~About(a[j], m, t))
             => (t \in tg[m] <=> Adds(a[i], m, t))
  PROVE  UndoAll(tg, Reverse(a)) = tg
  <1>1. PICK r \in Seq(Actions) : r = Reverse(a)
    BY ReverseIs
  <1>2. PICK n \in Nat : n = Len(a)
    OBVIOUS
  <1>3. DOMAIN a = 1..n /\ DOMAIN r = 1..n
    BY <1>1, <1>2, ReverseIs
  <1>4. \A i \in 1..n : (n - i) + 1 \in 1..n /\ r[i] = a[(n - i) + 1] /\ r[(n - i) + 1] = a[i]
    <2>1. \A i \in 1..n : r[i] = a[(n - i) + 1] /\ (n - i) + 1 \in 1..n
      BY <1>1, <1>2, <1>3, ReverseIs
    <2>2. \A i \in 1..n : (n - ((n - i) + 1)) + 1 = i
      OBVIOUS
    <2>3. \A i \in 1..n : r[(n - i) + 1] = a[i]
      BY <2>1, <2>2
    <2> QED
      BY <2>1, <2>3
  <1>5. ASSUME NEW m \in Messages, NEW t \in Tags, NEW i \in 1..n, About(r[i], m, t),
               \A j \in 1 .. i - 1 : ~About(r[j], m, t)
        PROVE  t \in tg[m] <=> Adds(r[i], m, t)
    <2>1. PICK e \in 1..n : e = (n - i) + 1
      BY <1>4
    <2>2. r[i] = a[e]
      BY <2>1, <1>4
    <2>3. ASSUME NEW j \in e + 1 .. n
          PROVE  ~About(a[j], m, t)
      <3>1. j \in 1..n /\ (n - j) + 1 \in 1 .. i - 1
        BY <2>1
      <3>2. a[j] = r[(n - j) + 1]
        BY <3>1, <1>4
      <3> QED
        BY <3>1, <3>2, <1>5
    <2> QED
      BY <2>2, <2>3, <1>2, <1>3, <1>5
  <1>6. ASSUME NEW m \in Messages, NEW t \in Tags
        PROVE  Undone(tg, r, m, t) <=> t \in tg[m]
    <2>1. CASE Untouched(r, m, t)
      BY <2>1, RegainsIsTouched DEF Undone
    <2>2. CASE ~Untouched(r, m, t)
      <3>1. PICK T : T = {i \in 1..n : About(r[i], m, t)}
        OBVIOUS
      <3>2. T \subseteq Nat /\ T # {}
        BY <2>2, <3>1, <1>3 DEF Untouched
      <3>3. PICK i \in T : \A j \in T : i <= j
        BY <3>2, SmallestOf
      <3>4. i \in 1..n /\ About(r[i], m, t)
        BY <3>1
      <3>5. \A j \in 1 .. i - 1 : ~About(r[j], m, t)
        <4> SUFFICES ASSUME NEW j \in 1 .. i - 1, About(r[j], m, t)
                     PROVE  FALSE
          OBVIOUS
        <4>1. j \in T
          BY <3>1, <3>4
        <4>2. i <= j
          BY <4>1, <3>3
        <4> QED
          BY <4>2, <3>4
      <3>6. t \in tg[m] <=> Adds(r[i], m, t)
        BY <3>4, <3>5, <1>5
      <3>7. Adds(r[i], m, t) => Regains(r, m, t)
        BY <3>4, <3>5, <1>3 DEF Regains
      <3>8. Regains(r, m, t) => t \in tg[m]
        <4> SUFFICES ASSUME Regains(r, m, t)
                     PROVE  t \in tg[m]
          OBVIOUS
        <4>1. PICK k \in 1..n : Adds(r[k], m, t) /\ \A j \in 1 .. k - 1 : ~About(r[j], m, t)
          BY <1>3 DEF Regains
        <4> QED
          BY <4>1, <1>5, AddsIsAbout
      <3> QED
        BY <2>2, <3>6, <3>7, <3>8 DEF Undone
    <2> QED
      BY <2>1, <2>2
  <1>7. UndoAll(tg, r) \in TagSets
    BY UndoIs
  <1>8. ASSUME NEW m \in Messages
        PROVE  UndoAll(tg, r)[m] = tg[m]
    <2>1. \A t \in Tags : t \in UndoAll(tg, r)[m] <=> t \in tg[m]
      BY <1>6, UndoIs
    <2>2. UndoAll(tg, r)[m] \subseteq Tags /\ tg[m] \subseteq Tags
      BY <1>7 DEF TagSets
    <2> QED
      BY <2>1, <2>2
  <1> QED
    BY <1>1, <1>7, <1>8 DEF TagSets

LEMMA MutationIs ==
  ASSUME NEW c \in Mutation
  PROVE  c.message \in Messages /\ c.add \in SUBSET Tags /\ c.remove \in SUBSET Tags
         /\ InverseOf(c) \in Mutation /\ InverseOf(c).message = c.message
         /\ InverseOf(c).add = c.remove /\ InverseOf(c).remove = c.add
  BY DEF Mutation, InverseOf

LEMMA InverseIs ==
  ASSUME NEW c \in SUBSET Mutation
  PROVE  /\ InverseTagMutations(c) \in SUBSET Mutation
         /\ One(c) => InverseTagMutations(c) \in Actions
         /\ \A m, t : Adds(InverseTagMutations(c), m, t) <=> \E d \in c : d.message = m /\ t \in d.remove
         /\ \A m, t : About(InverseTagMutations(c), m, t) <=> \E d \in c : d.message = m /\ t \in d.add \cup d.remove
         /\ c = {} => InverseTagMutations(c) = {}
  <1>1. PICK a : a = InverseTagMutations(c)
    OBVIOUS
  <1>2. a = {InverseOf(d) : d \in {d \in c : d.add # {} \/ d.remove # {}}}
    BY <1>1 DEF InverseTagMutations
  <1>3. a \in SUBSET Mutation
    BY <1>2, MutationIs
  <1>4. \A x \in a : \E d \in c : x = InverseOf(d) /\ x.message = d.message /\ x.add = d.remove /\ x.remove = d.add
    BY <1>2, MutationIs
  <1>5. \A d \in c : (d.add # {} \/ d.remove # {}) =>
          InverseOf(d) \in a /\ InverseOf(d).message = d.message /\ InverseOf(d).add = d.remove
          /\ InverseOf(d).remove = d.add
    BY <1>2, MutationIs
  <1>6. One(c) => One(a)
    <2> SUFFICES ASSUME One(c), NEW x \in a, NEW y \in a, x.message = y.message
                 PROVE  x = y
      BY DEF One
    <2>1. PICK d \in c : x = InverseOf(d) /\ x.message = d.message
      BY <1>4
    <2>2. PICK e \in c : y = InverseOf(e) /\ y.message = e.message
      BY <1>4
    <2>3. d = e
      BY <2>1, <2>2 DEF One
    <2> QED
      BY <2>1, <2>2, <2>3
  <1>7. ASSUME NEW m, NEW t
        PROVE  Adds(a, m, t) <=> \E d \in c : d.message = m /\ t \in d.remove
    <2>1. ASSUME Adds(a, m, t)
          PROVE  \E d \in c : d.message = m /\ t \in d.remove
      BY <2>1, <1>4 DEF Adds
    <2>2. ASSUME NEW d \in c, d.message = m, t \in d.remove
          PROVE  Adds(a, m, t)
      BY <2>2, <1>5 DEF Adds
    <2> QED
      BY <2>1, <2>2
  <1>8. ASSUME NEW m, NEW t
        PROVE  About(a, m, t) <=> \E d \in c : d.message = m /\ t \in d.add \cup d.remove
    <2>1. ASSUME About(a, m, t)
          PROVE  \E d \in c : d.message = m /\ t \in d.add \cup d.remove
      BY <2>1, <1>4 DEF About
    <2>2. ASSUME NEW d \in c, d.message = m, t \in d.add \cup d.remove
          PROVE  About(a, m, t)
      BY <2>2, <1>5 DEF About
    <2> QED
      BY <2>1, <2>2
  <1>9. c = {} => a = {}
    BY <1>2
  <1> QED
    BY <1>1, <1>3, <1>6, <1>7, <1>8, <1>9 DEF Actions

OwedOf(w, h) ==
  IF w.actions # <<>> THEN h \o Reverse(w.actions)
  ELSE IF InverseTagMutations(w.changes) = {} THEN h
  ELSE Append(h, InverseTagMutations(w.changes))

LEMMA OwedNow == Owed = OwedOf(worker, history) /\ Owed' = OwedOf(worker', history')
  BY DEF Owed, OwedOf

LEMMA OwedAtRest ==
  ASSUME NEW h
  PROVE  OwedOf(NoTagWork, h) = h
  <1>1. NoTagWork.actions = <<>> /\ NoTagWork.changes = {}
    BY DEF NoTagWork
  <1>2. InverseTagMutations(NoTagWork.changes) = {}
    BY <1>1, InverseIs
  <1> QED
    BY <1>1, <1>2 DEF OwedOf

LEMMA OwedTagging ==
  ASSUME NEW w \in TagWorkers, w.actions = <<>>, One(w.changes), NEW h \in Seq(Actions), NEW tg \in TagSets
  PROVE  UndoAll(tg, OwedOf(w, h)) = UndoAll(UndoAll(tg, <<InverseTagMutations(w.changes)>>), h)
         /\ OwedOf(w, h) \in Seq(Actions)
         /\ OwedOf(w, h) = IF InverseTagMutations(w.changes) = {} THEN h ELSE Append(h, InverseTagMutations(w.changes))
  <1>1. PICK a : a = InverseTagMutations(w.changes)
    OBVIOUS
  <1>2. w.changes \in SUBSET Mutation
    BY DEF TagWorkers
  <1>3. a \in Actions
    BY <1>1, <1>2, InverseIs
  <1>4. OwedOf(w, h) = IF a = {} THEN h ELSE Append(h, a)
    BY <1>1 DEF OwedOf
  <1>5. CASE a = {}
    <2>1. UndoAll(tg, <<a>>) = tg
      BY <1>5, UndoOfNothing
    <2> QED
      BY <1>1, <1>4, <1>5, <2>1
  <1>6. CASE a # {}
    <2>1. Append(h, a) = h \o <<a>> /\ Append(h, a) \in Seq(Actions) /\ <<a>> \in Seq(Actions)
      BY <1>3
    <2>2. UndoAll(tg, h \o <<a>>) = UndoAll(UndoAll(tg, <<a>>), h)
      BY <2>1, UndoOfJoin
    <2> QED
      BY <1>1, <1>4, <1>6, <2>1, <2>2
  <1> QED
    BY <1>5, <1>6

LEMMA OwedUndoing ==
  ASSUME NEW w \in TagWorkers, w.actions # <<>>, NEW h \in Seq(Actions)
  PROVE  OwedOf(w, h) = h \o Reverse(w.actions) /\ OwedOf(w, h) \in Seq(Actions)
         /\ Reverse(w.actions) \in Seq(Actions) /\ w.actions \in Seq(Actions)
         /\ Len(Reverse(w.actions)) = Len(w.actions) /\ Len(OwedOf(w, h)) = Len(h) + Len(w.actions)
  <1>1. w.actions \in Seq(Actions)
    BY DEF TagWorkers
  <1>2. PICK r \in Seq(Actions) : r = Reverse(w.actions) /\ Len(r) = Len(w.actions)
    BY <1>1, ReverseIs
  <1>3. OwedOf(w, h) = h \o r
    BY <1>2 DEF OwedOf
  <1>4. h \o r \in Seq(Actions) /\ Len(h \o r) = Len(h) + Len(r)
    OBVIOUS
  <1> QED
    BY <1>1, <1>2, <1>3, <1>4

LEMMA RestingWorker ==
  NoTagWork \in TagWorkers /\ NoTagWork.phase = "idle" /\ NoTagWork.actions = <<>> /\ NoTagWork.todo = <<>>
  /\ NoTagWork.changes = {} /\ NoTagWork.complete /\ Len(NoTagWork.actions) = 0
  <1>1. {} \in Actions
    BY DEF Actions, One
  <1>2. <<>> \in Seq(Actions) /\ <<>> \in TagSets \cup {<<>>}
    OBVIOUS
  <1> QED
    BY <1>1, <1>2 DEF NoTagWork, TagWorkers

LEMMA AtRest ==
  ASSUME worker' = NoTagWork, history' \in Histories
  PROVE  Tagging' /\ InTurn' /\ Progress' /\ Phases' /\ worker' \in TagWorkers
  <1>1. Len(history') <= MaxHistory /\ Len(history') \in Nat
    BY HistoryIs
  <1>2. worker'.phase = "idle" /\ worker'.actions = <<>> /\ worker'.changes = {} /\ Len(worker'.actions) = 0
    BY RestingWorker
  <1>3. ~Undoing'
    BY <1>2 DEF Undoing
  <1>4. Tagging'
    BY <1>2, <1>3 DEF Tagging, One
  <1>5. InTurn' /\ Progress'
    BY <1>3 DEF InTurn, Progress
  <1>6. Phases'
    BY <1>1, <1>2, <1>3 DEF Phases
  <1> QED
    BY <1>4, <1>5, <1>6, RestingWorker

(* At rest the history alone is what is owed. *)
LEMMA ExactAtRest ==
  ASSUME worker' = NoTagWork,
         \A m \in Messages \ doubtful' : UndoAll(tags', history')[m] = original'[m]
  PROVE  Exact'
  BY OwedNow, OwedAtRest DEF Exact

LEMMA RestIs ==
  ASSUME TagInv, worker.phase = "idle"
  PROVE  worker = NoTagWork /\ Owed = history
         /\ \A m \in Messages \ doubtful : UndoAll(tags, history)[m] = original[m]
  <1>1. worker = NoTagWork
    BY DEF TagInv, Phases
  <1>2. Owed = history
    BY <1>1, OwedNow, OwedAtRest
  <1> QED
    BY <1>1, <1>2 DEF TagInv, Exact

LEMMA InitTag ==
  ASSUME Init
  PROVE  TagInv
  <1>1. <<>> \in Histories /\ <<>> \in Seq(Histories)
    BY TagUndoAssumption DEF Histories
  <1>2. worker.phase = "idle" /\ worker.actions = <<>> /\ worker.changes = {} /\ Len(worker.actions) = 0
        /\ worker \in TagWorkers
    BY RestingWorker DEF Init
  <1>3. Typed
    BY <1>1, <1>2 DEF Init, Typed, TagSets
  <1>4. Saved
    BY DEF Init, Saved
  <1>5. ~Undoing
    BY <1>2 DEF Undoing
  <1>6. Phases
    BY <1>2, <1>5, TagUndoAssumption DEF Phases, Init
  <1>7. Tagging
    BY <1>2, <1>5 DEF Tagging, One
  <1>8. InTurn /\ Progress
    BY <1>5 DEF InTurn, Progress
  <1>9. Exact
    <2>1. Owed = <<>>
      BY OwedNow, OwedAtRest DEF Init
    <2>2. UndoAll(tags, <<>>) = tags
      BY <1>3, UndoOfNothing DEF Typed
    <2> QED
      BY <2>1, <2>2 DEF Exact, Init
  <1> QED
    BY <1>3, <1>4, <1>6, <1>7, <1>8, <1>9 DEF TagInv

(* Nothing longer than the history was is cut off. *)
LEMMA NewestIs ==
  ASSUME NEW h \in Seq(Actions), \A i \in DOMAIN h : h[i] # {}
  PROVE  /\ Newest(h) \in Histories
         /\ Len(h) <= MaxHistory => Newest(h) = h
         /\ Len(h) > MaxHistory => Newest(h) # <<>>
  <1>1. MaxHistory \in Nat \ {0} /\ Len(h) \in Nat
    BY TagUndoAssumption
  <1>2. CASE Len(h) <= MaxHistory
    BY <1>1, <1>2 DEF Newest, Histories
  <1>3. CASE Len(h) > MaxHistory
    <2>1. PICK k \in Nat : k = Len(h) - MaxHistory
      BY <1>1, <1>3
    <2>2. Newest(h) = SubSeq(h, k + 1, Len(h))
      BY <1>3, <2>1 DEF Newest
    <2>5. SubSeq(h, k + 1, Len(h)) \in Seq(Actions)
      BY <1>1, <1>3, <2>1
    <2>3. PICK s \in Seq(Actions) : s = SubSeq(h, k + 1, Len(h))
      BY <2>5
    <2>4. Len(s) = MaxHistory /\ \A i \in 1 .. MaxHistory : s[i] = h[k + i] /\ k + i \in DOMAIN h
      BY <1>1, <1>3, <2>1, <2>3
    <2>6. \A i \in DOMAIN s : s[i] # {}
      BY <2>4
    <2>7. s \in Histories
      BY <2>4, <2>6, <1>1 DEF Histories
    <2>8. s # <<>>
      BY <1>1, <2>4
    <2>9. Newest(h) = s
      BY <2>2, <2>3
    <2> QED
      BY <1>1, <1>3, <2>7, <2>8, <2>9
  <1> QED
    BY <1>1, <1>2, <1>3

LEMMA Lengthened ==
  ASSUME NEW q \in Seq(Histories), NEW h \in Histories
  PROVE  Append(q, h) \in Seq(Histories) /\ Append(q, h) # <<>> /\ Append(q, h)[Len(Append(q, h))] = h
         /\ q \o <<h>> = Append(q, h)
  <1>3. Append(q, h) \in Seq(Histories)
    OBVIOUS
  <1>1. PICK x \in Seq(Histories) : x = Append(q, h)
    BY <1>3
  <1>2. Len(x) = Len(q) + 1 /\ x[Len(q) + 1] = h
    BY <1>1
  <1>4. q \o <<h>> = Append(q, h)
    OBVIOUS
  <1>5. x # <<>>
    BY <1>2
  <1> QED
    BY <1>1, <1>2, <1>3, <1>4, <1>5

LEMMA LengthenedBy ==
  ASSUME NEW q \in Seq(Histories), NEW p \in Seq(Histories), p # <<>>
  PROVE  q \o p \in Seq(Histories) /\ q \o p # <<>> /\ (q \o p)[Len(q \o p)] = p[Len(p)]
  <1>1. Len(p) \in Nat /\ Len(p) # 0
    OBVIOUS
  <1>2. Len(q \o p) = Len(q) + Len(p) /\ q \o p \in Seq(Histories)
    OBVIOUS
  <1>3. (q \o p)[Len(q) + Len(p)] = p[Len(p)]
    BY <1>1
  <1> QED
    BY <1>1, <1>2, <1>3

(* What was picked, put back. *)
LEMMA PutBack ==
  ASSUME NEW h \in Histories, NEW a \in Seq(Actions), \A i \in DOMAIN a : a[i] # {}
  PROVE  /\ Restored(h, a) \in Histories
         /\ h \o Reverse(a) \in Seq(Actions) /\ Len(h \o Reverse(a)) = Len(h) + Len(a)
         /\ Len(h) + Len(a) <= MaxHistory => Restored(h, a) = h \o Reverse(a)
  <1>1. PICK r \in Seq(Actions) : r = Reverse(a) /\ Len(r) = Len(a) /\ DOMAIN r = DOMAIN a
                                  /\ \A i \in DOMAIN a : r[i] = a[(Len(a) - i) + 1] /\ (Len(a) - i) + 1 \in DOMAIN a
    BY ReverseIs
  <1>2. h \in Seq(Actions) /\ \A i \in DOMAIN h : h[i] # {}
    BY HistoryIs
  <1>7. h \o r \in Seq(Actions) /\ Len(h \o r) = Len(h) + Len(r)
    BY <1>2, JoinIs
  <1>3. PICK j \in Seq(Actions) : j = h \o r
    BY <1>7
  <1>4. Len(j) = Len(h) + Len(a)
    BY <1>1, <1>3, <1>7
  <1>5. ASSUME NEW i \in DOMAIN j
        PROVE  j[i] # {}
    <2>1. i \in DOMAIN h \/ (i - Len(h) \in DOMAIN r /\ Len(h) + (i - Len(h)) = i)
      BY <1>2, <1>3, JoinIs
    <2>2. CASE i \in DOMAIN h
      BY <2>2, <1>2, <1>3, JoinIs
    <2>3. CASE i - Len(h) \in DOMAIN r /\ Len(h) + (i - Len(h)) = i
      <3>1. j[Len(h) + (i - Len(h))] = r[i - Len(h)]
        BY <2>3, <1>2, <1>3, JoinIs
      <3>2. r[i - Len(h)] # {}
        BY <2>3, <1>1
      <3> QED
        BY <2>3, <3>1, <3>2
    <2> QED
      BY <2>1, <2>2, <2>3
  <1>6. Restored(h, a) = Newest(j)
    BY <1>1, <1>3 DEF Restored
  <1> QED
    BY <1>1, <1>3, <1>4, <1>5, <1>6, NewestIs

LEMMA UndoStartFailsKeeps ==
  ASSUME TagInv, NEW S \in Selections, UndoStartFails(S)
  PROVE  TagInv'
  <1>1. worker = NoTagWork /\ worker' = NoTagWork /\ window = "open"
        /\ \A m \in Messages \ doubtful : UndoAll(tags, history)[m] = original[m]
    BY RestIs DEF UndoStartFails, Step
  <1>2. PICK r : r = Removed(history, S)
    OBVIOUS
  <1>3. PICK a : a = Picked(history, S)
    OBVIOUS
  <1>4. S \in SUBSET (DOMAIN history) /\ S # {} /\ history \in Histories /\ queue \in Seq(Histories)
        /\ tags \in TagSets /\ original \in TagSets
    <2>1. S \in SUBSET (DOMAIN history) /\ S # {}
      BY DEF Selections
    <2>2. history \in Histories /\ queue \in Seq(Histories) /\ tags \in TagSets /\ original \in TagSets
      BY DEF TagInv, Typed
    <2> QED
      BY <2>1, <2>2
  <1>5. r \in Histories
    BY <1>2, <1>4, RemovedIs
  <1>6. a \in Seq(Actions) /\ \A i \in DOMAIN a : a[i] # {}
    BY <1>3, <1>4, PickedIs
  <1>7. history' = Restored(r, a) /\ history' \in Histories
    BY <1>2, <1>3, <1>5, <1>6, PutBack DEF UndoStartFails
  <1>8. PICK p \in Seq(Histories) : p = Snapshots(history, S) /\ p # <<>>
    BY <1>4, SnapshotsAre
  <1>9. PICK g \in Seq(Histories) : g = queue \o p
    BY <1>4, <1>8, LengthenedBy
  <1>10. queue' = g \o <<history'>>
    BY <1>8, <1>9 DEF UndoStartFails
  <1>11. queue' \in Seq(Histories) /\ queue' # <<>> /\ queue'[Len(queue')] = history'
    BY <1>7, <1>9, <1>10, Lengthened
  <1>12. original' = IF history' = history THEN original ELSE UndoAll(tags, history')
    BY DEF UndoStartFails
  <1>13. original' \in TagSets
    BY <1>4, <1>12, UndoIs
  <1>14. Tagging' /\ InTurn' /\ Progress' /\ Phases' /\ worker' \in TagWorkers
    BY <1>1, <1>7, AtRest
  <1>15. UNCHANGED <<tags, worker, status, file, window, unsaved, doubtful>> /\ operations' = operations + 1
    BY DEF UndoStartFails, Step
  <1>16. Typed'
    BY <1>7, <1>11, <1>13, <1>14, <1>15 DEF TagInv, Typed
  <1>17. Saved'
    BY <1>1, <1>11, <1>15 DEF Saved
  <1>18. Exact'
    <2>1. \A m \in Messages \ doubtful' : UndoAll(tags', history')[m] = original'[m]
      BY <1>1, <1>12, <1>15
    <2> QED
      BY <2>1, <1>1, ExactAtRest
  <1> QED
    BY <1>14, <1>16, <1>17, <1>18 DEF TagInv

LEMMA OtherProgramKeeps ==
  ASSUME TagInv, NEW n \in Messages, NEW u \in Tags, OtherProgram(n, u)
  PROVE  TagInv'
  <1> DEFINE Toggle(f) == [f EXCEPT ![n] = IF u \in f[n] THEN f[n] \ {u} ELSE f[n] \cup {u}]
  <1>1. worker = NoTagWork /\ worker' = NoTagWork
        /\ \A m \in Messages \ doubtful : UndoAll(tags, history)[m] = original[m]
    BY RestIs DEF OtherProgram, Step
  <1>2. tags \in TagSets /\ original \in TagSets /\ history \in Histories
    BY DEF TagInv, Typed
  <1>3. tags' = Toggle(tags) /\ original' = Toggle(original)
    BY DEF OtherProgram
  <1>4. UNCHANGED <<worker, status, history, queue, file, window, unsaved, doubtful>> /\ operations' = operations + 1
    BY DEF OtherProgram, Step
  <1>5. \A f \in TagSets :
           /\ Toggle(f) \in TagSets
           /\ \A m \in Messages : m # n => Toggle(f)[m] = f[m]
           /\ u \in Toggle(f)[n] <=> u \notin f[n]
           /\ \A t \in Tags : t # u => (t \in Toggle(f)[n] <=> t \in f[n])
    BY DEF TagSets
  <1> HIDE DEF Toggle
  <1>6. tags' \in TagSets /\ original' \in TagSets
    BY <1>2, <1>3, <1>5
  <1>7. Tagging' /\ InTurn' /\ Progress' /\ Phases' /\ worker' \in TagWorkers
    BY <1>1, <1>2, <1>4, AtRest
  <1>8. Typed'
    BY <1>4, <1>6, <1>7 DEF TagInv, Typed
  <1>9. Saved'
    BY <1>4 DEF TagInv, Saved
  <1>10. Untouched(history, n, u)
    BY DEF OtherProgram, Untouched, About
  <1>11. ASSUME NEW m \in Messages \ doubtful
         PROVE  UndoAll(tags', history)[m] = original'[m]
    <2>1. CASE m # n
      <3>1. tags'[m] = tags[m] /\ original'[m] = original[m]
        BY <2>1, <1>2, <1>3, <1>5
      <3>2. UndoAll(tags', history)[m] = UndoAll(tags, history)[m]
        BY <3>1, UndoAgrees
      <3> QED
        BY <3>1, <3>2, <1>1
    <2>2. CASE m = n
      <3>1. (u \in tags'[m] <=> u \notin tags[m]) /\ \A t \in Tags : t # u => (t \in tags'[m] <=> t \in tags[m])
        <4>1. (u \in Toggle(tags)[n] <=> u \notin tags[n])
              /\ \A t \in Tags : t # u => (t \in Toggle(tags)[n] <=> t \in tags[n])
          BY <1>2, <1>5
        <4>2. tags'[m] = Toggle(tags)[n] /\ tags[m] = tags[n]
          BY <2>2, <1>3
        <4> QED
          BY <4>1, <4>2
      <3>2. (u \in original'[m] <=> u \notin original[m]) /\ \A t \in Tags : t # u => (t \in original'[m] <=> t \in original[m])
        <4>1. (u \in Toggle(original)[n] <=> u \notin original[n])
              /\ \A t \in Tags : t # u => (t \in Toggle(original)[n] <=> t \in original[n])
          BY <1>2, <1>5
        <4>2. original'[m] = Toggle(original)[n] /\ original[m] = original[n]
          BY <2>2, <1>3
        <4> QED
          BY <4>1, <4>2
      <3>3. ~Regains(history, m, u)
        BY <1>10, <2>2, RegainsIsTouched
      <3>4. \A t \in Tags : t \in original[m] <=> Undone(tags, history, m, t)
        BY <1>1, UndoIs
      <3>5. ASSUME NEW t \in Tags
            PROVE  Undone(tags', history, m, t) <=> t \in original'[m]
        <4>1. CASE t = u
          BY <4>1, <3>1, <3>2, <3>3, <3>4, <1>10, <2>2 DEF Undone
        <4>2. CASE t # u
          <5>1. t \in tags'[m] <=> t \in tags[m]
            BY <4>2, <3>1
          <5>2. Undone(tags', history, m, t) <=> Undone(tags, history, m, t)
            BY <5>1 DEF Undone
          <5>3. t \in original'[m] <=> t \in original[m]
            BY <4>2, <3>2
          <5> QED
            BY <5>2, <5>3, <3>4
        <4> QED
          BY <4>1, <4>2
      <3>6. \A t \in Tags : t \in UndoAll(tags', history)[m] <=> t \in original'[m]
        BY <3>5, UndoIs
      <3>7. UndoAll(tags', history)[m] \subseteq Tags /\ original'[m] \subseteq Tags
        BY <1>6, UndoIs DEF TagSets
      <3> QED
        BY <3>6, <3>7
    <2> QED
      BY <2>1, <2>2
  <1>12. Exact'
    BY <1>1, <1>4, <1>11, ExactAtRest
  <1> QED
    BY <1>7, <1>8, <1>9, <1>12 DEF TagInv

LEMMA ReconciledKeeps ==
  ASSUME TagInv, Reconciled
  PROVE  TagInv'
  <1>1. worker = NoTagWork /\ worker' = NoTagWork /\ history' = history
        /\ \A m \in Messages \ doubtful : UndoAll(tags, history)[m] = original[m]
    BY RestIs DEF Reconciled
  <1>2. Typed'
    BY DEF TagInv, Typed, Reconciled
  <1>3. Tagging' /\ InTurn' /\ Progress' /\ Phases'
    BY <1>1, AtRest DEF TagInv, Typed
  <1>4. Exact'
    BY <1>1, ExactAtRest DEF Reconciled
  <1>5. Saved'
    BY DEF TagInv, Saved, Reconciled
  <1> QED
    BY <1>2, <1>3, <1>4, <1>5 DEF TagInv

LEMMA ClosingKeeps ==
  ASSUME TagInv, Close \/ Flushed
  PROVE  TagInv'
  <1>1. worker.phase = "idle"
    BY DEF TagInv, Phases, Close, Flushed
  <1>2. worker = NoTagWork /\ worker' = NoTagWork /\ history' = history
        /\ \A m \in Messages \ doubtful : UndoAll(tags, history)[m] = original[m]
    BY <1>1, RestIs DEF Close, Flushed
  <1>3. Typed'
    BY DEF TagInv, Typed, Close, Flushed
  <1>4. Tagging' /\ InTurn' /\ Progress' /\ Phases'
    BY <1>2, AtRest DEF TagInv, Typed
  <1>5. Exact'
    BY <1>2, ExactAtRest DEF Close, Flushed
  <1>6. Saved'
    BY DEF TagInv, Saved, Close, Flushed
  <1> QED
    BY <1>3, <1>4, <1>5, <1>6 DEF TagInv

LEMMA StartAgainKeeps ==
  ASSUME TagInv, StartAgain
  PROVE  TagInv'
  <1>1. worker.phase = "idle" /\ queue = <<>> /\ (file = history \/ unsaved)
    BY DEF TagInv, Phases, Saved, StartAgain
  <1>2. worker = NoTagWork /\ worker' = NoTagWork /\ history' = file /\ queue' = <<>> /\ file' = file
        /\ \A m \in Messages \ doubtful : UndoAll(tags, history)[m] = original[m]
    BY <1>1, RestIs DEF StartAgain, Restart
  <1>3. original' = IF unsaved THEN UndoAll(tags, file) ELSE original
    BY DEF StartAgain
  <1>4. file \in Histories /\ original' \in TagSets
    BY <1>3, UndoIs DEF TagInv, Typed
  <1>5. Tagging' /\ InTurn' /\ Progress' /\ Phases' /\ worker' \in TagWorkers
    BY <1>2, <1>4, AtRest
  <1>6. Typed'
    <2>1. tags' = tags /\ doubtful' = doubtful /\ status' = "ok" /\ window' = "open" /\ unsaved' = FALSE
          /\ operations' = operations + 1
      BY DEF StartAgain, Restart
    <2>2. <<>> \in Seq(Histories)
      OBVIOUS
    <2>3. operations' \in Nat /\ tags' \in TagSets /\ doubtful' \subseteq Messages
      BY <2>1 DEF TagInv, Typed
    <2>4. history' \in Histories /\ file' \in Histories /\ queue' \in Seq(Histories)
      BY <2>2, <1>2, <1>4
    <2> QED
      BY <2>1, <2>3, <2>4, <1>4, <1>5 DEF Typed
  <1>7. Saved'
    BY <1>2 DEF Saved, StartAgain, Restart
  <1>8. Exact'
    BY <1>1, <1>2, <1>3, ExactAtRest DEF StartAgain
  <1> QED
    BY <1>5, <1>6, <1>7, <1>8 DEF TagInv

LEMMA PersistSnapshotKeeps ==
  ASSUME TagInv, NEW ok \in BOOLEAN, PersistSnapshot(ok)
  PROVE  TagInv'
  <1>1. queue \in Seq(Histories) /\ queue # <<>> /\ queue' = Tail(queue) /\ queue[Len(queue)] = history
        /\ file' = (IF ok THEN Head(queue) ELSE file) /\ unsaved' = ~ok /\ window # "closed"
        /\ UNCHANGED <<tags, worker, status, history, window, operations, original, doubtful>>
    BY DEF TagInv, Typed, Saved, PersistSnapshot
  <1>2. Head(queue) \in Histories /\ Tail(queue) \in Seq(Histories)
    BY <1>1
  <1>3. Typed'
    BY <1>1, <1>2 DEF TagInv, Typed
  <1>4. Saved'
    <2>1. PICK n \in Nat : n = Len(queue) /\ n # 0
      BY <1>1
    <2>2. CASE n = 1
      <3>1. Head(queue) = history
        BY <1>1, <2>1, <2>2
      <3>2. Len(queue) = 1 /\ queue \in Seq(Histories)
        BY <1>1, <2>1, <2>2
      <3>5. PICK p \in Seq(Histories) : p = Tail(queue)
        BY <1>2
      <3>6. Len(p) = 0
        BY <3>2, <3>5
      <3>4. Tail(queue) = <<>>
        BY <3>5, <3>6
      <3>3. queue' = <<>>
        BY <1>1, <3>4
      <3> QED
        BY <1>1, <3>1, <3>3 DEF Saved
    <2>3. CASE n > 1
      <3>1. Len(Tail(queue)) = n - 1 /\ Tail(queue)[n - 1] = queue[n]
        BY <1>1, <2>1, <2>3
      <3>3. PICK p \in Seq(Histories) : p = Tail(queue)
        BY <1>2
      <3>4. Len(p) = n - 1 /\ p[n - 1] = history /\ n - 1 > 0
        BY <1>1, <2>1, <2>3, <3>1, <3>3
      <3>5. p # <<>> /\ p[Len(p)] = history
        BY <3>4
      <3>2. queue' # <<>> /\ queue'[Len(queue')] = history'
        BY <1>1, <3>3, <3>5
      <3> QED
        BY <1>1, <3>2 DEF Saved
    <2> QED
      BY <2>1, <2>2, <2>3
  <1>5. Tagging' /\ Phases'
    BY <1>1 DEF TagInv, Tagging, Phases, Undoing
  <1>6. InTurn' /\ Progress'
    BY <1>1 DEF TagInv, InTurn, Progress, Undoing, Settled, Part, Begun
  <1>7. Exact'
    <2>1. Owed' = Owed
      BY <1>1, OwedNow
    <2> QED
      BY <1>1, <2>1 DEF TagInv, Exact
  <1> QED
    BY <1>3, <1>4, <1>5, <1>6, <1>7 DEF TagInv

LEMMA WorkerIs ==
  ASSUME Typed
  PROVE  /\ worker \in TagWorkers /\ worker.actions \in Seq(Actions) /\ worker.todo \in Seq(Actions)
         /\ worker.batch \in Actions /\ worker.changes \in SUBSET Mutation
         /\ worker.phase \in {"idle", "running", "batch", "done"}
         /\ worker.complete \in BOOLEAN /\ worker.uncertain \in BOOLEAN
         /\ worker.before \in TagSets \cup {<<>>}
         /\ tags \in TagSets /\ original \in TagSets /\ history \in Histories /\ queue \in Seq(Histories)
         /\ file \in Histories /\ doubtful \subseteq Messages
         /\ history \in Seq(Actions)
  <1>1. worker \in TagWorkers
    BY DEF Typed
  <1>2. history \in Seq(Actions)
    BY HistoryIs DEF Typed
  <1> QED
    BY <1>1, <1>2 DEF Typed, TagWorkers

(* An undo that has done all it was to do: the tags are as its actions say. *)
LEMMA UndoDone ==
  ASSUME TagInv, Undoing, worker.complete, worker.phase = "done"
  PROVE  UndoAll(tags, Reverse(worker.actions)) = tags
  <1>1. PICK a \in Seq(Actions) : a = worker.actions
    BY WorkerIs DEF TagInv
  <1>2. DOMAIN a = 1 .. Len(a)
    OBVIOUS
  <1>3. \A i : Part(i) = a[i]
    BY <1>1 DEF Part
  <1>4. Settled(tags, Len(a))
    BY <1>1 DEF TagInv, Progress
  <1>5. \A m \in Messages, t \in Tags, i \in DOMAIN a :
           About(a[i], m, t) /\ (\A j \in i + 1 .. Len(a) : ~About(a[j], m, t))
             => (t \in tags[m] <=> Adds(a[i], m, t))
    BY <1>2, <1>3, <1>4 DEF Settled
  <1>6. tags \in TagSets
    BY DEF TagInv, Typed
  <1>7. UndoAll(tags, Reverse(a)) = tags
    BY <1>5, <1>6, UndoSettled
  <1> QED
    BY <1>1, <1>7

LEMMA FinishTagWorkerKeeps ==
  ASSUME TagInv, FinishTagWorker
  PROVE  TagInv'
  <1> DEFINE action == InverseTagMutations(worker.changes)
  <1>1. worker \in TagWorkers /\ worker.actions \in Seq(Actions) /\ worker.changes \in SUBSET Mutation
        /\ tags \in TagSets /\ original \in TagSets /\ history \in Histories /\ queue \in Seq(Histories)
        /\ history \in Seq(Actions)
    BY WorkerIs DEF TagInv
  <1>2. worker.phase = "done" /\ worker' = NoTagWork /\ window = "open"
        /\ UNCHANGED <<tags, file, window, operations, unsaved, doubtful>>
    BY DEF FinishTagWorker, TagInv, Phases
  <1>3. Len(history) + Len(worker.actions) <= MaxHistory
    BY DEF TagInv, Phases
  <1>4. original' = IF Len(Owed) > MaxHistory /\ worker.actions = <<>> THEN UndoAll(tags, history') ELSE original
    BY DEF FinishTagWorker
  <1>5. original' \in TagSets
    BY <1>1, <1>4, UndoIs
  <1>6. status' \in {"ok", "warning", "uncertain"}
    BY DEF FinishTagWorker
  <1>7. \A m \in Messages \ doubtful : UndoAll(tags, OwedOf(worker, history))[m] = original[m]
    BY OwedNow DEF TagInv, Exact
  <1>8. SUFFICES history' \in Histories
                 /\ ((history' = history /\ queue' = queue) \/ queue' = Append(queue, history'))
                 /\ \A m \in Messages \ doubtful : UndoAll(tags, history')[m] = original'[m]
    <2>1. ASSUME history' \in Histories,
                 (history' = history /\ queue' = queue) \/ queue' = Append(queue, history'),
                 \A m \in Messages \ doubtful : UndoAll(tags, history')[m] = original'[m]
          PROVE  TagInv'
      <3>1. Tagging' /\ InTurn' /\ Progress' /\ Phases' /\ worker' \in TagWorkers
        BY <1>2, <2>1, AtRest
      <3>2. queue' = Append(queue, history') => queue' \in Seq(Histories) /\ queue' # <<>> /\ queue'[Len(queue')] = history'
        BY <1>1, <2>1, Lengthened
      <3>3. queue' \in Seq(Histories)
        BY <1>1, <2>1, <3>2
      <3>4. Typed'
        BY <1>2, <1>5, <1>6, <2>1, <3>1, <3>3 DEF TagInv, Typed
      <3>5. Saved'
        BY <1>2, <2>1, <3>2 DEF TagInv, Saved
      <3>6. Exact'
        BY <1>2, <2>1, ExactAtRest
      <3> QED
        BY <3>1, <3>4, <3>5, <3>6 DEF TagInv
    <2> QED
      BY <2>1
  <1>9. CASE worker.actions # <<>>
    <2>1. original' = original
      BY <1>4, <1>9
    <2>2. OwedOf(worker, history) = history \o Reverse(worker.actions)
          /\ Reverse(worker.actions) \in Seq(Actions)
      BY <1>1, <1>9, OwedUndoing
    <2>3. CASE ~worker.complete
      <3>1. history' = Restored(history, worker.actions) /\ queue' = Append(queue, history')
        BY <1>9, <2>3 DEF FinishTagWorker
      <3>2. \A i \in DOMAIN worker.actions : worker.actions[i] # {}
        BY <1>9 DEF TagInv, Phases, Undoing
      <3>3. history' \in Histories /\ history' = history \o Reverse(worker.actions)
        BY <1>1, <1>3, <3>1, <3>2, PutBack
      <3> QED
        BY <1>7, <2>1, <2>2, <3>1, <3>3
    <2>4. CASE worker.complete
      <3>1. history' = history /\ queue' = queue
        BY <1>9, <2>4 DEF FinishTagWorker
      <3>2. UndoAll(tags, Reverse(worker.actions)) = tags
        BY <1>2, <1>9, <2>4, UndoDone DEF Undoing
      <3>3. UndoAll(tags, history \o Reverse(worker.actions)) = UndoAll(tags, history)
        BY <1>1, <2>2, <3>2, UndoOfJoin
      <3> QED
        BY <1>1, <1>7, <2>1, <2>2, <3>1, <3>3
    <2> QED
      BY <2>3, <2>4
  <1>10. CASE worker.actions = <<>>
    <2>1. One(worker.changes)
      BY <1>10 DEF TagInv, Tagging, Undoing
    <2>2. OwedOf(worker, history) = IF action = {} THEN history ELSE Append(history, action)
      BY <1>1, <1>10, <2>1, OwedTagging
    <2>3. action \in Actions
      BY <1>1, <2>1, InverseIs
    <2> HIDE DEF action
    <2>4. Owed = OwedOf(worker, history)
      BY OwedNow
    <2>5. CASE action = {}
      <3>1. history' = history /\ queue' = queue
        BY <1>10, <2>5 DEF FinishTagWorker, action
      <3>2. Owed = history /\ Len(history) <= MaxHistory /\ Len(history) \in Nat
        BY <1>1, <2>2, <2>4, <2>5, HistoryIs
      <3>3. original' = original
        <4>1. ~(Len(Owed) > MaxHistory)
          BY <3>2, TagUndoAssumption
        <4> QED
          BY <1>4, <4>1
      <3> QED
        BY <1>1, <1>7, <2>4, <3>1, <3>2, <3>3
    <2>6. CASE action # {}
      <3>1. history' = Newest(Append(history, action)) /\ queue' = Append(queue, history')
        BY <1>10, <2>6 DEF FinishTagWorker, action, Pushed
      <3>2. Append(history, action) \in Seq(Actions) /\ \A i \in DOMAIN Append(history, action) : Append(history, action)[i] # {}
        <4>1. \A i \in DOMAIN history : history[i] # {}
          BY <1>1, HistoryIs
        <4> QED
          BY <1>1, <2>3, <2>6, <4>1
      <3>3. history' \in Histories /\ (Len(Append(history, action)) <= MaxHistory => history' = Append(history, action))
        BY <3>1, <3>2, NewestIs
      <3>4. Owed = Append(history, action)
        BY <2>2, <2>4, <2>6
      <3>5. CASE Len(Owed) > MaxHistory
        <4>1. original' = UndoAll(tags, history')
          BY <1>4, <1>10, <3>5
        <4> QED
          BY <3>1, <3>3, <4>1
      <3>6. CASE ~(Len(Owed) > MaxHistory)
        <4>1. Len(Append(history, action)) \in Nat
          BY <3>2
        <4>2. Len(Append(history, action)) <= MaxHistory
          BY <3>4, <3>6, <4>1, TagUndoAssumption
        <4>3. history' = Owed /\ original' = original
          BY <3>3, <3>4, <4>2, <1>4, <3>6
        <4> QED
          BY <1>7, <2>4, <3>1, <3>3, <4>3
      <3> QED
        BY <3>5, <3>6
    <2> QED
      BY <2>5, <2>6
  <1> QED
    BY <1>9, <1>10

(* Where the section did not end, its tags are those from before; only tags the history owes differ. *)
LEMMA CrashOwes ==
  ASSUME TagInv, worker.phase = "batch", NEW m \in Messages \ doubtful
  PROVE  worker.before \in TagSets /\ UndoAll(worker.before, Owed)[m] = UndoAll(tags, Owed)[m]
  <1>1. worker \in TagWorkers /\ worker.actions \in Seq(Actions) /\ worker.changes \in SUBSET Mutation
        /\ tags \in TagSets /\ history \in Seq(Actions)
    BY WorkerIs DEF TagInv
  <1>2. worker.before \in TagSets
    BY DEF TagInv, Phases
  <1>3. Owed = OwedOf(worker, history)
    BY OwedNow
  <1>4. CASE Undoing
    <2>1. PICK r \in Seq(Actions) : r = Reverse(worker.actions) /\ DOMAIN r = DOMAIN worker.actions
                 /\ \A i \in DOMAIN worker.actions : r[i] = worker.actions[(Len(worker.actions) - i) + 1]
                                                     /\ (Len(worker.actions) - i) + 1 \in DOMAIN worker.actions
      BY <1>1, ReverseIs
    <2>2. PICK b : b = Begun
      OBVIOUS
    <2>3. b \in DOMAIN worker.actions
          /\ \A t \in Tags : ~About(worker.actions[b], m, t) => (t \in tags[m] <=> t \in worker.before[m])
      BY <1>4, <2>2 DEF TagInv, InTurn
    <2>4. Owed = history \o r
      BY <1>1, <1>3, <1>4, <2>1, OwedUndoing DEF Undoing
    <2>5. PICK e \in DOMAIN r : r[e] = worker.actions[b]
      <3>1. PICK e : e = (Len(worker.actions) - b) + 1
        OBVIOUS
      <3>2. e \in DOMAIN worker.actions /\ (Len(worker.actions) - e) + 1 = b
        BY <1>1, <2>3, <3>1
      <3> QED
        BY <2>1, <3>2
    <2>6. ASSUME NEW t \in Tags, Untouched(Owed, m, t)
          PROVE  t \in worker.before[m] <=> t \in tags[m]
      <3>1. Untouched(r, m, t)
        BY <1>1, <2>1, <2>4, <2>6, UntouchedJoin
      <3>2. ~About(worker.actions[b], m, t)
        BY <2>5, <3>1 DEF Untouched
      <3> QED
        BY <2>3, <3>2
    <2>7. UndoAll(worker.before, Owed)[m] = UndoAll(tags, Owed)[m]
      <3>1. m \in Messages /\ \A t \in Tags : Untouched(Owed, m, t) => (t \in worker.before[m] <=> t \in tags[m])
        BY <2>6
      <3>2. PICK o : o = Owed
        OBVIOUS
      <3>3. PICK f : f = worker.before
        OBVIOUS
      <3>4. \A t \in Tags : Untouched(o, m, t) => (t \in f[m] <=> t \in tags[m])
        BY <3>1, <3>2, <3>3
      <3>5. UndoAll(f, o)[m] = UndoAll(tags, o)[m]
        BY <3>1, <3>4, UndoAgrees
      <3> QED
        BY <3>2, <3>3, <3>5
    <2> QED
      BY <1>2, <2>7
  <1>5. CASE ~Undoing
    <2>1. worker.actions = <<>> /\ One(worker.changes)
          /\ (\A c \in worker.changes : c.message \notin doubtful =>
                 c = Changed(c.message, worker.before[c.message], tags[c.message]))
          /\ ((\A c \in worker.changes : c.message # m) => tags[m] = worker.before[m])
      BY <1>5 DEF TagInv, Tagging, Undoing
    <2>2. PICK a : a = InverseTagMutations(worker.changes)
      OBVIOUS
    <2>3. Owed = IF a = {} THEN history ELSE Append(history, a)
      BY <1>1, <1>3, <2>1, <2>2, OwedTagging
    <2>4. a \in Actions
      BY <1>1, <2>1, <2>2, InverseIs
    <2>5. ASSUME NEW t \in Tags, Untouched(Owed, m, t)
          PROVE  t \in worker.before[m] <=> t \in tags[m]
      <3>1. ~About(a, m, t)
        <4>1. CASE a = {}
          BY <4>1 DEF About
        <4>2. CASE a # {}
          <5>1. Owed = history \o <<a>> /\ <<a>> \in Seq(Actions)
            BY <1>1, <2>3, <2>4, <4>2
          <5>2. Untouched(<<a>>, m, t)
            BY <1>1, <2>5, <5>1, UntouchedJoin
          <5> QED
            BY <5>2 DEF Untouched
        <4> QED
          BY <4>1, <4>2
      <3>2. CASE \A c \in worker.changes : c.message # m
        BY <3>2, <2>1
      <3>3. CASE \E c \in worker.changes : c.message = m
        <4>1. PICK c \in worker.changes : c.message = m
          BY <3>3
        <4>2. c = Changed(m, worker.before[m], tags[m])
          BY <2>1, <4>1
        <4>3. c.add = tags[m] \ worker.before[m] /\ c.remove = worker.before[m] \ tags[m]
          BY <4>2 DEF Changed
        <4>4. t \notin c.add \cup c.remove
          BY <1>1, <2>2, <3>1, <4>1, InverseIs
        <4> QED
          BY <4>3, <4>4
      <3> QED
        BY <3>2, <3>3
    <2> QED
      BY <1>2, <2>5, UndoAgrees
  <1> QED
    BY <1>4, <1>5

LEMMA CrashKeeps ==
  ASSUME TagInv, Crash
  PROVE  TagInv'
  <1>1. tags \in TagSets /\ original \in TagSets /\ file \in Histories
    BY DEF TagInv, Typed
  <1>2. worker' = NoTagWork /\ status' = "ok" /\ history' = file /\ queue' = <<>> /\ window' = "open"
        /\ unsaved' = FALSE /\ operations' = operations + 1 /\ file' = file /\ doubtful' = doubtful
    BY DEF Crash, Restart
  <1>3. original' = IF file = Owed THEN original ELSE UndoAll(tags', file)
    BY DEF Crash
  <1>4. tags' \in TagSets /\ \A m \in Messages \ doubtful : UndoAll(tags', Owed)[m] = original[m]
    <2>1. CASE worker.phase = "batch"
      <3>1. tags' = worker.before
        BY <2>1 DEF Crash
      <3>2. worker.before \in TagSets
        BY <2>1 DEF TagInv, Phases
      <3>3. \A m \in Messages \ doubtful : UndoAll(tags', Owed)[m] = original[m]
        BY <2>1, <3>1, CrashOwes DEF TagInv, Exact
      <3> QED
        BY <3>1, <3>2, <3>3
    <2>2. CASE worker.phase # "batch"
      <3>1. tags' = tags
        BY <2>2 DEF Crash
      <3> QED
        BY <1>1, <3>1 DEF TagInv, Exact
    <2> QED
      BY <2>1, <2>2
  <1>5. original' \in TagSets /\ \A m \in Messages \ doubtful' : UndoAll(tags', history')[m] = original'[m]
    BY <1>1, <1>2, <1>3, <1>4, UndoIs
  <1>6. Tagging' /\ InTurn' /\ Progress' /\ Phases' /\ worker' \in TagWorkers
    BY <1>1, <1>2, AtRest
  <1>7. Typed'
    <2>1. operations' \in Nat /\ doubtful' \subseteq Messages
      BY <1>2 DEF TagInv, Typed
    <2>2. <<>> \in Seq(Histories)
      OBVIOUS
    <2>3. history' \in Histories /\ file' \in Histories /\ queue' \in Seq(Histories)
      BY <1>1, <1>2, <2>2
    <2> QED
      BY <2>1, <2>3, <1>2, <1>4, <1>5, <1>6 DEF Typed
  <1>8. Saved'
    BY <1>2 DEF Saved
  <1>9. Exact'
    BY <1>2, <1>5, ExactAtRest
  <1> QED
    BY <1>6, <1>7, <1>8, <1>9 DEF TagInv

LEMMA StartTagKeeps ==
  ASSUME TagInv, NEW ms \in SUBSET Messages, NEW add \in SUBSET Tags, NEW remove \in SUBSET Tags,
         StartTag(ms, add, remove)
  PROVE  TagInv'
  <1>1. worker = NoTagWork /\ window = "open" /\ \A m \in Messages \ doubtful : UndoAll(tags, history)[m] = original[m]
    BY RestIs DEF StartTag, Step
  <1>2. PICK a : a = {[message |-> m, add |-> add, remove |-> remove] : m \in ms}
    OBVIOUS
  <1>3. a \in Actions
    <2>1. a \in SUBSET Mutation
      BY <1>2 DEF Mutation
    <2>2. One(a)
      BY <1>2 DEF One
    <2> QED
      BY <2>1, <2>2 DEF Actions
  <1>4. worker' = [NoTagWork EXCEPT !.phase = "running", !.todo = <<a>>]
        /\ UNCHANGED <<tags, status, history, queue, file, window, unsaved, original, doubtful>>
        /\ operations' = operations + 1
    BY <1>2 DEF StartTag, Step
  <1>5. <<a>> \in Seq(Actions) /\ Len(<<a>>) = 1
    BY <1>3
  <1>6. /\ worker'.phase = "running" /\ worker'.todo = <<a>> /\ worker'.actions = <<>> /\ worker'.changes = {}
        /\ worker' \in TagWorkers
    BY <1>4, <1>5, RestingWorker DEF TagWorkers
  <1>7. Typed'
    BY <1>4, <1>6 DEF TagInv, Typed
  <1>8. Saved'
    BY <1>4 DEF TagInv, Saved
  <1>9. ~Undoing'
    BY <1>6 DEF Undoing
  <1>10. Phases'
    <2>1. Len(worker'.actions) = 0
      BY <1>6
    <2>2. history' \in Histories /\ Len(history') \in Nat /\ Len(history') <= MaxHistory
      BY <1>4, HistoryIs DEF TagInv, Typed
    <2>3. Len(history') + Len(worker'.actions) <= MaxHistory
      BY <2>1, <2>2
    <2> QED
      BY <1>1, <1>4, <1>6, <1>9, <2>3 DEF Phases
  <1>11. Tagging'
    BY <1>5, <1>6 DEF Tagging, One
  <1>12. InTurn' /\ Progress'
    BY <1>9 DEF InTurn, Progress
  <1>13. Exact'
    <2>1. InverseTagMutations(worker'.changes) = {}
      BY <1>6, InverseIs
    <2>2. Owed' = history
      BY <2>1, <1>4, <1>6, OwedNow DEF OwedOf
    <2> QED
      BY <1>1, <1>4, <2>2 DEF Exact
  <1> QED
    BY <1>7, <1>8, <1>10, <1>11, <1>12, <1>13 DEF TagInv

LEMMA UndoTagActionsKeeps ==
  ASSUME TagInv, NEW S \in Selections, UndoTagActions(S)
  PROVE  TagInv'
  <1>1. worker = NoTagWork /\ window = "open" /\ \A m \in Messages \ doubtful : UndoAll(tags, history)[m] = original[m]
    BY RestIs DEF UndoTagActions, Step
  <1>2. PICK r : r = Removed(history, S)
    OBVIOUS
  <1>3. PICK a : a = Picked(history, S)
    OBVIOUS
  <1>4. S \in SUBSET (DOMAIN history) /\ S # {} /\ history \in Histories /\ queue \in Seq(Histories)
        /\ tags \in TagSets /\ original \in TagSets
    <2>1. S \in SUBSET (DOMAIN history) /\ S # {}
      BY DEF Selections
    <2>2. history \in Histories /\ queue \in Seq(Histories) /\ tags \in TagSets /\ original \in TagSets
      BY DEF TagInv, Typed
    <2> QED
      BY <2>1, <2>2
  <1>5. r \in Histories /\ Len(r) = Len(history) - Cardinality(S) /\ Cardinality(S) \in Nat
        /\ Len(history) \in Nat /\ Len(history) <= MaxHistory
    BY <1>2, <1>4, RemovedIs, HistoryIs
  <1>6. a \in Seq(Actions) /\ Len(a) = Cardinality(S) /\ a # <<>> /\ \A i \in DOMAIN a : a[i] # {}
    BY <1>3, <1>4, PickedIs
  <1>7. history' = r /\ worker' = [NoTagWork EXCEPT !.phase = "running", !.actions = a, !.todo = a]
        /\ UNCHANGED <<tags, status, file, window, unsaved, doubtful>> /\ operations' = operations + 1
    BY <1>2, <1>3 DEF UndoTagActions, Step
  <1>8. queue' \in Seq(Histories) /\ queue' # <<>> /\ queue'[Len(queue')] = history'
    <2>1. PICK p \in Seq(Histories) : p = Snapshots(history, S) /\ p # <<>> /\ p[Len(p)] = r
      BY <1>2, <1>4, SnapshotsAre
    <2>2. queue' = queue \o p
      BY <2>1 DEF UndoTagActions
    <2> QED
      BY <1>4, <1>7, <2>1, <2>2, LengthenedBy
  <1>9. /\ worker'.phase = "running" /\ worker'.todo = a /\ worker'.actions = a
        /\ worker' \in TagWorkers
    BY <1>6, <1>7, RestingWorker DEF TagWorkers
  <1>10. original' = IF S = Len(history) - Cardinality(S) + 1 .. Len(history) THEN original
                     ELSE UndoAll(tags, r \o Reverse(a))
    BY <1>7, <1>9 DEF UndoTagActions
  <1>11. original' \in TagSets
    BY <1>4, <1>10, UndoIs
  <1>12. Typed'
    BY <1>5, <1>7, <1>8, <1>9, <1>11 DEF TagInv, Typed
  <1>13. Saved'
    BY <1>1, <1>7, <1>8 DEF Saved
  <1>14. Undoing'
    BY <1>6, <1>9 DEF Undoing
  <1>15. Phases'
    <2>1. Len(history') + Len(worker'.actions) <= MaxHistory
      <3>1. Len(history') = Len(r) /\ Len(worker'.actions) = Len(a)
        BY <1>7, <1>9
      <3>2. Len(r) + Len(a) = Len(history)
        BY <1>5, <1>6
      <3> QED
        BY <1>5, <3>1, <3>2
    <2>2. \A i \in DOMAIN worker'.actions : worker'.actions[i] # {}
      BY <1>6, <1>9
    <2> QED
      BY <1>1, <1>7, <1>9, <2>1, <2>2 DEF Phases
  <1>16. Tagging'
    BY <1>14 DEF Tagging
  <1>17. Begun' = 0
    BY <1>6, <1>9 DEF Begun
  <1>18. InTurn'
    <2>1. \A i \in DOMAIN a : i + 0 = i
      BY <1>6
    <2>2. \A i \in DOMAIN worker'.todo : worker'.todo[i] = worker'.actions[i + Begun']
      BY <1>9, <1>17, <2>1
    <2>3. Len(worker'.todo) <= Len(worker'.actions)
      BY <1>6, <1>9
    <2> QED
      BY <1>6, <1>9, <2>2, <2>3 DEF InTurn
  <1>19. Progress'
    BY <1>9, <1>17 DEF Progress, Settled
  <1>20. Exact'
    <2>1. Owed' = r \o Reverse(a)
      BY <1>6, <1>7, <1>9, OwedNow DEF OwedOf
    <2>2. CASE S = Len(history) - Cardinality(S) + 1 .. Len(history)
      <3>1. r \o Reverse(a) = history
        BY <1>2, <1>3, <1>4, <2>2, PickedFromTheEnd
      <3> QED
        BY <1>1, <1>7, <1>10, <2>1, <2>2, <3>1 DEF Exact
    <2>3. CASE S # Len(history) - Cardinality(S) + 1 .. Len(history)
      BY <1>7, <1>10, <2>1, <2>3 DEF Exact
    <2> QED
      BY <2>2, <2>3
  <1> QED
    BY <1>12, <1>13, <1>15, <1>16, <1>18, <1>19, <1>20 DEF TagInv

(* What a step of the worker leaves alone. *)
LEMMA WorkerSteps ==
  ASSUME TagInv, WorkerOnly, worker' \in TagWorkers, tags' \in TagSets, doubtful' \subseteq Messages,
         worker.phase # "idle", worker'.phase # "idle", worker'.actions = worker.actions,
         worker'.phase = "batch" => worker'.before \in TagSets
  PROVE  Typed' /\ Saved' /\ Phases' /\ (Undoing' <=> Undoing)
  <1>1. UNCHANGED <<status, history, queue, file, window, operations, unsaved, original>>
    BY DEF WorkerOnly
  <1>2. Typed'
    BY <1>1 DEF TagInv, Typed
  <1>3. Saved'
    BY <1>1 DEF TagInv, Saved
  <1>4. Undoing' <=> Undoing
    BY DEF Undoing
  <1>5. Phases'
    BY <1>1, <1>4 DEF TagInv, Phases
  <1> QED
    BY <1>2, <1>3, <1>4, <1>5

LEMMA BatchBeginsKeeps ==
  ASSUME TagInv, BatchBegins
  PROVE  TagInv'
  <1>1. worker \in TagWorkers /\ worker.actions \in Seq(Actions) /\ worker.todo \in Seq(Actions)
        /\ tags \in TagSets /\ worker.phase = "running"
    BY WorkerIs DEF TagInv, BatchBegins
  <1>2. worker' = [worker EXCEPT !.phase = "batch", !.todo = Tail(worker.todo),
                                 !.batch = Head(worker.todo), !.before = tags]
        /\ UNCHANGED <<tags, doubtful>> /\ WorkerOnly
    BY DEF BatchBegins
  <1>3. worker.todo # <<>>
    <2>1. CASE Undoing
      BY <1>1, <2>1 DEF TagInv, InTurn
    <2>2. CASE ~Undoing
      <3>1. Len(worker.todo) = 1
        BY <1>1, <2>2 DEF TagInv, Tagging
      <3>2. Len(<<>>) = 0
        OBVIOUS
      <3> QED
        BY <3>1, <3>2
    <2> QED
      BY <2>1, <2>2
  <1>4. PICK n \in Nat : n = Len(worker.todo) /\ n # 0
    BY <1>1, <1>3
  <1>5. PICK rest \in Seq(Actions) : rest = Tail(worker.todo) /\ Len(rest) = n - 1
                                     /\ \A i \in 1 .. n - 1 : rest[i] = worker.todo[i + 1]
    <2>1. Tail(worker.todo) \in Seq(Actions)
      BY <1>1, <1>3
    <2>2. PICK s \in Seq(Actions) : s = worker.todo
      BY <1>1
    <2>3. Len(Tail(s)) = n - 1 /\ \A i \in 1 .. n - 1 : Tail(s)[i] = s[i + 1]
      BY <1>4, <2>2
    <2> QED
      BY <2>1, <2>2, <2>3
  <1>6. PICK first \in Actions : first = Head(worker.todo) /\ first = worker.todo[1]
    BY <1>1, <1>3
  <1>7. /\ worker'.phase = "batch" /\ worker'.todo = rest /\ worker'.batch = first /\ worker'.before = tags
        /\ worker'.actions = worker.actions /\ worker'.changes = worker.changes /\ worker'.complete = worker.complete
        /\ worker' \in TagWorkers
    BY <1>1, <1>2, <1>5, <1>6 DEF TagWorkers
  <1>8. Typed' /\ Saved' /\ Phases' /\ (Undoing' <=> Undoing)
    <2>1. tags' \in TagSets /\ doubtful' \subseteq Messages
      BY <1>1, <1>2 DEF TagInv, Typed
    <2> QED
      BY <1>1, <1>2, <1>7, <2>1, WorkerSteps
  <1>9. Exact'
    <2>1. Owed' = Owed
      BY <1>2, <1>7, OwedNow DEF OwedOf, WorkerOnly
    <2> QED
      BY <1>2, <2>1 DEF TagInv, Exact, WorkerOnly
  <1>10. CASE ~Undoing
    <2>1. Len(worker.todo) = 1 /\ worker.changes = {}
      BY <1>1, <1>10 DEF TagInv, Tagging
    <2>2. rest = <<>>
      BY <1>4, <1>5, <2>1
    <2>3. Tagging'
      BY <1>2, <1>7, <2>1, <2>2 DEF Tagging, One
    <2>4. InTurn' /\ Progress'
      BY <1>8, <1>10 DEF InTurn, Progress
    <2> QED
      BY <1>8, <1>9, <2>3, <2>4 DEF TagInv
  <1>11. CASE Undoing
    <2>1. Tagging'
      BY <1>8, <1>11 DEF Tagging
    <2>2. PICK k \in Nat : k = Len(worker.actions)
      BY <1>1
    <2>9. n <= k /\ \A i \in 1 .. n : worker.todo[i] = worker.actions[i + (k - n)]
      <3>1. DOMAIN worker.todo = 1 .. n
        BY <1>1, <1>4
      <3> QED
        BY <1>1, <1>4, <1>11, <2>2, <3>1 DEF TagInv, InTurn, Begun
    <2>11. n <= k
      BY <2>9
    <2>12. k - n \in Nat /\ (k - n) + n = k
      BY <1>4, <2>2, <2>11
    <2>10. PICK b \in Nat : b = k - n /\ b + n = k
      BY <2>12
    <2>3. n <= k /\ \A i \in 1 .. n : worker.todo[i] = worker.actions[i + b]
      BY <2>9, <2>10
    <2>4. Begun = b /\ Begun' = b + 1
      <3>1. Begun = b
        BY <1>4, <2>2, <2>10 DEF Begun
      <3>2. Len(worker'.actions) = k /\ Len(worker'.todo) = n - 1
        BY <1>5, <1>7, <2>2
      <3>3. Begun' = k - (n - 1)
        BY <3>2 DEF Begun
      <3>4. k - (n - 1) = b + 1
        BY <1>4, <2>10
      <3> QED
        BY <3>1, <3>3, <3>4
    <2>5. DOMAIN worker.actions = 1 .. k
      BY <1>1, <2>2
    <2>6. b + 1 \in 1 .. k /\ first = worker.actions[b + 1]
      <3>1. worker.todo[1] = worker.actions[1 + b]
        BY <1>4, <2>3
      <3>2. 1 + b = b + 1 /\ b + 1 \in 1 .. k
        BY <1>4, <2>10
      <3> QED
        BY <1>6, <3>1, <3>2
    <2>7. InTurn'
      <3>1. Len(worker'.todo) <= Len(worker'.actions)
        BY <1>4, <1>5, <1>7, <2>2, <2>3
      <3>2. ASSUME NEW i \in DOMAIN worker'.todo
            PROVE  worker'.todo[i] = worker'.actions[i + Begun']
        <4>1. i \in 1 .. n - 1 /\ i + 1 \in 1 .. n /\ (i + 1) + b = i + (b + 1)
          <5>1. Len(worker'.todo) = n - 1 /\ DOMAIN worker'.todo = 1 .. n - 1
            BY <1>5, <1>7
          <5>2. i \in 1 .. n - 1
            BY <5>1
          <5>3. i \in Nat /\ i + 1 \in 1 .. n
            BY <1>4, <5>2
          <5>4. (i + 1) + b = i + (b + 1)
            BY <2>10, <5>3
          <5> QED
            BY <5>2, <5>3, <5>4
        <4>2. rest[i] = worker.todo[i + 1] /\ worker.todo[i + 1] = worker.actions[(i + 1) + b]
          BY <1>5, <2>3, <4>1
        <4> QED
          BY <1>7, <2>4, <4>1, <4>2
      <3>3. Begun' \in DOMAIN worker'.actions /\ worker'.batch \subseteq worker'.actions[Begun']
        BY <1>7, <2>4, <2>5, <2>6
      <3>4. \A m \in Messages, t \in Tags : t \in tags'[m] <=> t \in worker'.before[m]
        BY <1>2, <1>7
      <3> QED
        BY <1>7, <3>1, <3>2, <3>3, <3>4 DEF InTurn
    <2>8. Progress'
      <3> SUFFICES ASSUME worker'.complete
                   PROVE  Settled(tags, Begun)'
        BY <1>7 DEF Progress
      <3>1. Settled(tags, b)
        BY <1>1, <1>7, <1>11, <2>4 DEF TagInv, Progress
      <3>2. \A i \in 1 .. b : Part(i) = worker.actions[i] /\ Part(i)' = worker.actions[i]
        BY <1>1, <1>4, <1>7, <2>2, <2>4, <2>10 DEF Part
      <3>3. Part(b + 1)' = {}
        BY <1>7, <2>4, <2>6 DEF Part
      <3>4. ASSUME NEW m \in Messages, NEW t \in Tags, NEW i \in 1 .. b + 1, About(Part(i)', m, t),
                   \A j \in i + 1 .. b + 1 : ~About(Part(j)', m, t)
            PROVE  t \in tags[m] <=> Adds(Part(i)', m, t)
        <4>1. i # b + 1
          <5>1. ~About({}, m, t)
            BY DEF About
          <5> QED
            BY <3>3, <3>4, <5>1
        <4>2. i \in 1 .. b
          BY <2>10, <4>1
        <4>3. \A j \in i + 1 .. b : ~About(Part(j), m, t)
          <5> SUFFICES ASSUME NEW j \in i + 1 .. b
                       PROVE  ~About(Part(j), m, t)
            OBVIOUS
          <5>1. j \in i + 1 .. b + 1 /\ j \in 1 .. b
            BY <4>2
          <5> QED
            BY <3>2, <3>4, <5>1
        <4> QED
          BY <3>1, <3>2, <3>4, <4>2, <4>3 DEF Settled
      <3> QED
        BY <1>2, <2>4, <3>4 DEF Settled
    <2> QED
      BY <1>8, <1>9, <2>1, <2>7, <2>8 DEF TagInv
  <1> QED
    BY <1>10, <1>11

(* A worker that stops: nothing is said any more of what it was to do. *)
LEMMA StoppedKeeps ==
  ASSUME TagInv, WorkerOnly, worker.phase # "idle", doubtful' \subseteq Messages, tags' \in TagSets,
         NEW u \in BOOLEAN,
         worker' = [worker EXCEPT !.phase = "done", !.complete = FALSE, !.uncertain = u],
         doubtful \subseteq doubtful', \A m \in Messages \ doubtful' : tags'[m] = tags[m]
  PROVE  TagInv'
  <1>1. worker \in TagWorkers /\ history \in Seq(Actions)
    BY WorkerIs DEF TagInv
  <1>2. /\ worker'.phase = "done" /\ worker'.actions = worker.actions /\ worker'.changes = worker.changes
        /\ worker'.complete = FALSE /\ worker' \in TagWorkers
    BY <1>1 DEF TagWorkers
  <1>3. Typed' /\ Saved' /\ Phases' /\ (Undoing' <=> Undoing)
    BY <1>2, WorkerSteps
  <1>4. Tagging'
    BY <1>2, <1>3 DEF TagInv, Tagging
  <1>5. InTurn' /\ Progress'
    BY <1>2 DEF InTurn, Progress
  <1>6. Exact'
    <2>1. Owed' = Owed
      BY <1>2, OwedNow DEF OwedOf, WorkerOnly
    <2>2. PICK o : o = Owed
      OBVIOUS
    <2>3. ASSUME NEW m \in Messages \ doubtful'
          PROVE  UndoAll(tags', o)[m] = original[m]
      <3>1. \A t \in Tags : t \in tags'[m] <=> t \in tags[m]
        BY <2>3
      <3>2. UndoAll(tags', o)[m] = UndoAll(tags, o)[m]
        BY <3>1, UndoAgrees
      <3> QED
        BY <2>2, <3>2 DEF TagInv, Exact
    <2> QED
      BY <2>1, <2>2, <2>3 DEF Exact, WorkerOnly
  <1> QED
    BY <1>3, <1>4, <1>5, <1>6 DEF TagInv

LEMMA WorkerFailsKeeps ==
  ASSUME TagInv, NEW u \in BOOLEAN, WorkerFails(u)
  PROVE  TagInv'
  <1>1. UNCHANGED <<tags, doubtful>> /\ WorkerOnly /\ worker.phase # "idle"
        /\ worker' = [worker EXCEPT !.phase = "done", !.complete = FALSE, !.uncertain = u]
    BY DEF WorkerFails
  <1>2. doubtful' \subseteq Messages /\ tags' \in TagSets
    BY <1>1 DEF TagInv, Typed
  <1> QED
    BY <1>1, <1>2, StoppedKeeps

LEMMA CommitFailsKeeps ==
  ASSUME TagInv, CommitFails
  PROVE  TagInv'
  <1>1. WorkerOnly /\ worker.phase = "batch"
        /\ worker' = [worker EXCEPT !.phase = "done", !.complete = FALSE, !.uncertain = TRUE]
    BY DEF CommitFails
  <1>2. tags' \in TagSets
    BY <1>1 DEF CommitFails, TagInv, Typed, Phases
  <1>3. doubtful' = doubtful \cup {m \in Messages : tags'[m] # tags[m]}
    BY DEF CommitFails
  <1>4. doubtful' \subseteq Messages
    BY <1>3 DEF TagInv, Typed
  <1>5. doubtful \subseteq doubtful' /\ \A m \in Messages \ doubtful' : tags'[m] = tags[m]
    BY <1>3
  <1> QED
    BY <1>1, <1>2, <1>4, <1>5, StoppedKeeps

LEMMA BatchEndsKeeps ==
  ASSUME TagInv, BatchEnds
  PROVE  TagInv'
  <1>1. worker \in TagWorkers /\ worker.actions \in Seq(Actions) /\ worker.todo \in Seq(Actions)
        /\ tags \in TagSets /\ worker.phase = "batch" /\ worker.batch = {} /\ UNCHANGED <<tags, doubtful>> /\ WorkerOnly
    BY WorkerIs DEF TagInv, BatchEnds
  <1>2. PICK p \in {"running", "done"} : p = IF worker.complete /\ worker.todo # <<>> THEN "running" ELSE "done"
    OBVIOUS
  <1>3. worker' = [worker EXCEPT !.phase = p]
    BY <1>2 DEF BatchEnds
  <1>4. /\ worker'.phase = p /\ worker'.actions = worker.actions /\ worker'.todo = worker.todo
        /\ worker'.changes = worker.changes /\ worker'.complete = worker.complete /\ worker' \in TagWorkers
    BY <1>1, <1>3 DEF TagWorkers
  <1>5. Typed' /\ Saved' /\ Phases' /\ (Undoing' <=> Undoing)
    <2>1. tags' \in TagSets /\ doubtful' \subseteq Messages
      BY <1>1 DEF TagInv, Typed
    <2> QED
      BY <1>1, <1>4, <2>1, WorkerSteps
  <1>6. Exact'
    <2>1. Owed' = Owed
      BY <1>1, <1>4, OwedNow DEF OwedOf, WorkerOnly
    <2> QED
      BY <1>1, <2>1 DEF TagInv, Exact, WorkerOnly
  <1>7. CASE ~Undoing
    <2>1. worker.todo = <<>> /\ One(worker.changes)
      BY <1>1, <1>7 DEF TagInv, Tagging
    <2>2. p = "done"
      BY <1>2, <2>1
    <2>3. Tagging'
      BY <1>4, <2>1, <2>2 DEF Tagging
    <2>4. InTurn' /\ Progress'
      BY <1>5, <1>7 DEF InTurn, Progress
    <2> QED
      BY <1>5, <1>6, <2>3, <2>4 DEF TagInv
  <1>8. CASE Undoing
    <2>1. Tagging'
      BY <1>5, <1>8 DEF Tagging
    <2>2. Begun' = Begun
      BY <1>4 DEF Begun
    <2>3. InTurn'
      <3>1. Len(worker.todo) <= Len(worker.actions)
            /\ \A i \in DOMAIN worker.todo : worker.todo[i] = worker.actions[i + Begun]
        BY <1>1, <1>8 DEF TagInv, InTurn
      <3>2. \A i \in DOMAIN worker'.todo : worker'.todo[i] = worker'.actions[i + Begun']
        BY <1>4, <2>2, <3>1
      <3>3. worker'.phase = "running" => worker'.todo # <<>>
        BY <1>2, <1>4
      <3> QED
        BY <1>4, <3>1, <3>2, <3>3 DEF InTurn
    <2>4. \A i : Part(i) = worker.actions[i] /\ Part(i)' = worker.actions[i]
      BY <1>1, <1>2, <1>4 DEF Part
    <2>5. Progress'
      <3> SUFFICES ASSUME worker'.complete
                   PROVE  /\ worker'.phase = "running" => Settled(tags, Begun)'
                          /\ worker'.phase = "done" => Settled(tags, Len(worker.actions))'
        BY <1>2, <1>4 DEF Progress
      <3>1. Settled(tags, Begun)
        BY <1>1, <1>4, <1>8 DEF TagInv, Progress
      <3>2. Settled(tags, Begun)'
        BY <1>1, <2>2, <2>4, <3>1 DEF Settled
      <3>3. ASSUME worker'.phase = "done"
            PROVE  Settled(tags, Len(worker.actions))'
        <4>1. worker.todo = <<>>
          BY <1>2, <1>4, <3>3
        <4>2. Begun = Len(worker.actions) /\ Len(worker'.actions) = Len(worker.actions)
          BY <1>1, <1>4, <4>1 DEF Begun
        <4>3. Begun' = Len(worker.actions)'
          BY <1>4, <2>2, <4>2
        <4> QED
          BY <3>2, <4>3 DEF Settled
      <3> QED
        BY <3>2, <3>3
    <2> QED
      BY <1>5, <1>6, <2>1, <2>3, <2>5 DEF TagInv
  <1> QED
    BY <1>7, <1>8

LEMMA OutcomeIs ==
  ASSUME NEW x \in Mutation, NEW before \in SUBSET Tags, NEW o \in MessageOutcomes(x, before)
  PROVE  /\ o.after \in SUBSET Tags
         /\ \A t : t \notin x.add \cup x.remove => (t \in o.after <=> t \in before)
         /\ o.reported \in Mutation /\ o.reported.message = x.message
         /\ o.failure = "none" => o.after = (before \ x.remove) \cup x.add
  <1> DEFINE full == Apply(before, x)
             reach == {before \ r : r \in SUBSET (before \ full)}
                          \cup {(before \cap full) \cup a : a \in SUBSET (full \ before)}
             Outcome(after, reported, failure) == [after |-> after, reported |-> reported, failure |-> failure]
             Seen(after) == Changed(x.message, before, after)
  <1>1. full = (before \ x.remove) \cup x.add /\ full \in SUBSET Tags /\ x.message \in Messages
    BY MutationIs DEF Apply
  <1>2. \A after \in SUBSET Tags : Seen(after) \in Mutation /\ Seen(after).message = x.message
    BY <1>1 DEF Changed, Mutation
  <1>3. \A t : t \notin x.add \cup x.remove => (t \in full <=> t \in before)
    BY <1>1
  <1>4. \A after \in reach : after \in SUBSET Tags
            /\ \A t : t \notin x.add \cup x.remove => (t \in after <=> t \in before)
    <2>1. ASSUME NEW after \in reach
          PROVE  after \in SUBSET Tags /\ \A t : t \notin x.add \cup x.remove => (t \in after <=> t \in before)
      <3>1. CASE \E r \in SUBSET (before \ full) : after = before \ r
        BY <3>1, <1>3
      <3>2. CASE \E a \in SUBSET (full \ before) : after = (before \cap full) \cup a
        <4> HIDE DEF full
        <4> QED
          BY <3>2, <1>1, <1>3
      <3> QED
        BY <2>1, <3>1, <3>2
    <2> QED
      BY <2>1
  <1>5. \/ \E f \in {"none", "sync"} : o = Outcome(full, Seen(full), f)
        \/ o = Outcome(before, Seen(before), "lookup")
        \/ \E t \in reach : o = Outcome(t, Seen(t), "uncertain")
        \/ \E t \in reach : o = Outcome(t, Seen(before), "uncertain")
    <2>1. o \in {Outcome(full, Seen(full), f) : f \in {"none", "sync"}}
            \cup {Outcome(before, Seen(before), "lookup")}
            \cup {Outcome(t, Seen(t), "uncertain") : t \in reach}
            \cup {Outcome(t, Seen(before), "uncertain") : t \in reach}
      BY DEF MessageOutcomes
    <2> HIDE DEF Outcome, Seen, full, reach
    <2> QED
      BY <2>1
  <1> HIDE DEF full, reach, Seen
  <1>6. CASE \E f \in {"none", "sync"} : o = Outcome(full, Seen(full), f)
    BY <1>6, <1>1, <1>2, <1>3
  <1>7. CASE o = Outcome(before, Seen(before), "lookup")
    BY <1>7, <1>2
  <1>8. CASE \E t \in reach : o = Outcome(t, Seen(t), "uncertain")
    BY <1>8, <1>2, <1>4
  <1>9. CASE \E t \in reach : o = Outcome(t, Seen(before), "uncertain")
    BY <1>9, <1>2, <1>4
  <1> QED
    BY <1>5, <1>6, <1>7, <1>8, <1>9

(* The two sets of mutations say the same of the tags of m. *)
LEMMA OneMore ==
  ASSUME NEW c \in SUBSET Mutation, NEW d \in Mutation, NEW m, d.message # m
  PROVE  \A t : /\ About(InverseTagMutations(c \cup {d}), m, t) <=> About(InverseTagMutations(c), m, t)
                /\ Adds(InverseTagMutations(c \cup {d}), m, t) <=> Adds(InverseTagMutations(c), m, t)
  <1>1. c \cup {d} \in SUBSET Mutation
    OBVIOUS
  <1>2. PICK e \in SUBSET Mutation : e = c \cup {d}
    BY <1>1
  <1>3. \A t : /\ About(InverseTagMutations(e), m, t) <=> About(InverseTagMutations(c), m, t)
               /\ Adds(InverseTagMutations(e), m, t) <=> Adds(InverseTagMutations(c), m, t)
    <2> SUFFICES ASSUME NEW t
                 PROVE  /\ About(InverseTagMutations(e), m, t) <=> About(InverseTagMutations(c), m, t)
                        /\ Adds(InverseTagMutations(e), m, t) <=> Adds(InverseTagMutations(c), m, t)
      OBVIOUS
    <2>1. About(InverseTagMutations(e), m, t) <=> \E x \in e : x.message = m /\ t \in x.add \cup x.remove
      BY InverseIs
    <2>2. About(InverseTagMutations(c), m, t) <=> \E x \in c : x.message = m /\ t \in x.add \cup x.remove
      BY InverseIs
    <2>3. Adds(InverseTagMutations(e), m, t) <=> \E x \in e : x.message = m /\ t \in x.remove
      BY InverseIs
    <2>4. Adds(InverseTagMutations(c), m, t) <=> \E x \in c : x.message = m /\ t \in x.remove
      BY InverseIs
    <2>5. \A x : x \in e /\ x.message = m <=> x \in c /\ x.message = m
      BY <1>2
    <2> QED
      BY <2>1, <2>2, <2>3, <2>4, <2>5
  <1> QED
    BY <1>2, <1>3

(* The first change of a message, undone at once. *)
LEMMA ChangeUndone ==
  ASSUME NEW c \in SUBSET Mutation, NEW m \in Messages, \A d \in c : d.message # m,
         NEW f \in TagSets, NEW g \in TagSets, NEW e \in SUBSET Mutation,
         e = c \cup {Changed(m, f[m], g[m])}
  PROVE  UndoAll(g, <<InverseTagMutations(e)>>)[m] = UndoAll(f, <<InverseTagMutations(c)>>)[m]
  <1>1. PICK a : a = InverseTagMutations(e)
    OBVIOUS
  <1>2. PICK b : b = InverseTagMutations(c)
    OBVIOUS
  <1>3. f[m] \subseteq Tags /\ g[m] \subseteq Tags
    BY DEF TagSets
  <1>4. PICK d : d = Changed(m, f[m], g[m])
    OBVIOUS
  <1>5. d.message = m /\ d.add = g[m] \ f[m] /\ d.remove = f[m] \ g[m]
    BY <1>4 DEF Changed
  <1>6. e = c \cup {d}
    BY <1>4
  <1>7. ASSUME NEW t \in Tags
        PROVE  /\ About(a, m, t) <=> t \in d.add \cup d.remove
               /\ Adds(a, m, t) <=> t \in d.remove
               /\ ~About(b, m, t) /\ ~Adds(b, m, t)
    <2>1. About(a, m, t) <=> \E x \in e : x.message = m /\ t \in x.add \cup x.remove
      BY <1>1, InverseIs
    <2>2. About(b, m, t) <=> \E x \in c : x.message = m /\ t \in x.add \cup x.remove
      BY <1>2, InverseIs
    <2>3. Adds(a, m, t) <=> \E x \in e : x.message = m /\ t \in x.remove
      BY <1>1, InverseIs
    <2>4. Adds(b, m, t) <=> \E x \in c : x.message = m /\ t \in x.remove
      BY <1>2, InverseIs
    <2>5. \A x : x \in e /\ x.message = m <=> x = d
      BY <1>5, <1>6
    <2> QED
      BY <2>1, <2>2, <2>3, <2>4, <2>5
  <1>8. ASSUME NEW t \in Tags
        PROVE  t \in UndoAll(g, <<a>>)[m] <=> t \in UndoAll(f, <<b>>)[m]
    <2>1. t \in UndoAll(g, <<a>>)[m] <=> (t \in g[m] /\ ~About(a, m, t)) \/ Adds(a, m, t)
      BY UndoOfOne
    <2>2. t \in UndoAll(f, <<b>>)[m] <=> (t \in f[m] /\ ~About(b, m, t)) \/ Adds(b, m, t)
      BY UndoOfOne
    <2> QED
      BY <1>5, <1>7, <2>1, <2>2
  <1>9. UndoAll(g, <<a>>)[m] \subseteq Tags /\ UndoAll(f, <<b>>)[m] \subseteq Tags
    BY UndoIs DEF TagSets
  <1> QED
    BY <1>1, <1>2, <1>8, <1>9

LEMMA MutateIs ==
  ASSUME TagInv, NEW x \in worker.batch, MutateMessage(x)
  PROVE  /\ x \in Mutation /\ x.message \in Messages /\ x.add \in SUBSET Tags /\ x.remove \in SUBSET Tags
         /\ worker.phase = "batch" /\ WorkerOnly
         /\ worker'.phase = "batch" /\ worker'.actions = worker.actions /\ worker'.todo = worker.todo
         /\ worker'.batch = worker.batch \ {x} /\ worker'.before = worker.before
         /\ worker' \in TagWorkers /\ tags' \in TagSets /\ doubtful' \subseteq Messages /\ doubtful \subseteq doubtful'
         /\ \A m \in Messages : m # x.message => tags'[m] = tags[m]
         /\ \A t \in Tags : t \notin x.add \cup x.remove => (t \in tags'[x.message] <=> t \in tags[x.message])
         /\ worker'.complete => worker.complete /\ tags'[x.message] = (tags[x.message] \ x.remove) \cup x.add
         /\ \E d \in Mutation : /\ worker'.changes = worker.changes \cup {d} /\ d.message = x.message
                                /\ x.message \notin doubtful' => d = Changed(x.message, tags[x.message], tags'[x.message])
  <1>1. worker \in TagWorkers /\ worker.batch \in Actions /\ tags \in TagSets /\ doubtful \subseteq Messages
        /\ worker.changes \in SUBSET Mutation /\ worker.complete \in BOOLEAN /\ worker.uncertain \in BOOLEAN
    BY WorkerIs DEF TagInv
  <1>2. x \in Mutation /\ x.message \in Messages /\ x.add \in SUBSET Tags /\ x.remove \in SUBSET Tags
    <2>1. x \in Mutation
      BY <1>1 DEF Actions
    <2> QED
      BY <2>1, MutationIs
  <1>3. PICK o \in MessageOutcomes(x, tags[x.message]) :
          /\ tags' = [tags EXCEPT ![x.message] = o.after]
          /\ doubtful' = IF o.reported = Changed(x.message, tags[x.message], o.after)
                         THEN doubtful ELSE doubtful \cup {x.message}
          /\ worker' = [worker EXCEPT
                !.batch = worker.batch \ {x},
                !.changes = worker.changes \cup {o.reported},
                !.complete = worker.complete /\ o.failure = "none",
                !.uncertain = worker.uncertain \/ o.failure = "uncertain"]
    BY DEF MutateMessage
  <1>4. worker.phase = "batch" /\ WorkerOnly
    BY DEF MutateMessage
  <1>5. tags[x.message] \in SUBSET Tags
    BY <1>1, <1>2 DEF TagSets
  <1>6. /\ o.after \in SUBSET Tags
        /\ \A t : t \notin x.add \cup x.remove => (t \in o.after <=> t \in tags[x.message])
        /\ o.reported \in Mutation /\ o.reported.message = x.message
        /\ o.failure = "none" => o.after = (tags[x.message] \ x.remove) \cup x.add
    BY <1>2, <1>5, OutcomeIs
  <1>7. tags' \in TagSets /\ tags'[x.message] = o.after /\ \A m \in Messages : m # x.message => tags'[m] = tags[m]
    BY <1>1, <1>2, <1>3, <1>6 DEF TagSets
  <1>8. worker.batch \ {x} \in Actions
    BY <1>1 DEF Actions, One
  <1>9. PICK b \in BOOLEAN : b = (worker.complete /\ o.failure = "none")
    OBVIOUS
  <1>10. PICK v \in BOOLEAN : v = (worker.uncertain \/ o.failure = "uncertain")
    OBVIOUS
  <1>11. worker' = [worker EXCEPT !.batch = worker.batch \ {x}, !.changes = worker.changes \cup {o.reported},
                                  !.complete = b, !.uncertain = v]
    BY <1>3, <1>9, <1>10
  <1>12. worker.changes \cup {o.reported} \in SUBSET Mutation
    BY <1>1, <1>6
  <1>13. /\ worker'.phase = "batch" /\ worker'.actions = worker.actions /\ worker'.todo = worker.todo
         /\ worker'.batch = worker.batch \ {x} /\ worker'.before = worker.before
         /\ worker'.changes = worker.changes \cup {o.reported} /\ worker'.complete = b
         /\ worker' \in TagWorkers
    BY <1>1, <1>4, <1>8, <1>11, <1>12 DEF TagWorkers
  <1>14. doubtful' \subseteq Messages /\ doubtful \subseteq doubtful'
    BY <1>1, <1>2, <1>3
  <1>15. x.message \notin doubtful' => o.reported = Changed(x.message, tags[x.message], tags'[x.message])
    BY <1>3, <1>7
  <1>16. worker'.complete => worker.complete /\ tags'[x.message] = (tags[x.message] \ x.remove) \cup x.add
    BY <1>6, <1>7, <1>9, <1>13
  <1>17. \A t \in Tags : t \notin x.add \cup x.remove => (t \in tags'[x.message] <=> t \in tags[x.message])
    BY <1>6, <1>7
  <1>18. \E d \in Mutation : /\ worker'.changes = worker.changes \cup {d} /\ d.message = x.message
                             /\ x.message \notin doubtful' => d = Changed(x.message, tags[x.message], tags'[x.message])
    BY <1>6, <1>13, <1>15
  <1> QED
    BY <1>2, <1>4, <1>7, <1>13, <1>14, <1>16, <1>17, <1>18

(* A tag operation: the change of one more message. *)
LEMMA MutateTagging ==
  ASSUME TagInv, NEW x \in worker.batch, MutateMessage(x), ~Undoing
  PROVE  TagInv'
  <1>1. worker.changes \in SUBSET Mutation /\ tags \in TagSets /\ history \in Seq(Actions)
        /\ worker \in TagWorkers /\ worker.batch \in Actions
    BY WorkerIs DEF TagInv
  <1>2. /\ x \in Mutation /\ x.message \in Messages
        /\ worker.phase = "batch" /\ WorkerOnly
        /\ worker'.phase = "batch" /\ worker'.actions = worker.actions /\ worker'.todo = worker.todo
        /\ worker'.batch = worker.batch \ {x} /\ worker'.before = worker.before
        /\ worker' \in TagWorkers /\ tags' \in TagSets /\ doubtful' \subseteq Messages /\ doubtful \subseteq doubtful'
        /\ \A m \in Messages : m # x.message => tags'[m] = tags[m]
    BY MutateIs
  <1>3. PICK d \in Mutation :
          /\ worker'.changes = worker.changes \cup {d} /\ d.message = x.message
          /\ x.message \notin doubtful' => d = Changed(x.message, tags[x.message], tags'[x.message])
    BY MutateIs
  <1>4. worker.before \in TagSets
    BY <1>2 DEF TagInv, Phases
  <1>5. Typed' /\ Saved' /\ Phases' /\ (Undoing' <=> Undoing)
    BY <1>2, <1>4, WorkerSteps
  <1>6. /\ One(worker.changes) /\ worker.todo = <<>>
        /\ \A c \in worker.changes, y \in worker.batch : c.message # y.message
        /\ \A c \in worker.changes : c.message \notin doubtful =>
              c = Changed(c.message, worker.before[c.message], tags[c.message])
        /\ \A m \in Messages \ doubtful : (\A c \in worker.changes : c.message # m) => tags[m] = worker.before[m]
    BY <1>2 DEF TagInv, Tagging
  <1>7. \A c \in worker.changes : c.message # x.message /\ c.message \in Messages
    BY <1>1, <1>6, MutationIs
  <1>8. One(worker'.changes)
    BY <1>3, <1>6, <1>7 DEF One
  <1>9. \A c \in worker'.changes, y \in worker'.batch : c.message # y.message
    <2>1. \A y \in worker.batch : y.message = x.message => y = x
      BY <1>1 DEF Actions, One
    <2> QED
      BY <1>2, <1>3, <1>6, <2>1
  <1>10. ASSUME NEW c \in worker'.changes, c.message \notin doubtful'
         PROVE  c = Changed(c.message, worker'.before[c.message], tags'[c.message])
    <2>1. CASE c = d
      <3>1. x.message \notin doubtful /\ tags[x.message] = worker.before[x.message]
        BY <1>2, <1>3, <1>6, <1>7, <1>10, <2>1
      <3> QED
        BY <1>2, <1>3, <1>10, <2>1, <3>1
    <2>2. CASE c # d
      <3>1. c \in worker.changes /\ c.message \notin doubtful /\ c.message # x.message /\ c.message \in Messages
        BY <1>2, <1>3, <1>7, <1>10, <2>2
      <3>2. tags'[c.message] = tags[c.message]
        BY <1>2, <3>1
      <3> QED
        BY <1>2, <1>6, <3>1, <3>2
    <2> QED
      BY <2>1, <2>2
  <1>11. ASSUME NEW m \in Messages \ doubtful', \A c \in worker'.changes : c.message # m
         PROVE  tags'[m] = worker'.before[m]
    <2>1. m # x.message /\ m \notin doubtful /\ \A c \in worker.changes : c.message # m
      BY <1>2, <1>3, <1>11
    <2> QED
      BY <1>2, <1>6, <2>1
  <1>12. Tagging'
    BY <1>2, <1>6, <1>8, <1>9, <1>10, <1>11 DEF Tagging
  <1>13. InTurn' /\ Progress'
    BY <1>5 DEF InTurn, Progress
  <1>14. Exact'
    <2>1. worker.actions = <<>> /\ worker'.actions = <<>>
      BY <1>2 DEF Undoing
    <2>2. PICK w \in TagWorkers : w = worker'
      BY <1>2
    <2>3. PICK e \in SUBSET Mutation : e = w.changes
      BY DEF TagWorkers
    <2>4. PICK g \in TagSets : g = tags'
      BY <1>2
    <2>5. PICK c \in SUBSET Mutation : c = worker.changes
      BY <1>1
    <2>6. UndoAll(g, OwedOf(w, history)) = UndoAll(UndoAll(g, <<InverseTagMutations(e)>>), history)
      BY <1>1, <1>8, <2>1, <2>2, <2>3, OwedTagging
    <2>7. UndoAll(tags, OwedOf(worker, history)) = UndoAll(UndoAll(tags, <<InverseTagMutations(c)>>), history)
      BY <1>1, <1>6, <2>1, <2>5, OwedTagging
    <2>8. Owed' = OwedOf(w, history) /\ Owed = OwedOf(worker, history) /\ original' = original
      BY <1>2, <2>2, OwedNow DEF WorkerOnly
    <2>9. ASSUME NEW m \in Messages \ doubtful'
          PROVE  UndoAll(g, OwedOf(w, history))[m] = original[m]
      <3>1. UndoAll(tags, OwedOf(worker, history))[m] = original[m]
        BY <1>2, <2>8 DEF TagInv, Exact
      <3>2. UndoAll(g, <<InverseTagMutations(e)>>)[m] = UndoAll(tags, <<InverseTagMutations(c)>>)[m]
        <4>1. CASE m = x.message
          <5>1. d = Changed(m, tags[m], g[m])
            BY <1>3, <2>4, <4>1
          <5>2. e = c \cup {Changed(m, tags[m], g[m])}
            BY <1>3, <2>2, <2>3, <2>5, <5>1
          <5>3. \A k \in c : k.message # m
            BY <1>7, <2>5, <4>1
          <5> QED
            BY <1>1, <5>2, <5>3, ChangeUndone
        <4>2. CASE m # x.message
          <5>1. g[m] = tags[m]
            BY <1>2, <2>4, <4>2
          <5>2. e = c \cup {d} /\ d.message # m
            BY <1>3, <2>2, <2>3, <2>5, <4>2
          <5>3. \A t : /\ About(InverseTagMutations(e), m, t) <=> About(InverseTagMutations(c), m, t)
                       /\ Adds(InverseTagMutations(e), m, t) <=> Adds(InverseTagMutations(c), m, t)
            BY <5>2, OneMore
          <5>4. PICK a : a = InverseTagMutations(e)
            OBVIOUS
          <5>5. PICK b : b = InverseTagMutations(c)
            OBVIOUS
          <5>6. \A t \in Tags : t \in UndoAll(g, <<a>>)[m] <=> t \in UndoAll(tags, <<b>>)[m]
            <6> SUFFICES ASSUME NEW t \in Tags
                         PROVE  t \in UndoAll(g, <<a>>)[m] <=> t \in UndoAll(tags, <<b>>)[m]
              OBVIOUS
            <6>1. t \in UndoAll(g, <<a>>)[m] <=> (t \in g[m] /\ ~About(a, m, t)) \/ Adds(a, m, t)
              BY UndoOfOne
            <6>2. t \in UndoAll(tags, <<b>>)[m] <=> (t \in tags[m] /\ ~About(b, m, t)) \/ Adds(b, m, t)
              BY UndoOfOne
            <6> QED
              BY <5>1, <5>3, <5>4, <5>5, <6>1, <6>2
          <5>7. UndoAll(g, <<a>>)[m] \subseteq Tags /\ UndoAll(tags, <<b>>)[m] \subseteq Tags
            BY UndoIs DEF TagSets
          <5> QED
            BY <5>4, <5>5, <5>6, <5>7
        <4> QED
          BY <4>1, <4>2
      <3>3. PICK f : f = UndoAll(g, <<InverseTagMutations(e)>>)
        OBVIOUS
      <3>4. PICK h : h = UndoAll(tags, <<InverseTagMutations(c)>>)
        OBVIOUS
      <3>5. UndoAll(f, history)[m] = UndoAll(h, history)[m]
        <4>1. \A t \in Tags : t \in f[m] <=> t \in h[m]
          BY <3>2, <3>3, <3>4
        <4> QED
          BY <4>1, UndoAgrees
      <3> QED
        BY <2>6, <2>7, <3>1, <3>3, <3>4, <3>5
    <2> QED
      BY <2>4, <2>8, <2>9 DEF Exact
  <1> QED
    BY <1>5, <1>12, <1>13, <1>14 DEF TagInv

(* An undo: one more of its mutations. *)
LEMMA MutateUndoing ==
  ASSUME TagInv, NEW x \in worker.batch, MutateMessage(x), Undoing
  PROVE  TagInv'
  <1>1. tags \in TagSets /\ history \in Seq(Actions) /\ worker.actions \in Seq(Actions)
        /\ worker \in TagWorkers
    BY WorkerIs DEF TagInv
  <1>2. /\ x \in Mutation /\ x.message \in Messages
        /\ worker.phase = "batch" /\ WorkerOnly
        /\ worker'.phase = "batch" /\ worker'.actions = worker.actions /\ worker'.todo = worker.todo
        /\ worker'.batch = worker.batch \ {x} /\ worker'.before = worker.before
        /\ worker' \in TagWorkers /\ tags' \in TagSets /\ doubtful' \subseteq Messages /\ doubtful \subseteq doubtful'
        /\ \A m \in Messages : m # x.message => tags'[m] = tags[m]
        /\ \A t \in Tags : t \notin x.add \cup x.remove => (t \in tags'[x.message] <=> t \in tags[x.message])
        /\ worker'.complete => worker.complete /\ tags'[x.message] = (tags[x.message] \ x.remove) \cup x.add
    BY MutateIs
  <1>3. worker.before \in TagSets
    BY <1>2 DEF TagInv, Phases
  <1>4. Typed' /\ Saved' /\ Phases' /\ (Undoing' <=> Undoing)
    BY <1>2, <1>3, WorkerSteps
  <1>5. Tagging'
    BY <1>4 DEF Tagging
  <1>6. PICK b : b = Begun /\ b = Begun'
    BY <1>2 DEF Begun
  <1>7. PICK a : a = worker.actions[b]
    OBVIOUS
  <1>8. b \in DOMAIN worker.actions /\ a \in Actions /\ worker.batch \subseteq a /\ x \in a
        /\ Len(worker.todo) <= Len(worker.actions)
        /\ (\A i \in DOMAIN worker.todo : worker.todo[i] = worker.actions[i + b])
        /\ \A m \in Messages, t \in Tags : ~About(a, m, t) => (t \in tags[m] <=> t \in worker.before[m])
    <2>1. b \in DOMAIN worker.actions /\ worker.batch \subseteq a /\ Len(worker.todo) <= Len(worker.actions)
          /\ (\A i \in DOMAIN worker.todo : worker.todo[i] = worker.actions[i + b])
          /\ \A m \in Messages, t \in Tags : ~About(a, m, t) => (t \in tags[m] <=> t \in worker.before[m])
      BY <1>2, <1>6, <1>7 DEF TagInv, InTurn
    <2>2. a \in Actions
      BY <1>1, <1>7, <2>1
    <2> QED
      BY <2>1, <2>2
  <1>9. ASSUME NEW m \in Messages, NEW t \in Tags, ~About(a, m, t)
        PROVE  t \in tags'[m] <=> t \in tags[m]
    <2>1. m = x.message => t \notin x.add \cup x.remove
      BY <1>8, <1>9 DEF About
    <2> QED
      BY <1>2, <2>1
  <1>10. InTurn'
    <2>1. \A m \in Messages, t \in Tags :
              ~About(worker'.actions[Begun'], m, t) => (t \in tags'[m] <=> t \in worker'.before[m])
      BY <1>2, <1>6, <1>7, <1>8, <1>9
    <2>2. Begun' \in DOMAIN worker'.actions /\ worker'.batch \subseteq worker'.actions[Begun']
      BY <1>2, <1>6, <1>7, <1>8
    <2>3. Len(worker'.todo) <= Len(worker'.actions)
          /\ \A i \in DOMAIN worker'.todo : worker'.todo[i] = worker'.actions[i + Begun']
      BY <1>2, <1>6, <1>8
    <2> QED
      BY <1>2, <2>1, <2>2, <2>3 DEF InTurn
  <1>11. Exact'
    <2>1. PICK r \in Seq(Actions) : r = Reverse(worker.actions) /\ DOMAIN r = DOMAIN worker.actions
                 /\ \A i \in DOMAIN worker.actions : r[i] = worker.actions[(Len(worker.actions) - i) + 1]
                                                     /\ (Len(worker.actions) - i) + 1 \in DOMAIN worker.actions
      BY <1>1, ReverseIs
    <2>2. PICK o : o = history \o r
      OBVIOUS
    <2>3. Owed = o /\ Owed' = o /\ original' = original
      BY <1>2, <2>1, <2>2, OwedNow DEF OwedOf, WorkerOnly, Undoing
    <2>4. PICK e \in DOMAIN r : r[e] = a
      <3>1. PICK e : e = (Len(worker.actions) - b) + 1
        OBVIOUS
      <3>2. e \in DOMAIN worker.actions /\ (Len(worker.actions) - e) + 1 = b
        BY <1>1, <1>8, <3>1
      <3> QED
        BY <1>7, <2>1, <3>2
    <2>5. ASSUME NEW m \in Messages, NEW t \in Tags, Untouched(o, m, t)
          PROVE  t \in tags'[m] <=> t \in tags[m]
      <3>1. Untouched(r, m, t)
        BY <1>1, <2>2, <2>5, UntouchedJoin
      <3>2. ~About(a, m, t)
        BY <2>4, <3>1 DEF Untouched
      <3> QED
        BY <1>9, <3>2
    <2>6. PICK g : g = tags'
      OBVIOUS
    <2>7. ASSUME NEW m \in Messages \ doubtful'
          PROVE  UndoAll(g, o)[m] = original[m]
      <3>1. \A t \in Tags : Untouched(o, m, t) => (t \in g[m] <=> t \in tags[m])
        BY <2>5, <2>6
      <3>2. UndoAll(g, o)[m] = UndoAll(tags, o)[m]
        BY <3>1, UndoAgrees
      <3>3. UndoAll(tags, o)[m] = original[m]
        BY <1>2, <2>3 DEF TagInv, Exact
      <3> QED
        BY <3>2, <3>3
    <2> QED
      BY <2>3, <2>6, <2>7 DEF Exact
  <1>12. Progress'
    <2> SUFFICES ASSUME worker'.complete
                 PROVE  Settled(tags, Begun)'
      BY <1>2 DEF Progress
    <2>1. Settled(tags, b) /\ tags'[x.message] = (tags[x.message] \ x.remove) \cup x.add
      BY <1>2, <1>6 DEF TagInv, Progress
    <2>2. \A i : i # b => Part(i) = worker.actions[i] /\ Part(i)' = worker.actions[i]
      BY <1>2, <1>6 DEF Part
    <2>3. Part(b) = a \ worker.batch /\ Part(b)' = (a \ worker.batch) \cup {x}
      BY <1>2, <1>6, <1>7, <1>8 DEF Part
    <2>4. ASSUME NEW t \in Tags
          PROVE  /\ About(Part(b)', x.message, t) <=> t \in x.add \cup x.remove
                 /\ Adds(Part(b)', x.message, t) <=> t \in x.add
                 /\ ~About(Part(b), x.message, t)
      <3>1. \A y \in a : y.message = x.message => y = x
        BY <1>8 DEF Actions, One
      <3>2. \A y \in Part(b)' : y.message = x.message => y = x
        BY <1>8, <2>3, <3>1
      <3>3. x \in Part(b)'
        BY <2>3
      <3>4. \A y \in Part(b) : y.message # x.message
        BY <2>3, <3>1
      <3> QED
        BY <3>2, <3>3, <3>4 DEF About, Adds
    <2>5. ASSUME NEW m \in Messages, NEW t \in Tags, m # x.message
          PROVE  /\ About(Part(b)', m, t) <=> About(Part(b), m, t)
                 /\ Adds(Part(b)', m, t) <=> Adds(Part(b), m, t)
      BY <2>3, <2>5 DEF About, Adds
    <2>6. b \in Nat /\ b \in 1 .. b
      BY <1>1, <1>8
    <2>7. ASSUME NEW m \in Messages, NEW t \in Tags, NEW i \in 1 .. b, About(Part(i)', m, t),
                 \A j \in i + 1 .. b : ~About(Part(j)', m, t)
          PROVE  t \in tags'[m] <=> Adds(Part(i)', m, t)
      <3>1. CASE i = b
        <4>1. CASE m = x.message
          BY <2>1, <2>4, <2>7, <3>1, <4>1
        <4>2. CASE m # x.message
          <5>1. tags'[m] = tags[m] /\ About(Part(b), m, t)
            BY <1>2, <2>5, <2>7, <3>1, <4>2
          <5>2. b + 1 .. b = {}
            BY <2>6
          <5>3. t \in tags[m] <=> Adds(Part(b), m, t)
            BY <2>1, <2>6, <5>1, <5>2 DEF Settled
          <5> QED
            BY <2>5, <3>1, <4>2, <5>1, <5>3
        <4> QED
          BY <4>1, <4>2
      <3>2. CASE i # b
        <4>1. b \in i + 1 .. b
          BY <2>6, <3>2
        <4>2. ~About(Part(b)', m, t)
          BY <2>7, <4>1
        <4>3. ~About(Part(b), m, t) /\ (t \in tags'[m] <=> t \in tags[m])
          <5>1. CASE m = x.message
            <6>1. t \notin x.add \cup x.remove
              BY <2>4, <4>2, <5>1
            <6> QED
              BY <1>2, <2>4, <5>1, <6>1
          <5>2. CASE m # x.message
            BY <1>2, <2>5, <4>2, <5>2
          <5> QED
            BY <5>1, <5>2
        <4>4. About(Part(i), m, t) /\ (Adds(Part(i), m, t) <=> Adds(Part(i)', m, t))
          BY <2>2, <2>7, <3>2
        <4>5. ASSUME NEW j \in i + 1 .. b
              PROVE  ~About(Part(j), m, t)
          <5>1. CASE j = b
            BY <4>3, <5>1
          <5>2. CASE j # b
            BY <2>2, <2>7, <4>5, <5>2
          <5> QED
            BY <5>1, <5>2
        <4>6. t \in tags[m] <=> Adds(Part(i), m, t)
          BY <2>1, <4>4, <4>5 DEF Settled
        <4> QED
          BY <4>3, <4>4, <4>6
      <3> QED
        BY <3>1, <3>2
    <2> QED
      BY <1>6, <2>7 DEF Settled
  <1> QED
    BY <1>4, <1>5, <1>10, <1>11, <1>12 DEF TagInv

LEMMA TagStep ==
  ASSUME TagInv, [Next]_vars
  PROVE  TagInv'
  <1>1. ASSUME NEW ms \in (SUBSET Messages) \ {{}}, NEW add \in SUBSET Tags, NEW remove \in SUBSET Tags,
               StartTag(ms, add, remove)
        PROVE  TagInv'
    BY <1>1, StartTagKeeps
  <1>2. ASSUME NEW S \in Selections, UndoTagActions(S) \/ UndoStartFails(S)
        PROVE  TagInv'
    BY <1>2, UndoTagActionsKeeps, UndoStartFailsKeeps
  <1>3. ASSUME NEW m \in Messages, NEW t \in Tags, OtherProgram(m, t)
        PROVE  TagInv'
    BY <1>3, OtherProgramKeeps
  <1>4. CASE BatchBegins
    BY <1>4, BatchBeginsKeeps
  <1>5. CASE BatchEnds
    BY <1>5, BatchEndsKeeps
  <1>6. CASE CommitFails
    BY <1>6, CommitFailsKeeps
  <1>7. ASSUME NEW uncertain \in BOOLEAN, WorkerFails(uncertain)
        PROVE  TagInv'
    BY <1>7, WorkerFailsKeeps
  <1>8. ASSUME NEW x \in worker.batch, MutateMessage(x)
        PROVE  TagInv'
    BY <1>8, MutateTagging, MutateUndoing
  <1>9. CASE FinishTagWorker
    BY <1>9, FinishTagWorkerKeeps
  <1>10. CASE Reconciled
    BY <1>10, ReconciledKeeps
  <1>11. ASSUME NEW ok \in BOOLEAN, PersistSnapshot(ok)
         PROVE  TagInv'
    BY <1>11, PersistSnapshotKeeps
  <1>12. CASE Close \/ Flushed
    BY <1>12, ClosingKeeps
  <1>13. CASE StartAgain
    BY <1>13, StartAgainKeeps
  <1>14. CASE Crash
    BY <1>14, CrashKeeps
  <1>15. CASE UNCHANGED vars
    <2>1. UNCHANGED <<tags, worker, status, history, queue, file, window, operations, unsaved, original, doubtful>>
      BY <1>15 DEF vars
    <2>2. Typed' /\ Saved' /\ Phases' /\ Tagging'
      BY <2>1 DEF TagInv, Typed, Saved, Phases, Tagging, Undoing
    <2>3. InTurn' /\ Progress'
      BY <2>1 DEF TagInv, InTurn, Progress, Undoing, Settled, Part, Begun
    <2>4. Exact'
      BY <2>1, OwedNow DEF TagInv, Exact
    <2> QED
      BY <2>2, <2>3, <2>4 DEF TagInv
  <1> QED
    BY <1>1, <1>2, <1>3, <1>4, <1>5, <1>6, <1>7, <1>8, <1>9, <1>10, <1>11, <1>12, <1>13, <1>14, <1>15 DEF Next

THEOREM TagInvariant == Spec => []TagInv
  <1>1. Init => TagInv
    BY InitTag
  <1>2. TagInv /\ [Next]_vars => TagInv'
    BY TagStep
  <1> QED
    BY <1>1, <1>2, PTL DEF Spec

(* The tags, the worker and the history have the form that they are given. *)
THEOREM TagTypeCorrect == Spec => []TypeOK
  <1>1. TagInv => TypeOK
    <2> SUFFICES ASSUME TagInv
                 PROVE  TypeOK
      OBVIOUS
    <2>1. /\ worker \in TagWorkers /\ worker.changes \in SUBSET Mutation
          /\ tags \in TagSets /\ history \in Histories /\ file \in Histories
          /\ worker.phase \in {"idle", "running", "batch", "done"}
      BY WorkerIs DEF TagInv
    <2>2. \A i \in DOMAIN history : history[i] \in UndoTagAction \ {{}}
      <3>1. \A i \in DOMAIN history : history[i] \in Actions /\ history[i] # {}
        BY <2>1, HistoryIs
      <3> QED
        BY <3>1 DEF Actions, UndoTagAction
    <2>3. Len(history) <= MaxHistory /\ Len(file) <= MaxHistory
      BY <2>1, HistoryIs
    <2> QED
      BY <2>1, <2>2, <2>3 DEF TypeOK, TagInv, Typed, TagSets
  <1> QED
    BY <1>1, TagInvariant, PTL

(* Undoing all of the history gives the tags from before what notm did. *)
THEOREM UndoAllIsExact == Spec => []UndoAllRestores
  <1>1. TagInv => UndoAllRestores
    BY DEF TagInv, Exact, UndoAllRestores
  <1> QED
    BY <1>1, TagInvariant, PTL

(* The window closes with the history in its file, unless the last write of it failed. *)
THEOREM CloseSaves == Spec => []CloseSavesHistory
  <1>1. TagInv => CloseSavesHistory
    BY DEF TagInv, Saved, CloseSavesHistory
  <1> QED
    BY <1>1, TagInvariant, PTL

(* Only the end of an undo puts its worker to rest without a step of the user or a restart. *)
LEMMA UndoNotLostStep ==
  ASSUME TagInv, [Next]_vars, worker.actions # <<>>, worker' = NoTagWork, operations' = operations
  PROVE  \/ history' = history \o Reverse(worker.actions)
         \/ history' = history /\ UndoAll(tags, Reverse(worker.actions)) = tags
  <1>1. worker # NoTagWork /\ worker'.phase = "idle" /\ worker'.actions = <<>>
    BY RestingWorker
  <1>2. worker.phase # "idle" /\ operations \in Nat /\ worker \in TagWorkers
    BY <1>1 DEF TagInv, Phases, Typed
  <1>3. ~(operations' = operations + 1)
    BY <1>2
  <1>4. CASE FinishTagWorker
    <2>1. worker.phase = "done" /\ history \in Histories /\ worker.actions \in Seq(Actions)
      BY <1>4, WorkerIs DEF FinishTagWorker, TagInv
    <2>2. CASE ~worker.complete
      <3>1. history' = Restored(history, worker.actions)
        BY <1>4, <2>2 DEF FinishTagWorker
      <3>2. Len(history) + Len(worker.actions) <= MaxHistory
            /\ \A i \in DOMAIN worker.actions : worker.actions[i] # {}
        BY DEF TagInv, Phases, Undoing
      <3> QED
        BY <2>1, <3>1, <3>2, PutBack
    <2>3. CASE worker.complete
      <3>1. history' = history
        BY <1>4, <2>3 DEF FinishTagWorker
      <3> QED
        BY <2>1, <2>3, <3>1, UndoDone DEF Undoing
    <2> QED
      BY <2>2, <2>3
  <1>5. CASE UNCHANGED vars
    BY <1>1, <1>5 DEF vars
  <1>6. ASSUME NEW ms, NEW add, NEW remove, StartTag(ms, add, remove)
        PROVE  FALSE
    BY <1>3, <1>6 DEF StartTag, Step
  <1>7. ASSUME NEW S, UndoTagActions(S) \/ UndoStartFails(S)
        PROVE  FALSE
    BY <1>3, <1>7 DEF UndoTagActions, UndoStartFails, Step
  <1>8. ASSUME NEW m, NEW t, OtherProgram(m, t)
        PROVE  FALSE
    BY <1>3, <1>8 DEF OtherProgram, Step
  <1>9. ~(StartAgain \/ Crash)
    BY <1>3 DEF StartAgain, Crash, Restart
  <1>10. worker'.phase = worker.phase => FALSE
    BY <1>1, <1>2
  <1>11. ~(Reconciled \/ Close \/ Flushed)
    BY <1>10 DEF Reconciled, Close, Flushed
  <1>12. ASSUME NEW ok, PersistSnapshot(ok)
         PROVE  FALSE
    BY <1>10, <1>12 DEF PersistSnapshot
  <1>13. ~BatchBegins
    BY <1>1, <1>2 DEF BatchBegins, TagWorkers
  <1>14. ~BatchEnds
    BY <1>1, <1>2 DEF BatchEnds, TagWorkers
  <1>15. ~CommitFails
    BY <1>1, <1>2 DEF CommitFails, TagWorkers
  <1>16. ASSUME NEW u, WorkerFails(u)
         PROVE  FALSE
    BY <1>1, <1>2, <1>16 DEF WorkerFails, TagWorkers
  <1>17. ASSUME NEW x \in worker.batch, MutateMessage(x)
         PROVE  FALSE
    BY <1>1, <1>17, MutateIs
  <1> QED
    BY <1>4, <1>5, <1>6, <1>7, <1>8, <1>9, <1>11, <1>12, <1>13, <1>14, <1>15, <1>16, <1>17 DEF Next

(* An undo that does not complete leaves the history as it was, one that completes nothing to be undone. *)
THEOREM UndoIsNotLost == Spec => UndoNotLost
  <1>1. TagInv /\ [Next]_vars =>
          [worker.actions # <<>> /\ worker' = NoTagWork /\ operations' = operations =>
             \/ history' = history \o Reverse(worker.actions)
             \/ history' = history /\ UndoAll(tags, Reverse(worker.actions)) = tags]_vars
    BY UndoNotLostStep
  <1> QED
    BY <1>1, TagInvariant, PTL DEF Spec, UndoNotLost
=============================================================================
