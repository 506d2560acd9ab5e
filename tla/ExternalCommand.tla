--------------------------- MODULE ExternalCommand ---------------------------
(***************************************************************************)
(* run_external_command (notm-mail/external_command.rs) and its users: the *)
(* send transports (transport.rs, send_message_with_config) and the        *)
(* commands of a sync (execute_sync_commands).  The runner waits for the   *)
(* child, writes its input and drains its output at once; a deadline or an *)
(* I/O error kills the process group, unless the system refuses that.      *)
(*                                                                         *)
(* Bytes come in chunks; one output stream stands for both.  The child may *)
(* read, write, fork and exit as it likes.  An heir is a descendant that   *)
(* holds the output open, in the child's process group or away from it.    *)
(***************************************************************************)
EXTENDS Naturals, Sequences

CONSTANTS
  InputSize,   \* chunks of a message on standard input
  OutputSize,  \* chunks the child may write
  OutputLimit, \* EXTERNAL_COMMAND_OUTPUT_LIMIT
  PipeSize     \* chunks a pipe holds

ASSUME CommandAssumption ==
  /\ InputSize \in Nat /\ OutputSize \in Nat /\ OutputLimit \in Nat
  /\ PipeSize \in Nat \ {0}

VARIABLES
  jobs,      \* commands still to run
  runner,    \* [phase, cause, unsent, written, captured, drained, waited]
  timed,     \* whether the deadline of the command can pass
  child,     \* [st, ok, left]: process, exit status, chunks it still writes
  heirs,     \* descendants that hold the output: "group", "away"
  pipes,     \* [in, closed, out]
  message,   \* message.eml of a file mode exists
  stranger,  \* an unrelated process group with the child's number
  outcome    \* result of the last command

cmdVars == <<jobs, runner, timed, child, heirs, pipes, message, stranger, outcome>>

\* execute_sync_commands runs two commands without input; send_stdin has input,
\* send_file_arg and send_template a temporary file.
CommandSpec(name, input, file) == [name |-> name, input |-> input, file |-> file]
SyncJobs == <<CommandSpec("receive", 0, FALSE), CommandSpec("database_update", 0, FALSE)>>
StdinJob == <<CommandSpec("send", InputSize, FALSE)>>
FileJob == <<CommandSpec("send", 0, TRUE)>>

Idle == [phase |-> "idle", cause |-> "none", unsent |-> 0, written |-> FALSE, captured |-> 0,
         drained |-> FALSE, waited |-> FALSE]
NoChild == [st |-> "none", ok |-> FALSE, left |-> 0]
NoPipes == [in |-> 0, closed |-> TRUE, out |-> 0]

CmdInit ==
  /\ jobs \in {SyncJobs, StdinJob, FileJob}
  /\ runner = Idle /\ timed = FALSE /\ child = NoChild /\ heirs = {} /\ pipes = NoPipes
  /\ message = FALSE /\ stranger = "none" /\ outcome = "none"

-----------------------------------------------------------------------------
(* The runner *)

Job == Head(jobs)
Running == runner.phase = "run"
Holders == heirs # {} \/ child.st = "alive"

\* The file modes write their message first; spawn.
Spawn(deadline) ==
  /\ runner.phase = "idle" /\ jobs # <<>>
  /\ runner' = [Idle EXCEPT !.phase = "run", !.unsent = Job.input]
  /\ timed' = deadline
  /\ child' = [st |-> "alive", ok |-> FALSE, left |-> OutputSize]
  /\ pipes' = [in |-> 0, closed |-> FALSE, out |-> 0]
  /\ heirs' = {} /\ stranger' = "none" /\ message' = Job.file
  /\ UNCHANGED <<jobs, outcome>>

\* A command that cannot be started: the rest is not run.
SpawnFails ==
  /\ runner.phase = "idle" /\ jobs # <<>>
  /\ jobs' = <<>> /\ outcome' = "error" /\ message' = FALSE
  /\ UNCHANGED <<runner, timed, child, heirs, pipes, stranger>>

Fail(cause) == runner' = [runner EXCEPT !.phase = "kill", !.cause = cause]

\* write_child_stdin: dropping the pipe at the end closes it.
WriteStdin ==
  /\ Running /\ ~runner.written /\ runner.unsent > 0 /\ child.st = "alive" /\ pipes.in < PipeSize
  /\ runner' = [runner EXCEPT !.unsent = @ - 1]
  /\ pipes' = [pipes EXCEPT !.in = @ + 1]
  /\ UNCHANGED <<jobs, timed, child, heirs, message, stranger, outcome>>
BrokenPipe ==
  /\ Running /\ ~runner.written /\ runner.unsent > 0 /\ child.st # "alive"
  /\ Fail("io")
  /\ UNCHANGED <<jobs, timed, child, heirs, pipes, message, stranger, outcome>>
StdinLeftOpen == Running /\ ~runner.written /\ runner.unsent = 0
  /\ runner' = [runner EXCEPT !.written = TRUE]
  /\ UNCHANGED <<jobs, timed, child, heirs, pipes, message, stranger, outcome>>
CloseStdin ==
  /\ Running /\ ~runner.written /\ runner.unsent = 0
  /\ runner' = [runner EXCEPT !.written = TRUE]
  /\ pipes' = [pipes EXCEPT !.closed = TRUE]
  /\ UNCHANGED <<jobs, timed, child, heirs, message, stranger, outcome>>

\* read_child_output: past the limit chunks are read and dropped.
ReadAll == pipes.out > 0
Captured == IF runner.captured < OutputLimit THEN runner.captured + 1 ELSE runner.captured
ReadOutput ==
  /\ Running /\ ReadAll
  /\ runner' = [runner EXCEPT !.captured = Captured]
  /\ pipes' = [pipes EXCEPT !.out = @ - 1]
  /\ UNCHANGED <<jobs, timed, child, heirs, message, stranger, outcome>>
ReadEnd ==
  /\ Running /\ ~runner.drained /\ pipes.out = 0 /\ ~Holders
  /\ runner' = [runner EXCEPT !.drained = TRUE]
  /\ UNCHANGED <<jobs, timed, child, heirs, pipes, message, stranger, outcome>>

\* child.wait
Wait ==
  /\ Running /\ child.st = "exited"
  /\ child' = [child EXCEPT !.st = "reaped"]
  /\ runner' = [runner EXCEPT !.waited = TRUE]
  /\ UNCHANGED <<jobs, timed, heirs, pipes, message, stranger, outcome>>

\* The command is over: the temporary file goes, and a sync goes on after success only.
Returned(result) ==
  /\ outcome' = result
  /\ message' = FALSE
  /\ jobs' = IF result = "success" THEN Tail(jobs) ELSE <<>>
  /\ runner' = Idle

\* try_join: all four are done.
Joined == runner.waited /\ runner.written /\ runner.drained
Join ==
  /\ Running /\ Joined
  /\ Returned(IF child.ok THEN "success" ELSE "status")
  /\ UNCHANGED <<timed, child, heirs, pipes, stranger>>

\* timeout polls the commands first: an execution that is ready wins.
CouldJoin ==
  child.st \in {"exited", "reaped"} /\ runner.unsent = 0 /\ pipes.out = 0 /\ ~Holders
Deadline ==
  /\ Running /\ timed /\ ~CouldJoin
  /\ Fail("timeout")
  /\ UNCHANGED <<jobs, timed, child, heirs, pipes, message, stranger, outcome>>

\* terminate_and_reap, kill_process_group: by the number of the child, also when it was
\* reaped already.
Killed(c) == IF c.st = "alive" THEN [c EXCEPT !.st = "exited", !.ok = FALSE] ELSE c
HeirsLeft == heirs
HeirsKilled == heirs \ {"group"}
KillGroup ==
  /\ runner.phase = "kill"
  /\ runner' = [runner EXCEPT !.phase = "reap"]
  /\ child' = Killed(child)
  /\ heirs' = HeirsKilled
  /\ stranger' = IF stranger = "alive" THEN "killed" ELSE stranger
  /\ UNCHANGED <<jobs, timed, pipes, message, outcome>>

\* killpg is refused (EPERM).  The child alone is killed and reaped; when that is refused
\* too, or there is none left to kill, the cleanup is given up.
KillRefused ==
  /\ runner.phase = "kill"
  /\ child.st # "reaped" \/ "group" \in heirs \/ stranger = "alive"
  /\ \/ /\ child.st # "reaped"
        /\ child' = Killed(child)
        /\ runner' = [runner EXCEPT !.phase = "reap", !.cause = "refused"]
        /\ UNCHANGED <<jobs, message, outcome>>
     \/ Returned("cleanup") /\ UNCHANGED child
  /\ UNCHANGED <<timed, heirs, pipes, stranger>>

ReapedFirst == child.st = "reaped"
Reap ==
  /\ runner.phase = "reap" /\ child.st = "exited"
  /\ child' = [child EXCEPT !.st = "reaped"]
  /\ UNCHANGED <<jobs, runner, timed, heirs, pipes, message, stranger, outcome>>
CleanedUp ==
  /\ runner.phase = "reap" /\ ReapedFirst
  /\ Returned(IF runner.cause = "refused" THEN "cleanup" ELSE "error")
  /\ UNCHANGED <<timed, child, heirs, pipes, stranger>>
WaitFails ==
  /\ runner.phase = "reap" /\ child.st = "exited"
  /\ Returned("cleanup")
  /\ UNCHANGED <<timed, child, heirs, pipes, stranger>>

-----------------------------------------------------------------------------
(* The child and its descendants *)

env == <<jobs, runner, timed, message, outcome>>
Alive == child.st = "alive"

ChildReads ==
  /\ Alive /\ pipes.in > 0 /\ pipes' = [pipes EXCEPT !.in = @ - 1]
  /\ UNCHANGED <<env, child, heirs, stranger>>
ChildWrites ==
  /\ Alive /\ child.left > 0 /\ pipes.out < PipeSize
  /\ child' = [child EXCEPT !.left = @ - 1]
  /\ pipes' = [pipes EXCEPT !.out = @ + 1]
  /\ UNCHANGED <<env, heirs, stranger>>
ChildForks(where) ==
  /\ Alive /\ where \notin heirs /\ heirs' = heirs \cup {where}
  /\ UNCHANGED <<env, child, pipes, stranger>>
\* It exits at the end of its input, or before.
ExitsWith(ok) == child' = [child EXCEPT !.st = "exited", !.ok = ok] /\ UNCHANGED <<env, heirs, pipes, stranger>>
ChildEnds == Alive /\ pipes.closed /\ pipes.in = 0 /\ child.left = 0 /\ \E ok \in BOOLEAN : ExitsWith(ok)
ChildQuits == Alive /\ \E ok \in BOOLEAN : ExitsWith(ok)
HeirEnds(where) ==
  /\ where \in heirs /\ heirs' = heirs \ {where}
  /\ UNCHANGED <<env, child, pipes, stranger>>
\* The number of a reaped leader is free once its group is empty.
NumberReused ==
  /\ child.st = "reaped" /\ "group" \notin heirs /\ stranger = "none" /\ runner.phase # "idle"
  /\ stranger' = "alive"
  /\ UNCHANGED <<env, child, heirs, pipes>>

RunnerSteps == WriteStdin \/ BrokenPipe \/ CloseStdin \/ ReadOutput \/ ReadEnd \/ Wait \/ Join
CmdNext ==
  \/ (\E d \in BOOLEAN : Spawn(d)) \/ SpawnFails
  \/ RunnerSteps \/ Deadline \/ KillGroup \/ KillRefused \/ Reap \/ CleanedUp \/ WaitFails
  \/ ChildReads \/ ChildWrites \/ ChildEnds \/ ChildQuits \/ NumberReused
  \/ \E where \in {"group", "away"} : ChildForks(where) \/ HeirEnds(where)

\* The runtime polls what is ready and its timer fires.  The last line is the hypothesis of
\* ChildFinishes, a child that goes on reading, writing and ending when it can; with a
\* deadline nothing is needed of the child.
CmdFairness ==
  /\ WF_cmdVars(WriteStdin) /\ WF_cmdVars(BrokenPipe) /\ WF_cmdVars(CloseStdin)
  /\ WF_cmdVars(ReadOutput) /\ WF_cmdVars(ReadEnd) /\ WF_cmdVars(Wait) /\ WF_cmdVars(Join)
  /\ WF_cmdVars(Deadline) /\ WF_cmdVars(KillGroup) /\ WF_cmdVars(Reap) /\ WF_cmdVars(CleanedUp)
  /\ WF_cmdVars(ChildReads) /\ WF_cmdVars(ChildWrites) /\ WF_cmdVars(ChildEnds)

CmdSpec == CmdInit /\ [][CmdNext]_cmdVars /\ CmdFairness

-----------------------------------------------------------------------------
(* Properties *)

CmdTypeOK ==
  /\ runner.phase \in {"idle", "run", "kill", "reap"} /\ runner.captured <= OutputLimit
  /\ child.st \in {"none", "alive", "exited", "reaped"} /\ heirs \subseteq {"group", "away"}
  /\ pipes.in <= PipeSize /\ pipes.out <= PipeSize
  /\ outcome \in {"none", "success", "status", "error", "cleanup"}

\* Once a command has returned its child is reaped, and after a timeout or an I/O error no
\* descendant is left in its group (terminate_and_reap).  What may be left is reported: the
\* error then says that the cleanup failed, and no further command is run.
NothingLeftBehind ==
  /\ runner.phase = "idle" /\ outcome # "cleanup" =>
       /\ child.st \in {"none", "reaped"}
       /\ outcome = "error" => "group" \notin heirs
  /\ outcome = "cleanup" => runner.phase = "idle" /\ jobs = <<>>

\* A child that reads its input, writes all it likes and leaves no descendant makes the
\* command return without its deadline: the pipes never wait for each other, and output
\* past the limit does not stop it (try_join, read_child_output).
ChildFinishes ==
  (Running /\ ~timed /\ heirs = {}) ~> (~Running \/ heirs # {})

\* Every command with a deadline returns.
CommandReturns == (Running /\ timed) ~> (runner.phase = "idle")

\* The message of a file mode is there as long as the command it was given to, unless that
\* could not be killed (jobs is empty then).
MessageOutlivesCommand == (child.st = "alive" /\ jobs # <<>> /\ Job.file) => message

\* The signal is scoped to the helper and descendants that did not leave its group, as the
\* comment in kill_process_group says.  Does not hold: the number of a group whose leader
\* has been reaped may be that of another group by then.
KillStaysInGroup == stranger # "killed"

\* A command whose child exited with success is reported as such.  Does not hold for a
\* child that leaves input unread or a descendant that keeps its output open.
SuccessReported == outcome = "error" /\ runner.phase = "idle" => ~child.ok
=============================================================================
