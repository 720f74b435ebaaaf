-------------------------- MODULE BackgroundTasks --------------------------
(***************************************************************************)
(* TaskRunner of vegvisir/src/tasks.rs with the functions of               *)
(* app/runtime.rs around it: shell commands in processes of their own,     *)
(* reader threads that copy their output to the task's file and to a       *)
(* bounded channel, and the UI thread, which spawns, cancels and polls.    *)
(*                                                                         *)
(* Output is counted in chunks of one read.  A task has two readers, of    *)
(* stdout and stderr; they share its channel and its file.  A command      *)
(* keeps both open until it exits, and may leave a process behind that     *)
(* holds them open after that.  Reading may fail.  An append to the file   *)
(* may too, but the reader does not look at its result, so that the file   *)
(* is not part of the state: what it holds is at most what was read.       *)
(***************************************************************************)
EXTENDS TaskTable

LOCAL INSTANCE FiniteSetsExt

CONSTANTS
  Readers,    \* the reader threads: two for each task (a bound may leave some out)
  TaskOf,     \* the task of each
  PipeSize,   \* the chunks the operating system's pipe holds
  Capacity,   \* TASK_OUTPUT_CHANNEL_CAPACITY
  Faulty,     \* tasks of which a read may fail
  Leaving,    \* tasks whose command may leave a process behind
  Chatty      \* those whose leftover process may go on writing

ASSUME ReadersAssumption == TaskOf \in [Readers -> Tasks]
ASSUME SizesAssumption   == PipeSize \in Nat /\ Capacity \in Nat
ASSUME LeavingAssumption == /\ Leaving \subseteq Tasks /\ Chatty \subseteq Leaving
                            /\ Faulty \subseteq Tasks

ReadersOf(t) == {r \in Readers : TaskOf[r] = t}

\* The channel holds what is in the pipes and in the readers' hands, and a last
\* message of each reader.
ASSUME RoomAssumption ==
  \A t \in Tasks : Cardinality(ReadersOf(t)) * (PipeSize + 2) <= Capacity

VARIABLES
  proc,      \* the command's process
  code,      \* how it exited
  leftover,  \* whether a process it left behind holds the pipes
  killed,    \* whether the process was sent SIGKILL
  reader,    \* where each reader thread is
  pipe,      \* chunks in the pipe that it reads
  queue,     \* chunks and messages in the task's channel
  output,    \* tasks of which this poll took some, for their records
  running,   \* the tasks in TaskRunner::running
  expired,   \* tasks whose time limit or stall limit has passed
  cancelReq, \* cancel_requested
  timeReq,   \* timeout_requested
  polling,   \* whether the UI is inside poll_task_runner
  todo,      \* the tasks this poll has still to visit
  joining,   \* the task whose reader the UI is joining (0: none)
  verdict    \* the final event of each task, before the UI applies it

procVars   == <<proc, code, leftover, killed>>
outVars    == <<reader, pipe, queue, output>>
runnerVars == <<running, expired, cancelReq, timeReq>>
pollVars   == <<polling, todo, joining, verdict>>
vars       == <<tableVars, procVars, outVars, runnerVars, pollVars>>

UIFree == ~polling

Init ==
  /\ InitTable
  /\ proc      = [t \in Tasks |-> "none"]
  /\ code      = [t \in Tasks |-> "none"]
  /\ reader    = [r \in Readers |-> "none"]
  /\ verdict   = [t \in Tasks |-> "none"]
  /\ leftover  = [t \in Tasks |-> FALSE]
  /\ killed    = [t \in Tasks |-> FALSE]
  /\ pipe      = [r \in Readers |-> 0]
  /\ queue     = [t \in Tasks |-> 0]
  /\ output    = {}
  /\ running   = {}
  /\ expired   = {}
  /\ cancelReq = {}
  /\ timeReq   = {}
  /\ polling   = FALSE
  /\ todo      = {}
  /\ joining   = 0

-----------------------------------------------------------------------------
(* The process and what it leaves behind.                                  *)

\* A write waits while the pipe is full; when nobody reads it, it fails.
Write(r) ==
  /\ \/ proc[TaskOf[r]] = "live" /\ ~killed[TaskOf[r]]
     \/ leftover[TaskOf[r]] /\ TaskOf[r] \in Chatty
  /\ reader[r] # "broken" /\ pipe[r] < PipeSize
  /\ pipe' = [pipe EXCEPT ![r] = @ + 1]
  /\ UNCHANGED <<tableVars, procVars, reader, queue, output, runnerVars, pollVars>>

Ends(t, how) ==
  /\ proc' = [proc EXCEPT ![t] = "exited"]
  /\ code' = [code EXCEPT ![t] = how]
  /\ \E left \in {FALSE, (t \in Leaving)} : leftover' = [leftover EXCEPT ![t] = left]
  /\ UNCHANGED <<tableVars, killed, outVars, runnerVars, pollVars>>

Exit(t) == /\ proc[t] = "live" /\ ~killed[t]
           /\ \E how \in {"ok", "fail"} : Ends(t, how)

Die(t)  == /\ proc[t] = "live" /\ killed[t]
           /\ Ends(t, "fail")

LeftoverExits(t) ==
  /\ leftover[t]
  /\ leftover' = [leftover EXCEPT ![t] = FALSE]
  /\ UNCHANGED <<tableVars, proc, code, killed, outVars, runnerVars, pollVars>>

\* terminate_child_process_group: the process and its group; a process that
\* moved to a session of its own survives.
Kill(t) ==
  /\ killed' = [killed EXCEPT ![t] = TRUE]
  /\ \E left \in {FALSE, leftover[t]} : leftover' = [leftover EXCEPT ![t] = left]

\* The time limit, or the stall limit, of a task passes.
Expire(t) ==
  /\ t \in running \ expired
  /\ expired' = expired \union {t}
  /\ UNCHANGED <<tableVars, procVars, outVars, running, cancelReq, timeReq, pollVars>>

-----------------------------------------------------------------------------
(* The reader threads.                                                     *)

\* A chunk is read, made text and handed to append_output_file.  The text is that of
\* the chunk alone: a character cut by its end, or what is no UTF-8, is replaced.
Read(r) ==
  /\ reader[r] = "reading" /\ pipe[r] > 0
  /\ pipe'   = [pipe EXCEPT ![r] = @ - 1]
  /\ reader' = [reader EXCEPT ![r] = "sending"]
  /\ UNCHANGED <<tableVars, procVars, queue, output, runnerVars, pollVars>>

\* The read fails: a message takes the chunk's place, and is the last.
ReadFails(r) ==
  /\ reader[r] = "reading" /\ TaskOf[r] \in Faulty
  /\ reader' = [reader EXCEPT ![r] = "failing"]
  /\ UNCHANGED <<tableVars, procVars, pipe, queue, output, runnerVars, pollVars>>

\* It is sent when the channel has room.
Send(r) ==
  /\ reader[r] \in {"sending", "failing"} /\ queue[TaskOf[r]] < Capacity
  /\ reader' = [reader EXCEPT ![r] = IF @ = "sending" THEN "reading" ELSE "broken"]
  /\ queue'  = [queue EXCEPT ![TaskOf[r]] = @ + 1]
  /\ UNCHANGED <<tableVars, procVars, pipe, output, runnerVars, pollVars>>

EndOfOutput(r) ==
  /\ reader[r] = "reading" /\ pipe[r] = 0
  /\ proc[TaskOf[r]] = "exited" /\ ~leftover[TaskOf[r]]
  /\ reader' = [reader EXCEPT ![r] = "done"]
  /\ UNCHANGED <<tableVars, procVars, pipe, queue, output, runnerVars, pollVars>>

\* Both readers of a task have returned.
Joined(t) == \A r \in ReadersOf(t) : reader[r] \in {"done", "broken"}

-----------------------------------------------------------------------------
(* The UI thread: spawning and cancelling.                                 *)

\* spawn_background when the process starts.
Spawn(t) ==
  /\ UIFree /\ t = nextId
  /\ nextId'  = nextId + 1
  /\ record'  = Registered(t, "background")
  /\ proc'    = [proc EXCEPT ![t] = "live"]
  /\ reader'  = [r \in Readers |-> IF TaskOf[r] = t THEN "reading" ELSE reader[r]]
  /\ running' = running \union {t}
  /\ UNCHANGED <<code, leftover, killed, pipe, queue, output,
                 expired, cancelReq, timeReq, pollVars>>

\* The sandbox or the system refuses the process: the record says failed.  When
\* the output file cannot be made, the function returns before that and leaves
\* the record of a running task.
SpawnFails(t) ==
  /\ UIFree /\ t = nextId
  /\ nextId' = nextId + 1
  /\ \E r \in {Registered(t, "background")} : record' \in {r, Finished(r, t, "failed")}
  /\ UNCHANGED <<procVars, outVars, runnerVars, pollVars>>

\* cancel_background_task: the record follows when a poll sees the process end.
Cancel(t) ==
  /\ UIFree /\ t \in running
  /\ cancelReq' = cancelReq \union {t}
  /\ Kill(t)
  /\ UNCHANGED <<tableVars, proc, code, outVars, running, expired, timeReq, pollVars>>

-----------------------------------------------------------------------------
(* The UI thread: poll_task_runner.                                        *)

StartPoll ==
  /\ UIFree
  /\ polling' = TRUE
  /\ todo'    = running
  /\ UNCHANGED <<tableVars, procVars, outVars, runnerVars, joining, verdict>>

Visited(t) == polling /\ joining = 0 /\ t \in todo

Drain(t) ==
  /\ output' = output \union {u \in {t} : queue[u] > 0}
  /\ queue'  = [queue EXCEPT ![t] = 0]

\* What each visit begins with: the channel is emptied, and a task that is over
\* its time is told to stop, once.
DrainAndCheckTime(t) ==
  /\ Visited(t)
  /\ Drain(t)
  /\ IF t \in expired \ timeReq THEN Kill(t) ELSE UNCHANGED <<killed, leftover>>
  /\ timeReq' = timeReq \union (expired \intersect {t})

\* Faulty variant: a task over its time is marked and not killed.
PollLiveUnkilled(t) ==
  /\ Visited(t) /\ proc[t] = "live"
  /\ Drain(t)
  /\ timeReq' = timeReq \union (expired \intersect {t})
  /\ todo'    = todo \ {t}
  /\ UNCHANGED <<tableVars, procVars, reader, pipe, running,
                 expired, cancelReq, polling, joining, verdict>>

\* The process has not ended.
PollLive(t) ==
  /\ proc[t] = "live" /\ DrainAndCheckTime(t)
  /\ todo' = todo \ {t}
  /\ UNCHANGED <<tableVars, proc, code, reader, pipe, running,
                 expired, cancelReq, polling, joining, verdict>>

\* Faulty variant: the exit code decides before the user's cancellation does.
ExitVerdictByCode(t) ==
  IF code[t] = "ok" THEN "completed"
  ELSE IF t \in cancelReq THEN "cancelled"
  ELSE IF t \in timeReq \union expired THEN "timedOut"
  ELSE "failed"

ExitVerdict(t) ==
  IF t \in cancelReq THEN "cancelled"
  ELSE IF t \in timeReq \union expired THEN "timedOut"
  ELSE IF code[t] = "ok" THEN "completed"
  ELSE "failed"

\* Faulty variant: the task stays tracked until the poll after its end.
PollExitedStillTracked(t) ==
  /\ proc[t] = "exited" /\ DrainAndCheckTime(t)
  /\ running' = running \ {u \in {t} : Joined(u)}
  /\ verdict' = [verdict EXCEPT ![t] = ExitVerdict(t)]
  /\ todo'    = todo \ {t}
  /\ UNCHANGED <<tableVars, proc, code, reader, pipe, expired,
                 cancelReq, polling, joining>>

\* The process has ended: the task is no longer tracked, what the channel holds
\* is taken, and the readers are joined.  What they send from here on is lost.
PollExited(t) ==
  /\ proc[t] = "exited" /\ DrainAndCheckTime(t)
  /\ running' = running \ {t}
  /\ verdict' = [verdict EXCEPT ![t] = ExitVerdict(t)]
  /\ joining' = t
  /\ UNCHANGED <<tableVars, proc, code, reader, pipe, expired,
                 cancelReq, polling, todo>>

\* Faulty variant: the process is not killed.
PollErrorUnkilled(t) ==
  /\ Visited(t)
  /\ Drain(t)
  /\ timeReq' = timeReq \union (expired \intersect {t})
  /\ running' = running \ {t}
  /\ verdict' = [verdict EXCEPT ![t] = "failed"]
  /\ joining' = t
  /\ UNCHANGED <<tableVars, procVars, reader, pipe, expired,
                 cancelReq, polling, todo>>

\* try_wait fails.
PollError(t) ==
  /\ Visited(t)
  /\ Drain(t)
  /\ timeReq' = timeReq \union (expired \intersect {t})
  /\ Kill(t)
  /\ running' = running \ {t}
  /\ verdict' = [verdict EXCEPT ![t] = "failed"]
  /\ joining' = t
  /\ UNCHANGED <<tableVars, proc, code, reader, pipe, expired,
                 cancelReq, polling, todo>>

\* Faulty variant: the readers are not waited for.
PollDetach ==
  /\ joining # 0
  /\ joining' = 0
  /\ todo'    = todo \ {joining}
  /\ UNCHANGED <<tableVars, procVars, outVars, runnerVars, polling, verdict>>

\* join_output_threads returns.
PollJoin ==
  /\ joining # 0 /\ Joined(joining)
  /\ joining' = 0
  /\ todo'    = todo \ {joining}
  /\ UNCHANGED <<tableVars, procVars, outVars, runnerVars, polling, verdict>>

\* Faulty variant: the poll returns as soon as one task has ended.
PollEndAtFirst ==
  /\ polling /\ joining = 0
  /\ todo = {} \/ \E t \in Tasks : verdict[t] # "none"
  /\ output'   = {}
  /\ record'   = [t \in Tasks |-> IF verdict[t] = "none" THEN record[t] ELSE verdict[t]]
  /\ verdict'  = [t \in Tasks |-> "none"]
  /\ polling'  = FALSE
  /\ UNCHANGED <<nextId, procVars, reader, pipe, queue, runnerVars, todo, joining>>

\* The events of the poll are applied to the records: output, then the end.
PollEnd ==
  /\ polling /\ todo = {} /\ joining = 0
  /\ output'   = {}
  /\ record'   = [t \in Tasks |-> IF verdict[t] = "none" THEN record[t]
                                  ELSE Finished(record, t, verdict[t])[t]]
  /\ verdict'  = [t \in Tasks |-> "none"]
  /\ polling'  = FALSE
  /\ UNCHANGED <<nextId, procVars, reader, pipe, queue, runnerVars, todo, joining>>

-----------------------------------------------------------------------------
User(t)    == Spawn(t) \/ SpawnFails(t) \/ Cancel(t)
Process(t) == Exit(t) \/ Die(t) \/ LeftoverExits(t)
Copy(r)    == Read(r) \/ Send(r) \/ EndOfOutput(r)
Visit(t)   == PollLive(t) \/ PollExited(t) \/ PollError(t)
Poll       == StartPoll \/ (\E t \in Tasks : Visit(t)) \/ PollJoin \/ PollEnd

Next ==
  \/ Poll
  \/ \E t \in Tasks : User(t) \/ Process(t) \/ Expire(t)
  \/ \E r \in Readers : Write(r) \/ Copy(r) \/ ReadFails(r)

\* The main loop polls for ever, the reader threads run, SIGKILL ends a process
\* and clocks advance.  Users, commands and what they leave behind owe nothing, and
\* no read need fail.
Fairness ==
  /\ WF_vars(Poll)
  /\ \A t \in Tasks : WF_vars(Die(t)) /\ WF_vars(Expire(t))
  /\ \A r \in Readers : WF_vars(Copy(r))

Safety == Init /\ [][Next]_vars
Spec   == Safety /\ Fairness

-----------------------------------------------------------------------------
\* Types, and the state of a poll outside of it: nothing to visit or to join.
TypeOK ==
  /\ record \in [Tasks -> States] /\ nextId \in 1..MaxTasks + 1
  /\ proc \in [Tasks -> {"none", "live", "exited"}]
  /\ code \in [Tasks -> {"none", "ok", "fail"}]
  /\ reader \in [Readers -> {"none", "reading", "sending", "failing", "done", "broken"}]
  /\ verdict \in [Tasks -> Ended \union {"none"}]
  /\ leftover \in [Tasks -> BOOLEAN] /\ killed \in [Tasks -> BOOLEAN]
  /\ pipe \in [Readers -> 0..PipeSize]
  /\ queue \in [Tasks -> 0..Capacity] /\ output \subseteq Tasks
  /\ running \subseteq Tasks /\ expired \subseteq Tasks
  /\ cancelReq \subseteq Tasks /\ timeReq \subseteq Tasks /\ todo \subseteq Tasks
  /\ polling \in BOOLEAN /\ joining \in Tasks \union {0}
  /\ UIFree => todo = {} /\ joining = 0 /\ output = {}

Done(t) == proc[t] # "none" /\ record[t] \in Ended

\* A task whose process the runner tracks has an active record: pruning the
\* table (prune_records, tasks.rs:467) or ending a record early would leave a
\* process that /tasks can neither show nor finish.
TrackedIsActive == \A t \in running : record[t] \in Active

\* When the record of a task says it has ended, no reader of it is left, hence nobody
\* to append to its output file, and a stream has been read to its end and cannot be
\* written any more unless a read of it failed: poll joins the readers before it
\* reports the end (tasks.rs:796), in every interleaving of process, readers and
\* poll.  That the file has all that was read is not promised (851).
OutputIsRead ==
  \A t \in Tasks : Done(t) =>
    /\ Joined(t)
    /\ \A r \in ReadersOf(t) : reader[r] = "done" =>
         pipe[r] = 0 /\ proc[t] = "exited" /\ ~leftover[t]

\* A record says completed only if the command ended by itself with code 0 and
\* nobody had asked it to stop; a task the user cancelled is cancelled, whatever
\* its exit code and whether or not its time was up as well (tasks.rs:797-806).
\* A failed wait for the process is the one exception.
VerdictMatches ==
  \A t \in Tasks : Done(t) =>
    /\ record[t] = "completed" => code[t] = "ok" /\ t \notin cancelReq \union timeReq
    /\ record[t] = "timedOut"  => t \in timeReq \ cancelReq
    /\ t \in cancelReq         => record[t] \in {"cancelled", "failed"}

\* An ended record is final: it may be evicted, but its state does not change, no
\* poll has output for it, which append_output (tasks.rs:410) would add whatever the
\* state, and its readers are gone for good.
EndedIsFinal ==
  [][\A t \in Tasks : Done(t) =>
       /\ record'[t] \in {record[t], "evicted"}
       /\ t \notin output
       /\ \A r \in ReadersOf(t) : reader'[r] = reader[r]]_vars

\* What the readers of a task may still have to send once it is joined: the chunks
\* not yet sent, and one message each.
Unsent(t) ==
  LET rest(r) == CASE reader[r] = "reading" -> pipe[r] + 1
                   [] reader[r] = "sending" -> pipe[r] + 2
                   [] reader[r] = "failing" -> 1
                   [] OTHER                    -> 0
  IN  MapThenSumSet(rest, ReadersOf(t))

\* The processes that commands leave behind end at some time, and what they
\* write once the UI no longer empties the channel fits into it.
LeftoversEnd ==
  \A t \in Tasks : []<>~leftover[t] /\ [](joining = t => queue[t] + Unsent(t) <= Capacity)

\* The UI comes back from every poll: the join cannot wait for ever for a reader
\* that waits for the channel the UI would have to empty (tasks.rs:795-796), under
\* the proviso: a process left behind that writes more does stop the UI in its join.
PollReturns == LeftoversEnd => (polling ~> ~polling)

\* Every task the runner tracks ends, by itself, by the user's cancellation or by
\* its time limit, and its record says so, under the same proviso.
TasksEnd == LeftoversEnd => \A t \in Tasks : t \in running ~> record[t] \in Ended
=============================================================================
