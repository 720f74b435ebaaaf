--------------------------- MODULE SubagentBoard ---------------------------
(***************************************************************************)
(* The subagents of one Vegvisir process (vegvisir/src/tools.rs): the      *)
(* spawn_subagent and subagents_cancel tools, the /subagents cancel        *)
(* command of the terminal, the thread that starts, awaits and reports     *)
(* each child process, and the board they share, subagents.json.           *)
(*                                                                         *)
(* A record is its status and scope.  A path of a scope stands for the     *)
(* files under it, so that scopes_overlap is a common file.  Tasks are     *)
(* numbered in the order of created_at.  The board's lock is one of the    *)
(* process, so what a function does while it holds it is one action.       *)
(***************************************************************************)
EXTENDS Naturals, FiniteSets

CONSTANTS
  Agents,      \* turn workers: the current one, and those a cancel detached
  UI,          \* the terminal
  Scopes,      \* the file scopes asked for: sets of files
  NoTask,
  Limits,      \* the values of active_subagent_limit
  MaxRecords,  \* SUBAGENT_BOARD_MAX_RECORDS
  Leaving,     \* tasks whose child may leave behind a process that holds its output
  MaxTasks,    \* bound on the tasks spawned
  MaxFaults,   \* bound on the saves that fail and the exits of the process
  MaxCancels   \* bound on the cancellations begun

Tasks  == 1..MaxTasks
Actors == Agents \union {UI}

ASSUME ActorsAssumption == UI \notin Agents /\ NoTask \notin Tasks
ASSUME BoundAssumption  == /\ MaxTasks \in Nat /\ MaxRecords \in Nat \ {0} /\ Limits \subseteq Nat
                           /\ MaxFaults \in Nat /\ MaxCancels \in Nat
ASSUME LeavingAssumption == Leaving \subseteq Tasks

Active   == {"queued", "running"}
Finished == {"completed", "failed", "cancelled"}
Statuses == Active \union Finished
Absent   == "absent"

VARIABLES
  limit,     \* active_subagent_limit, fixed when the tools are registered
  board,     \* the status of each task in subagents.json
  scope,     \* the file_scope of its record
  nextTask,  \* the next task's number
  step,      \* where each agent is in spawn_subagent
  wanted,    \* the scope it asks for
  task,      \* the task it has made a record for
  target,    \* the task each actor is cancelling
  seen,      \* the board that it loaded to do so
  thread,    \* where the thread of each task is in run_spawned_subagent
  child,     \* its operating system process
  held,      \* the tasks whose child has ended, and its output is held open
  faults,    \* how many saves have failed and how often the process has exited
  cancels,   \* how many cancellations have begun
  cancelled, \* history: the tasks a saved cancellation named
  stale,     \* history: whether a cancellation was saved over a board it had not seen
  unsaved    \* history: the tasks whose last save failed

askVars    == <<step, wanted, task>>
cancelVars == <<target, seen>>
workVars   == <<thread, child, held>>
history    == <<cancelled, stale, unsaved>>
counters   == <<faults, cancels>>
vars == <<limit, board, scope, nextTask, askVars, cancelVars, workVars, counters, history>>

Boards == [Tasks -> Statuses \union {Absent}]

Init ==
  /\ limit     \in Limits
  /\ board     = [t \in Tasks |-> Absent]
  /\ scope     = [t \in Tasks |-> {}]
  /\ nextTask  = 1
  /\ step      = [a \in Agents |-> "idle"]
  /\ wanted    = [a \in Agents |-> {}]
  /\ task      = [a \in Agents |-> NoTask]
  /\ target    = [a \in Actors |-> NoTask]
  /\ seen      = [a \in Actors |-> [t \in Tasks |-> Absent]]
  /\ thread    = [t \in Tasks |-> "none"]
  /\ child     = [t \in Tasks |-> "none"]
  /\ held      = {}
  /\ faults    = 0
  /\ cancels   = 0
  /\ cancelled = {}
  /\ stale     = FALSE
  /\ unsaved   = {}

-----------------------------------------------------------------------------
(* The board.                                                              *)

Listed(b)  == {t \in Tasks : b[t] # Absent}
IsActive(t) == board[t] \in Active

\* Faulty variant: a compaction that keeps one record too few.
CompactedShort(b) ==
  [t \in Tasks |->
     IF Cardinality({u \in Listed(b) : u > t}) + 1 < MaxRecords THEN b[t] ELSE Absent]

\* compact_subagent_board_records: the oldest records go, whatever their status.
Compacted(b) ==
  [t \in Tasks |->
     IF Cardinality({u \in Listed(b) : u > t}) < MaxRecords THEN b[t] ELSE Absent]

\* upsert_subagent_record: load and save under one hold of the lock.
Upserted(t, status) == Compacted([board EXCEPT ![t] = status])

\* atomic_write_json_value fails, or the process exits.
Fault == faults < MaxFaults /\ faults' = faults + 1

-----------------------------------------------------------------------------
(* spawn_subagent.  Each of its three looks at the board takes the lock.   *)

Free(a) == target[a] = NoTask /\ (a \in Agents => step[a] = "idle")

\* active_subagent_count: at the limit the tool refuses.
Count(a, files) ==
  /\ Free(a) /\ nextTask <= MaxTasks
  /\ Cardinality({t \in Tasks : IsActive(t)}) < limit
  /\ step'   = [step EXCEPT ![a] = "counted"]
  /\ wanted' = [wanted EXCEPT ![a] = files]
  /\ UNCHANGED <<limit, board, scope, nextTask, task, cancelVars, workVars, counters, history>>

\* Faulty variant: the scope of a queued task is passed over.
AvailableQueued(files) ==
  \A t \in Tasks : board[t] = "running" => scope[t] \intersect files = {}

\* validate_subagent_file_scope_available; a task without a scope is passed over.
Available(files) == \A t \in Tasks : IsActive(t) => scope[t] \intersect files = {}

\* Faulty variant: the task is kept when the tool has returned.
DoneKept(a) ==
  /\ step'   = [step EXCEPT ![a] = "idle"]
  /\ wanted' = [wanted EXCEPT ![a] = {}]
  /\ UNCHANGED task

\* The tool returns.
Done(a) ==
  /\ step'   = [step EXCEPT ![a] = "idle"]
  /\ wanted' = [wanted EXCEPT ![a] = {}]
  /\ task'   = [task EXCEPT ![a] = NoTask]

\* The scope is free, and the record is made, ...
Claim(a) ==
  /\ step[a] = "counted" /\ Available(wanted[a]) /\ nextTask <= MaxTasks
  /\ step'     = [step EXCEPT ![a] = "claimed"]
  /\ task'     = [task EXCEPT ![a] = nextTask]
  /\ scope'    = [scope EXCEPT ![nextTask] = wanted[a]]
  /\ nextTask' = nextTask + 1
  /\ UNCHANGED <<limit, board, wanted, cancelVars, workVars, counters, history>>

\* ... or it is not, and the tool refuses.
Refuse(a) ==
  /\ step[a] = "counted" /\ ~Available(wanted[a]) /\ Done(a)
  /\ UNCHANGED <<limit, board, scope, nextTask, cancelVars, workVars, counters, history>>

\* The queued record is saved and the task's thread starts ...
Queue(a) ==
  /\ step[a] = "claimed" /\ Done(a)
  /\ board'  = Upserted(task[a], "queued")
  /\ thread' = [thread EXCEPT ![task[a]] = "starting"]
  /\ UNCHANGED <<limit, scope, nextTask, cancelVars, child, held, counters, history>>

\* ... or it cannot be saved, and there is no thread.
QueueFails(a) ==
  /\ step[a] = "claimed" /\ Fault /\ Done(a)
  /\ UNCHANGED <<limit, board, scope, nextTask, cancelVars, workVars, cancels, history>>

-----------------------------------------------------------------------------
(* run_spawned_subagent: the thread of a task.                             *)

\* A save of the thread; if it fails the thread goes on.
Record(t, status) ==
  \/ board' = Upserted(t, status) /\ unsaved' = unsaved \ {t} /\ UNCHANGED faults
  \/ Fault /\ unsaved' = unsaved \union {t} /\ UNCHANGED board

Start(t) ==
  /\ thread[t] = "starting"
  /\ thread' = [thread EXCEPT ![t] = "launching"]
  /\ Record(t, "running")
  /\ UNCHANGED <<limit, scope, nextTask, askVars, cancelVars, child, held, cancels, cancelled, stale>>

\* The record with the command line is saved and the process starts.
Launch(t) ==
  /\ thread[t] = "launching"
  /\ thread' = [thread EXCEPT ![t] = "waiting"]
  /\ child'  = [child EXCEPT ![t] = "live"]
  /\ Record(t, "running")
  /\ UNCHANGED <<limit, scope, nextTask, askVars, cancelVars, held, cancels, cancelled, stale>>

\* There is no executable, or the record is saved and the system refuses the process.
LaunchFails(t) ==
  /\ thread[t] = "launching"
  /\ thread' = [thread EXCEPT ![t] = "failed"]
  /\ Record(t, "running") \/ UNCHANGED <<board, faults, unsaved>>
  /\ UNCHANGED <<limit, scope, nextTask, askVars, cancelVars, child, held, cancels, cancelled, stale>>

\* The child ends, by itself: nothing in the process ends it.  A process that it
\* started may hold the pipes of its output from there on.
ChildExits(t) ==
  /\ child[t] = "live"
  /\ child' = [child EXCEPT ![t] = "exited"]
  /\ held' \in {held, held \union ({t} \intersect Leaving)}
  /\ UNCHANGED <<limit, board, scope, nextTask, askVars, cancelVars, thread, counters, history>>

LeftoverExits(t) ==
  /\ t \in held
  /\ held' = held \ {t}
  /\ UNCHANGED <<limit, board, scope, nextTask, askVars, cancelVars, thread, child, counters, history>>

\* child.wait() has returned, which does not fail for a child of one's own, and so
\* have both readers of its output, which read on until nobody holds the pipes.
Await(t) ==
  /\ thread[t] = "waiting" /\ child[t] = "exited" /\ t \notin held
  /\ \E outcome \in {"completed", "failed"} : thread' = [thread EXCEPT ![t] = outcome]
  /\ UNCHANGED <<limit, board, scope, nextTask, askVars, cancelVars, child, held, counters, history>>

\* A reader that still had to wait returns since its read failed: the task has failed.
CaptureFails(t) ==
  /\ thread[t] = "waiting" /\ child[t] = "exited" /\ t \in held
  /\ thread' = [thread EXCEPT ![t] = "failed"]
  /\ UNCHANGED <<limit, board, scope, nextTask, askVars, cancelVars, child, held, counters, history>>

\* Faulty variant: a failed task is not reported.
ReportSuccess(t) ==
  /\ thread[t] \in {"completed", "failed"}
  /\ IF thread[t] = "completed" THEN Record(t, "completed") ELSE UNCHANGED <<board, unsaved, faults>>
  /\ thread' = [thread EXCEPT ![t] = "done"]
  /\ UNCHANGED <<limit, scope, nextTask, askVars, cancelVars, child, held, cancels, cancelled, stale>>

\* The last save, whatever the board says of the task by now.
Report(t) ==
  /\ thread[t] \in {"completed", "failed"}
  /\ Record(t, thread[t])
  /\ thread' = [thread EXCEPT ![t] = "done"]
  /\ UNCHANGED <<limit, scope, nextTask, askVars, cancelVars, child, held, cancels, cancelled, stale>>

-----------------------------------------------------------------------------
(* subagents_cancel and /subagents cancel.                                 *)

\* The board is loaded; a task that has ended is left as it is, ...
LoadToCancel(a, t) ==
  /\ Free(a) /\ IsActive(t) /\ cancels < MaxCancels
  /\ cancels' = cancels + 1
  /\ target' = [target EXCEPT ![a] = t]
  /\ seen'   = [seen EXCEPT ![a] = board]
  /\ UNCHANGED <<limit, board, scope, nextTask, askVars, workVars, faults, history>>

Forget(a) == /\ target' = [target EXCEPT ![a] = NoTask]
             /\ seen'   = [seen EXCEPT ![a] = [t \in Tasks |-> Absent]]

\* ... and after the lock was given up and taken again all of it is saved.
SaveCancelled(a) ==
  /\ target[a] # NoTask /\ Forget(a)
  /\ board'     = Compacted([seen[a] EXCEPT ![target[a]] = "cancelled"])
  /\ cancelled' = cancelled \union {target[a]}
  /\ stale'     = (stale \/ board # seen[a])
  /\ UNCHANGED <<limit, scope, nextTask, askVars, workVars, counters, unsaved>>

SaveCancelledFails(a) ==
  /\ target[a] # NoTask /\ Fault /\ Forget(a)
  /\ UNCHANGED <<limit, board, scope, nextTask, askVars, workVars, cancels, history>>

-----------------------------------------------------------------------------
(* The process exits and is started again: its threads are gone, the board *)
(* and the children are not.                                               *)

Exit ==
  /\ Fault
  /\ step'   = [a \in Agents |-> "idle"]
  /\ wanted' = [a \in Agents |-> {}]
  /\ task'   = [a \in Agents |-> NoTask]
  /\ target' = [a \in Actors |-> NoTask]
  /\ seen'   = [a \in Actors |-> [t \in Tasks |-> Absent]]
  /\ thread' = [t \in Tasks |-> IF thread[t] \in {"none", "done"} THEN thread[t] ELSE "gone"]
  /\ UNCHANGED <<limit, board, scope, nextTask, child, held, cancels, history>>

-----------------------------------------------------------------------------
Spawn(a)  == \/ \E files \in Scopes : Count(a, files)
             \/ Claim(a) \/ Refuse(a) \/ Queue(a) \/ QueueFails(a)
Cancel(a) == \/ \E t \in Tasks : LoadToCancel(a, t)
             \/ SaveCancelled(a) \/ SaveCancelledFails(a)
Work(t)   == Start(t) \/ Launch(t) \/ LaunchFails(t) \/ Await(t) \/ Report(t)

Next ==
  \/ \E a \in Agents : Spawn(a)
  \/ \E a \in Actors : Cancel(a)
  \/ \E t \in Tasks : Work(t) \/ ChildExits(t) \/ LeftoverExits(t) \/ CaptureFails(t)
  \/ Exit

\* A task's thread runs.  Agents, operators, children and what these leave behind
\* owe nothing, and no read need fail.
Fairness == \A t \in Tasks : WF_vars(Work(t))

Safety == Init /\ [][Next]_vars
Spec   == Safety /\ Fairness

-----------------------------------------------------------------------------
Stages == {"none", "starting", "launching", "waiting", "completed", "failed",
           "done", "gone"}

TypeOK ==
  /\ limit \in Limits
  /\ board \in Boards /\ seen \in [Actors -> Boards]
  /\ scope \in [Tasks -> SUBSET UNION Scopes] /\ wanted \in [Agents -> SUBSET UNION Scopes]
  /\ nextTask \in 1..MaxTasks + 1
  /\ faults \in 0..MaxFaults /\ cancels \in 0..MaxCancels
  /\ step \in [Agents -> {"idle", "counted", "claimed"}]
  /\ task \in [Agents -> Tasks \union {NoTask}] /\ target \in [Actors -> Tasks \union {NoTask}]
  /\ thread \in [Tasks -> Stages] /\ child \in [Tasks -> {"none", "live", "exited"}]
  /\ held \subseteq Tasks
  /\ cancelled \subseteq Tasks /\ unsaved \subseteq Tasks /\ stale \in BOOLEAN
  /\ \A a \in Agents : step[a] = "claimed" <=> task[a] # NoTask

\* The children at work that nobody cancelled and that fewer than MaxRecords
\* tasks have followed.
Working == {t \in Tasks : child[t] = "live" /\ t \notin cancelled /\ nextTask <= t + MaxRecords}

\* Unless a cancellation was saved over a board it had not seen, every child at
\* work is listed as active, across failed saves and a restart: otherwise its
\* files would be free for another and it would not count against the limit.
WorkingAreListed == ~stale => \A t \in Working : IsActive(t)

\* ... so, with one agent, no two of them own a file in common, although a save may
\* fail, the UI may cancel between the check of the scope and the save of the record
\* (two holds of the lock, tools.rs:3542-3578), and the process may be restarted, ...
ScopesHeld ==
  ~stale => \A t, u \in Working : t # u => scope[t] \intersect scope[u] = {}

\* ... and there are never more of them than the limit.  With a second agent neither
\* holds: both may look before either saves.
LimitHolds == ~stale => Cardinality(Working) <= limit

\* A task that is listed as active has a thread that will report it, unless the
\* process exited or the report could not be saved: a record left active for ever
\* would keep its place and its files for ever.
ActiveHasThread ==
  ~stale => \A t \in Tasks :
    IsActive(t) => thread[t] \notin {"none", "done"} \/ t \in unsaved

\* What a child did is reported: a task whose child has ended, or could not be
\* started, gets an ended record, unless the process exits, the report cannot be
\* saved, MaxRecords newer records push it off the board, or a cancellation is
\* saved over a board it had not seen, and not while the child's output is held: the
\* thread waits for its readers without a time-out (tools.rs:4145-4146, 1287), so
\* that a process left behind keeps the record active for as long as it lives.
Unreported(t) ==
  /\ (child[t] = "exited" /\ t \notin held) \/ thread[t] = "failed"
  /\ board[t] \notin Finished /\ thread[t] # "gone" /\ t \notin unsaved
  /\ nextTask <= t + MaxRecords /\ ~stale

EndIsReported == []<>(\A t \in Tasks : ~Unreported(t))
=============================================================================
