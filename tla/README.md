# A TLA+ verification of Vegvisir

Vegvisir is a terminal agent: a language model asks for tool calls, the program authorises
them, asks the operator where the policy says so, and runs them, in turns, in the
background, in subagents and over a bridge. The repository also holds the components it is
installed with (HBSE, CMS v2, MSP, Skiller, Solarium, USRL, a desktop window and
binary-analysis front ends).

These modules model the parts where threads, processes, an operator and a file meet: the
approval of tool calls, the turn with its channels, background tasks, subagents and their
board, the pool of MCP sessions, and the secrets, tickets and rotations of the HBSE vault;
and one algorithm whose answer is easily wrong: the walk of the MSP registry over the
dependencies of a skill.
`PROJECT.json` maps each definition to the lines it stands for. Paths below are under
`src/vegvisir/src/` unless they say otherwise.

## Inventory

| Component | State | Operations | Interacts with | Hard part |
|---|---|---|---|---|
| Approval ledger (`guardrails.rs`) | pending, rejected, approved once, approved for the session, behind one mutex; `approvals.json` | enqueue, approve once, approve for session, edit, deny, consume, resolution, save, load | every executor clone shares it | races for a one-time grant, failed saves, restart |
| Guardrails (`guardrails.rs` 733-857) | the permission policy, one copy per executor | `authorize_tool`: allow-list gate, subcommand and network gates, risk gate | the ledger | two gates each consume; check and enqueue take the lock separately |
| Control requests (`control_requests.rs`) | status per request id | insert, resolve, cancel | the UI and the bridge | ids repeat; terminal records stay |
| Tool loop (`provider.rs`) | the call, its approval id | execute, wait for approval, execute again, drain steering | ledger, event channel, cancel token | cancel against a late approval |
| Executor (`tools.rs` 982-1064) | policies | normalise, authorise, runtime policy, handler | guardrails, `policy.rs` | refusal after a grant was consumed |
| Turns in the UI (`app/runtime.rs`) | handle, channel, cancel token, tool tasks, steering | start, poll, join, cancel, repair, answer approvals | worker thread, control requests, tasks | a detached thread goes on; events left in the channel |
| Bridge (`bridge.rs`) | the same `TuiApp`, no worker thread | `control.respond`, `approvals.*`, headless turns | everything above | edited arguments in an answer |
| Background tasks (`tasks.rs`) | records, running processes, reader threads, bounded channel, output file | register, spawn, cancel, poll, prune | UI loop, operating system | join against a full channel; leftovers; exit against cancel and time limit |
| Subagents (`tools.rs` 3464-4208, `subagents.rs`) | `subagents.json` behind a lock of the process; a thread and a child process per task | spawn, start, launch, await, report, cancel | turn workers and the terminal share the board | check and save in two holds of the lock; a cancellation saves the whole board it loaded before; saves that fail unnoticed |
| MCP pool (`mcp.rs`) | one session, a child process with two pipes, per server, behind one lock | look up or start a session, request, fail, drop, request again | tool calls of turn workers, detached ones too, and of the terminal share it | time-outs with the answer still to come; the gap between a failure and the drop; waits without a time-out under the lock |
| Parallelism (`parallelism.rs`) | none | classify a batch of calls | tool loop | overlap rules |
| HBSE (`src/components/HBSE/hbse/src`) | secret versions, policy, tickets, rotation jobs and audit chain in one SQLite file; unlocked keys in the broker | put, get, disable, issue, renew, consume, revoke, lockdown, rotate | the `hbse` program, the broker's socket loop and its gateway, each with a `LocalVault` | every call of the store commits by itself: operations interleave and are cut short |
| MSP (`src/components/msp`) | installed manifests, trust policies | evaluate trust, walk dependencies, resolve | its client and the runtime bridge read the verdict | cycles, joins and depth in a recursive walk |
| CMS v2, Skiller, Solarium, USRL, desktop, analysis front ends, scripts | files, databases | see `PROJECT.json` | mostly processes and text | little concurrency of their own |

What makes each correct, in the order of the plan:

1. approvals: a risky call runs only on a decision of the operator about that very call; a
   one-time decision is used once, for ever; decisions and cancellations reach whoever
   waits;
2. background tasks: every process the runner tracks has a record, every task ends, its
   record says why, and then its output has been read to the end;
3. turns: every tool task of a turn ends with it, no event or steering message is lost;
4. subagents: the limit and the disjoint file scopes hold for the children at work, and
   what a child did is reported;
5. HBSE: a ticket is not used more often or longer than it was issued for, a revocation
   sticks, every plaintext released is accounted for, a rotation serves only what was
   verified; MSP: the verdict of the walk is that of the graph, whatever the order of its
   edges;
6. MCP: a call returns its own answer, it is carried out at most once per attempt, no
   server process is left behind, and every call ends.

## Modules

| Module | Models |
|---|---|
| `ApprovalLedger` | the ledger: one operator per method, the file as `disk` |
| `ApprovalFlow` | workers, gates, wait, event stream, control requests, answers, cancel, restart (EXTENDS `ApprovalLedger`) |
| `ApprovalGrants` | the abstract promise: runs and the decisions they use, no ledger, gate or file |
| `MCApprovalFlow` | the calls, programs and edits of the TLC instances |
| `ApprovalFlow_proofs` | theorems about `ApprovalFlow`, refinement of `ApprovalGrants` included |
| `TaskTable` | `TaskManager`: records, ids, pruning |
| `BackgroundTasks` | `TaskRunner`, processes, readers, channel, the UI's poll (EXTENDS `TaskTable`) |
| `MCBackgroundTasks` | the readers of its TLC instance |
| `TurnStream` | a turn: worker, event channel, steering channel, polls, join, cancel, tool records (EXTENDS `TaskTable`) |
| `ToolRecords` | the abstract promise of the tool records: which calls are shown, and how they end; no threads, channels or polls |
| `MCTurnStream` | the worker slots of its TLC instances |
| `TaskTable_proofs` | lemmas about the operations of the table |
| `Vault` | the HBSE vault: versions, policy, tickets, jobs, audit trail and the clients that work on them |
| `TicketBook` | the abstract promise of the ticket store: tickets, their uses, revocation; no clients and no rows |
| `MCVault` | policies and the commands each client of the TLC instances calls |
| `SubagentBoard` | spawn and cancel, the thread and the process of each child, the board file |
| `MCSubagentBoard` | the file scopes of its TLC instances |
| `TrustPolicy` | operators: the evaluation of one skill or pack, and version requirements |
| `DependencyWalk` | the recursive walk over dependencies as a stack, for trust and for resolution (EXTENDS `TrustPolicy`) |
| `MCDependencyWalk` | the registries and policies of its TLC instance |
| `McpPool` | the pool of stdio sessions: calls, attempts, pipes, and servers that may do anything |
| `MCMcpPool` | the server of each call of its TLC instances |
| `BackgroundTasks_proofs`, `TurnStream_proofs`, `Vault_proofs`, `SubagentBoard_proofs`, `DependencyWalk_proofs`, `McpPool_proofs` | theorems about the modules they are named for |

`ApprovalFlow` and `TurnStream` look at the same turn from two sides and are not composed:
approvals do not depend on which events are lost, except for the request itself, which
`ApprovalFlow` has; tool records do not depend on how an approval comes about, only on
whether a wait ends without one (`CutTool`). The board of subagents meets a turn only
through the workers that call the tools, which `SubagentBoard` has as `Agents`, and so
does the MCP pool, where each of their calls is a member of `Calls`. The vault and the MSP
registry run in programs of their own.

### Approvals: state and actions against the code

The id of a request is a hash of the tool's name and arguments, the session key the same,
so a *call* is one model value. `pending` keeps per call whether the allow-list gate
queued it (`command-allow`), which decides whether a session approval also lists the
program. `approved_once` is a set; the model keeps a number per grant instead (0: absent)
so that `grants` and `spent`, which are history, can say which decision a run used. No
action tests these numbers.

`pc` says where a thread is. A worker goes from `idle` (the provider has the floor)
through `commandGate` and `riskGate` to `running`; a gate that finds no approval goes to
`commandAsk` or `riskAsk`, where the request is queued under a lock taken anew, then to
`announce` (the event is sent only when the request is still pending and the UI still
holds the channel) and `waiting`. After an approval it goes through both gates once more
(`retried`); a second refusal ends the turn, as `execute_tool_or_stop_for_approval` does.
The UI thread uses the same gates when it executes an approved call itself and for `/tasks
run` (`UICall`).

`current` is `pending_send`: cancelling a turn sets the token, drops the channel and
leaves the thread, which is then *detached*; the UI may start another worker. A worker's
copy of the allow-list (`allowed`) is the one it was cloned with.

`Bridged` picks the kind of process. In a terminal, turns run in worker threads and an
approved call runs at once when no turn is in flight. A bridge process applies answers
with the same functions, may edit the arguments in the answer, may cancel it, and runs its
turns on its one thread with no wait.

What is one step: a ledger operation with its save (the method saves before it returns,
and save writes the current state under the lock, so a crash between the two is a crash
before the step, and no run starts before consume's save has been tried). What is not: a
failed consume and the request that follows; reading a resolution and acting on it;
sending an event and registering it.

Left out: the dangerous bypass and `clear_pending`; calls refused for other reasons than a
missing approval (unknown tool, bad arguments), which are failed observations with no
effect here; `reject`, `approve_once`, `expire` and `abort_pending`, which nothing outside
the tests calls; what tools do.

### Background tasks

Output is counted in chunks of one read. Each reader thread has its `pipe`; `reader` says
whether it is `reading`, has a chunk in its hands (`sending`), has met a read error and has
its message to send (`failing`), or has returned: at the end of its stream (`done`) or
after the error (`broken`). `queue` is the channel that the readers of a task share, and
`output` are the tasks of which the present poll has taken some for their records. A task
has two readers (`TaskOf`), of stdout and stderr, and both are joined. `RoomAssumption` is
what the code has: for each reader a pipe of 64 KiB, read at most 8 KiB at a time, a chunk
in its hands and a message, against 128 places.

What the output file holds is not in the model, and no property speaks of it. A reader
appends each chunk before it sends it, but ignores a failed append (`tasks.rs` 851), and
appends the text of that read alone, in which a character cut by its end, and whatever is
no UTF-8, is replaced (850); a read error ends it with whatever is still in the pipe
unread (856-861). So the file may lack or alter what the command wrote. What the code does
give, and `OutputIsRead` states, is that when the record says the task has ended nobody is
left to append to the file, and every stream that met no error has been read to an end
that nobody can write past.

A command may leave a process that holds the pipe (`Leaving`), which may go on writing
(`Chatty`); the kill of the process group may miss it. The UI's poll is several steps: it
visits the tasks tracked when it began, joins the readers of those that ended and then
applies all events to the records (`PollEnd`). While it polls, the UI does nothing else.
`Expire` stands for the time limit and the stall limit and does not go back: output that
arrives after the stall limit passed and before the next poll would. All tasks are shell
tasks, so the order of the record table by id is the order of their numbers, and pruning
by position is exact. The states waiting for input and foreground are not entered by the
runner.

The instance merges what the table and the channel can do to each other: two tasks in a
table of one, the first with one reader and output without end, of which a read may fail.
The second reader of a task is in the theorems, which are for any number of readers.

### Turns: state and actions against the code

`stream[w]` is the `sync_channel` of a worker's events, `steer[w]` the one of the user's
messages to it, `injected[w]` what the worker has put into its copy of the session.
`current` is `pending_send`; `active` is the entry of `active_tool_tasks`. Entries are
keyed by the tool's name and do not touch each other, so one command tool is enough, and
an event of another tool is `other`. Events carry the number of their call as history:
`owner` and `outcome` use it to say whether a record ended as its own call did, and no
guard tests it.

`ToolRecords` is what a user may rely on: a call is shown at most once, calls are shown in
their order and one at a time, and as long as no event was `dropped` a record ends as its
call did or is cancelled. In the refinement `shown` is, for each call, the state of the
record whose `owner` it is, `result` is `outcome` and `dropped` is `lost`. It does not
promise that a call is shown: a start that finds an entry is ignored.

A worker is in the `model` (the provider has the floor), in a `tool`, at `observed` (the
ToolEnd is sent, the observation not yet returned; here steering is drained), `closing`
(the last drain is behind it, its receiver not yet dropped) or has returned `ok` or
`failed`. `failed` covers a provider error, a failed save of what the provider produced, a
panic, and a wait for approval that ended without one; the last two leave a call without
ToolEnd. A send to a full channel waits; a send to a dropped one fails at once and the
worker does not look. A detached worker's session goes nowhere, so `Detach` forgets its
messages.

The poll is one call of the UI thread but not one step: the worker sends while the poll
takes (`BeginPoll`, `TakeEvent`, `EndPoll`), up to the budget. The code takes all it may
and then applies them; applying touches only what the UI owns, so taking and applying one
by one is the same. `poll_pending_send` on a thread that has returned is such a poll and
then the drop of the channel. The records of a turn that returned its session are left
alone, those of a failed one are finished, as in the three arms of the match.

Left out: what autonomy and goal mode do between turns (they start turns, which
`StartTurn` allows at any time), artifacts and display, and the headless turn, which has
no channel.

### Subagents: state and actions against the code

Tasks are numbered in the order their records are made, which is that of `created_at`, so
that `compact_subagent_board_records` (the oldest go) is a matter of numbers. `board` is
the status of each record in the file, `scope` its file scope as a set of files: two paths
overlap when there is a file under both. `subagent_board_lock` is a static of the process,
and what a function does under one hold of it is one action.

`spawn_subagent` takes the lock three times: `Count` (the number of active tasks), `Claim`
or `Refuse` (the scopes, and the record is made), `Queue` (the record is saved and the
thread starts). The thread's steps are `Start`, `Launch`, `Await` and `Report`; each of
its saves may fail and the code goes on (`let _ =`), which `Record` has. `Await` is
`child.wait()` with the two joins behind it: a child may leave a process that holds its
pipes (`Leaving`, `held`), and the thread waits until that ends (`LeftoverExits`) or the
read fails (`CaptureFails`). `cancel_subagent`
loads the board, gives the lock up, takes it again and saves all that it loaded
(`LoadToCancel`, `SaveCancelled`); the child is not stopped. `Exit` ends the process:
threads are gone, children and the file are not. `stale`, `cancelled` and `unsaved` are
history.

Left out: a `child.wait()` that fails, which for a child of one's own it does not, the
recovery of a file that cannot be read or is too large, what budgets and checkpoints hold,
and the supervisor type of `subagents.rs`, which only tests construct.

### The vault: state and actions against the code

One secret reference is followed, and the tables are keyed by it. `LocalVault` has no lock
and its store opens a connection for every call and commits by itself, so an operation is
one action per call, and `op[c]` holds the local variables of the client between two of
them: the version it read, the ticket it saw, the list it is revoking. A client may die
between any two (`Crash`), which is also what an early return on a failed call looks like
to everybody else. The broker's loop serves one request at a time and is one client.

`SaveRecord` is INSERT OR REPLACE by reference and version. A use is taken by
`save_ticket_if_current`, which replaces the row only while it is the text that was read
(`ConsumeSave`); all other saves of tickets and jobs are plain. A ticket's `policy` stands
for the id and the hash of the policy it was issued under. Time is a set, `expired`, that
only grows. `data`, `spent` and `shown` are history: which plaintext a version holds,
which uses were taken, what was returned to whom.

Left out: encryption and the key hierarchy, TPM, YubiKey and MFA, export, import and
recovery, the hashes of the audit chain (its append is one immediate transaction and
cannot fork), and the framing of the broker's protocol.

### Trust: operators, state and actions against the code

`TrustPolicy` gives what `evaluate_skill` and `evaluate_pack` decide as the strictest of a
set of decisions, the verification of body and signature, the rejection that replaces a
decision, and `version_matches_requirement` with its strategies and the rules for 0.x and
prereleases.

`DependencyWalk` has the recursion of `evaluate_dependency_trust_inner` as a stack: a
frame is an artifact being visited and `next` the place of its loop. One iteration of the
loop is one action: `Judge` pushes the node of the edge, and it then leads nowhere new
(`Pass`), on (`Descend`) or back into the stack (`Close`, which records the cycle).
`resolve_dependencies_inner` is the same walk with another idea of what to follow (mode
`resolve`): it does not go into packs, so that what is reachable there ends at a pack and
`CyclesAreExact` says nothing of a cycle through one. The pack form of the trust walk
differs in the evaluation of its root only.

Left out: parsing, hashing and signatures as such (`body`, `verifies`), the search index,
publication and execution reports.

### The MCP pool: state and actions against the code

A member of `Calls` is one tool call: `at` is where it is in `request_pooled_stdio`,
`attempt` which of the two calls of `request_pooled_stdio_once` that is. `holder` is the
lock of the pool, which `request_pooled_stdio_once` holds from the look-up to its return;
between the failure of the first attempt and the second (`failed`, `queued`) the call does
not hold it, and another call may restart the session that `Drop` then removes. A process
is named by the call and the attempt that started it, since each attempt starts at most
one.

`asked` are the requests in a process's stdin, `done` those it has carried out and not
answered, `outbox` its stdout. Requests have the id 2 whatever the call, so an answer
carries the call it is for as history only (`of`): `Wanted` tells the id of `initialize`
from that of `tools/call` and no more. A message that cannot be parsed or whose body does
not come in time is `junk`: it is read and the attempt fails. One that breaks off inside a
line is `torn`: `read_line` has no time-out, so the reader stays (`Stuck`) until the
process dies or says more, which is then taken for the rest of the line and leaves the
remainder of that message, whose body holds no line end, torn in its turn. A time-out may
come whenever nothing is there to be read (`NothingComes`), which is also the end of a
closed pipe. Requests are written without a time-out: a large one to a server that no
longer reads stays (`Clogged`).

Servers may carry out what they were asked at any time, in any order and at most once,
answer or not, refuse to start, say what nobody asked, stop reading, die. `runs` and
`soiled` are history: how often a call was carried out, and on which processes a call gave
up waiting.

Left out: HTTP servers, whose sessions are those of the HBSE broker, the discovery of
tools at start-up, which has a session of its own and no pool, and the configuration.

## Runs

| Run | Instance | Shows |
|---|---|---|
| `race` | 2 workers, 1 risky call, 2 grants, 1 restart | no grant is run on twice, across workers, the UI and a restart; refinement of `ApprovalGrants`; waits end after a cancel or a decision |
| `bridge` | 1 worker slot, 2 commands (one sensitive), a read-only call and one the runtime policy refuses, edits, 2 grants, 1 restart, saves may fail | no ungranted run even when memory and file disagree; an approval does not follow an edit |
| `tasks` | 2 tasks, table of 1, task 1 with a reader whose reads may fail, pipe of 1, channel of 3, task 1 may leave a writing process | records, processes and readers agree; ends are final; polls return and tasks end |
| `turn` | 2 worker slots, channel of 2, 1 event a poll, 2 calls, 2 steering messages, a table of 1 | the records implement `ToolRecords` and match their calls, steering is in order, nothing waits for ever |
| `lost` | channel of 4, 1 event a poll; violation of `ToolsEndWithTurn` | a join drops the end of a tool and leaves its record open |
| `tickets` | 2 clients, 2 tickets of 2 uses, one put | a lockdown sticks, the store implements `TicketBook`, where a use is taken once |
| `rotation` | 2 clients, 1 ticket, 1 job, 2 plaintexts, 2 policies | releases are accounted for, only verified rotations are served, tickets for an old version or policy admit nobody |
| `versions` | 1 client, 2 plaintexts; violation of `TicketKeepsItsSecret` | a promotion overwrites a version that was put meanwhile |
| `board` | 1 agent and the terminal, 3 tasks, board of 2, limits 1 and 2, 1 fault, 1 cancellation, child 1 may leave a process behind | children at work are listed, keep their files, and are reported |
| `trust` | every graph of a skill, a second skill and a pack with up to 2 dependencies each, 4 policies, both modes | every edge judged once, cycles exact, verdict that of the graph, the walk ends |
| `pool` | 2 calls of one server, one of them larger than a pipe, 2 attempts each, 2 unasked messages | no process is left behind, answers are true where nobody gave up, calls end |
| `poison` | 2 calls of one server; violation of `AnswersAreOwn` | after a call that timed out twice the next one takes its answer |

Why the bounds are enough to meet the cases: two workers are a visible turn and a detached
one that want the same grant, and a third actor, the UI, can run the call too; two grants
let a second decision follow a spent one; one restart lets a file written before a consume
come back. Two tasks against a table of one make every registration prune. A command
that never stops writing fills its pipe of one and its channel of three, so every thread
can be blocked.
In `turn` a channel of two events against a poll of one already lets a join drop an event
(1024 against 256 in the code), a full channel meets every kind of event, a second call of
the tool follows a call that was cancelled, cut or lost, and the table of one makes the
second registration prune. `lost` needs a longer channel for the end of a tool to be among
what is dropped while its start was taken.

Two clients of the vault and two tickets are what a race for a use, a renewal against a
revocation and a lockdown in the middle of its list take; two uses let a ticket be used,
renewed and used again. Two plaintexts are a put against a rotation. The second policy of
`rotation` allows nothing, so the policy can change after a ticket was issued. In `board` two of
three records fit, so that a child at work can be pushed off the board; one failed save or
exit and one cancellation may hit any step. The graphs of `trust` hold loops of one, two
and three artifacts, joins, an artifact met at two depths, and missing, optional,
unsigned, altered and unreadable dependencies.

Two calls of one server are what a drop of another's session, a left-over answer and a
wait for the lock take; each has two attempts, so there are four processes. Two unasked
messages let a torn one be followed by another. A second server shares nothing with the
first but the lock, and a third call no more than a second does; the proofs cover both.

The bounds: `MaxGrants` (decisions approve-once in all), `MaxRestarts`, `MaxTasks`,
`MaxSteer`, `MaxWrites` (plaintexts handed in), `TicketIds` and
`JobIds` (how many can exist), `MaxFaults` (failed saves and exits of the process),
`MaxCancels`, `MaxSaid` (messages servers send unasked). The deadlock check is off where the system may stop: in `tasks` (a leftover
process that goes on writing holds the UI in its join for ever), in the runs of the vault
and the board (clients are done when their commands and the bounds run out), in
`trust` (the walk ends) and in those of the pool (calls end, or a write is stuck).

Faulty variants of definitions stand beside the originals, marked as such: each checked
property fails when the one `PROJECT.json` names takes its place.

## Fairness

`ApprovalFlow`: a thread that can step does, handlers return (commands have a time limit),
and the UI polls (`app/tui_loop.rs` 28-61, at most 50 ms apart). Nothing is assumed of the
model, the operator or cancellation, so the liveness properties are about what must follow
from a decision or a cancel once made.

`BackgroundTasks`: the loop polls, reader threads run, SIGKILL ends a process and clocks
advance. Commands, users and leftover processes owe nothing, and no read need fail.
`PollReturns` and `TasksEnd` carry the proviso `LeftoversEnd`: leftover processes end, and
while the UI is in its join what the channel holds and the readers may still send
(`Unsent`) is no more than its places. With one that does (`Chatty`) the UI stays
there.

`TurnStream`: the loop polls and joins, and a thread that is neither in the provider nor
in a tool goes on. Providers, tools and users owe nothing; a worker that waits for room to
send is not assumed to get it, that is `ChannelDrains`.

`SubagentBoard`: a task's thread runs. Agents, operators, children and the processes these
leave behind owe nothing, and no read need fail. `EndIsReported` is about children that
could not be started, or have ended and whose output nobody holds: the thread joins the
readers of the output without a time-out (`tools.rs` 4145-4146), so that while a process
left behind has a pipe (`held`) its wait is not enabled and nothing is promised.

`DependencyWalk`: sequential code goes on (`WF_vars(Next)`), for `WalkEnds`.

`McpPool`: a call takes the steps it can, and a wait for a message of which nothing comes
ends, because `poll` has a time-out. Servers owe nothing. Each call takes the lock at most
twice and there are finitely many, so nobody is passed over for ever and weak fairness is
enough. `CallsEnd` carries the proviso that no write and no line is stuck for ever. It
also rests on `MaxSaid`: each message that is not the answer starts the time-out again, so
a server that talks without end holds the lock without end.

`Vault` states no fairness: clients may die anywhere, and nothing is promised to them.

## Proofs

`ApprovalFlow_proofs`, for every set of calls, programs, workers and edits, and every
bound, under the named assumptions of the modules:

- `Typing`: `TypeOK` is inductive by itself, one step per action.
- `Invariance`: `Inv == TypeOK /\ GrantInv /\ RunsAreGranted` is inductive.
  `RunsAreGranted` alone is not: to know that a run stands on a grant for its own call one
  must know it of grants that are stored and of grants in the hands of a thread between
  the gates, and that a grant is in one place. That is `GrantInv`. The actions are first
  sorted into kinds by what they do to grants (`StepKinds`: take, drop, start, give,
  reload, ...); each part of `GrantInv` is then shown over the kinds.
- `RunsGranted`, `GrantsInPlace` and `OncePerGrant` follow. The parts about a grant being
  in one place hold when saves succeed; with failing saves the rest still holds.
- `Refinement`: when saves succeed, every step of the flow is a step of `ApprovalGrants`
  or leaves its state. A restart is the abstract `NewSession`, which needs
  `DiskIsCurrent`; a start is the abstract `Run`, which needs `HeldUnused`.

`BackgroundTasks_proofs`, for any number of tasks, readers, chunks and places:

- `Tracked`, from the inductive `TrackedInv`: a tracked task has an active record *and no
  verdict waiting to be applied*, tasks not yet registered left no trace, and no verdict
  waits outside a poll. Pruning keeps active records (`PrunedKeepsActive`) whatever the
  table's bound.
- `Typing`, `OutputWasRead`, `VerdictsMatch` and `EndsAreFinal`, from `RunInv`: the types,
  what a poll in progress knows (`Polls`: it visits tracked tasks, joins one whose verdict
  is in), and for each task a `Shape`, the combinations of process, readers, record and
  verdict it can be in. `OutputIsRead` says nothing of how an end came about; the shape
  does: a verdict waits only for a task whose readers have returned or are being joined,
  and reaches the record when the poll ends. `Closed` says of each reader by itself that
  the end it came to stays one: the process has ended and nobody holds its pipe.

`TurnStream_proofs`, for any number of workers, calls and messages and every size of
channels, poll and table:

- `OpenToolIsTracked`: with the types, `ForegroundIsTracked` is inductive. Each step of
  the UI registers (only without an entry), ends the record of the entry and drops it, or
  leaves both alone; `TaskTable_proofs` says what each does to the other records.
- `SteeringOrdered`: `SteeringInOrder` speaks of turns in flight and says little of those
  that have returned; `SteerInv` adds that a worker the UI does not hold has no messages,
  which is what a new turn in an old slot needs. The drain and the accepted message are
  facts about concatenation.
- `Typing`: `Typed` has the types as function sets, the calls events carry, and the five
  groups of variables (`PlacesTyped`, `StreamsTyped`, ...) that each step is shown for.
- `RecordsMatch`, from `FlowInv`. The UI finishes whatever is open when an end arrives, so
  the record ends as its call did only if the events still in the channel fit what is open
  now: `Leads` says that taking them one by one leads from the open call to the one the
  worker runs, or to one that was cut off, each end after the start of its own call. A
  send adds a move at the end (`LeadsOn`), a take removes the first (`LeadsBack`), and the
  channel of an `EndJoin` that drops no event of a tool leads nowhere (`LeadsQuiet`).
- `ToolsEndUnlessLost`, from the same invariant: what `lost` shows is the only way a turn
  leaves a record open.
- `RecordsImplemented`: every step is a step of `ToolRecords` or leaves its state. It
  needs `OrderInv`, which holds even when events were dropped: tasks are registered in the
  order of their calls (`Owned`), and a start in the channel is of a later call than any
  that has a record (`Queued`). Registering is then the abstract `Show`, finishing is
  `Settle`, and the record it settles fits because `FlowInv` holds after the step.
- `EndsAreFinal`, from `RecordsImplemented`'s step: a record that has ended is not ended
  again, because `ToolRecords` has no step that would.

`Vault_proofs`, for any clients, tickets, jobs and policies:

- `Typing`: `Typed` adds to `TypeOK` the local variables of every step (`Locals`) and that
  nobody writes past the next version (`VersionsUpTo`).
- `Pointed`: what a client has of a ticket is a copy of it, perhaps an old one. It agrees
  with it in all the ticket was issued with: version, plaintext, policy, claim and session
  (`SameIssue`).
- `UsesAnsweredOnce`, `LockdownHolds` and `BookImplemented`, from `Books`: the uses made
  of a ticket are numbered above what it is still good for (`SpentAbove`), so the next one
  is new; what a client is about to answer for has been taken off (`HandsSpent`). Every
  save of a ticket is an `Issue`, a `Use`, a `Revoke` or a stutter of `TicketBook`
  (`NextBook`), the plain saves of old copies included, because they save revoked ones.
- `ReleasesAccounted`: what is about to be returned is in the audit trail as well
  (`Audited`).
- `StaleRefused`: the version and the policy of a ticket are those of its copies, and
  versions only grow in number.
- `UsesWithinGrant`: a ticket is made, or renewed, with all the uses its policy grants
  (`Fresh`) and only counts down (`Granted`), and no two uses have one number. Hence a
  ticket is used no more often than was granted.
- `SecretsKept`: with `RowsStay`, that no step replaces the plaintext of a stored version,
  `TicketKeepsItsSecret` holds. That property fails in the run `versions`; the theorem says
  that what the run shows is the only way it can. `Secrets` follows a plaintext from the row
  through a ticket in the making (`Promised`), the stored ticket (`Stored`) and its use to
  what is handed out (`Released`). `RowsStay` is no fact about the code, and the other
  theorems do without it.
- `PromotionsVerified`, from `Rotation`: the plaintexts of jobs are numbered as they are
  handed in, each job has its own (`OwnData`), and that of a job which is still staged is
  in no stored row and in the hands of nobody who is about to write one
  (`StagedUnserved`). A client that promotes has read a job that was verified, and the
  status of a stored job never goes back to staged (`JobCopies`), whatever the store holds
  by the time of the save.

`SubagentBoard_proofs`, for any agents, scopes and bounds:

- `Typing`, from `Inv == TypeOK /\ Order`: `Order` has tasks made in their order, each by
  one agent, and a thread and a child only for a task that was made.
- `WorkersAreListed` and `ActiveIsReported`: each step is sorted by what it does to one
  task (`Orderly`); while a thread or a child is at work and nobody has taken its place on
  the board away, its record is active (`Kept`).
- `ScopesStayHeld` and `LimitIsKept`, for one agent, and so not for the race of two spawns
  listed under the findings: a task holds its files and its place
  from the time its record is made (`Claims`), so what the agent counted may shrink before
  it saves and never grow. With a second agent both fail.

`DependencyWalk_proofs`, for every set of registries (hence for graphs of any size) and
policies:

- `Typing` and `EdgesJudged`: `Inv` says that an artifact is on the stack once or visited
  and not both (`Frames`) and how far the loop of each has come (`Loops`); `JudgeInv` that
  the edges before a loop's place are the ones judged.
- `ReportedCyclesAreReal` and `CyclesAreFound`: the stack is a path, so what is reported
  is a cycle; conversely, while no cycle is reported what is visited leads only to what is
  visited and holds no cycle (`Ordered`).
- `VerdictsAreExact`: the conjunction over nodes is the conjunction over the edges of what
  is reachable, and `visited` is exactly that. The order of visits drops out, although the
  test of the depth looks as if it could matter.

`McpPool_proofs`, for any calls, servers and numbers of unasked messages:

- `Typing`, `NoneLeftBehind` and `AnswersStayTrue`, from `Inv`. `AnswersAreTrue` speaks of
  calls that are answered; what must be known before is where a request can be. `Locking`
  says which process the holder of the lock uses, `Attempts` that each attempt starts its
  own, `Traffic` that a request is in one place, on a process still in the pool, and its
  answer in a pipe at most once. `Clean` says that where nobody gave up only the holder's
  request is under way, hence the answer it reads is its own. `Counted` bounds how often a
  call was carried out by its attempts. Most steps only take out of the pipes (`Less`,
  `LessStep`); a request sent, carried out, answered and read have a lemma each.

Every invariant, action property and refinement that a passing run checks is stated by a
theorem. Model-checked only are the liveness properties, because liveness under fairness
is beyond the prover, and of course the violations. Some theorems are of properties no run
lists: `UsesAnsweredOnce` (`OneAnswerPerUse` follows the books that `ImplementsBook`
checks), `LimitIsKept` (`LimitHolds` is `ScopesHeld` with numbers in the place of files),
`OpenToolIsTracked` (`ForegroundIsTracked` is why a call can be shown only when none is),
`EndsAreFinal`, `UsesWithinGrant` (it too follows the books), `ToolsEndUnlessLost` and
`ReportedCyclesAreReal`. `SecretsKept` is about the property that `versions` violates.

## Findings

- `lost` (`app/runtime.rs` 315): the poll before the join takes 256 of up to 1024 events;
  the end of a tool may be among the rest, and its record stays open.
- `versions` (`src/components/HBSE/hbse/src/vault.rs` 1088): a put between start and
  promotion of a rotation takes the number of the staged version; the promotion overwrites
  it, and a ticket for it releases another secret.
- `poison` (`mcp.rs` 189): the second failure of a call leaves its session in the pool
  with the answer still to come; the next call of the server returns that as its own.

More of what the models do is at odds with a document, a comment or what one would expect;
it is in the actions and no run states it:

- approving an unlisted command once does not run it in one go: the allow-list gate
  consumes the grant (`guardrails.rs` 748) and the risk gate asks again (821);
- the worker of a cancelled turn and the next turn's may both look at the scopes of the
  active subagents (`tools.rs` 3542) before either saves its record (3574): two of them
  then own one file;
- a call asked again after it was approved and run cannot be answered through its control
  request, whose record is terminal (`app/runtime.rs` 852);
- a denial after an approve-once leaves the call approved (`guardrails.rs` 192, 307);
- the last output of a command can be missing in its record (`tasks.rs` 795), and its
  output file may lack chunks whose append failed (851), what was behind a read error (860)
  and characters a read cut in two (850);
- a process that left the command's group can hold the UI in a join (`tasks.rs` 796), and
  one that a subagent left behind can hold the thread that would report it, so that the
  record stays active with its files and its place (`tools.rs` 4145);
- a steering message accepted between the worker's last drain (`provider.rs` 6737) and the
  drop of its receiver is reported as queued and never injected (notice at
  `app/runtime.rs` 587);
- a cancelled child is not stopped, and its report overwrites the cancellation (`tools.rs`
  4207); a cancellation saves the whole board it loaded earlier (`tools.rs` 3779), which
  can undo another task's record;
- two renewals of one ticket both leave a successor, and a revocation in between reaches
  neither (`vault.rs` 824);
- a verification saves the job it loaded and so undoes a rollback in between (`vault.rs`
  1054);
- an MCP call that was reported as failed may still be carried out (`mcp.rs` 189), and a
  call that was answered may have been carried out twice;
- a call whose first attempt failed drops whatever session the pool has by then (`mcp.rs`
  187), a healthy one another call started included;
- writing a request and reading a line have no time-out (`mcp.rs` 521, 549), although
  `docs/new-runtime-features.md` 158 says that requests have one, and the lock they are
  done under is that of all servers;
- the resolution of a skill does not go into packs
  (`src/components/msp/crates/msp-registry/src/lib.rs` 1240-1258), so a cycle through one is
  not reported, although `src/components/msp/spec.md` 12 promises "deterministic dependency
  resolution for skill and pack graphs, including cycle/missing-dependency reporting";
- `hbse lockdown` revokes the tickets and does nothing else of what `docs/hbse-usage.md`
  lists for it.

## Not modelled

- The classification of tool batches (`parallelism.rs`) is a pure function of names and
  paths.
- CMS v2: SQLite tables and indexes derived from them; in the plan below.
- The orchestrator, run artifacts, sessions, memory, agent administration, LSL, speech,
  the compatibility server, ACP, Skiller, Solarium, USRL, the desktop window and the
  analysis front ends: sequential code over files, text or external processes.
- Rendering, set-up and scripts have no state a property could be about.
- Two processes on one data root are possible and each rewrites the whole of
  `approvals.json`; no document says that they may share it, and the model has one at a
  time. The last to write wins and may bring a spent grant back. The same holds for
  `subagents.json`.

## Plan

Done: approvals, background tasks, turns, subagents, the vault with its abstract ticket
store, the trust walk and the MCP pool. Next, in this order:

1. `MemoryLedger` (CMS v2): memories with their status and the indexes derived from them
   (`src/components/cms-v2/src/sqlite.rs`, `graph.rs`, `vectors.rs`, `maintenance.rs`),
   where a change of an index is a delete, inserts and a mark, each committed by itself.
   Promise: an index that is marked current is complete, or the check finds it; a
   superseded memory has a successor that is active.
2. Batches of parallel tool calls: `run_parallel_ordered` with workers that fail.
3. Proofs: the part of `ActiveHasThread` and `AnswersAreTrue` that is left to their
   conditions, as characterisations like `ToolsEndUnlessLost` and `SecretsKept`.
