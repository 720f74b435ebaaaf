----------------------------- MODULE TurnStream -----------------------------
(***************************************************************************)
(* A turn of the terminal UI and the two bounded channels between its      *)
(* worker thread and the UI thread (vegvisir/src/app/runtime.rs): events   *)
(* of the turn one way, steering messages of the user the other.  The UI   *)
(* keeps a task record for each run of a command tool, opened and closed   *)
(* by events of the stream.                                                *)
(*                                                                         *)
(* active_tool_tasks has one entry per tool name and the entries do not    *)
(* touch each other: here there is one such tool.  The events of all other *)
(* tools, text and activity are "other".  Events carry the number of their *)
(* call as history: the code's events carry the name of the tool only.     *)
(***************************************************************************)
EXTENDS TaskTable, Sequences

CONSTANTS
  Workers,        \* slots for worker threads, attached or detached
  NoWorker,
  Capacity,       \* STREAM_CHANNEL_CAPACITY
  PerPoll,        \* MAX_STREAM_EVENTS_PER_POLL
  SteerCapacity,  \* STEERING_CHANNEL_CAPACITY
  MaxSteer        \* bound on the steering messages of a turn

ASSUME SlotsAssumption    == NoWorker \notin Workers
ASSUME ChannelsAssumption ==
  /\ Capacity \in Nat \ {0} /\ PerPoll \in Nat \ {0}
  /\ SteerCapacity \in Nat \ {0} /\ MaxSteer \in Nat

VARIABLES
  pc,        \* where each worker is
  at,        \* the call a worker runs (0: none)
  stream,    \* the events in a worker's channel
  steer,     \* the messages in a worker's steering channel
  injected,  \* the messages put into the worker's session
  current,   \* the worker the UI holds in pending_send
  phase,     \* what the UI does with the stream
  budget,    \* the events this poll may still take
  active,    \* the entry of active_tool_tasks (0: none)
  accepted,  \* history: the messages reported as queued, per worker
  outcome,   \* history: how each call ended
  owner,     \* history: the call each task was registered for
  calls,     \* history: the calls so far
  lost       \* history: a join dropped events of a tool

workerVars == <<pc, at, stream, steer, injected>>
uiVars     == <<current, phase, budget, active>>
histVars   == <<accepted, outcome, owner, calls, lost>>
vars       == <<tableVars, workerVars, uiVars, histVars>>

Places   == {"off", "model", "tool", "observed", "closing", "ok", "failed"}
Ready    == {"ok", "failed"}
Kinds    == {"start", "endOk", "endFail", "other"}
Event    == [kind : Kinds, call : Nat]
CallEnds == {"unused", "running", "ok", "fail", "cut"}

Attached(w) == current = w
UIFree      == phase = "idle"
Goto(w, place) == pc' = [pc EXCEPT ![w] = place]

Init ==
  /\ InitTable
  /\ pc       = [w \in Workers |-> "off"]
  /\ at       = [w \in Workers |-> 0]
  /\ stream   = [w \in Workers |-> <<>>]
  /\ steer    = [w \in Workers |-> <<>>]
  /\ injected = [w \in Workers |-> <<>>]
  /\ accepted = [w \in Workers |-> <<>>]
  /\ current  = NoWorker /\ phase = "idle" /\ budget = 0 /\ active = 0
  /\ outcome  = [c \in Tasks |-> "unused"]
  /\ owner    = [t \in Tasks |-> 0]
  /\ calls    = 0 /\ lost = FALSE

-----------------------------------------------------------------------------
(* The worker.                                                             *)

\* Faulty variant: a channel without a bound.
SendUnbounded(w, event) ==
  stream' = IF Attached(w) THEN [stream EXCEPT ![w] = Append(@, event)] ELSE stream

\* A send waits while the channel is full; once the UI has dropped the
\* receiver it fails at once, and the worker does not look.
Send(w, event) ==
  /\ Attached(w) => Len(stream[w]) < Capacity
  /\ stream' = IF Attached(w) THEN [stream EXCEPT ![w] = Append(@, event)] ELSE stream

\* Text, activity, the prompt, output of a running command, other tools.
Chatter(w) ==
  /\ pc[w] \in {"model", "tool"}
  /\ Send(w, [kind |-> "other", call |-> 0])
  /\ UNCHANGED <<tableVars, pc, at, steer, injected, uiVars, histVars>>

StartTool(w) ==
  /\ pc[w] = "model" /\ calls < MaxTasks
  /\ Send(w, [kind |-> "start", call |-> calls + 1])
  /\ Goto(w, "tool")
  /\ at'      = [at EXCEPT ![w] = calls + 1]
  /\ outcome' = [outcome EXCEPT ![calls + 1] = "running"]
  /\ calls'   = calls + 1
  /\ UNCHANGED <<tableVars, steer, injected, uiVars, accepted, owner, lost>>

EndTool(w) ==
  /\ pc[w] = "tool"
  /\ \E ok \in BOOLEAN :
       /\ Send(w, [kind |-> IF ok THEN "endOk" ELSE "endFail", call |-> at[w]])
       /\ outcome' = [outcome EXCEPT ![at[w]] = IF ok THEN "ok" ELSE "fail"]
  /\ Goto(w, "observed")
  /\ at' = [at EXCEPT ![w] = 0]
  /\ UNCHANGED <<tableVars, steer, injected, uiVars, accepted, owner, calls, lost>>

\* A wait for approval that ends without one, or a panic: the turn fails and
\* the call has no ToolEnd.
CutTool(w) ==
  /\ pc[w] = "tool"
  /\ Goto(w, "failed")
  /\ at'      = [at EXCEPT ![w] = 0]
  /\ outcome' = [outcome EXCEPT ![at[w]] = "cut"]
  /\ UNCHANGED <<tableVars, stream, steer, injected, uiVars, accepted, owner, calls, lost>>

\* Faulty variant: the messages are taken and not put into the session.
DrainSteeringAway(w) ==
  /\ steer' = [steer EXCEPT ![w] = <<>>]
  /\ UNCHANGED injected

DrainSteering(w) ==
  /\ injected' = [injected EXCEPT ![w] = @ \o steer[w]]
  /\ steer'    = [steer EXCEPT ![w] = <<>>]

\* inject_steering_into_observation.
Observe(w) ==
  /\ pc[w] = "observed"
  /\ DrainSteering(w)
  /\ Goto(w, "model")
  /\ UNCHANGED <<tableVars, at, stream, uiVars, histVars>>

\* The provider has answered; the channels are drained for the last time ...
Answer(w) ==
  /\ pc[w] = "model"
  /\ DrainSteering(w)
  /\ Goto(w, "closing")
  /\ UNCHANGED <<tableVars, at, stream, uiVars, histVars>>

\* ... and the receiver goes, with what has come in since.
Close(w) ==
  /\ pc[w] = "closing"
  /\ Goto(w, "ok")
  /\ UNCHANGED <<tableVars, at, stream, steer, injected, uiVars, histVars>>

\* The provider fails, or saving what it produced does.
Fail(w) ==
  /\ pc[w] \in {"model", "closing"}
  /\ Goto(w, "failed")
  /\ UNCHANGED <<tableVars, at, stream, steer, injected, uiVars, histVars>>

\* A detached thread returns and nobody joins it.
Reap(w) ==
  /\ pc[w] \in Ready /\ ~Attached(w)
  /\ Goto(w, "off")
  /\ UNCHANGED <<tableVars, at, stream, steer, injected, uiVars, histVars>>

-----------------------------------------------------------------------------
(* The UI: the user's messages.                                            *)

StartTurn(w) ==
  /\ UIFree /\ current = NoWorker /\ pc[w] = "off"
  /\ Goto(w, "model")
  /\ current' = w
  /\ UNCHANGED <<tableVars, at, stream, steer, injected, phase, budget, active, histVars>>

\* A message while a turn is in flight: accepted when the channel has room and
\* its receiver is still there.
Steer(w) ==
  /\ UIFree /\ Attached(w) /\ pc[w] \notin Ready
  /\ Len(accepted[w]) < MaxSteer /\ Len(steer[w]) < SteerCapacity
  /\ LET message == Len(accepted[w]) + 1
     IN  /\ steer'    = [steer EXCEPT ![w] = Append(@, message)]
         /\ accepted' = [accepted EXCEPT ![w] = Append(@, message)]
  /\ UNCHANGED <<tableVars, pc, at, stream, injected, uiVars, outcome, owner, calls, lost>>

-----------------------------------------------------------------------------
(* The UI: polling.                                                        *)

\* Faulty variant: a start replaces the entry an earlier one left.
RegisterToolAnyway(event) ==
  /\ nextId \in Tasks   \* bound: MaxTasks
  /\ record' = Registered(nextId, "foreground")
  /\ nextId' = nextId + 1
  /\ active' = nextId
  /\ owner'  = [owner EXCEPT ![nextId] = event.call]

\* register_task_for_tool_start: a start is ignored while there is an entry.
RegisterTool(event) ==
  IF active # 0 THEN UNCHANGED <<tableVars, active, owner>>
  ELSE /\ nextId \in Tasks   \* bound: MaxTasks
       /\ record' = Registered(nextId, "foreground")
       /\ nextId' = nextId + 1
       /\ active' = nextId
       /\ owner'  = [owner EXCEPT ![nextId] = event.call]

\* complete_task_for_tool_end: the entry goes, and its record ends.
CompleteTool(event) ==
  /\ active' = 0
  /\ record' = IF active = 0 THEN record
               ELSE Finished(record, active, IF event.kind = "endOk" THEN "completed" ELSE "failed")
  /\ UNCHANGED <<nextId, owner>>

\* finish_active_tool_tasks_without_tool_end.
FinishTools(state) ==
  /\ active' = 0
  /\ record' = IF active = 0 THEN record ELSE Finished(record, active, state)
  /\ UNCHANGED <<nextId, owner>>

\* Faulty variant: the stream is read when the thread has returned.
BeginPollAtEnd ==
  /\ UIFree /\ current # NoWorker /\ stream[current] # <<>> /\ pc[current] \in Ready
  /\ phase'  = "poll"
  /\ budget' = PerPoll
  /\ UNCHANGED <<tableVars, workerVars, current, active, histVars>>

\* Each round of the loop polls the stream, up to PerPoll events.
BeginPoll ==
  /\ UIFree /\ current # NoWorker /\ stream[current] # <<>>
  /\ phase'  = "poll"
  /\ budget' = PerPoll
  /\ UNCHANGED <<tableVars, workerVars, current, active, histVars>>

TakeEvent ==
  /\ phase # "idle" /\ budget > 0 /\ stream[current] # <<>>
  /\ budget' = budget - 1
  /\ stream' = [stream EXCEPT ![current] = Tail(@)]
  /\ LET event == Head(stream[current])
     IN  CASE event.kind = "start"              -> RegisterTool(event)
           [] event.kind \in {"endOk", "endFail"} -> CompleteTool(event)
           [] OTHER                             -> UNCHANGED <<tableVars, active, owner>>
  /\ UNCHANGED <<pc, at, steer, injected, current, phase, accepted, outcome, calls, lost>>

Taken == phase # "idle" /\ (budget = 0 \/ stream[current] = <<>>)

EndPoll ==
  /\ phase = "poll" /\ Taken
  /\ phase' = "idle" /\ budget' = 0
  /\ UNCHANGED <<tableVars, workerVars, current, active, histVars>>

\* Faulty variant: a turn without a last event is not taken down.
BeginJoinWithEvents ==
  /\ UIFree /\ current # NoWorker /\ pc[current] \in Ready /\ stream[current] # <<>>
  /\ phase'  = "join"
  /\ budget' = PerPoll
  /\ UNCHANGED <<tableVars, workerVars, current, active, histVars>>

\* poll_pending_send on a thread that has returned: one more poll ...
BeginJoin ==
  /\ UIFree /\ current # NoWorker /\ pc[current] \in Ready
  /\ phase'  = "join"
  /\ budget' = PerPoll
  /\ UNCHANGED <<tableVars, workerVars, current, active, histVars>>

ToolEvents(events) == {i \in DOMAIN events : events[i].kind # "other"}

\* The UI drops its ends of the channels.  What a detached worker does to its
\* session from here on goes nowhere.
Detach(w) ==
  /\ current'  = NoWorker /\ phase' = "idle" /\ budget' = 0
  /\ stream'   = [stream EXCEPT ![w] = <<>>]
  /\ steer'    = [steer EXCEPT ![w] = <<>>]
  /\ injected' = [injected EXCEPT ![w] = <<>>]
  /\ accepted' = [accepted EXCEPT ![w] = <<>>]

\* ... and the channel is dropped with the rest.  The tasks of a failed turn
\* are finished; those of a turn that returned its session are left alone.
EndJoin ==
  /\ phase = "join" /\ Taken
  /\ lost' = (lost \/ ToolEvents(stream[current]) # {})
  /\ \/ pc[current] = "ok" /\ UNCHANGED <<tableVars, active, owner>>
     \/ pc[current] = "failed" /\ FinishTools("failed")
  /\ Goto(current, "off")
  /\ Detach(current)
  /\ UNCHANGED <<at, outcome, calls>>

\* Faulty variant: the tasks of the cancelled turn are left to its end.
CancelTurnOnly(w) ==
  /\ UIFree /\ Attached(w)
  /\ Detach(w)
  /\ UNCHANGED <<tableVars, active, owner, pc, at, outcome, calls, lost>>

\* cancel_pending_response, and turn_repair on an idle turn.
CancelTurn(w) ==
  /\ UIFree /\ Attached(w)
  /\ FinishTools("cancelled")
  /\ Detach(w)
  /\ UNCHANGED <<pc, at, outcome, calls, lost>>

-----------------------------------------------------------------------------
ToolSteps(w) == StartTool(w) \/ EndTool(w) \/ CutTool(w)
Thread(w)    == Observe(w) \/ Close(w) \/ Reap(w)
User(w)      == StartTurn(w) \/ Steer(w) \/ CancelTurn(w)
UILoop       == BeginPoll \/ TakeEvent \/ EndPoll \/ BeginJoin \/ EndJoin

Next ==
  \/ UILoop
  \/ \E w \in Workers :
       User(w) \/ Thread(w) \/ ToolSteps(w) \/ Chatter(w) \/ Answer(w) \/ Fail(w)

Safety == Init /\ [][Next]_vars

\* The main loop runs, and threads that are neither in the provider nor in a
\* tool do.  A thread that is in a send goes on when there is room.
Fairness ==
  /\ WF_vars(UILoop)
  /\ \A w \in Workers : WF_vars(Thread(w))

Spec == Safety /\ Fairness

-----------------------------------------------------------------------------
TypeOK ==
  /\ record \in [Tasks -> States] /\ nextId \in 1..MaxTasks + 1
  /\ pc \in [Workers -> Places]
  /\ at \in [Workers -> 0..MaxTasks]
  /\ \A w \in Workers :
       /\ stream[w] \in Seq(Event) /\ Len(stream[w]) <= Capacity
       /\ \A s \in {steer[w], injected[w], accepted[w]} : s \in Seq(1..MaxSteer)
       /\ Len(steer[w]) <= SteerCapacity
       /\ (stream[w] # <<>> => Attached(w))
       /\ (at[w] # 0 <=> pc[w] = "tool")
  /\ current \in Workers \union {NoWorker}
  /\ phase \in {"idle", "poll", "join"} /\ budget \in 0..PerPoll
  /\ active \in 0..MaxTasks
  /\ outcome \in [Tasks -> CallEnds] /\ owner \in [Tasks -> 0..MaxTasks]
  /\ calls \in 0..MaxTasks /\ lost \in BOOLEAN
  /\ (current = NoWorker => UIFree)

\* The state of a call's record, if it was given one.
Shown(c) == LET of == {t \in Tasks : owner[t] = c}
            IN  IF of = {} THEN "none" ELSE record[CHOOSE t \in of : TRUE]

Records == INSTANCE ToolRecords WITH
             Calls <- Tasks, result <- outcome, shown <- [c \in Tasks |-> Shown(c)],
             dropped <- lost

\* Whatever turns fail, are cancelled or go on detached, and however the polls
\* fall, the task records are ToolRecords: a call is shown once at most and in
\* its turn, one at a time, and ends as it did unless it was cancelled or an event
\* was dropped (app/runtime.rs 750-764, 1175-1243).
ImplementsRecords == Records!RecordsSpec

\* Every record of a running tool is the one the next end of that tool, the
\* failure or the cancellation of a turn will finish (app/runtime.rs 750-764,
\* 1175-1243): no record is left that nothing can end.  The table may hold
\* fewer records than tools ran.
ForegroundIsTracked == \A t \in Tasks : record[t] = "foreground" <=> active = t

\* As long as no join has dropped an event of a tool, a record ends as its own
\* call did, whatever turns were cancelled, failed or detached since: completed
\* if the call succeeded, failed if it failed, was cut off, or was never begun
\* again in a turn that failed.
RecordMatchesCall ==
  ~lost => \A t \in Tasks :
    /\ record[t] = "completed" => outcome[owner[t]] = "ok"
    /\ record[t] = "failed"    => outcome[owner[t]] \in {"fail", "cut"}

\* Steering messages reach the worker's session in the order they were accepted,
\* none twice, and until the turn closes none is dropped.
SteeringInOrder ==
  \A w \in Workers :
    /\ pc[w] \notin Ready => injected[w] \o steer[w] = accepted[w]
    /\ \A i \in DOMAIN injected[w] : injected[w][i] = accepted[w][i]

\* A turn whose thread has returned is taken down: the next one can start.
TurnIsJoined  == \A w \in Workers : pc[w] \in Ready ~> pc[w] = "off"
FullChannel(w) == Attached(w) /\ Len(stream[w]) = Capacity

\* A thread that waits for room in the channel gets it, or is told that nobody
\* listens any more: the bounded channel never stops a turn for ever.
ChannelDrains == \A w \in Workers : FullChannel(w) ~> ~FullChannel(w)

\* What the comment in poll_pending_send (app/runtime.rs 310-313) says its last
\* poll is for: no final ToolEnd is lost, so no tool task outlives its turn.
ToolsEndWithTurn == current = NoWorker => active = 0
=============================================================================
