------------------------- MODULE TurnStream_proofs -------------------------
(***************************************************************************)
(* Proofs that a turn loses no tool record and misplaces no steering       *)
(* message, that records end as their calls did, and that the records are  *)
(* those of ToolRecords, for every number of workers and tools and every   *)
(* size of the channels, of the poll and of the table.                     *)
(***************************************************************************)
EXTENDS TurnStream, TaskTable_proofs, SequenceTheorems

-----------------------------------------------------------------------------
(* The open tool record.                                                   *)

\* The inductive strengthening: the types the steps of the table need.
ToolInv ==
  /\ record \in [Tasks -> States]
  /\ active \in Tasks \union {0}
  /\ ForegroundIsTracked

\* The steps that touch neither the table nor active_tool_tasks.
LEMMA QuietStep == ToolInv /\ UNCHANGED <<record, active>> => ToolInv'
BY DEF ToolInv, ForegroundIsTracked

LEMMA InitTool == Init => ToolInv
BY DEF Init, InitTable, ToolInv, ForegroundIsTracked, Tasks, States

\* A step that finishes the open record, if there is one, and drops the entry.
LEMMA FinishStep ==
  ASSUME ToolInv, NEW state \in Ended, active' = 0,
         record' = IF active = 0 THEN record ELSE Finished(record, active, state)
  PROVE  ToolInv'
<1>1. record' \in [Tasks -> States] /\ \A t \in Tasks : record'[t] # "foreground"
  <2>1. CASE active = 0
    BY <2>1 DEF ToolInv, ForegroundIsTracked, Tasks
  <2>2. CASE active # 0
    <3>1. active \in Tasks
      BY <2>2 DEF ToolInv
    <3>2. /\ Finished(record, active, state) \in [Tasks -> States]
          /\ Finished(record, active, state)[active] \notin Active
          /\ \A u \in Tasks \ {active} : Finished(record, active, state)[u] = record[u]
      BY <3>1, FinishedEnds DEF ToolInv
    <3> QED
      BY <2>2, <3>1, <3>2 DEF ToolInv, ForegroundIsTracked, Active
  <2> QED
    BY <2>1, <2>2
<1> QED
  BY <1>1 DEF ToolInv, ForegroundIsTracked, Tasks

LEMMA RegisterStep ==
  ASSUME ToolInv, NEW event, RegisterTool(event)
  PROVE  ToolInv'
<1>1. CASE active # 0
  BY <1>1, QuietStep DEF RegisterTool, tableVars
<1>2. CASE active = 0
  <2>1. /\ nextId \in Tasks /\ active' = nextId
        /\ record' = Registered(nextId, "foreground")
    BY <1>2 DEF RegisterTool
  <2>2. /\ record' \in [Tasks -> States]
        /\ record'[nextId] = "foreground"
        /\ \A u \in Tasks \ {nextId} : record'[u] \in {record[u], "evicted"}
    BY <2>1, RegisteredKeepsActive DEF ToolInv, Active
  <2>3. \A u \in Tasks : record[u] # "foreground"
    BY <1>2 DEF ToolInv, ForegroundIsTracked, Tasks
  <2> QED
    BY <2>1, <2>2, <2>3 DEF ToolInv, ForegroundIsTracked
<1> QED
  BY <1>1, <1>2

LEMMA NextTool == ToolInv /\ [Next]_vars => ToolInv'
<1> SUFFICES ASSUME ToolInv, [Next]_vars PROVE ToolInv'
  OBVIOUS
<1>1. ASSUME NEW w \in Workers,
             StartTurn(w) \/ Steer(w) \/ Thread(w) \/ ToolSteps(w) \/ Chatter(w)
               \/ Answer(w) \/ Fail(w)
      PROVE  ToolInv'
  BY <1>1, QuietStep
  DEF StartTurn, Steer, Thread, Observe, Close, Reap, ToolSteps, StartTool, EndTool, CutTool,
      Chatter, Answer, Fail, tableVars, uiVars
<1>2. ASSUME NEW w \in Workers, CancelTurn(w) PROVE ToolInv'
  BY <1>2, FinishStep DEF CancelTurn, FinishTools, Ended
<1>3. CASE BeginPoll \/ EndPoll \/ BeginJoin
  BY <1>3, QuietStep DEF BeginPoll, EndPoll, BeginJoin, tableVars
<1>4. CASE TakeEvent
  <2>1. PICK event : \/ RegisterTool(event)
                     \/ CompleteTool(event)
                     \/ UNCHANGED <<tableVars, active, owner>>
    BY <1>4 DEF TakeEvent
  <2>2. CASE CompleteTool(event)
    BY <2>2, FinishStep DEF CompleteTool, Ended
  <2> QED
    BY <2>1, <2>2, RegisterStep, QuietStep DEF tableVars
<1>5. CASE EndJoin
  BY <1>5, FinishStep, QuietStep DEF EndJoin, FinishTools, Ended, tableVars
<1>6. CASE UNCHANGED vars
  BY <1>6, QuietStep DEF vars, tableVars, uiVars
<1> QED
  BY <1>1, <1>2, <1>3, <1>4, <1>5, <1>6 DEF Next, UILoop, User

\* Every open tool record is the one active_tool_tasks names (app/runtime.rs
\* 1175-1243), so the next end of the tool, or of the turn, finishes it.
THEOREM OpenToolIsTracked == Safety => []ForegroundIsTracked
<1>1. ToolInv => ForegroundIsTracked
  BY DEF ToolInv
<1> QED
  BY <1>1, InitTool, NextTool, PTL DEF Safety

-----------------------------------------------------------------------------
(* The steering messages.                                                  *)

\* What the messages of a worker look like: the UI that detaches forgets them,
\* and a running turn has each one it accepted in the session or in the channel.
WorkerSteering(w) ==
  /\ steer[w] \in Seq(Nat) /\ injected[w] \in Seq(Nat) /\ accepted[w] \in Seq(Nat)
  /\ ~Attached(w) => steer[w] = <<>> /\ injected[w] = <<>> /\ accepted[w] = <<>>
  /\ pc[w] \notin Ready => injected[w] \o steer[w] = accepted[w]
  /\ \A i \in DOMAIN injected[w] : injected[w][i] = accepted[w][i]

SteerInv ==
  /\ pc \in [Workers -> Places]
  /\ steer    \in [Workers -> Seq(Nat)]
  /\ injected \in [Workers -> Seq(Nat)]
  /\ accepted \in [Workers -> Seq(Nat)]
  /\ current \in Workers \union {NoWorker}
  /\ \A w \in Workers : WorkerSteering(w)

\* A message appended to the channel is appended to the whole.
LEMMA ConcatAppend ==
  ASSUME NEW S, NEW s \in Seq(S), NEW t \in Seq(S), NEW e \in S
  PROVE  s \o Append(t, e) = Append(s \o t, e)
<1>1. /\ s \o Append(t, e) \in Seq(S) /\ Append(s \o t, e) \in Seq(S)
      /\ Len(s \o Append(t, e)) = Len(s) + Len(t) + 1
      /\ Len(Append(s \o t, e)) = Len(s) + Len(t) + 1
  OBVIOUS
<1>2. \A i \in 1..Len(s) + Len(t) + 1 : (s \o Append(t, e))[i] = Append(s \o t, e)[i]
  OBVIOUS
<1> QED
  BY <1>1, <1>2, SeqEqual

\* What is accepted starts with what is injected.
LEMMA ConcatPrefix ==
  ASSUME NEW S, NEW s \in Seq(S), NEW t \in Seq(S)
  PROVE  \A i \in DOMAIN s : (s \o t)[i] = s[i]
OBVIOUS

LEMMA InitSteering == Init => SteerInv
<1> SUFFICES ASSUME Init PROVE SteerInv
  OBVIOUS
<1>1. <<>> \in Seq(Nat) /\ <<>> \o <<>> = <<>> /\ DOMAIN <<>> = {}
  BY EmptySeq, ConcatEmptySeq
<1> QED
  BY <1>1 DEF Init, SteerInv, WorkerSteering, Places

\* The steps that move messages nowhere: a worker may go on to any place it may
\* reach without a drain.
LEMMA QuietSteering ==
  ASSUME SteerInv, NEW w \in Workers, NEW place \in Places,
         pc' = pc \/ (pc[w] # "ok" /\ pc[w] # "failed" /\ Goto(w, place))
                  \/ (~Attached(w) /\ Goto(w, place)),
         UNCHANGED <<steer, injected, accepted, current>>
  PROVE  SteerInv'
<1>1. pc' \in [Workers -> Places]
  BY DEF SteerInv, Goto
<1>2. ASSUME NEW v \in Workers PROVE WorkerSteering(v)'
  <2>1. WorkerSteering(v)
    BY DEF SteerInv
  <2>2. CASE pc'[v] \in Ready \/ pc[v] \notin Ready
    BY <2>1, <2>2 DEF WorkerSteering, Attached
  <2>3. CASE pc'[v] \notin Ready /\ pc[v] \in Ready
    <3>1. v = w /\ ~Attached(w)
      BY <2>3 DEF Goto, SteerInv, Ready
    <3>2. <<>> \o <<>> = <<>>
      BY EmptySeq, ConcatEmptySeq
    <3> QED
      BY <2>1, <3>1, <3>2 DEF WorkerSteering, Attached
  <2> QED
    BY <2>2, <2>3
<1> QED
  BY <1>1, <1>2 DEF SteerInv

\* A drain (provider.rs 6122-6144) in a worker that goes on.
LEMMA DrainKeepsOrder ==
  ASSUME SteerInv, NEW w \in Workers, NEW place \in Places,
         pc[w] \notin Ready, DrainSteering(w), Goto(w, place),
         UNCHANGED <<accepted, current>>
  PROVE  SteerInv'
<1> DEFINE whole == injected[w] \o steer[w]
<1>1. WorkerSteering(w)
  BY DEF SteerInv
<1>2. whole \in Seq(Nat) /\ whole = accepted[w] /\ whole \o <<>> = whole /\ <<>> \in Seq(Nat)
  BY <1>1, EmptySeq, ConcatEmptySeq, ConcatProperties DEF WorkerSteering
<1>3. /\ pc' \in [Workers -> Places]
      /\ injected' = [injected EXCEPT ![w] = whole]
      /\ steer' = [steer EXCEPT ![w] = <<>>]
  BY DEF SteerInv, Goto, DrainSteering
<1>4. injected' \in [Workers -> Seq(Nat)] /\ steer' \in [Workers -> Seq(Nat)]
  BY <1>2, <1>3 DEF SteerInv
<1>5. ASSUME NEW v \in Workers PROVE WorkerSteering(v)'
  <2>1. CASE v = w
    <3>1. injected'[w] = whole /\ steer'[w] = <<>> /\ accepted'[w] = whole
      BY <1>2, <1>3 DEF SteerInv
    <3>2. ~Attached(w) => whole = <<>>
      BY <1>1, <1>2 DEF WorkerSteering
    <3> HIDE DEF whole
    <3> QED
      BY <2>1, <1>2, <3>1, <3>2 DEF WorkerSteering, Attached
  <2>2. CASE v # w
    <3>1. /\ injected'[v] = injected[v] /\ steer'[v] = steer[v]
          /\ pc'[v] = pc[v] /\ WorkerSteering(v)
      BY <2>2, <1>3 DEF SteerInv, Goto
    <3> QED
      BY <3>1 DEF WorkerSteering, Attached
  <2> QED
    BY <2>1, <2>2
<1> QED
  BY <1>3, <1>4, <1>5 DEF SteerInv

\* A message accepted (app/runtime.rs 555-607) while the turn runs.
LEMMA SteerKeepsOrder ==
  ASSUME SteerInv, NEW w \in Workers, Steer(w)
  PROVE  SteerInv'
<1> DEFINE message == Len(accepted[w]) + 1
<1>1. WorkerSteering(w) /\ pc[w] \notin Ready /\ Attached(w) /\ message \in Nat
  BY DEF SteerInv, Steer, WorkerSteering
<1>2. /\ steer' = [steer EXCEPT ![w] = Append(@, message)]
      /\ accepted' = [accepted EXCEPT ![w] = Append(@, message)]
      /\ UNCHANGED <<pc, injected, current>>
  BY DEF Steer, uiVars
<1> HIDE DEF message
<1>3. steer' \in [Workers -> Seq(Nat)] /\ accepted' \in [Workers -> Seq(Nat)]
  BY <1>1, <1>2, AppendProperties DEF SteerInv
<1>4. ASSUME NEW v \in Workers PROVE WorkerSteering(v)'
  <2>1. CASE v = w
    <3>1. /\ steer'[w] = Append(steer[w], message)
          /\ accepted'[w] = Append(accepted[w], message)
          /\ injected'[w] = injected[w] /\ pc'[w] = pc[w] /\ current' = current
      BY <1>2 DEF SteerInv
    <3>2. injected'[w] \o steer'[w] = accepted'[w]
      <4>1. injected[w] \o steer[w] = accepted[w]
        BY <1>1 DEF WorkerSteering
      <4>2. injected[w] \in Seq(Nat) /\ steer[w] \in Seq(Nat) /\ message \in Nat
        BY <1>1 DEF WorkerSteering
      <4>3. injected[w] \o Append(steer[w], message) = Append(injected[w] \o steer[w], message)
        <5>1. \A s, t \in Seq(Nat), e \in Nat : s \o Append(t, e) = Append(s \o t, e)
          BY ConcatAppend
        <5> QED
          BY ONLY <4>2, <5>1, Zenon
      <4> QED
        BY <3>1, <4>1, <4>3
    <3>3. \A i \in DOMAIN injected'[w] : injected'[w][i] = accepted'[w][i]
      <4>1. injected'[w] \in Seq(Nat) /\ steer'[w] \in Seq(Nat)
        BY <1>1, <1>3, <3>1 DEF WorkerSteering
      <4>2. \A i \in DOMAIN injected'[w] : (injected'[w] \o steer'[w])[i] = injected'[w][i]
        BY ONLY <4>1, ConcatPrefix, Zenon
      <4> QED
        BY <3>2, <4>2, Zenon
    <3> QED
      BY <1>1, <1>3, <2>1, <3>1, <3>2, <3>3 DEF WorkerSteering, Attached, SteerInv
  <2>2. CASE v # w
    <3>1. /\ accepted'[v] = accepted[v] /\ steer'[v] = steer[v] /\ WorkerSteering(v)
      BY <2>2, <1>2 DEF SteerInv
    <3> QED
      BY <1>2, <3>1 DEF WorkerSteering, Attached
  <2> QED
    BY <2>1, <2>2
<1> QED
  BY <1>2, <1>3, <1>4 DEF SteerInv

\* The UI lets go of its worker, wherever that is.
LEMMA DetachKeepsOrder ==
  ASSUME SteerInv, NEW w, Attached(w), Detach(w),
         pc' = pc \/ Goto(w, "off")
  PROVE  SteerInv'
<1>1. <<>> \in Seq(Nat) /\ <<>> \o <<>> = <<>> /\ DOMAIN <<>> = {}
  BY EmptySeq, ConcatEmptySeq
<1>2. pc' \in [Workers -> Places]
  BY DEF SteerInv, Goto, Places
<1>3. /\ steer' \in [Workers -> Seq(Nat)] /\ injected' \in [Workers -> Seq(Nat)]
      /\ accepted' \in [Workers -> Seq(Nat)] /\ current' = NoWorker
  BY <1>1 DEF SteerInv, Detach
<1>4. ASSUME NEW v \in Workers PROVE WorkerSteering(v)'
  <2>1. CASE v = w
    BY <1>1, <2>1 DEF Detach, WorkerSteering, SteerInv
  <2>2. CASE v # w
    <3>1. /\ WorkerSteering(v) /\ pc'[v] = pc[v] /\ ~Attached(v)
          /\ steer'[v] = steer[v] /\ injected'[v] = injected[v] /\ accepted'[v] = accepted[v]
      BY <2>2 DEF SteerInv, Detach, Goto, Attached
    <3> QED
      BY <3>1 DEF WorkerSteering
  <2> QED
    BY <2>1, <2>2
<1> QED
  BY <1>2, <1>3, <1>4 DEF SteerInv

LEMMA NextSteering == SteerInv /\ [Next]_vars => SteerInv'
<1> SUFFICES ASSUME SteerInv, [Next]_vars PROVE SteerInv'
  OBVIOUS
<1>a. pc \in [Workers -> Places]
  BY DEF SteerInv
<1>1. ASSUME NEW w \in Workers,
             StartTool(w) \/ EndTool(w) \/ CutTool(w) \/ Chatter(w) \/ Close(w) \/ Fail(w)
      PROVE  SteerInv'
  <2>1. /\ UNCHANGED <<steer, injected, accepted, current>>
        /\ pc[w] # "ok" /\ pc[w] # "failed"
        /\ pc' = pc \/ \E place \in Places : Goto(w, place)
    BY <1>1 DEF StartTool, EndTool, CutTool, Chatter, Close, Fail, uiVars, histVars, Places
  <2> QED
    BY <2>1, QuietSteering DEF Places
<1>2. ASSUME NEW w \in Workers, Reap(w) PROVE SteerInv'
  BY <1>2, QuietSteering DEF Reap, Places, uiVars, histVars
<1>3. ASSUME NEW w \in Workers, Observe(w) \/ Answer(w) PROVE SteerInv'
  <2>1. /\ pc[w] \notin Ready /\ DrainSteering(w)
        /\ UNCHANGED <<accepted, current>>
        /\ \E place \in Places : Goto(w, place)
    BY <1>3 DEF Observe, Answer, Ready, Places, uiVars, histVars
  <2> QED
    BY <2>1, DrainKeepsOrder
<1>4. ASSUME NEW w \in Workers, StartTurn(w) PROVE SteerInv'
  <2>1. /\ current = NoWorker /\ current' = w /\ pc' \in [Workers -> Places]
        /\ \A v \in Workers : pc'[v] \in Ready <=> pc[v] \in Ready
        /\ UNCHANGED <<steer, injected, accepted>>
    BY <1>4, <1>a DEF StartTurn, Goto, Ready, Places, histVars
  <2>2. \A v \in Workers : ~Attached(v)
    BY <2>1, SlotsAssumption DEF Attached
  <2>3. \A v \in Workers : WorkerSteering(v)'
    BY <2>1, <2>2 DEF SteerInv, WorkerSteering, Attached
  <2> QED
    BY <2>1, <2>3 DEF SteerInv
<1>5. ASSUME NEW w \in Workers, Steer(w) PROVE SteerInv'
  BY <1>5, SteerKeepsOrder
<1>6. ASSUME NEW w \in Workers, CancelTurn(w) PROVE SteerInv'
  BY <1>6, DetachKeepsOrder DEF CancelTurn
<1>7. CASE BeginPoll \/ TakeEvent \/ EndPoll \/ BeginJoin
  <2>1. UNCHANGED <<pc, steer, injected, accepted, current>>
    BY <1>7 DEF BeginPoll, TakeEvent, EndPoll, BeginJoin, workerVars, histVars
  <2> QED
    BY <2>1 DEF SteerInv, WorkerSteering, Attached
<1>8. CASE EndJoin
  BY <1>8, DetachKeepsOrder DEF EndJoin, Attached
<1>9. CASE UNCHANGED vars
  BY <1>9 DEF vars, workerVars, uiVars, histVars, SteerInv, WorkerSteering, Attached
<1> QED
  BY <1>1, <1>2, <1>3, <1>4, <1>5, <1>6, <1>7, <1>8, <1>9
  DEF Next, UILoop, User, Thread, ToolSteps

\* Whatever is accepted from the user while a turn runs (app/runtime.rs 555-607)
\* is put into the session in that order, once, and nothing is dropped before
\* the turn closes.
THEOREM SteeringOrdered == Safety => []SteeringInOrder
<1>1. SteerInv => SteeringInOrder
  BY DEF SteerInv, WorkerSteering, SteeringInOrder
<1> QED
  BY <1>1, InitSteering, NextSteering, PTL DEF Safety

-----------------------------------------------------------------------------
(* Typing.                                                                 *)

\* An event that was sent carries no call, or one that was begun.
Sent == [kind : Kinds, call : 0..MaxTasks]

PlacesTyped ==
  /\ pc \in [Workers -> Places]
  /\ at \in [Workers -> 0..MaxTasks]
  /\ \A w \in Workers : at[w] # 0 <=> pc[w] = "tool"
  /\ outcome \in [Tasks -> CallEnds]
  /\ calls \in 0..MaxTasks

\* A worker that is not attached has nothing in its channel.
StreamsTyped ==
  /\ stream \in [Workers -> Seq(Sent)]
  /\ \A w \in Workers : Len(stream[w]) <= Capacity /\ (stream[w] # <<>> => Attached(w))

MessagesTyped ==
  /\ steer    \in [Workers -> Seq(1..MaxSteer)]
  /\ injected \in [Workers -> Seq(1..MaxSteer)]
  /\ accepted \in [Workers -> Seq(1..MaxSteer)]
  /\ \A w \in Workers : Len(steer[w]) <= SteerCapacity

UITyped ==
  /\ current \in Workers \union {NoWorker}
  /\ phase \in {"idle", "poll", "join"} /\ budget \in 0..PerPoll
  /\ lost \in BOOLEAN
  /\ current = NoWorker => UIFree

RecordsTyped ==
  /\ record \in [Tasks -> States] /\ nextId \in 1..MaxTasks + 1
  /\ active \in 0..MaxTasks
  /\ owner \in [Tasks -> 0..MaxTasks]

Typed == PlacesTyped /\ StreamsTyped /\ MessagesTyped /\ UITyped /\ RecordsTyped

LEMMA TypedIsTypeOK == Typed => TypeOK
<1> SUFFICES ASSUME Typed PROVE TypeOK
  OBVIOUS
<1>1. Sent \subseteq Event /\ 0..MaxTasks \subseteq Nat
  BY MaxTasksAssumption DEF Sent, Event
<1>2. \A w \in Workers : stream[w] \in Seq(Event)
  <2> TAKE w \in Workers
  <2>1. stream[w] \in Seq(Sent)
    BY DEF Typed, StreamsTyped
  <2> QED
    BY <1>1, <2>1
<1>3. \A w \in Workers : \A s \in {steer[w], injected[w], accepted[w]} : s \in Seq(1..MaxSteer)
  BY DEF Typed, MessagesTyped
<1> QED
  BY <1>2, <1>3 DEF Typed, PlacesTyped, StreamsTyped, MessagesTyped, UITyped, RecordsTyped, TypeOK

LEMMA InitTyped == Init => Typed
<1> SUFFICES ASSUME Init PROVE Typed
  OBVIOUS
<1>1. <<>> \in Seq(Sent) /\ <<>> \in Seq(1..MaxSteer) /\ Len(<<>>) = 0
  BY EmptySeq
<1>2. PlacesTyped
  BY MaxTasksAssumption DEF Init, PlacesTyped, Places, CallEnds
<1>3. StreamsTyped /\ MessagesTyped
  BY <1>1, ChannelsAssumption DEF Init, StreamsTyped, MessagesTyped
<1>4. UITyped
  <2>1. lost \in BOOLEAN
    BY Zenon DEF Init
  <2>2. current = NoWorker /\ phase = "idle" /\ budget = 0 /\ PerPoll \in Nat
    BY ChannelsAssumption DEF Init
  <2> QED
    BY <2>1, <2>2 DEF UITyped, UIFree
<1>5. RecordsTyped
  BY MaxTasksAssumption DEF Init, InitTable, RecordsTyped, States
<1> QED
  BY <1>2, <1>3, <1>4, <1>5 DEF Typed

LEMMA NextPlacesTyped == Typed /\ [Next]_vars => PlacesTyped'
<1> SUFFICES ASSUME Typed, [Next]_vars PROVE PlacesTyped'
  OBVIOUS
<1> USE DEF PlacesTyped
<1>a. PlacesTyped /\ current \in Workers \union {NoWorker}
  BY DEF Typed, UITyped
\* The worker goes on, and is neither in a tool nor enters one.
<1>b. ASSUME NEW w \in Workers, NEW place \in Places \ {"tool"}, Goto(w, place), pc[w] # "tool",
             UNCHANGED <<at, outcome, calls>>
      PROVE  PlacesTyped'
  BY <1>a, <1>b DEF Goto
<1>c. UNCHANGED <<pc, at, outcome, calls>> => PlacesTyped'
  BY <1>a
<1>1. ASSUME NEW w \in Workers, StartTool(w) PROVE PlacesTyped'
  <2>1. calls + 1 \in Tasks /\ calls + 1 \in 0..MaxTasks /\ calls + 1 # 0
    BY <1>1, <1>a, MaxTasksAssumption DEF StartTool, Tasks
  <2>2. /\ pc' = [pc EXCEPT ![w] = "tool"] /\ at' = [at EXCEPT ![w] = calls + 1]
        /\ outcome' = [outcome EXCEPT ![calls + 1] = "running"] /\ calls' = calls + 1
    BY <1>1 DEF StartTool, Goto
  <2> QED
    BY <1>a, <2>1, <2>2 DEF Places, CallEnds
<1>2. ASSUME NEW w \in Workers, EndTool(w) \/ CutTool(w) PROVE PlacesTyped'
  <2>1. PICK place \in {"observed", "failed"}, end \in {"ok", "fail", "cut"} :
          /\ pc' = [pc EXCEPT ![w] = place] /\ at' = [at EXCEPT ![w] = 0]
          /\ outcome' = [outcome EXCEPT ![at[w]] = end] /\ calls' = calls
    BY <1>2 DEF EndTool, CutTool, Goto
  <2>2. place \in Places \ {"tool"} /\ end \in CallEnds /\ 0 \in 0..MaxTasks
    BY MaxTasksAssumption DEF Places, CallEnds
  <2>3. outcome' \in [Tasks -> CallEnds]
    BY <1>a, <2>1, <2>2
  <2> HIDE DEF PlacesTyped
  <2> QED
    BY <1>a, <2>1, <2>2, <2>3 DEF PlacesTyped
<1>3. ASSUME NEW w \in Workers, Thread(w) \/ Answer(w) \/ Fail(w) \/ StartTurn(w)
      PROVE  PlacesTyped'
  BY <1>3, <1>b DEF Thread, Observe, Close, Reap, Answer, Fail, StartTurn, histVars, Places, Ready
<1>4. ASSUME NEW w \in Workers, Chatter(w) \/ Steer(w) \/ CancelTurn(w) PROVE PlacesTyped'
  BY <1>4, <1>c DEF Chatter, Steer, CancelTurn, histVars
<1>5. CASE BeginPoll \/ TakeEvent \/ EndPoll \/ BeginJoin
  BY <1>5, <1>c DEF BeginPoll, TakeEvent, EndPoll, BeginJoin, workerVars, histVars
<1>6. CASE EndJoin
  <2>1. current \in Workers
    BY <1>6, <1>a DEF EndJoin, Typed, UITyped, UIFree
  <2> QED
    BY <1>6, <1>b, <2>1 DEF EndJoin, Places
<1>7. CASE UNCHANGED vars
  BY <1>7, <1>c DEF vars, workerVars, histVars
<1> QED
  BY <1>1, <1>2, <1>3, <1>4, <1>5, <1>6, <1>7 DEF Next, UILoop, User, ToolSteps

LEMMA NextMessagesTyped == Typed /\ [Next]_vars => MessagesTyped'
<1> SUFFICES ASSUME Typed, [Next]_vars PROVE MessagesTyped'
  OBVIOUS
<1> USE DEF MessagesTyped
<1>a. MessagesTyped /\ <<>> \in Seq(1..MaxSteer) /\ Len(<<>>) = 0 /\ SteerCapacity \in Nat
  BY EmptySeq, ChannelsAssumption DEF Typed
<1>b. UNCHANGED <<steer, injected, accepted>> => MessagesTyped'
  BY <1>a
<1>1. ASSUME NEW w \in Workers, Observe(w) \/ Answer(w) PROVE MessagesTyped'
  <2> DEFINE whole == injected[w] \o steer[w]
  <2>1. whole \in Seq(1..MaxSteer)
    BY <1>a, ConcatProperties
  <2>2. /\ injected' = [injected EXCEPT ![w] = whole]
        /\ steer' = [steer EXCEPT ![w] = <<>>] /\ accepted' = accepted
    BY <1>1 DEF Observe, Answer, DrainSteering, histVars
  <2> HIDE DEF whole
  <2> QED
    BY <1>a, <2>1, <2>2
<1>2. ASSUME NEW w \in Workers, Steer(w) PROVE MessagesTyped'
  <2> DEFINE message == Len(accepted[w]) + 1
  <2>1. message \in 1..MaxSteer
    BY <1>2, <1>a, LenProperties, ChannelsAssumption DEF Steer
  <2>2. /\ steer' = [steer EXCEPT ![w] = Append(@, message)]
        /\ accepted' = [accepted EXCEPT ![w] = Append(@, message)]
        /\ injected' = injected /\ Len(steer[w]) < SteerCapacity
    BY <1>2 DEF Steer
  <2> HIDE DEF message
  <2>3. /\ Append(steer[w], message) \in Seq(1..MaxSteer)
        /\ Append(accepted[w], message) \in Seq(1..MaxSteer)
        /\ Len(Append(steer[w], message)) = Len(steer[w]) + 1 /\ Len(steer[w]) \in Nat
    BY <1>a, <2>1, AppendProperties, LenProperties
  <2> QED
    BY <1>a, <2>2, <2>3
<1>3. ASSUME NEW w, Detach(w) PROVE MessagesTyped'
  <2>1. /\ steer' \in [Workers -> Seq(1..MaxSteer)]
        /\ injected' \in [Workers -> Seq(1..MaxSteer)]
        /\ accepted' \in [Workers -> Seq(1..MaxSteer)]
    BY <1>3, <1>a DEF Detach
  <2>2. \A v \in Workers : steer'[v] \in {steer[v], <<>>}
    BY <1>3, <1>a DEF Detach
  <2> QED
    BY <1>a, <2>1, <2>2
<1>4. ASSUME NEW w \in Workers,
             ToolSteps(w) \/ Chatter(w) \/ Close(w) \/ Reap(w) \/ Fail(w) \/ StartTurn(w)
      PROVE  MessagesTyped'
  BY <1>4, <1>b DEF ToolSteps, StartTool, EndTool, CutTool, Chatter, Close, Reap, Fail, StartTurn, histVars
<1>5. CASE BeginPoll \/ TakeEvent \/ EndPoll \/ BeginJoin \/ UNCHANGED vars
  BY <1>5, <1>b DEF BeginPoll, TakeEvent, EndPoll, BeginJoin, workerVars, histVars, vars
<1> QED
  BY <1>1, <1>2, <1>3, <1>4, <1>5 DEF Next, UILoop, User, Thread, CancelTurn, EndJoin

LEMMA NextUITyped == Typed /\ [Next]_vars => UITyped'
<1> SUFFICES ASSUME Typed, [Next]_vars PROVE UITyped'
  OBVIOUS
<1> USE DEF UITyped, UIFree
<1>a. UITyped /\ PerPoll \in Nat
  BY ChannelsAssumption DEF Typed
<1>1. ASSUME NEW w \in Workers, StartTurn(w) PROVE UITyped'
  BY <1>1, <1>a DEF StartTurn, histVars
<1>2. ASSUME NEW w \in Workers, CancelTurn(w) PROVE UITyped'
  BY <1>2, <1>a DEF CancelTurn, Detach
<1>3. ASSUME NEW w \in Workers,
             ToolSteps(w) \/ Chatter(w) \/ Thread(w) \/ Answer(w) \/ Fail(w) \/ Steer(w)
      PROVE  UITyped'
  BY <1>3, <1>a DEF ToolSteps, StartTool, EndTool, CutTool, Chatter, Thread, Observe, Close, Reap,
    Answer, Fail, Steer, uiVars, histVars
<1>4. CASE BeginPoll \/ EndPoll \/ BeginJoin
  BY <1>4, <1>a DEF BeginPoll, EndPoll, BeginJoin, histVars
<1>5. CASE TakeEvent
  BY <1>5, <1>a DEF TakeEvent
<1>6. CASE EndJoin
  BY <1>6, <1>a DEF EndJoin, Detach
<1>7. CASE UNCHANGED vars
  BY <1>7, <1>a DEF vars, uiVars, histVars
<1> QED
  BY <1>1, <1>2, <1>3, <1>4, <1>5, <1>6, <1>7 DEF Next, UILoop, User

\* A send appends one event while there is room (or goes nowhere).
LEMMA SendTyped ==
  ASSUME StreamsTyped, NEW w \in Workers, NEW event \in Sent, Send(w, event), current' = current
  PROVE  StreamsTyped'
<1>1. CASE ~Attached(w)
  BY <1>1 DEF Send, StreamsTyped, Attached
<1>2. CASE Attached(w)
  <2>1. /\ stream' = [stream EXCEPT ![w] = Append(stream[w], event)]
        /\ Len(stream[w]) < Capacity /\ stream[w] \in Seq(Sent)
    BY <1>2 DEF Send, StreamsTyped
  <2>2. /\ Append(stream[w], event) \in Seq(Sent)
        /\ Len(Append(stream[w], event)) <= Capacity
    BY <2>1, AppendProperties, LenProperties, ChannelsAssumption
  <2> QED
    BY <1>2, <2>1, <2>2 DEF StreamsTyped, Attached
<1> QED
  BY <1>1, <1>2

\* The head of a channel that is not empty is an event that was sent.
LEMMA HeadTyped ==
  ASSUME NEW S, NEW s \in Seq(S), s # <<>>
  PROVE  Head(s) \in S /\ Tail(s) \in Seq(S) /\ Len(Tail(s)) = Len(s) - 1 /\ Len(s) \in Nat \ {0}
BY HeadTailProperties, EmptySeq, LenProperties

LEMMA NextStreamsTyped == Typed /\ [Next]_vars => StreamsTyped'
<1> SUFFICES ASSUME Typed, [Next]_vars PROVE StreamsTyped'
  OBVIOUS
<1>a. StreamsTyped /\ UITyped /\ <<>> \in Seq(Sent) /\ Len(<<>>) = 0 /\ Capacity \in Nat
  BY EmptySeq, ChannelsAssumption DEF Typed
<1>b. UNCHANGED <<stream, current>> => StreamsTyped'
  BY <1>a DEF StreamsTyped, Attached
<1>1. ASSUME NEW w \in Workers, StartTool(w) \/ EndTool(w) \/ Chatter(w) PROVE StreamsTyped'
  <2>1. calls < MaxTasks => calls + 1 \in 0..MaxTasks
    BY MaxTasksAssumption DEF Typed, PlacesTyped
  <2>2. at[w] \in 0..MaxTasks /\ 0 \in 0..MaxTasks
    BY MaxTasksAssumption DEF Typed, PlacesTyped
  <2>3. \E event \in Sent : Send(w, event)
    <3>1. CASE StartTool(w)
      BY <2>1, <3>1 DEF StartTool, Sent, Kinds
    <3>2. CASE EndTool(w)
      BY <2>2, <3>2 DEF EndTool, Sent, Kinds
    <3>3. CASE Chatter(w)
      BY <2>2, <3>3 DEF Chatter, Sent, Kinds
    <3> QED
      BY <1>1, <3>1, <3>2, <3>3
  <2>4. current' = current
    BY <1>1 DEF StartTool, EndTool, Chatter, uiVars
  <2> QED
    BY <1>a, <2>3, <2>4, SendTyped
<1>2. ASSUME NEW w \in Workers, StartTurn(w) PROVE StreamsTyped'
  BY <1>2, <1>a, SlotsAssumption DEF StartTurn, StreamsTyped, Attached
<1>3. ASSUME NEW w, Attached(w), Detach(w) PROVE StreamsTyped'
  <2>1. stream' = [stream EXCEPT ![w] = <<>>]
    BY <1>3 DEF Detach
  <2>2. stream' \in [Workers -> Seq(Sent)]
    BY <1>a, <2>1 DEF StreamsTyped
  <2>3. \A v \in Workers : stream'[v] = <<>>
    BY <1>3, <1>a, <2>1 DEF StreamsTyped, Attached
  <2> QED
    BY <1>a, <2>2, <2>3 DEF StreamsTyped
<1>4. ASSUME NEW w \in Workers, CutTool(w) \/ Thread(w) \/ Answer(w) \/ Fail(w) \/ Steer(w)
      PROVE  StreamsTyped'
  BY <1>4, <1>b DEF CutTool, Thread, Observe, Close, Reap, Answer, Fail, Steer, uiVars
<1>5. CASE TakeEvent
  <2>1. /\ current \in Workers /\ stream[current] # <<>> /\ current' = current
        /\ stream' = [stream EXCEPT ![current] = Tail(stream[current])]
    BY <1>5, <1>a DEF TakeEvent, UITyped, UIFree
  <2>2. stream[current] \in Seq(Sent) /\ Len(stream[current]) <= Capacity
    BY <1>a, <2>1 DEF StreamsTyped
  <2>3. Tail(stream[current]) \in Seq(Sent) /\ Len(Tail(stream[current])) <= Capacity
    BY <1>a, <2>1, <2>2, HeadTyped
  <2> QED
    BY <1>a, <2>1, <2>3 DEF StreamsTyped, Attached
<1>6. CASE BeginPoll \/ EndPoll \/ BeginJoin \/ UNCHANGED vars
  BY <1>6, <1>b DEF BeginPoll, EndPoll, BeginJoin, workerVars, uiVars, vars
<1> QED
  BY <1>1, <1>2, <1>3, <1>4, <1>5, <1>6 DEF Next, UILoop, User, ToolSteps, CancelTurn, EndJoin, Attached

LEMMA NextRecordsTyped == Typed /\ [Next]_vars => RecordsTyped'
<1> SUFFICES ASSUME Typed, [Next]_vars PROVE RecordsTyped'
  OBVIOUS
<1>a. /\ record \in [Tasks -> States] /\ nextId \in 1..MaxTasks + 1
      /\ active \in 0..MaxTasks /\ owner \in [Tasks -> 0..MaxTasks]
      /\ 0 \in 0..MaxTasks
      /\ active # 0 => active \in Tasks
  BY MaxTasksAssumption DEF Typed, RecordsTyped, Tasks
<1>b. UNCHANGED <<tableVars, active, owner>> => RecordsTyped'
  BY <1>a DEF RecordsTyped, tableVars
<1>c. ASSUME NEW state \in Ended, active' = 0, UNCHANGED <<nextId, owner>>,
             record' = IF active = 0 THEN record ELSE Finished(record, active, state)
      PROVE  RecordsTyped'
  <2>1. record' \in [Tasks -> States]
    BY <1>a, <1>c, FinishedEnds
  <2> QED
    BY <1>a, <1>c, <2>1 DEF RecordsTyped
<1>1. ASSUME NEW w \in Workers, ToolSteps(w) \/ Chatter(w) \/ Thread(w) \/ Answer(w) \/ Fail(w)
                                 \/ StartTurn(w) \/ Steer(w)
      PROVE  RecordsTyped'
  BY <1>1, <1>b DEF ToolSteps, StartTool, EndTool, CutTool, Chatter, Thread, Observe, Close, Reap,
    Answer, Fail, StartTurn, Steer, uiVars, histVars
<1>2. ASSUME NEW w \in Workers, CancelTurn(w) PROVE RecordsTyped'
  BY <1>2, <1>c DEF CancelTurn, FinishTools, Ended
<1>3. CASE TakeEvent
  <2>1. /\ current \in Workers /\ stream[current] # <<>>
        /\ \/ RegisterTool(Head(stream[current]))
           \/ CompleteTool(Head(stream[current]))
           \/ UNCHANGED <<tableVars, active, owner>>
    BY <1>3 DEF TakeEvent, Typed, UITyped, UIFree
  <2>2. Head(stream[current]).call \in 0..MaxTasks
    <3>1. stream[current] \in Seq(Sent)
      BY <2>1 DEF Typed, StreamsTyped
    <3>2. Head(stream[current]) \in Sent
      BY <2>1, <3>1, HeadTyped
    <3> QED
      BY <3>2 DEF Sent
  <2>3. ASSUME NEW event, event.call \in 0..MaxTasks, RegisterTool(event), active = 0
        PROVE  RecordsTyped'
    <3>1. /\ nextId \in Tasks /\ nextId' = nextId + 1 /\ active' = nextId
          /\ record' = Registered(nextId, "foreground")
          /\ owner' = [owner EXCEPT ![nextId] = event.call]
      BY <2>3 DEF RegisterTool
    <3>2. record' \in [Tasks -> States]
      BY <1>a, <3>1, RegisteredKeepsActive DEF Active
    <3>3. nextId' \in 1..MaxTasks + 1 /\ active' \in 0..MaxTasks
      BY <3>1, MaxTasksAssumption DEF Tasks
    <3> QED
      BY <1>a, <2>3, <3>1, <3>2, <3>3 DEF RecordsTyped
  <2>4. ASSUME NEW event, RegisterTool(event), active # 0 PROVE RecordsTyped'
    BY <1>b, <2>4 DEF RegisterTool
  <2>5. ASSUME NEW event, CompleteTool(event) PROVE RecordsTyped'
    BY <1>c, <2>5 DEF CompleteTool, Ended
  <2> QED
    BY <1>b, <2>1, <2>2, <2>3, <2>4, <2>5
<1>4. CASE EndJoin
  BY <1>4, <1>b, <1>c DEF EndJoin, FinishTools, Ended
<1>5. CASE BeginPoll \/ EndPoll \/ BeginJoin \/ UNCHANGED vars
  BY <1>5, <1>b DEF BeginPoll, EndPoll, BeginJoin, histVars, uiVars, vars
<1> QED
  BY <1>1, <1>2, <1>3, <1>4, <1>5 DEF Next, UILoop, User

LEMMA AlwaysTyped == Safety => []Typed
<1>1. Typed /\ [Next]_vars => Typed'
  BY NextPlacesTyped, NextStreamsTyped, NextMessagesTyped, NextUITyped, NextRecordsTyped DEF Typed
<1> QED
  BY <1>1, InitTyped, PTL DEF Safety

\* Every channel keeps its bound, a channel nobody reads is empty, and a worker
\* has a call exactly while it runs a tool.
THEOREM Typing == Safety => []TypeOK
BY AlwaysTyped, TypedIsTypeOK, PTL

-----------------------------------------------------------------------------
(* The records and the calls.                                              *)

Calls == 0..MaxTasks

\* One event of a stream takes the call that is open before it (0: none) to the
\* one that is open after it, given how the calls ended.
Moves(ends, before, event, after) ==
  \/ event.kind = "other" /\ after = before
  \/ event.kind = "start" /\ before = 0 /\ after = event.call /\ event.call \in Tasks
  \/ event.kind = "endOk" /\ before = event.call /\ after = 0
       /\ event.call \in Tasks /\ ends[event.call] = "ok"
  \/ event.kind = "endFail" /\ before = event.call /\ after = 0
       /\ event.call \in Tasks /\ ends[event.call] = "fail"

\* open[i] is the call that is open after the first i events of s; a call stays
\* open over the events of no tool.
Path(ends, s, open) ==
  /\ \A i \in 1..Len(s) : Moves(ends, open[i - 1], s[i], open[i])
  /\ \A i \in 0..Len(s) :
       (\A k \in i + 1..Len(s) : s[k].kind = "other") => open[i] = open[Len(s)]

\* The events of s, taken in order, lead from the open call first to last.
Leads(ends, s, first, last) ==
  \E open \in [0..Len(s) -> Calls] :
    Path(ends, s, open) /\ open[0] = first /\ open[Len(s)] = last

\* The call whose record is open.
OpenRecord == IF active = 0 THEN 0 ELSE owner[active]

\* The call that is open when a worker's events are all taken: the one it runs,
\* or the one that was cut off and has no end.
LastOpen(w, call) ==
  \/ call = at[w]
  \/ pc[w] = "failed" /\ call \in Tasks /\ outcome[call] = "cut"

NumberedCalls ==
  /\ \A c \in Tasks : c > calls => outcome[c] = "unused"
  /\ \A w \in Workers : at[w] # 0 => outcome[at[w]] = "running"
  /\ \A v, w \in Workers : v # w /\ at[v] # 0 => at[v] # at[w]

Recorded ==
  \A t \in Tasks :
    /\ record[t] \in {"completed", "failed"} => owner[t] \in Tasks
    /\ record[t] = "completed" => outcome[owner[t]] = "ok"
    /\ record[t] = "failed"    => outcome[owner[t]] \in {"fail", "cut"}

\* What the UI still has to take fits the record it has open.
Followed ==
  /\ active # 0 => owner[active] \in Tasks
  /\ current = NoWorker => active = 0
  /\ current # NoWorker =>
       \E last \in Calls : /\ Leads(outcome, stream[current], OpenRecord, last)
                           /\ LastOpen(current, last)

FlowInv == NumberedCalls /\ (~lost => Recorded /\ Followed)

\* The calls that ended are not touched again.
Kept(ends, after) ==
  \A c \in Tasks : ends[c] \in {"ok", "fail", "cut"} => after[c] = ends[c]

LEMMA LeadsNowhere ==
  ASSUME NEW ends, NEW call \in Calls
  PROVE  Leads(ends, <<>>, call, call)
<1> DEFINE open == [i \in 0..0 |-> call]
<1>1. Len(<<>>) = 0 /\ open \in [0..0 -> Calls] /\ open[0] = call
  BY EmptySeq
<1>2. Path(ends, <<>>, open)
  BY <1>1 DEF Path
<1> QED
  BY <1>1, <1>2 DEF Leads

LEMMA LeadsKept ==
  ASSUME NEW ends, NEW after, NEW s, NEW first, NEW last,
         Leads(ends, s, first, last), Kept(ends, after)
  PROVE  Leads(after, s, first, last)
<1>1. PICK open \in [0..Len(s) -> Calls] :
        Path(ends, s, open) /\ open[0] = first /\ open[Len(s)] = last
  BY DEF Leads
<1>2. \A i \in 1..Len(s) : Moves(after, open[i - 1], s[i], open[i])
  BY <1>1 DEF Path, Moves, Kept
<1> QED
  BY <1>1, <1>2 DEF Leads, Path

LEMMA LeadsOn ==
  ASSUME NEW ends, NEW s \in Seq(Sent), NEW first, NEW last, NEW event \in Sent, NEW after \in Calls,
         Leads(ends, s, first, last), Moves(ends, last, event, after)
  PROVE  Leads(ends, Append(s, event), first, after)
<1>1. PICK open \in [0..Len(s) -> Calls] :
        Path(ends, s, open) /\ open[0] = first /\ open[Len(s)] = last
  BY DEF Leads
<1> DEFINE t == Append(s, event)
           n == Len(s)
           new == [i \in 0..n + 1 |-> IF i <= n THEN open[i] ELSE after]
<1>2. /\ n \in Nat /\ Len(t) = n + 1
      /\ \A i \in 1..n : t[i] = s[i]
      /\ t[n + 1] = event
  BY LenProperties, AppendProperties
<1> HIDE DEF t, n
<1>3. /\ new \in [0..n + 1 -> Calls] /\ new[n + 1] = after
      /\ \A i \in 0..n : new[i] = open[i]
  BY <1>1, <1>2 DEF n
<1> HIDE DEF new
<1>4. \A i \in 1..n + 1 : Moves(ends, new[i - 1], t[i], new[i])
  <2> TAKE i \in 1..n + 1
  <2>1. CASE i \in 1..n
    <3>1. Moves(ends, open[i - 1], s[i], open[i])
      BY <1>1, <2>1 DEF Path, n
    <3>2. new[i - 1] = open[i - 1] /\ new[i] = open[i] /\ t[i] = s[i]
      BY <1>2, <1>3, <2>1
    <3> QED
      BY <3>1, <3>2
  <2>2. CASE i = n + 1
    BY <1>1, <1>2, <1>3, <2>2 DEF n
  <2> QED
    BY <1>2, <2>1, <2>2
<1>5. ASSUME NEW i \in 0..n + 1, \A k \in i + 1..n + 1 : t[k].kind = "other"
      PROVE  new[i] = new[n + 1]
  <2>1. CASE i = n + 1
    BY <2>1
  <2>2. CASE i \in 0..n
    <3>1. event.kind = "other"
      BY <1>2, <1>5, <2>2
    <3>2. after = last
      BY <3>1 DEF Moves
    <3>3. \A k \in i + 1..n : s[k].kind = "other"
      BY <1>2, <1>5, <2>2
    <3>4. open[i] = open[n]
      BY <1>1, <2>2, <3>3 DEF Path, n
    <3> QED
      BY <1>1, <1>2, <1>3, <2>2, <3>2, <3>4 DEF n
  <2> QED
    BY <1>2, <2>1, <2>2
<1>6. Path(ends, t, new)
  BY <1>2, <1>4, <1>5 DEF Path
<1>7. new[0] = first
  BY <1>1, <1>2, <1>3
<1> QED
  BY <1>2, <1>3, <1>6, <1>7 DEF Leads, t

LEMMA LeadsBack ==
  ASSUME NEW ends, NEW s \in Seq(Sent), s # <<>>, NEW first, NEW last, Leads(ends, s, first, last)
  PROVE  \E next \in Calls : Moves(ends, first, Head(s), next) /\ Leads(ends, Tail(s), next, last)
<1>1. PICK open \in [0..Len(s) -> Calls] :
        Path(ends, s, open) /\ open[0] = first /\ open[Len(s)] = last
  BY DEF Leads
<1> DEFINE t == Tail(s)
           n == Len(s)
           new == [i \in 0..n - 1 |-> open[i + 1]]
<1>2. /\ n \in Nat \ {0} /\ Len(t) = n - 1 /\ Head(s) = s[1]
      /\ \A i \in 1..n - 1 : t[i] = s[i + 1]
  BY LenProperties, HeadTailProperties, EmptySeq
<1> HIDE DEF t, n
<1>3. /\ new \in [0..n - 1 -> Calls]
      /\ \A i \in 0..n - 1 : new[i] = open[i + 1]
  BY <1>1, <1>2 DEF n
<1> HIDE DEF new
<1>4. \A i \in 1..n - 1 : Moves(ends, new[i - 1], t[i], new[i])
  <2> TAKE i \in 1..n - 1
  <2>1. Moves(ends, open[(i + 1) - 1], s[i + 1], open[i + 1])
    BY <1>1, <1>2 DEF Path, n
  <2>2. new[i - 1] = open[(i + 1) - 1] /\ new[i] = open[i + 1] /\ t[i] = s[i + 1]
    BY <1>2, <1>3
  <2> QED
    BY <2>1, <2>2
<1>5. ASSUME NEW i \in 0..n - 1, \A k \in i + 1..n - 1 : t[k].kind = "other"
      PROVE  new[i] = new[n - 1]
  <2>1. \A k \in (i + 1) + 1..n : s[k].kind = "other"
    <3> TAKE k \in (i + 1) + 1..n
    <3>1. k - 1 \in i + 1..n - 1 /\ k - 1 \in 1..n - 1 /\ (k - 1) + 1 = k
      BY <1>2
    <3> QED
      BY <1>2, <1>5, <3>1
  <2>2. open[i + 1] = open[n]
    BY <1>1, <1>2, <2>1 DEF Path, n
  <2> QED
    BY <1>2, <1>3, <2>2
<1>6. Path(ends, t, new)
  BY <1>2, <1>4, <1>5 DEF Path
<1>7. new[0] = open[1] /\ new[n - 1] = last /\ open[1] \in Calls
  BY <1>1, <1>2, <1>3 DEF n
<1>8. Moves(ends, first, Head(s), open[1])
  BY <1>1, <1>2 DEF Path, n
<1>9. Leads(ends, t, open[1], last)
  BY <1>2, <1>3, <1>6, <1>7 DEF Leads
<1> QED
  BY <1>7, <1>8, <1>9 DEF t

LEMMA LeadsQuiet ==
  ASSUME NEW ends, NEW s \in Seq(Sent), NEW first, NEW last, Leads(ends, s, first, last),
         ToolEvents(s) = {}
  PROVE  first = last
<1>1. PICK open \in [0..Len(s) -> Calls] :
        Path(ends, s, open) /\ open[0] = first /\ open[Len(s)] = last
  BY DEF Leads
<1>2. Len(s) \in Nat /\ DOMAIN s = 1..Len(s)
  BY LenProperties
<1>3. \A k \in 0 + 1..Len(s) : s[k].kind = "other"
  BY <1>2 DEF ToolEvents
<1> QED
  BY <1>1, <1>2, <1>3 DEF Path

LEMMA InitFlow == Init => FlowInv
BY MaxTasksAssumption DEF Init, InitTable, FlowInv, NumberedCalls, Recorded, Followed, Tasks

LEMMA NextNumbered ==
  ASSUME Typed, NumberedCalls, [Next]_vars
  PROVE  NumberedCalls' /\ Kept(outcome, outcome')
<1> DEFINE Goal == NumberedCalls' /\ Kept(outcome, outcome')
<1>a. PlacesTyped
  BY DEF Typed
<1>b. UNCHANGED <<at, outcome, calls>> => Goal
  BY DEF NumberedCalls, Kept
<1>1. ASSUME NEW w \in Workers, StartTool(w) PROVE Goal
  <2>1. /\ at' = [at EXCEPT ![w] = calls + 1] /\ calls' = calls + 1
        /\ outcome' = [outcome EXCEPT ![calls + 1] = "running"]
        /\ calls + 1 \in Tasks
    BY <1>1, <1>a, MaxTasksAssumption DEF StartTool, PlacesTyped, Tasks
  <2>2. \A v \in Workers : at[v] # calls + 1
    BY <1>a, <2>1, MaxTasksAssumption DEF NumberedCalls, PlacesTyped, Tasks
  <2>3. outcome[calls + 1] = "unused"
    BY <1>a, <2>1, MaxTasksAssumption DEF NumberedCalls, PlacesTyped, Tasks
  <2>4. Kept(outcome, outcome')
    BY <1>a, <2>1, <2>3 DEF Kept, PlacesTyped
  <2>5. \A c \in Tasks : c > calls' => outcome'[c] = "unused"
    BY <1>a, <2>1, MaxTasksAssumption DEF NumberedCalls, PlacesTyped, Tasks
  <2>6. /\ \A v \in Workers : at'[v] = IF v = w THEN calls + 1 ELSE at[v]
        /\ outcome'[calls + 1] = "running"
        /\ \A c \in Tasks : c # calls + 1 => outcome'[c] = outcome[c]
    BY <1>a, <2>1 DEF PlacesTyped
  <2>7. \A v \in Workers : at'[v] # 0 => outcome'[at'[v]] = "running"
    BY <1>a, <2>2, <2>6, MaxTasksAssumption DEF NumberedCalls, PlacesTyped, Tasks
  <2>8. \A v, u \in Workers : v # u /\ at'[v] # 0 => at'[v] # at'[u]
    BY <2>2, <2>6 DEF NumberedCalls
  <2> QED
    BY <2>4, <2>5, <2>7, <2>8 DEF NumberedCalls
<1>2. ASSUME NEW w \in Workers, EndTool(w) \/ CutTool(w) PROVE Goal
  <2>1. PICK end \in {"ok", "fail", "cut"} :
          /\ at' = [at EXCEPT ![w] = 0] /\ calls' = calls
          /\ outcome' = [outcome EXCEPT ![at[w]] = end]
    BY <1>2 DEF EndTool, CutTool
  <2>2. pc[w] = "tool" /\ at[w] \in Tasks /\ outcome[at[w]] = "running" /\ at[w] <= calls
    BY <1>2, <1>a, MaxTasksAssumption DEF EndTool, CutTool, NumberedCalls, PlacesTyped, Tasks
  <2>3. Kept(outcome, outcome')
    BY <1>a, <2>1, <2>2 DEF Kept, PlacesTyped
  <2>4. \A c \in Tasks : c > calls' => outcome'[c] = "unused"
    BY <1>a, <2>1, <2>2 DEF NumberedCalls, PlacesTyped, Tasks
  <2>5. /\ \A v \in Workers : at'[v] = IF v = w THEN 0 ELSE at[v]
        /\ \A c \in Tasks : c # at[w] => outcome'[c] = outcome[c]
    BY <1>a, <2>1 DEF PlacesTyped
  <2>6. \A v \in Workers : at'[v] # 0 => outcome'[at'[v]] = "running"
    BY <1>a, <2>5, MaxTasksAssumption DEF NumberedCalls, PlacesTyped, Tasks
  <2>7. \A v, u \in Workers : v # u /\ at'[v] # 0 => at'[v] # at'[u]
    BY <2>5 DEF NumberedCalls
  <2> QED
    BY <2>3, <2>4, <2>6, <2>7 DEF NumberedCalls
<1>3. ASSUME NEW w \in Workers, Chatter(w) \/ Thread(w) \/ Answer(w) \/ Fail(w) \/ User(w) PROVE Goal
  BY <1>3, <1>b DEF Chatter, Thread, Observe, Close, Reap, Answer, Fail, User, StartTurn, Steer,
    CancelTurn, histVars
<1>4. CASE UILoop \/ UNCHANGED vars
  BY <1>4, <1>b DEF UILoop, BeginPoll, TakeEvent, EndPoll, BeginJoin, EndJoin, workerVars, histVars, vars
<1> QED
  BY <1>1, <1>2, <1>3, <1>4 DEF Next, ToolSteps

\* The records are as before, and no call that ended is touched.
LEMMA RecordedKept ==
  ASSUME Recorded, Kept(outcome, outcome'), UNCHANGED <<record, owner>>
  PROVE  Recorded'
BY DEF Recorded, Kept

\* A record that ends does so as its call did, or is cancelled.
LEMMA RecordedFinish ==
  ASSUME RecordsTyped, Recorded, UNCHANGED <<outcome, owner>>, NEW state \in Ended,
         record' = IF active = 0 THEN record ELSE Finished(record, active, state),
         active # 0 => /\ owner[active] \in Tasks
                       /\ state = "completed" => outcome[owner[active]] = "ok"
                       /\ state = "failed" => outcome[owner[active]] \in {"fail", "cut"}
  PROVE  Recorded'
<1>1. CASE active = 0
  BY <1>1 DEF Recorded
<1>2. CASE active # 0
  <2>1. active \in Tasks /\ record \in [Tasks -> States]
    BY <1>2, MaxTasksAssumption DEF RecordsTyped, Tasks
  <2>2. \A t \in Tasks : record'[t] = record[t] \/ (t = active /\ record'[t] = state)
    BY <1>2, <2>1 DEF Finished
  <2> QED
    BY <1>2, <2>2 DEF Recorded
<1> QED
  BY <1>1, <1>2

LEMMA RecordedRegister ==
  ASSUME RecordsTyped, Recorded, UNCHANGED outcome, nextId \in Tasks, NEW call,
         record' = Registered(nextId, "foreground"), owner' = [owner EXCEPT ![nextId] = call]
  PROVE  Recorded'
<1>1. record \in [Tasks -> States] /\ owner \in [Tasks -> 0..MaxTasks]
  BY DEF RecordsTyped
<1>2. /\ record'[nextId] = "foreground"
      /\ \A u \in Tasks \ {nextId} : record'[u] \in {record[u], "evicted"}
  BY <1>1, RegisteredKeepsActive DEF Active
<1>3. \A u \in Tasks \ {nextId} : owner'[u] = owner[u]
  BY <1>1
<1> QED
  BY <1>2, <1>3 DEF Recorded

\* The stream and the open record are as before, and so is the call its events
\* lead to.
LEMMA FollowedKept ==
  ASSUME Typed, Followed, Kept(outcome, outcome'),
         UNCHANGED <<stream, current, active, owner>>,
         current # NoWorker => \A call \in Calls : LastOpen(current, call) => LastOpen(current, call)'
  PROVE  Followed'
<1>1. OpenRecord' = OpenRecord
  BY DEF OpenRecord
<1>2. CASE current # NoWorker
  <2>1. PICK last \in Calls : /\ Leads(outcome, stream[current], OpenRecord, last)
                              /\ LastOpen(current, last)
    BY <1>2 DEF Followed
  <2>2. Leads(outcome', stream[current], OpenRecord, last)
    BY <2>1, LeadsKept
  <2>3. LastOpen(current, last)'
    BY <1>2, <2>1
  <2>4. Leads(outcome, stream[current], OpenRecord, last)'
    BY <1>1, <2>2
  <2> QED
    BY <2>3, <2>4 DEF Followed
<1>3. CASE current = NoWorker
  BY <1>3 DEF Followed
<1> QED
  BY <1>2, <1>3

LEMMA NextFlowWorker ==
  ASSUME Typed, FlowInv, ~lost, Kept(outcome, outcome'), NEW w \in Workers,
         ToolSteps(w) \/ Chatter(w) \/ Thread(w) \/ Answer(w) \/ Fail(w) \/ Steer(w)
  PROVE  Recorded' /\ Followed'
<1>a. /\ PlacesTyped /\ StreamsTyped /\ UITyped /\ Recorded /\ Followed /\ NumberedCalls
      /\ 0 \in Calls
  BY MaxTasksAssumption DEF Typed, FlowInv, Calls
<1>b. UNCHANGED <<record, owner, active, current>>
  BY DEF ToolSteps, StartTool, EndTool, CutTool, Chatter, Thread, Observe, Close, Reap,
    Answer, Fail, Steer, tableVars, uiVars, histVars
<1>c. Recorded'
  BY <1>a, <1>b, RecordedKept
<1> SUFFICES Followed'
  BY <1>c
<1>d. ASSUME stream' = stream,
             w = current => \A call \in Calls : LastOpen(w, call) => LastOpen(w, call)',
             current \in Workers \ {w} => at'[current] = at[current] /\ pc'[current] = pc[current]
      PROVE  Followed'
  <2>1. current # NoWorker => \A call \in Calls : LastOpen(current, call) => LastOpen(current, call)'
    <3>1. CASE w = current
      BY <1>b, <1>d, <3>1 DEF LastOpen
    <3>2. CASE w # current
      BY <1>a, <1>b, <1>d, <3>2 DEF LastOpen, Kept, UITyped
    <3> QED
      BY <3>1, <3>2
  <2> QED
    BY <1>a, <1>b, <1>d, <2>1, FollowedKept
\* An event goes into the channel of the worker the UI holds.
<1>e. ASSUME Attached(w), NEW event \in Sent, Send(w, event), NEW after \in Calls, LastOpen(w, after)',
             \A last \in Calls : LastOpen(w, last) => Moves(outcome', last, event, after)
      PROVE  Followed'
  <2>1. current = w /\ w # NoWorker /\ stream[w] \in Seq(Sent)
    BY <1>a, <1>e, SlotsAssumption DEF Attached, StreamsTyped
  <2>2. stream'[w] = Append(stream[w], event)
    BY <1>a, <1>e DEF Send, StreamsTyped
  <2>3. PICK last \in Calls : Leads(outcome, stream[w], OpenRecord, last) /\ LastOpen(w, last)
    BY <1>a, <2>1 DEF Followed
  <2>4. Leads(outcome', stream[w], OpenRecord, last)
    BY <2>3, LeadsKept
  <2>5. Leads(outcome', Append(stream[w], event), OpenRecord, after)
    BY <1>e, <2>1, <2>3, <2>4, LeadsOn
  <2>6. OpenRecord' = OpenRecord
    BY <1>b DEF OpenRecord
  <2>7. Leads(outcome, stream[w], OpenRecord, after)'
    BY <2>2, <2>5, <2>6
  <2> QED
    BY <1>a, <1>b, <1>e, <2>1, <2>7 DEF Followed
<1>1. CASE Chatter(w)
  <2> DEFINE event == [kind |-> "other", call |-> 0]
  <2>1. Send(w, event) /\ UNCHANGED <<pc, at, outcome>> /\ pc[w] # "failed" /\ event \in Sent
    BY <1>1, <1>a DEF Chatter, histVars, Sent, Kinds, Calls
  <2>2. CASE Attached(w)
    <3>1. PICK call \in Calls : call = at[w] /\ LastOpen(w, call)'
      BY <1>a, <2>1 DEF PlacesTyped, Calls, LastOpen
    <3>2. \A last \in Calls : LastOpen(w, last) => Moves(outcome', last, event, call)
      BY <2>1, <3>1 DEF LastOpen, Moves
    <3> HIDE DEF event
    <3> QED
      BY <1>e, <2>1, <2>2, <3>1, <3>2
  <2>3. CASE ~Attached(w)
    BY <1>d, <2>1, <2>3 DEF Send, Attached
  <2> QED
    BY <2>2, <2>3
<1>2. CASE StartTool(w)
  <2>0. PICK call \in Tasks : call = calls + 1
    BY <1>2, <1>a, MaxTasksAssumption DEF StartTool, PlacesTyped, Tasks
  <2> DEFINE event == [kind |-> "start", call |-> call]
  <2>1. /\ Send(w, event) /\ pc[w] = "model" /\ at[w] = 0 /\ call \in Calls
        /\ event \in Sent
        /\ pc' = [pc EXCEPT ![w] = "tool"] /\ at' = [at EXCEPT ![w] = call]
    BY <1>2, <1>a, <2>0, MaxTasksAssumption
    DEF StartTool, Goto, PlacesTyped, Tasks, Calls, Sent, Kinds
  <2>2. CASE Attached(w)
    <3>1. LastOpen(w, call)'
      BY <1>a, <2>1 DEF PlacesTyped, LastOpen
    <3>2. \A last \in Calls : LastOpen(w, last) => Moves(outcome', last, event, call)
      BY <2>1 DEF LastOpen, Moves
    <3> HIDE DEF event
    <3> QED
      BY <1>e, <2>1, <2>2, <3>1, <3>2
  <2>3. CASE ~Attached(w)
    BY <1>d, <2>1, <2>3 DEF Send, Attached
  <2> QED
    BY <2>2, <2>3
<1>3. CASE EndTool(w)
  <2>1. PICK ok \in BOOLEAN :
          /\ Send(w, [kind |-> IF ok THEN "endOk" ELSE "endFail", call |-> at[w]])
          /\ outcome' = [outcome EXCEPT ![at[w]] = IF ok THEN "ok" ELSE "fail"]
    BY <1>3 DEF EndTool
  <2>0. PICK call \in Tasks : call = at[w]
    BY <1>3, <1>a, MaxTasksAssumption DEF EndTool, PlacesTyped, Tasks
  <2> DEFINE event == [kind |-> IF ok THEN "endOk" ELSE "endFail", call |-> call]
  <2>2. /\ pc[w] = "tool" /\ event \in Sent
        /\ pc' = [pc EXCEPT ![w] = "observed"] /\ at' = [at EXCEPT ![w] = 0]
    BY <1>3, <1>a, <2>0, MaxTasksAssumption DEF EndTool, Goto, PlacesTyped, Tasks, Sent, Kinds
  <2>3. CASE Attached(w)
    <3>1. LastOpen(w, 0)'
      BY <1>a, <2>2 DEF PlacesTyped, LastOpen
    <3>2. outcome'[call] = IF ok THEN "ok" ELSE "fail"
      BY <1>a, <2>0, <2>1 DEF PlacesTyped
    <3>3. \A last \in Calls : LastOpen(w, last) => Moves(outcome', last, event, 0)
      BY <2>0, <2>2, <3>2 DEF LastOpen, Moves
    <3>4. Send(w, event)
      BY <2>0, <2>1
    <3> HIDE DEF event
    <3> QED
      BY <1>a, <1>e, <2>2, <2>3, <3>1, <3>3, <3>4
  <2>4. CASE ~Attached(w)
    BY <1>d, <2>1, <2>2, <2>4 DEF Send, Attached
  <2> QED
    BY <2>3, <2>4
<1>4. CASE CutTool(w)
  <2>1. /\ pc[w] = "tool" /\ at[w] \in Tasks /\ stream' = stream
        /\ pc' = [pc EXCEPT ![w] = "failed"] /\ at' = [at EXCEPT ![w] = 0]
        /\ outcome' = [outcome EXCEPT ![at[w]] = "cut"]
    BY <1>4, <1>a, MaxTasksAssumption DEF CutTool, Goto, PlacesTyped, Tasks
  <2>2. /\ pc'[w] = "failed" /\ outcome'[at[w]] = "cut"
        /\ current \in Workers \ {w} => at'[current] = at[current] /\ pc'[current] = pc[current]
    BY <1>a, <2>1 DEF PlacesTyped
  <2>3. \A call \in Calls : LastOpen(w, call) => LastOpen(w, call)'
    BY <2>1, <2>2 DEF LastOpen
  <2> QED
    BY <1>d, <2>1, <2>2, <2>3
<1>5. CASE Thread(w) \/ Answer(w) \/ Fail(w) \/ Steer(w)
  <2>1. /\ UNCHANGED <<stream, at, outcome>>
        /\ pc' = [pc EXCEPT ![w] = pc'[w]]
        /\ w = current /\ pc[w] = "failed" => pc'[w] = "failed"
    BY <1>5, <1>a DEF Thread, Observe, Close, Reap, Answer, Fail, Steer, Goto, Attached, Ready,
      PlacesTyped, uiVars, histVars
  <2>2. current \in Workers \ {w} => pc'[current] = pc[current]
    BY <1>a, <2>1 DEF PlacesTyped
  <2>3. w = current => \A call \in Calls : LastOpen(w, call) => LastOpen(w, call)'
    BY <2>1 DEF LastOpen
  <2> QED
    BY <1>d, <2>1, <2>2, <2>3
<1> QED
  BY <1>1, <1>2, <1>3, <1>4, <1>5 DEF ToolSteps

LEMMA FlowTaken ==
  ASSUME Typed, FlowInv, ~lost, TakeEvent
  PROVE  Recorded' /\ Followed'
<1> DEFINE s == stream[current]
           event == Head(s)
<1>a. PlacesTyped /\ StreamsTyped /\ UITyped /\ RecordsTyped /\ Recorded /\ Followed
  BY DEF Typed, FlowInv
<1>1. /\ current \in Workers /\ current # NoWorker /\ s \in Seq(Sent) /\ s # <<>>
      /\ stream'[current] = Tail(s)
      /\ UNCHANGED <<pc, at, outcome, current>>
  BY <1>a, SlotsAssumption DEF TakeEvent, UITyped, UIFree, StreamsTyped
<1>2. PICK last \in Calls : Leads(outcome, s, OpenRecord, last) /\ LastOpen(current, last)
  BY <1>a, <1>1 DEF Followed
<1>3. PICK next \in Calls : Moves(outcome, OpenRecord, event, next) /\ Leads(outcome, Tail(s), next, last)
  <2> HIDE DEF s
  <2> QED
    BY <1>1, <1>2, LeadsBack
<1>4. \/ event.kind = "start" /\ RegisterTool(event)
      \/ event.kind \in {"endOk", "endFail"} /\ CompleteTool(event)
      \/ event.kind = "other" /\ UNCHANGED <<tableVars, active, owner>>
  BY <1>3 DEF TakeEvent, Moves
<1>5. active # 0 => owner[active] \in Tasks /\ owner[active] # 0
  BY <1>a, MaxTasksAssumption DEF Followed, Tasks
<1> HIDE DEF s, event
<1>6. ASSUME OpenRecord' = next, active' # 0 => owner'[active'] \in Tasks PROVE Followed'
  <2>1. Leads(outcome, stream[current], OpenRecord, last)'
    BY <1>1, <1>3, <1>6
  <2>2. LastOpen(current, last)'
    BY <1>1, <1>2 DEF LastOpen
  <2> QED
    BY <1>1, <1>6, <2>1, <2>2 DEF Followed
<1>7. CASE event.kind = "start" /\ RegisterTool(event)
  <2>1. active = 0 /\ next = event.call /\ event.call \in Tasks
    BY <1>3, <1>5, <1>7 DEF Moves, OpenRecord
  <2>2. /\ nextId \in Tasks /\ active' = nextId /\ record' = Registered(nextId, "foreground")
        /\ owner' = [owner EXCEPT ![nextId] = event.call]
    BY <1>7, <2>1 DEF RegisterTool
  <2>3. owner'[nextId] = event.call /\ nextId # 0
    BY <1>a, <2>2, MaxTasksAssumption DEF RecordsTyped, Tasks
  <2>4. Followed'
    BY <1>6, <2>1, <2>2, <2>3 DEF OpenRecord
  <2> QED
    BY <1>a, <1>1, <2>2, <2>4, RecordedRegister
<1>8. CASE event.kind \in {"endOk", "endFail"} /\ CompleteTool(event)
  <2>1. /\ OpenRecord = event.call /\ next = 0 /\ event.call \in Tasks
        /\ outcome[event.call] = IF event.kind = "endOk" THEN "ok" ELSE "fail"
    BY <1>3, <1>8 DEF Moves
  <2>2. active # 0 => owner[active] = event.call
    BY <2>1 DEF OpenRecord
  <2> DEFINE state == IF event.kind = "endOk" THEN "completed" ELSE "failed"
  <2>3. /\ state \in Ended /\ active' = 0 /\ UNCHANGED <<outcome, owner>>
        /\ record' = IF active = 0 THEN record ELSE Finished(record, active, state)
    BY <1>1, <1>8 DEF CompleteTool, Ended
  <2>4. /\ state = "completed" => outcome[event.call] = "ok"
        /\ state = "failed" => outcome[event.call] \in {"fail", "cut"}
    BY <2>1
  <2> HIDE DEF state
  <2>5. Recorded'
    BY <1>a, <2>1, <2>2, <2>3, <2>4, RecordedFinish
  <2>6. Followed'
    BY <1>6, <2>1, <2>3 DEF OpenRecord
  <2> QED
    BY <2>5, <2>6
<1>9. CASE event.kind = "other" /\ UNCHANGED <<tableVars, active, owner>>
  <2>1. next = OpenRecord /\ UNCHANGED <<record, active, owner, outcome>>
    BY <1>1, <1>3, <1>9 DEF Moves, tableVars
  <2>2. Recorded'
    BY <1>a, <2>1 DEF Recorded
  <2>3. Followed'
    BY <1>5, <1>6, <2>1 DEF OpenRecord
  <2> QED
    BY <2>2, <2>3
<1> QED
  BY <1>4, <1>7, <1>8, <1>9

LEMMA FlowStart ==
  ASSUME Typed, FlowInv, ~lost, NEW w \in Workers, StartTurn(w)
  PROVE  Recorded' /\ Followed'
<1>1. /\ pc[w] = "off" /\ current = NoWorker /\ current' = w /\ pc' = [pc EXCEPT ![w] = "model"]
      /\ UNCHANGED <<record, owner, outcome, stream, at, active>>
  BY DEF StartTurn, Goto, histVars, tableVars
<1>2. stream[w] = <<>> /\ at[w] = 0 /\ active = 0 /\ 0 \in Calls
  BY <1>1, SlotsAssumption, MaxTasksAssumption
  DEF Typed, StreamsTyped, PlacesTyped, Attached, FlowInv, Followed, Calls
<1>3. Leads(outcome, <<>>, 0, 0)
  BY <1>2, LeadsNowhere
<1>4. Leads(outcome, stream[current], OpenRecord, 0)'
  BY <1>1, <1>2, <1>3 DEF OpenRecord
<1>5. LastOpen(current, 0)'
  BY <1>1, <1>2 DEF LastOpen
<1>6. Followed'
  BY <1>1, <1>2, <1>4, <1>5 DEF Followed
<1>7. Recorded'
  BY <1>1 DEF FlowInv, Recorded
<1> QED
  BY <1>6, <1>7

LEMMA FlowCancelled ==
  ASSUME Typed, FlowInv, ~lost, NEW w \in Workers, CancelTurn(w)
  PROVE  Recorded' /\ Followed'
<1>1. /\ active' = 0 /\ current' = NoWorker /\ UNCHANGED <<outcome, owner>>
      /\ record' = IF active = 0 THEN record ELSE Finished(record, active, "cancelled")
      /\ "cancelled" \in Ended
  BY DEF CancelTurn, FinishTools, Detach, Ended
<1>2. Recorded'
  BY <1>1, RecordedFinish DEF Typed, FlowInv, Followed
<1> QED
  BY <1>1, <1>2 DEF Followed

\* A turn ends and nothing of a tool is dropped: what the stream leads to is
\* what is open.
LEMMA FlowJoined ==
  ASSUME Typed, FlowInv, ~lost, EndJoin, ~lost'
  PROVE  Recorded' /\ Followed'
<1> DEFINE s == stream[current]
<1>a. PlacesTyped /\ StreamsTyped /\ UITyped /\ RecordsTyped /\ Recorded /\ Followed
  BY DEF Typed, FlowInv
<1>1. /\ current \in Workers /\ current # NoWorker /\ s \in Seq(Sent)
      /\ current' = NoWorker /\ UNCHANGED <<at, outcome>>
      /\ ToolEvents(s) = {}
      /\ pc[current] = "ok" \/ pc[current] = "failed"
      /\ at[current] = 0
  BY <1>a, SlotsAssumption DEF EndJoin, Detach, UITyped, UIFree, StreamsTyped, PlacesTyped
<1>2. PICK last \in Calls : Leads(outcome, s, OpenRecord, last) /\ LastOpen(current, last)
  BY <1>a, <1>1 DEF Followed
<1>3. OpenRecord = last
  <2> HIDE DEF s
  <2> QED
    BY <1>1, <1>2, LeadsQuiet
<1>4. active # 0 => owner[active] \in Tasks /\ owner[active] = last /\ last # 0
  BY <1>a, <1>3, MaxTasksAssumption DEF Followed, OpenRecord, Tasks
<1>5. active # 0 => pc[current] = "failed" /\ outcome[owner[active]] = "cut"
  BY <1>1, <1>2, <1>4 DEF LastOpen
<1>6. CASE pc[current] = "ok"
  <2>1. active = 0 /\ UNCHANGED <<record, active, owner>>
    BY <1>5, <1>6 DEF EndJoin, tableVars
  <2> QED
    BY <1>a, <1>1, <2>1 DEF Recorded, Followed
<1>7. CASE pc[current] = "failed"
  <2>1. /\ active' = 0 /\ UNCHANGED <<outcome, owner>> /\ "failed" \in Ended
        /\ record' = IF active = 0 THEN record ELSE Finished(record, active, "failed")
    BY <1>1, <1>7 DEF EndJoin, FinishTools, Ended
  <2>2. Recorded'
    BY <1>a, <1>4, <1>5, <2>1, RecordedFinish
  <2> QED
    BY <1>1, <2>1, <2>2 DEF Followed
<1> QED
  BY <1>1, <1>6, <1>7

LEMMA NextFlow == Typed /\ FlowInv /\ [Next]_vars => FlowInv'
<1> SUFFICES ASSUME Typed, FlowInv, [Next]_vars PROVE FlowInv'
  OBVIOUS
<1>1. NumberedCalls' /\ Kept(outcome, outcome')
  BY NextNumbered DEF FlowInv
<1> SUFFICES ASSUME ~lost' PROVE Recorded' /\ Followed'
  BY <1>1 DEF FlowInv
<1>2. lost \in BOOLEAN /\ (lost' = lost \/ EndJoin)
  <2>1. ASSUME NEW w \in Workers,
               User(w) \/ Thread(w) \/ ToolSteps(w) \/ Chatter(w) \/ Answer(w) \/ Fail(w)
        PROVE  lost' = lost
    BY <2>1 DEF User, StartTurn, Steer, CancelTurn, Thread, Observe, Close, Reap, ToolSteps,
      StartTool, EndTool, CutTool, Chatter, Answer, Fail, histVars
  <2>2. BeginPoll \/ TakeEvent \/ EndPoll \/ BeginJoin \/ UNCHANGED vars => lost' = lost
    BY DEF BeginPoll, TakeEvent, EndPoll, BeginJoin, histVars, vars
  <2> QED
    BY <2>1, <2>2 DEF Next, UILoop, Typed, UITyped
<1>3. ~lost
  BY <1>2 DEF EndJoin
<1>4. ASSUME NEW w \in Workers,
             User(w) \/ Thread(w) \/ ToolSteps(w) \/ Chatter(w) \/ Answer(w) \/ Fail(w)
      PROVE  Recorded' /\ Followed'
  BY <1>1, <1>3, <1>4, NextFlowWorker, FlowStart, FlowCancelled DEF User
<1>5. CASE BeginPoll \/ EndPoll \/ BeginJoin \/ UNCHANGED vars
  <2>1. UNCHANGED <<record, owner, stream, current, active, pc, at, outcome>>
    BY <1>5 DEF BeginPoll, EndPoll, BeginJoin, tableVars, workerVars, histVars, uiVars, vars
  <2>2. Recorded'
    BY <1>3, <2>1 DEF FlowInv, Recorded
  <2>3. Followed'
    BY <1>1, <1>3, <2>1, FollowedKept DEF FlowInv, LastOpen
  <2> QED
    BY <2>2, <2>3
<1>6. CASE TakeEvent
  BY <1>3, <1>6, FlowTaken
<1>7. CASE EndJoin
  BY <1>3, <1>7, FlowJoined
<1> QED
  BY <1>4, <1>5, <1>6, <1>7 DEF Next, UILoop

LEMMA AlwaysFlow == Safety => []FlowInv
BY InitFlow, NextFlow, AlwaysTyped, PTL DEF Safety

\* As long as no join has dropped an event of a tool, a record ends as its own
\* call did.
THEOREM RecordsMatch == Safety => []RecordMatchesCall
<1>1. FlowInv => RecordMatchesCall
  BY DEF FlowInv, Recorded, RecordMatchesCall
<1> QED
  BY <1>1, AlwaysFlow, PTL

\* What the last poll is meant for holds of every turn, as long as no join has
\* dropped an event of a tool (app/runtime.rs 310-313).
THEOREM ToolsEndUnlessLost == Safety => [](lost \/ ToolsEndWithTurn)
<1>1. FlowInv => lost \/ ToolsEndWithTurn
  BY DEF FlowInv, Followed, ToolsEndWithTurn
<1> QED
  BY <1>1, AlwaysFlow, PTL

-----------------------------------------------------------------------------
(* The records as a refinement of ToolRecords.                             *)

\* The starts in s are of calls that were begun, in their order, and none is of
\* a call that has a record or came before one that has.
InOrder(s, owners, last) ==
  \A i \in 1..Len(s) : s[i].kind = "start" =>
    /\ s[i].call \in 1..last
    /\ \A t \in Tasks : owners[t] < s[i].call
    /\ \A k \in 1..i - 1 : s[k].kind = "start" => s[k].call < s[i].call

Begun == \A c \in Tasks : c <= calls => outcome[c] # "unused"

\* Tasks are registered in the order of their calls.
Owned ==
  /\ \A t \in Tasks : IF t < nextId THEN owner[t] \in 1..calls ELSE owner[t] = 0
  /\ \A t, u \in Tasks : t < u /\ u < nextId => owner[t] < owner[u]
  /\ active < nextId
  /\ \A t \in Tasks : record[t] # "timedOut"

Queued == \A w \in Workers : InOrder(stream[w], owner, calls)

OrderInv == Begun /\ Owned /\ Queued

\* A start of the next call may be sent after any other.
LEMMA InOrderNext ==
  ASSUME NEW s \in Seq(Sent), NEW owners \in [Tasks -> Calls], NEW last \in Calls, NEW next \in Calls,
         InOrder(s, owners, last), last <= next, NEW event \in Sent,
         event.kind = "start" => event.call = next /\ last < next /\ \A t \in Tasks : owners[t] <= last
  PROVE  InOrder(Append(s, event), owners, next) /\ InOrder(s, owners, next)
<1> DEFINE t == Append(s, event)
<1>1. /\ Len(s) \in Nat /\ Len(t) = Len(s) + 1 /\ t[Len(s) + 1] = event
      /\ \A i \in 1..Len(s) : t[i] = s[i]
  BY AppendProperties, LenProperties
<1> HIDE DEF t
<1>2. MaxTasks \in Nat /\ last \in Nat /\ next \in Nat
  BY MaxTasksAssumption DEF Calls
<1>3. InOrder(s, owners, next)
  BY <1>1, <1>2 DEF InOrder
<1>4. ASSUME NEW i \in 1..Len(t), t[i].kind = "start"
      PROVE  /\ t[i].call \in 1..next
             /\ \A u \in Tasks : owners[u] < t[i].call
             /\ \A k \in 1..i - 1 : t[k].kind = "start" => t[k].call < t[i].call
  <2>1. CASE i \in 1..Len(s)
    <3>1. t[i] = s[i] /\ \A k \in 1..i - 1 : t[k] = s[k]
      BY <1>1, <2>1
    <3> QED
      BY <1>3, <1>4, <2>1, <3>1 DEF InOrder
  <2>2. CASE i = Len(s) + 1
    <3>1. t[i] = event /\ event.call = next /\ last < next
      BY <1>1, <1>4, <2>2
    <3>2. \A u \in Tasks : owners[u] \in Nat /\ owners[u] <= last
      BY <1>2, <1>4, <3>1 DEF Calls
    <3>3. \A k \in 1..i - 1 : t[k] = s[k] /\ k \in 1..Len(s)
      BY <1>1, <2>2
    <3>4. \A k \in 1..Len(s) : s[k].kind = "start" => s[k].call \in Nat /\ s[k].call <= last
      BY <1>2 DEF InOrder
    <3> QED
      BY <1>2, <3>1, <3>2, <3>3, <3>4
  <2> QED
    BY <1>1, <1>4, <2>1, <2>2
<1> QED
  BY <1>3, <1>4 DEF InOrder, t

\* An event is taken, and the call it starts may be given a record.
LEMMA InOrderRest ==
  ASSUME NEW s \in Seq(Sent), s # <<>>, NEW owners \in [Tasks -> Calls], NEW last \in Calls,
         InOrder(s, owners, last), NEW after,
         \/ after = owners
         \/ /\ Head(s).kind = "start"
            /\ \E n \in Tasks : after = [owners EXCEPT ![n] = Head(s).call]
  PROVE  InOrder(Tail(s), after, last)
<1> DEFINE t == Tail(s)
<1>1. /\ Len(s) \in Nat \ {0} /\ Len(t) = Len(s) - 1 /\ Head(s) = s[1]
      /\ \A i \in 1..Len(s) - 1 : t[i] = s[i + 1]
  BY HeadTyped, HeadTailProperties
<1> HIDE DEF t
<1>2. ASSUME NEW i \in 1..Len(t), t[i].kind = "start"
      PROVE  /\ t[i].call \in 1..last
             /\ \A u \in Tasks : after[u] < t[i].call
             /\ \A k \in 1..i - 1 : t[k].kind = "start" => t[k].call < t[i].call
  <2>1. /\ t[i] = s[i + 1] /\ i + 1 \in 1..Len(s) /\ 1 \in 1..(i + 1) - 1
        /\ \A k \in 1..i - 1 : t[k] = s[k + 1] /\ k + 1 \in 1..(i + 1) - 1
    BY <1>1, <1>2
  <2>2. /\ s[i + 1].call \in 1..last
        /\ \A u \in Tasks : owners[u] < s[i + 1].call
        /\ \A k \in 1..(i + 1) - 1 : s[k].kind = "start" => s[k].call < s[i + 1].call
    BY <1>2, <2>1 DEF InOrder
  <2>3. \A u \in Tasks : after[u] < s[i + 1].call
    <3>1. CASE after = owners
      BY <2>2, <3>1
    <3>2. CASE Head(s).kind = "start" /\ \E n \in Tasks : after = [owners EXCEPT ![n] = Head(s).call]
      <4>1. s[1].call < s[i + 1].call
        BY <1>1, <2>1, <2>2, <3>2
      <4>2. \A u \in Tasks : after[u] = owners[u] \/ after[u] = s[1].call
        BY <1>1, <3>2
      <4> QED
        BY <2>2, <4>1, <4>2
    <3> QED
      BY <3>1, <3>2
  <2> QED
    BY <2>1, <2>2, <2>3
<1> QED
  BY <1>2 DEF InOrder, t

LEMMA InOrderFirst ==
  ASSUME NEW s \in Seq(Sent), s # <<>>, NEW owners, NEW last, InOrder(s, owners, last),
         Head(s).kind = "start"
  PROVE  Head(s).call \in 1..last /\ \A t \in Tasks : owners[t] < Head(s).call
<1>1. Head(s) = s[1] /\ Len(s) \in Nat \ {0}
  BY HeadTyped
<1> QED
  BY <1>1 DEF InOrder

LEMMA InOrderNone == ASSUME NEW owners, NEW last PROVE InOrder(<<>>, owners, last)
BY DEF InOrder

LEMMA InitOrder == Init => OrderInv
<1> SUFFICES ASSUME Init PROVE OrderInv
  OBVIOUS
<1>1. Begun
  BY MaxTasksAssumption DEF Init, Begun, Tasks
<1>2. Owned
  BY MaxTasksAssumption DEF Init, InitTable, Owned, Tasks
<1>3. Queued
  BY InOrderNone DEF Init, Queued
<1> QED
  BY <1>1, <1>2, <1>3 DEF OrderInv

LEMMA NextBegun == Typed /\ Begun /\ [Next]_vars => Begun'
<1> SUFFICES ASSUME Typed, Begun, [Next]_vars PROVE Begun'
  OBVIOUS
<1>a. /\ outcome \in [Tasks -> CallEnds] /\ calls \in 0..MaxTasks /\ MaxTasks \in Nat
      /\ \A w \in Workers : pc[w] = "tool" => at[w] \in Tasks
  BY MaxTasksAssumption DEF Typed, PlacesTyped, Tasks
<1>b. UNCHANGED <<outcome, calls>> => Begun'
  BY DEF Begun
<1>1. ASSUME NEW w \in Workers, StartTool(w) PROVE Begun'
  <2>1. calls' = calls + 1 /\ outcome' = [outcome EXCEPT ![calls + 1] = "running"] /\ calls + 1 \in Tasks
    BY <1>1, <1>a DEF StartTool, Tasks
  <2>2. \A c \in Tasks : c <= calls + 1 => c <= calls \/ c = calls + 1
    BY <1>a DEF Tasks
  <2> QED
    BY <1>a, <2>1, <2>2 DEF Begun
<1>2. ASSUME NEW w \in Workers, EndTool(w) \/ CutTool(w) PROVE Begun'
  <2>1. PICK end \in {"ok", "fail", "cut"} :
          calls' = calls /\ outcome' = [outcome EXCEPT ![at[w]] = end]
    BY <1>2 DEF EndTool, CutTool
  <2> QED
    BY <1>a, <2>1 DEF Begun
<1>3. ASSUME NEW w \in Workers, Chatter(w) \/ Thread(w) \/ Answer(w) \/ Fail(w) \/ User(w) PROVE Begun'
  BY <1>3, <1>b DEF Chatter, Thread, Observe, Close, Reap, Answer, Fail, User, StartTurn, Steer,
    CancelTurn, histVars
<1>4. CASE UILoop \/ UNCHANGED vars
  BY <1>4, <1>b DEF UILoop, BeginPoll, TakeEvent, EndPoll, BeginJoin, EndJoin, workerVars, histVars, vars
<1> QED
  BY <1>1, <1>2, <1>3, <1>4 DEF Next, ToolSteps

\* The steps of the UI that may change the table.
LEMMA TableSteps ==
  ASSUME Typed, [Next]_vars
  PROVE  \/ UNCHANGED <<record, nextId, active, owner>>
         \/ /\ active' = 0 /\ UNCHANGED <<nextId, owner, outcome, calls>>
            /\ \E state \in {"completed", "failed", "cancelled"} :
                 record' = IF active = 0 THEN record ELSE Finished(record, active, state)
         \/ /\ active = 0 /\ nextId \in Tasks
            /\ active' = nextId /\ nextId' = nextId + 1
            /\ record' = Registered(nextId, "foreground")
            /\ UNCHANGED <<outcome, calls, lost>>
            /\ current \in Workers /\ stream[current] # <<>>
            /\ Head(stream[current]).kind = "start"
            /\ owner' = [owner EXCEPT ![nextId] = Head(stream[current]).call]
<1> DEFINE Quiet == UNCHANGED <<record, nextId, active, owner>>
           Finish == /\ active' = 0 /\ UNCHANGED <<nextId, owner, outcome, calls>>
                     /\ \E state \in {"completed", "failed", "cancelled"} :
                          record' = IF active = 0 THEN record ELSE Finished(record, active, state)
<1>1. ASSUME NEW w \in Workers, ToolSteps(w) \/ Chatter(w) \/ Thread(w) \/ Answer(w) \/ Fail(w)
                                 \/ StartTurn(w) \/ Steer(w)
      PROVE  Quiet
  BY <1>1 DEF ToolSteps, StartTool, EndTool, CutTool, Chatter, Thread, Observe, Close, Reap,
    Answer, Fail, StartTurn, Steer, uiVars, histVars, tableVars
<1>2. ASSUME NEW w \in Workers, CancelTurn(w) PROVE Finish
  BY <1>2 DEF CancelTurn, FinishTools
<1>3. CASE TakeEvent
  <2> DEFINE event == Head(stream[current])
  <2>1. /\ current \in Workers /\ stream[current] # <<>>
        /\ UNCHANGED <<outcome, calls, lost>>
        /\ \/ event.kind = "start" /\ RegisterTool(event)
           \/ CompleteTool(event)
           \/ UNCHANGED <<tableVars, active, owner>>
    BY <1>3 DEF TakeEvent, Typed, UITyped, UIFree
  <2> HIDE DEF event
  <2>2. CASE CompleteTool(event)
    BY <2>1, <2>2 DEF CompleteTool
  <2>3. CASE event.kind = "start" /\ RegisterTool(event)
    BY <2>1, <2>3 DEF RegisterTool, tableVars, event
  <2>4. CASE UNCHANGED <<tableVars, active, owner>>
    BY <2>4 DEF tableVars
  <2> QED
    BY <2>1, <2>2, <2>3, <2>4
<1>4. CASE EndJoin
  BY <1>4 DEF EndJoin, FinishTools, tableVars
<1>5. CASE BeginPoll \/ EndPoll \/ BeginJoin \/ UNCHANGED vars
  BY <1>5 DEF BeginPoll, EndPoll, BeginJoin, tableVars, histVars, uiVars, vars
<1> QED
  BY <1>1, <1>2, <1>3, <1>4, <1>5 DEF Next, UILoop, User

LEMMA CallsGrow == Typed /\ [Next]_vars => calls <= calls'
<1> SUFFICES ASSUME Typed, [Next]_vars PROVE calls <= calls'
  OBVIOUS
<1>a. calls \in Nat
  BY MaxTasksAssumption DEF Typed, PlacesTyped
<1>1. ASSUME NEW w \in Workers, ToolSteps(w) PROVE calls <= calls'
  BY <1>1, <1>a DEF ToolSteps, StartTool, EndTool, CutTool
<1>2. ASSUME NEW w \in Workers, Chatter(w) \/ Thread(w) \/ Answer(w) \/ Fail(w) \/ User(w)
      PROVE  calls <= calls'
  BY <1>2, <1>a DEF Chatter, Thread, Observe, Close, Reap, Answer, Fail, User, StartTurn, Steer,
    CancelTurn, histVars
<1>3. CASE UILoop \/ UNCHANGED vars
  BY <1>3, <1>a DEF UILoop, BeginPoll, TakeEvent, EndPoll, BeginJoin, EndJoin, histVars, vars
<1> QED
  BY <1>1, <1>2, <1>3 DEF Next

LEMMA NextOwned == Typed /\ OrderInv /\ [Next]_vars => Owned'
<1> SUFFICES ASSUME Typed, OrderInv, [Next]_vars PROVE Owned'
  OBVIOUS
<1>a. /\ record \in [Tasks -> States] /\ nextId \in 1..MaxTasks + 1 /\ MaxTasks \in Nat
      /\ active \in 0..MaxTasks /\ owner \in [Tasks -> 0..MaxTasks]
      /\ active # 0 => active \in Tasks
      /\ calls \in 0..MaxTasks /\ calls' \in 0..MaxTasks
  BY MaxTasksAssumption, NextPlacesTyped DEF Typed, RecordsTyped, PlacesTyped, Tasks
<1>b. Owned /\ calls <= calls'
  BY CallsGrow DEF OrderInv
<1>1. CASE UNCHANGED <<record, nextId, active, owner>>
  BY <1>a, <1>b, <1>1 DEF Owned
<1>2. ASSUME NEW state \in {"completed", "failed", "cancelled"}, active' = 0, UNCHANGED <<nextId, owner>>,
             record' = IF active = 0 THEN record ELSE Finished(record, active, state)
      PROVE  Owned'
  <2>1. \A t \in Tasks : record'[t] = record[t] \/ record'[t] = state
    BY <1>a, <1>2 DEF Finished
  <2>2. \A t \in Tasks : record'[t] # "timedOut"
    BY <1>b, <2>1 DEF Owned
  <2> QED
    BY <1>a, <1>b, <1>2, <2>2 DEF Owned
<1>3. CASE /\ active = 0 /\ nextId \in Tasks
           /\ active' = nextId /\ nextId' = nextId + 1
           /\ record' = Registered(nextId, "foreground")
           /\ UNCHANGED <<outcome, calls, lost>>
           /\ current \in Workers /\ stream[current] # <<>>
           /\ Head(stream[current]).kind = "start"
           /\ owner' = [owner EXCEPT ![nextId] = Head(stream[current]).call]
  <2>1. PICK call : call = Head(stream[current]).call
    OBVIOUS
  <2>2. call \in 1..calls /\ \A t \in Tasks : owner[t] < call
    <3>1. stream[current] \in Seq(Sent) /\ InOrder(stream[current], owner, calls)
      BY <1>3 DEF Typed, StreamsTyped, OrderInv, Queued
    <3> QED
      BY <1>3, <2>1, <3>1, InOrderFirst
  <2>3. \A t \in Tasks : owner'[t] = IF t = nextId THEN call ELSE owner[t]
    BY <1>a, <1>3, <2>1
  <2>4. \A t \in Tasks : record'[t] # "timedOut"
    BY <1>a, <1>b, <1>3, RegisteredKeepsActive DEF Active, Owned
  <2>5. \A t \in Tasks : IF t < nextId' THEN owner'[t] \in 1..calls' ELSE owner'[t] = 0
    BY <1>a, <1>b, <1>3, <2>2, <2>3 DEF Owned, Tasks
  <2>6. \A t, u \in Tasks : t < u /\ u < nextId' => owner'[t] < owner'[u]
    BY <1>a, <1>b, <1>3, <2>2, <2>3 DEF Owned, Tasks
  <2> QED
    BY <1>a, <1>3, <2>4, <2>5, <2>6 DEF Owned
<1> QED
  BY <1>1, <1>2, <1>3, TableSteps

LEMMA NextQueued == Typed /\ OrderInv /\ [Next]_vars => Queued'
<1> SUFFICES ASSUME Typed, OrderInv, [Next]_vars PROVE Queued'
  OBVIOUS
<1>a. /\ stream \in [Workers -> Seq(Sent)] /\ owner \in [Tasks -> Calls]
      /\ calls \in Calls /\ MaxTasks \in Nat
      /\ \A w \in Workers : stream[w] # <<>> => Attached(w)
      /\ \A w \in Workers : InOrder(stream[w], owner, calls)
      /\ 0 \in Calls /\ calls <= calls
  BY MaxTasksAssumption DEF Typed, StreamsTyped, RecordsTyped, PlacesTyped, Calls, OrderInv, Queued
<1>b. UNCHANGED <<stream, owner, calls>> => Queued'
  BY DEF OrderInv, Queued
<1>c. ASSUME NEW w \in Workers, NEW event \in Sent, Send(w, event), NEW next \in Calls, calls <= next,
             event.kind = "start" => event.call = next /\ calls < next,
             owner' = owner, calls' = next
      PROVE  Queued'
  <2>1. \A t \in Tasks : owner[t] <= calls
    BY <1>a, MaxTasksAssumption DEF OrderInv, Owned, Calls, Tasks
  <2>2. ASSUME NEW v \in Workers PROVE InOrder(stream'[v], owner, next)
    <3>1. InOrder(Append(stream[v], event), owner, next) /\ InOrder(stream[v], owner, next)
      <4>1. stream[v] \in Seq(Sent) /\ InOrder(stream[v], owner, calls)
        BY <1>a
      <4> QED
        BY <1>a, <1>c, <2>1, <4>1, InOrderNext
    <3>2. stream'[v] \in {stream[v], Append(stream[v], event)}
      BY <1>a, <1>c DEF Send
    <3> QED
      BY <3>1, <3>2
  <2> QED
    BY <1>c, <2>2 DEF Queued
<1>d. ASSUME NEW w, Detach(w), UNCHANGED <<owner, calls>> PROVE Queued'
  <2>1. \A v \in Workers : stream'[v] \in {stream[v], <<>>}
    BY <1>a, <1>d DEF Detach
  <2> QED
    BY <1>a, <1>d, <2>1, InOrderNone DEF Queued
<1>1. ASSUME NEW w \in Workers, StartTool(w) PROVE Queued'
  <2>1. PICK next \in Calls : next = calls + 1
    BY <1>1, <1>a DEF StartTool, Calls
  <2> DEFINE event == [kind |-> "start", call |-> next]
  <2>2. event \in Sent /\ event.call = next
    BY DEF Sent, Kinds, Calls
  <2>3. Send(w, event) /\ owner' = owner /\ calls' = next /\ calls < next /\ calls <= next
    BY <1>1, <1>a, <2>1 DEF StartTool, Calls
  <2> HIDE DEF event
  <2> QED
    BY <1>c, <2>2, <2>3
<1>2. ASSUME NEW w \in Workers, EndTool(w) \/ Chatter(w) PROVE Queued'
  <2>1. \E event \in Sent : Send(w, event) /\ event.kind # "start"
    <3>1. at[w] \in Calls
      BY DEF Typed, PlacesTyped, Calls
    <3>2. CASE EndTool(w)
      BY <3>1, <3>2 DEF EndTool, Sent, Kinds, Calls
    <3>3. CASE Chatter(w)
      BY <1>a, <3>3 DEF Chatter, Sent, Kinds, Calls
    <3> QED
      BY <1>2, <3>2, <3>3
  <2>2. UNCHANGED <<owner, calls>>
    BY <1>2 DEF EndTool, Chatter, histVars
  <2> QED
    BY <1>a, <1>c, <2>1, <2>2
<1>3. ASSUME NEW w \in Workers, CutTool(w) \/ Thread(w) \/ Answer(w) \/ Fail(w) \/ StartTurn(w) \/ Steer(w)
      PROVE  Queued'
  BY <1>3, <1>b DEF CutTool, Thread, Observe, Close, Reap, Answer, Fail, StartTurn, Steer, histVars
<1>4. ASSUME NEW w \in Workers, CancelTurn(w) PROVE Queued'
  BY <1>4, <1>d DEF CancelTurn, FinishTools
<1>5. CASE EndJoin
  BY <1>5, <1>d DEF EndJoin, FinishTools
<1>6. CASE TakeEvent
  <2>1. /\ current \in Workers /\ stream[current] # <<>> /\ calls' = calls
        /\ stream' = [stream EXCEPT ![current] = Tail(stream[current])]
    BY <1>6 DEF TakeEvent, Typed, UITyped, UIFree
  <2>2. \/ owner' = owner
        \/ /\ Head(stream[current]).kind = "start"
           /\ \E n \in Tasks : owner' = [owner EXCEPT ![n] = Head(stream[current]).call]
    BY TableSteps
  <2>3. stream[current] \in Seq(Sent) /\ InOrder(stream[current], owner, calls)
    BY <1>a, <2>1
  <2>4. InOrder(Tail(stream[current]), owner', calls)
    BY <1>a, <2>1, <2>2, <2>3, InOrderRest
  <2>5. \A v \in Workers \ {current} : stream'[v] = <<>>
    BY <1>a, <2>1 DEF Attached
  <2>6. stream'[current] = Tail(stream[current])
    BY <1>a, <2>1
  <2> QED
    BY <2>1, <2>4, <2>5, <2>6, InOrderNone DEF Queued
<1>7. CASE BeginPoll \/ EndPoll \/ BeginJoin \/ UNCHANGED vars
  BY <1>7, <1>b DEF BeginPoll, EndPoll, BeginJoin, workerVars, histVars, vars
<1> QED
  BY <1>1, <1>2, <1>3, <1>4, <1>5, <1>6, <1>7 DEF Next, UILoop, User, ToolSteps

LEMMA AlwaysOrder == Safety => []OrderInv
<1>1. Typed /\ OrderInv /\ [Next]_vars => OrderInv'
  BY NextBegun, NextOwned, NextQueued DEF OrderInv
<1> QED
  BY <1>1, InitOrder, AlwaysTyped, PTL DEF Safety

\* The state of the record of call c in a table, given whose record is whose.
ShownIn(table, owners, c) ==
  LET of == {t \in Tasks : owners[t] = c}
  IN  IF of = {} THEN "none" ELSE table[CHOOSE t \in of : TRUE]

LEMMA ShownInNone ==
  ASSUME NEW table, NEW owners, NEW c, \A t \in Tasks : owners[t] # c
  PROVE  ShownIn(table, owners, c) = "none"
<1>1. {t \in Tasks : owners[t] = c} = {}
  OBVIOUS
<1> QED
  BY <1>1 DEF ShownIn

LEMMA ShownInOwned ==
  ASSUME NEW table, NEW owners, NEW c, NEW t \in Tasks, owners[t] = c,
         \A u \in Tasks : owners[u] = c => u = t
  PROVE  ShownIn(table, owners, c) = table[t]
<1>1. {u \in Tasks : owners[u] = c} = {t}
  OBVIOUS
<1>2. (CHOOSE u \in {t} : TRUE) = t
  OBVIOUS
<1> QED
  BY <1>1, <1>2 DEF ShownIn

LEMMA ShownNow ==
  /\ \A c \in Tasks : Shown(c) = ShownIn(record, owner, c)
  /\ \A c \in Tasks : Shown(c)' = ShownIn(record', owner', c)
BY DEF Shown, ShownIn

\* A step that leaves the table alone leaves what is shown alone.
LEMMA ShownKept ==
  ASSUME UNCHANGED <<record, owner>>
  PROVE  [c \in Tasks |-> Shown(c)]' = [c \in Tasks |-> Shown(c)]
BY DEF Shown

\* Every task that was registered has a call of its own.
LEMMA OwnersDiffer ==
  ASSUME Typed, Owned
  PROVE  /\ \A t \in Tasks : owner[t] # 0 => owner[t] \in Tasks /\ t < nextId
         /\ \A t, u \in Tasks : owner[t] # 0 /\ owner[u] = owner[t] => u = t
<1>1. /\ nextId \in Nat /\ calls \in 0..MaxTasks /\ MaxTasks \in Nat
      /\ \A t \in Tasks : owner[t] \in 0..MaxTasks
  BY MaxTasksAssumption DEF Typed, RecordsTyped, PlacesTyped
<1>2. \A t \in Tasks : owner[t] # 0 => owner[t] \in Tasks /\ t < nextId
  BY <1>1 DEF Owned, Tasks
<1>3. \A t, u \in Tasks : t = u \/ t < u \/ u < t
  BY <1>1 DEF Tasks
<1>4. ASSUME NEW t \in Tasks, NEW u \in Tasks, owner[t] # 0, owner[u] = owner[t] PROVE u = t
  <2>1. t < nextId /\ u < nextId /\ owner[t] \in Nat
    BY <1>1, <1>2, <1>4
  <2> QED
    BY <1>1, <1>3, <1>4, <2>1 DEF Owned
<1> QED
  BY <1>2, <1>4

\* What the steps need to be those of ToolRecords.
AllInv == Typed /\ ToolInv /\ FlowInv /\ OrderInv

\* A registered start shows its call.
LEMMA RegisterShows ==
  ASSUME AllInv, AllInv', active = 0, nextId \in Tasks,
         record' = Registered(nextId, "foreground"), UNCHANGED <<outcome, lost>>,
         NEW call \in 1..calls, \A t \in Tasks : owner[t] < call,
         owner' = [owner EXCEPT ![nextId] = call]
  PROVE  Records!RecordsNext
<1>a. /\ record \in [Tasks -> States] /\ owner \in [Tasks -> 0..MaxTasks]
      /\ calls \in 0..MaxTasks /\ MaxTasks \in Nat /\ nextId \in Nat
  BY MaxTasksAssumption DEF AllInv, Typed, RecordsTyped, PlacesTyped
<1>3. call \in Tasks /\ outcome[call] # "unused"
  BY <1>a DEF Tasks, AllInv, OrderInv, Begun
<1>4. /\ owner'[nextId] = call
      /\ \A t \in Tasks \ {nextId} : owner'[t] = owner[t] /\ owner[t] # call
      /\ owner[nextId] = 0
  BY <1>a DEF AllInv, OrderInv, Owned
<1>5. /\ record'[nextId] = "foreground"
      /\ \A t \in Tasks \ {nextId} :
           record'[t] = record[t] \/ (record[t] \in Ended /\ record'[t] = "evicted")
      /\ \A t \in Tasks : record[t] # "foreground" /\ record[t] # "timedOut"
  BY <1>a, RegisteredKeepsActive, RegisteredEvictsEnded
  DEF Active, AllInv, ToolInv, ForegroundIsTracked, OrderInv, Owned, Tasks
\* The records of the other calls: as before, or evicted.
<1>6. ASSUME NEW d \in Tasks
      PROVE  \/ \A t \in Tasks : owner[t] # d
             \/ \E t \in Tasks \ {nextId} : owner[t] = d /\ Shown(d) = record[t]
                                              /\ (d # call => Shown(d)' = record'[t])
  <2>1. SUFFICES ASSUME NEW t \in Tasks, owner[t] = d
        PROVE  t # nextId /\ Shown(d) = record[t] /\ (d # call => Shown(d)' = record'[t])
    OBVIOUS
  <2>2. owner[t] # 0 /\ t # nextId /\ owner'[t] = d
    BY <1>a, <1>4, <2>1 DEF Tasks
  <2>3. \A u \in Tasks : owner[u] = d => u = t
    BY <2>1, <2>2, OwnersDiffer DEF AllInv, OrderInv
  <2>4. d # call => \A u \in Tasks : owner'[u] = d => u = t
    BY <1>4, <2>3
  <2>5. Shown(d) = record[t]
    <3>1. ShownIn(record, owner, d) = record[t]
      BY <2>1, <2>3, ShownInOwned
    <3> QED
      BY <3>1, ShownNow
  <2>6. ASSUME d # call PROVE Shown(d)' = record'[t]
    <3>1. PICK table, owners : table = record' /\ owners = owner'
      OBVIOUS
    <3>2. owners[t] = d /\ \A u \in Tasks : owners[u] = d => u = t
      BY <2>2, <2>4, <2>6, <3>1
    <3>3. ShownIn(table, owners, d) = table[t]
      BY <3>2, ShownInOwned
    <3> QED
      BY <3>1, <3>3, ShownNow
  <2> QED
    BY <2>2, <2>5, <2>6
<1>7. ASSUME NEW d \in Tasks
      PROVE  Shown(d) # "foreground" /\ (d >= call => Shown(d) = "none")
  <2>1. CASE \A t \in Tasks : owner[t] # d
    <3>1. Shown(d) = "none"
      BY <2>1, ShownNow, ShownInNone
    <3> QED
      BY <3>1
  <2>2. CASE \E t \in Tasks : owner[t] = d
    <3>1. ~ (d >= call)
      BY <1>a, <2>2 DEF Tasks
    <3> QED
      BY <1>5, <1>6, <2>2, <3>1
  <2> QED
    BY <2>1, <2>2
<1>8. Shown(call)' = "foreground"
  <2>1. PICK table, owners : table = record' /\ owners = owner'
    OBVIOUS
  <2>2. owners[nextId] = call /\ \A u \in Tasks : owners[u] = call => u = nextId
    BY <1>4, <2>1
  <2>3. ShownIn(table, owners, call) = table[nextId]
    BY <2>2, ShownInOwned
  <2> QED
    BY <1>3, <1>5, <2>1, <2>3, ShownNow
<1>9. ASSUME NEW d \in Tasks \ {call}
      PROVE  \/ Shown(d)' = Shown(d)
             \/ Shown(d) \in {"completed", "failed", "cancelled"} /\ Shown(d)' = "evicted"
  <2>1. CASE \A t \in Tasks : owner[t] # d
    <3>1. \A t \in Tasks : owner'[t] # d
      BY <1>4, <1>9, <2>1
    <3>2. ShownIn(record, owner, d) = "none" /\ ShownIn(record', owner', d) = "none"
      BY <2>1, <3>1, ShownInNone
    <3> QED
      BY <1>9, <3>2, ShownNow
  <2>2. CASE \E t \in Tasks \ {nextId} : owner[t] = d /\ Shown(d) = record[t]
                                          /\ (d # call => Shown(d)' = record'[t])
    BY <1>5, <1>9, <2>2 DEF Ended
  <2> QED
    BY <1>6, <1>9, <2>1, <2>2
<1>10. Records!Show(call)
  BY <1>3, <1>7, <1>8, <1>9 DEF Records!Show
<1> QED
  BY <1>3, <1>10 DEF Records!RecordsNext

\* A finished record settles the call it was opened for.
LEMMA FinishSettles ==
  ASSUME AllInv, AllInv', active # 0, NEW state \in {"completed", "failed", "cancelled"},
         record' = Finished(record, active, state), UNCHANGED <<owner, outcome>>,
         lost' \in {lost, TRUE}
  PROVE  Records!RecordsNext
<1>a. /\ record \in [Tasks -> States] /\ owner \in [Tasks -> 0..MaxTasks]
      /\ calls \in 0..MaxTasks /\ MaxTasks \in Nat /\ active \in Tasks
  BY MaxTasksAssumption DEF AllInv, Typed, RecordsTyped, PlacesTyped, Tasks
<1>1. PICK call : call = owner[active]
  OBVIOUS
<1>2. call \in Tasks /\ call # 0
  BY <1>a, <1>1 DEF AllInv, OrderInv, Owned, Tasks
<1>3. record[active] = "foreground" /\ record' = [record EXCEPT ![active] = state]
  BY <1>a DEF AllInv, ToolInv, ForegroundIsTracked, Finished, Active
<1>4. \A u \in Tasks : owner[u] = call => u = active
  BY <1>a, <1>1, <1>2, OwnersDiffer DEF AllInv, OrderInv
<1>5. Shown(call) = "foreground"
  BY <1>a, <1>1, <1>2, <1>3, <1>4, ShownNow, ShownInOwned
<1>6. ASSUME NEW d \in Tasks PROVE Shown(d)' = IF d = call THEN state ELSE Shown(d)
  <2>1. CASE \A t \in Tasks : owner[t] # d
    <3>1. ShownIn(record, owner, d) = "none" /\ ShownIn(record', owner, d) = "none"
      BY <2>1, ShownInNone
    <3>2. d # call
      BY <1>1, <1>a, <2>1
    <3> QED
      BY <1>6, <3>1, <3>2, ShownNow
  <2>2. ASSUME NEW t \in Tasks, owner[t] = d PROVE Shown(d)' = IF d = call THEN state ELSE Shown(d)
    <3>1. \A u \in Tasks : owner[u] = d => u = t
      <4>1. owner[t] # 0
        BY <1>a, <1>6, <2>2 DEF Tasks
      <4> QED
        BY <2>2, <4>1, OwnersDiffer DEF AllInv, OrderInv
    <3>2. ShownIn(record, owner, d) = record[t] /\ ShownIn(record', owner, d) = record'[t]
      BY <2>2, <3>1, ShownInOwned
    <3>3. record'[t] = IF d = call THEN state ELSE record[t]
      BY <1>a, <1>1, <1>3, <1>4, <2>2
    <3> QED
      BY <1>6, <3>2, <3>3, ShownNow
  <2> QED
    BY <2>1, <2>2
<1>7. [c \in Tasks |-> Shown(c)]' = [[c \in Tasks |-> Shown(c)] EXCEPT ![call] = state]
  BY <1>6
<1>8. ~lost' => Records!Fits(state, outcome[call])
  <2>1. record'[active] = state /\ owner'[active] = call /\ outcome' = outcome
    BY <1>a, <1>1, <1>3
  <2>2. ~lost' => Recorded'
    BY DEF AllInv, FlowInv
  <2> QED
    BY <1>a, <2>1, <2>2 DEF Recorded, Records!Fits
<1>9. Records!Settle(call, state)
  BY <1>2, <1>5, <1>7, <1>8 DEF Records!Settle
<1> QED
  BY <1>2, <1>9 DEF Records!RecordsNext

\* A step that neither opens nor ends a record nor begins or ends a call.
LEMMA QuietRecords ==
  ASSUME lost \in BOOLEAN, lost' \in {lost, TRUE}, UNCHANGED <<record, owner, outcome>>
  PROVE  [Records!RecordsNext]_(Records!recordVars)
<1>1. [c \in Tasks |-> Shown(c)]' = [c \in Tasks |-> Shown(c)]
  BY ShownKept
<1>2. CASE lost' = lost
  BY <1>1, <1>2 DEF Records!recordVars
<1>3. CASE lost' = TRUE
  BY <1>1, <1>3 DEF Records!Drop, Records!RecordsNext
<1> QED
  BY <1>2, <1>3

LEMMA WorkerRecords ==
  ASSUME AllInv, NEW w \in Workers, ToolSteps(w)
  PROVE  Records!RecordsNext
<1>a. /\ PlacesTyped /\ NumberedCalls
      /\ UNCHANGED <<record, owner, lost>>
  BY DEF AllInv, Typed, FlowInv, ToolSteps, StartTool, EndTool, CutTool, tableVars
<1>b. [c \in Tasks |-> Shown(c)]' = [c \in Tasks |-> Shown(c)]
  BY <1>a, ShownKept
<1>1. CASE StartTool(w)
  <2>1. PICK call \in Tasks : call = calls + 1
    BY <1>1, <1>a, MaxTasksAssumption DEF StartTool, PlacesTyped, Tasks
  <2>2. outcome[call] = "unused"
    BY <1>a, <2>1, MaxTasksAssumption DEF NumberedCalls, PlacesTyped
  <2>3. Records!Begin(call)
    BY <1>1, <1>a, <1>b, <2>1, <2>2 DEF StartTool, Records!Begin
  <2> QED
    BY <2>3 DEF Records!RecordsNext
<1>2. CASE EndTool(w) \/ CutTool(w)
  <2>1. PICK end \in {"ok", "fail", "cut"} : outcome' = [outcome EXCEPT ![at[w]] = end]
    BY <1>2 DEF EndTool, CutTool
  <2>2. PICK call \in Tasks : call = at[w] /\ outcome[call] = "running"
    BY <1>2, <1>a, MaxTasksAssumption DEF EndTool, CutTool, NumberedCalls, PlacesTyped, Tasks
  <2>3. Records!End(call, end)
    BY <1>a, <1>b, <2>1, <2>2 DEF Records!End
  <2> QED
    BY <2>3 DEF Records!RecordsNext
<1> QED
  BY <1>1, <1>2 DEF ToolSteps

LEMMA NextRecords ==
  AllInv /\ AllInv' /\ [Next]_vars => [Records!RecordsNext]_(Records!recordVars)
<1> SUFFICES ASSUME AllInv, AllInv', [Next]_vars
             PROVE  [Records!RecordsNext]_(Records!recordVars)
  OBVIOUS
<1>a. lost \in BOOLEAN /\ lost' \in {lost, TRUE}
  <2>1. lost \in BOOLEAN
    BY DEF AllInv, Typed, UITyped
  <2>2. ASSUME NEW w \in Workers,
               User(w) \/ Thread(w) \/ ToolSteps(w) \/ Chatter(w) \/ Answer(w) \/ Fail(w)
        PROVE  lost' = lost
    BY <2>2 DEF User, StartTurn, Steer, CancelTurn, Thread, Observe, Close, Reap, ToolSteps,
      StartTool, EndTool, CutTool, Chatter, Answer, Fail, histVars
  <2>3. BeginPoll \/ TakeEvent \/ EndPoll \/ BeginJoin \/ UNCHANGED vars => lost' = lost
    BY DEF BeginPoll, TakeEvent, EndPoll, BeginJoin, histVars, vars
  <2>4. EndJoin => lost' \in {lost, TRUE}
    BY <2>1 DEF EndJoin
  <2> QED
    BY <2>1, <2>2, <2>3, <2>4 DEF Next, UILoop
<1>1. CASE \E w \in Workers : ToolSteps(w)
  BY <1>1, WorkerRecords
<1>2. CASE ~ \E w \in Workers : ToolSteps(w)
  <2>1. outcome' = outcome
    <3>1. ASSUME NEW w \in Workers, Chatter(w) \/ Thread(w) \/ Answer(w) \/ Fail(w) \/ User(w)
          PROVE  outcome' = outcome
      BY <3>1 DEF Chatter, Thread, Observe, Close, Reap, Answer, Fail, User, StartTurn, Steer,
        CancelTurn, histVars
    <3>2. UILoop \/ UNCHANGED vars => outcome' = outcome
      BY DEF UILoop, BeginPoll, TakeEvent, EndPoll, BeginJoin, EndJoin, histVars, vars
    <3> QED
      BY <1>2, <3>1, <3>2 DEF Next
  <2>2. CASE UNCHANGED <<record, nextId, active, owner>>
    BY <1>a, <2>1, <2>2, QuietRecords
  <2>3. ASSUME NEW state \in {"completed", "failed", "cancelled"}, UNCHANGED owner,
               record' = IF active = 0 THEN record ELSE Finished(record, active, state)
        PROVE  [Records!RecordsNext]_(Records!recordVars)
    <3>1. CASE active = 0
      BY <1>a, <2>1, <2>3, <3>1, QuietRecords
    <3>2. CASE active # 0
      BY <1>a, <2>1, <2>3, <3>2, FinishSettles
    <3> QED
      BY <3>1, <3>2
  <2>4. CASE /\ active = 0 /\ nextId \in Tasks
             /\ active' = nextId /\ nextId' = nextId + 1
             /\ record' = Registered(nextId, "foreground")
             /\ UNCHANGED <<outcome, calls, lost>>
             /\ current \in Workers /\ stream[current] # <<>>
             /\ Head(stream[current]).kind = "start"
             /\ owner' = [owner EXCEPT ![nextId] = Head(stream[current]).call]
    <3>1. PICK call : call = Head(stream[current]).call
      OBVIOUS
    <3>2. stream[current] \in Seq(Sent) /\ InOrder(stream[current], owner, calls)
      BY <2>4 DEF AllInv, Typed, StreamsTyped, OrderInv, Queued
    <3>3. call \in 1..calls /\ \A t \in Tasks : owner[t] < call
      BY <2>4, <3>1, <3>2, InOrderFirst
    <3> QED
      BY <2>4, <3>1, <3>3, RegisterShows
  <2> QED
    BY <2>2, <2>3, <2>4, TableSteps DEF AllInv
<1> QED
  BY <1>1, <1>2

\* Whatever turns fail, are cancelled or go on detached, the task records of a
\* tool are ToolRecords: opened in the order of the calls, one at a time and once
\* for a call, and ended as the call was unless the user cancelled it or an
\* event was dropped (app/runtime.rs 750-764, 1175-1243).
THEOREM RecordsImplemented == Safety => ImplementsRecords
<1>1. Init => Records!RecordsInit
  <2>1. Init => \A c \in Tasks : Shown(c) = "none"
    <3> SUFFICES ASSUME Init, NEW c \in Tasks PROVE Shown(c) = "none"
      OBVIOUS
    <3>1. \A t \in Tasks : owner[t] # c
      BY MaxTasksAssumption DEF Init, Tasks
    <3> QED
      BY <3>1, ShownNow, ShownInNone
  <2> QED
    BY <2>1 DEF Init, Records!RecordsInit
<1>2. Safety => []AllInv
  <2>1. Safety => []ToolInv
    BY InitTool, NextTool, PTL DEF Safety
  <2> QED
    BY <2>1, AlwaysTyped, AlwaysFlow, AlwaysOrder, PTL DEF AllInv
<1> QED
  BY <1>1, <1>2, NextRecords, PTL DEF Safety, ImplementsRecords, Records!RecordsSpec

Closed == {"completed", "failed", "cancelled", "evicted"}

\* What the record of a call says once it has ended it says for good, until the
\* table drops it (tasks.rs 467-481): no later tool, turn, failure or
\* cancellation ends it a second time, and no other call takes its place.
EndsStand ==
  [][\A c \in Tasks : Shown(c) \in Closed => Shown(c)' \in {Shown(c), "evicted"}]_vars

LEMMA RecordsStand ==
  ASSUME [Records!RecordsNext]_(Records!recordVars),
         NEW c \in Tasks, Shown(c) \in Closed
  PROVE  Shown(c)' \in {Shown(c), "evicted"}
<1> DEFINE now == [d \in Tasks |-> Shown(d)]
<1>1. now[c] = Shown(c) /\ now'[c] = Shown(c)'
  OBVIOUS
<1>2. CASE now' = now
  BY <1>1, <1>2
<1>3. CASE \E d \in Tasks : Records!Show(d)
  <2>1. PICK d \in Tasks : Records!Show(d)
    BY <1>3
  <2>2. d # c
    BY <2>1, <1>1, MaxTasksAssumption DEF Records!Show, Closed, Tasks
  <2> QED
    BY <2>1, <2>2, <1>1 DEF Records!Show
<1>4. CASE \E d \in Tasks, state \in {"completed", "failed", "cancelled"} : Records!Settle(d, state)
  <2>1. PICK d \in Tasks, state \in {"completed", "failed", "cancelled"} : Records!Settle(d, state)
    BY <1>4
  <2>2. now[d] = "foreground" /\ now' = [now EXCEPT ![d] = state]
    BY <2>1 DEF Records!Settle
  <2>3. d # c
    BY <2>2, <1>1 DEF Closed
  <2> QED
    BY <2>2, <2>3, <1>1
<1> QED
  BY <1>2, <1>3, <1>4 DEF Records!RecordsNext, Records!recordVars, Records!Drop,
    Records!Begin, Records!End

THEOREM EndsAreFinal == Safety => EndsStand
<1>1. AllInv /\ AllInv' /\ [Next]_vars
      => [\A c \in Tasks : Shown(c) \in Closed => Shown(c)' \in {Shown(c), "evicted"}]_vars
  BY NextRecords, RecordsStand
<1>2. Safety => []ToolInv
  BY InitTool, NextTool, PTL DEF Safety
<1>3. Safety => []AllInv
  BY <1>2, AlwaysTyped, AlwaysFlow, AlwaysOrder, PTL DEF AllInv
<1> QED
  BY <1>1, <1>3, PTL DEF Safety, EndsStand
=============================================================================
