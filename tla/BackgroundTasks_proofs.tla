----------------------- MODULE BackgroundTasks_proofs -----------------------
(***************************************************************************)
(* Theorems about BackgroundTasks, for every number of tasks, every bound  *)
(* of the table, any readers for each task, and every size of pipe and     *)
(* channel.                                                                *)
(***************************************************************************)
EXTENDS BackgroundTasks, TaskTable_proofs

\* The inductive strengthening: the types it needs, the tasks not yet
\* registered have left no trace, a tracked task has no verdict, and outside a
\* poll no verdict is waiting to be applied.
TrackedInv ==
  /\ record \in [Tasks -> States] /\ nextId \in Nat
  /\ verdict \in [Tasks -> Ended \union {"none"}]
  /\ running \subseteq Tasks
  /\ \A t \in running : t < nextId /\ record[t] \in Active /\ verdict[t] = "none"
  /\ UIFree => \A t \in Tasks : verdict[t] = "none"

\* The steps that touch none of the variables TrackedInv reads but running, of
\* which they may take a task out.
LEMMA QuietStep ==
  ASSUME TrackedInv, UNCHANGED <<record, nextId, polling, verdict, running>>
  PROVE  TrackedInv'
BY DEF TrackedInv, UIFree

LEMMA InitTracked == Init => TrackedInv
BY DEF Init, InitTable, TrackedInv, States, UIFree

LEMMA NextTracked == TrackedInv /\ [Next]_vars => TrackedInv'
<1> SUFFICES ASSUME TrackedInv, [Next]_vars PROVE TrackedInv'
  OBVIOUS
<1>inv. /\ record \in [Tasks -> States] /\ nextId \in Nat
        /\ verdict \in [Tasks -> Ended \union {"none"}]
        /\ running \subseteq Tasks
        /\ \A t \in running : t < nextId /\ record[t] \in Active /\ verdict[t] = "none"
        /\ UIFree => \A t \in Tasks : verdict[t] = "none"
  BY DEF TrackedInv
<1>1. ASSUME NEW t \in Tasks, Spawn(t) PROVE TrackedInv'
  <2>1. /\ Registered(t, "background") \in [Tasks -> States]
        /\ Registered(t, "background")[t] = "background"
        /\ \A u \in Tasks \ {t} :
             record[u] \in Active => Registered(t, "background")[u] = record[u]
    BY <1>inv, RegisteredKeepsActive DEF Active
  <2> QED
    BY <1>1, <1>inv, <2>1 DEF Spawn, TrackedInv, pollVars, UIFree, Active
<1>2. ASSUME NEW t \in Tasks, SpawnFails(t) PROVE TrackedInv'
  <2>0. t \notin running
    BY <1>2, <1>inv DEF SpawnFails, Tasks
  <2> DEFINE r == Registered(t, "background")
  <2>1. /\ r \in [Tasks -> States]
        /\ \A u \in Tasks \ {t} : record[u] \in Active => r[u] = record[u]
    BY <1>inv, RegisteredKeepsActive DEF Active
  <2>2. /\ Finished(r, t, "failed") \in [Tasks -> States]
        /\ \A u \in Tasks \ {t} : Finished(r, t, "failed")[u] = r[u]
    BY <2>1 DEF Finished, States, Ended
  <2>3. record' = r \/ record' = Finished(r, t, "failed")
    BY <1>2 DEF SpawnFails
  <2>4. record' \in [Tasks -> States] /\ \A u \in running : record'[u] = record[u]
    BY <2>0, <1>inv, <2>1, <2>2, <2>3
  <2> QED
    BY <1>2, <1>inv, <2>4 DEF SpawnFails, TrackedInv, pollVars, runnerVars, UIFree
<1>3. ASSUME NEW t \in Tasks, Cancel(t) PROVE TrackedInv'
  BY <1>3, QuietStep DEF Cancel, tableVars, pollVars
<1>4. ASSUME NEW t \in Tasks, Process(t) \/ Expire(t) PROVE TrackedInv'
  <2>1. UNCHANGED <<record, nextId, polling, verdict, running>>
    BY <1>4 DEF Process, Expire, Exit, Die, Ends, LeftoverExits, tableVars, pollVars, runnerVars
  <2> QED
    BY <2>1, QuietStep
<1>4a. ASSUME NEW r \in Readers, Write(r) \/ Copy(r) \/ ReadFails(r) PROVE TrackedInv'
  <2>1. UNCHANGED <<record, nextId, polling, verdict, running>>
    BY <1>4a DEF Copy, Write, Read, ReadFails, Send, EndOfOutput, tableVars, pollVars, runnerVars
  <2> QED
    BY <2>1, QuietStep
<1>5. ASSUME StartPoll PROVE TrackedInv'
  BY <1>5, <1>inv DEF StartPoll, TrackedInv, UIFree, tableVars, runnerVars
<1>6. ASSUME NEW t \in Tasks, PollLive(t) PROVE TrackedInv'
  BY <1>6, QuietStep DEF PollLive, tableVars
<1>7. ASSUME NEW t \in Tasks, PollExited(t) \/ PollError(t) PROVE TrackedInv'
  <2>1. ExitVerdict(t) \in Ended /\ "failed" \in Ended
    BY DEF ExitVerdict, Ended
  <2>2. \E v \in Ended : /\ verdict' = [verdict EXCEPT ![t] = v]
                         /\ running' = running \ {t}
                         /\ UNCHANGED <<record, nextId, polling>>
                         /\ polling
    BY <1>7, <2>1 DEF PollExited, PollError, DrainAndCheckTime, Visited, tableVars
  <2> QED
    BY <2>2, <1>inv DEF TrackedInv, UIFree
<1>8. ASSUME PollJoin PROVE TrackedInv'
  BY <1>8, QuietStep DEF PollJoin, tableVars, runnerVars
<1>9. ASSUME PollEnd PROVE TrackedInv'
  <2>1. \A t \in Tasks : record'[t] \in States
    BY <1>9, <1>inv DEF PollEnd, Finished, States
  <2>2. \A t \in running : record'[t] = record[t]
    BY <1>9, <1>inv DEF PollEnd
  <2>3. record' \in [Tasks -> States]
    BY <1>9, <2>1 DEF PollEnd
  <2> QED
    BY <1>9, <1>inv, <2>2, <2>3 DEF PollEnd, TrackedInv, UIFree, runnerVars
<1>10. CASE UNCHANGED vars
  BY <1>10, QuietStep DEF vars, tableVars, pollVars, runnerVars
<1> QED
  BY <1>1, <1>2, <1>3, <1>4, <1>4a, <1>5, <1>6, <1>7, <1>8, <1>9, <1>10
  DEF Next, Poll, Visit, User

\* A task the runner tracks is never taken out of the table and its record
\* never ends before poll (tasks.rs:792) has seen its process end, whatever the
\* bound of the table and the order of spawns, cancellations, exits and polls.
THEOREM Tracked == Safety => []TrackedIsActive
<1>1. TrackedInv => TrackedIsActive
  BY DEF TrackedInv, TrackedIsActive
<1> QED
  BY <1>1, InitTracked, NextTracked, PTL DEF Safety

-----------------------------------------------------------------------------
(* Output, verdicts and what is final.                                     *)

Types ==
  /\ record \in [Tasks -> States] /\ nextId \in 1..MaxTasks + 1
  /\ proc \in [Tasks -> {"none", "live", "exited"}]
  /\ code \in [Tasks -> {"none", "ok", "fail"}]
  /\ reader \in [Readers -> {"none", "reading", "sending", "failing", "done", "broken"}]
  /\ verdict \in [Tasks -> Ended \union {"none"}]
  /\ leftover \in [Tasks -> BOOLEAN] /\ killed \in [Tasks -> BOOLEAN]
  /\ pipe \in [Readers -> 0..PipeSize] /\ queue \in [Tasks -> 0..Capacity]
  /\ output \subseteq Tasks
  /\ running \subseteq Tasks /\ expired \subseteq Tasks
  /\ cancelReq \subseteq Tasks /\ timeReq \subseteq Tasks
  /\ polling \in BOOLEAN /\ joining \in Tasks \union {0} /\ todo \subseteq Tasks

\* What a poll has still to visit it tracks, but for the task it is joining.
Polls ==
  /\ todo \subseteq running \union {joining} /\ joining \notin running
  /\ joining # 0 => polling
  /\ UIFree => todo = {} /\ output = {}

\* An end is the right one for what happened to the task.
Just(t, state) ==
  /\ state = "completed" => code[t] = "ok" /\ t \notin cancelReq \union timeReq
  /\ state = "timedOut"  => t \in timeReq \ cancelReq
  /\ t \in cancelReq     => state \in {"cancelled", "failed"}

\* A reader that came to the end of its stream did so because nobody holds it.
Closed(r) ==
  reader[r] = "done" =>
    pipe[r] = 0 /\ proc[TaskOf[r]] = "exited" /\ ~leftover[TaskOf[r]]

\* What is true of one task: a verdict waits for a poll to end, and by then its
\* readers have returned or are being joined.
Shape(t) ==
  /\ proc[t] # "none" => t < nextId
  /\ \A r \in ReadersOf(t) : Closed(r)
  /\ t \in running => proc[t] # "none" /\ record[t] \in Active /\ verdict[t] = "none"
  /\ t \in output => proc[t] # "none" /\ record[t] \in Active
  /\ verdict[t] # "none" =>
       /\ polling /\ proc[t] # "none" /\ record[t] \in Active
       /\ joining = t \/ Joined(t)
       /\ verdict[t] = "completed" => proc[t] = "exited"
       /\ Just(t, verdict[t])
  /\ Done(t) => /\ Joined(t) /\ Just(t, record[t])
                /\ record[t] = "completed" => proc[t] = "exited"

RunInv == Types /\ Polls /\ \A t \in Tasks : Shape(t)

LEMMA ZeroIsNoTask == 0 \notin Tasks /\ Active \cap Ended = {} /\ "none" \notin Ended
BY DEF Tasks, Active, Ended

LEMMA InitRun == Init => RunInv
<1> SUFFICES ASSUME Init PROVE RunInv
  OBVIOUS
<1>1. 1 \in 1..MaxTasks + 1 /\ 0 \in 0..PipeSize /\ 0 \in 0..Capacity
  BY MaxTasksAssumption, SizesAssumption
<1>2. Types
  BY <1>1 DEF Init, InitTable, Types, States
<1>3. Polls
  BY DEF Init, Polls, UIFree
<1>4. \A t \in Tasks : Shape(t)
  <2>1. \A r \in Readers : Closed(r)
    BY DEF Init, Closed
  <2> QED
    BY <2>1 DEF Init, InitTable, Shape, Done, ReadersOf
<1> QED
  BY <1>2, <1>3, <1>4 DEF RunInv

\* The process and the clocks.
LEMMA WorldKeeps ==
  ASSUME RunInv, NEW t \in Tasks, Process(t) \/ Expire(t)
  PROVE  RunInv'
<1> USE DEF tableVars, procVars, outVars, runnerVars, pollVars
<1>0. Types /\ Polls /\ \A u \in Tasks : Shape(u)
  BY DEF RunInv
<1>1. /\ UNCHANGED <<record, nextId, running, cancelReq, timeReq, polling, todo, joining, verdict,
                     reader, pipe, queue, output, killed>>
      /\ expired' \subseteq Tasks
  BY <1>0 DEF Process, Expire, Exit, Die, Ends, LeftoverExits, Types
<1>2. Polls'
  BY <1>0, <1>1 DEF Polls, UIFree
<1>3. \A r \in Readers : Closed(r) /\ TaskOf[r] \in Tasks
  BY <1>0, ReadersAssumption DEF Shape, ReadersOf
<1>4. CASE Exit(t) \/ Die(t)
  <2>1. PICK how \in {"ok", "fail"} : Ends(t, how)
    BY <1>4 DEF Exit, Die
  <2>2. proc[t] = "live" /\ verdict[t] # "completed" /\ ~(Done(t) /\ record[t] = "completed")
    BY <1>0, <1>4 DEF Exit, Die, Shape
  <2>3. /\ proc' \in [Tasks -> {"none", "live", "exited"}] /\ proc'[t] = "exited"
        /\ code' \in [Tasks -> {"none", "ok", "fail"}]
        /\ leftover' \in [Tasks -> BOOLEAN]
        /\ \A u \in Tasks \ {t} : proc'[u] = proc[u] /\ code'[u] = code[u] /\ leftover'[u] = leftover[u]
        /\ UNCHANGED expired
    <3>1. PICK left \in BOOLEAN : leftover' = [leftover EXCEPT ![t] = left]
      <4>1. PICK left \in {FALSE, (t \in Leaving)} : leftover' = [leftover EXCEPT ![t] = left]
        BY <2>1, Zenon DEF Ends
      <4>2. left \in BOOLEAN
        <5>1. CASE t \in Leaving
          <6>1. (t \in Leaving) = TRUE
            BY <5>1
          <6> QED
            BY <6>1
        <5>2. CASE ~(t \in Leaving)
          <6>1. (t \in Leaving) = FALSE
            BY <5>2
          <6> QED
            BY <6>1
        <5> QED
          BY <5>1, <5>2
      <4> QED
        BY <4>1, <4>2, Zenon
    <3>2. leftover' \in [Tasks -> BOOLEAN] /\ \A u \in Tasks \ {t} : leftover'[u] = leftover[u]
      BY <1>0, <3>1 DEF Types
    <3>3. /\ proc' = [proc EXCEPT ![t] = "exited"] /\ code' = [code EXCEPT ![t] = how]
          /\ UNCHANGED expired
      BY <2>1 DEF Ends
    <3>4. proc \in [Tasks -> {"none", "live", "exited"}] /\ code \in [Tasks -> {"none", "ok", "fail"}]
      BY <1>0 DEF Types
    <3> QED
      BY <3>2, <3>3, <3>4
  <2>4. Types'
    BY <1>0, <1>1, <2>3 DEF Types
  <2>5. \A r \in Readers : Closed(r)'
    BY <1>1, <1>3, <2>2, <2>3 DEF Closed
  <2>6. Shape(t)'
    <3>1. Shape(t)
      BY <1>0
    <3>2. Joined(t)' = Joined(t) /\ \A r \in ReadersOf(t) : Closed(r)'
      BY <1>1, <2>5 DEF Joined, ReadersOf
    <3>3. \A state : state # "completed" /\ Just(t, state) => Just(t, state)'
      BY <1>1 DEF Just
    <3>4. CASE Done(t)
      BY <1>1, <2>2, <2>3, <3>1, <3>2, <3>3, <3>4 DEF Shape, Done
    <3>5. CASE ~Done(t)
      <4>1. record[t] \notin Ended
        BY <2>2, <3>5 DEF Done
      <4> QED
        BY <1>1, <2>2, <2>3, <3>1, <3>2, <3>3, <4>1 DEF Shape, Done
    <3> QED
      BY <3>4, <3>5
  <2>7. ASSUME NEW u \in Tasks \ {t} PROVE Shape(u)'
    BY <1>0, <1>1, <2>3, <2>5 DEF Shape, Done, Just, Joined, ReadersOf
  <2> QED
    BY <1>2, <2>4, <2>6, <2>7 DEF RunInv
<1>5. CASE LeftoverExits(t)
  <2>1. /\ leftover' \in [Tasks -> BOOLEAN] /\ ~leftover'[t]
        /\ \A u \in Tasks \ {t} : leftover'[u] = leftover[u]
        /\ UNCHANGED <<proc, code, expired>>
    BY <1>0, <1>5 DEF LeftoverExits, Types
  <2>2. \A r \in Readers : Closed(r)'
    BY <1>1, <1>3, <2>1 DEF Closed
  <2> QED
    BY <1>0, <1>1, <1>2, <2>1, <2>2 DEF RunInv, Types, Shape, Done, Just, Joined, ReadersOf
<1>6. CASE Expire(t)
  <2>1. UNCHANGED <<proc, code, leftover>>
    BY <1>6 DEF Expire
  <2>2. \A r \in Readers : Closed(r)'
    BY <1>1, <1>3, <2>1 DEF Closed
  <2> QED
    BY <1>0, <1>1, <1>2, <2>1, <2>2 DEF RunInv, Types, Shape, Done, Just, Joined, ReadersOf
<1> QED
  BY <1>4, <1>5, <1>6 DEF Process

\* What comes through a pipe.  A reader that has returned does nothing.
LEMMA PipeKeeps ==
  ASSUME RunInv, NEW r \in Readers, Write(r) \/ Copy(r) \/ ReadFails(r)
  PROVE  RunInv'
<1> USE DEF tableVars, procVars, outVars, runnerVars, pollVars
<1>0. Types /\ Polls /\ \A u \in Tasks : Shape(u)
  BY DEF RunInv
<1>1. UNCHANGED <<record, nextId, proc, code, leftover, killed, running, expired, cancelReq, timeReq,
                  polling, todo, joining, verdict, output>>
  BY DEF Write, Copy, Read, ReadFails, Send, EndOfOutput
<1>2. \A q \in Readers : Closed(q) /\ TaskOf[q] \in Tasks
  BY <1>0, ReadersAssumption DEF Shape, ReadersOf
<1>3. reader[r] # "done" \/ UNCHANGED <<reader, pipe, queue>>
  <2>1. Write(r) => reader[r] # "done"
    BY <1>0, <1>2 DEF Write, Closed, Types
  <2> QED
    BY <2>1 DEF Copy, Read, ReadFails, Send, EndOfOutput
<1>4. /\ reader' \in [Readers -> {"none", "reading", "sending", "failing", "done", "broken"}]
      /\ pipe' \in [Readers -> 0..PipeSize] /\ queue' \in [Tasks -> 0..Capacity]
      /\ \A q \in Readers \ {r} : reader'[q] = reader[q] /\ pipe'[q] = pipe[q]
      /\ reader[r] \in {"done", "broken"} => reader'[r] = reader[r]
      /\ reader[r] # "done" /\ reader'[r] = "done" =>
           pipe'[r] = 0 /\ proc[TaskOf[r]] = "exited" /\ ~leftover[TaskOf[r]]
  <2>1. /\ reader \in [Readers -> {"none", "reading", "sending", "failing", "done", "broken"}]
        /\ pipe \in [Readers -> 0..PipeSize] /\ queue \in [Tasks -> 0..Capacity]
        /\ PipeSize \in Nat /\ Capacity \in Nat /\ TaskOf[r] \in Tasks
    BY <1>0, <1>2, SizesAssumption DEF Types
  <2>2. CASE Write(r)
    BY <2>1, <2>2 DEF Write
  <2>3. CASE Read(r)
    BY <2>1, <2>3 DEF Read
  <2>4. CASE Send(r)
    BY <2>1, <2>4 DEF Send
  <2>5. CASE EndOfOutput(r) \/ ReadFails(r)
    BY <2>1, <2>5 DEF EndOfOutput, ReadFails
  <2> QED
    BY <2>2, <2>3, <2>4, <2>5 DEF Copy
<1>5. Types' /\ Polls'
  BY <1>0, <1>1, <1>4 DEF Types, Polls, UIFree
<1>6. \A q \in Readers : Closed(q)'
  BY <1>1, <1>2, <1>3, <1>4 DEF Closed
<1>7. \A u \in Tasks : Joined(u) => Joined(u)'
  BY <1>4 DEF Joined, ReadersOf
<1> HIDE DEF tableVars, procVars, outVars, runnerVars, pollVars
<1>8. \A u \in Tasks : Shape(u)'
  BY <1>0, <1>1, <1>6, <1>7 DEF Shape, Done, Just, ReadersOf
<1> QED
  BY <1>5, <1>8 DEF RunInv

\* What the user starts and cancels.
LEMMA SpawnKeeps ==
  ASSUME RunInv, NEW t \in Tasks, Spawn(t) \/ SpawnFails(t)
  PROVE  RunInv'
<1> USE DEF tableVars, procVars, outVars, runnerVars, pollVars
<1>0. Types /\ Polls /\ \A u \in Tasks : Shape(u)
  BY DEF RunInv
<1> DEFINE r == Registered(t, "background")
<1>1. /\ r \in [Tasks -> States] /\ r[t] = "background"
      /\ \A u \in Tasks \ {t} : record[u] \in Active => r[u] = record[u]
      /\ \A u \in Tasks \ {t} : r[u] \in {record[u], "evicted"}
  BY <1>0, RegisteredKeepsActive DEF Types, Active
<1>2. /\ UIFree /\ t = nextId /\ nextId' = nextId + 1 /\ nextId' \in 1..MaxTasks + 1
      /\ \A u \in Tasks : u < nextId => u < nextId'
  BY <1>0, MaxTasksAssumption DEF Spawn, SpawnFails, Types, Tasks
<1>3. proc[t] = "none" /\ t \notin running /\ verdict[t] = "none" /\ ~Done(t) /\ "evicted" \notin Ended /\ 0 # t
  BY <1>0, <1>2 DEF Shape, Types, Tasks, UIFree, Done, Ended
<1>4. UNCHANGED <<code, leftover, killed, pipe, queue, output, expired, cancelReq, timeReq,
                  polling, todo, joining, verdict>>
  BY DEF Spawn, SpawnFails
<1>4a. /\ \A q \in Readers : Closed(q) /\ TaskOf[q] \in Tasks
       /\ output = {}
  BY <1>0, <1>2, ReadersAssumption DEF Shape, ReadersOf, Polls
<1>5. CASE Spawn(t)
  <2>1. /\ record' = r /\ running' = running \union {t}
        /\ proc' \in [Tasks -> {"none", "live", "exited"}] /\ proc'[t] = "live"
        /\ reader' \in [Readers -> {"none", "reading", "sending", "failing", "done", "broken"}]
        /\ \A q \in Readers : reader'[q] = IF TaskOf[q] = t THEN "reading" ELSE reader[q]
        /\ \A u \in Tasks \ {t} : proc'[u] = proc[u]
    BY <1>0, <1>5 DEF Spawn, Types
  <2> HIDE DEF r
  <2>2. Types'
    BY <1>0, <1>1, <1>2, <1>4, <2>1 DEF Types
  <2>3. Polls'
    <3>1. todo = {} /\ ~polling /\ joining = 0
      BY <1>0, <1>2 DEF Polls, UIFree
    <3> QED
      BY <1>0, <1>2, <1>3, <1>4, <2>1, <3>1 DEF Polls, UIFree
  <2>3a. /\ \A q \in Readers : Closed(q)'
         /\ \A u \in Tasks \ {t} : Joined(u) => Joined(u)'
    BY <1>4, <1>4a, <2>1 DEF Closed, Joined, ReadersOf
  <2>4. Shape(t)'
    BY <1>1, <1>2, <1>3, <1>4, <1>4a, <2>1, <2>3a, ZeroIsNoTask DEF Shape, Done, Active, Tasks, ReadersOf
  <2>5. ASSUME NEW u \in Tasks \ {t} PROVE Shape(u)'
    BY <1>0, <1>1, <1>2, <1>3, <1>4, <1>4a, <2>1, <2>3a DEF Shape, Done, Just, ReadersOf
  <2> QED
    BY <2>2, <2>3, <2>4, <2>5 DEF RunInv
<1>6. CASE SpawnFails(t)
  <2>1. /\ Finished(r, t, "failed") \in [Tasks -> States]
        /\ \A u \in Tasks \ {t} : Finished(r, t, "failed")[u] = r[u]
    BY <1>1, FinishedEnds DEF Ended
  <2>2. /\ record' \in [Tasks -> States] /\ \A u \in Tasks \ {t} : record'[u] = r[u]
        /\ UNCHANGED <<proc, reader, running>>
    BY <1>1, <1>6, <2>1 DEF SpawnFails
  <2> HIDE DEF r
  <2>3. Types' /\ Polls'
    BY <1>0, <1>2, <1>4, <2>2 DEF Types, Polls, UIFree
  <2>3a. \A u \in Tasks : (\A q \in ReadersOf(u) : Closed(q)') /\ (Joined(u)' = Joined(u))
    BY <1>4, <1>4a, <2>2 DEF Closed, Joined, ReadersOf
  <2>4. Shape(t)'
    BY <1>0, <1>2, <1>3, <1>4, <1>4a, <2>2, <2>3a DEF Shape, Done
  <2>5. ASSUME NEW u \in Tasks \ {t} PROVE Shape(u)'
    BY <1>0, <1>1, <1>2, <1>3, <1>4, <1>4a, <2>2, <2>3a DEF Shape, Done, Just
  <2> QED
    BY <2>3, <2>4, <2>5 DEF RunInv
<1> QED
  BY <1>5, <1>6

\* What a kill does to the processes.
LEMMA KillKeeps ==
  ASSUME Types, NEW t \in Tasks, Kill(t)
  PROVE  /\ killed' \in [Tasks -> BOOLEAN] /\ leftover' \in [Tasks -> BOOLEAN]
         /\ \A u \in Tasks : leftover'[u] => leftover[u]
<1>1. PICK left \in {FALSE, leftover[t]} : leftover' = [leftover EXCEPT ![t] = left]
  BY Zenon DEF Kill
<1>2. leftover \in [Tasks -> BOOLEAN] /\ killed \in [Tasks -> BOOLEAN]
  BY DEF Types
<1>3. killed' \in [Tasks -> BOOLEAN]
  BY <1>2 DEF Kill
<1>4. CASE left = FALSE
  BY <1>1, <1>2, <1>3, <1>4
<1>5. CASE left = leftover[t]
  BY <1>1, <1>2, <1>3, <1>5
<1> QED
  BY <1>4, <1>5

LEMMA CancelKeeps ==
  ASSUME RunInv, NEW t \in Tasks, Cancel(t)
  PROVE  RunInv'
<1> USE DEF tableVars, procVars, outVars, runnerVars, pollVars
<1>0. Types /\ Polls /\ \A u \in Tasks : Shape(u)
  BY DEF RunInv
<1>1. /\ killed' \in [Tasks -> BOOLEAN] /\ leftover' \in [Tasks -> BOOLEAN]
      /\ \A u \in Tasks : leftover'[u] => leftover[u]
  BY <1>0, KillKeeps DEF Cancel
<1>2. /\ t \in running /\ cancelReq' = cancelReq \union {t}
      /\ UNCHANGED <<record, nextId, proc, code, reader, pipe, queue, output,
                     running, expired, timeReq, polling, todo, joining, verdict>>
  BY DEF Cancel
<1>2a. \A u \in Tasks : (\A q \in ReadersOf(u) : Closed(q)') /\ (Joined(u)' = Joined(u))
  BY <1>0, <1>1, <1>2, ReadersAssumption DEF Shape, Closed, Joined, ReadersOf
<1>3. Types' /\ Polls'
  BY <1>0, <1>1, <1>2 DEF Types, Polls, UIFree
<1>4. Shape(t)'
  BY <1>0, <1>2, <1>2a, ZeroIsNoTask DEF Shape, Done
<1>5. ASSUME NEW u \in Tasks \ {t} PROVE Shape(u)'
  BY <1>0, <1>2, <1>2a DEF Shape, Done, Just
<1> QED
  BY <1>3, <1>4, <1>5 DEF RunInv

\* A visit: the channel is emptied, and the task may be told to stop.
LEMMA VisitKeeps ==
  ASSUME RunInv, NEW t \in Tasks, Visit(t)
  PROVE  RunInv'
<1> USE DEF tableVars, procVars, outVars, runnerVars, pollVars
<1>0. Types /\ Polls /\ \A u \in Tasks : Shape(u)
  BY DEF RunInv
<1>1. /\ polling /\ joining = 0 /\ t \in todo /\ t \in running /\ t # 0
      /\ record[t] \in Active /\ verdict[t] = "none" /\ ~Done(t) /\ proc[t] # "none"
  BY <1>0, ZeroIsNoTask DEF Visit, PollLive, PollExited, PollError, DrainAndCheckTime, Visited, Polls, Shape, Done
<1>3. /\ UNCHANGED <<record, nextId, proc, code, reader, pipe, expired, cancelReq, polling>>
      /\ Drain(t)
      /\ timeReq' = timeReq \union (expired \intersect {t})
      /\ Kill(t) \/ UNCHANGED <<killed, leftover>>
  BY DEF Visit, PollLive, PollExited, PollError, DrainAndCheckTime
<1>4. /\ killed' \in [Tasks -> BOOLEAN] /\ leftover' \in [Tasks -> BOOLEAN]
      /\ \A u \in Tasks : leftover'[u] => leftover[u]
  <2>1. CASE Kill(t)
    BY <1>0, <2>1, KillKeeps
  <2>2. CASE UNCHANGED <<killed, leftover>>
    BY <1>0, <2>2 DEF Types
  <2> QED
    BY <1>3, <2>1, <2>2
<1>4a. \A u \in Tasks : (\A q \in ReadersOf(u) : Closed(q)') /\ (Joined(u)' = Joined(u))
  BY <1>0, <1>3, <1>4, ReadersAssumption DEF Shape, Closed, Joined, ReadersOf
<1>5. /\ queue' \in [Tasks -> 0..Capacity] /\ output' \subseteq Tasks /\ timeReq' \subseteq Tasks
      /\ \A u \in Tasks \ {t} : (u \in output' => u \in output) /\ (u \in timeReq' <=> u \in timeReq)
  BY <1>0, <1>3, SizesAssumption DEF Types, Drain
<1>6. CASE PollLive(t)
  <2>1. UNCHANGED <<running, joining, verdict>> /\ todo' = todo \ {t}
    BY <1>6 DEF PollLive
  <2>2. Types' /\ Polls'
    BY <1>0, <1>1, <1>3, <1>4, <1>5, <2>1 DEF Types, Polls, UIFree
  <2>3. Shape(t)'
    BY <1>0, <1>1, <1>3, <1>4a, <2>1 DEF Shape, Done
  <2>4. ASSUME NEW u \in Tasks \ {t} PROVE Shape(u)'
    BY <1>0, <1>3, <1>4a, <1>5, <2>1 DEF Shape, Done, Just
  <2> QED
    BY <2>2, <2>3, <2>4 DEF RunInv
<1>7. CASE PollExited(t) \/ PollError(t)
  <2>1. PICK v \in Ended : /\ verdict' = [verdict EXCEPT ![t] = v]
                           /\ v = "completed" => proc[t] = "exited" /\ code[t] = "ok" /\ t \notin cancelReq \union timeReq'
                           /\ v = "timedOut"  => t \in timeReq' \ cancelReq
                           /\ t \in cancelReq => v \in {"cancelled", "failed"}
    <3>1. CASE PollExited(t)
      <4>1. verdict' = [verdict EXCEPT ![t] = ExitVerdict(t)] /\ proc[t] = "exited"
        BY <3>1 DEF PollExited, DrainAndCheckTime
      <4>2. /\ ExitVerdict(t) \in Ended
            /\ ExitVerdict(t) = "completed" => code[t] = "ok" /\ t \notin cancelReq \union timeReq'
            /\ ExitVerdict(t) = "timedOut"  => t \in timeReq' \ cancelReq
            /\ t \in cancelReq => ExitVerdict(t) \in {"cancelled", "failed"}
        <5>1. CASE t \in cancelReq
          <6>1. ExitVerdict(t) = "cancelled"
            BY <5>1 DEF ExitVerdict
          <6> QED
            BY <5>1, <6>1 DEF Ended
        <5>2. CASE t \notin cancelReq /\ t \in timeReq \union expired
          <6>1. ExitVerdict(t) = "timedOut" /\ t \in timeReq'
            BY <1>3, <5>2 DEF ExitVerdict
          <6> QED
            BY <5>2, <6>1 DEF Ended
        <5>3. CASE t \notin cancelReq /\ t \notin timeReq \union expired
          <6>1. ExitVerdict(t) = IF code[t] = "ok" THEN "completed" ELSE "failed"
            BY <5>3 DEF ExitVerdict
          <6>2. t \notin timeReq'
            BY <1>3, <5>3
          <6> QED
            BY <5>3, <6>1, <6>2 DEF Ended
        <5> QED
          BY <5>1, <5>2, <5>3
      <4> QED
        BY <4>1, <4>2
    <3>2. CASE PollError(t)
      BY <3>2 DEF PollError, Ended
    <3> QED
      BY <1>7, <3>1, <3>2
  <2>2. /\ verdict' \in [Tasks -> Ended \union {"none"}] /\ verdict'[t] = v
        /\ \A u \in Tasks \ {t} : verdict'[u] = verdict[u]
    BY <1>0, <2>1 DEF Types
  <2>3. running' = running \ {t} /\ joining' = t /\ UNCHANGED todo
    BY <1>7 DEF PollExited, PollError
  <2>4. Types' /\ Polls'
    <3>1. Types'
      BY <1>0, <1>3, <1>4, <1>5, <2>2, <2>3 DEF Types
    <3>2. Polls'
      BY <1>0, <1>1, <1>3, <2>3, ZeroIsNoTask DEF Types, Polls, UIFree
    <3> QED
      BY <3>1, <3>2
  <2>5. Shape(t)'
    BY <1>0, <1>1, <1>3, <1>4a, <2>1, <2>2, <2>3 DEF Shape, Done, Just
  <2>6. ASSUME NEW u \in Tasks \ {t} PROVE Shape(u)'
    BY <1>0, <1>1, <1>3, <1>4a, <1>5, <2>2, <2>3, ZeroIsNoTask DEF Shape, Done, Just
  <2> QED
    BY <2>4, <2>5, <2>6 DEF RunInv
<1> QED
  BY <1>6, <1>7 DEF Visit

LEMMA PollKeeps ==
  ASSUME RunInv, StartPoll \/ PollJoin \/ PollEnd
  PROVE  RunInv'
<1> USE DEF tableVars, procVars, outVars, runnerVars, pollVars
<1>0. Types /\ Polls /\ \A u \in Tasks : Shape(u)
  BY DEF RunInv
<1>1. CASE StartPoll
  <2>1. ~polling /\ polling' /\ todo' = running /\ joining = 0 /\ polling' \in BOOLEAN
        /\ UNCHANGED <<record, nextId, proc, code, leftover, killed, reader, pipe, queue, output,
                       running, expired, cancelReq, timeReq, joining, verdict>>
    BY <1>0, <1>1 DEF StartPoll, UIFree, Polls
  <2>2. Types' /\ Polls'
    BY <1>0, <2>1 DEF Types, Polls, UIFree
  <2>3. ASSUME NEW u \in Tasks PROVE Shape(u)'
    BY <1>0, <2>1 DEF Shape, Done, Just, Joined, Closed, ReadersOf
  <2> QED
    BY <2>2, <2>3 DEF RunInv
<1>2. CASE PollJoin
  <2>1. /\ joining # 0 /\ Joined(joining) /\ joining' = 0 /\ todo' = todo \ {joining} /\ polling
        /\ UNCHANGED <<record, nextId, proc, code, leftover, killed, reader, pipe, queue, output,
                       running, expired, cancelReq, timeReq, polling, verdict>>
    BY <1>0, <1>2 DEF PollJoin, Polls
  <2>2. Types' /\ Polls'
    BY <1>0, <2>1, ZeroIsNoTask DEF Types, Polls, UIFree
  <2>3. ASSUME NEW u \in Tasks PROVE Shape(u)'
    BY <1>0, <2>1 DEF Shape, Done, Just, Joined, Closed, ReadersOf
  <2> QED
    BY <2>2, <2>3 DEF RunInv
<1>3. CASE PollEnd
  <2>1. /\ joining = 0 /\ todo = {} /\ output' = {} /\ polling' = FALSE
        /\ \A u \in Tasks : verdict'[u] = "none"
        /\ verdict' \in [Tasks -> Ended \union {"none"}]
        /\ UNCHANGED <<nextId, proc, code, leftover, killed, reader, pipe, queue,
                       running, expired, cancelReq, timeReq, todo, joining>>
    BY <1>3 DEF PollEnd
  <2>2. /\ record' \in [Tasks -> States]
        /\ \A u \in Tasks : verdict[u] = "none" => record'[u] = record[u]
        /\ \A u \in Tasks : verdict[u] # "none" => record'[u] = verdict[u]
    <3>1. \A u \in Tasks : verdict[u] # "none" => Finished(record, u, verdict[u])[u] = verdict[u]
      BY <1>0 DEF Shape, Finished, Types
    <3>2. record' = [u \in Tasks |-> IF verdict[u] = "none" THEN record[u] ELSE Finished(record, u, verdict[u])[u]]
      BY <1>3 DEF PollEnd
    <3>3. \A u \in Tasks : record'[u] = IF verdict[u] = "none" THEN record[u] ELSE verdict[u]
      BY <3>1, <3>2
    <3>4. \A u \in Tasks : record'[u] \in States
      BY <1>0, <3>3 DEF Types, States
    <3> QED
      BY <3>2, <3>3, <3>4
  <2>3. Types' /\ Polls'
    BY <1>0, <2>1, <2>2 DEF Types, Polls, UIFree
  <2>4. ASSUME NEW u \in Tasks PROVE Shape(u)'
    <3>0. (\A q \in ReadersOf(u) : Closed(q)') /\ (Joined(u)' = Joined(u))
      BY <1>0, <2>1 DEF Shape, Closed, Joined, ReadersOf
    <3>1. CASE verdict[u] = "none"
      BY <1>0, <2>1, <2>2, <3>0, <3>1 DEF Shape, Done, Just
    <3>2. CASE verdict[u] # "none"
      <4>1. /\ u \notin running /\ joining # u /\ Joined(u) /\ Just(u, verdict[u])
            /\ record'[u] = verdict[u]
            /\ verdict[u] = "completed" => proc[u] = "exited"
        BY <1>0, <2>1, <2>2, <3>2, ZeroIsNoTask DEF Shape
      <4> QED
        BY <1>0, <2>1, <3>0, <4>1 DEF Shape, Done, Just
    <3> QED
      BY <3>1, <3>2
  <2> QED
    BY <2>3, <2>4 DEF RunInv
<1> QED
  BY <1>1, <1>2, <1>3

LEMMA NextRun == RunInv /\ [Next]_vars => RunInv'
<1> SUFFICES ASSUME RunInv, [Next]_vars PROVE RunInv'
  OBVIOUS
<1>1. CASE UNCHANGED vars
  BY <1>1 DEF vars, tableVars, procVars, outVars, runnerVars, pollVars, RunInv, Types, Polls, UIFree, Shape, Done, Just,
    Joined, Closed, ReadersOf
<1> QED
  BY <1>1, WorldKeeps, PipeKeeps, SpawnKeeps, CancelKeeps, VisitKeeps, PollKeeps DEF Next, Poll, User

\* The types, and the state of a poll outside of it.
THEOREM Typing == Safety => []TypeOK
<1>1. RunInv => TypeOK
  <2> SUFFICES ASSUME RunInv PROVE TypeOK
    OBVIOUS
  <2>1. UIFree => todo = {} /\ joining = 0 /\ output = {}
    BY DEF RunInv, Polls, UIFree
  <2> QED
    BY <2>1 DEF RunInv, Types, TypeOK, Polls
<1> QED
  BY <1>1, InitRun, NextRun, PTL DEF Safety

\* When a record says its task has ended its readers are gone, and one that met no
\* error has read its stream to the end (tasks.rs:792-817, the join before the
\* report; 847-862).
THEOREM OutputWasRead == Safety => []OutputIsRead
<1>1. RunInv => OutputIsRead
  BY DEF RunInv, Shape, Closed, OutputIsRead, ReadersOf
<1> QED
  BY <1>1, InitRun, NextRun, PTL DEF Safety

\* A record ends as what happened to its task says (tasks.rs:797-806).
THEOREM VerdictsMatch == Safety => []VerdictMatches
<1>1. RunInv => VerdictMatches
  BY DEF RunInv, Shape, Just, VerdictMatches
<1> QED
  BY <1>1, InitRun, NextRun, PTL DEF Safety

\* No step changes a record that has ended, but for its eviction, appends output to
\* it, or lets its readers go on.
THEOREM EndsAreFinal == Safety => EndedIsFinal
<1>1. RunInv /\ [Next]_vars =>
        [\A t \in Tasks : Done(t) => /\ record'[t] \in {record[t], "evicted"}
                                     /\ t \notin output
                                     /\ \A r \in ReadersOf(t) : reader'[r] = reader[r]]_vars
  <2> SUFFICES ASSUME RunInv, Next, NEW t \in Tasks, Done(t)
               PROVE  /\ record'[t] \in {record[t], "evicted"}
                      /\ t \notin output
                      /\ \A r \in ReadersOf(t) : reader'[r] = reader[r]
    OBVIOUS
  <2>0. Types /\ Polls /\ Shape(t) /\ record[t] \in Ended /\ verdict[t] = "none" /\ t \notin output
        /\ proc[t] # "none" /\ t < nextId /\ Joined(t)
    BY ZeroIsNoTask DEF RunInv, Shape, Done
  <2>1. ASSUME NEW u \in Tasks, Spawn(u) \/ SpawnFails(u)
        PROVE  /\ record'[t] \in {record[t], "evicted"}
               /\ \A r \in ReadersOf(t) : reader'[r] = reader[r]
    <3> DEFINE r == Registered(u, "background")
    <3>1. u = nextId /\ u # t
      BY <2>0, <2>1 DEF Spawn, SpawnFails, Types, Tasks
    <3>2. r \in [Tasks -> States] /\ r[t] \in {record[t], "evicted"}
      BY <2>0, <3>1, RegisteredKeepsActive DEF Types, Active
    <3>3. Finished(r, u, "failed")[t] = r[t]
      BY <3>1, <3>2, FinishedEnds DEF Ended
    <3>4. \A q \in ReadersOf(t) : reader'[q] = reader[q]
      BY <2>1, <3>1 DEF Spawn, SpawnFails, outVars, ReadersOf
    <3> QED
      BY <2>1, <3>2, <3>3, <3>4 DEF Spawn, SpawnFails
  <2>2. ASSUME NEW u \in Tasks, Cancel(u) \/ Process(u) \/ Expire(u) \/ Visit(u)
        PROVE  UNCHANGED <<record, reader>>
    BY <2>2 DEF Cancel, Process, Expire, Visit, Exit, Die, Ends, LeftoverExits,
                PollLive, PollExited, PollError, tableVars, outVars
  <2>3. ASSUME StartPoll \/ PollJoin
        PROVE  UNCHANGED <<record, reader>>
    BY <2>3 DEF StartPoll, PollJoin, tableVars, outVars
  <2>4. ASSUME PollEnd
        PROVE  record'[t] = record[t] /\ UNCHANGED reader
    BY <2>0, <2>4 DEF PollEnd
  <2>5. ASSUME NEW q \in Readers, Write(q) \/ Copy(q) \/ ReadFails(q)
        PROVE  /\ UNCHANGED record
               /\ \A r \in ReadersOf(t) : reader'[r] = reader[r]
    <3>1. UNCHANGED record
      BY <2>5 DEF Write, Copy, Read, ReadFails, Send, EndOfOutput, tableVars
    <3>2. CASE Write(q)
      BY <3>1, <3>2 DEF Write
    <3>3. CASE Copy(q) \/ ReadFails(q)
      <4>1. reader[q] \in {"reading", "sending", "failing"} /\ \E x : reader' = [reader EXCEPT ![q] = x]
        BY <3>3 DEF Copy, Read, ReadFails, Send, EndOfOutput
      <4>2. q \notin ReadersOf(t)
        BY <2>0, <4>1 DEF Joined
      <4> QED
        BY <2>0, <3>1, <4>1, <4>2 DEF Types, ReadersOf
    <3> QED
      BY <2>5, <3>2, <3>3
  <2> QED
    BY <2>0, <2>1, <2>2, <2>3, <2>4, <2>5 DEF Next, Poll, User
<1> QED
  BY <1>1, InitRun, NextRun, PTL DEF Safety, EndedIsFinal
=============================================================================
