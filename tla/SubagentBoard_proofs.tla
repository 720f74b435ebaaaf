------------------------ MODULE SubagentBoard_proofs ------------------------
(***************************************************************************)
(* Theorems about SubagentBoard, for every set of agents and of scopes,    *)
(* every limit and every size of the board.                                *)
(***************************************************************************)
EXTENDS SubagentBoard, FiniteSetTheorems, TLAPS

-------------------------------------------------------------------------------
(* Compaction *)

LEMMA CompactedType ==
  ASSUME NEW b \in Boards
  PROVE  /\ Compacted(b) \in Boards
         /\ \A t \in Tasks : Compacted(b)[t] \in {b[t], Absent}
BY DEF Compacted, Boards

\* A record with fewer than MaxRecords newer tasks stays.
LEMMA Keeps ==
  ASSUME NEW b \in Boards, NEW n \in Nat, \A u \in Tasks : b[u] # Absent => u < n,
         NEW t \in Tasks, n <= t + MaxRecords
  PROVE  Compacted(b)[t] = b[t]
<1> DEFINE Newer == {u \in Listed(b) : u > t}
<1>1. t \in Nat /\ MaxRecords \in Nat \ {0}
  BY BoundAssumption DEF Tasks
<1>2. Newer \in SUBSET ((t + 1)..(n - 1))
  BY <1>1, BoundAssumption DEF Listed, Tasks
<1>3. /\ IsFiniteSet((t + 1)..(n - 1))
      /\ Cardinality((t + 1)..(n - 1)) = IF t + 1 > n - 1 THEN 0 ELSE (n - 1) - (t + 1) + 1
  <2>1. t + 1 \in Int /\ n - 1 \in Int
    BY <1>1
  <2> QED
    BY <2>1, FS_Interval
<1>4. IsFiniteSet(Newer) /\ Cardinality(Newer) <= Cardinality((t + 1)..(n - 1))
  BY <1>2, <1>3, FS_Subset
<1>5. Cardinality(Newer) \in Nat
  BY <1>4, FS_CardinalityType
<1>6. Cardinality(Newer) < MaxRecords
  <2> HIDE DEF Newer
  <2> QED
    BY <1>1, <1>3, <1>4, <1>5
<1> QED
  BY <1>6 DEF Compacted

-------------------------------------------------------------------------------
(* Typing *)

\* Tasks are made in their order, each by one agent, and a thread and a child
\* belong to a task that was made.
Order ==
  /\ \A a \in Agents : task[a] # NoTask =>
       /\ task[a] < nextTask /\ thread[task[a]] = "none" /\ child[task[a]] = "none"
  /\ \A a, b \in Agents : task[a] # NoTask /\ task[a] = task[b] => a = b
  /\ \A t \in Tasks : thread[t] # "none" \/ board[t] # Absent => t < nextTask
  /\ \A a \in Actors : \A t \in Tasks : seen[a][t] # Absent => t < nextTask
  /\ \A a \in Actors : target[a] # NoTask => target[a] < nextTask
  /\ \A t \in Tasks : child[t] = "live" => thread[t] \in {"waiting", "gone"}
  /\ \A t \in Tasks : child[t] # "none" => thread[t] # "none"

Inv == TypeOK /\ Order

LEMMA Bounds ==
  /\ MaxTasks \in Nat /\ MaxRecords \in Nat \ {0} /\ MaxFaults \in Nat /\ MaxCancels \in Nat
  /\ NoTask \notin Tasks /\ Agents \subseteq Actors
  /\ Absent \notin Statuses /\ Active \subseteq Statuses
BY BoundAssumption, ActorsAssumption DEF Actors, Absent, Statuses, Active, Finished

LEMMA InitInv ==
  ASSUME Init
  PROVE  Inv
<1>1. Absent \in Statuses \union {Absent} /\ nextTask \in 1..(MaxTasks + 1) /\ 0 \in 0..MaxFaults /\ 0 \in 0..MaxCancels
  BY Bounds DEF Init
<1>2. board \in Boards /\ seen \in [Actors -> Boards]
  BY DEF Init, Boards
<1>3. scope \in [Tasks -> SUBSET UNION Scopes] /\ wanted \in [Agents -> SUBSET UNION Scopes]
  BY DEF Init
<1>4. thread \in [Tasks -> Stages] /\ child \in [Tasks -> {"none", "live", "exited"}]
  BY DEF Init, Stages
<1>5. TypeOK
  BY <1>1, <1>2, <1>3, <1>4 DEF Init, TypeOK
<1>6. Order
  BY <1>1 DEF Init, Order
<1> QED
  BY <1>5, <1>6 DEF Inv

\* A record that is saved is on the board, unless newer ones push it off.
LEMMA UpsertedFacts ==
  ASSUME Inv, NEW t \in Tasks, t < nextTask, NEW status \in Statuses
  PROVE  /\ Upserted(t, status) \in Boards
         /\ \A u \in Tasks : Upserted(t, status)[u] # Absent => u < nextTask
         /\ \A u \in Tasks \ {t} : Upserted(t, status)[u] \in {board[u], Absent}
         /\ Upserted(t, status)[t] \in {status, Absent}
         /\ \A u \in Tasks \ {t} : nextTask <= u + MaxRecords => Upserted(t, status)[u] = board[u]
         /\ nextTask <= t + MaxRecords => Upserted(t, status)[t] = status
<1> DEFINE b == [board EXCEPT ![t] = status]
<1>1. b \in Boards /\ (\A u \in Tasks : b[u] # Absent => u < nextTask) /\ nextTask \in Nat
  BY DEF Inv, TypeOK, Order, Boards, Tasks
<1>2. b[t] = status /\ \A u \in Tasks \ {t} : b[u] = board[u]
  BY DEF Inv, TypeOK, Boards
<1>3. Upserted(t, status) = Compacted(b)
  BY DEF Upserted
<1> HIDE DEF b
<1>4. /\ Compacted(b) \in Boards
      /\ \A u \in Tasks : Compacted(b)[u] \in {b[u], Absent}
      /\ \A u \in Tasks : nextTask <= u + MaxRecords => Compacted(b)[u] = b[u]
  BY <1>1, CompactedType, Keeps
<1> QED
  BY <1>1, <1>2, <1>3, <1>4

\* A cancellation saves what it loaded.
LEMMA CancelFacts ==
  ASSUME Inv, NEW a \in Actors, target[a] # NoTask
  PROVE  LET b == [seen[a] EXCEPT ![target[a]] = "cancelled"]
         IN  /\ target[a] \in Tasks /\ Compacted(b) \in Boards
             /\ \A u \in Tasks : Compacted(b)[u] # Absent => u < nextTask
             /\ \A u \in Tasks : Compacted(b)[u] \in Active => Compacted(b)[u] = seen[a][u] /\ u # target[a]
             /\ \A u \in Tasks \ {target[a]} : nextTask <= u + MaxRecords => Compacted(b)[u] = seen[a][u]
<1> DEFINE t == target[a]
           b == [seen[a] EXCEPT ![t] = "cancelled"]
<1>1. t \in Tasks /\ t < nextTask /\ seen[a] \in Boards /\ nextTask \in Nat
  BY DEF Inv, TypeOK, Order
<1>2. /\ b \in Boards /\ b[t] = "cancelled" /\ \A u \in Tasks \ {t} : b[u] = seen[a][u]
      /\ \A u \in Tasks : b[u] # Absent => u < nextTask
  BY <1>1 DEF Inv, Order, Boards, Statuses, Finished
<1> HIDE DEF b, t
<1>3. /\ Compacted(b) \in Boards
      /\ \A u \in Tasks : Compacted(b)[u] \in {b[u], Absent}
      /\ \A u \in Tasks : nextTask <= u + MaxRecords => Compacted(b)[u] = b[u]
  BY <1>1, <1>2, CompactedType, Keeps
<1>4. Absent \notin Active /\ "cancelled" \notin Active
  BY DEF Absent, Active
<1>5. /\ t \in Tasks /\ Compacted(b) \in Boards
      /\ \A u \in Tasks : Compacted(b)[u] # Absent => u < nextTask
      /\ \A u \in Tasks : Compacted(b)[u] \in Active => Compacted(b)[u] = seen[a][u] /\ u # t
      /\ \A u \in Tasks \ {t} : nextTask <= u + MaxRecords => Compacted(b)[u] = seen[a][u]
  BY <1>1, <1>2, <1>3, <1>4
<1> QED
  BY <1>5 DEF b, t

LEMMA FaultType ==
  ASSUME TypeOK, Fault
  PROVE  faults' \in 0..MaxFaults
BY Bounds DEF TypeOK, Fault

\* A save of a thread.
LEMMA RecordFacts ==
  ASSUME Inv, NEW t \in Tasks, t < nextTask, NEW status \in Statuses, Record(t, status)
  PROVE  /\ board' \in Boards /\ unsaved' \subseteq Tasks /\ faults' \in 0..MaxFaults
         /\ \A u \in Tasks : board'[u] # Absent => u < nextTask
BY UpsertedFacts, FaultType DEF Record, Inv, TypeOK, Order

\* A save by the thread of a task, which has left its first stage.
LEMMA RecordInv ==
  ASSUME Inv, NEW t \in Tasks, NEW status \in Statuses, NEW stage \in Stages \ {"none"},
         Record(t, status), thread[t] # "none",
         thread' = [thread EXCEPT ![t] = stage],
         child' = child \/ (child' = [child EXCEPT ![t] = "live"] /\ stage = "waiting"),
         child'[t] = "live" => stage \in {"waiting", "gone"},
         UNCHANGED <<limit, scope, nextTask, askVars, cancelVars, held, cancels, cancelled, stale>>
  PROVE  Inv'
<1>1. t < nextTask
  BY DEF Inv, Order
<1>2. /\ board' \in Boards /\ unsaved' \subseteq Tasks /\ faults' \in 0..MaxFaults
      /\ \A u \in Tasks : board'[u] # Absent => u < nextTask
  BY <1>1, RecordFacts
<1>3. thread' \in [Tasks -> Stages] /\ child' \in [Tasks -> {"none", "live", "exited"}]
  BY DEF Inv, TypeOK
<1>4. TypeOK'
  BY <1>2, <1>3 DEF Inv, TypeOK, askVars, cancelVars
<1>5. \A a \in Agents : task[a] # NoTask => task[a] # t /\ task[a] \in Tasks
  BY DEF Inv, TypeOK, Order
<1>6. \A u \in Tasks \ {t} : thread'[u] = thread[u] /\ child'[u] = child[u]
  BY <1>3 DEF Inv, TypeOK
<1>7. thread'[t] = stage
  BY DEF Inv, TypeOK
<1>8. Order'
  <2>1. \A a \in Agents : task'[a] # NoTask =>
          task'[a] < nextTask' /\ thread'[task'[a]] = "none" /\ child'[task'[a]] = "none"
    BY <1>5, <1>6 DEF Inv, Order, askVars
  <2>2. \A u \in Tasks : thread'[u] # "none" \/ board'[u] # Absent => u < nextTask'
    BY <1>1, <1>2, <1>6 DEF Inv, Order
  <2>3. \A u \in Tasks : child'[u] = "live" => thread'[u] \in {"waiting", "gone"}
    BY <1>6, <1>7 DEF Inv, Order
  <2>4. \A u \in Tasks : child'[u] # "none" => thread'[u] # "none"
    BY <1>6, <1>7 DEF Inv, Order
  <2> QED
    BY <2>1, <2>2, <2>3, <2>4 DEF Inv, Order, askVars, cancelVars
<1> QED
  BY <1>4, <1>8 DEF Inv

LEMMA SpawnInv ==
  ASSUME Inv, NEW a \in Agents, Spawn(a)
  PROVE  Inv'
<1> USE DEF Inv, askVars, cancelVars, workVars, counters, history
<1>1. ASSUME NEW files \in Scopes, Count(a, files)
      PROVE  Inv'
  <2>1. wanted' \in [Agents -> SUBSET UNION Scopes] /\ step' \in [Agents -> {"idle", "counted", "claimed"}]
    BY <1>1 DEF Count, TypeOK
  <2>2. \A b \in Agents : step'[b] = "claimed" <=> task'[b] # NoTask
    BY <1>1 DEF Count, TypeOK, Free
  <2> QED
    BY <1>1, <2>1, <2>2 DEF Count, TypeOK, Order
<1>2. CASE Claim(a)
  <2>1. nextTask \in Tasks /\ nextTask' = nextTask + 1 /\ nextTask' \in 1..MaxTasks + 1 /\ nextTask \in Nat
    BY <1>2, Bounds DEF Claim, TypeOK, Tasks
  <2>2. /\ scope' \in [Tasks -> SUBSET UNION Scopes] /\ step' \in [Agents -> {"idle", "counted", "claimed"}]
        /\ task' \in [Agents -> Tasks \union {NoTask}]
    BY <1>2, <2>1 DEF Claim, TypeOK
  <2>3. \A b \in Agents : step'[b] = "claimed" <=> task'[b] # NoTask
    BY <1>2, <2>1, Bounds DEF Claim, TypeOK
  <2>4. TypeOK'
    BY <1>2, <2>1, <2>2, <2>3 DEF Claim, TypeOK
  <2>5. task'[a] = nextTask /\ \A b \in Agents \ {a} : task'[b] = task[b]
    BY <1>2 DEF Claim, TypeOK
  <2>6. thread[nextTask] = "none" /\ child[nextTask] = "none" /\ board[nextTask] = Absent
    BY <2>1 DEF Order
  <2>7. \A b \in Agents : task[b] # NoTask => task[b] < nextTask /\ task[b] \in Nat
    BY <2>1 DEF Order, TypeOK, Tasks
  <2>8. Order'
    <3>1. \A b \in Agents : task'[b] # NoTask =>
            task'[b] < nextTask' /\ thread'[task'[b]] = "none" /\ child'[task'[b]] = "none"
      BY <1>2, <2>1, <2>5, <2>6, <2>7 DEF Claim, Order
    <3>2. \A b, c \in Agents : task'[b] # NoTask /\ task'[b] = task'[c] => b = c
      BY <2>1, <2>5, <2>7, Bounds DEF Order
    <3>3. \A t \in Tasks : t < nextTask => t < nextTask'
      BY <2>1 DEF Tasks
    <3>4. \A b \in Actors : target'[b] # NoTask => target'[b] < nextTask'
      BY <1>2, <3>3 DEF Claim, Order, TypeOK
    <3> QED
      BY <1>2, <3>1, <3>2, <3>3, <3>4 DEF Claim, Order
  <2> QED
    BY <2>4, <2>8
<1>3. ASSUME Done(a), UNCHANGED <<limit, scope, nextTask, cancelVars, child, held, cancels>>,
             board' \in Boards, \A u \in Tasks : board'[u] # Absent => u < nextTask,
             cancelled' \subseteq Tasks, unsaved' \subseteq Tasks, stale' \in BOOLEAN, faults' \in 0..MaxFaults,
             \/ thread' = thread
             \/ step[a] = "claimed" /\ thread' = [thread EXCEPT ![task[a]] = "starting"]
      PROVE  Inv'
  <2>1. /\ step' \in [Agents -> {"idle", "counted", "claimed"}] /\ task' \in [Agents -> Tasks \union {NoTask}]
        /\ wanted' \in [Agents -> SUBSET UNION Scopes]
    BY <1>3 DEF Done, TypeOK
  <2>2. \A b \in Agents : step'[b] = "claimed" <=> task'[b] # NoTask
    BY <1>3 DEF Done, TypeOK
  <2>3. thread' \in [Tasks -> Stages]
    BY <1>3 DEF TypeOK, Stages
  <2>4. TypeOK'
    BY <1>3, <2>1, <2>2, <2>3 DEF TypeOK
  <2>5. task'[a] = NoTask /\ \A b \in Agents \ {a} : task'[b] = task[b]
    BY <1>3 DEF Done, TypeOK
  <2>6. step[a] = "claimed" => /\ task[a] \in Tasks /\ task[a] < nextTask /\ child[task[a]] = "none"
                              /\ \A b \in Agents \ {a} : task[b] # task[a]
    BY DEF TypeOK, Order
  <2>7. \A t \in Tasks : thread'[t] = thread[t] \/ (thread'[t] = "starting" /\ step[a] = "claimed" /\ t = task[a])
    BY <1>3 DEF TypeOK
  <2>8. Order'
    <3>1. \A b \in Agents : task'[b] # NoTask =>
            task'[b] < nextTask' /\ thread'[task'[b]] = "none" /\ child'[task'[b]] = "none"
      BY <1>3, <2>5, <2>6, <2>7 DEF TypeOK, Order
    <3>2. \A b, c \in Agents : task'[b] # NoTask /\ task'[b] = task'[c] => b = c
      BY <2>5 DEF Order
    <3>3. \A t \in Tasks : thread'[t] # "none" \/ board'[t] # Absent => t < nextTask'
      BY <1>3, <2>6, <2>7 DEF Order
    <3>4. \A t \in Tasks : child'[t] = "live" => thread'[t] \in {"waiting", "gone"}
      BY <1>3, <2>6, <2>7 DEF Order
    <3>5. \A t \in Tasks : child'[t] # "none" => thread'[t] # "none"
      BY <1>3, <2>7 DEF Order
    <3> QED
      BY <1>3, <3>1, <3>2, <3>3, <3>4, <3>5 DEF Order
  <2> QED
    BY <2>4, <2>8
<1>4. CASE Refuse(a)
  BY <1>3, <1>4 DEF Refuse, TypeOK, Order
<1>5. CASE Queue(a)
  <2>1. task[a] \in Tasks /\ task[a] < nextTask /\ "queued" \in Statuses
    BY <1>5 DEF Queue, TypeOK, Order, Statuses, Active
  <2>2. board' \in Boards /\ \A u \in Tasks : board'[u] # Absent => u < nextTask
    BY <1>5, <2>1, UpsertedFacts DEF Queue
  <2> QED
    BY <1>3, <1>5, <2>2 DEF Queue, TypeOK
<1>6. CASE QueueFails(a)
  BY <1>3, <1>6, FaultType DEF QueueFails, TypeOK, Order
<1> QED
  BY <1>1, <1>2, <1>4, <1>5, <1>6 DEF Spawn

LEMMA CancelInv ==
  ASSUME Inv, NEW a \in Actors, Cancel(a)
  PROVE  Inv'
<1> USE DEF Inv, askVars, cancelVars, workVars, counters, history
<1>1. ASSUME NEW t \in Tasks, LoadToCancel(a, t)
      PROVE  Inv'
  <2>1. cancels' \in 0..MaxCancels
    BY <1>1, Bounds DEF LoadToCancel, TypeOK
  <2>2. target' \in [Actors -> Tasks \union {NoTask}] /\ seen' \in [Actors -> Boards]
    BY <1>1 DEF LoadToCancel, TypeOK
  <2>3. TypeOK'
    BY <1>1, <2>1, <2>2 DEF LoadToCancel, TypeOK
  <2>4. t < nextTask
    BY <1>1, Bounds DEF LoadToCancel, IsActive, Order
  <2>5. /\ target'[a] = t /\ seen'[a] = board
        /\ \A b \in Actors \ {a} : target'[b] = target[b] /\ seen'[b] = seen[b]
    BY <1>1 DEF LoadToCancel, TypeOK
  <2>6. Order'
    BY <1>1, <2>4, <2>5 DEF LoadToCancel, Order
  <2> QED
    BY <2>3, <2>6
<1>2. ASSUME Forget(a), board' \in Boards, \A u \in Tasks : board'[u] # Absent => u < nextTask,
             UNCHANGED <<limit, scope, nextTask, askVars, workVars, cancels>>,
             cancelled' \subseteq Tasks, unsaved' \subseteq Tasks, stale' \in BOOLEAN, faults' \in 0..MaxFaults
      PROVE  Inv'
  <2>1. [t \in Tasks |-> Absent] \in Boards
    BY DEF Boards
  <2>2. target' \in [Actors -> Tasks \union {NoTask}] /\ seen' \in [Actors -> Boards]
    BY <1>2, <2>1 DEF Forget, TypeOK
  <2>3. TypeOK'
    BY <1>2, <2>2 DEF TypeOK
  <2>4. /\ target'[a] = NoTask /\ \A t \in Tasks : seen'[a][t] = Absent
        /\ \A b \in Actors \ {a} : target'[b] = target[b] /\ seen'[b] = seen[b]
    BY <1>2 DEF Forget, TypeOK
  <2>5. Order'
    BY <1>2, <2>4 DEF Order
  <2> QED
    BY <2>3, <2>5
<1>3. CASE SaveCancelled(a)
  <2>1. target[a] \in Tasks /\ target[a] # NoTask
    BY <1>3 DEF SaveCancelled, TypeOK
  <2>2. board' \in Boards /\ \A u \in Tasks : board'[u] # Absent => u < nextTask
    BY <1>3, CancelFacts DEF SaveCancelled
  <2> QED
    BY <1>2, <1>3, <2>1, <2>2 DEF SaveCancelled, TypeOK
<1>4. CASE SaveCancelledFails(a)
  BY <1>2, <1>4, FaultType DEF SaveCancelledFails, TypeOK, Order
<1> QED
  BY <1>1, <1>3, <1>4 DEF Cancel

LEMMA WorkInv ==
  ASSUME Inv, NEW t \in Tasks, Work(t) \/ ChildExits(t) \/ LeftoverExits(t) \/ CaptureFails(t)
  PROVE  Inv'
<1> USE DEF Inv
<1>1. {"running", "completed", "failed"} \subseteq Statuses
  BY DEF Statuses, Active, Finished
<1>2. CASE Start(t)
  BY <1>1, <1>2, RecordInv DEF Start, Stages, Order
<1>3. CASE Launch(t)
  BY <1>1, <1>3, RecordInv DEF Launch, Stages
<1>4. ASSUME thread[t] # "none", NEW stage \in Stages \ {"none"}, thread' = [thread EXCEPT ![t] = stage],
             child[t] # "live", UNCHANGED <<limit, board, scope, nextTask, askVars, cancelVars, child, held, counters, history>>
      PROVE  Inv'
  <2>1. thread' \in [Tasks -> Stages]
    BY <1>4 DEF TypeOK
  <2>2. TypeOK'
    BY <1>4, <2>1 DEF TypeOK, askVars, cancelVars, counters, history
  <2>3. \A u \in Tasks : thread'[u] = thread[u] \/ (u = t /\ thread'[u] = stage)
    BY <1>4 DEF TypeOK
  <2>4. \A b \in Agents : task[b] # NoTask => task[b] \in Tasks /\ task[b] # t
    BY <1>4 DEF TypeOK, Order
  <2>5. \A b \in Agents : task'[b] # NoTask => thread'[task'[b]] = "none"
    BY <1>4, <2>3, <2>4 DEF Order, askVars
  <2>6. Order'
    BY <1>4, <2>3, <2>5 DEF Order, askVars, cancelVars
  <2> QED
    BY <2>2, <2>6
<1>5. CASE LaunchFails(t)
  <2>1. child[t] # "live" /\ "failed" \in Stages
    BY <1>5 DEF LaunchFails, Order, Stages
  <2>2. CASE Record(t, "running")
    BY <1>1, <1>5, <2>1, <2>2, RecordInv DEF LaunchFails, Stages
  <2>3. CASE UNCHANGED <<board, faults, unsaved>>
    BY <1>4, <1>5, <2>1, <2>3 DEF LaunchFails, counters, history
  <2> QED
    BY <1>5, <2>2, <2>3 DEF LaunchFails
<1>6. CASE ChildExits(t)
  <2>1. child' \in [Tasks -> {"none", "live", "exited"}]
    BY <1>6 DEF ChildExits, TypeOK
  <2>2. TypeOK'
    BY <1>6, <2>1, LeavingAssumption DEF ChildExits, TypeOK, askVars, cancelVars, counters, history
  <2>3. \A u \in Tasks : child'[u] = child[u] \/ (u = t /\ child'[u] = "exited")
    BY <1>6 DEF ChildExits, TypeOK
  <2>4. \A b \in Agents : task[b] # NoTask => task[b] \in Tasks /\ task[b] # t
    BY <1>6 DEF ChildExits, TypeOK, Order
  <2>5. Order'
    BY <1>6, <2>3, <2>4 DEF ChildExits, Order, askVars, cancelVars
  <2> QED
    BY <2>2, <2>5
<1>7. CASE Await(t) \/ CaptureFails(t)
  BY <1>4, <1>7 DEF Await, CaptureFails, Stages
<1>7a. CASE LeftoverExits(t)
  BY <1>7a DEF LeftoverExits, TypeOK, Order, askVars, cancelVars, counters, history
<1>8. CASE Report(t)
  <2>1. child[t] # "live" /\ thread[t] \in {"completed", "failed"}
    BY <1>8 DEF Report, Order
  <2> QED
    BY <1>1, <1>8, <2>1, RecordInv DEF Report, Stages
<1> QED
  BY <1>2, <1>3, <1>5, <1>6, <1>7, <1>7a, <1>8 DEF Work

LEMMA StepInv ==
  ASSUME Inv, [Next]_vars
  PROVE  Inv'
<1>1. CASE Exit
  <2>1. [t \in Tasks |-> Absent] \in Boards /\ {} \in SUBSET UNION Scopes
    BY DEF Boards
  <2>2. /\ step' \in [Agents -> {"idle", "counted", "claimed"}] /\ wanted' \in [Agents -> SUBSET UNION Scopes]
        /\ task' \in [Agents -> Tasks \union {NoTask}] /\ target' \in [Actors -> Tasks \union {NoTask}]
        /\ seen' \in [Actors -> Boards]
    BY <1>1, <2>1 DEF Exit
  <2>3. thread' \in [Tasks -> Stages]
    BY <1>1 DEF Exit, Inv, TypeOK, Stages
  <2>4. \A a \in Agents : step'[a] = "idle" /\ task'[a] = NoTask
    BY <1>1 DEF Exit
  <2>5. faults' \in 0..MaxFaults
    BY <1>1, FaultType DEF Exit, Inv
  <2>6. TypeOK'
    BY <1>1, <2>2, <2>3, <2>4, <2>5 DEF Exit, Inv, TypeOK, history
  <2>7. \A a \in Actors : target'[a] = NoTask /\ \A t \in Tasks : seen'[a][t] = Absent
    BY <1>1 DEF Exit
  <2>8. \A t \in Tasks : \/ thread[t] \in {"none", "done"} /\ thread'[t] = thread[t]
                         \/ thread[t] \notin {"none", "done"} /\ thread'[t] = "gone"
    BY <1>1 DEF Exit
  <2>9. Order'
    BY <1>1, <2>4, <2>7, <2>8 DEF Exit, Inv, Order
  <2> QED
    BY <2>6, <2>9 DEF Inv
<1>2. CASE UNCHANGED vars
  BY <1>2 DEF vars, Inv, TypeOK, Order, askVars, cancelVars, workVars, counters, history
<1> QED
  BY <1>1, <1>2, SpawnInv, CancelInv, WorkInv DEF Next

\* Tasks, threads, children and the board keep their types, and each task has one
\* record, made by one agent before its thread starts.
THEOREM Typing == Safety => []TypeOK
<1>1. Init => Inv
  BY InitInv
<1>2. Inv /\ [Next]_vars => Inv'
  BY StepInv
<1>3. Inv => TypeOK
  BY DEF Inv
<1> QED
  BY <1>1, <1>2, <1>3, PTL DEF Safety

-------------------------------------------------------------------------------
(* What a step does to the tasks while no cancellation is saved over a     *)
(* board it had not seen.                                                  *)

Alive == {"starting", "launching", "waiting", "completed", "failed"}

\* The step in which a task is queued.
Queued(t) ==
  /\ thread[t] = "none" /\ thread'[t] = "starting"
  /\ \E a \in Agents : task[a] = t

Orderly(t) ==
  /\ /\ board[t] \in Active /\ t \notin cancelled' /\ nextTask <= t + MaxRecords
     => board'[t] \in Active \/ thread'[t] = "done"
  /\ board'[t] \in Active =>
       board[t] \in Active \/ thread[t] \in {"starting", "launching"} \/ Queued(t)
  /\ thread'[t] \in Alive => thread[t] \in Alive \/ Queued(t)
  /\ Queued(t) /\ nextTask <= t + MaxRecords => board'[t] \in Active
  /\ child'[t] = "live" => child[t] = "live" \/ thread[t] \in Alive
  /\ board'[t] \in Active /\ thread'[t] \in {"none", "done"} =>
       \/ t \in unsaved'
       \/ board[t] \in Active /\ thread[t] = thread'[t] /\ t \notin unsaved

LEMMA RecordOrderly ==
  ASSUME Inv, NEW t \in Tasks, NEW status \in Statuses, NEW stage \in Stages,
         Record(t, status), thread[t] \in Alive, thread' = [thread EXCEPT ![t] = stage],
         IF status \in Active THEN thread[t] \in {"starting", "launching"} /\ stage \notin {"none", "done", "starting"}
                              ELSE stage = "done",
         child' = child \/ child' = [child EXCEPT ![t] = "live"]
  PROVE  \A u \in Tasks : Orderly(u)
<1>1. t < nextTask
  BY DEF Inv, Order, Alive
<1>2. /\ thread'[t] = stage /\ \A u \in Tasks \ {t} : thread'[u] = thread[u]
      /\ \A u \in Tasks \ {t} : child'[u] = child[u]
  BY DEF Inv, TypeOK
<1>3. Absent \notin Active /\ thread[t] # "none" /\ stage # "starting"
  BY DEF Absent, Active, Alive
<1>4. CASE board' = Upserted(t, status) /\ unsaved' = unsaved \ {t}
  <2>1. /\ \A u \in Tasks \ {t} : board'[u] \in {board[u], Absent}
        /\ board'[t] \in {status, Absent}
        /\ \A u \in Tasks \ {t} : nextTask <= u + MaxRecords => board'[u] = board[u]
        /\ nextTask <= t + MaxRecords => board'[t] = status
    BY <1>1, <1>4, UpsertedFacts
  <2>2. Orderly(t)
    BY <1>2, <1>3, <2>1 DEF Orderly, Queued
  <2>3. ASSUME NEW u \in Tasks \ {t} PROVE Orderly(u)
    BY <1>2, <1>3, <1>4, <2>1 DEF Orderly, Queued
  <2> QED
    BY <2>2, <2>3
<1>5. CASE unsaved' = unsaved \union {t} /\ UNCHANGED board
  <2>1. Orderly(t)
    BY <1>2, <1>3, <1>5 DEF Orderly, Queued
  <2>2. ASSUME NEW u \in Tasks \ {t} PROVE Orderly(u)
    BY <1>2, <1>3, <1>5 DEF Orderly, Queued
  <2> QED
    BY <2>1, <2>2
<1> QED
  BY <1>4, <1>5 DEF Record

\* A step that leaves the board and what was saved of it alone.
LEMMA StillOrderly ==
  ASSUME Inv, UNCHANGED <<board, unsaved>>,
         \A t \in Tasks : thread'[t] = thread[t] \/ (thread[t] \in Alive /\ thread'[t] \notin {"none", "done", "starting"}) \/ thread'[t] = "gone",
         \A t \in Tasks : child'[t] = "live" => child[t] = "live" \/ thread[t] \in Alive
  PROVE  \A t \in Tasks : Orderly(t)
BY DEF Orderly, Queued, Alive

LEMMA StepOrderly ==
  ASSUME Inv, [Next]_vars, ~stale'
  PROVE  ~stale /\ \A t \in Tasks : Orderly(t)
<1> USE DEF askVars, cancelVars, workVars, counters, history
<1>1. ASSUME NEW a \in Agents, Queue(a)
      PROVE  ~stale /\ \A t \in Tasks : Orderly(t)
  <2> DEFINE t == task[a]
  <2>1. t \in Tasks /\ t < nextTask /\ "queued" \in Statuses /\ thread[t] = "none" /\ "queued" \in Active /\ Absent \notin Active
    BY <1>1 DEF Queue, Inv, TypeOK, Order, Statuses, Active, Absent
  <2>2. /\ \A u \in Tasks \ {t} : board'[u] \in {board[u], Absent}
        /\ \A u \in Tasks \ {t} : nextTask <= u + MaxRecords => board'[u] = board[u]
        /\ nextTask <= t + MaxRecords => board'[t] = "queued"
    BY <1>1, <2>1, UpsertedFacts DEF Queue
  <2>3. thread'[t] = "starting" /\ \A u \in Tasks \ {t} : thread'[u] = thread[u]
    BY <1>1, <2>1 DEF Queue, Inv, TypeOK
  <2>4. UNCHANGED <<child, unsaved, cancelled, stale>>
    BY <1>1 DEF Queue
  <2>5. Queued(t)
    BY <2>1, <2>3 DEF Queued
  <2> HIDE DEF t
  <2>6. Orderly(t)
    BY <2>1, <2>2, <2>3, <2>4, <2>5 DEF Orderly
  <2>7. ASSUME NEW u \in Tasks \ {t} PROVE Orderly(u)
    BY <2>1, <2>2, <2>3, <2>4 DEF Orderly, Queued
  <2> QED
    BY <2>4, <2>6, <2>7
<1>2. ASSUME NEW a \in Actors, SaveCancelled(a)
      PROVE  ~stale /\ \A t \in Tasks : Orderly(t)
  <2> DEFINE t == target[a]
  <2>1. ~stale /\ board = seen[a] /\ target[a] # NoTask /\ cancelled' = cancelled \union {t} /\ UNCHANGED <<thread, child, unsaved>>
    BY <1>2 DEF SaveCancelled, Inv, TypeOK
  <2>2. /\ \A u \in Tasks : board'[u] \in Active => board'[u] = board[u] /\ u # t
        /\ \A u \in Tasks \ {t} : nextTask <= u + MaxRecords => board'[u] = board[u]
    BY <1>2, <2>1, CancelFacts DEF SaveCancelled
  <2> HIDE DEF t
  <2>3. ASSUME NEW u \in Tasks PROVE Orderly(u)
    BY <2>1, <2>2 DEF Orderly, Queued
  <2> QED
    BY <2>1, <2>3
<1>3. ASSUME NEW t \in Tasks, Start(t) \/ Launch(t) \/ Report(t)
      PROVE  ~stale /\ \A u \in Tasks : Orderly(u)
  <2>1. /\ {"running", "completed", "failed"} \subseteq Statuses /\ "running" \in Active
        /\ "completed" \notin Active /\ "failed" \notin Active
        /\ {"launching", "waiting", "done"} \subseteq Stages
    BY DEF Statuses, Active, Finished, Stages
  <2>2. CASE Start(t)
    BY <2>1, <2>2, RecordOrderly DEF Start, Alive
  <2>3. CASE Launch(t)
    BY <2>1, <2>3, RecordOrderly DEF Launch, Alive
  <2>4. CASE Report(t)
    BY <2>1, <2>4, RecordOrderly DEF Report, Alive
  <2> QED
    BY <1>3, <2>2, <2>3, <2>4
<1>4. ASSUME NEW t \in Tasks, LaunchFails(t)
      PROVE  ~stale /\ \A u \in Tasks : Orderly(u)
  <2>1. "running" \in Statuses /\ "running" \in Active /\ "failed" \in Stages
    BY DEF Statuses, Active, Stages
  <2>2. CASE Record(t, "running")
    BY <1>4, <2>1, <2>2, RecordOrderly DEF LaunchFails, Alive
  <2>3. CASE UNCHANGED <<board, faults, unsaved>>
    <3>1. \A u \in Tasks : thread'[u] = thread[u] \/ (thread[u] \in Alive /\ thread'[u] = "failed")
      BY <1>4 DEF LaunchFails, Alive, Inv, TypeOK
    <3> QED
      BY <1>4, <2>3, <3>1, StillOrderly DEF LaunchFails
  <2> QED
    BY <1>4, <2>2, <2>3 DEF LaunchFails
<1>5. ASSUME NEW t \in Tasks, Await(t) \/ ChildExits(t) \/ LeftoverExits(t) \/ CaptureFails(t)
      PROVE  ~stale /\ \A u \in Tasks : Orderly(u)
  <2>1. \A u \in Tasks : thread'[u] = thread[u] \/ (thread[u] \in Alive /\ thread'[u] \in {"completed", "failed"})
    BY <1>5 DEF Await, ChildExits, LeftoverExits, CaptureFails, Alive, Inv, TypeOK
  <2>2. \A u \in Tasks : child'[u] = "live" => child[u] = "live"
    BY <1>5 DEF Await, ChildExits, LeftoverExits, CaptureFails, Inv, TypeOK
  <2>3. UNCHANGED <<board, unsaved, stale>>
    BY <1>5 DEF Await, ChildExits, LeftoverExits, CaptureFails
  <2> QED
    BY <2>1, <2>2, <2>3, StillOrderly
<1>6. ASSUME UNCHANGED <<board, unsaved, stale, thread, child>>
      PROVE  ~stale /\ \A t \in Tasks : Orderly(t)
  BY <1>6, StillOrderly
<1>7. CASE Exit
  <2>1. \A t \in Tasks : thread'[t] = thread[t] \/ thread'[t] = "gone"
    BY <1>7 DEF Exit
  <2> QED
    BY <1>7, <2>1, StillOrderly DEF Exit
<1>8. ASSUME NEW a \in Agents, Spawn(a)
      PROVE  ~stale /\ \A t \in Tasks : Orderly(t)
  BY <1>1, <1>6, <1>8 DEF Spawn, Count, Claim, Refuse, QueueFails
<1>9. ASSUME NEW a \in Actors, Cancel(a)
      PROVE  ~stale /\ \A t \in Tasks : Orderly(t)
  BY <1>2, <1>6, <1>9 DEF Cancel, LoadToCancel, SaveCancelledFails
<1>10. CASE UNCHANGED vars
  BY <1>6, <1>10 DEF vars
<1> QED
  BY <1>3, <1>4, <1>5, <1>7, <1>8, <1>9, <1>10 DEF Next, Work

-------------------------------------------------------------------------------
(* What is at work is listed, and what is listed will be reported.         *)

\* The tasks whose place on the board nobody has taken away.
Placed == {t \in Tasks : t \notin cancelled /\ nextTask <= t + MaxRecords}

Kept ==
  ~stale => \A t \in Placed : thread[t] \in Alive \/ child[t] = "live" => board[t] \in Active

LEMMA PlacedShrinks ==
  ASSUME Inv, [Next]_vars
  PROVE  Placed' \subseteq Placed /\ nextTask <= nextTask'
<1>1. cancelled \subseteq cancelled' /\ (nextTask' = nextTask \/ nextTask' = nextTask + 1)
  BY DEF Next, vars, Spawn, Cancel, Work, Count, Claim, Refuse, Queue, QueueFails, Start, Launch, LaunchFails,
         Await, ChildExits, LeftoverExits, CaptureFails, Report, LoadToCancel, SaveCancelled, SaveCancelledFails, Exit, counters, history
<1>2. nextTask \in Nat /\ \A t \in Tasks : t + MaxRecords \in Nat
  BY Bounds DEF Inv, TypeOK, Tasks
<1>3. nextTask <= nextTask' /\ \A t \in Tasks : nextTask' <= t + MaxRecords => nextTask <= t + MaxRecords
  BY <1>1, <1>2
<1> QED
  BY <1>1, <1>3 DEF Placed

LEMMA KeptStep ==
  ASSUME Inv, [Next]_vars, Kept
  PROVE  Kept'
<1> SUFFICES ASSUME ~stale', NEW t \in Placed', thread'[t] \in Alive \/ child'[t] = "live"
             PROVE  board'[t] \in Active
  BY DEF Kept
<1>1. ~stale /\ t \in Placed /\ t \in Tasks /\ Orderly(t) /\ t \notin cancelled' /\ nextTask <= t + MaxRecords
  BY StepOrderly, PlacedShrinks DEF Placed
<1>2. Inv'
  BY StepInv
<1>3. thread'[t] # "done"
  BY <1>1, <1>2 DEF Inv, Order, Alive
<1>4. CASE Queued(t)
  BY <1>1, <1>4 DEF Orderly
<1>5. CASE ~Queued(t)
  <2>1. thread[t] \in Alive \/ child[t] = "live"
    BY <1>1, <1>5 DEF Orderly
  <2>2. board[t] \in Active
    BY <1>1, <2>1 DEF Kept
  <2> QED
    BY <1>1, <1>3, <2>2 DEF Orderly
<1> QED
  BY <1>4, <1>5

LEMMA InitKept ==
  ASSUME Init
  PROVE  Kept
BY DEF Init, Kept, Alive, Placed

\* Every child at work that nobody cancelled and that has not been pushed off is
\* listed as active, unless a cancellation was saved over a board it had not seen.
THEOREM WorkersAreListed == Safety => []WorkingAreListed
<1>1. Init => Inv /\ Kept
  BY InitInv, InitKept
<1>2. Inv /\ Kept /\ [Next]_vars => (Inv /\ Kept)'
  BY StepInv, KeptStep
<1>3. Kept => WorkingAreListed
  BY DEF Kept, Placed, WorkingAreListed, Working, IsActive
<1> QED
  BY <1>1, <1>2, <1>3, PTL DEF Safety

\* A task listed as active has a thread that will report it, unless the process
\* exited or the report could not be saved.
THEOREM ActiveIsReported == Safety => []ActiveHasThread
<1>1. Init => Inv /\ ActiveHasThread
  <2>1. ASSUME Init PROVE \A t \in Tasks : board[t] \notin Active
    BY <2>1 DEF Init, Absent, Active
  <2> QED
    BY <2>1, InitInv DEF ActiveHasThread, IsActive
<1>2. Inv /\ ActiveHasThread /\ [Next]_vars => (Inv /\ ActiveHasThread)'
  <2> SUFFICES ASSUME Inv, ActiveHasThread, [Next]_vars
               PROVE  Inv' /\ ActiveHasThread'
    OBVIOUS
  <2>1. ASSUME ~stale', NEW t \in Tasks, board'[t] \in Active
        PROVE  thread'[t] \notin {"none", "done"} \/ t \in unsaved'
    <3>1. ~stale /\ Orderly(t)
      BY <2>1, StepOrderly
    <3>2. board[t] \in Active => thread[t] \notin {"none", "done"} \/ t \in unsaved
      BY <3>1 DEF ActiveHasThread, IsActive
    <3> QED
      BY <2>1, <3>1, <3>2 DEF Orderly
  <2>2. ActiveHasThread'
    BY <2>1 DEF ActiveHasThread, IsActive
  <2> QED
    BY <2>2, StepInv
<1> QED
  BY <1>1, <1>2, PTL DEF Safety

-------------------------------------------------------------------------------
(* One agent: the scopes and the limit.                                    *)

\* A task holds its scope and counts from the time its record is made.
Held == {t \in Placed : board[t] \in Active \/ \E a \in Agents : task[a] = t}

Claims ==
  ~stale => /\ \A t, u \in Held : t # u => scope[t] \intersect scope[u] = {}
            /\ Cardinality(Held) <= limit
            /\ \A a \in Agents : step[a] = "counted" => Cardinality(Held) < limit

LEMMA HeldIsFinite ==
  ASSUME Inv, NEW S \in SUBSET Tasks
  PROVE  IsFiniteSet(S) /\ Cardinality(S) \in Nat /\ \A R \in SUBSET S : Cardinality(R) <= Cardinality(S)
<1>1. IsFiniteSet(Tasks)
  BY Bounds, FS_Interval DEF Tasks
<1>2. IsFiniteSet(S)
  BY <1>1, FS_Subset
<1> QED
  BY <1>2, FS_Subset, FS_CardinalityType

\* No step but the making of a record adds to what is held.
LEMMA HeldShrinks ==
  ASSUME Inv, [Next]_vars, Kept, ~stale', \A a \in Agents : ~Claim(a)
  PROVE  Held' \subseteq Held
<1> SUFFICES ASSUME NEW t \in Held'
             PROVE  t \in Held
  OBVIOUS
<1>1. t \in Placed' /\ t \in Placed /\ t \in Tasks
  BY PlacedShrinks DEF Held, Placed
<1>2. ~stale /\ Orderly(t)
  BY <1>1, StepOrderly
<1>3. CASE board'[t] \in Active
  <2>1. CASE board[t] \in Active
    BY <1>1, <2>1 DEF Held
  <2>2. CASE thread[t] \in {"starting", "launching"}
    <3>1. thread[t] \in Alive
      BY <2>2 DEF Alive
    <3> QED
      BY <1>1, <1>2, <3>1 DEF Held, Kept
  <2>3. CASE Queued(t)
    BY <1>1, <2>3 DEF Held, Queued
  <2> QED
    BY <1>2, <1>3, <2>1, <2>2, <2>3 DEF Orderly
<1>4. ASSUME NEW a \in Agents, task'[a] = t
      PROVE  t \in Held
  <2>1. t # NoTask
    BY <1>1, Bounds
  <2>2. \A b \in Agents : task'[b] = task[b] \/ task'[b] = NoTask
    <3>1. ASSUME NEW c \in Agents, Done(c)
          PROVE  \A b \in Agents : task'[b] = task[b] \/ task'[b] = NoTask
      BY <3>1 DEF Done, Inv, TypeOK
    <3>2. ASSUME NEW c \in Agents, Spawn(c)
          PROVE  \A b \in Agents : task'[b] = task[b] \/ task'[b] = NoTask
      BY <3>1, <3>2 DEF Spawn, Count, Refuse, Queue, QueueFails
    <3>3. ASSUME NEW c \in Actors, Cancel(c)
          PROVE  task' = task
      BY <3>3 DEF Cancel, LoadToCancel, SaveCancelled, SaveCancelledFails, askVars
    <3>4. ASSUME NEW u \in Tasks, Work(u) \/ ChildExits(u) \/ LeftoverExits(u) \/ CaptureFails(u)
          PROVE  task' = task
      BY <3>4 DEF Work, ChildExits, LeftoverExits, CaptureFails, Start, Launch, LaunchFails, Await, Report, askVars
    <3>5. CASE Exit
      BY <3>5 DEF Exit
    <3>6. CASE UNCHANGED vars
      BY <3>6 DEF vars, askVars
    <3> QED
      BY <3>2, <3>3, <3>4, <3>5, <3>6 DEF Next
  <2>3. task[a] = t
    BY <1>4, <2>1, <2>2
  <2> QED
    BY <1>1, <2>3 DEF Held
<1> QED
  BY <1>3, <1>4 DEF Held

LEMMA ClaimsStep ==
  ASSUME \A a, b \in Agents : a = b, Inv, [Next]_vars, Kept, Claims
  PROVE  Claims'
<1> SUFFICES ASSUME ~stale'
             PROVE  /\ \A t, u \in Held' : t # u => scope'[t] \intersect scope'[u] = {}
                    /\ Cardinality(Held') <= limit'
                    /\ \A a \in Agents : step'[a] = "counted" => Cardinality(Held') < limit'
  BY DEF Claims
<1> USE DEF askVars, cancelVars, workVars, counters, history
<1>1. ~stale /\ limit' = limit /\ limit \in Nat
  <2>1. limit' = limit
    BY DEF Next, vars, Spawn, Cancel, Work, Count, Claim, Refuse, Queue, QueueFails, Start, Launch, LaunchFails,
           Await, ChildExits, LeftoverExits, CaptureFails, Report, LoadToCancel, SaveCancelled, SaveCancelledFails, Exit
  <2> QED
    BY <2>1, StepOrderly, BoundAssumption DEF Inv, TypeOK
<1>2. Held \in SUBSET Tasks /\ Held' \in SUBSET Tasks
  BY DEF Held, Placed
<1>3. /\ \A t, u \in Held : t # u => scope[t] \intersect scope[u] = {}
      /\ Cardinality(Held) <= limit
      /\ \A a \in Agents : step[a] = "counted" => Cardinality(Held) < limit
  BY <1>1 DEF Claims
<1>4. ASSUME NEW a \in Agents, Claim(a)
      PROVE  Claims'
  <2>1. step[a] = "counted" /\ Cardinality(Held) < limit /\ task[a] = NoTask /\ \A b \in Agents : task[b] = NoTask
    BY <1>3, <1>4 DEF Claim, Inv, TypeOK
  <2>2. nextTask \in Tasks /\ scope'[nextTask] = wanted[a] /\ task'[a] = nextTask /\ board' = board
        /\ (\A t \in Tasks \ {nextTask} : scope'[t] = scope[t])
    BY <1>4 DEF Claim, Inv, TypeOK, Tasks
  <2>3. \A b \in Agents : task'[b] = nextTask /\ step'[b] = "claimed"
    BY <1>4 DEF Claim, Inv, TypeOK
  <2>4. Held' \in SUBSET (Held \union {nextTask})
    <3>1. Placed' \subseteq Placed
      BY PlacedShrinks
    <3> QED
      BY <2>2, <2>3, <3>1 DEF Held
  <2>5. \A t \in Held : IsActive(t) /\ t \in Tasks /\ t # nextTask
    <3>1. \A t \in Held : board[t] \in Active /\ t \in Tasks
      BY <2>1, Bounds DEF Held, Placed
    <3>2. board[nextTask] = Absent /\ Absent \notin Active
      BY <2>2 DEF Inv, Order, Tasks, Absent, Active
    <3> QED
      BY <3>1, <3>2 DEF IsActive
  <2>6. \A t \in Held : scope[t] \intersect wanted[a] = {}
    BY <1>4, <2>5 DEF Claim, Available
  <2>7. \A t, u \in Held' : t # u => scope'[t] \intersect scope'[u] = {}
    BY <1>2, <1>3, <2>2, <2>4, <2>5, <2>6
  <2>8. Cardinality(Held') <= Cardinality(Held) + 1
    <3>1. IsFiniteSet(Held) /\ Cardinality(Held) \in Nat
      BY <1>2, HeldIsFinite
    <3>2. IsFiniteSet(Held \union {nextTask}) /\ Cardinality(Held \union {nextTask}) = Cardinality(Held) + 1
      BY <2>5, <3>1, FS_AddElement
    <3> QED
      BY <2>4, <3>2, FS_Subset
  <2>9. Cardinality(Held) \in Nat /\ Cardinality(Held') \in Nat
    BY <1>2, HeldIsFinite
  <2>10. Cardinality(Held') <= limit'
    BY <1>1, <2>1, <2>8, <2>9
  <2> QED
    BY <2>3, <2>7, <2>10 DEF Claims
<1>5. ASSUME \A a \in Agents : ~Claim(a)
      PROVE  Claims'
  <2>1. Held' \in SUBSET Held
    BY <1>5, HeldShrinks
  <2>2. scope' = scope
    BY <1>5 DEF Next, vars, Spawn, Cancel, Work, Count, Refuse, Queue, QueueFails, Start, Launch, LaunchFails,
           Await, ChildExits, LeftoverExits, CaptureFails, Report, LoadToCancel, SaveCancelled, SaveCancelledFails, Exit
  <2>3. Cardinality(Held') <= Cardinality(Held) /\ Cardinality(Held) \in Nat /\ Cardinality(Held') \in Nat
    BY <1>2, <2>1, HeldIsFinite
  <2>4. ASSUME NEW a \in Agents, step'[a] = "counted"
        PROVE  Cardinality(Held') < limit'
    <3>1. CASE step[a] = "counted"
      BY <1>1, <1>3, <2>3, <3>1
    <3>2. CASE \E files \in Scopes : Count(a, files)
      <4>1. Cardinality({t \in Tasks : IsActive(t)}) < limit /\ task' = task /\ step[a] = "idle"
        BY <3>2 DEF Count, Free
      <4>2. \A b \in Agents : task[b] = NoTask
        BY <4>1 DEF Inv, TypeOK
      <4>3. Held \in SUBSET {t \in Tasks : IsActive(t)}
        BY <1>2, <4>2, Bounds DEF Held, IsActive
      <4>4. /\ Cardinality(Held) <= Cardinality({t \in Tasks : IsActive(t)})
            /\ Cardinality({t \in Tasks : IsActive(t)}) \in Nat
        BY <4>3, HeldIsFinite
      <4> QED
        BY <1>1, <2>3, <4>1, <4>4
    <3>3. step[a] = "counted" \/ \E files \in Scopes : Count(a, files)
      <4>1. ASSUME NEW b \in Agents, Spawn(b)
            PROVE  step[a] = "counted" \/ \E files \in Scopes : Count(a, files)
        <5>1. b = a
          OBVIOUS
        <5>2. ASSUME Done(a) PROVE FALSE
          BY <2>4, <5>2 DEF Done, Inv, TypeOK
        <5> QED
          BY <1>5, <4>1, <5>1, <5>2 DEF Spawn, Refuse, Queue, QueueFails
      <4>2. ASSUME NEW b \in Actors, Cancel(b)
            PROVE  step' = step
        BY <4>2 DEF Cancel, LoadToCancel, SaveCancelled, SaveCancelledFails
      <4>3. ASSUME NEW t \in Tasks, Work(t) \/ ChildExits(t) \/ LeftoverExits(t) \/ CaptureFails(t)
            PROVE  step' = step
        BY <4>3 DEF Work, ChildExits, LeftoverExits, CaptureFails, Start, Launch, LaunchFails, Await, Report
      <4>4. ~Exit
        BY <2>4 DEF Exit
      <4>5. CASE UNCHANGED vars
        BY <2>4, <4>5 DEF vars
      <4> QED
        BY <2>4, <4>1, <4>2, <4>3, <4>4, <4>5 DEF Next
    <3> QED
      BY <3>1, <3>2, <3>3
  <2>5. \A t, u \in Held' : t # u => scope'[t] \intersect scope'[u] = {}
    BY <1>3, <2>1, <2>2
  <2>6. Cardinality(Held') <= limit'
    BY <1>1, <1>3, <2>3
  <2> QED
    BY <2>4, <2>5, <2>6 DEF Claims
<1> QED
  BY <1>4, <1>5 DEF Claims

LEMMA InitClaims ==
  ASSUME Init
  PROVE  Claims
<1>1. Held = {}
  <2>1. \A t \in Tasks : board[t] \notin Active
    BY DEF Init, Absent, Active
  <2>2. \A a \in Agents : task[a] = NoTask
    BY DEF Init
  <2> QED
    BY <2>1, <2>2, Bounds DEF Held, Placed
<1>2. Cardinality(Held) = 0
  BY <1>1, FS_EmptySet
<1>3. limit \in Nat /\ \A a \in Agents : step[a] # "counted"
  BY BoundAssumption DEF Init
<1> QED
  BY <1>1, <1>2, <1>3 DEF Claims

LEMMA ClaimsInvariant ==
  ASSUME \A a, b \in Agents : a = b
  PROVE  Safety => [](Inv /\ Kept /\ Claims)
<1>1. Init => Inv /\ Kept /\ Claims
  BY InitInv, InitKept, InitClaims
<1>2. Inv /\ Kept /\ Claims /\ [Next]_vars => (Inv /\ Kept /\ Claims)'
  BY StepInv, KeptStep, ClaimsStep
<1> QED
  BY <1>1, <1>2, PTL DEF Safety

LEMMA WorkingIsHeld ==
  ASSUME Kept, ~stale
  PROVE  Working \subseteq Held
BY DEF Kept, Working, Held, Placed

\* With one agent, no two children at work own a file in common.
THEOREM ScopesStayHeld ==
  ASSUME \A a, b \in Agents : a = b
  PROVE  Safety => []ScopesHeld
<1>1. Inv /\ Kept /\ Claims => ScopesHeld
  BY WorkingIsHeld DEF Claims, ScopesHeld
<1>2. Safety => [](Inv /\ Kept /\ Claims)
  BY ClaimsInvariant
<1> QED
  BY <1>1, <1>2, PTL

\* With one agent, there are never more children at work than the limit.
THEOREM LimitIsKept ==
  ASSUME \A a, b \in Agents : a = b
  PROVE  Safety => []LimitHolds
<1>1. Inv /\ Kept /\ Claims => LimitHolds
  <2> SUFFICES ASSUME Inv, Kept, Claims, ~stale
               PROVE  Cardinality(Working) <= limit
    BY DEF LimitHolds
  <2>1. Working \in SUBSET Held /\ Held \in SUBSET Tasks /\ Cardinality(Held) <= limit
    BY WorkingIsHeld DEF Claims, Held, Placed
  <2>2. Cardinality(Working) <= Cardinality(Held) /\ Cardinality(Held) \in Nat /\ Cardinality(Working) \in Nat
    BY <2>1, HeldIsFinite
  <2>3. limit \in Nat
    BY BoundAssumption DEF Inv, TypeOK
  <2> QED
    BY <2>1, <2>2, <2>3
<1>2. Safety => [](Inv /\ Kept /\ Claims)
  BY ClaimsInvariant
<1> QED
  BY <1>1, <1>2, PTL
=============================================================================
