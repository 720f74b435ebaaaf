----------------------------- MODULE TaskTable -----------------------------
(***************************************************************************)
(* TaskManager of vegvisir/src/tasks.rs: the records of the tasks of a     *)
(* session, owned by the UI thread.  Ids come from one counter and are     *)
(* never used again; the table is pruned, oldest ended record first, when  *)
(* a task is registered.                                                   *)
(***************************************************************************)
EXTENDS Naturals, FiniteSets

CONSTANTS
  MaxTasks,    \* bound on the tasks registered in a session
  MaxRecords   \* max_records: the history bound of the table

ASSUME MaxTasksAssumption   == MaxTasks \in Nat
ASSUME MaxRecordsAssumption == MaxRecords \in Nat \ {0}

VARIABLES
  record,  \* the state of each task's record
  nextId   \* the number of the next task

tableVars == <<record, nextId>>

Tasks  == 1..MaxTasks
Active == {"queued", "foreground", "background"}
Ended  == {"completed", "failed", "cancelled", "timedOut"}
States == Active \union Ended \union {"unused", "evicted"}

InitTable ==
  /\ record = [t \in Tasks |-> "unused"]
  /\ nextId = 1

-----------------------------------------------------------------------------
\* Faulty variant: the oldest records go, ended or not.
PrunedByAge(r) ==
  LET kept == {t \in Tasks : r[t] \in Active \union Ended}
      over == Cardinality(kept) - MaxRecords
  IN  [t \in Tasks |-> IF t \in kept /\ Cardinality({u \in kept : u < t}) < over
                         THEN "evicted" ELSE r[t]]

\* prune_records(): while the table is over its bound, the first record whose
\* task has ended goes; an active record never does.
Pruned(r) ==
  LET kept  == {t \in Tasks : r[t] \in Active \union Ended}
      ended == {t \in Tasks : r[t] \in Ended}
      over  == Cardinality(kept) - MaxRecords
  IN  [t \in Tasks |-> IF t \in ended /\ Cardinality({u \in ended : u < t}) < over
                         THEN "evicted" ELSE r[t]]

\* The table after register() and the move of the new task to an active state.
Registered(t, state) == Pruned([record EXCEPT ![t] = state])

\* complete(), cancel() and timeout(): a record that ended, or is gone, stays.
Finished(r, t, state) == IF r[t] \in Active THEN [r EXCEPT ![t] = state] ELSE r
=============================================================================
