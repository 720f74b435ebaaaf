-------------------------- MODULE TaskTable_proofs --------------------------
(***************************************************************************)
(* What the operations of the task table keep, for every bound of it: the  *)
(* lemmas the proofs about its users cite.                                 *)
(***************************************************************************)
EXTENDS TaskTable, TLAPS

\* Pruning the table (prune_records) takes ended records only.
LEMMA PrunedKeepsActive ==
  ASSUME NEW r \in [Tasks -> States]
  PROVE  /\ Pruned(r) \in [Tasks -> States]
         /\ \A t \in Tasks : r[t] \in Active => Pruned(r)[t] = r[t]
         /\ \A t \in Tasks : Pruned(r)[t] \in {r[t], "evicted"}
<1>1. Active \cap Ended = {} /\ "evicted" \in States
  BY DEF Active, Ended, States
<1> QED
  BY <1>1, Zenon DEF Pruned

\* Registering a task makes its record active, leaves those of the other active
\* tasks as they are and starts no other.
LEMMA RegisteredKeepsActive ==
  ASSUME NEW t \in Tasks, record \in [Tasks -> States],
         NEW state \in Active
  PROVE  /\ Registered(t, state) \in [Tasks -> States]
         /\ Registered(t, state)[t] = state
         /\ \A u \in Tasks \ {t} : record[u] \in Active => Registered(t, state)[u] = record[u]
         /\ \A u \in Tasks \ {t} : Registered(t, state)[u] \in {record[u], "evicted"}
<1> DEFINE r == [record EXCEPT ![t] = state]
<1>1. r \in [Tasks -> States] /\ r[t] = state /\ \A u \in Tasks \ {t} : r[u] = record[u]
  BY DEF States
<1>2. /\ Pruned(r) \in [Tasks -> States]
      /\ \A u \in Tasks : r[u] \in Active => Pruned(r)[u] = r[u]
      /\ \A u \in Tasks : Pruned(r)[u] \in {r[u], "evicted"}
  BY <1>1, PrunedKeepsActive
<1> QED
  BY <1>1, <1>2 DEF Registered

\* Only a record that ended makes room for the new one.
LEMMA RegisteredEvictsEnded ==
  ASSUME NEW t \in Tasks, record \in [Tasks -> States],
         NEW state \in Active
  PROVE  \A u \in Tasks \ {t} :
           \/ Registered(t, state)[u] = record[u]
           \/ record[u] \in Ended /\ Registered(t, state)[u] = "evicted"
<1> DEFINE r == [record EXCEPT ![t] = state]
<1>1. \A u \in Tasks \ {t} : r[u] = record[u]
  OBVIOUS
<1>2. \A u \in Tasks : Pruned(r)[u] = r[u] \/ (r[u] \in Ended /\ Pruned(r)[u] = "evicted")
  BY Zenon DEF Pruned
<1> QED
  BY <1>1, <1>2 DEF Registered

\* Finishing a task ends its record if it was active and touches no other.
LEMMA FinishedEnds ==
  ASSUME NEW r \in [Tasks -> States], NEW t \in Tasks, NEW state \in Ended
  PROVE  /\ Finished(r, t, state) \in [Tasks -> States]
         /\ Finished(r, t, state)[t] \notin Active
         /\ \A u \in Tasks \ {t} : Finished(r, t, state)[u] = r[u]
<1>1. state \notin Active /\ state \in States
  BY DEF Active, Ended, States
<1> QED
  BY <1>1 DEF Finished
=============================================================================
