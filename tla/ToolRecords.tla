------------------------------ MODULE ToolRecords ------------------------------
(***************************************************************************)
(* What the terminal UI promises of the task records of a tool             *)
(* (vegvisir/src/app/runtime.rs, tasks.rs): a call has at most one record, *)
(* records are opened in the order of the calls and one at a time, and as  *)
(* long as no event was dropped each ends as its own call did, unless the  *)
(* user cancelled it.  There are no threads, turns, channels or polls      *)
(* here; TurnStream implements this.                                       *)
(***************************************************************************)
EXTENDS Naturals

CONSTANT Calls   \* the numbers of the calls, in the order they are begun

VARIABLES
  result,   \* how each call ended
  shown,    \* the state of each call's record
  dropped   \* an event of a call was dropped

recordVars == <<result, shown, dropped>>

RecordsInit ==
  /\ result  = [c \in Calls |-> "unused"]
  /\ shown   = [c \in Calls |-> "none"]
  /\ dropped = FALSE

Begin(c) ==
  /\ result[c] = "unused"
  /\ result' = [result EXCEPT ![c] = "running"]
  /\ UNCHANGED <<shown, dropped>>

End(c, how) ==
  /\ result[c] = "running"
  /\ result' = [result EXCEPT ![c] = how]
  /\ UNCHANGED <<shown, dropped>>

\* The record of a call that was begun; records that ended may make room for it.
Show(c) ==
  /\ result[c] # "unused"
  /\ \A d \in Calls : shown[d] # "foreground" /\ (d >= c => shown[d] = "none")
  /\ shown'[c] = "foreground"
  /\ \A d \in Calls \ {c} :
       \/ shown'[d] = shown[d]
       \/ shown[d] \in {"completed", "failed", "cancelled"} /\ shown'[d] = "evicted"
  /\ UNCHANGED <<result, dropped>>

Fits(state, how) ==
  \/ state = "cancelled"
  \/ state = "completed" /\ how = "ok"
  \/ state = "failed" /\ how \in {"fail", "cut"}

Settle(c, state) ==
  /\ shown[c] = "foreground"
  /\ shown' = [shown EXCEPT ![c] = state]
  /\ dropped' \in {dropped, TRUE}
  /\ ~dropped' => Fits(state, result[c])
  /\ UNCHANGED result

Drop ==
  /\ dropped' = TRUE
  /\ UNCHANGED <<result, shown>>

RecordsNext ==
  \/ Drop
  \/ \E c \in Calls :
       \/ Begin(c) \/ Show(c)
       \/ \E how \in {"ok", "fail", "cut"} : End(c, how)
       \/ \E state \in {"completed", "failed", "cancelled"} : Settle(c, state)

RecordsSpec == RecordsInit /\ [][RecordsNext]_recordVars
===============================================================================
