--------------------------- MODULE ApprovalGrants ---------------------------
(***************************************************************************)
(* What the approval queue promises, with no ledger, gate, worker or file: *)
(* docs/security-and-operations.md says "Use approve-once for one          *)
(* execution" and keeps a session approval to "this running Vegvisir       *)
(* session only".  A guarded call is running only because the operator     *)
(* gave a one-time grant for that very call, spent by this run and by no   *)
(* other run ever, or approved the call in the present session.            *)
(***************************************************************************)
EXTENDS Naturals, Sequences

CONSTANTS Calls, Actors, Guarded, NoCall

VARIABLES
  grants,   \* the call each one-time grant was given for, in order
  spent,    \* the grants used up
  session,  \* the calls approved for the running session
  running   \* what each actor runs

vars == <<grants, spent, session, running>>

Init ==
  /\ grants  = <<>>
  /\ spent   = {}
  /\ session = {}
  /\ running = [a \in Actors |-> NoCall]

\* The one-time grants for c that no run has used.
Unspent(c) == {n \in 1..Len(grants) : grants[n] = c} \ spent

Grant(c) ==
  /\ grants' = Append(grants, c)
  /\ UNCHANGED <<spent, session, running>>

GrantSession(c) ==
  /\ session' = session \union {c}
  /\ UNCHANGED <<grants, spent, running>>

Run(a, c) ==
  /\ running[a] = NoCall
  /\ running' = [running EXCEPT ![a] = c]
  /\ \E used \in SUBSET Unspent(c) :
       /\ c \in Guarded => used # {} \/ c \in session
       /\ spent' = spent \union used
  /\ UNCHANGED <<grants, session>>

Stop(a) ==
  /\ running' = [running EXCEPT ![a] = NoCall]
  /\ UNCHANGED <<grants, spent, session>>

NewSession ==
  /\ session' = {}
  /\ running' = [a \in Actors |-> NoCall]
  /\ UNCHANGED <<grants, spent>>

Next ==
  \/ \E c \in Calls : Grant(c) \/ GrantSession(c)
  \/ \E a \in Actors : Stop(a) \/ \E c \in Calls : Run(a, c)
  \/ NewSession

Spec == Init /\ [][Next]_vars
=============================================================================
