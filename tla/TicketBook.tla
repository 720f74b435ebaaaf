------------------------------ MODULE TicketBook ------------------------------
(***************************************************************************)
(* What the ticket store of HBSE promises to those who hand out and use    *)
(* secret access tickets (src/components/HBSE/hbse/src/tickets.rs): a      *)
(* ticket is good for the uses it was issued with, each use is spent once, *)
(* and a ticket that was revoked is never good again.  There are no        *)
(* clients, table rows or comparisons here; Vault implements this.         *)
(***************************************************************************)
EXTENDS Naturals

CONSTANT TicketIds

VARIABLES
  issued,   \* the tickets that exist
  good,     \* good[t]: the uses ticket t is still good for
  used      \* the uses made: <<ticket, which of its uses>>

bookVars == <<issued, good, used>>

BookInit ==
  /\ issued = {}
  /\ good = [t \in TicketIds |-> 0]
  /\ used = {}

Issue(t) ==
  /\ t \notin issued
  /\ issued' = issued \cup {t}
  /\ good'[t] \in Nat
  /\ good' = [good EXCEPT ![t] = good'[t]]
  /\ UNCHANGED used

Use(t) ==
  /\ good[t] > 0
  /\ <<t, good[t]>> \notin used
  /\ used' = used \cup {<<t, good[t]>>}
  /\ good' = [good EXCEPT ![t] = @ - 1]
  /\ UNCHANGED issued

Revoke(t) ==
  /\ t \in issued
  /\ good' = [good EXCEPT ![t] = 0]
  /\ UNCHANGED <<issued, used>>

BookNext == \E t \in TicketIds : Issue(t) \/ Use(t) \/ Revoke(t)

BookSpec == BookInit /\ [][BookNext]_bookVars

===============================================================================
