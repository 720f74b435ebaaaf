------------------------------- MODULE MCVault -------------------------------
(* The TLC instances of Vault: policies and the commands each client calls. *)
EXTENDS Vault, TLC

CONSTANTS deploy, cli, broker

\* A policy and another, which allows nothing.
Narrowed == {[uses |-> 1, allows |-> {deploy}], [uses |-> 1, allows |-> {}]}

OnePolicy == {[uses |-> 1, allows |-> {deploy}]}

TwoUses == {[uses |-> 2, allows |-> {deploy}]}

\* Both clients work with tickets.
TicketCommands ==
  (cli :> {"put", "policy", "issue", "renew", "consume", "revoke", "lockdown"}) @@
  (broker :> {"issue", "renew", "consume"})

RotationCommands ==
  (cli :> {"put", "get", "status", "policy", "rotation", "lockdown"}) @@
  (broker :> {"issue", "consume", "rotation"})

OneClient == (cli :> {"put", "policy", "issue", "consume", "rotation"})

MCSymmetry == Permutations(TicketIds)

===============================================================================
