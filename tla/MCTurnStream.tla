---------------------------- MODULE MCTurnStream ----------------------------
(* The worker slots of the instances of TurnStream. *)
EXTENDS TurnStream

CONSTANTS w1, w2
=============================================================================
