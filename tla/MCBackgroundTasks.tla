-------------------------- MODULE MCBackgroundTasks --------------------------
(* Small instances of BackgroundTasks for TLC. *)
EXTENDS BackgroundTasks

CONSTANT out

\* One stream of the first task; the second one's output is left out.
MCTaskOf == [r \in {out} |-> 1]
=============================================================================
