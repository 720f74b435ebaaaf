-------------------------- MODULE MCSubagentBoard --------------------------
(* Small instances of SubagentBoard for TLC. *)
EXTENDS SubagentBoard

CONSTANTS a1, f

\* No scope, and a file.
MCScopes == {{}, {f}}
=============================================================================
