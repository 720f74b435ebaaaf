----------------------------- MODULE MCMcpPool -----------------------------
(* The TLC instances of McpPool: every call goes to one server. *)
EXTENDS McpPool

CONSTANTS a, b, files

MCServerOf == [c \in Calls |-> files]
=============================================================================
