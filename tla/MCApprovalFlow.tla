--------------------------- MODULE MCApprovalFlow ---------------------------
(* Small instances of ApprovalFlow for TLC. *)
EXTENDS ApprovalFlow, TLC

\* Tool calls: write_file, two commands of a program that is not on the default
\* allow-list, a read-only call, and a read-only call the runtime policy refuses.
CONSTANTS write, shell, push, read, refused

CONSTANTS gh, git, w1, w2

MCPrograms == (shell :> gh) @@ (push :> gh)

MCNoEdits == {}
MCEdits   == {<<shell, push>>}
=============================================================================
