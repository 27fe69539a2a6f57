------------------------ MODULE MCTodoistConnections ------------------------
(* Small instances of TodoistConnections. *)
EXTENDS TodoistConnections

CONSTANTS r1, r2, t1
=============================================================================
