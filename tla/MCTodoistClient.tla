-------------------------- MODULE MCTodoistClient ---------------------------
(* A small instance of TodoistClient. *)
EXTENDS TodoistClient

CONSTANTS c1, c2, k1
=============================================================================
