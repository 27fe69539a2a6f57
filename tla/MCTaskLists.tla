----------------------------- MODULE MCTaskLists -----------------------------
(* A small instance of TaskLists. *)
EXTENDS TaskLists, TLC

CONSTANTS r1, r2, t1, t2, home

Symmetry == Permutations(Request) \cup Permutations(Task)
=============================================================================
