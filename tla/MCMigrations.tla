---------------------------- MODULE MCMigrations ----------------------------
(* A small instance of Migrations: the first two files were accepted as "a". *)
EXTENDS Migrations

CONSTANTS r1, r2

MCAccepted == [m \in 1..NLegacy |-> "a"]
=============================================================================
