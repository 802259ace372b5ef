---------------------------- MODULE MCMigrations ----------------------------
(***************************************************************************)
(* Two migrations and their baseline, two hosts, three batches.             *)
(***************************************************************************)
EXTENDS Migrations, TLC

CONSTANTS p1, p2

ProcMC == {p1, p2}
Hosts  == Permutations(ProcMC)
=============================================================================
