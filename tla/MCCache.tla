------------------------------- MODULE MCCache -------------------------------
(* A small instance of Cache for TLC. *)
EXTENDS Cache, TLC

CONSTANTS c1, c2, k1, k2, t1

MCTagOf == (k1 :> t1) @@ (k2 :> NoTag)

Symmetry == Permutations(Client)
=============================================================================
