--------------------------- MODULE MCMemoryQueue ---------------------------
(***************************************************************************)
(* A channel of one slot, two goroutines of Run and two of Close.  Job a   *)
(* pushes c and job b pushes d while they run; e is pushed under a         *)
(* recover.                                                                *)
(***************************************************************************)
EXTENDS MemoryQueue

CONSTANTS a, b, c, d, e

JobsMC  == {a, b, c, d, e}
ChildMC == [j \in JobsMC |-> CASE j = a -> c [] j = b -> d [] OTHER -> NoJob]
=============================================================================
