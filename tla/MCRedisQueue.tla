---------------------------- MODULE MCRedisQueue ----------------------------
(***************************************************************************)
(* One host that runs two goroutines (or one, in the single-goroutine      *)
(* modes) and the operator.  Job j1 is retried once and may be pushed      *)
(* twice, as k1; j2 is a payload Deserialize refuses.                      *)
(***************************************************************************)
EXTENDS RedisQueue

CONSTANTS j1, k1, j2, p1, w1, w2

JobsMC    == {j1, k1, j2}
PayloadMC == [j \in JobsMC |-> IF j = j2 THEN 2 ELSE 1]
DecodesMC == {j1, k1}
RetriesMC == [j \in JobsMC |-> IF j = j2 THEN 0 ELSE 1]
ProcsMC   == {p1}
WorkersMC == {w1, w2}
HostMC    == [w \in WorkersMC |-> p1]
=============================================================================
