------------------------------ MODULE JobLedger ------------------------------
(***************************************************************************)
(* What a queue of package queue promises about one job, whatever stores   *)
(* it: the life of every job is a walk along Edge.  RedisQueue and         *)
(* MemoryQueue are shown to implement it.  A job is never in two stages,   *)
(* never leaves "done", and comes back to "queued" only from the           *)
(* dead-letter list.  A second copy of a payload is a job of its own.      *)
(***************************************************************************)

CONSTANT Job

VARIABLE status     \* status[j]: the stage of job j

Stage == {"new", "queued", "running", "dead", "moving", "done", "dropped", "lost"}

\* The stages one job may pass through, one edge a step.
Edge == { <<"new", "queued">>,        \* accepted by the queue
          <<"queued", "running">>,    \* taken by a worker
          <<"new", "dead">>,          \* a second copy of a job that is given up
          <<"running", "done">>,      \* its handler returned nil
          <<"running", "dead">>,      \* given up, kept in the dead-letter list
          <<"running", "dropped">>,   \* given up by a consumer without one
          <<"dead", "moving">>,       \* taken off the dead-letter list
          <<"moving", "queued">>,     \* queued again
          <<"queued", "lost">>,       \* popped by a reply that never arrived
          <<"dead", "lost">>,
          <<"moving", "lost">> }

TypeOK == status \in [Job -> Stage]

Init == status = [j \in Job |-> "new"]

Advance(j) ==
    \E e \in Edge : /\ status[j] = e[1]
                    /\ status' = [status EXCEPT ![j] = e[2]]

\* The end of a process takes every job one of its goroutines holds with it.
Abandon(S) ==
    /\ \A j \in S : status[j] = "running"
    /\ status' = [j \in Job |-> IF j \in S THEN "lost" ELSE status[j]]

Next == \/ \E j \in Job : Advance(j)
        \/ \E S \in SUBSET Job : Abandon(S)

Spec == Init /\ [][Next]_status
=============================================================================
