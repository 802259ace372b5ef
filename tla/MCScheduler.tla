---------------------------- MODULE MCScheduler ----------------------------
(***************************************************************************)
(* The scheduler of one process, and the names its state and properties    *)
(* have beside those of the in-memory queue.  Two jobs with the periods 1  *)
(* and 2; the loop, and one other goroutine that calls RunOnce under a     *)
(* recover.                                                                *)
(***************************************************************************)
EXTENDS Integers

CONSTANTS N, Every, Old, Loop, Caller, Watched      \* of Scheduler

VARIABLES
    len, age, pc, copied, mine, since, due, tick, stopped, wedged, died, lastRan, disturbed

Sched == INSTANCE Scheduler WITH Guarded <- Watched, ran <- lastRan, crashed <- died

ASSUME SchedOK == Sched!ConstantsOK

SchedSpec     == Sched!Spec
SchedFairSpec == Sched!FairSpec

EveryMC == [i \in 1..2 |-> i]

-----------------------------------------------------------------------------
(* The properties of Scheduler *)

\* lastRun never claims a run that did not take place (scheduler.go:46-50).
NeverAhead == Sched!NeverAhead

\* Undisturbed, a job is not run before its period has passed since the run
\* before (scheduler.go:37-50).
SpacedOut == Sched!SpacedOut

\* A job is run again and again (scheduler.go:28 and 48).
EveryJobRuns == Sched!EveryJobRuns

\* Run returns once stop is closed (scheduler.go:61-66).
StopEnds == Sched!StopEnds
=============================================================================
