----------------------------- MODULE Scheduler -----------------------------
(***************************************************************************)
(* scheduler.Scheduler: RunOnce copies the jobs under the mutex, runs      *)
(* those that are due without it, and writes the run times back by index   *)
(* under it again.  One goroutine runs the loop Run; others may call       *)
(* RunOnce, and anyone, a task included, may call Every.                   *)
(*                                                                         *)
(* Time is kept as ages, in intervals of the loop, and an age is counted   *)
(* no further than Old: whatever is that old is due, like a job that never *)
(* ran.                                                                    *)
(***************************************************************************)
EXTENDS Integers, FiniteSetsExt

CONSTANTS
    N,          \* jobs, in the order in which Every registers them
    Every,      \* Every[i]: the period of job i
    Old,        \* at least as long as any period
    Loop,       \* the goroutine in Run
    Caller,     \* other goroutines that call RunOnce
    Guarded     \* those among them that recover panics

\* What the code relies on: assumed where the module is instantiated.
ConstantsOK ==
    /\ N \in Nat /\ Old \in Nat
    /\ Every \in [1..N -> 1..Old]
    /\ Loop \notin Caller /\ Guarded \subseteq Caller

Job       == 1..N
Goroutine == Caller \cup {Loop}

VARIABLES
    len,        \* len(s.jobs)
    age,        \* age[i]: the age of s.jobs[i].lastRun
    pc,         \* pc[g]: where goroutine g is in RunOnce
    copied,     \* copied[g]: len(jobs) of its copy
    mine,       \* mine[g][i]: the age of jobs[i].lastRun of its copy
    since,      \* since[g]: the age of its `now`
    due,        \* due[g]: the jobs it has still to run
    tick,       \* a tick waits in the channel of the ticker
    stopped,    \* the stop channel is closed
    wedged,     \* a recovered panic left the mutex locked
    crashed,    \* a panic ended the process
    ran,        \* history: ran[i]: the age of the latest `now` job i was run for
    disturbed   \* history: two RunOnce have been under way at once, or a task panicked

shared == <<len, age, tick, stopped, wedged, crashed>>
local  == <<copied, mine, since, due>>
past   == <<ran, disturbed>>
vars   == <<shared, pc, local, past>>

Ages == [Job -> 0..Old]

TypeOK ==
    /\ len \in 0..N /\ age \in Ages /\ ran \in Ages
    /\ pc \in [Goroutine -> {"off", "copied", "running", "returned"}]
    /\ pc[Loop] = "returned" => stopped
    /\ copied \in [Goroutine -> 0..N] /\ \A g \in Goroutine : copied[g] <= len
    /\ mine \in [Goroutine -> Ages] /\ since \in [Goroutine -> 0..Old]
    /\ due \in [Goroutine -> SUBSET Job] /\ \A g \in Goroutine : due[g] \subseteq 1..copied[g]
    /\ {tick, stopped, wedged, crashed, disturbed} \subseteq BOOLEAN

Init ==
    /\ len = 0 /\ age = [i \in Job |-> Old] /\ ran = [i \in Job |-> Old]
    /\ pc = [g \in Goroutine |-> "off"] /\ copied = [g \in Goroutine |-> 0]
    /\ mine = [g \in Goroutine |-> [i \in Job |-> Old]]
    /\ since = [g \in Goroutine |-> 0] /\ due = [g \in Goroutine |-> {}]
    /\ tick = FALSE /\ stopped = FALSE /\ wedged = FALSE /\ crashed = FALSE
    /\ disturbed = FALSE

Active == {g \in Goroutine : pc[g] \in {"copied", "running"}}

Older(a) == IF a < Old THEN a + 1 ELSE Old

\* One interval passes; the ticker drops its tick when one is waiting.
Time ==
    /\ ~crashed
    /\ age' = [i \in Job |-> Older(age[i])]
    /\ ran' = [i \in Job |-> Older(ran[i])]
    /\ mine' = [g \in Goroutine |->
          IF g \in Active THEN [i \in Job |-> Older(mine[g][i])] ELSE mine[g]]
    /\ since' = [g \in Goroutine |-> IF pc[g] = "running" THEN Older(since[g]) ELSE since[g]]
    /\ tick' = TRUE
    /\ UNCHANGED <<len, stopped, wedged, crashed, pc, copied, due, disturbed>>

\* Every
Register ==
    /\ ~crashed /\ ~wedged /\ len < N
    /\ len' = len + 1
    /\ UNCHANGED <<age, tick, stopped, wedged, crashed, pc, local, past>>

-----------------------------------------------------------------------------
(* RunOnce *)

\* RunOnce is over, and with it its locals.
Leave(g) ==
    /\ pc' = [pc EXCEPT ![g] = "off"]
    /\ due' = [due EXCEPT ![g] = {}]
    /\ copied' = [copied EXCEPT ![g] = 0]
    /\ mine' = [mine EXCEPT ![g] = [i \in Job |-> Old]]
    /\ since' = [since EXCEPT ![g] = 0]

\* The copy, under the mutex.  The loop gets here through its select, which
\* may take a tick although stop is closed.
Copy(g) ==
    /\ ~crashed /\ ~wedged /\ pc[g] = "off"
    /\ g = Loop => tick
    /\ tick' = IF g = Loop THEN FALSE ELSE tick
    /\ copied' = [copied EXCEPT ![g] = len]
    /\ mine' = [mine EXCEPT ![g] = age]
    /\ pc' = [pc EXCEPT ![g] = "copied"]
    /\ disturbed' = (disturbed \/ Active # {})
    /\ UNCHANGED <<len, age, stopped, wedged, crashed, since, due, ran>>

\* Mutant: a job is due one interval early.
SampleEarly(g) ==
    /\ ~crashed /\ pc[g] = "copied"
    /\ due' = [due EXCEPT ![g] = {i \in 1..copied[g] : mine[g][i] >= Every[i] - 1}]
    /\ since' = [since EXCEPT ![g] = 0]
    /\ pc' = [pc EXCEPT ![g] = "running"]
    /\ UNCHANGED <<shared, copied, mine, past>>

\* now := time.Now(), which decides for all jobs whether they are due.
Sample(g) ==
    /\ ~crashed /\ pc[g] = "copied"
    /\ due' = [due EXCEPT ![g] = {i \in 1..copied[g] : mine[g][i] >= Every[i]}]
    /\ since' = [since EXCEPT ![g] = 0]
    /\ pc' = [pc EXCEPT ![g] = "running"]
    /\ UNCHANGED <<shared, copied, mine, past>>

\* The next job that is due runs; its lastRun is the common `now`.
RunTask(g) ==
    /\ ~crashed /\ pc[g] = "running" /\ due[g] # {}
    /\ LET i == Min(due[g]) IN
       /\ due' = [due EXCEPT ![g] = @ \ {i}]
       /\ mine' = [mine EXCEPT ![g][i] = since[g]]
       /\ ran' = [ran EXCEPT ![i] = Min({@, since[g]})]
    /\ UNCHANGED <<shared, pc, copied, since, disturbed>>

\* A task panics: nothing is written back, not even for the tasks that ran.
TaskPanics(g) ==
    /\ ~crashed /\ pc[g] = "running" /\ due[g] # {}
    /\ crashed' = (g \notin Guarded)
    /\ Leave(g)
    /\ disturbed' = TRUE
    /\ UNCHANGED <<len, age, tick, stopped, wedged, ran>>

\* Mutant: every job is stamped with the current run.
WriteBackAll(g) ==
    /\ ~crashed /\ ~wedged /\ pc[g] = "running" /\ due[g] = {} /\ len = copied[g]
    /\ age' = [i \in Job |-> IF i <= len THEN since[g] ELSE age[i]]
    /\ Leave(g)
    /\ UNCHANGED <<len, tick, stopped, wedged, crashed, past>>

\* The loop over s.jobs under the mutex, when no job was added meanwhile.
WriteBack(g) ==
    /\ ~crashed /\ ~wedged /\ pc[g] = "running" /\ due[g] = {} /\ len = copied[g]
    /\ age' = [i \in Job |-> IF i <= len THEN mine[g][i] ELSE age[i]]
    /\ Leave(g)
    /\ UNCHANGED <<len, tick, stopped, wedged, crashed, past>>

\* The same loop after an Every: jobs[i] is out of range for the new job, and
\* the panic leaves the mutex locked.
WriteBackPanics(g) ==
    /\ ~crashed /\ ~wedged /\ pc[g] = "running" /\ due[g] = {} /\ len > copied[g]
    /\ age' = [i \in Job |-> IF i <= copied[g] THEN mine[g][i] ELSE age[i]]
    /\ crashed' = (g \notin Guarded) /\ wedged' = (g \in Guarded)
    /\ Leave(g)
    /\ UNCHANGED <<len, tick, stopped, past>>

-----------------------------------------------------------------------------
(* Run *)

\* A signal closes the stop channel.
Stop ==
    /\ ~stopped /\ ~crashed
    /\ stopped' = TRUE
    /\ UNCHANGED <<len, age, tick, wedged, crashed, pc, local, past>>

\* Mutant: the loop looks at stop only when no tick is waiting.
ReturnIfIdle ==
    /\ stopped /\ ~crashed /\ pc[Loop] = "off" /\ ~tick
    /\ pc' = [pc EXCEPT ![Loop] = "returned"]
    /\ UNCHANGED <<shared, local, past>>

Return ==
    /\ stopped /\ ~crashed /\ pc[Loop] = "off"
    /\ pc' = [pc EXCEPT ![Loop] = "returned"]
    /\ UNCHANGED <<shared, local, past>>

-----------------------------------------------------------------------------
Finish(g) == Sample(g) \/ RunTask(g) \/ TaskPanics(g) \/ WriteBack(g) \/ WriteBackPanics(g)
Step(g)   == Copy(g) \/ Finish(g)

Next == Time \/ Register \/ Stop \/ Return \/ \E g \in Goroutine : Step(g)

\* Time passes, tasks return, goroutines go on, and a select with two cases
\* ready does not take the same one for ever.
Fairness ==
    /\ WF_vars(Time)
    /\ \A g \in Goroutine : WF_vars(Finish(g))
    /\ WF_vars(Copy(Loop))
    /\ SF_vars(Return)

Spec     == Init /\ [][Next]_vars
FairSpec == Spec /\ Fairness

-----------------------------------------------------------------------------
(* Properties *)

\* lastRun never claims a run that did not take place, however many RunOnce
\* overlap and write their copies back over each other (scheduler.go:46-50): an
\* update that is lost makes a job run again too early, and never too late.
NeverAhead == \A i \in Job : age[i] >= ran[i]

\* As long as no two RunOnce overlap and no task panics, a job is not run
\* before its period has passed since the run before, whatever time the tasks
\* take (scheduler.go:37-50: one `now` for the decision and the stamp).
SpacedOut ==
    [][\A g \in Goroutine : Sample(g) /\ ~disturbed =>
          \A i \in due'[g] : ran[i] >= Every[i]]_vars

\* A job is run again and again, whoever else calls RunOnce and writes its copy
\* back, unless the loop is stopped or a RunOnce met a job registered behind its
\* back (scheduler.go:28 and 48).
RunOf(i) == \E g \in Goroutine : i \in due[g] \ due'[g] /\ pc'[g] = "running"

EveryJobRuns ==
    \A i \in Job : []<>(i > len \/ stopped \/ wedged \/ crashed) \/ []<><<RunOf(i)>>_vars

\* Run returns once stop is closed, though a tick may always be waiting beside
\* it (scheduler.go:61-66), unless the mutex it needs is never released.
StopEnds == stopped ~> (pc[Loop] = "returned" \/ wedged \/ crashed)
=============================================================================
