---------------------------- MODULE MemoryQueue ----------------------------
(***************************************************************************)
(* queue.MemoryQueue: a buffered channel of jobs, a WaitGroup of accepted  *)
(* jobs, and a mutex over `closed`.  Push takes the mutex only for its     *)
(* first half; the send on the channel comes after it and may block.  A    *)
(* job may push another job while it runs.                                 *)
(***************************************************************************)
EXTENDS Integers, FiniteSets, SequencesExt

CONSTANTS
    Job,        \* each is pushed once
    Child,      \* Child[j]: the job that j's body pushes, or NoJob
    Guarded,    \* jobs pushed under a recover (an HTTP handler under Recover)
    Runner,     \* goroutines that call Run
    Closer,     \* goroutines that call Close
    Size,       \* the argument of NewMemoryQueue
    NoJob

ASSUME ConstantsOK ==
    /\ IsFiniteSet(Job) /\ NoJob \notin Job
    /\ Child \in [Job -> Job \cup {NoJob}]
    /\ Guarded \subseteq {j \in Job : \A i \in Job : Child[i] # j}
    /\ Size \in Int

VARIABLES
    push,       \* push[j]: how far the Push of j has come
    buf,        \* the channel
    closed,     \* the field, and whether the channel is closed: set together
    wg,         \* the WaitGroup's counter
    run,        \* run[r]: where goroutine r of Run is
    job,        \* job[r]: the job it runs
    ran,        \* jobs that have returned
    closing,    \* closing[c]: where goroutine c of Close is
    crashed     \* a panic nobody recovered ended the process

vars == <<push, buf, closed, wg, run, job, ran, closing, crashed>>

Cap == IF Size <= 0 THEN 100 ELSE Size

TypeOK ==
    /\ push \in [Job -> {"idle", "sending", "sent", "refused", "panicked"}]
    /\ buf \in Seq(Job) /\ Len(buf) <= Cap
    /\ closed \in BOOLEAN /\ crashed \in BOOLEAN
    /\ wg \in Nat
    /\ run \in [Runner -> {"new", "idle", "running", "returned"}]
    /\ job \in [Runner -> Job \cup {NoJob}]
    /\ \A r \in Runner : run[r] = "running" <=> job[r] # NoJob
    /\ ran \subseteq Job
    /\ closing \in [Closer -> {"no", "waiting", "drained", "early"}]

Init ==
    /\ push = [j \in Job |-> "idle"]
    /\ buf = <<>> /\ closed = FALSE /\ wg = 0
    /\ run = [r \in Runner |-> "new"]
    /\ job = [r \in Runner |-> NoJob]
    /\ ran = {}
    /\ closing = [c \in Closer |-> "no"]
    /\ crashed = FALSE

\* Some goroutine is about to call Push(j): the body of its parent, or, for a
\* job no other job pushes, a caller of its own.
Called(j) == \A i \in Job : Child[i] = j => \E r \in Runner : job[r] = i

\* Mutant: closed is read without the mutex, before the counter is raised.
AcceptAnyway(j) ==
    /\ ~crashed /\ push[j] = "idle" /\ Called(j)
    /\ push' = [push EXCEPT ![j] = "sending"] /\ wg' = wg + 1
    /\ UNCHANGED <<buf, closed, run, job, ran, closing, crashed>>

\* The first half of Push, under the mutex.
Accept(j) ==
    /\ ~crashed /\ push[j] = "idle" /\ Called(j)
    /\ IF closed THEN push' = [push EXCEPT ![j] = "refused"] /\ UNCHANGED wg
                 ELSE push' = [push EXCEPT ![j] = "sending"] /\ wg' = wg + 1
    /\ UNCHANGED <<buf, closed, run, job, ran, closing, crashed>>

\* The second half: the send on the channel, once there is room.
Send(j) ==
    /\ ~crashed /\ push[j] = "sending" /\ ~closed /\ Len(buf) < Cap
    /\ buf' = Append(buf, j)
    /\ push' = [push EXCEPT ![j] = "sent"]
    /\ UNCHANGED <<closed, wg, run, job, ran, closing, crashed>>

\* A send, blocked or not yet begun, finds the channel closed and panics.
SendPanics(j) ==
    /\ ~crashed /\ push[j] = "sending" /\ closed
    /\ push' = [push EXCEPT ![j] = "panicked"]
    /\ crashed' = (j \notin Guarded)
    /\ UNCHANGED <<buf, closed, wg, run, job, ran, closing>>

-----------------------------------------------------------------------------
(* Run *)

RunStarts(r) ==
    /\ ~crashed /\ run[r] = "new"
    /\ run' = [run EXCEPT ![r] = "idle"]
    /\ UNCHANGED <<push, buf, closed, wg, job, ran, closing, crashed>>

\* Mutant: Done before the job.
DoneFirst(r) ==
    /\ ~crashed /\ run[r] = "idle" /\ buf # <<>>
    /\ run' = [run EXCEPT ![r] = "running"]
    /\ job' = [job EXCEPT ![r] = Head(buf)]
    /\ buf' = Tail(buf)
    /\ wg' = wg - 1
    /\ UNCHANGED <<push, closed, ran, closing, crashed>>

Receive(r) ==
    /\ ~crashed /\ run[r] = "idle" /\ buf # <<>>
    /\ run' = [run EXCEPT ![r] = "running"]
    /\ job' = [job EXCEPT ![r] = Head(buf)]
    /\ buf' = Tail(buf)
    /\ UNCHANGED <<push, closed, wg, ran, closing, crashed>>

\* The body of a job is over once its own Push has returned.
BodyOver(j) == Child[j] # NoJob => push[Child[j]] \in {"sent", "refused"}

\* Mutant: a failed job goes back on the channel.
FinishRequeues(r) ==
    /\ ~crashed /\ run[r] = "running" /\ BodyOver(job[r]) /\ ~closed /\ Len(buf) < Cap
    /\ buf' = Append(buf, job[r])
    /\ run' = [run EXCEPT ![r] = "idle"]
    /\ job' = [job EXCEPT ![r] = NoJob]
    /\ UNCHANGED <<push, closed, wg, ran, closing, crashed>>

\* The job returns and Run calls wg.Done.
Finish(r) ==
    /\ ~crashed /\ run[r] = "running" /\ BodyOver(job[r])
    /\ ran' = ran \cup {job[r]}
    /\ wg' = wg - 1
    /\ run' = [run EXCEPT ![r] = "idle"]
    /\ job' = [job EXCEPT ![r] = NoJob]
    /\ UNCHANGED <<push, buf, closed, closing, crashed>>

\* Run recovers no panic of a job.
JobPanics(r) ==
    /\ ~crashed /\ run[r] = "running"
    /\ crashed' = TRUE
    /\ UNCHANGED <<push, buf, closed, wg, run, job, ran, closing>>

\* Mutant: Run polls, and returns when it finds nothing.
RunReturnsWhenIdle(r) ==
    /\ ~crashed /\ run[r] = "idle" /\ buf = <<>>
    /\ run' = [run EXCEPT ![r] = "returned"]
    /\ UNCHANGED <<push, buf, closed, wg, job, ran, closing, crashed>>

RunReturns(r) ==
    /\ ~crashed /\ run[r] = "idle" /\ closed /\ buf = <<>>
    /\ run' = [run EXCEPT ![r] = "returned"]
    /\ UNCHANGED <<push, buf, closed, wg, job, ran, closing, crashed>>

-----------------------------------------------------------------------------
(* Close *)

\* Only the first Close closes the channel and waits.
Close(c) ==
    /\ ~crashed /\ closing[c] = "no"
    /\ closing' = [closing EXCEPT ![c] = IF closed THEN "early" ELSE "waiting"]
    /\ closed' = TRUE
    /\ UNCHANGED <<push, buf, wg, run, job, ran, crashed>>

\* wg.Wait
CloseReturns(c) ==
    /\ ~crashed /\ closing[c] = "waiting" /\ wg = 0
    /\ closing' = [closing EXCEPT ![c] = "drained"]
    /\ UNCHANGED <<push, buf, closed, wg, run, job, ran, crashed>>

-----------------------------------------------------------------------------
PushStep(j) == Send(j) \/ SendPanics(j)
RunStep(r)  == RunStarts(r) \/ Receive(r) \/ Finish(r) \/ RunReturns(r)

Next == \/ \E j \in Job : Accept(j) \/ PushStep(j)
        \/ \E r \in Runner : RunStep(r) \/ JobPanics(r)
        \/ \E c \in Closer : Close(c) \/ CloseReturns(c)

\* Goroutines that can go on do, and jobs return; nobody is obliged to call
\* Close, nor, outside a job, Push.
Fairness ==
    /\ \A j \in Job : /\ WF_vars(PushStep(j))
                      /\ WF_vars((\E i \in Job : Child[i] = j) /\ Accept(j))
    /\ \A r \in Runner : WF_vars(RunStep(r))
    /\ \A c \in Closer : WF_vars(CloseReturns(c))

Spec     == Init /\ [][Next]_vars
FairSpec == Spec /\ Fairness

-----------------------------------------------------------------------------
(* Properties *)

\* Accepted and not yet run, the jobs whose send panicked included.
Outstanding == {j \in Job : push[j] \in {"sending", "sent", "panicked"}} \ ran

\* The WaitGroup counts the accepted jobs that have not returned: the Add and
\* the Done of a job are far apart, in two goroutines (memory.go:28 and 37),
\* and a Push that panics in between keeps its count for ever.
WgExact == wg = Cardinality(Outstanding)

\* When the Close that closed the queue returns, every job whose Push
\* succeeded has run and none is accepted any more (TestMemoryQueue); a Close
\* that finds the queue closed promises nothing (memory.go:44-47).
CloseDrains ==
    (\E c \in Closer : closing[c] = "drained") => Outstanding = {} /\ closed

\* The in-memory queue gives a job the life JobLedger allows: it runs once, in
\* one goroutine, and only after its Push.
InHand == {job[r] : r \in Runner} \ {NoJob}

StatusOf(j) == IF j \in ran THEN "done"
               ELSE IF j \in InHand THEN "running"
               ELSE IF push[j] = "sent" THEN "queued" ELSE "new"

Ledger == INSTANCE JobLedger WITH status <- [j \in Job |-> StatusOf(j)]

ImplementsLedger == Ledger!Spec

\* Close returns, unless the process ended or a recovered panic of Push left
\* its count behind (memory.go:28-30 and 51).
CloseEnds == \A c \in Closer :
    closing[c] = "waiting" ~> (closing[c] = "drained" \/ crashed \/ \E j \in Job : push[j] = "panicked")

\* A blocked Push gets through, unless every goroutine of Run is itself inside
\* a job that is blocked pushing: jobs that push can stop the queue for good.
AllNested == \A r \in Runner :
    job[r] # NoJob /\ Child[job[r]] # NoJob /\ push[Child[job[r]]] = "sending"

PushEnds == \A j \in Job :
    push[j] = "sending" ~> (push[j] # "sending" \/ AllNested \/ crashed)
=============================================================================
