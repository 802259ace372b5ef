----------------------------- MODULE RedisQueue -----------------------------
(***************************************************************************)
(* Package queue over Redis: the main list, the dead-letter list, the      *)
(* consumer processes of `queue:work` (RunWorkers) and of the library      *)
(* loops (RunWithRetryContext, RunJobs), and the `queue:retry` operator    *)
(* (RetryDead).                                                            *)
(*                                                                         *)
(* A Redis command is atomic.  It takes effect, is refused, or takes       *)
(* effect while its reply is lost, and then go-redis, which is made with   *)
(* its default of three retries (run.go:94 and 115), sends it again.  An   *)
(* RPUSH that is sent again leaves two copies of its payload, so a job     *)
(* here is one copy: what one RPUSH puts at the end of a list.             *)
(***************************************************************************)
EXTENDS Integers, SequencesExt

CONSTANTS
    Job,            \* the copies of payloads there may be
    Payload,        \* Payload[j]: the bytes j is a copy of
    Decodable,      \* the jobs Registry.Deserialize accepts
    Retries,        \* Retries[j]: RetryHandler.Retries(), 0 for a plain handler
    Proc,           \* consumer processes
    Worker,         \* the goroutines they run
    Host,           \* Host[w]: the process goroutine w belongs to
    HasDeadLetter,  \* dl # nil in HandlePayloadWithRetry
    MaxLimit,       \* bound on the --max the operator passes
    NoJob

ASSUME ConstantsOK ==
    /\ Decodable \subseteq Job
    /\ Retries \in [Job -> Int]
    /\ Host \in [Worker -> Proc]
    /\ HasDeadLetter \in BOOLEAN
    /\ DOMAIN Payload = Job
    /\ \A i, j \in Job : Payload[i] = Payload[j] =>
          (i \in Decodable <=> j \in Decodable) /\ Retries[i] = Retries[j]
    /\ MaxLimit \in Nat
    /\ NoJob \notin Job

VARIABLES
    fresh,      \* jobs no RPUSH has made yet
    main,       \* the list q.Key, pushed right and popped left
    dead,       \* the list dl.Key(), pushed right and popped right
    done,       \* jobs whose handler returned nil
    dropped,    \* failed jobs given up by a consumer without a dead letter
    lost,       \* jobs a fault took out of Redis and out of every process
    mode,       \* mode[p]: the loop process p runs
    cancelled,  \* cancelled[p]: its context is cancelled
    phase,      \* phase[w]: where goroutine w is
    hand,       \* hand[w]: the payload it popped
    attempts,   \* attempts[w]: the local `attempts` of HandlePayloadWithRetry
    calls,      \* calls[j]: calls of j's Handle since j was last put on main
    op,         \* where the operator's RetryDead is
    moving,     \* the payload it has popped
    limit,      \* its argument max, with a negative one taken as 0
    count       \* its local count

lists  == <<fresh, main, dead>>
ends   == <<done, dropped, lost>>
procs  == <<mode, cancelled>>
local  == <<phase, hand, attempts>>
retry  == <<op, moving, limit, count>>
vars   == <<lists, ends, procs, local, calls, retry>>

Mode  == {"work", "once", "retry", "jobs"}
Phase == {"off", "ready", "blocked", "handling", "giveUp", "failed"}
Busy  == {"handling", "giveUp"}

TypeOK ==
    /\ fresh \subseteq Job
    /\ main \in Seq(Job) /\ dead \in Seq(Job)
    /\ done \subseteq Job /\ dropped \subseteq Job /\ lost \subseteq Job
    /\ mode \in [Proc -> Mode]
    /\ cancelled \in [Proc -> BOOLEAN]
    /\ phase \in [Worker -> Phase]
    /\ hand \in [Worker -> Job \cup {NoJob}]
    /\ attempts \in [Worker -> Nat]
    /\ calls \in [Job -> Nat]
    /\ op \in {"off", "popping", "pushing"}
    /\ moving \in Job \cup {NoJob}
    /\ limit \in 0..MaxLimit /\ count \in 0..MaxLimit
    /\ \A w \in Worker : phase[w] \in Busy <=> hand[w] # NoJob
    /\ op = "pushing" <=> moving # NoJob
    /\ op = "pushing" => limit = 0 \/ count < limit

Init ==
    /\ fresh = Job /\ main = <<>> /\ dead = <<>>
    /\ done = {} /\ dropped = {} /\ lost = {}
    /\ mode = [p \in Proc |-> "work"]
    /\ cancelled = [p \in Proc |-> FALSE]
    /\ phase = [w \in Worker |-> "off"]
    /\ hand = [w \in Worker |-> NoJob]
    /\ attempts = [w \in Worker |-> 0]
    /\ calls = [j \in Job |-> 0]
    /\ op = "off" /\ moving = NoJob /\ limit = 0 /\ count = 0

Crew(p) == {w \in Worker : Host[w] = p}
Up(p)   == \E w \in Crew(p) : phase[w] # "off"

-----------------------------------------------------------------------------
(* Producers *)

\* PushPayload: RPUSH onto the main list.  After a refused push its producer may
\* try again; after one whose reply was lost the client does, and the second
\* RPUSH makes another job of the same payload.
PushPayload(j) ==
    /\ j \in fresh
    /\ fresh' = fresh \ {j}
    /\ main' = Append(main, j)
    /\ UNCHANGED <<dead, ends, procs, local, calls, retry>>

-----------------------------------------------------------------------------
(* Consumer processes *)

\* RunWorkers spawns one runLoop a worker; with Once it calls runOnce instead,
\* and the library loops run in the goroutine that calls them.
Start(p, m) ==
    /\ ~Up(p)
    /\ \E crew \in SUBSET Crew(p) :
          /\ IF m = "work" THEN crew = Crew(p) ELSE \E w \in Crew(p) : crew = {w}
          /\ crew # {}
          /\ phase' = [w \in Worker |-> IF w \in crew THEN "ready" ELSE phase[w]]
    /\ mode' = [mode EXCEPT ![p] = m]
    /\ cancelled' = [cancelled EXCEPT ![p] = FALSE]
    /\ UNCHANGED <<lists, ends, hand, attempts, calls, retry>>

\* SIGINT or SIGTERM through signal.NotifyContext, or the caller's cancel;
\* RunJobs runs under the queue's background context.
Cancel(p) ==
    /\ Up(p) /\ mode[p] # "jobs" /\ ~cancelled[p]
    /\ cancelled' = [cancelled EXCEPT ![p] = TRUE]
    /\ UNCHANGED <<lists, ends, mode, local, calls, retry>>

\* Where a goroutine is once an iteration of its loop is over.
Rest(w) == IF mode[Host[w]] = "once" THEN "off" ELSE "ready"

\* Where a goroutine is once its BLPOP has ended with no payload: runLoop
\* calls Pop again, RunWithContext returns on a cancelled context.
Unserved(w) ==
    CASE mode[Host[w]] = "once" -> "off"
      [] mode[Host[w]] = "retry" /\ cancelled[Host[w]] -> "off"
      [] OTHER -> "ready"

\* The call of BLPOP.  A cancelled context ends it at once; for runLoop that
\* is the step from "ready" to "ready".
CallPop(w) ==
    /\ phase[w] = "ready"
    /\ phase' = [phase EXCEPT ![w] = IF cancelled[Host[w]] THEN Unserved(w) ELSE "blocked"]
    /\ UNCHANGED <<lists, ends, procs, hand, attempts, calls, retry>>

\* BLPOP times out (redis.Nil) or notices the cancelled context.
PopNothing(w) ==
    /\ phase[w] = "blocked"
    /\ main = <<>> \/ cancelled[Host[w]]
    /\ phase' = [phase EXCEPT ![w] = Unserved(w)]
    /\ UNCHANGED <<lists, ends, procs, hand, attempts, calls, retry>>

\* BLPOP returns the head of the list, and Deserialize accepts it or not.
PopJob(w) ==
    /\ phase[w] = "blocked" /\ main # <<>>
    /\ main' = Tail(main)
    /\ hand' = [hand EXCEPT ![w] = Head(main)]
    /\ phase' = [phase EXCEPT ![w] = IF Head(main) \in Decodable THEN "handling" ELSE "giveUp"]
    /\ attempts' = [attempts EXCEPT ![w] = 0]
    /\ UNCHANGED <<fresh, dead, ends, procs, calls, retry>>

\* BLPOP fails: the loop returns the error.  When only the reply was lost the
\* server has already removed the head, and the client may ask again first.
PopError(w) ==
    /\ phase[w] = "blocked"
    /\ \/ /\ phase' = [phase EXCEPT ![w] = "failed"]
          /\ UNCHANGED <<main, lost>>
       \/ /\ main # <<>>
          /\ main' = Tail(main)
          /\ lost' = lost \cup {Head(main)}
          /\ phase' \in {phase, [phase EXCEPT ![w] = "failed"]}
    /\ UNCHANGED <<fresh, dead, done, dropped, procs, hand, attempts, calls, retry>>

\* Mutant: the goroutine keeps the payload.
LetGoKeepingHand(w) ==
    /\ phase' = [phase EXCEPT ![w] = Rest(w)]
    /\ attempts' = [attempts EXCEPT ![w] = 0]
    /\ UNCHANGED hand

\* Goroutine w is through with its payload; its locals go out of scope.
LetGo(w) ==
    /\ phase' = [phase EXCEPT ![w] = Rest(w)]
    /\ hand' = [hand EXCEPT ![w] = NoJob]
    /\ attempts' = [attempts EXCEPT ![w] = 0]

\* Handle returns nil.
HandleOk(w) ==
    /\ phase[w] = "handling"
    /\ calls' = [calls EXCEPT ![hand[w]] = @ + 1]
    /\ done' = done \cup {hand[w]}
    /\ LetGo(w)
    /\ UNCHANGED <<lists, dropped, lost, procs, retry>>

\* Mutant: no retry.
HandleErrOnce(w) ==
    /\ phase[w] = "handling"
    /\ calls' = [calls EXCEPT ![hand[w]] = @ + 1]
    /\ phase' = [phase EXCEPT ![w] = "giveUp"]
    /\ UNCHANGED <<lists, ends, procs, hand, attempts, retry>>

\* Handle returns an error: another attempt while attempts < Retries(), except
\* under RunJobs, which calls Handle once.
HandleErr(w) ==
    /\ phase[w] = "handling"
    /\ calls' = [calls EXCEPT ![hand[w]] = @ + 1]
    /\ IF mode[Host[w]] # "jobs" /\ attempts[w] < Retries[hand[w]]
       THEN attempts' = [attempts EXCEPT ![w] = @ + 1] /\ UNCHANGED phase
       ELSE phase' = [phase EXCEPT ![w] = "giveUp"] /\ UNCHANGED attempts
    /\ UNCHANGED <<lists, ends, procs, hand, retry>>

Buries(w) == HasDeadLetter /\ mode[Host[w]] # "jobs"

\* Mutant: the payload is handled again after it was given up.
GiveUpKeepingHand(w) ==
    /\ phase[w] = "giveUp" /\ Buries(w)
    /\ dead' = Append(dead, hand[w])
    /\ UNCHANGED <<fresh, main, ends, procs, local, calls, retry>>

\* DeadLetter.Push.  Its error is ignored, so a refused RPUSH loses the job;
\* without a dead letter the payload is simply dropped.
GiveUp(w) ==
    /\ phase[w] = "giveUp"
    /\ \/ /\ Buries(w)
          /\ dead' = Append(dead, hand[w])
          /\ UNCHANGED ends
       \/ /\ Buries(w)
          /\ lost' = lost \cup {hand[w]}
          /\ UNCHANGED <<dead, done, dropped>>
       \/ /\ ~Buries(w)
          /\ dropped' = dropped \cup {hand[w]}
          /\ UNCHANGED <<dead, done, lost>>
    /\ LetGo(w)
    /\ UNCHANGED <<fresh, main, procs, calls, retry>>

\* A second copy of job j, which an RPUSH of j that is to be sent again leaves
\* behind: it has been handled as often as j.
Copy(j, twin) ==
    /\ twin \in fresh /\ twin # j /\ Payload[twin] = Payload[j]
    /\ fresh' = fresh \ {twin}

\* The reply to the RPUSH of DeadLetter.Push is lost: the payload is in the
\* list and the goroutine about to push it again.
GiveUpUnheard(w) ==
    /\ phase[w] = "giveUp" /\ Buries(w)
    /\ \E twin \in Job : /\ Copy(hand[w], twin)
                         /\ dead' = Append(dead, twin)
                         /\ calls' = [calls EXCEPT ![twin] = calls[hand[w]]]
    /\ UNCHANGED <<main, ends, procs, local, retry>>

\* The process ends, and whatever its goroutines held is gone.
End(p) ==
    /\ lost' = lost \cup {hand[w] : w \in {v \in Crew(p) : phase[v] \in Busy}}
    /\ phase' = [w \in Worker |-> IF w \in Crew(p) THEN "off" ELSE phase[w]]
    /\ hand' = [w \in Worker |-> IF w \in Crew(p) THEN NoJob ELSE hand[w]]
    /\ attempts' = [w \in Worker |-> IF w \in Crew(p) THEN 0 ELSE attempts[w]]
    /\ UNCHANGED <<lists, done, dropped, procs, calls, retry>>

\* RunWorkers returns the first error it receives and main exits, without
\* waiting for the other goroutines.
Exit(p) == (\E w \in Crew(p) : phase[w] = "failed") /\ End(p)

\* A killed process, or a panic in a handler: no goroutine recovers one.
Crash(p) == Up(p) /\ End(p)

-----------------------------------------------------------------------------
(* The operator: RetryDead(q, dl, max) *)

StartRetry(max) ==
    /\ op = "off"
    /\ op' = "popping" /\ limit' = max /\ count' = 0
    /\ UNCHANGED <<lists, ends, procs, local, calls, moving>>

LimitReached == limit > 0 /\ count >= limit

\* RetryDead returns, and its locals go out of scope.
Returns == op' = "off" /\ moving' = NoJob /\ limit' = 0 /\ count' = 0

\* The loop ends at its limit or at the end of the list.
RetryEnds ==
    /\ op = "popping"
    /\ LimitReached \/ dead = <<>>
    /\ Returns
    /\ UNCHANGED <<lists, ends, procs, local, calls>>

\* Mutant: LRANGE instead of RPOP.
RetryPopPeeks ==
    /\ op = "popping" /\ ~LimitReached /\ dead # <<>>
    /\ moving' = Last(dead) /\ op' = "pushing"
    /\ UNCHANGED <<lists, ends, procs, local, calls, limit, count>>

RetryPop ==
    /\ op = "popping" /\ ~LimitReached /\ dead # <<>>
    /\ dead' = Front(dead)
    /\ moving' = Last(dead) /\ op' = "pushing"
    /\ UNCHANGED <<fresh, main, ends, procs, local, calls, limit, count>>

\* RPOP fails; when only its reply was lost the payload is off the list, and
\* the client may ask again for the next before RetryDead hears of it.
RetryPopError ==
    /\ op = "popping" /\ ~LimitReached
    /\ \/ Returns /\ UNCHANGED <<dead, lost>>
       \/ /\ dead # <<>>
          /\ dead' = Front(dead)
          /\ lost' = lost \cup {Last(dead)}
          /\ Returns \/ UNCHANGED retry
    /\ UNCHANGED <<fresh, main, done, dropped, procs, local, calls>>

\* Mutant: the loop forgets to count.
RetryPushUncounted ==
    /\ op = "pushing"
    /\ main' = Append(main, moving)
    /\ calls' = [calls EXCEPT ![moving] = 0]
    /\ moving' = NoJob /\ op' = "popping"
    /\ UNCHANGED <<fresh, dead, ends, procs, local, limit, count>>

\* Mutant: LPUSH instead of RPUSH.
RetryPushLeft ==
    /\ op = "pushing"
    /\ main' = <<moving>> \o main
    /\ calls' = [calls EXCEPT ![moving] = 0]
    /\ moving' = NoJob /\ op' = "popping"
    /\ count' = IF limit = 0 THEN 0 ELSE count + 1
    /\ UNCHANGED <<fresh, dead, ends, procs, local, limit>>

\* `count` matters only under a limit; without one it is not kept.
RetryPush ==
    /\ op = "pushing"
    /\ main' = Append(main, moving)
    /\ calls' = [calls EXCEPT ![moving] = 0]
    /\ moving' = NoJob /\ op' = "popping"
    /\ count' = IF limit = 0 THEN 0 ELSE count + 1
    /\ UNCHANGED <<fresh, dead, ends, procs, local, limit>>

\* The reply to the RPUSH is lost: the payload is in the main list, and the
\* client about to push it again.
RetryPushUnheard ==
    /\ op = "pushing"
    /\ \E twin \in Job : Copy(moving, twin) /\ main' = Append(main, twin)
    /\ UNCHANGED <<dead, ends, procs, local, calls, retry>>

\* The RPUSH is refused, or the operator's process ends between the two
\* commands: the popped payload is in neither list.
RetryAborts ==
    /\ op = "pushing"
    /\ lost' = lost \cup {moving}
    /\ Returns
    /\ UNCHANGED <<lists, done, dropped, procs, local, calls>>

-----------------------------------------------------------------------------
Step(w) == \/ CallPop(w)  \/ PopNothing(w) \/ PopJob(w) \/ PopError(w)
           \/ HandleOk(w) \/ HandleErr(w)  \/ GiveUp(w) \/ GiveUpUnheard(w)

Next == \/ \E j \in Job : PushPayload(j)
        \/ \E p \in Proc : Cancel(p) \/ Exit(p) \/ Crash(p) \/ \E m \in Mode : Start(p, m)
        \/ \E w \in Worker : Step(w)
        \/ \E max \in 0..MaxLimit : StartRetry(max)
        \/ RetryEnds \/ RetryPop \/ RetryPopError
        \/ RetryPush \/ RetryPushUnheard \/ RetryAborts

\* Goroutines and the operator keep running while they can: Redis answers, a
\* handler returns.  Nobody is obliged to push, start, cancel or crash.
Fairness ==
    /\ \A w \in Worker : /\ WF_vars(CallPop(w))
                         /\ WF_vars(PopJob(w) \/ PopError(w))
                         /\ WF_vars(HandleOk(w) \/ HandleErr(w))
                         /\ WF_vars(GiveUp(w))
    /\ \A p \in Proc : WF_vars(Exit(p))
    /\ WF_vars(RetryEnds \/ RetryPop \/ RetryPopError)
    /\ WF_vars(RetryPush \/ RetryAborts)

Spec     == Init /\ [][Next]_vars
FairSpec == Spec /\ Fairness

-----------------------------------------------------------------------------
(* Properties *)

Queued  == ToSet(main)
Buried  == ToSet(dead)
Held    == {hand[w] : w \in Worker} \ {NoJob}
Moving  == {moving} \ {NoJob}

\* Every copy an RPUSH has made is in exactly one place: once in one of the two
\* lists, in the hands of one goroutine, with the operator, or at one of its
\* ends.  Redis hands out payloads and takes them back in commands of their
\* own, with no acknowledgement between them (redis.go:58, retry.go:34, 105 and
\* 112), so a payload kept on one side and sent on the other would run twice,
\* and one dropped on both sides would vanish with no fault.  A payload can
\* still be in two places: as two copies, the second left by a push whose
\* reply was lost.
OneHolder ==
    /\ IsInjective(main) /\ IsInjective(dead)
    /\ \A v, w \in Worker : hand[v] = hand[w] /\ hand[v] # NoJob => v = w
    /\ fresh   \cap (Queued \cup Buried \cup Held \cup Moving \cup done \cup dropped \cup lost) = {}
    /\ Queued  \cap (Buried \cup Held \cup Moving \cup done \cup dropped \cup lost) = {}
    /\ Buried  \cap (Held \cup Moving \cup done \cup dropped \cup lost) = {}
    /\ Held    \cap (Moving \cup done \cup dropped \cup lost) = {}
    /\ Moving  \cap (done \cup dropped \cup lost) = {}
    /\ done    \cap (dropped \cup lost) = {}
    /\ dropped \cap lost = {}
    /\ Job = fresh \cup Queued \cup Buried \cup Held \cup Moving \cup done \cup dropped \cup lost

\* The number of Handle calls a payload is worth between two visits to the
\* main list: one and its retries, none if it does not decode.
Quota(j) == IF j \notin Decodable THEN 0
            ELSE IF Retries[j] > 0 THEN Retries[j] + 1 ELSE 1

\* A payload reaches the dead-letter list only after every attempt it is
\* entitled to has failed, and no copy of it is ever handled more often than
\* that, whichever goroutines, crashes, resent pushes and revivals it went
\* through (HandlePayloadWithRetry, retry.go:57-87).
Exhausted ==
    /\ \A j \in Buried \cup Moving : calls[j] = Quota(j)
    /\ \A j \in Job : calls[j] <= Quota(j)

\* The inductive form of Exhausted: what `calls` is at every place.
Account ==
    /\ \A j \in fresh \cup Queued : calls[j] = 0
    /\ \A w \in Worker :
          /\ phase[w] = "handling" => /\ hand[w] \in Decodable
                                     /\ calls[hand[w]] = attempts[w]
                                     /\ attempts[w] < Quota(hand[w])
          /\ phase[w] = "giveUp" /\ mode[Host[w]] # "jobs" => calls[hand[w]] = Quota(hand[w])
    /\ Exhausted

\* The queue implements the life cycle of JobLedger: a copy of a payload that
\* was handled is never handled again, one that failed is queued again only by
\* the operator, a fault only ever loses one that is on the wire or in a hand,
\* and the resending of a push moves no copy but the new one, which stands
\* where that push was to put the payload.
StatusOf(j) == IF j \in fresh THEN "new"
               ELSE IF j \in Queued THEN "queued"
               ELSE IF j \in Held THEN "running"
               ELSE IF j \in Buried THEN "dead"
               ELSE IF j \in Moving THEN "moving"
               ELSE IF j \in done THEN "done"
               ELSE IF j \in dropped THEN "dropped" ELSE "lost"

Ledger == INSTANCE JobLedger WITH status <- [j \in Job |-> StatusOf(j)]

ImplementsLedger == Ledger!Spec

\* A queued payload is taken as long as one consumer stays up and asks for it
\* (a cancelled runLoop spins on Pop and takes nothing, workers.go:39-46 with
\* redis.go:60), however often the others fail and although the operator keeps
\* queueing payloads behind it.
Asking(p) == Up(p) /\ ~cancelled[p]

Delivery ==
    (\E p \in Proc : <>[]Asking(p)) => \A j \in Job : j \in Queued ~> j \notin Queued

\* RetryDead with a limit ends although workers keep refilling the
\* dead-letter list behind it (retry.go:101); with no limit it need not.
LimitedRetryEnds == (op # "off" /\ limit > 0) ~> op = "off"
=============================================================================
