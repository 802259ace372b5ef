--------------------------- MODULE RedisRateLimit ---------------------------
(***************************************************************************)
(* middleware.RedisRateLimit, for one key: requests on several hosts, each *)
(* of which sends one pipeline of four commands to Redis.  A pipeline is   *)
(* no transaction: the commands of others come in between.                 *)
(*                                                                         *)
(* Time is relative to the present: the score of a member is kept as its   *)
(* age.  The clock of a host may be behind, so that a member may have an   *)
(* age when its request arrives.                                           *)
(***************************************************************************)
EXTENDS Integers, FiniteSets

CONSTANTS
    Request,    \* requests that may be in flight together
    Member,     \* bound: members that are in the set or remembered
    Max,
    Window,
    MaxLag,     \* bound: the age of a request's `now` when it is answered
    None

\* What the defaults see to, and what the clocks are trusted with.
ConstantsOK ==
    /\ Max \in Nat \ {0} /\ Window \in Nat \ {0} /\ MaxLag \in Nat /\ MaxLag < Window
    /\ None \notin Member /\ IsFiniteSet(Member)

VARIABLES
    zset,       \* the sorted set: members
    ttl,        \* when the key expires, 0 if it has no ttl
    age,        \* age[m]: how long ago the score of m is
    pc,         \* pc[q]: the command of its pipeline that is next
    mine,       \* mine[q]: its member
    count,      \* count[q]: what ZCARD has answered
    fate,       \* history: fate[m]: what became of the request of m
    cut         \* history: members that expired before their own PEXPIRE

vars == <<zset, ttl, age, pc, mine, count, fate, cut>>

\* Older than all that is compared with it.
Horizon == Window + MaxLag

Init ==
    /\ zset = {} /\ ttl = 0
    /\ age = [m \in Member |-> Horizon]
    /\ pc = [q \in Request |-> "off"]
    /\ mine = [q \in Request |-> None]
    /\ count = [q \in Request |-> 0]
    /\ fate = [m \in Member |-> "none"]
    /\ cut = {}

Goto(q, to) == pc' = [pc EXCEPT ![q] = to]

\* The client still waits for the pipeline of q.
Waits(q) == pc[q] # "off" /\ fate[mine[q]] = "asked"

-----------------------------------------------------------------------------
(* The pipeline *)

\* now, the score and the member, which no other request has: its nanoseconds.
Arrive(q, m, behind) ==
    /\ pc[q] = "off" /\ fate[m] = "none" /\ m \notin zset
    /\ Goto(q, "trim")
    /\ mine' = [mine EXCEPT ![q] = m]
    /\ age' = [age EXCEPT ![m] = behind]
    /\ fate' = [fate EXCEPT ![m] = "asked"]
    /\ UNCHANGED <<zset, ttl, count, cut>>

\* Mutant: nothing is removed.
TrimNothing(q) ==
    /\ pc[q] = "trim"
    /\ Goto(q, "add")
    /\ UNCHANGED <<zset, ttl, age, mine, count, fate, cut>>

\* ZREMRANGEBYSCORE; a key with no member left is gone, and its ttl with it.
Trim(q) ==
    /\ pc[q] = "trim"
    /\ zset' = {m \in zset : age[m] - age[mine[q]] < Window}
    /\ ttl' = IF zset' = {} THEN 0 ELSE ttl
    /\ Goto(q, "add")
    /\ UNCHANGED <<age, mine, count, fate, cut>>

\* ZADD
Add(q) ==
    /\ pc[q] = "add"
    /\ zset' = zset \cup {mine[q]}
    /\ Goto(q, "count")
    /\ UNCHANGED <<ttl, age, mine, count, fate, cut>>

\* Mutant: ZCARD before ZADD.
CountOthers(q) ==
    /\ pc[q] = "count"
    /\ count' = [count EXCEPT ![q] = Cardinality(zset \ {mine[q]})]
    /\ Goto(q, "expire")
    /\ UNCHANGED <<zset, ttl, age, mine, fate, cut>>

\* ZCARD
Count(q) ==
    /\ pc[q] = "count"
    /\ count' = [count EXCEPT ![q] = Cardinality(zset)]
    /\ Goto(q, "expire")
    /\ UNCHANGED <<zset, ttl, age, mine, fate, cut>>

\* PEXPIRE, which does nothing for a key that is not there.
PExpire(q) ==
    /\ pc[q] = "expire"
    /\ ttl' = IF zset = {} THEN 0 ELSE Window
    /\ Goto(q, "reply")
    /\ UNCHANGED <<zset, age, mine, count, fate, cut>>

-----------------------------------------------------------------------------
(* The answer *)

\* The request of q is over, with that outcome.
Ends(q, outcome) ==
    /\ Goto(q, "off")
    /\ mine' = [mine EXCEPT ![q] = None] /\ count' = [count EXCEPT ![q] = 0]
    /\ fate' = [fate EXCEPT ![mine[q]] = outcome]
    /\ UNCHANGED <<zset, ttl, age, cut>>

Admit(q)  == pc[q] = "reply" /\ Waits(q) /\ count[q] <= Max /\ Ends(q, "admitted")
Refuse(q) == pc[q] = "reply" /\ Waits(q) /\ count[q] > Max /\ Ends(q, "refused")

\* Exec returns an error: the request is let through.  Redis may go on with
\* the pipeline ...
FailOpen(q) ==
    /\ Waits(q)
    /\ fate' = [fate EXCEPT ![mine[q]] = "open"]
    /\ UNCHANGED <<zset, ttl, age, pc, mine, count, cut>>

\* ... to its end, or as far as it has received it.
Abandoned(q) == pc[q] # "off" /\ ~Waits(q) /\ Ends(q, "open")

\* The client sends the pipeline again, when its connection has broken; what
\* Redis has not done by then of the first one, it does not do.
Resend(q) ==
    /\ Waits(q) /\ pc[q] # "trim"
    /\ Goto(q, "trim")
    /\ UNCHANGED <<zset, ttl, age, mine, count, fate, cut>>

-----------------------------------------------------------------------------
\* Time passes, and a key whose ttl is over expires.
Time ==
    /\ \A q \in Request : pc[q] # "off" => age[mine[q]] < MaxLag
    /\ age' = [m \in Member |-> IF age[m] < Horizon THEN age[m] + 1 ELSE Horizon]
    /\ fate' = [m \in Member |-> IF age'[m] < Horizon THEN fate[m] ELSE "none"]
    /\ ttl' = IF ttl = 0 THEN 0 ELSE ttl - 1
    /\ zset' = IF ttl = 1 THEN {} ELSE zset
    /\ cut' = {m \in cut : age'[m] < Horizon} \cup
              (IF ttl = 1
               THEN {m \in zset : \E q \in Request : mine[q] = m /\ pc[q] \in {"count", "expire"}}
               ELSE {})
    /\ UNCHANGED <<pc, mine, count>>

Next ==
    \/ \E q \in Request :
          \/ \E m \in Member, behind \in 0..MaxLag : Arrive(q, m, behind)
          \/ Trim(q) \/ Add(q) \/ Count(q) \/ PExpire(q)
          \/ Admit(q) \/ Refuse(q) \/ FailOpen(q) \/ Abandoned(q) \/ Resend(q)
    \/ Time

Spec == Init /\ [][Next]_vars

-----------------------------------------------------------------------------
(* Properties *)

\* Of the requests that come within a window, less what clocks and pipelines
\* may lag, no more than Max are counted in, although hosts trim, add and count
\* in between each other; except those whose member went with an expiring key
\* before their own PEXPIRE, and those let through because Redis failed
\* (ratelimit_redis.go:87-105).
SlidingLimit ==
    LET counted == {m \in Member : fate[m] = "admitted"} \ cut
    IN  \A m \in counted :
            Cardinality({n \in counted : age[n] - age[m] \in 0..(Window - MaxLag - 1)}) <= Max

\* A request is refused only if Max others, refused ones included, came in the
\* window before it, or while it was on its way (ratelimit_redis.go:76).
RefusedForCause ==
    \A q \in Request : pc[q] = "reply" /\ Waits(q) /\ count[q] > Max =>
        LET near(n) == fate[n] # "none" /\ age[n] - age[mine[q]] \in -MaxLag..(Window - 1)
        IN  Cardinality({n \in Member \ {mine[q]} : near(n)}) >= Max
=============================================================================
