---------------------------- MODULE MCRateLimit ----------------------------
(***************************************************************************)
(* An application limits its requests in memory (RateLimit) or in Redis    *)
(* (RedisRateLimit): the initial state chooses which, and the state of the *)
(* other stays as it is.                                                   *)
(*                                                                         *)
(* In memory: two requests in flight under a limit of two, which they      *)
(* exceed by coming again within the window; a window of one interval, and *)
(* a `now` that may lie one interval back when the mutex is taken.         *)
(*                                                                         *)
(* In Redis: two pipelines under way and three members under a limit of    *)
(* one, a window of three intervals, a lag of one.                         *)
(***************************************************************************)
EXTENDS RateLimit, TLC

CONSTANTS q1, q2, m1, m2, m3, Member, RedisLimit, RedisWindow

VARIABLES
    inRedis,    \* which limiter the application has
    zset, ttl, age, next, member, card, fate, cut   \* of RedisRateLimit

redis == <<zset, ttl, age, next, member, card, fate, cut>>

Redis == INSTANCE RedisRateLimit
         WITH Max <- RedisLimit, Window <- RedisWindow, pc <- next, mine <- member, count <- card

ASSUME RedisOK == Redis!ConstantsOK

EitherInit == Init /\ Redis!Init /\ inRedis \in BOOLEAN

EitherNext ==
    \/ ~inRedis /\ Next /\ UNCHANGED <<redis, inRedis>>
    \/ inRedis /\ Redis!Next /\ UNCHANGED <<vars, inRedis>>

EitherSpec == EitherInit /\ [][EitherNext]_<<vars, redis, inRedis>>

Symmetry == Permutations(Request) \cup Permutations(Member)

\* In Redis, of the requests that come within a window, less the lag, no more
\* than the limit are counted in (ratelimit_redis.go:87-105).
SlidingLimit == Redis!SlidingLimit

\* In Redis, a request is refused only if as many others as the limit came near
\* it, in the window before it or while it was on its way (ratelimit_redis.go:76).
RefusedForCause == Redis!RefusedForCause
=============================================================================
