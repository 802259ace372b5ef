----------------------------- MODULE RateLimit -----------------------------
(***************************************************************************)
(* middleware.RateLimit and RateLimitByKey: buckets in a map under a       *)
(* mutex, the goroutines of the requests, and the goroutine that prunes.   *)
(* Two reads are made outside the mutex: `now`, before it is taken, and    *)
(* the count a request is judged by, after it is released.                 *)
(*                                                                         *)
(* Time is kept relative to the present: resetAt as what is left of the    *)
(* window, a sampled `now` as how far it lies back.  A count is kept no    *)
(* further than Limit + 1, all it is compared with.                        *)
(***************************************************************************)
EXTENDS Integers, FiniteSets

CONSTANTS
    Key,        \* what keyFn or clientIP can return
    Request,    \* requests that may be in flight together
    Bucket,     \* addresses of buckets
    Limit,      \* requests
    Window,
    MaxLag,     \* bound: how long a goroutine waits for the mutex
    None

ASSUME ConstantsOK ==
    /\ Limit \in Nat /\ Window \in Nat /\ MaxLag \in Nat
    /\ None \notin Key \cup Bucket
    /\ IsFiniteSet(Request)

VARIABLES
    buckets,    \* buckets[k]: the bucket mapped to k, or None
    owner,      \* owner[b]: the key b was made for, None while b is free
    count,      \* count[b]: b.count
    left,       \* left[b]: b.resetAt minus the present; Past is any time long gone
    pc,         \* pc[q]: "off", "arrived", "counted", "admitted" or "refused"
    key,        \* key[q]: the key of the request
    lag,        \* lag[q]: how far its `now` lies back
    mine,       \* mine[q]: the bucket it was counted in
    ticket,     \* ticket[q]: the count it left there, for X-RateLimit-Remaining
    pruning,    \* the pruner has sampled `now`
    pruneLag,   \* how far that lies back
    admitted    \* history: admitted[b]: requests let through on b

table   == <<buckets, owner, count, left, admitted>>
request == <<pc, key, lag, mine, ticket>>
pruner  == <<pruning, pruneLag>>
vars    == <<table, request, pruner>>

Past == -(MaxLag + 1)

TypeOK ==
    /\ buckets \in [Key -> Bucket \cup {None}]
    /\ \A k \in Key : buckets[k] # None => owner[buckets[k]] = k
    /\ owner \in [Bucket -> Key \cup {None}]
    /\ count \in [Bucket -> 0..(Limit + 1)] /\ admitted \in [Bucket -> Nat]
    /\ left \in [Bucket -> Past..Window]
    /\ pc \in [Request -> {"off", "arrived", "counted", "admitted", "refused"}]
    /\ key \in [Request -> Key \cup {None}]
    /\ lag \in [Request -> 0..MaxLag]
    /\ mine \in [Request -> Bucket \cup {None}]
    /\ ticket \in [Request -> 0..(Limit + 1)]
    /\ \A q \in Request :
          /\ key[q] = None <=> pc[q] = "off"
          /\ pc[q] \in {"counted", "admitted", "refused"} =>
                mine[q] # None /\ owner[mine[q]] = key[q] /\ ticket[q] > 0
    /\ pruning \in BOOLEAN /\ pruneLag \in 0..MaxLag

Init ==
    /\ buckets = [k \in Key |-> None]
    /\ owner = [b \in Bucket |-> None] /\ count = [b \in Bucket |-> 0]
    /\ left = [b \in Bucket |-> Past] /\ admitted = [b \in Bucket |-> 0]
    /\ pc = [q \in Request |-> "off"] /\ key = [q \in Request |-> None]
    /\ lag = [q \in Request |-> 0] /\ mine = [q \in Request |-> None]
    /\ ticket = [q \in Request |-> 0]
    /\ pruning = FALSE /\ pruneLag = 0

\* now.After(b.resetAt), for a `now` that lies l back.
After(b, l) == left[b] + l < 0

\* There is no bucket at all, or its window was over at that time.
Over(b, l) == IF b = None THEN TRUE ELSE After(b, l)

\* Time passes.  A goroutine that has sampled `now` gets the mutex in time.
Time ==
    /\ \A q \in Request : pc[q] = "arrived" => lag[q] < MaxLag
    /\ pruning => pruneLag < MaxLag
    /\ left' = [b \in Bucket |-> IF left[b] > Past THEN left[b] - 1 ELSE Past]
    /\ lag' = [q \in Request |-> IF pc[q] = "arrived" THEN lag[q] + 1 ELSE lag[q]]
    /\ pruneLag' = IF pruning THEN pruneLag + 1 ELSE 0
    /\ UNCHANGED <<buckets, owner, count, admitted, pc, key, mine, ticket, pruning>>

-----------------------------------------------------------------------------
(* A request *)

\* keyFn, and now := time.Now()
Arrive(q, k) ==
    /\ pc[q] = "off"
    /\ pc' = [pc EXCEPT ![q] = "arrived"]
    /\ key' = [key EXCEPT ![q] = k]
    /\ UNCHANGED <<table, lag, mine, ticket, pruner>>

Incremented(n) == IF n > Limit THEN n ELSE n + 1

\* It is counted in bucket b, which had the count n.
CountIn(q, b, n) ==
    /\ count' = [count EXCEPT ![b] = Incremented(n)]
    /\ ticket' = [ticket EXCEPT ![q] = Incremented(n)]
    /\ mine' = [mine EXCEPT ![q] = b]
    /\ lag' = [lag EXCEPT ![q] = 0]
    /\ pc' = [pc EXCEPT ![q] = "counted"]

\* The map has a bucket that was open at the time of `now`.
CountOld(q) ==
    LET b == buckets[key[q]] IN
    /\ pc[q] = "arrived" /\ ~Over(b, lag[q])
    /\ CountIn(q, b, count[b])
    /\ UNCHANGED <<buckets, owner, left, admitted, key, pruner>>

\* A bucket nobody can tell from new memory: not in the map, held by no
\* request, and over, so that the properties need not remember it.
Free(b) ==
    /\ \A k \in Key : buckets[k] # b
    /\ \A q \in Request : mine[q] # b
    /\ left[b] < 0

\* Which of them it is makes no difference.
NewBucket == CHOOSE b \in Bucket : Free(b)

\* There is none, or it was over: a new one, whose window starts at `now`.
CountNew(q) ==
    LET b == NewBucket IN
    /\ pc[q] = "arrived" /\ \E c \in Bucket : Free(c)
    /\ Over(buckets[key[q]], lag[q])
    /\ buckets' = [buckets EXCEPT ![key[q]] = b]
    /\ owner' = [owner EXCEPT ![b] = key[q]]
    /\ left' = [left EXCEPT ![b] = Window - lag[q]]
    /\ admitted' = [admitted EXCEPT ![b] = 0]
    /\ CountIn(q, b, 0)
    /\ UNCHANGED <<key, pruner>>

\* Mutant: one request more than the limit.
AdmitOneMore(q) ==
    /\ pc[q] = "counted" /\ ticket[q] <= Limit + 1
    /\ admitted' = [admitted EXCEPT ![mine[q]] = @ + 1]
    /\ pc' = [pc EXCEPT ![q] = "admitted"]
    /\ UNCHANGED <<buckets, owner, count, left, key, lag, mine, ticket, pruner>>

\* b.count > requests, read after the unlock: a data race.  The read can
\* return whatever b.count has been since the request itself wrote it.
Admit(q) ==
    /\ pc[q] = "counted"
    /\ \E n \in ticket[q]..count[mine[q]] : n <= Limit
    /\ admitted' = [admitted EXCEPT ![mine[q]] = @ + 1]
    /\ pc' = [pc EXCEPT ![q] = "admitted"]
    /\ UNCHANGED <<buckets, owner, count, left, key, lag, mine, ticket, pruner>>

\* Mutant: the count must be below the limit, the request itself included.
RefuseAtLimit(q) ==
    /\ pc[q] = "counted"
    /\ \E n \in ticket[q]..count[mine[q]] : n >= Limit
    /\ pc' = [pc EXCEPT ![q] = "refused"]
    /\ UNCHANGED <<table, key, lag, mine, ticket, pruner>>

\* 429
Refuse(q) ==
    /\ pc[q] = "counted"
    /\ \E n \in ticket[q]..count[mine[q]] : n > Limit
    /\ pc' = [pc EXCEPT ![q] = "refused"]
    /\ UNCHANGED <<table, key, lag, mine, ticket, pruner>>

Return(q) ==
    /\ pc[q] \in {"admitted", "refused"}
    /\ pc' = [pc EXCEPT ![q] = "off"]
    /\ key' = [key EXCEPT ![q] = None] /\ mine' = [mine EXCEPT ![q] = None]
    /\ ticket' = [ticket EXCEPT ![q] = 0]
    /\ UNCHANGED <<table, lag, pruner>>

-----------------------------------------------------------------------------
(* The pruner *)

\* The ticker ticks, and the pruner samples `now`.
PruneStarts ==
    /\ ~pruning
    /\ pruning' = TRUE
    /\ UNCHANGED <<table, request, pruneLag>>

\* Mutant: the comparison is the wrong way round.
PruneBefore ==
    /\ pruning
    /\ buckets' = [k \in Key |->
          IF Over(buckets[k], pruneLag) THEN buckets[k] ELSE None]
    /\ pruning' = FALSE /\ pruneLag' = 0
    /\ UNCHANGED <<owner, count, left, admitted, request>>

Prune ==
    /\ pruning
    /\ buckets' = [k \in Key |->
          IF Over(buckets[k], pruneLag) THEN None ELSE buckets[k]]
    /\ pruning' = FALSE /\ pruneLag' = 0
    /\ UNCHANGED <<owner, count, left, admitted, request>>

-----------------------------------------------------------------------------
Handle(q) == CountOld(q) \/ CountNew(q) \/ Admit(q) \/ Refuse(q) \/ Return(q)

Next == \/ Time \/ PruneStarts \/ Prune
        \/ \E q \in Request : Handle(q) \/ \E k \in Key : Arrive(q, k)

Spec == Init /\ [][Next]_vars

-----------------------------------------------------------------------------
(* Properties *)

\* A bucket lets no more requests through than the limit, though the count
\* they are judged by is read without the mutex (rate_limit.go:67 and 133): the
\* count has only grown since.
WithinLimit == \A b \in Bucket : owner[b] # None => admitted[b] <= Limit

\* A key never has two windows open at once, whatever `now` the requests and
\* the pruner compare with when they get the mutex (rate_limit.go:37-39,
\* 102-104): together with WithinLimit, no more than the limit per window.
OneOpenWindow ==
    \A b, c \in Bucket : owner[b] = owner[c] /\ owner[b] # None /\ left[b] >= 0 /\ left[c] >= 0
                            => b = c

Waiting(b) == {q \in Request : mine[q] = b /\ pc[q] = "counted"}

\* As long as no more than Limit requests are in flight together, a bucket
\* refuses nobody before it has let somebody through.
FirstGetsThrough ==
    Cardinality(Request) <= Limit =>
        \A b \in Bucket : owner[b] # None /\ admitted[b] = 0 => count[b] <= Cardinality(Waiting(b))
=============================================================================
