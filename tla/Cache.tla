-------------------------------- MODULE Cache --------------------------------
(***************************************************************************)
(* cache.Cache over a MemoryStore or a RedisStore: clients (requests) that *)
(* look values up, compute and store what is missing, and invalidate keys, *)
(* while the data the values are computed from changes.                    *)
(*                                                                         *)
(* A value is the version of the data it was computed from.  A command to  *)
(* Redis is atomic; its client sends it again when the reply is lost, and  *)
(* it may have taken effect, once or more often, when an error is          *)
(* reported.  SCAN returns every key that is there from its start to its   *)
(* end, and may return any other and any key again.                        *)
(***************************************************************************)
EXTENDS Integers, FiniteSets

CONSTANTS
    Client,
    Key,
    Tag,
    TagOf,      \* TagOf[k]: the tag in the store key of k, or NoTag
    NoTag,      \* the empty tag
    None,
    Drivers,    \* the stores to model: "memory", "redis"
    MaxVersion  \* bound: how often the data of a key changes

ASSUME CacheOK ==
    /\ TagOf \in [Key -> Tag \cup {NoTag}] /\ NoTag \notin Tag
    /\ Drivers \subseteq {"memory", "redis"}
    /\ MaxVersion \in Nat

VARIABLES
    driver,     \* CACHE_DRIVER
    store,      \* store[k]: the item, or None
    truth,      \* truth[k]: the version of the data behind k
    call,       \* call[c]: the lookup or Set client c is in, or None
    scan,       \* scan[c]: the Delete or Flush of RedisStore client c is in, or None
    floor,      \* history: truth[k] when the last invalidation that succeeded began
    kept        \* history: keys that were stored and must be found

vars == <<driver, store, truth, call, scan, floor, kept>>

Version == 0..MaxVersion

\* old: its time is over, which MemoryStore sees only when it is asked for.
\* sure is history: no invalidation of the key began since fn ran.
Item == [val: Version, old: BOOLEAN, sure: BOOLEAN]

\* at: what is next; then: whether fn follows; val: what fn has computed.
Fill == [at: {"purge", "fn", "set"}, then: {"idle", "fn"}, key: Key,
         val: Version, sure: BOOLEAN]

\* goal: the keys it is about; todo: those that have still to be deleted before
\* it can succeed; base is history: truth when it began.
Scan == [goal: SUBSET Key, todo: SUBSET Key, base: [Key -> Version]]

ASSUME NoneIsNoItem == None \notin Item

TypeOK ==
    /\ driver \in Drivers
    /\ store \in [Key -> Item \cup {None}]
    /\ truth \in [Key -> Version] /\ floor \in [Key -> Version]
    /\ call \in [Client -> Fill \cup {None}]
    /\ scan \in [Client -> Scan \cup {None}]
    /\ kept \subseteq Key
    \* Only Redis is invalidated in steps, and a client is in one call.
    /\ \A c \in Client : scan[c] # None => driver = "redis" /\ call[c] = None

Init ==
    /\ driver \in Drivers
    /\ store = [k \in Key |-> None]
    /\ truth = [k \in Key |-> 0] /\ floor = [k \in Key |-> 0]
    /\ call = [c \in Client |-> None]
    /\ scan = [c \in Client |-> None]
    /\ kept = {}

Idle(c) == call[c] = None /\ scan[c] = None

Step(at, then, k) == [at |-> at, then |-> then, key |-> k, val |-> 0, sure |-> FALSE]

\* Client c is at a place of a lookup or a Set.
At(c, place) == call[c] # None /\ call[c].at = place

-----------------------------------------------------------------------------
(* Looking up *)

\* A miss ends Get; Remember and ResponseCache go on to fn or the handler.
Missed(c, k, then) ==
    call' = [call EXCEPT ![c] = IF then = "fn" THEN Step("fn", "idle", k) ELSE None]

\* Get, Remember, RememberTagged and ResponseCache ask the store for k; an item
\* that is found ends the call and changes nothing.  RedisStore answers an error
\* with a miss, and gives a page back as a string, which ResponseCache does not
\* take for one.
CallGet(c, k, then) ==
    /\ Idle(c)
    /\ IF driver = "redis" \/ store[k] = None THEN Missed(c, k, then)
       ELSE /\ store[k].old
            /\ call' = [call EXCEPT ![c] = Step("purge", then, k)]
    /\ UNCHANGED <<driver, store, truth, scan, floor, kept>>

\* MemoryStore.Get deletes what it has found old, under a lock it takes anew.
Purge(c) ==
    /\ At(c, "purge")
    /\ store' = [store EXCEPT ![call[c].key] = None]
    /\ Missed(c, call[c].key, call[c].then)
    /\ UNCHANGED <<driver, truth, scan, floor, kept>>

-----------------------------------------------------------------------------
(* Storing *)

\* Set on its own, of a value the application has.
CallSet(c, k) ==
    /\ Idle(c)
    /\ call' = [call EXCEPT ![c] = Step("fn", "idle", k)]
    /\ UNCHANGED <<driver, store, truth, scan, floor, kept>>

\* fn, or the handler, reads the data.
Compute(c) ==
    /\ At(c, "fn")
    /\ call' = [call EXCEPT ![c] =
          [@ EXCEPT !.at = "set", !.val = truth[call[c].key], !.sure = TRUE]]
    /\ UNCHANGED <<driver, store, truth, scan, floor, kept>>

\* fn returns an error, the status of the page is not 2xx, or Set fails, whose
\* error Remember and ResponseCache ignore.
NothingStored(c) ==
    /\ At(c, "fn") \/ (At(c, "set") /\ driver = "redis")
    /\ call' = [call EXCEPT ![c] = None]
    /\ UNCHANGED <<driver, store, truth, scan, floor, kept>>

\* History: somebody may yet remove k without knowing the new item.
InTheWay(k) ==
    \E c \in Client : \/ At(c, "purge") /\ call[c].key = k
                      \/ scan[c] # None /\ k \in scan[c].goal

\* The item is in the store, old or not; Redis may be sent it once more.
Stored(c, old) ==
    LET s == call[c] IN
    /\ At(c, "set")
    /\ store' = [store EXCEPT ![s.key] = [val |-> s.val, old |-> old, sure |-> s.sure]]
    /\ call' = [call EXCEPT ![c] = None] \/ (driver = "redis" /\ call' = call)
    /\ kept' = IF InTheWay(s.key) THEN kept ELSE kept \cup {s.key}
    /\ UNCHANGED <<driver, truth, scan, floor>>

\* Mutant: the time of the item that was there is kept.
StoreKeepingExp(c) ==
    Stored(c, call[c] # None /\ store[call[c].key] # None /\ store[call[c].key].old)

Store(c) == Stored(c, FALSE)

-----------------------------------------------------------------------------
(* Invalidating *)

Greater(m, n) == IF m < n THEN n ELSE m

\* History: an invalidation of the keys of S begins; a value on its way to one
\* of them may be of before.
Doubted(S) ==
    [d \in Client |-> IF At(d, "set") /\ call[d].key \in S
                      THEN [call[d] EXCEPT !.sure = FALSE] ELSE call[d]]

\* History: one that began when the data was as in b has succeeded.
Raised(S, b) == [k \in Key |-> IF k \in S THEN Greater(floor[k], b[k]) ELSE floor[k]]

\* Delete, Flush and FlushTag of MemoryStore, in one critical section.
Remove(c, S) ==
    /\ Idle(c)
    /\ store' = [k \in Key |-> IF k \in S THEN None ELSE store[k]]
    /\ call' = Doubted(S)
    /\ kept' = kept \ S
    /\ floor' = Raised(S, truth)
    /\ UNCHANGED <<driver, truth, scan>>

\* Those of RedisStore, which DEL key by key: the keys of todo at the least.
RemoveByKey(c, S, todo) ==
    /\ Idle(c)
    /\ scan' = [scan EXCEPT ![c] = [goal |-> S, todo |-> todo, base |-> truth]]
    /\ call' = Doubted(S)
    /\ kept' = kept \ S
    /\ UNCHANGED <<driver, store, truth, floor>>

CallDelete(c, k) ==
    IF driver = "memory" THEN Remove(c, {k}) ELSE RemoveByKey(c, {k}, {k})

\* Flush and FlushTag of RedisStore: SCAN, and DEL what it returns.
CallScan(c, S) == RemoveByKey(c, S, {k \in S : store[k] # None})

Wipe(c, S) == IF driver = "memory" THEN Remove(c, S) ELSE CallScan(c, S)

\* Mutant: any store is scanned.
CallFlushScanning(c) == CallScan(c, Key)

CallFlush(c) == Wipe(c, Key)

\* The empty tag stands for no key at all, and the call does nothing.
CallFlushTag(c, t) == t # NoTag /\ Wipe(c, {k \in Key : TagOf[k] = t})

\* DEL, of a key of the goal for the first time or once more.
ScanDel(c) ==
    /\ scan[c] # None
    /\ \E k \in scan[c].goal :
          /\ store' = [store EXCEPT ![k] = None]
          /\ scan' = [scan EXCEPT ![c].todo = @ \ {k}]
    /\ UNCHANGED <<driver, truth, call, floor, kept>>

\* DEL has answered; or the iterator has come to its end with no error.
ScanDone(c) ==
    /\ scan' = [scan EXCEPT ![c] = None]
    /\ floor' = Raised(scan[c].goal, scan[c].base)
    /\ UNCHANGED <<driver, store, truth, call, kept>>

\* Mutant: success is reported although a key is left.
ScanEndsEarly(c) == scan[c] # None /\ Cardinality(scan[c].todo) < 2 /\ ScanDone(c)

ScanEnds(c) == scan[c] # None /\ scan[c].todo = {} /\ ScanDone(c)

\* A SCAN or a DEL reports an error, which the caller is told: the rest of the
\* keys stay, and the one DEL was about may be gone.
ScanFails(c) ==
    /\ scan[c] # None
    /\ scan' = [scan EXCEPT ![c] = None]
    /\ UNCHANGED <<driver, store, truth, call, floor, kept>>

-----------------------------------------------------------------------------
(* The world *)

\* The data behind a key changes.
Change(k) ==
    /\ truth[k] < MaxVersion
    /\ truth' = [truth EXCEPT ![k] = @ + 1]
    /\ UNCHANGED <<driver, store, call, scan, floor, kept>>

\* The ttl of an item is over; Redis drops it of itself.
Expire(k) ==
    /\ store[k] # None /\ ~store[k].old
    /\ store' = [store EXCEPT ![k] =
          IF driver = "redis" THEN None ELSE [@ EXCEPT !.old = TRUE]]
    /\ kept' = kept \ {k}
    /\ UNCHANGED <<driver, truth, call, scan, floor>>

Next ==
    \/ \E c \in Client :
          \/ \E k \in Key : \/ \E then \in {"idle", "fn"} : CallGet(c, k, then)
                            \/ CallSet(c, k) \/ CallDelete(c, k)
          \/ \E t \in Tag \cup {NoTag} : CallFlushTag(c, t)
          \/ CallFlush(c) \/ Purge(c) \/ Compute(c) \/ NothingStored(c) \/ Store(c)
          \/ ScanDel(c) \/ ScanEnds(c) \/ ScanFails(c)
    \/ \E k \in Key : Change(k) \/ Expire(k)

Spec == Init /\ [][Next]_vars

-----------------------------------------------------------------------------
(* Properties *)

\* What is stored was computed from the data as it was when the last Delete,
\* Flush or FlushTag of its key that reported success began, or later (cache.go:
\* 29-39): an invalidation is never undone, unless fn had read the data before
\* the invalidation began and its value was stored after that (cache.go:41-51).
Fresh ==
    \A k \in Key : store[k] # None /\ store[k].sure => store[k].val >= floor[k]

\* A value that was stored is found until its ttl is over or its key is
\* invalidated, unless, when it was stored, a Get that had seen its predecessor
\* expire was still about to delete it (memory.go:29-32), or a Delete or Flush
\* over Redis was under way.
Kept ==
    \A k \in kept : store[k] # None /\ ~store[k].old
=============================================================================
