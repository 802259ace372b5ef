---------------------------- MODULE Stores_proofs ----------------------------
(***************************************************************************)
(* The two packages that keep values under keys for requests that overlap. *)
(*                                                                         *)
(* The cache, for any number of clients, keys, tags and changes, over      *)
(* either store: its state is well typed, an invalidation that succeeded   *)
(* is not undone, and what was stored is not lost.                         *)
(*                                                                         *)
(* Sessions, for any number of ids, users, messages and requests: the      *)
(* state is well typed, a session id gets a user only when Login issues    *)
(* it, and requests in a row see each other's changes.                     *)
(***************************************************************************)
EXTENDS Cache, MCSession, TLAPS

-----------------------------------------------------------------------------
(* Types *)

LEMMA ItemType ==
    ASSUME NEW v \in Version, NEW o \in BOOLEAN, NEW s \in BOOLEAN
    PROVE  [val |-> v, old |-> o, sure |-> s] \in Item
  BY DEF Item

LEMMA StepType ==
    ASSUME NEW p \in {"purge", "fn", "set"}, NEW then \in {"idle", "fn"}, NEW k \in Key
    PROVE  Step(p, then, k) \in Fill
  BY CacheOK DEF Step, Fill, Version

LEMMA DoubtedType ==
    ASSUME TypeOK, NEW S \in SUBSET Key
    PROVE  /\ Doubted(S) \in [Client -> Fill \cup {None}]
           /\ \A c \in Client : call[c] = None => Doubted(S)[c] = None
  <1>1. ASSUME NEW c \in Client, At(c, "set")
        PROVE  [call[c] EXCEPT !.sure = FALSE] \in Fill
    <2>1. call[c] \in Fill
      BY <1>1 DEF At, TypeOK
    <2> QED
      BY <2>1 DEF Fill
  <1> QED
    BY <1>1, SMTT(30) DEF Doubted, At, TypeOK

LEMMA RaisedType ==
    ASSUME TypeOK, NEW S \in SUBSET Key, NEW b \in [Key -> Version]
    PROVE  Raised(S, b) \in [Key -> Version]
  BY DEF Raised, Greater, TypeOK

LEMMA RemoveType == ASSUME TypeOK, NEW c \in Client, NEW S \in SUBSET Key, Remove(c, S)
                    PROVE  TypeOK'
  <1>1. call' \in [Client -> Fill \cup {None}] /\ floor' \in [Key -> Version]
    BY DoubtedType, RaisedType DEF Remove, TypeOK
  <1>2. store' \in [Key -> Item \cup {None}] /\ kept' \subseteq Key
    BY DEF Remove, TypeOK
  <1>3. \A d \in Client : scan'[d] # None => driver' = "redis" /\ call'[d] = None
    BY DoubtedType DEF Remove, TypeOK
  <1> QED
    BY <1>1, <1>2, <1>3 DEF Remove, TypeOK

LEMMA ByKeyType ==
    ASSUME TypeOK, NEW c \in Client, NEW S \in SUBSET Key, NEW T \in SUBSET Key,
           RemoveByKey(c, S, T), driver = "redis"
    PROVE  TypeOK'
  <1>1. [goal |-> S, todo |-> T, base |-> truth] \in Scan
    BY DEF Scan, TypeOK
  <1>2. scan' \in [Client -> Scan \cup {None}]
    BY <1>1 DEF RemoveByKey, TypeOK
  <1>3. call' \in [Client -> Fill \cup {None}]
    BY DoubtedType DEF RemoveByKey
  <1>4. \A d \in Client : scan'[d] # None => call'[d] = None
    BY DoubtedType DEF RemoveByKey, Idle, TypeOK
  <1> QED
    BY <1>2, <1>3, <1>4 DEF RemoveByKey, TypeOK

\* Flush or FlushTag of either store.
LEMMA WipeType == ASSUME TypeOK, NEW c \in Client, NEW S \in SUBSET Key, Wipe(c, S)
                  PROVE  TypeOK'
  <1>1. driver = "memory" \/ driver = "redis"
    BY CacheOK DEF TypeOK
  <1>2. {k \in S : store[k] # None} \in SUBSET Key
    OBVIOUS
  <1> QED
    BY <1>1, <1>2, RemoveType, ByKeyType DEF Wipe, CallScan

LEMMA TypeInit == Init => TypeOK
  BY CacheOK DEF Init, TypeOK, Version

LEMMA TypeStep == TypeOK /\ [Next]_vars => TypeOK'
  <1> SUFFICES ASSUME TypeOK, [Next]_vars PROVE TypeOK'
    OBVIOUS
  <1>1. ASSUME NEW c \in Client, NEW k \in Key, NEW then \in {"idle", "fn"}, CallGet(c, k, then)
        PROVE  TypeOK'
    <2>1. Step("fn", "idle", k) \in Fill /\ Step("purge", then, k) \in Fill
      BY StepType
    <2> QED
      BY <1>1, <2>1 DEF CallGet, Missed, Idle, TypeOK
  <1>2. ASSUME NEW c \in Client, NEW k \in Key, CallSet(c, k) PROVE TypeOK'
    <2>1. Step("fn", "idle", k) \in Fill
      BY StepType
    <2> QED
      BY <1>2, <2>1 DEF CallSet, Idle, TypeOK
  <1>3. ASSUME NEW c \in Client, NEW k \in Key, CallDelete(c, k) PROVE TypeOK'
    <2>1. driver = "memory" \/ driver = "redis"
      BY CacheOK DEF TypeOK
    <2> QED
      BY <1>3, <2>1, RemoveType, ByKeyType DEF CallDelete
  <1>4. ASSUME NEW c \in Client, NEW t \in Tag \cup {NoTag}, CallFlushTag(c, t) PROVE TypeOK'
    BY <1>4, WipeType DEF CallFlushTag
  <1>5. ASSUME NEW c \in Client, CallFlush(c) PROVE TypeOK'
    BY <1>5, WipeType DEF CallFlush
  <1>6. ASSUME NEW c \in Client, Purge(c) PROVE TypeOK'
    <2>1. call[c].key \in Key
      BY <1>6 DEF Purge, At, TypeOK, Fill
    <2>2. Step("fn", "idle", call[c].key) \in Fill
      BY <2>1, StepType
    <2> QED
      BY <1>6, <2>1, <2>2 DEF Purge, Missed, At, TypeOK
  <1>7. ASSUME NEW c \in Client, Compute(c) PROVE TypeOK'
    <2>1. call[c] \in Fill /\ call[c].key \in Key
      BY <1>7 DEF Compute, At, TypeOK, Fill
    <2>2. [call[c] EXCEPT !.at = "set", !.val = truth[call[c].key], !.sure = TRUE] \in Fill
      BY <2>1 DEF Fill, TypeOK
    <2> QED
      BY <1>7, <2>2 DEF Compute, At, TypeOK
  <1>8. ASSUME NEW c \in Client, NothingStored(c) PROVE TypeOK'
    BY <1>8 DEF NothingStored, TypeOK
  <1>9. ASSUME NEW c \in Client, Store(c) PROVE TypeOK'
    <2>1. call[c].key \in Key /\ call[c].val \in Version /\ call[c].sure \in BOOLEAN
      BY <1>9 DEF Store, Stored, At, TypeOK, Fill
    <2>2. [val |-> call[c].val, old |-> FALSE, sure |-> call[c].sure] \in Item
      BY <2>1, ItemType
    <2> QED
      BY <1>9, <2>1, <2>2 DEF Store, Stored, TypeOK
  <1>10. ASSUME NEW c \in Client, ScanDel(c) PROVE TypeOK'
    <2>1. PICK k \in scan[c].goal : /\ store' = [store EXCEPT ![k] = None]
                                    /\ scan' = [scan EXCEPT ![c].todo = @ \ {k}]
      BY <1>10 DEF ScanDel
    <2>2. scan[c] \in Scan /\ scan[c] # None
      BY <1>10 DEF ScanDel, TypeOK
    <2>3. [scan[c] EXCEPT !.todo = scan[c].todo \ {k}] \in Scan
      BY <2>2 DEF Scan
    <2>4. scan' \in [Client -> Scan \cup {None}]
      BY <2>1, <2>3 DEF TypeOK
    <2>5. store' \in [Key -> Item \cup {None}]
      BY <2>1 DEF TypeOK
    <2>6. \A d \in Client : scan'[d] # None => driver' = "redis" /\ call'[d] = None
      BY <1>10, <2>1, <2>2 DEF ScanDel, TypeOK
    <2> QED
      BY <1>10, <2>4, <2>5, <2>6 DEF ScanDel, TypeOK
  <1>11. ASSUME NEW c \in Client, ScanEnds(c) PROVE TypeOK'
    <2>1. scan[c].goal \in SUBSET Key /\ scan[c].base \in [Key -> Version]
      BY <1>11 DEF ScanEnds, TypeOK, Scan
    <2>2. floor' \in [Key -> Version]
      BY <1>11, <2>1, RaisedType DEF ScanEnds, ScanDone
    <2> QED
      BY <1>11, <2>2 DEF ScanEnds, ScanDone, TypeOK
  <1>12. ASSUME NEW c \in Client, ScanFails(c) PROVE TypeOK'
    BY <1>12 DEF ScanFails, TypeOK
  <1>13. ASSUME NEW k \in Key, Change(k) PROVE TypeOK'
    BY <1>13, CacheOK DEF Change, TypeOK, Version
  <1>14. ASSUME NEW k \in Key, Expire(k) PROVE TypeOK'
    <2>1. [store[k] EXCEPT !.old = TRUE] \in Item
      BY <1>14 DEF Expire, TypeOK, Item
    <2> QED
      BY <1>14, <2>1 DEF Expire, TypeOK
  <1>15. CASE UNCHANGED vars
    BY <1>15 DEF vars, TypeOK
  <1> QED
    BY <1>1, <1>2, <1>3, <1>4, <1>5, <1>6, <1>7, <1>8, <1>9, <1>10, <1>11, <1>12, <1>13,
       <1>14,
       <1>15 DEF Next

\* The state of the cache and of its clients' calls is well typed, with any
\* number of clients and keys (cache.go, memory.go, redis.go).
THEOREM TypeCorrect == Spec => []TypeOK
  BY TypeInit, TypeStep, PTL DEF Spec

-----------------------------------------------------------------------------
(* Fresh *)

\* No history is ahead of the data.
Behind ==
    /\ \A k \in Key : floor[k] <= truth[k]
    /\ \A c \in Client : scan[c] # None => \A k \in Key : scan[c].base[k] <= truth[k]

\* A value on its way to the store is newer than every invalidation of its key
\* that has succeeded, and than every one under way that might.
OnItsWay ==
    \A c \in Client : At(c, "set") /\ call[c].sure =>
        /\ call[c].val >= floor[call[c].key]
        /\ \A d \in Client : scan[d] # None /\ call[c].key \in scan[d].goal =>
              call[c].val >= scan[d].base[call[c].key]

\* A stored value is newer than every Flush that has passed its key.
Passed ==
    \A k \in Key : store[k] # None /\ store[k].sure =>
        \A d \in Client : scan[d] # None /\ k \in scan[d].goal \ scan[d].todo =>
            store[k].val >= scan[d].base[k]

FreshInv == Behind /\ OnItsWay /\ Passed /\ Fresh

LEMMA FreshInit == Init => FreshInv
  BY CacheOK DEF Init, FreshInv, Behind, OnItsWay, Passed, Fresh, At, Version

\* A step after which every call that is about to store was about to before, and
\* no more sure than then, and every item is one that was there.
Calmer ==
    /\ \A c \in Client : At(c, "set")' /\ call'[c].sure =>
          At(c, "set") /\ call[c].sure /\ call'[c].key = call[c].key /\ call'[c].val = call[c].val
    /\ \A k \in Key : store'[k] # None /\ store'[k].sure =>
          store[k] # None /\ store[k].sure /\ store'[k].val = store[k].val

LEMMA CalmerStep ==
    ASSUME FreshInv, Calmer, UNCHANGED <<truth, scan, floor>>
    PROVE  FreshInv'
  BY DEF FreshInv, Behind, OnItsWay, Passed, Fresh, Calmer, At

\* What the keys of S lose when an invalidation of them begins.
LEMMA DoubtedAt ==
    ASSUME TypeOK, NEW S \in SUBSET Key, call' = Doubted(S), NEW c \in Client,
           At(c, "set")', call'[c].sure
    PROVE  /\ At(c, "set") /\ call[c].sure /\ call'[c].key = call[c].key
           /\ call'[c].val = call[c].val /\ call[c].key \notin S
  <1>1. CASE At(c, "set") /\ call[c].key \in S
    <2>1. call'[c] = [call[c] EXCEPT !.sure = FALSE]
      BY <1>1 DEF Doubted
    <2>2. call[c] \in Fill
      BY <1>1 DEF At, TypeOK
    <2> QED
      BY <2>1, <2>2 DEF Fill
  <1>2. CASE ~(At(c, "set") /\ call[c].key \in S)
    <2>1. call'[c] = call[c]
      BY <1>2 DEF Doubted
    <2> QED
      BY <1>2, <2>1 DEF At
  <1> QED
    BY <1>1, <1>2

LEMMA RemoveFresh ==
    ASSUME TypeOK, FreshInv, NEW c \in Client, NEW S \in SUBSET Key, Remove(c, S)
    PROVE  FreshInv'
  <1>1. \A k \in Key : floor'[k] = IF k \in S THEN Greater(floor[k], truth[k]) ELSE floor[k]
    BY DEF Remove, Raised
  <1>2. \A k \in Key : floor[k] \in Int /\ truth[k] \in Int
    BY CacheOK DEF TypeOK, Version
  <1>3. Behind'
    BY <1>1, <1>2 DEF Behind, FreshInv, Remove, Greater
  <1>4. OnItsWay'
    <2> SUFFICES ASSUME NEW d \in Client, At(d, "set")', call'[d].sure
                 PROVE  /\ call'[d].val >= floor'[call'[d].key]
                        /\ \A e \in Client : scan'[e] # None /\ call'[d].key \in scan'[e].goal =>
                              call'[d].val >= scan'[e].base[call'[d].key]
      BY DEF OnItsWay
    <2>1. /\ At(d, "set") /\ call[d].sure /\ call'[d].key = call[d].key
          /\ call'[d].val = call[d].val /\ call[d].key \notin S
      BY DoubtedAt DEF Remove
    <2>2. call[d].key \in Key
      BY <2>1 DEF At, TypeOK, Fill
    <2> QED
      BY <1>1, <2>1, <2>2 DEF FreshInv, OnItsWay, Remove
  <1>5. Passed' /\ Fresh'
    BY <1>1 DEF FreshInv, Passed, Fresh, Remove
  <1> QED
    BY <1>3, <1>4, <1>5 DEF FreshInv

\* What is not to be deleted is not there.
LEMMA ByKeyFresh ==
    ASSUME TypeOK, FreshInv, NEW c \in Client, NEW S \in SUBSET Key, NEW T,
           RemoveByKey(c, S, T), \A k \in S \ T : store[k] = None
    PROVE  FreshInv'
  <1>1. /\ scan'[c] = [goal |-> S, todo |-> T, base |-> truth]
        /\ \A d \in Client \ {c} : scan'[d] = scan[d]
    BY DEF RemoveByKey, TypeOK
  <1>2. \A k \in Key : truth[k] \in Int
    BY CacheOK DEF TypeOK, Version
  <1>3. Behind'
    BY <1>1, <1>2 DEF Behind, FreshInv, RemoveByKey
  <1>4. OnItsWay'
    <2> SUFFICES ASSUME NEW d \in Client, At(d, "set")', call'[d].sure
                 PROVE  /\ call'[d].val >= floor'[call'[d].key]
                        /\ \A e \in Client : scan'[e] # None /\ call'[d].key \in scan'[e].goal =>
                              call'[d].val >= scan'[e].base[call'[d].key]
      BY DEF OnItsWay
    <2>1. /\ At(d, "set") /\ call[d].sure /\ call'[d].key = call[d].key
          /\ call'[d].val = call[d].val /\ call[d].key \notin S
      BY DoubtedAt DEF RemoveByKey
    <2> QED
      BY <1>1, <2>1 DEF FreshInv, OnItsWay, RemoveByKey
  <1>5. Passed' /\ Fresh'
    BY <1>1 DEF FreshInv, Passed, Fresh, RemoveByKey
  <1> QED
    BY <1>3, <1>4, <1>5 DEF FreshInv

LEMMA WipeFresh ==
    ASSUME TypeOK, FreshInv, NEW c \in Client, NEW S \in SUBSET Key, Wipe(c, S)
    PROVE  FreshInv'
  BY RemoveFresh, ByKeyFresh DEF Wipe, CallScan

LEMMA FreshStep == TypeOK /\ FreshInv /\ [Next]_vars => FreshInv'
  <1> SUFFICES ASSUME TypeOK, FreshInv, [Next]_vars PROVE FreshInv'
    OBVIOUS
  <1>1. ASSUME NEW c \in Client, NEW k \in Key, NEW then \in {"idle", "fn"}, CallGet(c, k, then)
        PROVE  FreshInv'
    BY <1>1, CalmerStep DEF CallGet, Missed, Calmer, At, Step, TypeOK
  <1>2. ASSUME NEW c \in Client, NEW k \in Key, CallSet(c, k) PROVE FreshInv'
    BY <1>2, CalmerStep DEF CallSet, Calmer, At, Step, TypeOK
  <1>3. ASSUME NEW c \in Client, NEW k \in Key, CallDelete(c, k) PROVE FreshInv'
    BY <1>3, RemoveFresh, ByKeyFresh DEF CallDelete
  <1>4. ASSUME NEW c \in Client, NEW t \in Tag \cup {NoTag}, CallFlushTag(c, t) PROVE FreshInv'
    BY <1>4, WipeFresh DEF CallFlushTag
  <1>5. ASSUME NEW c \in Client, CallFlush(c) PROVE FreshInv'
    BY <1>5, WipeFresh DEF CallFlush
  <1>6. ASSUME NEW c \in Client, Purge(c) PROVE FreshInv'
    BY <1>6, CalmerStep DEF Purge, Missed, Calmer, At, Step, TypeOK
  <1>7. ASSUME NEW c \in Client, Compute(c) PROVE FreshInv'
    <2>1. call[c] \in Fill /\ call[c].key \in Key
      BY <1>7 DEF Compute, At, TypeOK, Fill
    <2>2. /\ call'[c].key = call[c].key /\ call'[c].val = truth[call[c].key]
          /\ \A d \in Client \ {c} : call'[d] = call[d]
      BY <1>7, <2>1 DEF Compute, TypeOK, Fill
    <2>3. \A k \in Key : floor[k] \in Int /\ truth[k] \in Int
      BY CacheOK DEF TypeOK, Version
    <2>4. \A d \in Client : scan[d] # None => \A k \in Key : scan[d].base[k] \in Int
      BY CacheOK DEF TypeOK, Scan, Version
    <2>5. OnItsWay'
      BY <1>7, <2>1, <2>2, <2>3, <2>4 DEF Compute, FreshInv, OnItsWay, Behind, At
    <2> QED
      BY <1>7, <2>5 DEF Compute, FreshInv, Behind, Passed, Fresh
  <1>8. ASSUME NEW c \in Client, NothingStored(c) PROVE FreshInv'
    BY <1>8, CalmerStep DEF NothingStored, Calmer, At, TypeOK
  <1>9. ASSUME NEW c \in Client, Store(c) PROVE FreshInv'
    <2>1. call[c].key \in Key
      BY <1>9 DEF Store, Stored, At, TypeOK, Fill
    <2>2. /\ store'[call[c].key] = [val |-> call[c].val, old |-> FALSE, sure |-> call[c].sure]
          /\ \A k \in Key \ {call[c].key} : store'[k] = store[k]
      BY <1>9, <2>1 DEF Store, Stored, TypeOK
    <2>3. \A d \in Client : At(d, "set")' => At(d, "set") /\ call'[d] = call[d]
      BY <1>9 DEF Store, Stored, At, TypeOK
    <2>4. OnItsWay' /\ Behind'
      BY <1>9, <2>3 DEF Store, Stored, FreshInv, OnItsWay, Behind
    <2>5. Passed' /\ Fresh'
      BY <1>9, <2>1, <2>2 DEF Store, Stored, FreshInv, OnItsWay, Passed, Fresh
    <2> QED
      BY <2>4, <2>5 DEF FreshInv
  <1>10. ASSUME NEW c \in Client, ScanDel(c) PROVE FreshInv'
    <2>1. PICK k \in scan[c].goal : /\ store' = [store EXCEPT ![k] = None]
                                    /\ scan' = [scan EXCEPT ![c].todo = @ \ {k}]
      BY <1>10 DEF ScanDel
    <2>2. scan[c] \in Scan /\ scan[c] # None
      BY <1>10 DEF ScanDel, TypeOK
    <2>3. /\ scan'[c].goal = scan[c].goal /\ scan'[c].base = scan[c].base
          /\ scan'[c].todo = scan[c].todo \ {k}
          /\ \A d \in Client \ {c} : scan'[d] = scan[d]
      BY <2>1, <2>2 DEF Scan, TypeOK
    <2>4. k \in Key /\ store'[k] = None /\ \A j \in Key \ {k} : store'[j] = store[j]
      BY <2>1, <2>2 DEF Scan, TypeOK
    <2>5. Behind' /\ OnItsWay'
      BY <1>10, <2>2, <2>3 DEF ScanDel, FreshInv, Behind, OnItsWay, At
    <2>6. Passed' /\ Fresh'
      BY <1>10, <2>2, <2>3, <2>4 DEF ScanDel, FreshInv, Passed, Fresh
    <2> QED
      BY <2>5, <2>6 DEF FreshInv
  <1>11. ASSUME NEW c \in Client, ScanEnds(c) PROVE FreshInv'
    <2>1. /\ \A k \in Key : floor'[k] = IF k \in scan[c].goal
                                       THEN Greater(floor[k], scan[c].base[k]) ELSE floor[k]
          /\ scan[c] # None /\ scan[c].todo = {}
      BY <1>11 DEF ScanEnds, ScanDone, Raised
    <2>2. \A k \in Key : floor[k] \in Int /\ truth[k] \in Int /\ scan[c].base[k] \in Int
      BY <2>1, CacheOK DEF TypeOK, Scan, Version
    <2>3. \A d \in Client : scan'[d] # None => scan[d] # None /\ scan'[d] = scan[d]
      BY <1>11 DEF ScanEnds, ScanDone, TypeOK
    <2>4. \A d \in Client : At(d, "set") => call[d].key \in Key
      BY DEF At, TypeOK, Fill
    <2>5. Behind'
      BY <1>11, <2>1, <2>2, <2>3 DEF ScanEnds, ScanDone, FreshInv, Behind, Greater
    <2>6. OnItsWay'
      BY <1>11, <2>1, <2>3, <2>4 DEF ScanEnds, ScanDone, FreshInv, OnItsWay, Greater, At
    <2>7. Passed' /\ Fresh'
      BY <1>11, <2>1, <2>3 DEF ScanEnds, ScanDone, FreshInv, Passed, Fresh, Greater
    <2> QED
      BY <2>5, <2>6, <2>7 DEF FreshInv
  <1>12. ASSUME NEW c \in Client, ScanFails(c) PROVE FreshInv'
    <2>1. \A d \in Client : scan'[d] # None => scan[d] # None /\ scan'[d] = scan[d]
      BY <1>12 DEF ScanFails, TypeOK
    <2> QED
      BY <1>12, <2>1 DEF ScanFails, FreshInv, Behind, OnItsWay, Passed, Fresh, At
  <1>13. ASSUME NEW k \in Key, Change(k) PROVE FreshInv'
    <2>1. \A j \in Key : floor[j] \in Int /\ truth[j] \in Int /\ truth'[j] >= truth[j]
                        /\ truth'[j] \in Int
      BY <1>13, CacheOK DEF Change, TypeOK, Version
    <2>2. \A d \in Client : scan[d] # None => \A j \in Key : scan[d].base[j] \in Int
      BY CacheOK DEF TypeOK, Scan, Version
    <2>3. Behind'
      BY <1>13, <2>1, <2>2 DEF Change, FreshInv, Behind
    <2> QED
      BY <1>13, <2>3 DEF Change, FreshInv, OnItsWay, Passed, Fresh, At
  <1>14. ASSUME NEW k \in Key, Expire(k) PROVE FreshInv'
    <2>1. store[k] \in Item
      BY <1>14 DEF Expire, TypeOK
    <2> QED
      BY <1>14, <2>1, CalmerStep DEF Expire, Calmer, At, TypeOK, Item
  <1>15. CASE UNCHANGED vars
    BY <1>15 DEF vars, FreshInv, Behind, OnItsWay, Passed, Fresh, At
  <1> QED
    BY <1>1, <1>2, <1>3, <1>4, <1>5, <1>6, <1>7, <1>8, <1>9, <1>10, <1>11, <1>12, <1>13,
       <1>14,
       <1>15 DEF Next

\* No value that was computed before a Delete, Flush or FlushTag of its key began
\* is in the store after it has succeeded, unless it was stored after the call
\* began; with any number of clients, over either store (cache.go:29-60).
THEOREM InvalidationHolds == Spec => []Fresh
  <1>1. FreshInv => Fresh
    BY DEF FreshInv
  <1> QED
    BY <1>1, TypeInit, TypeStep, FreshInit, FreshStep, PTL DEF Spec

-----------------------------------------------------------------------------
(* Kept *)

\* A key that must be found is in nobody's way.
KeptInv == Kept /\ \A k \in kept : ~InTheWay(k)

LEMMA KeptInit == Init => KeptInv
  BY DEF Init, KeptInv, Kept

\* A step that puts nobody else in the way and leaves the items that are kept.
Gentle ==
    /\ kept' \subseteq kept
    /\ \A k \in kept' : (InTheWay(k)' => InTheWay(k)) /\ store'[k] = store[k]

LEMMA GentleStep == ASSUME KeptInv, Gentle PROVE KeptInv'
  BY DEF KeptInv, Kept, Gentle

LEMMA DoubtedPurge ==
    ASSUME TypeOK, NEW S \in SUBSET Key, NEW c \in Client, call' = Doubted(S), At(c, "purge")'
    PROVE  At(c, "purge") /\ call'[c] = call[c]
  <1>1. ASSUME At(c, "set") PROVE FALSE
    <2>1. call[c] \in Fill /\ call[c].at = "set"
      BY <1>1 DEF At, TypeOK
    <2>2. [call[c] EXCEPT !.sure = FALSE].at = "set"
      BY <2>1 DEF Fill
    <2>3. call'[c].at = "set"
      BY <1>1, <2>1, <2>2 DEF Doubted
    <2> QED
      BY <2>3 DEF At
  <1> QED
    BY <1>1 DEF Doubted, At

LEMMA RemoveKept ==
    ASSUME TypeOK, KeptInv, NEW c \in Client, NEW S \in SUBSET Key, Remove(c, S)
    PROVE  KeptInv'
  <1>1. \A k \in Key : InTheWay(k)' => InTheWay(k)
    BY DoubtedPurge DEF Remove, InTheWay
  <1>2. kept' = kept \ S /\ kept \subseteq Key /\ \A k \in kept' : store'[k] = store[k]
    BY DEF Remove, TypeOK
  <1> QED
    BY <1>1, <1>2, GentleStep DEF Gentle

LEMMA ByKeyKept ==
    ASSUME TypeOK, KeptInv, NEW c \in Client, NEW S \in SUBSET Key, NEW T,
           RemoveByKey(c, S, T)
    PROVE  KeptInv'
  <1>1. scan'[c].goal = S /\ \A d \in Client \ {c} : scan'[d] = scan[d]
    BY DEF RemoveByKey, TypeOK
  <1>2. \A k \in Key \ S : InTheWay(k)' => InTheWay(k)
    BY <1>1, DoubtedPurge DEF RemoveByKey, InTheWay
  <1>3. kept' = kept \ S /\ kept \subseteq Key /\ store' = store
    BY DEF RemoveByKey, TypeOK
  <1> QED
    BY <1>2, <1>3, GentleStep DEF Gentle

LEMMA WipeKept ==
    ASSUME TypeOK, KeptInv, NEW c \in Client, NEW S \in SUBSET Key, Wipe(c, S)
    PROVE  KeptInv'
  BY RemoveKept, ByKeyKept DEF Wipe, CallScan

\* A step of client c that leaves the scans alone and after which c is not about
\* to delete.
LEMMA NoPurge ==
    ASSUME TypeOK, NEW c \in Client, NEW s, call' = [call EXCEPT ![c] = s],
           s = None \/ s.at # "purge", scan' = scan, NEW k
    PROVE  InTheWay(k)' => InTheWay(k)
  BY DEF InTheWay, At, TypeOK

LEMMA KeptStep == TypeOK /\ KeptInv /\ [Next]_vars => KeptInv'
  <1> SUFFICES ASSUME TypeOK, KeptInv, [Next]_vars PROVE KeptInv'
    OBVIOUS
  <1>1. ASSUME NEW c \in Client, NEW k \in Key, NEW then \in {"idle", "fn"}, CallGet(c, k, then)
        PROVE  KeptInv'
    <2>1. CASE Missed(c, k, then) /\ UNCHANGED <<store, scan, kept>>
      BY <2>1, NoPurge, GentleStep DEF Missed, Step, Gentle
    <2>2. CASE /\ store[k] # None /\ store[k].old /\ UNCHANGED <<store, scan, kept>>
               /\ call' = [call EXCEPT ![c] = Step("purge", then, k)]
      <3>1. k \notin kept
        BY <2>2 DEF KeptInv, Kept
      <3>2. \A j \in Key \ {k} : InTheWay(j)' => InTheWay(j)
        BY <2>2 DEF InTheWay, At, Step, TypeOK
      <3> QED
        BY <2>2, <3>1, <3>2, GentleStep DEF Gentle, TypeOK
    <2> QED
      BY <1>1, <2>1, <2>2 DEF CallGet
  <1>2. ASSUME NEW c \in Client, NEW k \in Key, CallSet(c, k) PROVE KeptInv'
    BY <1>2, NoPurge, GentleStep DEF CallSet, Step, Gentle
  <1>3. ASSUME NEW c \in Client, NEW k \in Key, CallDelete(c, k) PROVE KeptInv'
    BY <1>3, RemoveKept, ByKeyKept DEF CallDelete
  <1>4. ASSUME NEW c \in Client, NEW t \in Tag \cup {NoTag}, CallFlushTag(c, t) PROVE KeptInv'
    BY <1>4, WipeKept DEF CallFlushTag
  <1>5. ASSUME NEW c \in Client, CallFlush(c) PROVE KeptInv'
    BY <1>5, WipeKept DEF CallFlush
  <1>6. ASSUME NEW c \in Client, Purge(c) PROVE KeptInv'
    <2>1. call[c].key \notin kept
      BY <1>6 DEF Purge, KeptInv, InTheWay
    <2>2. \A k \in Key : InTheWay(k)' => InTheWay(k)
      BY <1>6, NoPurge DEF Purge, Missed, Step
    <2> QED
      BY <1>6, <2>1, <2>2, GentleStep DEF Purge, Gentle, TypeOK
  <1>7. ASSUME NEW c \in Client, Compute(c) PROVE KeptInv'
    <2>1. [call[c] EXCEPT !.at = "set", !.val = truth[call[c].key], !.sure = TRUE].at # "purge"
      BY <1>7 DEF Compute, At, TypeOK, Fill
    <2> QED
      BY <1>7, <2>1, NoPurge, GentleStep DEF Compute, Gentle
  <1>8. ASSUME NEW c \in Client, NothingStored(c) PROVE KeptInv'
    BY <1>8, NoPurge, GentleStep DEF NothingStored, Gentle
  <1>9. ASSUME NEW c \in Client, Store(c) PROVE KeptInv'
    <2>1. \A k \in Key : InTheWay(k)' => InTheWay(k)
      <3>1. CASE call' = call
        BY <1>9, <3>1 DEF Store, Stored, InTheWay, At
      <3>2. CASE call' = [call EXCEPT ![c] = None]
        BY <1>9, <3>2, NoPurge DEF Store, Stored
      <3> QED
        BY <1>9, <3>1, <3>2 DEF Store, Stored
    <2>2. call[c].key \in Key
      BY <1>9 DEF Store, Stored, At, TypeOK, Fill
    <2>3. [val |-> call[c].val, old |-> FALSE, sure |-> call[c].sure] # None
      <3>1. call[c].val \in Version /\ call[c].sure \in BOOLEAN
        BY <1>9 DEF Store, Stored, At, TypeOK, Fill
      <3> QED
        BY <3>1, ItemType, NoneIsNoItem
    <2>4. store'[call[c].key] # None /\ ~store'[call[c].key].old
      BY <1>9, <2>2, <2>3 DEF Store, Stored, TypeOK
    <2>5. \A k \in Key \ {call[c].key} : store'[k] = store[k]
      BY <1>9, <2>2 DEF Store, Stored, TypeOK
    <2>6. \A k \in kept' : k \in kept \/ (k = call[c].key /\ ~InTheWay(k))
      BY <1>9 DEF Store, Stored
    <2> QED
      BY <2>1, <2>2, <2>4, <2>5, <2>6 DEF KeptInv, Kept, TypeOK
  <1>10. ASSUME NEW c \in Client, ScanDel(c) PROVE KeptInv'
    <2>1. PICK k \in scan[c].goal : /\ store' = [store EXCEPT ![k] = None]
                                    /\ scan' = [scan EXCEPT ![c].todo = @ \ {k}]
      BY <1>10 DEF ScanDel
    <2>2. scan[c] \in Scan /\ scan[c] # None
      BY <1>10 DEF ScanDel, TypeOK
    <2>3. scan'[c].goal = scan[c].goal /\ \A d \in Client \ {c} : scan'[d] = scan[d]
      BY <2>1, <2>2 DEF Scan, TypeOK
    <2>4. k \notin kept
      BY <2>2 DEF KeptInv, InTheWay
    <2>5. \A j \in Key : InTheWay(j)' => InTheWay(j)
      BY <1>10, <2>2, <2>3 DEF ScanDel, InTheWay, At
    <2> QED
      BY <1>10, <2>1, <2>4, <2>5, GentleStep DEF ScanDel, Gentle, TypeOK
  <1>11. ASSUME NEW c \in Client, ScanEnds(c) PROVE KeptInv'
    <2>1. \A k \in Key : InTheWay(k)' => InTheWay(k)
      BY <1>11 DEF ScanEnds, ScanDone, InTheWay, At, TypeOK
    <2> QED
      BY <1>11, <2>1, GentleStep DEF ScanEnds, ScanDone, Gentle, TypeOK
  <1>12. ASSUME NEW c \in Client, ScanFails(c) PROVE KeptInv'
    <2>1. \A k \in Key : InTheWay(k)' => InTheWay(k)
      BY <1>12 DEF ScanFails, InTheWay, At, TypeOK
    <2> QED
      BY <1>12, <2>1, GentleStep DEF ScanFails, Gentle, TypeOK
  <1>13. ASSUME NEW k \in Key, Change(k) PROVE KeptInv'
    BY <1>13 DEF Change, KeptInv, Kept, InTheWay, At
  <1>14. ASSUME NEW k \in Key, Expire(k) PROVE KeptInv'
    <2>1. \A j \in Key : InTheWay(j)' => InTheWay(j)
      BY <1>14 DEF Expire, InTheWay, At
    <2> QED
      BY <1>14, <2>1, GentleStep DEF Expire, Gentle, TypeOK
  <1>15. CASE UNCHANGED vars
    BY <1>15 DEF vars, KeptInv, Kept, InTheWay, At
  <1> QED
    BY <1>1, <1>2, <1>3, <1>4, <1>5, <1>6, <1>7, <1>8, <1>9, <1>10, <1>11, <1>12, <1>13,
       <1>14,
       <1>15 DEF Next

\* A stored value is found until its time is over or its key is invalidated, if
\* no Get was about to delete its predecessor and no Flush was under way when it
\* was stored; with any number of clients, over either store (memory.go:22-45).
THEOREM StoredIsKept == Spec => []Kept
  <1>1. KeptInv => Kept
    BY DEF KeptInv
  <1> QED
    BY <1>1, TypeInit, TypeStep, KeptInit, KeptStep, PTL DEF Spec

-----------------------------------------------------------------------------
(* Sessions *)

\* A session value as load, newSession and the handlers make it.
Sess == [id : Id \cup {Nobody}, values : Sessions!Values, changed : BOOLEAN,
         destroyed : BOOLEAN, newID : BOOLEAN]

LEMMA SessionOfType ==
    ASSUME NEW id \in Id \cup {Nobody}, NEW v \in Sessions!Values, NEW new \in BOOLEAN
    PROVE  /\ Sessions!SessionOf(id, v, new) \in Sess
           /\ Sessions!SessionOf(id, v, new).id = id
           /\ Sessions!SessionOf(id, v, new).values = v
  BY DEF Sessions!SessionOf, Sess

LEMMA EmptyType == Sessions!Empty \in Sessions!Values /\ Sessions!NoSession \in Sess
  BY DEF Sessions!Empty, Sessions!Values, Sessions!NoSession, Sessions!SessionOf, Sess

LEMMA SessionTypeInit == Sessions!Init => Sessions!TypeOK
  BY EmptyType, SMT DEF Sessions!Init, Sessions!TypeOK, Sessions!Phase, Sess

\* A step that only takes request r into the server, with a session of its own.
LEMMA EnterType ==
    ASSUME Sessions!TypeOK, NEW r \in Request, NEW s \in Sess,
           s.id \in issued', issued \subseteq issued', issued' \subseteq Id,
           Sessions!Enter(r, s)
    PROVE  Sessions!TypeOK'
  <1>1. s.values \in Sessions!Values /\ s.values.flash \in Message \cup {Nobody}
    BY DEF Sess, Sessions!Values
  <1>2. phase' \in [Request -> Sessions!Phase]
    BY DEF Sessions!TypeOK, Sessions!Phase, Sessions!Enter
  <1>3. sess' \in [Request -> Sess]
    BY DEF Sessions!TypeOK, Sessions!Enter, Sess
  <1>4. ASSUME NEW q \in Request
        PROVE  IF phase'[q] = "off" THEN sess'[q] = Sessions!NoSession ELSE sess'[q].id \in issued'
    BY <1>4 DEF Sessions!TypeOK, Sessions!Enter
  <1>5. given' \in [Request -> Message \cup {Nobody}]
    BY <1>1 DEF Sessions!TypeOK, Sessions!Enter
  <1>6. expect' \in Sessions!Values \cup {Nobody}
    BY <1>1 DEF Sessions!TypeOK, Sessions!Enter
  <1>7. cookie' \in issued' \cup {Nobody} /\ reply' \in [Request -> issued' \cup {Nobody, "clear"}]
    BY DEF Sessions!TypeOK, Sessions!Enter
  <1>8. saved' \in [Id -> Sessions!Values \cup {Nobody}]
    BY DEF Sessions!TypeOK, Sessions!Enter
  <1> QED
    BY <1>2, <1>3, <1>4, <1>5, <1>6, <1>7, <1>8 DEF Sessions!TypeOK, Sess

LEMMA SavedType ==
    ASSUME Sessions!TypeOK, NEW id \in Id
    PROVE  Sessions!Saved(id) \in Sessions!Values
  BY EmptyType DEF Sessions!Saved, Sessions!TypeOK

\* What a handler leaves in its copy.
LEMMA HandlerValues ==
    ASSUME Sessions!TypeOK, NEW r \in Request
    PROVE  /\ \A u \in User \cup {Nobody} :
                 LET s == Sessions!Changed(sess[r], Sessions!WithUser(sess[r].values, u)) IN
                 s \in Sess /\ s.id = sess[r].id /\ s.values.user = u
           /\ \A m \in Message \cup {Nobody} :
                 LET s == Sessions!Changed(sess[r], Sessions!WithFlash(sess[r].values, m)) IN
                 s \in Sess /\ s.id = sess[r].id /\ s.values.user = sess[r].values.user
  <1>1. sess[r] \in Sess
    BY DEF Sessions!TypeOK, Sess
  <1>2. ASSUME NEW v \in Sessions!Values
        PROVE  /\ Sessions!Changed(sess[r], v) \in Sess
               /\ Sessions!Changed(sess[r], v).id = sess[r].id
               /\ Sessions!Changed(sess[r], v).values = v
    BY <1>1 DEF Sessions!Changed, Sess
  <1>3. ASSUME NEW u \in User \cup {Nobody}
        PROVE  Sessions!WithUser(sess[r].values, u) \in Sessions!Values /\ Sessions!WithUser(sess[r].values, u).user = u
    BY <1>1 DEF Sessions!WithUser, Sess, Sessions!Values
  <1>4. ASSUME NEW m \in Message \cup {Nobody}
        PROVE  /\ Sessions!WithFlash(sess[r].values, m) \in Sessions!Values
               /\ Sessions!WithFlash(sess[r].values, m).user = sess[r].values.user
    BY <1>1 DEF Sessions!WithFlash, Sess, Sessions!Values
  <1> QED
    BY <1>2, <1>3, <1>4

\* A handler's change to the session it holds.
LEMMA UpdateType ==
    ASSUME Sessions!TypeOK, NEW r \in Request, phase[r] # "off", NEW s \in Sess, s.id \in issued',
           sess' = [sess EXCEPT ![r] = s],
           issued \subseteq issued', issued' \subseteq Id,
           saved' \in [Id -> Sessions!Values \cup {Nobody}], expect' \in Sessions!Values \cup {Nobody},
           UNCHANGED <<cookie, phase, given, reply>>
    PROVE  Sessions!TypeOK'
  <1>1. sess' \in [Request -> Sess]
    BY DEF Sessions!TypeOK, Sess
  <1>2. ASSUME NEW q \in Request
        PROVE  IF phase'[q] = "off" THEN sess'[q] = Sessions!NoSession ELSE sess'[q].id \in issued'
    BY <1>2 DEF Sessions!TypeOK
  <1>3. cookie' \in issued' \cup {Nobody} /\ reply' \in [Request -> issued' \cup {Nobody, "clear"}]
    BY DEF Sessions!TypeOK
  <1> QED
    BY <1>1, <1>2, <1>3 DEF Sessions!TypeOK, Sess

LEMMA SessionTypeStep == Sessions!TypeOK /\ [Sessions!Next]_(Sessions!vars) => Sessions!TypeOK'
  <1> SUFFICES ASSUME Sessions!TypeOK, [Sessions!Next]_(Sessions!vars) PROVE Sessions!TypeOK'
    OBVIOUS
  <1>1. ASSUME NEW r \in Request, Sessions!ArriveKnown(r) PROVE Sessions!TypeOK'
    <2>1. cookie \in issued /\ cookie \in Id
      BY <1>1 DEF Sessions!ArriveKnown, Sessions!TypeOK
    <2>2. Sessions!Saved(cookie) \in Sessions!Values
      BY <2>1, SavedType
    <2>3. /\ Sessions!SessionOf(cookie, Sessions!Saved(cookie), FALSE) \in Sess
          /\ Sessions!SessionOf(cookie, Sessions!Saved(cookie), FALSE).id = cookie
      BY <2>1, <2>2, SessionOfType
    <2> QED
      BY <1>1, <2>1, <2>3, EnterType DEF Sessions!ArriveKnown, Sessions!TypeOK
  <1>2. ASSUME NEW r \in Request, Sessions!ArriveNew(r) PROVE Sessions!TypeOK'
    <2>1. PICK id \in Id \ issued : Sessions!Enter(r, Sessions!SessionOf(id, Sessions!Empty, TRUE)) /\ issued' = issued \cup {id}
      BY <1>2 DEF Sessions!ArriveNew
    <2>2. Sessions!SessionOf(id, Sessions!Empty, TRUE) \in Sess /\ Sessions!SessionOf(id, Sessions!Empty, TRUE).id = id
      BY EmptyType, SessionOfType
    <2>3. issued \subseteq issued' /\ issued' \subseteq Id /\ id \in issued'
      BY <2>1 DEF Sessions!TypeOK
    <2> QED
      BY <2>1, <2>2, <2>3, EnterType
  <1>3. ASSUME NEW r \in Request, Sessions!WriteHeader(r) PROVE Sessions!TypeOK'
    <2>1. sess[r].id \in issued /\ sess[r].values \in Sessions!Values
      BY <1>3 DEF Sessions!WriteHeader, Sessions!TypeOK
    <2>2. saved' \in [Id -> Sessions!Values \cup {Nobody}]
      BY <1>3, <2>1 DEF Sessions!WriteHeader, Sessions!TypeOK
    <2>3. reply' \in [Request -> issued \cup {Nobody, "clear"}]
      BY <1>3, <2>1 DEF Sessions!WriteHeader, Sessions!TypeOK
    <2>4. expect' \in Sessions!Values \cup {Nobody}
      BY <1>3, <2>1, EmptyType DEF Sessions!WriteHeader, Sessions!TypeOK, Sessions!Forget
    <2>5. PICK next \in {"passed", "sent"} : phase' = [phase EXCEPT ![r] = next]
      BY <1>3 DEF Sessions!WriteHeader
    <2>6. phase[r] # "off" /\ UNCHANGED <<issued, cookie, sess, given>>
      BY <1>3 DEF Sessions!WriteHeader
    <2> QED
      BY <2>2, <2>3, <2>4, <2>5, <2>6 DEF Sessions!TypeOK, Sessions!Phase
  <1>4. ASSUME NEW r \in Request, Sessions!Deliver(r) PROVE Sessions!TypeOK'
    BY <1>4 DEF Sessions!Deliver, Sessions!TypeOK
  <1>5. ASSUME NEW r \in Request, Sessions!LoseReply(r) PROVE Sessions!TypeOK'
    BY <1>5 DEF Sessions!LoseReply, Sessions!Forget, Sessions!TypeOK
  <1>6. ASSUME NEW r \in Request, Sessions!Return(r) PROVE Sessions!TypeOK'
    BY <1>6, EmptyType DEF Sessions!Return, Sessions!TypeOK, Sessions!Phase, Sess
  <1>7. ASSUME NEW r \in Request, NEW u \in User, Sessions!Login(r, u) PROVE Sessions!TypeOK'
    <2> DEFINE s(id) == [Sessions!Changed(sess[r], Sessions!WithUser(sess[r].values, u)) EXCEPT !.id = id, !.newID = TRUE]
    <2>1. PICK id \in Id \ issued : issued' = issued \cup {id} /\ sess' = [sess EXCEPT ![r] = s(id)]
      BY <1>7 DEF Sessions!Login
    <2>2. s(id) \in Sess /\ s(id).id = id
      <3>1. Sessions!Changed(sess[r], Sessions!WithUser(sess[r].values, u)) \in Sess
        BY HandlerValues
      <3> QED
        BY <3>1 DEF Sess
    <2>3. saved' \in [Id -> Sessions!Values \cup {Nobody}]
      BY <1>7 DEF Sessions!Login, Sessions!TypeOK
    <2>4. expect' \in Sessions!Values \cup {Nobody}
      BY <1>7, EmptyType DEF Sessions!Login, Sessions!Forget, Sessions!TypeOK
    <2>5. phase[r] # "off" /\ UNCHANGED <<cookie, phase, given, reply>>
      BY <1>7 DEF Sessions!Login, Sessions!Handling
    <2>6. s(id).id \in issued' /\ issued \subseteq issued' /\ issued' \subseteq Id
      BY <2>1, <2>2 DEF Sessions!TypeOK
    <2> HIDE DEF s
    <2> QED
      BY <2>1, <2>2, <2>3, <2>4, <2>5, <2>6, UpdateType
  <1>8. ASSUME NEW r \in Request, NEW s \in Sess, s.id = sess[r].id, phase[r] # "off",
               sess' = [sess EXCEPT ![r] = s],
               UNCHANGED <<saved, issued, cookie, phase, given, reply, expect>>
        PROVE  Sessions!TypeOK'
    <2>1. s.id \in issued' /\ issued' \subseteq Id
      BY <1>8 DEF Sessions!TypeOK
    <2>2. saved' \in [Id -> Sessions!Values \cup {Nobody}] /\ expect' \in Sessions!Values \cup {Nobody}
      BY <1>8 DEF Sessions!TypeOK
    <2> QED
      BY <1>8, <2>1, <2>2, UpdateType
  <1>9. ASSUME NEW r \in Request, Sessions!Logout(r) PROVE Sessions!TypeOK'
    <2> DEFINE s == [Sessions!Changed(sess[r], Sessions!WithUser(sess[r].values, Nobody)) EXCEPT !.destroyed = TRUE]
    <2>1. s \in Sess /\ s.id = sess[r].id
      <3>1. /\ Sessions!Changed(sess[r], Sessions!WithUser(sess[r].values, Nobody)) \in Sess
            /\ Sessions!Changed(sess[r], Sessions!WithUser(sess[r].values, Nobody)).id = sess[r].id
        BY HandlerValues
      <3> QED
        BY <3>1 DEF Sess
    <2> QED
      BY <1>8, <1>9, <2>1 DEF Sessions!Logout, Sessions!Handling
  <1>10. ASSUME NEW r \in Request, NEW m \in Message, Sessions!Flash(r, m) PROVE Sessions!TypeOK'
    BY <1>8, <1>10, HandlerValues DEF Sessions!Flash, Sessions!Handling
  <1>11. ASSUME NEW r \in Request, Sessions!GetFlash(r) PROVE Sessions!TypeOK'
    BY <1>8, <1>11, HandlerValues DEF Sessions!GetFlash, Sessions!Handling
  <1>12. ASSUME NEW id \in Id, Sessions!Expire(id) PROVE Sessions!TypeOK'
    BY <1>12 DEF Sessions!Expire, Sessions!Forget, Sessions!TypeOK
  <1>13. ASSUME Sessions!Restart PROVE Sessions!TypeOK'
    BY <1>13, EmptyType DEF Sessions!Restart, Sessions!Forget, Sessions!TypeOK, Sessions!Phase, Sess
  <1>14. ASSUME UNCHANGED Sessions!vars PROVE Sessions!TypeOK'
    BY <1>14 DEF Sessions!vars, Sessions!TypeOK
  <1>15. ASSUME NEW r \in Request, Sessions!ArriveUnread(r) PROVE Sessions!TypeOK'
    <2> DEFINE s == Sessions!SessionOf(cookie, Sessions!Empty, FALSE)
    <2>1. cookie \in issued /\ cookie \in Id
      BY <1>15 DEF Sessions!ArriveUnread, Sessions!TypeOK
    <2>2. s \in Sess /\ s.id = cookie
      BY <2>1, EmptyType, SessionOfType
    <2>3. /\ phase' = [phase EXCEPT ![r] = "open"] /\ sess' = [sess EXCEPT ![r] = s]
          /\ given' = [given EXCEPT ![r] = Nobody] /\ expect' = Nobody
          /\ UNCHANGED <<saved, issued, cookie, reply>>
      BY <1>15 DEF Sessions!ArriveUnread, Sessions!Forget
    <2> HIDE DEF s
    <2> QED
      BY <2>1, <2>2, <2>3 DEF Sessions!TypeOK, Sessions!Phase, Sess
  <1> QED
    BY <1>1, <1>2, <1>3, <1>4, <1>5, <1>6, <1>7, <1>9, <1>10, <1>11, <1>12, <1>13, <1>14, <1>15
       DEF Sessions!Next

\* The state of the session packages is well typed in every reachable state: a
\* request in the server works under an issued id, and the browser's cookie
\* names one.
THEOREM SessionTypeCorrect == SessionSpec => []SessionTypeOK
  BY SessionTypeInit, SessionTypeStep, PTL DEF SessionSpec, SessionTypeOK, Sessions!Spec
-----------------------------------------------------------------------------
(* Users and ids *)

\* Membership in Identities, without the set.
ActsAs(id, u) == Sessions!Saved(id).user = u \/ \E r \in Request : sess[r].id = id /\ sess[r].values.user = u

LEMMA ActsAsIdentity ==
    /\ \A id, u : u \in Sessions!Identities(id) <=> u # Nobody /\ ActsAs(id, u)
    /\ \A id, u : u \in Sessions!Identities(id)' <=> u # Nobody /\ ActsAs(id, u)'
  BY DEF Sessions!Identities, ActsAs

\* One step gives an issued id no user it had not.
LEMMA IdentityStep ==
    ASSUME Sessions!ConstantsOK, Sessions!TypeOK, [Sessions!Next]_(Sessions!vars),
           NEW id \in issued, NEW u, u # Nobody, ActsAs(id, u)'
    PROVE  ActsAs(id, u)
  <1> id \in Id /\ id # Nobody
    BY DEF Sessions!ConstantsOK, Sessions!TypeOK
  <1>1. ASSUME NEW r \in Request, NEW s, Sessions!Enter(r, s), s.id = id => s.values = Sessions!Saved(id) \/ s.values = Sessions!Empty
        PROVE  ActsAs(id, u)
    BY <1>1 DEF Sessions!Enter, ActsAs, Sessions!Saved, Sessions!TypeOK, Sessions!Empty
  <1>2. ASSUME NEW r \in Request, Sessions!ArriveKnown(r) PROVE ActsAs(id, u)
    BY <1>1, <1>2 DEF Sessions!ArriveKnown, Sessions!SessionOf
  <1>3. ASSUME NEW r \in Request, Sessions!ArriveNew(r) PROVE ActsAs(id, u)
    BY <1>1, <1>3 DEF Sessions!ArriveNew, Sessions!SessionOf
  <1>4. ASSUME NEW r \in Request, Sessions!WriteHeader(r) PROVE ActsAs(id, u)
    BY <1>4 DEF Sessions!WriteHeader, ActsAs, Sessions!Saved, Sessions!TypeOK,
       Sessions!Empty, Sessions!Values
  <1>5. ASSUME UNCHANGED <<saved, sess>> PROVE ActsAs(id, u)
    BY <1>5 DEF ActsAs, Sessions!Saved
  <1>6. ASSUME NEW r \in Request, Sessions!Return(r) PROVE ActsAs(id, u)
    BY <1>6 DEF Sessions!Return, ActsAs, Sessions!Saved, Sessions!TypeOK,
       Sessions!NoSession, Sessions!SessionOf, Sessions!Empty
  <1>7. ASSUME NEW r \in Request, NEW v \in User, Sessions!Login(r, v) PROVE ActsAs(id, u)
    BY <1>7 DEF Sessions!Login, ActsAs, Sessions!Saved, Sessions!TypeOK, Sessions!Empty
  <1>8. ASSUME NEW r \in Request, NEW s, sess' = [sess EXCEPT ![r] = s], UNCHANGED saved,
               s.id = sess[r].id, s.values.user \in {sess[r].values.user, Nobody}
        PROVE  ActsAs(id, u)
    BY <1>8 DEF ActsAs, Sessions!Saved, Sessions!TypeOK
  <1>9. ASSUME NEW r \in Request, Sessions!Logout(r) PROVE ActsAs(id, u)
    <2> DEFINE s == [Sessions!Changed(sess[r], Sessions!WithUser(sess[r].values, Nobody)) EXCEPT !.destroyed = TRUE]
    <2>1. s.id = sess[r].id /\ s.values.user = Nobody
      BY HandlerValues DEF Sess
    <2> QED
      BY <1>8, <1>9, <2>1 DEF Sessions!Logout
  <1>10. ASSUME NEW r \in Request, NEW m \in Message, Sessions!Flash(r, m) PROVE ActsAs(id, u)
    BY <1>8, <1>10, HandlerValues DEF Sessions!Flash
  <1>11. ASSUME NEW r \in Request, Sessions!GetFlash(r) PROVE ActsAs(id, u)
    BY <1>8, <1>11, HandlerValues DEF Sessions!GetFlash
  <1>12. ASSUME NEW i \in Id, Sessions!Expire(i) PROVE ActsAs(id, u)
    BY <1>12 DEF Sessions!Expire, ActsAs, Sessions!Saved, Sessions!TypeOK, Sessions!Empty
  <1>13. ASSUME Sessions!Restart PROVE ActsAs(id, u)
    BY <1>13 DEF Sessions!Restart, ActsAs, Sessions!Saved, Sessions!TypeOK,
       Sessions!NoSession, Sessions!SessionOf, Sessions!Empty
  <1>14. ASSUME NEW r \in Request, Sessions!ArriveUnread(r) PROVE ActsAs(id, u)
    BY <1>14 DEF Sessions!ArriveUnread, Sessions!SessionOf, ActsAs, Sessions!Saved,
       Sessions!TypeOK, Sessions!Empty
  <1> QED
    BY <1>2, <1>3, <1>4, <1>5, <1>6, <1>7, <1>9, <1>10, <1>11, <1>12, <1>13, <1>14
    DEF Sessions!Next, Sessions!vars, Sessions!Deliver, Sessions!LoseReply

\* Whatever requests overlap, fail or restart, a session id has a user only if
\* Login issued it for that user, and an id without one never gets one: the
\* rotation of the id at login (auth.go:17-21, session.go:149-159) cannot be
\* undone by a request that still holds the old session.
THEOREM OnlyLoginIdentifies == SessionSpec => IdentityOnlyFromLogin
  <1>1. ASSUME Sessions!TypeOK, [Sessions!Next]_(Sessions!vars)
        PROVE  [\A id \in issued : Sessions!Identities(id)' \subseteq Sessions!Identities(id)]_(Sessions!vars)
    BY <1>1, SessionsOK, ActsAsIdentity, IdentityStep
  <1> QED
    BY <1>1, SessionTypeCorrect, PTL
       DEF SessionSpec, SessionTypeOK, IdentityOnlyFromLogin, Sessions!Spec, Sessions!IdentityOnlyFromLogin

-----------------------------------------------------------------------------
(* What the next request will load *)

\* The values a request loads that brings cookie c.
Carried(c) == IF c \in {Nobody, "clear"} THEN Sessions!Empty ELSE Sessions!Saved(c)

\* The cookie the browser has once the response of r has arrived.
Target(r) == IF reply[r] = Nobody THEN cookie ELSE reply[r]

Answers == \A r \in Request : reply[r] # Nobody => phase[r] \in {"passed", "sent"}
Solo    == \A q, r \in Sessions!InFlight : q = r
Waiting == Sessions!InFlight = {} => expect = Carried(cookie)

\* A session with no flag set is as it was loaded, and its id the cookie's.
Loaded == \A r \in Request : phase[r] \in {"open", "passed"} =>
    \/ sess[r].destroyed \/ sess[r].changed \/ sess[r].newID
    \/ /\ phase[r] = "open" /\ cookie # Nobody
       /\ sess[r].id = cookie /\ sess[r].values = Sessions!Saved(cookie)

\* A Login after the header deletes a session the browser will not ask for, or
\* the one it will.
Written == \A r \in Request : phase[r] = "sent" =>
    expect = Carried(Target(r)) /\ (sess[r].id = Target(r) \/ expect = Sessions!Empty)

Foreseen == Answers /\ (expect # Nobody => Solo /\ Waiting /\ Loaded /\ Written)

LEMMA ForeseenInit == Sessions!Init => Foreseen
  BY DEF Sessions!Init, Foreseen, Answers, Solo, Waiting, Loaded, Written,
     Sessions!InFlight, Carried

\* A request that arrives alone loads what was foreseen.
LEMMA ArriveForeseen ==
    ASSUME Sessions!ConstantsOK, Sessions!TypeOK, Foreseen, NEW r \in Request, Sessions!ArriveKnown(r) \/ Sessions!ArriveNew(r)
    PROVE  /\ Foreseen'
           /\ Sessions!InFlight = {} /\ expect # Nobody => sess'[r].values = expect
<1>1. PICK s : /\ Sessions!Enter(r, s) /\ phase[r] = "off" /\ s.values = Carried(cookie)
               /\ s.newID \/ (cookie # Nobody /\ s.id = cookie /\ s.values = Sessions!Saved(cookie))
  <2>1. CASE Sessions!ArriveKnown(r)
    <3>1. cookie # Nobody /\ cookie # "clear"
      BY <2>1 DEF Sessions!ConstantsOK, Sessions!ArriveKnown, Sessions!TypeOK
    <3> QED
      BY <2>1, <3>1 DEF Sessions!ArriveKnown, Sessions!SessionOf, Carried
  <2>2. CASE Sessions!ArriveNew(r)
    BY <2>2 DEF Sessions!ArriveNew, Sessions!SessionOf, Carried
  <2> QED
    BY <2>1, <2>2
<1>2. /\ phase' = [phase EXCEPT ![r] = "open"] /\ sess' = [sess EXCEPT ![r] = s]
      /\ expect' = IF Sessions!InFlight = {} THEN s.values ELSE Nobody
      /\ UNCHANGED <<saved, cookie, reply>>
  BY <1>1 DEF Sessions!Enter
<1>3. Sessions!InFlight = {} /\ expect # Nobody => sess'[r].values = expect
  BY <1>1, <1>2 DEF Foreseen, Waiting, Sessions!TypeOK
<1>4. Answers'
  BY <1>1, <1>2 DEF Foreseen, Answers, Sessions!TypeOK
<1>5. ASSUME expect' # Nobody PROVE Solo' /\ Waiting' /\ Loaded' /\ Written'
  <2>1. /\ Sessions!InFlight = {} /\ phase'[r] = "open" /\ sess'[r] = s
        /\ \A q \in Request \ {r} : phase'[q] = "off"
    BY <1>2, <1>5 DEF Sessions!InFlight, Sessions!TypeOK
  <2>2. Sessions!Saved(cookie)' = Sessions!Saved(cookie)
    BY <1>2 DEF Sessions!Saved
  <2> QED
    BY <1>1, <1>2, <2>1, <2>2 DEF Solo, Waiting, Loaded, Written, Sessions!InFlight
<1> QED
  BY <1>3, <1>4, <1>5 DEF Foreseen

\* The header of a request that is alone settles what the next one loads.
LEMMA HeaderForeseen ==
    ASSUME Sessions!ConstantsOK, Sessions!TypeOK, Foreseen, NEW r \in Request, Sessions!WriteHeader(r)
    PROVE  Foreseen'
<1>1. /\ phase[r] \in {"open", "passed"} /\ UNCHANGED <<issued, cookie, sess, given>>
  BY DEF Sessions!WriteHeader
<1>n. PICK next \in {"passed", "sent"} :
         /\ next = "passed" => sess[r].destroyed \/ sess[r].changed \/ sess[r].newID
         /\ phase' = [phase EXCEPT ![r] = next]
  BY DEF Sessions!WriteHeader
<1>2. \A q \in Request \ {r} : reply'[q] = reply[q]
  BY DEF Sessions!WriteHeader, Sessions!TypeOK
<1>3. Answers'
  BY <1>1, <1>n, <1>2 DEF Foreseen, Answers, Sessions!TypeOK
<1>4. ASSUME expect' # Nobody PROVE Solo' /\ Waiting' /\ Loaded' /\ Written'
  <2>1. expect # Nobody
    BY <1>4 DEF Sessions!WriteHeader, Sessions!Forget
  <2>2. Solo /\ Loaded /\ Answers
    BY <2>1 DEF Foreseen
  <2>3. /\ r \in Sessions!InFlight' /\ phase'[r] = next
        /\ \A q \in Request \ {r} : phase'[q] = "off"
    BY <1>1, <1>n, <2>2 DEF Solo, Sessions!InFlight, Sessions!TypeOK
  <2>4. phase[r] = "open" => reply[r] = Nobody
    BY <2>2 DEF Answers
  <2>5. sess[r].id \in Id /\ sess[r].id \notin {Nobody, "clear"}
    BY <1>1 DEF Sessions!ConstantsOK, Sessions!TypeOK
  <2>6. expect' = Carried(Target(r))' /\ (sess'[r].id = Target(r)' \/ expect' = Sessions!Empty)
    <3>1. CASE /\ sess[r].destroyed /\ reply' = [reply EXCEPT ![r] = "clear"]
               /\ expect' = Sessions!Empty
      <4>1. Target(r)' = "clear"
        BY <3>1 DEF Sessions!ConstantsOK, Sessions!TypeOK, Target
      <4> QED
        BY <3>1, <4>1 DEF Carried
    <3>2. CASE /\ saved' = [saved EXCEPT ![sess[r].id] = sess[r].values]
               /\ reply' = [reply EXCEPT ![r] = sess[r].id]
               /\ expect' = sess[r].values
      <4>1. reply'[r] = sess[r].id /\ saved'[sess[r].id] = sess[r].values
        BY <2>5, <3>2 DEF Sessions!TypeOK
      <4>2. Target(r)' = sess[r].id
        BY <2>5, <4>1 DEF Target
      <4>3. Carried(Target(r))' = sess[r].values
        BY <1>4, <2>5, <3>2, <4>1, <4>2 DEF Carried, Sessions!Saved
      <4> QED
        BY <1>1, <3>2, <4>2, <4>3
    <3>3. CASE /\ ~sess[r].destroyed /\ ~sess[r].changed /\ ~sess[r].newID
               /\ expect' = sess[r].values /\ UNCHANGED <<saved, reply>>
      <4>1. /\ phase[r] = "open" /\ cookie # Nobody
            /\ sess[r].id = cookie /\ sess[r].values = Sessions!Saved(cookie)
        BY <1>1, <2>2, <3>3 DEF Loaded
      <4>2. Target(r)' = cookie /\ Sessions!Saved(cookie)' = Sessions!Saved(cookie)
        BY <1>1, <2>4, <3>3, <4>1 DEF Target, Sessions!Saved
      <4> QED
        BY <1>1, <2>5, <3>3, <4>1, <4>2 DEF Carried
    <3> QED
      BY <1>4, <2>1, <3>1, <3>2, <3>3 DEF Sessions!WriteHeader, Sessions!Forget
  <2> QED
    BY <1>1, <1>n, <2>3, <2>6 DEF Solo, Waiting, Loaded, Written, Sessions!InFlight
<1> QED
  BY <1>3, <1>4 DEF Foreseen

\* The handler of r changes its session, and deletes at most the one it holds.
LEMMA HandlerForeseen ==
    ASSUME Sessions!TypeOK, Foreseen, NEW r \in Request, phase[r] # "off",
           NEW s, s.changed, sess' = [sess EXCEPT ![r] = s],
           UNCHANGED <<cookie, phase, reply>>,
           \/ s.id = sess[r].id /\ UNCHANGED <<saved, expect>>
           \/ /\ saved' = [saved EXCEPT ![sess[r].id] = Nobody]
              /\ expect' = IF expect = Nobody \/ phase[r] = "open" THEN expect ELSE Sessions!Empty
           \/ expect' = Nobody
    PROVE  Foreseen'
<1>1. Answers'
  BY DEF Foreseen, Answers
<1>2. ASSUME expect' # Nobody PROVE Solo' /\ Waiting' /\ Loaded' /\ Written'
  <2>1. expect # Nobody
    BY <1>2
  <2>2. Solo /\ Written
    BY <2>1 DEF Foreseen
  <2>3. sess'[r] = s /\ r \in Sessions!InFlight /\ Sessions!InFlight' = Sessions!InFlight
    BY DEF Sessions!TypeOK, Sessions!InFlight
  <2>4. \A q \in Request : phase[q] # "off" => q = r
    BY <2>2, <2>3 DEF Solo, Sessions!InFlight
  <2>5. Solo' /\ Waiting' /\ Loaded'
    BY <2>2, <2>3, <2>4 DEF Solo, Waiting, Loaded, Sessions!InFlight
  <2>6. ASSUME phase[r] = "sent"
        PROVE  expect' = Carried(Target(r))' /\ (sess'[r].id = Target(r)' \/ expect' = Sessions!Empty)
    <3>1. /\ expect = Carried(Target(r)) /\ (sess[r].id = Target(r) \/ expect = Sessions!Empty)
          /\ Target(r)' = Target(r)
      BY <2>2, <2>6 DEF Written, Target
    <3>2. CASE s.id = sess[r].id /\ UNCHANGED <<saved, expect>>
      BY <2>3, <3>1, <3>2 DEF Carried, Sessions!Saved
    <3>3. CASE saved' = [saved EXCEPT ![sess[r].id] = Nobody] /\ expect' = Sessions!Empty
      <4>1. sess[r].id \in Id /\ Target(r) \in Id \cup {Nobody, "clear"}
        BY <2>6 DEF Sessions!TypeOK, Target
      <4>2. Carried(Target(r))' = Sessions!Empty
        <5>1. CASE sess[r].id = Target(r)
          BY <3>1, <3>3, <4>1, <5>1 DEF Carried, Sessions!Saved, Sessions!TypeOK
        <5>2. CASE sess[r].id # Target(r) /\ expect = Sessions!Empty
          BY <3>1, <3>3, <4>1, <5>2 DEF Carried, Sessions!Saved, Sessions!TypeOK
        <5> QED
          BY <3>1, <5>1, <5>2
      <4> QED
        BY <3>3, <4>2
    <3> QED
      BY <1>2, <2>1, <2>6, <3>2, <3>3
  <2> QED
    BY <2>4, <2>5, <2>6 DEF Written
<1> QED
  BY <1>1, <1>2 DEF Foreseen

LEMMA ForeseenStep == Sessions!ConstantsOK /\ Sessions!TypeOK /\ Foreseen /\ [Sessions!Next]_(Sessions!vars) => Foreseen'
<1> SUFFICES ASSUME Sessions!ConstantsOK, Sessions!TypeOK, Foreseen, [Sessions!Next]_(Sessions!vars) PROVE Foreseen'
  OBVIOUS
<1>1. ASSUME NEW r \in Request, Sessions!Deliver(r) PROVE Foreseen'
  <2>1. /\ phase[r] = "sent" /\ reply[r] # Nobody
        /\ cookie' = IF reply[r] = "clear" THEN Nobody ELSE reply[r]
        /\ reply' = [reply EXCEPT ![r] = Nobody]
        /\ UNCHANGED <<saved, issued, phase, sess, given, expect>>
    BY <1>1 DEF Sessions!Deliver
  <2>2. phase[r] = "sent" /\ Answers'
    BY <2>1 DEF Foreseen, Answers, Sessions!TypeOK
  <2>3. ASSUME expect # Nobody PROVE Solo' /\ Waiting' /\ Loaded' /\ Written'
    <3>1. Solo /\ Written
      BY <2>3 DEF Foreseen
    <3>2. \A q \in Request : phase[q] # "off" => q = r
      BY <2>2, <3>1 DEF Solo, Sessions!InFlight
    <3>3. Target(r)' = cookie' /\ Target(r) = reply[r]
      BY <2>1 DEF Target, Sessions!TypeOK
    <3>4. Carried(Target(r))' = Carried(Target(r))
      BY <2>1, <3>3 DEF Carried, Sessions!Saved
    <3>5. sess[r].id \in Id /\ "clear" \notin Id
      BY <2>2 DEF Sessions!ConstantsOK, Sessions!TypeOK
    <3>6. Written'
      BY <2>1, <2>2, <3>1, <3>2, <3>3, <3>4, <3>5 DEF Written
    <3> QED
      BY <2>1, <2>2, <3>1, <3>2, <3>6 DEF Solo, Waiting, Loaded, Sessions!InFlight
  <2> QED
    BY <2>1, <2>2, <2>3 DEF Foreseen
<1>2. ASSUME NEW r \in Request, Sessions!LoseReply(r) PROVE Foreseen'
  BY <1>2 DEF Sessions!LoseReply, Sessions!Forget, Foreseen, Answers, Sessions!TypeOK
<1>3. ASSUME NEW r \in Request, Sessions!Return(r) PROVE Foreseen'
  <2>1. /\ phase[r] = "sent" /\ reply[r] = Nobody /\ phase' = [phase EXCEPT ![r] = "off"]
        /\ sess' = [sess EXCEPT ![r] = Sessions!NoSession]
        /\ UNCHANGED <<saved, issued, cookie, reply, expect>>
    BY <1>3 DEF Sessions!Return
  <2>2. Answers'
    BY <2>1 DEF Foreseen, Answers, Sessions!TypeOK
  <2>3. ASSUME expect # Nobody PROVE Solo' /\ Waiting' /\ Loaded' /\ Written'
    <3>1. Solo /\ Written
      BY <2>3 DEF Foreseen
    <3>2. \A q \in Request : phase'[q] = "off"
      BY <2>1, <3>1 DEF Solo, Sessions!InFlight, Sessions!TypeOK
    <3>3. expect = Carried(cookie)
      BY <2>1, <3>1 DEF Written, Target
    <3>4. Carried(cookie)' = Carried(cookie)
      BY <2>1 DEF Carried, Sessions!Saved
    <3> QED
      BY <2>1, <3>2, <3>3, <3>4 DEF Solo, Waiting, Loaded, Written, Sessions!InFlight
  <2> QED
    BY <2>1, <2>2, <2>3 DEF Foreseen
<1>4. ASSUME NEW r \in Request, NEW u \in User, Sessions!Login(r, u) PROVE Foreseen'
  <2>1. PICK id \in Id \ issued :
           sess' = [sess EXCEPT ![r] =
              [Sessions!Changed(sess[r], Sessions!WithUser(sess[r].values, u)) EXCEPT !.id = id, !.newID = TRUE]]
    BY <1>4 DEF Sessions!Login
  <2> DEFINE s == [Sessions!Changed(sess[r], Sessions!WithUser(sess[r].values, u)) EXCEPT !.id = id, !.newID = TRUE]
  <2>2. s.changed
    BY DEF Sessions!Changed, Sessions!TypeOK
  <2> HIDE DEF s
  <2>3. sess' = [sess EXCEPT ![r] = s]
    BY <2>1 DEF s
  <2>4. /\ phase[r] # "off" /\ UNCHANGED <<cookie, phase, reply>>
        /\ \/ /\ saved' = [saved EXCEPT ![sess[r].id] = Nobody]
              /\ expect' = IF expect = Nobody \/ phase[r] = "open" THEN expect ELSE Sessions!Empty
           \/ expect' = Nobody
    BY <1>4 DEF Sessions!Login, Sessions!Handling, Sessions!Forget
  <2> QED
    BY <2>2, <2>3, <2>4, HandlerForeseen
<1>5. ASSUME NEW r \in Request, NEW v, phase[r] # "off",
             UNCHANGED <<saved, issued, cookie, phase, given, reply, expect>>,
             \/ sess' = [sess EXCEPT ![r] = Sessions!Changed(sess[r], v)]
             \/ sess' = [sess EXCEPT ![r] = [Sessions!Changed(sess[r], v) EXCEPT !.destroyed = TRUE]]
      PROVE  Foreseen'
  <2> DEFINE s == Sessions!Changed(sess[r], v)
             gone == [s EXCEPT !.destroyed = TRUE]
  <2>1. s.changed /\ s.id = sess[r].id /\ gone.changed /\ gone.id = sess[r].id
    BY DEF Sessions!Changed, Sessions!TypeOK
  <2>2. sess' = [sess EXCEPT ![r] = s] \/ sess' = [sess EXCEPT ![r] = gone]
    BY <1>5
  <2> HIDE DEF s, gone
  <2> QED
    BY <1>5, <2>1, <2>2, HandlerForeseen
<1>6. ASSUME NEW r \in Request,
             Sessions!Logout(r) \/ Sessions!GetFlash(r) \/ \E m \in Message : Sessions!Flash(r, m)
      PROVE  Foreseen'
  BY <1>5, <1>6 DEF Sessions!Logout, Sessions!GetFlash, Sessions!Flash, Sessions!Handling
<1>7. ASSUME NEW id \in Id, Sessions!Expire(id) PROVE Foreseen'
  BY <1>7 DEF Sessions!Expire, Sessions!Forget, Foreseen, Answers
<1>8. ASSUME Sessions!Restart PROVE Foreseen'
  BY <1>8 DEF Sessions!Restart, Sessions!Forget, Foreseen, Answers
<1>9. CASE UNCHANGED Sessions!vars
  BY <1>9 DEF Sessions!vars, Foreseen, Answers, Solo, Waiting, Loaded, Written,
     Sessions!InFlight, Target, Carried, Sessions!Saved
<1>10. ASSUME NEW r \in Request, Sessions!ArriveUnread(r) PROVE Foreseen'
  <2>1. /\ phase[r] = "off" /\ phase' = [phase EXCEPT ![r] = "open"]
        /\ expect' = Nobody /\ UNCHANGED reply
    BY <1>10 DEF Sessions!ArriveUnread, Sessions!Forget
  <2> QED
    BY <2>1 DEF Foreseen, Answers, Sessions!TypeOK
<1> QED
  BY <1>1, <1>2, <1>3, <1>4, <1>6, <1>7, <1>8, <1>9, <1>10, ArriveForeseen, HeaderForeseen
     DEF Sessions!Next

\* Whatever a handler calls, before or after the header, a request that comes
\* when no other is under way loads what the one before had in its session when
\* ensureCookie last ran: the flags, the store and the cookie agree
\* (session.go:232-257), unless a fault has come between or its own read fails.
THEOREM WritesAreRead == SessionSpec => ReadYourWrites
<1> USE SessionsOK
<1>1. ASSUME Sessions!TypeOK, Foreseen, [Sessions!Next]_(Sessions!vars), NEW r \in Request,
             phase[r] = "off", phase'[r] = "open", Sessions!InFlight = {},
             expect # Nobody, expect' # Nobody
      PROVE  sess'[r].values = expect
  <2>1. \A q \in Request : phase[q] = "off" /\ reply[q] = Nobody
    BY <1>1 DEF Sessions!InFlight, Foreseen, Answers
  <2>2. \E q \in Request : Sessions!ArriveKnown(q) \/ Sessions!ArriveNew(q)
    BY <1>1, <2>1 DEF Sessions!Next, Sessions!vars, Sessions!WriteHeader, Sessions!Deliver,
       Sessions!LoseReply, Sessions!Return, Sessions!Login, Sessions!Logout, Sessions!Flash,
       Sessions!GetFlash, Sessions!Expire, Sessions!Restart, Sessions!Handling,
       Sessions!ArriveUnread, Sessions!Forget
  <2>3. Sessions!ArriveKnown(r) \/ Sessions!ArriveNew(r)
    BY <1>1, <2>2 DEF Sessions!ArriveKnown, Sessions!ArriveNew, Sessions!Enter,
       Sessions!TypeOK
  <2> QED
    BY <1>1, <2>3, ArriveForeseen
<1>2. Sessions!TypeOK /\ Foreseen /\ [Sessions!Next]_(Sessions!vars) =>
         [\A r \in Request :
             (phase[r] = "off" /\ phase'[r] = "open" /\ Sessions!InFlight = {}
                /\ expect # Nobody /\ expect' # Nobody)
                => sess'[r].values = expect]_(Sessions!vars)
  BY <1>1
<1>3. SessionSpec => []Foreseen
  BY ForeseenInit, ForeseenStep, SessionTypeCorrect, PTL DEF SessionSpec, SessionTypeOK, Sessions!Spec
<1> QED
  BY <1>2, <1>3, SessionTypeCorrect, PTL
     DEF SessionSpec, SessionTypeOK, ReadYourWrites, Sessions!Spec, Sessions!ReadYourWrites
=============================================================================
