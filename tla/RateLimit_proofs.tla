-------------------------- MODULE RateLimit_proofs --------------------------
(***************************************************************************)
(* Proofs about both rate limiters, for any keys, requests and addresses,  *)
(* any limits and windows, and any bound on the lag of a clock reading:    *)
(* first RateLimit, the one in memory, then RedisRateLimit.                *)
(***************************************************************************)
EXTENDS MCRateLimit, FiniteSetTheorems, TLAPS

-----------------------------------------------------------------------------
(* In memory: the inductive invariant *)

\* The requests that hold one of the first Limit tickets of a bucket, and have
\* yet to look at the count.
Entitled(b) == {q \in Request : mine[q] = b /\ pc[q] = "counted" /\ ticket[q] <= Limit}

\* A bucket gives every ticket up to the limit to one request only.
Tickets ==
    \A b \in Bucket :
        /\ admitted[b] + Cardinality(Entitled(b)) <= count[b]
        /\ admitted[b] + Cardinality(Entitled(b)) <= Limit

\* The bucket of a window that is open is in the map.
OpenMapped ==
    \A b \in Bucket : owner[b] # None /\ left[b] >= 0 => buckets[owner[b]] = b

IInv == TypeOK /\ Tickets /\ OpenMapped /\ FirstGetsThrough

LEMMA InitInv == Init => IInv
<1> SUFFICES ASSUME Init PROVE IInv
  OBVIOUS
<1>1. TypeOK
  <2>1. 0 \in 0..(Limit + 1) /\ Past \in Past..Window /\ 0 \in 0..MaxLag
    BY ConstantsOK DEF Past
  <2> QED
    BY <2>1 DEF Init, TypeOK
<1>2. Tickets
  <2>1. \A b \in Bucket : Entitled(b) = {}
    BY DEF Init, Entitled
  <2> QED
    BY <2>1, FS_EmptySet, ConstantsOK DEF Init, Tickets
<1>3. OpenMapped /\ FirstGetsThrough
  BY DEF Init, OpenMapped, FirstGetsThrough
<1> QED
  BY <1>1, <1>2, <1>3 DEF IInv

-----------------------------------------------------------------------------
(* In memory: every step keeps it *)

LEMMA TimeInv == ASSUME IInv, Time PROVE IInv'
<1> USE DEF IInv
<1>1. /\ \A q \in Request : pc[q] = "arrived" => lag[q] < MaxLag
      /\ pruning => pruneLag < MaxLag
      /\ left' = [b \in Bucket |-> IF left[b] > Past THEN left[b] - 1 ELSE Past]
      /\ lag' = [q \in Request |-> IF pc[q] = "arrived" THEN lag[q] + 1 ELSE lag[q]]
      /\ pruneLag' = IF pruning THEN pruneLag + 1 ELSE 0
      /\ UNCHANGED <<buckets, owner, count, admitted, pc, key, mine, ticket, pruning>>
  BY DEF Time
<1>2. \A b \in Bucket : left[b] \in Past..Window
  BY DEF TypeOK
<1>3. \A b \in Bucket : left'[b] \in Past..Window /\ left'[b] <= left[b]
  BY <1>1, <1>2, ConstantsOK DEF Past
<1>4. \A q \in Request : lag'[q] \in 0..MaxLag
  BY <1>1, ConstantsOK DEF TypeOK
<1>5. pruneLag' \in 0..MaxLag
  BY <1>1, ConstantsOK DEF TypeOK
<1>6. left' \in [Bucket -> Past..Window] /\ lag' \in [Request -> 0..MaxLag]
  BY <1>1, <1>3, <1>4
<1>7. TypeOK'
  BY <1>1, <1>5, <1>6 DEF TypeOK
<1>8. Tickets'
  BY <1>1 DEF Tickets, Entitled
<1>9. OpenMapped'
  BY <1>1, <1>2, <1>3 DEF OpenMapped, Past
<1>10. FirstGetsThrough'
  BY <1>1 DEF FirstGetsThrough, Waiting
<1> QED
  BY <1>7, <1>8, <1>9, <1>10

LEMMA ArriveInv == ASSUME IInv, NEW q \in Request, NEW k \in Key, Arrive(q, k) PROVE IInv'
<1> USE DEF IInv
<1>1. /\ pc[q] = "off" /\ pc' = [pc EXCEPT ![q] = "arrived"]
      /\ key' = [key EXCEPT ![q] = k]
      /\ UNCHANGED <<table, lag, mine, ticket, pruner>>
  BY DEF Arrive
<1>2. k # None
  BY ConstantsOK
<1>3. TypeOK'
  BY <1>1, <1>2 DEF TypeOK, table, pruner
<1>4. \A b \in Bucket : Entitled(b)' = Entitled(b) /\ Waiting(b)' = Waiting(b)
  BY <1>1 DEF TypeOK, Entitled, Waiting, table
<1> QED
  BY <1>1, <1>3, <1>4 DEF Tickets, OpenMapped, FirstGetsThrough, table

\* The requests of a bucket are finitely many.
LEMMA FiniteSets ==
    ASSUME NEW b
    PROVE  /\ IsFiniteSet(Entitled(b)) /\ Cardinality(Entitled(b)) \in Nat
           /\ IsFiniteSet(Waiting(b)) /\ Cardinality(Waiting(b)) \in Nat
           /\ Cardinality(Waiting(b)) <= Cardinality(Request)
<1>1. Entitled(b) \in SUBSET Request /\ Waiting(b) \in SUBSET Request
  BY DEF Entitled, Waiting
<1> QED
  BY <1>1, FS_Subset, FS_CardinalityType, ConstantsOK

\* A request that is counted holds the next ticket of its bucket.
LEMMA CountInBucket ==
    ASSUME TypeOK, NEW q \in Request, NEW b \in Bucket, NEW n \in 0..(Limit + 1),
           pc[q] = "arrived", CountIn(q, b, n)
    PROVE  /\ \A c \in Bucket \ {b} :
                 /\ Entitled(c)' = Entitled(c) /\ Waiting(c)' = Waiting(c)
                 /\ count'[c] = count[c]
           /\ Entitled(b)' = IF n < Limit THEN Entitled(b) \cup {q} ELSE Entitled(b)
           /\ Waiting(b)' = Waiting(b) \cup {q}
           /\ q \notin Entitled(b) /\ q \notin Waiting(b)
           /\ count'[b] = Incremented(n) /\ ticket'[q] = Incremented(n)
           /\ pc'[q] = "counted" /\ mine'[q] = b
           /\ Incremented(n) \in 1..(Limit + 1)
           /\ n <= Limit => Incremented(n) = n + 1
           /\ n > Limit => Incremented(n) = n
<1>1. /\ Incremented(n) \in 1..(Limit + 1)
      /\ n <= Limit => Incremented(n) = n + 1
      /\ n > Limit => Incremented(n) = n
  BY ConstantsOK DEF Incremented
<1>2. /\ count'[b] = Incremented(n) /\ \A c \in Bucket \ {b} : count'[c] = count[c]
      /\ ticket'[q] = Incremented(n) /\ pc'[q] = "counted" /\ mine'[q] = b
      /\ \A p \in Request \ {q} : ticket'[p] = ticket[p] /\ mine'[p] = mine[p] /\ pc'[p] = pc[p]
  BY DEF CountIn, TypeOK
<1>3. Incremented(n) <= Limit <=> n < Limit
  BY ConstantsOK DEF Incremented
<1>4. q \notin Entitled(b) /\ q \notin Waiting(b)
  BY DEF Entitled, Waiting
<1>5. Waiting(b)' = Waiting(b) \cup {q}
  BY <1>2 DEF Waiting
<1>6. Entitled(b)' = IF n < Limit THEN Entitled(b) \cup {q} ELSE Entitled(b)
  BY <1>2, <1>3 DEF Entitled
<1>7. ASSUME NEW c \in Bucket \ {b} PROVE Entitled(c)' = Entitled(c) /\ Waiting(c)' = Waiting(c)
  BY <1>2 DEF Entitled, Waiting
<1> QED
  BY <1>1, <1>2, <1>4, <1>5, <1>6, <1>7

LEMMA CountInSizes ==
    ASSUME TypeOK, NEW q \in Request, NEW b \in Bucket, NEW n \in 0..(Limit + 1),
           pc[q] = "arrived", CountIn(q, b, n)
    PROVE  /\ Cardinality(Waiting(b)') = Cardinality(Waiting(b)) + 1
           /\ Cardinality(Entitled(b)') =
                 Cardinality(Entitled(b)) + IF n < Limit THEN 1 ELSE 0
<1>1. /\ IsFiniteSet(Entitled(b)) /\ IsFiniteSet(Waiting(b))
      /\ Cardinality(Entitled(b)) \in Nat /\ Cardinality(Waiting(b)) \in Nat
  BY FiniteSets
<1>2. /\ Entitled(b)' = IF n < Limit THEN Entitled(b) \cup {q} ELSE Entitled(b)
      /\ Waiting(b)' = Waiting(b) \cup {q}
      /\ q \notin Entitled(b) /\ q \notin Waiting(b)
  BY CountInBucket
<1>3. Cardinality(Waiting(b) \cup {q}) = Cardinality(Waiting(b)) + 1
  BY <1>1, <1>2, FS_AddElement
<1>4. Cardinality(Entitled(b) \cup {q}) = Cardinality(Entitled(b)) + 1
  BY <1>1, <1>2, FS_AddElement
<1>5. Cardinality(Entitled(b)') = Cardinality(Entitled(b)) + IF n < Limit THEN 1 ELSE 0
  BY <1>1, <1>2, <1>4
<1> QED
  BY <1>2, <1>3, <1>5

LEMMA CountInTypes ==
    ASSUME TypeOK, NEW q \in Request, NEW b \in Bucket, NEW n \in 0..(Limit + 1),
           CountIn(q, b, n)
    PROVE  /\ count' \in [Bucket -> 0..(Limit + 1)] /\ ticket' \in [Request -> 0..(Limit + 1)]
           /\ mine' \in [Request -> Bucket \cup {None}] /\ lag' \in [Request -> 0..MaxLag]
           /\ pc' \in [Request -> {"off", "arrived", "counted", "admitted", "refused"}]
<1>1. Incremented(n) \in 0..(Limit + 1) /\ 0 \in 0..MaxLag
  BY ConstantsOK DEF Incremented
<1> QED
  BY <1>1 DEF CountIn, TypeOK

LEMMA CountOldInv == ASSUME IInv, NEW q \in Request, CountOld(q) PROVE IInv'
<1> USE DEF IInv
<1>1. PICK b \in Bucket :
         /\ b = buckets[key[q]] /\ owner[b] = key[q] /\ key[q] \in Key /\ key[q] # None
         /\ pc[q] = "arrived" /\ CountIn(q, b, count[b])
         /\ UNCHANGED <<buckets, owner, left, admitted, key, pruner>>
  <2>1. key[q] \in Key
    BY DEF CountOld, TypeOK
  <2>2. buckets[key[q]] # None
    BY DEF CountOld, Over
  <2> QED
    BY <2>1, <2>2, ConstantsOK DEF CountOld, TypeOK
<1>2. count[b] \in 0..(Limit + 1) /\ admitted[b] \in Nat
  BY DEF TypeOK
<1>3. TypeOK'
  <2>1. \A p \in Request \ {q} : pc'[p] = pc[p] /\ mine'[p] = mine[p] /\ ticket'[p] = ticket[p]
    BY <1>1 DEF CountIn, TypeOK
  <2>2. pc'[q] = "counted" /\ mine'[q] = b /\ ticket'[q] > 0 /\ b # None
    BY <1>1, <1>2, CountInBucket, ConstantsOK
  <2> QED
    BY <1>1, <1>2, <2>1, <2>2, CountInTypes DEF TypeOK, pruner
<1>4. Tickets'
  <2>1. ASSUME NEW c \in Bucket
        PROVE  /\ admitted[c] + Cardinality(Entitled(c)') <= count'[c]
               /\ admitted[c] + Cardinality(Entitled(c)') <= Limit
    <3>1. CASE c = b
      <4>1. Cardinality(Entitled(b)) \in Nat
        BY FiniteSets
      <4>2. CASE count[b] < Limit
        <5>1. Cardinality(Entitled(b)') = Cardinality(Entitled(b)) + 1
          BY <1>1, <1>2, <4>2, CountInSizes
        <5>2. count'[b] = count[b] + 1
          BY <1>1, <1>2, <4>2, CountInBucket, ConstantsOK
        <5> QED
          BY <1>2, <3>1, <4>1, <4>2, <5>1, <5>2, ConstantsOK DEF Tickets
      <4>3. CASE ~(count[b] < Limit)
        <5>1. Entitled(b)' = Entitled(b)
          BY <1>1, <1>2, <4>3, CountInBucket
        <5>2. count'[b] >= count[b]
          BY <1>1, <1>2, CountInBucket, ConstantsOK
        <5>3. count'[b] \in Nat
          BY <1>1, <1>2, CountInBucket, ConstantsOK
        <5> QED
          BY <1>2, <3>1, <4>1, <5>1, <5>2, <5>3 DEF Tickets
      <4> QED
        BY <4>2, <4>3
    <3>2. CASE c # b
      BY <1>1, <1>2, <3>2, CountInBucket DEF Tickets
    <3> QED
      BY <3>1, <3>2
  <2> QED
    BY <1>1, <2>1 DEF Tickets
<1>5. OpenMapped'
  BY <1>1 DEF OpenMapped
<1>6. FirstGetsThrough'
  <2> SUFFICES ASSUME Cardinality(Request) <= Limit, NEW c \in Bucket, owner[c] # None, admitted[c] = 0
               PROVE  count'[c] <= Cardinality(Waiting(c)')
    BY <1>1 DEF FirstGetsThrough
  <2>1. count[c] <= Cardinality(Waiting(c))
    BY DEF FirstGetsThrough
  <2>2. CASE c = b
    <3>1. Cardinality(Waiting(b)') = Cardinality(Waiting(b)) + 1
      BY <1>1, <1>2, CountInSizes
    <3>2. count'[b] <= count[b] + 1
      BY <1>1, <1>2, CountInBucket, ConstantsOK
    <3>3. Cardinality(Waiting(b)) \in Nat /\ count'[b] \in Nat
      BY <1>1, <1>2, FiniteSets, CountInBucket, ConstantsOK
    <3> QED
      BY <1>2, <2>1, <2>2, <3>1, <3>2, <3>3
  <2>3. CASE c # b
    BY <1>1, <1>2, <2>1, <2>3, CountInBucket
  <2> QED
    BY <2>2, <2>3
<1> QED
  BY <1>3, <1>4, <1>5, <1>6

\* A new bucket is nobody's, so that what the others hold stays theirs; the
\* bucket it takes the place of was over when `now` was read, and is so still.
LEMMA CountNewInv == ASSUME IInv, NEW q \in Request, CountNew(q) PROVE IInv'
<1> USE DEF IInv
<1>1. PICK b \in Bucket, k \in Key :
         /\ Free(b) /\ k = key[q] /\ k # None /\ pc[q] = "arrived"
         /\ Over(buckets[k], lag[q])
         /\ buckets' = [buckets EXCEPT ![k] = b]
         /\ owner' = [owner EXCEPT ![b] = k]
         /\ left' = [left EXCEPT ![b] = Window - lag[q]]
         /\ admitted' = [admitted EXCEPT ![b] = 0]
         /\ CountIn(q, b, 0)
         /\ UNCHANGED <<key, pruner>>
  <2>1. NewBucket \in Bucket /\ Free(NewBucket)
    BY DEF CountNew, NewBucket
  <2>2. key[q] \in Key
    BY DEF CountNew, TypeOK
  <2> QED
    BY <2>1, <2>2, ConstantsOK DEF CountNew
<1>2. /\ \A j \in Key : buckets[j] # b
      /\ \A p \in Request : mine[p] # b
      /\ b # None /\ lag[q] \in 0..MaxLag /\ 0 \in 0..(Limit + 1)
  BY <1>1, ConstantsOK DEF Free, TypeOK
<1>3. Entitled(b) = {} /\ Waiting(b) = {}
  BY <1>2 DEF Entitled, Waiting
<1>4. TypeOK'
  <2>1. \A p \in Request \ {q} : pc'[p] = pc[p] /\ mine'[p] = mine[p] /\ ticket'[p] = ticket[p]
    BY <1>1 DEF CountIn, TypeOK
  <2>2. pc'[q] = "counted" /\ mine'[q] = b /\ ticket'[q] > 0
    BY <1>1, <1>2, CountInBucket, ConstantsOK
  <2>3. Window - lag[q] \in Past..Window
    BY <1>2, ConstantsOK DEF Past
  <2>4. \A j \in Key : buckets'[j] # None => owner'[buckets'[j]] = j
    BY <1>1, <1>2 DEF TypeOK
  <2>5. ASSUME NEW p \in Request
        PROVE  /\ key'[p] = None <=> pc'[p] = "off"
               /\ pc'[p] \in {"counted", "admitted", "refused"} =>
                     mine'[p] # None /\ owner'[mine'[p]] = key'[p] /\ ticket'[p] > 0
    <3>1. CASE p = q
      BY <1>1, <1>2, <2>2, <3>1 DEF TypeOK
    <3>2. CASE p # q
      BY <1>1, <1>2, <2>1, <3>2 DEF TypeOK
    <3> QED
      BY <3>1, <3>2
  <2>6. /\ buckets' \in [Key -> Bucket \cup {None}] /\ owner' \in [Bucket -> Key \cup {None}]
        /\ admitted' \in [Bucket -> Nat] /\ left' \in [Bucket -> Past..Window]
    BY <1>1, <2>3 DEF TypeOK
  <2> QED
    BY <1>1, <1>2, <2>4, <2>5, <2>6, CountInTypes DEF TypeOK, pruner
<1>5. /\ count'[b] = 1 /\ Cardinality(Waiting(b)') = 1
      /\ Cardinality(Entitled(b)') = IF 0 < Limit THEN 1 ELSE 0
  <2>1. count'[b] = 1
    BY <1>1, <1>2, CountInBucket, ConstantsOK
  <2>2. Cardinality(Waiting(b)) = 0 /\ Cardinality(Entitled(b)) = 0
    BY <1>3, FS_EmptySet
  <2>3. /\ Cardinality(Waiting(b)') = Cardinality(Waiting(b)) + 1
        /\ Cardinality(Entitled(b)') = Cardinality(Entitled(b)) + IF 0 < Limit THEN 1 ELSE 0
    BY <1>1, <1>2, CountInSizes
  <2> QED
    BY <2>1, <2>2, <2>3
<1>6. /\ owner'[b] = k /\ admitted'[b] = 0 /\ left'[b] = Window - lag[q]
      /\ \A c \in Bucket \ {b} :
            /\ owner'[c] = owner[c] /\ admitted'[c] = admitted[c] /\ left'[c] = left[c]
            /\ Entitled(c)' = Entitled(c) /\ Waiting(c)' = Waiting(c) /\ count'[c] = count[c]
  <2>1. /\ owner'[b] = k /\ admitted'[b] = 0 /\ left'[b] = Window - lag[q]
        /\ \A c \in Bucket \ {b} :
              owner'[c] = owner[c] /\ admitted'[c] = admitted[c] /\ left'[c] = left[c]
    BY <1>1 DEF TypeOK
  <2>2. \A c \in Bucket \ {b} :
           Entitled(c)' = Entitled(c) /\ Waiting(c)' = Waiting(c) /\ count'[c] = count[c]
    BY <1>1, <1>2, CountInBucket
  <2> QED
    BY <2>1, <2>2
<1>7. Tickets'
  <2>1. ASSUME NEW c \in Bucket
        PROVE  /\ admitted'[c] + Cardinality(Entitled(c)') <= count'[c]
               /\ admitted'[c] + Cardinality(Entitled(c)') <= Limit
    BY <1>5, <1>6, ConstantsOK DEF Tickets
  <2> QED
    BY <2>1 DEF Tickets
<1>8. OpenMapped'
  <2> SUFFICES ASSUME NEW c \in Bucket, owner'[c] # None, left'[c] >= 0
               PROVE  buckets'[owner'[c]] = c
    BY DEF OpenMapped
  <2>1. CASE c = b
    BY <1>1, <1>6, <2>1 DEF TypeOK
  <2>2. CASE c # b
    <3>1. owner[c] \in Key /\ left[c] >= 0 /\ buckets[owner[c]] = c
      BY <1>6, <2>2 DEF OpenMapped, TypeOK
    <3>2. owner[c] # k
      <4> SUFFICES ASSUME owner[c] = k PROVE FALSE
        OBVIOUS
      <4>1. buckets[k] = c /\ c # None
        BY <3>1, ConstantsOK
      <4>2. left[c] + lag[q] < 0
        BY <1>1, <4>1 DEF Over, After
      <4> QED
        BY <1>2, <3>1, <4>2 DEF TypeOK, Past
    <3> QED
      BY <1>1, <1>6, <2>2, <3>1, <3>2 DEF TypeOK
  <2> QED
    BY <2>1, <2>2
<1>9. FirstGetsThrough'
  <2> SUFFICES ASSUME Cardinality(Request) <= Limit, NEW c \in Bucket,
                      owner'[c] # None, admitted'[c] = 0
               PROVE  count'[c] <= Cardinality(Waiting(c)')
    BY DEF FirstGetsThrough
  <2>1. CASE c = b
    BY <1>5, <2>1
  <2>2. CASE c # b
    BY <1>6, <2>2 DEF FirstGetsThrough
  <2> QED
    BY <2>1, <2>2
<1> QED
  BY <1>4, <1>7, <1>8, <1>9

\* The count that a request reads is no less than its ticket: if that is let
\* through, the ticket was one of the first Limit.
LEMMA AdmitInv == ASSUME IInv, NEW q \in Request, Admit(q) PROVE IInv'
<1> USE DEF IInv
<1>1. PICK b \in Bucket :
         /\ b = mine[q] /\ pc[q] = "counted"
         /\ admitted' = [admitted EXCEPT ![b] = @ + 1]
         /\ pc' = [pc EXCEPT ![q] = "admitted"]
         /\ UNCHANGED <<buckets, owner, count, left, key, lag, mine, ticket, pruner>>
  BY DEF Admit, TypeOK
<1>2. ticket[q] <= Limit /\ q \in Entitled(b)
  <2>1. ticket[q] \in Nat /\ count[b] \in Nat
    BY ConstantsOK DEF TypeOK
  <2> QED
    BY <1>1, <2>1, ConstantsOK DEF Admit, Entitled
<1>3. /\ admitted'[b] = admitted[b] + 1 /\ pc'[q] = "admitted"
      /\ \A c \in Bucket \ {b} : admitted'[c] = admitted[c]
      /\ \A p \in Request \ {q} : pc'[p] = pc[p]
  BY <1>1 DEF TypeOK
<1>4. TypeOK'
  BY <1>1 DEF TypeOK, pruner
<1>5. /\ Entitled(b)' = Entitled(b) \ {q}
      /\ \A c \in Bucket \ {b} : Entitled(c)' = Entitled(c) /\ Waiting(c)' = Waiting(c)
  BY <1>1, <1>3 DEF Entitled, Waiting
<1>6. Cardinality(Entitled(b)') = Cardinality(Entitled(b)) - 1
  BY <1>2, <1>5, FiniteSets, FS_RemoveElement
<1>7. \A c \in Bucket : admitted[c] \in Nat /\ Cardinality(Entitled(c)) \in Nat
  BY FiniteSets DEF TypeOK
<1>8. Tickets'
  <2>1. ASSUME NEW c \in Bucket
        PROVE  admitted'[c] + Cardinality(Entitled(c)') = admitted[c] + Cardinality(Entitled(c))
    <3>1. CASE c = b
      BY <1>3, <1>6, <1>7, <3>1
    <3>2. CASE c # b
      BY <1>3, <1>5, <3>2
    <3> QED
      BY <3>1, <3>2
  <2> QED
    BY <1>1, <2>1 DEF Tickets
<1>9. OpenMapped'
  BY <1>1 DEF OpenMapped
<1>10. FirstGetsThrough'
  <2>1. admitted'[b] # 0
    BY <1>3, <1>7
  <2> QED
    BY <1>1, <1>3, <1>5, <2>1 DEF FirstGetsThrough
<1> QED
  BY <1>4, <1>8, <1>9, <1>10

\* As long as all the requests in flight would pass together, one is refused
\* only where another was let through.
LEMMA RefuseInv == ASSUME IInv, NEW q \in Request, Refuse(q) PROVE IInv'
<1> USE DEF IInv
<1>1. PICK b \in Bucket :
         /\ b = mine[q] /\ pc[q] = "counted"
         /\ pc' = [pc EXCEPT ![q] = "refused"]
         /\ UNCHANGED <<table, key, lag, mine, ticket, pruner>>
  BY DEF Refuse, TypeOK
<1>2. count[b] \in Nat /\ count[b] > Limit
  <2>1. ticket[q] \in Nat /\ count[b] \in Nat
    BY ConstantsOK DEF TypeOK
  <2> QED
    BY <1>1, <2>1, ConstantsOK DEF Refuse
<1>3. pc'[q] = "refused" /\ \A p \in Request \ {q} : pc'[p] = pc[p]
  BY <1>1 DEF TypeOK
<1>4. TypeOK'
  BY <1>1 DEF TypeOK, table, pruner
<1>5. /\ Entitled(b)' = Entitled(b) \ {q}
      /\ \A c \in Bucket \ {b} : Entitled(c)' = Entitled(c) /\ Waiting(c)' = Waiting(c)
  BY <1>1, <1>3 DEF Entitled, Waiting
<1>6. \A c \in Bucket :
         /\ admitted[c] \in Nat /\ count[c] \in Nat
         /\ Cardinality(Entitled(c)) \in Nat /\ Cardinality(Entitled(c)') \in Nat
         /\ Cardinality(Entitled(c)') <= Cardinality(Entitled(c))
  <2>1. Cardinality(Entitled(b) \ {q}) <= Cardinality(Entitled(b))
        /\ Cardinality(Entitled(b) \ {q}) \in Nat
    BY FiniteSets, FS_Difference, FS_Subset, FS_CardinalityType
  <2>2. \A c \in Bucket : admitted[c] \in Nat /\ count[c] \in Nat
    BY ConstantsOK DEF TypeOK
  <2>3. \A c \in Bucket : Cardinality(Entitled(c)) \in Nat
    BY FiniteSets
  <2>4. ASSUME NEW c \in Bucket
        PROVE  /\ Cardinality(Entitled(c)') \in Nat
               /\ Cardinality(Entitled(c)') <= Cardinality(Entitled(c))
    <3>1. CASE c = b
      BY <1>5, <2>1, <3>1
    <3>2. CASE c # b
      BY <1>5, <2>3, <3>2
    <3> QED
      BY <3>1, <3>2
  <2> QED
    BY <2>2, <2>3, <2>4
<1>7. Tickets'
  <2>1. ASSUME NEW c \in Bucket
        PROVE  /\ admitted[c] + Cardinality(Entitled(c)') <= count[c]
               /\ admitted[c] + Cardinality(Entitled(c)') <= Limit
    BY <1>6, ConstantsOK DEF Tickets
  <2> QED
    BY <1>1, <2>1 DEF Tickets, table
<1>8. OpenMapped'
  BY <1>1 DEF OpenMapped, table
<1>9. FirstGetsThrough'
  <2>1. ~(Cardinality(Request) <= Limit /\ owner[b] # None /\ admitted[b] = 0)
    BY <1>2, FiniteSets, FS_CardinalityType, ConstantsOK DEF FirstGetsThrough
  <2> QED
    BY <1>1, <1>5, <2>1 DEF FirstGetsThrough, table
<1> QED
  BY <1>4, <1>7, <1>8, <1>9

LEMMA ReturnInv == ASSUME IInv, NEW q \in Request, Return(q) PROVE IInv'
<1> USE DEF IInv
<1>1. /\ pc[q] \in {"admitted", "refused"}
      /\ pc' = [pc EXCEPT ![q] = "off"]
      /\ key' = [key EXCEPT ![q] = None] /\ mine' = [mine EXCEPT ![q] = None]
      /\ ticket' = [ticket EXCEPT ![q] = 0]
      /\ UNCHANGED <<table, lag, pruner>>
  BY DEF Return
<1>2. TypeOK'
  BY <1>1, ConstantsOK DEF TypeOK, table, pruner
<1>3. \A b \in Bucket : Entitled(b)' = Entitled(b) /\ Waiting(b)' = Waiting(b)
  BY <1>1 DEF TypeOK, Entitled, Waiting
<1> QED
  BY <1>1, <1>2, <1>3 DEF Tickets, OpenMapped, FirstGetsThrough, table

\* The pruner takes from the map only what was over when it read the clock.
LEMMA PruneInv == ASSUME IInv, Prune PROVE IInv'
<1> USE DEF IInv
<1>1. /\ buckets' = [k \in Key |-> IF Over(buckets[k], pruneLag) THEN None ELSE buckets[k]]
      /\ pruning' = FALSE /\ pruneLag' = 0
      /\ UNCHANGED <<owner, count, left, admitted, request>>
  BY DEF Prune
<1>2. TypeOK'
  <2>1. /\ buckets' \in [Key -> Bucket \cup {None}]
        /\ \A k \in Key : buckets'[k] # None => owner[buckets'[k]] = k
    BY <1>1 DEF TypeOK
  <2>2. 0 \in 0..MaxLag
    BY ConstantsOK
  <2> QED
    BY <1>1, <2>1, <2>2 DEF TypeOK, request
<1>3. OpenMapped'
  <2> SUFFICES ASSUME NEW b \in Bucket, owner[b] # None, left[b] >= 0
               PROVE  buckets'[owner[b]] = b
    BY <1>1 DEF OpenMapped
  <2>1. owner[b] \in Key /\ buckets[owner[b]] = b /\ b # None
    BY ConstantsOK DEF OpenMapped, TypeOK
  <2>2. ~(left[b] + pruneLag < 0)
    BY ConstantsOK DEF TypeOK, Past
  <2> QED
    BY <1>1, <2>1, <2>2 DEF Over, After
<1>4. Tickets' /\ FirstGetsThrough'
  BY <1>1 DEF Tickets, FirstGetsThrough, Entitled, Waiting, request
<1> QED
  BY <1>2, <1>3, <1>4

LEMMA Invariance == Spec => []IInv
<1>1. IInv /\ [Next]_vars => IInv'
  <2> SUFFICES ASSUME IInv, [Next]_vars PROVE IInv'
    OBVIOUS
  <2>1. ASSUME NEW q \in Request, Handle(q) PROVE IInv'
    BY <2>1, CountOldInv, CountNewInv, AdmitInv, RefuseInv, ReturnInv DEF Handle
  <2>2. CASE PruneStarts
    BY <2>2 DEF PruneStarts, IInv, TypeOK, Tickets, OpenMapped, FirstGetsThrough, Entitled, Waiting,
                table, request
  <2>3. CASE UNCHANGED vars
    BY <2>3 DEF IInv, TypeOK, Tickets, OpenMapped, FirstGetsThrough, Entitled, Waiting, vars,
                table, request, pruner
  <2> QED
    BY <2>1, <2>2, <2>3, TimeInv, PruneInv, ArriveInv DEF Next
<1> QED
  BY InitInv, <1>1, PTL DEF Spec

-----------------------------------------------------------------------------
(* In memory: the theorems *)

\* A request that is judged was counted, in a bucket that was made for its key,
\* and a bucket in the map is the one of the key it is mapped to.
THEOREM TypeCorrect == Spec => []TypeOK
  BY Invariance, PTL DEF IInv

\* However many requests read the count after the unlock, and whatever they
\* read, a window lets no more of them through than the limit
\* (rate_limit.go:67 and 133).
THEOREM LimitKept == Spec => []WithinLimit
<1>1. IInv => WithinLimit
  <2> SUFFICES ASSUME IInv, NEW b \in Bucket PROVE admitted[b] <= Limit
    BY DEF WithinLimit
  <2>1. admitted[b] \in Nat /\ Cardinality(Entitled(b)) \in Nat
    BY FiniteSets DEF IInv, TypeOK
  <2> QED
    BY <2>1, ConstantsOK DEF IInv, Tickets
<1> QED
  BY <1>1, Invariance, PTL

\* Neither a request nor the pruner, with a clock read before it had the mutex,
\* takes an open window from the map, so that a key has one at a time
\* (rate_limit.go:37-39 and 102-104).
THEOREM OneWindow == Spec => []OneOpenWindow
<1>1. IInv => OneOpenWindow
  BY DEF IInv, OpenMapped, OneOpenWindow
<1> QED
  BY <1>1, Invariance, PTL

\* While there are no more requests than the limit, a window that has let nobody
\* through yet refuses nobody: its count is that of the requests which wait to
\* be let through (rate_limit.go:113-140).
THEOREM SomebodyPasses == Spec => []FirstGetsThrough
  BY Invariance, PTL DEF IInv

-----------------------------------------------------------------------------
(* In Redis: the inductive invariant *)

OldAge == RedisWindow + MaxLag

RedisTypes ==
    /\ zset \subseteq Member /\ cut \subseteq Member /\ ttl \in 0..RedisWindow
    /\ age \in [Member -> 0..OldAge]
    /\ next \in [Request -> {"off", "trim", "add", "count", "expire", "reply"}]
    /\ member \in [Request -> Member \cup {None}] /\ card \in [Request -> Nat]
    /\ fate \in [Member -> {"none", "asked", "admitted", "refused", "open"}]
    /\ \A m \in Member : fate[m] = "none" <=> age[m] = OldAge

\* The members of the requests under way: young, asked about, one for each.
Own ==
    /\ \A q \in Request :
          IF next[q] = "off" THEN member[q] = None
          ELSE member[q] \in Member /\ age[member[q]] <= MaxLag /\ fate[member[q]] \in {"asked", "open"}
    /\ \A p, q \in Request : next[p] # "off" /\ member[p] = member[q] => p = q

\* The member of a request whose pipeline has come to one of those commands.
At(m, commands) == \E q \in Request : member[q] = m /\ next[q] \in commands

\* What was added, and has not expired too early, is still there, if it is not
\* so old that a later request may have trimmed it.
Kept ==
    \A m \in Member \ cut :
        fate[m] = "admitted" \/ At(m, {"count", "expire", "reply"}) =>
            m \in zset \/ age[m] >= RedisWindow

\* Nor will it expire before it is that old.
Lasting ==
    \A m \in zset \ cut :
        fate[m] = "admitted" \/ At(m, {"reply"}) => ttl > 0 /\ ttl + age[m] >= RedisWindow

\* The members that count: of requests let through, or about to be.
Passed(q) == fate[member[q]] = "asked" /\ next[q] \in {"expire", "reply"} /\ card[q] <= RedisLimit

Counted == {m \in Member \ cut : fate[m] = "admitted" \/ \E q \in Request : member[q] = m /\ Passed(q)}

\* Together in a window, less the lag.
Together(T) == \A m, n \in T : age[n] - age[m] <= RedisWindow - MaxLag - 1

Tally == \A T \in SUBSET Counted : Together(T) => Cardinality(T) <= RedisLimit

\* After a request has trimmed the set, its members are of its window.
Recent ==
    \A q \in Request : next[q] \in {"add", "count"} =>
        \A n \in zset : fate[n] # "none" /\ age[n] - age[member[q]] < RedisWindow

Near(q) == {n \in Member \ {member[q]} :
               fate[n] # "none" /\ age[n] - age[member[q]] \in -MaxLag..(RedisWindow - 1)}

\* Whatever a request counted was near it, itself not included.
Cause ==
    \A q \in Request : next[q] \in {"expire", "reply"} => card[q] <= Cardinality(Near(q)) + 1

RedisInv == RedisTypes /\ Own /\ Kept /\ Lasting /\ Tally /\ Recent /\ Cause

LEMMA SameFiniteSets ==
    \A S : (Redis!IsFiniteSet(S) <=> IsFiniteSet(S)) /\ Redis!Cardinality(S) = Cardinality(S)
  BY DEF Redis!IsFiniteSet, IsFiniteSet, Redis!Cardinality, Cardinality

LEMMA RedisConstants ==
    /\ RedisLimit \in Nat \ {0} /\ RedisWindow \in Nat \ {0} /\ MaxLag \in Nat
    /\ MaxLag < RedisWindow /\ None \notin Member /\ IsFiniteSet(Member)
    /\ OldAge \in Nat /\ MaxLag < OldAge /\ RedisWindow <= OldAge
  BY RedisOK, SameFiniteSets DEF Redis!ConstantsOK, OldAge

LEMMA RedisInitInv == Redis!Init => RedisInv
<1> SUFFICES ASSUME Redis!Init PROVE RedisInv
  OBVIOUS
<1> USE DEF Redis!Init
<1>1. RedisTypes
  BY RedisConstants DEF RedisTypes, Redis!Horizon, OldAge
<1>2. Own /\ Kept /\ Lasting /\ Recent /\ Cause
  BY RedisConstants DEF Own, Kept, Lasting, Recent, Cause, At
<1>3. Tally
  <2>1. Counted = {}
    BY DEF Counted, Passed
  <2>2. \A T \in SUBSET Counted : Cardinality(T) = 0
    BY <2>1, FS_EmptySet
  <2> QED
    BY <2>2, RedisConstants DEF Tally
<1> QED
  BY <1>1, <1>2, <1>3 DEF RedisInv

-----------------------------------------------------------------------------
(* In Redis: what the steps have in common *)

LEMMA GotoNext ==
    ASSUME RedisTypes, NEW q \in Request, NEW to, Redis!Goto(q, to),
           to \in {"off", "trim", "add", "count", "expire", "reply"}
    PROVE  /\ next'[q] = to /\ \A p \in Request \ {q} : next'[p] = next[p]
           /\ next' \in [Request -> {"off", "trim", "add", "count", "expire", "reply"}]
  BY DEF RedisTypes, Redis!Goto

\* A step after which no more members count keeps the limit.
LEMMA TallyKept ==
    ASSUME Tally, Counted' \subseteq Counted, \A m \in Counted' : age'[m] = age[m]
    PROVE  Tally'
<1> SUFFICES ASSUME NEW T \in SUBSET Counted', Together(T)' PROVE Cardinality(T) <= RedisLimit
  BY DEF Tally
<1>1. Together(T)
  BY DEF Together
<1> QED
  BY <1>1 DEF Tally

\* What was near a request stays near.
LEMMA CauseKept ==
    ASSUME RedisTypes, Cause,
           \A q \in Request : next'[q] \in {"expire", "reply"} =>
               /\ next[q] \in {"expire", "reply"} /\ card'[q] = card[q]
               /\ Near(q) \subseteq Near(q)'
    PROVE  Cause'
<1> SUFFICES ASSUME NEW q \in Request, next'[q] \in {"expire", "reply"}
             PROVE  card'[q] <= Cardinality(Near(q)') + 1
  BY DEF Cause
<1>1. card'[q] <= Cardinality(Near(q)) + 1 /\ card'[q] \in Nat
  BY DEF Cause, RedisTypes
<1>2. Near(q) \in SUBSET Near(q)' /\ Near(q)' \in SUBSET Member
  BY DEF Near
<1>3. IsFiniteSet(Near(q)')
  BY <1>2, FS_Subset, RedisConstants
<1>4. Cardinality(Near(q)) <= Cardinality(Near(q)')
  BY <1>2, <1>3, FS_Subset
<1>5. Cardinality(Near(q)) \in Nat /\ Cardinality(Near(q)') \in Nat
  BY <1>2, <1>3, FS_Subset, FS_CardinalityType
<1> QED
  BY <1>1, <1>4, <1>5

-----------------------------------------------------------------------------
(* In Redis: the commands of the pipeline *)

\* A member that is trimmed is as old as the window.
LEMMA TrimInv == ASSUME RedisInv, NEW q \in Request, Redis!Trim(q) PROVE RedisInv'
<1> USE DEF RedisInv
<1>1. /\ next[q] = "trim" /\ zset' = {m \in zset : age[m] - age[member[q]] < RedisWindow}
      /\ ttl' = (IF zset' = {} THEN 0 ELSE ttl)
      /\ Redis!Goto(q, "add") /\ UNCHANGED <<age, member, card, fate, cut>>
  BY DEF Redis!Trim
<1>2. /\ next'[q] = "add" /\ \A p \in Request \ {q} : next'[p] = next[p]
      /\ next' \in [Request -> {"off", "trim", "add", "count", "expire", "reply"}]
  BY <1>1, GotoNext
<1>3. /\ member[q] \in Member /\ age[member[q]] \in 0..MaxLag
      /\ \A m \in Member : age[m] \in 0..OldAge
  BY <1>1, RedisConstants DEF RedisTypes, Own
<1>4. RedisTypes' /\ Own'
  BY <1>1, <1>2, RedisConstants DEF RedisTypes, Own
<1>5. Kept'
  BY <1>1, <1>2, <1>3, RedisConstants DEF Kept, At, RedisTypes
<1>6. Lasting'
  BY <1>1, <1>2 DEF Lasting, At
<1>7. Tally'
  <2>1. Counted' \subseteq Counted
    BY <1>1, <1>2 DEF Counted, Passed
  <2> QED
    BY <1>1, <2>1, TallyKept
<1>8. Recent'
  <2>1. \A n \in zset' : fate[n] # "none" /\ age[n] - age[member[q]] < RedisWindow
    BY <1>1, <1>3, RedisConstants DEF RedisTypes, OldAge
  <2> QED
    BY <1>1, <1>2, <2>1 DEF Recent
<1>9. Cause'
  BY <1>1, <1>2, CauseKept DEF Near
<1> QED
  BY <1>4, <1>5, <1>6, <1>7, <1>8, <1>9

LEMMA AddInv == ASSUME RedisInv, NEW q \in Request, Redis!Add(q) PROVE RedisInv'
<1> USE DEF RedisInv
<1>1. /\ next[q] = "add" /\ zset' = zset \cup {member[q]}
      /\ Redis!Goto(q, "count") /\ UNCHANGED <<ttl, age, member, card, fate, cut>>
  BY DEF Redis!Add
<1>2. /\ next'[q] = "count" /\ \A p \in Request \ {q} : next'[p] = next[p]
      /\ next' \in [Request -> {"off", "trim", "add", "count", "expire", "reply"}]
  BY <1>1, GotoNext
<1>3. /\ member[q] \in Member /\ age[member[q]] \in 0..MaxLag
      /\ fate[member[q]] \in {"asked", "open"}
      /\ \A m \in Member : age[m] \in 0..OldAge
      /\ \A p \in Request \ {q} : member[p] # member[q]
  BY <1>1, RedisConstants DEF RedisTypes, Own
<1>4. RedisTypes' /\ Own'
  BY <1>1, <1>2, <1>3 DEF RedisTypes, Own
<1>5. Kept'
  BY <1>1, <1>2 DEF Kept, At
<1>6. Lasting'
  BY <1>1, <1>2, <1>3 DEF Lasting, At
<1>7. Tally'
  <2>1. Counted' \subseteq Counted
    BY <1>1, <1>2 DEF Counted, Passed
  <2> QED
    BY <1>1, <2>1, TallyKept
<1>8. Recent'
  <2> SUFFICES ASSUME NEW p \in Request, next'[p] \in {"add", "count"}, NEW n \in zset'
               PROVE  fate[n] # "none" /\ age[n] - age[member[p]] < RedisWindow
    BY <1>1 DEF Recent
  <2>1. next[p] \in {"add", "count"} /\ member[p] \in Member /\ age[member[p]] \in 0..OldAge
    BY <1>1, <1>2, <1>3 DEF Own
  <2>2. CASE n = member[q]
    BY <1>3, <2>1, <2>2, RedisConstants
  <2>3. CASE n # member[q]
    BY <1>1, <2>1, <2>3 DEF Recent
  <2> QED
    BY <2>2, <2>3
<1>9. Cause'
  BY <1>1, <1>2, CauseKept DEF Near
<1> QED
  BY <1>4, <1>5, <1>6, <1>7, <1>8, <1>9

\* Those that count and are together with the request are in the set it counts,
\* and whatever is in the set is near it.
LEMMA CountInv == ASSUME RedisInv, NEW q \in Request, Redis!Count(q) PROVE RedisInv'
<1> USE DEF RedisInv
<1>1. /\ next[q] = "count" /\ card' = [card EXCEPT ![q] = Cardinality(zset)]
      /\ Redis!Goto(q, "expire") /\ UNCHANGED <<zset, ttl, age, member, fate, cut>>
  BY SameFiniteSets DEF Redis!Count
<1>2. /\ next'[q] = "expire" /\ \A p \in Request \ {q} : next'[p] = next[p]
      /\ next' \in [Request -> {"off", "trim", "add", "count", "expire", "reply"}]
  BY <1>1, GotoNext
<1>3. /\ member[q] \in Member /\ age[member[q]] \in 0..MaxLag
      /\ \A m \in Member : age[m] \in 0..OldAge
      /\ \A p \in Request \ {q} : member[p] # member[q]
  BY <1>1, RedisConstants DEF RedisTypes, Own
<1>4. IsFiniteSet(zset) /\ Cardinality(zset) \in Nat
  BY FS_Subset, FS_CardinalityType, RedisConstants DEF RedisTypes
<1>5. /\ card'[q] = Cardinality(zset) /\ \A p \in Request \ {q} : card'[p] = card[p]
      /\ card' \in [Request -> Nat]
  BY <1>1, <1>4 DEF RedisTypes
<1>6. RedisTypes' /\ Own'
  BY <1>1, <1>2, <1>3, <1>5 DEF RedisTypes, Own
<1>7. Kept' /\ Lasting' /\ Recent'
  BY <1>1, <1>2 DEF Kept, Lasting, Recent, At
<1>8. Tally'
  <2> SUFFICES ASSUME NEW T \in SUBSET Counted', Together(T) PROVE Cardinality(T) <= RedisLimit
    BY <1>1 DEF Tally, Together
  <2>1. Counted' \subseteq Counted \cup {member[q]}
    BY <1>1, <1>2, <1>5 DEF Counted, Passed
  <2>2. CASE member[q] \notin T
    BY <2>1, <2>2 DEF Tally
  <2>3. CASE member[q] \in T
    <3>1. member[q] \notin cut /\ fate[member[q]] \in {"asked", "open"}
      BY <1>1, <2>3 DEF Counted, Own
    <3>2. Cardinality(zset) <= RedisLimit
      BY <1>1, <1>2, <1>3, <1>5, <2>3, <3>1 DEF Counted, Passed
    <3>3. ASSUME NEW n \in T PROVE n \in zset
      <4>1. age[n] < RedisWindow /\ n \in Member \ cut
        BY <1>1, <1>3, <2>3, RedisConstants DEF Together, Counted
      <4>2. fate[n] = "admitted" \/ At(n, {"count", "expire", "reply"})
        BY <1>1, <1>2, <2>1, <3>3 DEF Counted, Passed, At
      <4> QED
        BY <1>3, <4>1, <4>2, RedisConstants DEF Kept
    <3>4. Cardinality(T) <= Cardinality(zset) /\ Cardinality(T) \in Nat
      BY <1>4, <3>3, FS_Subset, FS_CardinalityType
    <3> QED
      BY <1>4, <3>2, <3>4, RedisConstants
  <2> QED
    BY <2>2, <2>3
<1>9. Cause'
  <2> SUFFICES ASSUME NEW p \in Request, next'[p] \in {"expire", "reply"}
               PROVE  card'[p] <= Cardinality(Near(p)) + 1
    BY <1>1 DEF Cause, Near
  <2>1. CASE p # q
    BY <1>2, <1>5, <2>1 DEF Cause
  <2>2. CASE p = q
    <3>1. ASSUME NEW n \in zset, n # member[q] PROVE n \in Near(q)
      <4>1. fate[n] # "none" /\ age[n] - age[member[q]] < RedisWindow /\ n \in Member
        BY <1>1, <3>1 DEF Recent, RedisTypes
      <4> QED
        BY <1>3, <3>1, <4>1, RedisConstants DEF Near
    <3>2. zset \ {member[q]} \in SUBSET Near(q) /\ Near(q) \in SUBSET Member
      BY <3>1 DEF Near
    <3>3. IsFiniteSet(Near(q)) /\ Cardinality(Near(q)) \in Nat
      BY <3>2, FS_Subset, FS_CardinalityType, RedisConstants
    <3>4. Cardinality(zset \ {member[q]}) <= Cardinality(Near(q))
      BY <3>2, <3>3, FS_Subset
    <3>5. Cardinality(zset) <= Cardinality(zset \ {member[q]}) + 1
      BY <1>4, FS_RemoveElement
    <3>6. Cardinality(zset \ {member[q]}) \in Nat
      BY <1>4, FS_RemoveElement, FS_CardinalityType
    <3> QED
      BY <1>4, <1>5, <2>2, <3>3, <3>4, <3>5, <3>6
  <2> QED
    BY <2>1, <2>2
<1> QED
  BY <1>6, <1>7, <1>8, <1>9

LEMMA PExpireInv == ASSUME RedisInv, NEW q \in Request, Redis!PExpire(q) PROVE RedisInv'
<1> USE DEF RedisInv
<1>1. /\ next[q] = "expire" /\ ttl' = (IF zset = {} THEN 0 ELSE RedisWindow)
      /\ Redis!Goto(q, "reply") /\ UNCHANGED <<zset, age, member, card, fate, cut>>
  BY DEF Redis!PExpire
<1>2. /\ next'[q] = "reply" /\ \A p \in Request \ {q} : next'[p] = next[p]
      /\ next' \in [Request -> {"off", "trim", "add", "count", "expire", "reply"}]
  BY <1>1, GotoNext
<1>3. RedisTypes' /\ Own'
  BY <1>1, <1>2, RedisConstants DEF RedisTypes, Own
<1>4. Kept'
  BY <1>1, <1>2 DEF Kept, At
<1>5. Lasting'
  BY <1>1, RedisConstants DEF Lasting, RedisTypes
<1>6. Tally'
  <2>1. Counted' \subseteq Counted
    BY <1>1, <1>2 DEF Counted, Passed
  <2> QED
    BY <1>1, <2>1, TallyKept
<1>7. Recent'
  BY <1>1, <1>2 DEF Recent
<1>8. Cause'
  BY <1>1, <1>2, CauseKept DEF Near
<1> QED
  BY <1>3, <1>4, <1>5, <1>6, <1>7, <1>8

-----------------------------------------------------------------------------
(* In Redis: the answer, failures, arrivals and time *)

LEMMA EndsInv ==
    ASSUME RedisInv, NEW q \in Request, NEW outcome \in {"admitted", "refused", "open"},
           Redis!Ends(q, outcome), next[q] # "off",
           outcome = "admitted" => next[q] = "reply" /\ Passed(q)
    PROVE  RedisInv'
<1> USE DEF RedisInv
<1>1. /\ member' = [member EXCEPT ![q] = None] /\ card' = [card EXCEPT ![q] = 0]
      /\ fate' = [fate EXCEPT ![member[q]] = outcome]
      /\ Redis!Goto(q, "off") /\ UNCHANGED <<zset, ttl, age, cut>>
  BY DEF Redis!Ends
<1>2. /\ next'[q] = "off" /\ \A p \in Request \ {q} : next'[p] = next[p]
      /\ next' \in [Request -> {"off", "trim", "add", "count", "expire", "reply"}]
  BY <1>1, GotoNext
<1>3. /\ member[q] \in Member /\ age[member[q]] \in 0..MaxLag /\ age[member[q]] # OldAge
      /\ \A p \in Request \ {q} : member[p] # member[q]
  BY RedisConstants DEF RedisTypes, Own
<1>4. /\ member'[q] = None /\ fate'[member[q]] = outcome
      /\ \A p \in Request \ {q} : member'[p] = member[p] /\ card'[p] = card[p]
      /\ \A m \in Member \ {member[q]} : fate'[m] = fate[m]
  BY <1>1, <1>3 DEF RedisTypes
<1>5. RedisTypes'
  BY <1>1, <1>2, <1>3, <1>4 DEF RedisTypes
<1>6. Own'
  BY <1>1, <1>2, <1>3, <1>4, RedisConstants DEF Own, RedisTypes
<1>7. ASSUME NEW m \in Member
      PROVE  /\ At(m, {"count", "expire", "reply"})' => At(m, {"count", "expire", "reply"})
             /\ At(m, {"reply"})' => At(m, {"reply"})
             /\ At(m, {"reply"}) => At(m, {"count", "expire", "reply"})
             /\ fate'[m] = "admitted" => fate[m] = "admitted" \/ At(m, {"reply"})
  <2>1. m # None
    BY RedisConstants
  <2>2. \A p \in Request : member'[p] = m => p # q
    BY <1>4, <2>1
  <2>3. /\ At(m, {"count", "expire", "reply"})' => At(m, {"count", "expire", "reply"})
        /\ At(m, {"reply"})' => At(m, {"reply"})
    BY <1>2, <1>4, <2>2 DEF At
  <2>4. fate'[m] = "admitted" => fate[m] = "admitted" \/ At(m, {"reply"})
    BY <1>4 DEF At
  <2> QED
    BY <2>3, <2>4 DEF At
<1>8. Kept'
  <2> SUFFICES ASSUME NEW m \in Member, m \notin cut,
                      fate'[m] = "admitted" \/ At(m, {"count", "expire", "reply"})'
               PROVE  m \in zset \/ age[m] >= RedisWindow
    BY <1>1 DEF Kept
  <2> QED
    BY <1>7 DEF Kept
<1>9. Lasting'
  <2> SUFFICES ASSUME NEW m \in zset, m \notin cut, fate'[m] = "admitted" \/ At(m, {"reply"})'
               PROVE  ttl > 0 /\ ttl + age[m] >= RedisWindow
    BY <1>1 DEF Lasting
  <2>1. m \in Member
    BY DEF RedisTypes
  <2> QED
    BY <1>7, <2>1 DEF Lasting
<1>10. Tally'
  <2>1. \A p \in Request : Passed(p)' => Passed(p) /\ member'[p] = member[p]
    BY <1>1, <1>2, <1>3, <1>4 DEF Passed, Own, RedisTypes
  <2>2. Counted' \subseteq Counted
    BY <1>1, <1>3, <1>4, <2>1 DEF Counted
  <2> QED
    BY <1>1, <2>2, TallyKept
<1>11. \A m \in Member : fate[m] # "none" => fate'[m] # "none"
  BY <1>4
<1>12. Recent'
  BY <1>1, <1>2, <1>4, <1>11 DEF Recent, RedisTypes
<1>13. Cause'
  <2>1. ASSUME NEW p \in Request, next'[p] \in {"expire", "reply"}
        PROVE  /\ next[p] \in {"expire", "reply"} /\ card'[p] = card[p]
               /\ Near(p) \subseteq Near(p)'
    BY <1>1, <1>2, <1>4, <1>11, <2>1 DEF Near
  <2> QED
    BY <2>1, CauseKept
<1> QED
  BY <1>5, <1>6, <1>8, <1>9, <1>10, <1>12, <1>13

LEMMA AnswerInv ==
    ASSUME RedisInv, NEW q \in Request,
           Redis!Admit(q) \/ Redis!Refuse(q) \/ Redis!Abandoned(q)
    PROVE  RedisInv'
<1>1. CASE Redis!Admit(q)
  BY <1>1, EndsInv DEF Redis!Admit, Redis!Waits, Passed
<1>2. CASE Redis!Refuse(q)
  BY <1>2, EndsInv DEF Redis!Refuse
<1>3. CASE Redis!Abandoned(q)
  BY <1>3, EndsInv DEF Redis!Abandoned
<1> QED
  BY <1>1, <1>2, <1>3

LEMMA FailOpenInv == ASSUME RedisInv, NEW q \in Request, Redis!FailOpen(q) PROVE RedisInv'
<1> USE DEF RedisInv
<1>1. /\ next[q] # "off" /\ fate[member[q]] = "asked"
      /\ fate' = [fate EXCEPT ![member[q]] = "open"]
      /\ UNCHANGED <<zset, ttl, age, next, member, card, cut>>
  BY DEF Redis!FailOpen, Redis!Waits
<1>2. /\ member[q] \in Member /\ fate'[member[q]] = "open"
      /\ \A m \in Member \ {member[q]} : fate'[m] = fate[m]
  BY <1>1 DEF RedisTypes, Own
<1>3. RedisTypes' /\ Own'
  BY <1>1, <1>2 DEF RedisTypes, Own
<1>4. Kept' /\ Lasting' /\ Recent'
  BY <1>1, <1>2 DEF Kept, Lasting, Recent, At, RedisTypes
<1>5. Tally'
  <2>1. Counted' \subseteq Counted
    BY <1>1, <1>2 DEF Counted, Passed
  <2> QED
    BY <1>1, <2>1, TallyKept
<1>6. Cause'
  BY <1>1, <1>2, CauseKept DEF Near
<1> QED
  BY <1>3, <1>4, <1>5, <1>6

LEMMA ResendInv == ASSUME RedisInv, NEW q \in Request, Redis!Resend(q) PROVE RedisInv'
<1> USE DEF RedisInv
<1>1. /\ next[q] # "off" /\ Redis!Goto(q, "trim")
      /\ UNCHANGED <<zset, ttl, age, member, card, fate, cut>>
  BY DEF Redis!Resend, Redis!Waits
<1>2. /\ next'[q] = "trim" /\ \A p \in Request \ {q} : next'[p] = next[p]
      /\ next' \in [Request -> {"off", "trim", "add", "count", "expire", "reply"}]
  BY <1>1, GotoNext
<1>3. RedisTypes' /\ Own'
  BY <1>1, <1>2 DEF RedisTypes, Own
<1>4. Kept' /\ Lasting' /\ Recent'
  BY <1>1, <1>2 DEF Kept, Lasting, Recent, At
<1>5. Tally'
  <2>1. Counted' \subseteq Counted
    BY <1>1, <1>2 DEF Counted, Passed
  <2> QED
    BY <1>1, <2>1, TallyKept
<1>6. Cause'
  BY <1>1, <1>2, CauseKept DEF Near
<1> QED
  BY <1>3, <1>4, <1>5, <1>6

\* A request that arrives has a member nobody remembers.
LEMMA RedisArriveInv ==
    ASSUME RedisInv, NEW q \in Request, NEW m \in Member, NEW behind \in 0..MaxLag,
           Redis!Arrive(q, m, behind)
    PROVE  RedisInv'
<1> USE DEF RedisInv
<1>1. /\ next[q] = "off" /\ fate[m] = "none" /\ m \notin zset
      /\ member' = [member EXCEPT ![q] = m]
      /\ age' = [age EXCEPT ![m] = behind] /\ fate' = [fate EXCEPT ![m] = "asked"]
      /\ Redis!Goto(q, "trim") /\ UNCHANGED <<zset, ttl, card, cut>>
  BY DEF Redis!Arrive
<1>2. /\ next'[q] = "trim" /\ \A p \in Request \ {q} : next'[p] = next[p]
      /\ next' \in [Request -> {"off", "trim", "add", "count", "expire", "reply"}]
  BY <1>1, GotoNext
<1>3. /\ member'[q] = m /\ \A p \in Request \ {q} : member'[p] = member[p]
      /\ age'[m] = behind /\ fate'[m] = "asked"
      /\ \A n \in Member \ {m} : age'[n] = age[n] /\ fate'[n] = fate[n]
  BY <1>1 DEF RedisTypes
<1>4. /\ \A p \in Request : member[p] # m
      /\ behind \in 0..OldAge /\ behind # OldAge /\ m # None
  BY <1>1, RedisConstants DEF Own
<1>5. RedisTypes'
  BY <1>1, <1>2, <1>3, <1>4 DEF RedisTypes
<1>6. Own'
  BY <1>1, <1>2, <1>3, <1>4, RedisConstants DEF Own
<1>7. Kept' /\ Lasting'
  BY <1>1, <1>2, <1>3, <1>4 DEF Kept, Lasting, At, RedisTypes
<1>8. Tally'
  <2>1. \A p \in Request : Passed(p)' => Passed(p) /\ member'[p] = member[p]
    BY <1>1, <1>2, <1>3, <1>4, RedisConstants DEF Passed, Own, RedisTypes
  <2>2. Counted' \subseteq Counted /\ m \notin Counted'
    BY <1>1, <1>3, <1>4, <2>1 DEF Counted
  <2>3. \A n \in Counted' : age'[n] = age[n]
    BY <1>3, <2>2 DEF Counted
  <2> QED
    BY <2>2, <2>3, TallyKept
<1>9. Recent'
  <2> SUFFICES ASSUME NEW p \in Request, next'[p] \in {"add", "count"}, NEW n \in zset
               PROVE  fate'[n] # "none" /\ age'[n] - age'[member'[p]] < RedisWindow
    BY <1>1 DEF Recent
  <2>1. /\ next[p] \in {"add", "count"} /\ member'[p] = member[p] /\ member[p] \in Member \ {m}
        /\ n \in Member \ {m}
    BY <1>1, <1>2, <1>3, <1>4 DEF Own, RedisTypes
  <2> QED
    BY <1>3, <2>1 DEF Recent
<1>10. Cause'
  <2>1. ASSUME NEW p \in Request, next'[p] \in {"expire", "reply"}
        PROVE  /\ next[p] \in {"expire", "reply"} /\ card'[p] = card[p]
               /\ Near(p) \subseteq Near(p)'
    <3>1. /\ next[p] \in {"expire", "reply"} /\ member'[p] = member[p]
          /\ member[p] \in Member \ {m}
      BY <1>1, <1>2, <1>3, <1>4, <2>1 DEF Own
    <3>2. \A n \in Near(p) : n # m
      BY <1>1 DEF Near
    <3> QED
      BY <1>1, <1>3, <3>1, <3>2 DEF Near
  <2> QED
    BY <2>1, CauseKept
<1> QED
  BY <1>5, <1>6, <1>7, <1>8, <1>9, <1>10

\* A key expires no earlier than its members are as old as the window, except
\* for those that have not seen to it yet.
LEMMA RedisTimeInv == ASSUME RedisInv, Redis!Time PROVE RedisInv'
<1> USE DEF RedisInv
<1>1. /\ \A q \in Request : next[q] # "off" => age[member[q]] < MaxLag
      /\ age' = [m \in Member |-> IF age[m] < OldAge THEN age[m] + 1 ELSE OldAge]
      /\ fate' = [m \in Member |-> IF age'[m] < OldAge THEN fate[m] ELSE "none"]
      /\ ttl' = (IF ttl = 0 THEN 0 ELSE ttl - 1)
      /\ zset' = (IF ttl = 1 THEN {} ELSE zset)
      /\ cut' = {m \in cut : age'[m] < OldAge} \cup
                (IF ttl = 1
                 THEN {m \in zset : \E q \in Request : member[q] = m /\ next[q] \in {"count", "expire"}}
                 ELSE {})
      /\ UNCHANGED <<next, member, card>>
  BY DEF Redis!Time, Redis!Horizon, OldAge
<1>2. \A m \in Member : age[m] \in 0..OldAge /\ (fate[m] = "none" <=> age[m] = OldAge)
  BY DEF RedisTypes
\* What is remembered is one older, and what is not has not been for a while.
<1>3. ASSUME NEW m \in Member
      PROVE  /\ age'[m] \in 0..OldAge /\ (fate'[m] = "none" <=> age'[m] = OldAge)
             /\ fate'[m] # "none" => fate'[m] = fate[m] /\ age'[m] = age[m] + 1
             /\ fate[m] # "none" => age'[m] = age[m] + 1
             /\ fate[m] # "none" /\ age[m] + 1 # OldAge => fate'[m] = fate[m]
  BY <1>1, <1>2, RedisConstants
<1>4. ASSUME NEW q \in Request, next[q] # "off"
      PROVE  /\ member[q] \in Member /\ age[member[q]] \in 0..(MaxLag - 1)
             /\ age'[member[q]] = age[member[q]] + 1 /\ fate'[member[q]] = fate[member[q]]
             /\ fate[member[q]] # "none" /\ age'[member[q]] \in 0..MaxLag
  <2>1. member[q] \in Member /\ fate[member[q]] # "none"
    BY <1>4 DEF Own
  <2>2. age[member[q]] \in 0..(MaxLag - 1)
    BY <1>1, <1>2, <1>4, <2>1, RedisConstants
  <2> QED
    BY <1>3, <2>1, <2>2, RedisConstants
<1>5. RedisTypes'
  <2>1. /\ age' \in [Member -> 0..OldAge]
        /\ fate' \in [Member -> {"none", "asked", "admitted", "refused", "open"}]
    BY <1>1, <1>3 DEF RedisTypes
  <2>2. zset' \subseteq Member /\ cut' \subseteq Member /\ ttl' \in 0..RedisWindow
    BY <1>1, RedisConstants DEF RedisTypes
  <2> QED
    BY <1>1, <1>3, <2>1, <2>2 DEF RedisTypes
<1>6. Own'
  BY <1>1, <1>4, RedisConstants DEF Own
<1>7. \A m \in Member : m \in cut /\ fate'[m] # "none" => m \in cut'
  BY <1>1, <1>3, RedisConstants
<1>8. ASSUME NEW m \in Member, NEW commands, At(m, commands), "off" \notin commands
      PROVE  fate'[m] # "none"
  BY <1>4, <1>8 DEF At
<1>9. Kept'
  <2> SUFFICES ASSUME NEW m \in Member, m \notin cut',
                      fate'[m] = "admitted" \/ At(m, {"count", "expire", "reply"})'
               PROVE  m \in zset' \/ age'[m] >= RedisWindow
    BY DEF Kept
  <2>1. /\ fate'[m] # "none" /\ m \notin cut
        /\ fate[m] = "admitted" \/ At(m, {"count", "expire", "reply"})
    <3>1. At(m, {"count", "expire", "reply"})' => At(m, {"count", "expire", "reply"})
      BY <1>1 DEF At
    <3>2. fate'[m] # "none"
      BY <1>8, <3>1
    <3> QED
      BY <1>3, <1>7, <3>1, <3>2
  <2>2. m \in zset \/ age[m] >= RedisWindow
    BY <2>1 DEF Kept
  <2>3. age'[m] = age[m] + 1
    BY <1>3, <2>1
  <2>4. CASE age[m] >= RedisWindow
    BY <1>2, <2>3, <2>4, RedisConstants
  <2>5. CASE m \in zset /\ ttl # 1
    BY <1>1, <2>5
  <2>6. CASE m \in zset /\ ttl = 1
    <3>1. ~At(m, {"count", "expire"})
      BY <1>1, <2>6 DEF At
    <3>2. fate[m] = "admitted" \/ At(m, {"reply"})
      BY <2>1, <3>1 DEF At
    <3>3. ttl + age[m] >= RedisWindow
      BY <2>1, <2>6, <3>2 DEF Lasting
    <3> QED
      BY <1>2, <2>3, <2>6, <3>3, RedisConstants
  <2> QED
    BY <2>2, <2>4, <2>5, <2>6
<1>10. Lasting'
  <2> SUFFICES ASSUME NEW m \in zset', m \notin cut', fate'[m] = "admitted" \/ At(m, {"reply"})'
               PROVE  ttl' > 0 /\ ttl' + age'[m] >= RedisWindow
    BY DEF Lasting
  <2>1. m \in zset /\ m \in Member /\ ttl # 1
    BY <1>1 DEF RedisTypes
  <2>2. /\ fate'[m] # "none" /\ m \notin cut
        /\ fate[m] = "admitted" \/ At(m, {"reply"})
    <3>1. At(m, {"reply"})' => At(m, {"reply"})
      BY <1>1 DEF At
    <3>2. fate'[m] # "none"
      BY <1>8, <2>1, <3>1
    <3> QED
      BY <1>3, <1>7, <2>1, <3>1, <3>2
  <2>3. ttl > 0 /\ ttl + age[m] >= RedisWindow
    BY <2>1, <2>2 DEF Lasting
  <2>4. age'[m] = age[m] + 1 /\ ttl' = ttl - 1 /\ ttl \in Nat
    <3>1. age'[m] = age[m] + 1
      BY <1>3, <2>1, <2>2
    <3>2. ttl \in Nat
      BY RedisConstants DEF RedisTypes
    <3> QED
      BY <1>1, <2>3, <3>1, <3>2
  <2> QED
    BY <1>2, <2>1, <2>3, <2>4, RedisConstants
<1>11. Tally'
  <2> SUFFICES ASSUME NEW T \in SUBSET Counted', Together(T)' PROVE Cardinality(T) <= RedisLimit
    BY DEF Tally
  <2>1. ASSUME NEW m \in Counted' PROVE m \in Counted /\ age'[m] = age[m] + 1
    <3>1. m \in Member /\ m \notin cut' /\ fate'[m] # "none"
      BY <1>1, <1>4 DEF Counted, Passed
    <3>2. m \notin cut /\ fate'[m] = fate[m] /\ age'[m] = age[m] + 1
      BY <1>3, <1>7, <3>1
    <3> QED
      BY <1>1, <1>3, <3>1, <3>2 DEF Counted, Passed
  <2>2. Together(T)
    <3> SUFFICES ASSUME NEW m \in T, NEW n \in T
                 PROVE  age[n] - age[m] <= RedisWindow - MaxLag - 1
      BY DEF Together
    <3>1. age'[n] - age'[m] <= RedisWindow - MaxLag - 1
      BY DEF Together
    <3>2. /\ age'[n] = age[n] + 1 /\ age'[m] = age[m] + 1
          /\ age[n] \in Nat /\ age[m] \in Nat
      BY <1>2, <2>1 DEF Counted
    <3> QED
      BY <3>1, <3>2, RedisConstants
  <2> QED
    BY <2>1, <2>2 DEF Tally
\* Both ages of a pair grow, as long as it is near.
<1>12. ASSUME NEW q \in Request, next[q] # "off", NEW n \in Member, fate[n] # "none",
              age[n] - age[member[q]] < RedisWindow
       PROVE  fate'[n] = fate[n] /\ age'[n] - age'[member[q]] = age[n] - age[member[q]]
  <2>1. /\ age[n] \in Nat /\ age[member[q]] \in 0..(MaxLag - 1)
        /\ age'[member[q]] = age[member[q]] + 1
    BY <1>2, <1>4, <1>12
  <2>2. age[n] + 1 # OldAge
    BY <1>12, <2>1, RedisConstants DEF OldAge
  <2>3. fate'[n] = fate[n] /\ age'[n] = age[n] + 1
    BY <1>3, <1>12, <2>2
  <2> QED
    BY <2>1, <2>3
<1>13. Recent'
  <2> SUFFICES ASSUME NEW q \in Request, next[q] \in {"add", "count"}, NEW n \in zset'
               PROVE  fate'[n] # "none" /\ age'[n] - age'[member[q]] < RedisWindow
    BY <1>1 DEF Recent
  <2>1. n \in zset /\ n \in Member
    BY <1>1 DEF RedisTypes
  <2>2. fate[n] # "none" /\ age[n] - age[member[q]] < RedisWindow
    BY <2>1 DEF Recent
  <2> QED
    BY <1>12, <2>1, <2>2
<1>14. Cause'
  <2>1. ASSUME NEW q \in Request, next[q] \in {"expire", "reply"} PROVE Near(q) \subseteq Near(q)'
    <3> SUFFICES ASSUME NEW n \in Near(q) PROVE n \in Near(q)'
      OBVIOUS
    <3>1. /\ n \in Member \ {member[q]} /\ fate[n] # "none"
          /\ age[n] - age[member[q]] \in -MaxLag..(RedisWindow - 1)
      BY DEF Near
    <3>2. age[n] - age[member[q]] < RedisWindow
      BY <3>1, RedisConstants
    <3> QED
      BY <1>1, <1>12, <2>1, <3>1, <3>2 DEF Near
  <2> QED
    BY <1>1, <2>1, CauseKept
<1> QED
  BY <1>5, <1>6, <1>9, <1>10, <1>11, <1>13, <1>14

LEMMA RedisInvariance == Redis!Spec => []RedisInv
<1>1. RedisInv /\ [Redis!Next]_(Redis!vars) => RedisInv'
  <2> SUFFICES ASSUME RedisInv, [Redis!Next]_(Redis!vars) PROVE RedisInv'
    OBVIOUS
  <2>1. ASSUME NEW q \in Request,
               \/ \E m \in Member, behind \in 0..MaxLag : Redis!Arrive(q, m, behind)
               \/ Redis!Trim(q) \/ Redis!Add(q) \/ Redis!Count(q) \/ Redis!PExpire(q)
               \/ Redis!Admit(q) \/ Redis!Refuse(q) \/ Redis!FailOpen(q)
               \/ Redis!Abandoned(q) \/ Redis!Resend(q)
        PROVE  RedisInv'
    BY <2>1, RedisArriveInv, TrimInv, AddInv, CountInv, PExpireInv, AnswerInv, FailOpenInv, ResendInv
  <2>2. CASE UNCHANGED Redis!vars
    BY <2>2 DEF Redis!vars, RedisInv, RedisTypes, Own, Kept, Lasting, Tally, Together, Counted,
                Passed, Recent, Cause, Near, At
  <2> QED
    BY <2>1, <2>2, RedisTimeInv DEF Redis!Next
<1> QED
  BY RedisInitInv, <1>1, PTL DEF Redis!Spec

-----------------------------------------------------------------------------
(* In Redis: the theorems *)

\* Hosts trim, add and count in between each other, requests are sent again or
\* given up, and the key expires: of the requests that come within a window,
\* less the lag, no more than the limit are counted in, those that Redis failed
\* or lost with the key excepted (ratelimit_redis.go:87-105).
THEOREM SlidingLimitKept == Redis!Spec => []SlidingLimit
<1>1. RedisInv => SlidingLimit
  <2> DEFINE counted == {m \in Member : fate[m] = "admitted"} \ cut
             T(m) == {n \in counted : age[n] - age[m] \in 0..(RedisWindow - MaxLag - 1)}
  <2> SUFFICES ASSUME RedisInv, NEW m \in counted PROVE Cardinality(T(m)) <= RedisLimit
    BY SameFiniteSets DEF SlidingLimit, Redis!SlidingLimit
  <2>1. T(m) \in SUBSET Counted
    BY DEF Counted
  <2>2. \A n \in Member : age[n] \in Nat
    BY DEF RedisInv, RedisTypes
  <2>3. Together(T(m))
    BY <2>2, RedisConstants DEF Together
  <2> QED
    BY <2>1, <2>3 DEF RedisInv, Tally
<1> QED
  BY <1>1, RedisInvariance, PTL

\* A request is refused only for as many others as the limit that came near it
\* (ratelimit_redis.go:76), whatever was trimmed, expired or sent again.
THEOREM NoneRefusedInVain == Redis!Spec => []RefusedForCause
<1>1. RedisInv => RefusedForCause
  <2> SUFFICES ASSUME RedisInv, NEW q \in Request, next[q] = "reply", card[q] > RedisLimit
               PROVE  Cardinality(Near(q)) >= RedisLimit
    BY SameFiniteSets DEF RefusedForCause, Redis!RefusedForCause, Near
  <2>1. card[q] <= Cardinality(Near(q)) + 1 /\ card[q] \in Nat
    BY DEF RedisInv, Cause, RedisTypes
  <2>2. Near(q) \in SUBSET Member
    BY DEF Near
  <2>3. Cardinality(Near(q)) \in Nat
    BY <2>2, FS_Subset, FS_CardinalityType, RedisConstants
  <2> QED
    BY <2>1, <2>3, RedisConstants
<1> QED
  BY <1>1, RedisInvariance, PTL
=============================================================================
