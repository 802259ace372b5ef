-------------------------- MODULE Migrations_proofs --------------------------
(***************************************************************************)
(* Proofs about Migrations for any migrations, any processes with any of   *)
(* the migrations compiled in, and any interleaving of their statements.   *)
(***************************************************************************)
EXTENDS Migrations, SequenceTheorems, FiniteSetTheorems, WellFoundedInduction, TLAPS

-----------------------------------------------------------------------------
(* Lists in order *)

\* R is a strict total order on S.
Orders(R, S) ==
    /\ \A x \in S : <<x, x>> \notin R
    /\ \A x, y, z \in S : <<x, y>> \in R /\ <<y, z>> \in R => <<x, z>> \in R
    /\ \A x, y \in S : x = y \/ <<x, y>> \in R \/ <<y, x>> \in R

LEMMA SortedExists ==
    ASSUME NEW S, IsFiniteSet(S), NEW R, Orders(R, S)
    PROVE  \E s \in [1..Cardinality(S) -> S] :
              \A a, b \in DOMAIN s : a < b => <<s[a], s[b]>> \in R
<1> DEFINE n == Cardinality(S)
           upto(x) == {y \in S : y = x \/ <<y, x>> \in R}
           rank == [x \in S |-> Cardinality(upto(x))]
<1>1. n \in Nat
  BY FS_CardinalityType
<1>2. ASSUME NEW x \in S
      PROVE  IsFiniteSet(upto(x)) /\ Cardinality(upto(x)) \in 1..n
  <2>1. upto(x) \in SUBSET S /\ x \in upto(x)
    OBVIOUS
  <2>2. IsFiniteSet(upto(x)) /\ Cardinality(upto(x)) <= n
    BY <2>1, FS_Subset
  <2>3. Cardinality(upto(x)) \in Nat /\ Cardinality(upto(x)) # 0
    BY <2>1, <2>2, FS_CardinalityType, FS_EmptySet
  <2> QED
    BY <1>1, <2>2, <2>3
<1>3. rank \in [S -> 1..n]
  BY <1>2
<1>4. ASSUME NEW x \in S, NEW y \in S, <<x, y>> \in R
      PROVE  rank[x] < rank[y]
  <2>1. upto(x) \in SUBSET upto(y)
    BY <1>4 DEF Orders
  <2>2. y \in upto(y) /\ y \notin upto(x)
    BY <1>4 DEF Orders
  <2>3. Cardinality(upto(x)) <= Cardinality(upto(y)) /\ Cardinality(upto(x)) # Cardinality(upto(y))
    <3>1. IsFiniteSet(upto(y)) /\ upto(x) # upto(y)
      BY <1>2, <2>2
    <3> HIDE DEF upto
    <3> QED
      BY <2>1, <3>1, FS_Subset, SMTT(30)
  <2> QED
    BY <1>2, <2>3
<1> HIDE DEF rank, n
<1>5. rank \in Injection(S, 1..n)
  <2>1. ASSUME NEW x \in S, NEW y \in S, rank[x] = rank[y] PROVE x = y
    <3>1. rank[x] \in Int /\ rank[y] \in Int
      BY <1>1, <1>3
    <3>2. <<x, y>> \notin R /\ <<y, x>> \notin R
      BY <1>4, <2>1, <3>1
    <3> QED
      BY <3>2 DEF Orders
  <2> QED
    BY <1>3, <2>1 DEF Injection, IsInjective
<1>6. \A k \in 1..n : \E x \in S : rank[x] = k
  <2>1. IsFiniteSet(1..n) /\ Cardinality(1..n) = Cardinality(S)
    BY <1>1, FS_Interval DEF n
  <2>2. rank \in Surjection(S, 1..n)
    BY <1>5, <2>1, FS_Injection
  <2> QED
    BY <2>2 DEF Surjection
<1> DEFINE s == [k \in 1..n |-> CHOOSE x \in S : rank[x] = k]
<1>7. s \in [1..n -> S] /\ \A k \in 1..n : rank[s[k]] = k
  BY <1>6
<1> HIDE DEF s
<1>8. ASSUME NEW a \in 1..n, NEW b \in 1..n, a < b PROVE <<s[a], s[b]>> \in R
  <2>1. s[a] \in S /\ s[b] \in S /\ rank[s[a]] = a /\ rank[s[b]] = b
    BY <1>7
  <2>2. ~(<<s[b], s[a]>> \in R) /\ s[a] # s[b]
    BY <1>4, <1>8, <2>1
  <2> QED
    BY <2>1, <2>2 DEF Orders
<1> QED
  BY <1>7, <1>8 DEF n

\* A list in order holds every member, and is a sequence.
LEMMA SortedHolds ==
    ASSUME NEW S, IsFiniteSet(S), NEW R, Orders(R, S),
           NEW s \in [1..Cardinality(S) -> S],
           \A a, b \in DOMAIN s : a < b => <<s[a], s[b]>> \in R
    PROVE  s \in Seq(S) /\ ToSet(s) = S
<1> DEFINE n == Cardinality(S)
<1>1. n \in Nat /\ IsFiniteSet(1..n) /\ Cardinality(1..n) = n
  BY FS_CardinalityType, FS_Interval
<1>2. s \in Seq(S)
  BY <1>1
<1>3. ASSUME NEW a \in 1..n, NEW b \in 1..n, s[a] = s[b] PROVE a = b
  <2>1. s[a] \in S /\ <<s[a], s[a]>> \notin R
    BY DEF Orders
  <2>2. ~(a < b) /\ ~(b < a)
    BY <1>3, <2>1
  <2> QED
    BY <1>1, <2>2
<1>4. s \in Injection(1..n, S)
  BY <1>3 DEF Injection, IsInjective
<1>5. s \in Surjection(1..n, S)
  BY <1>1, <1>4, FS_Injection
<1>6. \A x \in S : \E k \in 1..n : s[k] = x
  BY <1>5 DEF Surjection
<1> QED
  BY <1>2, <1>6 DEF ToSet

LEMMA IdsFinite ==
    ASSUME NEW S \in SUBSET Id
    PROVE  IsFiniteSet(S) /\ S \subseteq Nat
<1>1. IsFiniteSet(Id) /\ Id \subseteq Nat
  BY FS_Interval, ConstantsOK DEF Id
<1>2. IsFiniteSet(S)
  BY <1>1, FS_Subset
<1> QED
  BY <1>1, <1>2

LEMMA ByIdLists ==
    ASSUME NEW S \in SUBSET Id
    PROVE  ById(S) \in Seq(S) /\ ToSet(ById(S)) = S
           /\ \A a, b \in DOMAIN ById(S) : a < b => ById(S)[a] < ById(S)[b]
<1> DEFINE R == {e \in S \X S : e[1] < e[2]}
<1>1. IsFiniteSet(S) /\ S \subseteq Nat
  BY IdsFinite
<1>2. \A x, y \in S : <<x, y>> \in R <=> x < y
  OBVIOUS
<1> HIDE DEF R
<1>3. Orders(R, S)
  BY <1>1, <1>2 DEF Orders
<1>4. PICK s \in [1..Cardinality(S) -> S] : \A a, b \in DOMAIN s : a < b => <<s[a], s[b]>> \in R
  BY <1>1, <1>3, SortedExists
<1>5. \E t \in [1..Cardinality(S) -> S] : \A a, b \in DOMAIN t : a < b => t[a] < t[b]
  BY <1>2, <1>4
<1>6. /\ ById(S) \in [1..Cardinality(S) -> S]
      /\ \A a, b \in DOMAIN ById(S) : a < b => ById(S)[a] < ById(S)[b]
  BY <1>5 DEF ById, Sorted
<1>7. \A a, b \in DOMAIN ById(S) : a < b => <<ById(S)[a], ById(S)[b]>> \in R
  BY <1>2, <1>6
<1> QED
  BY <1>1, <1>3, <1>6, <1>7, SortedHolds

LEMMA NewestFirstLists ==
    ASSUME NEW S \in SUBSET Id, \A i \in Id : table[i] \in Nat
    PROVE  NewestFirst(S) \in Seq(S) /\ ToSet(NewestFirst(S)) = S
           /\ \A a, b \in DOMAIN NewestFirst(S) :
                 a < b => Newer(NewestFirst(S)[a], NewestFirst(S)[b])
<1> DEFINE R == {e \in S \X S : Newer(e[1], e[2])}
<1>1. IsFiniteSet(S) /\ S \subseteq Nat
  BY IdsFinite
<1>2. \A x, y \in S : <<x, y>> \in R <=> Newer(x, y)
  OBVIOUS
<1> HIDE DEF R
<1>3. Orders(R, S)
  <2>1. \A x \in S : table[x] \in Nat /\ x \in Nat
    BY <1>1
  <2>2. \A x \in S : ~Newer(x, x)
    BY <2>1 DEF Newer
  <2>3. \A x, y, z \in S : Newer(x, y) /\ Newer(y, z) => Newer(x, z)
    BY <2>1 DEF Newer
  <2>4. \A x, y \in S : x = y \/ Newer(x, y) \/ Newer(y, x)
    BY <2>1 DEF Newer
  <2> QED
    BY <1>2, <2>2, <2>3, <2>4 DEF Orders
<1>4. PICK s \in [1..Cardinality(S) -> S] : \A a, b \in DOMAIN s : a < b => <<s[a], s[b]>> \in R
  BY <1>1, <1>3, SortedExists
<1>5. \E t \in [1..Cardinality(S) -> S] : \A a, b \in DOMAIN t : a < b => Newer(t[a], t[b])
  BY <1>2, <1>4
<1>6. /\ NewestFirst(S) \in [1..Cardinality(S) -> S]
      /\ \A a, b \in DOMAIN NewestFirst(S) :
            a < b => Newer(NewestFirst(S)[a], NewestFirst(S)[b])
  BY <1>5 DEF NewestFirst, Sorted
<1>7. \A a, b \in DOMAIN NewestFirst(S) :
         a < b => <<NewestFirst(S)[a], NewestFirst(S)[b]>> \in R
  BY <1>2, <1>6
<1> QED
  BY <1>1, <1>3, <1>6, <1>7, SortedHolds

-----------------------------------------------------------------------------
(* What is still to do *)

Rest(p) == ToSet(todo[p])

LEMMA Emptied == ToSet(<<>>) = {}
  BY DEF ToSet

LEMMA HeadOfList ==
    ASSUME NEW s \in Seq(Id), s # <<>>
    PROVE  /\ Head(s) \in Id /\ Tail(s) \in Seq(Id)
           /\ 1 \in DOMAIN s /\ Head(s) = s[1]
           /\ ToSet(s) = {Head(s)} \cup ToSet(Tail(s))
           /\ \A b \in DOMAIN Tail(s) : b + 1 \in DOMAIN s /\ Tail(s)[b] = s[b + 1]
<1>1. Len(s) \in Nat /\ Len(s) # 0 /\ DOMAIN s = 1..Len(s) /\ \A k \in DOMAIN s : s[k] \in Id
  BY LenProperties, EmptySeq
<1>2. /\ Head(s) \in Id /\ Tail(s) \in Seq(Id) /\ Len(Tail(s)) = Len(s) - 1
      /\ \A k \in 1..Len(Tail(s)) : Tail(s)[k] = s[k + 1]
  BY HeadTailProperties
<1>3. DOMAIN Tail(s) = 1..(Len(s) - 1)
  BY <1>2, LenProperties
<1>4. Head(s) = s[1] /\ 1 \in DOMAIN s
  BY <1>1
<1>5. \A b \in DOMAIN Tail(s) : b + 1 \in DOMAIN s /\ Tail(s)[b] = s[b + 1]
  BY <1>1, <1>2, <1>3
<1>6. ASSUME NEW k \in DOMAIN s, k # 1
      PROVE  k - 1 \in DOMAIN Tail(s) /\ Tail(s)[k - 1] = s[k]
  <2>1. k - 1 \in DOMAIN Tail(s)
    BY <1>1, <1>3, <1>6
  <2> QED
    BY <1>1, <1>5, <2>1
<1>7. ToSet(s) = {Head(s)} \cup ToSet(Tail(s))
  <2>1. ASSUME NEW k \in DOMAIN s PROVE s[k] \in {Head(s)} \cup ToSet(Tail(s))
    <3>1. CASE k = 1
      BY <1>4, <3>1
    <3>2. CASE k # 1
      BY <1>6, <3>2 DEF ToSet
    <3> QED
      BY <3>1, <3>2
  <2>2. Head(s) \in ToSet(s)
    BY <1>4 DEF ToSet
  <2>3. \A b \in DOMAIN Tail(s) : Tail(s)[b] \in ToSet(s)
    BY <1>5 DEF ToSet
  <2> QED
    BY <2>1, <2>2, <2>3 DEF ToSet
<1> QED
  BY <1>2, <1>4, <1>5, <1>7

\* The order of a list is that of its rest, and its head comes first.
Increasing(s) == \A a, b \in DOMAIN s : a < b => s[a] < s[b]
Falling(s)    == \A a, b \in DOMAIN s : a < b => Newer(s[a], s[b])

LEMMA HeadLeast ==
    ASSUME NEW s \in Seq(Id), s # <<>>, Increasing(s)
    PROVE  Increasing(Tail(s)) /\ \A k \in ToSet(Tail(s)) : Head(s) < k
<1>1. DOMAIN s = 1..Len(s) /\ Len(s) \in Nat
  BY LenProperties
<1>2. /\ 1 \in DOMAIN s /\ Head(s) = s[1]
      /\ \A b \in DOMAIN Tail(s) : b \in Nat /\ b > 0 /\ b + 1 \in DOMAIN s /\ Tail(s)[b] = s[b + 1]
  BY HeadOfList, LenProperties
<1> QED
  BY <1>1, <1>2 DEF Increasing, ToSet

LEMMA HeadNewest ==
    ASSUME NEW s \in Seq(Id), s # <<>>, Falling(s)
    PROVE  Falling(Tail(s)) /\ \A k \in ToSet(Tail(s)) : Newer(Head(s), k)
<1>1. DOMAIN s = 1..Len(s) /\ Len(s) \in Nat
  BY LenProperties
<1>2. /\ 1 \in DOMAIN s /\ Head(s) = s[1]
      /\ \A b \in DOMAIN Tail(s) : b \in Nat /\ b > 0 /\ b + 1 \in DOMAIN s /\ Tail(s)[b] = s[b + 1]
  BY HeadOfList, LenProperties
<1> HIDE DEF Newer
<1> QED
  BY <1>1, <1>2 DEF Falling, ToSet

\* A list from the newest that breaks off leaves out what is older than all it
\* holds.
LEMMA BrokenOff ==
    ASSUME NEW s \in Seq(Id), Falling(s), NEW n \in 0..Len(s),
           NEW c, c = SubSeq(s, 1, n)
    PROVE  /\ c \in Seq(Id) /\ Falling(c) /\ ToSet(c) \subseteq ToSet(s)
           /\ \A i \in ToSet(s) \ ToSet(c), k \in ToSet(c) : Newer(k, i)
<1>1. DOMAIN s = 1..Len(s) /\ Len(s) \in Nat /\ \A a \in DOMAIN s : s[a] \in Id
  BY LenProperties
<1>2. c \in Seq(Id) /\ Len(c) = n /\ \A a \in 1..n : c[a] = s[a]
  <2>1. \A a \in 1..n : s[a] \in Id
    BY <1>1
  <2>2. /\ c \in Seq(Id) /\ Len(c) = (IF 1 <= n THEN n - 1 + 1 ELSE 0)
        /\ \A a \in 1..n - 1 + 1 : c[a] = s[1 + a - 1]
    BY <2>1, SubSeqProperties
  <2> QED
    BY <2>2
<1>3. DOMAIN c = 1..n /\ 1..n \subseteq DOMAIN s
  BY <1>1, <1>2, LenProperties
<1> HIDE DEF Newer
<1>4. Falling(c) /\ ToSet(c) \subseteq ToSet(s)
  BY <1>2, <1>3 DEF Falling, ToSet
<1>5. ASSUME NEW a \in DOMAIN s, s[a] \notin ToSet(c), NEW b \in DOMAIN c
      PROVE  Newer(c[b], s[a])
  <2>1. a \notin 1..n
    BY <1>2, <1>3, <1>5 DEF ToSet
  <2>2. b \in DOMAIN s /\ b < a /\ c[b] = s[b]
    BY <1>1, <1>2, <1>3, <2>1
  <2> QED
    BY <2>2 DEF Falling
<1> QED
  BY <1>2, <1>4, <1>5 DEF ToSet

LEMMA LastBatchGreatest ==
    ASSUME \A i \in Id : table[i] \in 0..MaxBatch
    PROVE  LastBatch \in 0..MaxBatch /\ \A i \in Id : table[i] <= LastBatch
<1> DEFINE S == {table[i] : i \in Id}
           D == {MaxBatch - x : x \in S}
<1>1. MaxBatch \in Nat /\ 0 \in Id
  BY ConstantsOK DEF Id
<1>2. D \subseteq Nat /\ D # {} /\ S \subseteq 0..MaxBatch
  BY <1>1
<1>3. PICK d \in D : \A e \in D : ~ (<<e, d>> \in OpToRel(<, Nat))
  BY <1>2, NatLessThanWellFounded, WFMin
<1>4. \A e \in D : ~(e < d)
  BY <1>2, <1>3 DEF OpToRel
<1>5. PICK x \in S : d = MaxBatch - x
  OBVIOUS
<1>6. ASSUME NEW y \in S PROVE y <= x
  <2>1. MaxBatch - y \in D /\ x \in Int /\ y \in Int
    BY <1>2
  <2>2. ~(MaxBatch - y < MaxBatch - x)
    BY <1>4, <1>5, <2>1
  <2> QED
    BY <1>1, <2>1, <2>2
<1> HIDE DEF S, D
<1>7. Max(S) \in S /\ \A y \in S : Max(S) >= y
  BY <1>2, <1>6 DEF Max
<1> QED
  BY <1>2, <1>7 DEF S, LastBatch

-----------------------------------------------------------------------------
(* The inductive invariant *)

\* Which command is at which statement; a batch is numbered from 1.
Phase(p) ==
    /\ pc[p] = "applied" => cmd[p] \in {"up", "fresh", "squash"}
    /\ pc[p] \in {"batch", "up", "record"} => cmd[p] \in {"up", "fresh"}
    /\ pc[p] = "count" => cmd[p] = "fresh"
    /\ pc[p] \in {"list", "down", "unrecord"} => cmd[p] \in {"down", "fresh"}
    /\ pc[p] \in {"max", "wipe", "baseline", "rerecord"} => cmd[p] = "squash"
    /\ pc[p] \in {"up", "record", "wipe", "baseline", "rerecord"} => batch[p] > 0
    /\ pc[p] = "unrecord" => steps[p] > 0

\* Two commands at once are two Up of the same migrations.
Alone ==
    \A p, q \in Proc : p # q /\ cmd[p] # "none" /\ cmd[q] # "none" =>
        cmd[p] = "up" /\ cmd[q] = "up" /\ mine[p] = mine[q]

\* Of what a process wants to apply, another may have recorded the first few,
\* and what they did is in the schema.
Overtaken(S) ==
    /\ \A i \in S, k \in S : k < i /\ i \in Recorded => k \in Recorded
    /\ Baseline \in S \cap Recorded => dump \subseteq Present

Upward(p) ==
    /\ pc[p] = "batch" => seen[p] \subseteq Recorded /\ Overtaken(mine[p] \ seen[p])
    /\ pc[p] \in {"up", "record"} =>
          /\ Increasing(todo[p]) /\ Rest(p) \subseteq mine[p]
          /\ mine[p] \subseteq Recorded \cup Rest(p)
          /\ Overtaken(Rest(p))
          /\ \A i \in Recorded \ Rest(p) :
                table[i] < batch[p] \/ (table[i] = batch[p] /\ \A k \in Rest(p) : i < k)
    /\ pc[p] = "record" => IF Head(todo[p]) = Baseline THEN dump \subseteq Present
                           ELSE Head(todo[p]) \in Present

Downward(p) ==
    pc[p] \in {"down", "unrecord"} =>
        /\ Rest(p) \subseteq Undoable(p)
        /\ \A i \in Undoable(p) \ Rest(p), k \in Rest(p) : Newer(k, i)
        /\ Falling(todo[p])
        /\ pc[p] = "unrecord" => Head(todo[p]) \notin Present \cup {Baseline}

Squashing(p) ==
    cmd[p] = "squash" =>
        /\ dump = Present /\ (dump \ mine[p]) \cap code = {}
        /\ pc[p] \in {"max", "wipe"} => seen[p] = Recorded
        /\ pc[p] # "applied" => seen[p] \ {Baseline} \subseteq Present \cup hurt
        /\ pc[p] = "baseline" => Recorded = {}
        /\ pc[p] = "rerecord" => /\ Baseline \in Recorded
                                 /\ Rest(p) \subseteq seen[p] \ {Baseline}

Working == \A p \in Proc : Phase(p) /\ Upward(p) /\ Downward(p) /\ Squashing(p)

\* InStep, but what the baseline stands for is in the schema.
Agreed ==
    \A i \in 1..N :
        \/ i \in Recorded <=> i \in Present
        \/ \E p \in Proc : i \in InDoubt(p)
        \/ i \in hurt
        \/ i \in (dump \ code) \cap (Present \ Recorded)

\* A baseline that is registered and not recorded has yet to be applied, or was
\* lost in a squash that failed.
BaselineFirst ==
    /\ schema[Baseline] = "absent"
    /\ \A p \in Proc : Baseline \in mine[p] => Baseline \in code
    /\ \A p \in Proc : cmd[p] \notin {"none", "squash"} /\ Baseline \in code \ mine[p]
                          => Baseline \in Recorded
    /\ Baseline \in code \ Recorded =>
          \A i \in Present \cup dump :
              \/ i \in (dump \ code) \cup hurt
              \/ \E p \in Proc : pc[p] = "baseline" /\ i \in seen[p]

\* There has been no baseline in the table, and no fault.
Plain ==
    /\ Baseline \notin Recorded /\ hurt = {}
    /\ \A p \in Proc : pc[p] = "baseline" => Baseline \notin seen[p]

\* Migration i of batch m comes before migration j of batch n.
Precedes(i, m, j, n) == m < n \/ (m = n /\ i < j)

\* Then the batches and ids tell the order in which migrations were applied.
Chronicle ==
    Plain =>
        /\ \A p \in Proc : mine[p] \subseteq code
        /\ Baseline \notin code => Present \subseteq code
        /\ Baseline \in code => Recorded = {}
        /\ \A e \in earlier : e[1] \in Recorded /\ e[2] \in Recorded
                                => Precedes(e[1], table[e[1]], e[2], table[e[2]])
        /\ \A p \in Proc : pc[p] = "record" /\ Head(todo[p]) # Baseline =>
              /\ Head(todo[p]) \notin Recorded /\ \A q \in Proc \ {p} : pc[q] # "record"
              /\ \A e \in earlier : e[1] # Head(todo[p])
              /\ \A i \in Present \ {Head(todo[p])} :
                    i \in Recorded /\ Precedes(i, table[i], Head(todo[p]), batch[p])

IInv == TypeOK /\ Alone /\ Working /\ Agreed /\ BaselineFirst /\ Chronicle

-----------------------------------------------------------------------------
(* Types *)

\* What Ends makes of the locals.
LEMMA Ended ==
    ASSUME TypeOK, NEW p \in Proc, Ends(p)
    PROVE  /\ cmd'[p] = "none" /\ pc'[p] = "off" /\ mine'[p] = {} /\ seen'[p] = {}
           /\ batch'[p] = 0 /\ todo'[p] = <<>> /\ steps'[p] = 0
           /\ \A q \in Proc \ {p} :
                 /\ cmd'[q] = cmd[q] /\ pc'[q] = pc[q] /\ mine'[q] = mine[q]
                 /\ seen'[q] = seen[q] /\ batch'[q] = batch[q] /\ todo'[q] = todo[q]
                 /\ steps'[q] = steps[q]
           /\ cmd' \in [Proc -> Command]
           /\ pc' \in [Proc -> {"off", "applied", "batch", "up", "record", "list", "down",
                                "unrecord", "count", "max", "wipe", "baseline", "rerecord"}]
           /\ mine' \in [Proc -> SUBSET Id] /\ seen' \in [Proc -> SUBSET Id]
           /\ batch' \in [Proc -> 0..MaxBatch] /\ steps' \in [Proc -> Nat]
           /\ todo' \in [Proc -> Seq(Id)]
<1>1. /\ cmd' = [cmd EXCEPT ![p] = "none"] /\ pc' = [pc EXCEPT ![p] = "off"]
      /\ mine' = [mine EXCEPT ![p] = {}] /\ seen' = [seen EXCEPT ![p] = {}]
      /\ batch' = [batch EXCEPT ![p] = 0] /\ todo' = [todo EXCEPT ![p] = <<>>]
      /\ steps' = [steps EXCEPT ![p] = 0]
  BY DEF Ends, Goto
<1>2. <<>> \in Seq(Id) /\ 0 \in 0..MaxBatch
  BY EmptySeq, ConstantsOK
<1> QED
  BY <1>1, <1>2 DEF TypeOK, Command

LEMMA EndedPhases ==
    ASSUME TypeOK, NEW p \in Proc, Ends(p), NEW q \in Proc
    PROVE  /\ pc'[q] = "off" <=> cmd'[q] = "none"
           /\ pc'[q] \in {"record", "unrecord"} => todo'[q] # <<>>
<1>1. CASE q = p
  <2>1. pc'[q] = "off" /\ cmd'[q] = "none"
    BY <1>1, Ended
  <2> QED
    BY <2>1
<1>2. CASE q # p
  <2>1. pc'[q] = pc[q] /\ cmd'[q] = cmd[q] /\ todo'[q] = todo[q]
    BY <1>2, Ended
  <2> QED
    BY <2>1 DEF TypeOK
<1> QED
  BY <1>1, <1>2

LEMMA EndedType ==
    ASSUME TypeOK, NEW p \in Proc, Ends(p), UNCHANGED <<code, db, earlier>>, hurt' \subseteq Id
    PROVE  TypeOK'
<1>1. \A q \in Proc : /\ pc'[q] = "off" <=> cmd'[q] = "none"
                      /\ pc'[q] \in {"record", "unrecord"} => todo'[q] # <<>>
  BY EndedPhases
<1>2. Present' = Present
  BY DEF Present, db
<1> QED
  BY Ended, <1>1, <1>2 DEF TypeOK, db

LEMMA InDoubtIds ==
    ASSUME TypeOK, NEW p \in Proc
    PROVE  InDoubt(p) \subseteq Id
<1>1. todo[p] # <<>> => Head(todo[p]) \in Id
  BY HeadOfList DEF TypeOK
<1>2. ToSet(todo[p]) \subseteq Id
  BY LenProperties, ElementOfSeq DEF TypeOK, ToSet
<1> QED
  BY <1>1, <1>2 DEF InDoubt, TypeOK

LEMMA StepType == ASSUME IInv, NEW p \in Proc, Step(p) PROVE TypeOK'
<1> USE DEF IInv
<1>0. TypeOK /\ Phase(p)
  BY DEF Working
<1>a. todo[p] # <<>> => /\ Head(todo[p]) \in Id /\ Tail(todo[p]) \in Seq(Id)
  BY HeadOfList DEF TypeOK
<1>b. \A i \in Id : table[i] \in 0..MaxBatch
  BY DEF TypeOK
<1>c. <<>> \in Seq(Id) /\ 0 \in 0..MaxBatch
  BY EmptySeq, ConstantsOK
<1>d. ASSUME NEW S \in SUBSET Id PROVE ById(S) \in Seq(Id) /\ NewestFirst(S) \in Seq(Id)
  <2>1. ById(S) \in Seq(S) /\ NewestFirst(S) \in Seq(S)
    BY <1>b, ByIdLists, NewestFirstLists
  <2> QED
    BY <2>1, SeqMonotonic
<1>1. CASE Fail(p)
  BY <1>1, InDoubtIds, EndedType DEF Fail, TypeOK
<1>2. CASE FailHalfway(p)
  <2>1. /\ pc[p] \in {"up", "down"} /\ todo[p] # <<>> /\ Ends(p)
        /\ schema' = [schema EXCEPT ![Head(todo[p])] = "half"]
        /\ earlier' = Without(Head(todo[p])) /\ hurt' = hurt \cup {Head(todo[p])}
        /\ UNCHANGED <<code, table, dump>>
    BY <1>2 DEF FailHalfway
  <2>2. Present' = Present \ {Head(todo[p])}
    BY <1>a, <2>1 DEF Present, TypeOK
  <2>3. earlier' \subseteq Present' \X Present'
    BY <2>1, <2>2 DEF Without, TypeOK
  <2>4. \A q \in Proc : /\ pc'[q] = "off" <=> cmd'[q] = "none"
                        /\ pc'[q] \in {"record", "unrecord"} => todo'[q] # <<>>
    BY <2>1, EndedPhases
  <2>5. schema' \in [Id -> {"absent", "present", "half"}] /\ hurt' \subseteq Id
    BY <1>a, <2>1 DEF TypeOK
  <2> QED
    BY <2>1, <2>3, <2>4, <2>5, Ended DEF TypeOK
<1>3. CASE ReadApplied(p)
  <2>1. Recorded \subseteq Id
    BY DEF Recorded
  <2> QED
    BY <1>3, <1>0, <2>1 DEF ReadApplied, Goto, TypeOK, Present, db, Phase
<1>4. CASE ReadBatch(p)
  <2>1. mine[p] \ seen[p] \in SUBSET Id
    BY DEF TypeOK
  <2>2. ById(mine[p] \ seen[p]) \in Seq(Id)
    BY <1>d, <2>1
  <2>3. LastBatch + 1 \in 0..MaxBatch
    BY <1>4, <1>b, LastBatchGreatest, ConstantsOK DEF ReadBatch
  <2> QED
    BY <1>4, <1>0, <2>2, <2>3 DEF ReadBatch, Goto, TypeOK, Present, db, Phase
<1>5. CASE RunUp(p)
  <2> DEFINE new == IF Head(todo[p]) = Baseline THEN dump ELSE {Head(todo[p])}
  <2>1. /\ pc[p] = "up" /\ todo[p] # <<>>
        /\ schema' = [i \in Id |-> IF i \in new THEN "present" ELSE schema[i]]
        /\ earlier' = earlier \cup (Present \X new) \cup {e \in new \X new : e[1] < e[2]}
        /\ pc' = [pc EXCEPT ![p] = "record"]
        /\ UNCHANGED <<code, table, dump, cmd, mine, seen, batch, todo, steps, hurt>>
    BY <1>5 DEF RunUp, Goto
  <2>2. new \subseteq 1..N
    <3>1. CASE Head(todo[p]) = Baseline
      BY <3>1 DEF TypeOK
    <3>2. CASE Head(todo[p]) # Baseline
      BY <1>a, <2>1, <3>2, ConstantsOK DEF Id, Baseline
    <3> QED
      BY <3>1, <3>2
  <2> HIDE DEF new
  <2>3. Present' = Present \cup new
    <3>1. 1..N \subseteq Id
      BY ConstantsOK DEF Id
    <3> QED
      BY <2>1, <2>2, <3>1 DEF Present
  <2>4. earlier' \subseteq Present' \X Present'
    BY <2>1, <2>3 DEF TypeOK
  <2>5. schema' \in [Id -> {"absent", "present", "half"}]
    BY <2>1 DEF TypeOK
  <2> QED
    BY <2>1, <2>4, <2>5 DEF TypeOK
<1>6. CASE Record(p)
  <2>1. table' \in [Id -> 0..MaxBatch]
    BY <1>6 DEF Record, TypeOK
  <2> QED
    BY <1>6, <1>0, <1>a, <2>1 DEF Record, Goto, TypeOK, Present
<1>7. CASE UpReturns(p)
  BY <1>7, EndedType DEF UpReturns, TypeOK
<1>8. CASE Count(p)
  <2>1. Cardinality(Recorded) \in Nat
    <3>1. Recorded \in SUBSET Id
      BY DEF Recorded
    <3> QED
      BY <3>1, IdsFinite, FS_CardinalityType
  <2> QED
    BY <1>8, <1>0, <2>1 DEF Count, Goto, TypeOK, Present, db
<1>9. CASE List(p)
  <2> DEFINE all == NewestFirst(Undoable(p))
  <2>1. Undoable(p) \in SUBSET Id
    BY DEF Recorded, Undoable
  <2>2. all \in Seq(Id) /\ Falling(all)
    BY <1>b, <1>d, <2>1, NewestFirstLists, ConstantsOK DEF Falling
  <2>3. PICK n \in 0..Len(all) : todo' = [todo EXCEPT ![p] = SubSeq(all, 1, n)]
    BY <1>9 DEF List
  <2>4. SubSeq(all, 1, n) \in Seq(Id)
    BY <2>2, BrokenOff
  <2> HIDE DEF all
  <2> QED
    BY <1>9, <1>0, <2>3, <2>4 DEF List, Goto, TypeOK, Present, db
<1>10. CASE RunDown(p)
  <2>1. /\ todo[p] # <<>> /\ schema' = [schema EXCEPT ![Head(todo[p])] = "absent"]
        /\ earlier' = Without(Head(todo[p]))
        /\ pc' = [pc EXCEPT ![p] = "unrecord"] /\ pc[p] = "down"
        /\ UNCHANGED <<code, table, dump, cmd, mine, seen, batch, todo, steps, hurt>>
    BY <1>10 DEF RunDown, Goto
  <2>2. Present' = Present \ {Head(todo[p])}
    BY <1>a, <2>1 DEF Present, TypeOK
  <2>3. earlier' \subseteq Present' \X Present'
    BY <2>1, <2>2 DEF Without, TypeOK
  <2> QED
    BY <1>a, <2>1, <2>3 DEF TypeOK
<1>11. CASE Unrecord(p)
  <2>1. steps[p] - 1 \in Nat
    BY <1>11, <1>0 DEF Unrecord, Phase, TypeOK
  <2>2. table' \in [Id -> 0..MaxBatch]
    BY <1>11, <1>c DEF Unrecord, TypeOK
  <2>3. Present' = Present /\ pc[p] = "unrecord" /\ todo[p] # <<>> /\ Tail(todo[p]) \in Seq(Id)
    BY <1>11, <1>0, <1>a DEF Unrecord, Present, TypeOK
  <2> QED
    BY <1>11, <1>0, <2>1, <2>2, <2>3 DEF Unrecord, Goto, TypeOK
<1>12. CASE DownReturns(p)
  <2>1. CASE cmd[p] = "fresh"
    BY <1>12, <1>c, <2>1 DEF DownReturns, Goto, TypeOK, Present, db
  <2>2. CASE cmd[p] # "fresh"
    BY <1>12, <2>2, EndedType DEF DownReturns, TypeOK
  <2> QED
    BY <2>1, <2>2
<1>13. CASE ReadMax(p)
  <2>1. LastBatch + 1 \in 0..MaxBatch /\ 1 \in 0..MaxBatch
    BY <1>13, <1>b, LastBatchGreatest, ConstantsOK DEF ReadMax
  <2> QED
    BY <1>13, <1>0, <2>1 DEF ReadMax, Goto, TypeOK, Present, db
<1>14. CASE Wipe(p)
  BY <1>14, <1>c DEF Wipe, Goto, TypeOK, Present
<1>15. CASE RecordBaseline(p)
  <2>1. (mine[p] \cap seen[p]) \ {Baseline} \in SUBSET Id
    BY DEF TypeOK
  <2>2. ById((mine[p] \cap seen[p]) \ {Baseline}) \in Seq(Id)
    BY <1>d, <2>1
  <2>3. table' \in [Id -> 0..MaxBatch]
    BY <1>15 DEF RecordBaseline, TypeOK
  <2>4. Present' = Present
    BY <1>15 DEF RecordBaseline, Present
  <2> QED
    BY <1>15, <2>2, <2>3, <2>4 DEF RecordBaseline, Goto, TypeOK
<1>16. CASE Rerecord(p)
  <2>1. table' \in [Id -> 0..MaxBatch]
    BY <1>16 DEF Rerecord, TypeOK
  <2> QED
    BY <1>16, <1>a, <2>1 DEF Rerecord, TypeOK, Present
<1>17. CASE SquashReturns(p)
  BY <1>17, EndedType DEF SquashReturns, TypeOK
<1> QED
  BY <1>1, <1>2, <1>3, <1>4, <1>5, <1>6, <1>7, <1>8, <1>9, <1>10, <1>11, <1>12, <1>13,
     <1>14, <1>15, <1>16, <1>17 DEF Step

-----------------------------------------------------------------------------
(* Steps that leave the database alone *)

LEMMA SchemaKept ==
    ASSUME UNCHANGED <<table, schema>>
    PROVE  /\ Present' = Present /\ Recorded' = Recorded
           /\ \A i, j : Newer(i, j)' <=> Newer(i, j)
  BY DEF Present, Recorded, Newer

LEMMA DownwardKept ==
    ASSUME NEW q \in Proc, Downward(q), table' = table, Present' = Present,
           pc'[q] = pc[q], mine'[q] = mine[q], todo'[q] = todo[q]
    PROVE  Downward(q)'
<1>1. Undoable(q)' = Undoable(q) /\ \A i, k : Newer(i, k)' <=> Newer(i, k)
  BY DEF Undoable, Newer, Recorded
<1>2. Rest(q)' = Rest(q) /\ Falling(todo[q])' = Falling(todo[q])
  BY DEF Rest, Falling, Newer
<1> HIDE DEF Newer
<1> QED
  BY <1>1, <1>2 DEF Downward

\* What the invariant says of a process is about the database and its locals.
LEMMA OthersLocal ==
    ASSUME NEW q \in Proc, Phase(q), Upward(q), Downward(q), Squashing(q),
           UNCHANGED <<code, table, dump>>, Present' = Present, hurt \subseteq hurt',
           cmd'[q] = cmd[q], pc'[q] = pc[q], mine'[q] = mine[q], seen'[q] = seen[q],
           batch'[q] = batch[q], todo'[q] = todo[q], steps'[q] = steps[q]
    PROVE  Phase(q)' /\ Upward(q)' /\ Downward(q)' /\ Squashing(q)'
<1>1. Recorded' = Recorded /\ Falling(todo[q])' = Falling(todo[q])
  BY DEF Recorded, Falling, Newer
<1>2. Phase(q)'
  BY DEF Phase
<1>3. Upward(q)'
  BY <1>1 DEF Upward, Overtaken, Rest, Increasing
<1>4. Downward(q)'
  BY DownwardKept
<1>5. Squashing(q)'
  BY <1>1 DEF Squashing, Rest
<1> QED
  BY <1>2, <1>3, <1>4, <1>5

\* A step of p that changes its locals alone, and leaves nothing in doubt that
\* is not noted as hurt.
Aside(p) ==
    /\ UNCHANGED <<code, table, schema, dump, earlier>> /\ hurt \subseteq hurt'
    /\ \A q \in Proc \ {p} :
          /\ cmd'[q] = cmd[q] /\ pc'[q] = pc[q] /\ mine'[q] = mine[q] /\ seen'[q] = seen[q]
          /\ batch'[q] = batch[q] /\ todo'[q] = todo[q] /\ steps'[q] = steps[q]
    /\ cmd[p] # "none" /\ pc'[p] \notin {"record", "baseline"}
    /\ \/ cmd'[p] = cmd[p] /\ mine'[p] = mine[p]
       \/ cmd'[p] = "none" /\ mine'[p] = {}
    /\ InDoubt(p) \subseteq hurt'

LEMMA LocalStep ==
    ASSUME IInv, TypeOK', NEW p \in Proc, Aside(p),
           Phase(p)', Upward(p)', Downward(p)', Squashing(p)'
    PROVE  IInv'
<1> USE DEF IInv, Aside
<1>1. Present' = Present /\ Recorded' = Recorded
  BY SchemaKept
<1>2. Alone'
  BY DEF Alone
<1>3. Working'
  <2>1. ASSUME NEW q \in Proc PROVE (Phase(q) /\ Upward(q) /\ Downward(q) /\ Squashing(q))'
    <3>1. CASE q = p
      BY <3>1
    <3>2. CASE q # p
      BY <1>1, <3>2, OthersLocal DEF Working
    <3> QED
      BY <3>1, <3>2
  <2> QED
    BY <2>1 DEF Working
<1>4. Agreed'
  <2>1. \A q \in Proc \ {p} : InDoubt(q)' = InDoubt(q)
    BY DEF InDoubt
  <2>2. ASSUME NEW i \in 1..N, NEW q \in Proc, i \in InDoubt(q)
        PROVE  i \in hurt' \/ \E r \in Proc : i \in InDoubt(r)'
    BY <2>1, <2>2
  <2> HIDE DEF InDoubt
  <2> QED
    BY <1>1, <2>2 DEF Agreed
<1>5. BaselineFirst'
  <2>1. \A q \in Proc : mine'[q] \subseteq mine[q]
    OBVIOUS
  <2>2. \A q \in Proc : cmd'[q] \notin {"none", "squash"} =>
           cmd[q] = cmd'[q] /\ mine[q] = mine'[q]
    OBVIOUS
  <2>3. ASSUME NEW i, NEW q \in Proc, pc[q] = "baseline", i \in seen[q]
        PROVE  i \in hurt' \/ (pc'[q] = "baseline" /\ i \in seen'[q])
    <3>1. CASE q = p
      BY <2>3, <3>1 DEF InDoubt
    <3>2. CASE q # p
      BY <2>3, <3>2
    <3> QED
      BY <3>1, <3>2
  <2> QED
    BY <1>1, <2>1, <2>2, <2>3 DEF BaselineFirst
<1>6. Chronicle'
  <2> SUFFICES ASSUME Plain' PROVE Chronicle'
    BY DEF Chronicle
  <2>1. Plain
    <3>1. hurt = {} /\ hurt' = {} /\ Baseline \notin Recorded
      BY <1>1 DEF Plain
    <3>2. ASSUME NEW q \in Proc, pc[q] = "baseline" PROVE Baseline \notin seen[q]
      <4>1. CASE q = p
        BY <3>1, <3>2, <4>1 DEF InDoubt
      <4>2. CASE q # p
        BY <3>2, <4>2 DEF Plain
      <4> QED
        BY <4>1, <4>2
    <3> QED
      BY <3>1, <3>2 DEF Plain
  <2>2. \A q \in Proc : mine'[q] \subseteq mine[q]
    OBVIOUS
  <2>3. \A q \in Proc : pc'[q] = "record" =>
           pc[q] = "record" /\ todo'[q] = todo[q] /\ batch'[q] = batch[q]
    OBVIOUS
  <2> QED
    BY <1>1, <2>1, <2>2, <2>3 DEF Chronicle, Precedes
<1> QED
  BY <1>2, <1>3, <1>4, <1>5, <1>6

\* A command that is not an Up runs alone.
LEMMA Solo ==
    ASSUME TypeOK, Alone, NEW p \in Proc, cmd[p] \notin {"none", "up"}
    PROVE  \A q \in Proc \ {p} : cmd[q] = "none" /\ pc[q] = "off" /\ InDoubt(q) = {}
<1>1. ASSUME NEW q \in Proc \ {p} PROVE cmd[q] = "none" /\ pc[q] = "off"
  BY DEF Alone, TypeOK
<1>2. ASSUME NEW q \in Proc \ {p} PROVE InDoubt(q) = {}
  BY <1>1 DEF InDoubt
<1> QED
  BY <1>1, <1>2

\* A command returns or fails, and what it leaves half done is noted.
LEMMA EndsInv ==
    ASSUME IInv, NEW p \in Proc, pc[p] # "off", Ends(p), UNCHANGED <<code, db, earlier>>,
           hurt' = hurt \cup InDoubt(p)
    PROVE  IInv'
<1>1. TypeOK'
  BY EndedType, InDoubtIds DEF IInv, TypeOK
<1>2. /\ cmd'[p] = "none" /\ pc'[p] = "off" /\ mine'[p] = {}
      /\ \A q \in Proc \ {p} :
            /\ cmd'[q] = cmd[q] /\ pc'[q] = pc[q] /\ mine'[q] = mine[q] /\ seen'[q] = seen[q]
            /\ batch'[q] = batch[q] /\ todo'[q] = todo[q] /\ steps'[q] = steps[q]
  BY Ended DEF IInv
<1>3. Phase(p)' /\ Upward(p)' /\ Downward(p)' /\ Squashing(p)'
  BY <1>2 DEF Phase, Upward, Downward, Squashing
<1>4. cmd[p] # "none"
  BY DEF IInv, TypeOK
<1>5. Aside(p)
  BY <1>2, <1>4 DEF Aside, db
<1> QED
  BY <1>1, <1>3, <1>5, LocalStep

LEMMA ReadAppliedInv == ASSUME IInv, NEW p \in Proc, ReadApplied(p) PROVE IInv'
<1> USE DEF IInv
<1>1. /\ pc[p] = "applied" /\ seen' = [seen EXCEPT ![p] = Recorded]
      /\ pc' = [pc EXCEPT ![p] = IF cmd[p] = "squash" THEN "max" ELSE "batch"]
      /\ UNCHANGED <<code, table, schema, dump, cmd, mine, batch, todo, steps, earlier, hurt>>
  BY DEF ReadApplied, Goto, db
<1>2. TypeOK'
  BY StepType DEF Step
<1>3. seen'[p] = Recorded /\ pc'[p] = (IF cmd[p] = "squash" THEN "max" ELSE "batch")
      /\ \A q \in Proc \ {p} : pc'[q] = pc[q] /\ seen'[q] = seen[q]
  BY <1>1 DEF TypeOK
<1>4. Phase(p) /\ Squashing(p) /\ cmd[p] # "none"
  BY <1>1 DEF Working, TypeOK
<1>5. Present' = Present /\ Recorded' = Recorded
  BY <1>1, SchemaKept
<1>6. Phase(p)' /\ Downward(p)'
  BY <1>1, <1>3, <1>4 DEF Phase, Downward
<1>7. Upward(p)'
  <2>1. Overtaken(mine[p] \ Recorded)'
    BY <1>1, <1>5 DEF Overtaken
  <2> QED
    BY <1>1, <1>3, <1>5, <2>1 DEF Upward
<1>8. Squashing(p)'
  <2> SUFFICES ASSUME cmd[p] = "squash" PROVE Squashing(p)'
    BY <1>1 DEF Squashing
  <2>1. \A q \in Proc : InDoubt(q) = {}
    BY <1>1, Solo DEF InDoubt
  <2>2. dump = Present
    BY <1>4 DEF Squashing
  <2>3. Recorded \subseteq Id /\ Id = 1..N \cup {Baseline}
    BY ConstantsOK DEF Recorded, Id, Baseline
  <2>4. Recorded \ {Baseline} \subseteq Present \cup hurt
    BY <2>1, <2>2, <2>3 DEF Agreed
  <2> QED
    BY <1>1, <1>3, <1>4, <1>5, <2>4 DEF Squashing
<1>9. Aside(p)
  BY <1>1, <1>3 DEF Aside, InDoubt, TypeOK
<1> QED
  BY <1>1, <1>2, <1>3, <1>4, <1>6, <1>7, <1>8, <1>9, LocalStep

LEMMA ReadBatchInv == ASSUME IInv, NEW p \in Proc, ReadBatch(p) PROVE IInv'
<1> USE DEF IInv
<1>1. /\ pc[p] = "batch" /\ batch' = [batch EXCEPT ![p] = LastBatch + 1]
      /\ todo' = [todo EXCEPT ![p] = ById(mine[p] \ seen[p])]
      /\ pc' = [pc EXCEPT ![p] = "up"]
      /\ UNCHANGED <<code, table, schema, dump, cmd, mine, seen, steps, earlier, hurt>>
  BY DEF ReadBatch, Goto, db
<1>2. TypeOK'
  BY StepType DEF Step
<1>3. /\ batch'[p] = LastBatch + 1 /\ todo'[p] = ById(mine[p] \ seen[p]) /\ pc'[p] = "up"
      /\ \A q \in Proc \ {p} : pc'[q] = pc[q] /\ batch'[q] = batch[q] /\ todo'[q] = todo[q]
  BY <1>1 DEF TypeOK
<1>4. Phase(p) /\ Upward(p) /\ Squashing(p) /\ cmd[p] \in {"up", "fresh"}
  BY <1>1 DEF Working, Phase
<1>5. Present' = Present /\ Recorded' = Recorded
  BY <1>1, SchemaKept
<1>6. LastBatch \in Nat /\ \A i \in Id : table[i] \in Nat /\ table[i] <= LastBatch
  BY LastBatchGreatest, ConstantsOK DEF TypeOK
<1>7. Phase(p)' /\ Downward(p)' /\ Squashing(p)'
  BY <1>1, <1>3, <1>4, <1>6 DEF Phase, Downward, Squashing
<1>8. Upward(p)'
  <2>1. Increasing(todo'[p]) /\ Rest(p)' = mine[p] \ seen[p]
    BY <1>3, ByIdLists DEF Rest, Increasing, TypeOK
  <2>2. \A i \in Recorded : table[i] < batch'[p]
    BY <1>3, <1>6 DEF Recorded
  <2>3. seen[p] \subseteq Recorded /\ Overtaken(mine[p] \ seen[p])
    BY <1>1, <1>4 DEF Upward
  <2>4. Overtaken(Rest(p))'
    BY <1>1, <1>5, <2>1, <2>3 DEF Overtaken
  <2> QED
    BY <1>1, <1>3, <1>5, <2>1, <2>2, <2>3, <2>4 DEF Upward, Increasing
<1>9. Aside(p)
  BY <1>1, <1>3 DEF Aside, InDoubt, TypeOK
<1> QED
  BY <1>1, <1>2, <1>3, <1>4, <1>7, <1>8, <1>9, LocalStep

LEMMA CountInv == ASSUME IInv, NEW p \in Proc, Count(p) PROVE IInv'
<1> USE DEF IInv
<1>1. /\ pc[p] = "count" /\ steps' = [steps EXCEPT ![p] = Cardinality(Recorded)]
      /\ pc' = [pc EXCEPT ![p] = IF Recorded = {} THEN "applied" ELSE "list"]
      /\ UNCHANGED <<code, table, schema, dump, cmd, mine, seen, batch, todo, earlier, hurt>>
  BY DEF Count, Goto, db
<1>2. TypeOK'
  BY StepType DEF Step
<1>3. /\ pc'[p] \in {"applied", "list"}
      /\ \A q \in Proc \ {p} : pc'[q] = pc[q] /\ steps'[q] = steps[q]
  BY <1>1 DEF TypeOK
<1>4. cmd[p] = "fresh"
  BY <1>1 DEF Working, Phase
<1>5. Phase(p)' /\ Upward(p)' /\ Downward(p)' /\ Squashing(p)'
  BY <1>1, <1>3, <1>4 DEF Phase, Upward, Downward, Squashing
<1>6. Aside(p)
  BY <1>1, <1>3 DEF Aside, InDoubt, TypeOK
<1> QED
  BY <1>1, <1>2, <1>3, <1>4, <1>5, <1>6, LocalStep

LEMMA ListInv == ASSUME IInv, NEW p \in Proc, List(p) PROVE IInv'
<1> USE DEF IInv
<1> DEFINE all == NewestFirst(Undoable(p))
<1>0. PICK n \in 0..Len(all) : todo' = [todo EXCEPT ![p] = SubSeq(all, 1, n)]
  BY DEF List
<1> DEFINE c == SubSeq(all, 1, n)
<1>1. /\ pc[p] = "list" /\ todo' = [todo EXCEPT ![p] = c]
      /\ pc' = [pc EXCEPT ![p] = "down"]
      /\ UNCHANGED <<code, table, schema, dump, cmd, mine, seen, batch, steps, earlier, hurt>>
  BY <1>0 DEF List, Goto, db
<1>2. TypeOK'
  BY StepType DEF Step
<1> HIDE DEF c, all
<1>3. /\ pc'[p] = "down" /\ todo'[p] = c
      /\ \A q \in Proc \ {p} : pc'[q] = pc[q] /\ todo'[q] = todo[q]
  BY <1>1 DEF TypeOK
<1>4. cmd[p] \in {"down", "fresh"}
  BY <1>1 DEF Working, Phase
<1>5. Phase(p)' /\ Upward(p)' /\ Squashing(p)'
  BY <1>1, <1>3, <1>4 DEF Phase, Upward, Squashing
<1>6. Downward(p)'
  <2>1. Undoable(p) \in SUBSET Id /\ \A i \in Id : table[i] \in Nat
    BY ConstantsOK DEF Recorded, TypeOK, Undoable
  <2>2. Undoable(p)' = Undoable(p) /\ \A i, k : Newer(i, k)' <=> Newer(i, k)
    BY <1>1, SchemaKept DEF Undoable
  <2>3. all \in Seq(Id) /\ ToSet(all) = Undoable(p) /\ Falling(all)
    <3>1. NewestFirst(Undoable(p)) \in Seq(Undoable(p))
      BY <2>1, NewestFirstLists
    <3>2. NewestFirst(Undoable(p)) \in Seq(Id)
      BY <2>1, <3>1, SeqMonotonic
    <3> QED
      BY <2>1, <3>2, NewestFirstLists DEF Falling, all
  <2> HIDE DEF Newer
  <2>4. /\ Falling(c) /\ ToSet(c) \subseteq Undoable(p)
        /\ \A i \in Undoable(p) \ ToSet(c), k \in ToSet(c) : Newer(k, i)
    <3>1. c = SubSeq(all, 1, n)
      BY DEF c
    <3>2. /\ Falling(c) /\ ToSet(c) \subseteq ToSet(all)
          /\ \A i \in ToSet(all) \ ToSet(c), k \in ToSet(c) : Newer(k, i)
      BY <2>3, <3>1, BrokenOff, Zenon
    <3> QED
      BY <2>3, <3>2
  <2>6. Rest(p)' = ToSet(c) /\ Falling(todo[p])'
    BY <1>3, <2>2, <2>4 DEF Rest, Falling
  <2> QED
    BY <1>3, <2>2, <2>4, <2>6 DEF Downward
<1>7. Aside(p)
  BY <1>1, <1>3 DEF Aside, InDoubt, TypeOK
<1> QED
  BY <1>1, <1>2, <1>3, <1>4, <1>5, <1>6, <1>7, LocalStep

LEMMA DownReturnsInv == ASSUME IInv, NEW p \in Proc, DownReturns(p) PROVE IInv'
<1> USE DEF IInv
<1>1. CASE cmd[p] # "fresh"
  <2>1. pc[p] = "down" /\ Ends(p) /\ InDoubt(p) = {} /\ UNCHANGED <<code, db, earlier, hurt>>
    BY <1>1 DEF DownReturns, InDoubt
  <2> QED
    BY <2>1, EndsInv
<1>2. CASE cmd[p] = "fresh"
  <2>1. /\ pc[p] = "down" /\ todo' = [todo EXCEPT ![p] = <<>>]
        /\ pc' = [pc EXCEPT ![p] = "applied"]
        /\ UNCHANGED <<code, table, schema, dump, cmd, mine, seen, batch, steps, earlier, hurt>>
    BY <1>2 DEF DownReturns, Goto, db
  <2>2. TypeOK'
    BY StepType DEF Step
  <2>3. pc'[p] = "applied" /\ \A q \in Proc \ {p} : pc'[q] = pc[q] /\ todo'[q] = todo[q]
    BY <2>1 DEF TypeOK
  <2>4. Phase(p)' /\ Upward(p)' /\ Downward(p)' /\ Squashing(p)'
    BY <1>2, <2>1, <2>3 DEF Phase, Upward, Downward, Squashing
  <2>5. Aside(p)
    BY <2>1, <2>3, <1>2 DEF Aside, InDoubt, TypeOK
  <2> QED
    BY <1>2, <2>1, <2>2, <2>3, <2>4, <2>5, LocalStep
<1> QED
  BY <1>1, <1>2

LEMMA ReadMaxInv == ASSUME IInv, NEW p \in Proc, ReadMax(p) PROVE IInv'
<1> USE DEF IInv
<1>0. PICK b \in {LastBatch + 1, 1} : batch' = [batch EXCEPT ![p] = b]
  BY DEF ReadMax
<1>1. /\ pc[p] = "max" /\ batch' = [batch EXCEPT ![p] = b]
      /\ pc' = [pc EXCEPT ![p] = "wipe"]
      /\ UNCHANGED <<code, table, schema, dump, cmd, mine, seen, todo, steps, earlier, hurt>>
  BY <1>0 DEF ReadMax, Goto, db
<1>2. TypeOK'
  BY StepType DEF Step
<1>3. /\ pc'[p] = "wipe" /\ batch'[p] = b
      /\ \A q \in Proc \ {p} : pc'[q] = pc[q] /\ batch'[q] = batch[q]
  BY <1>1 DEF TypeOK
<1>4. cmd[p] = "squash" /\ Squashing(p)
  BY <1>1 DEF Working, Phase
<1>5. b > 0
  <2>1. LastBatch \in Nat
    BY LastBatchGreatest, ConstantsOK DEF TypeOK
  <2> QED
    BY <2>1
<1>6. Present' = Present /\ Recorded' = Recorded
  BY <1>1, SchemaKept
<1>7. Phase(p)' /\ Upward(p)' /\ Downward(p)' /\ Squashing(p)'
  BY <1>1, <1>3, <1>4, <1>5, <1>6 DEF Phase, Upward, Downward, Squashing
<1>8. Aside(p)
  BY <1>1, <1>3 DEF Aside, InDoubt, TypeOK
<1> QED
  BY <1>1, <1>2, <1>3, <1>4, <1>7, <1>8, LocalStep

LEMMA ReturnsInv ==
    ASSUME IInv, NEW p \in Proc, Fail(p) \/ UpReturns(p) \/ SquashReturns(p)
    PROVE  IInv'
<1>1. CASE Fail(p)
  BY <1>1, EndsInv DEF Fail
<1>2. CASE UpReturns(p) \/ SquashReturns(p)
  <2>1. pc[p] # "off" /\ Ends(p) /\ UNCHANGED <<code, db, earlier, hurt>>
    BY <1>2 DEF UpReturns, SquashReturns
  <2>2. InDoubt(p) = {}
    BY <1>2, Emptied DEF UpReturns, SquashReturns, InDoubt
  <2> QED
    BY <2>1, <2>2, EndsInv
<1> QED
  BY <1>1, <1>2

-----------------------------------------------------------------------------
(* The developer's steps, and the start of a command *)

LEMMA RegisterInv == ASSUME IInv, NEW i \in Id, Register(i) PROVE IInv'
<1> USE DEF IInv
<1>1. /\ i \notin code \cup dump /\ (i = Baseline => Baseline \in Recorded)
      /\ code' = code \cup {i}
      /\ UNCHANGED <<table, schema, dump, cmd, pc, mine, seen, batch, todo, steps, earlier, hurt>>
  BY DEF Register, Recorded, db, local, Id, Baseline
<1>2. Present' = Present /\ Recorded' = Recorded
  BY <1>1, SchemaKept
<1>3. \A q \in Proc : InDoubt(q)' = InDoubt(q) /\ Falling(todo[q])' = Falling(todo[q])
  BY <1>1, SchemaKept DEF InDoubt, Falling
<1>4. TypeOK'
  BY <1>1, <1>2 DEF TypeOK
<1>5. Alone'
  BY <1>1 DEF Alone
<1>6. Working'
  <2>1. ASSUME NEW q \in Proc PROVE Phase(q)' /\ Upward(q)'
    BY <1>1, <1>2 DEF Working, Phase, Upward, Overtaken, Rest, Increasing
  <2>2. ASSUME NEW q \in Proc PROVE Downward(q)' /\ Squashing(q)'
    BY <1>1, <1>2, DownwardKept DEF Working, Squashing, Rest
  <2> QED
    BY <2>1, <2>2 DEF Working
<1>7. Agreed'
  BY <1>1, <1>2, <1>3 DEF Agreed
<1>8. BaselineFirst'
  <2>1. Baseline \in code' \ Recorded => Baseline \in code
    BY <1>1
  <2> QED
    BY <1>1, <1>2, <2>1 DEF BaselineFirst
<1>9. Chronicle'
  BY <1>1, <1>2 DEF Chronicle, Plain, Precedes
<1> QED
  BY <1>4, <1>5, <1>6, <1>7, <1>8, <1>9

LEMMA RetireInv == ASSUME IInv, NEW i \in Id, Retire(i) PROVE IInv'
<1> USE DEF IInv
<1>1. /\ i \in code \cap dump /\ i # Baseline /\ Baseline \in Recorded /\ code' = code \ {i}
      /\ UNCHANGED <<table, schema, dump, cmd, pc, mine, seen, batch, todo, steps, earlier, hurt>>
  BY ConstantsOK DEF Retire, Recorded, db, local, Id, Baseline, TypeOK
<1>2. Present' = Present /\ Recorded' = Recorded
  BY <1>1, SchemaKept
<1>3. \A q \in Proc : InDoubt(q)' = InDoubt(q) /\ Falling(todo[q])' = Falling(todo[q])
  BY <1>1, SchemaKept DEF InDoubt, Falling
<1>4. TypeOK'
  BY <1>1, <1>2 DEF TypeOK
<1>5. Alone'
  BY <1>1 DEF Alone
<1>6. Working'
  <2>1. ASSUME NEW q \in Proc PROVE Phase(q)' /\ Upward(q)'
    BY <1>1, <1>2 DEF Working, Phase, Upward, Overtaken, Rest, Increasing
  <2>2. ASSUME NEW q \in Proc PROVE Downward(q)' /\ Squashing(q)'
    BY <1>1, <1>2, DownwardKept DEF Working, Squashing, Rest
  <2> QED
    BY <2>1, <2>2 DEF Working
<1>7. Agreed'
  BY <1>1, <1>2, <1>3 DEF Agreed
<1>8. BaselineFirst'
  BY <1>1, <1>2 DEF BaselineFirst
<1>9. Chronicle'
  BY <1>1, <1>2 DEF Chronicle, Plain
<1> QED
  BY <1>4, <1>5, <1>6, <1>7, <1>8, <1>9

LEMMA StartInv ==
    ASSUME IInv, NEW p \in Proc, NEW c \in Command \ {"none"}, NEW n \in 1..MaxSteps,
           Start(p, c, n)
    PROVE  IInv'
<1> USE DEF IInv
<1>1. /\ pc[p] = "off" /\ cmd' = [cmd EXCEPT ![p] = c] /\ mine' = [mine EXCEPT ![p] = code]
      /\ \A q \in Proc \ {p} : cmd[q] = "none" \/ (cmd[q] = "up" /\ c = "up" /\ mine[q] = code)
      /\ pc' = [pc EXCEPT ![p] =
                   CASE c = "down" -> "list" [] c = "fresh" -> "count" [] OTHER -> "applied"]
      /\ steps' = [steps EXCEPT ![p] = IF c = "down" THEN n ELSE 0]
      /\ dump' = IF c = "squash" THEN Present ELSE dump
      /\ UNCHANGED <<code, table, schema, seen, batch, todo, earlier, hurt>>
  BY DEF Start, MayStart, Goto, Present
<1>2. /\ cmd'[p] = c /\ mine'[p] = code
      /\ c = "down" => pc'[p] = "list"
      /\ c = "fresh" => pc'[p] = "count"
      /\ c \notin {"down", "fresh"} => pc'[p] = "applied"
      /\ \A q \in Proc \ {p} : /\ cmd'[q] = cmd[q] /\ pc'[q] = pc[q] /\ mine'[q] = mine[q]
                               /\ steps'[q] = steps[q]
  BY <1>1 DEF TypeOK
<1>3. c \in {"up", "down", "fresh", "squash"}
  BY DEF Command
<1>4. Present' = Present /\ Recorded' = Recorded
  BY <1>1, SchemaKept
<1>5. ASSUME c = "squash" PROVE \A q \in Proc : cmd[q] = "none" /\ pc[q] = "off"
  BY <1>1, <1>5 DEF TypeOK
<1>6. pc'[p] \in {"list", "count", "applied"}
  BY <1>2, <1>3
<1>7. TypeOK'
  <2>1. dump' \subseteq 1..N
    BY <1>1 DEF TypeOK, Present
  <2>2. steps' \in [Proc -> Nat]
    BY <1>1, ConstantsOK DEF TypeOK
  <2>3. pc' \in [Proc -> {"off", "applied", "batch", "up", "record", "list", "down",
                          "unrecord", "count", "max", "wipe", "baseline", "rerecord"}]
    BY <1>1 DEF TypeOK
  <2>4. cmd' \in [Proc -> Command] /\ mine' \in [Proc -> SUBSET Id]
    BY <1>1 DEF TypeOK
  <2>5. \A q \in Proc : /\ pc'[q] = "off" <=> cmd'[q] = "none"
                        /\ pc'[q] \in {"record", "unrecord"} => todo'[q] # <<>>
    BY <1>1, <1>2, <1>3, <1>6 DEF TypeOK
  <2> QED
    BY <1>1, <1>4, <2>1, <2>2, <2>3, <2>4, <2>5 DEF TypeOK
<1>8. Alone'
  BY <1>1, <1>2 DEF Alone
<1>9. Working'
  <2>1. Phase(p)' /\ Upward(p)' /\ Downward(p)'
    BY <1>2, <1>3 DEF Phase, Upward, Downward
  <2>2. Squashing(p)'
    BY <1>1, <1>2, <1>4 DEF Squashing
  <2>3. ASSUME NEW q \in Proc \ {p} PROVE (Phase(q) /\ Upward(q) /\ Downward(q) /\ Squashing(q))'
    <3>1. CASE c = "squash"
      BY <1>2, <1>5, <3>1 DEF Phase, Upward, Downward, Squashing
    <3>2. CASE c # "squash"
      BY <1>1, <1>2, <1>4, <3>2, OthersLocal DEF Working
    <3> QED
      BY <3>1, <3>2
  <2> QED
    BY <2>1, <2>2, <2>3 DEF Working
<1>10. Agreed'
  <2>1. \A q \in Proc : InDoubt(q) \subseteq InDoubt(q)'
    <3>1. InDoubt(p) = {}
      BY <1>1 DEF InDoubt
    <3>2. \A q \in Proc \ {p} : InDoubt(q)' = InDoubt(q)
      BY <1>1, <1>2 DEF InDoubt
    <3> QED
      BY <3>1, <3>2
  <2> QED
    BY <1>1, <1>4, <2>1 DEF Agreed
<1>11. BaselineFirst'
  <2>1. \A q \in Proc : pc[q] = "baseline" => pc'[q] = "baseline" /\ seen'[q] = seen[q]
    BY <1>1, <1>2
  <2>2. CASE c = "squash"
    BY <1>1, <1>2, <1>4, <1>5, <2>2 DEF BaselineFirst
  <2>3. CASE c # "squash"
    BY <1>1, <1>2, <1>4, <2>1, <2>3 DEF BaselineFirst
  <2> QED
    BY <2>2, <2>3
<1>12. Chronicle'
  <2>1. \A q \in Proc : /\ pc'[q] = "baseline" <=> pc[q] = "baseline"
                        /\ pc'[q] = "record" <=> pc[q] = "record"
    BY <1>1, <1>2, <1>6
  <2> QED
    BY <1>1, <1>2, <1>4, <2>1 DEF Chronicle, Plain, Precedes
<1> QED
  BY <1>7, <1>8, <1>9, <1>10, <1>11, <1>12

-----------------------------------------------------------------------------
(* Steps that change the database *)

LEMMA IdleHolds ==
    ASSUME NEW q \in Proc, cmd'[q] = "none", pc'[q] = "off"
    PROVE  Phase(q)' /\ Upward(q)' /\ Downward(q)' /\ Squashing(q)'
  BY DEF Phase, Upward, Downward, Squashing

\* Beside a process that applies migrations run none but those of its build.
LEMMA Together ==
    ASSUME IInv, NEW p \in Proc, pc[p] \in {"up", "record"}, NEW q \in Proc \ {p}
    PROVE  /\ pc[q] \in {"off", "applied", "batch", "up", "record"}
           /\ cmd[q] # "squash"
           /\ pc[q] # "off" => mine[q] = mine[p]
<1>1. cmd[p] # "none" /\ Phase(q) /\ pc[q] \in
        {"off", "applied", "batch", "up", "record", "list", "down", "unrecord",
         "count", "max", "wipe", "baseline", "rerecord"}
  BY DEF IInv, TypeOK, Working
<1>2. cmd[q] = "none" \/ (cmd[q] = "up" /\ mine[q] = mine[p])
  BY <1>1 DEF IInv, Alone
<1> QED
  BY <1>1, <1>2 DEF Phase, IInv, TypeOK

LEMMA RestSplits ==
    ASSUME TypeOK, NEW p \in Proc, todo[p] # <<>>
    PROVE  /\ Head(todo[p]) \in Id /\ Head(todo[p]) \in Rest(p)
           /\ Rest(p) = {Head(todo[p])} \cup ToSet(Tail(todo[p]))
  BY HeadOfList DEF TypeOK, Rest

\* While other migrations are applied, a registered baseline is recorded.
LEMMA BaselineBefore ==
    ASSUME IInv, NEW p \in Proc, pc[p] \in {"up", "record"}, todo[p] # <<>>,
           Head(todo[p]) # Baseline
    PROVE  Baseline \notin code \ Recorded
<1> SUFFICES ASSUME Baseline \in code \ Recorded PROVE FALSE
  OBVIOUS
<1>1. Upward(p) /\ Phase(p)
  BY DEF IInv, Working
<1>2. Baseline \in mine[p]
  BY <1>1 DEF IInv, BaselineFirst, Phase
<1>3. Baseline \in Rest(p)
  BY <1>1, <1>2 DEF Upward
<1>4. todo[p] \in Seq(Id) /\ Increasing(todo[p])
  BY <1>1 DEF Upward, IInv, TypeOK
<1>5. Head(todo[p]) < Baseline
  BY <1>3, <1>4, RestSplits, HeadLeast DEF IInv
<1>6. Head(todo[p]) \in Nat
  BY <1>4, HeadOfList, IdsFinite
<1> QED
  BY <1>5, <1>6 DEF Baseline

LEMMA FailHalfwayInv == ASSUME IInv, NEW p \in Proc, FailHalfway(p) PROVE IInv'
<1> USE DEF IInv
<1> DEFINE h == Head(todo[p])
<1>1. /\ pc[p] \in {"up", "down"} /\ todo[p] # <<>> /\ h # Baseline
      /\ schema[h] = IF pc[p] = "up" THEN "absent" ELSE "present"
      /\ schema' = [schema EXCEPT ![h] = "half"]
      /\ earlier' = Without(h) /\ hurt' = hurt \cup {h} /\ Ends(p)
      /\ UNCHANGED <<code, table, dump>>
  BY DEF FailHalfway
<1>2. TypeOK'
  BY StepType DEF Step
<1>3. h \in Id /\ Recorded' = Recorded /\ Present' = Present \ {h}
  BY <1>1, RestSplits DEF Recorded, Present, TypeOK
<1>4. /\ cmd'[p] = "none" /\ pc'[p] = "off" /\ mine'[p] = {}
      /\ \A q \in Proc \ {p} :
            /\ cmd'[q] = cmd[q] /\ pc'[q] = pc[q] /\ mine'[q] = mine[q] /\ seen'[q] = seen[q]
            /\ batch'[q] = batch[q] /\ todo'[q] = todo[q] /\ steps'[q] = steps[q]
  BY <1>1, Ended
<1>5. Alone'
  BY <1>4 DEF Alone
<1>6. Working'
  <2>1. ASSUME NEW q \in Proc \ {p} PROVE (Phase(q) /\ Upward(q) /\ Downward(q) /\ Squashing(q))'
    <3>1. CASE pc[p] = "up"
      <4>1. Present' = Present
        BY <1>1, <1>3, <3>1 DEF Present
      <4> QED
        BY <1>1, <1>4, <4>1, OthersLocal DEF Working
    <3>2. CASE pc[p] = "down"
      <4>1. cmd[p] \notin {"none", "up"}
        BY <3>2 DEF Working, Phase
      <4>2. cmd[q] = "none" /\ pc[q] = "off"
        BY <4>1, Solo
      <4> QED
        BY <1>4, <4>2, IdleHolds
    <3> QED
      BY <1>1, <3>1, <3>2
  <2>2. (Phase(p) /\ Upward(p) /\ Downward(p) /\ Squashing(p))'
    BY <1>4, IdleHolds
  <2> QED
    BY <2>1, <2>2 DEF Working
<1>7. Agreed'
  <2>1. InDoubt(p) = {} /\ \A q \in Proc \ {p} : InDoubt(q)' = InDoubt(q)
    BY <1>1, <1>4 DEF InDoubt
  <2> QED
    BY <1>1, <1>3, <2>1 DEF Agreed
<1>8. BaselineFirst'
  <2>1. \A q \in Proc : pc[q] = "baseline" => pc'[q] = "baseline" /\ seen'[q] = seen[q]
    BY <1>1, <1>4
  <2>2. schema'[Baseline] = "absent"
    BY <1>1 DEF BaselineFirst, TypeOK
  <2>3. \A q \in Proc : Baseline \in mine'[q] => Baseline \in code'
    BY <1>1, <1>4 DEF BaselineFirst
  <2>4. \A q \in Proc : cmd'[q] \notin {"none", "squash"} /\ Baseline \in code' \ mine'[q]
                            => Baseline \in Recorded'
    BY <1>1, <1>3, <1>4 DEF BaselineFirst
  <2> QED
    BY <1>1, <1>3, <2>1, <2>2, <2>3, <2>4 DEF BaselineFirst
<1>9. Chronicle'
  BY <1>1 DEF Chronicle, Plain
<1> QED
  BY <1>2, <1>5, <1>6, <1>7, <1>8, <1>9

LEMMA RunDownInv == ASSUME IInv, NEW p \in Proc, RunDown(p) PROVE IInv'
<1> USE DEF IInv
<1> DEFINE h == Head(todo[p])
<1>1. /\ pc[p] = "down" /\ todo[p] # <<>> /\ steps[p] > 0 /\ schema[h] = "present"
      /\ schema' = [schema EXCEPT ![h] = "absent"] /\ earlier' = Without(h)
      /\ pc' = [pc EXCEPT ![p] = "unrecord"]
      /\ UNCHANGED <<code, table, dump, cmd, mine, seen, batch, todo, steps, hurt>>
  BY DEF RunDown, Goto
<1>2. TypeOK'
  BY StepType DEF Step
<1>3. h \in Id /\ h # Baseline /\ Recorded' = Recorded /\ Present' = Present \ {h}
  <2>1. h \in Id
    BY <1>1, RestSplits
  <2>2. h # Baseline
    BY <1>1 DEF BaselineFirst
  <2> QED
    BY <1>1, <2>1, <2>2 DEF Recorded, Present, TypeOK
<1>4. pc'[p] = "unrecord" /\ \A q \in Proc \ {p} : pc'[q] = pc[q]
  BY <1>1 DEF TypeOK
<1>5. cmd[p] \in {"down", "fresh"} /\ Downward(p)
  BY <1>1 DEF Working, Phase
<1>6. \A q \in Proc \ {p} : cmd[q] = "none" /\ pc[q] = "off" /\ InDoubt(q) = {}
  BY <1>5, Solo
<1>7. Alone'
  BY <1>1 DEF Alone
<1>8. Working'
  <2>1. (Phase(p) /\ Upward(p) /\ Squashing(p))'
    BY <1>1, <1>4, <1>5 DEF Phase, Upward, Squashing
  <2>2. Downward(p)'
    <3>1. Rest(p)' = Rest(p) /\ Undoable(p)' = Undoable(p) /\ Falling(todo[p])' = Falling(todo[p])
      BY <1>1, <1>3 DEF Rest, Undoable, Falling, Newer
    <3>2. \A i, k : Newer(i, k)' <=> Newer(i, k)
      BY <1>1 DEF Newer
    <3> HIDE DEF Newer
    <3> QED
      BY <1>1, <1>3, <1>4, <1>5, <3>1, <3>2 DEF Downward
  <2>3. ASSUME NEW q \in Proc \ {p} PROVE (Phase(q) /\ Upward(q) /\ Downward(q) /\ Squashing(q))'
    BY <1>1, <1>4, <1>6, IdleHolds
  <2> QED
    BY <2>1, <2>2, <2>3 DEF Working
<1>9. Agreed'
  <2>1. InDoubt(p) = {} /\ InDoubt(p)' = {h}
    BY <1>1, <1>4 DEF InDoubt
  <2> QED
    BY <1>1, <1>3, <1>6, <2>1 DEF Agreed
<1>10. BaselineFirst'
  BY <1>1, <1>3, <1>4 DEF BaselineFirst, TypeOK
<1>11. Chronicle'
  <2>1. earlier' \subseteq earlier
    BY <1>1 DEF Without
  <2>2. \A q \in Proc : pc'[q] # "record" /\ pc'[q] # "baseline" /\ pc[q] # "baseline"
    BY <1>1, <1>4, <1>6
  <2> QED
    BY <1>1, <1>3, <2>1, <2>2 DEF Chronicle, Plain, Precedes
<1> QED
  BY <1>2, <1>7, <1>8, <1>9, <1>10, <1>11

LEMMA UnrecordInv == ASSUME IInv, NEW p \in Proc, Unrecord(p) PROVE IInv'
<1> USE DEF IInv
<1> DEFINE h == Head(todo[p])
<1>1. /\ pc[p] = "unrecord" /\ todo[p] # <<>>
      /\ table' = [table EXCEPT ![h] = 0]
      /\ todo' = [todo EXCEPT ![p] = Tail(todo[p])]
      /\ steps' = [steps EXCEPT ![p] = steps[p] - 1]
      /\ pc' = [pc EXCEPT ![p] = "down"]
      /\ UNCHANGED <<code, schema, dump, cmd, mine, seen, batch, earlier, hurt>>
  BY DEF Unrecord, Goto, TypeOK
<1>2. TypeOK'
  BY StepType DEF Step
<1>3. cmd[p] \in {"down", "fresh"} /\ Downward(p)
  BY <1>1 DEF Working, Phase
<1>4. h \in Id /\ h # Baseline /\ h \notin Present
  BY <1>1, <1>3, RestSplits DEF Downward
<1>5. Recorded' = Recorded \ {h} /\ Present' = Present /\ \A i \in Id \ {h} : table'[i] = table[i]
  BY <1>1, <1>4 DEF Recorded, Present, TypeOK
<1>6. /\ pc'[p] = "down" /\ todo'[p] = Tail(todo[p])
      /\ \A q \in Proc \ {p} : pc'[q] = pc[q] /\ todo'[q] = todo[q]
  BY <1>1 DEF TypeOK
<1>7. \A q \in Proc \ {p} : cmd[q] = "none" /\ pc[q] = "off" /\ InDoubt(q) = {}
  BY <1>3, Solo
<1>8. Alone'
  BY <1>1 DEF Alone
<1>9. Working'
  <2>1. (Phase(p) /\ Upward(p) /\ Squashing(p))'
    BY <1>1, <1>3, <1>6 DEF Phase, Upward, Squashing
  <2>2. Downward(p)'
    <3>1. /\ todo[p] \in Seq(Id) /\ Falling(todo[p]) /\ Rest(p) \subseteq Undoable(p)
          /\ \A i \in Undoable(p) \ Rest(p), k \in Rest(p) : Newer(k, i)
      BY <1>1, <1>3 DEF Downward, TypeOK
    <3>2. Falling(Tail(todo[p])) /\ h \notin ToSet(Tail(todo[p]))
      <4>1. ~Newer(h, h)
        <5>1. h \in Nat /\ table[h] \in Nat
          BY <1>4, ConstantsOK DEF Id, TypeOK
        <5> QED
          BY <5>1 DEF Newer
      <4> HIDE DEF Newer
      <4> QED
        BY <1>1, <3>1, <4>1, HeadNewest
    <3>3. Rest(p) = {h} \cup ToSet(Tail(todo[p]))
      BY <1>1, RestSplits
    <3>4. Rest(p)' = Rest(p) \ {h} /\ Undoable(p)' = Undoable(p) \ {h} /\ Undoable(p) \subseteq Id
      BY <1>1, <1>5, <1>6, <3>2, <3>3 DEF Rest, Undoable, Recorded
    <3>6. \A i \in Id \ {h}, k \in Id \ {h} : Newer(k, i)' <=> Newer(k, i)
      BY <1>5 DEF Newer
    <3>5. Falling(todo[p])'
      <4>1. \A a \in DOMAIN Tail(todo[p]) : Tail(todo[p])[a] \in Id \ {h}
        <5>1. \A a \in DOMAIN Tail(todo[p]) : Tail(todo[p])[a] \in ToSet(Tail(todo[p]))
          BY DEF ToSet
        <5>2. ToSet(Tail(todo[p])) \subseteq Id
          BY <3>1, <3>3, <3>4
        <5> QED
          BY <3>2, <5>1, <5>2
      <4> QED
        BY <1>5, <1>6, <3>2, <4>1 DEF Falling, Newer
    <3>7. /\ Rest(p)' \subseteq Undoable(p)'
          /\ \A i \in Undoable(p)' \ Rest(p)', k \in Rest(p)' : Newer(k, i)'
      <4> HIDE DEF Newer
      <4> QED
        BY <3>1, <3>4, <3>6
    <3> QED
      BY <1>1, <1>6, <3>5, <3>7 DEF Downward
  <2>3. ASSUME NEW q \in Proc \ {p} PROVE (Phase(q) /\ Upward(q) /\ Downward(q) /\ Squashing(q))'
    BY <1>1, <1>6, <1>7, IdleHolds
  <2> QED
    BY <2>1, <2>2, <2>3 DEF Working
<1>10. Agreed'
  <2>1. InDoubt(p) = {h}
    BY <1>1 DEF InDoubt
  <2> QED
    BY <1>1, <1>4, <1>5, <1>7, <2>1 DEF Agreed
<1>11. BaselineFirst'
  BY <1>1, <1>4, <1>5, <1>6 DEF BaselineFirst
<1>12. Chronicle'
  <2>1. \A q \in Proc : pc'[q] # "record" /\ pc'[q] # "baseline" /\ pc[q] # "baseline"
    BY <1>1, <1>6, <1>7
  <2>2. \A e \in earlier : e[1] \in Id /\ e[2] \in Id
    BY DEF TypeOK, Present, Id
  <2> QED
    BY <1>1, <1>4, <1>5, <2>1, <2>2 DEF Chronicle, Plain, Precedes
<1> QED
  BY <1>2, <1>8, <1>9, <1>10, <1>11, <1>12

LEMMA WipeInv == ASSUME IInv, NEW p \in Proc, Wipe(p) PROVE IInv'
<1> USE DEF IInv
<1>1. /\ pc[p] = "wipe" /\ table' = [i \in Id |-> 0] /\ pc' = [pc EXCEPT ![p] = "baseline"]
      /\ UNCHANGED <<code, schema, dump, cmd, mine, seen, batch, todo, steps, earlier, hurt>>
  BY DEF Wipe, Goto
<1>2. TypeOK'
  BY StepType DEF Step
<1>3. Recorded' = {} /\ Present' = Present
  BY <1>1 DEF Recorded, Present
<1>4. pc'[p] = "baseline" /\ \A q \in Proc \ {p} : pc'[q] = pc[q]
  BY <1>1 DEF TypeOK
<1>5. cmd[p] = "squash" /\ Squashing(p) /\ Phase(p)
  BY <1>1 DEF Working, Phase
<1>6. \A q \in Proc \ {p} : cmd[q] = "none" /\ pc[q] = "off" /\ InDoubt(q) = {}
  BY <1>5, Solo
<1>7. seen[p] = Recorded /\ dump = Present /\ InDoubt(p) = {} /\ InDoubt(p)' = seen[p]
  BY <1>1, <1>4, <1>5 DEF Squashing, InDoubt
<1>8. \A i \in Present : i \in seen[p] \/ i \in hurt \/ i \in dump \ code
  BY <1>6, <1>7 DEF Agreed, Present
<1>9. Alone'
  BY <1>1 DEF Alone
<1>10. Working'
  <2>1. (Phase(p) /\ Upward(p) /\ Downward(p))'
    BY <1>1, <1>4, <1>5 DEF Phase, Upward, Downward
  <2>2. Squashing(p)'
    BY <1>1, <1>3, <1>4, <1>5 DEF Squashing
  <2>3. ASSUME NEW q \in Proc \ {p} PROVE (Phase(q) /\ Upward(q) /\ Downward(q) /\ Squashing(q))'
    BY <1>1, <1>4, <1>6, IdleHolds
  <2> QED
    BY <2>1, <2>2, <2>3 DEF Working
<1>11. Agreed'
  BY <1>1, <1>3, <1>7, <1>8 DEF Agreed
<1>12. BaselineFirst'
  <2>1. \A q \in Proc : cmd'[q] \in {"none", "squash"}
    BY <1>1, <1>5, <1>6
  <2> QED
    BY <1>1, <1>3, <1>4, <1>7, <1>8, <2>1 DEF BaselineFirst
<1>13. Chronicle'
  <2>1. Plain' => Plain
    BY <1>1, <1>4, <1>6, <1>7 DEF Plain
  <2>2. \A q \in Proc : pc'[q] # "record"
    BY <1>4, <1>6
  <2> QED
    BY <1>1, <1>3, <2>1, <2>2 DEF Chronicle
<1> QED
  BY <1>2, <1>9, <1>10, <1>11, <1>12, <1>13

LEMMA RecordBaselineInv == ASSUME IInv, NEW p \in Proc, RecordBaseline(p) PROVE IInv'
<1> USE DEF IInv
<1> DEFINE S == (mine[p] \cap seen[p]) \ {Baseline}
<1>1. /\ pc[p] = "baseline" /\ table' = [table EXCEPT ![Baseline] = batch[p]]
      /\ todo' = [todo EXCEPT ![p] = ById(S)] /\ pc' = [pc EXCEPT ![p] = "rerecord"]
      /\ UNCHANGED <<code, schema, dump, cmd, mine, seen, batch, steps, earlier, hurt>>
  BY DEF RecordBaseline, Goto
<1>2. TypeOK'
  BY StepType DEF Step
<1>3. cmd[p] = "squash" /\ Squashing(p) /\ Phase(p) /\ batch[p] > 0
  BY <1>1 DEF Working, Phase
<1>4. Recorded = {} /\ Recorded' = {Baseline} /\ Present' = Present
  BY <1>1, <1>3, ConstantsOK DEF Squashing, Recorded, Present, TypeOK, Id, Baseline
<1>5. /\ pc'[p] = "rerecord" /\ Rest(p)' = S
      /\ \A q \in Proc \ {p} : pc'[q] = pc[q] /\ todo'[q] = todo[q]
  BY <1>1, ByIdLists DEF Rest, TypeOK
<1>6. \A q \in Proc \ {p} : cmd[q] = "none" /\ pc[q] = "off" /\ InDoubt(q) = {}
  BY <1>3, Solo
<1>7. /\ dump = Present /\ (dump \ mine[p]) \cap code = {}
      /\ InDoubt(p) = seen[p] /\ InDoubt(p)' = S
  BY <1>1, <1>3, <1>5 DEF Squashing, InDoubt, Rest
<1>8. Alone'
  BY <1>1 DEF Alone
<1>9. Working'
  <2>1. (Phase(p) /\ Upward(p) /\ Downward(p))'
    BY <1>1, <1>3, <1>5 DEF Phase, Upward, Downward
  <2>2. Squashing(p)'
    BY <1>1, <1>3, <1>4, <1>5 DEF Squashing
  <2>3. ASSUME NEW q \in Proc \ {p} PROVE (Phase(q) /\ Upward(q) /\ Downward(q) /\ Squashing(q))'
    BY <1>1, <1>5, <1>6, IdleHolds
  <2> QED
    BY <2>1, <2>2, <2>3 DEF Working
<1>10. Agreed'
  <2>1. ASSUME NEW i \in 1..N, i \in Present, i \notin hurt, i \notin S
        PROVE  i \in (dump \ code) \cap Present
    <3>1. i \in seen[p] \/ i \in dump \ code
      BY <1>4, <1>6, <1>7, <2>1 DEF Agreed
    <3>2. i # Baseline
      BY DEF Baseline
    <3> QED
      BY <1>7, <2>1, <3>1, <3>2
  <2>2. Baseline \notin 1..N
    BY DEF Baseline
  <2> QED
    BY <1>1, <1>4, <1>7, <2>1, <2>2 DEF Agreed
<1>11. BaselineFirst'
  BY <1>1, <1>4 DEF BaselineFirst
<1>12. Chronicle'
  BY <1>4 DEF Chronicle, Plain
<1> QED
  BY <1>2, <1>8, <1>9, <1>10, <1>11, <1>12

LEMMA RerecordInv == ASSUME IInv, NEW p \in Proc, Rerecord(p) PROVE IInv'
<1> USE DEF IInv
<1> DEFINE h == Head(todo[p])
<1>1. /\ pc[p] = "rerecord" /\ todo[p] # <<>> /\ table' = [table EXCEPT ![h] = batch[p]]
      /\ todo' = [todo EXCEPT ![p] = Tail(todo[p])]
      /\ UNCHANGED <<code, schema, dump, cmd, pc, mine, seen, batch, steps, earlier, hurt>>
  BY DEF Rerecord, TypeOK
<1>2. TypeOK'
  BY StepType DEF Step
<1>3. cmd[p] = "squash" /\ Squashing(p) /\ Phase(p) /\ batch[p] > 0
  BY <1>1 DEF Working, Phase
<1>4. h \in Id /\ h \in Rest(p) /\ Rest(p) = {h} \cup ToSet(Tail(todo[p]))
  BY <1>1, RestSplits
<1>5. /\ Rest(p)' = ToSet(Tail(todo[p]))
      /\ \A q \in Proc \ {p} : todo'[q] = todo[q]
  BY <1>1 DEF Rest, TypeOK
<1>6. Recorded' = Recorded \cup {h} /\ Present' = Present
  BY <1>1, <1>3, <1>4 DEF Recorded, Present, TypeOK
<1>7. \A q \in Proc \ {p} : cmd[q] = "none" /\ pc[q] = "off" /\ InDoubt(q) = {}
  BY <1>3, Solo
<1>8. InDoubt(p) = Rest(p) /\ InDoubt(p)' = Rest(p)' /\ h \in Present \cup hurt
      /\ Baseline \in Recorded
  BY <1>1, <1>3, <1>4 DEF Squashing, InDoubt, Rest
<1>9. Alone'
  BY <1>1 DEF Alone
<1>10. Working'
  <2>1. (Phase(p) /\ Upward(p) /\ Downward(p))'
    BY <1>1, <1>3 DEF Phase, Upward, Downward
  <2>2. Squashing(p)'
    BY <1>1, <1>3, <1>4, <1>5, <1>6 DEF Squashing
  <2>3. ASSUME NEW q \in Proc \ {p} PROVE (Phase(q) /\ Upward(q) /\ Downward(q) /\ Squashing(q))'
    BY <1>1, <1>7, IdleHolds
  <2> QED
    BY <2>1, <2>2, <2>3 DEF Working
<1>11. Agreed'
  <2>1. ASSUME NEW i \in 1..N, i \in Rest(p), i # h PROVE i \in InDoubt(p)'
    BY <1>4, <1>5, <1>8, <2>1
  <2> QED
    BY <1>1, <1>6, <1>7, <1>8, <2>1 DEF Agreed
<1>12. BaselineFirst'
  BY <1>1, <1>6, <1>8 DEF BaselineFirst
<1>13. Chronicle'
  BY <1>6, <1>8 DEF Chronicle, Plain
<1> QED
  BY <1>2, <1>9, <1>10, <1>11, <1>12, <1>13

LEMMA RunUpInv == ASSUME IInv, NEW p \in Proc, RunUp(p) PROVE IInv'
<1> USE DEF IInv
<1> DEFINE h == Head(todo[p])
           new == IF h = Baseline THEN dump ELSE {h}
<1>1. /\ pc[p] = "up" /\ todo[p] # <<>> /\ \A i \in new : schema[i] = "absent"
      /\ schema' = [i \in Id |-> IF i \in new THEN "present" ELSE schema[i]]
      /\ earlier' = earlier \cup (Present \X new) \cup {e \in new \X new : e[1] < e[2]}
      /\ pc' = [pc EXCEPT ![p] = "record"]
      /\ UNCHANGED <<code, table, dump, cmd, mine, seen, batch, todo, steps, hurt>>
  BY DEF RunUp, Goto
<1>2. TypeOK'
  BY StepType DEF Step
<1>3. Phase(p) /\ Upward(p) /\ todo[p] \in Seq(Id) /\ InDoubt(p) = {}
  BY <1>1 DEF Working, TypeOK, InDoubt
<1>4. h \in Rest(p) /\ h \in mine[p] /\ \A k \in Rest(p) : k = h \/ h < k
  <2>1. Increasing(todo[p]) /\ Rest(p) \subseteq mine[p]
    BY <1>1, <1>3 DEF Upward
  <2> QED
    BY <1>1, <1>3, <2>1, RestSplits, HeadLeast
<1>5. h \in Id /\ Id = 1..N \cup {Baseline} /\ Baseline \notin 1..N
  <2>1. Id = 1..N \cup {Baseline} /\ Baseline \notin 1..N
    BY ConstantsOK DEF Id, Baseline
  <2> QED
    BY <1>1, <2>1, RestSplits
<1>6. new \subseteq 1..N /\ new \cap Present = {}
  BY <1>1, <1>5 DEF TypeOK, Present
<1>7. Present' = Present \cup new /\ Recorded' = Recorded
  BY <1>1, <1>5, <1>6 DEF Present, Recorded
<1>8. pc'[p] = "record" /\ \A q \in Proc \ {p} : pc'[q] = pc[q]
  BY <1>1 DEF TypeOK
<1>9. \A q \in Proc : pc[q] # "baseline" /\ cmd[q] # "squash"
  BY <1>1, <1>3, Together DEF Phase
<1>10. Baseline \in code \ Recorded => h = Baseline
  BY <1>1, BaselineBefore
<1>11. ASSUME NEW i \in dump, h = Baseline, i \notin Present
       PROVE  Baseline \in code \ Recorded /\ i \in (dump \ code) \cup hurt
  <2>1. Baseline \in code
    BY <1>4, <1>11 DEF BaselineFirst
  <2>2. Baseline \notin Recorded
    BY <1>1, <1>3, <1>4, <1>11 DEF Upward, Overtaken
  <2> QED
    BY <1>9, <1>11, <2>1, <2>2 DEF BaselineFirst
<1>12. Alone'
  BY <1>1 DEF Alone
<1>13. Working'
  <2>1. (Phase(p) /\ Downward(p) /\ Squashing(p))'
    BY <1>1, <1>3, <1>8, <1>9 DEF Phase, Downward, Squashing
  <2>2. Upward(p)'
    <3>1. Overtaken(Rest(p))'
      <4>1. Overtaken(Rest(p)) /\ Rest(p)' = Rest(p)
        BY <1>1, <1>3 DEF Upward, Rest
      <4> QED
        BY <1>1, <1>7, <4>1 DEF Overtaken
    <3> QED
      BY <1>1, <1>3, <1>7, <1>8, <3>1 DEF Upward, Rest, Increasing
  <2>3. ASSUME NEW q \in Proc \ {p} PROVE (Phase(q) /\ Upward(q) /\ Downward(q) /\ Squashing(q))'
    <3>1. pc[q] \in {"off", "applied", "batch", "up", "record"}
      BY <1>1, Together
    <3>2. Phase(q) /\ Upward(q)
      BY DEF Working
    <3>3. (Phase(q) /\ Downward(q) /\ Squashing(q))'
      BY <1>1, <1>8, <1>9, <3>1, <3>2 DEF Phase, Downward, Squashing
    <3>4. Upward(q)'
      BY <1>1, <1>7, <1>8, <3>2 DEF Upward, Overtaken, Rest, Increasing
    <3> QED
      BY <3>3, <3>4
  <2> QED
    BY <2>1, <2>2, <2>3 DEF Working
<1>14. Agreed'
  <2>1. InDoubt(p)' = {h} /\ \A q \in Proc \ {p} : InDoubt(q)' = InDoubt(q)
    BY <1>1, <1>8 DEF InDoubt
  <2>2. ASSUME NEW i \in 1..N, i \notin Present'
        PROVE  i \notin Present
    BY <1>7, <2>2
  <2>3. ASSUME NEW i \in new, i # h, i \notin Recorded, i \notin hurt
        PROVE  i \in (dump \ code) \cap (Present' \ Recorded')
    BY <1>6, <1>7, <1>11, <2>3
  <2> HIDE DEF new
  <2>4. \A q \in Proc : InDoubt(q) \subseteq InDoubt(q)'
    BY <1>3, <2>1
  <2> QED
    BY <1>1, <1>7, <2>1, <2>3, <2>4 DEF Agreed
<1>15. BaselineFirst'
  <2>1. schema'[Baseline] = "absent"
    BY <1>1, <1>5, <1>6 DEF BaselineFirst
  <2>2. ASSUME Baseline \in code' \ Recorded', NEW i \in Present' \cup dump'
        PROVE  i \in (dump' \ code') \cup hurt'
    <3>1. h = Baseline /\ i \in Present \cup dump /\ Baseline \in code \ Recorded
      BY <1>1, <1>7, <1>10, <2>2
    <3> QED
      BY <1>1, <1>9, <3>1 DEF BaselineFirst
  <2> QED
    BY <1>1, <1>7, <2>1, <2>2 DEF BaselineFirst
<1>16. Chronicle'
  <2> SUFFICES ASSUME Plain' PROVE Chronicle'
    BY DEF Chronicle
  <2>1. Plain /\ Baseline \notin Recorded /\ hurt = {}
    BY <1>1, <1>7, <1>9 DEF Plain
  <2>2. /\ \A q \in Proc : mine[q] \subseteq code
        /\ Baseline \notin code => Present \subseteq code
        /\ Baseline \in code => Recorded = {}
        /\ \A e \in earlier : e[1] \in Recorded /\ e[2] \in Recorded
                                => Precedes(e[1], table[e[1]], e[2], table[e[2]])
    BY <2>1 DEF Chronicle
  <2>3. ASSUME NEW q \in Proc \ {p}, pc[q] = "record", Head(todo[q]) # Baseline
        PROVE  FALSE
    <3> DEFINE k == Head(todo[q])
    <3>1. Upward(q) /\ todo[q] # <<>> /\ todo[q] \in Seq(Id) /\ mine[q] = mine[p]
      BY <1>1, <2>3, Together DEF Working, TypeOK
    <3>2. Increasing(todo[q]) /\ mine[q] \subseteq Recorded \cup Rest(q) /\ Rest(q) \subseteq mine[q]
          /\ k \in Present
      BY <2>3, <3>1 DEF Upward
    <3>3. k \in Rest(q) /\ k \in Id /\ \A j \in Rest(q) : j = k \/ k < j
      BY <3>1, <3>2, RestSplits, HeadLeast
    <3>4. Baseline \notin code
      BY <2>1, <2>3, <3>1, BaselineBefore
    <3>5. h # Baseline /\ h \notin Present /\ k # h
      BY <1>4, <1>6, <2>2, <3>2, <3>4
    <3>6. k \notin Recorded
      BY <2>1, <2>3 DEF Chronicle
    <3>7. h < k
      BY <1>3, <1>1, <1>4, <3>1, <3>2, <3>3, <3>5, <3>6 DEF Upward
    <3>8. h \notin Recorded
      <4>1. \A r \in Proc : h \notin InDoubt(r)
        <5>1. ASSUME NEW r \in Proc, h \in InDoubt(r) PROVE FALSE
          <6>1. r # p /\ pc[r] \in {"off", "applied", "batch", "up", "record"}
            BY <1>1, <1>3, <5>1, Together
          <6>2. pc[r] = "record" /\ h = Head(todo[r])
            BY <5>1, <6>1 DEF InDoubt
          <6> QED
            BY <3>5, <6>2 DEF Working, Upward
        <5> QED
          BY <5>1
      <4> QED
        BY <1>5, <2>1, <3>5, <4>1 DEF Agreed
    <3>9. h \in Rest(q)
      BY <1>4, <3>1, <3>2, <3>8
    <3> QED
      BY <1>5, <3>3, <3>5, <3>7, <3>9, ConstantsOK DEF Id
  <2>4. ASSUME h # Baseline
        PROVE  /\ h \notin Recorded /\ \A q \in Proc \ {p} : pc[q] # "record"
               /\ \A i \in Present : i \in Recorded /\ Precedes(i, table[i], h, batch[p])
    <3>1. Baseline \notin code /\ Present \subseteq code
      BY <1>10, <2>1, <2>2, <2>4
    <3>2. ASSUME NEW q \in Proc \ {p} PROVE pc[q] # "record"
      <4> SUFFICES ASSUME pc[q] = "record" PROVE FALSE
        OBVIOUS
      <4>1. Head(todo[q]) = Baseline
        BY <2>3
      <4>2. todo[q] # <<>> /\ Upward(q)
        BY DEF TypeOK, Working
      <4>3. Baseline \in mine[q]
        BY <4>1, <4>2, RestSplits DEF Upward
      <4> QED
        BY <2>2, <3>1, <4>3
    <3>3. \A q \in Proc : InDoubt(q) = {}
      <4>1. ASSUME NEW q \in Proc \ {p} PROVE InDoubt(q) = {}
        <5>1. pc[q] \in {"off", "applied", "batch", "up", "record"}
          BY <1>1, Together
        <5> QED
          BY <3>2, <5>1 DEF InDoubt
      <4> QED
        BY <1>3, <4>1
    <3>4. \A i \in Present : i \in 1..N /\ i \in code
      BY <3>1 DEF Present
    <3>5. \A i \in Present : i \in Recorded
      BY <2>1, <3>3, <3>4 DEF Agreed
    <3>6. h \in 1..N /\ h \notin Present
      BY <1>5, <1>6, <2>4
    <3>7. h \notin Recorded
      BY <2>1, <3>3, <3>6 DEF Agreed
    <3>8. ASSUME NEW i \in Present PROVE Precedes(i, table[i], h, batch[p])
      <4>1. i \in Recorded
        BY <3>5
      <4>2. i \notin Rest(p)
        BY <1>1, <1>3, <1>4, <3>5, <3>6, <3>7, <3>8 DEF Upward, Overtaken
      <4> QED
        BY <1>1, <1>3, <1>4, <4>1, <4>2 DEF Upward, Precedes
    <3> QED
      BY <3>2, <3>5, <3>7, <3>8
  <2>5. ASSUME NEW e \in earlier', e[1] \in Recorded, e[2] \in Recorded
        PROVE  Precedes(e[1], table[e[1]], e[2], table[e[2]])
    <3>1. new \cap Recorded = {}
      <4>1. CASE h = Baseline
        BY <1>4, <2>2, <4>1
      <4>2. CASE h # Baseline
        BY <2>4, <4>2
      <4> QED
        BY <4>1, <4>2
    <3>2. e \in earlier
      <4> HIDE DEF new
      <4> QED
        BY <1>1, <2>5, <3>1
    <3> QED
      BY <2>2, <2>5, <3>2
  <2>6. Baseline \notin code => Present' \subseteq code
    BY <1>4, <1>7, <2>2
  <2>7. ASSUME NEW q \in Proc, pc'[q] = "record", Head(todo[q]) # Baseline
        PROVE  /\ Head(todo[q]) \notin Recorded /\ \A r \in Proc \ {q} : pc'[r] # "record"
               /\ \A e \in earlier' : e[1] # Head(todo[q])
               /\ \A i \in Present' \ {Head(todo[q])} :
                     i \in Recorded /\ Precedes(i, table[i], Head(todo[q]), batch[q])
    <3>1. q = p
      BY <1>8, <2>3, <2>7
    <3>2. new = {h} /\ h # Baseline
      BY <2>7, <3>1
    <3>3. \A e \in earlier : e[1] \in Present
      BY DEF TypeOK
    <3>4. ~(h < h)
      BY <1>5, ConstantsOK DEF Id
    <3>5. ASSUME NEW e \in earlier' PROVE e[1] # h
      <4>1. CASE e \in earlier
        BY <1>6, <3>2, <3>3, <4>1
      <4>2. CASE e \in Present \X {h}
        BY <1>6, <3>2, <4>2
      <4>3. e \notin {x \in {h} \X {h} : x[1] < x[2]}
        BY <3>4
      <4> HIDE DEF new
      <4> QED
        BY <1>1, <3>2, <3>5, <4>1, <4>2, <4>3
    <3> QED
      BY <1>7, <1>8, <2>4, <3>1, <3>2, <3>5
  <2> HIDE DEF new
  <2> QED
    BY <1>1, <1>7, <2>2, <2>5, <2>6, <2>7 DEF Chronicle
<1> QED
  BY <1>2, <1>12, <1>13, <1>14, <1>15, <1>16

LEMMA RecordInv == ASSUME IInv, NEW p \in Proc, Record(p) PROVE IInv'
<1> USE DEF IInv
<1> DEFINE h == Head(todo[p])
<1>1. /\ pc[p] = "record" /\ todo[p] # <<>> /\ table[h] = 0
      /\ table' = [table EXCEPT ![h] = batch[p]]
      /\ todo' = [todo EXCEPT ![p] = Tail(todo[p])] /\ pc' = [pc EXCEPT ![p] = "up"]
      /\ UNCHANGED <<code, schema, dump, cmd, mine, seen, batch, steps, earlier, hurt>>
  BY DEF Record, Goto, TypeOK
<1>2. TypeOK'
  BY StepType DEF Step
<1>3. /\ Phase(p) /\ Upward(p) /\ todo[p] \in Seq(Id) /\ InDoubt(p) = {h}
      /\ batch[p] \in Nat /\ batch[p] > 0
  BY <1>1, ConstantsOK DEF Working, TypeOK, InDoubt, Phase
<1>4. /\ Increasing(todo[p]) /\ Rest(p) \subseteq mine[p] /\ mine[p] \subseteq Recorded \cup Rest(p)
      /\ Overtaken(Rest(p))
      /\ \A i \in Recorded \ Rest(p) :
            table[i] < batch[p] \/ (table[i] = batch[p] /\ \A k \in Rest(p) : i < k)
      /\ IF h = Baseline THEN dump \subseteq Present ELSE h \in Present
  BY <1>1, <1>3 DEF Upward
<1>5. /\ h \in Id /\ h \in Rest(p) /\ Rest(p) = {h} \cup ToSet(Tail(todo[p]))
      /\ Increasing(Tail(todo[p])) /\ \A k \in ToSet(Tail(todo[p])) : h < k
  BY <1>1, <1>3, <1>4, RestSplits, HeadLeast
<1>6. /\ Recorded' = Recorded \cup {h} /\ h \notin Recorded /\ Present' = Present
      /\ table'[h] = batch[p] /\ \A i \in Id \ {h} : table'[i] = table[i]
  BY <1>1, <1>3, <1>5 DEF Recorded, Present, TypeOK
<1>7. /\ pc'[p] = "up" /\ todo'[p] = Tail(todo[p]) /\ Rest(p)' = ToSet(Tail(todo[p]))
      /\ \A q \in Proc \ {p} : pc'[q] = pc[q] /\ todo'[q] = todo[q]
  BY <1>1 DEF Rest, TypeOK
<1>8. Id \subseteq Nat /\ Recorded \subseteq Id /\ ~(h < h) /\ Baseline = 0
  BY <1>5, ConstantsOK DEF Id, Recorded, Baseline
<1>9. Alone'
  BY <1>1 DEF Alone
<1>10. Working'
  <2>1. (Phase(p) /\ Downward(p) /\ Squashing(p))'
    BY <1>1, <1>3, <1>7 DEF Phase, Downward, Squashing
  <2>2. Upward(p)'
    <3>1. h \notin Rest(p)'
      BY <1>5, <1>7, <1>8
    <3>2. Overtaken(Rest(p))'
      <4>1. Baseline \notin Rest(p)'
        <5>1. h \in Nat
          BY <1>5, <1>8
        <5>2. ~(h < Baseline)
          BY <1>8, <5>1
        <5> QED
          BY <1>5, <1>7, <5>2
      <4>2. Rest(p)' \subseteq Rest(p)
        BY <1>5, <1>7
      <4>3. \A i \in Rest(p)', k \in Rest(p)' : k < i /\ i \in Recorded' => k \in Recorded
        BY <1>4, <1>6, <3>1, <4>2 DEF Overtaken
      <4> QED
        BY <1>6, <4>1, <4>3 DEF Overtaken
    <3>3. ASSUME NEW i \in Recorded' \ Rest(p)'
          PROVE  table'[i] < batch'[p] \/ (table'[i] = batch'[p] /\ \A k \in Rest(p)' : i < k)
      <4>1. CASE i = h
        BY <1>1, <1>5, <1>6, <1>7, <4>1
      <4>2. CASE i # h
        BY <1>1, <1>4, <1>5, <1>6, <1>7, <1>8, <3>3, <4>2
      <4> QED
        BY <4>1, <4>2
    <3>4. Increasing(todo[p])' /\ Rest(p)' \subseteq mine'[p] /\ mine'[p] \subseteq Recorded' \cup Rest(p)'
      BY <1>1, <1>4, <1>5, <1>6, <1>7 DEF Increasing
    <3> QED
      BY <1>7, <3>2, <3>3, <3>4 DEF Upward
  <2>3. ASSUME NEW q \in Proc \ {p} PROVE (Phase(q) /\ Upward(q) /\ Downward(q) /\ Squashing(q))'
    <3>1. /\ pc[q] \in {"off", "applied", "batch", "up", "record"} /\ cmd[q] # "squash"
          /\ pc[q] # "off" => mine[q] = mine[p]
      BY <1>1, Together
    <3>2. Phase(q) /\ Upward(q)
      BY DEF Working
    <3>3. (Phase(q) /\ Downward(q) /\ Squashing(q))'
      BY <1>1, <1>7, <3>1, <3>2 DEF Phase, Downward, Squashing
    <3>4. ASSUME NEW S \in SUBSET mine[p], Overtaken(S)
          PROVE  /\ \A i \in S, k \in S : k < i /\ i \in Recorded' => k \in Recorded'
                 /\ Baseline \in S \cap Recorded' => dump' \subseteq Present'
      <4>1. ASSUME NEW k \in mine[p], k < h PROVE k \in Recorded
        <5>1. k \in Nat /\ h \in Nat
          BY <1>5, <1>8 DEF TypeOK
        <5>2. k # h /\ ~(h < k)
          BY <4>1, <5>1
        <5> QED
          BY <1>4, <1>5, <5>2
      <4> QED
        BY <1>1, <1>4, <1>6, <3>4, <4>1 DEF Overtaken
    <3>5. ASSUME pc[q] = "batch"
          PROVE  seen'[q] \subseteq Recorded' /\ Overtaken(mine[q] \ seen[q])'
      <4>1. seen[q] \subseteq Recorded /\ Overtaken(mine[q] \ seen[q]) /\ mine[q] = mine[p]
        BY <3>1, <3>2, <3>5 DEF Upward
      <4> DEFINE S == mine[q] \ seen[q]
      <4>2. S \in SUBSET mine[p]
        BY <4>1
      <4>3. mine' = mine /\ seen' = seen
        BY <1>1
      <4>4. /\ \A i \in S, k \in S : k < i /\ i \in Recorded' => k \in Recorded'
            /\ Baseline \in S \cap Recorded' => dump' \subseteq Present'
        <5> HIDE DEF S
        <5> QED
          BY <3>4, <4>1, <4>2 DEF S
      <4> QED
        BY <1>6, <4>1, <4>3, <4>4 DEF Overtaken
    <3>6. ASSUME pc[q] \in {"up", "record"}
          PROVE  /\ Increasing(todo[q])' /\ Rest(q)' \subseteq mine'[q]
                 /\ mine'[q] \subseteq Recorded' \cup Rest(q)'
                 /\ Overtaken(Rest(q))'
                 /\ \A i \in Recorded' \ Rest(q)' :
                       table'[i] < batch'[q] \/ (table'[i] = batch'[q] /\ \A k \in Rest(q)' : i < k)
      <4>1. /\ Increasing(todo[q]) /\ Rest(q) \subseteq mine[p]
            /\ mine[p] \subseteq Recorded \cup Rest(q) /\ Overtaken(Rest(q))
            /\ \A i \in Recorded \ Rest(q) :
                  table[i] < batch[q] \/ (table[i] = batch[q] /\ \A k \in Rest(q) : i < k)
        BY <3>1, <3>2, <3>6 DEF Upward
      <4>2. Rest(q)' = Rest(q) /\ h \in Rest(q)
        BY <1>4, <1>5, <1>6, <1>7, <4>1 DEF Rest
      <4>3. Overtaken(Rest(q))'
        BY <3>4, <4>1, <4>2 DEF Overtaken
      <4>4. \A i \in Recorded' \ Rest(q)' : i \in Recorded \ Rest(q) /\ table'[i] = table[i]
        BY <1>6, <1>8, <4>2
      <4> QED
        BY <1>1, <1>6, <1>7, <3>1, <3>6, <4>1, <4>2, <4>3, <4>4 DEF Increasing
    <3>7. Upward(q)'
      BY <1>1, <1>6, <1>7, <3>2, <3>5, <3>6 DEF Upward
    <3> QED
      BY <3>3, <3>7
  <2> QED
    BY <2>1, <2>2, <2>3 DEF Working
<1>11. Agreed'
  <2>1. h \in 1..N => h \in Present
    <3>1. h \in 1..N => h # Baseline
      BY DEF Baseline
    <3> QED
      BY <1>4, <3>1
  <2>2. ASSUME NEW q \in Proc \ {p} PROVE InDoubt(q)' = InDoubt(q)
    <3>1. pc'[q] = pc[q] /\ todo'[q] = todo[q] /\ seen'[q] = seen[q]
      BY <1>1, <1>7
    <3> QED
      BY <3>1 DEF InDoubt
  <2>3. ASSUME NEW i \in 1..N, i = h PROVE i \in Recorded' /\ i \in Present'
    BY <1>6, <2>1, <2>3
  <2>4. ASSUME NEW i \in 1..N, i # h
        PROVE  /\ i \in Recorded' <=> i \in Recorded
               /\ \A q \in Proc : i \in InDoubt(q) => i \in InDoubt(q)'
    BY <1>3, <1>6, <2>2, <2>4
  <2> QED
    BY <1>1, <1>6, <2>3, <2>4 DEF Agreed
<1>12. BaselineFirst'
  <2>1. \A q \in Proc : pc[q] # "baseline"
    BY <1>1, Together
  <2> QED
    BY <1>1, <1>6, <2>1 DEF BaselineFirst
<1>13. Chronicle'
  <2> SUFFICES ASSUME Plain' PROVE Chronicle'
    BY DEF Chronicle
  <2>1. Plain /\ h # Baseline
    <3>1. \A q \in Proc : pc[q] # "baseline"
      BY <1>1, Together
    <3> QED
      BY <1>1, <1>6, <3>1 DEF Plain
  <2>2. Baseline \notin code
    BY <1>1, <1>6, <2>1, BaselineBefore DEF Plain
  <2>3. /\ \A q \in Proc \ {p} : pc[q] # "record"
        /\ \A e \in earlier : e[1] # h
        /\ \A i \in Present \ {h} : i \in Recorded /\ Precedes(i, table[i], h, batch[p])
    BY <1>1, <2>1 DEF Chronicle
  <2>4. ASSUME NEW e \in earlier, e[1] \in Recorded', e[2] \in Recorded'
        PROVE  Precedes(e[1], table'[e[1]], e[2], table'[e[2]])
    <3>1. e[1] \in Present \ {h} /\ e[1] \in Recorded
      BY <1>6, <2>3, <2>4 DEF TypeOK
    <3>2. CASE e[2] = h
      BY <1>6, <1>8, <2>3, <3>1, <3>2
    <3>3. CASE e[2] # h
      <4>1. Precedes(e[1], table[e[1]], e[2], table[e[2]])
        BY <1>6, <2>1, <2>4, <3>1, <3>3 DEF Chronicle
      <4>2. table'[e[1]] = table[e[1]] /\ table'[e[2]] = table[e[2]]
        BY <1>6, <1>8, <2>4, <3>1, <3>3
      <4> QED
        BY <4>1, <4>2
    <3> QED
      BY <3>2, <3>3
  <2>5. \A q \in Proc : pc'[q] # "record"
    BY <1>7, <2>3
  <2> QED
    BY <1>1, <1>6, <2>1, <2>2, <2>4, <2>5 DEF Chronicle
<1> QED
  BY <1>2, <1>9, <1>10, <1>11, <1>12, <1>13

-----------------------------------------------------------------------------
(* The theorems *)

LEMMA InitInv == Init => IInv
<1> SUFFICES ASSUME Init PROVE IInv
  OBVIOUS
<1> USE DEF Init
<1>1. Present = {} /\ Recorded = {}
  BY DEF Present, Recorded, Id
<1>2. \A p \in Proc : cmd[p] = "none" /\ pc[p] = "off" /\ mine[p] = {} /\ todo[p] = <<>>
  OBVIOUS
<1>3. TypeOK
  <2>1. <<>> \in Seq(Id) /\ 0 \in 0..MaxBatch /\ Baseline \in Id
    BY ConstantsOK, EmptySeq DEF Id, Baseline
  <2>2. code \subseteq Id /\ dump \subseteq 1..N
    BY <2>1
  <2>3. table \in [Id -> 0..MaxBatch] /\ batch \in [Proc -> 0..MaxBatch]
        /\ todo \in [Proc -> Seq(Id)] /\ steps \in [Proc -> Nat]
    BY <2>1
  <2>4. cmd \in [Proc -> Command] /\ schema \in [Id -> {"absent", "present", "half"}]
        /\ mine \in [Proc -> SUBSET Id] /\ seen \in [Proc -> SUBSET Id]
    BY DEF Command
  <2> QED
    BY <1>1, <1>2, <2>2, <2>3, <2>4 DEF TypeOK
<1>4. Alone /\ Working
  BY <1>2 DEF Alone, Working, Phase, Upward, Downward, Squashing
<1>5. Agreed
  BY <1>1 DEF Agreed
<1>6. BaselineFirst
  <2>1. schema[Baseline] = "absent"
    BY ConstantsOK DEF Id, Baseline
  <2>2. \A i \in dump : i \in dump \ code
    BY DEF Baseline
  <2> QED
    BY <1>1, <1>2, <2>1, <2>2 DEF BaselineFirst
<1>7. Chronicle
  BY <1>1, <1>2 DEF Chronicle
<1> QED
  BY <1>3, <1>4, <1>5, <1>6, <1>7 DEF IInv

LEMMA StepInv == ASSUME IInv, NEW p \in Proc, Step(p) PROVE IInv'
  BY ReturnsInv, FailHalfwayInv, ReadAppliedInv, ReadBatchInv, RunUpInv, RecordInv, CountInv,
     ListInv, RunDownInv, UnrecordInv, DownReturnsInv, ReadMaxInv, WipeInv, RecordBaselineInv,
     RerecordInv DEF Step

LEMMA StutterInv == ASSUME IInv, UNCHANGED vars PROVE IInv'
<1> USE DEF IInv
<1>1. UNCHANGED <<code, table, schema, dump, cmd, pc, mine, seen, batch, todo, steps, earlier, hurt>>
  BY DEF vars, db, local
<1>2. /\ Present' = Present /\ Recorded' = Recorded
      /\ \A q \in Proc : InDoubt(q)' = InDoubt(q)
  BY <1>1, SchemaKept DEF InDoubt
<1>3. TypeOK' /\ Alone' /\ Agreed'
  BY <1>1, <1>2 DEF TypeOK, Alone, Agreed
<1>4. Working'
  BY <1>1, <1>2, OthersLocal DEF Working
<1>5. BaselineFirst' /\ Chronicle'
  BY <1>1, <1>2 DEF BaselineFirst, Chronicle, Plain, Precedes
<1> QED
  BY <1>3, <1>4, <1>5

LEMMA NextInv == IInv /\ [Next]_vars => IInv'
<1> SUFFICES ASSUME IInv, [Next]_vars PROVE IInv'
  OBVIOUS
<1>1. ASSUME NEW i \in Id, Register(i) \/ Retire(i) PROVE IInv'
  BY <1>1, RegisterInv, RetireInv
<1>2. ASSUME NEW p \in Proc, Step(p) PROVE IInv'
  BY <1>2, StepInv
<1>3. ASSUME NEW p \in Proc, NEW c \in Command \ {"none"}, NEW n \in 1..MaxSteps, Start(p, c, n)
      PROVE  IInv'
  BY <1>3, StartInv
<1>4. CASE UNCHANGED vars
  BY <1>4, StutterInv
<1> QED
  BY <1>1, <1>2, <1>3, <1>4 DEF Next

LEMMA Inductive == Spec => []IInv
<1>1. Init => IInv
  BY InitInv
<1>2. IInv /\ [Next]_vars => IInv'
  BY NextInv
<1> QED
  BY <1>1, <1>2, PTL DEF Spec

\* The types of the tables and of the commands' locals (Migrations.TypeOK),
\* whatever the migrations, the commands, the hosts and the faults.
THEOREM TypeCorrect == Spec => []TypeOK
<1>1. IInv => TypeOK
  BY DEF IInv
<1> QED
  BY <1>1, Inductive, PTL

\* The migrations table and the schema agree but for what a command has in
\* hand, what a fault left, and what the baseline stands for (migrate.go:87-160
\* and squash.go:23-79): for any number of hosts that migrate at once, and
\* whatever one of them was interrupted in.
THEOREM AlwaysInStep == Spec => []InStep
<1>1. IInv => InStep
  <2> SUFFICES ASSUME IInv, NEW i \in 1..N
               PROVE  \/ table[i] > 0 <=> schema[i] = "present"
                      \/ \E p \in Proc : i \in InDoubt(p)
                      \/ i \in hurt
                      \/ i \in dump \ code
    BY DEF InStep
  <2>1. i \in Recorded <=> table[i] > 0
    BY DEF Recorded, Id
  <2>2. i \in Present <=> schema[i] = "present"
    BY DEF Present
  <2> QED
    BY <2>1, <2>2 DEF IInv, Agreed
<1> QED
  BY <1>1, Inductive, PTL

\* An Up that has come to the end of its list leaves no migration of its build
\* unrecorded, also when others of the same build took some of them
\* (migrate.go:87-121).
THEOREM UpLeavesNone == Spec => []UpComplete
<1>1. IInv => UpComplete
  <2> SUFFICES ASSUME IInv, NEW p \in Proc, pc[p] = "up", todo[p] = <<>>
               PROVE  mine[p] \subseteq Recorded
    BY DEF UpComplete
  <2>1. mine[p] \subseteq Recorded \cup Rest(p) /\ Rest(p) = {}
    BY Emptied DEF IInv, Working, Upward, Rest
  <2> QED
    BY <2>1
<1> QED
  BY <1>1, Inductive, PTL

\* Before a squash, and without a fault, Down undoes last what was applied
\* first (migrate.go:126-160): no migration it could undo was applied after
\* the one it undoes.
THEOREM UndoneInReverse == Spec => NewestUndoneFirst
<1> DEFINE A == \A p \in Proc : RunDown(p) /\ table[Baseline] = 0 /\ hurt = {} =>
                   {j \in mine[p] \cap Reversible : <<Head(todo[p]), j>> \in earlier} = {}
<1>1. IInv => A
  <2> SUFFICES ASSUME IInv, NEW p \in Proc, RunDown(p), table[Baseline] = 0, hurt = {},
                      NEW j \in mine[p] \cap Reversible, <<Head(todo[p]), j>> \in earlier
               PROVE  FALSE
    OBVIOUS
  <2> USE DEF IInv
  <2> DEFINE h == Head(todo[p])
  <2>1. /\ pc[p] = "down" /\ todo[p] # <<>> /\ h \in Present /\ j \in Present
        /\ todo[p] \in Seq(Id) /\ Downward(p) /\ cmd[p] \in {"down", "fresh"}
    BY DEF RunDown, TypeOK, Working, Phase
  <2>2. \A q \in Proc : InDoubt(q) = {} /\ pc[q] # "baseline"
    <3>1. InDoubt(p) = {}
      BY <2>1 DEF InDoubt
    <3>2. \A q \in Proc \ {p} : pc[q] = "off" /\ InDoubt(q) = {}
      BY <2>1, Solo
    <3> QED
      BY <2>1, <3>1, <3>2
  <2>3. Plain
    BY <2>2 DEF Plain, Recorded
  <2>4. h \in Recorded /\ h \in Rest(p) /\ Rest(p) = {h} \cup ToSet(Tail(todo[p]))
    BY <2>1, RestSplits DEF Downward, Undoable
  <2>5. Present \subseteq code
    BY <2>3, <2>4 DEF Chronicle
  <2>6. j \in Recorded
    <3>1. j \in 1..N /\ j \notin dump \ code
      BY <2>1, <2>5 DEF Present
    <3> QED
      BY <2>1, <2>2, <3>1 DEF Agreed
  <2>7. Precedes(h, table[h], j, table[j])
    <3> DEFINE e == <<h, j>>
    <3>1. e \in earlier /\ e[1] = h /\ e[2] = j
      OBVIOUS
    <3> HIDE DEF e
    <3> QED
      BY <2>3, <2>4, <2>6, <3>1 DEF Chronicle
  <2>8. j \in Undoable(p)
    BY <2>6 DEF Undoable
  <2>9. j = h \/ Newer(h, j)
    <3>1. CASE j \in Rest(p)
      BY <2>1, <2>4, <3>1, HeadNewest DEF Downward
    <3>2. CASE j \notin Rest(p)
      BY <2>1, <2>4, <2>8, <3>2 DEF Downward
    <3> QED
      BY <3>1, <3>2
  <2>10. h \in Nat /\ j \in Nat /\ table[h] \in Nat /\ table[j] \in Nat
    <3>1. h \in Id /\ j \in Id
      BY <2>4, <2>6 DEF Recorded
    <3>2. table \in [Id -> 0..MaxBatch]
      BY DEF TypeOK
    <3> QED
      BY <3>1, <3>2, ConstantsOK DEF Id
  <2>11. ~Precedes(h, table[h], h, table[h]) /\ (Newer(h, j) => ~Precedes(h, table[h], j, table[j]))
    BY <2>10 DEF Precedes, Newer
  <2> QED
    BY <2>7, <2>9, <2>11
<1>2. IInv /\ [Next]_vars => [A]_vars
  BY <1>1
<1> QED
  BY <1>2, Inductive, PTL DEF Spec, NewestUndoneFirst
=============================================================================
