---------------------------- MODULE Records_proofs ----------------------------
(***************************************************************************)
(* Proofs about Records for any ids, names, clients, connections, chains,  *)
(* walks and bodies of transactions.                                       *)
(***************************************************************************)
EXTENDS Records, SequenceTheorems, FiniteSetTheorems, WellFoundedInduction, TLAPS

-----------------------------------------------------------------------------
(* Chains of builder calls *)

LEMMA LeastExists ==
    ASSUME NEW S, S \subseteq Nat, S # {}
    PROVE  \E x \in S : \A y \in S : x <= y
<1>1. PICK x \in S : \A y \in S : ~ (<<y, x>> \in OpToRel(<, Nat))
  BY NatLessThanWellFounded, WFMin
<1>2. ASSUME NEW y \in S PROVE x <= y
  <2>1. ~(y < x)
    BY <1>1 DEF OpToRel
  <2> QED
    BY <2>1
<1> QED
  BY <1>2

LEMMA UpTo ==
    ASSUME NEW S, NEW n \in Nat, 0 \in S, \A m \in 0..(n - 1) : m \in S => m + 1 \in S
    PROVE  \A m \in 0..n : m \in S
<1> DEFINE Bad == {m \in 0..n : m \notin S}
<1> SUFFICES ASSUME Bad # {} PROVE FALSE
  OBVIOUS
<1>0. Bad \subseteq Nat
  OBVIOUS
<1>1. PICK x \in Bad : \A y \in Bad : x <= y
  <2> HIDE DEF Bad
  <2> QED
    BY <1>0, LeastExists
<1>2. x \in 0..n /\ x # 0 /\ x \notin S
  OBVIOUS
<1>3. x - 1 \in 0..(n - 1) /\ x - 1 \notin Bad /\ x - 1 \in 0..n
  BY <1>1, <1>2
<1>4. x - 1 \in S /\ (x - 1) + 1 = x
  BY <1>2, <1>3
<1> QED
  BY <1>2, <1>3, <1>4

\* What every call keeps, the chain keeps.
LEMMA ChainKeeps ==
    ASSUME NEW tx \in BOOLEAN, NEW D, NEW q \in D, NEW ks \in Seq(BuilderCall),
           \A x \in D, k \in BuilderCall : Called(x, k) \in D /\ TxCalled(x, k) \in D
    PROVE  ChainOf(tx, q, ks) \in D
<1> DEFINE G(x, k) == IF tx THEN TxCalled(x, k) ELSE Called(x, k)
           F(g, n) == [m \in 0..n |-> IF m = 0 THEN q ELSE G(g[m - 1], ks[m])]
           L == Len(ks)
<1>1. L \in Nat /\ \A m \in 1..L : ks[m] \in BuilderCall
  BY LenProperties, ElementOfSeq
<1> HIDE DEF L
<1>0. \A x \in D, k \in BuilderCall : G(x, k) \in D
  OBVIOUS
<1>2. \E g : g = F(g, L)
  <2> DEFINE S == {n \in 0..L : \E g : g = F(g, n)}
  <2>1. 0 \in S
    <3> DEFINE h == [m \in 0..0 |-> q]
    <3>0. 0 \in 0..L /\ \A m \in 0..0 : m = 0
      BY <1>1
    <3>1. \A m \in 0..0 : h[m] = IF m = 0 THEN q ELSE G(h[m - 1], ks[m])
      BY <3>0
    <3>2. h = F(h, 0)
      BY <3>1
    <3> HIDE DEF h
    <3> QED
      BY <3>0, <3>2, Zenon
  <2>2. ASSUME NEW n \in 0..(L - 1), n \in S PROVE n + 1 \in S
    <3>1. PICK g : g = F(g, n)
      BY <2>2
    <3> DEFINE h == [m \in 0..(n + 1) |-> IF m <= n THEN g[m] ELSE G(g[n], ks[n + 1])]
    <3>2. \A m \in 0..(n + 1) : h[m] = IF m = 0 THEN q ELSE G(h[m - 1], ks[m])
      <4> SUFFICES ASSUME NEW m \in 0..(n + 1)
                   PROVE  h[m] = IF m = 0 THEN q ELSE G(h[m - 1], ks[m])
        OBVIOUS
      <4>1. CASE m = 0
        BY <3>1, <4>1, <1>1
      <4>2. CASE m \in 1..n
        <5>1. m \in 0..n /\ m - 1 \in 0..n /\ m # 0
          BY <4>2, <1>1
        <5>2. h[m] = g[m] /\ h[m - 1] = g[m - 1]
          BY <5>1, <1>1
        <5>3. g[m] = G(g[m - 1], ks[m])
          BY <3>1, <5>1
        <5> QED
          BY <5>1, <5>2, <5>3
      <4>3. CASE m = n + 1
        <5>1. m # 0 /\ m - 1 = n /\ n \in 0..(n + 1) /\ ~(m <= n) /\ n <= n
          BY <4>3, <1>1
        <5>2. h[m] = G(g[n], ks[n + 1]) /\ h[m - 1] = g[n]
          BY <5>1, <4>3
        <5> QED
          BY <5>1, <5>2, <4>3
      <4> QED
        BY <4>1, <4>2, <4>3, <1>1
    <3>3. h = F(h, n + 1)
      BY <3>2
    <3> HIDE DEF h
    <3>4. n + 1 \in 0..L
      BY <1>1
    <3> QED
      BY <3>3, <3>4, Zenon
  <2> HIDE DEF S
  <2>3. L \in S
    <3>1. L \in Nat
      BY <1>1
    <3>2. \A m \in 0..(L - 1) : m \in S => m + 1 \in S
      BY <2>2
    <3>3. \A m \in 0..L : m \in S
      BY <2>1, <3>1, <3>2, UpTo, Zenon
    <3> QED
      BY <3>1, <3>3
  <2> QED
    BY <2>3 DEF S
<1> DEFINE after == CHOOSE g : g = F(g, L)
<1>3. after = F(after, L)
  BY <1>2
<1>4. ChainOf(tx, q, ks) = after[L]
  BY Zenon DEF ChainOf, L
<1> HIDE DEF G
<1> HIDE DEF after
<1> DEFINE S == {n \in 0..L : after[n] \in D}
<1>5. 0 \in S
  BY <1>1, <1>3
<1>6. ASSUME NEW n \in 0..(L - 1), n \in S PROVE n + 1 \in S
  <2>1. n + 1 \in 0..L /\ n + 1 # 0 /\ (n + 1) - 1 = n /\ ks[n + 1] \in BuilderCall
    BY <1>1
  <2>2. after[n + 1] = G(after[n], ks[n + 1])
    BY <1>3, <2>1
  <2> QED
    BY <1>0, <1>6, <2>1, <2>2
<1> HIDE DEF S
<1>7. L \in S
  <2>1. L \in Nat
    BY <1>1
  <2>2. \A m \in 0..(L - 1) : m \in S => m + 1 \in S
    BY <1>6
  <2>3. \A m \in 0..L : m \in S
    BY <1>5, <2>1, <2>2, UpTo, Zenon
  <2> QED
    BY <2>1, <2>3
<1> QED
  BY <1>4, <1>7 DEF S

-----------------------------------------------------------------------------
(* What the scope of soft deletion leaves behind *)

\* The query has a condition that keeps the rows in the trash out.
Scope(q) == \E p \in DOMAIN q.wheres : q.wheres[p].op = "IS NULL"

LEMMA AddWhereKeeps ==
    ASSUME NEW q \in Query, NEW w \in Conditions
    PROVE  /\ AddWhere(q, w) \in Query
           /\ AddWhere(q, w).offset = q.offset
           /\ Scope(q) \/ w.op = "IS NULL" => Scope(AddWhere(q, w))
<1> DEFINE s == q.wheres
           t == Append(s, w)
<1>1. s \in Seq(Conditions) /\ AddWhere(q, w) = [q EXCEPT !.wheres = t]
  BY DEF Query, AddWhere
<1>2. /\ t \in Seq(Conditions) /\ Len(t) = Len(s) + 1 /\ t[Len(s) + 1] = w
      /\ \A i \in 1..Len(s) : t[i] = s[i]
  BY <1>1, AppendProperties
<1>3. DOMAIN s = 1..Len(s) /\ DOMAIN t = 1..(Len(s) + 1) /\ Len(s) \in Nat
  BY <1>1, <1>2, LenProperties
<1>4. /\ [q EXCEPT !.wheres = t].wheres = t /\ [q EXCEPT !.wheres = t] \in Query
      /\ [q EXCEPT !.wheres = t].offset = q.offset
  BY <1>2 DEF Query
<1> HIDE DEF s, t
<1>5. ASSUME \E p \in DOMAIN s : s[p].op = "IS NULL"
      PROVE  \E p \in DOMAIN t : t[p].op = "IS NULL"
  <2>1. PICK p \in DOMAIN s : s[p].op = "IS NULL"
    BY <1>5
  <2>2. p \in DOMAIN t /\ t[p] = s[p]
    BY <1>2, <1>3
  <2> QED
    BY <2>1, <2>2
<1>6. ASSUME w.op = "IS NULL" PROVE \E p \in DOMAIN t : t[p].op = "IS NULL"
  <2>1. Len(s) + 1 \in DOMAIN t
    BY <1>3
  <2> QED
    BY <1>2, <1>6, <2>1
<1> QED
  BY <1>1, <1>4, <1>5, <1>6 DEF Scope, s

LEMMA FromType ==
    /\ From \in Query /\ WhereNull(From) \in Query /\ OnlyTrashed \in Query
    /\ ModelQuery \in Query /\ ModelQuery.offset = 0
    /\ SoftDelete => Scope(ModelQuery)
<1>1. From \in Query /\ From.offset = 0
  BY EmptySeq DEF From, Query
<1>2. /\ Condition("deleted_at", "IS NULL", {}, FALSE) \in Conditions
      /\ Condition("deleted_at", "IS NULL", {}, FALSE).op = "IS NULL"
      /\ Condition("deleted_at", "IS NOT NULL", {}, FALSE) \in Conditions
  BY DEF Condition, Conditions
<1>3. /\ WhereNull(From) \in Query /\ WhereNull(From).offset = 0 /\ Scope(WhereNull(From))
      /\ OnlyTrashed \in Query
  BY <1>1, <1>2, AddWhereKeeps DEF WhereNull, WhereNotNull, OnlyTrashed
<1> QED
  BY <1>1, <1>3 DEF ModelQuery

\* A condition on a set of values.
LEMMA WhereKeeps ==
    ASSUME NEW q \in Query, NEW col \in {"id", "name"}, NEW vals \in SUBSET (Int \cup Name)
    PROVE  /\ Where(q, col, vals) \in Query /\ OrWhere(q, col, vals) \in Query
           /\ Where(q, col, vals).offset = q.offset
           /\ Scope(q) => Scope(Where(q, col, vals)) /\ Scope(OrWhere(q, col, vals))
<1>1. Condition(col, "=", vals, FALSE) \in Conditions /\ Condition(col, "=", vals, TRUE) \in Conditions
  BY DEF Condition, Conditions
<1> QED
  BY <1>1, AddWhereKeeps DEF Where, OrWhere

\* LIMIT, OFFSET and ORDER BY leave the conditions alone.
LEMMA WindowKeeps ==
    ASSUME NEW q \in Query
    PROVE  /\ \A n \in Int : /\ Limit(q, n) \in Query /\ Limit(q, n).wheres = q.wheres
                             /\ Offset(q, n) \in Query /\ Offset(q, n).wheres = q.wheres
           /\ \A dir \in {"ASC", "DESC"} : OrderBy(q, dir) \in Query /\ OrderBy(q, dir).wheres = q.wheres
  BY DEF Query, Limit, Offset, OrderBy

\* One call of a chain leaves the scope in the query.
LEMMA CalledKeeps ==
    ASSUME NEW q \in Query, NEW k \in BuilderCall
    PROVE  /\ Called(q, k) \in Query /\ TxCalled(q, k) \in Query
           /\ Scope(q) => Scope(Called(q, k)) /\ Scope(TxCalled(q, k))
<1> DEFINE Good(x) == x \in Query /\ (Scope(q) => Scope(x))
<1>0. Good(q)
  OBVIOUS
<1>1. CASE k \in [call : {"Where", "OrWhere", "WhereIn", "OrWhereIn"}, col : {"id", "name"},
                  vals : SUBSET (Int \cup Name)]
  <2>1. /\ k.call \in {"Where", "OrWhere", "WhereIn", "OrWhereIn"} /\ k.col \in {"id", "name"}
        /\ k.vals \in SUBSET (Int \cup Name)
    BY <1>1
  <2>2. Good(Where(q, k.col, k.vals)) /\ Good(OrWhere(q, k.col, k.vals))
    BY <2>1, WhereKeeps
  <2>3. Good(WhereIn(q, k.col, k.vals)) /\ Good(OrWhereIn(q, k.col, k.vals))
    BY <1>0, <2>2 DEF WhereIn, OrWhereIn
  <2> HIDE DEF Good
  <2>4. Good(Called(q, k))
    BY <2>1, <2>2, <2>3 DEF Called
  <2>5. Good(TxCalled(q, k))
    BY <2>2, <2>4 DEF TxCalled, TxWhereIn
  <2> QED
    BY <2>4, <2>5 DEF Good
<1>2. CASE k \in [call : {"WhereNull", "WhereNotNull"}]
  <2>1. k.call \in {"WhereNull", "WhereNotNull"}
    BY <1>2
  <2>2. /\ Condition("deleted_at", "IS NULL", {}, FALSE) \in Conditions
        /\ Condition("deleted_at", "IS NOT NULL", {}, FALSE) \in Conditions
    BY DEF Condition, Conditions
  <2>3. Good(WhereNull(q)) /\ Good(WhereNotNull(q))
    BY <2>2, AddWhereKeeps DEF WhereNull, WhereNotNull
  <2> HIDE DEF Good
  <2>4. Good(Called(q, k)) /\ TxCalled(q, k) = Called(q, k)
    BY <2>1, <2>3 DEF Called, TxCalled
  <2> QED
    BY <2>4 DEF Good
<1>3. CASE k \in [call : {"WhereBetween"}, lo : Int, hi : Int]
  <2>1. k.call = "WhereBetween" /\ k.lo \in Int /\ k.hi \in Int
    BY <1>3
  <2>2. Good(WhereBetween(q, k.lo, k.hi))
    BY <2>1, WhereKeeps DEF WhereBetween
  <2> HIDE DEF Good
  <2>3. Good(Called(q, k)) /\ TxCalled(q, k) = Called(q, k)
    BY <2>1, <2>2 DEF Called, TxCalled
  <2> QED
    BY <2>3 DEF Good
<1>4. CASE k \in [call : {"OrderBy"}, dir : {"ASC", "DESC"}]
  <2>1. k.call = "OrderBy" /\ k.dir \in {"ASC", "DESC"}
    BY <1>4
  <2>2. Good(OrderBy(q, k.dir))
    BY <2>1, WindowKeeps DEF Scope
  <2> HIDE DEF Good
  <2>3. Good(Called(q, k)) /\ TxCalled(q, k) = Called(q, k)
    BY <2>1, <2>2 DEF Called, TxCalled
  <2> QED
    BY <2>3 DEF Good
<1>5. CASE k \in [call : {"OrderBySafe"}, dir : {"ASC", "DESC", ""}, allowed : BOOLEAN]
  <2>1. k.call = "OrderBySafe"
    BY <1>5
  <2> DEFINE dir == IF k.dir = "DESC" THEN k.dir ELSE "ASC"
  <2>2. OrderBy(q, dir) \in Query /\ OrderBy(q, dir).wheres = q.wheres
    <3>1. dir \in {"ASC", "DESC"}
      OBVIOUS
    <3> HIDE DEF dir
    <3> QED
      BY <3>1, WindowKeeps
  <2>3. Good(OrderBySafe(q, k.dir, k.allowed))
    BY <1>0, <2>2 DEF OrderBySafe, Scope
  <2> HIDE DEF Good
  <2>4. Good(Called(q, k)) /\ TxCalled(q, k) = Called(q, k)
    BY <2>1, <2>3 DEF Called, TxCalled
  <2> QED
    BY <2>4 DEF Good
<1>6. CASE k \in [call : {"Limit", "Offset"}, n : Int]
  <2>1. k.call \in {"Limit", "Offset"} /\ k.n \in Int
    BY <1>6
  <2>2. Good(Limit(q, k.n)) /\ Good(Offset(q, k.n))
    BY <2>1, WindowKeeps DEF Scope
  <2> HIDE DEF Good
  <2>3. Good(Called(q, k)) /\ TxCalled(q, k) = Called(q, k)
    BY <2>1, <2>2 DEF Called, TxCalled
  <2> QED
    BY <2>3 DEF Good
<1> QED
  BY <1>1, <1>2, <1>3, <1>4, <1>5, <1>6 DEF BuilderCall

\* And so does a whole chain.
LEMMA ChainType ==
    ASSUME NEW q \in Query, NEW ks \in Seq(BuilderCall)
    PROVE  /\ Chain(q, ks) \in Query /\ TxChain(q, ks) \in Query
           /\ Scope(q) => Scope(Chain(q, ks))
<1> DEFINE D == {x \in Query : Scope(q) => Scope(x)}
<1>1. q \in D
  OBVIOUS
<1>2. \A x \in D, k \in BuilderCall : Called(x, k) \in D /\ TxCalled(x, k) \in D
  BY CalledKeeps
<1> HIDE DEF D
<1>3. ChainOf(FALSE, q, ks) \in D /\ ChainOf(TRUE, q, ks) \in D
  BY <1>1, <1>2, ChainKeeps
<1> QED
  BY <1>3 DEF D, Chain, TxChain

-----------------------------------------------------------------------------
(* Selections, and the place of a row in one *)

LEMMA Ids == Id \subseteq Int /\ Id \subseteq Nat /\ \A i \in Id : i > 0
  BY QueryBuilderOK

LEMMA SelectedFinite ==
    ASSUME NEW t, NEW q
    PROVE  /\ Selected(t, q) \subseteq Id /\ IsFiniteSet(Selected(t, q))
           /\ Cardinality(Selected(t, q)) \in Nat /\ Cardinality(Id) \in Nat
           /\ Cardinality(Selected(t, q)) <= Cardinality(Id)
<1>1. Selected(t, q) \subseteq Id /\ IsFiniteSet(Id)
  BY QueryBuilderOK DEF Selected
<1> QED
  BY <1>1, FS_Subset, FS_CardinalityType

\* How many rows of the selection come before row i.
Rank(t, q, i) == Cardinality({j \in Selected(t, q) : Before(q, j, i)})

Sorted(q) == q.orderBy \in {"ASC", "DESC"}

LEMMA RankType ==
    ASSUME NEW t, NEW q, NEW i
    PROVE  Rank(t, q, i) \in Nat
<1>1. {j \in Selected(t, q) : Before(q, j, i)} \subseteq Selected(t, q)
  OBVIOUS
<1> QED
  BY <1>1, SelectedFinite, FS_Subset, FS_CardinalityType DEF Rank

\* The rank of a row in the selection is one of the selection's places.
LEMMA RankBound ==
    ASSUME NEW t, NEW q, Sorted(q), NEW i \in Selected(t, q)
    PROVE  Rank(t, q, i) < Cardinality(Selected(t, q))
<1> DEFINE S == Selected(t, q)
           B == {j \in S : Before(q, j, i)}
<1>1. B \subseteq S /\ i \notin B /\ i \in S
  <2>1. i \in Int
    BY SelectedFinite, Ids
  <2>2. ~Before(q, i, i)
    BY <2>1 DEF Before, Sorted
  <2> QED
    BY <2>2
<1>2. IsFiniteSet(S)
  BY SelectedFinite
<1> HIDE DEF B, S
<1>3. Cardinality(B) < Cardinality(S)
  <2>1. B \subseteq S \ {i} /\ IsFiniteSet(S \ {i})
    BY <1>1, <1>2, FS_RemoveElement
  <2>2. Cardinality(B) <= Cardinality(S \ {i}) /\ Cardinality(B) \in Nat
    BY <2>1, FS_Subset, FS_CardinalityType
  <2>3. Cardinality(S \ {i}) = Cardinality(S) - 1 /\ Cardinality(S) \in Nat
    BY <1>1, <1>2, FS_RemoveElement, FS_CardinalityType
  <2> QED
    BY <2>2, <2>3
<1> QED
  BY <1>3 DEF Rank, B, S

\* A row keeps its place, or one no worse, when the selection shrinks.
LEMMA RankShrinks ==
    ASSUME NEW t, NEW u, NEW q, Selected(t, q) \subseteq Selected(u, q), NEW i
    PROVE  Rank(t, q, i) <= Rank(u, q, i)
<1>1. /\ {j \in Selected(t, q) : Before(q, j, i)} \subseteq {j \in Selected(u, q) : Before(q, j, i)}
      /\ {j \in Selected(u, q) : Before(q, j, i)} \subseteq Selected(u, q)
  OBVIOUS
<1> QED
  BY <1>1, SelectedFinite, FS_Subset DEF Rank

\* An arrangement lists the selection, in a definite order by rank.
LEMMA Arranged ==
    ASSUME NEW t, NEW q, NEW s \in Arrangements(t, q)
    PROVE  /\ s \in Seq(Selected(t, q)) /\ Len(s) = Cardinality(Selected(t, q))
           /\ \A i \in Selected(t, q) : \E k \in 1..Len(s) : s[k] = i
           /\ Sorted(q) => \A k \in 1..Len(s) : Rank(t, q, s[k]) = k - 1
<1> DEFINE S == Selected(t, q)
           N == Cardinality(S)
<1>1. IsFiniteSet(S) /\ N \in Nat /\ S \subseteq Int
  BY SelectedFinite, Ids
<1>2. /\ s \in [1..N -> S] /\ \A m, n \in 1..N : m # n => s[m] # s[n]
      /\ \A m, n \in DOMAIN s : m < n => Before(q, s[m], s[n])
  BY Zenon DEF Arrangements, SetToSeqs
<1> HIDE DEF N, S
<1>3. s \in Seq(S) /\ Len(s) = N /\ DOMAIN s = 1..N
  <2>1. s \in Seq(S)
    BY <1>1, <1>2, SeqDef
  <2>2. DOMAIN s = 1..N /\ DOMAIN s = 1..Len(s) /\ Len(s) \in Nat
    BY <1>2, <2>1, LenProperties
  <2>3. Len(s) = N
    <3>1. N \in Nat
      BY <1>1
    <3> QED
      BY <2>2, <3>1
  <2> QED
    BY <2>1, <2>2, <2>3
<1>4. ASSUME NEW i \in S PROVE \E k \in 1..N : s[k] = i
  <2>1. s \in Injection(1..N, S)
    BY <1>2 DEF Injection, IsInjective
  <2>2. Cardinality(1..N) = N
    BY <1>1, FS_Interval
  <2>3. s \in Surjection(1..N, S)
    BY <1>1, <2>1, <2>2, FS_Injection DEF N
  <2> QED
    BY <2>3 DEF Surjection
<1>5. ASSUME Sorted(q), NEW k \in 1..N PROVE Rank(t, q, s[k]) = k - 1
  <2> DEFINE B == {j \in S : Before(q, j, s[k])}
             g == [m \in 1..(k - 1) |-> s[m]]
  <2>1. \A i, j \in S : Before(q, i, j) => ~Before(q, j, i) /\ i # j
    <3> SUFFICES ASSUME NEW i \in S, NEW j \in S, Before(q, i, j)
                 PROVE  ~Before(q, j, i) /\ i # j
      OBVIOUS
    <3>1. i \in Int /\ j \in Int
      BY <1>1
    <3> QED
      BY <1>5, <3>1 DEF Before, Sorted
  <2>2. \A m \in 1..(k - 1) : m \in 1..N /\ m < k /\ s[m] \in B
    BY <1>1, <1>2, <1>3
  <2>3. \A j \in B : \E m \in 1..(k - 1) : s[m] = j
    <3> SUFFICES ASSUME NEW j \in B PROVE \E m \in 1..(k - 1) : s[m] = j
      OBVIOUS
    <3>1. PICK m \in 1..N : s[m] = j
      BY <1>4
    <3>2. Before(q, s[m], s[k]) /\ s[m] \in S /\ s[k] \in S
      BY <1>2, <3>1
    <3>3. ~(k < m) /\ k # m
      BY <1>2, <1>3, <2>1, <3>2
    <3>4. m \in 1..(k - 1)
      BY <1>1, <3>3
    <3> QED
      BY <3>1, <3>4
  <2> HIDE DEF B
  <2>4. g \in Bijection(1..(k - 1), B)
    <3>1. g \in [1..(k - 1) -> B] /\ \A m, n \in 1..(k - 1) : g[m] = g[n] => m = n
      BY <1>2, <2>2
    <3>2. \A j \in B : \E m \in 1..(k - 1) : g[m] = j
      BY <2>3
    <3> HIDE DEF g
    <3> QED
      BY <3>1, <3>2 DEF Bijection, Injection, IsInjective, Surjection
  <2>5. k - 1 \in Nat
    BY <1>1
  <2>6. Cardinality(B) = k - 1
    BY <2>4, <2>5, FS_CountingElements DEF ExistsBijection
  <2> QED
    BY <2>6 DEF B, Rank, S
<1> QED
  BY <1>3, <1>4, <1>5 DEF N, S

\* Get shows rows of the selection, whatever LIMIT, OFFSET and ORDER BY say.
LEMMA AnswerShows ==
    ASSUME NEW t, NEW q \in Query, NEW a \in Answers(t, q)
    PROVE  /\ ToSet(a) \subseteq Selected(t, q)
           /\ a # <<>> => a[1] \in Selected(t, q)
           /\ a = <<>> /\ q.offset = 0 /\ q.limit = 1 => Selected(t, q) = {}
<1>1. PICK s \in Arrangements(t, q) : a = Window(s, q)
  BY DEF Answers
<1> DEFINE first == IF q.offset > 0 THEN q.offset + 1 ELSE 1
           last  == IF q.limit > 0 THEN first + q.limit - 1 ELSE Len(s)
           end   == Lesser(last, Len(s))
<1>2. q.offset \in Int /\ q.limit \in Int
  BY DEF Query
<1>3. /\ s \in Seq(Selected(t, q)) /\ Len(s) \in Nat
      /\ \A i \in Selected(t, q) : \E k \in 1..Len(s) : s[k] = i
      /\ \A k \in 1..Len(s) : s[k] \in Selected(t, q)
  BY Arranged, LenProperties, ElementOfSeq
<1>4. a = SubSeq(s, first, end)
  BY <1>1, Zenon DEF Window
<1>5. first \in Int /\ first >= 1 /\ end \in Int /\ end <= Len(s)
  BY <1>2, <1>3 DEF Lesser
<1>6. q.offset = 0 /\ q.limit = 1 => first = 1 /\ (Len(s) # 0 => end = 1)
  <2> SUFFICES ASSUME q.offset = 0, q.limit = 1 PROVE first = 1 /\ (Len(s) # 0 => end = 1)
    OBVIOUS
  <2>1. ~(q.offset > 0) /\ q.limit > 0
    OBVIOUS
  <2>2. first = 1 /\ last = 1
    BY <2>1
  <2> HIDE DEF first, last
  <2>3. Len(s) \in Nat
    BY <1>3
  <2>4. end = Lesser(1, Len(s))
    BY <2>2
  <2>5. ASSUME NEW n \in Nat, n # 0 PROVE Lesser(1, n) = 1
    BY <2>5 DEF Lesser
  <2> HIDE DEF end
  <2> QED
    BY <2>2, <2>3, <2>4, <2>5
<1> HIDE DEF first, end
<1>7. /\ a \in Seq(Selected(t, q)) /\ Len(a) = IF first <= end THEN end - first + 1 ELSE 0
  BY <1>3, <1>4, <1>5, SubSeqProperties
<1>8. \A k \in 1..Len(a) : a[k] \in Selected(t, q)
  BY <1>7, ElementOfSeq
<1>9. DOMAIN a = 1..Len(a) /\ Len(a) \in Nat /\ (Len(a) = 0 <=> a = <<>>)
  BY <1>7, LenProperties, EmptySeq
<1>10. ToSet(a) \subseteq Selected(t, q)
  BY <1>8, <1>9 DEF ToSet
<1>11. a # <<>> => a[1] \in Selected(t, q)
  BY <1>8, <1>9
<1>12. ASSUME a = <<>>, q.offset = 0, q.limit = 1 PROVE Selected(t, q) = {}
  <2>1. Len(s) = 0
    BY <1>3, <1>5, <1>6, <1>7, <1>9, <1>12
  <2> QED
    BY <1>3, <2>1
<1> QED
  BY <1>10, <1>11, <1>12

\* LIMIT and OFFSET change nothing of what is selected, nor the order.
LEMMA WindowSelects ==
    ASSUME NEW t, NEW q \in Query, NEW n \in Int, NEW off \in Int
    PROVE  LET r == Offset(Limit(q, n), off) IN
           /\ r \in Query /\ r.limit = n /\ r.offset = off /\ r.orderBy = q.orderBy
           /\ r.wheres = q.wheres /\ Selected(t, r) = Selected(t, q)
           /\ \A i : Rank(t, r, i) = Rank(t, q, i)
<1> DEFINE r == Offset(Limit(q, n), off)
<1>1. /\ r \in Query /\ r.wheres = q.wheres /\ r.orderBy = q.orderBy
      /\ r.limit = n /\ r.offset = off
  BY DEF Query, Offset, Limit
<1> HIDE DEF r
<1>2. Selected(t, r) = Selected(t, q)
  BY <1>1 DEF Selected
<1>3. \A i, j : Before(r, j, i) = Before(q, j, i)
  BY <1>1 DEF Before
<1>4. \A i : Rank(t, r, i) = Rank(t, q, i)
  BY <1>2, <1>3 DEF Rank
<1> QED
  BY <1>1, <1>2, <1>4 DEF r

\* In a definite order, a batch shows the rows of its places, and is short only
\* at the end.
LEMMA BatchRows ==
    ASSUME NEW t, NEW q \in Query, Sorted(q), NEW off \in Nat, NEW n \in Nat \ {0},
           NEW a \in Answers(t, Offset(Limit(q, n), off))
    PROVE  /\ ToSet(a) \subseteq Selected(t, q)
           /\ \A i \in Selected(t, q) :
                 i \in ToSet(a) <=> off <= Rank(t, q, i) /\ Rank(t, q, i) < off + n
           /\ a = <<>> => Cardinality(Selected(t, q)) <= off
           /\ Len(a) < n => Cardinality(Selected(t, q)) < off + n
<1> DEFINE r == Offset(Limit(q, n), off)
           S == Selected(t, q)
<1>1. /\ r.limit = n /\ r.offset = off /\ Sorted(r) /\ r \in Query /\ Selected(t, r) = S
      /\ \A i : Rank(t, r, i) = Rank(t, q, i)
  BY WindowSelects DEF Sorted
<1> HIDE DEF r
<1>2. PICK s \in Arrangements(t, r) : a = Window(s, r)
  BY DEF Answers, r
<1> DEFINE N == Len(s)
           end == Lesser(off + n, N)
<1>3. /\ s \in Seq(S) /\ N = Cardinality(S) /\ N \in Nat
      /\ \A i \in S : \E k \in 1..N : s[k] = i
      /\ \A k \in 1..N : s[k] \in S
      /\ \A k \in 1..N : Rank(t, q, s[k]) = k - 1
  BY <1>1, Arranged, LenProperties, ElementOfSeq
<1> HIDE DEF N, S
<1>4. a = SubSeq(s, off + 1, end)
  <2>1. Window(s, r) = SubSeq(s, IF off > 0 THEN off + 1 ELSE 1,
                              Lesser((IF off > 0 THEN off + 1 ELSE 1) + n - 1, N))
    <3>1. Window(s, r) = SubSeq(s, IF r.offset > 0 THEN r.offset + 1 ELSE 1,
              Lesser(IF r.limit > 0 THEN (IF r.offset > 0 THEN r.offset + 1 ELSE 1) + r.limit - 1
                                    ELSE Len(s), Len(s)))
      BY Zenon DEF Window
    <3>2. r.limit > 0 /\ r.limit = n /\ r.offset = off
      BY <1>1
    <3> QED
      BY <3>1, <3>2 DEF N
  <2>2. (IF off > 0 THEN off + 1 ELSE 1) = off + 1 /\ (off + 1) + n - 1 = off + n
    OBVIOUS
  <2> QED
    BY <1>2, <2>1, <2>2
<1>5. end \in Int /\ end <= N /\ end <= off + n /\ (end = N \/ end = off + n)
  BY <1>3 DEF Lesser
<1> HIDE DEF end
<1>6. /\ a \in Seq(S) /\ Len(a) = IF off + 1 <= end THEN end - (off + 1) + 1 ELSE 0
      /\ \A k \in 1..(end - (off + 1) + 1) : a[k] = s[(off + 1) + k - 1]
  <2>1. \A k \in (off + 1)..end : s[k] \in S
    BY <1>3, <1>5
  <2>2. off + 1 \in Int /\ end \in Int
    BY <1>5
  <2> QED
    BY <1>4, <2>1, <2>2, SubSeqProperties
<1>7. /\ DOMAIN a = 1..Len(a) /\ Len(a) \in Nat /\ (Len(a) = 0 <=> a = <<>>)
      /\ \A k \in 1..Len(a) : a[k] \in S
  BY <1>6, LenProperties, EmptySeq, ElementOfSeq
<1>8. \A k \in 1..Len(a) : off + k \in 1..end /\ a[k] = s[off + k]
  <2> SUFFICES ASSUME NEW k \in 1..Len(a) PROVE off + k \in 1..end /\ a[k] = s[off + k]
    OBVIOUS
  <2>1. off + 1 <= end /\ k \in 1..(end - (off + 1) + 1) /\ (off + 1) + k - 1 = off + k
    BY <1>5, <1>6, <1>7
  <2> QED
    BY <1>5, <1>6, <2>1
<1>9. ToSet(a) \subseteq S
  BY <1>7 DEF ToSet
<1>10. ASSUME NEW i \in S
       PROVE  i \in ToSet(a) <=> off <= Rank(t, q, i) /\ Rank(t, q, i) < off + n
  <2>1. ASSUME i \in ToSet(a) PROVE off <= Rank(t, q, i) /\ Rank(t, q, i) < off + n
    <3>1. PICK k \in 1..Len(a) : a[k] = i
      BY <1>7, <2>1 DEF ToSet
    <3>2. off + k \in 1..end /\ s[off + k] = i
      BY <1>8, <3>1
    <3>4. off + k \in 1..N
      BY <1>3, <1>5, <3>2
    <3>3. Rank(t, q, i) = (off + k) - 1
      BY <1>3, <3>2, <3>4
    <3> QED
      BY <1>5, <3>2, <3>3
  <2>2. ASSUME off <= Rank(t, q, i), Rank(t, q, i) < off + n PROVE i \in ToSet(a)
    <3>1. PICK m \in 1..N : s[m] = i
      BY <1>3
    <3>2. Rank(t, q, i) = m - 1
      BY <1>3, <3>1
    <3>3. off + 1 <= m /\ m <= end
      BY <1>3, <1>5, <2>2, <3>2
    <3>4. m - off \in 1..Len(a) /\ off + (m - off) = m
      BY <1>3, <1>5, <1>6, <3>3
    <3>5. a[m - off] = i
      BY <1>8, <3>1, <3>4
    <3> QED
      BY <1>7, <3>4, <3>5 DEF ToSet
  <2> QED
    BY <2>1, <2>2
<1>11. a = <<>> => N <= off
  BY <1>3, <1>5, <1>6, <1>7
<1>12. Len(a) < n => N < off + n
  BY <1>3, <1>5, <1>6, <1>7
<1> QED
  BY <1>3, <1>9, <1>10, <1>11, <1>12 DEF S

-----------------------------------------------------------------------------
(* The inductive invariant *)

\* A batch or a page of walk w: how many rows, and how many before it.
Extent(w) == IF w.mode = "pages" /\ w.size < 1 THEN 15 ELSE w.size
Skip(w)   == IF w.mode = "chunk" THEN w.at ELSE (w.at - 1) * Extent(w)

Ordered(w) == Sorted(w.q) /\ (w.size > 0 \/ w.mode = "pages")

\* Where a walk is when its client is at p: while fn destroys a row, where it
\* goes on after that.
Stage(p, s) == IF p = "write" THEN s.then ELSE p

\* So many places of the selection have been shown.
Upto(stage, w) == IF stage = "fn" THEN Skip(w) + Extent(w) ELSE Skip(w)

Over(stage, w) == stage = "walked" \/ (stage = "fn" /\ w.last)

Judged(w) == ~w.left /\ (~w.joined \/ w.mode = "chunk")

\* While rows at most join, who stayed and is behind the walk was shown ...
Covered(stage, w, t) ==
    Judged(w) => \A i \in w.stayed :
        Over(stage, w) \/ Rank(t, w.q, i) < Upto(stage, w) => w.seen[i] > 0

\* ... and while rows at most leave, who is ahead of it was not, and nobody twice.
Ahead(stage, w, t) ==
    ~w.joined /\ stage # "walked" => \A i \in Selected(t, w.q) :
        Rank(t, w.q, i) >= Upto(stage, w) => w.seen[i] = 0

Single(w) == ~w.joined => \A i \in Id : w.seen[i] < 2

\* While none does either, the total that was counted is right.
Total(stage, w, t) ==
    stage = "batch" /\ w.last /\ ~w.left /\ ~w.joined =>
        Cardinality(Selected(t, w.q)) <= Skip(w) + Extent(w)

First(w) == IF w.mode = "chunk" THEN 0 ELSE 1

Tour(stage, w, t) ==
    /\ w.stayed \subseteq Selected(t, w.q)
    /\ SoftDelete => Scope(w.q)
    /\ w.mode = "chunk" => stage # "count" /\ (stage = "batch" => ~w.last)
    /\ Ordered(w) => /\ w.at >= First(w)
                     /\ Covered(stage, w, t) /\ Ahead(stage, w, t)
                     /\ Single(w) /\ Total(stage, w, t)

\* A statement its client may hold at p; when it is sure, it is an INSERT, and
\* nothing matches once the lookup is over.
Fit(p, s, t) ==
    /\ s.kind \in {"insert", "rename"} => s.name \in Name
    /\ SoftDelete /\ s.scoped => Scope(s.q)
    /\ s.sure => /\ s.kind = "insert" /\ p \in {"look", "write"}
                 /\ p = "write" => Selected(t, s.q) = {}
    /\ p = "look" => s.kind = "insert" /\ s.q.offset = 0 /\ s.then = "find"
    /\ p = "hooks" => s.then = "told"
    /\ s.tx => s.then = "tx"
    /\ s.then \in {"idle", "told", "find", "tx", "count", "batch", "walked"}

\* A client at p, with its statement, its walk and its connection, when the
\* table is t.
Sound(p, s, w, k, t) ==
    /\ s # None <=> p \in {"hooks", "write", "look"}
    /\ k # None <=> Stage(p, s) = "tx"
    /\ w # None <=> Stage(p, s) \in {"count", "batch", "fn", "walked"}
    /\ s # None => Fit(p, s, t)
    /\ w # None => Tour(Stage(p, s), w, t)

Draft == [by : Conn, row : Row \cup {None}]

Types ==
    /\ rows \in Table /\ next \in Nat /\ draft \in [Id -> Draft \cup {None}]
    /\ pc \in [Client -> Place] /\ menu \in Menus
    /\ conn \in [Client -> Conn \cup {None}] /\ leaked \subseteq Conn
    /\ stmt \in [Client -> Statement \cup {None}]
    /\ walk \in [Client -> Touring \cup {None}]
    /\ body \in [Client -> Seq(BodyStatement)]

\* A connection is in one transaction, or leaked, or free, and a draft is of
\* one that is not free.
Pool ==
    /\ \A c \in Client : conn[c] # None =>
          conn[c] \notin leaked /\ \A d \in Client \ {c} : conn[d] # conn[c]
    /\ \A i \in Id : draft[i] # None =>
          draft[i].by \in leaked \/ \E c \in Client : draft[i].by = conn[c]

\* No row is under an id still to be given.
Below == \A i \in Id : rows[i] # None \/ draft[i] # None => i < next

AllSound == \A c \in Client : Sound(pc[c], stmt[c], walk[c], conn[c], rows)

IInv == Types /\ Pool /\ Below /\ AllSound

LEMMA Records == None \notin Statement /\ None \notin Touring
  BY NoneIsNoRecord

LEMMA InvTypes == IInv => TypeOK
<1> SUFFICES ASSUME IInv PROVE TypeOK
  OBVIOUS
<1>1. ASSUME NEW c \in Client
      PROVE  /\ pc[c] \in {"hooks", "write", "look"} <=> stmt[c] # None
             /\ stmt[c] # None => (stmt[c].tx => conn[c] # None)
             /\ pc[c] \in {"count", "batch", "fn", "walked"} => walk[c] # None
             /\ pc[c] = "tx" => conn[c] # None
  BY DEF IInv, AllSound, Sound, Fit, Stage
<1>2. \A c \in Client :
         /\ conn[c] # None => conn[c] \notin leaked
         /\ \A d \in Client \ {c} : conn[c] = conn[d] => conn[c] = None
  BY DEF IInv, Pool
<1>3. \A i \in Id : draft[i] # None => draft[i].by \in leaked \cup {conn[c] : c \in Client}
  BY DEF IInv, Pool
<1> QED
  BY <1>1, <1>2, <1>3 DEF IInv, Types, Draft, TypeOK

LEMMA InitInv == Init => IInv
<1> SUFFICES ASSUME Init PROVE IInv
  OBVIOUS
<1>1. Types
  BY EmptySeq DEF Init, Types, Table, Draft, Place
<1>2. Pool /\ Below
  BY DEF Init, Pool, Below
<1>3. AllSound
  BY DEF Init, AllSound, Sound, Stage
<1> QED
  BY <1>1, <1>2, <1>3 DEF IInv

\* A step of client c that leaves the tables and the pool alone.
Aside(c, p, s, w) ==
    /\ p \in Place /\ s \in Statement \cup {None} /\ w \in Touring \cup {None}
    /\ pc' = [pc EXCEPT ![c] = p]
    /\ stmt' = [stmt EXCEPT ![c] = s]
    /\ walk' = [walk EXCEPT ![c] = w]
    /\ body' \in [Client -> Seq(BodyStatement)]
    /\ UNCHANGED <<rows, next, draft, conn, leaked, menu>>
    /\ Sound(p, s, w, conn[c], rows)

LEMMA AsideInv ==
    ASSUME IInv, NEW c \in Client, NEW p, NEW s, NEW w, Aside(c, p, s, w)
    PROVE  IInv'
<1>1. Types'
  BY DEF IInv, Types, Aside
<1>2. Pool' /\ Below'
  BY DEF IInv, Pool, Below, Aside
<1>3. AllSound'
  <2> SUFFICES ASSUME NEW d \in Client
               PROVE  Sound(pc'[d], stmt'[d], walk'[d], conn'[d], rows')
    BY DEF AllSound
  <2>1. CASE d = c
    <3>1. pc'[d] = p /\ stmt'[d] = s /\ walk'[d] = w /\ conn'[d] = conn[c] /\ rows' = rows
      BY <2>1 DEF Aside, IInv, Types
    <3> QED
      BY <3>1 DEF Aside
  <2>2. CASE d # c
    <3>1. /\ pc'[d] = pc[d] /\ stmt'[d] = stmt[d] /\ walk'[d] = walk[d] /\ conn'[d] = conn[d]
          /\ rows' = rows
      BY <2>2 DEF Aside, IInv, Types
    <3> QED
      BY <3>1 DEF IInv, AllSound
  <2> QED
    BY <2>1, <2>2
<1> QED
  BY <1>1, <1>2, <1>3 DEF IInv

\* What a client has that is at p.
LEMMA Holding ==
    ASSUME IInv, NEW c \in Client
    PROVE  /\ Sound(pc[c], stmt[c], walk[c], conn[c], rows)
           /\ stmt[c] \in Statement \cup {None} /\ walk[c] \in Touring \cup {None}
           /\ conn[c] \in Conn \cup {None} /\ pc[c] \in Place
           /\ [stmt EXCEPT ![c] = stmt[c]] = stmt /\ [walk EXCEPT ![c] = walk[c]] = walk
           /\ [pc EXCEPT ![c] = pc[c]] = pc
           /\ rows \in Table /\ body \in [Client -> Seq(BodyStatement)]
  BY DEF IInv, Types, AllSound

-----------------------------------------------------------------------------
(* The statements the clients send *)

Sendable(s) ==
    /\ s \in Statement /\ s.then = "idle" /\ ~s.tx /\ ~s.sure
    /\ s.kind \in {"insert", "rename"} => s.name \in Name
    /\ SoftDelete /\ s.scoped => Scope(s.q)

LEMMA CallSendable ==
    ASSUME NEW kind \in Kind, NEW q \in Query, NEW n \in Name \cup {None}, NEW scoped \in BOOLEAN,
           kind \in {"insert", "rename"} => n \in Name,
           SoftDelete /\ scoped => Scope(q)
    PROVE  Sendable(Call(kind, q, n, scoped))
  BY DEF Call, Sendable, Statement, Place

\* The scope of the model and a condition on one value.
LEMMA KeyedQuery ==
    /\ \A i \in Id : /\ Where(ModelQuery, "id", {i}) \in Query
                     /\ Where(ModelQuery, "id", {i}).offset = 0
                     /\ SoftDelete => Scope(Where(ModelQuery, "id", {i}))
                     /\ Where(From, "id", {i}) \in Query
    /\ \A n \in Name : /\ Where(ModelQuery, "name", {n}) \in Query
                       /\ Where(ModelQuery, "name", {n}).offset = 0
                       /\ SoftDelete => Scope(Where(ModelQuery, "name", {n}))
                       /\ Where(From, "name", {n}) \in Query
<1>1. /\ From \in Query /\ ModelQuery \in Query /\ ModelQuery.offset = 0
      /\ SoftDelete => Scope(ModelQuery)
  BY FromType
<1>2. \A i \in Id : {i} \in SUBSET (Int \cup Name)
  BY Ids
<1>3. \A n \in Name : {n} \in SUBSET (Int \cup Name)
  OBVIOUS
<1>4. "id" \in {"id", "name"} /\ "name" \in {"id", "name"}
  OBVIOUS
<1>5. ASSUME NEW col \in {"id", "name"}, NEW v \in SUBSET (Int \cup Name)
      PROVE  /\ Where(ModelQuery, col, v) \in Query
             /\ Where(ModelQuery, col, v).offset = 0
             /\ SoftDelete => Scope(Where(ModelQuery, col, v))
             /\ Where(From, col, v) \in Query
  BY <1>1, WhereKeeps
<1> QED
  BY <1>2, <1>3, <1>4, <1>5

LEMMA ModelSends ==
    /\ \A n \in Name : Sendable(Create(n)) /\ Sendable(Delete(n))
    /\ \A i \in Id, n \in Name : Sendable(Save(i, n))
    /\ \A i \in Id : Sendable(Destroy(i)) /\ Sendable(Restore(i))
    /\ \A n, m \in Name : \A s \in Repository(n, m) : Sendable(s)
<1>0. /\ Kind = {"insert", "rename", "trash", "restore", "delete"} /\ From \in Query
      /\ TRUE \in BOOLEAN /\ FALSE \in BOOLEAN
  BY FromType DEF Kind
<1>1. ASSUME NEW n \in Name PROVE Sendable(Create(n)) /\ Sendable(Delete(n))
  <2>1. Sendable(Create(n))
    BY <1>0, CallSendable DEF Create
  <2>2. Sendable(Delete(n))
    BY <1>0, CallSendable, KeyedQuery DEF Delete
  <2> QED
    BY <2>1, <2>2
<1>2. ASSUME NEW i \in Id, NEW n \in Name PROVE Sendable(Save(i, n))
  BY <1>0, CallSendable, KeyedQuery DEF Save
<1>3. ASSUME NEW i \in Id PROVE Sendable(Destroy(i)) /\ Sendable(Restore(i))
  <2>1. Sendable(Destroy(i))
    BY <1>0, CallSendable, KeyedQuery DEF Destroy
  <2>2. Sendable(Restore(i))
    BY <1>0, CallSendable, KeyedQuery DEF Restore
  <2> QED
    BY <2>1, <2>2
<1>4. ASSUME NEW n \in Name, NEW m \in Name, NEW s \in Repository(n, m) PROVE Sendable(s)
  <2>1. Sendable(Call("rename", Where(From, "name", {n}), m, FALSE))
    BY <1>0, CallSendable, KeyedQuery
  <2>2. Sendable(Call("delete", Where(From, "name", {n}), None, FALSE))
    BY <1>0, CallSendable, KeyedQuery
  <2> QED
    BY <2>1, <2>2 DEF Repository
<1> QED
  BY <1>1, <1>2, <1>3, <1>4

LEMMA StartedSends ==
    ASSUME NEW ks \in Chains, NEW s \in Started(ks)
    PROVE  Sendable(s)
<1>0. /\ Kind = {"insert", "rename", "trash", "restore", "delete"}
      /\ TRUE \in BOOLEAN /\ FALSE \in BOOLEAN
  BY DEF Kind
<1>1. ASSUME NEW q \in Query, NEW scoped \in BOOLEAN, SoftDelete /\ scoped => Scope(q),
             s \in AtEnd(q, scoped)
      PROVE  Sendable(s)
  <2>1. \A n \in Name : Sendable(Call("rename", q, n, scoped))
    BY <1>0, <1>1, CallSendable
  <2>2. Sendable(Call("delete", q, None, scoped))
    BY <1>0, <1>1, CallSendable
  <2> QED
    BY <1>1, <2>1, <2>2 DEF AtEnd
<1>2. ks \in Seq(BuilderCall)
  BY RecordsOK
<1>3. CASE s \in AtEnd(Chain(ModelQuery, ks), TRUE)
  <2>1. Chain(ModelQuery, ks) \in Query /\ (SoftDelete => Scope(Chain(ModelQuery, ks)))
    BY <1>2, FromType, ChainType
  <2> QED
    BY <1>1, <1>3, <2>1
<1>4. CASE \E q \in {From, OnlyTrashed} : s \in AtEnd(Chain(q, ks), FALSE)
  <2>1. PICK q \in {From, OnlyTrashed} : s \in AtEnd(Chain(q, ks), FALSE)
    BY <1>4
  <2>2. Chain(q, ks) \in Query
    BY <1>2, FromType, ChainType
  <2> QED
    BY <1>1, <2>1, <2>2
<1> QED
  BY <1>3, <1>4 DEF Started

\* A statement of its own, for a client without a walk or a transaction.
LEMMA AskInv ==
    ASSUME IInv, NEW c \in Client, pc[c] = "idle", NEW s, Sendable(s), Ask(c, s)
    PROVE  IInv'
<1>1. /\ walk[c] = None /\ conn[c] = None /\ [walk EXCEPT ![c] = walk[c]] = walk
      /\ body \in [Client -> Seq(BodyStatement)]
  BY Holding DEF Sound, Stage
<1>2. s \in Statement /\ s # None
  BY Records DEF Sendable
<1>3. Fit("write", s, rows)
  BY DEF Fit, Sendable
<1>4. Sound("write", s, None, None, rows)
  BY <1>2, <1>3 DEF Sound, Stage, Sendable
<1>5. Aside(c, "write", s, None)
  BY <1>1, <1>2, <1>4 DEF Aside, Ask, Send, Place, data
<1> QED
  BY <1>5, AsideInv

LEMMA AsksInv ==
    ASSUME IInv, NEW c \in Client,
           \/ CallCreate(c) \/ CallSave(c) \/ CallDelete(c) \/ CallDestroy(c)
           \/ CallRestore(c) \/ CallAtEnd(c)
    PROVE  IInv'
<1>1. pc[c] = "idle"
  BY DEF CallCreate, CallSave, CallDelete, CallDestroy, CallRestore, CallAtEnd, May
<1>2. \E s : Sendable(s) /\ Ask(c, s)
  BY ModelSends, StartedSends
     DEF CallCreate, CallSave, CallDelete, CallDestroy, CallRestore, CallAtEnd
<1> QED
  BY <1>1, <1>2, AskInv

LEMMA CallHookedInv ==
    ASSUME IInv, NEW c \in Client, CallHooked(c)
    PROVE  IInv'
<1>1. /\ walk[c] = None /\ conn[c] = None /\ [walk EXCEPT ![c] = walk[c]] = walk
      /\ body \in [Client -> Seq(BodyStatement)]
  BY Holding DEF Sound, Stage, CallHooked, May
<1>2. PICK r \in Hooked : stmt' = [stmt EXCEPT ![c] = [r EXCEPT !.then = "told"]]
  BY DEF CallHooked
<1>3. Sendable(r)
  BY <1>2, ModelSends DEF Hooked
<1> DEFINE s == [r EXCEPT !.then = "told"]
<1>4. /\ s \in Statement /\ s.then = "told" /\ ~s.tx /\ ~s.sure
      /\ s.kind = r.kind /\ s.q = r.q /\ s.name = r.name /\ s.scoped = r.scoped
  BY <1>3 DEF Sendable, Statement, Place
<1>5. stmt' = [stmt EXCEPT ![c] = s]
  BY <1>2
<1> HIDE DEF s
<1>6. Fit("hooks", s, rows)
  BY <1>3, <1>4 DEF Fit, Sendable, Scope
<1>7. Sound("hooks", s, None, None, rows)
  BY <1>4, <1>6, Records DEF Sound, Stage
<1>8. Aside(c, "hooks", s, None)
  BY <1>1, <1>4, <1>5, <1>7 DEF Aside, CallHooked, Place, data, txs
<1> QED
  BY <1>8, AsideInv

LEMMA BeforeHooksInv ==
    ASSUME IInv, NEW c \in Client, BeforeHooks(c)
    PROVE  IInv'
<1>1. /\ pc[c] = "hooks" /\ stmt[c] \in Statement /\ walk[c] = None /\ conn[c] = None
      /\ Fit("hooks", stmt[c], rows)
      /\ [walk EXCEPT ![c] = walk[c]] = walk /\ [stmt EXCEPT ![c] = stmt[c]] = stmt
      /\ body \in [Client -> Seq(BodyStatement)]
  BY Holding DEF Sound, Stage, BeforeHooks
<1>2. CASE pc' = [pc EXCEPT ![c] = "write"] /\ UNCHANGED stmt
  <2>1. Fit("write", stmt[c], rows) /\ stmt[c].then = "told"
    BY <1>1 DEF Fit
  <2>2. Sound("write", stmt[c], None, None, rows)
    BY <1>1, <2>1, Records DEF Sound, Stage
  <2>3. Aside(c, "write", stmt[c], None)
    BY <1>1, <1>2, <2>2 DEF Aside, BeforeHooks, Place, data, txs
  <2> QED
    BY <2>3, AsideInv
<1>3. CASE pc' = [pc EXCEPT ![c] = "idle"] /\ stmt' = [stmt EXCEPT ![c] = None]
  <2>1. Sound("idle", None, None, None, rows)
    BY DEF Sound, Stage
  <2>2. Aside(c, "idle", None, None)
    BY <1>1, <1>3, <2>1 DEF Aside, BeforeHooks, Place, data, txs
  <2> QED
    BY <2>2, AsideInv
<1> QED
  BY <1>2, <1>3 DEF BeforeHooks

\* The client is done with its call.
LEMMA DoneInv ==
    ASSUME IInv, NEW c \in Client, AfterHooks(c) \/ Find(c)
    PROVE  IInv'
<1>1. /\ pc[c] \in {"told", "find"} /\ stmt[c] = None /\ walk[c] = None /\ conn[c] = None
      /\ [walk EXCEPT ![c] = walk[c]] = walk /\ [stmt EXCEPT ![c] = stmt[c]] = stmt
      /\ body \in [Client -> Seq(BodyStatement)]
  BY Holding DEF Sound, Stage, AfterHooks, Find
<1>2. Sound("idle", None, None, None, rows)
  BY DEF Sound, Stage
<1>3. Aside(c, "idle", None, None)
  BY <1>1, <1>2 DEF Aside, AfterHooks, Find, Place, data, txs
<1> QED
  BY <1>3, AsideInv

\* The statement of FirstOrCreate and UpdateOrCreate, before the lookup.
Inquiry(s, n, m) ==
    /\ s \in Statement /\ s.kind = "insert" /\ s.q = Where(ModelQuery, "name", {n}) /\ s.name = m
    /\ s.then = "find" /\ ~s.tx

LEMMA LookedUp ==
    ASSUME IInv, NEW c \in Client, NEW n \in Name, NEW m \in Name,
           NEW s, Inquiry(s, n, m), pc[c] = "idle", stmt' = [stmt EXCEPT ![c] = s],
           pc' = [pc EXCEPT ![c] = "look"], UNCHANGED <<data, walk, txs>>
    PROVE  IInv'
<1>1. /\ walk[c] = None /\ conn[c] = None /\ [walk EXCEPT ![c] = walk[c]] = walk
      /\ body \in [Client -> Seq(BodyStatement)]
  BY Holding DEF Sound, Stage
<1> DEFINE q == Where(ModelQuery, "name", {n})
<1>2. q.offset = 0 /\ (SoftDelete => Scope(q))
  BY KeyedQuery
<1> HIDE DEF q
<1>3. /\ s \in Statement /\ s.kind = "insert" /\ s.q = q /\ s.name = m /\ s.then = "find"
      /\ ~s.tx
  BY DEF Inquiry, q
<1>4. Fit("look", s, rows)
  BY <1>2, <1>3 DEF Fit
<1>5. Sound("look", s, None, None, rows)
  BY <1>3, <1>4, Records DEF Sound, Stage
<1>6. Aside(c, "look", s, None)
  BY <1>1, <1>3, <1>5 DEF Aside, Place, data, txs
<1> QED
  BY <1>6, AsideInv

LEMMA CallFirstInv ==
    ASSUME IInv, NEW c \in Client, NEW n \in Name, CallFirstOrCreate(c, n)
    PROVE  IInv'
<1> DEFINE q == Where(ModelQuery, "name", {n})
           s == [Call("insert", q, n, TRUE) EXCEPT !.then = "find", !.sure = TRUE]
<1>1. /\ pc[c] = "idle" /\ pc' = [pc EXCEPT ![c] = "look"] /\ UNCHANGED <<data, walk, txs>>
      /\ stmt' = [stmt EXCEPT ![c] = s]
  BY DEF CallFirstOrCreate, May
<1>2. q \in Query
  BY KeyedQuery
<1> HIDE DEF q
<1>3. s \in Statement /\ s.kind = "insert" /\ s.q = q /\ s.name = n /\ s.then = "find" /\ ~s.tx
  BY <1>2 DEF Call, Statement, Kind, Place
<1> HIDE DEF s
<1>4. Inquiry(s, n, n)
  BY <1>3 DEF Inquiry, q
<1> QED
  BY <1>1, <1>4, LookedUp

LEMMA CallUpdateInv ==
    ASSUME IInv, NEW c \in Client, NEW n \in Name, NEW m \in Name, CallUpdateOrCreate(c, n, m)
    PROVE  IInv'
<1> DEFINE q == Where(ModelQuery, "name", {n})
           s == [Call("insert", q, m, TRUE) EXCEPT !.then = "find", !.sure = TRUE, !.found = "write"]
<1>1. /\ pc[c] = "idle" /\ pc' = [pc EXCEPT ![c] = "look"] /\ UNCHANGED <<data, walk, txs>>
      /\ stmt' = [stmt EXCEPT ![c] = s]
  BY DEF CallUpdateOrCreate, May
<1>2. q \in Query
  BY KeyedQuery
<1> HIDE DEF q
<1>3. s \in Statement /\ s.kind = "insert" /\ s.q = q /\ s.name = m /\ s.then = "find" /\ ~s.tx
  BY <1>2 DEF Call, Statement, Kind, Place
<1> HIDE DEF s
<1>4. Inquiry(s, n, m)
  BY <1>3 DEF Inquiry, q
<1> QED
  BY <1>1, <1>4, LookedUp

\* The lookup has found a row, or none, or has failed.
LEMMA LookInv ==
    ASSUME IInv, NEW c \in Client, Look(c)
    PROVE  IInv'
<1> DEFINE s == stmt[c]
<1>1. /\ pc[c] = "look" /\ s \in Statement /\ walk[c] = None /\ conn[c] = None
      /\ Fit("look", s, rows)
      /\ [walk EXCEPT ![c] = walk[c]] = walk /\ [stmt EXCEPT ![c] = stmt[c]] = stmt
      /\ body \in [Client -> Seq(BodyStatement)]
  <2>1. pc[c] = "look"
    BY DEF Look
  <2> QED
    BY <2>1, Holding DEF Sound, Stage
<1>0. stmt \in [Client -> Statement \cup {None}]
  BY DEF IInv, Types
<1>2. /\ s.kind = "insert" /\ s.q \in Query /\ s.q.offset = 0 /\ s.then = "find"
      /\ s.name \in Name /\ ~s.tx /\ s.found \in {"idle", "write"}
      /\ SoftDelete /\ s.scoped => Scope(s.q)
  BY <1>1 DEF Fit, Statement
<1> DEFINE f == FirstOf(s.q)
<1>3. f \in Query /\ f.wheres = s.q.wheres /\ f.offset = 0 /\ f.limit = 1
  <2>1. ASSUME NEW q \in Query
        PROVE  /\ FirstOf(q) \in Query /\ FirstOf(q).wheres = q.wheres
               /\ FirstOf(q).offset = q.offset /\ FirstOf(q).limit = 1
    <3>1. FirstOf(q) = [q EXCEPT !.limit = 1] /\ 1 \in Int
      BY DEF FirstOf, Limit
    <3>2. FirstOf(q) \in Query /\ FirstOf(q).wheres = q.wheres
      BY <3>1, WindowKeeps DEF FirstOf
    <3> QED
      BY <3>1, <3>2 DEF Query
  <2> QED
    BY <1>2, <2>1
<1>4. Selected(rows, f) = Selected(rows, s.q)
  BY <1>3 DEF Selected
<1> HIDE DEF f
<1>5. CASE \E a \in Answers(rows, f) :
             /\ a # <<>>
             /\ pc' = [pc EXCEPT ![c] = s.found]
             /\ stmt' = [stmt EXCEPT ![c] =
                   IF s.found = "idle" THEN None
                   ELSE [Save(a[1], s.name) EXCEPT !.then = "find"]]
  <2>1. PICK a \in Answers(rows, f) :
             /\ a # <<>>
             /\ pc' = [pc EXCEPT ![c] = s.found]
             /\ stmt' = [stmt EXCEPT ![c] =
                   IF s.found = "idle" THEN None
                   ELSE [Save(a[1], s.name) EXCEPT !.then = "find"]]
    BY <1>5
  <2>2. CASE s.found = "idle"
    <3>1. Sound("idle", None, None, None, rows)
      BY DEF Sound, Stage
    <3>2. Aside(c, "idle", None, None)
      BY <1>1, <2>1, <2>2, <3>1 DEF Aside, Look, Place, data, txs
    <3> QED
      BY <3>2, AsideInv
  <2>3. CASE s.found = "write"
    <3>1. a[1] \in Id
      BY <1>3, <2>1, AnswerShows, SelectedFinite
    <3> DEFINE r == [Save(a[1], s.name) EXCEPT !.then = "find"]
    <3>2. Sendable(Save(a[1], s.name))
      BY <1>2, <3>1, ModelSends
    <3>3. /\ r \in Statement /\ r.then = "find" /\ ~r.tx /\ ~r.sure
          /\ r.kind = Save(a[1], s.name).kind /\ r.q = Save(a[1], s.name).q
          /\ r.name = Save(a[1], s.name).name /\ r.scoped = Save(a[1], s.name).scoped
      <4> DEFINE x == Save(a[1], s.name)
      <4>1. Sendable(x)
        BY <3>2
      <4> HIDE DEF x
      <4> QED
        BY <4>1 DEF Sendable, Statement, Place, x
    <3>4. stmt' = [stmt EXCEPT ![c] = r] /\ pc' = [pc EXCEPT ![c] = "write"]
      BY <2>1, <2>3
    <3> HIDE DEF r
    <3>5. Fit("write", r, rows)
      BY <3>2, <3>3 DEF Fit, Sendable
    <3>6. Sound("write", r, None, None, rows)
      BY <3>3, <3>5, Records DEF Sound, Stage
    <3>7. Aside(c, "write", r, None)
      BY <1>1, <3>3, <3>4, <3>6 DEF Aside, Look, Place, data, txs
    <3> QED
      BY <3>7, AsideInv
  <2> QED
    BY <1>2, <2>2, <2>3
<1>6. CASE <<>> \in Answers(rows, f) /\ pc' = [pc EXCEPT ![c] = "write"] /\ UNCHANGED stmt
  <2>1. Selected(rows, s.q) = {}
    BY <1>3, <1>4, <1>6, AnswerShows
  <2>2. Fit("write", s, rows)
    BY <1>2, <2>1 DEF Fit
  <2>3. Sound("write", s, None, None, rows)
    BY <1>1, <1>2, <2>2, Records DEF Sound, Stage
  <2>4. Aside(c, "write", s, None)
    BY <1>1, <1>6, <2>3 DEF Aside, Look, Place, data, txs
  <2> QED
    BY <2>4, AsideInv
<1>7. CASE pc' = [pc EXCEPT ![c] = "write"] /\ stmt' = [stmt EXCEPT ![c].sure = FALSE]
  <2> DEFINE r == [s EXCEPT !.sure = FALSE]
  <2>1. /\ r \in Statement /\ ~r.sure /\ r.kind = "insert" /\ r.q = s.q /\ r.name = s.name
        /\ r.then = "find" /\ ~r.tx /\ r.scoped = s.scoped
    BY <1>1, <1>2 DEF Statement
  <2>2. stmt' = [stmt EXCEPT ![c] = r]
    BY <1>0, <1>7
  <2> HIDE DEF r
  <2>3. Fit("write", r, rows)
    BY <1>2, <2>1 DEF Fit
  <2>4. Sound("write", r, None, None, rows)
    BY <2>1, <2>3, Records DEF Sound, Stage
  <2>5. Aside(c, "write", r, None)
    BY <1>1, <1>7, <2>1, <2>2, <2>4 DEF Aside, Look, Place, data, txs
  <2> QED
    BY <2>5, AsideInv
<1> QED
  BY <1>5, <1>6, <1>7, Zenon DEF Look, f

\* The next statement of a transaction's fn.
LEMMA InTxFits ==
    ASSUME NEW b \in BodyStatement
    PROVE  /\ InTx(b) \in Statement /\ InTx(b).then = "tx" /\ ~InTx(b).sure
           /\ InTx(b).kind \in {"insert", "rename"} => InTx(b).name \in Name
           /\ SoftDelete /\ InTx(b).scoped => Scope(InTx(b).q)
<1> DEFINE q == IF b.tx THEN TxChain(From, b.chain) ELSE Chain(ModelQuery, b.chain)
<1>1. /\ b.kind \in Kind /\ b.chain \in Seq(BuilderCall) /\ b.tx \in BOOLEAN
      /\ b.name \in Name \cup {None} /\ (b.kind \in {"insert", "rename"} => b.name \in Name)
  BY DEF BodyStatement, Kind
<1>2. q \in Query /\ (SoftDelete /\ ~b.tx => Scope(q))
  BY <1>1, FromType, ChainType
<1> HIDE DEF q
<1> DEFINE r == Call(b.kind, q, b.name, ~b.tx)
<1>3. Sendable(r)
  <2>1. CASE b.tx = TRUE
    <3>1. Sendable(Call(b.kind, q, b.name, FALSE)) /\ (~b.tx) = FALSE
      BY <1>1, <1>2, <2>1, CallSendable
    <3> QED
      BY <3>1
  <2>2. CASE b.tx = FALSE
    <3>1. Sendable(Call(b.kind, q, b.name, TRUE)) /\ (~b.tx) = TRUE
      BY <1>1, <1>2, <2>2, CallSendable
    <3> QED
      BY <3>1
  <2> QED
    BY <1>1, <2>1, <2>2
<1>4. InTx(b) = [r EXCEPT !.then = "tx", !.tx = b.tx]
  BY DEF InTx, q
<1> HIDE DEF r
<1> QED
  BY <1>1, <1>3, <1>4 DEF Sendable, Statement, Place, Kind

LEMMA TxSendInv ==
    ASSUME IInv, NEW c \in Client, TxSend(c)
    PROVE  IInv'
<1>1. /\ pc[c] = "tx" /\ walk[c] = None /\ conn[c] # None
      /\ [walk EXCEPT ![c] = walk[c]] = walk
      /\ body \in [Client -> Seq(BodyStatement)] /\ body[c] # <<>>
  BY Holding DEF Sound, Stage, TxSend
<1>2. body[c] \in Seq(BodyStatement)
  BY <1>1
<1>3. Head(body[c]) \in BodyStatement /\ Tail(body[c]) \in Seq(BodyStatement)
  BY <1>1, <1>2, HeadTailProperties
<1> DEFINE s == InTx(Head(body[c]))
<1>4. /\ s \in Statement /\ s.then = "tx" /\ ~s.sure
      /\ s.kind \in {"insert", "rename"} => s.name \in Name
      /\ SoftDelete /\ s.scoped => Scope(s.q)
  BY <1>3, InTxFits
<1>5. pc' = [pc EXCEPT ![c] = "write"] /\ stmt' = [stmt EXCEPT ![c] = s]
      /\ body' = [body EXCEPT ![c] = Tail(@)] /\ UNCHANGED <<data, walk, conn, leaked, menu>>
  BY DEF TxSend, Send
<1> HIDE DEF s
<1>6. Fit("write", s, rows)
  BY <1>4 DEF Fit
<1>7. Sound("write", s, None, conn[c], rows)
  BY <1>1, <1>4, <1>6, Records DEF Sound, Stage
<1>8. body' \in [Client -> Seq(BodyStatement)]
  BY <1>1, <1>3, <1>5
<1>9. Aside(c, "write", s, None)
  BY <1>1, <1>4, <1>5, <1>7, <1>8 DEF Aside, Place, data
<1> QED
  BY <1>9, AsideInv

-----------------------------------------------------------------------------
(* A walk through the batches or the pages *)

LEMMA SkipType ==
    ASSUME NEW w \in Touring, Ordered(w), w.at >= First(w)
    PROVE  Extent(w) \in Nat \ {0} /\ Skip(w) \in Nat
<1>1. w.at \in Int /\ w.size \in Int /\ w.mode \in {"chunk", "pages", "typed"}
  BY DEF Touring, Mode
<1>2. Extent(w) \in Nat \ {0}
  BY <1>1 DEF Extent, Ordered
<1>3. CASE w.mode = "chunk"
  BY <1>1, <1>2, <1>3 DEF Skip, First
<1>4. CASE w.mode # "chunk"
  <2>1. w.at - 1 \in Nat
    BY <1>1, <1>4 DEF First
  <2>2. ASSUME NEW m \in Nat, NEW n \in Nat PROVE m * n \in Nat
    OBVIOUS
  <2> QED
    BY <1>2, <1>4, <2>1, <2>2 DEF Skip
<1> QED
  BY <1>2, <1>3, <1>4

\* What a walk asks for: a window of its own query ...
LEMMA QueryOfWindow ==
    ASSUME NEW w \in Touring
    PROVE  \E n, off \in Int : QueryOf(w) = Offset(Limit(w.q, n), off)
<1>1. w.at \in Int /\ w.size \in Int /\ w.mode \in {"chunk", "pages", "typed"}
  BY DEF Touring, Mode
<1>2. ASSUME NEW m \in Int, NEW n \in Int PROVE (m - 1) * n \in Int
  OBVIOUS
<1>3. CASE w.mode = "chunk"
  BY <1>1, <1>3 DEF QueryOf, BatchOf
<1>4. CASE w.mode = "typed"
  <2>1. (w.at - 1) * w.size \in Int
    BY <1>1, <1>2
  <2>2. QueryOf(w) = Offset(Limit(w.q, w.size), (w.at - 1) * w.size)
    BY <1>4 DEF QueryOf, TypedPageOf
  <2> QED
    BY <1>1, <2>1, <2>2
<1>5. CASE w.mode = "pages"
  <2> DEFINE page    == IF w.at < 1 THEN 1 ELSE w.at
             perPage == IF w.size < 1 THEN 15 ELSE w.size
  <2>1. page \in Int /\ perPage \in Int
    BY <1>1
  <2>2. QueryOf(w) = Offset(Limit(w.q, perPage), (page - 1) * perPage)
    BY <1>5 DEF QueryOf, PageOf
  <2> HIDE DEF page, perPage
  <2>3. (page - 1) * perPage \in Int
    BY <2>1, <1>2
  <2> QED
    BY <2>1, <2>2, <2>3
<1> QED
  BY <1>1, <1>3, <1>4, <1>5

\* ... and in a definite order the one after what it has skipped.
LEMMA QueryOfOrdered ==
    ASSUME NEW w \in Touring, Ordered(w), w.at >= First(w)
    PROVE  QueryOf(w) = Offset(Limit(w.q, Extent(w)), Skip(w))
<1>1. w.at \in Int /\ w.size \in Int /\ w.mode \in {"chunk", "pages", "typed"}
  BY DEF Touring, Mode
<1>3. CASE w.mode = "chunk"
  BY <1>3 DEF QueryOf, BatchOf, Extent, Skip
<1>4. CASE w.mode = "typed"
  BY <1>4 DEF QueryOf, TypedPageOf, Extent, Skip
<1>5. CASE w.mode = "pages"
  <2> DEFINE page    == IF w.at < 1 THEN 1 ELSE w.at
             perPage == IF w.size < 1 THEN 15 ELSE w.size
  <2>1. page = w.at /\ perPage = Extent(w)
    BY <1>1, <1>5 DEF First, Extent
  <2>2. QueryOf(w) = Offset(Limit(w.q, perPage), (page - 1) * perPage)
    BY <1>5 DEF QueryOf, PageOf
  <2> HIDE DEF page, perPage
  <2> QED
    BY <1>5, <2>1, <2>2 DEF Skip
<1> QED
  BY <1>1, <1>3, <1>4, <1>5

\* What a client has in the middle of a walk.
LEMMA OnTheWay ==
    ASSUME IInv, NEW c \in Client, pc[c] \in {"count", "batch", "fn", "walked"}
    PROVE  /\ walk[c] \in Touring /\ Tour(pc[c], walk[c], rows)
           /\ stmt[c] = None /\ conn[c] = None
           /\ [stmt EXCEPT ![c] = stmt[c]] = stmt /\ [walk EXCEPT ![c] = walk[c]] = walk
           /\ walk \in [Client -> Touring \cup {None}]
           /\ body \in [Client -> Seq(BodyStatement)] /\ rows \in Table
<1>1. Stage(pc[c], stmt[c]) = pc[c]
  BY DEF Stage
<1>2. /\ Sound(pc[c], stmt[c], walk[c], conn[c], rows) /\ walk[c] \in Touring \cup {None}
      /\ [stmt EXCEPT ![c] = stmt[c]] = stmt /\ [walk EXCEPT ![c] = walk[c]] = walk
      /\ body \in [Client -> Seq(BodyStatement)] /\ rows \in Table
  BY Holding
<1>3. walk \in [Client -> Touring \cup {None}]
  BY DEF IInv, Types
<1> QED
  BY <1>1, <1>2, <1>3 DEF Sound

\* A client on its walk goes on with walk w.
LEMMA Going ==
    ASSUME IInv, NEW c \in Client, pc[c] \in {"count", "batch", "fn", "walked"},
           NEW p \in {"count", "batch", "fn", "walked"}, NEW w \in Touring,
           Tour(p, w, rows), pc' = [pc EXCEPT ![c] = p], walk' = [walk EXCEPT ![c] = w],
           UNCHANGED <<data, stmt, txs>>
    PROVE  IInv'
<1>1. /\ stmt[c] = None /\ conn[c] = None /\ [stmt EXCEPT ![c] = stmt[c]] = stmt
      /\ body \in [Client -> Seq(BodyStatement)]
  BY OnTheWay
<1>2. Sound(p, None, w, None, rows)
  BY Records DEF Sound, Stage
<1>3. Aside(c, p, None, w)
  BY <1>1, <1>2 DEF Aside, Place, data, txs
<1> QED
  BY <1>3, AsideInv

LEMMA WalkOverInv ==
    ASSUME IInv, NEW c \in Client, WalkOver(c)
    PROVE  IInv'
<1>1. /\ stmt[c] = None /\ conn[c] = None /\ [stmt EXCEPT ![c] = stmt[c]] = stmt
      /\ body \in [Client -> Seq(BodyStatement)]
  BY OnTheWay DEF WalkOver
<1>2. Sound("idle", None, None, None, rows)
  BY DEF Sound, Stage
<1>3. Aside(c, "idle", None, None)
  BY <1>1, <1>2 DEF Aside, WalkOver, Place, data, txs
<1> QED
  BY <1>3, AsideInv

\* The walk begins.
LEMMA CallWalkInv ==
    ASSUME IInv, NEW c \in Client, CallWalk(c)
    PROVE  IInv'
<1>1. /\ stmt[c] = None /\ conn[c] = None /\ [stmt EXCEPT ![c] = stmt[c]] = stmt
      /\ body \in [Client -> Seq(BodyStatement)]
  BY Holding DEF Sound, Stage, CallWalk, May
<1>2. PICK x \in Walks :
          /\ walk' = [walk EXCEPT ![c] = Walk(x.mode, Chain(ModelQuery, x.chain), x.size, TRUE)]
          /\ pc' = [pc EXCEPT ![c] = IF x.mode = "chunk" THEN "batch" ELSE "count"]
  BY DEF CallWalk
<1>3. x.mode \in Mode /\ x.chain \in Seq(BuilderCall) /\ x.size \in Int
  BY RecordsOK
<1> DEFINE q == Chain(ModelQuery, x.chain)
           w == Walk(x.mode, q, x.size, TRUE)
           p == IF x.mode = "chunk" THEN "batch" ELSE "count"
<1>4. q \in Query /\ (SoftDelete => Scope(q))
  BY <1>3, FromType, ChainType
<1> HIDE DEF q
<1>5. /\ w.mode = x.mode /\ w.q = q /\ w.size = x.size /\ w.last = FALSE
      /\ w.at = (IF x.mode = "chunk" THEN 0 ELSE 1) /\ w.seen = [i \in Id |-> 0]
      /\ w.stayed = Selected(rows, q)
  BY DEF Walk
<1>6. w \in Touring
  <2>1. Selected(rows, q) \in SUBSET Id
    BY SelectedFinite
  <2> QED
    BY <1>3, <1>4, <2>1 DEF Walk, Touring
<1>7. walk' = [walk EXCEPT ![c] = w] /\ pc' = [pc EXCEPT ![c] = p]
  BY <1>2 DEF q
<1>8. p \in {"batch", "count"} /\ (w.mode = "chunk" => p = "batch")
  BY <1>5
<1> HIDE DEF w, p
<1>9. Tour(p, w, rows)
  <2>1. ASSUME Ordered(w)
        PROVE  /\ w.at >= First(w)
               /\ Covered(p, w, rows) /\ Ahead(p, w, rows) /\ Single(w) /\ Total(p, w, rows)
    <3>1. w.at = First(w)
      BY <1>5 DEF First
    <3>2. Extent(w) \in Nat /\ w.at >= First(w)
      BY <1>3, <1>5, <1>6, <2>1, <3>1, SkipType DEF First
    <3>3. Skip(w) = 0
      <4>1. \A n \in Nat : (1 - 1) * n = 0
        OBVIOUS
      <4> QED
        BY <1>5, <3>2, <4>1 DEF Skip
    <3>4. Upto(p, w) = 0 /\ ~Over(p, w)
      BY <1>8, <3>3 DEF Upto, Over
    <3>5. Covered(p, w, rows)
      BY <3>4, RankType DEF Covered
    <3>6. Ahead(p, w, rows) /\ Single(w)
      BY <1>5, SelectedFinite DEF Ahead, Single
    <3>7. Total(p, w, rows)
      BY <1>5 DEF Total
    <3> QED
      BY <3>2, <3>5, <3>6, <3>7
  <2> QED
    BY <1>4, <1>5, <1>8, <2>1 DEF Tour
<1>10. Sound(p, None, w, None, rows)
  BY <1>6, <1>8, <1>9, Records DEF Sound, Stage
<1>11. Aside(c, p, None, w)
  BY <1>1, <1>6, <1>7, <1>8, <1>10 DEF Aside, CallWalk, Place, data, txs
<1> QED
  BY <1>11, AsideInv

\* The total is read.
LEMMA CountRowsInv ==
    ASSUME IInv, NEW c \in Client, CountRows(c)
    PROVE  IInv'
<1> DEFINE w == walk[c]
           total == w.at * Extent(w) >= CountOf(rows, w.q)
           v == [w EXCEPT !.last = total]
<1>1. /\ pc[c] = "count" /\ w \in Touring /\ Tour("count", w, rows)
      /\ walk \in [Client -> Touring \cup {None}]
  BY OnTheWay DEF CountRows
<1>2. /\ walk' = [walk EXCEPT ![c].last = total] /\ pc' = [pc EXCEPT ![c] = "batch"]
      /\ UNCHANGED <<data, stmt, txs>>
  BY DEF CountRows, Extent
<1>3. walk' = [walk EXCEPT ![c] = v]
  BY <1>1, <1>2
<1>4. total \in BOOLEAN
  OBVIOUS
<1> HIDE DEF total
<1>5. /\ v \in Touring /\ v.last = total /\ v.mode = w.mode /\ v.q = w.q /\ v.size = w.size
      /\ v.at = w.at /\ v.seen = w.seen /\ v.stayed = w.stayed /\ v.joined = w.joined
      /\ v.left = w.left
  BY <1>1, <1>4 DEF Touring
<1> HIDE DEF v, w
<1>6. /\ Extent(v) = Extent(w) /\ Skip(v) = Skip(w) /\ First(v) = First(w)
      /\ Ordered(v) = Ordered(w) /\ Judged(v) = Judged(w)
  BY <1>5 DEF Extent, Skip, First, Ordered, Judged
<1>7. Tour("batch", v, rows)
  <2>1. w.mode # "chunk"
    BY <1>1 DEF Tour
  <2>2. ASSUME Ordered(v)
        PROVE  /\ v.at >= First(v)
               /\ Covered("batch", v, rows) /\ Ahead("batch", v, rows)
               /\ Single(v) /\ Total("batch", v, rows)
    <3>1. /\ w.at >= First(w) /\ Covered("count", w, rows) /\ Ahead("count", w, rows)
          /\ Single(w)
      BY <1>1, <1>6, <2>2 DEF Tour
    <3>2. Covered("batch", v, rows)
      BY <1>5, <1>6, <3>1 DEF Covered, Over, Upto
    <3>3. Ahead("batch", v, rows) /\ Single(v)
      BY <1>5, <1>6, <3>1 DEF Ahead, Upto, Single
    <3>4. Total("batch", v, rows)
      <4>1. Extent(w) \in Nat /\ w.at \in Int
        BY <1>1, <1>6, <2>2, <3>1, SkipType DEF Touring
      <4>2. ASSUME NEW a \in Int, NEW n \in Nat PROVE (a - 1) * n + n = a * n
        OBVIOUS
      <4>3. Skip(w) + Extent(w) = w.at * Extent(w)
        BY <2>1, <4>1, <4>2 DEF Skip
      <4>4. total => Cardinality(Selected(rows, w.q)) <= Skip(w) + Extent(w)
        BY <4>1, <4>3, SelectedFinite DEF total, CountOf, w
      <4> QED
        BY <1>5, <1>6, <4>4 DEF Total
    <3> QED
      BY <1>5, <1>6, <3>1, <3>2, <3>3, <3>4
  <2> QED
    BY <1>1, <1>5, <2>1, <2>2 DEF Tour
<1> QED
  BY <1>1, <1>2, <1>3, <1>5, <1>7, Going

\* A batch or a page is read and shown.
LEMMA BatchInv ==
    ASSUME IInv, NEW c \in Client, Batch(c)
    PROVE  IInv'
<1> DEFINE w == walk[c]
           S == Selected(rows, w.q)
<1>1. /\ pc[c] = "batch" /\ w \in Touring /\ Tour("batch", w, rows)
      /\ walk \in [Client -> Touring \cup {None}] /\ [walk EXCEPT ![c] = w] = walk
      /\ UNCHANGED <<data, stmt, txs>>
  BY OnTheWay DEF Batch
<1>2. PICK a \in Answers(rows, QueryOf(w)) :
          IF w.mode = "chunk" /\ a = <<>>
          THEN pc' = [pc EXCEPT ![c] = "walked"] /\ UNCHANGED walk
          ELSE /\ pc' = [pc EXCEPT ![c] = "fn"]
               /\ walk' = [walk EXCEPT
                     ![c].seen = Shown(w, ToSet(a)),
                     ![c].last = IF w.mode = "chunk" THEN Len(a) < w.size ELSE @]
  BY DEF Batch
<1> HIDE DEF w
<1>3. w.q \in Query /\ w.stayed \subseteq S /\ S \subseteq Id
  BY <1>1, SelectedFinite DEF Tour, Touring
\* In a definite order the rows are those of the places.
<1>4. ASSUME Ordered(w)
      PROVE  /\ Skip(w) \in Nat /\ Extent(w) \in Nat \ {0} /\ ToSet(a) \subseteq S
             /\ \A i \in S : i \in ToSet(a) <=> Skip(w) <= Rank(rows, w.q, i)
                                                /\ Rank(rows, w.q, i) < Skip(w) + Extent(w)
             /\ a = <<>> => Cardinality(S) <= Skip(w)
             /\ Len(a) < Extent(w) => Cardinality(S) < Skip(w) + Extent(w)
             /\ \A i \in S : Rank(rows, w.q, i) < Cardinality(S) /\ Rank(rows, w.q, i) \in Nat
             /\ Cardinality(S) \in Nat
             /\ w.at >= First(w) /\ Covered("batch", w, rows) /\ Ahead("batch", w, rows)
             /\ Single(w) /\ Total("batch", w, rows)
  <2>1. /\ w.at >= First(w) /\ Covered("batch", w, rows) /\ Ahead("batch", w, rows)
        /\ Single(w) /\ Total("batch", w, rows)
    BY <1>1, <1>4 DEF Tour
  <2>2. Skip(w) \in Nat /\ Extent(w) \in Nat \ {0}
    BY <1>1, <1>4, <2>1, SkipType
  <2>3. a \in Answers(rows, Offset(Limit(w.q, Extent(w)), Skip(w))) /\ Sorted(w.q)
    BY <1>1, <1>2, <1>4, <2>1, QueryOfOrdered DEF Ordered
  <2>4. /\ ToSet(a) \subseteq S
        /\ \A i \in S : i \in ToSet(a) <=> Skip(w) <= Rank(rows, w.q, i)
                                           /\ Rank(rows, w.q, i) < Skip(w) + Extent(w)
        /\ a = <<>> => Cardinality(S) <= Skip(w)
        /\ Len(a) < Extent(w) => Cardinality(S) < Skip(w) + Extent(w)
    BY <1>3, <2>2, <2>3, BatchRows
  <2>5. /\ \A i \in S : Rank(rows, w.q, i) < Cardinality(S) /\ Rank(rows, w.q, i) \in Nat
        /\ Cardinality(S) \in Nat
    BY <2>3, RankBound, RankType, SelectedFinite
  <2> QED
    BY <2>1, <2>2, <2>4, <2>5
<1> HIDE DEF S
<1>5. CASE w.mode = "chunk" /\ a = <<>>
  <2>1. pc' = [pc EXCEPT ![c] = "walked"] /\ walk' = [walk EXCEPT ![c] = w]
    BY <1>1, <1>2, <1>5
  <2>2. ASSUME Ordered(w)
        PROVE  /\ w.at >= First(w)
               /\ Covered("walked", w, rows) /\ Ahead("walked", w, rows)
               /\ Single(w) /\ Total("walked", w, rows)
    <3>1. \A i \in S : Rank(rows, w.q, i) < Skip(w)
      BY <1>4, <1>5, <2>2
    <3>2. Covered("walked", w, rows)
      BY <1>3, <1>4, <2>2, <3>1 DEF Covered, Over, Upto
    <3>3. Ahead("walked", w, rows) /\ Total("walked", w, rows)
      BY DEF Ahead, Total
    <3> QED
      BY <1>4, <2>2, <3>2, <3>3
  <2>3. Tour("walked", w, rows)
    BY <1>1, <2>2 DEF Tour
  <2> QED
    BY <1>1, <2>1, <2>3, Going
<1>6. CASE ~(w.mode = "chunk" /\ a = <<>>)
  <2> DEFINE seen == Shown(w, ToSet(a))
             last == IF w.mode = "chunk" THEN Len(a) < w.size ELSE w.last
             v == [w EXCEPT !.seen = seen, !.last = last]
  <2>1. pc' = [pc EXCEPT ![c] = "fn"] /\ walk' = [walk EXCEPT ![c] = v]
    <3> DEFINE x == [w EXCEPT !.seen = seen]
               y == [walk EXCEPT ![c] = x]
    <3>1. /\ pc' = [pc EXCEPT ![c] = "fn"]
          /\ walk' = [walk EXCEPT ![c].seen = seen,
                                  ![c].last = IF w.mode = "chunk" THEN Len(a) < w.size ELSE @]
      BY <1>2, <1>6
    <3> HIDE DEF seen
    <3>2. x.last = w.last /\ y[c] = x
      BY <1>1 DEF Touring
    <3>3. walk' = [y EXCEPT ![c].last = IF w.mode = "chunk" THEN Len(a) < w.size ELSE y[c].last]
      BY <3>1 DEF w
    <3>4. walk' = [y EXCEPT ![c].last = last]
      BY <3>2, <3>3
    <3> HIDE DEF last, x
    <3>5. walk' = [walk EXCEPT ![c] = [x EXCEPT !.last = last]]
      BY <1>1, <3>2, <3>4
    <3> QED
      BY <3>1, <3>5 DEF x
  <2>2. /\ seen \in [Id -> 0..2]
        /\ \A i \in Id : w.seen[i] > 0 => seen[i] > 0
        /\ ~(w.joined /\ w.left) => \A i \in Id :
              /\ i \in ToSet(a) => seen[i] > 0 /\ (w.seen[i] = 0 => seen[i] = 1)
              /\ i \notin ToSet(a) => seen[i] = w.seen[i]
    <3>1. w.seen \in [Id -> 0..2]
      BY <1>1 DEF Touring
    <3>2. \A n \in 0..2 : /\ Lesser(n + 1, 2) \in 0..2 /\ Lesser(n + 1, 2) > 0
                          /\ n = 0 => Lesser(n + 1, 2) = 1
      BY DEF Lesser
    <3>3. CASE w.joined /\ w.left
      BY <3>1, <3>3 DEF Shown
    <3>4. CASE ~(w.joined /\ w.left)
      <4>1. seen = [i \in Id |-> IF i \in ToSet(a) THEN Lesser(w.seen[i] + 1, 2) ELSE w.seen[i]]
        BY <3>4 DEF Shown
      <4> HIDE DEF seen
      <4> QED
        BY <3>1, <3>2, <4>1
    <3> QED
      BY <3>3, <3>4
  <2>3. last \in BOOLEAN
    <3>1. w.last \in BOOLEAN
      BY <1>1 DEF Touring
    <3>2. (Len(a) < w.size) \in BOOLEAN
      OBVIOUS
    <3> DEFINE short == Len(a) < w.size
    <3> HIDE DEF short
    <3>3. (IF w.mode = "chunk" THEN short ELSE w.last) \in BOOLEAN
      BY <3>1, <3>2, Zenon DEF short
    <3> QED
      BY <3>3, Zenon DEF short
  <2> HIDE DEF seen, last
  <2>4. /\ v \in Touring /\ v.last = last /\ v.mode = w.mode /\ v.q = w.q /\ v.size = w.size
        /\ v.at = w.at /\ v.seen = seen /\ v.stayed = w.stayed /\ v.joined = w.joined
        /\ v.left = w.left
    BY <1>1, <2>2, <2>3 DEF Touring
  <2> HIDE DEF v
  <2>5. /\ Extent(v) = Extent(w) /\ Skip(v) = Skip(w) /\ First(v) = First(w)
        /\ Ordered(v) = Ordered(w) /\ Judged(v) = Judged(w)
    BY <2>4 DEF Extent, Skip, First, Ordered, Judged
  <2>6. ASSUME Ordered(w)
        PROVE  /\ v.at >= First(v)
               /\ Covered("fn", v, rows) /\ Ahead("fn", v, rows)
               /\ Single(v) /\ Total("fn", v, rows)
    <3>1. Covered("fn", v, rows)
      <4> SUFFICES ASSUME Judged(w), NEW i \in w.stayed,
                          last \/ Rank(rows, w.q, i) < Skip(w) + Extent(w)
                   PROVE  seen[i] > 0
        BY <2>4, <2>5 DEF Covered, Over, Upto
      <4>1. i \in S /\ i \in Id
        BY <1>3
      <4>2. Rank(rows, w.q, i) < Skip(w) + Extent(w)
        <5>1. CASE last /\ w.mode = "chunk"
          <6>1. Len(a) < Extent(w)
            BY <2>6, <5>1 DEF last, Extent
          <6> QED
            BY <1>4, <2>6, <4>1, <6>1
        <5>2. CASE last /\ w.mode # "chunk"
          <6>1. Cardinality(S) <= Skip(w) + Extent(w)
            BY <1>4, <2>6, <5>2 DEF last, Total, Judged, S
          <6> QED
            BY <1>4, <2>6, <4>1, <6>1
        <5> QED
          BY <5>1, <5>2
      <4>3. CASE Rank(rows, w.q, i) < Skip(w)
        <5>1. w.seen[i] > 0
          BY <1>4, <2>6, <4>3 DEF Covered, Upto
        <5> QED
          BY <2>2, <4>1, <5>1
      <4>4. CASE ~(Rank(rows, w.q, i) < Skip(w))
        <5>1. i \in ToSet(a)
          BY <1>4, <2>6, <4>1, <4>2, <4>4
        <5> QED
          BY <2>2, <4>1, <5>1 DEF Judged
      <4> QED
        BY <4>3, <4>4
    <3>2. ASSUME ~w.joined, NEW i \in S, Rank(rows, w.q, i) >= Skip(w) PROVE w.seen[i] = 0
      BY <1>4, <2>6, <3>2 DEF Ahead, Upto, S
    <3>3. Ahead("fn", v, rows)
      <4> SUFFICES ASSUME ~w.joined, NEW i \in S, Rank(rows, w.q, i) >= Skip(w) + Extent(w)
                   PROVE  seen[i] = 0
        BY <2>4, <2>5 DEF Ahead, Upto, S
      <4>1. i \notin ToSet(a) /\ Rank(rows, w.q, i) >= Skip(w)
        BY <1>4, <2>6
      <4> QED
        BY <1>3, <2>2, <3>2, <4>1
    <3>4. Single(v)
      <4> SUFFICES ASSUME ~w.joined, NEW i \in Id PROVE seen[i] < 2
        BY <2>4 DEF Single
      <4>1. CASE i \in ToSet(a)
        <5>1. i \in S /\ Rank(rows, w.q, i) >= Skip(w)
          BY <1>4, <2>6, <4>1
        <5> QED
          BY <2>2, <3>2, <4>1, <5>1
      <4>2. CASE i \notin ToSet(a)
        BY <1>4, <2>2, <2>6, <4>2 DEF Single
      <4> QED
        BY <4>1, <4>2
    <3>5. Total("fn", v, rows)
      BY DEF Total
    <3> QED
      BY <1>4, <2>4, <2>5, <2>6, <3>1, <3>3, <3>4, <3>5
  <2>7. Tour("fn", v, rows)
    BY <1>1, <2>4, <2>5, <2>6 DEF Tour
  <2> QED
    BY <1>1, <2>1, <2>4, <2>7, Going
<1> QED
  BY <1>5, <1>6

\* Turning the page.
Turned(w) == IF w.last THEN w ELSE Advanced(w)

LEMMA AdvancedSkip ==
    ASSUME NEW w \in Touring, Ordered(w), w.at >= First(w), NEW r \in Nat, r < Cardinality(Id)
    PROVE  r < Skip(Advanced(w)) <=> r < Skip(w) + Extent(w)
<1> DEFINE N == Cardinality(Id)
           v == Advanced(w)
           step == IF w.mode = "chunk" THEN w.size ELSE 1
<1>1. /\ w.at \in Int /\ w.size \in Int /\ Extent(w) \in Nat \ {0} /\ N \in Nat
      /\ w.mode \in {"chunk", "pages", "typed"}
  BY SkipType, SelectedFinite DEF Touring, Mode
<1>2. v.at = Lesser(w.at + step, N + 1) /\ v.mode = w.mode /\ v.size = w.size
  BY DEF Advanced, Touring
<1>3. Extent(v) = Extent(w)
  BY <1>2 DEF Extent
<1> HIDE DEF v, N
<1>4. r < N
  BY DEF N
<1>5. CASE w.mode = "chunk"
  <2>1. step = w.size /\ Extent(w) = w.size /\ Skip(w) = w.at /\ Skip(v) = Lesser(w.at + w.size, N + 1)
    BY <1>2, <1>5 DEF Extent, Skip
  <2> HIDE DEF step
  <2> QED
    BY <1>1, <1>4, <2>1 DEF Lesser, v
<1>6. CASE w.mode # "chunk"
  <2> DEFINE e == Extent(w)
             p == w.at
  <2>1. /\ step = 1 /\ Skip(w) = (p - 1) * e /\ Skip(v) = (Lesser(p + 1, N + 1) - 1) * e
        /\ p >= 1 /\ p \in Nat /\ e \in Nat \ {0}
    BY <1>1, <1>2, <1>3, <1>6 DEF Skip, First
  <2> HIDE DEF step, e, p
  <2>2. (p - 1) * e + e = p * e
    BY <2>1
  <2>3. CASE p <= N
    <3>1. Lesser(p + 1, N + 1) - 1 = p
      BY <1>1, <2>1, <2>3 DEF Lesser
    <3> QED
      BY <2>1, <2>2, <3>1 DEF v, e
  <2>4. CASE N < p
    <3>1. Lesser(p + 1, N + 1) - 1 = N
      BY <1>1, <2>1, <2>4 DEF Lesser
    <3>2. ASSUME NEW m \in Nat, NEW n \in Nat \ {0} PROVE m * n >= m /\ m * n \in Nat
      OBVIOUS
    <3>3. N * e >= N /\ p * e >= p /\ N * e \in Nat /\ p * e \in Nat
      BY <1>1, <2>1, <3>2
    <3>4. r < N * e /\ r < p * e
      BY <1>1, <1>4, <2>1, <2>4, <3>3
    <3> QED
      BY <2>1, <2>2, <3>1, <3>4 DEF v, e
  <2> QED
    BY <1>1, <2>1, <2>3, <2>4
<1> QED
  BY <1>1, <1>5, <1>6

LEMMA TurnedTour ==
    ASSUME NEW w \in Touring, Tour("fn", w, rows)
    PROVE  /\ Turned(w) \in Touring /\ Onward(w) \in {"walked", "batch", "count"}
           /\ Tour(Onward(w), Turned(w), rows)
<1>0. /\ w.at \in Int /\ w.size \in Int /\ Cardinality(Id) \in Nat
      /\ w.mode \in {"chunk", "pages", "typed"} /\ w.last \in BOOLEAN /\ w.q \in Query
  BY SelectedFinite DEF Touring, Mode
<1>1. Onward(w) \in {"walked", "batch", "count"}
  BY DEF Onward
<1>2. CASE w.last
  <2>1. Turned(w) = w /\ Onward(w) = "walked"
    BY <1>2 DEF Turned, Onward
  <2>2. ASSUME Ordered(w)
        PROVE  /\ w.at >= First(w)
               /\ Covered("walked", w, rows) /\ Ahead("walked", w, rows)
               /\ Single(w) /\ Total("walked", w, rows)
    <3>1. w.at >= First(w) /\ Covered("fn", w, rows) /\ Single(w)
      BY <2>2 DEF Tour
    <3>2. Covered("walked", w, rows)
      BY <1>2, <3>1 DEF Covered, Over
    <3> QED
      BY <3>1, <3>2 DEF Ahead, Total
  <2>3. Tour("walked", w, rows)
    BY <2>2 DEF Tour
  <2> QED
    BY <2>1, <2>3
<1>3. CASE ~w.last
  <2> DEFINE v == Advanced(w)
             p == Onward(w)
  <2>1. Turned(w) = v /\ p = IF w.mode = "chunk" THEN "batch" ELSE "count"
    BY <1>3 DEF Turned, Onward
  <2>2. /\ v \in Touring /\ v.last = w.last /\ v.mode = w.mode /\ v.q = w.q /\ v.size = w.size
        /\ v.seen = w.seen /\ v.stayed = w.stayed /\ v.joined = w.joined /\ v.left = w.left
        /\ v.at = Lesser(w.at + (IF w.mode = "chunk" THEN w.size ELSE 1), Cardinality(Id) + 1)
    <3> DEFINE at == Lesser(w.at + (IF w.mode = "chunk" THEN w.size ELSE 1), Cardinality(Id) + 1)
    <3>1. at \in Int
      BY <1>0 DEF Lesser
    <3>2. v = [w EXCEPT !.at = at]
      BY DEF Advanced
    <3> HIDE DEF v, at
    <3>3. /\ v \in Touring /\ v.last = w.last /\ v.mode = w.mode /\ v.q = w.q /\ v.size = w.size
          /\ v.seen = w.seen /\ v.stayed = w.stayed /\ v.joined = w.joined /\ v.left = w.left
          /\ v.at = at
      BY <3>1, <3>2 DEF Touring
    <3> QED
      BY <3>3 DEF at
  <2>3. /\ First(v) = First(w) /\ Ordered(v) = Ordered(w) /\ Judged(v) = Judged(w)
    BY <2>2 DEF First, Ordered, Judged
  <2> HIDE DEF v, p
  <2>4. ASSUME Ordered(w)
        PROVE  /\ v.at >= First(v)
               /\ Covered(p, v, rows) /\ Ahead(p, v, rows)
               /\ Single(v) /\ Total(p, v, rows)
    <3>1. w.at >= First(w) /\ Covered("fn", w, rows) /\ Ahead("fn", w, rows) /\ Single(w)
      BY <2>4 DEF Tour
    <3>2. v.at >= First(v)
      <4>1. w.mode = "chunk" => w.size > 0
        BY <2>4 DEF Ordered
      <4>2. First(w) = IF w.mode = "chunk" THEN 0 ELSE 1
        BY DEF First
      <4>3. ASSUME NEW n \in Int, NEW m \in Nat, NEW s \in Nat \ {0}, NEW f \in {0, 1}, n >= f
            PROVE  Lesser(n + s, m + 1) >= f
        BY <4>3 DEF Lesser
      <4> DEFINE s == IF w.mode = "chunk" THEN w.size ELSE 1
      <4>4. s \in Nat \ {0} /\ First(w) \in {0, 1}
        BY <1>0, <4>1, <4>2
      <4> HIDE DEF s
      <4>5. Lesser(w.at + s, Cardinality(Id) + 1) >= First(w)
        BY <1>0, <3>1, <4>3, <4>4
      <4> QED
        BY <2>2, <2>3, <4>5 DEF s
    <3>3. p \in {"batch", "count"}
      BY <2>1
    <3>4. ASSUME NEW i \in Selected(rows, w.q)
          PROVE  Rank(rows, w.q, i) < Upto(p, v) <=> Rank(rows, w.q, i) < Upto("fn", w)
      <4> DEFINE r == Rank(rows, w.q, i)
      <4>1. r \in Nat /\ r < Cardinality(Selected(rows, w.q))
        BY <2>4, <3>4, RankType, RankBound DEF Ordered
      <4>2. r < Cardinality(Id)
        BY <4>1, SelectedFinite
      <4> HIDE DEF r
      <4>3. r < Skip(v) <=> r < Skip(w) + Extent(w)
        BY <2>4, <3>1, <4>1, <4>2, AdvancedSkip DEF v
      <4> QED
        BY <3>3, <4>3 DEF Upto, r
    <3>5. Covered(p, v, rows)
      <4> SUFFICES ASSUME Judged(w), NEW i \in w.stayed, Rank(rows, w.q, i) < Upto(p, v)
                   PROVE  w.seen[i] > 0
        BY <2>2, <2>3, <3>3 DEF Covered, Over
      <4>1. i \in Selected(rows, w.q)
        BY DEF Tour
      <4> QED
        BY <3>1, <3>4, <4>1 DEF Covered
    <3>6. Ahead(p, v, rows)
      <4> SUFFICES ASSUME ~w.joined, NEW i \in Selected(rows, w.q),
                          Rank(rows, w.q, i) >= Upto(p, v)
                   PROVE  w.seen[i] = 0
        BY <2>2 DEF Ahead
      <4>0. Skip(v) \in Nat /\ Skip(w) \in Nat /\ Extent(w) \in Nat /\ Rank(rows, w.q, i) \in Nat
        BY <2>2, <2>3, <2>4, <3>1, <3>2, SkipType, RankType
      <4>1. ~(Rank(rows, w.q, i) < Upto("fn", w))
        BY <3>3, <3>4, <4>0 DEF Upto
      <4>2. Rank(rows, w.q, i) >= Upto("fn", w)
        BY <4>0, <4>1 DEF Upto
      <4> QED
        BY <3>1, <4>2 DEF Ahead
    <3>7. Single(v) /\ Total(p, v, rows)
      BY <1>3, <2>2, <3>1 DEF Single, Total
    <3> QED
      BY <3>2, <3>5, <3>6, <3>7
  <2>5. Tour(p, v, rows)
    BY <1>3, <2>1, <2>2, <2>3, <2>4 DEF Tour
  <2> QED
    BY <1>1, <2>1, <2>2, <2>5 DEF p
<1> QED
  BY <1>0, <1>1, <1>2, <1>3

LEMMA FnReturnsInv ==
    ASSUME IInv, NEW c \in Client, FnReturns(c)
    PROVE  IInv'
<1> DEFINE w == walk[c]
<1>1. /\ pc[c] = "fn" /\ w \in Touring /\ Tour("fn", w, rows)
      /\ walk \in [Client -> Touring \cup {None}] /\ UNCHANGED <<data, stmt, txs>>
  BY OnTheWay DEF FnReturns
<1>2. walk' = [walk EXCEPT ![c] = Turned(w)] /\ pc' = [pc EXCEPT ![c] = Onward(w)]
  BY DEF FnReturns, Turned
<1> HIDE DEF w
<1>3. /\ Turned(w) \in Touring /\ Onward(w) \in {"walked", "batch", "count"}
      /\ Tour(Onward(w), Turned(w), rows)
  BY <1>1, TurnedTour
<1> QED
  BY <1>1, <1>2, <1>3, Going

LEMMA FnDestroysInv ==
    ASSUME IInv, NEW c \in Client, FnDestroys(c)
    PROVE  IInv'
<1> DEFINE w == walk[c]
<1>1. /\ pc[c] = "fn" /\ w \in Touring /\ Tour("fn", w, rows) /\ conn[c] = None
      /\ body \in [Client -> Seq(BodyStatement)]
  BY OnTheWay DEF FnDestroys
<1>2. /\ walk' = [walk EXCEPT ![c] = Turned(w)] /\ pc' = [pc EXCEPT ![c] = "write"]
      /\ UNCHANGED <<data, txs>>
  BY DEF FnDestroys, Turned
<1>3. PICK i \in Id : stmt' = [stmt EXCEPT ![c] = [Destroy(i) EXCEPT !.then = Onward(w)]]
  BY DEF FnDestroys
<1> HIDE DEF w
<1>4. /\ Turned(w) \in Touring /\ Onward(w) \in {"walked", "batch", "count"}
      /\ Tour(Onward(w), Turned(w), rows)
  BY <1>1, TurnedTour
<1> DEFINE r == Destroy(i)
           s == [r EXCEPT !.then = Onward(w)]
<1>5. Sendable(r)
  BY ModelSends
<1> HIDE DEF r
<1>6. /\ s \in Statement /\ s.then = Onward(w) /\ ~s.tx /\ ~s.sure /\ s.kind = r.kind
      /\ s.name = r.name /\ s.q = r.q /\ s.scoped = r.scoped
  BY <1>4, <1>5 DEF Sendable, Statement, Place
<1>7. stmt' = [stmt EXCEPT ![c] = s]
  BY <1>3 DEF r
<1> HIDE DEF s
<1>8. Fit("write", s, rows)
  BY <1>4, <1>5, <1>6 DEF Fit, Sendable
<1>9. Sound("write", s, Turned(w), None, rows)
  BY <1>4, <1>6, <1>8, Records DEF Sound, Stage
<1>10. Aside(c, "write", s, Turned(w))
  BY <1>1, <1>2, <1>4, <1>6, <1>7, <1>9 DEF Aside, Place, data, txs
<1> QED
  BY <1>10, AsideInv

-----------------------------------------------------------------------------
(* A new committed table *)

\* A walk stays as it should be, whatever is committed in its midst.
LEMMA TourWatched ==
    ASSUME NEW stage, NEW w \in Touring, Tour(stage, w, rows), NEW u
    PROVE  Watched(w, u) \in Touring /\ Tour(stage, Watched(w, u), u)
<1> DEFINE before == Selected(rows, w.q)
           after  == Selected(u, w.q)
           joined == w.joined \/ after \ before # {}
           left   == w.left \/ before \ after # {}
           moot   == joined /\ (left \/ w.mode # "chunk")
           v      == Watched(w, u)
<1>1. v = [w EXCEPT !.joined = joined, !.left = left \/ moot,
                    !.stayed = IF moot THEN {} ELSE @ \cap after,
                    !.seen = IF moot THEN [i \in Id |-> 0] ELSE @]
  BY DEF Watched
<1>2. joined \in BOOLEAN /\ left \in BOOLEAN /\ (left \/ moot) \in BOOLEAN
  OBVIOUS
<1>3. after \subseteq Id /\ [i \in Id |-> 0] \in [Id -> 0..2]
  BY SelectedFinite
<1>4. /\ w.q \in Query /\ w.stayed \subseteq before /\ (SoftDelete => Scope(w.q))
      /\ w.mode = "chunk" => stage # "count" /\ (stage = "batch" => ~w.last)
      /\ Ordered(w) => /\ w.at >= First(w) /\ Covered(stage, w, rows) /\ Ahead(stage, w, rows)
                       /\ Single(w) /\ Total(stage, w, rows)
  BY DEF Tour, Touring
<1>5. /\ joined <=> (w.joined \/ after \ before # {})
      /\ left <=> (w.left \/ before \ after # {})
      /\ moot <=> (joined /\ (left \/ w.mode # "chunk"))
  OBVIOUS
<1> HIDE DEF v, before, after, joined, left, moot
<1>6. /\ v \in Touring /\ v.mode = w.mode /\ v.q = w.q /\ v.size = w.size /\ v.at = w.at
      /\ v.last = w.last /\ v.scoped = w.scoped
      /\ v.joined = joined /\ v.left = (left \/ moot)
      /\ v.stayed = (IF moot THEN {} ELSE w.stayed \cap after)
      /\ v.seen = (IF moot THEN [i \in Id |-> 0] ELSE w.seen)
  BY <1>1, <1>2, <1>3 DEF Touring
<1>7. /\ Extent(v) = Extent(w) /\ Skip(v) = Skip(w) /\ First(v) = First(w)
      /\ Ordered(v) = Ordered(w)
  BY <1>6 DEF Extent, Skip, First, Ordered
<1>8. ASSUME Ordered(w)
      PROVE  /\ v.at >= First(v)
             /\ Covered(stage, v, u) /\ Ahead(stage, v, u) /\ Single(v) /\ Total(stage, v, u)
  <2>0. Upto(stage, v) = Upto(stage, w) /\ Upto(stage, w) \in Nat /\ (Over(stage, v) <=> Over(stage, w))
    BY <1>4, <1>6, <1>7, <1>8, SkipType DEF Upto, Over
  <2>1. Covered(stage, v, u)
    <3> SUFFICES ASSUME Judged(v), NEW i \in v.stayed,
                        Over(stage, v) \/ Rank(u, w.q, i) < Upto(stage, w)
                 PROVE  v.seen[i] > 0
      BY <1>6, <2>0 DEF Covered
    <3>1. ~left /\ ~moot /\ Judged(w) /\ before \subseteq after
      BY <1>5, <1>6 DEF Judged
    <3>2. i \in w.stayed /\ v.seen = w.seen
      BY <1>6, <3>1
    <3>3. Rank(rows, w.q, i) <= Rank(u, w.q, i)
      BY <3>1, RankShrinks DEF before, after
    <3>4. Rank(rows, w.q, i) \in Nat /\ Rank(u, w.q, i) \in Nat
      BY RankType
    <3>5. Over(stage, w) \/ Rank(rows, w.q, i) < Upto(stage, w)
      BY <2>0, <3>3, <3>4
    <3> QED
      BY <1>4, <1>8, <3>1, <3>2, <3>5 DEF Covered
  <2>2. Ahead(stage, v, u)
    <3> SUFFICES ASSUME ~v.joined, stage # "walked", NEW i \in after,
                        Rank(u, w.q, i) >= Upto(stage, w)
                 PROVE  v.seen[i] = 0
      BY <1>6, <2>0 DEF Ahead, after
    <3>1. ~w.joined /\ ~moot /\ after \subseteq before /\ v.seen = w.seen /\ i \in before
      BY <1>5, <1>6
    <3>2. Rank(u, w.q, i) <= Rank(rows, w.q, i)
      BY <3>1, RankShrinks DEF before, after
    <3>3. Rank(rows, w.q, i) \in Nat /\ Rank(u, w.q, i) \in Nat
      BY RankType
    <3>4. Rank(rows, w.q, i) >= Upto(stage, w)
      BY <2>0, <3>2, <3>3
    <3> QED
      BY <1>4, <1>8, <3>1, <3>4 DEF Ahead, before
  <2>3. Single(v)
    BY <1>4, <1>5, <1>6, <1>8 DEF Single
  <2>4. Total(stage, v, u)
    <3> SUFFICES ASSUME stage = "batch", v.last, ~v.left, ~v.joined
                 PROVE  Cardinality(after) <= Skip(w) + Extent(w)
      BY <1>6, <1>7 DEF Total, after
    <3>1. ~w.left /\ ~w.joined /\ before = after /\ w.last
      BY <1>5, <1>6
    <3> QED
      BY <1>4, <1>8, <3>1 DEF Total, before
  <2> QED
    BY <1>4, <1>6, <1>7, <1>8, <2>1, <2>2, <2>3, <2>4
<1>9. v.stayed \subseteq after
  BY <1>6
<1> QED
  BY <1>4, <1>6, <1>7, <1>8, <1>9 DEF Tour, v, after

\* So do a client's statement and its walk, once the statement is in doubt.
LEMMA Onlooker ==
    ASSUME IInv, NEW d \in Client, NEW u, NEW s, (s = stmt[d] /\ u = rows) \/ s = Doubt(stmt[d]),
           NEW w, w = IF walk[d] = None THEN None ELSE Watched(walk[d], u)
    PROVE  /\ s \in Statement \cup {None} /\ w \in Touring \cup {None}
           /\ Sound(pc[d], s, w, conn[d], u)
<1> DEFINE r == stmt[d]
           p == pc[d]
<1>1. /\ Sound(p, r, walk[d], conn[d], rows) /\ r \in Statement \cup {None}
      /\ walk[d] \in Touring \cup {None}
  BY Holding
<1> HIDE DEF r
<1>2. /\ s \in Statement \cup {None} /\ (s = None <=> r = None) /\ (s # None => s.then = r.then)
      /\ r # None => Fit(p, s, u)
  <2>1. CASE s = r /\ u = rows
    BY <1>1, <2>1 DEF Sound
  <2>2. CASE s = Doubt(r) /\ r = None
    BY <2>2 DEF Doubt
  <2>3. CASE s = Doubt(r) /\ r # None
    <3>1. r \in Statement /\ Fit(p, r, rows)
      BY <1>1, <2>3 DEF Sound
    <3>2. /\ s \in Statement /\ ~s.sure /\ s.then = r.then /\ s.kind = r.kind /\ s.q = r.q
          /\ s.name = r.name /\ s.tx = r.tx /\ s.scoped = r.scoped
      BY <2>3, <3>1 DEF Doubt, Statement
    <3>3. Fit(p, s, u)
      BY <3>1, <3>2 DEF Fit
    <3> QED
      BY <2>3, <3>2, <3>3, Records
  <2> QED
    BY <2>1, <2>2, <2>3 DEF r
<1>3. Stage(p, s) = Stage(p, r)
  BY <1>1, <1>2 DEF Stage, Sound
<1>4. w \in Touring \cup {None} /\ (w = None <=> walk[d] = None)
      /\ (w # None => Tour(Stage(p, r), w, u))
  <2>1. CASE walk[d] = None
    BY <2>1
  <2>2. CASE walk[d] # None
    <3>1. walk[d] \in Touring /\ Tour(Stage(p, r), walk[d], rows)
      BY <1>1, <2>2 DEF Sound
    <3> QED
      BY <2>2, <3>1, TourWatched, Records
  <2> QED
    BY <2>1, <2>2
<1> QED
  BY <1>1, <1>2, <1>3, <1>4 DEF Sound

\* Client c publishes a table and goes on without a statement, at p with connection k.
LEMMA Published ==
    ASSUME IInv, NEW c \in Client, NEW u \in Table, Publish(c, u, None), NEW p \in Place,
           pc' = [pc EXCEPT ![c] = p], NEW k \in Conn \cup {None}, conn' = [conn EXCEPT ![c] = k],
           Sound(p, None, walk'[c], k, u)
    PROVE  /\ AllSound' /\ rows' = u /\ pc' \in [Client -> Place]
           /\ conn' \in [Client -> Conn \cup {None}] /\ stmt' \in [Client -> Statement \cup {None}]
           /\ walk' \in [Client -> Touring \cup {None}]
<1>0. pc \in [Client -> Place] /\ conn \in [Client -> Conn \cup {None}]
  BY DEF IInv, Types
<1>1. /\ rows' = u
      /\ walk' = [d \in Client |-> IF walk[d] = None THEN None ELSE Watched(walk[d], u)]
      /\ stmt' = [d \in Client |-> IF d = c THEN None
                                   ELSE IF u = rows THEN stmt[d] ELSE Doubt(stmt[d])]
  BY DEF Publish
<1>2. ASSUME NEW d \in Client
      PROVE  walk'[d] \in Touring \cup {None}
  BY <1>1, Onlooker
<1>3. ASSUME NEW d \in Client, d # c
      PROVE  stmt'[d] \in Statement \cup {None} /\ Sound(pc[d], stmt'[d], walk'[d], conn[d], u)
  <2>1. (stmt'[d] = stmt[d] /\ u = rows) \/ stmt'[d] = Doubt(stmt[d])
    BY <1>1, <1>3
  <2>2. walk'[d] = IF walk[d] = None THEN None ELSE Watched(walk[d], u)
    BY <1>1
  <2> QED
    BY <2>1, <2>2, Onlooker
<1>4. stmt'[c] = None
  BY <1>1
<1>5. ASSUME NEW d \in Client PROVE Sound(pc'[d], stmt'[d], walk'[d], conn'[d], rows')
  <2>1. CASE d = c
    BY <1>0, <1>1, <1>4, <2>1
  <2>2. CASE d # c
    BY <1>0, <1>1, <1>3, <2>2
  <2> QED
    BY <2>1, <2>2
<1>6. stmt' \in [Client -> Statement \cup {None}] /\ walk' \in [Client -> Touring \cup {None}]
  BY <1>1, <1>2, <1>3, <1>4
<1> QED
  BY <1>0, <1>1, <1>5, <1>6 DEF AllSound

\* Client c goes on without publishing anything.
LEMMA Unpublished ==
    ASSUME IInv, NEW c \in Client, NEW p \in Place, pc' = [pc EXCEPT ![c] = p],
           NEW k \in Conn \cup {None}, conn' = [conn EXCEPT ![c] = k],
           stmt' = [stmt EXCEPT ![c] = None], UNCHANGED <<rows, walk>>,
           Sound(p, None, walk[c], k, rows)
    PROVE  /\ AllSound' /\ pc' \in [Client -> Place]
           /\ conn' \in [Client -> Conn \cup {None}] /\ stmt' \in [Client -> Statement \cup {None}]
<1>0. /\ pc \in [Client -> Place] /\ conn \in [Client -> Conn \cup {None}]
      /\ stmt \in [Client -> Statement \cup {None}]
  BY DEF IInv, Types
<1>1. ASSUME NEW d \in Client PROVE Sound(pc'[d], stmt'[d], walk'[d], conn'[d], rows')
  <2>1. CASE d = c
    <3>1. pc'[d] = p /\ stmt'[d] = None /\ walk'[d] = walk[c] /\ conn'[d] = k /\ rows' = rows
      BY <1>0, <2>1
    <3> QED
      BY <3>1
  <2>2. CASE d # c
    <3>1. /\ pc'[d] = pc[d] /\ stmt'[d] = stmt[d] /\ walk'[d] = walk[d] /\ conn'[d] = conn[d]
          /\ rows' = rows
      BY <1>0, <2>2
    <3> QED
      BY <3>1 DEF IInv, AllSound
  <2> QED
    BY <2>1, <2>2
<1> QED
  BY <1>0, <1>1 DEF AllSound

-----------------------------------------------------------------------------
(* Statements and transactions *)

LEMMA ViewType ==
    ASSUME IInv, NEW k
    PROVE  /\ View(k) \in Table
           /\ \A i \in Id : View(k)[i] # None => i < next
<1>1. rows \in Table /\ draft \in [Id -> Draft \cup {None}]
  BY DEF IInv, Types
<1>2. \A i \in Id : View(k)[i] = IF draft[i] # None /\ draft[i].by = k THEN draft[i].row ELSE rows[i]
  BY DEF View
<1>3. ASSUME NEW i \in Id, draft[i] # None PROVE draft[i].row \in Row \cup {None}
  BY <1>1, <1>3 DEF Draft
<1>4. View(k) \in Table
  BY <1>1, <1>3 DEF View, Table
<1> QED
  BY <1>2, <1>4 DEF IInv, Below

\* What an executed statement makes of each row.
LEMMA WrittenType ==
    ASSUME IInv, NEW c \in Client, pc[c] = "write"
    PROVE  /\ Written(c) \in Table
           /\ \A i \in Id : Written(c)[i] # View(Via(c))[i] \/ Written(c)[i] # None =>
                 IF stmt[c].kind = "insert" THEN i < next + 1 ELSE i < next
<1> DEFINE t == View(Via(c))
           s == stmt[c]
           hit == Affected(c)
           new == Written(c)
<1>1. s \in Statement /\ Fit("write", s, rows)
  BY Holding DEF Sound
<1>2. t \in Table /\ \A i \in Id : t[i] # None => i < next
  BY ViewType
<1>3. /\ s.kind \in {"insert", "rename", "trash", "restore", "delete"}
      /\ s.kind \in {"insert", "rename"} => s.name \in Name
  BY <1>1 DEF Statement, Kind, Fit
<1>4. \A i \in hit : i \in Id /\ t[i] # None /\ s.kind # "insert"
  BY DEF Affected, Selected
<1>5. new = [i \in Id |->
                IF s.kind = "insert" /\ i = next THEN [name |-> s.name, trash |-> FALSE]
                ELSE IF i \in hit THEN Changed(t[i], s) ELSE t[i]]
  BY DEF Written
<1>6. next \in Nat
  BY DEF IInv, Types
<1> HIDE DEF t, s, hit, new
<1>7. ASSUME NEW r \in Row, s.kind # "insert" PROVE Changed(r, s) \in Row \cup {None}
  BY <1>3, <1>7 DEF Changed, Row
<1>8. ASSUME NEW i \in Id
      PROVE  /\ new[i] \in Row \cup {None}
             /\ new[i] # t[i] \/ new[i] # None =>
                   IF s.kind = "insert" THEN i < next + 1 ELSE i < next
  <2>0. i \in Int
    BY Ids
  <2>1. CASE s.kind = "insert" /\ i = next
    BY <1>3, <1>5, <1>6, <2>1 DEF Row
  <2>2. CASE ~(s.kind = "insert" /\ i = next) /\ i \in hit
    BY <1>2, <1>4, <1>5, <1>7, <2>2 DEF Table
  <2>3. CASE ~(s.kind = "insert" /\ i = next) /\ i \notin hit
    <3>1. new[i] = t[i] /\ t[i] \in Row \cup {None}
      BY <1>2, <1>5, <2>3 DEF Table
    <3> QED
      BY <1>2, <1>6, <2>0, <3>1
  <2> QED
    BY <2>1, <2>2, <2>3
<1>9. new \in Table
  BY <1>5, <1>8 DEF Table
<1> QED
  BY <1>8, <1>9 DEF new, t, s

LEMMA ExecInv ==
    ASSUME IInv, NEW c \in Client, Exec(c)
    PROVE  IInv'
<1> DEFINE s == stmt[c]
           new == Written(c)
           p == s.then
           hit == Affected(c)
<1>1. /\ pc[c] = "write" /\ next' = (IF s.kind = "insert" THEN next + 1 ELSE next)
      /\ pc' = [pc EXCEPT ![c] = p] /\ conn' = conn /\ body' = body
      /\ leaked' = leaked /\ menu' = menu
  BY DEF Exec, txs
<1>2. IF s.tx
      THEN /\ draft' = [i \in Id |-> IF i \in hit \/ new[i] # View(conn[c])[i]
                                     THEN [by |-> conn[c], row |-> new[i]] ELSE draft[i]]
           /\ stmt' = [stmt EXCEPT ![c] = None] /\ UNCHANGED <<rows, walk>>
      ELSE Publish(c, new, None) /\ UNCHANGED draft
  BY DEF Exec
<1>3. /\ s \in Statement /\ Fit("write", s, rows) /\ Stage("write", s) = p
      /\ conn[c] # None <=> p = "tx"
      /\ walk[c] # None <=> p \in {"count", "batch", "fn", "walked"}
      /\ walk[c] # None => walk[c] \in Touring /\ Tour(p, walk[c], rows)
      /\ conn[c] \in Conn \cup {None}
  BY <1>1, Holding DEF Sound, Stage
<1>4. /\ p \in {"idle", "told", "find", "tx", "count", "batch", "walked"}
      /\ s.tx => p = "tx"
  BY <1>3 DEF Fit
<1>5. /\ new \in Table
      /\ \A i \in Id : new[i] # View(Via(c))[i] \/ new[i] # None =>
            IF s.kind = "insert" THEN i < next + 1 ELSE i < next
  BY <1>1, WrittenType
<1>6. /\ rows \in Table /\ next \in Nat /\ draft \in [Id -> Draft \cup {None}]
      /\ conn \in [Client -> Conn \cup {None}] /\ leaked \subseteq Conn /\ menu \in Menus
      /\ body \in [Client -> Seq(BodyStatement)] /\ walk \in [Client -> Touring \cup {None}]
      /\ [conn EXCEPT ![c] = conn[c]] = conn
  BY DEF IInv, Types
<1>7. /\ Via(c) = IF s.tx THEN conn[c] ELSE None
      /\ next' \in Nat /\ next' >= next
      /\ next' = IF s.kind = "insert" THEN next + 1 ELSE next
  <2>1. Via(c) = IF s.tx THEN conn[c] ELSE None
    BY DEF Via
  <2> HIDE DEF s
  <2> QED
    BY <1>1, <1>6, <2>1
<1>0. \A i \in hit : i \in Id /\ View(Via(c))[i] # None
  BY DEF Affected, Selected
<1>a. \A i \in hit : i < next
  BY <1>0, ViewType
<1> HIDE DEF s, new, p, hit
<1>8. \A i \in Id : i \in Int
  BY Ids
<1>9. \A i \in Id : new[i] # View(Via(c))[i] \/ new[i] # None => i < next'
  BY <1>5, <1>7
<1>10. \A i \in Id : rows[i] # None \/ draft[i] # None => i < next'
  BY <1>6, <1>7, <1>8 DEF IInv, Below
<1>11. p \in Place
  BY <1>4 DEF Place
<1>12. CASE s.tx
  <2>1. /\ draft' = [i \in Id |-> IF i \in hit \/ new[i] # View(conn[c])[i]
                                  THEN [by |-> conn[c], row |-> new[i]] ELSE draft[i]]
        /\ stmt' = [stmt EXCEPT ![c] = None] /\ rows' = rows /\ walk' = walk
    BY <1>2, <1>12
  <2>2. p = "tx" /\ conn[c] \in Conn /\ walk[c] = None /\ conn[c] # None
    BY <1>3, <1>4, <1>12
  <2>3. Sound(p, None, walk[c], conn[c], rows)
    BY <2>2 DEF Sound, Stage
  <2>4. /\ AllSound' /\ pc' \in [Client -> Place] /\ conn' \in [Client -> Conn \cup {None}]
        /\ stmt' \in [Client -> Statement \cup {None}]
    BY <1>1, <1>3, <1>6, <1>11, <2>1, <2>3, Unpublished
  <2>5. draft' \in [Id -> Draft \cup {None}]
    <3>1. \A i \in Id : new[i] \in Row \cup {None}
      BY <1>5 DEF Table
    <3>2. ASSUME NEW r \in Row \cup {None} PROVE [by |-> conn[c], row |-> r] \in Draft
      BY <2>2 DEF Draft
    <3> QED
      BY <1>6, <2>1, <3>1, <3>2
  <2>6. Types'
    BY <1>1, <1>6, <1>7, <2>1, <2>4, <2>5 DEF Types
  <2>7. Pool'
    <3>1. ASSUME NEW i \in Id, draft'[i] # None
          PROVE  draft'[i].by \in leaked \/ \E d \in Client : draft'[i].by = conn[d]
      <4>1. CASE i \in hit \/ new[i] # View(conn[c])[i]
        BY <2>1, <4>1
      <4>2. CASE ~(i \in hit \/ new[i] # View(conn[c])[i])
        BY <2>1, <3>1, <4>2 DEF IInv, Pool
      <4> QED
        BY <4>1, <4>2
    <3>2. \A d \in Client : conn[d] # None =>
             conn[d] \notin leaked /\ \A e \in Client \ {d} : conn[e] # conn[d]
      BY DEF IInv, Pool
    <3> QED
      BY <1>1, <3>1, <3>2 DEF Pool
  <2>8. Below'
    <3>1. ASSUME NEW i \in Id, draft'[i] # None PROVE i < next'
      <4>1. CASE i \in hit
        BY <1>a, <1>6, <1>7, <1>8, <4>1
      <4>2. CASE i \notin hit
        BY <1>7, <1>9, <1>10, <1>12, <2>1, <3>1, <4>2
      <4> QED
        BY <4>1, <4>2
    <3> QED
      BY <1>10, <2>1, <3>1 DEF Below
  <2> QED
    BY <2>4, <2>6, <2>7, <2>8 DEF IInv
<1>13. CASE ~s.tx
  <2>1. Publish(c, new, None) /\ draft' = draft
    BY <1>2, <1>13
  <2>2. walk'[c] = IF walk[c] = None THEN None ELSE Watched(walk[c], new)
    BY <2>1 DEF Publish
  <2>3. walk'[c] # None => walk[c] # None /\ Tour(p, walk'[c], new)
    BY <1>3, <2>2, TourWatched
  <2>4. walk[c] # None => walk'[c] # None
    BY <1>3, <2>2, TourWatched, Records
  <2>5. Sound(p, None, walk'[c], conn[c], new)
    BY <1>3, <1>4, <2>3, <2>4 DEF Sound, Stage
  <2>6. /\ AllSound' /\ rows' = new /\ pc' \in [Client -> Place]
        /\ conn' \in [Client -> Conn \cup {None}] /\ stmt' \in [Client -> Statement \cup {None}]
        /\ walk' \in [Client -> Touring \cup {None}]
    BY <1>1, <1>3, <1>5, <1>6, <1>11, <2>1, <2>5, Published
  <2>7. Types'
    BY <1>1, <1>5, <1>6, <1>7, <2>1, <2>6 DEF Types
  <2>8. Pool'
    BY <1>1, <2>1 DEF IInv, Pool
  <2>9. Below'
    BY <1>9, <1>10, <2>1, <2>6 DEF Below
  <2> QED
    BY <2>6, <2>7, <2>8, <2>9 DEF IInv
<1> QED
  BY <1>12, <1>13

LEMMA CallTransactionInv ==
    ASSUME IInv, NEW c \in Client, CallTransaction(c)
    PROVE  IInv'
<1>1. pc[c] = "idle" /\ pc' = [pc EXCEPT ![c] = "begin"] /\ UNCHANGED <<data, stmt, walk, txs>>
  BY DEF CallTransaction, May
<1>2. /\ stmt[c] = None /\ walk[c] = None /\ conn[c] = None
      /\ stmt = [stmt EXCEPT ![c] = None] /\ walk = [walk EXCEPT ![c] = None]
      /\ body \in [Client -> Seq(BodyStatement)]
  BY <1>1, Holding DEF Sound, Stage
<1>3. Sound("begin", None, None, conn[c], rows)
  BY <1>2 DEF Sound, Stage
<1>4. Aside(c, "begin", None, None)
  BY <1>1, <1>2, <1>3 DEF Aside, Place, data, txs
<1> QED
  BY <1>4, AsideInv

LEMMA BeginInv ==
    ASSUME IInv, NEW c \in Client, Begin(c)
    PROVE  IInv'
<1> DEFINE k == CHOOSE x \in Free : TRUE
<1>1. /\ pc[c] = "begin" /\ Free # {} /\ conn' = [conn EXCEPT ![c] = k]
      /\ pc' = [pc EXCEPT ![c] = "tx"] /\ UNCHANGED <<data, stmt, walk, leaked, menu>>
  BY DEF Begin
<1>2. PICK b \in Bodies : body' = [body EXCEPT ![c] = b]
  BY DEF Begin
<1>3. k \in Free
  BY <1>1
<1>4. stmt[c] = None /\ walk[c] = None /\ conn[c] = None
  BY <1>1, Holding DEF Sound, Stage
<1> HIDE DEF k
<1>5. k \in Conn /\ k # None /\ k \notin leaked /\ \A d \in Client : conn[d] # k
  BY <1>3, RecordsOK DEF Free
<1>6. /\ rows \in Table /\ next \in Nat /\ draft \in [Id -> Draft \cup {None}]
      /\ conn \in [Client -> Conn \cup {None}] /\ leaked \subseteq Conn /\ menu \in Menus
      /\ body \in [Client -> Seq(BodyStatement)] /\ walk \in [Client -> Touring \cup {None}]
      /\ [stmt EXCEPT ![c] = stmt[c]] = stmt
  BY DEF IInv, Types
<1>7. b \in Seq(BodyStatement)
  BY RecordsOK
<1>8. Sound("tx", None, walk[c], k, rows)
  BY <1>4, <1>5 DEF Sound, Stage
<1>9. /\ AllSound' /\ pc' \in [Client -> Place] /\ conn' \in [Client -> Conn \cup {None}]
      /\ stmt' \in [Client -> Statement \cup {None}]
  <2>1. stmt' = [stmt EXCEPT ![c] = None] /\ UNCHANGED <<rows, walk>> /\ "tx" \in Place
    BY <1>1, <1>4, <1>6 DEF data, Place
  <2> QED
    BY <1>1, <1>5, <1>8, <2>1, Unpublished
<1>10. Types'
  BY <1>1, <1>2, <1>6, <1>7, <1>9 DEF Types, data
<1>11. Pool'
  <2>1. \A d \in Client : conn'[d] = IF d = c THEN k ELSE conn[d]
    BY <1>1, <1>6
  <2>2. ASSUME NEW d \in Client, conn'[d] # None
        PROVE  conn'[d] \notin leaked /\ \A e \in Client \ {d} : conn'[e] # conn'[d]
    BY <1>5, <2>1, <2>2 DEF IInv, Pool
  <2>3. ASSUME NEW i \in Id, draft[i] # None
        PROVE  draft[i].by \in leaked \/ \E d \in Client : draft[i].by = conn'[d]
    <3>1. CASE draft[i].by \in leaked
      BY <3>1
    <3>2. CASE draft[i].by \notin leaked
      <4>1. PICK d \in Client : draft[i].by = conn[d]
        BY <2>3, <3>2 DEF IInv, Pool
      <4>2. draft[i].by # None
        BY <1>6, <2>3, RecordsOK DEF Draft
      <4> QED
        BY <1>4, <2>1, <4>1, <4>2
    <3> QED
      BY <3>1, <3>2
  <2> QED
    BY <1>1, <2>2, <2>3 DEF Pool, data
<1>12. Below'
  BY <1>1 DEF IInv, Below, data
<1> QED
  BY <1>9, <1>10, <1>11, <1>12 DEF IInv

\* A client at the end of its transaction.
LEMMA Ending ==
    ASSUME IInv, NEW c \in Client, TxEnds(c)
    PROVE  /\ stmt[c] = None /\ walk[c] = None /\ conn[c] \in Conn /\ conn[c] # None
           /\ [stmt EXCEPT ![c] = None] = stmt
           /\ pc' = [pc EXCEPT ![c] = "idle"] /\ conn' = [conn EXCEPT ![c] = None]
           /\ body' \in [Client -> Seq(BodyStatement)] /\ next' = next /\ menu' = menu
           /\ rows \in Table /\ next \in Nat /\ draft \in [Id -> Draft \cup {None}]
           /\ leaked \subseteq Conn /\ menu \in Menus
           /\ walk \in [Client -> Touring \cup {None}]
           /\ "idle" \in Place /\ None \in Conn \cup {None}
           /\ \A t : Sound("idle", None, None, None, t)
           /\ \A d \in Client : conn'[d] # None =>
                 /\ conn'[d] = conn[d] /\ conn[d] \notin leaked /\ conn[d] # conn[c]
                 /\ \A e \in Client \ {d} : conn'[e] # conn'[d]
           /\ \A i \in Id : draft[i] # None =>
                 draft[i].by \in leaked \cup {conn[c]} \/ \E d \in Client : draft[i].by = conn'[d]
<1>1. /\ pc[c] = "tx" /\ pc' = [pc EXCEPT ![c] = "idle"] /\ conn' = [conn EXCEPT ![c] = None]
      /\ body' = [body EXCEPT ![c] = <<>>] /\ next' = next /\ menu' = menu
  BY DEF TxEnds
<1>2. /\ Sound("tx", stmt[c], walk[c], conn[c], rows) /\ conn[c] \in Conn \cup {None}
      /\ [stmt EXCEPT ![c] = stmt[c]] = stmt
  BY <1>1, Holding
<1>3. /\ stmt[c] = None /\ walk[c] = None /\ conn[c] # None /\ conn[c] \in Conn
      /\ [stmt EXCEPT ![c] = None] = stmt
  BY <1>2 DEF Sound, Stage
<1>4. /\ rows \in Table /\ next \in Nat /\ draft \in [Id -> Draft \cup {None}]
      /\ leaked \subseteq Conn /\ menu \in Menus /\ conn \in [Client -> Conn \cup {None}]
      /\ walk \in [Client -> Touring \cup {None}] /\ body \in [Client -> Seq(BodyStatement)]
  BY DEF IInv, Types
<1>5. body' \in [Client -> Seq(BodyStatement)]
  BY <1>1, <1>4, EmptySeq
<1>6. \A t : Sound("idle", None, None, None, t)
  BY DEF Sound, Stage
<1>7. \A d \in Client : conn'[d] = IF d = c THEN None ELSE conn[d]
  BY <1>1, <1>4
<1>8. ASSUME NEW d \in Client, conn'[d] # None
      PROVE  /\ conn'[d] = conn[d] /\ conn[d] \notin leaked /\ conn[d] # conn[c]
             /\ \A e \in Client \ {d} : conn'[e] # conn'[d]
  <2>1. d # c /\ conn'[d] = conn[d]
    BY <1>7, <1>8
  <2>2. conn[d] \notin leaked /\ \A e \in Client \ {d} : conn[e] # conn[d]
    BY <1>8, <2>1 DEF IInv, Pool
  <2> QED
    BY <1>7, <1>8, <2>1, <2>2
<1>9. ASSUME NEW i \in Id, draft[i] # None
      PROVE  draft[i].by \in leaked \cup {conn[c]} \/ \E d \in Client : draft[i].by = conn'[d]
  <2>1. draft[i].by \in leaked \/ \E d \in Client : draft[i].by = conn[d]
    BY <1>9 DEF IInv, Pool
  <2> QED
    BY <1>7, <2>1
<1>10. "idle" \in Place
  BY DEF Place
<1> QED
  BY <1>1, <1>3, <1>4, <1>5, <1>6, <1>8, <1>9, <1>10

LEMMA DiscardedType ==
    ASSUME IInv, NEW k
    PROVE  /\ Discarded(k) \in [Id -> Draft \cup {None}]
           /\ \A i \in Id : Discarded(k)[i] # None =>
                 Discarded(k)[i] = draft[i] /\ draft[i] # None /\ draft[i].by # k
  BY DEF IInv, Types, Discarded

LEMMA FailInv ==
    ASSUME IInv, NEW c \in Client, Fail(c)
    PROVE  IInv'
<1>1. body \in [Client -> Seq(BodyStatement)]
  BY Holding
<1>2. Sound(Failed(c), None, None, conn[c], rows) /\ Failed(c) \in {"tx", "idle"}
  BY DEF Sound, Stage, Failed
<1>3. CASE draft' = draft
  <2>1. Aside(c, Failed(c), None, None)
    BY <1>1, <1>2, <1>3 DEF Aside, Fail, Place, txs
  <2> QED
    BY <2>1, AsideInv
<1>4. CASE draft' = Discarded(conn[c])
  <2>1. /\ pc' = [pc EXCEPT ![c] = Failed(c)] /\ stmt' = [stmt EXCEPT ![c] = None]
        /\ walk' = [walk EXCEPT ![c] = None] /\ UNCHANGED <<rows, next, conn, body, leaked, menu>>
    BY DEF Fail, txs
  <2>2. /\ Discarded(conn[c]) \in [Id -> Draft \cup {None}]
        /\ \A i \in Id : Discarded(conn[c])[i] # None =>
              Discarded(conn[c])[i] = draft[i] /\ draft[i] # None
    BY DiscardedType
  <2>3. Types'
    BY <1>2, <1>4, <2>1, <2>2 DEF IInv, Types, Place
  <2>4. Pool' /\ Below'
    BY <1>4, <2>1, <2>2 DEF IInv, Pool, Below
  <2>5. AllSound'
    <3> SUFFICES ASSUME NEW d \in Client
                 PROVE  Sound(pc'[d], stmt'[d], walk'[d], conn'[d], rows')
      BY DEF AllSound
    <3>1. CASE d = c
      BY <1>2, <2>1, <3>1 DEF IInv, Types
    <3>2. CASE d # c
      <4>1. pc'[d] = pc[d] /\ stmt'[d] = stmt[d] /\ walk'[d] = walk[d]
        BY <2>1, <3>2 DEF IInv, Types
      <4> QED
        BY <2>1, <4>1 DEF IInv, AllSound
    <3> QED
      BY <3>1, <3>2
  <2> QED
    BY <2>3, <2>4, <2>5 DEF IInv
<1> QED
  BY <1>3, <1>4 DEF Fail

LEMMA CommitInv ==
    ASSUME IInv, NEW c \in Client, Commit(c)
    PROVE  IInv'
<1> DEFINE u == View(conn[c])
           rest == Discarded(conn[c])
<1>1. TxEnds(c) /\ Publish(c, u, None) /\ draft' = rest /\ leaked' = leaked
  BY DEF Commit
<1>2. u \in Table /\ \A i \in Id : u[i] # None => i < next
  BY ViewType
<1>3. /\ rest \in [Id -> Draft \cup {None}]
      /\ \A i \in Id : rest[i] # None => rest[i] = draft[i] /\ draft[i] # None /\ draft[i].by # conn[c]
  BY DiscardedType
<1>4. walk'[c] = None
  BY <1>1, Ending DEF Publish
<1> HIDE DEF u, rest
<1>5. /\ AllSound' /\ rows' = u /\ pc' \in [Client -> Place]
      /\ conn' \in [Client -> Conn \cup {None}] /\ stmt' \in [Client -> Statement \cup {None}]
      /\ walk' \in [Client -> Touring \cup {None}]
  BY <1>1, <1>2, <1>4, Ending, Published
<1>6. Types'
  BY <1>1, <1>2, <1>3, <1>5, Ending DEF Types
<1>7. Pool'
  BY <1>1, <1>3, Ending DEF Pool
<1>8. Below'
  <2>1. next' = next
    BY <1>1, Ending
  <2> QED
    BY <1>1, <1>2, <1>3, <1>5, <2>1 DEF IInv, Below
<1> QED
  BY <1>5, <1>6, <1>7, <1>8 DEF IInv

LEMMA RollbackInv ==
    ASSUME IInv, NEW c \in Client, Rollback(c)
    PROVE  IInv'
<1> DEFINE rest == Discarded(conn[c])
<1>1. TxEnds(c) /\ draft' = rest /\ rows' = rows /\ stmt' = stmt /\ walk' = walk /\ leaked' = leaked
  BY DEF Rollback
<1>2. /\ rest \in [Id -> Draft \cup {None}]
      /\ \A i \in Id : rest[i] # None => rest[i] = draft[i] /\ draft[i] # None /\ draft[i].by # conn[c]
  BY DiscardedType
<1> HIDE DEF rest
<1>3. /\ AllSound' /\ pc' \in [Client -> Place]
      /\ conn' \in [Client -> Conn \cup {None}] /\ stmt' \in [Client -> Statement \cup {None}]
  <2>1. /\ Sound("idle", None, walk[c], None, rows) /\ stmt' = [stmt EXCEPT ![c] = None]
        /\ "idle" \in Place /\ None \in Conn \cup {None}
        /\ pc' = [pc EXCEPT ![c] = "idle"] /\ conn' = [conn EXCEPT ![c] = None]
        /\ UNCHANGED <<rows, walk>>
    BY <1>1, Ending
  <2> QED
    BY <2>1, Unpublished
<1>4. Types'
  BY <1>1, <1>2, <1>3, Ending DEF Types
<1>5. Pool'
  <2>1. \A d \in Client : conn'[d] # None =>
           conn'[d] \notin leaked /\ \A e \in Client \ {d} : conn'[e] # conn'[d]
    BY <1>1, Ending
  <2>2. \A i \in Id : rest[i] # None =>
           rest[i].by \in leaked \/ \E d \in Client : rest[i].by = conn'[d]
    <3> SUFFICES ASSUME NEW i \in Id, rest[i] # None
                 PROVE  rest[i].by \in leaked \/ \E d \in Client : rest[i].by = conn'[d]
      OBVIOUS
    <3>1. rest[i] = draft[i] /\ draft[i] # None /\ draft[i].by # conn[c]
      BY <1>2
    <3>2. draft[i].by \in leaked \cup {conn[c]} \/ \E d \in Client : draft[i].by = conn'[d]
      BY <1>1, <3>1, Ending
    <3> QED
      BY <3>1, <3>2
  <2> QED
    BY <1>1, <2>1, <2>2 DEF Pool
<1>6. Below'
  <2>1. next' = next
    BY <1>1, Ending
  <2> QED
    BY <1>1, <1>2, <2>1 DEF IInv, Below
<1> QED
  BY <1>3, <1>4, <1>5, <1>6 DEF IInv

LEMMA FnPanicsInv ==
    ASSUME IInv, NEW c \in Client, FnPanics(c)
    PROVE  IInv'
<1>1. /\ TxEnds(c) /\ draft' = draft /\ rows' = rows /\ stmt' = stmt /\ walk' = walk
      /\ leaked' = leaked \cup {conn[c]}
  BY DEF FnPanics
<1>2. /\ AllSound' /\ pc' \in [Client -> Place]
      /\ conn' \in [Client -> Conn \cup {None}] /\ stmt' \in [Client -> Statement \cup {None}]
  <2>1. /\ Sound("idle", None, walk[c], None, rows) /\ stmt' = [stmt EXCEPT ![c] = None]
        /\ "idle" \in Place /\ None \in Conn \cup {None}
        /\ pc' = [pc EXCEPT ![c] = "idle"] /\ conn' = [conn EXCEPT ![c] = None]
        /\ UNCHANGED <<rows, walk>>
    BY <1>1, Ending
  <2> QED
    BY <2>1, Unpublished
<1>3. Types'
  BY <1>1, <1>2, Ending DEF Types
<1>4. Pool'
  BY <1>1, Ending DEF Pool
<1>5. Below'
  <2>1. next' = next
    BY <1>1, Ending
  <2> QED
    BY <1>1, <2>1 DEF IInv, Below
<1> QED
  BY <1>2, <1>3, <1>4, <1>5 DEF IInv

-----------------------------------------------------------------------------
(* The theorems *)

LEMMA StepInv ==
    ASSUME IInv, [Next]_vars
    PROVE  IInv'
<1>1. ASSUME UNCHANGED vars PROVE IInv'
  BY <1>1 DEF IInv, Types, Pool, Below, AllSound, vars, data, txs
<1>2. ASSUME NEW c \in Client, Calls(c) PROVE IInv'
  <2>1. CASE \/ CallCreate(c) \/ CallSave(c) \/ CallDelete(c) \/ CallDestroy(c)
             \/ CallRestore(c) \/ CallAtEnd(c)
    BY <2>1, AsksInv
  <2>2. CASE CallHooked(c)
    BY <2>2, CallHookedInv
  <2>3. CASE CallWalk(c)
    BY <2>3, CallWalkInv
  <2>4. CASE \E n \in Name : CallFirstOrCreate(c, n)
    BY <2>4, CallFirstInv
  <2>5. CASE \E n, m \in Name : CallUpdateOrCreate(c, n, m)
    BY <2>5, CallUpdateInv
  <2>6. CASE CallTransaction(c)
    BY <2>6, CallTransactionInv
  <2> QED
    BY <1>2, <2>1, <2>2, <2>3, <2>4, <2>5, <2>6 DEF Calls
<1>3. ASSUME NEW c \in Client, Step(c) PROVE IInv'
  <2>1. CASE BeforeHooks(c)
    BY <2>1, BeforeHooksInv
  <2>2. CASE AfterHooks(c) \/ Find(c)
    BY <2>2, DoneInv
  <2>3. CASE Look(c)
    BY <2>3, LookInv
  <2>4. CASE CountRows(c)
    BY <2>4, CountRowsInv
  <2>5. CASE Batch(c)
    BY <2>5, BatchInv
  <2>6. CASE FnReturns(c)
    BY <2>6, FnReturnsInv
  <2>7. CASE WalkOver(c)
    BY <2>7, WalkOverInv
  <2>8. CASE Begin(c)
    BY <2>8, BeginInv
  <2> QED
    BY <1>3, <2>1, <2>2, <2>3, <2>4, <2>5, <2>6, <2>7, <2>8 DEF Step
<1>4. ASSUME NEW c \in Client, \/ Exec(c) \/ Fail(c) \/ FnDestroys(c) \/ TxSend(c)
                               \/ Commit(c) \/ Rollback(c) \/ FnPanics(c)
      PROVE  IInv'
  <2>1. CASE Exec(c)
    BY <2>1, ExecInv
  <2>2. CASE Fail(c)
    BY <2>2, FailInv
  <2>3. CASE FnDestroys(c)
    BY <2>3, FnDestroysInv
  <2>4. CASE TxSend(c)
    BY <2>4, TxSendInv
  <2>5. CASE Commit(c)
    BY <2>5, CommitInv
  <2>6. CASE Rollback(c)
    BY <2>6, RollbackInv
  <2>7. CASE FnPanics(c)
    BY <2>7, FnPanicsInv
  <2> QED
    BY <1>4, <2>1, <2>2, <2>3, <2>4, <2>5, <2>6, <2>7
<1> QED
  BY <1>1, <1>2, <1>3, <1>4 DEF Next

LEMMA Invariance == Spec => []IInv
  BY InitInv, StepInv, PTL DEF Spec

\* Every variable has its type, a client holds a statement, a walk and a
\* connection exactly when its place says so, and no two transactions share one.
THEOREM TypeCorrect == Spec => []TypeOK
  BY Invariance, InvTypes, PTL

\* Chunk and pages in a definite order (query.go:252) show every row that was
\* there throughout, and none twice, as far as the pages could shift.
THEOREM WalkShowsAll == Spec => []WalkCovers
<1>1. IInv => WalkCovers
  <2> SUFFICES ASSUME IInv, NEW c \in Client, pc[c] = "walked", walk[c].q.orderBy # "",
                      walk[c].size > 0 \/ walk[c].mode = "pages"
               PROVE  LET w == walk[c] IN
                      /\ ~w.left /\ (~w.joined \/ w.mode = "chunk") => \A i \in w.stayed : w.seen[i] > 0
                      /\ ~w.joined => \A i \in Id : w.seen[i] < 2
    BY DEF WalkCovers
  <2> DEFINE w == walk[c]
  <2>1. w \in Touring /\ Tour("walked", w, rows)
    BY OnTheWay
  <2>2. w.q.orderBy # "" /\ (w.size > 0 \/ w.mode = "pages")
    OBVIOUS
  <2> HIDE DEF w
  <2>3. w.q \in Query
    BY <2>1 DEF Touring
  <2>4. Ordered(w)
    BY <2>2, <2>3 DEF Ordered, Sorted, Query
  <2>5. Covered("walked", w, rows) /\ Single(w)
    BY <2>1, <2>4 DEF Tour
  <2>6. /\ ~w.left /\ (~w.joined \/ w.mode = "chunk") => \A i \in w.stayed : w.seen[i] > 0
        /\ ~w.joined => \A i \in Id : w.seen[i] < 2
    BY <2>5 DEF Covered, Judged, Over, Single
  <2> QED
    BY <2>6 DEF w
<1> QED
  BY <1>1, Invariance, PTL

\* FirstOrCreate and UpdateOrCreate (model.go:204-266) insert although a row
\* matches only when something was committed since the lookup, or it failed.
THEOREM NothingFoundNothingThere == Spec => NoLateDuplicate
<1>1. ASSUME IInv, NEW c \in Client, pc[c] = "write", stmt[c].sure
      PROVE  Selected(rows, stmt[c].q) = {}
  BY <1>1, Holding DEF Sound, Fit
<1>2. IInv => \A c \in Client :
          pc[c] = "write" /\ pc'[c] = "find" /\ stmt[c].kind = "insert" /\ stmt[c].sure
             => Selected(rows, stmt[c].q) = {}
  BY <1>1
<1>3. IInv /\ [Next]_vars => [\A c \in Client :
          pc[c] = "write" /\ pc'[c] = "find" /\ stmt[c].kind = "insert" /\ stmt[c].sure
             => Selected(rows, stmt[c].q) = {}]_vars
  BY <1>2
<1> QED
  BY <1>3, Invariance, PTL DEF Spec, NoLateDuplicate

\* What client d may do.
Act(d) ==
    \/ Calls(d) \/ Step(d) \/ Exec(d) \/ Fail(d) \/ FnDestroys(d)
    \/ TxSend(d) \/ Commit(d) \/ Rollback(d) \/ FnPanics(d)

\* A client moves only itself.
LEMMA OwnPlace ==
    ASSUME IInv, NEW d \in Client, Act(d), NEW c \in Client, c # d
    PROVE  pc'[c] = pc[c]
<1>0. pc \in [Client -> Place]
  BY DEF IInv, Types
<1>1. SUFFICES \E p : pc' = [pc EXCEPT ![d] = p]
  BY <1>0
<1>2. CASE Calls(d)
  BY <1>2 DEF Calls, CallCreate, CallSave, CallDelete, CallDestroy, CallRestore, CallAtEnd, Ask,
              Send, CallHooked, CallWalk, CallFirstOrCreate, CallUpdateOrCreate,
              CallTransaction
<1>3. CASE Step(d)
  BY <1>3 DEF Step, BeforeHooks, AfterHooks, Look, Find, CountRows, Batch, FnReturns, WalkOver,
              Begin
<1>4. CASE Exec(d) \/ Fail(d) \/ FnDestroys(d) \/ TxSend(d)
  BY <1>4 DEF Exec, Fail, FnDestroys, TxSend, Send
<1>5. CASE Commit(d) \/ Rollback(d) \/ FnPanics(d)
  BY <1>5 DEF Commit, Rollback, FnPanics, TxEnds
<1> QED
  BY <1>2, <1>3, <1>4, <1>5 DEF Act

\* From "write" a client goes on by executing its statement, or the table stays.
LEMMA FromWrite ==
    ASSUME IInv, NEW c \in Client, Act(c), pc[c] = "write"
    PROVE  Exec(c) \/ rows' = rows
<1>1. ~Calls(c)
  BY DEF Calls, CallCreate, CallSave, CallDelete, CallDestroy, CallRestore, CallAtEnd,
         CallHooked, CallWalk, CallFirstOrCreate, CallUpdateOrCreate, CallTransaction,
         May
<1>2. ~Step(c)
  BY DEF Step, BeforeHooks, AfterHooks, Look, Find, CountRows, Batch, FnReturns, WalkOver,
              Begin
<1>3. ~FnDestroys(c) /\ ~TxSend(c) /\ ~Commit(c) /\ ~Rollback(c) /\ ~FnPanics(c)
  BY DEF FnDestroys, TxSend, Commit, Rollback, FnPanics, TxEnds
<1>4. Fail(c) => rows' = rows
  BY DEF Fail, data
<1> QED
  BY <1>1, <1>2, <1>3, <1>4 DEF Act

\* What is shown is shown by Batch.
LEMMA FromBatch ==
    ASSUME IInv, NEW c \in Client, Act(c), pc[c] = "batch", pc'[c] = "fn"
    PROVE  Batch(c)
<1>0. pc \in [Client -> Place]
  BY DEF IInv, Types
<1>1. ~Calls(c)
  BY DEF Calls, CallCreate, CallSave, CallDelete, CallDestroy, CallRestore, CallAtEnd,
         CallHooked, CallWalk, CallFirstOrCreate, CallUpdateOrCreate, CallTransaction,
         May
<1>2. Step(c) => Batch(c)
  BY DEF Step, BeforeHooks, AfterHooks, Look, Find, CountRows, FnReturns, WalkOver, Begin
<1>3. ~FnDestroys(c) /\ ~TxSend(c) /\ ~Commit(c) /\ ~Rollback(c) /\ ~FnPanics(c) /\ ~Exec(c)
  BY DEF FnDestroys, TxSend, Commit, Rollback, FnPanics, TxEnds, Exec
<1>4. ~Fail(c)
  BY <1>0 DEF Fail, Failed
<1> QED
  BY <1>1, <1>2, <1>3, <1>4 DEF Act

Null(w)       == w.op = "IS NULL"
NoOr(q)       == \A w \in Range(q.wheres) : ~w.or
Trashed(t, i) == t[i].trash

\* With the scope and no OR, a row in the trash is not selected.
LEMMA ScopeExcludes ==
    ASSUME NEW q \in Query, Scope(q), NoOr(q), NEW t, NEW i, Trashed(t, i)
    PROVE  i \notin Selected(t, q)
<1> DEFINE ws == q.wheres
<1>1. ws \in Seq(Conditions)
  BY DEF Query
<1>2. PICK p \in DOMAIN ws : Null(ws[p])
  BY Zenon DEF Scope, Null
<1>3. \A d \in DOMAIN ws : ~ws[d].or
  BY Zenon DEF Range, NoOr
<1> HIDE DEF ws
<1>4. DOMAIN ws = 1..Len(ws) /\ Len(ws) \in Nat /\ ws # <<>>
  <2>1. DOMAIN ws = 1..Len(ws) /\ Len(ws) \in Nat
    BY <1>1, LenProperties
  <2>2. Len(ws) # 0
    BY <1>2, <2>1
  <2>3. ws # <<>>
    BY <2>2, EmptySeq
  <2> QED
    BY <2>1, <2>3
<1>5. SUFFICES ASSUME Matches(t, i, ws) PROVE FALSE
  BY DEF Selected, ws
<1>6. PICK a \in DOMAIN ws :
        /\ a = 1 \/ ws[a].or
        /\ \A b \in a..Len(ws) :
              (\E d \in (a + 1)..b : ws[d].or) \/ Satisfies(t, i, ws[b])
  BY <1>4, <1>5 DEF Matches
<1>7. a = 1
  BY <1>3, <1>6
<1>8. p \in a..Len(ws)
  BY <1>2, <1>4, <1>7
<1>9. ~\E d \in (a + 1)..p : ws[d].or
  <2>1. \A d \in (a + 1)..p : d \in DOMAIN ws
    BY <1>4, <1>7, <1>8
  <2> QED
    BY <1>3, <2>1
<1>10. Satisfies(t, i, ws[p])
  BY <1>6, <1>8, <1>9
<1>11. \A w : Null(w) /\ Satisfies(t, i, w) => ~Trashed(t, i)
  BY Zenon DEF Satisfies, Null, Trashed
<1> QED
  BY <1>2, <1>10, <1>11

LEMMA TrashKept ==
    ASSUME IInv, SoftDelete, NEW c \in Client, NEW i \in Id, rows[i] # None, rows[i].trash,
           Exec(c), ~stmt[c].tx, Confined(stmt[c])
    PROVE  rows'[i] = rows[i]
<1> DEFINE s == stmt[c]
           t == View(Via(c))
<1>1. s \in Statement /\ Scope(s.q)
  BY Holding DEF Exec, Sound, Fit, Confined
<1>2. rows' = Written(c)
  BY DEF Exec, Publish
<1>3. t[i] = rows[i]
  <2>1. Via(c) = None
    BY DEF Via
  <2>2. draft[i] # None => draft[i].by # None
    BY RecordsOK DEF IInv, Types, Draft
  <2> QED
    BY <2>1, <2>2 DEF View
<1>4. s.kind = "insert" => i # next
  BY Ids DEF IInv, Types, Below
<1>5. i \notin Affected(c)
  <2>1. s.q \in Query /\ \A w \in Range(s.q.wheres) : ~w.or
    BY <1>1 DEF Statement, Confined
  <2>3. NoOr(s.q) /\ Trashed(t, i)
    BY <1>3, <2>1, Zenon DEF NoOr, Trashed
  <2>2. i \notin Selected(t, s.q)
    BY <2>3, <1>1, <1>3, <2>1, ScopeExcludes
  <2> QED
    BY <2>2 DEF Affected
<1>6. Written(c)[i] = t[i]
  <2>1. Written(c) = [j \in Id |->
           IF s.kind = "insert" /\ j = next THEN [name |-> s.name, trash |-> FALSE]
           ELSE IF j \in Affected(c) THEN Changed(t[j], s) ELSE t[j]]
    BY DEF Written
  <2> HIDE DEF t, s
  <2> QED
    BY <1>4, <1>5, <2>1
<1> QED
  BY <1>2, <1>3, <1>6

LEMMA TrashUnseen ==
    ASSUME IInv, SoftDelete, NEW c \in Client, NEW i \in Id, rows[i] # None, rows[i].trash,
           Batch(c), Confined(walk[c])
    PROVE  walk'[c].seen[i] = walk[c].seen[i]
<1> DEFINE w == walk[c]
<1>1. /\ w \in Touring /\ Tour("batch", w, rows) /\ walk \in [Client -> Touring \cup {None}]
  BY OnTheWay DEF Batch
<1>2. PICK a \in Answers(rows, QueryOf(w)) :
          \/ UNCHANGED walk
          \/ walk' = [walk EXCEPT
                     ![c].seen = Shown(w, ToSet(a)),
                     ![c].last = IF w.mode = "chunk" THEN Len(a) < w.size ELSE @]
  BY DEF Batch
<1>3. w.q \in Query /\ Scope(w.q) /\ \A x \in Range(w.q.wheres) : ~x.or
  BY <1>1 DEF Touring, Tour, Confined
<1> HIDE DEF w
<1>4. i \notin ToSet(a)
  <2>1. PICK n \in Int, off \in Int : QueryOf(w) = Offset(Limit(w.q, n), off)
    BY <1>1, QueryOfWindow
  <2>2. QueryOf(w) \in Query /\ Selected(rows, QueryOf(w)) = Selected(rows, w.q)
    BY <1>3, <2>1, WindowSelects
  <2>3. i \notin Selected(rows, w.q)
    <3>1. NoOr(w.q) /\ Trashed(rows, i)
      BY <1>3, Zenon DEF NoOr, Trashed
    <3> QED
      BY <1>3, <3>1, ScopeExcludes
  <2> QED
    BY <1>2, <2>2, <2>3, AnswerShows
<1>5. Shown(w, ToSet(a))[i] = w.seen[i]
  BY <1>4 DEF Shown
<1>6. CASE UNCHANGED walk
  BY <1>6
<1>7. CASE walk' = [walk EXCEPT
                     ![c].seen = Shown(w, ToSet(a)),
                     ![c].last = IF w.mode = "chunk" THEN Len(a) < w.size ELSE @]
  <2> DEFINE seen == Shown(w, ToSet(a))
  <2> HIDE DEF seen
  <2>1. walk' = [walk EXCEPT ![c].seen = seen,
                             ![c].last = IF w.mode = "chunk" THEN Len(a) < w.size ELSE @]
    BY <1>7 DEF seen
  <2>2. walk'[c].seen = seen
    BY <1>1, <2>1 DEF Touring, w
  <2> QED
    BY <1>5, <2>2 DEF seen, w
<1> QED
  BY <1>2, <1>6, <1>7

\* A row in the trash is out of the reach of every scoped call without an
\* OrWhere (model.go:44): none shows it and none changes it.  A model without
\* soft deletion adds no scope.
THEOREM TrashStays == SoftDelete => (Spec => TrashOutOfReach)
<1> SUFFICES ASSUME SoftDelete PROVE Spec => TrashOutOfReach
  OBVIOUS
<1> DEFINE Kept ==
      \A c \in Client, i \in Id :
          rows[i] # None /\ rows[i].trash =>
             /\ pc[c] = "write" /\ pc'[c] # "write" /\ ~stmt[c].tx /\ Confined(stmt[c])
                   => rows'[i] = rows[i]
             /\ pc[c] = "batch" /\ pc'[c] = "fn" /\ Confined(walk[c])
                   => walk'[c].seen[i] = walk[c].seen[i]
<1>1. ASSUME IInv, NEW d \in Client, Act(d) PROVE Kept
  <2> SUFFICES ASSUME NEW c \in Client, NEW i \in Id, rows[i] # None, rows[i].trash
               PROVE  /\ pc[c] = "write" /\ pc'[c] # "write" /\ ~stmt[c].tx /\ Confined(stmt[c])
                            => rows'[i] = rows[i]
                      /\ pc[c] = "batch" /\ pc'[c] = "fn" /\ Confined(walk[c])
                            => walk'[c].seen[i] = walk[c].seen[i]
    OBVIOUS
  <2>1. CASE c # d
    BY <1>1, <2>1, OwnPlace
  <2>2. CASE c = d
    <3>1. ASSUME pc[c] = "write", ~stmt[c].tx, Confined(stmt[c]) PROVE rows'[i] = rows[i]
      BY <1>1, <2>2, <3>1, FromWrite, TrashKept
    <3>2. ASSUME pc[c] = "batch", pc'[c] = "fn", Confined(walk[c])
          PROVE  walk'[c].seen[i] = walk[c].seen[i]
      BY <1>1, <2>2, <3>2, FromBatch, TrashUnseen
    <3> QED
      BY <3>1, <3>2
  <2> QED
    BY <2>1, <2>2
<1>2. IInv /\ [Next]_vars => [Kept]_vars
  <2> HIDE DEF Kept
  <2> SUFFICES ASSUME IInv, Next PROVE Kept
    OBVIOUS
  <2>1. PICK d \in Client : Act(d)
    BY DEF Next, Act
  <2> QED
    BY <1>1, <2>1
<1> QED
  BY <1>2, Invariance, PTL DEF Spec, TrashOutOfReach
=============================================================================
