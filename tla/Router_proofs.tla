---------------------------- MODULE Router_proofs ----------------------------
(***************************************************************************)
(* Proofs about Router for any tree of groups, any routes and middleware,  *)
(* and any number of requests served at once.                              *)
(***************************************************************************)
EXTENDS Router, SequenceTheorems, FiniteSetTheorems, WellFoundedInduction, TLAPS

-----------------------------------------------------------------------------
(* What a router in the stack holds *)

Rows  == [route : Route, middleware : Seq(Middleware)]
Frame == [group : Group \cup {Root}, middleware : Seq(Middleware), routes : Seq(Rows)]

-----------------------------------------------------------------------------
(* The inductive invariant *)

\* A router carries the middleware of the groups it stands in.
Stacked == \A l \in DOMAIN stack : stack[l].middleware = Around[stack[l].group]

\* Whatever requests write, the first cells hold the global middleware.
GlobalCells ==
    /\ len <= Len(Uses) /\ len <= Len(cells)
    /\ \A i \in 1..len : cells[i] = Uses[i]

\* A request that is not served has no locals; none is before registration ends.
Idle(q) == phase[q] = "off" =>
    row[q] = 0 /\ slice[q] = <<>> /\ chain[q] = <<>> /\ next[q] = 0

Served(q) == phase[q] # "off" =>
    /\ serving
    /\ Len(chain[q]) + next[q] = len + Len(OwnOf(q))
    /\ \A j \in DOMAIN chain[q] : next[q] + j <= len => chain[q][j] = Uses[next[q] + j]
    /\ phase[q] = "done" => next[q] = 0
    /\ phase[q] = "copying" => slice[q] = <<>> /\ chain[q] = <<>>

\* Its middleware in the shared array, but for what it has still to copy.
InPlace(q) == phase[q] # "off" /\ slice[q] = <<>> =>
    /\ len + Len(OwnOf(q)) <= Len(cells)
    /\ todo[q] \subseteq 1..Len(OwnOf(q))
    /\ \A k \in 1..Len(OwnOf(q)) : k \in todo[q] \/ cells[len + k] \in Middleware

\* Its middleware in an array of its own.
Apart(q) == slice[q] # <<>> =>
    /\ Len(slice[q]) = len + Len(OwnOf(q))
    /\ \A i \in 1..len : slice[q][i] = Uses[i]

Passing == \A q \in Request : Idle(q) /\ Served(q) /\ InPlace(q) /\ Apart(q)

IInv == TypeOK /\ TableExact /\ Stacked /\ GlobalCells /\ Passing

-----------------------------------------------------------------------------
(* The groups around a route *)

LEMMA LeastExists ==
    ASSUME NEW S, S \subseteq Nat, S # {}
    PROVE  \E x \in S : \A y \in S : x <= y
<1>1. PICK x \in S : \A y \in S : ~ (<<y, x>> \in OpToRel(<, Nat))
  BY NatLessThanWellFounded, WFMin
<1>2. ASSUME NEW y \in S PROVE x <= y
  <2>1. ~(y < x)
    BY <1>1 DEF OpToRel
  <2> QED
    BY <2>1
<1> QED
  BY <1>2

\* What the equation of Around says of a function on the groups of D.
Unfolds(f, D) ==
    f = [g \in D |-> IF g = Root THEN <<>> ELSE f[Parent[g]] \o OfGroup[g]]

\* Groups nest to a finite depth, so that the equation has a solution.
LEMMA AroundUnfolds ==
    /\ Around[Root] = <<>>
    /\ \A g \in Group : Around[g] = Around[Parent[g]] \o OfGroup[g]
<1> DEFINE All == Group \cup {Root}
<1> DEFINE N == Cardinality(Group)
<1>1. PICK depth \in [All -> 0..N] : \A g \in Group : depth[Parent[g]] < depth[g]
  BY GroupsNest
<1>0. N \in Nat
  BY GroupsNest, FS_CardinalityType
<1> HIDE DEF N
<1> DEFINE Below(n) == {g \in All : depth[g] < n}
           Without == {n \in Nat : ~ \E f : Unfolds(f, Below(n))}
<1>2. Without = {}
  <2> SUFFICES ASSUME Without # {} PROVE FALSE
    OBVIOUS
  <2>1. PICK n \in Without : \A m \in Without : n <= m
    BY LeastExists
  <2>2. CASE n = 0
    <3>1. Below(n) = {}
      BY <1>0, <1>1, <2>2, SMTT(30)
    <3> DEFINE f == [g \in {} |-> <<>>]
    <3>2. Unfolds(f, Below(n))
      BY <3>1 DEF Unfolds
    <3> QED
      BY <3>2
  <2>3. CASE n > 0
    <3>1. n - 1 \in Nat /\ n - 1 \notin Without
      <4>1. n \in Nat
        OBVIOUS
      <4> HIDE DEF Without
      <4> QED
        BY <2>1, <2>3, <4>1
    <3>2. PICK f : Unfolds(f, Below(n - 1))
      BY <3>1
    <3> DEFINE e == [g \in Below(n) |->
                        IF g = Root THEN <<>> ELSE f[Parent[g]] \o OfGroup[g]]
    <3>3. ASSUME NEW g \in Below(n), g # Root
          PROVE  Parent[g] \in Below(n - 1) /\ Parent[g] \in Below(n)
      <4>1. g \in Group /\ Parent[g] \in All
        BY <3>3, ConstantsOK
      <4>2. depth[Parent[g]] \in Nat /\ depth[g] \in Nat /\ n \in Nat
        BY <1>0, <1>1, <4>1
      <4>3. depth[Parent[g]] < depth[g] /\ depth[g] < n
        BY <1>1, <4>1
      <4> QED
        BY <4>1, <4>2, <4>3
    <3>4. ASSUME NEW g \in Below(n - 1) PROVE g \in Below(n) /\ e[g] = f[g]
      <4>0. g \in All /\ depth[g] < n - 1 /\ depth[g] \in Int /\ n \in Int
        BY <1>0, <1>1, <3>4
      <4>1. g \in Below(n)
        BY <4>0
      <4>2. f[g] = IF g = Root THEN <<>> ELSE f[Parent[g]] \o OfGroup[g]
        BY <3>2, <3>4 DEF Unfolds
      <4> QED
        BY <4>1, <4>2
    <3>5. Unfolds(e, Below(n))
      BY <3>3, <3>4 DEF Unfolds
    <3> QED
      BY <3>5
  <2> QED
    BY <2>1, <2>2, <2>3
<1>3. \E f : Unfolds(f, All)
  <2>1. Below(N + 1) = All /\ N + 1 \in Nat
    BY <1>0, <1>1
  <2> QED
    BY <1>2, <2>1
<1>4. Unfolds(Around, All)
  <2>1. Around = CHOOSE f : Unfolds(f, All)
    BY DEF Around, Unfolds
  <2> QED
    BY <1>3, <2>1
<1> QED
  BY <1>4, ConstantsOK, GroupsNest DEF Unfolds

-----------------------------------------------------------------------------
(* Registration *)

LEMMA Frames ==
    ASSUME TypeOK
    PROVE  /\ stack \in Seq(Frame) /\ Len(stack) \in Nat \ {0} /\ DOMAIN stack = 1..Len(stack)
           /\ \A l \in 1..Len(stack) : stack[l] \in Frame
           /\ Top = stack[Len(stack)] /\ Top \in Frame /\ Routes \in Seq(Rows)
           /\ cells \in Seq(Middleware \cup {Nil}) /\ len \in Nat /\ Len(cells) \in Nat
           /\ Uses \in Seq(Middleware) /\ Len(Uses) \in Nat
           /\ stack[1].group = Root /\ (serving => Len(stack) = 1)
<1>1. stack \in Seq(Frame) /\ stack # <<>>
  BY DEF TypeOK, Frame, Rows
<1>2. Len(stack) \in Nat \ {0} /\ DOMAIN stack = 1..Len(stack)
  BY <1>1, EmptySeq, LenProperties
<1>3. \A l \in 1..Len(stack) : stack[l] \in Frame
  BY <1>1, ElementOfSeq
<1>4. Top = stack[Len(stack)]
  BY DEF Top, Last
<1>5. Top \in Frame
  BY <1>2, <1>3, <1>4
<1>6. Routes \in Seq(Rows)
  BY <1>5 DEF Routes, Frame
<1>7. cells \in Seq(Middleware \cup {Nil}) /\ Uses \in Seq(Middleware)
  BY ConstantsOK DEF TypeOK
<1>8. Len(cells) \in Nat /\ Len(Uses) \in Nat
  BY <1>7, LenProperties
<1>9. len \in Nat
  BY <1>8 DEF TypeOK
<1>10. stack[1].group = Root /\ (serving => Len(stack) = 1)
  BY DEF TypeOK
<1> QED
  BY <1>1, <1>2, <1>3, <1>4, <1>5, <1>6, <1>7, <1>8, <1>9, <1>10

LEMMA FramesStacked ==
    ASSUME TypeOK, Stacked, NEW l \in 1..Len(stack)
    PROVE  stack[l].middleware = Around[stack[l].group]
  BY Frames DEF Stacked

\* While routes are registered no request is served.
LEMMA Quiet ==
    ASSUME IInv, ~serving
    PROVE  \A q \in Request : /\ phase[q] = "off" /\ row[q] = 0 /\ slice[q] = <<>>
                              /\ chain[q] = <<>> /\ next[q] = 0
  BY DEF IInv, Passing, Served, Idle

LEMMA QuietStep ==
    ASSUME IInv, ~serving, UNCHANGED dispatch,
           stack' \in Seq(Frame), Len(stack') >= 1, stack'[1].group = Root,
           serving' \in BOOLEAN, serving' => Len(stack') = 1,
           opened' \subseteq Group, routeSet' \subseteq {Key[d] : d \in Route},
           cells' \in Seq(Middleware \cup {Nil}), len' \in 0..Len(cells'),
           \A i \in 1..len' : cells'[i] # Nil
    PROVE  TypeOK' /\ Passing'
<1>0. stack' # <<>>
  BY EmptySeq
<1>1. Len(stack'[1].routes) \in Nat
  <2>1. stack'[1] \in Frame
    BY LenProperties, ElementOfSeq
  <2> QED
    BY <2>1, LenProperties DEF Frame
<1>2. \A q \in Request : row'[q] <= Len(stack'[1].routes)
  BY <1>1, Quiet DEF dispatch
<1>3. \A q \in Request : todo'[q] # {} <=> phase'[q] = "copying"
  BY DEF dispatch, IInv, TypeOK
<1>4. /\ phase' \in [Request -> {"off", "copying", "applying", "done"}]
      /\ row' \in [Request -> Nat] /\ todo' \in [Request -> SUBSET Nat]
      /\ slice' \in [Request -> Seq(Middleware)] /\ chain' \in [Request -> Seq(Middleware)]
      /\ next' \in [Request -> Nat]
  BY DEF dispatch, IInv, TypeOK
<1>5. TypeOK'
  BY <1>0, <1>2, <1>3, <1>4 DEF TypeOK, Frame, Rows
<1>6. ASSUME NEW q \in Request PROVE (Idle(q) /\ Served(q) /\ InPlace(q) /\ Apart(q))'
  <2>1. /\ phase'[q] = "off" /\ row'[q] = 0 /\ slice'[q] = <<>>
        /\ chain'[q] = <<>> /\ next'[q] = 0
    BY Quiet DEF dispatch
  <2> QED
    BY <2>1 DEF Idle, Served, InPlace, Apart
<1> QED
  BY <1>5, <1>6 DEF Passing

LEMMA InitInv == Init => IInv
<1> SUFFICES ASSUME Init PROVE IInv
  OBVIOUS
<1> DEFINE root == [group |-> Root, middleware |-> <<>>, routes |-> <<>>]
<1>1. root \in Frame
  BY EmptySeq DEF Frame
<1>2. stack = <<root>> /\ stack \in Seq(Frame) /\ Len(stack) = 1 /\ stack[1] = root /\ DOMAIN stack = {1}
  BY <1>1 DEF Init
<1>3. Top = root /\ Routes = <<>>
  BY <1>2 DEF Top, Routes, Last
<1>4. TypeOK
  <2>1. \A q \in Request : row[q] <= Len(stack[1].routes)
    BY <1>2, EmptySeq DEF Init
  <2>2. /\ <<>> \in Seq(Middleware) /\ <<>> \in Seq(Middleware \cup {Nil})
        /\ Len(<<>>) = 0
    BY EmptySeq
  <2>3. /\ slice \in [Request -> Seq(Middleware)] /\ chain \in [Request -> Seq(Middleware)]
        /\ cells \in Seq(Middleware \cup {Nil}) /\ len \in 0..Len(cells)
    BY <2>2 DEF Init
  <2>4. /\ stack \in Seq([group : Group \cup {Root}, middleware : Seq(Middleware),
                      routes : Seq([route : Route, middleware : Seq(Middleware)])])
        /\ stack # <<>> /\ stack[1].group = Root
    BY <1>2 DEF Frame, Rows
  <2>5. /\ phase \in [Request -> {"off", "copying", "applying", "done"}]
        /\ row \in [Request -> Nat] /\ next \in [Request -> Nat]
        /\ todo \in [Request -> SUBSET Nat]
        /\ \A q \in Request : todo[q] # {} <=> phase[q] = "copying"
    BY DEF Init
  <2>6. \A i \in 1..len : cells[i] # Nil
    BY DEF Init
  <2>7. opened \subseteq Group /\ routeSet \subseteq {Key[d] : d \in Route}
    BY DEF Init
  <2>8. serving \in BOOLEAN /\ (serving => Len(stack) = 1)
    BY DEF Init
  <2> QED
    BY <2>1, <2>3, <2>4, <2>5, <2>6, <2>7, <2>8 DEF TypeOK
<1>5. TableExact
  <2>1. DOMAIN Routes = {} /\ ToSet(Routes) = {} /\ routeSet = {}
    BY <1>3, EmptySeq DEF ToSet, Init
  <2> QED
    BY <2>1 DEF TableExact
<1>6. Stacked
  BY <1>2, AroundUnfolds DEF Stacked
<1>7. GlobalCells
  BY EmptySeq, ConstantsOK, LenProperties DEF GlobalCells, Init
<1>8. Passing
  BY DEF Init, Passing, Idle, Served, InPlace, Apart
<1> QED
  BY <1>4, <1>5, <1>6, <1>7, <1>8 DEF IInv

LEMMA UseInv == ASSUME IInv, Use PROVE IInv'
<1> USE DEF IInv
<1>1. /\ ~serving /\ len < Len(Uses) /\ len' = len + 1
      /\ cells' = [Grown EXCEPT ![len + 1] = Uses[len + 1]]
      /\ UNCHANGED <<stack, opened, routeSet, serving, dispatch>>
  BY DEF Use
<1>2. /\ Grown \in Seq(Middleware \cup {Nil}) /\ Len(Grown) \in Nat /\ len + 1 <= Len(Grown)
      /\ \A i \in 1..len : Grown[i] = cells[i]
  <2>1. CASE len < Len(cells)
    BY <2>1, Frames DEF Grown
  <2>2. CASE ~(len < Len(cells))
    <3> DEFINE more == IF len = 0 THEN 1 ELSE len
               spare == [i \in 1..more |-> Nil]
    <3>1. more \in Nat /\ more >= 1
      BY Frames
    <3> HIDE DEF more
    <3>2. spare \in Seq({Nil}) /\ Len(spare) = more
      BY <3>1
    <3>3. spare \in Seq(Middleware \cup {Nil})
      BY <3>1
    <3>4. Grown = cells \o spare
      BY <2>2 DEF Grown, more
    <3> HIDE DEF spare
    <3> QED
      BY <2>2, <3>1, <3>2, <3>3, <3>4, Frames, ConcatProperties DEF GlobalCells
  <2> QED
    BY <2>1, <2>2
<1>3. Uses[len + 1] \in Middleware
  BY <1>1, Frames, ElementOfSeq
<1>4. /\ cells' \in Seq(Middleware \cup {Nil}) /\ Len(cells') = Len(Grown)
      /\ \A i \in 1..len + 1 : cells'[i] = Uses[i]
  <2>1. /\ cells' \in Seq(Middleware \cup {Nil}) /\ Len(cells') = Len(Grown)
        /\ \A i \in 1..Len(Grown) : cells'[i] = IF i = len + 1 THEN Uses[i] ELSE Grown[i]
    <3> HIDE DEF IInv
    <3>1. len + 1 \in 1..Len(Grown)
      BY <1>2, Frames DEF IInv
    <3>2. Uses[len + 1] \in Middleware \cup {Nil}
      BY <1>3
    <3> QED
      BY <1>1, <1>2, <3>1, <3>2, ExceptSeq
  <2> HIDE DEF IInv
  <2>2. \A i \in 1..len + 1 : i \in 1..Len(Grown) /\ (i # len + 1 => i \in 1..len)
    BY <1>2, Frames DEF IInv
  <2>3. \A i \in 1..len : Grown[i] = Uses[i]
    BY <1>2 DEF IInv, GlobalCells
  <2> QED
    BY <2>1, <2>2, <2>3
<1>5. GlobalCells'
  BY <1>1, <1>2, <1>4, Frames DEF GlobalCells
<1>6. \A i \in 1..len' : cells'[i] # Nil
  <2>1. \A i \in 1..len + 1 : Uses[i] \in Middleware
    BY <1>1, Frames, ElementOfSeq
  <2> QED
    BY <1>1, <1>4, <2>1, ConstantsOK
<1>7. len' \in 0..Len(cells')
  BY <1>1, <1>2, <1>4, Frames
<1>10. stack' \in Seq(Frame) /\ Len(stack') >= 1 /\ stack'[1].group = Root
  BY <1>1, Frames
<1>8. TypeOK' /\ Passing'
  BY <1>1, <1>4, <1>6, <1>7, <1>10, QuietStep DEF TypeOK
<1>9. TableExact' /\ Stacked'
  BY <1>1 DEF TableExact, Stacked, Routes, Top
<1> QED
  BY <1>5, <1>8, <1>9

\* Giving the router at i other routes changes nothing else.
LEMMA OtherRoutes ==
    ASSUME NEW s \in Seq(Frame), NEW i \in 1..Len(s), NEW R \in Seq(Rows),
           NEW f, f = [s[i] EXCEPT !.routes = R]
    PROVE  /\ [s EXCEPT ![i] = f] \in Seq(Frame) /\ Len([s EXCEPT ![i] = f]) = Len(s)
           /\ [s EXCEPT ![i] = f][i].routes = R
           /\ \A l \in 1..Len(s) : /\ [s EXCEPT ![i] = f][l].group = s[l].group
                                   /\ [s EXCEPT ![i] = f][l].middleware = s[l].middleware
<1>1. s[i] \in Frame
  BY ElementOfSeq
<1>2. f \in Frame /\ f.routes = R /\ f.group = s[i].group /\ f.middleware = s[i].middleware
  BY <1>1 DEF Frame
<1>3. f \in Frame
  BY <1>2
<1>4. /\ [s EXCEPT ![i] = f] \in Seq(Frame) /\ Len([s EXCEPT ![i] = f]) = Len(s)
      /\ \A l \in 1..Len(s) : [s EXCEPT ![i] = f][l] = IF l = i THEN f ELSE s[l]
  BY <1>3, ExceptSeq
<1> QED
  BY <1>2, <1>4

LEMMA OpenGroupInv == ASSUME IInv, NEW g \in Group, OpenGroup(g) PROVE IInv'
<1> DEFINE n == Len(stack)
           child == [group |-> g, routes |-> Routes, middleware |-> Top.middleware \o OfGroup[g]]
<1>1. /\ ~serving /\ Parent[g] = Top.group /\ stack' = Append(stack, child)
      /\ opened' = opened \cup {g} /\ UNCHANGED <<cells, len, routeSet, serving, dispatch>>
  BY DEF OpenGroup
<1>2. TypeOK /\ TableExact /\ Stacked /\ GlobalCells
  BY DEF IInv
<1>3. child \in Frame
  <2>1. Top.middleware \in Seq(Middleware) /\ OfGroup[g] \in Seq(Middleware)
    BY <1>2, Frames, ConstantsOK DEF Frame
  <2> QED
    BY <2>1, <1>2, Frames, ConcatProperties DEF Frame
<1> HIDE DEF child
<1>4. /\ stack' \in Seq(Frame) /\ Len(stack') = n + 1 /\ stack'[n + 1] = child
      /\ \A l \in 1..n : stack'[l] = stack[l]
  BY <1>1, <1>2, <1>3, Frames, AppendProperties
<1>5. Len(stack') >= 1 /\ stack'[1].group = Root
  BY <1>2, <1>4, Frames
<1>6. TypeOK' /\ Passing'
  BY <1>1, <1>2, <1>4, <1>5, QuietStep DEF TypeOK
<1>7. Routes' = Routes
  BY <1>4 DEF Routes, Top, Last, child
<1>8. TableExact'
  BY <1>1, <1>2, <1>7 DEF TableExact
<1>9. Stacked'
  <2>1. child.middleware = Around[child.group]
    <3>1. n \in 1..Len(stack)
      BY <1>2, Frames
    <3>2. Top.middleware = Around[Top.group]
      BY <1>2, <3>1, Frames, FramesStacked
    <3> QED
      BY <1>1, <3>2, AroundUnfolds DEF child
  <2>2. DOMAIN stack' = 1..(n + 1)
    BY <1>4, LenProperties
  <2>3. ASSUME NEW l \in 1..(n + 1) PROVE stack'[l].middleware = Around[stack'[l].group]
    <3>1. CASE l = n + 1
      BY <1>4, <2>1, <3>1
    <3>2. CASE l # n + 1
      <4>1. l \in 1..n
        BY <1>2, <3>2, Frames
      <4> QED
        BY <1>2, <1>4, <4>1, FramesStacked
    <3> QED
      BY <3>1, <3>2
  <2> QED
    BY <2>2, <2>3 DEF Stacked
<1>10. GlobalCells'
  BY <1>1, <1>2 DEF GlobalCells
<1> QED
  BY <1>6, <1>8, <1>9, <1>10 DEF IInv

LEMMA CloseGroupInv == ASSUME IInv, CloseGroup PROVE IInv'
<1> DEFINE n == Len(stack)
           rest == Front(stack)
<1>1. n > 1 /\ UNCHANGED <<cells, len, opened, routeSet, serving, dispatch>>
  BY DEF CloseGroup
<1>12. stack' = [rest EXCEPT ![n - 1].routes = Routes]
  BY DEF CloseGroup
<1>2. TypeOK /\ TableExact /\ Stacked /\ GlobalCells
  BY DEF IInv
<1>3. ~serving
  <2>1. \A k \in Nat : k > 1 => k # 1
    OBVIOUS
  <2>2. n \in Nat /\ (serving => n = 1)
    BY <1>2, Frames
  <2> HIDE DEF n
  <2> QED
    BY <1>1, <2>1, <2>2, Zenon
<1>4. /\ rest \in Seq(Frame) /\ Len(rest) = n - 1
      /\ \A l \in 1..n - 1 : rest[l] = stack[l]
  <2>1. \A l \in 1..n - 1 : stack[l] \in Frame
    BY <1>2, Frames
  <2> QED
    BY <1>1, <1>2, <2>1, Frames, SubSeqProperties DEF Front
<1> HIDE DEF rest
<1>5. /\ stack' \in Seq(Frame) /\ Len(stack') = n - 1 /\ stack'[n - 1].routes = Routes
      /\ \A l \in 1..n - 1 : /\ stack'[l].group = stack[l].group
                             /\ stack'[l].middleware = stack[l].middleware
  <2>1. n - 1 \in 1..Len(rest) /\ Routes \in Seq(Rows)
    BY <1>1, <1>2, <1>4, Frames
  <2>2. /\ stack' \in Seq(Frame) /\ Len(stack') = Len(rest) /\ stack'[n - 1].routes = Routes
        /\ \A l \in 1..Len(rest) : /\ stack'[l].group = rest[l].group
                                   /\ stack'[l].middleware = rest[l].middleware
    <3>1. PICK f : f = [rest[n - 1] EXCEPT !.routes = Routes]
      OBVIOUS
    <3>2. stack' = [rest EXCEPT ![n - 1] = f]
      BY <1>12, <3>1
    <3> QED
      BY <1>4, <2>1, <3>1, <3>2, OtherRoutes, SMTT(30)
  <2> QED
    BY <1>4, <2>2
<1>6. Len(stack') >= 1 /\ stack'[1].group = Root
  BY <1>1, <1>2, <1>5, Frames
<1>7. TypeOK' /\ Passing'
  BY <1>1, <1>2, <1>3, <1>5, <1>6, QuietStep DEF TypeOK
<1>8. Routes' = Routes
  BY <1>5 DEF Routes, Top, Last
<1>9. TableExact'
  BY <1>1, <1>2, <1>8 DEF TableExact
<1>10. Stacked'
  <2>1. DOMAIN stack' = 1..n - 1
    BY <1>5, LenProperties
  <2>2. \A l \in 1..n - 1 : l \in 1..Len(stack)
    BY <1>2, Frames
  <2> QED
    BY <1>2, <1>5, <2>1, <2>2, FramesStacked DEF Stacked
<1>11. GlobalCells'
  BY <1>1, <1>2 DEF GlobalCells
<1> QED
  BY <1>7, <1>9, <1>10, <1>11 DEF IInv

LEMMA AddInv == ASSUME IInv, NEW d \in Route, Add(d) PROVE IInv'
<1> DEFINE n == Len(stack)
           new == Row(d, Top.middleware \o Own[d])
<1>1. /\ ~serving /\ In[d] = Top.group
      /\ UNCHANGED <<cells, len, opened, serving, dispatch>>
  BY DEF Add
<1>2. TypeOK /\ TableExact /\ Stacked /\ GlobalCells
  BY DEF IInv
<1>3. GlobalCells'
  BY <1>1, <1>2 DEF GlobalCells
<1>4. CASE Key[d] \in routeSet
  <2>1. UNCHANGED <<stack, routeSet>>
    BY <1>4 DEF Add
  <2>4. stack' \in Seq(Frame) /\ Len(stack') >= 1 /\ stack'[1].group = Root
    BY <1>2, <2>1, Frames
  <2>2. TypeOK' /\ Passing'
    BY <1>1, <1>2, <2>1, <2>4, QuietStep DEF TypeOK
  <2>3. TableExact' /\ Stacked'
    BY <1>2, <2>1 DEF TableExact, Stacked, Routes, Top
  <2> QED
    BY <1>3, <2>2, <2>3 DEF IInv
<1>5. CASE Key[d] \notin routeSet
  <2>1. /\ stack' = [stack EXCEPT ![n].routes = Append(@, new)]
        /\ routeSet' = routeSet \cup {Key[d]}
    BY <1>5 DEF Add
  <2>2. new \in Rows /\ new.route = d /\ new.middleware = Around[In[d]] \o Own[d]
    <3>1. Top.middleware \in Seq(Middleware) /\ Own[d] \in Seq(Middleware)
      BY <1>2, Frames, ConstantsOK DEF Frame
    <3>2. Top.middleware = Around[In[d]]
      <4>1. n \in 1..Len(stack)
        BY <1>2, Frames
      <4> QED
        BY <1>1, <1>2, <4>1, Frames, FramesStacked
    <3> QED
      BY <3>1, <3>2, ConcatProperties DEF Row, Rows
  <2> HIDE DEF new
  <2>3. /\ Append(Routes, new) \in Seq(Rows)
        /\ stack' = [stack EXCEPT ![n].routes = Append(Routes, new)]
    BY <1>2, <2>1, <2>2, Frames, AppendProperties DEF Routes
  <2>4. /\ stack' \in Seq(Frame) /\ Len(stack') = n /\ stack'[n].routes = Append(Routes, new)
        /\ \A l \in 1..n : /\ stack'[l].group = stack[l].group
                           /\ stack'[l].middleware = stack[l].middleware
    <3>1. n \in 1..Len(stack) /\ stack \in Seq(Frame)
      BY <1>2, Frames
    <3>2. PICK R \in Seq(Rows) : R = Append(Routes, new)
      BY <2>3
    <3>3. PICK f : f = [stack[n] EXCEPT !.routes = R]
      OBVIOUS
    <3>4. stack' = [stack EXCEPT ![n] = f]
      BY <2>3, <3>2, <3>3
    <3>5. /\ stack' \in Seq(Frame) /\ Len(stack') = n /\ stack'[n].routes = R
          /\ \A l \in 1..n : /\ stack'[l].group = stack[l].group
                             /\ stack'[l].middleware = stack[l].middleware
      BY <3>1, <3>3, <3>4, OtherRoutes
    <3> QED
      BY <3>2, <3>5
  <2>5. Len(stack') >= 1 /\ stack'[1].group = Root
    BY <1>2, <2>4, Frames
  <2>6. TypeOK' /\ Passing'
    BY <1>1, <1>2, <2>1, <2>4, <2>5, QuietStep DEF TypeOK
  <2>7. Stacked'
    <3>1. DOMAIN stack' = 1..n /\ DOMAIN stack = 1..n
      BY <1>2, <2>4, Frames, LenProperties
    <3> QED
      BY <1>2, <2>4, <3>1 DEF Stacked
  <2>8. Routes' = Append(Routes, new)
    BY <2>4 DEF Routes, Top, Last
  <2>9. /\ Routes \in Seq(Rows) /\ Len(Routes) \in Nat /\ DOMAIN Routes = 1..Len(Routes)
        /\ DOMAIN Routes' = 1..(Len(Routes) + 1)
        /\ Routes'[Len(Routes) + 1] = new
        /\ \A i \in 1..Len(Routes) : Routes'[i] = Routes[i]
    BY <1>2, <2>2, <2>8, Frames, LenProperties, AppendProperties
  <2>10. ToSet(Routes') = ToSet(Routes) \cup {new}
    BY <2>9 DEF ToSet
  <2>11. TableExact'
    <3>1. {Key[r.route] : r \in ToSet(Routes')} = routeSet'
      BY <1>2, <2>1, <2>2, <2>10 DEF TableExact
    <3>2. \A i \in 1..Len(Routes) : Key[Routes[i].route] # Key[d]
      BY <1>2, <1>5, <2>9 DEF TableExact, ToSet
    <3>3. \A i, j \in DOMAIN Routes' : Key[Routes'[i].route] = Key[Routes'[j].route] => i = j
      BY <1>2, <2>2, <2>9, <3>2 DEF TableExact
    <3>4. \A r \in ToSet(Routes') : r.middleware = Around[In[r.route]] \o Own[r.route]
      BY <1>2, <2>2, <2>10 DEF TableExact
    <3> QED
      BY <3>1, <3>3, <3>4 DEF TableExact
  <2> QED
    BY <1>3, <2>6, <2>7, <2>11 DEF IInv
<1> QED
  BY <1>4, <1>5

LEMMA ListenInv == ASSUME IInv, Listen PROVE IInv'
<1>1. /\ ~serving /\ Len(stack) = 1 /\ serving' = TRUE /\ UNCHANGED dispatch
      /\ UNCHANGED <<cells, len, stack, opened, routeSet>>
  BY DEF Listen
<1>2. TypeOK /\ TableExact /\ Stacked /\ GlobalCells
  BY DEF IInv
<1>4. stack' \in Seq(Frame) /\ Len(stack') \in Nat /\ Len(stack') = 1 /\ stack'[1].group = Root
  BY <1>1, <1>2, Frames
<1>5. /\ opened' \subseteq Group /\ routeSet' \subseteq {Key[d] : d \in Route}
      /\ cells' \in Seq(Middleware \cup {Nil}) /\ len' \in 0..Len(cells')
      /\ \A i \in 1..len' : cells'[i] # Nil
  BY <1>1, <1>2 DEF TypeOK
<1>3. TypeOK' /\ Passing'
  <2>1. serving' \in BOOLEAN /\ Len(stack') >= 1
    BY <1>1, <1>4
  <2> QED
    BY <1>1, <1>4, <1>5, <2>1, QuietStep
<1>6. TableExact' /\ Stacked'
  BY <1>1, <1>2 DEF TableExact, Stacked, Routes, Top
<1>7. GlobalCells'
  BY <1>1, <1>2 DEF GlobalCells
<1> QED
  BY <1>3, <1>6, <1>7 DEF IInv

-----------------------------------------------------------------------------
(* Requests *)

LEMMA OwnType ==
    ASSUME TypeOK, NEW q \in Request
    PROVE  /\ OwnOf(q) \in Seq(Middleware) /\ Len(OwnOf(q)) \in Nat
           /\ DOMAIN OwnOf(q) = 1..Len(OwnOf(q))
<1>1. stack[1] \in Frame
  BY Frames
<1>2. stack[1].routes \in Seq(Rows) /\ Len(stack[1].routes) \in Nat
  BY <1>1, LenProperties DEF Frame
<1>3. row[q] \in Nat /\ row[q] <= Len(stack[1].routes)
  BY DEF TypeOK
<1>4. OwnOf(q) \in Seq(Middleware)
  <2>1. CASE row[q] = 0
    BY <2>1, EmptySeq DEF OwnOf
  <2>2. CASE row[q] # 0
    <3>1. row[q] \in 1..Len(stack[1].routes)
      BY <1>2, <1>3, <2>2
    <3>2. stack[1].routes[row[q]] \in Rows
      BY <1>2, <3>1, ElementOfSeq
    <3> QED
      BY <2>2, <3>2 DEF OwnOf, Rows
  <2> QED
    BY <2>1, <2>2
<1> QED
  BY <1>4, LenProperties

LEMMA MatchType ==
    ASSUME TypeOK, NEW method, NEW path
    PROVE  Match(method, path) \in 0..Len(Routes)
<1> DEFINE I == {i \in 1..Len(Routes) : /\ Key[Routes[i].route].method = method
                                        /\ path \in Matches[Key[Routes[i].route].pattern]}
<1>1. Len(Routes) \in Nat
  BY Frames, LenProperties
<1>2. Match(method, path) = IF I # {} THEN Min(I) ELSE 0
  BY DEF Match, SelectInSeq
<1>3. I \subseteq Nat /\ I \subseteq 0..Len(Routes) /\ 0 \in 0..Len(Routes)
  BY <1>1
<1> HIDE DEF I
<1>4. I # {} => Min(I) \in I
  BY <1>3, LeastExists DEF Min
<1> QED
  BY <1>2, <1>3, <1>4

\* A step of request q that writes beyond the global middleware at most leaves
\* the table and every other request as they were.
LEMMA OthersStep ==
    ASSUME IInv, NEW q \in Request,
           UNCHANGED <<len, stack, opened, routeSet, serving>>,
           cells' \in Seq(Middleware \cup {Nil}), Len(cells') = Len(cells),
           \A i \in 1..Len(cells) :
              cells'[i] = cells[i] \/ (i > len /\ cells'[i] \in Middleware),
           \A p \in Request \ {q} :
              /\ phase'[p] = phase[p] /\ row'[p] = row[p] /\ todo'[p] = todo[p]
              /\ slice'[p] = slice[p] /\ next'[p] = next[p] /\ chain'[p] = chain[p]
    PROVE  /\ TableExact' /\ Stacked' /\ GlobalCells'
           /\ \A i \in 1..len' : cells'[i] # Nil
           /\ \A p \in Request \ {q} : (Idle(p) /\ Served(p) /\ InPlace(p) /\ Apart(p))'
<1> TypeOK /\ TableExact /\ Stacked /\ GlobalCells /\ Passing
  BY DEF IInv
<1>1. TableExact' /\ Stacked'
  BY DEF TableExact, Stacked, Routes, Top
<1>2. \A i \in 1..len : cells'[i] = cells[i]
  BY Frames DEF GlobalCells
<1>3. GlobalCells'
  BY <1>2 DEF GlobalCells
<1>4. \A i \in 1..len' : cells'[i] # Nil
  BY <1>2 DEF TypeOK
<1>5. ASSUME NEW p \in Request \ {q} PROVE (Idle(p) /\ Served(p) /\ InPlace(p) /\ Apart(p))'
  <2>1. Idle(p) /\ Served(p) /\ InPlace(p) /\ Apart(p)
    BY DEF Passing
  <2>2. /\ phase'[p] = phase[p] /\ row'[p] = row[p] /\ todo'[p] = todo[p]
        /\ slice'[p] = slice[p] /\ next'[p] = next[p] /\ chain'[p] = chain[p]
    OBVIOUS
  <2>3. OwnOf(p)' = OwnOf(p)
    BY <2>2 DEF OwnOf
  <2>4. Idle(p)' /\ Served(p)' /\ Apart(p)'
    BY <2>1, <2>2, <2>3 DEF Idle, Served, Apart
  <2>5. InPlace(p)'
    <3> SUFFICES ASSUME phase[p] # "off", slice[p] = <<>>, NEW k \in 1..Len(OwnOf(p)),
                        k \notin todo[p]
                 PROVE  cells'[len + k] \in Middleware
      BY <2>1, <2>2, <2>3 DEF InPlace
    <3>1. cells[len + k] \in Middleware /\ len + Len(OwnOf(p)) <= Len(cells)
      BY <2>1 DEF InPlace
    <3>2. len + k \in 1..Len(cells)
      BY <3>1, Frames, OwnType
    <3> QED
      BY <3>1, <3>2
  <2> QED
    BY <2>4, <2>5
<1> QED
  BY <1>1, <1>3, <1>4, <1>5

\* What a request does leaves the types of the table as they are.
LEMMA TypesKept ==
    ASSUME TypeOK, len' = len, stack' = stack, opened' = opened, routeSet' = routeSet,
           serving' = serving, cells' \in Seq(Middleware \cup {Nil}), Len(cells') = Len(cells),
           \A i \in 1..len' : cells'[i] # Nil,
           phase' \in [Request -> {"off", "copying", "applying", "done"}],
           row' \in [Request -> Nat], todo' \in [Request -> SUBSET Nat],
           slice' \in [Request -> Seq(Middleware)], chain' \in [Request -> Seq(Middleware)],
           next' \in [Request -> Nat],
           \A p \in Request : row'[p] <= Len(stack[1].routes),
           \A p \in Request : todo'[p] # {} <=> phase'[p] = "copying"
    PROVE  TypeOK'
<1>1. /\ len \in 0..Len(cells) /\ stack # <<>> /\ stack[1].group = Root
      /\ stack \in Seq([group : Group \cup {Root}, middleware : Seq(Middleware),
                        routes : Seq([route : Route, middleware : Seq(Middleware)])])
      /\ opened \subseteq Group /\ routeSet \subseteq {Key[d] : d \in Route}
      /\ serving \in BOOLEAN /\ (serving => Len(stack) = 1)
  BY DEF TypeOK
<1> HIDE DEF TypeOK
<1>2. /\ len' \in 0..Len(cells') /\ stack' # <<>> /\ stack'[1].group = Root
      /\ stack' \in Seq([group : Group \cup {Root}, middleware : Seq(Middleware),
                         routes : Seq([route : Route, middleware : Seq(Middleware)])])
      /\ opened' \subseteq Group /\ routeSet' \subseteq {Key[d] : d \in Route}
      /\ serving' \in BOOLEAN /\ (serving' => Len(stack') = 1)
      /\ \A p \in Request : row'[p] <= Len(stack'[1].routes)
  BY <1>1
<1> QED
  BY <1>2, Zenon DEF TypeOK

LEMMA ServeInv == ASSUME IInv, NEW q \in Request, Serve(q) PROVE IInv'
<1> DEFINE Routed == stack[1].routes
<1>1. /\ serving /\ phase[q] = "off" /\ UNCHANGED <<table, chain>>
      /\ TypeOK /\ GlobalCells /\ Idle(q)
  BY DEF Serve, IInv, Passing
<1>2. PICK i \in 0..Len(Routes) : IF i = 0 THEN DispatchNone(q) ELSE Dispatch(q, i)
  BY <1>1, MatchType DEF Serve
<1>3. Routes = Routed /\ Routed \in Seq(Rows) /\ Len(Routed) \in Nat
  BY <1>1, Frames, LenProperties DEF Routes
<1>4. row[q] = 0 /\ slice[q] = <<>> /\ chain[q] = <<>> /\ next[q] = 0 /\ todo[q] = {}
  BY <1>1 DEF Idle, TypeOK
<1>5. len \in Nat /\ Len(cells) \in Nat /\ len <= Len(cells)
  BY <1>1, Frames DEF GlobalCells
<1>6. /\ row' \in [Request -> Nat] /\ todo' \in [Request -> SUBSET Nat]
      /\ slice' \in [Request -> Seq(Middleware)] /\ next' \in [Request -> Nat]
      /\ phase' \in [Request -> {"off", "copying", "applying", "done"}]
      /\ \A p \in Request \ {q} :
            /\ phase'[p] = phase[p] /\ row'[p] = row[p] /\ todo'[p] = todo[p]
            /\ slice'[p] = slice[p] /\ next'[p] = next[p] /\ chain'[p] = chain[p]
      /\ row'[q] <= Len(Routed) /\ (todo'[q] # {} <=> phase'[q] = "copying")
      /\ Idle(q)' /\ Served(q)' /\ InPlace(q)' /\ Apart(q)'
  <2>1. CASE i = 0
    <3>1. /\ next' = [next EXCEPT ![q] = len] /\ phase' = [phase EXCEPT ![q] = "applying"]
          /\ UNCHANGED <<row, todo, slice>>
      BY <1>2, <2>1 DEF DispatchNone
    <3>2. /\ next'[q] = len /\ phase'[q] = "applying" /\ row'[q] = 0 /\ todo'[q] = {}
          /\ slice'[q] = <<>> /\ chain'[q] = <<>> /\ len' = len /\ cells' = cells /\ serving'
      BY <1>1, <1>4, <3>1 DEF TypeOK, table
    <3>3. OwnOf(q)' = <<>> /\ Len(<<>>) = 0
      BY <3>2, EmptySeq DEF OwnOf
    <3>4. Idle(q)' /\ Served(q)' /\ InPlace(q)' /\ Apart(q)'
      BY <1>5, <3>2, <3>3 DEF Idle, Served, InPlace, Apart
    <3> QED
      BY <1>1, <1>3, <1>4, <1>5, <3>1, <3>2, <3>4 DEF TypeOK
  <2>2. CASE i # 0
    <3>1. PICK own \in Seq(Middleware) : own = Routed[i].middleware
      <4>1. Routed[i] \in Rows
        BY <1>2, <1>3, <2>2, ElementOfSeq
      <4> QED
        BY <4>1 DEF Rows
    <3>2. Len(own) \in Nat /\ DOMAIN own = 1..Len(own) /\ (own # <<>> => Len(own) > 0)
      BY LenProperties, EmptySeq
    <3>3. Len(<<>>) = 0 /\ DOMAIN <<>> = {} /\ <<>> \in Seq(Middleware)
      BY EmptySeq
    <3>4. /\ row' = [row EXCEPT ![q] = i] /\ next' = [next EXCEPT ![q] = len + Len(own)]
          /\ chain' = chain /\ len' = len /\ cells' = cells /\ serving' /\ stack' = stack
      BY <1>1, <1>2, <1>3, <2>2, <3>1 DEF Dispatch, table
    <3>8. row' \in [Request -> Nat] /\ next' \in [Request -> Nat] /\ i <= Len(Routed)
      <4>1. i \in Nat /\ i <= Len(Routed) /\ len + Len(own) \in Nat
        BY <1>2, <1>3, <1>5, <3>2
      <4> QED
        BY <1>1, <3>4, <4>1 DEF TypeOK
    <3>5. OwnOf(q)' = own
      <4>1. row'[q] = i
        BY <1>1, <3>4 DEF TypeOK
      <4> QED
        BY <2>2, <3>1, <3>4, <4>1 DEF OwnOf
    <3>6. CASE len + Len(own) <= Len(cells)
      <4>1. /\ phase' = [phase EXCEPT ![q] = IF own # <<>> THEN "copying" ELSE "applying"]
            /\ todo' = [todo EXCEPT ![q] = DOMAIN own]
            /\ slice' = [slice EXCEPT ![q] = <<>>]
        BY <1>2, <1>3, <2>2, <3>1, <3>6 DEF Dispatch
      <4>2. /\ row'[q] = i /\ next'[q] = len + Len(own) /\ slice'[q] = <<>>
            /\ phase'[q] = IF own # <<>> THEN "copying" ELSE "applying"
            /\ todo'[q] = 1..Len(own) /\ chain'[q] = <<>>
        BY <1>1, <1>4, <3>2, <3>4, <4>1 DEF TypeOK
      <4>3. Idle(q)' /\ Served(q)'
        BY <1>5, <3>2, <3>3, <3>4, <3>5, <4>2 DEF Idle, Served
      <4>4. InPlace(q)' /\ Apart(q)'
        BY <3>2, <3>4, <3>5, <3>6, <4>2 DEF InPlace, Apart
      <4>5. todo'[q] # {} <=> phase'[q] = "copying"
        <5>1. CASE own = <<>>
          BY <3>3, <4>2, <5>1
        <5>2. CASE own # <<>>
          <6>1. 1 \in todo'[q]
            BY <3>2, <4>2, <5>2
          <6> QED
            BY <4>2, <5>2, <6>1
        <5> QED
          BY <5>1, <5>2
      <4>6. DOMAIN own \in SUBSET Nat
        BY <3>2
      <4>7. /\ todo' \in [Request -> SUBSET Nat] /\ slice' \in [Request -> Seq(Middleware)]
            /\ phase' \in [Request -> {"off", "copying", "applying", "done"}]
        BY <1>1, <3>3, <4>1, <4>6 DEF TypeOK
      <4>8. \A p \in Request \ {q} :
               /\ phase'[p] = phase[p] /\ row'[p] = row[p] /\ todo'[p] = todo[p]
               /\ slice'[p] = slice[p] /\ next'[p] = next[p] /\ chain'[p] = chain[p]
        BY <1>1, <3>4, <4>1 DEF TypeOK
      <4>9. row' \in [Request -> Nat] /\ next' \in [Request -> Nat] /\ row'[q] <= Len(Routed)
        BY <3>8, <4>2
      <4> QED
        BY <4>3, <4>4, <4>5, <4>7, <4>8, <4>9
    <3>7. CASE ~(len + Len(own) <= Len(cells))
      <4>1. \A j \in 1..len : cells[j] = Uses[j] /\ Uses[j] \in Middleware
        BY <1>1, Frames, ElementOfSeq DEF GlobalCells
      <4>2. PICK global : global = SubSeq(cells, 1, len)
        OBVIOUS
      <4>3. /\ global \in Seq(Middleware) /\ Len(global) = len
            /\ \A j \in 1..len : global[j] = Uses[j]
        <5>1. \A j \in 1..len : cells[j] \in Middleware
          BY <4>1
        <5>2. /\ SubSeq(cells, 1, len) \in Seq(Middleware)
              /\ Len(SubSeq(cells, 1, len)) = IF 1 <= len THEN len - 1 + 1 ELSE 0
              /\ \A j \in 1..len - 1 + 1 : SubSeq(cells, 1, len)[j] = cells[1 + j - 1]
          BY <1>5, <5>1, SubSeqProperties
        <5> QED
          BY <1>5, <4>1, <4>2, <5>2
      <4>10. PICK mine : mine = global \o own
        OBVIOUS
      <4>4. /\ mine \in Seq(Middleware) /\ Len(mine) = len + Len(own)
            /\ \A j \in 1..len : mine[j] = Uses[j]
        <5>2. /\ mine \in Seq(Middleware) /\ Len(mine) = Len(global) + Len(own)
              /\ \A j \in 1..Len(global) + Len(own) :
                    mine[j] = IF j <= Len(global) THEN global[j] ELSE own[j - Len(global)]
          <6>1. /\ global \o own \in Seq(Middleware) /\ Len(global \o own) = Len(global) + Len(own)
                /\ \A j \in 1..Len(global) + Len(own) :
                     (global \o own)[j] = IF j <= Len(global) THEN global[j] ELSE own[j - Len(global)]
            BY <4>3, ConcatProperties, SMTT(30)
          <6> QED
            BY <4>10, <6>1
        <5> QED
          BY <1>5, <3>2, <4>3, <5>2
      <4>5. mine # <<>>
        BY <1>5, <3>2, <3>3, <3>7, <4>4
      <4>6. /\ phase' = [phase EXCEPT ![q] = "applying"]
            /\ todo' = [todo EXCEPT ![q] = {}] /\ slice' = [slice EXCEPT ![q] = mine]
        BY <1>2, <1>3, <2>2, <3>1, <3>7, <4>2, <4>10 DEF Dispatch
      <4>7. /\ row'[q] = i /\ next'[q] = len + Len(own) /\ slice'[q] = mine
            /\ phase'[q] = "applying" /\ todo'[q] = {} /\ chain'[q] = <<>>
        BY <1>1, <1>4, <3>4, <4>6 DEF TypeOK
      <4>8. Idle(q)' /\ Served(q)'
        BY <1>5, <3>2, <3>3, <3>4, <3>5, <4>7 DEF Idle, Served
      <4>9. InPlace(q)' /\ Apart(q)'
        BY <3>4, <3>5, <4>4, <4>5, <4>7 DEF InPlace, Apart
      <4>11. \A p \in Request \ {q} :
                /\ phase'[p] = phase[p] /\ row'[p] = row[p] /\ todo'[p] = todo[p]
                /\ slice'[p] = slice[p] /\ next'[p] = next[p] /\ chain'[p] = chain[p]
        BY <1>1, <3>4, <4>6 DEF TypeOK
      <4>12. row' \in [Request -> Nat] /\ next' \in [Request -> Nat] /\ row'[q] <= Len(Routed)
        BY <3>8, <4>7
      <4>13. /\ todo' \in [Request -> SUBSET Nat] /\ slice' \in [Request -> Seq(Middleware)]
             /\ phase' \in [Request -> {"off", "copying", "applying", "done"}]
        BY <1>1, <4>4, <4>6 DEF TypeOK
      <4>14. todo'[q] # {} <=> phase'[q] = "copying"
        BY <4>7
      <4> QED
        BY <4>8, <4>9, <4>11, <4>12, <4>13, <4>14
    <3> QED
      BY <3>6, <3>7
  <2> QED
    BY <2>1, <2>2
<1>7. UNCHANGED <<cells, len, stack, opened, routeSet, serving>>
  BY <1>1 DEF table
<1>8. /\ TableExact' /\ Stacked' /\ GlobalCells' /\ (\A j \in 1..len' : cells'[j] # Nil)
      /\ \A p \in Request \ {q} : (Idle(p) /\ Served(p) /\ InPlace(p) /\ Apart(p))'
  BY <1>1, <1>6, <1>7, Frames, OthersStep
<1>9. Passing'
  BY <1>6, <1>8 DEF Passing
<1>10. TypeOK'
  <2>1. \A p \in Request : row[p] <= Len(Routed) /\ (todo[p] # {} <=> phase[p] = "copying")
    BY <1>1 DEF TypeOK
  <2>2. \A p \in Request : row'[p] <= Len(Routed) /\ (todo'[p] # {} <=> phase'[p] = "copying")
    BY <1>6, <2>1
  <2>3. /\ chain' \in [Request -> Seq(Middleware)] /\ Len(cells') = Len(cells)
        /\ cells' \in Seq(Middleware \cup {Nil})
    BY <1>1, <1>7 DEF TypeOK
  <2> QED
    BY <1>1, <1>6, <1>7, <1>8, <2>2, <2>3, TypesKept
<1> QED
  BY <1>8, <1>9, <1>10 DEF IInv

LEMMA CopyInv == ASSUME IInv, NEW q \in Request, Copy(q) PROVE IInv'
<1>1. /\ phase[q] = "copying" /\ TypeOK /\ GlobalCells
      /\ Idle(q) /\ Served(q) /\ InPlace(q) /\ Apart(q)
      /\ UNCHANGED <<len, stack, opened, routeSet, serving, row, slice, next, chain>>
  BY DEF Copy, IInv, Passing
<1>2. PICK k \in todo[q] :
         /\ cells' = [cells EXCEPT ![len + k] = OwnOf(q)[k]]
         /\ todo' = [todo EXCEPT ![q] = @ \ {k}]
         /\ phase' = [phase EXCEPT ![q] = IF todo[q] = {k} THEN "applying" ELSE @]
  BY DEF Copy
<1>3. slice[q] = <<>> /\ chain[q] = <<>>
  BY <1>1 DEF Served
<1>4. /\ len + Len(OwnOf(q)) <= Len(cells) /\ todo[q] \subseteq 1..Len(OwnOf(q))
      /\ \A j \in 1..Len(OwnOf(q)) : j \in todo[q] \/ cells[len + j] \in Middleware
  BY <1>1, <1>3 DEF InPlace
<1>5. len \in Nat /\ Len(cells) \in Nat /\ Len(OwnOf(q)) \in Nat /\ k \in 1..Len(OwnOf(q))
  BY <1>1, <1>4, Frames, OwnType
<1>6. OwnOf(q)[k] \in Middleware
  BY <1>1, <1>5, OwnType, ElementOfSeq
<1>7. /\ cells' \in Seq(Middleware \cup {Nil}) /\ Len(cells') = Len(cells)
      /\ \A i \in 1..Len(cells) : cells'[i] = IF i = len + k THEN OwnOf(q)[k] ELSE cells[i]
  <2>1. len + k \in 1..Len(cells)
    BY <1>4, <1>5
  <2>2. OwnOf(q)[k] \in Middleware \cup {Nil}
    BY <1>6
  <2>3. cells \in Seq(Middleware \cup {Nil})
    BY <1>1, Frames
  <2> QED
    BY <1>2, <2>1, <2>2, <2>3, ExceptSeq
<1>8. \A i \in 1..Len(cells) : cells'[i] = cells[i] \/ (i > len /\ cells'[i] \in Middleware)
  BY <1>5, <1>6, <1>7
<1>9. /\ todo' \in [Request -> SUBSET Nat]
      /\ phase' \in [Request -> {"off", "copying", "applying", "done"}]
      /\ todo'[q] = todo[q] \ {k}
      /\ phase'[q] = IF todo[q] = {k} THEN "applying" ELSE "copying"
      /\ \A p \in Request \ {q} :
            /\ phase'[p] = phase[p] /\ row'[p] = row[p] /\ todo'[p] = todo[p]
            /\ slice'[p] = slice[p] /\ next'[p] = next[p] /\ chain'[p] = chain[p]
  BY <1>1, <1>2 DEF TypeOK
<1>10. OwnOf(q)' = OwnOf(q)
  BY <1>1 DEF OwnOf
<1>11. Idle(q)' /\ Served(q)' /\ Apart(q)'
  BY <1>1, <1>3, <1>9, <1>10 DEF Idle, Served, Apart
<1>12. InPlace(q)'
  <2>1. \A j \in 1..Len(OwnOf(q)) : j \in todo'[q] \/ cells'[len + j] \in Middleware
    <3> SUFFICES ASSUME NEW j \in 1..Len(OwnOf(q)), j \notin todo'[q]
                 PROVE  cells'[len + j] \in Middleware
      OBVIOUS
    <3>1. len + j \in 1..Len(cells)
      BY <1>4, <1>5
    <3>2. cells'[len + j] = IF len + j = len + k THEN OwnOf(q)[k] ELSE cells[len + j]
      BY <1>7, <3>1
    <3>3. CASE j = k
      BY <1>6, <3>2, <3>3
    <3>4. CASE j # k
      <4>1. len + j # len + k
        BY <1>5, <3>4
      <4>2. cells[len + j] \in Middleware
        BY <1>4, <1>9, <3>4
      <4> QED
        BY <3>2, <4>1, <4>2
    <3> QED
      BY <3>3, <3>4
  <2> QED
    BY <1>1, <1>4, <1>7, <1>9, <1>10, <2>1 DEF InPlace
<1>13. /\ TableExact' /\ Stacked' /\ GlobalCells' /\ (\A i \in 1..len' : cells'[i] # Nil)
       /\ \A p \in Request \ {q} : (Idle(p) /\ Served(p) /\ InPlace(p) /\ Apart(p))'
  BY <1>1, <1>7, <1>8, <1>9, OthersStep
<1>14. TypeOK'
  <2>1. \A p \in Request : todo'[p] # {} <=> phase'[p] = "copying"
    <3>1. todo'[q] # {} <=> phase'[q] = "copying"
      <4>1. todo[q] \ {k} = {} <=> todo[q] = {k}
        OBVIOUS
      <4> QED
        BY <1>9, <4>1
    <3>2. \A p \in Request \ {q} : todo'[p] # {} <=> phase'[p] = "copying"
      BY <1>1, <1>9 DEF TypeOK
    <3> QED
      BY <3>1, <3>2
  <2>2. len' \in 0..Len(cells')
    BY <1>1, <1>7 DEF TypeOK
  <2> QED
    BY <1>1, <1>7, <1>9, <1>13, <2>1, <2>2 DEF TypeOK
<1> QED
  BY <1>11, <1>12, <1>13, <1>14 DEF IInv, Passing

LEMMA ApplyInv == ASSUME IInv, NEW q \in Request, Apply(q) PROVE IInv'
<1>1. /\ phase[q] = "applying" /\ next[q] > 0 /\ TypeOK /\ GlobalCells
      /\ Idle(q) /\ Served(q) /\ InPlace(q) /\ Apart(q)
      /\ UNCHANGED <<cells, len, stack, opened, routeSet, serving, phase, row, todo, slice>>
  BY DEF Apply, IInv, Passing, table
<1>2. PICK x : x = IF slice[q] # <<>> THEN slice[q][next[q]] ELSE cells[next[q]]
  OBVIOUS
<1>3. /\ chain' = [chain EXCEPT ![q] = <<x>> \o @]
      /\ next' = [next EXCEPT ![q] = @ - 1]
  BY <1>2 DEF Apply
<1>4. /\ len \in Nat /\ Len(cells) \in Nat /\ Len(OwnOf(q)) \in Nat
      /\ next[q] \in Nat /\ chain[q] \in Seq(Middleware) /\ Len(chain[q]) \in Nat
      /\ slice[q] \in Seq(Middleware) /\ Len(slice[q]) \in Nat
      /\ DOMAIN chain[q] = 1..Len(chain[q])
  BY <1>1, Frames, OwnType, LenProperties DEF TypeOK
<1>5. Len(chain[q]) + next[q] = len + Len(OwnOf(q))
  BY <1>1 DEF Served
<1>6. x \in Middleware /\ (next[q] <= len => x = Uses[next[q]])
  <2>1. CASE slice[q] # <<>>
    <3>1. Len(slice[q]) = len + Len(OwnOf(q)) /\ \A i \in 1..len : slice[q][i] = Uses[i]
      BY <1>1, <2>1 DEF Apart
    <3>2. next[q] \in 1..Len(slice[q])
      BY <1>1, <1>4, <1>5, <3>1
    <3>3. x = slice[q][next[q]]
      BY <1>2, <2>1
    <3> QED
      BY <1>1, <1>4, <3>1, <3>2, <3>3, ElementOfSeq
  <2>2. CASE slice[q] = <<>>
    <3>1. x = cells[next[q]]
      BY <1>2, <2>2
    <3>2. CASE next[q] <= len
      <4>1. next[q] \in 1..len /\ next[q] \in 1..Len(Uses)
        BY <1>1, <1>4, <3>2, Frames DEF GlobalCells
      <4>2. Uses[next[q]] \in Middleware
        BY <1>1, <4>1, Frames, ElementOfSeq
      <4> QED
        BY <1>1, <3>1, <4>1, <4>2 DEF GlobalCells
    <3>3. CASE ~(next[q] <= len)
      <4>0. next[q] <= len + Len(OwnOf(q))
        BY <1>4, <1>5
      <4>1. next[q] - len \in 1..Len(OwnOf(q)) /\ len + (next[q] - len) = next[q]
        BY <1>4, <3>3, <4>0
      <4>2. todo[q] = {}
        BY <1>1 DEF TypeOK
      <4>3. \A k \in 1..Len(OwnOf(q)) : cells[len + k] \in Middleware
        BY <1>1, <2>2, <4>2 DEF InPlace
      <4>4. cells[next[q]] \in Middleware
        BY <4>1, <4>3
      <4> QED
        BY <3>1, <3>3, <4>4
    <3> QED
      BY <3>2, <3>3
  <2> QED
    BY <2>1, <2>2
<1>7. PICK longer : longer = <<x>> \o chain[q]
  OBVIOUS
<1>8. /\ longer \in Seq(Middleware) /\ Len(longer) = Len(chain[q]) + 1
      /\ DOMAIN longer = 1..Len(chain[q]) + 1
      /\ longer[1] = x /\ \A j \in 1..Len(chain[q]) : longer[j + 1] = chain[q][j]
  <2>1. <<x>> \in Seq(Middleware) /\ Len(<<x>>) = 1 /\ <<x>>[1] = x
    BY <1>6
  <2>2. /\ <<x>> \o chain[q] \in Seq(Middleware)
        /\ Len(<<x>> \o chain[q]) = Len(<<x>>) + Len(chain[q])
        /\ \A i \in 1..Len(<<x>>) + Len(chain[q]) : (<<x>> \o chain[q])[i] =
              IF i <= Len(<<x>>) THEN <<x>>[i] ELSE chain[q][i - Len(<<x>>)]
    BY <1>4, <2>1, ConcatProperties
  <2>3. \A i \in 1..1 + Len(chain[q]) : longer[i] = IF i <= 1 THEN x ELSE chain[q][i - 1]
    BY <1>7, <2>1, <2>2
  <2>4. longer \in Seq(Middleware) /\ Len(longer) = Len(chain[q]) + 1
    BY <1>4, <1>7, <2>1, <2>2
  <2> QED
    <3>1. DOMAIN longer = 1..Len(chain[q]) + 1
      BY <2>4, LenProperties
    <3>2. 1 \in 1..1 + Len(chain[q])
      BY <1>4
    <3>3. longer[1] = x
      BY <2>3, <3>2
    <3>4. ASSUME NEW j \in 1..Len(chain[q]) PROVE longer[j + 1] = chain[q][j]
      <4>1. j + 1 \in 1..1 + Len(chain[q]) /\ ~(j + 1 <= 1) /\ (j + 1) - 1 = j
        BY <1>4
      <4> QED
        BY <2>3, <4>1
    <3> QED
      BY <2>4, <3>1, <3>3, <3>4
<1>9. /\ chain' \in [Request -> Seq(Middleware)] /\ next' \in [Request -> Nat]
      /\ chain'[q] = longer /\ next'[q] = next[q] - 1
      /\ \A p \in Request \ {q} :
            /\ phase'[p] = phase[p] /\ row'[p] = row[p] /\ todo'[p] = todo[p]
            /\ slice'[p] = slice[p] /\ next'[p] = next[p] /\ chain'[p] = chain[p]
  <2>1. chain' = [chain EXCEPT ![q] = longer] /\ next[q] - 1 \in Nat
    BY <1>1, <1>3, <1>4, <1>7
  <2>2. next' = [next EXCEPT ![q] = next[q] - 1]
    BY <1>3
  <2>3. /\ chain \in [Request -> Seq(Middleware)] /\ next \in [Request -> Nat]
        /\ UNCHANGED <<phase, row, todo, slice>>
    BY <1>1 DEF TypeOK
  <2> QED
    BY <1>8, <2>1, <2>2, <2>3
<1>10. OwnOf(q)' = OwnOf(q)
  BY <1>1 DEF OwnOf
<1>11. \A j \in DOMAIN chain'[q] : next'[q] + j <= len => chain'[q][j] = Uses[next'[q] + j]
  <2> SUFFICES ASSUME NEW j \in 1..Len(chain[q]) + 1, next[q] - 1 + j <= len
               PROVE  longer[j] = Uses[next[q] - 1 + j]
    BY <1>8, <1>9
  <2>1. CASE j = 1
    BY <1>4, <1>6, <1>8, <2>1
  <2>2. CASE j # 1
    <3>0. j \in Int /\ next[q] \in Int /\ Len(chain[q]) \in Int
      BY <1>4
    <3>1. j - 1 \in 1..Len(chain[q]) /\ (j - 1) + 1 = j /\ next[q] + (j - 1) = next[q] - 1 + j
      BY <2>2, <3>0
    <3>2. chain[q][j - 1] = Uses[next[q] + (j - 1)]
      <4>1. \A k \in DOMAIN chain[q] : next[q] + k <= len => chain[q][k] = Uses[next[q] + k]
        BY <1>1 DEF Served
      <4>2. j - 1 \in DOMAIN chain[q] /\ next[q] + (j - 1) <= len
        BY <1>4, <3>1
      <4> QED
        BY <4>1, <4>2
    <3> QED
      BY <1>8, <3>1, <3>2
  <2> QED
    BY <2>1, <2>2
<1>12. Idle(q)' /\ InPlace(q)' /\ Apart(q)'
  BY <1>1, <1>10 DEF Idle, InPlace, Apart
<1>13. Served(q)'
  <2>1. Len(chain'[q]) + next'[q] = len + Len(OwnOf(q))
    <3>1. Len(chain'[q]) = Len(chain[q]) + 1 /\ next'[q] = next[q] - 1
      BY <1>8, <1>9
    <3>2. Len(chain[q]) \in Nat /\ next[q] \in Nat
      BY <1>4
    <3>3. (Len(chain[q]) + 1) + (next[q] - 1) = Len(chain[q]) + next[q]
      BY <3>2
    <3> QED
      BY <1>5, <3>1, <3>3
  <2> QED
    BY <1>1, <1>10, <1>11, <2>1 DEF Served
<1>14. /\ TableExact' /\ Stacked' /\ GlobalCells' /\ (\A i \in 1..len' : cells'[i] # Nil)
       /\ \A p \in Request \ {q} : (Idle(p) /\ Served(p) /\ InPlace(p) /\ Apart(p))'
  BY <1>1, <1>9, Frames, OthersStep
<1>15. TypeOK'
  BY <1>1, <1>9 DEF TypeOK
<1> QED
  BY <1>12, <1>13, <1>14, <1>15 DEF IInv, Passing

LEMMA HandleInv == ASSUME IInv, NEW q \in Request, Handle(q) PROVE IInv'
<1>1. /\ phase[q] = "applying" /\ next[q] = 0 /\ phase' = [phase EXCEPT ![q] = "done"]
      /\ TypeOK /\ Served(q) /\ InPlace(q) /\ Apart(q)
      /\ UNCHANGED <<cells, len, stack, opened, routeSet, serving, row, todo, slice, next, chain>>
  BY DEF Handle, IInv, Passing, table
<1>2. /\ phase' \in [Request -> {"off", "copying", "applying", "done"}] /\ phase'[q] = "done"
      /\ \A p \in Request \ {q} :
            /\ phase'[p] = phase[p] /\ row'[p] = row[p] /\ todo'[p] = todo[p]
            /\ slice'[p] = slice[p] /\ next'[p] = next[p] /\ chain'[p] = chain[p]
  BY <1>1 DEF TypeOK
<1>3. OwnOf(q)' = OwnOf(q)
  BY <1>1 DEF OwnOf
<1>4. Idle(q)' /\ Served(q)' /\ InPlace(q)' /\ Apart(q)'
  BY <1>1, <1>2, <1>3 DEF Idle, Served, InPlace, Apart
<1>5. /\ TableExact' /\ Stacked' /\ GlobalCells' /\ (\A i \in 1..len' : cells'[i] # Nil)
      /\ \A p \in Request \ {q} : (Idle(p) /\ Served(p) /\ InPlace(p) /\ Apart(p))'
  BY <1>1, <1>2, Frames, OthersStep
<1>6. TypeOK'
  BY <1>1, <1>2 DEF TypeOK
<1> QED
  BY <1>4, <1>5, <1>6 DEF IInv, Passing

LEMMA ReturnInv == ASSUME IInv, NEW q \in Request, Return(q) PROVE IInv'
<1>1. /\ phase[q] = "done" /\ TypeOK /\ Served(q)
      /\ phase' = [phase EXCEPT ![q] = "off"] /\ row' = [row EXCEPT ![q] = 0]
      /\ slice' = [slice EXCEPT ![q] = <<>>] /\ chain' = [chain EXCEPT ![q] = <<>>]
      /\ UNCHANGED <<cells, len, stack, opened, routeSet, serving, todo, next>>
  BY DEF Return, IInv, Passing, table
<1>2. <<>> \in Seq(Middleware)
  BY EmptySeq
<1>3. /\ phase' \in [Request -> {"off", "copying", "applying", "done"}] /\ phase'[q] = "off"
      /\ row' \in [Request -> Nat] /\ row'[q] = 0
      /\ slice' \in [Request -> Seq(Middleware)] /\ slice'[q] = <<>>
      /\ chain' \in [Request -> Seq(Middleware)] /\ chain'[q] = <<>>
      /\ \A p \in Request \ {q} :
            /\ phase'[p] = phase[p] /\ row'[p] = row[p] /\ todo'[p] = todo[p]
            /\ slice'[p] = slice[p] /\ next'[p] = next[p] /\ chain'[p] = chain[p]
  BY <1>1, <1>2 DEF TypeOK
<1>4. Idle(q)' /\ Served(q)' /\ InPlace(q)' /\ Apart(q)'
  BY <1>1, <1>3 DEF Idle, Served, InPlace, Apart
<1>5. /\ TableExact' /\ Stacked' /\ GlobalCells' /\ (\A i \in 1..len' : cells'[i] # Nil)
      /\ \A p \in Request \ {q} : (Idle(p) /\ Served(p) /\ InPlace(p) /\ Apart(p))'
  BY <1>1, <1>3, Frames, OthersStep
<1>6. TypeOK'
  <2>1. \A p \in Request : row'[p] <= Len(stack'[1].routes)
    <3>1. Len(stack[1].routes) \in Nat
      <4>1. stack[1] \in Frame
        BY <1>1, Frames
      <4> QED
        BY <4>1, LenProperties DEF Frame
    <3>2. \A p \in Request : row[p] <= Len(stack[1].routes)
      BY <1>1 DEF TypeOK
    <3> QED
      BY <1>1, <1>3, <3>1, <3>2
  <2>2. \A p \in Request : todo'[p] # {} <=> phase'[p] = "copying"
    BY <1>1, <1>3 DEF TypeOK
  <2> QED
    BY <1>1, <1>3, <2>1, <2>2 DEF TypeOK
<1> QED
  BY <1>4, <1>5, <1>6 DEF IInv, Passing

-----------------------------------------------------------------------------
(* The theorems *)

LEMMA StepInv == IInv /\ [Next]_vars => IInv'
<1> SUFFICES ASSUME IInv, [Next]_vars PROVE IInv'
  OBVIOUS
<1>1. CASE Use
  BY <1>1, UseInv
<1>2. ASSUME NEW g \in Group, OpenGroup(g) PROVE IInv'
  BY <1>2, OpenGroupInv
<1>3. ASSUME NEW d \in Route, Add(d) PROVE IInv'
  BY <1>3, AddInv
<1>4. CASE CloseGroup
  BY <1>4, CloseGroupInv
<1>5. CASE Listen
  BY <1>5, ListenInv
<1>6. ASSUME NEW q \in Request, Serve(q) \/ Copy(q) \/ Apply(q) \/ Handle(q) \/ Return(q)
      PROVE  IInv'
  BY <1>6, ServeInv, CopyInv, ApplyInv, HandleInv, ReturnInv
<1>7. CASE UNCHANGED vars
  <2>1. TypeOK' /\ GlobalCells'
    BY <1>7 DEF vars, table, dispatch, IInv, TypeOK, GlobalCells
  <2>2. TableExact' /\ Stacked'
    BY <1>7 DEF vars, table, IInv, TableExact, Stacked, Routes, Top
  <2>3. ASSUME NEW q \in Request PROVE (Idle(q) /\ Served(q) /\ InPlace(q) /\ Apart(q))'
    <3>1. Idle(q) /\ Served(q) /\ InPlace(q) /\ Apart(q)
      BY DEF IInv, Passing
    <3>2. UNCHANGED vars /\ OwnOf(q)' = OwnOf(q)
      BY <1>7 DEF vars, table, dispatch, OwnOf
    <3> QED
      BY <3>1, <3>2 DEF vars, table, dispatch, Idle, Served, InPlace, Apart
  <2> QED
    BY <2>1, <2>2, <2>3 DEF IInv, Passing
<1> QED
  BY <1>1, <1>2, <1>3, <1>4, <1>5, <1>6, <1>7 DEF Next

LEMMA Invariance == Spec => []IInv
  BY InitInv, StepInv, PTL DEF Spec

\* The state of the router and of every request keeps its type: the stack
\* always holds the root, and no request points past the table it matched in.
THEOREM TypeCorrect == Spec => []TypeOK
<1>1. IInv => TypeOK
  BY DEF IInv
<1> QED
  BY <1>1, Invariance, PTL

\* However groups nest, the table holds one row for each key add has accepted,
\* with the middleware of the groups its route stands in and then its own
\* (router.go:106-126 and 305-319).
THEOREM TableRegistered == Spec => []TableExact
<1>1. IInv => TableExact
  BY DEF IInv
<1> QED
  BY <1>1, Invariance, PTL

\* However many requests append to the shared array at once, each passes the
\* global middleware first, in the order of Use, and as many in all as its
\* route has (router.go:351 and 368-373).
THEOREM GlobalMiddleware == Spec => []GlobalFirst
<1>1. ASSUME IInv PROVE GlobalFirst
  <2> SUFFICES ASSUME NEW q \in Request, phase[q] = "done"
               PROVE  IsPrefix(Global, chain[q]) /\ Len(chain[q]) = len + Len(OwnOf(q))
    BY DEF GlobalFirst
  <2>1. /\ TypeOK /\ GlobalCells /\ next[q] = 0 /\ Len(chain[q]) + next[q] = len + Len(OwnOf(q))
        /\ \A j \in DOMAIN chain[q] : next[q] + j <= len => chain[q][j] = Uses[next[q] + j]
    BY <1>1 DEF IInv, Passing, Served
  <2>2. /\ len \in Nat /\ Len(OwnOf(q)) \in Nat /\ chain[q] \in Seq(Middleware)
        /\ Len(chain[q]) \in Nat /\ DOMAIN chain[q] = 1..Len(chain[q])
    BY <2>1, Frames, OwnType, LenProperties DEF TypeOK
  <2>3. Len(chain[q]) = len + Len(OwnOf(q))
    BY <2>1, <2>2
  <2>4. \A j \in 1..len : /\ chain[q][j] = Uses[j] /\ Uses[j] \in Middleware
                          /\ chain[q][j] \in Middleware
    <3> SUFFICES ASSUME NEW j \in 1..len
                 PROVE  chain[q][j] = Uses[j] /\ Uses[j] \in Middleware
      OBVIOUS
    <3>1. j \in DOMAIN chain[q] /\ j \in 1..Len(Uses) /\ next[q] + j = j
      BY <2>1, <2>2, <2>3, Frames DEF GlobalCells
    <3>2. Uses[j] \in Middleware
      BY <2>1, <3>1, Frames, ElementOfSeq
    <3>3. chain[q][j] = Uses[j]
      BY <2>1, <3>1
    <3> QED
      BY <3>2, <3>3
  <2>5. /\ Global \in Seq(Middleware) /\ Len(Global) = len
        /\ \A j \in 1..len : Global[j] = Uses[j]
    <3>1. /\ SubSeq(Uses, 1, len) \in Seq(Middleware)
          /\ Len(SubSeq(Uses, 1, len)) = IF 1 <= len THEN len - 1 + 1 ELSE 0
          /\ \A j \in 1..len - 1 + 1 : SubSeq(Uses, 1, len)[j] = Uses[1 + j - 1]
      BY <2>2, <2>4, SubSeqProperties
    <3> QED
      BY <2>2, <3>1 DEF Global
  <2>6. ASSUME NEW s, \A j \in 1..len : s[j] = Uses[j]
        PROVE  SubSeq(s, 1, len) = [j \in 1..len |-> Uses[j]]
    <3>1. SubSeq(s, 1, len) = [j \in 1..(1 + len - 1) |-> s[1 + j - 1]]
      BY <2>2
    <3> QED
      BY <2>2, <2>6, <3>1
  <2>7. SubSeq(Global, 1, len) = SubSeq(chain[q], 1, len)
    BY <2>4, <2>5, <2>6
  <2> QED
    BY <2>2, <2>3, <2>5, <2>7 DEF IsPrefix
<1> QED
  BY <1>1, Invariance, PTL
=============================================================================
