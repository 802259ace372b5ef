------------------------------- MODULE Router -------------------------------
(***************************************************************************)
(* http.Router: routes and middleware are registered, then requests are    *)
(* served, each in a goroutine of its own.  r.middleware is a Go slice:    *)
(* `cells` is its backing array and `len` its length, and dispatch appends *)
(* the middleware of the matched route to it, which writes to the array    *)
(* all requests share when it has room.                                    *)
(***************************************************************************)
EXTENDS Integers, SequencesExt

CONSTANTS
    Middleware, Route, Group, Request,
    Root,       \* the router itself, as the parent of top-level groups
    Parent,     \* Parent[g]: the group g is nested in, or Root
    In,         \* In[d]: the group whose fn registers route d, or Root
    Key,        \* Key[d]: [method, pattern], the prefixes of its groups included
    Own,        \* Own[d]: the middleware passed with route d
    OfGroup,    \* OfGroup[g]: the middleware passed to Group
    Matches,    \* Matches[pattern]: the paths matchSegments accepts for it
    Asked,      \* the requests sent: [method, form, path]
    Uses,       \* the middleware passed to Use, in the order of the calls
    Nil         \* an unused cell

Overridable == {"PUT", "PATCH", "DELETE"}

ASSUME ConstantsOK ==
    /\ Parent \in [Group -> Group \cup {Root}] /\ In \in [Route -> Group \cup {Root}]
    /\ Own \in [Route -> Seq(Middleware)] /\ OfGroup \in [Group -> Seq(Middleware)]
    /\ Nil \notin Middleware
    /\ Uses \in Seq(Middleware)

\* Group is called on a router that exists: no group stands inside itself.
ASSUME GroupsNest ==
    /\ IsFiniteSet(Group) /\ Root \notin Group
    /\ \E depth \in [Group \cup {Root} -> 0..Cardinality(Group)] :
          \A g \in Group : depth[Parent[g]] < depth[g]

VARIABLES
    cells,      \* the backing array of r.middleware
    len,        \* len(r.middleware)
    stack,      \* the routers whose Group calls are running, the root first
    opened,     \* groups whose Group call has been made
    routeSet,   \* keys add has accepted; one map, shared by all routers
    serving,    \* registration is over
    phase,      \* phase[q]: "off", "copying", "applying" or "done"
    row,        \* row[q]: the index of the route matched, 0 for 404 and 405
    todo,       \* todo[q]: the elements its append has still to copy
    slice,      \* slice[q]: a new array its append allocated, or <<>>
    next,       \* next[q]: the index applyMiddleware reads next
    chain       \* chain[q]: what request q passes through, outermost first

table    == <<cells, len, stack, opened, routeSet, serving>>
dispatch == <<phase, row, todo, slice, next, chain>>
vars     == <<table, dispatch>>

Top    == Last(stack)
Routes == Top.routes

\* A row of r.routes, and the middleware add gives it.
Row(d, m) == [route |-> d, middleware |-> m]

TypeOK ==
    /\ cells \in Seq(Middleware \cup {Nil}) /\ len \in 0..Len(cells)
    /\ \A i \in 1..len : cells[i] # Nil
    /\ stack \in Seq([group : Group \cup {Root}, middleware : Seq(Middleware),
                      routes : Seq([route : Route, middleware : Seq(Middleware)])])
    /\ stack # <<>> /\ stack[1].group = Root
    /\ opened \subseteq Group /\ routeSet \subseteq {Key[d] : d \in Route}
    /\ serving \in BOOLEAN /\ (serving => Len(stack) = 1)
    /\ phase \in [Request -> {"off", "copying", "applying", "done"}]
    /\ row \in [Request -> Nat] /\ todo \in [Request -> SUBSET Nat]
    /\ slice \in [Request -> Seq(Middleware)] /\ chain \in [Request -> Seq(Middleware)]
    /\ next \in [Request -> Nat]
    /\ \A q \in Request : row[q] <= Len(stack[1].routes)
    /\ \A q \in Request : todo[q] # {} <=> phase[q] = "copying"

Init ==
    /\ cells = <<>> /\ len = 0
    /\ stack = <<[group |-> Root, middleware |-> <<>>, routes |-> <<>>]>>
    /\ opened = {} /\ routeSet = {} /\ serving = FALSE
    /\ phase = [q \in Request |-> "off"] /\ row = [q \in Request |-> 0]
    /\ todo = [q \in Request |-> {}] /\ slice = [q \in Request |-> <<>>]
    /\ next = [q \in Request |-> 0] /\ chain = [q \in Request |-> <<>>]

-----------------------------------------------------------------------------
(* Registration, in one goroutine *)

\* A slice that is full moves to an array of twice the size.
Grown == IF len < Len(cells) THEN cells
         ELSE cells \o [i \in 1..(IF len = 0 THEN 1 ELSE len) |-> Nil]

\* Use on the root router.  A Use on the router of a group changes only a
\* slice that no dispatch reads.
Use ==
    /\ ~serving /\ Len(stack) = 1 /\ len < Len(Uses)
    /\ cells' = [Grown EXCEPT ![len + 1] = Uses[len + 1]]
    /\ len' = len + 1
    /\ UNCHANGED <<stack, opened, routeSet, serving, dispatch>>

\* Group: the child starts from the routes of its parent.
OpenGroup(g) ==
    /\ ~serving /\ g \notin opened /\ Parent[g] = Top.group
    /\ stack' = Append(stack, [group |-> g, routes |-> Routes,
                               middleware |-> Top.middleware \o OfGroup[g]])
    /\ opened' = opened \cup {g}
    /\ UNCHANGED <<cells, len, routeSet, serving, dispatch>>

\* Mutant: the routes of the child are not taken back.
CloseGroupDropping ==
    /\ Len(stack) > 1
    /\ stack' = Front(stack)
    /\ UNCHANGED <<cells, len, opened, routeSet, serving, dispatch>>

\* fn has returned: r.routes = child.routes
CloseGroup ==
    /\ Len(stack) > 1
    /\ stack' = [Front(stack) EXCEPT ![Len(stack) - 1].routes = Routes]
    /\ UNCHANGED <<cells, len, opened, routeSet, serving, dispatch>>

\* add: the first route of a key wins, a later one is ignored.
Add(d) ==
    /\ ~serving /\ In[d] = Top.group
    /\ IF Key[d] \in routeSet
       THEN UNCHANGED <<stack, routeSet>>
       ELSE /\ stack' = [stack EXCEPT ![Len(stack)].routes =
                            Append(@, Row(d, Top.middleware \o Own[d]))]
            /\ routeSet' = routeSet \cup {Key[d]}
    /\ UNCHANGED <<cells, len, opened, serving, dispatch>>

Listen ==
    /\ ~serving /\ Len(stack) = 1
    /\ serving' = TRUE
    /\ UNCHANGED <<cells, len, stack, opened, routeSet, dispatch>>

-----------------------------------------------------------------------------
(* ServeHTTP *)

\* A POST may carry another method in its form.
Effective(method, form) ==
    IF method = "POST" /\ form \in Overridable THEN form ELSE method

\* The first row with the method and a pattern that fits, 0 if there is none.
Match(method, path) ==
    SelectInSeq(Routes, LAMBDA r : /\ Key[r.route].method = method
                                   /\ path \in Matches[Key[r.route].pattern])

\* append(r.middleware, rt.middleware...): in place when the array has room,
\* else in a new one.
Dispatch(q, i) ==
    LET own  == Routes[i].middleware
        fits == len + Len(own) <= Len(cells)
    IN
    /\ row' = [row EXCEPT ![q] = i]
    /\ next' = [next EXCEPT ![q] = len + Len(own)]
    /\ phase' = [phase EXCEPT ![q] = IF own # <<>> /\ fits THEN "copying" ELSE "applying"]
    /\ todo' = [todo EXCEPT ![q] = IF fits THEN DOMAIN own ELSE {}]
    /\ slice' = [slice EXCEPT ![q] = IF fits THEN <<>> ELSE SubSeq(cells, 1, len) \o own]

\* 404 and 405: the global middleware alone.
DispatchNone(q) ==
    /\ next' = [next EXCEPT ![q] = len]
    /\ phase' = [phase EXCEPT ![q] = "applying"]
    /\ UNCHANGED <<row, todo, slice>>

Serve(q) ==
    /\ serving /\ phase[q] = "off"
    /\ \E a \in Asked :
          LET i == Match(Effective(a.method, a.form), a.path) IN
          IF i = 0 THEN DispatchNone(q) ELSE Dispatch(q, i)
    /\ UNCHANGED <<table, chain>>

\* The middleware of the row of q, none for 404 and 405.
OwnOf(q) == IF row[q] = 0 THEN <<>> ELSE stack[1].routes[row[q]].middleware

\* Mutant: the copy starts one cell early.
CopyOverLast(q) ==
    /\ phase[q] = "copying"
    /\ cells' = [cells EXCEPT ![len] = OwnOf(q)[1]]
    /\ todo' = [todo EXCEPT ![q] = {}]
    /\ phase' = [phase EXCEPT ![q] = "applying"]
    /\ UNCHANGED <<len, stack, opened, routeSet, serving, row, slice, next, chain>>

\* One element of the append; the order of the copy is the runtime's.
Copy(q) ==
    /\ phase[q] = "copying"
    /\ \E k \in todo[q] :
          /\ cells' = [cells EXCEPT ![len + k] = OwnOf(q)[k]]
          /\ todo' = [todo EXCEPT ![q] = @ \ {k}]
          /\ phase' = [phase EXCEPT ![q] = IF todo[q] = {k} THEN "applying" ELSE @]
    /\ UNCHANGED <<len, stack, opened, routeSet, serving, row, slice, next, chain>>

\* One turn of applyMiddleware, which wraps from the last to the first.
Apply(q) ==
    /\ phase[q] = "applying" /\ next[q] > 0
    /\ LET i == next[q] IN
       chain' = [chain EXCEPT ![q] = <<IF slice[q] # <<>> THEN slice[q][i] ELSE cells[i]>> \o @]
    /\ next' = [next EXCEPT ![q] = @ - 1]
    /\ UNCHANGED <<table, phase, row, todo, slice>>

\* h(ctx)
Handle(q) ==
    /\ phase[q] = "applying" /\ next[q] = 0
    /\ phase' = [phase EXCEPT ![q] = "done"]
    /\ UNCHANGED <<table, row, todo, slice, next, chain>>

Return(q) ==
    /\ phase[q] = "done"
    /\ phase' = [phase EXCEPT ![q] = "off"] /\ row' = [row EXCEPT ![q] = 0]
    /\ slice' = [slice EXCEPT ![q] = <<>>] /\ chain' = [chain EXCEPT ![q] = <<>>]
    /\ UNCHANGED <<table, todo, next>>

-----------------------------------------------------------------------------
Next == \/ Use
        \/ \E g \in Group : OpenGroup(g)
        \/ \E d \in Route : Add(d)
        \/ CloseGroup \/ Listen
        \/ \E q \in Request : Serve(q) \/ Copy(q) \/ Apply(q) \/ Handle(q) \/ Return(q)

Spec == Init /\ [][Next]_vars

-----------------------------------------------------------------------------
(* Properties *)

\* The middleware of the groups around a route, outermost first.
Around[g \in Group \cup {Root}] ==
    IF g = Root THEN <<>> ELSE Around[Parent[g]] \o OfGroup[g]

\* The table is what was registered, through any nesting of groups: the keys
\* add has accepted are the keys of the rows, one row each, though the set is
\* shared by all routers and the rows are copied down and back
\* (router.go:118-126, 307 and 318); and each row carries the middleware of
\* the groups its route stands in and of no other (TestGroupMiddleware,
\* TestGroupMiddlewareNotAppliedOutsideGroup).
TableExact ==
    /\ {Key[r.route] : r \in ToSet(Routes)} = routeSet
    /\ \A i, j \in DOMAIN Routes : Key[Routes[i].route] = Key[Routes[j].route] => i = j
    /\ \A r \in ToSet(Routes) : r.middleware = Around[In[r.route]] \o Own[r.route]

Global == SubSeq(Uses, 1, len)

\* Every request, 404 and 405 included, passes the global middleware first, in
\* the order of Use, and then as many as its route has, although requests
\* write to the array the global middleware is in (router.go:351 and 368-373).
\* The first registered is the outermost; docs/STRUCTURE.md:53 says the last is.
GlobalFirst ==
    \A q \in Request : phase[q] = "done" =>
        IsPrefix(Global, chain[q]) /\ Len(chain[q]) = len + Len(OwnOf(q))

\* router.go:304: "Routes defined inside fn inherit the global middleware plus
\* any group-level middleware."
GroupMiddlewareRuns ==
    \A q \in Request : phase[q] = "done" => ToSet(OwnOf(q)) \subseteq ToSet(chain[q])
=============================================================================
