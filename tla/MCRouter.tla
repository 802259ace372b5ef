------------------------------ MODULE MCRouter ------------------------------
(***************************************************************************)
(* A group g with the middleware m1 and, in it, a group h with m2.  Route  *)
(* r1 stands in g, r2 in h with m3 of its own, r3 outside, r4 repeats the  *)
(* key of r3.  After three calls of Use the array has one cell to spare,   *)
(* after five three cells.                                                 *)
(***************************************************************************)
EXTENDS Router

CONSTANTS g, h, r1, r2, r3, r4, a, b, c, d, e, m1, m2, m3, pg, ph, pr

UsesMC    == <<a, b, c, d, e>>
RouteMC   == {r1, r2, r3, r4}
GroupMC   == {g, h}
ParentMC  == [x \in GroupMC |-> IF x = g THEN Root ELSE g]
InMC      == [x \in RouteMC |-> CASE x = r1 -> g [] x = r2 -> h [] OTHER -> Root]
OwnMC     == [x \in RouteMC |-> CASE x \in {r2, r3} -> <<m3>> [] OTHER -> <<>>]
OfGroupMC == [x \in GroupMC |-> IF x = g THEN <<m1>> ELSE <<m2>>]
KeyMC     == [x \in RouteMC |-> CASE x = r1 -> [method |-> "GET",  pattern |-> pg]
                                  [] x = r2 -> [method |-> "POST", pattern |-> ph]
                                  [] OTHER  -> [method |-> "PUT",  pattern |-> pr]]
MatchesMC == [x \in {pg, ph, pr} |-> {x}]
AskedMC   == { [method |-> "GET",  form |-> "",    path |-> pg],
               [method |-> "POST", form |-> "",    path |-> ph],
               [method |-> "POST", form |-> "PUT", path |-> pr],
               [method |-> "POST", form |-> "GET", path |-> pg] }
=============================================================================
