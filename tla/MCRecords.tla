------------------------------ MODULE MCRecords ------------------------------
(* A small instance of Records for TLC. *)
EXTENDS Records

CONSTANTS c1, c2, a, b, k1, k2

MCId == 1..2

Call1(call, col, vals) == [call |-> call, col |-> col, vals |-> vals]

Ascending  == <<[call |-> "OrderBy", dir |-> "ASC"]>>
Descending == <<Call1("WhereIn", "id", {}),
                [call |-> "OrderBySafe", dir |-> "DESC", allowed |-> TRUE]>>

\* Chains that meet each way of combining conditions with the scope, and the
\* empty list.
MCChains ==
    {<<Call1("WhereIn", "id", {})>>,
     <<Call1("Where", "name", {a}), Call1("OrWhere", "id", {1})>>}

Walk1(mode, chain, size) == [mode |-> mode, chain |-> chain, size |-> size]

MCWalks ==
    {Walk1("chunk", <<>>, 1), Walk1("chunk", Descending, 1), Walk1("chunk", Ascending, 0),
     Walk1("pages", Descending, 1), Walk1("pages", Ascending, 0),
     Walk1("typed", Ascending, 1), Walk1("typed", Ascending, 0)}

By(kind, chain, name, tx) == [kind |-> kind, chain |-> chain, name |-> name, tx |-> tx]
Row1 == <<Call1("Where", "id", {1})>>
Row2 == <<Call1("WhereIn", "id", {2})>>

\* Two bodies that lock rows in opposite orders, one that inserts, and one
\* that uses the model on a row it has changed.
MCBodies ==
    {<<By("rename", Row1, b, TRUE), By("delete", Row2, None, TRUE)>>,
     <<By("rename", Row2, b, TRUE), By("rename", Row1, a, TRUE)>>,
     <<By("insert", <<>>, a, TRUE), By("delete", <<Call1("WhereIn", "id", {})>>, None, TRUE)>>,
     <<By("rename", Row1, b, TRUE), By("rename", Row1, a, FALSE)>>}

MCMenus ==
    {(c1 :> {"walk"}) @@ (c2 :> {"create", "destroy"}),
     (c1 :> {"first", "update", "save", "delete"}) @@ (c2 :> {"first", "update", "destroy"}),
     (c1 :> {"tx"}) @@ (c2 :> {"tx", "save"}),
     (c1 :> {"chain", "restore"}) @@ (c2 :> {"hooked"})}
=============================================================================
