---------------------------- MODULE QueryBuilder ----------------------------
(***************************************************************************)
(* db.Query, db.TxQuery and db.TypedQuery: what a chain of builder calls   *)
(* selects from one table.  A query is the record the builder fills in;    *)
(* each builder method is an operator from query to query, and the         *)
(* terminal methods are operators on a table and a query.                  *)
(*                                                                         *)
(* The table maps an id to its row or to None.  Of a row the queries see   *)
(* the id, one more column, and whether deleted_at is null.                *)
(***************************************************************************)
EXTENDS Integers, Sequences, FiniteSets, SequencesExt

CONSTANTS
    Id,         \* values of the primary key, an interval from 1
    Name,       \* values of the other column
    None

ASSUME QueryBuilderOK ==
    /\ Id \subseteq Nat \ {0} /\ IsFiniteSet(Id)
    /\ None \notin Name

Row == [name: Name, trash: BOOLEAN]

Table == [Id -> Row \cup {None}]

-----------------------------------------------------------------------------
(* Conditions *)

\* A condition of q.wheres: IS NULL and IS NOT NULL are about deleted_at, the
\* others compare a column with a set of values ("=" and LIKE with one, IN
\* with a list, BETWEEN with a range).
Condition(c, o, vs, alt) == [col |-> c, op |-> o, vals |-> vs, or |-> alt]

Conditions == [col : {"id", "name", "deleted_at"}, op : {"=", "IS NULL", "IS NOT NULL"},
               vals : SUBSET (Int \cup Name), or : BOOLEAN]

\* The database evaluates one condition on row i.
Satisfies(t, i, w) ==
    CASE w.op = "IS NULL"     -> ~t[i].trash
      [] w.op = "IS NOT NULL" -> t[i].trash
      [] OTHER -> IF w.col = "id" THEN i \in w.vals ELSE t[i].name \in w.vals

\* The text has no parentheses, so AND binds tighter than OR: the conditions
\* fall into groups, each begun by an OR, and one whole group must hold.
Matches(t, i, ws) ==
    ws = <<>> \/ \E a \in DOMAIN ws :
        /\ a = 1 \/ ws[a].or
        /\ \A b \in a..Len(ws) :
              (\E d \in (a + 1)..b : ws[d].or) \/ Satisfies(t, i, ws[b])

-----------------------------------------------------------------------------
(* The builder *)

Query == [wheres : Seq(Conditions), orderBy : {"", "ASC", "DESC"}, limit : Int, offset : Int]

From == [wheres |-> <<>>, orderBy |-> "", limit |-> 0, offset |-> 0]

AddWhere(q, w) == [q EXCEPT !.wheres = Append(@, w)]

Where(q, col, vals)   == AddWhere(q, Condition(col, "=", vals, FALSE))
OrWhere(q, col, vals) == AddWhere(q, Condition(col, "=", vals, TRUE))

\* An empty list adds no condition ...
WhereIn(q, col, vals)   == IF vals = {} THEN q ELSE Where(q, col, vals)
OrWhereIn(q, col, vals) == IF vals = {} THEN q ELSE OrWhere(q, col, vals)

\* ... and in a transaction one that no row satisfies.
TxWhereIn(q, col, vals) == Where(q, col, vals)

WhereNull(q)    == AddWhere(q, Condition("deleted_at", "IS NULL", {}, FALSE))
WhereNotNull(q) == AddWhere(q, Condition("deleted_at", "IS NOT NULL", {}, FALSE))

WhereBetween(q, lo, hi) == Where(q, "id", lo..hi)

\* OrderBy, Latest and Oldest; OrderBySafe leaves a column not allowed out.
OrderBy(q, dir) == [q EXCEPT !.orderBy = dir]
OrderBySafe(q, dir, allowed) ==
    IF ~allowed THEN q ELSE OrderBy(q, IF dir = "DESC" THEN dir ELSE "ASC")

Limit(q, n)  == [q EXCEPT !.limit = n]
Offset(q, n) == [q EXCEPT !.offset = n]

\* The calls a chain is made of.
BuilderCall ==
    [call : {"Where", "OrWhere", "WhereIn", "OrWhereIn"}, col : {"id", "name"},
     vals : SUBSET (Int \cup Name)]
    \cup [call : {"WhereNull", "WhereNotNull"}]
    \cup [call : {"WhereBetween"}, lo : Int, hi : Int]
    \cup [call : {"OrderBy"}, dir : {"ASC", "DESC"}]
    \cup [call : {"OrderBySafe"}, dir : {"ASC", "DESC", ""}, allowed : BOOLEAN]
    \cup [call : {"Limit", "Offset"}, n : Int]

\* One of them on a Query, ...
Called(q, k) ==
    CASE k.call = "Where"        -> Where(q, k.col, k.vals)
      [] k.call = "OrWhere"      -> OrWhere(q, k.col, k.vals)
      [] k.call = "WhereIn"      -> WhereIn(q, k.col, k.vals)
      [] k.call = "OrWhereIn"    -> OrWhereIn(q, k.col, k.vals)
      [] k.call = "WhereNull"    -> WhereNull(q)
      [] k.call = "WhereNotNull" -> WhereNotNull(q)
      [] k.call = "WhereBetween" -> WhereBetween(q, k.lo, k.hi)
      [] k.call = "OrderBy"      -> OrderBy(q, k.dir)
      [] k.call = "OrderBySafe"  -> OrderBySafe(q, k.dir, k.allowed)
      [] k.call = "Limit"        -> Limit(q, k.n)
      [] k.call = "Offset"       -> Offset(q, k.n)

\* ... on a TxQuery, ...
TxCalled(q, k) ==
    IF k.call = "WhereIn" THEN TxWhereIn(q, k.col, k.vals) ELSE Called(q, k)

\* ... and a whole chain, which a TypedQuery hands on call by call.
ChainOf(tx, q, ks) ==
    LET after[n \in 0..Len(ks)] ==
            IF n = 0 THEN q
            ELSE IF tx THEN TxCalled(after[n - 1], ks[n]) ELSE Called(after[n - 1], ks[n])
    IN  after[Len(ks)]

Chain(q, ks)   == ChainOf(FALSE, q, ks)
TxChain(q, ks) == ChainOf(TRUE, q, ks)

-----------------------------------------------------------------------------
(* What is selected *)

Selected(t, q) == {i \in Id : t[i] # None /\ Matches(t, i, q.wheres)}

\* ORDER BY, by id; without it the database may answer in any order.
Before(q, i, j) == CASE q.orderBy = "ASC" -> i < j [] q.orderBy = "DESC" -> i > j [] OTHER -> TRUE

Arrangements(t, q) ==
    {s \in SetToSeqs(Selected(t, q)) :
        \A m, n \in DOMAIN s : m < n => Before(q, s[m], s[n])}

Lesser(m, n) == IF m < n THEN m ELSE n

\* LIMIT and OFFSET are written only when positive.
Window(s, q) ==
    LET first == IF q.offset > 0 THEN q.offset + 1 ELSE 1
        last  == IF q.limit > 0 THEN first + q.limit - 1 ELSE Len(s)
    IN  SubSeq(s, first, Lesser(last, Len(s)))

\* Get: the sequences of ids the database may answer.
Answers(t, q) == {Window(s, q) : s \in Arrangements(t, q)}

\* Mutant: the first row is passed over.
FirstButOne(q) == Offset(Limit(q, 1), 1)

\* First leaves limit 1 behind in the query; no row is sql.ErrNoRows.
FirstOf(q) == Limit(q, 1)

\* Count has no LIMIT, OFFSET or ORDER BY.
CountOf(t, q) == Cardinality(Selected(t, q))

\* Paginate: the query of page p with n rows a page; it stays in the builder.
PageOf(q, p, n) ==
    LET page    == IF p < 1 THEN 1 ELSE p
        perPage == IF n < 1 THEN 15 ELSE n
    IN  Offset(Limit(q, perPage), (page - 1) * perPage)

\* Mutant: pages counted from zero.
TypedPageFromZero(q, p, n) == Offset(Limit(q, n), p * n)

\* TypedQuery.Paginate takes page and perPage as they are.
TypedPageOf(q, p, n) == Offset(Limit(q, n), (p - 1) * n)

\* The query of the batch of Chunk at an offset: a copy, q keeps its own.
BatchOf(q, size, off) == Offset(Limit(q, size), off)
=============================================================================
