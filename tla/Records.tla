------------------------------ MODULE Records ------------------------------
(***************************************************************************)
(* db.Model, its observers, db.Repository and db.Transaction on one table: *)
(* clients that run their calls statement by statement, on connections of  *)
(* one pool, beside open transactions whose rows are locked.               *)
(*                                                                         *)
(* The database is external: a statement is atomic and reads what is       *)
(* committed and what its own transaction has done; a row a transaction    *)
(* has updated is locked until it is over; INSERT takes the next id; a     *)
(* cycle of transactions that wait for each other is broken.               *)
(***************************************************************************)
EXTENDS QueryBuilder

CONSTANTS
    Client,
    Conn,       \* the connections of the pool, DB_MAX_OPEN_CONNS of them
    SoftDelete, \* Model.SoftDelete
    Menus,      \* divisions of the calls among the clients
    Chains,     \* chains of builder calls
    Walks,      \* the walks: a chain, and the size of a batch or page
    Bodies      \* what fn does: sequences of statements

Mode == {"chunk", "pages", "typed"}

\* A statement of fn; only INSERT and a change of the name have a name.
BodyStatement ==
    [kind : {"insert", "rename"}, chain : Seq(BuilderCall), name : Name, tx : BOOLEAN]
    \cup [kind : {"trash", "restore", "delete"}, chain : Seq(BuilderCall), name : {None},
          tx : BOOLEAN]

ASSUME RecordsOK ==
    /\ SoftDelete \in BOOLEAN
    /\ None \notin Conn
    /\ Chains \subseteq Seq(BuilderCall)
    /\ Walks \subseteq [mode : Mode, chain : Seq(BuilderCall), size : Int]
    /\ Bodies \subseteq Seq(BodyStatement)

VARIABLES
    rows,       \* the committed table
    next,       \* the next AUTO_INCREMENT id
    draft,      \* draft[i]: [by, row], what an open transaction made of row i
    pc,         \* pc[c]: what client c does next
    stmt,       \* stmt[c]: the statement it is about to send, or None
    walk,       \* walk[c]: its Chunk or its walk through the pages, or None
    conn,       \* conn[c]: the connection of its transaction, or None
    body,       \* body[c]: the statements its fn still has to send
    menu,       \* menu[c]: the calls client c makes
    leaked      \* connections whose transaction nobody will end

data == <<rows, next, draft>>
txs  == <<conn, body, leaked, menu>>
vars == <<data, pc, stmt, walk, txs>>

Place == {"idle", "hooks", "write", "told", "look", "find",
          "count", "batch", "fn", "walked", "begin", "tx"}

Kind == {"insert", "rename", "trash", "restore", "delete"}

\* then: where Exec goes on; found: where a lookup that finds a row does; scoped
\* and sure are history: the model has added its scope, and nothing speaks
\* against what the lookup has found.
Statement == [kind : Kind, q : Query, name : Name \cup {None}, then : Place, tx : BOOLEAN,
              scoped : BOOLEAN, sure : BOOLEAN, found : {"idle", "write"}]

Touring == [mode : Mode, q : Query, size : Int, at : Int, scoped : BOOLEAN, last : BOOLEAN,
            seen : [Id -> 0..2], stayed : SUBSET Id, joined : BOOLEAN, left : BOOLEAN]

ASSUME NoneIsNoRecord == None \notin Statement \cup Touring

TypeOK ==
    /\ rows \in Table /\ next \in Nat
    /\ draft \in [Id -> [by : Conn, row : Row \cup {None}] \cup {None}]
    /\ pc \in [Client -> Place] /\ menu \in Menus
    /\ conn \in [Client -> Conn \cup {None}] /\ leaked \subseteq Conn
    /\ stmt \in [Client -> Statement \cup {None}]
    /\ walk \in [Client -> Touring \cup {None}]
    /\ body \in [Client -> Seq(BodyStatement)]
    /\ \A c \in Client :
          /\ pc[c] \in {"hooks", "write", "look"} <=> stmt[c] # None
          /\ stmt[c] # None => (stmt[c].tx => conn[c] # None)
          /\ pc[c] \in {"count", "batch", "fn", "walked"} => walk[c] # None
          /\ pc[c] = "tx" => conn[c] # None
          /\ conn[c] # None => conn[c] \notin leaked
          /\ \A d \in Client \ {c} : conn[c] = conn[d] => conn[c] = None
    /\ \A i \in Id : draft[i] # None =>
          draft[i].by \in leaked \cup {conn[c] : c \in Client}

Init ==
    /\ rows = [i \in Id |-> None] /\ next = 1
    /\ draft = [i \in Id |-> None]
    /\ pc = [c \in Client |-> "idle"]
    /\ stmt = [c \in Client |-> None] /\ walk = [c \in Client |-> None]
    /\ conn = [c \in Client |-> None] /\ body = [c \in Client |-> <<>>]
    /\ leaked = {} /\ menu \in Menus

-----------------------------------------------------------------------------
(* The database *)

\* The table as a statement on connection k sees it, or outside (None).
View(k) ==
    [i \in Id |-> IF draft[i] # None /\ draft[i].by = k THEN draft[i].row ELSE rows[i]]

Free == Conn \ (leaked \cup {conn[c] : c \in Client})

Via(c) == IF stmt[c].tx THEN conn[c] ELSE None

\* The rows the WHERE of its statement selects; LIMIT is not part of it.
Affected(c) ==
    IF stmt[c].kind = "insert" THEN {} ELSE Selected(View(Via(c)), stmt[c].q)

Locked(c) == {i \in Affected(c) : draft[i] # None /\ draft[i].by # Via(c)}

Blocked(c) == Locked(c) # {} \/ (~stmt[c].tx /\ Free = {})

\* What a statement makes of a row it affects.
Changed(r, s) ==
    CASE s.kind = "rename"  -> [r EXCEPT !.name = s.name]
      [] s.kind = "trash"   -> [r EXCEPT !.trash = TRUE]
      [] s.kind = "restore" -> [r EXCEPT !.trash = FALSE]
      [] s.kind = "delete"  -> None

Written(c) ==
    LET t == View(Via(c)) s == stmt[c] hit == Affected(c) IN
    [i \in Id |->
        IF s.kind = "insert" /\ i = next THEN [name |-> s.name, trash |-> FALSE]
        ELSE IF i \in hit THEN Changed(t[i], s) ELSE t[i]]

\* History: a walk remembers what has entered and left its selection, and
\* forgets what it has shown when that can no longer be judged.
Watched(w, new) ==
    LET before == Selected(rows, w.q) after == Selected(new, w.q)
        joined == w.joined \/ after \ before # {}
        left   == w.left \/ before \ after # {}
        moot   == joined /\ (left \/ w.mode # "chunk")
    IN  [w EXCEPT !.joined = joined, !.left = left \/ moot,
                  !.stayed = IF moot THEN {} ELSE @ \cap after,
                  !.seen = IF moot THEN [i \in Id |-> 0] ELSE @]

\* History: a lookup no longer holds once something has been committed.
Doubt(s) == IF s = None THEN None ELSE [s EXCEPT !.sure = FALSE]

\* A new committed table, by a step of client c that goes on with s.
Publish(c, new, s) ==
    /\ rows' = new
    /\ walk' = [d \in Client |-> IF walk[d] = None THEN None ELSE Watched(walk[d], new)]
    /\ stmt' = [d \in Client |-> IF d = c THEN s
                                 ELSE IF new = rows THEN stmt[d] ELSE Doubt(stmt[d])]

\* The statement is executed ...
Exec(c) ==
    LET s == stmt[c] new == Written(c) IN
    /\ pc[c] = "write" /\ ~Blocked(c)
    /\ s.kind = "insert" => next \in Id
    /\ next' = IF s.kind = "insert" THEN next + 1 ELSE next
    /\ IF s.tx
       THEN /\ draft' = [i \in Id |-> IF i \in Affected(c) \/ new[i] # View(conn[c])[i]
                                      THEN [by |-> conn[c], row |-> new[i]] ELSE draft[i]]
            /\ stmt' = [stmt EXCEPT ![c] = None]
            /\ UNCHANGED <<rows, walk>>
       ELSE /\ Publish(c, new, None)
            /\ UNCHANGED draft
    /\ pc' = [pc EXCEPT ![c] = s.then]
    /\ UNCHANGED txs

\* Where an error takes a client: to the end of fn, or out of the call.
Failed(c) == IF conn[c] # None THEN "tx" ELSE "idle"

Discarded(k) == [i \in Id |-> IF draft[i] # None /\ draft[i].by = k THEN None ELSE draft[i]]

\* ... or it fails: the connection is lost, the ids are used up, or the
\* database breaks a cycle with it, and may undo what its transaction has done.
Fail(c) ==
    /\ pc[c] \in {"write", "find", "count", "batch", "begin"}
    /\ pc' = [pc EXCEPT ![c] = Failed(c)]
    /\ stmt' = [stmt EXCEPT ![c] = None]
    /\ walk' = [walk EXCEPT ![c] = None]
    /\ draft' = draft \/ (stmt[c] # None /\ stmt[c].tx /\ draft' = Discarded(conn[c]))
    /\ UNCHANGED <<rows, next, txs>>

Used(c) == pc[c] = "write" /\ stmt[c].kind = "insert" /\ next \notin Id

\* Transactions that wait for locks of each other.
Cycle(S) ==
    /\ S # {}
    /\ \A c \in S : /\ pc[c] = "write" /\ stmt[c].tx
                    /\ \E i \in Locked(c) : \E d \in S : conn[d] = draft[i].by

MustFail(c) == Used(c) \/ \E S \in SUBSET Client : c \in S /\ Cycle(S)

-----------------------------------------------------------------------------
(* Model *)

\* Mutant: the scope of soft deletion is left out.
ModelQueryUnscoped == From

\* Query: a fresh builder, with the rows in the trash excluded.
ModelQuery == IF SoftDelete THEN WhereNull(From) ELSE From

OnlyTrashed == WhereNotNull(From)

\* The statement of a call of the model.
Call(kind, q, n, scoped) ==
    [kind |-> kind, q |-> q, name |-> n, then |-> "idle", tx |-> FALSE,
     scoped |-> scoped, sure |-> FALSE, found |-> "idle"]

\* Create and Insert; Query puts no condition in an INSERT.
Create(n) == Call("insert", From, n, FALSE)

\* Update, and Save by primary key: rows in the trash are not updated.
Save(i, n) == Call("rename", Where(ModelQuery, "id", {i}), n, TRUE)

\* Delete removes what it selects for good, whatever SoftDelete says.
Delete(n) == Call("delete", Where(ModelQuery, "name", {n}), None, TRUE)

\* Destroy saves deleted_at, or deletes.
Destroy(i) ==
    Call(IF SoftDelete THEN "trash" ELSE "delete",
         Where(ModelQuery, "id", {i}), None, TRUE)

\* Restore is an Update past the scope.
Restore(i) == Call("restore", Where(From, "id", {i}), None, FALSE)

\* Repository.Update and Delete know nothing of soft deletion.
Repository(n, m) ==
    {Call("rename", Where(From, "name", {n}), m, FALSE),
     Call("delete", Where(From, "name", {n}), None, FALSE)}

\* Query.Update and Query.Delete at the end of a chain.
AtEnd(q, scoped) ==
    {Call("rename", q, n, scoped) : n \in Name} \cup {Call("delete", q, None, scoped)}

\* The chain starts from Query, or from WithTrashed or OnlyTrashed.
Started(ks) ==
    AtEnd(Chain(ModelQuery, ks), TRUE)
    \cup UNION {AtEnd(Chain(q, ks), FALSE) : q \in {From, OnlyTrashed}}

May(c, call) == pc[c] = "idle" /\ call \in menu[c]

\* A client sends a statement of its own.
Send(c, s) ==
    /\ pc' = [pc EXCEPT ![c] = "write"]
    /\ stmt' = [stmt EXCEPT ![c] = s]
    /\ UNCHANGED <<data, walk, conn, leaked, menu>>

Ask(c, s) == Send(c, s) /\ UNCHANGED body

CallCreate(c)  == May(c, "create") /\ \E n \in Name : Ask(c, Create(n))
CallSave(c)    == May(c, "save") /\ \E i \in Id, n \in Name : Ask(c, Save(i, n))
CallDelete(c)  == May(c, "delete") /\ \E n \in Name : Ask(c, Delete(n))
CallDestroy(c) == May(c, "destroy") /\ \E i \in Id : Ask(c, Destroy(i))
CallRestore(c) == May(c, "restore") /\ SoftDelete /\ \E i \in Id : Ask(c, Restore(i))
CallAtEnd(c)   == May(c, "chain") /\ \E ks \in Chains : \E s \in Started(ks) : Ask(c, s)

\* The calls with hooks: ObservedCreate, ObservedSave, ObservedDestroy and
\* the methods of Repository.
Hooked ==
    {Create(n) : n \in Name} \cup {Save(i, n) : i \in Id, n \in Name}
    \cup {Destroy(i) : i \in Id} \cup UNION {Repository(n, m) : n, m \in Name}

CallHooked(c) ==
    /\ May(c, "hooked")
    /\ \E s \in Hooked : stmt' = [stmt EXCEPT ![c] = [s EXCEPT !.then = "told"]]
    /\ pc' = [pc EXCEPT ![c] = "hooks"]
    /\ UNCHANGED <<data, walk, txs>>

\* The first error of Creating, Updating, Deleting or Before... ends the call.
BeforeHooks(c) ==
    /\ pc[c] = "hooks"
    /\ \/ pc' = [pc EXCEPT ![c] = "write"] /\ UNCHANGED stmt
       \/ pc' = [pc EXCEPT ![c] = "idle"] /\ stmt' = [stmt EXCEPT ![c] = None]
    /\ UNCHANGED <<data, walk, txs>>

\* Created, Updated, Deleted and After... run when there was no error, also
\* when the statement has affected no row.  An error of After... is returned.
AfterHooks(c) ==
    /\ pc[c] = "told"
    /\ pc' = [pc EXCEPT ![c] = "idle"]
    /\ UNCHANGED <<data, stmt, walk, txs>>

\* FirstOrCreate(name = n), and UpdateOrCreate(name = n, data) with a name m.
CallFirstOrCreate(c, n) ==
    /\ May(c, "first")
    /\ stmt' = [stmt EXCEPT ![c] =
          [Call("insert", Where(ModelQuery, "name", {n}), n, TRUE)
              EXCEPT !.then = "find", !.sure = TRUE]]
    /\ pc' = [pc EXCEPT ![c] = "look"]
    /\ UNCHANGED <<data, walk, txs>>

CallUpdateOrCreate(c, n, m) ==
    /\ May(c, "update")
    /\ stmt' = [stmt EXCEPT ![c] =
          [Call("insert", Where(ModelQuery, "name", {n}), m, TRUE)
              EXCEPT !.then = "find", !.sure = TRUE, !.found = "write"]]
    /\ pc' = [pc EXCEPT ![c] = "look"]
    /\ UNCHANGED <<data, walk, txs>>

\* The lookup, on a connection of the pool.  Any error, not only
\* sql.ErrNoRows, is taken for a row that is missing.
Look(c) ==
    LET s == stmt[c] IN
    /\ pc[c] = "look" /\ Free # {}
    /\ \/ \E a \in Answers(rows, FirstOf(s.q)) :
             /\ a # <<>>
             /\ pc' = [pc EXCEPT ![c] = s.found]
             /\ stmt' = [stmt EXCEPT ![c] =
                   IF s.found = "idle" THEN None
                   ELSE [Save(a[1], s.name) EXCEPT !.then = "find"]]
       \/ /\ <<>> \in Answers(rows, FirstOf(s.q))
          /\ pc' = [pc EXCEPT ![c] = "write"]
          /\ UNCHANGED stmt
       \/ /\ pc' = [pc EXCEPT ![c] = "write"]
          /\ stmt' = [stmt EXCEPT ![c].sure = FALSE]
    /\ UNCHANGED <<data, walk, txs>>

\* The row is read again, by its key: what is returned to the caller.
Find(c) ==
    /\ pc[c] = "find" /\ Free # {}
    /\ pc' = [pc EXCEPT ![c] = "idle"]
    /\ UNCHANGED <<data, stmt, walk, txs>>

-----------------------------------------------------------------------------
(* Chunk, and a caller who asks Paginate for one page after the other *)

\* mode: "chunk", "pages" (Query.Paginate) or "typed" (TypedQuery.Paginate);
\* at: the offset of the batch, or the number of the page.
Walk(mode, q, n, scoped) ==
    [mode |-> mode, q |-> q, size |-> n, at |-> IF mode = "chunk" THEN 0 ELSE 1,
     scoped |-> scoped, last |-> FALSE, seen |-> [i \in Id |-> 0],
     stayed |-> Selected(rows, q), joined |-> FALSE, left |-> FALSE]

CallWalk(c) ==
    /\ May(c, "walk")
    /\ \E w \in Walks :
          /\ walk' = [walk EXCEPT ![c] = Walk(w.mode, Chain(ModelQuery, w.chain), w.size, TRUE)]
          /\ pc' = [pc EXCEPT ![c] = IF w.mode = "chunk" THEN "batch" ELSE "count"]
    /\ UNCHANGED <<data, stmt, txs>>

\* The next offset or page; beyond the last id there is nothing but empty ones.
Advanced(w) ==
    [w EXCEPT !.at = Lesser(@ + (IF w.mode = "chunk" THEN w.size ELSE 1),
                            Cardinality(Id) + 1)]

\* Paginate counts first; the caller takes the total for the end.
CountRows(c) ==
    LET w == walk[c] n == IF w.mode = "pages" /\ w.size < 1 THEN 15 ELSE w.size IN
    /\ pc[c] = "count" /\ Free # {}
    /\ walk' = [walk EXCEPT ![c].last = w.at * n >= CountOf(rows, w.q)]
    /\ pc' = [pc EXCEPT ![c] = "batch"]
    /\ UNCHANGED <<data, stmt, txs>>

QueryOf(w) ==
    CASE w.mode = "chunk" -> BatchOf(w.q, w.size, w.at)
      [] w.mode = "pages" -> PageOf(w.q, w.at, w.size)
      [] w.mode = "typed" -> TypedPageOf(w.q, w.at, w.size)

\* History: how often each row was shown, up to twice.
Shown(w, s) ==
    IF w.joined /\ w.left THEN w.seen
    ELSE [i \in Id |-> IF i \in s THEN Lesser(w.seen[i] + 1, 2) ELSE w.seen[i]]

\* The rows of a batch or page are read, and handed to fn or the caller.
Batch(c) ==
    LET w == walk[c] IN
    /\ pc[c] = "batch" /\ Free # {}
    /\ \E a \in Answers(rows, QueryOf(w)) :
          IF w.mode = "chunk" /\ a = <<>>
          THEN pc' = [pc EXCEPT ![c] = "walked"] /\ UNCHANGED walk
          ELSE /\ pc' = [pc EXCEPT ![c] = "fn"]
               /\ walk' = [walk EXCEPT
                     ![c].seen = Shown(w, ToSet(a)),
                     ![c].last = IF w.mode = "chunk" THEN Len(a) < w.size ELSE @]
    /\ UNCHANGED <<data, stmt, txs>>

Onward(w) == IF w.last THEN "walked" ELSE IF w.mode = "chunk" THEN "batch" ELSE "count"

\* fn has returned nil, or the caller turns the page.
FnReturns(c) ==
    /\ pc[c] = "fn"
    /\ walk' = [walk EXCEPT ![c] = IF @.last THEN @ ELSE Advanced(@)]
    /\ pc' = [pc EXCEPT ![c] = Onward(walk[c])]
    /\ UNCHANGED <<data, stmt, txs>>

\* Before that it destroys a row.
FnDestroys(c) ==
    /\ pc[c] = "fn"
    /\ \E i \in Id :
          stmt' = [stmt EXCEPT ![c] = [Destroy(i) EXCEPT !.then = Onward(walk[c])]]
    /\ walk' = [walk EXCEPT ![c] = IF @.last THEN @ ELSE Advanced(@)]
    /\ pc' = [pc EXCEPT ![c] = "write"]
    /\ UNCHANGED <<data, txs>>

\* fn has returned an error, which ends Chunk early, or the walk is over.
WalkOver(c) ==
    /\ pc[c] \in {"fn", "walked"}
    /\ pc' = [pc EXCEPT ![c] = "idle"]
    /\ walk' = [walk EXCEPT ![c] = None]
    /\ UNCHANGED <<data, stmt, txs>>

-----------------------------------------------------------------------------
(* Transaction *)

CallTransaction(c) ==
    /\ May(c, "tx")
    /\ pc' = [pc EXCEPT ![c] = "begin"]
    /\ UNCHANGED <<data, stmt, walk, txs>>

\* BeginTx has a connection; which one it gets makes no difference.
Begin(c) ==
    /\ pc[c] = "begin" /\ Free # {}
    /\ conn' = [conn EXCEPT ![c] = CHOOSE k \in Free : TRUE]
    /\ pc' = [pc EXCEPT ![c] = "tx"]
    /\ \E b \in Bodies : body' = [body EXCEPT ![c] = b]
    /\ UNCHANGED <<data, stmt, walk, leaked, menu>>

\* The statement of fn that is next: through TxTable, or, beside the
\* transaction, through the model and another connection.
InTx(b) ==
    [Call(b.kind, IF b.tx THEN TxChain(From, b.chain) ELSE Chain(ModelQuery, b.chain),
          b.name, ~b.tx) EXCEPT !.then = "tx", !.tx = b.tx]

TxSend(c) ==
    /\ pc[c] = "tx" /\ body[c] # <<>>
    /\ Send(c, InTx(Head(body[c])))
    /\ body' = [body EXCEPT ![c] = Tail(@)]

\* The transaction of client c is over.
TxEnds(c) ==
    /\ pc[c] = "tx"
    /\ pc' = [pc EXCEPT ![c] = "idle"]
    /\ conn' = [conn EXCEPT ![c] = None] /\ body' = [body EXCEPT ![c] = <<>>]
    /\ UNCHANGED <<next, menu>>

Commit(c) ==
    /\ body[c] = <<>>
    /\ TxEnds(c)
    /\ Publish(c, View(conn[c]), None)
    /\ draft' = Discarded(conn[c])
    /\ UNCHANGED leaked

\* Mutant: an error of fn is returned without Rollback.
RollbackForgotten(c) ==
    /\ TxEnds(c)
    /\ leaked' = leaked
    /\ UNCHANGED <<rows, draft, stmt, walk>>

\* fn has returned an error, of a statement or of its own, or COMMIT has failed.
Rollback(c) ==
    /\ TxEnds(c)
    /\ draft' = Discarded(conn[c])
    /\ UNCHANGED <<rows, stmt, walk, leaked>>

\* A panic passes through Transaction: nothing ends the transaction.
FnPanics(c) ==
    /\ TxEnds(c)
    /\ leaked' = leaked \cup {conn[c]}
    /\ UNCHANGED <<rows, draft, stmt, walk>>

-----------------------------------------------------------------------------
Calls(c) ==
    \/ CallCreate(c) \/ CallSave(c) \/ CallDelete(c) \/ CallDestroy(c)
    \/ CallRestore(c) \/ CallAtEnd(c) \/ CallHooked(c) \/ CallWalk(c)
    \/ \E n \in Name : CallFirstOrCreate(c, n)
    \/ \E n, m \in Name : CallUpdateOrCreate(c, n, m)
    \/ CallTransaction(c)

\* The steps of a call other than its statement.
Step(c) ==
    \/ BeforeHooks(c) \/ AfterHooks(c) \/ Look(c) \/ Find(c)
    \/ CountRows(c) \/ Batch(c) \/ FnReturns(c) \/ WalkOver(c) \/ Begin(c)

Next ==
    \E c \in Client :
        \/ Calls(c) \/ Step(c) \/ Exec(c) \/ Fail(c) \/ FnDestroys(c)
        \/ TxSend(c) \/ Commit(c) \/ Rollback(c) \/ FnPanics(c)

\* What client c does of itself once a call is made.
Forward(c) ==
    Step(c) \/ Exec(c) \/ (MustFail(c) /\ Fail(c)) \/ TxSend(c) \/ Commit(c)

\* Goroutines are scheduled, fn returns in the end, and row locks and
\* connections are handed out in the order they are asked for: what is
\* possible again and again is done.
Fairness == \A c \in Client : SF_vars(Forward(c))

Spec == Init /\ [][Next]_vars /\ Fairness

-----------------------------------------------------------------------------
(* Properties *)

\* A statement the model has scoped, in a chain with no OR.
Confined(s) == s.scoped /\ \A w \in Range(s.q.wheres) : ~w.or

\* A row in the trash is out of the reach of every scoped call: none shows it
\* and none changes it (model.go:44), whatever the chain that follows, unless
\* it has an OrWhere, which escapes the scope.
TrashOutOfReach ==
    [][\A c \in Client, i \in Id :
          rows[i] # None /\ rows[i].trash =>
             /\ pc[c] = "write" /\ pc'[c] # "write" /\ ~stmt[c].tx /\ Confined(stmt[c])
                   => rows'[i] = rows[i]
             /\ pc[c] = "batch" /\ pc'[c] = "fn" /\ Confined(walk[c])
                   => walk'[c].seen[i] = walk[c].seen[i]]_vars

\* A walk in a definite order that has come to its end (query.go:252, "Chunk
\* processes rows in batches") has shown every row that was there throughout,
\* and none twice, as far as the pages could shift: Chunk skips rows only when
\* others have left, repeats them only when others have joined; pages, whose
\* total is of an earlier moment, skip also when others have joined.
WalkCovers ==
    \A c \in Client :
        LET w == walk[c] IN
        pc[c] = "walked" /\ w.q.orderBy # "" /\ (w.size > 0 \/ w.mode = "pages") =>
           /\ ~w.left /\ (~w.joined \/ w.mode = "chunk") => \A i \in w.stayed : w.seen[i] > 0
           /\ ~w.joined => \A i \in Id : w.seen[i] < 2

\* FirstOrCreate and UpdateOrCreate (model.go:204-266) insert although a row
\* matches only when something was committed during the call, or the lookup
\* failed for another reason than sql.ErrNoRows.
NoLateDuplicate ==
    [][\A c \in Client :
          pc[c] = "write" /\ pc'[c] = "find" /\ stmt[c].kind = "insert" /\ stmt[c].sure
             => Selected(rows, stmt[c].q) = {}]_vars

\* fn waits for a lock of its own transaction, or for a connection when only
\* transactions in the same plight could give one back.
OwnWait(c) ==
    /\ conn[c] # None /\ pc[c] = "write" /\ ~stmt[c].tx
    /\ Free = {} \/ \E i \in Locked(c) : draft[i].by = conn[c]

\* Chunk, and a caller of TypedQuery.Paginate, with a size that is not positive
\* ask for the same rows for ever.
Endless(c) == walk[c] # None /\ walk[c].mode # "pages" /\ walk[c].size < 1

\* Every call ends, in spite of locks, cycles of transactions and rows that
\* come and go, except in three ways the code leaves open: a panic in fn keeps
\* the locks and the connection for ever (db.go:65); fn uses the model beside
\* its own transaction; a size of zero.
CallsEnd ==
    \A c \in Client : (pc[c] # "idle") ~>
        (pc[c] = "idle" \/ leaked # {} \/ (\E d \in Client : OwnWait(d)) \/ Endless(c))
=============================================================================
