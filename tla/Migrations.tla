----------------------------- MODULE Migrations -----------------------------
(***************************************************************************)
(* db/migrate: the Migrator's commands, each a sequence of statements with *)
(* no transaction and no lock around them, run by processes that may end   *)
(* between any two.  The database is the migrations table and the schema   *)
(* that the Up and Down functions change.                                  *)
(***************************************************************************)
EXTENDS Integers, FiniteSets, SequencesExt

CONSTANTS
    N,          \* the migrations are 1..N, in the order of their IDs
    Reversible, \* those with a Down
    Proc,       \* processes that run commands
    MaxSteps,   \* bound on the steps of a rollback
    MaxBatch    \* bound on the batch numbers

ASSUME ConstantsOK ==
    /\ N \in Nat /\ MaxBatch \in Nat /\ MaxSteps \in Nat
    /\ Reversible \subseteq 1..N

Baseline == 0               \* squashID, e.g. "0000_squash_baseline"
Id       == 0..N

VARIABLES
    code,       \* the registered migrations
    table,      \* table[i]: the batch in the record of i, 0 if there is none
    schema,     \* schema[i]: the effect of i: "absent", "present" or "half"
    dump,       \* the migrations in the schema dump of the baseline
    cmd,        \* cmd[p]: the command process p runs
    pc,         \* pc[p]: the statement it is at
    mine,       \* mine[p]: the migrations compiled into p
    seen,       \* seen[p]: its AppliedIDs
    batch,      \* batch[p]: the batch it writes
    todo,       \* todo[p]: the migrations it has still to handle
    steps,      \* steps[p]: how many more Down rolls back
    earlier,    \* history: <<i, j>>: i and j are in the schema, and i was applied first
    hurt        \* history: the migrations a fault left half done

db    == <<table, schema, dump>>
local == <<cmd, pc, mine, seen, batch, todo, steps>>
vars  == <<code, db, local, earlier, hurt>>

\* The migrations in the schema.
Present == {i \in 1..N : schema[i] = "present"}

Command == {"none", "up", "down", "fresh", "squash"}

TypeOK ==
    /\ code \subseteq Id
    /\ table \in [Id -> 0..MaxBatch]
    /\ schema \in [Id -> {"absent", "present", "half"}]
    /\ dump \subseteq 1..N
    /\ cmd \in [Proc -> Command]
    /\ pc \in [Proc -> {"off", "applied", "batch", "up", "record", "list", "down", "unrecord",
                        "count", "max", "wipe", "baseline", "rerecord"}]
    /\ \A p \in Proc : pc[p] = "off" <=> cmd[p] = "none"
    /\ mine \in [Proc -> SUBSET Id] /\ seen \in [Proc -> SUBSET Id]
    /\ batch \in [Proc -> 0..MaxBatch] /\ steps \in [Proc -> Nat]
    /\ todo \in [Proc -> Seq(Id)]
    /\ \A p \in Proc : pc[p] \in {"record", "unrecord"} => todo[p] # <<>>
    /\ earlier \subseteq Present \X Present /\ hurt \subseteq Id

\* A new database, of a project that has migrations to come or of one that
\* was squashed before.
Init ==
    /\ dump \in SUBSET (1..N) /\ code = IF dump = {} THEN {} ELSE {Baseline}
    /\ table = [i \in Id |-> 0] /\ schema = [i \in Id |-> "absent"]
    /\ cmd = [p \in Proc |-> "none"] /\ pc = [p \in Proc |-> "off"]
    /\ mine = [p \in Proc |-> {}] /\ seen = [p \in Proc |-> {}]
    /\ batch = [p \in Proc |-> 0] /\ todo = [p \in Proc |-> <<>>]
    /\ steps = [p \in Proc |-> 0]
    /\ earlier = {} /\ hurt = {}

Recorded == {i \in Id : table[i] > 0}
LastBatch == Max({table[i] : i \in Id})

\* The members of S in the order of lt.
Sorted(S, lt(_, _)) ==
    CHOOSE s \in [1..Cardinality(S) -> S] : \A a, b \in DOMAIN s : a < b => lt(s[a], s[b])

\* Migrations in the order of their IDs.
ById(S) == Sorted(S, <)

\* Mutant: ORDER BY id DESC
HighestFirst(S) == Sorted(S, >)

\* ORDER BY batch DESC, id DESC
Newer(i, j) == table[i] > table[j] \/ (table[i] = table[j] /\ i > j)

NewestFirst(S) == Sorted(S, Newer)

\* A developer adds a migration, whose ID may be older than those applied, or,
\* after a squash, registers the baseline and deletes those it covers.
Register(i) ==
    /\ i \notin code \cup dump /\ (i = Baseline => table[Baseline] > 0)
    /\ code' = code \cup {i}
    /\ UNCHANGED <<db, local, earlier, hurt>>

Retire(i) ==
    /\ i \in code \cap dump /\ table[Baseline] > 0
    /\ code' = code \ {i}
    /\ UNCHANGED <<db, local, earlier, hurt>>

-----------------------------------------------------------------------------
(* Commands start and end *)

Goto(p, l) == pc' = [pc EXCEPT ![p] = l]

\* Hosts that are deployed together, with one build, may all run migrate; the
\* commands that take something away are run by hand, one at a time.
MayStart(p, c) ==
    /\ pc[p] = "off"
    /\ \A q \in Proc \ {p} : cmd[q] = "none" \/ (cmd[q] = "up" /\ c = "up" /\ mine[q] = code)

\* The schema SQL a squash is given was dumped before it.
Start(p, c, n) ==
    /\ MayStart(p, c)
    /\ cmd' = [cmd EXCEPT ![p] = c]
    /\ Goto(p, CASE c = "down" -> "list" [] c = "fresh" -> "count" [] OTHER -> "applied")
    /\ mine' = [mine EXCEPT ![p] = code]
    /\ steps' = [steps EXCEPT ![p] = IF c = "down" THEN n ELSE 0]
    /\ dump' = IF c = "squash" THEN {i \in 1..N : schema[i] = "present"} ELSE dump
    /\ UNCHANGED <<code, table, schema, seen, batch, todo, earlier, hurt>>

\* The command returns, and its locals go out of scope.
Ends(p) ==
    /\ cmd' = [cmd EXCEPT ![p] = "none"] /\ Goto(p, "off")
    /\ mine' = [mine EXCEPT ![p] = {}] /\ seen' = [seen EXCEPT ![p] = {}]
    /\ batch' = [batch EXCEPT ![p] = 0] /\ todo' = [todo EXCEPT ![p] = <<>>]
    /\ steps' = [steps EXCEPT ![p] = 0]

\* The history, when migration i is no longer in the schema.
Without(i) == {e \in earlier : i \notin {e[1], e[2]}}

\* What p has done to the schema and not to the table, or the other way round.
InDoubt(p) ==
    CASE pc[p] \in {"record", "unrecord"} -> {Head(todo[p])}
      [] pc[p] = "baseline" -> seen[p]
      [] pc[p] = "rerecord" -> ToSet(todo[p])
      [] OTHER -> {}

\* A statement fails and the command returns its error, or the process ends.
Fail(p) ==
    /\ pc[p] # "off"
    /\ hurt' = hurt \cup InDoubt(p)
    /\ Ends(p)
    /\ UNCHANGED <<code, db, earlier>>

\* An Up or a Down fails halfway through its statements.
FailHalfway(p) ==
    /\ pc[p] \in {"up", "down"} /\ todo[p] # <<>> /\ Head(todo[p]) # Baseline
    /\ schema[Head(todo[p])] = IF pc[p] = "up" THEN "absent" ELSE "present"
    /\ schema' = [schema EXCEPT ![Head(todo[p])] = "half"]
    /\ earlier' = Without(Head(todo[p]))
    /\ hurt' = hurt \cup {Head(todo[p])}
    /\ Ends(p)
    /\ UNCHANGED <<code, table, dump>>

-----------------------------------------------------------------------------
(* Up *)

\* AppliedIDs, in Up and in Squash
ReadApplied(p) ==
    /\ pc[p] = "applied"
    /\ seen' = [seen EXCEPT ![p] = Recorded]
    /\ Goto(p, IF cmd[p] = "squash" THEN "max" ELSE "batch")
    /\ UNCHANGED <<code, db, cmd, mine, batch, todo, steps, earlier, hurt>>

\* NextBatch and pending
ReadBatch(p) ==
    /\ pc[p] = "batch" /\ LastBatch < MaxBatch
    /\ batch' = [batch EXCEPT ![p] = LastBatch + 1]
    /\ todo' = [todo EXCEPT ![p] = ById(mine[p] \ seen[p])]
    /\ Goto(p, "up")
    /\ UNCHANGED <<code, db, cmd, mine, seen, steps, earlier, hurt>>

\* Mutant: a migration that fails is passed over.
RunUpOrSkip(p) ==
    /\ pc[p] = "up" /\ todo[p] # <<>>
    /\ todo' = [todo EXCEPT ![p] = Tail(@)]
    /\ UNCHANGED <<code, db, cmd, pc, mine, seen, batch, steps, earlier, hurt>>

\* mig.Up: fails, as CREATE TABLE does, on what is there already.
RunUp(p) ==
    /\ pc[p] = "up" /\ todo[p] # <<>>
    /\ LET new == IF Head(todo[p]) = Baseline THEN dump ELSE {Head(todo[p])} IN
       /\ \A i \in new : schema[i] = "absent"
       /\ schema' = [i \in Id |-> IF i \in new THEN "present" ELSE schema[i]]
       /\ earlier' = earlier \cup (Present \X new) \cup {e \in new \X new : e[1] < e[2]}
    /\ Goto(p, "record")
    /\ UNCHANGED <<code, table, dump, cmd, mine, seen, batch, todo, steps, hurt>>

\* INSERT, which a record with the same primary key refuses.
Record(p) ==
    /\ pc[p] = "record" /\ table[Head(todo[p])] = 0
    /\ table' = [table EXCEPT ![Head(todo[p])] = batch[p]]
    /\ todo' = [todo EXCEPT ![p] = Tail(@)]
    /\ Goto(p, "up")
    /\ UNCHANGED <<code, schema, dump, cmd, mine, seen, batch, steps, earlier, hurt>>

UpReturns(p) ==
    /\ pc[p] = "up" /\ todo[p] = <<>>
    /\ Ends(p)
    /\ UNCHANGED <<code, db, earlier, hurt>>

-----------------------------------------------------------------------------
(* Down and Fresh *)

\* AppliedList, in Fresh
Count(p) ==
    /\ pc[p] = "count"
    /\ steps' = [steps EXCEPT ![p] = Cardinality(Recorded)]
    /\ Goto(p, IF Recorded = {} THEN "applied" ELSE "list")
    /\ UNCHANGED <<code, db, cmd, mine, seen, batch, todo, earlier, hurt>>

\* What Down could undo: what is not registered or has no Down is skipped.
Undoable(p) == Recorded \cap mine[p] \cap (Reversible \cup {Baseline})

\* SELECT id, batch ...; rows.Err is not looked at, and a list that broke off
\* is taken for the whole.
List(p) ==
    /\ pc[p] = "list"
    /\ LET all == NewestFirst(Undoable(p)) IN
       \E n \in 0..Len(all) : todo' = [todo EXCEPT ![p] = SubSeq(all, 1, n)]
    /\ Goto(p, "down")
    /\ UNCHANGED <<code, db, cmd, mine, seen, batch, steps, earlier, hurt>>

\* mig.Down: fails on what is not there; that of the baseline always fails.
RunDown(p) ==
    /\ pc[p] = "down" /\ todo[p] # <<>> /\ steps[p] > 0
    /\ schema[Head(todo[p])] = "present"
    /\ schema' = [schema EXCEPT ![Head(todo[p])] = "absent"]
    /\ earlier' = Without(Head(todo[p]))
    /\ Goto(p, "unrecord")
    /\ UNCHANGED <<code, table, dump, cmd, mine, seen, batch, todo, steps, hurt>>

\* Mutant: the record stays.
UnrecordNot(p) ==
    /\ pc[p] = "unrecord"
    /\ todo' = [todo EXCEPT ![p] = Tail(@)]
    /\ steps' = [steps EXCEPT ![p] = @ - 1]
    /\ Goto(p, "down")
    /\ UNCHANGED <<code, db, cmd, mine, seen, batch, earlier, hurt>>

\* DELETE FROM migrations WHERE id = ...
Unrecord(p) ==
    /\ pc[p] = "unrecord"
    /\ table' = [table EXCEPT ![Head(todo[p])] = 0]
    /\ todo' = [todo EXCEPT ![p] = Tail(@)]
    /\ steps' = [steps EXCEPT ![p] = @ - 1]
    /\ Goto(p, "down")
    /\ UNCHANGED <<code, schema, dump, cmd, mine, seen, batch, earlier, hurt>>

\* Down returns: the end of the command, or the start of the Up of Fresh.
DownReturns(p) ==
    /\ pc[p] = "down" /\ (todo[p] = <<>> \/ steps[p] = 0)
    /\ IF cmd[p] = "fresh"
       THEN /\ todo' = [todo EXCEPT ![p] = <<>>] /\ Goto(p, "applied")
            /\ UNCHANGED <<cmd, mine, seen, batch, steps>>
       ELSE Ends(p)
    /\ UNCHANGED <<code, db, earlier, hurt>>

-----------------------------------------------------------------------------
(* Squash *)

\* The error of Scan is not looked at either: then the batch is 1.
ReadMax(p) ==
    /\ pc[p] = "max" /\ LastBatch < MaxBatch
    /\ \E b \in {LastBatch + 1, 1} : batch' = [batch EXCEPT ![p] = b]
    /\ Goto(p, "wipe")
    /\ UNCHANGED <<code, db, cmd, mine, seen, todo, steps, earlier, hurt>>

\* DELETE FROM migrations
Wipe(p) ==
    /\ pc[p] = "wipe"
    /\ table' = [i \in Id |-> 0]
    /\ Goto(p, "baseline")
    /\ UNCHANGED <<code, schema, dump, cmd, mine, seen, batch, todo, steps, earlier, hurt>>

RecordBaseline(p) ==
    /\ pc[p] = "baseline"
    /\ table' = [table EXCEPT ![Baseline] = batch[p]]
    /\ todo' = [todo EXCEPT ![p] = ById((mine[p] \cap seen[p]) \ {Baseline})]
    /\ Goto(p, "rerecord")
    /\ UNCHANGED <<code, schema, dump, cmd, mine, seen, batch, steps, earlier, hurt>>

\* Those still registered are recorded again, all in the batch of the baseline.
Rerecord(p) ==
    /\ pc[p] = "rerecord" /\ todo[p] # <<>>
    /\ table' = [table EXCEPT ![Head(todo[p])] = batch[p]]
    /\ todo' = [todo EXCEPT ![p] = Tail(@)]
    /\ UNCHANGED <<code, schema, dump, cmd, pc, mine, seen, batch, steps, earlier, hurt>>

SquashReturns(p) ==
    /\ pc[p] = "rerecord" /\ todo[p] = <<>>
    /\ Ends(p)
    /\ UNCHANGED <<code, db, earlier, hurt>>

-----------------------------------------------------------------------------
Step(p) == \/ Fail(p) \/ FailHalfway(p)
           \/ ReadApplied(p) \/ ReadBatch(p) \/ RunUp(p) \/ Record(p) \/ UpReturns(p)
           \/ Count(p) \/ List(p) \/ RunDown(p) \/ Unrecord(p) \/ DownReturns(p)
           \/ ReadMax(p) \/ Wipe(p) \/ RecordBaseline(p) \/ Rerecord(p) \/ SquashReturns(p)

Next == \/ \E i \in Id : Register(i) \/ Retire(i)
        \/ \E p \in Proc : Step(p) \/ \E c \in Command \ {"none"}, n \in 1..MaxSteps : Start(p, c, n)

Spec == Init /\ [][Next]_vars

-----------------------------------------------------------------------------
(* Properties *)

\* The migrations table and the schema agree, but for the migration a command
\* is at (the Up or Down and its record are two statements, migrate.go:108-117
\* and 153-156), those a fault interrupted there, and those the baseline
\* stands for.  One fault puts at most one migration out of step, except in
\* Squash, where it can lose every record (squash.go:42-76); two hosts that
\* migrate at once never do.  A squash that ends leaves the record of every
\* migration that is still registered, as squash.go:56-76 and its test have it:
\* the comment of Squash (14-17) says that one record is all that is left.
InStep ==
    \A i \in 1..N : \/ table[i] > 0 <=> schema[i] = "present"
                    \/ \E p \in Proc : i \in InDoubt(p)
                    \/ i \in hurt
                    \/ i \in dump \ code

\* When Up or Fresh returns nil, every migration compiled into the process is
\* recorded, also when another host was migrating at the same time.
UpComplete ==
    \A p \in Proc : pc[p] = "up" /\ todo[p] = <<>> => mine[p] \subseteq Recorded

\* Down undoes migrations in the opposite of the order they were applied in,
\* also when IDs were registered late (migrate.go:126) and when the list it
\* reads breaks off (133-140), until a squash has put them all in one batch.
NewestUndoneFirst ==
    [][\A p \in Proc : RunDown(p) /\ table[Baseline] = 0 /\ hurt = {} =>
          {j \in mine[p] \cap Reversible : <<Head(todo[p]), j>> \in earlier} = {}]_vars
=============================================================================
