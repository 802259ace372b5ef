# Gophant in TLA+

Gophant (`src/`, about 10 800 lines of Go without its tests) is a web framework: a router, middleware,
sessions, a query builder with migrations, job queues, a scheduler, a cache and a command line.
This directory holds TLA+ models of the parts whose correctness depends on the order in which
goroutines, processes, commands and messages meet, the configurations that check them with TLC, and
proofs that TLAPS checks. `PROJECT.json` is the index: components, runs, the source lines of every
definition, the hazards and the theorems.

To check a module: `tlc -config MCx.cfg MCx` (the configuration names its invariants and
properties); to check proofs: `tlapm X_proofs.tla`, where `X` is `RedisQueue`, `Background` (the in-memory queue and
the scheduler), `Stores` (the cache and the sessions), `Router`, `RateLimit` (both limiters), `Pipeline`
(with the validator), `Migrations` or `Records` (with the query builder).


## 1. The system

| Part | State | Operations | Meets | What is hard | What makes it correct |
|---|---|---|---|---|---|
| Redis queue (`queue/redis.go`, `retry.go`, `workers.go`, `job.go`) | two Redis lists; in each goroutine the popped payload and its attempts | `PushPayload`, `Pop`, `HandlePayloadWithRetry`, `RunWorkers`, `RunWithRetryContext`, `RunJobs`, `RetryDead` | Redis, handlers, signals, the `queue:work` and `queue:retry` commands | no acknowledgement: crashes, lost replies, refused pushes, pushes the client sends again; workers refill the list the operator drains | a copy of a payload is in one place; it is buried after all its attempts and no sooner; queued payloads are taken |
| In-memory queue (`queue/memory.go`) | channel, mutex, `closed`, WaitGroup | `Push`, `Run`, `Close` | jobs that push jobs | the send is outside the mutex; panics; jobs that block on their own queue | every accepted job runs once, and before `Close` returns |
| Sessions (`session/*`, `auth/auth.go`) | store, cookie, one `Session` a request | middleware, `Set`, `Flash`, `GetFlash`, `Regenerate`, `Destroy`, `Login`, `Logout` | router, handlers, the browser, Redis | load, work and save on copies, by concurrent requests; stale write-backs; lost responses | only `Login` gives an id a user; a request sees what the one before it saved |
| Router (`http/router.go`) | route table, key set, middleware slice | `Use`, `Group`, `add`, `ServeHTTP` | all middleware and handlers | concurrent appends to one slice; the table is copied into groups and back | the table is what was registered; every request passes its middleware in order |
| Migrations (`db/migrate`, `cli/migrate.go`, `cli/fresh.go`) | the `migrations` table, the schema | `Up`, `Down`, `Fresh`, `Squash`, `Status` | the database, hosts deployed together | many statements, no transaction, no lock | table and schema agree but for what a fault interrupted; undo is in reverse order |
| Scheduler (`scheduler/*`, `cli/schedule_cmd.go`) | jobs with `lastRun`, a mutex, a ticker | `Every`, `RunOnce`, `Run` | tasks, signals | copy, run, write back by index | no job is forgotten, none runs too early, stop ends the loop |
| In-memory rate limiter (`middleware/rate_limit.go`) | a bucket a key, a mutex | one handler, one pruner | router, clock | reads before the lock and after the unlock | at most `requests` a window |
| Redis rate limiter (`middleware/ratelimit_redis.go`) | a sorted set a key | one pipeline of four commands a request | Redis, clock | the pipeline is no transaction; a lost reply | the same, over a sliding window |
| Cache (`cache/*`) | items with a deadline, tag sets | `Get`, `Set`, `Delete`, `Remember`, `FlushTag`, response middleware | handlers, Redis | misses that race with invalidations; `Get` deletes outside its lock; SCAN and DEL beside stores | an invalidation that succeeded is not undone; what is stored is found |
| Tokens (`auth/password_reset.go`, `email_verify.go`, `remember_me.go`, `jwt.go`, `security/signer.go`) | one table each | create, verify, consume, rotate | database, clock | check and delete in several statements | a token works once, for its owner, before it expires |
| Query builder and models (`db/*`) | the database, transactions, observers | CRUD, `Transaction`, `FirstOrCreate`, `UpdateOrCreate`, `Chunk`, `Paginate`, soft delete, hooks | database, its locks and connections | look, then write; paging while rows move; an OR beside the scope; panics in a transaction | every row is visited once; the trash is out of reach; one row for one `FirstOrCreate`; calls end |
| Gate, policies, auth middleware | maps filled at start | `Allows`, `Can`, `Require`, `RequireRole`, `Bearer`, `SignedURL`, JWT | sessions, router | their place in the chain, between CORS and the handler | a denied request reaches no handler |
| CSRF, CORS, recover, error handler, logger, headers | the CSRF cookie, the key | one handler each | router, sessions, the browser | their order; tabs and restarts; who has answered already | no forged form gets through, no good one is refused; one answer |
| Validation (`validation/validator.go`) | a list of errors a field | 26 rules, of which `Bail` and `Sometimes` are markers; `Field`, `FieldWith` | the request's values | markers among the rules; absent and empty values | the errors are those of the rules that apply, in order |
| Events, feature flags | a map under a read-write lock each | `On`, `Dispatch`; `Enable`, `Toggle` | listeners | `Toggle` is a read and a write | listeners run in order of registration |
| Application (`app.go`, `routes.go`, `container`, `config`) | what the parts above need | `New`, `Run` | all | order of middleware, shutdown | the order `New` documents |
| Context, binding, views, resources, redirects, SSE | one request: whether it is answered, its error | the calls a handler makes | the layers around it | calls in any order, panics between them | one answer, and never none |
| Schema builder, factories, seeds, generators, mail, storage, HTTP client, test kit | none | text and I/O | | none | |

The parts meet as follows. `app.New` builds a router and registers seven middleware with `Use`; the
session middleware loads a session into the context of each request and wraps its writer, so that
whatever writes the header first saves the session; `auth` works on that session. Handlers call the
cache, the database, and `Push` of a queue. `gophant queue:work`, `queue:retry`, `migrate`,
`migrate:fresh`, `schedule:run` are processes of their own, which meet the web processes only in
Redis and in the database.

`PROJECT.json` lists every part with its status, and under `hazards` the 40 places where an order of
events that no test sets up could go wrong, each at its line. Three have no property, and say why; where a property covers only part
of one, a note says what is left.


## 2. What is modelled

Every module translates the code it names; `map` gives the lines of each definition. An action is a
stretch of code that nothing can interleave with: a Redis command, an SQL statement, a critical
section, a channel operation. Names are those of the source where TLA+ allows. A definition marked
`Mutant:` is a plausible mistake in the code, which no behaviour uses; `PROJECT.json` records which
property refutes it.

**JobLedger** is the abstract specification of a queue: the stages one job may pass through, one edge
a step, and the one step that may move several jobs, the end of a process. It stands for no lines of
its own; both queues are checked, and proved, to implement it. A second copy of a payload is a job of
its own, which begins in the list the resent push put it in.

**RedisQueue.** `main` and `dead` are the two lists, `hand[w]` the payload goroutine `w` has popped,
`attempts[w]` the local variable of `HandlePayloadWithRetry`, `op`, `moving`, `limit` and `count` the
locals of `RetryDead`. `done`, `dropped` and `lost` are where payloads end, `calls` counts the calls
of a payload's handler since it was last queued. `mode[p]` says which of the loops a process runs:
`work` (`RunWorkers`), `once` (`queue:work --once`), `retry` (`RunWithRetryContext`) or `jobs`
(`RunJobs`); they differ in what they do on an empty pop, a cancelled context, a failed handler.
Faults are actions: a command is refused, or takes effect while its reply is lost (`PopError`,
`GiveUp`, `RetryPopError`, `RetryAborts`), a process is killed or a handler panics (`Crash`), a worker
fails and the process exits under the other goroutines (`Exit`). The client is made with its default
retries (run.go:94 and 115), so a push whose reply is lost is sent again, and its payload is in a list
twice. A `Job` is therefore one copy: what one RPUSH puts at the end of a list; `Payload[j]` says
of what it is a copy. A second `PushPayload` of the payload is the first one sent again, and
`GiveUpUnheard` and `RetryPushUnheard` leave a `Copy` behind while the goroutine or the operator still holds
the payload and goes on to push it once more, to be refused, or to die. A BLPOP or LPOP that is sent again pops another
payload: the first is lost as in `PopError` and `RetryPopError`, and the next pop follows.
*Assumed:* a refused `PushPayload` leaves the job with its producer; `RetryDead` without a
limit does not keep `count`, which only its return value needs.

**MemoryQueue.** `Push` is two actions, `Accept` under the mutex and `Send` (or `SendPanics`) after
it. A job may push another job, and ends when that `Push` has returned. A panic that nobody recovers
sets `crashed`; a `Push` from an HTTP handler under `Recover` (`Guarded`) survives its panic.

**Session.** One browser, the store, and the requests in flight. A request enters with a copy of
the session its cookie names (`ArriveKnown`), with an empty one under that id because the read failed,
which the store answers as "not found" (`ArriveUnread`), or with a new one (`ArriveNew`). Its handler may call the
operations in any order, before and after the header is out, and `WriteHeader` is `ensureCookie`. It can run
twice (phase `passed`): when the middleware has called it after the handler and an outer layer answers
then (session.go:67-69), or when its command is sent again. The
response reaches the browser at any later time, in any order, or never. With `Persistent` the store is
`RedisStore`, which can fail and expire but outlives the process; without it, `MemoryStore`. `expect`
is a history variable: what the next request should load, or `None` after a fault, an overlap or a failed
read. One user key and one flash key stand for all values. *Left out:* the DEL of `Regenerate` sent
again after another request has saved the session anew, and an outer layer that changes the session between the two
runs of `ensureCookie`.

**Router.** Registration is sequential: `stack` is the nest of routers that `Group` builds, the root
first. Serving is concurrent: `cells` and `len` are the Go slice `r.middleware`, `Dispatch` decides
as `append` does whether the array has room, `Copy` writes one element of the append, `Apply` is one
turn of `applyMiddleware`, which reads the array from the end. *Assumed:* within `Group` only the
innermost router registers; `Use` on the router of a group, which changes a slice no dispatch reads,
is left out.

**Migrations.** One action a statement. `table` is the `migrations` table (the batch of each record),
`schema` what the `Up` and `Down` functions have done, `dump` what the baseline of a squash stands
for, `mine[p]` the migrations compiled into process `p`. `Fail` is an error or a crash before any
statement, `FailHalfway` one inside an `Up` or a `Down`. `order` and `hurt` are history. *Assumed:*
commands that take something away (`Down`, `Fresh`, `Squash`) are run one at a time, by hand; hosts
that are deployed together and all run `migrate` have the same build. `List` may be cut short, because `Down` does not look at `rows.Err`
(migrate.go:133), and `ReadMax` may give batch 1, because `Squash` ignores the error of `Scan`
(squash.go:39).

**Scheduler.** `RunOnce` is `Copy`, `Sample`, `RunTask`s and `WriteBack`; `WriteBackPanics` is the
index out of range when `Every` came in between. Times are kept as ages, counted up to `Old`, which is
as good as never. `ran` and `disturbed` are history.

**RateLimit.** `RateLimit` and `RateLimitByKey`, whose handlers differ only in the key. `Arrive`
samples `now`, `CountOld` and `CountNew` are the critical section, `Admit` and `Refuse` the comparison
after it. The read of `b.count` there is a data race: it may return any value the counter has had
since the request's own write. Times are relative to the present. `admitted` is history; a count is
kept up to `Limit + 1`.

**RedisRateLimit.** One key. `Trim`, `Add`, `Count`, `PExpire` are the four commands of a request's
pipeline; those of other hosts come in between. `zset` is the sorted set, the score of a member is its
`age`. A pipeline can be sent again (`Resend`), fail, which lets the request through (`FailOpen`), and
then still be executed to any point (`Abandoned`). `fate` and `cut` are history. *Assumed:* two requests
never have the same member, which ends in nanoseconds; Redis is done with the first sending of a pipeline
when it is given the second, because the client closes the broken connection before it sends again (of a pipeline the
client gives up, `Abandoned` has the late execution); the clocks of the hosts and the time a pipeline
takes lag by no more than `MaxLag`.

**Cache.** `Remember`, `RememberTagged` and `ResponseCache` are one shape: `CallGet` (a hit ends it),
`Compute` (what fn reads), `Store`. A value is the version of the data it was computed from. With
`driver = "memory"` an expired item is deleted after the lock is released (`Purge`); with `"redis"`
a flush is `CallScan`, `ScanDel`s and `ScanEnds`, and any command may fail, before or after it took effect, or be
sent again: a `Delete` is then a scan of one key (`RemoveByKey`), whose DEL may come twice or be reported as
failed although it came, and a SET may put its value back after another client's. `floor`, `kept`
and the flags `sure` are history. *Assumed:* SCAN returns every key that is there from its start to
its end; the tag of a key never changes.

**QueryBuilder** and **Records.** A query is the record the builder fills in; each builder method is an
operator on it, for `Query`, `TxQuery` and `TypedQuery`, and `Selected` is what the database answers
under the precedence of AND over OR. `Records` runs the calls of `Model`, `TypedModel`, `Repository`
and `DB.Transaction` over one table, one action a statement: `Exec` for a statement that changes rows,
`Look` for the lookup of `FirstOrCreate`, `CountRows` and `Batch` for a walk, `TxSend`, `Commit`,
`Rollback` and `FnPanics` for a transaction. A row that a statement of another transaction has matched makes a statement
wait, as does a pool with no free connection; `BeginTx` waits for one too (`CallTransaction`, then `Begin`).
A statement of a transaction that fails may take what the transaction has done with it (`Fail`): some
databases undo the whole of it when they break a cycle. `seen`, `stayed`, `left`, `joined` of a walk and `sure`
of a statement are history. The types of a call, a walk, a statement and a transaction's body are sets
(`BuilderCall`, `Touring`, `Statement`, `BodyStatement`), from which the chains, walks and bodies come. *Assumed:* a statement is atomic and reads what is committed, and what its
own transaction did; a statement takes its connection and its locks in one step, and locks every row it matches; a cycle of transactions is broken by failing one.

**Validation** and **Pipeline.** A `Rule` is its code and the values it accepts; `Field` and `FieldWith`
go through a list of them as the code does (`Judge` is one turn of the loop, `Told` the loop; only
`Field` knows the markers). *Assumed:* `Bail` and `Sometimes` alone answer a marker (`AnyRule`); a rule of
the application's own that answers one, for some values only, is left out. `Pipeline` takes the requests of a browser's tabs through
the layers of `app.New` in their order, the guards of the route and the handler, and back:
`at[t]` is the layer, `ctx[t]` the `Context` and the writer of the session. Layers that change
nothing another layer reads (`Logger`, `SecurityHeaders`, the application's values) have no step. The
handler calls up to `MaxOps` methods of `Context` in any order, may fail or panic after each, and has
any of the signatures `methodHandler` adapts. The server can be restarted with another key
(`Restart`), the cookie expire, responses be lost or overtake each other. `by`, `loose`, `saved`, `reached`,
`refused`, `errors` and `doubt` are history. *Assumed:* the tokens of a page come back as they were
handed out, or not at all; the fault of a layer that the code does not cause (a write error) is left
out. What the session stores is in `Session`, not here. A request has a body in an encoding and, in `url`, the values in the query
of its URL, which are read whatever the encoding.

A module `MCx` gives the constants of `x` small values for TLC. `MCSession`, `MCScheduler` and the Redis
half of `MCRateLimit` reach their module by `INSTANCE` and give its properties names of their own, so that a
proof module can speak of two components at once.


## 3. What is checked

All bounds are named constants or in the list below; each was chosen so that the mistakes in the
mutants, and the interleavings in the comments of the properties, fit into it.

| Run | Bounds | What it shows |
|---|---|---|
| `redis_queue` | one process of two goroutines, the operator, two payloads: one that is retried once and may be pushed twice, one that does not decode; `RetryDead` with no limit and with 1 | `OneHolder`: a copy of a payload is in exactly one place. `Exhausted`: it is buried after exactly the attempts it is worth. `ImplementsLedger`: its life is that of `JobLedger`. `Delivery`: it is taken while a consumer asks. `LimitedRetryEnds`: `RetryDead` with a limit ends. |
| `memory_queue` | channel of one slot, two `Run`, two `Close`, five jobs of which two push another and one is pushed under a recover | `WgExact`, `CloseDrains`, `ImplementsLedger`; `CloseEnds` and `PushEnds` say exactly what can keep `Close` and `Push` waiting for ever: a recovered panic of `Push`, and jobs that all block in a `Push` of their own. |
| `session` | three ids, one user, one message, two requests, `RedisStore` | `IdentityOnlyFromLogin`: no interleaving gives an id a user except its issue by `Login`. `ReadYourWrites`: requests in a row see each other's changes, unless a fault or an overlap comes between or the read fails. |
| `flash` (violated) | the same, `MemoryStore` | `FlashedOnce`: a flashed value that templates show is shown again by every later request, until a handler calls `GetFlash`. |
| `router` | five `Use`, a group in a group, four routes of which one repeats a key, two requests | `TableExact`: the table is what was registered. `GlobalFirst`: the global middleware is run, first and in order, by every request. |
| `router_race` (violated) | the same | `GroupMiddlewareRuns`: when the array has spare cells, one request can overwrite the middleware of another between its append and its reads. |
| `migrations` | two migrations and the baseline, two hosts, three batches, rollbacks of one or two | `InStep`, `UpComplete`, `NewestUndoneFirst` |
| `scheduler` | jobs of period 1 and 2, the loop and one other caller of `RunOnce` that recovers | `NeverAhead`: an overlap can only make a job run again too early. `SpacedOut`: without overlap the periods are kept. `EveryJobRuns`, `StopEnds`: progress, and what can end it. |
| `rate_limit` | either limiter. In memory: one key, limit two, window of one interval, two requests in flight, three buckets, a sampled `now` that may be one interval old. In Redis: limit one, two pipelines, three members, window of three intervals, a lag of one | `WithinLimit`, `OneOpenWindow`, `FirstGetsThrough`: together, at most the limit in each window and, with no more requests in flight than that, nobody refused before somebody was let through. `SlidingLimit`: of the requests of a window, less the lag, no more than the limit are counted in. `RefusedForCause`: a refusal needs as many other requests near it as the limit. |
| `records` | two clients, two ids, two names, two connections, batches of one and of zero; four divisions of the calls between the clients (a walk beside inserts and deletes; lookups that create; a transaction beside transactions and plain statements; chains beside hooks) | `WalkCovers`: what `Chunk` and pages can miss or repeat, and only because of whom. `TrashOutOfReach`: no scoped chain without an OR shows or changes a row in the trash. `NoLateDuplicate`: `FirstOrCreate` and `UpdateOrCreate` insert beside a match only if it came during the call, or the lookup failed. `CallsEnd`: every call ends but for a leaked transaction, a `fn` in its own way, a size of zero. |
| `cache` | two clients, two keys of which one has the tag, both stores, two changes of the data | `Fresh`: a successful invalidation is undone only by a value that was on its way. `Kept`: a stored value is found, except beside a purge or a flush under way. |
| `pipeline` | five menus: every kind of handler and every two calls of it; two tabs; every way to send a token and a method, in the body, a header or the URL; every guard against five visitors; lists of all rules and markers against the values of two fields. Two keys, three tokens | `Admitted`: the handler is reached only with the cookie's token and past every guard, whatever `_method` says. `NoFalseRefusal`: CSRF refuses a good form only because of the key, an expired cookie, or another first request. `OneAnswer`, `NoSilence`: the layers never answer twice, nor leave a failure unanswered, and the session is always saved. `ValidatedRight`: the errors are those of the rules that apply, in order, none after the first behind a `Bail`. |

*Why these bounds.* Two goroutines and the operator are all the actors that can touch one payload at
once, and the second payload makes the lists long enough to have an order; one copy can be left by
any of the three pushes, and each further one would be as the first; the proofs remove the
bounds for the safety properties. In the in-memory queue two `Run` can both be blocked by
nested pushes, with a fifth job outside. Three ids allow a login over a login while a stale request
holds the first session. Five `Use` leave the array once with one spare cell and once with three, and
both smaller and larger appends occur. Two hosts are enough for every race between `AppliedIDs`,
`NextBatch` and the records; three batches leave room to apply, squash and apply again. Two callers
of `RunOnce` and two jobs make every order of copies and write-backs. The three buckets are the one in
the map and one that each request may still hold. A key has no influence on another
key, so there is one. In Redis the third member is the one that comes between two pipelines; a window of
three is long enough for a member to go by trimming and, before its own `PEXPIRE`, with the key. Two rows
and pages of one row let a page shift in both directions, and two transactions of two statements
lock in opposite orders. Two clients of the cache are a filler and an invalidator, or a purger and a
filler; `Stores_proofs` removes the bound. Two tabs make every order of two first requests and their
cookies; three tokens leave one for a restart.

The type invariants of `redis_queue`, `session` and `cache` are checked and proved. Those of `MemoryQueue`,
`Router`, `Scheduler`, `RateLimit`, `Migrations` and `Records` are proved, so no run lists them.

*Symmetry* is used for ids and requests in `session`, for hosts in `migrations`, for requests and
members in `rate_limit` and for clients in `cache`; all four check safety only.

*Fairness.* The queues, the scheduler and the records have liveness properties. A goroutine that can go on
does (weak fairness of each goroutine's steps): Redis answers within a finite time, with success or
not, and handlers return. Nobody is obliged to push, start, cancel, crash, call `Close`, or register.
A time-out of a pop is not obliged to happen either. In `MemoryQueue` a job does make the `Push` its
body contains. In `Scheduler` time passes, and `Return` has strong fairness: Go's `select` chooses at
random among the cases that are ready, so a closed `stop` beside a waiting tick is not passed over
for ever. In `Records` a client that is in a call has strong fairness: a row lock or a connection
that becomes free again and again is handed out in order, by the database and by `database/sql`, so that
nobody is passed over for ever; no fairness obliges anybody to begin a call. `Delivery` is stated for processes that are up and not cancelled, because a cancelled
`runLoop` spins on `Pop` and takes nothing.

*Deadlock* is not checked in `memory_queue`, where all jobs may be done or blocked and the process
crashed, in `scheduler`, where a process may have ended, and in `records`, where leaked
transactions can hold every connection. Everywhere else it is.

*Disagreements found*, each a run that TLC finds violated and a finding in `PROJECT.json`: flash
values outlive their redirect; group middleware can be lost to a concurrent request.

*Seen while modelling*, and modelled as the code has it, without a run of their own:

- `Down(..., 1)` undoes one migration where docs/MIGRATIONS.md:33 says the last batch.
- A push whose reply is lost is sent again (run.go:94 and 115 leave the retries of the client at their
  default): a job can be queued, buried or revived twice, and is then handled twice.
- docs/STRUCTURE.md:53 says middleware is "Applied innermost-first (last registered = outermost
  execution)". `applyMiddleware` wraps the last registered first (router.go:368-373), so the first
  registered is the outermost, as app.go relies on and `GlobalFirst` states.
- The comment of `Squash` (squash.go:14-17) says that "All existing migration records are deleted" and "A
  single record for squashID is inserted with the current batch number". The code (56-76) and its
  test insert the record of every registered migration again, and `InStep` states that.
- `RedisStore.Get` of sessions answers any error as "not found" (session/redis.go:29): a request whose
  read fails works on an empty session and may save it over the full one.
- The in-memory limiter may refuse a request that was counted within the limit (rate_limit.go:133).
- `slidingWindowIncr` says it increments "atomically" (ratelimit_redis.go:86); a pipeline is not
  a transaction. Refused requests are counted, so a client that keeps asking stays refused. If the
  pipeline is cut after `ZADD` the key may keep no expiry.
- `Context.Flash` does nothing: no code sets `_session` (context.go:409).
- `SSE` returns nil under the session's writer, which is no `http.Flusher` (sse.go:31).
- A model parameter is never bound: a parameter by value is given a pointer, which panics, and a
  pointer finds no binder (model_binding.go:17, router.go:236-246). A single injected service is taken for
  a model.
- `Validate` and `ValidateFormRequest` apply their rules to the form values: JSON bodies are not seen.
- Roles set as `[]string` come back from `RedisStore` as `[]any` and match nothing.
- With no `APP_KEY` every start has a random key (config.go:97); a cookie of the former key is not
  replaced, and its forms are refused until it expires.
- `NotIn` reports `in`; `Before` and `After` compare with the zero time when their own date does not
  parse; NaN passes `MinValue`, `MaxValue` and `Between`.
- A token whose expiry cannot be read never expires (token.go:80); nor does a JWT whose `exp` is no number.
- `ResponseCache` never replays from `RedisStore`, where the bytes come back as a string, and replays
  any page as HTML. `Remember` gives back another type on a hit in Redis.
- `FirstOrCreate` takes any error of its lookup for a missing row (model.go:211).
- The errors of a template come after the header of a 200 and are dropped (context.go:238).


## 4. What is proved

The proof modules prove, for every value of the constants, what the runs show for small ones: any number
of jobs, processes, goroutines, clients, requests, routes, tabs, migrations, rows, rules, keys and retries.

*From which assumptions.* Only those on the constants, each named in the module that declares them and
evaluated by TLC. Most say no more than the type of a constant and that `None` or `NoJob` is not a member of the set
it stands beside. Those that say more:

- ids (`QueryBuilder`) are finitely many numbers from 1: they are what AUTO_INCREMENT can give;
- `RecordsOK`: chains, walks and bodies are lists of calls the builder and the models have;
- `RulesOK` (`Pipeline`): a Validator is given lists of rules, which answer a marker always or never;
- jobs (`MemoryQueue`), requests (`RateLimit`) and members (`RedisRateLimit`) are finite sets: a
  process has been given finitely many at any time, and a counter counts them;
- `GroupsNest` (`Router`): `Group` is called on a router that exists, so no group stands inside itself;
- `MenusOK` (`Pipeline`): a route's guards are a list;
- `BearersRefuse` (`Pipeline`): a bearer guard refuses with a status that says so: 0 stands for 401
  by the time it is used, and no route asks for 200;
- the constants of `RedisRateLimit`: limit and window are positive, and the lag is shorter than the
  window, without which `SlidingLimit` would speak of no two requests.

*How.* Few of the properties are inductive. Each proof module first states the invariant that is,
which TLC was given before the prover, then has one lemma for each action that changes more than its
own corner, and ends in the theorems.

- **RedisQueue**: `TypeCorrect` (`Spec => []TypeOK`), `PayloadsConserved` (`[]OneHolder`),
  `BuriedAfterEveryAttempt` (`[]Exhausted`) and `RefinesLedger` (`ImplementsLedger`). The first three
  are an argument in layers. `TypeOK` is inductive. `OneHolder` is inductive given `TypeOK`, which ties
  `hand` to `phase` and `moving` to `op`. `Exhausted` is not: where a payload is buried nothing
  says how often it was called. `Account` says what `calls` is wherever a payload is: 0 while it is
  queued, `attempts` while a goroutine handles it, its quota once it is given up. It is inductive given
  the other two, for a step of one goroutine may change `calls` only of the payload that is in its hand
  and in no other place. Lemmas about `Append`, `Tail`, `Front` and `Last` of sequences without
  repetition carry the lists. The refinement follows from `OneHolder`: a payload that changes its
  place was in no other, so its stage changes along one edge of `JobLedger` and no other payload's does. A copy a resent
  push leaves was in no place before (`fresh`), and takes over the calls of what it is a copy of, so that
  it is buried with its attempts made.

- **MemoryQueue** (in `Background_proofs`): `TypeCorrect`, `CounterExact` (`[]WgExact`), `ClosingDrains` (`[]CloseDrains`) and
  `RefinesLedger`. `OnePlace` says that a job whose `Push` has succeeded is in the buffer, in one hand or
  has run, and in one of these; with it each step adds at most one job to the set that `wg` is the
  cardinality of, or takes one from it. `ClosedFor` (a `Close` that waits has closed the queue) and `WgExact`
  give `CloseDrains`: the counter is zero only if nothing is outstanding, and no `Push` is accepted after.

- **Session** (in `Stores_proofs`): `SessionTypeCorrect`; `OnlyLoginIdentifies` (`IdentityOnlyFromLogin`) and `WritesAreRead`
  (`ReadYourWrites`), which are properties of steps. For the first, each action is shown to leave
  `Identities(id)` no larger, for every id already issued, from `TypeOK` before the step (a session in
  flight has an issued id, so the one that `Login` takes has no holder). The second speaks of a request
  whose own read succeeded, after others with no fault between; it needs
  `Foreseen`: while `expect` is known, at most one request is in flight, a request that has
  changed nothing is what the cookie names, and what an answer saved is what the cookie it sets names.

- **Router**: `TypeCorrect`, `TableRegistered` (`[]TableExact`), `GlobalMiddleware` (`[]GlobalFirst`).
  For the table, `Stacked` says that every router on the stack carries the middleware of the groups
  around it, which `Around` defines by recursion: `AroundUnfolds` proves its equation from
  `GroupsNest`, by the least counterexample in the order of nesting. For the requests, `GlobalCells`
  says that no request ever writes a cell below `len`, whoever shares the array; `InPlace` and `Apart`
  say where the middleware of a request is: in the shared array beyond `len`, or in an array of its own.

- **Scheduler** (in `Background_proofs`): `SchedTypeCorrect`, `NoLostRun` (`[]NeverAhead`), `Spacing` (`[]SpacedOut`). `Behind` extends
  `NeverAhead` to the copies that may yet be written back; `Exact` says that, until two `RunOnce`
  overlap or a task panics, there is at most one copy, and it knows all there is to know.

- **RateLimit**: `TypeCorrect`, `LimitKept` (`[]WithinLimit`), `OneWindow` (`[]OneOpenWindow`),
  `SomebodyPasses` (`[]FirstGetsThrough`). A request in flight whose count may yet be read as within
  the limit is *entitled*. `Tickets`: those let through and those entitled together are no more than
  the count, nor than the limit. It holds because the count a request left is its own, so that a
  later one has a larger; the data race can only lose requests their entitlement. `SomebodyPasses` speaks
  of the case that `Request`, those in flight together, is no larger than the limit; with more, each may find the
  count above it and nobody passes. `OpenMapped`: the
  bucket of an open window is in the map.

- **RedisRateLimit**, in the same proof module: `SlidingLimitKept` (`[]SlidingLimit`) and
  `NoneRefusedInVain` (`[]RefusedForCause`). What one request counts depends on what the others have
  trimmed and let expire: `Kept` and `Lasting` say that a member that counts is in the set, and the
  key will live, until the member is too old to matter; `Recent` says that what is in the set after a
  trim came near the one that trimmed. `Tally` is then `SlidingLimit` with the requests that are about to be let
  through: the one that counts itself in last has seen all the others.

- **Cache** (in `Stores_proofs`): `TypeCorrect`; `InvalidationHolds` (`[]Fresh`) and `StoredIsKept` (`[]Kept`). Neither is
  inductive. For `Fresh`, `FreshInv` adds `Behind` (no version is ahead of the data, no `floor` and no
  scan's `base` either), `OnItsWay` (a value on its way to the store that is not marked as overtaken is
  as new as `floor` and as the `base` of every scan under way of its key) and `Passed` (a stored value is
  as new as the `base` of every scan that has passed its key: when `todo` is empty, `floor` may be raised
  to `base`). For `Kept`, `KeptInv` says of every client that is about to purge a key, and of every
  scan that may still delete it, that the key is not in `kept`. The two stores differ in which actions
  can be taken.

- **Pipeline**: `Admission` (`[]Admitted`), `RefusedForCause` (`[]NoFalseRefusal`), `SingleAnswer`
  (`[]OneAnswer`) and `NoneSilent` (`[]NoSilence`), from one invariant with a part for each
  concern. `Answering` relates the layer a request has come to with who has answered it, how and
  whether the session is saved. `Passing` says which guards it has passed, and that a form beyond
  CSRF is authentic. `Carrying` says where its tokens come from. `Relying` says what a tab
  without doubt can rely on: its page shows the cookie's token, and no request under way will bring another.
  `ValidationRight` (`[]ValidatedRight`) is about the loop of the Validator. `LoopState` says, after each
  turn, which of the rules so far are in the errors and at which place, whether a `Bail` was met and
  whether the loop has stopped; `TurnKeeps` is one turn, and `LoopKeeps` the induction, by the least turn at
  which it could fail. `FieldRight` joins what `Field` and `FieldWith` add. `Judging` says that the errors of a
  `Context` are those of its rules over the data of the request it belongs to.

- **Migrations**: `TypeCorrect`; `AlwaysInStep` (`[]InStep`), `UpLeavesNone` (`[]UpComplete`), `UndoneInReverse`
  (`NewestUndoneFirst`). `SortedExists` shows that a finite set can be listed in order, which every command
  begins with. `Phase` says which statement a command can be at, `Alone` that two commands at once are two
  `Up` of the same build. `Upward`, `Downward` and `Squashing` relate the rest of a command's list to the
  table: of what an `Up` has still to do, another may have recorded the first few, so that the end of
  the list is the end of the work (`UpComplete`). `Agreed` is `InStep` with what the baseline stands for;
  `BaselineFirst` says where the baseline is while other migrations are applied. `Chronicle` says that, without a
  squash and a fault, batch and id tell the order of application; a `Down` reads its list in the reverse of it.

- **Records**: `TypeCorrect`; `WalkShowsAll` (`[]WalkCovers`), `NothingFoundNothingThere` (`NoLateDuplicate`) and
  `TrashStays` (`TrashOutOfReach`, where the model has soft deletion: without it there is no scope to speak
  of). `ChainKeeps` carries what one builder call preserves through any chain of them. For the
  walks, `Rank` is how many rows of the selection come before a row, and `BatchRows` that a batch in a
  definite order shows the rows of its places. `Tour` then says that, while rows at most join, all rows behind the walk that
  stayed were shown, and that, while rows at most leave, none ahead of it was: a row's rank can only grow in the one
  case and shrink in the other. `Fit` says of a statement in a client's hand that it is sure only if nothing matches it in the
  table. For the trash, `ScopeExcludes`: a query with the condition of the scope and no OR selects no row in the
  trash, and no call takes the condition away.

*Only model-checked*, and why:

- liveness (`Delivery`, `LimitedRetryEnds`, `CloseEnds`, `PushEnds`, `EveryJobRuns`, `StopEnds`,
  `CallsEnd`): fairness and ENABLED are out of the prover's reach;
- `FlashedOnce` and `GroupMiddlewareRuns` are false.


## 5. The plan

Every invariant and action property that a passing run checks is proved; what remains is what the prover
cannot do.

Models that could follow: `Tokens` (password reset, e-mail verification, remember-me with rotation, over
one table with statements as actions); named routes, `Resource` and named middleware groups in
`Router`; relations and eager loading over `QueryBuilder`; events and flags.


## 6. What is not modelled

Serialisation, formatting, headers and HTML: one goroutine and no state. The cron scheduler is three
calls into a library. Password reset, e-mail verification and remember-me are an INSERT, a SELECT and
a DELETE each; their interleavings are a collision of the primary key or a token that was never there.
Configuration, the container and the auto-discovery of routes run once before the first request, and
of them only the choice of the key matters later. Schema builder, factories, seeds and generators
write text. Mail, storage and the HTTP client pass a call on. Events and flags are a map under a
lock. Named routes, `Resource` and named middleware groups add rows through the same `add`. Joins,
grouping, raw SQL, dialects, relations and the scanning of rows into structs are text or conversions
of the query builder and the models. Binding of values to fields, templates and JSON resources are conversions of the
context; the events of SSE are never reached under the session's writer. The shutdown of the HTTP
server is that of `net/http`.
