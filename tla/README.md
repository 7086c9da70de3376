# text2sql-saas in TLA+

A model of the server under `src/`: what its requests do to the state they share, checked with TLC on
small instances, and proved with TLAPS for instances of any size where that is possible.

The program is a FastAPI application. One process serves all requests: route functions declared with
`def` run in a pool of threads (40 of them, anyio's default), those declared with `async def` run on the event loop and hand
slow calls to that pool. Two kinds of state are shared by requests: the control-plane database (PostgreSQL: users,
tokens, saved connections) and, in memory, the cache of SQLAlchemy engines of the customers' databases, the generation
semaphore and the language model.

## Inventory

| Component | State | Operations | What is hard |
|---|---|---|---|
| Engine cache, `services/connection_cache.py` | `_entries`, an ordered dictionary under a lock | `get`, `put`, `evict`, `clear` | engines are disposed after the lock is released; expiry inside `get`; overflow; replacement by a second builder |
| Connection service, `services/connections.py` and `api/routes/connections.py` | rows of `db_connections`, the cache | `create_connection`, `delete_connection`, `get_connection_entry`, `list_connections` | each is several transactions and a cache operation, and anything may happen between two of them; engines are built before the row exists; what is saved must be usable later, after restarts and changes of the host's addresses |
| Lifespan, `main.py` | owns the cache | start, `clear` on shutdown | a put after the clear would leak |
| Accounts, `auth/routes.py`, `auth/verification.py`, `auth/users.py`, `auth/oauth_routes.py` | `users`, `oauth_identities`, `email_verifications` | sign-up, verify, resend, Google sign-in, login | transactions at READ COMMITTED that wait for each other's rows; mail after the commit; an unverified account is deleted by a sign-in |
| Authentication dependencies, `auth/dependencies.py` | none | `require_user`, `require_verified_user`, `lookup_tenant` | a token outlives its user |
| Generate route, `api/routes/generate.py`, `core/rate_limit.py` | generation semaphore, request log | `POST /generate` | check-then-acquire; the engine it was given may be disposed while it works; errors that are not logged |
| Generation and voting, `services/inference.py` | none | candidates, execution, vote | one candidate's exception ends the request; which failures count as "database unavailable" |
| Execution, `db/runner.py`, `db/connection.py`, `db/query_guard.py` | a thread per query, the pool of the engine | `execute_live` | the timeout does not bound the call; two timers of five seconds race; the engine is disposed while it is used; pool of two |
| Schema validation, `services/schema_validation.py` | none | `validate_sql` | one alias map for all scopes of a query, keyed by spelling; names that a query defines itself |
| Connection-string checks, `db/connection_safety.py` | none | `validate_connection_string` | the address that is checked must be the one that is used, much later; the normal form may be longer than what is accepted |
| Encryption, `core/encryption.py` | key set, from the environment | `encrypt`, `decrypt` | rows outlive the keys they were encrypted with |
| Evaluation, `scripts/eval` | the checkpoint file, the file with the run id | `run_full_eval`, `rerun_failed`, `rescore_all` | interruption at any point, in the middle of a line, or between the emptying of the file and its rewriting |
| Model loader, semantic layer, configuration, startup checks, health, email sender, JWT and API keys | constant after the start, or none | | no shared state that changes |

For each component, what makes it correct: the cache never hands out a disposed engine and never leaks one; a
connection is only served to the user that saved it; a refused request leaves nothing behind; a deleted connection is not
served; no verified account is lost, and none is linked before its address is proven; every unverified account can still be
verified; every request is answered; a call to a customer's database ends, connects to a checked address only and does not blame its query
for an outage; a saved string can be read after a key rotation; an interrupted evaluation loses a batch at most. `PROJECT.json` lists the hazards line by line, with the properties that cover each.

## Modules

| Module | What it is |
|---|---|
| `ConnectionCache` | the cache: `entries` is the `OrderedDict`, oldest first; `toDispose[k]` the engines that thread `k` took out and still has to dispose, after the lock; `disposed` those it has |
| `EngineStore` | what the cache promises: a store from which every engine leaves once and is closed in the end |
| `MCCache` | the cache for TLC, with a history of use, and the refinement mapping to `EngineStore` |
| `ConnectionService` | requests as threads over `rows` (the table `db_connections`) and the cache; EXTENDS `ConnectionCache` |
| `MCConnectionService` | the service for TLC |
| `Accounts`, `MCAccounts` | transactions of sign-up, verify, resend and Google sign-in on the account tables |
| `Generation`, `MCGeneration` | `POST /generate` after its lookup: the semaphore, the candidates and the vote, the answer and its log |
| `LiveExecution` | `execute_live` calls of several generations on the pool of one engine, with the clock |
| `SavedConnection` | one connection string: checked, resolved, encrypted, saved, and used again after restarts and changes around it |
| `SchemaValidation` | `validate_sql` as operators, with a reference: how a database with the schema's tables resolves names |
| `MCSaved` | `SavedConnection` for TLC, composed with `SchemaValidation`: queries are validated against the schema of its engine |
| `EvalCheckpoint` | `run_full_eval`, `rerun_failed` and `rescore_all` on the checkpoint file, interrupted anywhere |
| `ConnectionCacheProofs`, `CacheStoreProofs`, `ConnectionServiceProofs`, `AccountsProofs`, `GenerationProofs`, `LiveExecutionProofs`, `SavedConnectionProofs`, `EvalCheckpointProofs` | theorems |

**ConnectionCache.** A method's critical section is one action, and each `dispose` of an engine afterwards is another:
the lock is held for exactly the first. The clock is an age per entry that `Tick` advances, capped just above
the time to live, since `get` only asks whether an entry is older. A schema belongs to its engine and is not a variable.

**ConnectionService.** A request takes a thread (`Begin`, while fewer than `PoolSize` are taken), and then takes a step per
transaction or cache operation: `pc` is where it is, and its answer in the end. The work between two steps touches nothing
shared, apart from building an engine, which is part of the step that follows the refusals before it. Requests are one-shot: a create is the one
row and the one engine it may make, so the request names both, and a row id is not used twice. Control-plane errors,
connections that break during COMMIT (`CreateInsertFails`, `DeleteRowUnsure`), decryption errors and failing tests of
an engine are choices of the environment. `rows` is the table, `saved` the rows there ever were, `built` the engines
there ever were; the last two are read by properties only.

**Accounts.** Statements are actions when they may wait, and what a transaction wrote is visible at its
commit. The locks a transaction holds are a function of where it is (`LockedBy...`, `Email...`): `SELECT ... FOR UPDATE`,
an `UPDATE`, deleted token rows, the cascade, and unique keys that are inserted or deleted and not committed. A
`DELETE` is two actions, its snapshot and its writes, which is where READ COMMITTED lets two resends miss each other's
token. The foreign-key check of the token's insert takes its lock and commits in one action. `google_callback` is a coroutine that calls
`find_or_create_oauth_user` directly: while it waits for the database, the event loop is blocked and no other request
is taken up (`EventLoopBlocked`), though threads already running go on. PostgreSQL itself (locks, deadlock detection, lost
connections) is modelled from how the code uses it. Token rows locked by one `DELETE` are taken together.

**Generation.** The route is a coroutine: from one `await` to the next it is one action (`Admit` is the whole of
lines 46 to 56, the look at the semaphore and its acquisition, which does not wait), and the two calls it awaits run in a
thread of the pool (`TakeThread`, then `Lookup` or `Sample` and `Conclude`). A candidate is its outcome: the signature
of its result, `"db_unavailable"` or another failure. Two results are equal when their signatures are, which is all the vote tells
apart, so the elected candidate is a position in the sequence of outcomes. `Lookup` stands for an operation of
`ConnectionService`: it works, is refused, or raises. `log` is what each request handed to `log_request`.

**LiveExecution.** A call is its thread (`phase`: in the pool's queue, pinging, connecting, running the statement) and whether
`future.result()` has given up on it (`gaveUp`); it answers when the thread ends, because leaving the executor waits for it.
Time is counted in ticks of five seconds, the unit of every timeout here, and `Tick` is not possible while somebody's own timeout is
due. SQLAlchemy's pool is modelled from `build_customer_engine`: no overflow, a ping before a connection is used again,
invalidation of the others when one breaks, a new pool when the engine is disposed (`stale` holds the calls whose
connection is of the old one, or that keep queueing at it). The cache disposes an engine once; the model admits any number of
disposals. Calls overlap only where `MAX_CONCURRENT_GENERATIONS` is set above its default of 1 (`src/app/core/config.py:39`); with
the default, the run's behaviours in which one call is idle are the program's. The customer's database can be reached or not, as it likes; while it can, it may still refuse a
connection, drop one, or end a statement with an `OperationalError`. `reached` are the calls during which it could be reached at some moment, and is read by a
property only. The query is one that `guard_readonly` let through.

**SavedConnection.** One request runs at a time, since the races are `ConnectionService`'s; here the data is in focus. A string is
the record of what the checks look at, with its length; a host resolves to a set of addresses that changes at any
time; a ciphertext is the text with the key it was made with. `Normal` is what is rendered and saved. `Restart` brings other
settings of the keys and empties the cache. `contacted` is the address the step just taken connected to.

**SchemaValidation.** A query is a sequence of scopes (the outer query and at most one subquery in the runs), each with the table and column
references that `find_all` yields, in the order in which it meets them, and with what the scope defines itself: tables of a WITH (`ctes`), subqueries in FROM
(`derived`), names in the select list (`outputs`). `validate_sql` looks at the references only. `Resolves` is the reference, which knows both: how a database resolves the names
when its tables are those of the schema. `NamesItsOwn` says that some reference is to a name the query defines. The bodies of a WITH and of a subquery in FROM are left out. The
reference does not know system columns, whole-row references, a qualified star (`s.*`), functions in FROM, views or further schemas.

**EvalCheckpoint.** The file is a set of records with the way it ends (`cut`); what is written and not flushed is `unflushed`. An interruption lets any part of
that reach the file. One program runs at a time, in one session. The cut also says whether the next append joins two lines.
Runs of wandb are numbered as they are started; `runFile` is the one the id's file names, or that the file is missing or empty; `logged` are the runs that got a score and is read by a
property only. `wandb.init` refuses an empty id (`InitRefused`).

`EngineStore` is the abstract specification: three actions on a function from connections to engines; `Safety` is
what it allows, `Spec` adds that what is released gets closed. The refinement maps `store` to the dictionary (`MapOf`), `released` to the engines on their way to disposal, `gone` to the disposed ones.

## Runs

| Run | Instance | Shows |
|---|---|---|
| `cache` | 3 connections, 3 engines, 2 threads, size 2, TTL 1 | the dictionary's shape, no use after dispose, the entry an overflow drops is the least recently used, and the cache implements `EngineStore`, with its liveness: what is released is closed |
| `service` | 4 requests, 2 users, 1 name, limit 1, 2 threads at a time, cache of 1, TTL 0 | every engine has one keeper, only the owner is served, refusals leave nothing, a shutdown releases all |
| `service_answers` | 3 requests, 1 user, 3 names, limit 1, 2 at a time | how far the limit can be exceeded; deleted connections are not served; every request is answered |
| `delete_evicts`, `schema_miss` | 3 requests | two statements of the repository the service does not keep, see below |
| `accounts` | 3 requests, 2 addresses, 2 Google accounts | no verified account is lost, no takeover, an unverified account has a token, mail follows the commit, no transaction waits forever |
| `one_token` | 3 requests | a statement of the repository the accounts do not keep |
| `generation` | 2 requests of 1 to 3 candidates, 2 results, 1 permit, 1 thread | permits come back, the answer is the vote's, one log line of what is answered or sampled, every request is answered |
| `live_execution` | 2 calls, a pool of 1, timeouts of 1 tick, 2 for the pool | the pool's bound, how long a call lasts, that timeout is answered when it is true, that an outage is not taken for a wrong query, and that every call ends |
| `timeout` | 1 call, a pool of 2 | a statement of the repository `execute_live` does not keep |
| `saved` | 1 connection, 13 strings, 4 addresses, 6 settings of 2 keys, 2 schemas; queries of one or two scopes with two tables and a column, some with names of their own | checked addresses only, rotation, what can be refused later, and what `validate_sql` gets right |
| `evaluation` | 4 examples, batches of 2, 2 interruptions | each example once, nothing dropped, a batch lost at most, one history in wandb, completion |

**Bounds.** Two threads at a time and a cache of one entry are enough for each pair of operations to race and for
connections to compete for the cache; the fourth request lets a third party (a create, a delete or a rebuild) come between two others. Three names, a limit of
one and a pool of two let the limit be exceeded; the limit of 5 and the pool of 40 only change the numbers, as `LimitHolds`
proves. A TTL of 0 lets an entry expire at the first tick. In `accounts` three requests are enough for
a sign-up with a resend, a verification or a second sign-up, and a sign-in that races one of them; the proofs hold for any
number. In `generation` three candidates are the fewest of which the first can lose the vote, and two requests the fewest of
which one finds the permit taken. In `live_execution` a pool of one and two calls make one wait for the other; the time is bounded by the model itself, because no
timeout that is due lets it pass. `MaxCrashes` bounds the interruptions of `evaluation`: two are enough for an interrupted program to be
resumed and interrupted again; four examples in batches of two leave a batch written, one in memory and examples to score.
In `saved` each string differs from an accepted one in one respect, two of them at the length limit, and the settings are a
rotation and back, a replaced key, a lost key and two that are refused; queries are asked for under the first settings, since what is
valid does not depend on them. One column is enough because every column is judged by itself. Queries with names of
their own define any of: a WITH for a table the schema has or lacks, a subquery in FROM, an output; they refer to them or not, from the same scope or from a subquery.
The runs with symmetry check invariants only. The service, accounts and generation runs do
not check for deadlock: their requests are one-shot and the application is shut down, so the system really stops; `RequestsFinish`,
`RequestsAnswered` and `GenerationsAnswered` say what a deadlock would break. Nor does `evaluation`: a file that ends in half a line stops every
program, and an empty id stops `run_full_eval`. `cache`, `live_execution` and `saved` check for deadlock.

**Fairness.** `FairSpec` gives each request weak fairness of its next step: its thread is scheduled, and no call it makes
can block for good (`connect_timeout`, `statement_timeout` and the pool's timeout bound the customer's database, the cache's lock is
held for a few dictionary operations, `_dispose` swallows errors). In `Accounts` a statement that waits for a lock
is disabled while it waits, and PostgreSQL's deadlock detection is one of the steps. In `Generation` the pool's thread goes to whoever waits for
one (strong fairness of `TakeThread`: the pool serves a queue), and a candidate's execution ends because the engine's
`statement_timeout` ends the query; the timeout in `execute_live` does not, since leaving its executor waits for the query. `LiveExecution` is weakly fair to what threads and timeouts do (`Work`) and strongly fair to `Tick`, as
others' steps must not stop the time; that a connection is accepted or a statement ends (`Served`) is not assumed. `EvalCheckpoint` is
fair to the program that runs and assumes that somebody starts `run_full_eval` again and again (strong fairness, since other programs
may run in between); interruptions are bounded, and no program is assumed to be interrupted or not.
A request that was not taken up, the
clock, expiry and lost connections get no fairness. `EngineStore` requires of `Close` what the disposal loop gives.

## What the code does not keep

Shown by a run that expects the violation:

* An engine of a deleted connection can be cached after the eviction, by a rebuild or a create that puts it late,
  and nothing removes it but an overflow or the shutdown (`delete_evicts`). It is never served (`DeletedIsNotServed`).
* `GET /connections/{id}/schema` answers 500 unless the engine is cached: it passes `get_encryptor` for
  `get_encryptor()` (`schema_miss`).
* Two resends at the same time leave two live tokens (`one_token`).
* The timeout of `execute_live` does not stop the application from waiting (NOTES.md:245): leaving the executor waits for the
  query's thread (`timeout`), for up to 25 seconds with the settings of `build_customer_engine` (`CallBounded`).

Visible in the models, without a run of their own:

* The limit of 5 connections can be exceeded by the number of pool threads minus one (`LimitBound`), not by one, as NOTES.md:1028 has it.
* A resend answers 500 when a Google sign-in replaces the account between its two statements (`ResendInsert` in `Accounts`), although
  test_verification.py:125 says it always answers ok. It breaks no safety property.
* `POST /generate` answers 500 without a log line when no model is loaded, or when the lookup raises an exception the
  route does not name (`Admit`, `Lookup` in `Generation`), although NOTES.md:551 says every call is logged. `LoggedOnce` says what does hold: what the
  route answers, and whatever sampled a candidate, is logged once; of these two answers it says nothing.
* A connection string can be accepted, tested and saved in a normal form that is longer than what is accepted (port and `sslmode` are filled
  in), and is then refused at each rebuild; NOTES.md:1025 says a bad connection is never stored. `RefusedForItsHost` has it as its exception.
* `db_unavailable`, and so the 503 of `POST /generate`, does not mean that the database was unreachable (NOTES.md:426): runner.py:38 makes it of
  every `OperationalError`, which a statement on a reachable database raises for a deadlock, a lock timeout, want of memory or disk, a cancellation, or its
  `statement_timeout` (`QueryEnds`, `QueryCancelled` in `LiveExecution`). And an outage that outlasts the call's timeout is answered as a timeout, which counts as a failed candidate and gives 422.
  `OutageRecognised` says what does hold: an outage is answered by one of these two and never as a wrong query.
* Column ownership is not "handled correctly by construction" (NOTES.md:121) across scopes: there is one `alias_map` for the query, so
  a subquery's alias replaces the same one of the query around it; a qualifier that is spelled in another case than it was declared is not
  checked. `OneScopeExact` and `ResolvableAccepted` say what does hold.
* `validate_sql` refuses queries that the database answers when they refer to names of their own: an output in `ORDER BY` (`SELECT count(*) AS n FROM a ORDER BY n`) or a column of
  a subquery in FROM (schema_validation.py:101-111), a table of a WITH (94-97; at the start of a query, `guard_readonly` would refuse the WITH later). The same goes for the references that `Resolves` does not
  know. The two properties and the theorems about queries therefore have `~NamesItsOwn` as a hypothesis; without it, TLC refutes `ResolvableAccepted`.
* An interruption between the emptying of the checkpoint file and its rewriting loses the records (`Rewrite`, `Crash` in `EvalCheckpoint`); `NothingDropped` therefore speaks of
  programs that are not interrupted. `EveryExampleScored` shows that they are scored again.
* The evaluation is not continued "however many times it gets interrupted" (eval_full.py:51-55): an interruption at line 74 leaves `wandb_run_id.txt` empty, the next
  session reads `""`, which is not `None`, `wandb.init` refuses it, and so in every later session until somebody removes the file (`InitRefused` in `EvalCheckpoint`). `EveryExampleScored` has this as
  its exception, beside half a line in the checkpoint file. What was logged before and after any other interruption is one history (`OneHistory`).

## Proofs

`ConnectionCacheProofs` proves `CacheIsSafe` and from it `CacheShapeHolds` for any number of threads, engines and entries, from `CacheAssumption`. Its invariant
is the conjunction of the three properties, which is inductive: entries have distinct ids and distinct engines, and no
engine is in two of: the dictionary, a thread's `toDispose`, `disposed`. The lemmas on sequences (`PositionFinds`,
`WithoutSplits`, `PutSplits` and others) say which engines stay and which leave under each operation.

`CacheStoreProofs` proves that the cache implements the safety part of `EngineStore` (`CacheIsStore`, and `CacheImplementsStore` with the
history), from `CacheAssumption` and `NoEngineAssumption`, one operation at a time: `MapOf` turns the dictionary into a map, a hit and the clock change
nothing that the map shows, an expiry, an eviction and a clear are a `Forget`, a disposal is a `Close`, and a put is a `Keep` in which others make room
only when the dictionary is full afterwards (`PutOnMap`). `OverflowHolds` proves `OverflowIsLeastRecent` with the invariant `OrderIsHistory`: an id that comes
after another one in the dictionary was used since that one was. The property speaks of one put, the invariant of what the operations before it keep:
removing an entry keeps the order of the others, and using one puts it behind all of them. All that is left after an overflow came
after what it drops, and that is `MaxSize` ids.

`ConnectionServiceProofs` proves `EnginesAreKept`, `TenantsAreIsolated`, `LimitHolds`, `ShutdownIsClean` and type correctness, from
`OneShot` and `ServiceAssumption`. The inductive invariant adds to the properties what each point of a request's code
knows: which requests were built, that a request past its lookup asks for a connection its user saved, that a put is
of an engine in hand. It is needed because the properties speak about the cache, while what is put there is decided several steps
before. `LimitHolds` counts: rows of a user and requests of that user between the check and the insert are together at
most the limit minus one plus the pool (`LimitInv`). `ShutdownIsClean` adds that after the shutdown no thread but the main one
has anything to dispose (`Quiet`). `RefusalsAreClean` adds that what a refused request built is disposed (`RefusedDisposed`);
`DeletedStaysUnserved` follows from the invariant step by step.

The cache is specified with a client that keeps rules: an engine is put by one caller, under the id it was built for, never after it left the cache, and
a caller disposes what it took out before it calls again. `ServiceIsCacheClient` proves that the service is such a client: it implements
`ConnectionCache`, where `disposed` are the engines it disposed after it had handed them over (`Handed`), not those that failed before. The invariant it needs
beside `Inv` is that every engine in the cache, or on its way out of it, was handed over (`HandedOver`). With `CacheIsStore` it gives
`ServiceImplementsStore`: whatever requests interleave, the engines the service caches behave as those of the store.

`AccountsProofs` proves `VerifiedIsKept`, `NoTakeover`, `LinksCanWork` and type correctness from `NoneIsNew`. The
invariant says what each open transaction relies on: a sign-in holds the row it locked, which is verified or not as it
was read (`SignInHolds`); no verification that wrote is open on that row (`Exclusive`); one sign-in is open at a time
(`OneSignIn`); a verification's token was mailed and is its user's (`Verifying`); a `DELETE` works on rows of its own
user (`SnapsAreOwn`).

`GenerationProofs` proves `PermitsAreReleased`, `RequestsAreLoggedOnce`, `AnswersFit` and type correctness from
`GenerationAssumption`. For the log, what it holds is known to the line (`LoggedExactly`), and an exception that leaves the route does so before a candidate was sampled
(`Unsampled`). For the permits, each step either keeps the set of holders, adds one request and takes a permit, or removes one and
gives one back (`PermitStep`). For the answers, `VoteInv` keeps the candidates and the elected one of a request that has
voted, and `ElectWins` says what the vote elects: the set of vote counts has a greatest element, by the well-foundedness
of the naturals, hence so does the choice of the most common signature, for any number of candidates.

`LiveExecutionProofs` proves all its safety properties from `LiveAssumption`, which has the call's timeout no longer than the
engine's for connecting and for a statement, and shorter than the pool's. For `OutageRecognised` the last is what matters: the one error of a call that met an outage which is no
`OperationalError` is the pool's, and it comes after the call gave up; `OutageInv` adds that a call in its statement has met a reachable database. The invariant (`TimeInv`) bounds a call's clock by the time its thread may have spent in the phases
before the one it is in, and says that a call that has not given up is within its timeout; for the pool, the connections taken and the idle
ones are counted together, and each step moves one, adds one when there is room, or takes some away.

`SavedConnectionProofs` proves from `SavedAssumption` that only checked addresses are connected to, that the engine is of the saved string (`EngineIsOfRow`), that a
rotation keeps rows readable and why a saved string may be refused. `SavedInv` says what the row, the running request and the cached engine have in common: strings in
normal form, which `Normal` maps to themselves, and addresses that were public when they were pinned.

In the same module are the theorems about `SchemaValidation`, for queries of any number of scopes, tables and columns that refer to no name of their own: `OneScopeIsExact`,
`ResolvableIsAccepted` and `QualifiedIsExact`. For such a query the reference comes down to the schema's tables (`OnlyTheSchemas`), whatever the query defines besides. They rest on what the one alias map of a query says when names are apart: a name stands for the table that
the scope declaring it gave it (`AliasStandsFor`). That a scope has no two tables under one name (`Distinct`) is a hypothesis, as the database refuses
such a query; the runs' queries all fulfil it (`QueriesAreScoped`). `OneScopeExactHolds` and `ResolvableAcceptedHolds` are the properties of the run, where the
query is judged against the schema of the engine it is for (`AskedInv`); they assume that a schema's tables are table names (`ValidationAssumption`).

`EvalCheckpointProofs` proves all the safety properties, and that the evaluation only adds to the file (`CheckpointsStay`), from `EvalAssumption`. `ScoredInv` says that the file, what is written, what is in memory and
what is still to be scored are about different examples, except while a rewrite holds the file's records in memory; `BatchInv`
adds the size of a batch. `HistoryInv` says that a session which scores has the run that the file names, and that nothing was logged while the file names none.

Only model-checked: liveness (`RequestsFinish`, `RequestsAnswered`, `GenerationsAnswered`, `EveryCallReturns`, `EveryExampleScored`) and the part of
`ImplementsStore` that says that what is released is closed, which are out of the prover's reach. Every other property of a run is proved.

## Assumptions

One process (`uvicorn app.main:app` as the README starts it); requests that were accepted are drained before the lifespan
ends; `SERIAL` ids are not reused; a token cannot be guessed, so a client verifies with a token that was mailed or with one that
does not exist. Nothing in the code bounds a connection over which packets vanish without an error; that the database cannot be reached means here that
connecting or reading fails. The cipher opens under no other key. One session runs the evaluation scripts at a time.

## Not modelled

`PROJECT.json` gives the reason for each component. In short: prompts, hashing and the model itself are data
or libraries; list and login only read; slowapi's counters are the library's; the guard's keywords and the parsing of SQL and of URLs are work on
text; `execute_queries` and `compare_execution` are a sequential program on a local file; the scripts that only read the
checkpoint file, and `explore.py`, change nothing.

## Plan

1. Done: `ConnectionCache`, `EngineStore`, `ConnectionService`, `Accounts`, `Generation`, `LiveExecution`, `SavedConnection` with
   `SchemaValidation`, `EvalCheckpoint`, their runs and safety proofs.
2. `Ownership`: accounts and connections composed: an unverified user owns no connection, and the cascade that
   deletes a user leaves no engine behind.
3. `GenerateWithConnections`: `Generation`, `ConnectionService` and `LiveExecution` composed, so that the disposal of an engine in use is the cache's own.
4. An abstract directory of connections that `ConnectionService` implements, beside the engine store it is proved to implement.
