# Formal model of rawsql-ts

TLA+ modules, TLC configurations and TLAPS proofs for the parts of rawsql-ts in
which the order of events, failures or name resolution decide correctness: the
test kit that shares database connections between test scenarios, the clients
and drivers under it, the executor that brackets work in transactions, the
two algorithms that put fixtures and views in front of a query, the transformers of
core that move conditions, remove joins and CTEs and gather or rename CTEs, and the
workflow that publishes the packages.

Paths below are relative to `src/packages/` unless they begin with `src/`.

## 1. Inventory

| Component | State it keeps | Operations | Interacts with | What is hard | What makes it correct |
|---|---|---|---|---|---|
| `TestkitProvider` (testkit-core) | closed flag, promise of the shared connection, promise chain `sharedQueue` | `withRepositoryFixture` (shared and perTest), `close` | hooks of its user: connectionFactory, resourceFactory, callback, releaseResource, resetHook, disposeConnection | concurrent calls, cleanup after any hook rejected, close racing scenarios, callbacks that call back | one scenario at a time on the shared session, nothing left behind, no use after disposal, close waits for the queue, every call settles |
| `PgTestkitClient` (adapter-node-pg) over `PostgresTestkitClient` (testkit-postgres) | connection, its promise, `released`; the `ExecutionContext` (executor, closed) of a family of clients | `query`, `withFixtures`, `close` | connectionFactory, a pool's connection | concurrent first queries, a rejected or throwing factory, close while opening | one connection at a time, released once, no failure remembered, nothing left open |
| `createConnectionProvider` (executor) | nothing of its own; sessions live in the pool | `withConnection`, `withTransaction` | connectionFactory, disposeConnection, the database | any two of BEGIN, callback, COMMIT, ROLLBACK and dispose failing; nested calls on a small pool | atomicity, connections go back once and clean, the first error wins |
| `SqliteSelectTestDriver` (testkit-sqlite) | a lazily opened handle | `query`, `withFixtures`, `close` | connectionFactory, the handle | a handle copied into derived drivers | no handle leaked, a family shares one |
| `DdlViewCatalog` (testkit-core) | views, their dependencies, name index | constructor, `expandReferencedViews`, `resolveViewKey` | the rewriter | depth-first search with three sets, cycles, diamonds | complete, minimal, in dependency order, rejects exactly the cycles |
| `ResultSelectRewriter`, `fixtureAliasing`, `TableNameResolver` (testkit-core) | none between calls | `injectFixtures`, the alias map, the renaming | the view catalog, core's `TableSourceCollector` | names that join to one identifier, search paths, CTEs of the query | no alias captures a name, every source reads what it meant |
| `DdlFixtureLoader` (testkit-core) | static cache of loaded directories | `getFixtures`, `getFixture`, `getViewDefinitions` | the file system | one cache for all instances, never invalidated, keys that lose the order of directories | a loader returns what its own options describe |
| `DefaultFixtureProvider`, fixture state and validation (testkit-core, testkit-postgres) | definitions by key | `resolve` | the rewriter | which of several fixtures of a table wins | the scoped fixture wins, unknown tables are refused |
| Pool and client wrapper (adapter-node-pg) | one test client per pooled connection | `query` | pg | callback and promise signatures | the statement reaches pg once |
| Condition optimizers (core): `ConditionOptimization`, `StaticPredicatePlacementOptimizer`, `ParameterConditionPlacementOptimizer`, `PruneOptionalConditionBranches`, `SSSQLFilterBuilder`, `ConditionDeduplicationOptimizer` | none between calls; phases that rewrite one query | prune, refresh, place with parameter, place without, deduplicate | each other through the query; `SelectOutputCollector` | outer joins, NULL, LIMIT, windows, groups, UNION positions, names that change on the way | the query returns the same rows after every move |
| Unused joins and CTEs (core): `OptimizeUnusedLeftJoins`, `ColumnReferenceCollector`, `CTETableReferenceCollector` | none between calls | remove to a fixed point | `DynamicQueryBuilder` | a removal makes another possible; what the collectors do not see | same rows, nothing removable left |
| CTE normalization and renaming (core): `CTENormalizer`, `CTECollector`, `CTEDisabler`, `CTEBuilder`, `CTEInjector`, `CTERenamer` | none between calls; the caller's query is rewritten in place | move all CTEs to the root's WITH, rename one | unions, joins and `toSimpleQuery` normalize what they build | nested WITH clauses with equal names, names that are a table here and a CTE there, walks that see different parts of the query | every read keeps its CTE, no name is captured |
| CTE composer, decomposer, analyzers (core) | none | texts of CTEs from a query and back, reports | the syntax tree | cycles, recursion | dependencies first, RECURSIVE when needed |
| Parsers, printers, formatters, collectors, utilities (core) | none outlives a call | text to tree and back | | grammar | round trips |
| Binder (`_shared/binder`), driver adapter | none | `compileNamedParameters` | the drivers | quotes, comments, casts | only parameters are replaced |
| sql-grep-core, test-evidence-core, renderer | none | reports and differences | files | | |
| `src/scripts/publish-plan.mjs`, `src/scripts/ci-publish.mjs` | what npm and GitHub keep between runs: versions, what `npm view` shows, provenance entries, deprecations, tags, releases | plan, publish (with OIDC, then with a token), deprecate, tag, release | npm, git, GitHub | a failure between any two steps and another run; npm shows a version late; a token in the environment | tags tell the truth, every run ends, reruns get everything published |

Everything in a JavaScript process runs without interruption between two awaits;
one action of a model is one such stretch of code (or one loop iteration or call
of a recursive function, in the synchronous algorithms).

## 2. Modules and how they correspond to the code

| Module | Role |
|---|---|
| `TestkitProvider` | detailed model of `testkit-core/src/provider/TestkitProvider.ts` |
| `SerialScenarios` | abstract specification: a first-come first-served queue of scenarios |
| `ConnectionProvider` | detailed model of `executor/src/createConnectionProvider.ts` on a pool |
| `AtomicTransactions` | abstract specification: a transaction is decided once, before its answer |
| `PgTestkitClient` | both clients of the Postgres test kit, one family of them |
| `SqliteSelectTestDriver` | the SQLite driver's handles |
| `DdlViewCatalog` | the depth-first search over view dependencies |
| `FixtureRewriting` | `injectFixtures` with aliasing and name resolution |
| `QueryMeaning` | queries as a tree of blocks, and the rows each returns: the definition the optimizers are held against |
| `ConditionPlacement` | where a WHERE term may go, and the move itself |
| `ConditionOptimization` | the phases of `runConditionOptimization` |
| `UnusedRelations` | the two fixed points of `OptimizeUnusedLeftJoins.ts` |
| `CteTransformations` | `CTENormalizer.normalize` and `CTERenamer.renameCTE` |
| `PublishPackages` | the publish workflow, one run after the other |
| `MC…` | instances of these for TLC |
| `…_proofs` | theorems about a module, checked by TLAPS |

Definitions marked "Mutant" stand before the definition they vary: each is a
plausible bug of that code, and some property of a run is violated when it
replaces the original.  They are not part of any specification.

### TestkitProvider

`Calls` are calls of `withRepositoryFixture`, `Closers` calls of `close`;
`Parent[p]` is the call whose callback makes and awaits `p`.  `promise` is
`sharedConnectionPromise`; a connection bears the name of the call whose factory
made it.  `tail` is the promise in `sharedQueue`, `awaits[p]` the value of it
that `p` found, and `Settled` is the `.then(f, f)` that swallows a rejection.
The `pc` of a call walks through the awaits of `runScenario`: acquire, begin,
make the resource, run the callback, and the finally block's release and reset;
perTest calls end with `Dispose`.  `dirt[k]` are the calls whose writes the
session of `k` still shows: it is what the transaction or the reset hook is there
to clear, and is cleared only where the code sends ROLLBACK or calls the hook.
A release that rejects leaves the finally block, which skips the reset; `unreset`
records the calls of which that, or the reset itself, went wrong.

### ConnectionProvider

`primary` is `primaryError`.  `"nothing"` in `Faults` is a callback that rejects
with `undefined`.  A connection keeps its `session`, the writes not yet
committed, when it changes hands, and COMMIT makes all of them `durable`; a COMMIT
that rejects may have committed or not, and a disposer that rejects may have given
the connection back or lost it.  Two history variables record what the code does not
keep, and no guard reads them: `first[c]` is the first error that anything call `c` awaited
raised (`Raise`), a suppressed one included, against which `OriginalErrorWins` holds the
outcome; `unrolled` are the calls whose ROLLBACK was rejected, after which the next COMMIT
on that connection makes their writes durable.

### PgTestkitClient

Clients derived with `withFixtures` run their queries through the executor of the
client they come from and share its `closed` flag, so a family is one machine.
`link[q]` follows the connection that query `q`'s factory call makes.  A factory
that throws rather than rejects is a case of its own: the async function's
finally block has then run before the promise is assigned, and the rejected
promise stays.  `untidy` records what the caller did (a close with queries in
flight, a query after a close), because some promises hold only without it.

### SqliteSelectTestDriver

Handles are numbered as they are opened.  All of it is synchronous; what varies is
the order in which drivers are derived, used and closed.

### DdlViewCatalog

`path` is the stack of the inner `visit`, `left[v]` the rest of the loop in the
call for `v`.  `assertAcyclic` runs the expansion once per view before the catalog
counts as constructed.  Which member of a Set comes next is left open.

### FixtureRewriting

A table name is a schema and an identifier.  A source is the name it reads, its
explicit alias and the qualifier of its columns.  The steps are those of
`injectFixtures`: collect what the query needs, allocate the aliases (one action
per turn of the two loops), rename, prepend.  `Candidate` is `buildAliasCandidate`,
a parameter: the proofs hold for every way of building candidates, and the
instance gives it the underscores of the code.  `Meant` says what a name means in
the query as it came in, `Reads` what it reads after the rewriting.

### QueryMeaning, ConditionPlacement, ConditionOptimization, UnusedRelations

A query is a sequence of blocks (one SELECT each), CTEs with the body they name and
a UNION as a body of several blocks.  A WHERE is the sequence of its top-level AND
terms; a term has an operator, column references, a parameter, and whether it is in
parentheses.  `Meaning` gives the sequence of rows of a query on a database, with three
values for a condition and NULL; an outer join, DISTINCT ON, LIMIT, a group and a
window mean what SQL says.  Rows come in
the order of the tables, and a LIMIT takes the first: a condition put below it changes
the rows.  The definitions are functions over lists, without RECURSIVE, so that they can
be proved about: `Evaluated` gives the rows of one block from those of its sources, and
`Meaning` is the function of all blocks that agrees with it.

`ConditionPlacement` is the search shared by both placement optimizers:
`Accepts` holds the boundaries of `resolveTargetPlacement`, `Destination` what
`resolveTarget` answers, `Rebase` how columns get their names in the new place.
`ConditionOptimization` has an action for each term looked at: `Prune`,
`RefreshBranch` (an optional branch `:p is null or col = :p` moves to the query its
column comes from), `PlaceCondition` (terms with a parameter), `PlacePredicate`
(terms without one; `agenda` is the list of queries that a moved term makes the
optimizer look at again), `DedupeAll`.  Neither optimizer looks at conditions when it
looks for a place, so that `Places` asks the query without them (`Skeleton`).

`UnusedRelations` removes one set of joins or CTEs per step, as the loops of the code
do; a CTE that stays keeps its number.  `FixedPointReached` has two conditions, each
needed: the CTEs go last, and one that goes may have had the only use of a join; and a
CTE that reads the name of a later one counts for the code as a reader of that one, so
that two such CTEs keep each other.  `SchemaAssumption` is what the caller of
`optimizeUnusedLeftJoins` vouches for: the tables have these columns, and no two rows
the same value in a key.  `UnusedInputsAssumption` says that a query is what a parser can
have built from valid SQL: every source has an alias, no two CTEs of the WITH one name,
and none is recursive (the code leaves a WITH RECURSIVE alone).
`MissedUse` lists the uses of a join that the code does not see: in a BETWEEN, without
a qualifier, an ON that compares with no other source, a table that is read under the
alias of a CTE, and another source whose alias is the name of the removed table, whose
columns `JoinColumn` then takes for the join's own.

What the code gets wrong is named, not left out: `BranchMovesUnsafely`,
`BranchIsPassedBy`, `PositionsShift`, `ExistsIsMisread` and `MissedUse` say which
queries are not covered by `OptimizedMeansTheSame` and `RemovalMeansTheSame`.
Without any one of them the property is violated; the hazard list of PROJECT.json has
the lines.

### CteTransformations

A CTE has the block whose WITH defines it (`at`), a block the set of CTEs it sees
(`scope`; the inner one of two with one name wins).  Normalizing takes two steps, as
in the code, which strips every WITH in place before it builds the new one:
`CollectAndDisable`, then `Inject`, or `RejectConflict` when two CTEs of one name
print differently, which leaves the caller's query without its WITH clauses.
`Collected` is the order of the collector's walk, the only thing that puts a CTE
behind those it reads: the sort of `CTEBuilder` goes by the CTEs defined inside a
CTE, and by then there are none, so that all it does is to put those that read their
own name first (`Built`); one of these makes the WITH recursive, and every CTE sees
all others (`Injected`).  `RenameCte` is one rename of a CTE of the root, with the
three walks that find its readers: columns everywhere but in BETWEEN, sources of the
root, each name once, and sources of the root's CTEs.

`TransformedMeansTheSame` covers both.  Its exceptions are again what the code gets
wrong, each needed: `CapturedByHoisting` (a name read where it stands for a table,
and hoisted elsewhere as a CTE; also a CTE that reads the table it is named after,
which becomes recursive), `ReadsAhead` (a derived table with a WITH of its own whose
CTE reads one of the enclosing WITH is collected before that one), and `MisnamedRead`, the
reads a rename misses or touches wrongly, and a UNION anywhere in the query, on which
`ColumnReferenceCollector` calls itself for ever.  Of the instance's 245 queries
214 are covered when normalized, and of their 927 renames 328.

### PublishPackages

`phase` is the loop of `main` a run is in, `manifest` its `publishablePackages`,
`todo` those the loop has not come to.  `registry` is what npm has and `visible`
what `npm view` shows, which `BecomeVisible` brings up to date at any time.  `tlog`
are versions whose provenance entry exists without the version: npm refuses another
attempt with provenance (`docs/oidc-publish-troubleshooting.md:44`), and the code
does not try those with the token.  `Fault` is anything that goes wrong outside: npm refuses the
caller, an upload whose answer is lost, `npm view` or `npm deprecate` failing, a push
that delivers some tags, a release that is not made, a runner that is stopped.  A
failing run goes to `"idle"` and its manifest to `interrupted`; `Plan` starts the
next one.

`env` is the part of the process environment that decides who npm takes the caller for:
`NODE_AUTH_TOKEN` and which npmrc `NPM_CONFIG_USERCONFIG` names.  `Sanitized` is what
`sanitizeOidcEnvironment` makes of it, `WithToken` sets both and keeps what was there
in `saved`, `Restore` is the finally block.  A refused publish and a refused deprecation are
both tried again so (phases `"token"` and `"deprecateToken"`).  When the
publish with the token fails the run ends; when the deprecation fails, the guard tries
again from OIDC (`Retry`) or goes on to the next package (`GiveUp`), in the same
process.  npm may refuse deprecations any number of times: these do not count as faults.
`NpmrcFails` is a token attempt that cannot write its npmrc, which happens
between the assignment of the token and the try block; `unwritten` records that a run
has gone on after one.

## 3. Runs

| Run | Instance | Shows |
|---|---|---|
| `provider_reentrant` | 4 shared scenarios and a perTest one, 2 closes, callbacks nested in callbacks, every hook may reject | mutual exclusion, isolation from all but scenarios whose release or reset rejected; the provider can stop only because a callback awaits its own queue |
| `provider_live` | 2 shared, 1 perTest, 2 closes, every hook may reject | success means clean, nothing used after disposal, every connection disposed once, close drains, every call settles, refinement of the fair `SerialScenarios` |
| `pg_client` | 4 queries, 2 closes, the factory rejects or throws | one connection, no query on a released one, nothing left open, every query settles |
| `executor_nested` | 4 transactions and a plain call on 2 connections, three of them nested, one inside a nested one | exclusive connections, refinement of `AtomicTransactions`, stops only by nesting |
| `executor_live` | 2 transactions and a plain call on 2 connections, everything may reject, ROLLBACK and callbacks with a falsy value included | the first error wins, what failed before COMMIT is committed by nobody unless its ROLLBACK failed, every call settles |
| `sqlite_driver` | 4 drivers, 4 handles | no handle leaks, a family derived after the first query has one handle |
| `views_expand` | all 512 dependency graphs of 3 views, all queries, two views with one CTE name | order, completeness, exactly the cycles rejected, termination |
| `fixture_rewriting` | 3 tables in 2 schemas with a common first candidate, up to 2 CTEs and 2 sources, 4 search paths, 5 fixture lists, 4 view sets | aliases fresh and distinct, sources keep their meaning |
| `fixture_alias_column` | the same | finding 1 |
| `optimizers` | 2604 queries for the moves: a root over one block in every shape the optimizers tell apart, as a derived table, a CTE, a CTE over another or a UNION branch, alone or joined with a table; 958 for the removal, with two joins or three CTEs; 245 with two or three CTEs, nested or side by side, for normalizing and renaming; 7 databases of two tables | the same rows after every move, every removal, every normalization and every rename, nothing left to move, nothing left to remove |
| `optimizers_or` | the same | finding 2 |
| `publish` | 3 packages, 2 deprecated, a token, 2 attempts, 2 faults of 9 kinds, any number of refused deprecations and of runs | tags follow the registry and are missing only for interrupted runs, no token in an OIDC attempt before or after any token attempt, every run ends, reruns publish everything |

Bounds.  A nested CTE has the name of the outer one, of a table or its own, and each
of the three reads that matter any of these names; `NewNames` has a fresh name, that
of another CTE and that of a table.  No run uses a state constraint; the numeric bounds in the models are
`MaxHandles`, how often a SQLite factory is called, equal to the number of
drivers so that each can open one, and `MaxFaults`, how often npm or the runner fails
in a behaviour of `publish`: two faults allow one in a run and another in the run
that repairs it.  Refused deprecations are outside that bound and limited by `Attempts`
alone, as in the code, so that `RunsEnd` depends on it.  Three packages have one before and one behind the one that
fails.  The seven databases have NULLs as keys and as values, duplicates, rows
without a partner on either side of a join, and an empty table.  Two shared calls suffice for a conflict on
the queue and a third process for one that overtakes; the nested instance needs
the chain shared, perTest, shared to close a cycle through a call that is not in
the queue itself.  Four queries allow an opening, a concurrent one, a retry
after a failure and a query after a close.  Two connections with two nested calls
are the smallest pool that deadlocks on calls none of which is alone to blame.
Three views contain every cycle up to length three, self references, chains and
two paths to one view; a diamond proper needs four and is covered by the proofs.
Two sources and two CTEs are what it takes for one to shadow, precede or follow
the other.

Deadlock.  Nested callbacks may wait for each other for ever.  A state in which every
call waits (`EveryCallWaits`) is let stutter by `Stopped`; the properties `StuckOnlyBy…`
say what has happened in it, and TLC's deadlock check of `provider_reentrant` and
`executor_nested` shows that there is no other state without a successor.
`CHECK_DEADLOCK FALSE` stands where the code really may stop: `views_expand`, where a
catalog that threw is gone, `optimizers`, where a call has returned, and `publish`,
where everything is published.

Fairness.  Weak fairness of a call's next stretch of code: a promise that has
settled resumes its awaiter, and the hooks of the user, the callback and the
database settle one way or the other.  The pool serves a waiter that it could
serve again and again (strong fairness of `Connect`); that it may reject it
instead is allowed and not relied on.  A synchronous call that has begun goes on
(weak fairness of `Step`), and so does the publish script, whose commands all return
(weak fairness of `Script`); `EverythingIsPublished` is about a maintainer who starts
runs again and an npm that shows in the end what it has (`Reruns`).  No other model assumes that anybody makes a call.
`CallSettles` excepts the case in which the disposer has lost every connection.

### Exceptions of SourcesKeepTheirMeaning

The property lists seven shapes of queries that the code does not rewrite to what
they mean, each by a name of its own in the module:

- `ReadsShadowedTable`: a source whose last name part is a CTE's it does not read;
- `CteNamedLikeInjected`: a CTE that bears the name of an injected table or view;
- `FoundInLaterSchema`: a table or view found only in a later schema of the search path;
- `TableTakenForView`: without a resolver, a qualified table taken for the view of
  another schema that has the same last part (`DdlViewCatalog.ts:194`);
- `ViewCapturesTable`: with one, a table captured by the CTE of a view with its last part;
- `ViewReadsAlias`: a view that reads a table with the name of another fixture's alias;
- `InjectedTwice`: two injected CTEs of one name, for the same table, for two views,
  or for a view and a fixture whose alias was not kept from the names of views.

All but the last for two fixtures of one table, which any database rejects, are limits
of the code; the hazard list of PROJECT.json gives the lines.  Dropping any of them
lets TLC violate the property (dropping from `InjectedTwice` the clause about one table
does not: both CTEs then count as that table's), and `KeepsMeaning` proves that there is
no other.  The models assume that what a view reads is named unlike any view.

## 4. Findings

1. `fixtureAliasing.ts:373`: a column's qualifier is renamed although it is an
   explicit alias that happens to resolve to an injected table; the SQL is invalid
   (run `fixture_alias_column`).
2. `StaticPredicatePlacementOptimizer.ts:1041`: a WHERE that is a bare `a or b` is
   joined by AND to the terms of its new place, and no printer puts the parentheses back
   (run `optimizers_or`).

Other places where the code does not do what its comments or documents say, none
with a run of its own; where a property would deny it, the property excepts it:

- `TestkitProvider.ts:149`: when releaseResource rejects, the reset is skipped and
  the next shared scenario sees the previous one's writes, although
  `testkit-core/README.md:76` says that state never leaks (`unreset` is the exception of
  `ScenarioSeesOnlyItsOwnWrites`).
- `createConnectionProvider.ts:76`: `primaryError` is tested for truthiness, so a
  callback rejecting with a falsy value is masked by a failing disposer, against
  the comment on line 77 and `executor/README.md:100` (the exception of
  `OriginalErrorWins`).
- `createConnectionProvider.ts:66`: after a failed ROLLBACK the connection goes back with its
  transaction open, and the next COMMIT on it commits the writes of the rejected call
  (`unrolled` is the exception of `RejectedMeansRolledBack`).
- `ci-publish.mjs:645`: the token is set before the try block, and writing the npmrc on the
  next line may throw; during a deprecation the run goes on, and later deprecations find the token
  without its npmrc, against line 340, "so OIDC attempts stay pure until an explicit fallback
  retry" (`unwritten` is the exception of `OidcSeesNoToken`; no later publish is in such a run).
- `SqliteSelectTestDriver.ts:41`: a driver derived before the parent's first query
  copies no handle, and two are opened, against the comment on line 40
  (`ScopedDriversReuseTheHandle` starts from a query).
- `TestkitProvider.ts:215`: the cached connection promise is kept when it rejects, so
  every later shared scenario rejects as well.
- `PgTestkitClient.ts:87` and `createPgTestkitPool.ts:115`: a callback that throws is
  called a second time, with its own error, by the catch behind it.
- `createConnectionProvider.ts:61`: a callback that swallows a failed statement leaves
  an aborted transaction; COMMIT answers without an error and nothing is committed.
- `fixtureAliasing.ts:271`: the renaming does not go into FILTER, WITHIN GROUP or the
  inner ORDER BY of a function call.
- the exceptions of `SourcesKeepTheirMeaning`, `OptimizedMeansTheSame`,
  `RemovalMeansTheSame` and `TransformedMeansTheSame` in sections 2 and 3.
- `CTENormalizer.ts:45`: the operands of a union lose their WITH clauses, against
  `QueryBuilder.ts:40` ("never mutate input"), and a conflict of names throws after
  they are gone (`RejectConflict`).

## 5. Proofs

All theorems hold for every value of the constants: any number of calls,
connections, queries or views, and any set of failing hooks except where an
assumption is named.

**TestkitProvider_proofs.**  `TypeOK` is inductive.  Mutual exclusion is not:
`QueueInv` adds that each accepted call awaits its predecessor in `order`, that
`tail` is the last of them and that a call in its scenario has a settled
predecessor, so at most one call is between its turn and its end.
`SessionInv` relates connections, the shared promise and what sessions show; with
it a resolved scenario has left nothing (`ResolvedLeavesNothing`, any faults) and
callbacks see no writes but their own and those of scenarios whose release or reset has
rejected (`Isolation`, any faults; section 4 says why these are excepted).
`CloseInv` and `LinkInv` say that a close past its drain has seen the last tail
settled; they give `NoUseAfterDisposal` and `CloseLeavesNothingQueued`.  `PerTestInv` and
`SharedLinkInv` count disposals: only the promise's connection is ever made for the
shared path, at most one close is under way, and none has disposed it before
(`SharedConnectionIsMadeOnce`, `NothingIsLeftOpen`).  Finally
every step maps to a step of `SerialScenarios` or a stutter (`ImplementsSerialQueue`).
`ReentrancyIsTheOnlyDeadlock` needs who has made whom: `NestingInv` says that a nested
call's parent has run its callback, and `CloserInv` that a draining close awaits an
accepted call.  When every call waits, the head of the queue (the least position that
has not settled) runs a callback; the nested calls below it descend to one that itself
makes none, and that one is queued or draining.

**ConnectionProvider_proofs.**  `HoldInv` (a call has a connection exactly between
its answer and its disposal) makes exclusiveness inductive.  `ErrorInv` says which
`primaryError` goes with which `pc` and outcome, and that until a call settles it is the
`first` error the call has met: a failing ROLLBACK comes after the error that led to it and
leaves both alone, a failing disposer is the first only where none was caught.  `RootCause` follows
without any assumption on what fails.  So does `RolledBack`: `PendingInv` says that the writes
a session still holds are of the call that has its connection, from its BEGIN to its COMMIT or
ROLLBACK, or of calls in `unrolled`, so that a COMMIT makes nothing else durable, and
`RollInv` carries it over to what is durable.  `TxInv` says that a session has an
open transaction or pending writes only for the call that holds its connection, under `"rollback" \notin Faults`,
which `CleanPool` and `ImplementsTransactions` need: after a failed
ROLLBACK the connection goes back dirty.  `NestingIsTheOnlyDeadlock` adds that no
connection is lost while the disposer works (`ConservationInv`) and that a nested call
exists only inside a running callback (`NestingInv`): when every call waits, each
connection has a holder whose callback awaits, down the nesting, a call that waits to
connect.

**PgTestkitClient_proofs.**  `HeldInv` ties the client's fields to the connections
that are opening or open and unreleased; `FlightInv` adds what queries in flight
may target.

**SqliteSelectTestDriver_proofs.**  `HandleInv` says which drivers exist and which
handles have been opened; `FamilyInv` that a family without an early
scope has, before any close, either no handle and one driver or a handle in every
driver, and that without a late query at most one handle is ever opened.

**DdlViewCatalog_proofs.**  The stack is a path of dependencies without
repetition; a view not on it is either finished, with all its dependencies
finished, or untouched.  Order, uniqueness, minimality and completeness follow, and
both directions of the cycle check: a view met again on the stack gives a circular
set, and a constructed catalog has a finishing order, which no circular set can have.

**PublishPackages_proofs.**  What is published is only known to the run by the
loop it is in; `LoopsFollowNpm` says so (behind the publish loop everything is on
npm, and what is deprecated is visible), and `TagsAreAccountedFor` that a tag is
missing only for what is in the present manifest or in an interrupted one.
`TagsAreTrue` and `OnlyInterrupted` follow for every set of packages
and every number of faults (`RunInv`); `FailInv` is the one argument for all ways a run fails.
`OidcIsPure` has an invariant of its own, `ShellInv`, because the environment alone is not
inductive: a token attempt puts back what it has saved, so that `TokenIsBorrowed` must say of
`saved` during an attempt what holds of `env` outside one, through any sequence of
refusals, retries and packages given up.

**FixtureRewriting_proofs.**  `IInv` says that every alias so far is reserved for
the fixtures to come; freshness and distinctness follow without knowing what a
candidate looks like.  `ExceptionNeedsViews` shows that the exception of
`AliasesAreDistinct` needs views and no resolver.  `Rewritten` adds what each phase
leaves to the next and what two fixtures with one alias look like; at the end
of a rewriting none of the exceptions applies to (`Plain`) a name that is looked up
is that of a needed view (`KeepsView`), of a needed fixture (`KeepsFixture`) or
neither (`KeepsUnresolved`), a name of a CTE of the query is left alone (`KeepsOwnCte`), and
`KeepsMeaning` follows for every query, search path, catalog and way of building candidates.

**Optimizers_proofs.**  `PlacementInv` says that only the first item of the agenda can
be the root's and that each term of the root for which there is a place is still in it
or has been copied and will leave; a phase that has ended leaves no such term.  It is
inductive because no step opens a place: moves, refreshes and deduplication keep the
query's `Skeleton` (`NewConditions`, `NewJoinConditions`), on which alone the search for
a place depends, and no move goes into the root (`DestinationIsBelow`, by induction over the
descent below a UNION branch).  That needs of a query what every syntax tree has
(`InputsAssumption`): the root is nobody's source, and no two sources of a FROM have one
alias.  `NothingIsLeftToMove` follows, for every query.  For the removal, an unreferenced CTE is gone at the end, and the last CTE
that the root did not read would be read by a later one (`FixedPointIsReached`);
`RemovedCtesAreUnread` says that no pass takes away what is still read.

That the removal changes no row (`RemovalKeepsTheMeaning`) is proved for every query, schema and
database.  `MeaningInv` is inductive with `WholeInv`: what is left is still a query
without recursion whose names have their sources, it returns the rows of the input, and while joins
are removed it has no use the code misses.  For the CTEs, `SameReadsSameMeaning` says
that two queries whose blocks read the same bodies return the same rows; the blocks are compared in
the order of their rank, which `IsFounded` gives them, by the least number on which they
would differ (`LeastNat`), and so `RemovingCtesKeepsTheMeaning` holds whatever the query, MissedUse or not.
For the joins, the ON of a removable join is an equality with a key (`JoinsByKey`), so that
it matches at most one record and gives each environment exactly one extension.  The
environments with and without it are then alike but for the aliases that go
(`AlikeBut`), and nothing that is left looks at those: conditions, later joins, groups,
outputs and an outer join's NULLs are the same on lists of environments that are
alike place by place (`AlikePlaces`).  All joins of one pass go at once, as in the
code.  Lists that the definitions build by functions over `0..n` are
reasoned about along these functions, with `UpTo` for the steps.

Only model-checked: everything about fairness (`InvokedCallSettles`,
`CallSettles`, `QuerySettles`, `ExpansionEnds`, `RunsEnd`, `EverythingIsPublished`, the
liveness part of `ImplementsSerial`), which is beyond the proof system; that the
states of `StuckOnlyBy…` are the only ones without a successor, which mentions ENABLED;
and two of the properties that compare the rows of two queries.  `TransformedMeansTheSame` is
about a module whose walks over nested WITH clauses are RECURSIVE operators, which
the provers cannot expand.  `OptimizedMeansTheSame` excepts queries by what the input
looks like, while the refresh plans each branch on the query as the steps before have left it: the
exception covers the instance, and whether it covers every query is open.  Of its steps,
the first and the last are proved: pruning (`PruningKeepsTheMeaning`) and deduplication
(`DedupingKeepsTheMeaning`) change no row of any query on any database.  Both only leave out
of a list terms that are true of every row or are there twice (`LessTrue`); the blocks then
have the same conditions (`SameConditions`), and so the same joined rows (`SameJoined`), those
of outer joins with an ON that got shorter included.  Pruning needs that no WHERE has an
OR without parentheses beside other terms, which is `OrPredicatesStayWhole` on the input;
deduplication leaves such a list alone.  The steps that move a condition are left to TLC.

Proved but not checked by a run of their own: type correctness of the components other
than the provider, and `FreeConnectionsAreClean` (`CleanPool`), `NothingTwice`, `FailureIsForgotten`, `ReleasedAtMostOnce`,
`OneSharedConnection`, `NoReadDangles`.

## 6. Not modelled, and why

Parsers, printers, formatters and collectors transform one string or tree per call
and keep no state; their correctness is about grammar.  Of the rewriter, the
conversion of INSERT, UPDATE, DELETE and MERGE, nested WITH clauses, the kinds of
expressions the renaming walks through and the handling of `$n` parameters are left
out.  The models of the clients leave out callback signatures and the shape of
results.  Of the optimizers, wildcards, JOIN USING and LATERAL, CASE and array
predicates, nested WITH clauses, a root that is a UNION, correlated EXISTS branches,
parameters named like columns and the reports are left out, and so are the scaffolding
and removal of optional branches.  Of the workflow, building and verifying the
artifacts, pending changesets, dry runs, token-only mode and packages npm does not know yet,
which `publish-plan.mjs` may list as dependencies and `ci-publish.mjs` skips, are left
out.  Of the CTE transformers, recursive CTEs, those that write data, a WITH inside a
condition, a UNION as the renamer's root and its lookup by cursor position are left out.
`DdlFixtureLoader` keeps a static cache that is never invalidated; the rest of it
is reading files and parsing.  Benchmarks, documentation and the demo have no behaviour of their own.
PROJECT.json gives the reason for each component.

## 7. Plan

What is left, in this order:

1. Composition of `TestkitProvider` and `PgTestkitClient` as in
   `testkit-core/README.md:82`: the client of a scenario is closed by the release
   hook, and who gives the shared connection back.
2. `DdlFixtureLoader` with `FixtureProvider`: abstract specification: a loader
   returns the definitions of its own directories; which fixture of a table wins.
3. A UNION root, wildcards and correlated EXISTS branches in the optimizers.
4. Recursive CTEs and those that write data in `CteTransformations`.
5. `compileNamedParameters` and `MultiQuerySplitter`: scanners over a small
   alphabet against a definition of what lies inside quotes and comments.
