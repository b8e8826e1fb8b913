# A verification project for LineSpec

LineSpec runs integration tests against a service in containers.  A `.linespec`
file says which request triggers the service, which calls it is EXPECTed to make
(to databases, HTTP APIs, Kafka, gRPC, Redis), and which it must not make
(EXPECT_NOT).  Proxy *sidecars* stand where the service expects its dependencies,
answer the requests that an EXPECT describes, forward the others, and count; the
*runner* on the host collects the counts and gives the verdict.  Beside it, the
*provenance* commands keep records of decisions: files that are drafted, opened,
completed, sealed by a hash, enforced by a commit hook and by write bits.

Two questions are behind everything here: **does a verdict say what the service
did?** and **does the history of a repository say what its records say?**

## 1. Inventory

| Component | Source | State | Operations | What is hard | Module |
|---|---|---|---|---|---|
| Mock registry | `pkg/registry`, `pkg/verify` | mocks, hits, hit keys, seeds, passthroughs, VERIFY errors, under one lock | registration, lookups, EXPECT_NOT checks, hits, merging, ClearState, VerifyAll | one goroutine per connection; a lookup is atomic, a *handler* (several lookups) is not | `Expectations`, `MockRegistry`, `HitCollection` |
| PostgreSQL proxy | `pkg/proxy/postgresql` | per connection: startup relay, statements, portals, swallowing | one handler per message, two relays, reset | two writers on a socket; a statement parsed here and bound there | `PgConnection`, `PgResults`, `PgValues`, `MockRegistry` |
| MySQL proxy | `pkg/proxy/mysql` | per connection: made-up statement numbers; a transparent mode | one branch per command, a copy of everything the server says | two writers on a socket; some commands have no answer; two sources of statement numbers | `MySQLConnection`, `MySQLReplies`, `MockRegistry` |
| Oracle, MongoDB proxies | `pkg/proxy/{oracle,mongodb}` | none | one handler per request | each calls the registry in an order of its own | `MockRegistry` |
| HTTP, gRPC, Redis interceptors | `pkg/proxy/{http,grpc,redis}` | Redis seeds | one handler per request | a fan-out arrives in any order | `MockRegistry` |
| Kafka interceptor | `pkg/proxy/kafka` | seeds | one handler per API key | a broker with no group, offset or log | `KafkaBroker`, `MockRegistry` |
| Sidecar control | `cmd/linespec/main_stable.go` | the sidecar's registry | `/verify`, `/reload-registry` | called while handlers run | `HitCollection`, `PgConnection` |
| Runner: verdict | `pkg/runner` `runTestPhase`, `collectHits` | the host's copy of the registry | trigger, poll, collect, verify | remote counters, lost answers, deadlines | `HitCollection` |
| Runner: containers | `pkg/runner`, `pkg/docker`, naming of `pkg/config` | names owned, containers kept, schema cache | set up, run a spec, reuse, fall back, unwind, clean up | partial failure, several runs on a host, aliases held twice | `SuiteLifecycle` |
| DSL | `pkg/dsl` | none | lex, parse | a clause lost is an assertion lost | `SpecParser` |
| Provenance records | `pkg/provenance`: loader, commands, linter, git, fswrite, hasher | record files, manifest, write bits, git's index and head | create, open, complete, deprecate, lock-layer, lock-scope, add-scope, status, compile, reconcile, hook, audit | files saved one after the other, by processes that can overlap or die | `ScopePatterns`, `RecordLint`, `CommitRules`, `RecordLifecycle` |
| SQL analysis, interpolation, configuration, schema queries | `pkg/sqlanalysis`, `pkg/interpolate`, `pkg/config`, `pkg/schema` | none | text to data | sequential | - |
| Port allocator, proxy base, provenance reports and publishing, embeddings, discovery, CLI | | an index file, a port set | | nobody calls it, byte copying, reports | - |

How they interact: the parser produces a spec; the runner registers it in its own
registry and writes the serialised registry for every sidecar; the service's
connections reach the sidecars' handlers, which call the sidecar's registry; the
runner polls `/verify` and merges the counters into its own registry, whose
`VerifyAll` and `VerifyPassthroughs` are the verdict.  Between two specs of a
service the containers are kept and told to reload, which replaces the registry,
clears its counters and closes the PostgreSQL connections.  The provenance
commands meet each other, git and its hook only through files.

What makes each correct:
* *registry and proxies*: an EXPECT is spent at most once, on a request it
  describes, the best one for it; every EXPECT_NOT that a request breaks is
  charged; every VERIFY failure and every bypass is recorded and stays recorded;
* *PostgreSQL and MySQL connections*: the two writers of a socket answer as one
  server would, and a driver that waits is answered; it decodes what a payload says;
* *Kafka*: a client can read what it is sent, and handles every seed once;
* *collection and verdict*: a test passes only if the sidecars' counters justify
  it; nothing of one test is credited to another; every test is judged;
* *containers*: one set of containers answers to a service's aliases, it serves
  the spec that is run, and everything that was started is removed, and no more;
* *DSL*: an accepted spec has every clause of its file;
* *records*: a transition happens entirely or not at all, seals match what they
  seal, and hook, audit, linter and write bits agree about it.

## 2. Modules

| Module | Models | Kind |
|---|---|---|
| `Expectations` | the pairing of a request with the statements of a spec: every lookup and check of `registry.go` | operators |
| `MockRegistry` | one sidecar: the shared registry and a handler per connection, nine kinds of request | state machine |
| `ExpectLedger` | what a registry promises, whatever the protocols | abstract specification |
| `RegistryProperties`, `MCRegistry` | their properties, the refinement; instances | |
| `HitCollection` | runner, sidecars and service: trigger, `/verify`, merging, verdict, reload, crashes | state machine |
| `CollectionProperties`, `MCCollection` | what a verdict may rest on; instances | |
| `PgConnection` | a PostgreSQL connection: relays, handler, real server, driver, reload | state machine |
| `PgResults`, `PgValues` | the columns and types of a made-up result; the encoding of its values and of Bind parameters | operators |
| `PgProperties`, `MCPg` | what a driver may rely on; instances | |
| `MySQLConnection` | a MySQL connection: handler, relay, real server, driver, reload, transparent mode | state machine |
| `MySQLReplies` | the packets of a made-up result; the attributes in front of a query | operators |
| `MySQLProperties`, `MCMySQL` | what a driver, and a spec, may rely on; instances | |
| `KafkaBroker` | the interceptor, byte layouts by version, against consumers and producers | state machine |
| `KafkaProperties`, `MCKafka` | what a service may rely on; instance | |
| `SuiteLifecycle` | runs of `linespec test` on one Docker host | state machine |
| `SuiteProperties`, `MCSuite` | what a suite promises; instance | |
| `SpecParser` | lexer and parser as folds over lines and tokens | operators |
| `RulesProperties`, `MCRules` | a behaviour per input of the pure parts; inputs | state machine |
| `ScopePatterns` | scope patterns: match, overlap, expansion, the writable projection | operators |
| `RecordLint` | the linter's rules | operators |
| `CommitRules` | the commit check on staged files and the audit of commits | operators |
| `RecordLifecycle` | the commands as processes over files, write bits and git | state machine |
| `LifecycleProperties`, `MCLifecycle` | what the commands promise; instances | |
| `RegistryProofs` | theorems about `MockRegistry`: pairing; negatives, refinement, keys | proofs |
| `HitCollectionProofs` | theorems about `HitCollection`: counts, then verdicts | proofs |
| `PgProofs`, `MySQLProofs` | theorems about the two connections | proofs |
| `KafkaProofs` | theorems about `KafkaBroker`: what clients read; what is recorded | proofs |
| `SuiteProofs`, `SpecRunProofs` | theorems about `SuiteLifecycle`: the host; what a spec runs on | proofs |
| `LifecycleProofs` | theorems about `RecordLifecycle`, its linter and commit rules | proofs |

Composition: `MockRegistry` is what one sidecar does with one request,
`HitCollection` several sidecars and the runner that believes their counts (there a
request is two steps, lookup and VERIFY), `SuiteLifecycle` the containers these
run in (there a test phase passes or fails), `PgConnection` and `MySQLConnection` the
connections whose messages make the registry calls (there a mock is found or not).
`RulesProperties` instantiates `PgResults`, `MySQLReplies` and `SpecParser`.
`RecordLint` uses `ScopePatterns`, `CommitRules` uses `RecordLint`, and
`RecordLifecycle` all three.

### MockRegistry and the code

A statement of the spec (`Decl[i]`) has the fields of `types.ExpectStatement` that
matching reads.  A request is what a proxy extracts from the wire.  A registry
method holds the registry's lock from beginning to end, so every registry call is
one action; a handler is a program counter `conn[c].at` that walks from call to
call in the order its proxy makes them, and between two calls any other connection
may move.

| Action | Code |
|---|---|
| `Receive` | a handler reads a request; `FirstStep` is the first registry call of its proxy |
| `Prepare` | `PeekMock`, `PeekMockByTables`, `PeekMockByTablesShape` at COM_STMT_PREPARE / Parse |
| `CheckNegative*` | the EXPECT_NOT checks |
| `FindByTables`, `FindByKey`, `FindHTTP`, `FindRPC`, `FindRedis` | the lookups, with the recording of the hit and of a rejection |
| `PopSeed` | `PopRedisSeed` |
| `RewriteSQL` | the MySQL proxy's write to `mock.SQL`, outside the lock |
| `Verify` | VERIFY rules evaluated after the lookup returned |
| `RecordPassthrough`, `ForwardToUpstream`, `Refuse` | how a request without a mock ends |

`log` is a history variable: the requests that were answered, with the statement
that served each.  `order` is the order of `orderedMocks`, which a sidecar rebuilds
by ranging over a Go map: `Init` allows every order of the buckets.  A SQL text is
a name, with the set of fragments USING_SQL_CONTAINS may find in it; a body is the
name of the payload file that describes it; `holds` is the set of VERIFY rules a
request satisfies; values are strings.

### HitCollection and the code

`box[s]` is the registry of sidecar `s`, `host` the runner's, `step` the place of the
runner in `run` and `runTestPhase`.  The service is a set of calls per spec; a call
says which mocks it fits, whether it breaks a VERIFY rule (`bad`) and whether the
service waits for it before it answers (`awaited`).  `credit` and `complaints`
remember what was counted for whom.

| Action | Code |
|---|---|
| `Lookup`, `VerifyCall`, `CallFails` | a call at a sidecar: the lookup under the lock, the VERIFY rules after it, a dead sidecar |
| `Stray` | a call that a forgotten sidecar answers: its containers share the aliases of the fresh ones |
| `Start` | reuse if the kept service is healthy, else a fresh start; a spec that cannot reuse stops what is kept |
| `Reload`, `Reloaded` | `/reload-registry`: load, then clear, in parallel at all sidecars; one failure makes the runner forget them all |
| `Trigger`, `Respond` | `sendRequest` and the status and body checks |
| `ReadHits`, `ReadPassthroughs`, `Merge` | one `/verify` answer: three reads under three locks, then `SetHits`, `AddPassthroughs`, `AddVerifyErrors` |
| `GetFails` | the attempts of `collectHits`, and its silent end |
| `Poll`, `Judge`, `End` | the poll of an EVENT or JOB spec, the verdicts, what is kept afterwards |

The statements of two specs are different objects, so no mock belongs to two specs;
two mocks may share a *key* (`HitKey`), which is all that `/verify` reports.

### PgConnection and the code

A connection has two sockets (`net[c]`: `c2p`, `p2c`, `p2u`, `u2p`), a handler
(`conn[c]`) and the real server's session (`server[c]`).  Every goroutine of
`handleConnection` is a set of actions, so relay and handler interleave at each
message.

| Action | Code |
|---|---|
| `Accept`, `Dial`, `StartupFails` | `Start`, `handleConnection`: accept, dial the real server, an early end |
| `DetectReady`, `AnnounceReady`, `Forward`, `ForwardTimeout`, `PhaseTwo`, `GoroutineEnds` | `proxyWithStatefulRelay`: the upstream relay that looks for ReadyForQuery, the unframed client relay and its read deadline, the switch to framing |
| `Relay` | upstream to driver, in the background |
| `Parse`, `Bind`, `DescribeStatement`, `DescribePortal`, `Execute`, `Close`, `Sync`, `Query`, `Others`, `Swallow`, `HandlerEnds` | the branches of `handleClientMessagesWithInterception` |
| `Replace`, `ResetConnections` | `/reload-registry`: new mocks, cleared counts, every connection closed |
| `PgMessage`, `PgDies`, `Connect`, `Send`, `Receive`, `Leave` | external: PostgreSQL, which may answer with an error, and the driver |

The driver checks every reply against the oldest message still owed one (`Legal`);
a reply it cannot place makes it give up (`client.confused`).  PostgreSQL may hold
replies back until Sync or Flush, or send them early (`config.early`).  `departures` is
a history variable: which answers that no PostgreSQL would give a connection has seen,
`verify` (a Bind refused by a VERIFY rule, with no swallowing behind it), `simple` (a
mocked simple query, which ends with two ReadyForQuery) and `unready` (one that ends with none).
The properties exempt the connections that saw one (section 4).

`PgResults` and `PgValues` are the same proxy's pure half: a query is the items of
its SELECT list and the tables it names, a schema cache maps tables to columns, a
value is its kind and number; `RowDescription` and `encodeDataRow` say which type
each column is announced with and written as.  Integers have widths
(`Width`), and numerics are groups of digits (`Base`).

### MySQLConnection and the code

`net` are the two sockets, `handler` the loop of `handleConn` with its map of made-up
statements, `relay` the goroutine that copies the server's bytes, `server` the real
session, `client` a driver that sends one command at a time.  A query is its name,
its class (`session`: whitelisted; `fields`: SHOW FIELDS; `plain`) and whether its
table is in the schema cache; an EXPECT is what it answers with, `error` when its
VERIFY rules fail.

| Action | Code |
|---|---|
| `Dial`, `DialFails`, `HandlerReturns`, `Relay`, `RelayEnds` | `handleConn` around its loop, and the copy |
| `QueryPasses`, `QueryFields`, `Query` | the branches of COM_QUERY |
| `Prepare`, `Execute`, `SendLongData`, `CloseStatement`, `ResetStatement`, `ForwardsUnknown` | the statement commands, for made-up and for forwarded statements |
| `Others` | the connection phase and commands without a branch |
| `Reload`, `TransparentEnds` | `/reload-registry`, which closes no MySQL connection; the end of the transparent time |
| `ServerHandles`, `ServerDies`, `Send`, `Receive`, `Leave` | external: MySQL, which numbers statements from one, and the driver |

`MySQLReplies` is the pure half: a payload gives rows, a reply is a sequence of
packets, numbers are length-encoded byte by byte, nulls are bits of a bitmap.

### KafkaBroker and the code

A request is a function from byte offsets to fields (`Wire`), laid out as its
version lays it out (`KafkaRequest`); the parsers of `interceptor.go` read at the
offsets they read at, so a version that is taken for another reads the wrong
field or none.  A response is the sequence of its field names, compared by
the client with the layout of the version it speaks (`KafkaLayout`).  A client knows
versions of each API (`Supports`); one that negotiates (`Negotiates`) reads the ranges in
the answer to its ApiVersions (`Advertised`) and uses the highest version both know, the
others use the highest they know, whatever the broker says.  `handleConn`
answers in one step, since nothing else of the connection can move; `Produce` is
the one request that calls the registry.  Clients join, fetch, commit, leave and
are restarted (external).

### SuiteLifecycle and the code

`containers` and `networks` are the Docker host; `run[r]` is one process: its
phase, the steps still `todo` (the list of `StartContainer`s, migrations and
inspections that `SetupSharedInfrastructure` and `run` make for a service,
`SetupPlan` and `SpecPlan`), the deferred removals (`undo`), what it `owns`, what it
`kept`, and what it `lost` sight of.

| Action | Code |
|---|---|
| `CreateNetwork`, `StartContainer`, `Fails` | the starts, each of which may fail or be refused a name, and the early returns with their deferred removals |
| `BeginMigration`, `EndMigration`, `FetchSchema`, `EndSetup` | migrations in a container of their own, the schema cache |
| `NextSpec`, `NextSpecUnreadable`, `StartFresh` | the choice between kept and fresh containers and the removal before a fresh start |
| `prepareForReuse`, `FallBack` | reloads, truncation, and the way back |
| `InspectProxies`, `BeginTest`, `EndTest`, `Unwind` | the inspection of ports, the test phase, what is kept, the deferred removals |
| `CleanupOwned`, `CleanupPersistent`, `removeNetworkWithRetry` | `CleanupSharedInfrastructure` |
| `Interrupt`, `EditMigrations` | a signal; the developer |

### RecordLifecycle and the code

`disk` are the record files, `manifest` the seals, `writable` the write bits, `head`
and `index` git's, `log` the commits.  `proc[p]` is a running command: the records it
loaded when it started, what it saved for a roll-back (`before`), and its
place.  A command is a sequence of actions, one per write it makes:

| Action | Code |
|---|---|
| `createRecord`, `Supersede`, `CommitDraft`, `SealLayer` | `Create`, `LockLayer` |
| `Save`, `ReadManifest`, `SealRecord`, `Validate`, `Refuse` | the first half of `Open`, `Complete`, `Deprecate`: save, seal (a load and a save of the manifest), lint, roll back |
| `SpecsPass`, `SpecsFail`, `Unlock` | the associated specs and the overlap block of `Complete`; the write bits of `Open` |
| `CommitStatus`, `CommitRejected`, `relockClosedScope` | stage and commit through the hook, `restoreFiles` and unstaging when it is refused, write bits given up |
| `ChangeScope`, `SaveScope`, `Reconcile`, `Compile` | the other commands |
| `Crash`, `HandEdit`, `StageRecord`, `StageCode`, `UserCommit` | external: a killed process, the developer, git |

A path is a sequence of names and a pattern an exact path, a glob whose wildcards
stand for whole names, or a regular expression given by what it matches.  The
texts of a record are abstracted to what the linter asks of them.  Saving a record
rewrites three lines of its file (`updateRecordYAMLText`).  A file that an author wrote may
lack them: `unlinked` are the records without a line for `superseded_by`, which is then not
saved, `inList` and `inItem` those without one for `sealed_at_sha`, which is then added under
the last line with a colon, in front of an indented list, which becomes part of its value, or inside
the last entry of `associated_specs`, where it is no field of the record.

## 3. Runs

Each run asks one question of one part.  The programs modelled may really stop
(no request left, no spec left, a budget spent), so the deadlock check is on only
in `suite` and `foreign_container`, whose `AllDone` step marks the one place where
everything may rest.

| Run | Scenario | What it shows |
|---|---|---|
| `sql_proxies` | one sidecar, two connections, three requests: PostgreSQL against general, specific, CALL 1/2, payload, legacy and negative statements; or MySQL, Oracle, MongoDB and forwarded gRPC | EXPECTs spent once, as declared, best match first; forbidden queries charged; hits under the key the runner knows; the registry implements `ExpectLedger` |
| `message_proxies` | three of Kafka, gRPC, Redis with a queue, MongoDB; or an HTTP fan-out of four to three EXPECTs | forbidden requests charged, bypasses counted exactly, the order of a fan-out irrelevant |
| `collect_verdicts` | five specs, two sidecars, kept and fresh containers, a service right and wrong, a call left over | a well-behaved spec passes; none passes that made a forbidden call, broke a rule or left an EXPECT uncalled |
| `collect_crash` | a sidecar dies at any moment | merged counts never run ahead; every spec is judged |
| `pg_connection` | seven regimes: drivers that prepare, that send a batch per query or a query before they are greeted, a reload, a refused dial, a dying server, a Bind refused by its VERIFY rule, mocked simple queries | replies in PostgreSQL's order; nothing local reaches the server; queries counted once; old connections gone after a reload; the driver never waits for ever |
| `kafka` | a consumer of two topics, restarted once, that keeps to versions laid out right; a consumer that negotiates; a producer that negotiates and one of a fixed version | every client that can be served reads every answer, every Produce leaves one trace, every seed is handled once in order |
| `mysql_connection` | three regimes: a reload between two specs, a transparent start, a refused dial or a dying server; a driver with one open statement | one answer per command, one view of the open statements, no EXPECT passed by, the driver never waits for ever |
| `rules` | decimals of up to four digits on each side of the point, PostgreSQL results of twenty queries through the extended and the simple protocol, with and without format codes, MySQL results around each boundary, thousands of spec files | what a driver decodes is what the payload says, with the columns and types it was told; no clause at the margin is lost |
| `suite` | two runs on a host; three specs of a service with PostgreSQL, gRPC and Kafka; one of a service on the shared MySQL; names given for network and application | nothing stays behind or is taken from another run; each spec starts on clean, migrated containers that serve it; both runs end |
| `record_lifecycle` | eight regimes of three records, four commands, hook, faults, a crash, hand edits, overlap, in three of them also files that lack a line for the seal or for `superseded_by` | seals match, transitions are all or nothing, hook, audit and lint agree, open scopes are writable, reconcile repairs |

Three properties are conjunctions of named parts that one run checks together:
`RowsReadBack` (PostgreSQL rows and decimals; MySQL rows, counts, queries and
schemas), `SpecRunsOnItsOwn` (`ServiceReady`, `ProxiesServeTheSpec`, `EnginesStartClean`)
and `HookAgrees` (`OwnCommitsPassTheHook`, `AuditAgreesWithHook`).

Two runs end in a violation.  Each states one sentence of the repository:

| Run | Sentence | What happens |
|---|---|---|
| `foreign_container` | "Cleanup never removes a container or network this run did not create" (`provenance/prov-2026-c3977f44.yml:37`) | a run that was refused an explicit database name removes the container that has it |
| `mysql_ids` | an execute of a made-up statement is mocked, "otherwise forward to upstream" (`mysql/proxy.go:302`) | made-up numbers start at 1 as the server's do: with a mocked and a forwarded statement open, an execute of the second is answered from the first |

### Bounds, and why they are enough

* `sql_proxies`, `message_proxies`: each registry call is atomic, so a third
  connection only adds orders of the same calls.  `MaxRequests` requests are drawn
  with repetition; which family of protocols is used is fixed by the order of the
  buckets, so that families do not multiply.  Connections are symmetric; no
  liveness is checked there.
* `collect_*`: two sidecars are the least that are asked one after the other.
  `Attempts = 2` stands for the five of the code (what matters is that they run
  out), `MaxTicks = 1` for the deadline: the poll may end before or after each
  tick.  `MaxCrashes` is 1 in `collect_crash` and 0 in `collect_verdicts`.
* `pg_connection`: a driver opens one connection after the other, two in all
  (`Conns`), since connections share only the registry; `budget.steps` bounds the
  batches sent (5 for drivers that prepare, so that a statement is prepared,
  bound twice, closed and prepared again), `refusals` and `deaths` are at most 1.
  A batch holds up to two queries, the shortest pipeline in which an error leaves
  something to discard.  The refusing regime has statements parsed here and upstream, and
  two batches, so that the second meets what the first left; the simple one a transaction
  with a mocked read and a mocked write, a forwarded query and one that VERIFY refuses.
* `mysql_connection`: one connection, since connections share only the registry
  (`MockRegistry` has several); up to seven commands, enough to prepare, execute
  twice, close and prepare again across a reload; `deaths` is at most 1.  The
  driver keeps one statement open (`keep`), as drivers do that prepare per query;
  with two, the numbers collide, which is `mysql_ids`.
* `kafka`: a consumer that is served and one that is not (members share nothing in the
  interceptor), two producers racing for two EXPECTs and an EXPECT_NOT, one restart.  The
  versions of the clients are in `MCSupports`, and `MCServed` says which of them can be
  served: all but the negotiating consumer.
* `suite`: two runs are the least that can collide, three specs the least that
  start fresh, reuse and stop what is kept.  `MaxFaults = 1`: one of a failing
  start, a failing reuse, a refused removal or an interrupt, at any place;
  `MaxEdits = 1`; `Attempts = 2` removals of the network stand for the code's five.
* `record_lifecycle`: three ids (a record, a second with an overlapping scope, a
  new one), two processes where commands overlap and one elsewhere, at most four
  commands, two commits, one edit, one crash.  Where a file lacks lines it
  is one record's, so that a record with a place for its seal lies beside it.  The
  regimes are in `MCLifecycle`.
* `rules`: PostgreSQL results with format codes chosen by column, one for all, or none,
  described by the statement, the portal, the reply of the simple protocol or not at all;
  integers of 2, 3 and 5 bits, of which the smallest and largest values occur; groups of two digits, so that up to four digits on either side of the
  point cross two groups; statements of up to three clauses, two statements;
  MySQL rows with up to two bitmap bytes, counts on either side of 251, 2^16 and
  2^24, up to nine query attributes.

### Fairness

* `collect_crash` (`FairSpec`): weak fairness of the runner, one goroutine that
  waits only for timers, answers and the operating system, and of the service's
  calls and its answer.  The second half is an assumption on the program under test,
  and a needed one: the request that triggers a spec has no timeout.
* `pg_connection`: weak fairness of each goroutine of a connection, of the real
  server and of a driver that waits.  Nothing is assumed of a driver that sends, a
  dial that fails, a server that dies or a reload.  `EveryRequestAnswered` is
  claimed while the server lives.
* `mysql_connection`: weak fairness of the handler, the copy, the server while it lives and a
  driver that waits; none of a driver that sends, a death, a reload or the clock.
* `kafka`: weak fairness of a consumer and the goroutine that serves it; none of
  the producers or of shutdowns.
* `suite`: some run that can step does step, the scheduler's least promise; faults, signals
  and edits are not fair.
* `record_lifecycle`, the registry and `rules` check safety only.

## 4. Divergences without a run

Met while modelling, visible in the modules unless said otherwise, and not among
the two runs above.

Registry and proxies
* The legacy EXPECT_NOT check (`registry.go:1227`) does not skip ACCESSING_TABLES
  statements as the lookup does (`:739`): a query that VERIFY_WHERE excludes is charged.
* A MySQL prepared statement that no mock matches is forwarded at
  COM_STMT_PREPARE, before EXPECT_NOTs are checked and without a passthrough
  (`mysql/proxy.go:288`), although LINESPEC.md:1279 says a forbidden operation
  fails the test.  `NegativesReported` leaves it out.
* VERIFY rules are in the matcher, not in the hit key (`registry.go:1554`, `:1576`):
  two EXPECTs that only rules tell apart are satisfied by one call.
* HTTP ignores CALL N (`registry.go:1135`); with overlapping VERIFY rules the order
  of arrival decides the pairing.  `ArrivalOrderIrrelevant` is about disjoint ones.
* A query that the semantic matcher rejects and the legacy matcher serves leaves a
  VERIFY failure behind (`registry.go:544`).
* The legacy EXPECT_NOT check reads SQL that the MySQL proxy rewrites outside the lock
  (`mysql/proxy.go:251`).
* An unreachable gRPC upstream (`grpc/interceptor.go:231`) answers the service
  with an error and records neither passthrough nor failure.

Verdict and containers
* An asynchronous spec passes on a hit whose VERIFY failure is not recorded yet
  (`runner.go:2650` against LINESPEC.md:1190); `PassMeansClean` speaks of the
  moment of the verdict.  One with a VERIFY failure polls to its deadline and
  reports a timeout.
* A sidecar that does not answer is given up in silence, and a forbidden call it
  counted with it (`runner.go:2784`).  `PassMeansClean` and `WellBehavedPasses`
  suppose living sidecars.
* A failed reuse forgets the kept containers without stopping them
  (`runner.go:1269`, against the reason given at `:1289`); the verdict of the next
  spec may be made from what they counted.  `run[r].lost` and `orphans` name them,
  and the properties of a spec leave them out.
* A call the service makes after its answer is counted for the next spec (`Due`);
  passthroughs are appended again on every poll (`registry.go:206`).
* Ports are inspected once (`runner.go:1970-1995`, against the comment at `:2535`): a
  port not published yet is never reloaded or asked.  The fault `inspect` models
  it; `suite` leaves it out of `Faults`.
* The shared MySQL is not emptied before a fresh start (`runner.go:623`);
  services that share a host name share its alias; kept containers without a gRPC
  proxy are reused for a spec that needs one; two specs of one name remove each
  other's kept application.  `EnginesStartClean` excludes the shared database, and
  the instance has one spec per name.
* The schema cache is keyed by configuration and table names (`runner.go:331`), not
  columns: an edit of a column (`Edits`) leaves a stale schema in use.

PostgreSQL
* RETURNS ERROR and a failing VERIFY of a simple query send no ReadyForQuery, a mocked
  result of one sends two (`result.go:51`, `proxy.go:1047`), the first of them always "idle" in
  spite of "track transaction state so mocked responses carry the correct status byte"
  (`proxy.go:843`); and no status is ever "failed".
  `EveryRequestAnswered` leaves out the connections that saw the first, `RepliesAsPostgres` both.
* "After a locally answered Bind error, upstream never saw this statement or portal: swallow
  the rest of the pipeline" (`proxy.go:495`), but a Bind whose VERIFY fails is answered with
  an error at `:754` and `swallowUntilSync` is not set: a hit is counted, Describe and Execute go
  to a server that has no such portal, and a second error follows.  `RepliesAsPostgres`,
  `ServerKnowsNames` and `Accounted` leave out such connections and queries, of which
  `pg_connection` has a regime (`Refusing` in `MCPg`): TLC finds the first two violated as
  soon as `Departures` is taken out of them.
* The simple protocol, and a Bind whose result formats cannot be parsed, keep a binary
  heuristic by column name under a format announced as text (`result.go:299-300`,
  `:322-323`, `:452-467`): `id` and `..._id` numbers are sent as four bytes, times as eight.
  The repository decided so (`provenance/prov-2026-258574ee.yml:14-17`, `:93-94`) and tests it
  (`result_format_agreement_test.go:422`).  `PgRowsAsDescribed` checks everything else of
  these replies, and leaves out those columns.
* A batch that mixes mocked and forwarded queries is answered out of order, since
  forwarded replies are not awaited; an extended RETURNS ERROR is followed by a
  CommandComplete; a portal described as without rows (mocked INSERT ... RETURNING)
  may send some.  The scripts of `MCPg` leave these out.
* A server that dies leaves the driver waiting; the state of a connection that is
  being reset answers what it had buffered from the new registry.
* `SELECT id AS total` is announced as int8 and sent as int4 (`result.go:160`);
  the columns of joined tables, numbers under TEXT columns and UUID-shaped texts
  have like cases.  `PgRowsAsDescribed` (in `RowsReadBack`) is about columns that are not renamed.

* After a Bind error it answered itself the handler is to "swallow the rest of the
  pipeline" (`postgresql/proxy.go:495`), but swallows Describe, Execute and Sync only: a
  second Parse and Bind of the pipeline are answered (`Both(Mine, "w", Insert)` breaks
  `RepliesAsPostgres`).

MySQL
* A reload keeps connections and their made-up statements: one without a mock in
  the new registry is refused, and a statement forwarded under the old registry
  skips the EXPECTs of the new.  `NoExpectMissed` leaves such statements out.
* A prepared statement executed once more than it is EXPECTed is answered with an error
  (`mysql/proxy.go:329`), a query passes through.
* The binary protocol announces numbers as LONGLONG and sends them as strings
  (`mysql/proxy.go:728`); numbers of JSON from 1e6 on are written as `1e+06`, and
  fractions under LONGLONG.  A client with CLIENT_DEPRECATE_EOF gets a terminator
  that starts with 0x00; empty and schema replies ignore the client's optional metadata,
  schema replies CLIENT_DEPRECATE_EOF too.  A first row without fields announces no
  columns, a negative `affected_rows` is cut to a byte, and `?` inside a literal counts as
  a parameter.  `Understood` in `RulesProperties` names what is left out.

Kafka
* A Produce is judged on its first record, and answered with success whatever the
  registry says; compressed records read as empty; a topic that no statement names
  is never listed.
* ApiVersions, FindCoordinator, Heartbeat, LeaveGroup and SyncGroup v1 are advertised
  or accepted and answered in the layout of v0, ListOffsets v0 in that of v1, and
  OffsetCommit v1 and later are read as v0; one member id stands for all.  `Understood` in
  `KafkaProperties` lists the versions that work, `sendApiVersionsResponse` those on offer.
  No consumer that negotiates gets through (theorem `NegotiatingConsumersUnserved`): none is
  offered a ListOffsets it can read (`kafka/interceptor.go:615` against `:320`), although proxies
  "must complete the full handshake expected by real clients" (`provenance/prov-2026-001.yml:24`;
  the draft `prov-2026-3d3334bb` has the same finding).  What
  `NobodyStuck` and `SeedsHandled` say of consumers is about one that uses ListOffsets v1, which
  the interceptor answers although it does not offer it.
* A restarted consumer handles every seed again; seeds are not refreshed by a reload.

DSL
* `EXPECT_NOT HTTP` keeps `${VAR}`; `CALL n` after EXPECT_NOT becomes part of the
  name; lines of HEADERS, VERIFY_WHERE or VERIFY_WRITTEN_VALUES without a colon are dropped; text after a
  closing `"""` is ignored.
* A one-line USING_SQL, as shown at LINESPEC.md:1464, keeps no text; a repeated
  clause overwrites the first; an indented clause after a block becomes part of it,
  although leftovers are refused because "silently dropping it would let a spec
  pass with its assertions deleted" (`dsl/parser.go:235`).  `AtTheMargin` leaves
  these out of `SpecKeepsClauses`.

Provenance
* Two overlapping `complete`s each load, extend and save the manifest: one seal is
  lost (`hasher.go:157`).  `SealMatchesRecord` speaks of one command at a time.
* Superseding an open record on creation does not give up its write bits
  (`commands.go:1062` says every record that leaves the open set does).
* `complete` accepts superseded and deprecated records; lock-scope, add-scope and
  `status --save-scope` never write `affected_scope` to the file
  (`updateRecordYAMLText` rewrites three fields); a superseded locked record
  still locks; `compile` re-seals in silence.
* Nor is `superseded_by` written where the file has no line for it, as most records of this
  repository have none (`unlinked`).  The line for `sealed_at_sha` is added where it is
  missing, but not always where it belongs (`loader.go:319`): in front of an indented list, or inside
  an entry of `associated_specs`, it does not read back, so that the seal is not that of the
  file.  `SealMatchesRecord` leaves those records out (`Placed`; without it TLC finds the
  mismatch in regime `Uncommitted`), and `CleanRecordCompletes`, `AllOrNothing`, `HookAgrees`,
  `OpenScopeWritable` and `ReconcileRepairs` hold with them.  The list that is swallowed is one
  of tags; that its tags are lost, a swallowed list of scopes, and a list whose items
  are not indented, behind which the added line makes the file unreadable, are not modelled.
* `lint` does not look at the scope and the specs of a draft, so that `complete` finds a
  malformed or self-overlapping scope of a draft only after it saved and sealed it (and then
  rolls back).  `CleanRecordCompletes` is about the other records.
* A record whose `forbidden_scope` covers its own file is refused by its own commit hook
  when it is opened or completed.  `HookAgrees` leaves it out.
* `patternsOverlap` samples paths and misses overlapping globs; `filepath.Glob` and
  `GlobToRegex` read `**` differently.

## 5. Proofs

`RegistryProofs` proves, for every spec, every set of requests, any number of
connections and no bound on the requests:

* `TypeCorrect`: the type invariant;
* `SpentOnceAlways`: no EXPECT serves two requests, and its counter says exactly
  whether it served one;
* `DeclaredAlways`: an ACCESSING_TABLES statement serves only queries over its
  tables that satisfy its VERIFY_* clauses, also when the legacy matcher is asked
  after the semantic one;
* `BestMatchAlways`: no unspent EXPECT would have been the better match of a query
  that was served.

The assumptions are those of the modules: EXPECT_NOTs are marked negative and
registered after the EXPECTs, CALL N is a natural number, a request has a protocol
some proxy speaks, seeds are counted.

The argument.  `TypeOK` is not inductive: it does not say that a handler that
verifies holds a statement, nor that a pop finds the queue it pops from.  `Inv` is
`StoreOK /\ ConnOK`; its handler part is `HandlerOK` of `RegistryProperties`: where
a handler may be while it holds a statement, and that it holds an EXPECT.  Every
step of a handler then has one of three shapes (`StepShape`): it *keeps* what is
paired, it *takes* one unspent EXPECT for its request, or it *retires* a pairing
into the log.  The three safety theorems are proved once per shape instead of
once per action.  `ExpectsSpentOnce` follows because a lookup only offers
statements whose counter is 0; `ServedAsDeclared` because the semantic matcher
filters by table set and the legacy matcher skips ACCESSING_TABLES statements of
SQL channels; `BestMatchServed` because candidates only ever shrink.

From the same assumptions it goes on:

* `NegativesAlways`: a request that was answered or forwarded has charged every
  EXPECT_NOT it breaks;
* `ImplementsLedger`: the registry with its proxies implements `ExpectLedger`;
* `HostKeyAlways`: a statement that was hit is reported under the key the runner
  computes from its own copy of the spec;
* `BypassesAlwaysRecorded`: the passthroughs recorded are the bypasses of the proxies
  that record them, one each; only what a gRPC upstream was sent may or may not count;
* `ArrivalOrderNeverMatters`: if each HTTP request has an EXPECT of its own, whose
  VERIFY rules no other request keeps, requests that are all different make no VERIFY
  fail, in any order of arrival and any interleaving.

The proxies make the EXPECT_NOT check at different places: before the lookup (SQL,
HTTP, gRPC, Kafka, Redis), after it failed (MongoDB), after the answer (Oracle).
`NegInv` says for each protocol which calls a handler makes at all (`Route`) and at
which of them its check is behind it (`ChecksDone`), so that the theorem needs one
step per registry call and not one per protocol.  The refinement maps the
ledger's `owner` to the log and the pairs that handlers hold; each shape of step
is a step of the ledger or a stutter, and a lookup that records VERIFY failures on
its way only adds to them.  The owner of an EXPECT is well defined by `SpentOnce`.  `HostKeyAlways` is about the
SQL that the MySQL proxy rewrites outside the lock: `KeyInv` says that a statement never
hit has the text of the spec, and one that was hit the key of that text; a handler that
rewrites holds a statement, which the lookup that gave it out charged first.
`BypassesRecorded` compares a counter with the number of certain entries of the log; a
step appends at most one entry, so the counter and the count (`Among`) are carried
along together, and `PassInv` knows the handlers that have recorded a bypass whose entry
is still to come.  `ArrivalOrderIrrelevant` is proved of the fan-out as a lookup that
could go wrong: its own EXPECT is charged only by a request that is in the log or at
its `verify` (`FanOut`), so a request that looks for it still finds it, and the tie
break by VERIFY rules prefers it or another whose rules it keeps.  The hypothesis
`EachHasItsOwn` is a condition on the spec; the runs' specs meet it, which TLC checks
as an assumption of `MCRegistry`.

`HitCollectionProofs` proves, for every list of specs, any number of sidecars,
calls, attempts, polls and crashes:

* `CollectionTyped`: the type invariant;
* `HostNeverAheadAlways`: what the runner believes of a mock, a sidecar that has the
  spec loaded counted for a mock of that key;
* `HitsOnlyGrowAlways`: while a spec is collected and judged, no count shrinks;
* `PassMeansCalledAlways`: if the keys tell the mocks of each spec apart
  (`KeysApart`), a spec passes only if a call was counted for each of its EXPECTs.

The assumptions: specs share no statement, a call is made at a sidecar, and there is
at least one spec and one attempt.

The argument.  There are three copies of a count: the sidecar's, the answer under
way and the runner's.  `Inv` says that each is bounded by the one before it
(`ReadingOK`, `HostNeverAhead`), that the sidecars serve the spec that is run
whenever the runner is past its start and its reload (`BoxOK`), and that every count
was credited to a call.  The steps of the service only raise counters of loaded
mocks (`CountersGrow`); a start or reload blanks all three copies in an order that
keeps the bounds; a merge takes the maximum (`MergeCounts`).  At the verdict
"not missing" then leads back, through the key, to a call.

Its second part proves what the project began with, in both directions:

* `PassMeansCleanAlways`: a spec that passes with all sidecars alive made no
  forbidden call, broke no VERIFY rule and bypassed no strict mock, in any call the
  service waited for;
* `WellBehavedAlwaysPasses`: under `KeysApart`, a service that made exactly the
  calls of its specs passes.

They follow a call the other way: what it did is in the counters of its sidecar
(`CallsOK`), of which an answer that was read after the call has it too, and of which
the runner, once that sidecar is no longer in `left`, has it.  The three reads of one
`/verify` answer are under three locks, so the chain is kept for hits, passthroughs
and VERIFY errors separately.  `KeysApart` is needed in the second theorem only: with two
mocks under one key the runner may charge the wrong one, which can fail a clean spec
but not pass an unclean one.  The further assumption (`ServiceAssumption`) fixes how
a call is named: it is one event of one spec, calls are finitely many, a statement
is an EXPECT or an EXPECT_NOT, and an asynchronous spec has no answer that could wait for
a call.

`PgProofs` proves, for any number of connections, registries, batches and budgets:

* `AlwaysFreshAfterReload`: once a reload is over, no connection still open was set
  up before it.

`/reload-registry` is two steps, the new registry and the closing of connections, and
a connection may be anywhere in its startup between them.  `FreshAfterReload` is not
inductive: a connection that is set up under the old registry and one that was
never used look alike to it.  `BornNow` says that outside the two steps every open
connection belongs to the present registry, `Untouched` that connections are opened in
turn.  Only `PhaseTwo`, `Connect`, `Replace` and
`ResetConnections` touch what this reads; of every other action it is shown that it is
`Ordinary`, which keeps the invariant.  `ConnsAssumption`: connections are numbered.

`MySQLProofs` proves, for any registries, queries and budgets:

* `OneAnswerAlways`: while the connection lives, a command that has an answer is in
  one place on its way, or answered once, however the handler and the copy share the
  socket;
* `StatementsAlwaysAgree`: when nothing is under way, what the driver has open is
  what the handler made up and what the server knows;
* `NoExpectEverMissed`: a query, or the execution of a statement prepared under the
  same registry, goes to the server only with its EXPECTs all spent.

The last two suppose a driver that closes a statement before it prepares another
(`OneOpen`).  This is no convenience: with two open statements `mysql_ids` shows
`NoExpectMissed` violated.  The argument: a driver sends one command at a time, which is in
its hand, under way in one place, or lost with the server (`OneLane`); at most one
statement is current, be it open, being closed or being announced, and handler and server
know that one and no other (`Agrees`); what the server knows was forwarded when no EXPECT
of its registry was left (`NonePassedBy`).  `ConfigsAssumption` is the shape of the regimes.

`KafkaProofs` proves, for any number of consumers and producers, any topics, seeds,
mocks, batches, offers, restarts and interleavings:

* `NobodyEverStuck`: no client that is `Served` has to give up, for every answer has the
  layout of the version it speaks and is about the topic, assignor and assignment it asked for;
* `NegotiatingProducersNeverStuck`: a producer that negotiates, and knows a version on offer of
  the two APIs it needs, is one of these clients;
* `NegotiatingConsumersUnserved`: no consumer that negotiates is;
* `EveryProduceAlwaysAccounted`: every Produce that was answered, of any client and
  version, spent one mock, and no mock twice, or is one passthrough, and was charged to
  every EXPECT_NOT of its topic.

The hypotheses are in `KafkaProperties`, and TLC evaluates them in `kafka`.
`ListAssumption`: mocks are lists, a consumer offers an assignor, a producer has
something to send.  `NameAssumption`: a topic and an assignor have a name; the code takes
"" for "not found" (`firstSeededTopic`).  Nothing is assumed of versions.  `Served` is part of
what `NobodyStuck` says: the version a client will use of each API it needs, negotiated
or not, is one the interceptor lays out right (`Understood`).  The second and third theorem say
whom that describes: negotiating producers, since Metadata and Produce are laid out
right in every advertised version, and no negotiating consumer, which is a limit of the code.

The argument.  A handler sees bytes.  That a parser reads the field that was written rests
on where fields start: `Starts` is a recursive function, so that it exists at all
(`StartsExist`) and that it grows (`StartsGrow`) are shown by the least counterexample, and
`WireReads` concludes that a field is found where it starts.  From it there is one lemma
per parser (`FetchTopicRead` ... `AssignorRead`), for every understood version, and one per
answer for its layout.  The invariant is `ClientsRight`: a client is at a step that its kind takes, with
nothing on its connection, the request of that step (`Requested`), or, if it is served, the
right answer to it (`Answered`); a step of one client leaves the others alone (`OneClient`).  A JoinGroup is answered with the
first assignor offered, which is why the consumer finds it among its own.
For the registry, `OneMockFound` says that a lookup finds at most one mock, not hit before,
so a Produce adds one pair to `Spent` or one passthrough; `ClientsRight` is
needed for the topic that it is charged to to be the one that was sent.

`SuiteProofs` proves, for any number of runs, services, specs, databases, faults,
signals and edits:

* `OnlyOwnAlwaysRemoved`: whatever another run does, fails at or is interrupted in,
  the containers and the network of a run stay until it removes them itself;
* `NothingEverLeft`: when a run has ended, only containers the code lost sight of
  stay behind, and its network only under one of those.

Both suppose that no configuration gives two runs the name of one container
(`NamesApart`); lemma `NetworkNameOnly` derives it when no name but the network's is
explicit.  The hypothesis is where the proof taught something: with an explicit
*database* name and two faults one run removes the other's database even in runs
that do not race for it, the case that `foreign_container` shows; so `suite` gives
explicit names to the network and the application only, and `NamesApart` holds in
it.  `NothingEverLeft` also supposes `Attempts > 1`; the code has five.

The argument.  `Accounts` says that every container of a run is *known* to it: named by a
deferred removal, kept for a service, being migrated, or lost.  Each of the actions is
summarised once by what it does to the host (`HostStep`, `NetworkStep`,
or `Quiet`, if nothing) and to the run's own account, and the invariant is proved from the summaries.
A container is on its run's network (`Endpoints`), a network lives as long as its run may
use it (`HasNetwork`).  For the end: a detach that is delayed can make the first
removal of a network fail; from then on the run has nothing left to stop, so that a
second failure can only come from a container still attached, which stays (`RetryInv`).  `SuiteAssumption` and
`NoneAssumption` say that files, services and databases are lists of known kinds, and
that `None` is not an entry.  The names a run owns come from concatenating sequences of
sequences (`FlattenSeq`); that the result is a sequence needs an induction over its
length, which is done by the least counterexample (`LeastNat`, from the library's
theorem on minimal elements) instead of an induction theorem.

`SpecRunProofs` proves, in the same generality, what the suite is for:

* `ServiceAlwaysReady`: when a spec is triggered, on fresh containers or on kept ones,
  its service, proxies and databases run, its databases are migrated, and every alias
  its service was told to use leads to a container of this very spec and to no other
  but one that was lost (`ServiceReady`);
* `SpecAlwaysRunsOnItsOwn`: moreover every proxy answers from the registry of this
  spec, and its engines hold no row of an earlier one (`SpecRunsOnItsOwn`).

The hypotheses are conditions on the configuration; `MCSuite` assumes them, so TLC
checks that the instance of `suite` meets them.

* `NamesApart` as above, and `SpecNamesApart`, one spec per name in a run.
* `AliasesApart`: a service that may be kept has no alias that another one uses.  The
  code does not see to it: it stops kept containers of the *same* service only
  (`runner.go:1293`), so two services with a database host `db`, or two that use Redis
  or gRPC, meet under one alias.
* `GRPCAlike`: specs of a service that share containers agree on gRPC (section 4).
* `MySQLHostNamed`: a MySQL without a proxy is called `db`, for the service is told
  `real-<host>` and the shared one has only the alias `real-db` (`runner.go:265`).
* For the second theorem no `truncate` and no `inspect` among the faults: the code
  goes on when a truncation fails or a port is not published yet.

With two services on one database host, a spec that alone speaks gRPC, another
MySQL host, or either fault, TLC finds `SpecRunsOnItsOwn` violated: these are the limits of the code.  `SpecNamesApart`
is what the argument needs, for a spec of the same name removes a kept application.

The argument.  `RunInv` says of one run how far it is in its plan and that what it has
done of it still stands.  `Follows` relates the steps that are left to the plan: the first `k`
are done, the next may be a migration under way.  Of a done step `SetupDone` and `StepDone`
keep the effect: the container is up, is the run's, has the aliases of the step, is
clean and serves this spec; the migrated databases have a schema.  A spec that passed hands
this over as `Alive` (all but clean and serving), which `KeptInv` keeps for every kept
entry, and which `prepareForReuse` completes to `ReusedInv`.  `SharedInv` is the same for the setup.  Each action
is shown to keep `RunInv` of its own run and to leave alone every container outside the
names of that run (`StillRuns`); that the other runs keep theirs follows from
`NamesApart` once for all actions (`RunLasts`).  The four ways to remove containers - before a fresh
start, by deferred removals, in the cleanup, by a migration - need that the names of a spec tell which spec it is (`SpecPart`).
The plans are concatenations of conditional pieces, one of them flattened from the
list of databases; `PlanShape` and `SetupShape` say what is in them and that the test,
or the end of the setup, is their last step and no other.  For the aliases,
`EnvironmentServed` compares the environment of the service with the plans, and `AliasOwn`
uses `Accounts`: a container on the network of the run that is not lost is guarded, owned or kept, and
was started by a plan (`OwnStarted`).

`LifecycleProofs` proves, for any records, templates, tracked files, configurations and
budgets and any number of processes, every property of `record_lifecycle`:

* `RecordsTyped`: what files, manifest, git and commands hold is well formed;
* `SealAlwaysMatches`, `OpenAlwaysWritable`: at rest, seals and write bits are those of
  the records on disk - seals of every record whose file has a line for its seal, or a
  place for one at its end;
* `AlwaysAllOrNothing`: a transition that does not succeed leaves no trace;
* `CleanAlwaysCompletes`: sealing makes no rule of the linter fail;
* `HookAlwaysAgrees`: hook, commands and audit apply one set of rules;
* `ReconcileAlwaysRepairs`: reconcile restores the write bits, whatever came before.

The assumptions: `RecordsAssumption` says that the records of a repository are well
formed, each under its own id, and that a repository which has no manifest yet has
nothing completed; `ManifestAssumption` that `NoManifest` is no manifest.

The argument.  `Typed` holds whatever overlaps, dies or fails; the rest of the
inductive invariant is needed where a promise supposes one command at a time, which
`OneCommand` then turns into facts: at most one process runs (`Solo`), what it has in
memory is what is on disk except for what it changed itself (`UpToDate`) and, of the record
it saved, for what the file has no line for (`Remembers`), and between
two of its writes the files are those it found with exactly its own changes in them
(`Journal`) - so a roll-back, which writes back what was saved, restores them exactly.
`Good` says that the present files, or those the transition under way found,
satisfy seals and write bits; that way a roll-back leads back to a good state and a
success leads on to one.  For `CleanRecordCompletes` the linter is compared with itself
rule by rule, before and after the seal and the new status.  `Audited` is the
invariant for commits: no command changes a record's scopes, what it supersedes or its
id (`SameRules`), so an answer the hook got stays the right one, also where commands overlap.
Two of the properties were too strong as the project first had them: the attempt to
prove them led to the draft and to the record that forbids its own file of section 4.

Only model-checked, and why:

* `RepliesAsPostgres`, `ServerKnowsNames`, `Accounted`: the driver's check (`Legal`) of each
  message against what is owed needs an invariant of the whole pipeline, both sockets
  and the skipping of a batch.
* The pure parts (`RowsReadBack`, `SpecKeepsClauses`): what folds and recursive functions
  compute for every input is an induction over data.
* All liveness under fairness, which this prover has no rules for: `EveryTestJudged`,
  `EveryRequestAnswered`, `ResetEndsHandlers`, `CommandsAnswered`, `SeedsHandled`, `RunsEnd`.

No module has a RECURSIVE operator.

## 6. What is not modelled, and why

* Wire formats other than Kafka's offsets, SQL scanning, regular expressions and
  JSON paths are data: a request has the features they extract.  TLS and
  authentication of PostgreSQL, COPY, the connection phase of MySQL, its packets
  beyond 16 MB and the unsynchronised transparent flag, and TNS are left out.
* Interpolation, configuration and schema queries are transformations of text or
  queries to a database, without state.
* Provenance reports, publishing to a remote, code generation, embeddings and
  endpoint discovery read the tree and write reports; nothing else reads their state.
* The port allocator is called by no code outside its own file.
* Docker, git, PostgreSQL, MySQL, Kafka clients, the network, the services behind the
  proxies and the service under test are external, modelled from how the code uses
  them: Docker refuses a name in use, delays a detach; PostgreSQL answers in order
  and discards after an error; git's commit runs the hook.
* Image builds and health checks can only fail (`Fails`); directories are never
  locked by the write restriction; wildcards inside a name (`*.go`) are not
  modelled.

## 7. Plan

1. The registry (done): `Expectations`, `MockRegistry`, `ExpectLedger`, four theorems.
2. The verdict (done): `HitCollection`, four theorems.
3. Containers (done): `SuiteLifecycle`.
4. PostgreSQL connections and results (done): `PgConnection`, `PgResults`, `PgValues`.
5. MySQL connections and results (done): `MySQLConnection`, `MySQLReplies`.
6. Kafka (done), the parser (done), provenance records (done).
7. Proofs (done): the safety the runs check of the registry, the verdict, MySQL,
   Kafka, the containers and the provenance records; `FreshAfterReload`.
8. Proofs to come: `Accounted`, `ServerKnowsNames` and `RepliesAsPostgres`, over an
   invariant of the pipeline of one connection.
