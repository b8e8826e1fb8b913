--------------------------- MODULE SuiteLifecycle ---------------------------
(***************************************************************************)
(* What `linespec test` does to a Docker host: the shared network,         *)
(* database and Kafka of a suite, the containers of every spec in the      *)
(* order run() starts them, the deferred removals, the containers kept for *)
(* the next spec and the final cleanup (pkg/runner, pkg/docker).  Several  *)
(* runs of the program share the host.  What happens inside a test phase   *)
(* is HitCollection; here it passes or fails.                              *)
(***************************************************************************)
EXTENDS Integers, Sequences, SequencesExt

CONSTANTS
    Runs,       \* processes on one Docker host
    Services,
    Service,    \* Service[s]: [dbs: Seq([host, type, proxied]), http, grpc: aliases,
                \*              redis, kafka, migrates: BOOLEAN]
    Files,      \* Files[r]: the specs of run r: Seq([name, service, channel, events, grpc])
    Explicit,   \* roles that container_naming names: the same name in every run
    Faults,     \* what may go wrong, see Fault
    MaxFaults,  \* how often
    Edits,      \* how a migration may be edited between two setups
    MaxEdits,
    Attempts,   \* removal attempts of removeNetworkWithRetry
    None

ASSUME SuiteAssumption ==
    /\ Explicit \subseteq {"network", "database", "kafka", "migrate", "proxy", "app"}
    /\ Faults \subseteq {"start", "reuse", "truncate", "inspect", "remove", "interrupt"}
    /\ Edits \subseteq {"tables", "columns"}
    /\ MaxFaults \in Nat /\ MaxEdits \in Nat /\ Attempts \in Nat \ {0}
    /\ IsFiniteSet(Services)
    /\ \A r \in Runs : /\ Files[r] \in Seq(Range(Files[r]))
                      /\ \A i \in DOMAIN Files[r] : Files[r][i].service \in Services
    /\ \A s \in Services :
          /\ Service[s].dbs \in Seq(Range(Service[s].dbs))
          /\ \A i \in DOMAIN Service[s].dbs :
                Service[s].dbs[i].type \in {"oracle", "postgresql", "mysql", "mongodb"}

VARIABLES
    containers, \* the Docker host: name |-> [owner, net, up, aliases, schema, dirty, serves]
    networks,   \* name |-> [owner, lingers]
    run,        \* run[r]: the state of the suite and of the spec being run
    cache,      \* .linespec/schema-cache.json
    tree,       \* the schema the migrations in the source tree produce
    faults      \* faults so far

vars == <<containers, networks, run, cache, tree, faults>>

-----------------------------------------------------------------------------
(* Names.  An explicit name is used verbatim by every run. *)

Named(r, role, parts) == <<role>> \o parts \o (IF role \in Explicit THEN <<>> ELSE <<r>>)

NetworkName(r)        == Named(r, "network", <<>>)
SharedDB(r)           == Named(r, "database", <<>>)
SharedKafka(r)        == Named(r, "kafka", <<>>)
MigrateName(r, s)     == Named(r, "migrate", <<s>>)
ProxyName(r, f, type) == Named(r, "proxy", <<type, f.name>>)
AppName(r, f)         == Named(r, "app", <<f.name>>)
EngineName(r, f, db)  == <<"engine", db.type, db.host, f.name, r>>

\* Aliases on the network.
At(host)   == <<host>>
Real(host) == <<"real", host>>
Dependencies(hosts) == {At(h) : h \in hosts}

\* The alias of the shared MySQL, whatever the host of the configuration is.
NetworkAlias == Real("db")

SpecOf(r) == Files[r][run[r].at]

-----------------------------------------------------------------------------
(***************************************************************************)
(* Plans.  A run is a list of steps; one of them starts a container, and   *)
(* what happens between two starts (images, waits, schema, descriptors)    *)
(* can only fail.  A shared container is tracked, any other is guarded by  *)
(* a deferred removal.                                                     *)
(***************************************************************************)
Starts(name, aliases) == [do |-> "start", name |-> name, aliases |-> aliases, shared |-> FALSE]

StartsShared(name, aliases) == [do |-> "start", name |-> name, aliases |-> aliases, shared |-> TRUE]

Does(what) == [do |-> what]

If(cond, steps) == IF cond THEN steps ELSE <<>>

EngineSteps(r, f, db) == <<Starts(EngineName(r, f, db), {Real(db.host)})>>

ProxySteps(r, f, db) == If(db.proxied, <<Starts(ProxyName(r, f, db.host), {At(db.host)})>>)

OracleSteps(r, f, db)     == EngineSteps(r, f, db) \o ProxySteps(r, f, db)
PostgreSQLSteps(r, f, db) == EngineSteps(r, f, db) \o ProxySteps(r, f, db)
MySQLSteps(r, f, db)      == ProxySteps(r, f, db)
MongoDBSteps(r, f, db)    == EngineSteps(r, f, db) \o ProxySteps(r, f, db)

DatabaseSteps(r, f) ==
    FlattenSeq([i \in DOMAIN Service[f.service].dbs |->
        LET db == Service[f.service].dbs[i] IN
        CASE db.type = "oracle"     -> OracleSteps(r, f, db)
          [] db.type = "postgresql" -> PostgreSQLSteps(r, f, db)
          [] db.type = "mysql"      -> MySQLSteps(r, f, db)
          [] db.type = "mongodb"    -> MongoDBSteps(r, f, db)])

HTTPSteps(r, f) ==
    If(Service[f.service].http # {}, <<Starts(ProxyName(r, f, "http"), Dependencies(Service[f.service].http))>>)

NeedsKafkaProxy(f) == Service[f.service].kafka /\ (f.channel = "event" \/ f.events)

KafkaSteps(r, f) == If(NeedsKafkaProxy(f), <<Starts(ProxyName(r, f, "kafka"), {At("kafka-proxy")})>>)

NeedsGRPC(f) == f.grpc \/ Service[f.service].grpc # {}

GRPCSteps(r, f) ==
    If(NeedsGRPC(f), <<Starts(ProxyName(r, f, "grpc"), Dependencies({"grpc-proxy"} \cup Service[f.service].grpc))>>)

RedisSteps(r, f) == If(Service[f.service].redis, <<Starts(ProxyName(r, f, "redis"), {At("redis-proxy")})>>)

HasType(s, types) == \E i \in DOMAIN Service[s].dbs : Service[s].dbs[i].type \in types

NonMySQL == {"oracle", "postgresql", "mongodb"}

MigrationSteps(f) ==
    If(Service[f.service].migrates /\ HasType(f.service, NonMySQL),
       <<[do |-> "migrate", service |-> f.service]>>)

AppSteps(r, f) == <<Starts(AppName(r, f), {})>>

SpecPlan(r, f) ==
    DatabaseSteps(r, f) \o HTTPSteps(r, f) \o KafkaSteps(r, f) \o GRPCSteps(r, f) \o RedisSteps(r, f)
        \o <<Does("inspect")>> \o MigrationSteps(f) \o AppSteps(r, f) \o <<Does("test")>>

\* A service that touches another database migrates when that is up.
SetupMigrations ==
    LET now == SetToSeq({s \in Services : Service[s].migrates /\ ~HasType(s, NonMySQL)})
    IN  [i \in DOMAIN now |-> [do |-> "migrate", service |-> now[i]]]

SetupDatabase(r) ==
    If(\E s \in Services : HasType(s, {"mysql"}), <<StartsShared(SharedDB(r), {NetworkAlias})>>)

SetupKafka(r) == <<StartsShared(SharedKafka(r), {At("kafka")})>>

SetupPlan(r) ==
    SetupDatabase(r) \o SetupMigrations \o <<Does("schema")>> \o SetupKafka(r) \o <<Does("specs")>>

DatabaseEnvironment(s) ==
    {IF s.dbs[i].proxied THEN At(s.dbs[i].host) ELSE Real(s.dbs[i].host) : i \in DOMAIN s.dbs}

\* Where the service under test is told to find what it needs, unless its
\* configuration says otherwise.
AppEnvironment(f) ==
    LET s == Service[f.service] IN
    DatabaseEnvironment(s) \cup Dependencies(s.http)
    \cup (IF NeedsKafkaProxy(f) THEN {At("kafka-proxy")} ELSE IF s.kafka THEN {At("kafka")} ELSE {})
    \cup (IF NeedsGRPC(f) THEN Dependencies({"grpc-proxy"} \cup s.grpc) ELSE {})
    \cup (IF s.redis THEN {At("redis-proxy")} ELSE {})

\* The containers a database of spec f is served by, the shared one included.
Databases(r, f) ==
    LET dbs == Service[f.service].dbs IN
    {IF dbs[i].type = "mysql" THEN SharedDB(r) ELSE EngineName(r, f, dbs[i]) : i \in DOMAIN dbs}

\* mutant: a spec of an event is run on kept containers too
KeepsForAll(f) == TRUE

\* Event and Job specs, and specs that expect an event, need fresh proxies.
canUsePersistentContainers(f) == f.channel = "http" /\ ~f.events
-----------------------------------------------------------------------------
(* The containers a kept entry names, and those removed by name up front. *)

HostsOf(f) == {Service[f.service].dbs[i].host : i \in DOMAIN Service[f.service].dbs}

StartedBy(r, f) ==
    LET plan == SpecPlan(r, f) IN {plan[i].name : i \in {j \in DOMAIN plan : plan[j].do = "start"}}

\* mutant: the databases are not among the names
PersistentProxies(r, f) ==
    {AppName(r, f)} \cup {ProxyName(r, f, type) : type \in HostsOf(f) \cup {"http", "grpc", "redis"}}

PersistentNames(r, f) ==
    StartedBy(r, f) \cup {AppName(r, f)}
        \cup {ProxyName(r, f, type) : type \in HostsOf(f) \cup {"http", "grpc", "redis"}}

\* An entry of persistentContainers.
KeptEntry(r) ==
    [spec : Range(Files[r]), unread : SUBSET UNION {StartedBy(r, Files[r][i]) : i \in DOMAIN Files[r]}]

ASSUME NoneAssumption ==
    /\ \A r \in Runs : None \notin KeptEntry(r)
    /\ None \notin [tables : Nat, columns : Nat]

PreCleanupNames(r, f) ==
    {AppName(r, f)} \cup {ProxyName(r, f, type) : type \in HostsOf(f) \cup {"http", "kafka", "grpc", "redis"}}

ProxiesOf(r, f) ==
    StartedBy(r, f) \ ({AppName(r, f)} \cup Databases(r, f))

-----------------------------------------------------------------------------
(* The Docker host. *)

Exists(n) == n \in DOMAIN containers

Up(n) == Exists(n) /\ containers[n].up

\* serves: the spec whose registry file a proxy of this container has loaded.
NewContainer(r, up, aliases) ==
    [owner |-> r, net |-> NetworkName(r), up |-> up, aliases |-> aliases,
     schema |-> None, dirty |-> FALSE, serves |-> run[r].at]

With(f, key, value) == [x \in DOMAIN f \cup {key} |-> IF x = key THEN value ELSE f[x]]

Without(f, keys) == [x \in DOMAIN f \ keys |-> f[x]]

\* A network keeps the endpoint of a removed container for a moment.
Detaching(names) ==
    [n \in DOMAIN networks |->
        [networks[n] EXCEPT !.lingers = @ \/ \E c \in names : Up(c) /\ containers[c].net = n]]

Fault(kind) == kind \in Faults /\ faults < MaxFaults /\ faults' = faults + 1

NoFault == UNCHANGED faults

\* StopAndRemoveContainer of every name; its error is discarded, and a stop
\* that takes the whole budget of its context leaves the container behind.
StopAndRemove(names, left) ==
    /\ containers' = Without(containers, names \ left)
    /\ networks' = Detaching(names \ left)

\* What may be left of the containers that are removed.
Leftovers(names) == {{}} \cup {{n} : n \in names \cap DOMAIN containers}

Leaves(left) == IF left = {} THEN NoFault ELSE Fault("remove")

-----------------------------------------------------------------------------
(***************************************************************************)
(* The state of a run.                                                     *)
(***************************************************************************)
NewRun ==
    [phase     |-> "new", at |-> 0, todo |-> <<>>,
     cancelled |-> FALSE,
     owned     |-> <<>>,    \* ownedContainers
     network   |-> FALSE,   \* ownedNetwork is set
     undo      |-> <<>>,    \* deferred removals of the spec being run
     on        |-> None,    \* the spec whose containers the test phase uses
     unread    |-> {},      \* proxies whose verify port was not published in time
     kept      |-> [s \in Services |-> None],   \* persistentContainers: [spec, unread]
     schema    |-> None,    \* sharedSchemaJSON
     tries     |-> 0,
     failed    |-> {},      \* specs that failed
     lost      |-> {}]      \* history: containers no entry or guard names any more

Init ==
    /\ containers = <<>> /\ networks = <<>>
    /\ run = [r \in Runs |-> NewRun]
    /\ cache = None /\ tree = [tables |-> 1, columns |-> 1] /\ faults = 0

Phases == {"new", "setup", "next", "reuse", "fresh", "test", "unwind", "cleanup", "done"}

Goes(r, phase) == run' = [run EXCEPT ![r].phase = phase]

\* An error of setup ends the run, an error of a spec ends the spec.
Abort(r, state) ==
    [state EXCEPT !.phase = IF @ = "setup" THEN "cleanup" ELSE "unwind",
                  !.todo = <<>>,
                  !.failed = IF state.phase = "setup" THEN @ ELSE @ \cup {state.at}]

Advance(state) == [state EXCEPT !.todo = Tail(@)]

Doing(r, what) == run[r].todo # <<>> /\ Head(run[r].todo).do = what

\* mutant: the network is taken for this run's before it was created
AssumeNetwork(r) ==
    /\ run[r].phase = "new"
    /\ \/ /\ NetworkName(r) \notin DOMAIN networks /\ ~run[r].cancelled
          /\ networks' = With(networks, NetworkName(r), [owner |-> r, lingers |-> FALSE])
          /\ run' = [run EXCEPT ![r].phase = "setup", ![r].network = TRUE, ![r].todo = SetupPlan(r)]
       \/ /\ run' = [run EXCEPT ![r].phase = "cleanup", ![r].network = TRUE]
          /\ UNCHANGED networks
    /\ UNCHANGED <<containers, cache, tree, faults>>

\* SetupSharedInfrastructure up to the network, which nobody else may own.
CreateNetwork(r) ==
    /\ run[r].phase = "new"
    /\ \/ /\ NetworkName(r) \notin DOMAIN networks /\ ~run[r].cancelled
          /\ networks' = With(networks, NetworkName(r), [owner |-> r, lingers |-> FALSE])
          /\ run' = [run EXCEPT ![r].phase = "setup", ![r].network = TRUE, ![r].todo = SetupPlan(r)]
       \/ /\ Goes(r, "cleanup")
          /\ UNCHANGED networks
    /\ UNCHANGED <<containers, cache, tree, faults>>

\* A shared container is tracked whether or not it could be started.
Tracked(state, step) ==
    IF step.shared THEN [state EXCEPT !.owned = Append(@, step.name)] ELSE state

\* A container of a spec is guarded only once it runs.
Guarded(state, step) ==
    IF step.shared THEN state ELSE [state EXCEPT !.undo = Append(@, step.name)]

StartContainer(r) ==
    /\ Doing(r, "start") /\ run[r].phase \in {"setup", "fresh"}
    /\ LET step == Head(run[r].todo)
           state == Tracked(run[r], step) IN
       \/ /\ ~Exists(step.name) /\ ~run[r].cancelled
          /\ containers' = With(containers, step.name, NewContainer(r, TRUE, step.aliases))
          /\ run' = [run EXCEPT ![r] = Advance(Guarded(state, step))]
          /\ NoFault
       \/ /\ Exists(step.name) \/ run[r].cancelled
          /\ run' = [run EXCEPT ![r] = Abort(r, state)]
          /\ NoFault /\ UNCHANGED containers
       \/ /\ ~Exists(step.name) /\ Fault("start")
          /\ containers' = With(containers, step.name, NewContainer(r, FALSE, step.aliases))
          /\ run' = [run EXCEPT ![r] = [Abort(r, state) EXCEPT
                        !.lost = IF step.shared THEN @ ELSE @ \cup {step.name}]]
    /\ UNCHANGED <<networks, cache, tree>>

\* Whatever follows a start fails: an image, a wait, a schema, a descriptor set,
\* the validation of the mocks, the time limit of the spec.
Fails(r) ==
    /\ run[r].phase \in {"setup", "fresh"}
    /\ ~ Doing(r, "migrating")
    /\ run' = [run EXCEPT ![r] = Abort(r, @)]
    /\ UNCHANGED <<containers, networks, cache, tree, faults>>

-----------------------------------------------------------------------------
(* Migrations and the schema of the shared database. *)

\* runMigrations removes what has the container's name and starts its own.
BeginMigration(r) ==
    /\ Doing(r, "migrate") /\ ~run[r].cancelled
    /\ LET name == MigrateName(r, Head(run[r].todo).service) IN
       /\ containers' = With(containers, name, NewContainer(r, TRUE, {}))
       /\ networks' = Detaching({name})
    /\ run' = [run EXCEPT ![r].todo = <<[Head(@) EXCEPT !.do = "migrating"]>> \o Tail(@)]
    /\ UNCHANGED <<cache, tree, faults>>

MigratedBy(r, s) ==
    IF run[r].phase = "setup" THEN {SharedDB(r)}
    ELSE Databases(r, SpecOf(r))

EndMigration(r) ==
    /\ Doing(r, "migrating")
    /\ LET s == Head(run[r].todo).service
           after == Without(containers, {MigrateName(r, s)}) IN
       /\ networks' = Detaching({MigrateName(r, s)})
       /\ \/ /\ \A n \in MigratedBy(r, s) : Up(n)
             /\ ~run[r].cancelled
             /\ containers' = [n \in DOMAIN after |->
                    IF n \in MigratedBy(r, s) THEN [after[n] EXCEPT !.schema = tree] ELSE after[n]]
             /\ run' = [run EXCEPT ![r] = Advance(@)]
          \/ /\ containers' = after
             /\ run' = [run EXCEPT ![r] = Abort(r, @)]
    /\ UNCHANGED <<cache, tree, faults>>

SameHash(a, b) == a.tables = b.tables

\* The schema of the shared database, from the cache file when the hash matches.
FetchSchema(r) ==
    /\ Doing(r, "schema")
    /\ LET db == SharedDB(r)
           here == IF Exists(db) THEN containers[db].schema ELSE None IN
       IF here = None
       THEN run' = [run EXCEPT ![r] = Advance(@)] /\ UNCHANGED cache
       ELSE LET hit == cache # None /\ SameHash(cache, here) IN
            /\ run' = [run EXCEPT ![r] = [Advance(@) EXCEPT !.schema = IF hit THEN cache ELSE here]]
            /\ cache' = IF hit THEN cache ELSE here
    /\ UNCHANGED <<containers, networks, tree, faults>>

\* Between two runs somebody edits the migrations of the source tree.
EditMigrations ==
    /\ \A r \in Runs : run[r].phase \in {"new", "done"}
    /\ \E what \in Edits :
          /\ tree[what] <= MaxEdits
          /\ tree' = [tree EXCEPT ![what] = @ + 1]
    /\ UNCHANGED <<containers, networks, run, cache, faults>>

EndSetup(r) ==
    /\ Doing(r, "specs")
    /\ run' = [run EXCEPT ![r].phase = "next", ![r].todo = <<>>]
    /\ UNCHANGED <<containers, networks, cache, tree, faults>>

-----------------------------------------------------------------------------
(***************************************************************************)
(* One spec.                                                               *)
(***************************************************************************)

\* The containers of a kept entry that is dropped without being stopped.
Forget(state, r, s) ==
    [state EXCEPT !.kept[s] = None, !.lost = @ \cup (PersistentNames(r, state.kept[s].spec) \cap DOMAIN containers)]

\* The fresh path removes what carries the spec's names, then follows the plan.
StartFresh(r, state, stop, left) ==
    LET f == Files[r][state.at] IN
    /\ StopAndRemove(stop \cup PreCleanupNames(r, f), left)
    /\ run' = [run EXCEPT ![r] = [state EXCEPT
                  !.phase = "fresh", !.todo = SpecPlan(r, f), !.undo = <<>>, !.on = f,
                  !.unread = {}, !.lost = @ \cup left]]
    /\ UNCHANGED <<cache, tree>>

NextSpec(r) ==
    /\ run[r].phase = "next"
    /\ LET next == [run[r] EXCEPT !.at = @ + 1] IN
       IF run[r].cancelled \/ run[r].at = Len(Files[r])
       THEN /\ Goes(r, "cleanup")
            /\ UNCHANGED <<containers, networks, cache, tree, faults>>
       ELSE LET f == Files[r][next.at]
                pc == next.kept[f.service] IN
            IF canUsePersistentContainers(f) /\ pc # None
            THEN /\ run' = [run EXCEPT ![r] = [next EXCEPT !.phase = "reuse"]]
                 /\ UNCHANGED <<containers, networks, cache, tree, faults>>
            ELSE LET stop == IF pc = None THEN {} ELSE PersistentNames(r, pc.spec) IN
                 \E left \in Leftovers(stop \cup PreCleanupNames(r, f)) :
                    /\ Leaves(left)
                    /\ StartFresh(r, [next EXCEPT !.kept[f.service] = None], stop, left)

\* A spec that does not load, or whose mocks do not fit the cached schema, fails
\* before it touches a container.
NextSpecUnreadable(r) ==
    /\ run[r].phase = "next" /\ ~run[r].cancelled /\ run[r].at < Len(Files[r])
    /\ run' = [run EXCEPT ![r].at = @ + 1, ![r].failed = @ \cup {run[r].at + 1}]
    /\ UNCHANGED <<containers, networks, cache, tree, faults>>

-----------------------------------------------------------------------------
(* Reuse. *)

\* The databases prepareForReuse empties.
Truncated(r, f) ==
    LET dbs == Service[f.service].dbs IN
    {IF dbs[i].type = "mysql" THEN SharedDB(r) ELSE EngineName(r, f, dbs[i]) :
        i \in {j \in DOMAIN dbs : dbs[j].type # "mysql" \/ dbs[j].proxied}}

\* A truncation that fails is tolerated, the reset of an Oracle engine is not.
OracleEngines(r, f) ==
    LET dbs == Service[f.service].dbs IN
    {EngineName(r, f, dbs[i]) : i \in {j \in DOMAIN dbs : dbs[j].type = "oracle"}}

\* Proxies whose verify port is known are sent the registry of the spec.
Reloaded(r, pc) == ProxiesOf(r, pc.spec) \ pc.unread

Answers(r, pc) == Up(AppName(r, pc.spec)) /\ ~run[r].cancelled /\ \A n \in Reloaded(r, pc) : Up(n)

prepareForReuse(r) ==
    /\ run[r].phase = "reuse"
    /\ LET pc == run[r].kept[SpecOf(r).service] IN
       /\ Answers(r, pc)
       /\ \E emptied \in {Truncated(r, pc.spec), OracleEngines(r, pc.spec)} :
             /\ IF emptied = Truncated(r, pc.spec) THEN NoFault ELSE Fault("truncate")
             /\ containers' = [n \in DOMAIN containers |->
                    [containers[n] EXCEPT
                        !.dirty = @ /\ n \notin emptied,
                        !.serves = IF n \in Reloaded(r, pc) THEN run[r].at ELSE @]]
       /\ run' = [run EXCEPT ![r].phase = "test", ![r].on = pc.spec]
    /\ UNCHANGED <<networks, cache, tree>>

\* The kept service does not answer, a proxy does not reload, or an Oracle
\* engine is not reset.
FallBack(r) ==
    /\ run[r].phase = "reuse"
    /\ LET s == SpecOf(r).service IN
       /\ IF Answers(r, run[r].kept[s]) THEN Fault("reuse") ELSE NoFault
       /\ StartFresh(r, Forget(run[r], r, s), {}, {})

-----------------------------------------------------------------------------
(* The test phase and what follows it. *)

\* One inspect of every proxy: a port that is not published yet is never read.
InspectProxies(r) ==
    /\ Doing(r, "inspect")
    /\ \/ NoFault /\ run' = [run EXCEPT ![r] = Advance(@)]
       \/ /\ Fault("inspect")
          /\ \E n \in ProxiesOf(r, SpecOf(r)) :
                run' = [run EXCEPT ![r] = [Advance(@) EXCEPT !.unread = {n}]]
    /\ UNCHANGED <<containers, networks, cache, tree>>

BeginTest(r) ==
    /\ run[r].phase = "fresh" /\ Doing(r, "test") /\ ~run[r].cancelled
    /\ run' = [run EXCEPT ![r].phase = "test"]
    /\ UNCHANGED <<containers, networks, cache, tree, faults>>

\* The service may write to its databases.
Dirtied(names) ==
    [n \in DOMAIN containers |-> IF n \in names THEN [containers[n] EXCEPT !.dirty = TRUE] ELSE containers[n]]

Reused(r) == run[r].todo = <<>>

EndTest(r) ==
    /\ run[r].phase = "test"
    /\ \/ UNCHANGED containers
       \/ containers' = Dirtied(Databases(r, run[r].on))
    /\ LET f == SpecOf(r)
           rest == [run[r] EXCEPT !.todo = <<>>, !.on = None]
           failed == [rest EXCEPT !.failed = @ \cup {run[r].at}] IN
       IF Reused(r)
       THEN \/ run' = [run EXCEPT ![r] = [failed EXCEPT !.phase = "next"]]
            \/ ~run[r].cancelled /\ run' = [run EXCEPT ![r] = [rest EXCEPT !.phase = "next"]]
       ELSE \/ run' = [run EXCEPT ![r] = [failed EXCEPT !.phase = "unwind"]]
            \/ /\ ~run[r].cancelled
               /\ run' = [run EXCEPT ![r] =
                    IF canUsePersistentContainers(f)
                    THEN [rest EXCEPT !.phase = "next", !.undo = <<>>,
                                      !.kept[f.service] = [spec |-> f, unread |-> run[r].unread]]
                    ELSE [rest EXCEPT !.phase = "unwind"]]
    /\ UNCHANGED <<networks, cache, tree, faults>>

\* The deferred removals, last first.
Unwind(r) ==
    /\ run[r].phase = "unwind"
    /\ IF run[r].undo = <<>>
       THEN Goes(r, "next") /\ UNCHANGED <<containers, networks, faults>>
       ELSE \E left \in Leftovers({Last(run[r].undo)}) :
               /\ Leaves(left) /\ StopAndRemove({Last(run[r].undo)}, left)
               /\ run' = [run EXCEPT ![r].undo = Front(@), ![r].lost = @ \cup left]
    /\ UNCHANGED <<cache, tree>>

-----------------------------------------------------------------------------
(***************************************************************************)
(* CleanupSharedInfrastructure: the shared containers, the kept ones, and  *)
(* at last the network, if this run created it.                            *)
(***************************************************************************)
AllKept(r) ==
    UNION {PersistentNames(r, run[r].kept[s].spec) : s \in {t \in Services : run[r].kept[t] # None}}

CleanupOwned(r) ==
    /\ run[r].phase = "cleanup" /\ run[r].owned # <<>>
    /\ \E left \in Leftovers({Head(run[r].owned)}) :
          /\ Leaves(left) /\ StopAndRemove({Head(run[r].owned)}, left)
          /\ run' = [run EXCEPT ![r].owned = Tail(@), ![r].lost = @ \cup left]
    /\ UNCHANGED <<cache, tree>>

CleanupPersistent(r) ==
    /\ run[r].phase = "cleanup" /\ run[r].owned = <<>> /\ AllKept(r) # {}
    /\ \E left \in Leftovers(AllKept(r)) :
          /\ Leaves(left) /\ StopAndRemove(AllKept(r), left)
          /\ run' = [run EXCEPT ![r].kept = [s \in Services |-> None], ![r].lost = @ \cup left]
    /\ UNCHANGED <<cache, tree>>

\* The daemon refuses while an endpoint is attached, or was until a moment ago.
Attached(net) == \E n \in DOMAIN containers : containers[n].net = net /\ containers[n].up

\* mutant: it is tried again until it succeeds
RemoveNetworkForever(r) ==
    /\ run[r].phase = "cleanup" /\ run[r].owned = <<>> /\ AllKept(r) = {}
    /\ LET net == NetworkName(r) IN
       IF ~run[r].network \/ net \notin DOMAIN networks
       THEN Goes(r, "done") /\ UNCHANGED networks
       ELSE IF Attached(net) \/ networks[net].lingers
       THEN /\ UNCHANGED run
            /\ networks' = [networks EXCEPT ![net].lingers = FALSE]
       ELSE /\ networks' = Without(networks, {net})
            /\ Goes(r, "done")
    /\ UNCHANGED <<containers, cache, tree, faults>>

removeNetworkWithRetry(r) ==
    /\ run[r].phase = "cleanup" /\ run[r].owned = <<>> /\ AllKept(r) = {}
    /\ LET net == NetworkName(r) IN
       IF ~run[r].network \/ run[r].tries = Attempts \/ net \notin DOMAIN networks
       THEN Goes(r, "done") /\ UNCHANGED networks
       ELSE IF Attached(net) \/ networks[net].lingers
       THEN /\ run' = [run EXCEPT ![r].tries = @ + 1]
            /\ networks' = [networks EXCEPT ![net].lingers = FALSE]
       ELSE /\ networks' = Without(networks, {net})
            /\ Goes(r, "done")
    /\ UNCHANGED <<containers, cache, tree, faults>>

\* SIGINT or SIGTERM cancels the context of everything but the cleanup.
Interrupt(r) ==
    /\ run[r].phase \notin {"cleanup", "done"} /\ ~run[r].cancelled /\ Fault("interrupt")
    /\ run' = [run EXCEPT ![r].cancelled = TRUE]
    /\ UNCHANGED <<containers, networks, cache, tree>>

Step(r) ==
    \/ CreateNetwork(r) \/ StartContainer(r) \/ Fails(r)
    \/ BeginMigration(r) \/ EndMigration(r) \/ FetchSchema(r) \/ EndSetup(r)
    \/ NextSpec(r) \/ NextSpecUnreadable(r) \/ prepareForReuse(r) \/ FallBack(r)
    \/ InspectProxies(r) \/ BeginTest(r) \/ EndTest(r) \/ Unwind(r)
    \/ CleanupOwned(r) \/ CleanupPersistent(r) \/ removeNetworkWithRetry(r)

AllDone == (\A r \in Runs : run[r].phase = "done") /\ UNCHANGED vars

Next == (\E r \in Runs : Step(r) \/ Interrupt(r)) \/ EditMigrations \/ AllDone

Spec == Init /\ [][Next]_vars /\ WF_vars(\E r \in Runs : Step(r))

=============================================================================
