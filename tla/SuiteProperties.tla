-------------------------- MODULE SuiteProperties --------------------------
(***************************************************************************)
(* What a suite promises about the Docker host and about the containers a  *)
(* spec runs on.                                                           *)
(***************************************************************************)
EXTENDS SuiteLifecycle

\* However a run ends - a spec or the setup fails at any point, a signal, a
\* refused name - no container of it stays behind, except those the code lost
\* sight of, and its network stays only if one of those still holds it (the
\* deferred removals of run() and CleanupSharedInfrastructure).
NothingLeft ==
    \A r \in Runs : run[r].phase = "done" =>
        /\ \A n \in DOMAIN containers : containers[n].owner = r => n \in run[r].lost
        /\ \A net \in DOMAIN networks :
              networks[net].owner = r => \E n \in run[r].lost : Up(n) /\ containers[n].net = net

\* "Cleanup never removes a container or network this run did not create"
\* (provenance/prov-2026-c3977f44.yml:37): whatever another run does, the
\* containers and the network of a run stay until it removes them itself.
OnlyOwnRemoved ==
    [][\A r \in Runs : run'[r] = run[r] =>
          /\ \A n \in DOMAIN containers : containers[n].owner = r =>
                n \in DOMAIN containers' /\ containers'[n].owner = r
          /\ \A net \in DOMAIN networks : networks[net].owner = r =>
                net \in DOMAIN networks' /\ networks'[net].owner = r]_vars

Holders(r, alias) ==
    {n \in DOMAIN containers : Up(n) /\ containers[n].net = NetworkName(r) /\ alias \in containers[n].aliases}

\* When a spec is triggered its service and all its proxies and databases run,
\* the databases are migrated, and every alias the service was told to use
\* leads to containers of this very spec: "Docker would round-robin connections
\* between them ..., causing the new app to talk to the wrong proxy"
\* (runner.go:1289-1292).  Containers the code lost sight of are not counted.
ServiceReady ==
    \A r \in Runs : run[r].phase = "test" =>
        LET f == run[r].on
            mine == StartedBy(r, f) \cup {SharedDB(r), SharedKafka(r)} IN
        /\ \A n \in StartedBy(r, f) \cup Databases(r, f) : Up(n)
        /\ Service[f.service].migrates =>
              \A n \in Databases(r, f) : containers[n].schema # None
        /\ \A alias \in AppEnvironment(SpecOf(r)) :
              /\ Holders(r, alias) \cap mine # {}
              /\ Holders(r, alias) \subseteq mine \cup run[r].lost

\* Every proxy of the service answers from the registry of the spec that is
\* being run, on fresh containers and on kept ones (reloadProxy).
ProxiesServeTheSpec ==
    \A r \in Runs : run[r].phase = "test" =>
        \A n \in ProxiesOf(r, run[r].on) : containers[n].serves = run[r].at

\* A spec never sees what an earlier one left in a database of its own
\* (prepareForReuse and the truncate functions).
EnginesStartClean ==
    \A r \in Runs : run[r].phase = "test" =>
        \A n \in Databases(r, run[r].on) \ {SharedDB(r)} : ~containers[n].dirty

\* A spec runs on what it asked for and on nothing else: its containers, its
\* registry, no rows of a spec before it, fresh or kept alike.
SpecRunsOnItsOwn == ServiceReady /\ ProxiesServeTheSpec /\ EnginesStartClean

\* Every run comes to an end, whatever fails or cannot be removed.
RunsEnd == \A r \in Runs : <>(run[r].phase = "done")

-----------------------------------------------------------------------------
(***************************************************************************)
(* What configurations have to keep apart for this to be so.               *)
(***************************************************************************)
Specs(r) == Range(Files[r])

DatabasesOf(f) == Range(Service[f.service].dbs)

SpecNames(r, f) ==
  {EngineName(r, f, db) : db \in DatabasesOf(f)} \cup {AppName(r, f)}
    \cup {ProxyName(r, f, type) : type \in HostsOf(f) \cup {"http", "kafka", "grpc", "redis"}}

\* The names a run may use for its containers.
NamesOf(r) ==
  {SharedDB(r), SharedKafka(r)} \cup {MigrateName(r, s) : s \in Services} \cup UNION {SpecNames(r, f) : f \in Specs(r)}

\* No two runs use one name.
NamesApart == \A r, q \in Runs : r # q => NamesOf(r) \cap NamesOf(q) = {}

\* No two specs of a run have one name.
SpecNamesApart == \A r \in Runs : \A f, g \in Specs(r) : f.name = g.name => f = g

\* A MySQL that is not proxied is reached under the alias of the shared one.
MySQLHostNamed ==
  \A s \in Services : \A db \in Range(Service[s].dbs) : db.type = "mysql" /\ ~db.proxied => db.host = "db"

\* A service that may be kept is not found under an alias another one uses.
AliasesApart ==
  \A r \in Runs : \A f, g \in Specs(r) : f.service # g.service /\ canUsePersistentContainers(g) =>
    \A step \in Range(SpecPlan(r, g)) : step.do = "start" => step.aliases \cap AppEnvironment(f) = {}

\* The specs of a service that share containers agree on whether it speaks gRPC.
GRPCAlike ==
  \A r \in Runs : \A f, g \in Specs(r) :
    f.service = g.service /\ canUsePersistentContainers(f) /\ canUsePersistentContainers(g) =>
      NeedsGRPC(f) = NeedsGRPC(g)

=============================================================================
