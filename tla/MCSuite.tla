------------------------------ MODULE MCSuite ------------------------------
(* Two services, two runs; see the configurations. *)
EXTENDS SuiteProperties

CONSTANTS r1, r2, users, orders

DB(host, type) == [host |-> host, type |-> type, proxied |-> TRUE]

Svc(dbs) == [dbs |-> dbs, http |-> {}, grpc |-> {}, redis |-> FALSE, kafka |-> FALSE, migrates |-> TRUE]

Spc(name, service, channel) ==
    [name |-> name, service |-> service, channel |-> channel, events |-> FALSE, grpc |-> FALSE]

MCRuns == {r1, r2}

MCServices == {users, orders}

\* users: a PostgreSQL of its own, a gRPC dependency and Kafka; orders: the
\* shared MySQL.
MCService ==
    (users :> [Svc(<<DB("db", "postgresql")>>) EXCEPT !.grpc = {"mailer"}, !.kafka = TRUE]) @@
    (orders :> Svc(<<DB("orders-db", "mysql")>>))

MCFiles ==
    (r1 :> <<Spc("list", users, "http"), Spc("get", users, "http"), Spc("placed", users, "event")>>) @@
    (r2 :> <<Spc("order", orders, "http")>>)

\* The hypotheses of the theorems hold; foreign_container is where two runs
\* name their database alike.
ASSUME HypothesesAssumption ==
    /\ "database" \notin Explicit => NamesApart
    /\ SpecNamesApart /\ AliasesApart /\ GRPCAlike /\ MySQLHostNamed

=============================================================================
