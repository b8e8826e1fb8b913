----------------------------- MODULE MCRegistry -----------------------------
(***************************************************************************)
(* Specs and requests for model checking MockRegistry: each pair Decl /    *)
(* Requests below is one test, small enough to explore every interleaving  *)
(* of its requests over two connections.                                   *)
(***************************************************************************)
EXTENDS RegistryProperties, TLC

BlankStatement ==
    [negative |-> FALSE, callN |-> 0, channel |-> "", resource |-> "", tables |-> {},
     database |-> "", method |-> "", headers |-> {}, sql |-> "", contains |-> "",
     op |-> "", cols |-> {}, where |-> <<>>, written |-> <<>>, with |-> "",
     payload |-> <<>>, verify |-> {}, unreadable |-> FALSE]

BlankRequest ==
    [proto |-> "", db |-> "", tables |-> {}, key |-> "", text |-> "", fragments |-> {},
     verb |-> "", mentions |-> {}, op |-> "", cols |-> {}, where |-> <<>>,
     written |-> <<>>, bound |-> {}, path |-> "", method |-> "", headers |-> {},
     body |-> "", holds |-> {}, queue |-> ""]

Statement(f) == f @@ BlankStatement
Request_(f)  == f @@ BlankRequest

NoSeeds == <<>>

Symmetry == Permutations(Conns)

-----------------------------------------------------------------------------
(***************************************************************************)
(* A PostgreSQL service: general and specific EXPECTs over one table, a    *)
(* CALL sequence, a payload, a legacy EXPECT and EXPECT_NOTs of each kind. *)
(***************************************************************************)
Select(t) == [channel |-> "READ_POSTGRESQL", tables |-> t]

SqlDecl == <<
    Statement(Select({"users"})),
    Statement(Select({"users"}) @@ [where |-> [id |-> "1"]]),
    Statement([channel |-> "WRITE_POSTGRESQL", tables |-> {"orders"}, op |-> "INSERT", callN |-> 2]),
    Statement([channel |-> "WRITE_POSTGRESQL", tables |-> {"orders"}, op |-> "INSERT", callN |-> 1,
               with |-> "order.yaml", payload |-> [total |-> "10"]]),
    Statement([channel |-> "READ_POSTGRESQL", resource |-> "orders"]),
    Statement([channel |-> "WRITE_POSTGRESQL", resource |-> "users", negative |-> TRUE]),
    Statement(Select({"users", "orders"}) @@ [negative |-> TRUE])>>

ReadUser(proto, id) ==
    Request_([proto |-> proto, db |-> "main", tables |-> {"users"}, key |-> "users",
              text |-> "select user", verb |-> "SELECT", mentions |-> {"users"},
              op |-> "SELECT", cols |-> {"id"}, where |-> [id |-> id],
              bound |-> IF proto = "POSTGRESQL_EXTENDED" THEN {"id"} ELSE {}])

WriteOrder(total) ==
    Request_([proto |-> "POSTGRESQL", db |-> "main", tables |-> {"orders"}, key |-> "orders",
              text |-> "insert order", verb |-> "INSERT", mentions |-> {"orders"},
              op |-> "INSERT", written |-> [total |-> total]])

ReadJoin ==
    Request_([proto |-> "POSTGRESQL", db |-> "main", tables |-> {"users", "orders"},
              key |-> "users", text |-> "select join", verb |-> "SELECT",
              mentions |-> {"users", "orders"}, op |-> "SELECT"])

ReadOrders ==
    Request_([proto |-> "POSTGRESQL", db |-> "main", tables |-> {"orders"}, key |-> "orders",
              text |-> "select orders", verb |-> "SELECT", mentions |-> {"orders"}, op |-> "SELECT"])

DeleteUser ==
    Request_([proto |-> "POSTGRESQL", db |-> "main", tables |-> {"users"}, key |-> "users",
              text |-> "delete user", verb |-> "DELETE", mentions |-> {"users"}, op |-> "DELETE"])

SqlRequests ==
    {ReadUser("POSTGRESQL", "1"), ReadUser("POSTGRESQL_EXTENDED", "2"), WriteOrder("11"),
     ReadJoin, ReadOrders, DeleteUser}

-----------------------------------------------------------------------------
(***************************************************************************)
(* A fan-out over HTTP: three EXPECTs on one endpoint told apart by VERIFY *)
(* rules, one on the absolute url, one forbidden method.                   *)
(***************************************************************************)
Post(rules) == Statement([channel |-> "HTTP", resource |-> "/generate", method |-> "POST",
                          verify |-> rules])

FanOutDecl == <<
    Post({"first"}), Post({"second"}), Post({"third"}),
    Statement([channel |-> "HTTP", resource |-> "http://host/generate", method |-> "PUT",
               with |-> "put.json"]),
    Statement([channel |-> "HTTP", resource |-> "http://host/generate", method |-> "DELETE",
               negative |-> TRUE])>>

Call(method, body, rules) ==
    Request_([proto |-> "HTTP", path |-> "/generate", key |-> "http://host/generate",
              method |-> method, body |-> body, holds |-> rules])

FanOutRequests ==
    {Call("POST", "", {"first"}), Call("POST", "", {"second"}), Call("POST", "", {"third"}),
     Call("PUT", "put.json", {}), Call("PUT", "", {}), Call("DELETE", "", {})}

-----------------------------------------------------------------------------
(***************************************************************************)
(* Kafka, gRPC, Redis and MongoDB.                                         *)
(***************************************************************************)
MessageDecl == <<
    Statement([channel |-> "EVENT", resource |-> "audit", with |-> "audit.json",
               verify |-> {"actor"}]),
    Statement([channel |-> "GRPC", resource |-> "Users/Get"]),
    Statement([channel |-> "READ_REDIS", resource |-> "GET:k"]),
    Statement([channel |-> "READ_MONGODB", tables |-> {"logs"}, op |-> "FIND"]),
    Statement([channel |-> "EVENT", resource |-> "audit", negative |-> TRUE]),
    Statement([channel |-> "READ_MONGODB", resource |-> "logs", negative |-> TRUE]),
    Statement([channel |-> "READ_REDIS", resource |-> "GET:k", negative |-> TRUE])>>

Produce(body, rules) ==
    Request_([proto |-> "KAFKA", key |-> "audit", body |-> body, holds |-> rules])

Mongo_(command, collection) ==
    Request_([proto |-> "MONGODB", db |-> "shop", key |-> collection, text |-> command,
              verb |-> command, op |-> command])

MessageRequests ==
    {Produce("audit.json", {"actor"}), Produce("audit.json", {}), Produce("other", {}),
     Request_([proto |-> "GRPC", key |-> "Users/Get"]),
     Request_([proto |-> "REDIS", key |-> "GET:k"]),
     Request_([proto |-> "REDIS_POP", key |-> "BRPOP:jobs", queue |-> "jobs"]),
     Mongo_("FIND", "logs"), Mongo_("INSERT", "logs")}

MessageSeeds == [jobs |-> 1]

-----------------------------------------------------------------------------
(***************************************************************************)
(* The proxies that let requests by unrecorded: MySQL prepared statements, *)
(* Oracle, gRPC with an upstream, a MongoDB mock without its RETURNS file. *)
(***************************************************************************)
MixedDecl == <<
    Statement([channel |-> "READ_MYSQL", resource |-> "people"]),
    Statement([channel |-> "READ_MYSQL", resource |-> "people", contains |-> "limit 1"]),
    Statement([channel |-> "READ_MYSQL", tables |-> {"people"}, where |-> [id |-> Present]]),
    Statement([channel |-> "WRITE_ORACLE", tables |-> {"stock"}, verify |-> {"qty"}]),
    Statement([channel |-> "WRITE_MONGODB", resource |-> "logs", unreadable |-> TRUE]),
    Statement([channel |-> "READ_MYSQL", resource |-> "people", sql |-> "select all",
               negative |-> TRUE]),
    Statement([channel |-> "WRITE_MONGODB", resource |-> "logs", negative |-> TRUE])>>

Query(proto, text, where, fragments) ==
    Request_([proto |-> proto, db |-> "main", tables |-> {"people"}, key |-> "people",
              text |-> text, fragments |-> fragments, verb |-> "SELECT",
              mentions |-> {"people"}, op |-> "SELECT", cols |-> DOMAIN where, where |-> where])

Stock(op, rules) ==
    Request_([proto |-> "ORACLE", db |-> "main", tables |-> {"stock"}, key |-> "stock",
              text |-> "stock", verb |-> op, mentions |-> {"stock"}, op |-> op,
              holds |-> rules])

MixedRequests ==
    {Query("MYSQL", "select one", [id |-> "1"], {"limit 1"}), Query("MYSQL", "select all", <<>>, {}),
     Query("MYSQL_STMT", "select bound", [id |-> Present], {"limit 1"}),
     Query("MYSQL_STMT", "select all", <<>>, {}),
     Stock("UPDATE", {}), Stock("SELECT", {}), Mongo_("INSERT", "logs"),
     Request_([proto |-> "GRPC", key |-> "Users/Get"])}

-----------------------------------------------------------------------------
(***************************************************************************)
(* Two families of statements share a registry, and a test sends requests  *)
(* of one of them: those whose buckets were loaded first.  The buckets of  *)
(* the others stand in one order, which no request can tell from another.  *)
(***************************************************************************)
IsExpect(d)    == ~d.negative
IsExpectNot(d) == d.negative

\* EXPECTs are registered first.
Together(a, b) ==
    SelectSeq(a, IsExpect) \o SelectSeq(b, IsExpect)
        \o SelectSeq(a, IsExpectNot) \o SelectSeq(b, IsExpectNot)

ProxyDecl     == Together(SqlDecl, MixedDecl)
ProxyRequests == SqlRequests \cup MixedRequests

MessagingDecl     == Together(FanOutDecl, MessageDecl)
MessagingRequests == FanOutRequests \cup MessageRequests

\* The fan-out is one whose pairing must not depend on the order of arrival.
ASSUME FanOutIsDisjoint == EachHasItsOwn

Of(channels) == {i \in Mocks : Decl[i].channel \in channels}
Leading(S)   == {i \in S : \A j \in S : getExpectKey(j) = getExpectKey(i) => i <= j}

PostgreSQL  == Of({"READ_POSTGRESQL", "WRITE_POSTGRESQL"})
HTTP        == Of({"HTTP"})
LeadingSQL  == Leading(PostgreSQL)
LeadingHTTP == Leading(HTTP)
LeadingRest == Leading(Mocks \ (PostgreSQL \cup HTTP))

InOrder(S)  == \A i, j \in S : i < j => order[i] < order[j]
Apart(S, T) == \A i \in S, j \in T : order[i] < order[j]
Loaded(S, T) == Apart(S, T) /\ InOrder(T)

\* PostgreSQL or the proxies that let requests by.
ProxyInit == Init /\ (Loaded(LeadingSQL, LeadingRest) \/ Loaded(LeadingRest, LeadingSQL))

ProxyNext ==
    \E c \in Conns :
        \/ Handle(c)
        \/ \E r \in IF Apart(LeadingSQL, LeadingRest) THEN SqlRequests ELSE MixedRequests :
               Receive(c, r)

ProxySpec == ProxyInit /\ [][ProxyNext]_vars

\* HTTP, a fan-out of four, or the other messages, in threes.
MessagingInit == Init /\ (Loaded(LeadingHTTP, LeadingRest) \/ Loaded(LeadingRest, LeadingHTTP))

MessagingNext ==
    \E c \in Conns :
        \/ Handle(c)
        \/ IF Apart(LeadingHTTP, LeadingRest)
           THEN \E r \in FanOutRequests : Receive(c, r)
           ELSE /\ Len(log) + Cardinality(InFlight) < 3
                /\ \E r \in MessageRequests : Receive(c, r)

MessagingSpec == MessagingInit /\ [][MessagingNext]_vars
=============================================================================
