---------------------------- MODULE MockRegistry ----------------------------
(***************************************************************************)
(* One proxy sidecar serving one test: the shared MockRegistry of          *)
(* pkg/registry and the connections of the service under test, each served *)
(* by a goroutine of its own.  A registry method runs under the registry's *)
(* lock, so each call a handler makes is one step; between two calls of    *)
(* one handler any other handler may run.                                  *)
(***************************************************************************)
EXTENDS Expectations

CONSTANTS
    Conns,        \* client connections, one handler goroutine each
    Requests,     \* what the service may send
    NoRequest,    \* the request of an idle connection
    Seeds,        \* Redis job payloads seeded per queue key
    GRPCUpstream, \* TRUE when the gRPC proxy forwards what it does not mock
    MaxRequests   \* bound on the requests of one test

Protocols == {"POSTGRESQL", "POSTGRESQL_EXTENDED", "MYSQL", "MYSQL_STMT", "ORACLE",
              "MONGODB", "HTTP", "KAFKA", "GRPC", "REDIS", "REDIS_POP"}

ASSUME RequestsAssumption == \A r \in Requests : r.proto \in Protocols
ASSUME SeedsAssumption == Seeds \in [DOMAIN Seeds -> Nat]
ASSUME MaxRequestsAssumption == MaxRequests \in Nat
ASSUME NoRequestAssumption == NoRequest \notin Requests

VARIABLES
    hits,         \* requests each statement was charged with
    hitKeys,      \* the key snapshotted at a statement's first hit
    sql,          \* the SQL field of each statement, which MySQL rewrites
    order,        \* places of the statements in orderedMocks, in ascending order
    seeds,        \* payloads left per queue key
    verifyErrors, \* VERIFY failures: the statement each one names
    passthroughs, \* number of requests recorded as bypassing the mocks
    conn,         \* per connection: the step its handler is at, its request
                  \* and the statement it holds
    prepared,     \* per connection: the statements (their text) that the
                  \* proxy answered the preparation of itself
    log           \* history: requests handled to the end, in order

vars == <<hits, hitKeys, sql, order, seeds, verifyErrors, passthroughs, conn,
          prepared, log>>

NoMock == 0
NoKey  == <<>>
Idle   == [at |-> "idle", req |-> NoRequest, mock |-> NoMock]

Steps == {"idle", "negTables", "negKey", "negHTTP", "negHTTPHost", "negRPC",
          "negRedis", "pop", "findTables", "findKey", "findHTTP",
          "findHTTPHost", "findBody", "findRedis", "rewrite", "verify",
          "passthrough", "forward", "prepare", "refuse"}

Outcomes == {"served", "bypassed", "refused", "seeded"}

TypeOK ==
    /\ hits \in [Mocks -> Nat]
    /\ DOMAIN hitKeys = Mocks /\ DOMAIN sql = Mocks /\ DOMAIN order = Mocks
    /\ seeds \in [DOMAIN Seeds -> Nat]
    /\ verifyErrors \in Seq(Mocks)
    /\ passthroughs \in Nat
    /\ conn \in [Conns -> [at : Steps, req : Requests \cup {NoRequest}, mock : Mocks \cup {NoMock}]]
    /\ prepared \in [Conns -> SUBSET {r.text : r \in Requests}]
    /\ log \in Seq([req : Requests, mock : Mocks \cup {NoMock}, outcome : Outcomes])

(***************************************************************************)
(* A sidecar loads its registry from a file: orderedMocks is rebuilt       *)
(* bucket by bucket in Go's map order, which is any order.                 *)
(***************************************************************************)
Keys == {getExpectKey(i) : i \in Mocks}

LoadedOrders ==
    LET ranks == {f \in [Keys -> 1 .. Cardinality(Keys)] :
                    \A k, l \in Keys : k # l => f[k] # f[l]}
    IN  {[i \in Mocks |-> rank[getExpectKey(i)] * Len(Decl) + i] : rank \in ranks}

Init ==
    /\ hits = [i \in Mocks |-> 0]
    /\ hitKeys = [i \in Mocks |-> NoKey]
    /\ sql = [i \in Mocks |-> Decl[i].sql]
    /\ order \in LoadedOrders
    /\ seeds = Seeds
    /\ verifyErrors = <<>> /\ passthroughs = 0
    /\ conn = [c \in Conns |-> Idle]
    /\ prepared = [c \in Conns |-> {}]
    /\ log = <<>>

-----------------------------------------------------------------------------
Request(c) == conn[c].req
At(c, step) == conn[c].at = step

InFlight == {c \in Conns : ~At(c, "idle")}

\* The handler of c goes on to step, holding mock.
Proceed(c, step, mock) ==
    /\ conn' = [conn EXCEPT ![c] = [at |-> step, req |-> Request(c), mock |-> mock]]
    /\ UNCHANGED log

\* The handler of c answers, or forwards, and reads its next request.
Finish(c, outcome) ==
    /\ conn' = [conn EXCEPT ![c] = Idle]
    /\ log' = Append(log, [req |-> Request(c), mock |-> conn[c].mock, outcome |-> outcome])

\* What became of a request whose handler ends with the statement it holds.
\* The MongoDB proxy forwards a request whose RETURNS file it cannot read.
Outcome(c) ==
    IF \/ conn[c].mock = NoMock
       \/ Request(c).proto = "MONGODB" /\ Decl[conn[c].mock].unreadable
    THEN "bypassed" ELSE "served"

recordHit(i) ==
    /\ hits' = [hits EXCEPT ![i] = @ + 1]
    /\ hitKeys' = [hitKeys EXCEPT ![i] = IF hits[i] = 0 THEN mockHitKey(i, sql[i]) ELSE @]

\* Every EXPECT_NOT in S is charged with the request.
RecordNegatives(S) ==
    /\ hits' = [i \in Mocks |-> IF i \in S THEN hits[i] + 1 ELSE hits[i]]
    /\ hitKeys' = [i \in Mocks |-> IF i \in S /\ hits[i] = 0
                                   THEN mockHitKey(i, sql[i]) ELSE hitKeys[i]]
    /\ UNCHANGED <<sql, order, seeds, verifyErrors, passthroughs, prepared>>

\* A successful lookup: the statement is consumed, its WITH payload checked.
Consume(c, i, step, failed) ==
    /\ recordHit(i)
    /\ verifyErrors' = IF failed THEN Append(verifyErrors, i) ELSE verifyErrors
    /\ Proceed(c, step, i)
    /\ UNCHANGED <<sql, order, seeds, passthroughs, prepared>>

\* mutant: a lookup without a rejection starts a new list of errors
MissAfresh(c, rejected, step) ==
    /\ \/ rejected = {} /\ verifyErrors' = <<>>
       \/ \E i \in rejected : verifyErrors' = Append(verifyErrors, i)
    /\ Proceed(c, step, NoMock)
    /\ UNCHANGED <<hits, hitKeys, sql, order, seeds, passthroughs, prepared>>

\* A failed lookup: the first rejection, if any, becomes a VERIFY error.
Miss(c, rejected, step) ==
    /\ \/ rejected = {} /\ UNCHANGED verifyErrors
       \/ \E i \in rejected : verifyErrors' = Append(verifyErrors, i)
    /\ Proceed(c, step, NoMock)
    /\ UNCHANGED <<hits, hitKeys, sql, order, seeds, passthroughs, prepared>>

-----------------------------------------------------------------------------
(***************************************************************************)
(* A handler reads a request.  Where it starts is the first call its       *)
(* protocol's handler makes on the registry.  A statement that was prepared *)
(* locally may be executed again without being prepared again.             *)
(***************************************************************************)
FirstStep(p) ==
    CASE p \in {"POSTGRESQL", "MYSQL"} -> "negTables"
      [] p \in {"POSTGRESQL_EXTENDED", "MYSQL_STMT"} -> "prepare"
      [] p = "ORACLE"  -> "findTables"
      [] p = "MONGODB" -> "findKey"
      [] p = "HTTP"    -> "negHTTP"
      [] p = "KAFKA"   -> "negKey"
      [] p = "GRPC"    -> "negRPC"
      [] p = "REDIS"   -> "negRedis"
      [] p = "REDIS_POP" -> "pop"

IsPrepared(q) == q.proto \in {"POSTGRESQL_EXTENDED", "MYSQL_STMT"}

PreparedHere(c, q) == IsPrepared(q) /\ q.text \in prepared[c]

Receive(c, r) ==
    /\ At(c, "idle")
    /\ Len(log) + Cardinality(InFlight) < MaxRequests
    /\ \E step \in {FirstStep(r.proto)} \cup (IF PreparedHere(c, r) THEN {"negTables"} ELSE {}) :
          conn' = [conn EXCEPT ![c] = [at |-> step, req |-> r, mock |-> NoMock]]
    /\ UNCHANGED <<hits, hitKeys, sql, order, seeds, verifyErrors, passthroughs,
                   prepared, log>>

\* mutant: a query over known tables is not checked by its text
CheckNegativeTablesOnly(c) ==
    /\ At(c, "negTables")
    /\ RecordNegatives(CheckNegativeMocksByTables(Request(c)))
    /\ IF Request(c).proto = "ORACLE" THEN Finish(c, Outcome(c)) ELSE Proceed(c, "findTables", NoMock)

\* EXPECT_NOT checks.  The SQL proxies make both, the semantic one first.
CheckNegativeTables(c) ==
    /\ At(c, "negTables")
    /\ RecordNegatives(CheckNegativeMocksByTables(Request(c)))
    /\ IF Request(c).proto = "ORACLE" THEN Finish(c, Outcome(c)) ELSE Proceed(c, "negKey", NoMock)

CheckNegativeKey(c) ==
    /\ At(c, "negKey")
    /\ RecordNegatives(CheckNegativeMocks(Request(c)))
    /\ CASE Request(c).proto = "MONGODB" -> Finish(c, Outcome(c))
         [] Request(c).proto = "KAFKA"   -> Proceed(c, "findBody", NoMock)
         [] OTHER                        -> Proceed(c, "findTables", NoMock)

CheckNegativeHTTP(c) ==
    \/ /\ At(c, "negHTTP")
       /\ RecordNegatives(CheckNegativeHTTPMocks(Request(c).path, Request(c)))
       /\ Proceed(c, "negHTTPHost", NoMock)
    \/ /\ At(c, "negHTTPHost")
       /\ RecordNegatives(CheckNegativeHTTPMocks(Request(c).key, Request(c)))
       /\ Proceed(c, "findHTTP", NoMock)

CheckNegativeRPC(c) ==
    \/ /\ At(c, "negRPC")
       /\ RecordNegatives(CheckNegativeGRPCMocks(Request(c)))
       /\ Proceed(c, "findBody", NoMock)
    \/ /\ At(c, "negRedis")
       /\ RecordNegatives(CheckNegativeRedisMocks(Request(c)))
       /\ Proceed(c, "findRedis", NoMock)

(***************************************************************************)
(* Prepared statements: MySQL's COM_STMT_PREPARE and PostgreSQL's Parse    *)
(* only peek.  With a statement that could serve it, the proxy answers     *)
(* itself.  Otherwise MySQL forwards it, and later its executions,         *)
(* without looking at either again, while PostgreSQL still intercepts the  *)
(* Bind.  PostgreSQL also needs the parameter types, which it may not be   *)
(* able to resolve.                                                        *)
(***************************************************************************)
PeekStatement(q) ==
    (IF q.proto = "MYSQL_STMT" THEN PeekMockByTables(hits, q) ELSE PeekMockByTablesShape(hits, q))
      \cup PeekMock(hits, order, q)

Prepare(c) ==
    /\ At(c, "prepare")
    /\ LET q == Request(c) IN
       \/ /\ PeekStatement(q) # {}
          /\ prepared' = [prepared EXCEPT ![c] = @ \cup {q.text}]
          /\ Proceed(c, "negTables", NoMock)
       \/ /\ q.proto = "MYSQL_STMT" /\ PeekStatement(q) = {}
          /\ Finish(c, "bypassed")
          /\ UNCHANGED prepared
       \/ /\ q.proto = "POSTGRESQL_EXTENDED"
          /\ prepared' = [prepared EXCEPT ![c] = @ \ {q.text}]
          /\ Proceed(c, "negTables", NoMock)
    /\ UNCHANGED <<hits, hitKeys, sql, order, seeds, verifyErrors, passthroughs>>

-----------------------------------------------------------------------------
(***************************************************************************)
(* Lookups, each one registry call.                                        *)
(***************************************************************************)
IsMySQL(q) == q.proto \in {"MYSQL", "MYSQL_STMT"}

AfterSQLMatchDone(q) ==   \* mutant: a MongoDB request that was served is not checked
    IF IsMySQL(q) THEN "rewrite" ELSE "verify"

AfterSQLMatch(q) ==
    CASE IsMySQL(q) -> "rewrite" [] q.proto = "MONGODB" -> "negKey" [] OTHER -> "verify"

AfterSQLMiss(c, q) == IF PreparedHere(c, q) THEN "refuse" ELSE "passthrough"

FindByTables(c) ==
    /\ At(c, "findTables")
    /\ LET q == Request(c)  found == FindMockByTables(hits, q) IN
       \/ \E i \in found : Consume(c, i, AfterSQLMatch(q), PayloadFails(i, q))
       \/ /\ found = {}
          /\ Miss(c, First(RejectedByTables(hits, q)),
                  IF q.proto = "ORACLE" THEN "negTables" ELSE "findKey")

FindByKey(c) ==
    /\ At(c, "findKey")
    /\ LET q == Request(c)  found == FindMock(hits, order, q) IN
       \/ \E i \in found : Consume(c, i, AfterSQLMatch(q), PayloadFails(i, Unbound(q)))
       \/ found = {} /\ Miss(c, FirstRejectedByKey(hits, order, q), AfterSQLMiss(c, q))

\* The HTTP proxy tries the path, then the absolute url.
FindHTTP(c) ==
    \/ /\ At(c, "findHTTP")
       /\ LET found == FindHTTPMockWithBody(hits, Request(c).path, Request(c)) IN
          \/ \E i \in found : Consume(c, i, "verify", FALSE)
          \/ found = {} /\ Miss(c, {}, "findHTTPHost")
    \/ /\ At(c, "findHTTPHost")
       /\ LET found == FindHTTPMockWithBody(hits, Request(c).key, Request(c)) IN
          \/ \E i \in found : Consume(c, i, "verify", FALSE)
          \/ found = {} /\ Miss(c, {}, "passthrough")

FindRPC(c) ==
    /\ At(c, "findBody")
    /\ LET r == Request(c)
           found == IF r.proto = "KAFKA" THEN FindKafkaMockWithBody(hits, r)
                    ELSE FindGRPCMockWithBody(hits, r)
       IN  \/ \E i \in found : Consume(c, i, "verify", FALSE)
           \/ found = {} /\ Miss(c, {}, IF r.proto = "GRPC" /\ GRPCUpstream
                                        THEN "forward" ELSE "passthrough")

\* mutant: the queue is not tested for emptiness
PopSeedUnchecked(c) ==
    /\ At(c, "pop")
    /\ seeds' = [seeds EXCEPT ![Request(c).queue] = @ - 1]
    /\ Finish(c, "seeded")
    /\ UNCHANGED <<hits, hitKeys, sql, order, verifyErrors, passthroughs, prepared>>

\* A pop command takes a seeded payload before any mock is consulted.
PopSeed(c) ==
    /\ At(c, "pop")
    /\ LET k == Request(c).queue IN
       \/ /\ k \in DOMAIN seeds /\ seeds[k] > 0
          /\ seeds' = [seeds EXCEPT ![k] = @ - 1]
          /\ Finish(c, "seeded")
       \/ /\ ~ (k \in DOMAIN seeds /\ seeds[k] > 0)
          /\ Proceed(c, "negRedis", NoMock)
          /\ UNCHANGED seeds
    /\ UNCHANGED <<hits, hitKeys, sql, order, verifyErrors, passthroughs, prepared>>

FindRedis(c) ==
    /\ At(c, "findRedis")
    /\ LET r == Request(c)  found == FindRedisMock(hits, r) IN
       \/ \E i \in found : Consume(c, i, "verify", FALSE)
       \/ found = {} /\ Miss(c, {}, IF r.proto = "REDIS_POP" THEN "refuse" ELSE "passthrough")

-----------------------------------------------------------------------------
(***************************************************************************)
(* What follows a lookup.                                                  *)
(***************************************************************************)
\* MySQL stores the statement it matched in the mock, outside the lock.
RewriteSQL(c) ==
    /\ At(c, "rewrite")
    /\ LET i == conn[c].mock
           bare == /\ sql[i] = "" /\ Decl[i].tables = {}
                   /\ Request(c).proto = "MYSQL_STMT" \/ Decl[i].contains = ""
       IN  sql' = IF bare THEN [sql EXCEPT ![i] = Request(c).text] ELSE sql
    /\ Proceed(c, "verify", conn[c].mock)
    /\ UNCHANGED <<hits, hitKeys, order, seeds, verifyErrors, passthroughs, prepared>>

Verify(c) ==
    /\ At(c, "verify")
    /\ verifyErrors' = IF VerifyHolds(conn[c].mock, Request(c)) THEN verifyErrors
                       ELSE Append(verifyErrors, conn[c].mock)
    /\ IF Request(c).proto = "ORACLE" THEN Proceed(c, "negTables", conn[c].mock)
       ELSE Finish(c, "served")
    /\ UNCHANGED <<hits, hitKeys, sql, order, seeds, passthroughs, prepared>>

\* mutant: a produce request, which is acknowledged anyway, is not recorded
RecordForwarded(c) ==
    /\ At(c, "passthrough")
    /\ passthroughs' = IF Request(c).proto = "KAFKA" THEN passthroughs ELSE passthroughs + 1
    /\ IF Request(c).proto = "MONGODB" THEN Proceed(c, "negKey", NoMock)
       ELSE Finish(c, "bypassed")
    /\ UNCHANGED <<hits, hitKeys, sql, order, seeds, verifyErrors, prepared>>

RecordPassthrough(c) ==
    /\ At(c, "passthrough")
    /\ passthroughs' = passthroughs + 1
    /\ IF Request(c).proto = "MONGODB" THEN Proceed(c, "negKey", NoMock)
       ELSE Finish(c, "bypassed")
    /\ UNCHANGED <<hits, hitKeys, sql, order, seeds, verifyErrors, prepared>>

\* The gRPC upstream answers, or cannot be reached; only an answer is recorded.
ForwardToUpstream(c) ==
    /\ At(c, "forward")
    /\ \E answered \in BOOLEAN :
          passthroughs' = IF answered THEN passthroughs + 1 ELSE passthroughs
    /\ Finish(c, "bypassed")
    /\ UNCHANGED <<hits, hitKeys, sql, order, seeds, verifyErrors, prepared>>

\* An error, or an empty queue, is answered; nothing reaches a real service.
Refuse(c) ==
    /\ At(c, "refuse")
    /\ Finish(c, "refused")
    /\ UNCHANGED <<hits, hitKeys, sql, order, seeds, verifyErrors, passthroughs, prepared>>

Handle(c) ==
    \/ CheckNegativeTables(c) \/ CheckNegativeKey(c)
    \/ CheckNegativeHTTP(c) \/ CheckNegativeRPC(c)
    \/ Prepare(c) \/ FindByTables(c) \/ FindByKey(c) \/ FindHTTP(c)
    \/ FindRPC(c) \/ PopSeed(c) \/ FindRedis(c)
    \/ RewriteSQL(c) \/ Verify(c)
    \/ RecordPassthrough(c) \/ ForwardToUpstream(c) \/ Refuse(c)

Next == \E c \in Conns : Handle(c) \/ \E r \in Requests : Receive(c, r)

Spec == Init /\ [][Next]_vars

-----------------------------------------------------------------------------
(***************************************************************************)
(* What the runner reads off a registry: the key each hit is reported      *)
(* under, and the verdict.                                                 *)
(***************************************************************************)
KeyNow(i) == mockHitKey(i, sql[i])   \* mutant: computed when the hits are read

ReportedKey(i) == hitKeys[i]

VerifyAll ==
    /\ verifyErrors = <<>>
    /\ \A i \in Mocks : IF Decl[i].negative THEN hits[i] = 0 ELSE hits[i] > 0

VerifyPassthroughs(strict) == strict => passthroughs = 0
=============================================================================
