------------------------- MODULE RegistryProperties -------------------------
(***************************************************************************)
(* What must hold of a mock registry while the service under test sends    *)
(* its requests, over any number of connections at once.                   *)
(***************************************************************************)
EXTENDS MockRegistry

Expects    == {i \in Mocks : ~Decl[i].negative}
ExpectNots == {i \in Mocks : Decl[i].negative}

Handled == {log[n] : n \in DOMAIN log}

\* Requests that were given a statement, the ones still in flight included.
Pairings ==
    {[req |-> e.req, mock |-> e.mock] : e \in {e \in Handled : e.mock # NoMock}}
      \cup {[req |-> conn[c].req, mock |-> conn[c].mock] :
                c \in {c \in Conns : conn[c].mock # NoMock}}

IsSemantic(i) ==
    Decl[i].tables # {} /\ Decl[i].channel \in ReadSQL \cup WriteSQL \cup Oracle

-----------------------------------------------------------------------------
(***************************************************************************)
(* Where a handler can be while it holds a statement: what makes the type  *)
(* invariant and the properties below inductive.                           *)
(***************************************************************************)
MayHold(step, r) ==
    \/ step \in {"rewrite", "verify"}
    \/ step = "negKey" /\ r.proto = "MONGODB"
    \/ step = "negTables" /\ r.proto = "ORACLE"

HandlerOK(h) ==
    \/ h = Idle
    \/ /\ h.at # "idle" /\ h.req \in Requests
       /\ h.at \in {"rewrite", "verify"} => h.mock # NoMock
       /\ h.mock # NoMock => h.mock \in Expects /\ MayHold(h.at, h.req)

HandlerInv == \A c \in Conns : HandlerOK(conn[c])

(***************************************************************************)
(* However the handlers interleave, no two requests are served from one    *)
(* EXPECT, and its hit counter says exactly whether one was: findMockLocked, *)
(* FindMockByTables and their siblings test and count under one lock.      *)
(***************************************************************************)
ExpectsSpentOnce ==
    /\ \A c, d \in Conns : conn[c].mock # NoMock /\ conn[c].mock = conn[d].mock => c = d
    /\ \A m, n \in DOMAIN log : log[m].mock # NoMock /\ log[m].mock = log[n].mock => m = n
    /\ \A c \in Conns, n \in DOMAIN log :
          conn[c].mock # NoMock => conn[c].mock # log[n].mock
    /\ \A i \in Expects : hits[i] = IF \E p \in Pairings : p.mock = i THEN 1 ELSE 0

(***************************************************************************)
(* A statement with ACCESSING_TABLES only ever serves a query over exactly *)
(* its tables that satisfies its VERIFY_* clauses, whichever of the two    *)
(* matchers found it ("re-matching them here would bypass their VERIFY_*   *)
(* constraints", findMockLocked).                                          *)
(***************************************************************************)
ServedAsDeclared ==
    \A p \in Pairings :
        IsSemantic(p.mock) =>
            /\ Decl[p.mock].tables = p.req.tables
            /\ matchesSemanticConstraints(p.mock, p.req)

(***************************************************************************)
(* Specificity wins, then the lowest CALL N: a statement that is still     *)
(* unspent would not have been the better match for any query that was     *)
(* served, so a general EXPECT never takes the query of a specific one and *)
(* CALL 2 never runs ahead of CALL 1.                                      *)
(***************************************************************************)
BetterMatch(j, i) ==
    \/ semanticSpecificity(j) > semanticSpecificity(i)
    \/ /\ semanticSpecificity(j) = semanticSpecificity(i)
       /\ Decl[j].callN > 0
       /\ Decl[i].callN = 0 \/ Decl[j].callN < Decl[i].callN

BestMatchServed ==
    \A p \in Pairings :
        IsSemantic(p.mock) =>
            \A j \in TableCandidates(hits, p.req) :
                matchesSemanticConstraints(j, p.req) => ~BetterMatch(j, p.mock)

(***************************************************************************)
(* "Test fails if the forbidden operation is detected": by the time a      *)
(* request was answered or forwarded, every EXPECT_NOT it breaks has been  *)
(* charged, whether a mock served it or not.  (Not so a MySQL statement    *)
(* that was forwarded when it was prepared: nothing looks at it again.)    *)
(***************************************************************************)
Forbidding(r) ==
    CASE r.proto = "HTTP"  -> CheckNegativeHTTPMocks(r.path, r) \cup CheckNegativeHTTPMocks(r.key, r)
      [] r.proto = "GRPC"  -> CheckNegativeGRPCMocks(r)
      [] r.proto \in {"REDIS", "REDIS_POP"} -> CheckNegativeRedisMocks(r)
      [] r.proto \in {"KAFKA", "MONGODB"}   -> CheckNegativeMocks(r)
      [] r.proto = "ORACLE" -> CheckNegativeMocksByTables(r)
      [] OTHER -> CheckNegativeMocksByTables(r) \cup CheckNegativeMocks(r)

NegativesReported ==
    \A e \in Handled :
        /\ e.outcome # "seeded"
        /\ ~ (e.req.proto = "MYSQL_STMT" /\ e.outcome = "bypassed")
        => \A i \in Forbidding(e.req) : hits[i] > 0

ReceivedRequests ==
    {e.req : e \in Handled} \cup {conn[c].req : c \in InFlight}

(***************************************************************************)
(* The runner looks a statement's hits up under the key it computes from   *)
(* its own copy of the spec, which never sees what the MySQL proxy stores  *)
(* in the sidecar's copy.                                                  *)
(***************************************************************************)
ReportedUnderHostKey ==
    \A i \in Mocks : hits[i] > 0 => ReportedKey(i) = mockHitKey(i, Decl[i].sql)

(***************************************************************************)
(* strict_passthrough fails a test on "any unmatched proxy interaction":   *)
(* the passthroughs recorded are the requests no mock answered, one each,  *)
(* however the handlers interleave.  Some proxies let requests by without  *)
(* recording them; a gRPC upstream is recorded if it answers.              *)
(***************************************************************************)
RecordedEarly == {c \in Conns : At(c, "negKey") /\ Request(c).proto = "MONGODB"
                                                /\ conn[c].mock = NoMock}

Unrecorded(e) ==
    e.req.proto \in {"MYSQL_STMT", "ORACLE"} \/ (e.req.proto = "MONGODB" /\ e.mock # NoMock)

Uncertain(e) == e.req.proto = "GRPC" /\ GRPCUpstream

Bypasses        == {n \in DOMAIN log : log[n].outcome = "bypassed" /\ ~Unrecorded(log[n])}
CertainBypasses == {n \in Bypasses : ~Uncertain(log[n])}

BypassesRecorded ==
    LET early == Cardinality(RecordedEarly)
    IN  /\ Cardinality(CertainBypasses) + early <= passthroughs
        /\ passthroughs <= Cardinality(Bypasses) + early

(***************************************************************************)
(* "Arrival order must not decide the pairing": when the requests of a     *)
(* fan-out are each described by an EXPECT of their own, no order of       *)
(* arrival makes one of them fail.                                         *)
(***************************************************************************)
OnPath(r) == HTTPCandidates([i \in Mocks |-> 0], r.path, r)
OnUrl(r)  == HTTPCandidates([i \in Mocks |-> 0], r.key, r)

\* The lookup that reaches r finds i, whose VERIFY rules no other request keeps.
IsOwn(i, r) ==
    /\ i \in (IF OnPath(r) # {} THEN OnPath(r) ELSE OnUrl(r))
    /\ VerifyHolds(i, r)
    /\ \A q \in Requests :
          q.proto = "HTTP" /\ i \in OnPath(q) \cup OnUrl(q) /\ VerifyHolds(i, q) => q = r

EachHasItsOwn ==
    \A r \in Requests :
        r.proto = "HTTP" /\ OnPath(r) \cup OnUrl(r) # {} => \E i \in Mocks : IsOwn(i, r)

ArrivalOrderIrrelevant ==
    /\ \A r \in ReceivedRequests : r.proto = "HTTP"
    /\ Cardinality(ReceivedRequests) = Len(log) + Cardinality(InFlight)
    => verifyErrors = <<>>

-----------------------------------------------------------------------------
(***************************************************************************)
(* The registry and its proxies implement the ledger of ExpectLedger,      *)
(* where a statement describes the requests its own channel, or its tables,*)
(* can stand for, whichever lookup of whichever proxy found it.            *)
(***************************************************************************)
DescribesQuery(i, q) ==
    /\ mockMatchesDatabase(i, q.db)
    /\ \/ /\ Decl[i].tables # {} /\ Decl[i].tables = q.tables
          /\ matchesSemanticConstraints(i, q)
       \/ /\ ~IsSemantic(i) /\ legacyVerifyHolds(i, q)
          /\ TextMatches(i, q) \/ (getExpectKey(i) = {q.key} /\ ~HasText(i) /\ VerbMatches(i, q))

Fits(i, r) ==
    CASE r.proto = "HTTP" ->
           /\ Decl[i].channel = "HTTP" /\ getExpectKey(i) \in {{r.path}, {r.key}}
           /\ Decl[i].method \in {"", r.method} /\ Decl[i].headers \subseteq r.headers
           /\ BodyMatches(i, r)
      [] r.proto = "KAFKA" ->
           Decl[i].channel = "EVENT" /\ getExpectKey(i) = {r.key} /\ BodyMatches(i, r)
      [] r.proto = "GRPC" ->
           Decl[i].channel = "GRPC" /\ getExpectKey(i) = {r.key} /\ BodyMatches(i, r)
      [] r.proto \in {"REDIS", "REDIS_POP"} ->
           Decl[i].channel \in Redis /\ getExpectKey(i) = {r.key}
      [] OTHER -> DescribesQuery(i, r)

OwnerOf(i) ==
    IF \E p \in Pairings : p.mock = i
    THEN (CHOOSE p \in Pairings : p.mock = i).req ELSE NoRequest

Ledger == INSTANCE ExpectLedger WITH
    Describes <- Fits,
    owner  <- [i \in Expects |-> OwnerOf(i)],
    broken <- {i \in ExpectNots : hits[i] > 0},
    failed <- verifyErrors # <<>>

LedgerSpec == Ledger!Spec
=============================================================================
