---------------------------- MODULE Expectations ----------------------------
(***************************************************************************)
(* How an intercepted request is paired with the EXPECT and EXPECT_NOT     *)
(* statements of a spec: the pure part of pkg/registry.  A statement is a  *)
(* record with the fields of types.ExpectStatement that matching reads; a  *)
(* request is a record of what a proxy extracts from the wire.  ""  is Go's *)
(* zero string, an empty function (<<>>) its nil map.                      *)
(*                                                                         *)
(* Every lookup takes h, the hit counters at the time it is made, and      *)
(* returns the SET of statements it picks: empty when nothing matches, one *)
(* statement otherwise (the ties of the code are broken by declaration     *)
(* order, so a pick is unique).                                            *)
(***************************************************************************)
EXTENDS Integers, Sequences, FiniteSets

CONSTANT Decl   \* the statements of the spec, EXPECTs first, as registered

Present == "PRESENT"

Mocks == 1 .. Len(Decl)

(***************************************************************************)
(* Register appends the EXPECTs and then the EXPECT_NOTs, marking the      *)
(* latter Negative; CALL N is a count, 0 when the statement has none.      *)
(***************************************************************************)
ASSUME DeclAssumption ==
    /\ Len(Decl) \in Nat
    /\ \A i \in Mocks : Decl[i].negative \in BOOLEAN /\ Decl[i].callN \in Nat
    /\ \A i, j \in Mocks : i < j /\ Decl[i].negative => Decl[j].negative

-----------------------------------------------------------------------------
(***************************************************************************)
(* Channels.                                                               *)
(***************************************************************************)
ReadSQL   == {"READ_MYSQL", "READ_POSTGRESQL"}
WriteSQL  == {"WRITE_MYSQL", "WRITE_POSTGRESQL"}
Oracle    == {"READ_ORACLE", "WRITE_ORACLE"}
Mongo     == {"READ_MONGODB", "WRITE_MONGODB"}
Redis     == {"READ_REDIS", "WRITE_REDIS"}
WriteVerbs == {"INSERT", "UPDATE", "DELETE"}
MongoReads  == {"FIND", "AGGREGATE", "COUNT", "DISTINCT", "LISTCOLLECTIONS",
                "LISTINDEXES"}
MongoWrites == {"INSERT", "UPDATE", "DELETE", "FINDANDMODIFY",
                "CREATEINDEXES", "DROP"}

channelDirection(ch) ==
    CASE ch \in ReadSQL \cup {"READ_ORACLE", "READ_MONGODB", "READ_REDIS"} -> "READ"
      [] ch \in WriteSQL \cup {"WRITE_ORACLE", "WRITE_MONGODB", "WRITE_REDIS"} -> "WRITE"
      [] OTHER -> ""

operationDirection(op) ==
    CASE op = "SELECT" -> "READ" [] op \in WriteVerbs -> "WRITE" [] OTHER -> ""

(***************************************************************************)
(* The bucket a statement is registered under: its table set when it has   *)
(* one, otherwise the one resource it names (url, table, topic,            *)
(* service/method, command:key).  tableSetKey of a single table is that    *)
(* table's own name, so both kinds can share a bucket.                     *)
(***************************************************************************)
getExpectKey(i) ==
    IF Decl[i].tables # {} THEN Decl[i].tables ELSE {Decl[i].resource}

Bucket(k) == {i \in Mocks : getExpectKey(i) = k}

-----------------------------------------------------------------------------
(***************************************************************************)
(* Constraints.                                                            *)
(***************************************************************************)
mockMatchesDatabase(i, db) == Decl[i].database = "" \/ db = "" \/ Decl[i].database = db

matchesShapeConstraints(i, q) ==
    /\ \/ channelDirection(Decl[i].channel) = ""
       \/ operationDirection(q.op) \in {"", channelDirection(Decl[i].channel)}
    /\ Decl[i].op \in {"", q.op}
    /\ Decl[i].cols \subseteq q.cols

Agree(wanted, actual) ==
    \A c \in DOMAIN wanted :
        c \in DOMAIN actual /\ (wanted[c] = Present \/ wanted[c] = actual[c])

matchesValueConstraints(i, q) ==
    Agree(Decl[i].where, q.where) /\ Agree(Decl[i].written, q.written)

matchesSemanticConstraints(i, q) ==
    matchesShapeConstraints(i, q) /\ matchesValueConstraints(i, q)

Bit(b) == IF b THEN 1 ELSE 0

semanticSpecificity(i) ==
    Bit(Decl[i].op # "") + Bit(Decl[i].cols # {})
      + Bit(DOMAIN Decl[i].where # {}) + Bit(DOMAIN Decl[i].written # {})

(***************************************************************************)
(* checkWritePayload: a WITH payload that cannot be loaded, or is no map,  *)
(* is a payload without fields.                                            *)
(***************************************************************************)
PayloadFails(i, q) ==
    /\ Decl[i].with # "" /\ Decl[i].channel \in WriteSQL /\ q.op \in WriteVerbs
    /\ LET shared == DOMAIN Decl[i].payload \cap DOMAIN q.written
       IN  \/ shared = {}
           \/ \E c \in shared : q.written[c] \notin {Decl[i].payload[c], Present}

-----------------------------------------------------------------------------
(***************************************************************************)
(* The semantic matcher (ACCESSING_TABLES).                                *)
(***************************************************************************)
First(S) == {i \in S : \A j \in S : i <= j}

UnconsumedLate(h) == {i \in Mocks : ~Decl[i].negative /\ h[i] <= 1}   \* mutant

Unconsumed(h) == {i \in Mocks : ~Decl[i].negative /\ h[i] = 0}

TableCandidates(h, q) ==
    {i \in Unconsumed(h) \cap Bucket(q.tables) :
        Decl[i].tables # {} /\ mockMatchesDatabase(i, q.db)}

MostSpecific(S) ==
    {i \in S : \A j \in S : semanticSpecificity(j) <= semanticSpecificity(i)}

DeclarationOrdered(S) == First(S)   \* mutant: CALL N ignored

\* Lowest CALL N first; statements without one only when none has one.
CallOrdered(S) ==
    LET numbered == {i \in S : Decl[i].callN > 0}
    IN  IF numbered = {} THEN First(S)
        ELSE First({i \in numbered : \A j \in numbered : Decl[i].callN <= Decl[j].callN})

FindMockByTables(h, q) ==
    CallOrdered(MostSpecific({i \in TableCandidates(h, q) : matchesSemanticConstraints(i, q)}))

RejectedByTables(h, q) ==
    {i \in TableCandidates(h, q) : ~matchesSemanticConstraints(i, q)}

PeekMockByTables(h, q) == FindMockByTables(h, q)

PeekMockByTablesShape(h, q) ==
    CallOrdered(MostSpecific({i \in TableCandidates(h, q) : matchesShapeConstraints(i, q)}))

CheckNegativeMocksByTables(q) ==
    {i \in Bucket(q.tables) :
        /\ Decl[i].negative /\ Decl[i].tables # {}
        /\ mockMatchesDatabase(i, q.db)
        /\ matchesSemanticConstraints(i, q)}

-----------------------------------------------------------------------------
(***************************************************************************)
(* The legacy matcher (USING_SQL, USING_SQL_CONTAINS, channel verb), keyed *)
(* by the one table the proxy extracted, q.key.  q.text is the normalized  *)
(* statement, q.fragments what USING_SQL_CONTAINS may find in it, q.verb   *)
(* its first word, q.mentions the names in it.  The legacy path analyses   *)
(* the text without its binds: every bound value is the PRESENT sentinel.  *)
(***************************************************************************)
Unbound(q) ==
    [q EXCEPT !.where   = [c \in DOMAIN q.where |->
                              IF c \in q.bound THEN Present ELSE q.where[c]],
              !.written = [c \in DOMAIN q.written |->
                              IF c \in q.bound THEN Present ELSE q.written[c]]]

skipsNothing(i, key) == FALSE   \* mutant: the guard is missing

skipsLegacyMatch(i, key) ==
    /\ Decl[i].tables # {}
    /\ ~ (Decl[i].channel \in Mongo /\ key \in Decl[i].tables)

legacyVerifyHolds(i, q) ==
    \/ semanticSpecificity(i) = 0
    \/ matchesSemanticConstraints(i,
          IF Decl[i].channel \in Mongo
          THEN [q EXCEPT !.cols = {}, !.where = <<>>, !.written = <<>>]
          ELSE Unbound(q))

HasText(i) == Decl[i].sql # "" \/ Decl[i].contains # ""

TextMatches(i, q) ==
    \/ Decl[i].sql # "" /\ Decl[i].sql = q.text
    \/ Decl[i].contains # "" /\ Decl[i].contains \in q.fragments

VerbMatches(i, q) ==
    \/ Decl[i].channel \in {"HTTP", "EVENT"}
    \/ q.verb = "SELECT" /\ Decl[i].channel \in ReadSQL
    \/ q.verb \in WriteVerbs /\ Decl[i].channel \in WriteSQL
    \/ q.text \in MongoReads /\ Decl[i].channel = "READ_MONGODB"
    \/ q.text \in MongoWrites /\ Decl[i].channel = "WRITE_MONGODB"

LegacyCandidates(h, q) ==
    {i \in Unconsumed(h) : ~skipsLegacyMatch(i, q.key) /\ mockMatchesDatabase(i, q.db)}

\* The statements findMockLocked offers to accept, in the two passes it makes
\* over the bucket of the key, or over orderedMocks when the key has no bucket.
TextPass(h, q) ==
    {i \in LegacyCandidates(h, q) :
        /\ TextMatches(i, q)
        /\ Bucket({q.key}) = {} \/ i \in Bucket({q.key})}

VerbPass(h, q) ==
    {i \in LegacyCandidates(h, q) \cap Bucket({q.key}) : ~HasText(i) /\ VerbMatches(i, q)}

\* order is the position of each statement in orderedMocks.
FirstIn(order, S) == {i \in S : \A j \in S : order[i] <= order[j]}

FindMock(h, order, q) ==
    LET text == {i \in TextPass(h, q) : legacyVerifyHolds(i, q)}
        verb == {i \in VerbPass(h, q) : legacyVerifyHolds(i, q)}
    IN  FirstIn(order, IF text # {} THEN text ELSE verb)

\* The rejection that is reported: the first one met in the two passes.
FirstRejectedByKey(h, order, q) ==
    LET text == {i \in TextPass(h, q) : ~legacyVerifyHolds(i, q)}
        verb == {i \in VerbPass(h, q) : ~legacyVerifyHolds(i, q)}
    IN  FirstIn(order, IF text # {} THEN text ELSE verb)

\* PeekMock skips every ACCESSING_TABLES statement and applies no VERIFY_*.
PeekMock(h, order, q) ==
    LET bare(S) == {i \in S : Decl[i].tables = {}}
    IN  FirstIn(order, IF bare(TextPass(h, q)) # {} THEN bare(TextPass(h, q))
                       ELSE bare(VerbPass(h, q)))

CheckNegativeMocks(q) ==
    {i \in Mocks :
        /\ Decl[i].negative /\ mockMatchesDatabase(i, q.db)
        /\ \/ Bucket({q.key}) = {} /\ TextMatches(i, q)
           \/ /\ i \in Bucket({q.key})
              /\ CASE q.text # "" /\ Decl[i].sql # "" -> Decl[i].sql = q.text
                   [] q.text # "" /\ Decl[i].sql = "" /\ Decl[i].contains # "" ->
                        Decl[i].contains \in q.fragments
                   [] q.text # "" /\ ~HasText(i) ->
                        /\ VerbMatches(i, q)
                        /\ Decl[i].channel \notin {"HTTP", "EVENT"}
                        /\ Decl[i].channel \in Mongo \/ q.key \in q.mentions
                   [] OTHER -> Decl[i].channel \notin ReadSQL \cup WriteSQL \cup Mongo}

-----------------------------------------------------------------------------
(***************************************************************************)
(* HTTP, Kafka, gRPC and Redis.  r.body is what the request carries and a  *)
(* WITH file matches when it describes that body; r.holds are the VERIFY   *)
(* rules the request satisfies.                                            *)
(***************************************************************************)
BodyMatches(i, r) == Decl[i].with \in {"", r.body}

VerifyHolds(i, r) == Decl[i].verify \subseteq r.holds

HTTPCandidates(h, key, r) ==
    {i \in Unconsumed(h) \cap Bucket({key}) :
        /\ Decl[i].channel = "HTTP" /\ Decl[i].method \in {"", r.method}
        /\ Decl[i].headers \subseteq r.headers
        /\ BodyMatches(i, r)}

\* mutant: the first candidate is taken, whatever its rules
FindHTTPFirst(h, key, r) == First(HTTPCandidates(h, key, r))

\* VERIFY rules break ties; when no candidate's rules hold the first is judged.
FindHTTPMockWithBody(h, key, r) ==
    LET candidates == HTTPCandidates(h, key, r)
        satisfied  == {i \in candidates : VerifyHolds(i, r)}
    IN  First(IF satisfied # {} THEN satisfied ELSE candidates)

CheckNegativeHTTPMocks(key, r) ==
    {i \in Bucket({key}) : /\ Decl[i].negative /\ Decl[i].channel = "HTTP"
                           /\ Decl[i].method \in {"", r.method}}

FindByBody(h, channels, r) ==
    First({i \in Unconsumed(h) \cap Bucket({r.key}) :
              Decl[i].channel \in channels /\ BodyMatches(i, r)})

FindKafkaMockWithBody(h, r) == FindByBody(h, {"EVENT"}, r)
FindGRPCMockWithBody(h, r)  == FindByBody(h, {"GRPC"}, r)

\* Redis mocks are matched on command and key alone.
FindRedisMock(h, r) ==
    First({i \in Unconsumed(h) \cap Bucket({r.key}) : Decl[i].channel \in Redis})

CheckNegativeOn(channels, r) ==
    {i \in Bucket({r.key}) : Decl[i].negative /\ Decl[i].channel \in channels}

CheckNegativeGRPCMocks(r)  == CheckNegativeOn({"GRPC"}, r)
CheckNegativeRedisMocks(r) == CheckNegativeOn(Redis, r)

-----------------------------------------------------------------------------
(***************************************************************************)
(* The key under which a sidecar reports the hits of a statement to the    *)
(* runner.  sql is the statement's SQL field when the key is computed.     *)
(***************************************************************************)
mockHitKey(i, sql) ==
    LET m == Decl[i] IN
    CASE m.tables # {} -> <<m.channel, "SEMANTIC", m.database, m.tables, m.op, m.cols, m.callN>>
      [] m.tables = {} /\ m.channel = "HTTP" -> <<m.channel, m.method, m.resource, m.callN>>
      [] m.tables = {} /\ m.channel \in ReadSQL \cup WriteSQL ->
           <<m.channel, m.database, m.resource,
             IF sql # "" THEN <<"=", sql>> ELSE <<"~", m.contains>>, m.callN>>
      [] m.tables = {} /\ m.channel = "EVENT" -> <<m.channel, m.resource, m.negative, m.callN>>
      [] m.tables = {} /\ m.channel \in {"GRPC"} \cup Redis -> <<m.channel, m.resource, m.callN>>
      [] OTHER -> <<m.channel, m.database, m.resource, m.callN>>
=============================================================================
