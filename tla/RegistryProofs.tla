--------------------------- MODULE RegistryProofs ---------------------------
(***************************************************************************)
(* Theorems about MockRegistry, for any spec, any requests and any number  *)
(* of connections: how requests are paired with EXPECTs, that every        *)
(* forbidden request is charged, that the registry implements the ledger   *)
(* of ExpectLedger, and that hits are reported under the key the runner    *)
(* computes.                                                               *)
(***************************************************************************)
EXTENDS RegistryProperties, SequenceTheorems, FiniteSetTheorems, NaturalsInduction, WellFoundedInduction, TLAPS

-----------------------------------------------------------------------------
(***************************************************************************)
(* What the lookups of pkg/registry return, whatever they are asked: an    *)
(* EXPECT that no request has spent, and EXPECT_NOTs from the checks.      *)
(***************************************************************************)
\* Picking among candidates adds none.
LEMMA PicksAreCandidates ==
  ASSUME NEW S
  PROVE  /\ First(S) \subseteq S
         /\ CallOrdered(S) \subseteq S
         /\ MostSpecific(S) \subseteq S
         /\ \A ord : FirstIn(ord, S) \subseteq S
BY DEF First, CallOrdered, MostSpecific, FirstIn

\* FindMockByTables, FindMock and the lookups of the other protocols skip
\* negative statements and statements with a hit.
LEMMA LookupsFindUnconsumed ==
  ASSUME NEW h, NEW ord, NEW q, NEW key
  PROVE  /\ FindMockByTables(h, q) \subseteq Unconsumed(h)
         /\ FindMock(h, ord, q) \subseteq Unconsumed(h)
         /\ FindHTTPMockWithBody(h, key, q) \subseteq Unconsumed(h)
         /\ FindKafkaMockWithBody(h, q) \subseteq Unconsumed(h)
         /\ FindGRPCMockWithBody(h, q) \subseteq Unconsumed(h)
         /\ FindRedisMock(h, q) \subseteq Unconsumed(h)
<1>1. FindMockByTables(h, q) \subseteq Unconsumed(h)
  <2>1. TableCandidates(h, q) \subseteq Unconsumed(h)
    BY DEF TableCandidates
  <2> QED BY <2>1, PicksAreCandidates DEF FindMockByTables
<1>2. FindMock(h, ord, q) \subseteq Unconsumed(h)
  <2>1. /\ TextPass(h, q) \subseteq Unconsumed(h)
        /\ VerbPass(h, q) \subseteq Unconsumed(h)
    BY DEF TextPass, VerbPass, LegacyCandidates
  <2> QED BY <2>1, PicksAreCandidates DEF FindMock
<1>3. FindHTTPMockWithBody(h, key, q) \subseteq Unconsumed(h)
  <2>1. HTTPCandidates(h, key, q) \subseteq Unconsumed(h)
    BY DEF HTTPCandidates
  <2> QED BY <2>1, PicksAreCandidates DEF FindHTTPMockWithBody
<1>4. \A channels : FindByBody(h, channels, q) \subseteq Unconsumed(h)
  BY PicksAreCandidates DEF FindByBody
<1>5. FindRedisMock(h, q) \subseteq Unconsumed(h)
  BY PicksAreCandidates DEF FindRedisMock
<1> QED BY <1>1, <1>2, <1>3, <1>4, <1>5 DEF FindKafkaMockWithBody, FindGRPCMockWithBody

\* A lookup that fails names a registered statement, if it names one.
LEMMA RejectionsAreMocks ==
  ASSUME NEW h, NEW ord, NEW q
  PROVE  /\ First(RejectedByTables(h, q)) \subseteq Mocks
         /\ FirstRejectedByKey(h, ord, q) \subseteq Mocks
<1>1. Unconsumed(h) \subseteq Mocks
  BY DEF Unconsumed
<1>2. RejectedByTables(h, q) \subseteq Mocks
  BY <1>1 DEF RejectedByTables, TableCandidates
<1>3. TextPass(h, q) \subseteq Mocks /\ VerbPass(h, q) \subseteq Mocks
  BY <1>1 DEF TextPass, VerbPass, LegacyCandidates
<1>4. FirstRejectedByKey(h, ord, q) \subseteq Mocks
  BY <1>3, PicksAreCandidates DEF FirstRejectedByKey
<1> QED BY <1>2, <1>4, PicksAreCandidates

\* The checks for forbidden operations charge EXPECT_NOTs only.
LEMMA ChecksChargeExpectNots ==
  ASSUME NEW q, NEW key
  PROVE  /\ CheckNegativeMocksByTables(q) \subseteq ExpectNots
         /\ CheckNegativeMocks(q) \subseteq ExpectNots
         /\ CheckNegativeHTTPMocks(key, q) \subseteq ExpectNots
         /\ CheckNegativeGRPCMocks(q) \subseteq ExpectNots
         /\ CheckNegativeRedisMocks(q) \subseteq ExpectNots
<1>1. \A k : Bucket(k) \subseteq Mocks
  BY DEF Bucket
<1>2. /\ CheckNegativeMocksByTables(q) \subseteq ExpectNots
      /\ CheckNegativeHTTPMocks(key, q) \subseteq ExpectNots
      /\ \A channels : CheckNegativeOn(channels, q) \subseteq ExpectNots
  BY <1>1 DEF CheckNegativeMocksByTables, CheckNegativeHTTPMocks, CheckNegativeOn, ExpectNots
<1>3. CheckNegativeMocks(q) \subseteq ExpectNots
  BY DEF CheckNegativeMocks, ExpectNots
<1> QED BY <1>2, <1>3 DEF CheckNegativeGRPCMocks, CheckNegativeRedisMocks

-----------------------------------------------------------------------------
(***************************************************************************)
(* Typing.                                                                 *)
(***************************************************************************)
Handlers ==
  [Conns -> [at : Steps, req : Requests \cup {NoRequest}, mock : Mocks \cup {NoMock}]]

Entries == [req : Requests, mock : Mocks \cup {NoMock}, outcome : Outcomes]

ConnOK == conn \in Handlers /\ log \in Seq(Entries) /\ HandlerInv

StoreOK ==
  /\ hits \in [Mocks -> Nat]
  /\ DOMAIN hitKeys = Mocks /\ DOMAIN sql = Mocks /\ DOMAIN order = Mocks
  /\ seeds \in [DOMAIN Seeds -> Nat]
  /\ verifyErrors \in Seq(Mocks)
  /\ passthroughs \in Nat
  /\ prepared \in [Conns -> SUBSET {r.text : r \in Requests}]

\* The inductive invariant: TypeOK, and where a handler may hold a statement.
Inv == StoreOK /\ ConnOK

LEMMA InvIsTyped == Inv => TypeOK
BY DEF Inv, TypeOK, StoreOK, ConnOK, Handlers, Entries

LEMMA InitInv == Init => Inv
<1> SUFFICES ASSUME Init PROVE Inv
  OBVIOUS
<1> USE DEF Init, Idle, NoMock, Mocks
<1>1. StoreOK
  <2>1. hits \in [Mocks -> Nat] /\ passthroughs \in Nat /\ seeds \in [DOMAIN Seeds -> Nat]
    BY SeedsAssumption
  <2>2. DOMAIN hitKeys = Mocks /\ DOMAIN sql = Mocks /\ DOMAIN order = Mocks
    BY DEF LoadedOrders
  <2>3. verifyErrors \in Seq(Mocks)
    OBVIOUS
  <2>4. prepared \in [Conns -> SUBSET {r.text : r \in Requests}]
    OBVIOUS
  <2> QED BY <2>1, <2>2, <2>3, <2>4 DEF StoreOK
<1>2. conn \in Handlers /\ log \in Seq(Entries)
  BY DEF Handlers, Steps
<1>3. HandlerInv
  BY DEF HandlerInv, HandlerOK
<1> QED BY <1>1, <1>2, <1>3 DEF Inv, ConnOK

\* The two ways a step ends keep the handlers typed and what they hold right.
LEMMA ProceedKeeps ==
  ASSUME ConnOK, NEW c \in Conns, Request(c) \in Requests,
         NEW step \in Steps \ {"idle"}, NEW mock \in Mocks \cup {NoMock},
         step \in {"rewrite", "verify"} => mock # NoMock,
         mock # NoMock => mock \in Expects /\ MayHold(step, Request(c)),
         Proceed(c, step, mock)
  PROVE  ConnOK'
<1> DEFINE h == [at |-> step, req |-> Request(c), mock |-> mock]
<1>1. conn' = [conn EXCEPT ![c] = h]
  BY DEF Proceed
<1>2. h \in [at : Steps, req : Requests \cup {NoRequest}, mock : Mocks \cup {NoMock}]
  OBVIOUS
<1>3. HandlerOK(h)
  BY DEF HandlerOK
<1> HIDE DEF h
<1>4. conn' \in Handlers /\ \A d \in Conns : conn'[d] = IF d = c THEN h ELSE conn[d]
  BY <1>1, <1>2 DEF ConnOK, Handlers
<1>5. \A d \in Conns : HandlerOK(conn'[d])
  BY <1>3, <1>4 DEF ConnOK, HandlerInv
<1>6. \A d \in Conns : HandlerOK(conn[d])'
  BY <1>5 DEF HandlerOK, MayHold
<1> QED BY <1>4, <1>6 DEF ConnOK, HandlerInv, Proceed, Handlers, Entries

LEMMA FinishKeeps ==
  ASSUME ConnOK, NEW c \in Conns, Request(c) \in Requests, NEW outcome \in Outcomes,
         Finish(c, outcome)
  PROVE  ConnOK'
<1>1. [req |-> Request(c), mock |-> conn[c].mock, outcome |-> outcome] \in Entries
  BY DEF ConnOK, Handlers, Entries
<1>2. log' \in Seq(Entries)
  BY <1>1 DEF Finish, ConnOK
<1>3. conn' \in Handlers /\ \A d \in Conns : conn'[d] = IF d = c THEN Idle ELSE conn[d]
  BY DEF Finish, Handlers, Idle, Steps, ConnOK
<1>4. \A d \in Conns : HandlerOK(conn[d])'
  BY <1>3 DEF ConnOK, HandlerInv, HandlerOK, MayHold
<1> QED BY <1>2, <1>3, <1>4 DEF ConnOK, HandlerInv, Handlers, Entries

(***************************************************************************)
(* What a step does to the rest of the state.                              *)
(***************************************************************************)
LEMMA RecordHitKeeps ==
  ASSUME StoreOK, NEW i \in Mocks, recordHit(i)
  PROVE  /\ hits' = [hits EXCEPT ![i] = hits[i] + 1]
         /\ hits' \in [Mocks -> Nat] /\ DOMAIN hitKeys' = Mocks
BY DEF recordHit, StoreOK

LEMMA RecordNegativesKeeps ==
  ASSUME StoreOK, NEW S, RecordNegatives(S)
  PROVE  StoreOK'
<1>1. hits' \in [Mocks -> Nat] /\ DOMAIN hitKeys' = Mocks
  BY DEF RecordNegatives, StoreOK
<1> QED BY <1>1 DEF RecordNegatives, StoreOK

\* A lookup that found i leaves c with it.
LEMMA ConsumeKeeps ==
  ASSUME Inv, NEW c \in Conns, Request(c) \in Requests, NEW i \in Expects,
         NEW step \in Steps \ {"idle"}, MayHold(step, Request(c)), NEW failed,
         Consume(c, i, step, failed)
  PROVE  Inv'
<1>1. i \in Mocks
  BY DEF Expects
<1>2. i # NoMock
  BY <1>1, DeclAssumption DEF Mocks, NoMock
<1>3. verifyErrors' \in Seq(Mocks)
  BY <1>1 DEF Inv, Consume, StoreOK
<1>4. StoreOK'
  BY <1>1, <1>3, RecordHitKeeps DEF Inv, Consume, StoreOK
<1>5. ConnOK'
  BY <1>1, <1>2, ProceedKeeps DEF Inv, Consume
<1> QED BY <1>4, <1>5 DEF Inv

\* A lookup that found nothing leaves c without a statement.
LEMMA MissKeeps ==
  ASSUME Inv, NEW c \in Conns, Request(c) \in Requests, NEW rejected \in SUBSET Mocks,
         NEW step \in Steps \ {"idle", "rewrite", "verify"}, Miss(c, rejected, step)
  PROVE  Inv'
<1>1. verifyErrors' \in Seq(Mocks)
  <2>1. CASE UNCHANGED verifyErrors
    BY <2>1 DEF Inv, StoreOK
  <2>2. ASSUME NEW i \in rejected, verifyErrors' = Append(verifyErrors, i)
        PROVE  verifyErrors' \in Seq(Mocks)
    <3>1. i \in Mocks
      OBVIOUS
    <3> QED BY <2>2, <3>1 DEF Inv, StoreOK
  <2> QED BY <2>1, <2>2 DEF Miss
<1>2. StoreOK'
  BY <1>1 DEF Inv, Miss, StoreOK
<1>3. ConnOK'
  BY ProceedKeeps DEF Inv, Miss
<1> QED BY <1>2, <1>3 DEF Inv

-----------------------------------------------------------------------------
(***************************************************************************)
(* Every step preserves Inv, one lemma per group of actions.               *)
(***************************************************************************)
LEMMA Busy ==
  ASSUME Inv, NEW c \in Conns, conn[c].at # "idle"
  PROVE  /\ Request(c) \in Requests
         /\ conn[c].at \in Steps
         /\ conn[c].mock \in Mocks \cup {NoMock}
         /\ conn[c].at \in {"rewrite", "verify"} => conn[c].mock # NoMock
         /\ conn[c].mock # NoMock =>
              conn[c].mock \in Expects /\ MayHold(conn[c].at, Request(c))
BY DEF Inv, ConnOK, Handlers, HandlerInv, HandlerOK, Idle, Request

LEMMA FoundAreExpects ==
  ASSUME NEW h, NEW found \in SUBSET Unconsumed(h)
  PROVE  \A i \in found : i \in Expects /\ h[i] = 0
BY DEF Unconsumed, Expects

\* A request arrives.
LEMMA ReceiveInv ==
  ASSUME Inv, NEW c \in Conns, NEW r \in Requests, Receive(c, r)
  PROVE  Inv'
<1>1. PICK step \in {FirstStep(r.proto)} \cup (IF PreparedHere(c, r) THEN {"negTables"} ELSE {}) :
        conn' = [conn EXCEPT ![c] = [at |-> step, req |-> r, mock |-> NoMock]]
  BY DEF Receive
<1>2. FirstStep(r.proto) \in Steps \ {"idle", "rewrite", "verify"}
  BY RequestsAssumption DEF FirstStep, Protocols, Steps
<1>3. step \in Steps \ {"idle", "rewrite", "verify"}
  BY <1>2 DEF Steps
<1> DEFINE h == [at |-> step, req |-> r, mock |-> NoMock]
<1>4. h \in [at : Steps, req : Requests \cup {NoRequest}, mock : Mocks \cup {NoMock}]
  BY <1>3
<1>5. HandlerOK(h)
  BY <1>3 DEF HandlerOK
<1> HIDE DEF h
<1>6. conn' \in Handlers /\ \A d \in Conns : conn'[d] = IF d = c THEN h ELSE conn[d]
  BY <1>1, <1>4 DEF h, Inv, ConnOK, Handlers
<1>7. \A d \in Conns : HandlerOK(conn'[d])
  BY <1>5, <1>6 DEF Inv, ConnOK, HandlerInv
<1>8. \A d \in Conns : HandlerOK(conn[d])'
  BY <1>7 DEF HandlerOK, MayHold
<1>9. ConnOK'
  BY <1>6, <1>8 DEF Inv, ConnOK, HandlerInv, Receive, Handlers, Entries
<1>10. StoreOK'
  BY DEF Inv, StoreOK, Receive
<1> QED BY <1>9, <1>10 DEF Inv

\* EXPECT_NOTs are charged.
LEMMA CheckNegativesInv ==
  ASSUME Inv, NEW c \in Conns,
         \/ CheckNegativeTables(c) \/ CheckNegativeKey(c)
         \/ CheckNegativeHTTP(c) \/ CheckNegativeRPC(c)
  PROVE  Inv'
<1>1. conn[c].at # "idle"
  BY DEF CheckNegativeTables, CheckNegativeKey, CheckNegativeHTTP, CheckNegativeRPC, At
<1>2. StoreOK'
  BY RecordNegativesKeeps
  DEF Inv, CheckNegativeTables, CheckNegativeKey, CheckNegativeHTTP, CheckNegativeRPC
<1>3. Outcome(c) \in Outcomes
  BY DEF Outcome, Outcomes
<1>4. \/ Finish(c, Outcome(c))
      \/ \E step \in {"negKey", "findTables", "findBody", "negHTTPHost", "findHTTP", "findRedis"} :
            Proceed(c, step, NoMock)
  BY DEF CheckNegativeTables, CheckNegativeKey, CheckNegativeHTTP, CheckNegativeRPC
<1>5. ConnOK'
  BY <1>1, <1>3, <1>4, Busy, FinishKeeps, ProceedKeeps DEF Inv, Steps
<1> QED BY <1>2, <1>5 DEF Inv

\* A statement is prepared.
LEMMA PrepareInv ==
  ASSUME Inv, NEW c \in Conns, Prepare(c)
  PROVE  Inv'
<1>1. conn[c].at # "idle"
  BY DEF Prepare, At
<1>2. Request(c).text \in {r.text : r \in Requests}
  BY <1>1, Busy
<1>3. prepared' \in [Conns -> SUBSET {r.text : r \in Requests}]
  BY <1>2 DEF Prepare, Inv, StoreOK
<1>4. StoreOK'
  BY <1>3 DEF Prepare, Inv, StoreOK
<1>5. Finish(c, "bypassed") \/ Proceed(c, "negTables", NoMock)
  BY DEF Prepare
<1>6. ConnOK'
  BY <1>1, <1>5, Busy, FinishKeeps, ProceedKeeps DEF Inv, Steps, Outcomes
<1> QED BY <1>4, <1>6 DEF Inv

\* The lookups of the SQL proxies.
LEMMA FindSQLInv ==
  ASSUME Inv, NEW c \in Conns, FindByTables(c) \/ FindByKey(c)
  PROVE  Inv'
<1> DEFINE q == Request(c)
<1>1. conn[c].at # "idle"
  BY DEF FindByTables, FindByKey, At
<1>2. q \in Requests
  BY <1>1, Busy
<1>3. /\ AfterSQLMatch(q) \in Steps \ {"idle"}
      /\ MayHold(AfterSQLMatch(q), q)
      /\ AfterSQLMiss(c, q) \in Steps \ {"idle", "rewrite", "verify"}
  BY DEF AfterSQLMatch, AfterSQLMiss, MayHold, Steps
<1>4. CASE \E i \in FindMockByTables(hits, q) \cup FindMock(hits, order, q), failed \in BOOLEAN :
             Consume(c, i, AfterSQLMatch(q), failed)
  BY <1>2, <1>3, <1>4, LookupsFindUnconsumed, FoundAreExpects, ConsumeKeeps
<1>5. CASE \E rejected \in SUBSET Mocks, step \in Steps \ {"idle", "rewrite", "verify"} :
             Miss(c, rejected, step)
  BY <1>2, <1>5, MissKeeps
<1>6. FindByTables(c) =>
        \/ \E i \in FindMockByTables(hits, q) :
              Consume(c, i, AfterSQLMatch(q), PayloadFails(i, q))
        \/ \E step \in {"negTables", "findKey"} :
              Miss(c, First(RejectedByTables(hits, q)), step)
  BY DEF FindByTables
<1>7. FindByKey(c) =>
        \/ \E i \in FindMock(hits, order, q) :
              Consume(c, i, AfterSQLMatch(q), PayloadFails(i, Unbound(q)))
        \/ Miss(c, FirstRejectedByKey(hits, order, q), AfterSQLMiss(c, q))
  BY DEF FindByKey
<1>8. \A i : PayloadFails(i, q) \in BOOLEAN /\ PayloadFails(i, Unbound(q)) \in BOOLEAN
  BY DEF PayloadFails
<1> QED BY <1>3, <1>4, <1>5, <1>6, <1>7, <1>8, RejectionsAreMocks DEF Steps

\* The lookups of the HTTP, Kafka, gRPC and Redis proxies.
LEMMA FindOtherInv ==
  ASSUME Inv, NEW c \in Conns, FindHTTP(c) \/ FindRPC(c) \/ FindRedis(c)
  PROVE  Inv'
<1> DEFINE r == Request(c)
           Found == FindHTTPMockWithBody(hits, r.path, r)
                      \cup FindHTTPMockWithBody(hits, r.key, r)
                      \cup FindKafkaMockWithBody(hits, r)
                      \cup FindGRPCMockWithBody(hits, r) \cup FindRedisMock(hits, r)
<1>1. conn[c].at # "idle"
  BY DEF FindHTTP, FindRPC, FindRedis, At
<1>2. r \in Requests
  BY <1>1, Busy
<1>3. \/ \E i \in Found : Consume(c, i, "verify", FALSE)
      \/ \E step \in {"findHTTPHost", "forward", "passthrough", "refuse"} : Miss(c, {}, step)
  BY DEF FindHTTP, FindRPC, FindRedis
<1>4. Found \subseteq Unconsumed(hits)
  BY LookupsFindUnconsumed
<1> HIDE DEF Found
<1>5. \A i \in Found : i \in Expects
  BY <1>4, FoundAreExpects
<1>6. "verify" \in Steps \ {"idle"} /\ MayHold("verify", r)
  BY DEF Steps, MayHold
<1>7. CASE \E i \in Found : Consume(c, i, "verify", FALSE)
  BY <1>2, <1>5, <1>6, <1>7, ConsumeKeeps
<1>8. CASE \E step \in {"findHTTPHost", "forward", "passthrough", "refuse"} : Miss(c, {}, step)
  BY <1>2, <1>8, MissKeeps DEF Steps
<1> QED BY <1>3, <1>7, <1>8

\* A seeded payload is taken, or the queue is empty.
LEMMA PopSeedInv ==
  ASSUME Inv, NEW c \in Conns, PopSeed(c)
  PROVE  Inv'
<1>1. conn[c].at # "idle"
  BY DEF PopSeed, At
<1>2. seeds' \in [DOMAIN Seeds -> Nat]
  <2> DEFINE k == Request(c).queue
  <2>1. CASE k \in DOMAIN seeds /\ seeds[k] > 0 /\ seeds' = [seeds EXCEPT ![k] = @ - 1]
    <3>1. seeds[k] - 1 \in Nat
      BY <2>1 DEF Inv, StoreOK
    <3> QED BY <2>1, <3>1 DEF Inv, StoreOK
  <2>2. CASE UNCHANGED seeds
    BY <2>2 DEF Inv, StoreOK
  <2> QED BY <2>1, <2>2 DEF PopSeed
<1>3. StoreOK'
  BY <1>2 DEF PopSeed, Inv, StoreOK
<1>4. Finish(c, "seeded") \/ Proceed(c, "negRedis", NoMock)
  BY DEF PopSeed
<1>5. ConnOK'
  BY <1>1, <1>4, Busy, FinishKeeps, ProceedKeeps DEF Inv, Steps, Outcomes
<1> QED BY <1>3, <1>5 DEF Inv

\* What follows a lookup that found a statement.
LEMMA RewriteInv ==
  ASSUME Inv, NEW c \in Conns, RewriteSQL(c)
  PROVE  Inv'
<1>1. conn[c].at = "rewrite"
  BY DEF RewriteSQL, At
<1>2. DOMAIN sql' = Mocks
  BY DEF RewriteSQL, Inv, StoreOK
<1>3. StoreOK'
  BY <1>2 DEF RewriteSQL, Inv, StoreOK
<1>4. Proceed(c, "verify", conn[c].mock)
  BY DEF RewriteSQL
<1>5. ConnOK'
  BY <1>1, <1>4, Busy, ProceedKeeps DEF Inv, Steps, MayHold
<1> QED BY <1>3, <1>5 DEF Inv

LEMMA VerifyInv ==
  ASSUME Inv, NEW c \in Conns, Verify(c)
  PROVE  Inv'
<1>1. conn[c].at = "verify"
  BY DEF Verify, At
<1>2. conn[c].mock \in Mocks /\ conn[c].mock \in Expects /\ conn[c].mock # NoMock
  BY <1>1, Busy
<1>3. verifyErrors' \in Seq(Mocks)
  BY <1>2 DEF Verify, Inv, StoreOK
<1>4. StoreOK'
  BY <1>3 DEF Verify, Inv, StoreOK
<1>5. \/ Request(c).proto = "ORACLE" /\ Proceed(c, "negTables", conn[c].mock)
      \/ Finish(c, "served")
  BY DEF Verify
<1>6. ConnOK'
  BY <1>1, <1>2, <1>5, Busy, FinishKeeps, ProceedKeeps DEF Inv, Steps, MayHold, Outcomes
<1> QED BY <1>4, <1>6 DEF Inv

\* What follows a lookup that found none.
LEMMA BypassInv ==
  ASSUME Inv, NEW c \in Conns, RecordPassthrough(c) \/ ForwardToUpstream(c) \/ Refuse(c)
  PROVE  Inv'
<1>1. conn[c].at # "idle"
  BY DEF RecordPassthrough, ForwardToUpstream, Refuse, At
<1>2. StoreOK'
  BY DEF RecordPassthrough, ForwardToUpstream, Refuse, Inv, StoreOK
<1>3. \/ Finish(c, "bypassed") \/ Finish(c, "refused")
      \/ Proceed(c, "negKey", NoMock)
  BY DEF RecordPassthrough, ForwardToUpstream, Refuse
<1>4. ConnOK'
  BY <1>1, <1>3, Busy, FinishKeeps, ProceedKeeps DEF Inv, Steps, Outcomes
<1> QED BY <1>2, <1>4 DEF Inv

LEMMA NextInv == Inv /\ [Next]_vars => Inv'
<1> SUFFICES ASSUME Inv, [Next]_vars PROVE Inv'
  OBVIOUS
<1>1. CASE UNCHANGED vars
  <2>1. UNCHANGED <<hits, hitKeys, sql, order, seeds, verifyErrors, passthroughs, conn,
                    prepared, log>>
    BY <1>1 DEF vars
  <2>2. StoreOK'
    BY <2>1 DEF Inv, StoreOK
  <2>3. \A c \in Conns : HandlerOK(conn[c])'
    BY <2>1 DEF Inv, ConnOK, HandlerInv, HandlerOK, MayHold
  <2> QED BY <2>1, <2>2, <2>3 DEF Inv, ConnOK, HandlerInv, Handlers, Entries
<1>2. ASSUME NEW c \in Conns, Handle(c) PROVE Inv'
  BY <1>2, CheckNegativesInv, PrepareInv, FindSQLInv, FindOtherInv, PopSeedInv,
     RewriteInv, VerifyInv, BypassInv DEF Handle
<1>3. ASSUME NEW c \in Conns, NEW r \in Requests, Receive(c, r) PROVE Inv'
  BY <1>3, ReceiveInv
<1> QED BY <1>1, <1>2, <1>3 DEF Next

(***************************************************************************)
(* However the connections interleave, the counters stay natural numbers   *)
(* (no queue of seeds is popped below zero), the history records requests  *)
(* of the test, and only registered statements are named by a failure.     *)
(***************************************************************************)
THEOREM TypeCorrect == Spec => []TypeOK
<1>1. Spec => []Inv
  BY InitInv, NextInv, PTL DEF Spec
<1> QED BY <1>1, InvIsTyped, PTL

-----------------------------------------------------------------------------
(***************************************************************************)
(* The three things a step can do to the pairing of requests and EXPECTs:  *)
(* nothing, pair one unspent EXPECT with the request at hand, or move a    *)
(* pair from the handler to the history.                                   *)
(***************************************************************************)
HitsKept == \A i \in Expects : hits'[i] = hits[i]

NoneUnspent == \A i \in Mocks : hits'[i] = 0 => hits[i] = 0

Keeps ==
  /\ HitsKept /\ NoneUnspent /\ log' = log
  /\ \A d \in Conns : /\ conn'[d].mock = conn[d].mock
                      /\ conn[d].mock # NoMock => conn'[d].req = conn[d].req

\* i is what the lookups may give to r, the counters being h.
Suits(i, r, h) ==
  IsSemantic(i) =>
    /\ Decl[i].tables = r.tables
    /\ matchesSemanticConstraints(i, r)
    /\ \A j \in TableCandidates(h, r) : matchesSemanticConstraints(j, r) => ~BetterMatch(j, i)

Takes(c, i) ==
  /\ i \in Expects /\ hits[i] = 0 /\ conn[c].mock = NoMock
  /\ Suits(i, Request(c), hits)
  /\ hits' = [hits EXCEPT ![i] = 1] /\ log' = log
  /\ conn'[c].mock = i /\ conn'[c].req = conn[c].req
  /\ \A d \in Conns \ {c} : conn'[d] = conn[d]

Retires(c) ==
  /\ HitsKept /\ NoneUnspent
  /\ conn'[c].mock = NoMock
  /\ \A d \in Conns \ {c} : conn'[d] = conn[d]
  /\ \E e \in Entries : /\ e.req = conn[c].req /\ e.mock = conn[c].mock
                        /\ log' = Append(log, e)

LEMMA ProceedKeepsPairs ==
  ASSUME Inv, NEW c \in Conns, conn[c].at # "idle", NEW step,
         Proceed(c, step, conn[c].mock), HitsKept, NoneUnspent
  PROVE  Keeps
BY DEF Proceed, Keeps, Inv, ConnOK, Handlers, Request

LEMMA FinishRetires ==
  ASSUME Inv, NEW c \in Conns, conn[c].at # "idle", NEW outcome \in Outcomes,
         Finish(c, outcome), HitsKept, NoneUnspent
  PROVE  Retires(c)
<1> DEFINE e == [req |-> Request(c), mock |-> conn[c].mock, outcome |-> outcome]
<1>1. e \in Entries
  BY Busy DEF Entries
<1>2. conn'[c] = Idle /\ \A d \in Conns \ {c} : conn'[d] = conn[d]
  BY DEF Finish, Inv, ConnOK, Handlers
<1>3. log' = Append(log, e) /\ e.req = conn[c].req /\ e.mock = conn[c].mock
  BY DEF Finish, Request
<1> HIDE DEF e
<1> QED BY <1>1, <1>2, <1>3 DEF Retires, Idle

LEMMA SameHits ==
  ASSUME UNCHANGED hits
  PROVE  HitsKept /\ NoneUnspent
BY DEF HitsKept, NoneUnspent

LEMMA NegativesKeepHits ==
  ASSUME Inv, NEW S \in SUBSET ExpectNots, RecordNegatives(S)
  PROVE  HitsKept /\ NoneUnspent
BY DEF Inv, StoreOK, RecordNegatives, HitsKept, NoneUnspent, Expects, ExpectNots

LEMMA ConsumeTakes ==
  ASSUME Inv, NEW c \in Conns, conn[c].mock = NoMock, NEW i \in Expects, hits[i] = 0,
         NEW step, NEW failed, Consume(c, i, step, failed), Suits(i, Request(c), hits)
  PROVE  Takes(c, i)
<1>1. i \in Mocks
  BY DEF Expects
<1>2. hits' = [hits EXCEPT ![i] = 1]
  BY <1>1, RecordHitKeeps DEF Inv, Consume
<1>3. /\ conn'[c].mock = i /\ conn'[c].req = conn[c].req
      /\ \A d \in Conns \ {c} : conn'[d] = conn[d]
  BY DEF Consume, Proceed, Inv, ConnOK, Handlers, Request
<1> QED BY <1>2, <1>3 DEF Takes, Consume, Proceed

\* The score and the CALL number are numbers, so "not better" is "at least as good".
LEMMA BestOfMatching ==
  ASSUME NEW C \in SUBSET Mocks, NEW i \in CallOrdered(MostSpecific(C)), NEW j \in C
  PROVE  ~BetterMatch(j, i)
<1>1. \A k \in Mocks : semanticSpecificity(k) \in Int /\ Decl[k].callN \in Nat
  BY DeclAssumption DEF semanticSpecificity, Bit
<1>2. i \in MostSpecific(C)
  BY PicksAreCandidates
<1>3. semanticSpecificity(j) <= semanticSpecificity(i) /\ i \in Mocks
  BY <1>2 DEF MostSpecific
<1>4. CASE semanticSpecificity(j) = semanticSpecificity(i)
  <2>1. j \in MostSpecific(C)
    BY <1>2, <1>4 DEF MostSpecific
  <2>2. Decl[j].callN > 0 => Decl[i].callN > 0 /\ Decl[i].callN <= Decl[j].callN
    BY <2>1 DEF CallOrdered, First
  <2> QED BY <1>1, <1>3, <1>4, <2>2 DEF BetterMatch
<1>5. CASE semanticSpecificity(j) # semanticSpecificity(i)
  BY <1>1, <1>3, <1>5 DEF BetterMatch
<1> QED BY <1>4, <1>5

\* FindMockByTables returns a best match; the legacy matcher, and those of the
\* other protocols, never return a statement of the semantic one.
LEMMA FoundSuits ==
  ASSUME NEW h, NEW o, NEW q, NEW key
  PROVE  /\ \A i \in FindMockByTables(h, q) : Suits(i, q, h)
         /\ \A i \in FindMock(h, o, q) \cup FindHTTPMockWithBody(h, key, q)
                       \cup FindKafkaMockWithBody(h, q) \cup FindGRPCMockWithBody(h, q)
                       \cup FindRedisMock(h, q) : ~IsSemantic(i)
<1>1. ASSUME NEW i \in FindMockByTables(h, q) PROVE Suits(i, q, h)
  <2> DEFINE C == {k \in TableCandidates(h, q) : matchesSemanticConstraints(k, q)}
  <2>1. i \in CallOrdered(MostSpecific(C))
    BY <1>1 DEF FindMockByTables
  <2>2. i \in C
    BY <2>1, PicksAreCandidates
  <2>3. C \subseteq Mocks
    BY DEF TableCandidates, Unconsumed
  <2>4. \A j \in C : ~BetterMatch(j, i)
    BY <2>1, <2>3, BestOfMatching
  <2>5. Decl[i].tables = q.tables
    BY <2>2 DEF TableCandidates, Bucket, getExpectKey
  <2> QED BY <2>2, <2>4, <2>5 DEF Suits
<1>2. ASSUME NEW i \in FindMock(h, o, q) PROVE ~IsSemantic(i)
  <2>1. i \in TextPass(h, q) \cup VerbPass(h, q)
    BY <1>2, PicksAreCandidates DEF FindMock
  <2>2. ~skipsLegacyMatch(i, q.key)
    BY <2>1 DEF TextPass, VerbPass, LegacyCandidates
  <2> QED BY <2>2 DEF skipsLegacyMatch, IsSemantic, Mongo, ReadSQL, WriteSQL, Oracle
<1>3. \A i \in FindHTTPMockWithBody(h, key, q) : Decl[i].channel = "HTTP"
  <2>1. \A i \in HTTPCandidates(h, key, q) : Decl[i].channel = "HTTP"
    BY DEF HTTPCandidates
  <2> QED BY <2>1, PicksAreCandidates DEF FindHTTPMockWithBody
<1>4. \A channels : \A i \in FindByBody(h, channels, q) : Decl[i].channel \in channels
  BY PicksAreCandidates DEF FindByBody
<1>5. \A i \in FindRedisMock(h, q) : Decl[i].channel \in Redis
  BY PicksAreCandidates DEF FindRedisMock
<1>6. \A i \in FindKafkaMockWithBody(h, q) \cup FindGRPCMockWithBody(h, q) :
         Decl[i].channel \in {"EVENT", "GRPC"}
  BY <1>4 DEF FindKafkaMockWithBody, FindGRPCMockWithBody
<1> QED BY <1>1, <1>2, <1>3, <1>5, <1>6 DEF IsSemantic, ReadSQL, WriteSQL, Oracle, Redis

LEMMA ChecksShape ==
  ASSUME Inv, NEW c \in Conns,
         \/ CheckNegativeTables(c) \/ CheckNegativeKey(c)
         \/ CheckNegativeHTTP(c) \/ CheckNegativeRPC(c)
  PROVE  Keeps \/ Retires(c)
<1>1. conn[c].at # "idle"
  BY DEF CheckNegativeTables, CheckNegativeKey, CheckNegativeHTTP, CheckNegativeRPC, At
<1>2. \E S \in SUBSET ExpectNots : RecordNegatives(S)
  BY ChecksChargeExpectNots
  DEF CheckNegativeTables, CheckNegativeKey, CheckNegativeHTTP, CheckNegativeRPC
<1>3. HitsKept /\ NoneUnspent
  BY <1>2, NegativesKeepHits
<1>4. \/ Finish(c, Outcome(c))
      \/ /\ \E step : Proceed(c, step, NoMock)
         /\ \/ conn[c].at = "negTables" /\ Request(c).proto # "ORACLE"
            \/ conn[c].at = "negKey" /\ Request(c).proto # "MONGODB"
            \/ conn[c].at \in {"negHTTP", "negHTTPHost", "negRPC", "negRedis"}
  BY DEF CheckNegativeTables, CheckNegativeKey, CheckNegativeHTTP, CheckNegativeRPC, At
<1>5. \/ Finish(c, Outcome(c))
      \/ \E step : Proceed(c, step, conn[c].mock)
  BY <1>1, <1>4, Busy DEF MayHold
<1>6. Outcome(c) \in Outcomes
  BY DEF Outcome, Outcomes
<1> QED BY <1>1, <1>3, <1>5, <1>6, ProceedKeepsPairs, FinishRetires

LEMMA LookupsShape ==
  ASSUME Inv, NEW c \in Conns,
         FindByTables(c) \/ FindByKey(c) \/ FindHTTP(c) \/ FindRPC(c) \/ FindRedis(c)
  PROVE  Keeps \/ \E i \in Expects : Takes(c, i)
<1> DEFINE q == Request(c)
           Found == FindMockByTables(hits, q) \cup FindMock(hits, order, q)
                      \cup FindHTTPMockWithBody(hits, q.path, q)
                      \cup FindHTTPMockWithBody(hits, q.key, q)
                      \cup FindKafkaMockWithBody(hits, q)
                      \cup FindGRPCMockWithBody(hits, q) \cup FindRedisMock(hits, q)
<1>1. conn[c].at \in {"findTables", "findKey", "findHTTP", "findHTTPHost", "findBody", "findRedis"}
  BY DEF FindByTables, FindByKey, FindHTTP, FindRPC, FindRedis, At
<1>2. conn[c].mock = NoMock
  BY <1>1, Busy DEF MayHold
<1>3. \A i \in Found : i \in Expects /\ hits[i] = 0
  <2>1. Found \subseteq Unconsumed(hits)
    BY LookupsFindUnconsumed
  <2> HIDE DEF Found
  <2> QED BY <2>1, FoundAreExpects
<1>4. \A i \in Found : Suits(i, q, hits)
  BY FoundSuits DEF Suits
<1>5. \/ \E i \in Found : \E step, failed : Consume(c, i, step, failed)
      \/ \E rejected, step : Miss(c, rejected, step)
  <2>1. FindByTables(c) \/ FindByKey(c) =>
          \/ \E i \in FindMockByTables(hits, q) \cup FindMock(hits, order, q) : \E step, failed :
                Consume(c, i, step, failed)
          \/ \E rejected, step : Miss(c, rejected, step)
    BY DEF FindByTables, FindByKey
  <2>2. FindHTTP(c) \/ FindRPC(c) \/ FindRedis(c) =>
          \/ \E i \in Found : \E step, failed : Consume(c, i, step, failed)
          \/ \E rejected, step : Miss(c, rejected, step)
    BY DEF FindHTTP, FindRPC, FindRedis
  <2> QED BY <2>1, <2>2
<1> HIDE DEF Found
<1>6. CASE \E i \in Found : \E step, failed : Consume(c, i, step, failed)
  BY <1>2, <1>3, <1>4, <1>6, ConsumeTakes
<1>7. CASE \E rejected, step : Miss(c, rejected, step)
  BY <1>1, <1>2, <1>7, SameHits, ProceedKeepsPairs DEF Miss
<1> QED BY <1>5, <1>6, <1>7

LEMMA OthersShape ==
  ASSUME Inv, NEW c \in Conns,
         \/ Prepare(c) \/ PopSeed(c) \/ RewriteSQL(c) \/ Verify(c)
         \/ RecordPassthrough(c) \/ ForwardToUpstream(c) \/ Refuse(c)
  PROVE  Keeps \/ Retires(c)
<1>1. conn[c].at \in {"prepare", "pop", "rewrite", "verify", "passthrough", "forward", "refuse"}
  BY DEF Prepare, PopSeed, RewriteSQL, Verify, RecordPassthrough, ForwardToUpstream, Refuse, At
<1>2. HitsKept /\ NoneUnspent
  BY SameHits
  DEF Prepare, PopSeed, RewriteSQL, Verify, RecordPassthrough, ForwardToUpstream, Refuse
<1>3. conn[c].at \notin {"rewrite", "verify"} => conn[c].mock = NoMock
  BY <1>1, Busy DEF MayHold
<1>4. \/ \E outcome \in Outcomes : Finish(c, outcome)
      \/ \E step : Proceed(c, step, conn[c].mock)
  <2>1. CASE Prepare(c) \/ PopSeed(c)
    BY <1>3, <2>1 DEF Prepare, PopSeed, Outcomes, At
  <2>2. CASE RewriteSQL(c) \/ Verify(c)
    BY <2>2 DEF RewriteSQL, Verify, Outcomes
  <2>3. CASE RecordPassthrough(c) \/ ForwardToUpstream(c) \/ Refuse(c)
    BY <1>3, <2>3 DEF RecordPassthrough, ForwardToUpstream, Refuse, Outcomes, At
  <2> QED BY <2>1, <2>2, <2>3
<1> QED BY <1>1, <1>2, <1>4, ProceedKeepsPairs, FinishRetires

LEMMA ReceiveShape ==
  ASSUME Inv, NEW c \in Conns, NEW r \in Requests, Receive(c, r)
  PROVE  Keeps
<1>1. conn[c].mock = NoMock
  BY DEF Receive, At, Inv, ConnOK, HandlerInv, HandlerOK, Idle
<1>2. conn'[c].mock = NoMock /\ \A d \in Conns \ {c} : conn'[d] = conn[d]
  BY DEF Receive, Inv, ConnOK, Handlers
<1> QED BY <1>1, <1>2, SameHits DEF Keeps, Receive

LEMMA StepShape ==
  ASSUME Inv, [Next]_vars
  PROVE  Keeps \/ \E c \in Conns : Retires(c) \/ \E i \in Expects : Takes(c, i)
<1>1. CASE UNCHANGED vars
  BY <1>1, SameHits DEF vars, Keeps
<1>2. ASSUME NEW c \in Conns, Handle(c)
      PROVE  Keeps \/ Retires(c) \/ \E i \in Expects : Takes(c, i)
  BY <1>2, ChecksShape, LookupsShape, OthersShape DEF Handle
<1>3. ASSUME NEW c \in Conns, NEW r \in Requests, Receive(c, r)
      PROVE  Keeps
  BY <1>3, ReceiveShape
<1> QED BY <1>1, <1>2, <1>3 DEF Next

-----------------------------------------------------------------------------
(***************************************************************************)
(* No EXPECT is spent twice.                                               *)
(***************************************************************************)
Owned(i) == \/ \E c \in Conns : conn[c].mock = i
            \/ \E n \in DOMAIN log : log[n].mock = i

LEMMA OwnedIsPaired ==
  ASSUME NEW i, i # NoMock
  PROVE  (\E p \in Pairings : p.mock = i) <=> Owned(i)
<1>1. ASSUME NEW c \in Conns, conn[c].mock = i PROVE \E p \in Pairings : p.mock = i
  <2>1. [req |-> conn[c].req, mock |-> conn[c].mock] \in Pairings
    BY <1>1 DEF Pairings
  <2> QED BY <1>1, <2>1
<1>2. ASSUME NEW n \in DOMAIN log, log[n].mock = i PROVE \E p \in Pairings : p.mock = i
  <2>1. [req |-> log[n].req, mock |-> log[n].mock] \in Pairings
    BY <1>2 DEF Pairings, Handled
  <2> QED BY <1>2, <2>1
<1>3. ASSUME NEW p \in Pairings, p.mock = i PROVE Owned(i)
  BY <1>3 DEF Pairings, Handled, Owned
<1> QED BY <1>1, <1>2, <1>3 DEF Owned

SpentOnce ==
  /\ \A c, d \in Conns : conn[c].mock # NoMock /\ conn[c].mock = conn[d].mock => c = d
  /\ \A m, n \in DOMAIN log : log[m].mock # NoMock /\ log[m].mock = log[n].mock => m = n
  /\ \A c \in Conns, n \in DOMAIN log : conn[c].mock # NoMock => conn[c].mock # log[n].mock
  /\ \A i \in Expects : hits[i] = IF Owned(i) THEN 1 ELSE 0

LEMMA SpentOnceIsEnough == SpentOnce => ExpectsSpentOnce
<1>1. \A i \in Expects : i # NoMock
  BY DeclAssumption DEF Expects, Mocks, NoMock
<1> QED BY <1>1, OwnedIsPaired DEF SpentOnce, ExpectsSpentOnce

LEMMA InitSpentOnce == Init => SpentOnce
<1>1. \A i \in Expects : i \in Mocks /\ i # NoMock
  BY DeclAssumption DEF Expects, Mocks, NoMock
<1> QED BY <1>1 DEF Init, SpentOnce, Owned, Idle

\* The history only grows at its end.
LEMMA Appended ==
  ASSUME Inv, NEW e \in Entries, log' = Append(log, e)
  PROVE  /\ DOMAIN log' = DOMAIN log \cup {Len(log) + 1}
         /\ Len(log) + 1 \notin DOMAIN log
         /\ \A n \in DOMAIN log : log'[n] = log[n]
         /\ log'[Len(log) + 1] = e
<1>1. log \in Seq(Entries)
  BY DEF Inv, ConnOK
<1>2. Len(log) \in Nat /\ DOMAIN log = 1 .. Len(log)
  BY <1>1
<1>3. DOMAIN log' = 1 .. Len(log) + 1
  BY <1>1
<1> QED BY <1>1, <1>2, <1>3

LEMMA NextSpentOnce ==
  ASSUME Inv, SpentOnce, [Next]_vars
  PROVE  SpentOnce'
<1>1. \A i \in Expects : i # NoMock
  BY DeclAssumption DEF Expects, Mocks, NoMock
<1>2. CASE Keeps
  BY <1>2 DEF Keeps, HitsKept, SpentOnce, Owned
<1>3. ASSUME NEW c \in Conns, Retires(c) PROVE SpentOnce'
  <2> DEFINE k == Len(log) + 1
  <2>1. PICK e \in Entries : e.mock = conn[c].mock /\ log' = Append(log, e)
    BY <1>3 DEF Retires
  <2>2. /\ DOMAIN log' = DOMAIN log \cup {k} /\ k \notin DOMAIN log
        /\ \A n \in DOMAIN log : log'[n] = log[n]
        /\ log'[k].mock = conn[c].mock
    BY <2>1, Appended
  <2>3. conn'[c].mock = NoMock /\ \A d \in Conns \ {c} : conn'[d] = conn[d]
    BY <1>3 DEF Retires
  <2> HIDE DEF k
  <2>4. \A i \in Expects : Owned(i)' <=> Owned(i)
    BY <1>1, <2>2, <2>3 DEF Owned
  <2>5. \A i \in Expects : hits'[i] = IF Owned(i)' THEN 1 ELSE 0
    BY <1>3, <2>4 DEF Retires, HitsKept, SpentOnce
  <2>6. \A a, b \in Conns : conn'[a].mock # NoMock /\ conn'[a].mock = conn'[b].mock => a = b
    BY <2>3 DEF SpentOnce
  <2>7. \A m, n \in DOMAIN log' :
          log'[m].mock # NoMock /\ log'[m].mock = log'[n].mock => m = n
    BY <2>2 DEF SpentOnce
  <2>8. \A a \in Conns, n \in DOMAIN log' :
          conn'[a].mock # NoMock => conn'[a].mock # log'[n].mock
    BY <2>2, <2>3 DEF SpentOnce
  <2> QED BY <2>5, <2>6, <2>7, <2>8 DEF SpentOnce
<1>4. ASSUME NEW c \in Conns, NEW i \in Expects, Takes(c, i) PROVE SpentOnce'
  <2>1. /\ conn[c].mock = NoMock /\ conn'[c].mock = i /\ log' = log
        /\ \A d \in Conns \ {c} : conn'[d] = conn[d]
    BY <1>4 DEF Takes
  <2>2. ~Owned(i)
    BY <1>4 DEF Takes, SpentOnce
  <2>3. hits' = [hits EXCEPT ![i] = 1] /\ hits \in [Mocks -> Nat]
    BY <1>4 DEF Takes, Inv, StoreOK
  <2>4. \A j \in Expects : Owned(j)' <=> Owned(j) \/ j = i
    BY <1>1, <2>1 DEF Owned
  <2>5. \A j \in Expects : hits'[j] = IF Owned(j)' THEN 1 ELSE 0
    BY <2>3, <2>4 DEF SpentOnce, Expects
  <2>6. \A a, b \in Conns : conn'[a].mock # NoMock /\ conn'[a].mock = conn'[b].mock => a = b
    BY <2>1, <2>2 DEF SpentOnce, Owned
  <2>7. \A a \in Conns, n \in DOMAIN log' :
          conn'[a].mock # NoMock => conn'[a].mock # log'[n].mock
    BY <2>1, <2>2 DEF SpentOnce, Owned
  <2> QED BY <2>1, <2>5, <2>6, <2>7 DEF SpentOnce
<1> QED BY <1>2, <1>3, <1>4, StepShape

(***************************************************************************)
(* For any spec and any traffic: no two requests are served from one       *)
(* EXPECT, and its hit counter is 1 exactly when one was.  The lookup and  *)
(* the count are one critical section of the registry; that every handler  *)
(* lets go of the statement it holds before it reads its next request is   *)
(* what HandlerInv adds.                                                   *)
(***************************************************************************)
THEOREM SpentOnceAlways == Spec => []ExpectsSpentOnce
<1>1. Init => Inv /\ SpentOnce
  BY InitInv, InitSpentOnce
<1>2. Inv /\ SpentOnce /\ [Next]_vars => (Inv /\ SpentOnce)'
  BY NextInv, NextSpentOnce
<1>3. Spec => [](Inv /\ SpentOnce)
  BY <1>1, <1>2, PTL DEF Spec
<1> QED BY <1>3, SpentOnceIsEnough, PTL

-----------------------------------------------------------------------------
(***************************************************************************)
(* The EXPECT that served a query is the one that should have.             *)
(***************************************************************************)
Suitable ==
  /\ \A c \in Conns : conn[c].mock # NoMock => Suits(conn[c].mock, conn[c].req, hits)
  /\ \A n \in DOMAIN log : log[n].mock # NoMock => Suits(log[n].mock, log[n].req, hits)

\* Spending EXPECTs leaves fewer candidates, so a best match stays one.
LEMMA SuitsPersists ==
  ASSUME NEW i, NEW r, NEW h, NEW g, Suits(i, r, h),
         \A j \in Mocks : g[j] = 0 => h[j] = 0
  PROVE  Suits(i, r, g)
<1>1. TableCandidates(g, r) \subseteq TableCandidates(h, r)
  BY DEF TableCandidates, Unconsumed
<1> QED BY <1>1 DEF Suits

LEMMA NextSuitable ==
  ASSUME Inv, Suitable, [Next]_vars
  PROVE  Suitable'
<1>1. NoneUnspent => \A i, r : Suits(i, r, hits) => Suits(i, r, hits')
  BY SuitsPersists DEF NoneUnspent
<1>2. CASE Keeps
  BY <1>1, <1>2 DEF Keeps, Suitable
<1>3. ASSUME NEW c \in Conns, Retires(c) PROVE Suitable'
  <2>1. PICK e \in Entries :
          e.req = conn[c].req /\ e.mock = conn[c].mock /\ log' = Append(log, e)
    BY <1>3 DEF Retires
  <2>2. \A n \in DOMAIN log' : (n \in DOMAIN log /\ log'[n] = log[n]) \/ log'[n] = e
    BY <2>1, Appended
  <2>3. \A i, r : Suits(i, r, hits) => Suits(i, r, hits')
    BY <1>1, <1>3 DEF Retires
  <2>4. \A n \in DOMAIN log' : log'[n].mock # NoMock => Suits(log'[n].mock, log'[n].req, hits')
    BY <2>1, <2>2, <2>3 DEF Suitable
  <2>5. \A d \in Conns : conn'[d].mock # NoMock => Suits(conn'[d].mock, conn'[d].req, hits')
    BY <1>3, <2>3 DEF Retires, Suitable
  <2> QED BY <2>4, <2>5 DEF Suitable
<1>4. ASSUME NEW c \in Conns, NEW i \in Expects, Takes(c, i) PROVE Suitable'
  <2>1. NoneUnspent
    BY <1>4 DEF Takes, NoneUnspent, Inv, StoreOK
  <2>2. \A j, r : Suits(j, r, hits) => Suits(j, r, hits')
    BY <1>1, <2>1
  <2>3. Suits(i, conn[c].req, hits)
    BY <1>4 DEF Takes, Request
  <2>4. \A d \in Conns : conn'[d].mock # NoMock => Suits(conn'[d].mock, conn'[d].req, hits')
    BY <1>4, <2>2, <2>3 DEF Takes, Suitable
  <2> QED BY <1>4, <2>2, <2>4 DEF Takes, Suitable
<1> QED BY <1>2, <1>3, <1>4, StepShape

LEMMA SuitableIsEnough == Suitable => ServedAsDeclared /\ BestMatchServed
<1>1. ASSUME Suitable, NEW p \in Pairings
      PROVE  Suits(p.mock, p.req, hits)
  BY <1>1 DEF Pairings, Handled, Suitable
<1> QED BY <1>1 DEF Suits, ServedAsDeclared, BestMatchServed

LEMMA AlwaysSuitable == Spec => []Suitable
<1>1. Init => Inv /\ Suitable
  BY InitInv DEF Init, Suitable, Idle
<1>2. Inv /\ Suitable /\ [Next]_vars => (Inv /\ Suitable)'
  BY NextInv, NextSuitable
<1> QED BY <1>1, <1>2, PTL DEF Spec

(***************************************************************************)
(* A statement with ACCESSING_TABLES never serves a query its VERIFY_*     *)
(* clauses exclude: not through the legacy matcher, which knows nothing of *)
(* them, and not because a race changed the candidates.                    *)
(***************************************************************************)
THEOREM DeclaredAlways == Spec => []ServedAsDeclared
BY AlwaysSuitable, SuitableIsEnough, PTL

(***************************************************************************)
(* Specificity, then the lowest CALL N, decide every semantic match, and   *)
(* no later step turns a match into the wrong one.                         *)
(***************************************************************************)
THEOREM BestMatchAlways == Spec => []BestMatchServed
BY AlwaysSuitable, SuitableIsEnough, PTL

-----------------------------------------------------------------------------
(***************************************************************************)
(* The calls the handler of each protocol makes, and what is behind a      *)
(* handler at each of them: the EXPECT_NOTs it has charged already.        *)
(***************************************************************************)
SQLProtocols == {"POSTGRESQL", "POSTGRESQL_EXTENDED", "MYSQL", "MYSQL_STMT"}

Route(p) ==
  CASE p = "HTTP"    -> {"negHTTP", "negHTTPHost", "findHTTP", "findHTTPHost", "verify", "passthrough"}
    [] p = "KAFKA"   -> {"negKey", "findBody", "verify", "passthrough"}
    [] p = "GRPC"    -> {"negRPC", "findBody", "verify", "passthrough", "forward"}
    [] p \in {"REDIS", "REDIS_POP"} ->
         {"pop", "negRedis", "findRedis", "verify", "passthrough", "refuse"}
    [] p = "MONGODB" -> {"findKey", "passthrough", "negKey"}
    [] p = "ORACLE"  -> {"findTables", "verify", "negTables"}
    [] p \in SQLProtocols ->
         {"prepare", "negTables", "negKey", "findTables", "findKey", "rewrite", "verify",
          "passthrough", "refuse"}

ChecksDone == {"findTables", "findKey", "findHTTP", "findHTTPHost", "findBody", "findRedis",
               "rewrite", "verify", "passthrough", "forward", "refuse"}

Charged(S, g) == \A i \in S : g[i] > 0

Behind(h, g) ==
  /\ h.at \in Route(h.req.proto)
  /\ h.at = "negHTTPHost" => Charged(CheckNegativeHTTPMocks(h.req.path, h.req), g)
  /\ h.at = "negKey" /\ h.req.proto \in SQLProtocols =>
       Charged(CheckNegativeMocksByTables(h.req), g)
  /\ h.at \in ChecksDone /\ h.req.proto \notin {"MONGODB", "ORACLE"} =>
       Charged(Forbidding(h.req), g)

HandlersBehind == \A c \in Conns : conn[c].at # "idle" => Behind(conn[c], hits)

\* What the history owes the EXPECT_NOTs once an entry is in it.
Excused(e) == \/ e.outcome = "seeded"
              \/ e.req.proto = "MYSQL_STMT" /\ e.outcome = "bypassed"

Settled(e, g) == Excused(e) \/ Charged(Forbidding(e.req), g)

NegInv == HandlersBehind /\ \A n \in DOMAIN log : Settled(log[n], hits)

LEMMA NegInvIsEnough == NegInv => NegativesReported
BY DEF NegInv, NegativesReported, Handled, Settled, Excused, Charged

\* A hit counter that left zero stays above it.
LEMMA ChargedStays ==
  ASSUME Inv, Inv', NoneUnspent, NEW S \in SUBSET Mocks, Charged(S, hits)
  PROVE  Charged(S, hits')
<1>1. hits \in [Mocks -> Nat] /\ hits' \in [Mocks -> Nat]
  BY DEF Inv, StoreOK
<1> QED BY <1>1 DEF NoneUnspent, Charged

LEMMA ForbiddingAreMocks ==
  ASSUME NEW q
  PROVE  /\ Forbidding(q) \subseteq Mocks
         /\ \A k : CheckNegativeHTTPMocks(k, q) \subseteq Mocks
         /\ CheckNegativeMocksByTables(q) \subseteq Mocks
<1>1. ExpectNots \subseteq Mocks
  BY DEF ExpectNots
<1>2. /\ CheckNegativeMocksByTables(q) \subseteq Mocks
      /\ CheckNegativeMocks(q) \subseteq Mocks
      /\ CheckNegativeGRPCMocks(q) \subseteq Mocks
      /\ CheckNegativeRedisMocks(q) \subseteq Mocks
      /\ \A k : CheckNegativeHTTPMocks(k, q) \subseteq Mocks
  BY <1>1, ChecksChargeExpectNots
<1> QED BY <1>2 DEF Forbidding

LEMMA BehindStays ==
  ASSUME Inv, Inv', NoneUnspent, NEW h, Behind(h, hits)
  PROVE  Behind(h, hits')
BY ChargedStays, ForbiddingAreMocks DEF Behind

LEMMA SettledStays ==
  ASSUME Inv, Inv', NoneUnspent, NEW e, Settled(e, hits)
  PROVE  Settled(e, hits')
BY ChargedStays, ForbiddingAreMocks DEF Settled

\* The checks of one call charge exactly the statements they name.
LEMMA NegativesCharge ==
  ASSUME Inv, NEW S \in SUBSET ExpectNots, RecordNegatives(S)
  PROVE  NoneUnspent /\ Charged(S, hits')
<1>1. S \subseteq Mocks
  BY DEF ExpectNots
<1>2. \A i \in S : hits'[i] = hits[i] + 1 /\ hits[i] \in Nat
  BY <1>1 DEF RecordNegatives, Inv, StoreOK
<1> QED BY <1>2, NegativesKeepHits DEF Charged

(***************************************************************************)
(* The two ways a step ends keep the invariant.                            *)
(***************************************************************************)
Moves(c, h) == /\ conn' = [conn EXCEPT ![c] = h]
               /\ log' = log

LEMMA MovesKeepsNeg ==
  ASSUME Inv, Inv', NegInv, NoneUnspent, NEW c \in Conns, NEW h, Moves(c, h),
         Behind(h, hits')
  PROVE  NegInv'
<1>1. \A d \in Conns : conn'[d] = IF d = c THEN h ELSE conn[d]
  BY DEF Moves, Inv, ConnOK, Handlers
<1>2. \A d \in Conns : conn'[d].at # "idle" => Behind(conn'[d], hits')
  BY <1>1, BehindStays DEF NegInv, HandlersBehind
<1>3. \A n \in DOMAIN log' : Settled(log'[n], hits')
  BY SettledStays DEF NegInv, Moves
<1> QED BY <1>2, <1>3 DEF NegInv, HandlersBehind

LEMMA FinishKeepsNeg ==
  ASSUME Inv, Inv', NegInv, NoneUnspent, NEW c \in Conns, conn[c].at # "idle",
         NEW outcome \in Outcomes, Finish(c, outcome),
         \/ outcome = "seeded"
         \/ Request(c).proto = "MYSQL_STMT" /\ outcome = "bypassed"
         \/ Charged(Forbidding(Request(c)), hits')
  PROVE  NegInv'
<1> DEFINE e == [req |-> Request(c), mock |-> conn[c].mock, outcome |-> outcome]
<1>1. e \in Entries
  BY Busy DEF Entries
<1>2. Settled(e, hits')
  BY DEF Settled, Excused
<1>3. log' = Append(log, e)
  BY DEF Finish
<1>4. \A d \in Conns : conn'[d] = IF d = c THEN Idle ELSE conn[d]
  BY DEF Finish, Inv, ConnOK, Handlers
<1> HIDE DEF e
<1>5. \A n \in DOMAIN log' : (n \in DOMAIN log /\ log'[n] = log[n]) \/ log'[n] = e
  BY <1>1, <1>3, Appended
<1>6. \A n \in DOMAIN log' : Settled(log'[n], hits')
  BY <1>2, <1>5, SettledStays DEF NegInv
<1>7. \A d \in Conns : conn'[d].at # "idle" => Behind(conn'[d], hits')
  BY <1>4, BehindStays DEF NegInv, HandlersBehind, Idle
<1> QED BY <1>6, <1>7 DEF NegInv, HandlersBehind

-----------------------------------------------------------------------------
(***************************************************************************)
(* Every step keeps what was charged.                                      *)
(***************************************************************************)
\* A handler is on the route of its protocol, with the checks behind it done.
LEMMA BusyBehind ==
  ASSUME Inv, NegInv, NEW c \in Conns, conn[c].at # "idle"
  PROVE  Behind(conn[c], hits) /\ Request(c) \in Requests /\ Request(c).proto \in Protocols
BY Busy, RequestsAssumption DEF NegInv, HandlersBehind, Request

LEMMA ProceedMoves ==
  ASSUME NEW c, NEW step, NEW mock, Proceed(c, step, mock)
  PROVE  Moves(c, [at |-> step, req |-> Request(c), mock |-> mock])
BY DEF Proceed, Moves

LEMMA ReceiveNeg ==
  ASSUME Inv, Inv', NegInv, NEW c \in Conns, NEW r \in Requests, Receive(c, r)
  PROVE  NegInv'
<1>1. NoneUnspent
  BY SameHits DEF Receive
<1>2. PICK step \in {FirstStep(r.proto)} \cup (IF PreparedHere(c, r) THEN {"negTables"} ELSE {}) :
        conn' = [conn EXCEPT ![c] = [at |-> step, req |-> r, mock |-> NoMock]]
  BY DEF Receive
<1> DEFINE h == [at |-> step, req |-> r, mock |-> NoMock]
<1>3. r.proto \in Protocols
  BY RequestsAssumption
<1>4. FirstStep(r.proto) \in Route(r.proto) \ {"negHTTPHost"}
  BY <1>3 DEF FirstStep, Route, Protocols, SQLProtocols
<1>5. /\ FirstStep(r.proto) = "negKey" => r.proto \notin SQLProtocols
      /\ FirstStep(r.proto) \in ChecksDone => r.proto \in {"MONGODB", "ORACLE"}
  BY <1>3 DEF FirstStep, Protocols, SQLProtocols, ChecksDone
<1>6. PreparedHere(c, r) => "negTables" \in Route(r.proto)
  BY DEF PreparedHere, IsPrepared, Route, SQLProtocols
<1>7. Behind(h, hits')
  BY <1>4, <1>5, <1>6 DEF Behind, ChecksDone
<1>8. Moves(c, h)
  BY <1>2 DEF Moves, Receive
<1> QED BY <1>1, <1>7, <1>8, MovesKeepsNeg

LEMMA ChecksNeg ==
  ASSUME Inv, Inv', NegInv, NEW c \in Conns,
         \/ CheckNegativeTables(c) \/ CheckNegativeKey(c)
         \/ CheckNegativeHTTP(c) \/ CheckNegativeRPC(c)
  PROVE  NegInv'
<1> DEFINE q == Request(c)
           At_(step, mock) == [at |-> step, req |-> q, mock |-> mock]
<1>1. conn[c].at # "idle"
  BY DEF CheckNegativeTables, CheckNegativeKey, CheckNegativeHTTP, CheckNegativeRPC, At
<1>2. Behind(conn[c], hits) /\ q.proto \in Protocols /\ conn[c].req = q
  BY <1>1, BusyBehind DEF Request
<1>3. Outcome(c) \in Outcomes
  BY DEF Outcome, Outcomes
<1>4. CASE CheckNegativeTables(c)
  <2>1. conn[c].at = "negTables" /\ RecordNegatives(CheckNegativeMocksByTables(q))
    BY <1>4 DEF CheckNegativeTables, At
  <2>2. NoneUnspent /\ Charged(CheckNegativeMocksByTables(q), hits')
    BY <2>1, NegativesCharge, ChecksChargeExpectNots
  <2>3. q.proto \in SQLProtocols \cup {"ORACLE"}
    BY <1>2, <2>1 DEF Behind, Route, Protocols, SQLProtocols
  <2>4. CASE q.proto = "ORACLE"
    <3>1. Forbidding(q) = CheckNegativeMocksByTables(q)
      BY <2>4 DEF Forbidding
    <3>2. Finish(c, Outcome(c))
      BY <1>4, <2>4 DEF CheckNegativeTables
    <3> QED BY <1>1, <1>3, <2>2, <3>1, <3>2, FinishKeepsNeg
  <2>5. CASE q.proto # "ORACLE"
    <3>1. Moves(c, At_("negKey", NoMock))
      BY <1>4, <2>5, ProceedMoves DEF CheckNegativeTables
    <3>2. Behind(At_("negKey", NoMock), hits')
      BY <2>2, <2>3, <2>5 DEF Behind, Route, SQLProtocols, ChecksDone
    <3> QED BY <2>2, <3>1, <3>2, MovesKeepsNeg
  <2> QED BY <2>4, <2>5
<1>5. CASE CheckNegativeKey(c)
  <2>1. conn[c].at = "negKey" /\ RecordNegatives(CheckNegativeMocks(q))
    BY <1>5 DEF CheckNegativeKey, At
  <2>2. NoneUnspent /\ Charged(CheckNegativeMocks(q), hits')
    BY <2>1, NegativesCharge, ChecksChargeExpectNots
  <2>3. q.proto \in SQLProtocols \cup {"KAFKA", "MONGODB"}
    BY <1>2, <2>1 DEF Behind, Route, Protocols, SQLProtocols
  <2>4. CASE q.proto = "MONGODB"
    <3>1. Forbidding(q) = CheckNegativeMocks(q)
      BY <2>4 DEF Forbidding
    <3>2. Finish(c, Outcome(c))
      BY <1>5, <2>4 DEF CheckNegativeKey
    <3> QED BY <1>1, <1>3, <2>2, <3>1, <3>2, FinishKeepsNeg
  <2>5. CASE q.proto = "KAFKA"
    <3>1. Forbidding(q) = CheckNegativeMocks(q)
      BY <2>5 DEF Forbidding
    <3>2. Moves(c, At_("findBody", NoMock))
      BY <1>5, <2>5, ProceedMoves DEF CheckNegativeKey
    <3>3. Behind(At_("findBody", NoMock), hits')
      BY <2>2, <2>5, <3>1 DEF Behind, Route, SQLProtocols, ChecksDone
    <3> QED BY <2>2, <3>2, <3>3, MovesKeepsNeg
  <2>6. CASE q.proto \in SQLProtocols
    <3>1. Forbidding(q) = CheckNegativeMocksByTables(q) \cup CheckNegativeMocks(q)
      BY <2>6 DEF Forbidding, SQLProtocols
    <3>2. Charged(CheckNegativeMocksByTables(q), hits)
      BY <1>2, <2>1, <2>6 DEF Behind
    <3>3. Charged(Forbidding(q), hits')
      BY <2>2, <3>1, <3>2, ChargedStays, ForbiddingAreMocks DEF Charged
    <3>4. Moves(c, At_("findTables", NoMock))
      BY <1>5, <2>6, ProceedMoves DEF CheckNegativeKey, SQLProtocols
    <3>5. Behind(At_("findTables", NoMock), hits')
      BY <2>6, <3>3 DEF Behind, Route, SQLProtocols
    <3> QED BY <2>2, <3>4, <3>5, MovesKeepsNeg
  <2> QED BY <2>3, <2>4, <2>5, <2>6
<1>6. CASE CheckNegativeHTTP(c) /\ conn[c].at = "negHTTP"
  <2>1. RecordNegatives(CheckNegativeHTTPMocks(q.path, q)) /\ Proceed(c, "negHTTPHost", NoMock)
    BY <1>6 DEF CheckNegativeHTTP, At
  <2>2. NoneUnspent /\ Charged(CheckNegativeHTTPMocks(q.path, q), hits')
    BY <2>1, NegativesCharge, ChecksChargeExpectNots
  <2>3. q.proto = "HTTP"
    BY <1>2, <1>6 DEF Behind, Route, Protocols, SQLProtocols
  <2>4. Behind(At_("negHTTPHost", NoMock), hits')
    BY <2>2, <2>3 DEF Behind, Route, SQLProtocols, ChecksDone
  <2> QED BY <2>1, <2>2, <2>4, ProceedMoves, MovesKeepsNeg
<1>7. CASE CheckNegativeHTTP(c) /\ conn[c].at # "negHTTP"
  <2>1. /\ conn[c].at = "negHTTPHost"
        /\ RecordNegatives(CheckNegativeHTTPMocks(q.key, q)) /\ Proceed(c, "findHTTP", NoMock)
    BY <1>7 DEF CheckNegativeHTTP, At
  <2>2. NoneUnspent /\ Charged(CheckNegativeHTTPMocks(q.key, q), hits')
    BY <2>1, NegativesCharge, ChecksChargeExpectNots
  <2>3. q.proto = "HTTP"
    BY <1>2, <2>1 DEF Behind, Route, Protocols, SQLProtocols
  <2>4. Charged(CheckNegativeHTTPMocks(q.path, q), hits')
    BY <1>2, <2>1, <2>2, ChargedStays, ForbiddingAreMocks DEF Behind
  <2>5. Forbidding(q) = CheckNegativeHTTPMocks(q.path, q) \cup CheckNegativeHTTPMocks(q.key, q)
    BY <2>3 DEF Forbidding
  <2>6. Behind(At_("findHTTP", NoMock), hits')
    BY <2>2, <2>3, <2>4, <2>5 DEF Behind, Route, SQLProtocols, ChecksDone, Charged
  <2> QED BY <2>1, <2>2, <2>6, ProceedMoves, MovesKeepsNeg
<1>8. CASE CheckNegativeRPC(c) /\ conn[c].at = "negRPC"
  <2>1. RecordNegatives(CheckNegativeGRPCMocks(q)) /\ Proceed(c, "findBody", NoMock)
    BY <1>8 DEF CheckNegativeRPC, At
  <2>2. NoneUnspent /\ Charged(CheckNegativeGRPCMocks(q), hits')
    BY <2>1, NegativesCharge, ChecksChargeExpectNots
  <2>3. q.proto = "GRPC"
    BY <1>2, <1>8 DEF Behind, Route, Protocols, SQLProtocols
  <2>4. Forbidding(q) = CheckNegativeGRPCMocks(q)
    BY <2>3 DEF Forbidding
  <2>5. Behind(At_("findBody", NoMock), hits')
    BY <2>2, <2>3, <2>4 DEF Behind, Route, SQLProtocols, ChecksDone
  <2> QED BY <2>1, <2>2, <2>5, ProceedMoves, MovesKeepsNeg
<1>9. CASE CheckNegativeRPC(c) /\ conn[c].at # "negRPC"
  <2>1. /\ conn[c].at = "negRedis"
        /\ RecordNegatives(CheckNegativeRedisMocks(q)) /\ Proceed(c, "findRedis", NoMock)
    BY <1>9 DEF CheckNegativeRPC, At
  <2>2. NoneUnspent /\ Charged(CheckNegativeRedisMocks(q), hits')
    BY <2>1, NegativesCharge, ChecksChargeExpectNots
  <2>3. q.proto \in {"REDIS", "REDIS_POP"}
    BY <1>2, <2>1 DEF Behind, Route, Protocols, SQLProtocols
  <2>4. Forbidding(q) = CheckNegativeRedisMocks(q)
    BY <2>3 DEF Forbidding
  <2>5. Behind(At_("findRedis", NoMock), hits')
    BY <2>2, <2>3, <2>4 DEF Behind, Route, SQLProtocols, ChecksDone
  <2> QED BY <2>1, <2>2, <2>5, ProceedMoves, MovesKeepsNeg
<1> QED BY <1>4, <1>5, <1>6, <1>7, <1>8, <1>9

\* Once the checks are done they stay done, wherever the handler goes next.
LEMMA StaysBehind ==
  ASSUME NEW h, NEW g, Behind(h, g), h.at \in ChecksDone, NEW mock,
         NEW step \in Route(h.req.proto), step # "negHTTPHost",
         step = "negKey" => h.req.proto \notin SQLProtocols
  PROVE  Behind([at |-> step, req |-> h.req, mock |-> mock], g)
BY DEF Behind

LEMMA ProceedKeepsNeg ==
  ASSUME Inv, Inv', NegInv, NoneUnspent, NEW c \in Conns, conn[c].at \in ChecksDone, NEW mock,
         NEW step \in Route(Request(c).proto), step # "negHTTPHost",
         step = "negKey" => Request(c).proto \notin SQLProtocols,
         Proceed(c, step, mock)
  PROVE  NegInv'
<1> DEFINE h == [at |-> step, req |-> Request(c), mock |-> mock]
<1>1. Behind(conn[c], hits)
  BY BusyBehind DEF ChecksDone
<1>2. Behind(h, hits)
  BY <1>1, StaysBehind DEF Request
<1>3. Moves(c, h)
  BY ProceedMoves
<1> HIDE DEF h
<1> QED BY <1>2, <1>3, BehindStays, MovesKeepsNeg

LEMMA LookupsNeg ==
  ASSUME Inv, Inv', NegInv, NEW c \in Conns,
         FindByTables(c) \/ FindByKey(c) \/ FindHTTP(c) \/ FindRPC(c) \/ FindRedis(c)
  PROVE  NegInv'
<1> DEFINE q == Request(c)
<1>1. conn[c].at \in {"findTables", "findKey", "findHTTP", "findHTTPHost", "findBody", "findRedis"}
  BY DEF FindByTables, FindByKey, FindHTTP, FindRPC, FindRedis, At
<1>2. conn[c].at \in ChecksDone /\ conn[c].at \in Route(q.proto) /\ q.proto \in Protocols
  BY <1>1, BusyBehind DEF ChecksDone, Behind, Request
<1>3. \E step, mock : Proceed(c, step, mock) /\ step \in Route(q.proto)
                       /\ step # "negHTTPHost" /\ (step = "negKey" => q.proto = "MONGODB")
  <2>1. CASE FindByTables(c)
    <3>1. q.proto \in SQLProtocols \cup {"ORACLE"}
      BY <1>2, <2>1 DEF FindByTables, At, Route, Protocols, SQLProtocols
    <3>2. AfterSQLMatch(q) \in {"rewrite", "verify"} \cap Route(q.proto)
      BY <3>1 DEF AfterSQLMatch, IsMySQL, Route, SQLProtocols
    <3>3. (IF q.proto = "ORACLE" THEN "negTables" ELSE "findKey") \in Route(q.proto)
      BY <3>1 DEF Route, SQLProtocols
    <3> QED BY <2>1, <3>1, <3>2, <3>3 DEF FindByTables, Consume, Miss
  <2>2. CASE FindByKey(c)
    <3>1. q.proto \in SQLProtocols \cup {"MONGODB"}
      BY <1>2, <2>2 DEF FindByKey, At, Route, Protocols, SQLProtocols
    <3>2. /\ AfterSQLMatch(q) \in {"rewrite", "verify", "negKey"} \cap Route(q.proto)
          /\ AfterSQLMatch(q) = "negKey" => q.proto = "MONGODB"
      BY <3>1 DEF AfterSQLMatch, IsMySQL, Route, SQLProtocols
    <3>3. AfterSQLMiss(c, q) \in {"refuse", "passthrough"} \cap Route(q.proto)
      BY <3>1 DEF AfterSQLMiss, PreparedHere, IsPrepared, Route, SQLProtocols
    <3> QED BY <2>2, <3>2, <3>3 DEF FindByKey, Consume, Miss
  <2>3. CASE FindHTTP(c)
    <3>1. q.proto = "HTTP"
      BY <1>2, <2>3 DEF FindHTTP, At, Route, Protocols, SQLProtocols
    <3>2. {"verify", "findHTTPHost", "passthrough"} \subseteq Route(q.proto)
      BY <3>1 DEF Route, SQLProtocols
    <3> QED BY <2>3, <3>2 DEF FindHTTP, Consume, Miss
  <2>4. CASE FindRPC(c)
    <3>1. q.proto \in {"KAFKA", "GRPC"}
      BY <1>2, <2>4 DEF FindRPC, At, Route, Protocols, SQLProtocols
    <3>2. {"verify", "passthrough"} \subseteq Route(q.proto)
      BY <3>1 DEF Route, SQLProtocols
    <3>3. q.proto = "GRPC" => "forward" \in Route(q.proto)
      BY DEF Route, SQLProtocols
    <3>4. \/ \E i : Proceed(c, "verify", i)
          \/ Proceed(c, "passthrough", NoMock)
          \/ Proceed(c, "forward", NoMock) /\ q.proto = "GRPC"
      BY <2>4 DEF FindRPC, Consume, Miss
    <3> QED BY <3>2, <3>3, <3>4
  <2>5. CASE FindRedis(c)
    <3>1. q.proto \in {"REDIS", "REDIS_POP"}
      BY <1>2, <2>5 DEF FindRedis, At, Route, Protocols, SQLProtocols
    <3>2. {"verify", "passthrough", "refuse"} \subseteq Route(q.proto)
      BY <3>1 DEF Route, SQLProtocols
    <3> QED BY <2>5, <3>2 DEF FindRedis, Consume, Miss
  <2> QED BY <2>1, <2>2, <2>3, <2>4, <2>5
<1>4. NoneUnspent
  <2>1. Keeps \/ \E i \in Expects : Takes(c, i)
    BY LookupsShape
  <2> QED BY <2>1 DEF Keeps, Takes, NoneUnspent, Inv, StoreOK
<1> QED BY <1>2, <1>3, <1>4, ProceedKeepsNeg DEF SQLProtocols

LEMMA OthersNeg ==
  ASSUME Inv, Inv', NegInv, NEW c \in Conns,
         \/ Prepare(c) \/ PopSeed(c) \/ RewriteSQL(c) \/ Verify(c)
         \/ RecordPassthrough(c) \/ ForwardToUpstream(c) \/ Refuse(c)
  PROVE  NegInv'
<1> DEFINE q == Request(c)
<1>1. conn[c].at \in {"prepare", "pop", "rewrite", "verify", "passthrough", "forward", "refuse"}
  BY DEF Prepare, PopSeed, RewriteSQL, Verify, RecordPassthrough, ForwardToUpstream, Refuse, At
<1>2. Behind(conn[c], hits) /\ conn[c].at \in Route(q.proto) /\ q.proto \in Protocols
  BY <1>1, BusyBehind DEF Behind, Request
<1>3. NoneUnspent
  BY SameHits
  DEF Prepare, PopSeed, RewriteSQL, Verify, RecordPassthrough, ForwardToUpstream, Refuse
<1>4. ASSUME conn[c].at \in ChecksDone, q.proto \notin {"MONGODB", "ORACLE"}
      PROVE  Charged(Forbidding(q), hits')
  BY <1>2, <1>3, <1>4, ChargedStays, ForbiddingAreMocks DEF Behind, Request
<1>5. CASE Prepare(c)
  <2>1. q.proto \in SQLProtocols
    BY <1>2, <1>5 DEF Prepare, At, Route, Protocols, SQLProtocols
  <2>2. Behind([at |-> "negTables", req |-> q, mock |-> NoMock], hits')
    BY <2>1 DEF Behind, Route, SQLProtocols, ChecksDone
  <2>3. \/ Finish(c, "bypassed") /\ q.proto = "MYSQL_STMT"
        \/ Moves(c, [at |-> "negTables", req |-> q, mock |-> NoMock])
    BY <1>5, ProceedMoves DEF Prepare
  <2> QED BY <1>1, <1>3, <2>2, <2>3, MovesKeepsNeg, FinishKeepsNeg DEF Outcomes
<1>6. CASE PopSeed(c)
  <2>1. q.proto \in {"REDIS", "REDIS_POP"}
    BY <1>2, <1>6 DEF PopSeed, At, Route, Protocols, SQLProtocols
  <2>2. Behind([at |-> "negRedis", req |-> q, mock |-> NoMock], hits')
    BY <2>1 DEF Behind, Route, SQLProtocols, ChecksDone
  <2>3. Finish(c, "seeded") \/ Moves(c, [at |-> "negRedis", req |-> q, mock |-> NoMock])
    BY <1>6, ProceedMoves DEF PopSeed
  <2> QED BY <1>1, <1>3, <2>2, <2>3, MovesKeepsNeg, FinishKeepsNeg DEF Outcomes
<1>7. CASE RewriteSQL(c)
  <2>1. conn[c].at = "rewrite" /\ Proceed(c, "verify", conn[c].mock)
    BY <1>7 DEF RewriteSQL, At
  <2>2. "verify" \in Route(q.proto)
    BY <1>2, <2>1 DEF Route, Protocols, SQLProtocols
  <2> QED BY <1>3, <2>1, <2>2, ProceedKeepsNeg DEF ChecksDone
<1>8. CASE Verify(c)
  <2>1. conn[c].at = "verify"
    BY <1>8 DEF Verify, At
  <2>2. q.proto # "MONGODB"
    BY <1>2, <2>1 DEF Route, SQLProtocols
  <2>3. CASE q.proto = "ORACLE"
    <3>1. Proceed(c, "negTables", conn[c].mock)
      BY <1>8, <2>3 DEF Verify
    <3>2. "negTables" \in Route(q.proto)
      BY <2>3 DEF Route, SQLProtocols
    <3> QED BY <1>3, <2>1, <3>1, <3>2, ProceedKeepsNeg DEF ChecksDone
  <2>4. CASE q.proto # "ORACLE"
    <3>1. Finish(c, "served")
      BY <1>8, <2>4 DEF Verify
    <3>2. Charged(Forbidding(q), hits')
      BY <1>4, <2>1, <2>2, <2>4 DEF ChecksDone
    <3> QED BY <1>1, <1>3, <3>1, <3>2, FinishKeepsNeg DEF Outcomes
  <2> QED BY <2>3, <2>4
<1>9. CASE RecordPassthrough(c)
  <2>1. conn[c].at = "passthrough" /\ q.proto # "ORACLE"
    BY <1>2, <1>9 DEF RecordPassthrough, At, Route, SQLProtocols
  <2>2. CASE q.proto = "MONGODB"
    <3>1. Proceed(c, "negKey", NoMock)
      BY <1>9, <2>2 DEF RecordPassthrough
    <3>2. "negKey" \in Route(q.proto) /\ q.proto \notin SQLProtocols
      BY <2>2 DEF Route, SQLProtocols
    <3> QED BY <1>3, <2>1, <3>1, <3>2, ProceedKeepsNeg DEF ChecksDone
  <2>3. CASE q.proto # "MONGODB"
    <3>1. Finish(c, "bypassed")
      BY <1>9, <2>3 DEF RecordPassthrough
    <3>2. Charged(Forbidding(q), hits')
      BY <1>4, <2>1, <2>3 DEF ChecksDone
    <3> QED BY <1>1, <1>3, <3>1, <3>2, FinishKeepsNeg DEF Outcomes
  <2> QED BY <2>2, <2>3
<1>10. CASE ForwardToUpstream(c) \/ Refuse(c)
  <2>1. /\ conn[c].at \in {"forward", "refuse"}
        /\ Finish(c, "bypassed") \/ Finish(c, "refused")
    BY <1>10 DEF ForwardToUpstream, Refuse, At
  <2>2. q.proto \notin {"MONGODB", "ORACLE"}
    BY <1>2, <2>1 DEF Route, SQLProtocols
  <2>3. Charged(Forbidding(q), hits')
    BY <1>4, <2>1, <2>2 DEF ChecksDone
  <2> QED BY <1>1, <1>3, <2>1, <2>3, FinishKeepsNeg DEF Outcomes
<1> QED BY <1>5, <1>6, <1>7, <1>8, <1>9, <1>10

LEMMA NextNeg ==
  ASSUME Inv, Inv', NegInv, [Next]_vars
  PROVE  NegInv'
<1>1. CASE UNCHANGED vars
  BY <1>1 DEF vars, NegInv, HandlersBehind
<1>2. ASSUME NEW c \in Conns, Handle(c) PROVE NegInv'
  BY <1>2, ChecksNeg, LookupsNeg, OthersNeg DEF Handle
<1>3. ASSUME NEW c \in Conns, NEW r \in Requests, Receive(c, r) PROVE NegInv'
  BY <1>3, ReceiveNeg
<1> QED BY <1>1, <1>2, <1>3 DEF Next

(***************************************************************************)
(* For any spec and any traffic: a request that was answered or forwarded  *)
(* has charged every EXPECT_NOT it breaks, wherever its proxy makes the    *)
(* check - before the lookup, after it, or after the answer - and however  *)
(* the other connections interleave.  Excused are seeded pops, and MySQL   *)
(* statements forwarded when they were prepared.                           *)
(***************************************************************************)
THEOREM NegativesAlways == Spec => []NegativesReported
<1>1. Init => Inv /\ NegInv
  <2>1. Init => NegInv
    BY DEF Init, NegInv, HandlersBehind, Idle
  <2> QED BY <2>1, InitInv
<1>2. Inv /\ NegInv /\ [Next]_vars => (Inv /\ NegInv)'
  BY NextInv, NextNeg
<1>3. Spec => []NegInv
  BY <1>1, <1>2, PTL DEF Spec
<1> QED BY <1>3, NegInvIsEnough, PTL

-----------------------------------------------------------------------------
(***************************************************************************)
(* The ledger.  What a lookup finds describes the request it found it for. *)
(***************************************************************************)
LEMMA FoundByTablesFits ==
  ASSUME NEW h, NEW q, NEW i \in FindMockByTables(h, q)
  PROVE  DescribesQuery(i, q)
<1>1. i \in TableCandidates(h, q) /\ matchesSemanticConstraints(i, q)
  BY PicksAreCandidates DEF FindMockByTables
<1> QED BY <1>1 DEF TableCandidates, Bucket, getExpectKey, DescribesQuery

LEMMA FoundByKeyFits ==
  ASSUME NEW h, NEW o, NEW q, NEW i \in FindMock(h, o, q)
  PROVE  DescribesQuery(i, q)
<1>1. i \in TextPass(h, q) \cup VerbPass(h, q) /\ legacyVerifyHolds(i, q)
  BY PicksAreCandidates DEF FindMock
<1>2. i \in LegacyCandidates(h, q)
  BY <1>1 DEF TextPass, VerbPass
<1>3. TextMatches(i, q) \/ (getExpectKey(i) = {q.key} /\ ~HasText(i) /\ VerbMatches(i, q))
  BY <1>1 DEF TextPass, VerbPass, Bucket
<1>4. ~IsSemantic(i)
  BY FoundSuits
<1> QED BY <1>1, <1>2, <1>3, <1>4 DEF LegacyCandidates, DescribesQuery

LEMMA FoundByBodyFits ==
  ASSUME NEW h, NEW r
  PROVE  /\ \A key : \A i \in FindHTTPMockWithBody(h, key, r) :
               /\ Decl[i].channel = "HTTP" /\ getExpectKey(i) = {key} /\ BodyMatches(i, r)
               /\ Decl[i].method \in {"", r.method} /\ Decl[i].headers \subseteq r.headers
         /\ \A i \in FindKafkaMockWithBody(h, r) :
               Decl[i].channel = "EVENT" /\ getExpectKey(i) = {r.key} /\ BodyMatches(i, r)
         /\ \A i \in FindGRPCMockWithBody(h, r) :
               Decl[i].channel = "GRPC" /\ getExpectKey(i) = {r.key} /\ BodyMatches(i, r)
<1>1. ASSUME NEW key, NEW i \in FindHTTPMockWithBody(h, key, r)
      PROVE  /\ Decl[i].channel = "HTTP" /\ getExpectKey(i) = {key} /\ BodyMatches(i, r)
             /\ Decl[i].method \in {"", r.method} /\ Decl[i].headers \subseteq r.headers
  <2>1. i \in HTTPCandidates(h, key, r)
    BY <1>1, PicksAreCandidates DEF FindHTTPMockWithBody
  <2> QED BY <2>1 DEF HTTPCandidates, Bucket
<1>2. ASSUME NEW ch, NEW i \in FindByBody(h, {ch}, r)
      PROVE  Decl[i].channel = ch /\ getExpectKey(i) = {r.key} /\ BodyMatches(i, r)
  BY <1>2, PicksAreCandidates DEF FindByBody, Bucket
<1> QED BY <1>1, <1>2 DEF FindKafkaMockWithBody, FindGRPCMockWithBody

LEMMA FoundRedisFits ==
  ASSUME NEW h, NEW r, NEW i \in FindRedisMock(h, r)
  PROVE  Decl[i].channel \in Redis /\ getExpectKey(i) = {r.key}
BY PicksAreCandidates DEF FindRedisMock, Bucket

(***************************************************************************)
(* The owner of an EXPECT is the request of the one handler or the one     *)
(* entry of the history that holds it.                                     *)
(***************************************************************************)
OwnersRight ==
  \A i \in Expects :
    /\ \A c \in Conns : conn[c].mock = i => OwnerOf(i) = conn[c].req
    /\ \A n \in DOMAIN log : log[n].mock = i => OwnerOf(i) = log[n].req
    /\ ~Owned(i) => OwnerOf(i) = NoRequest

LEMMA OwnerIsHolder == SpentOnce => OwnersRight
<1> SUFFICES ASSUME SpentOnce, NEW i \in Expects
             PROVE  /\ \A c \in Conns : conn[c].mock = i => OwnerOf(i) = conn[c].req
                    /\ \A n \in DOMAIN log : log[n].mock = i => OwnerOf(i) = log[n].req
                    /\ ~Owned(i) => OwnerOf(i) = NoRequest
  BY DEF OwnersRight
<1>1. i # NoMock
  BY DeclAssumption DEF Expects, Mocks, NoMock
<1>2. \A p, r \in Pairings : p.mock = i /\ r.mock = i => p.req = r.req
  BY <1>1 DEF Pairings, Handled, SpentOnce
<1>3. \A p \in Pairings : p.mock = i => OwnerOf(i) = p.req
  BY <1>2 DEF OwnerOf
<1>4. ASSUME NEW c \in Conns, conn[c].mock = i PROVE OwnerOf(i) = conn[c].req
  <2>1. [req |-> conn[c].req, mock |-> conn[c].mock] \in Pairings
    BY <1>1, <1>4 DEF Pairings
  <2> QED BY <1>3, <1>4, <2>1
<1>5. ASSUME NEW n \in DOMAIN log, log[n].mock = i PROVE OwnerOf(i) = log[n].req
  <2>1. [req |-> log[n].req, mock |-> log[n].mock] \in Pairings
    BY <1>1, <1>5 DEF Pairings, Handled
  <2> QED BY <1>3, <1>5, <2>1
<1>6. ~Owned(i) => OwnerOf(i) = NoRequest
  BY <1>1, OwnedIsPaired DEF OwnerOf
<1> QED BY <1>4, <1>5, <1>6

LEMMA InitLedger == Init => Ledger!Init
<1> SUFFICES ASSUME Init PROVE Ledger!Init
  OBVIOUS
<1>1. SpentOnce
  BY InitSpentOnce
<1>2. \A i \in Expects : i # NoMock /\ i \in Mocks
  BY DeclAssumption DEF Expects, Mocks, NoMock
<1>3. \A i \in Expects : OwnerOf(i) = NoRequest
  BY <1>1, <1>2, OwnerIsHolder DEF Init, Owned, Idle, OwnersRight
<1>4. \A i \in ExpectNots : hits[i] = 0
  BY DEF Init, ExpectNots
<1> QED BY <1>3, <1>4 DEF Ledger!Init, Init

LEMMA SameOwners ==
  ASSUME Inv, SpentOnce, OwnersRight, OwnersRight', Keeps \/ \E c \in Conns : Retires(c), NEW i \in Expects
  PROVE  OwnerOf(i)' = OwnerOf(i)
<1>1. i # NoMock
  BY DeclAssumption DEF Expects, Mocks, NoMock
<1>2. /\ \A c \in Conns : conn'[c].mock = i => OwnerOf(i)' = conn'[c].req
      /\ \A n \in DOMAIN log' : log'[n].mock = i => OwnerOf(i)' = log'[n].req
      /\ ~Owned(i)' => OwnerOf(i)' = NoRequest
  BY DEF OwnersRight, Owned
<1>3. CASE Keeps
  BY <1>1, <1>2, <1>3 DEF Keeps, Owned, OwnersRight
<1>4. ASSUME NEW c \in Conns, Retires(c) PROVE OwnerOf(i)' = OwnerOf(i)
  <2>1. PICK e \in Entries :
          e.req = conn[c].req /\ e.mock = conn[c].mock /\ log' = Append(log, e)
    BY <1>4 DEF Retires
  <2>2. \A n \in DOMAIN log' : (n \in DOMAIN log /\ log'[n] = log[n]) \/ log'[n] = e
    BY <2>1, Appended
  <2>3. DOMAIN log \subseteq DOMAIN log' /\ \A n \in DOMAIN log : log'[n] = log[n]
    BY <2>1, Appended
  <2>4. CASE Owned(i)
    BY <1>1, <1>2, <1>4, <2>1, <2>3, <2>4, Appended DEF Retires, Owned, OwnersRight
  <2>5. CASE ~Owned(i)
    <3>1. ~Owned(i)'
      BY <1>1, <1>4, <2>1, <2>2, <2>5 DEF Retires, Owned
    <3> QED BY <1>2, <2>5, <3>1 DEF OwnersRight
  <2> QED BY <2>4, <2>5
<1> QED BY <1>3, <1>4

LEMMA TakesOwns ==
  ASSUME Inv, SpentOnce, OwnersRight, OwnersRight', NEW c \in Conns, NEW i \in Expects, Takes(c, i)
  PROVE  /\ OwnerOf(i) = NoRequest /\ OwnerOf(i)' = Request(c)
         /\ \A j \in Expects \ {i} : OwnerOf(j)' = OwnerOf(j)
<1>1. \A j \in Expects : j # NoMock
  BY DeclAssumption DEF Expects, Mocks, NoMock
<1>2. \A j \in Expects :
        /\ \A d \in Conns : conn'[d].mock = j => OwnerOf(j)' = conn'[d].req
        /\ \A n \in DOMAIN log' : log'[n].mock = j => OwnerOf(j)' = log'[n].req
        /\ ~Owned(j)' => OwnerOf(j)' = NoRequest
  BY DEF OwnersRight, Owned
<1>3. OwnerOf(i) = NoRequest
  <2>1. ~Owned(i)
    BY DEF Takes, SpentOnce
  <2> QED BY <2>1 DEF OwnersRight
<1>4. OwnerOf(i)' = Request(c)
  BY <1>2 DEF Takes, Request
<1>5. ASSUME NEW j \in Expects \ {i} PROVE OwnerOf(j)' = OwnerOf(j)
  <2>1. Owned(j)' <=> Owned(j)
    BY <1>1 DEF Takes, Owned
  <2> QED BY <1>1, <1>2, <2>1 DEF Takes, Owned, OwnersRight
<1> QED BY <1>3, <1>4, <1>5

(***************************************************************************)
(* What each step does to the counters and to the failures.                *)
(***************************************************************************)
NeverForgets == verifyErrors' = verifyErrors \/ verifyErrors' # <<>>

Charges == \E S \in SUBSET ExpectNots : RecordNegatives(S)

Notes == hits' = hits /\ NeverForgets

Spends(c, i) == Takes(c, i) /\ Fits(i, Request(c)) /\ Request(c) \in Requests /\ NeverForgets

LEMMA AppendNotEmpty ==
  ASSUME Inv, NEW i \in Mocks
  PROVE  Append(verifyErrors, i) # <<>>
<1>1. verifyErrors \in Seq(Mocks)
  BY DEF Inv, StoreOK
<1>2. Len(Append(verifyErrors, i)) = Len(verifyErrors) + 1 /\ Len(verifyErrors) \in Nat
  BY <1>1
<1> QED BY <1>2

LEMMA ConsumeSpends ==
  ASSUME Inv, NEW c \in Conns, conn[c].at # "idle", conn[c].mock = NoMock,
         NEW i, i \in Unconsumed(hits), NEW step, NEW failed,
         Consume(c, i, step, failed), Fits(i, Request(c)), Suits(i, Request(c), hits)
  PROVE  i \in Expects /\ Spends(c, i)
<1>1. i \in Expects /\ i \in Mocks /\ hits[i] = 0
  BY DEF Unconsumed, Expects
<1>2. NeverForgets
  BY <1>1, AppendNotEmpty DEF Consume, NeverForgets
<1>3. Request(c) \in Requests
  BY Busy
<1> QED BY <1>1, <1>2, <1>3, ConsumeTakes DEF Spends

LEMMA MissNotes ==
  ASSUME Inv, NEW c, NEW rejected \in SUBSET Mocks, NEW step, Miss(c, rejected, step)
  PROVE  Notes
BY AppendNotEmpty DEF Miss, Notes, NeverForgets

LEMMA LookupsLedger ==
  ASSUME Inv, NegInv, NEW c \in Conns,
         FindByTables(c) \/ FindByKey(c) \/ FindHTTP(c) \/ FindRPC(c) \/ FindRedis(c)
  PROVE  Notes \/ \E i \in Expects : Spends(c, i)
<1> DEFINE q == Request(c)
<1>1. conn[c].at \in {"findTables", "findKey", "findHTTP", "findHTTPHost", "findBody", "findRedis"}
  BY DEF FindByTables, FindByKey, FindHTTP, FindRPC, FindRedis, At
<1>2. conn[c].at # "idle" /\ conn[c].mock = NoMock
  BY <1>1, Busy DEF MayHold
<1>3. conn[c].at \in Route(q.proto) /\ q.proto \in Protocols
  BY <1>2, BusyBehind DEF Behind, Request
<1>4. ASSUME NEW i \in Unconsumed(hits), NEW step, NEW failed, Consume(c, i, step, failed),
             Fits(i, q), IsSemantic(i) => i \in FindMockByTables(hits, q)
      PROVE  \E j \in Expects : Spends(c, j)
  BY <1>2, <1>4, FoundSuits, ConsumeSpends DEF Suits
<1>5. CASE FindByTables(c)
  <2>1. q.proto \in SQLProtocols \cup {"ORACLE"}
    BY <1>3, <1>5 DEF FindByTables, At, Route, Protocols, SQLProtocols
  <2>2. \A i : Fits(i, q) = DescribesQuery(i, q)
    BY <2>1 DEF Fits, SQLProtocols
  <2>3. CASE \E i \in FindMockByTables(hits, q) :
               Consume(c, i, AfterSQLMatch(q), PayloadFails(i, q))
    BY <1>4, <2>2, <2>3, FoundByTablesFits, LookupsFindUnconsumed
  <2>4. CASE \E step : Miss(c, First(RejectedByTables(hits, q)), step)
    BY <2>4, MissNotes, RejectionsAreMocks
  <2> QED BY <1>5, <2>3, <2>4 DEF FindByTables
<1>6. CASE FindByKey(c)
  <2>1. q.proto \in SQLProtocols \cup {"MONGODB"}
    BY <1>3, <1>6 DEF FindByKey, At, Route, Protocols, SQLProtocols
  <2>2. \A i : Fits(i, q) = DescribesQuery(i, q)
    BY <2>1 DEF Fits, SQLProtocols
  <2>3. CASE \E i \in FindMock(hits, order, q) :
               Consume(c, i, AfterSQLMatch(q), PayloadFails(i, Unbound(q)))
    BY <1>4, <2>2, <2>3, FoundByKeyFits, FoundSuits, LookupsFindUnconsumed
  <2>4. CASE Miss(c, FirstRejectedByKey(hits, order, q), AfterSQLMiss(c, q))
    BY <2>4, MissNotes, RejectionsAreMocks
  <2> QED BY <1>6, <2>3, <2>4 DEF FindByKey
<1>7. CASE FindHTTP(c)
  <2>1. q.proto = "HTTP"
    BY <1>3, <1>7 DEF FindHTTP, At, Route, Protocols, SQLProtocols
  <2>2. CASE \E key \in {q.path, q.key} : \E i \in FindHTTPMockWithBody(hits, key, q) :
               Consume(c, i, "verify", FALSE)
    <3>1. PICK key \in {q.path, q.key} :
            \E i \in FindHTTPMockWithBody(hits, key, q) : Consume(c, i, "verify", FALSE)
      BY <2>2
    <3>2. PICK i \in FindHTTPMockWithBody(hits, key, q) : Consume(c, i, "verify", FALSE)
      BY <3>1
    <3>3. /\ Decl[i].channel = "HTTP" /\ getExpectKey(i) = {key} /\ BodyMatches(i, q)
          /\ Decl[i].method \in {"", q.method} /\ Decl[i].headers \subseteq q.headers
      BY <3>2, FoundByBodyFits
    <3>4. Fits(i, q)
      BY <2>1, <3>1, <3>3 DEF Fits
    <3>5. ~IsSemantic(i) /\ i \in Unconsumed(hits)
      BY FoundSuits, LookupsFindUnconsumed
    <3> QED BY <1>4, <3>2, <3>4, <3>5
  <2>3. CASE \E step : Miss(c, {}, step)
    BY <2>3, MissNotes
  <2> QED BY <1>7, <2>2, <2>3 DEF FindHTTP
<1>8. CASE FindRPC(c)
  <2>1. q.proto \in {"KAFKA", "GRPC"}
    BY <1>3, <1>8 DEF FindRPC, At, Route, Protocols, SQLProtocols
  <2> DEFINE found == IF q.proto = "KAFKA" THEN FindKafkaMockWithBody(hits, q)
                      ELSE FindGRPCMockWithBody(hits, q)
  <2>2. \A i \in found : Fits(i, q) /\ ~IsSemantic(i) /\ i \in Unconsumed(hits)
    BY <2>1, FoundByBodyFits, FoundSuits, LookupsFindUnconsumed DEF Fits
  <2>3. CASE \E i \in found : Consume(c, i, "verify", FALSE)
    BY <1>4, <2>2, <2>3
  <2>4. CASE \E step : Miss(c, {}, step)
    BY <2>4, MissNotes
  <2> QED BY <1>8, <2>3, <2>4 DEF FindRPC
<1>9. CASE FindRedis(c)
  <2>1. q.proto \in {"REDIS", "REDIS_POP"}
    BY <1>3, <1>9 DEF FindRedis, At, Route, Protocols, SQLProtocols
  <2>2. ASSUME NEW i \in FindRedisMock(hits, q)
        PROVE  Fits(i, q) /\ ~IsSemantic(i) /\ i \in Unconsumed(hits)
    <3>1. Decl[i].channel \in Redis /\ getExpectKey(i) = {q.key}
      BY FoundRedisFits
    <3>2. Fits(i, q)
      BY <2>1, <3>1 DEF Fits
    <3> QED BY <3>2, FoundSuits, LookupsFindUnconsumed
  <2>3. CASE \E i \in FindRedisMock(hits, q) : Consume(c, i, "verify", FALSE)
    BY <1>4, <2>2, <2>3
  <2>4. CASE \E step : Miss(c, {}, step)
    BY <2>4, MissNotes
  <2> QED BY <1>9, <2>3, <2>4 DEF FindRedis
<1> QED BY <1>5, <1>6, <1>7, <1>8, <1>9

LEMMA OthersLedger ==
  ASSUME Inv, NEW c \in Conns, Handle(c),
         ~ (FindByTables(c) \/ FindByKey(c) \/ FindHTTP(c) \/ FindRPC(c) \/ FindRedis(c))
  PROVE  Charges \/ Notes
<1>1. CASE CheckNegativeTables(c) \/ CheckNegativeKey(c)
             \/ CheckNegativeHTTP(c) \/ CheckNegativeRPC(c)
  BY <1>1, ChecksChargeExpectNots
  DEF CheckNegativeTables, CheckNegativeKey, CheckNegativeHTTP, CheckNegativeRPC, Charges
<1>2. CASE Verify(c)
  <2>1. conn[c].mock \in Mocks
    BY <1>2, Busy DEF Verify, At
  <2> QED BY <1>2, <2>1, AppendNotEmpty DEF Verify, Notes, NeverForgets
<1>3. CASE Prepare(c) \/ PopSeed(c) \/ RewriteSQL(c)
             \/ RecordPassthrough(c) \/ ForwardToUpstream(c) \/ Refuse(c)
  BY <1>3
  DEF Prepare, PopSeed, RewriteSQL, RecordPassthrough, ForwardToUpstream, Refuse, Notes, NeverForgets
<1> QED BY <1>1, <1>2, <1>3 DEF Handle

LEMMA StepLedger ==
  ASSUME Inv, NegInv, [Next]_vars
  PROVE  \/ Charges \/ Notes
         \/ \E c \in Conns, i \in Expects : Spends(c, i)
<1>1. CASE UNCHANGED vars
  BY <1>1 DEF vars, Notes, NeverForgets
<1>2. ASSUME NEW c \in Conns, Handle(c)
      PROVE  Charges \/ Notes \/ \E i \in Expects : Spends(c, i)
  BY <1>2, LookupsLedger, OthersLedger
<1>3. ASSUME NEW c \in Conns, NEW r \in Requests, Receive(c, r) PROVE Notes
  BY <1>3 DEF Receive, Notes, NeverForgets
<1> QED BY <1>1, <1>2, <1>3 DEF Next

LEMMA NextLedger ==
  ASSUME Inv, NegInv, SpentOnce, OwnersRight, OwnersRight', [Next]_vars
  PROVE  [Ledger!Next]_(Ledger!vars)
<1> DEFINE own == [i \in Expects |-> OwnerOf(i)]
           brk == {i \in ExpectNots : hits[i] > 0}
           bad == verifyErrors # <<>>
<1>1. CASE \E c \in Conns, i \in Expects : Spends(c, i)
  <2>1. PICK c \in Conns, i \in Expects : Spends(c, i)
    BY <1>1
  <2>2. /\ OwnerOf(i) = NoRequest /\ OwnerOf(i)' = Request(c)
        /\ \A j \in Expects \ {i} : OwnerOf(j)' = OwnerOf(j)
    BY <2>1, TakesOwns DEF Spends
  <2>3. own[i] = NoRequest /\ own'[i] = Request(c) /\ own' = [own EXCEPT ![i] = own'[i]]
    BY <2>2
  <2>4. brk' = brk
    BY <2>1 DEF Spends, Takes, Expects, ExpectNots, Inv, StoreOK
  <2>5. bad' = bad \/ bad'
    BY <2>1 DEF Spends, NeverForgets
  <2>6. own'[i] \in Requests /\ Fits(i, own'[i])
    BY <2>1, <2>3 DEF Spends
  <2>7. Ledger!Spend(i)
    BY <2>3, <2>4, <2>5, <2>6 DEF Ledger!Spend
  <2> QED BY <2>7 DEF Ledger!Next
<1>2. CASE ~ \E c \in Conns, i \in Expects : Spends(c, i)
  <2>1. Charges \/ Notes
    BY <1>2, StepLedger
  <2>2. HitsKept
    BY <2>1, NegativesKeepHits, SameHits DEF Charges, Notes
  <2>3. Keeps \/ \E c \in Conns : Retires(c)
    BY <2>2, StepShape DEF Takes, HitsKept, Inv, StoreOK, Expects
  <2>4. own' = own
    BY <2>3, SameOwners
  <2>5. CASE Charges
    <3>1. PICK S \in SUBSET ExpectNots : RecordNegatives(S)
      BY <2>5 DEF Charges
    <3>2. \A i \in ExpectNots : hits'[i] = (IF i \in S THEN hits[i] + 1 ELSE hits[i]) /\ hits[i] \in Nat
      BY <3>1 DEF RecordNegatives, ExpectNots, Inv, StoreOK
    <3>3. brk' = brk \cup S
      BY <3>2
    <3>4. bad' = bad
      BY <3>1 DEF RecordNegatives
    <3>5. Ledger!Break(S)
      BY <2>4, <3>3, <3>4 DEF Ledger!Break
    <3> QED BY <3>5 DEF Ledger!Next
  <2>6. CASE Notes
    <3>1. brk' = brk
      BY <2>6 DEF Notes
    <3>2. bad' = bad \/ bad'
      BY <2>6 DEF Notes, NeverForgets
    <3>3. CASE bad'
      BY <2>4, <3>1, <3>3 DEF Ledger!Next, Ledger!Fail
    <3>4. CASE bad' = bad
      BY <2>4, <3>1, <3>4 DEF Ledger!vars
    <3> QED BY <3>2, <3>3, <3>4
  <2> QED BY <2>1, <2>5, <2>6
<1> QED BY <1>1, <1>2

(***************************************************************************)
(* The registry with its proxies implements ExpectLedger: seen from the    *)
(* spec of the test, an EXPECT is spent once, on a request it describes    *)
(* by the rules of that request's protocol, and stays with that request;   *)
(* a broken EXPECT_NOT stays broken, and no VERIFY failure is forgotten,   *)
(* though a lookup that fails is followed by others that may succeed.      *)
(***************************************************************************)
THEOREM ImplementsLedger == Spec => LedgerSpec
<1>1. Init => Inv /\ NegInv /\ SpentOnce /\ Ledger!Init
  <2>1. Init => NegInv
    BY DEF Init, NegInv, HandlersBehind, Idle
  <2> QED BY <2>1, InitInv, InitSpentOnce, InitLedger
<1>2. Inv /\ NegInv /\ SpentOnce /\ [Next]_vars => (Inv /\ NegInv /\ SpentOnce)'
  BY NextInv, NextNeg, NextSpentOnce
<1>3. SpentOnce => OwnersRight
  BY OwnerIsHolder
<1>4. Inv /\ NegInv /\ SpentOnce /\ OwnersRight /\ OwnersRight' /\ [Next]_vars
      => [Ledger!Next]_(Ledger!vars)
  BY NextLedger
<1> QED BY <1>1, <1>2, <1>3, <1>4, PTL DEF Spec, LedgerSpec, Ledger!Spec

-----------------------------------------------------------------------------
(***************************************************************************)
(* The key a hit is reported under.  A statement keeps the SQL it was      *)
(* declared with until a request was charged to it; the key is taken with  *)
(* the first charge.                                                       *)
(***************************************************************************)
KeyInv ==
  \A i \in Mocks :
    /\ hits[i] = 0 => sql[i] = Decl[i].sql
    /\ hits[i] > 0 => hitKeys[i] = mockHitKey(i, Decl[i].sql)

\* Charging the statements in S, and nothing else.
LEMMA ChargeKeepsKeys ==
  ASSUME Inv, KeyInv, NEW S \in SUBSET Mocks, sql' = sql,
         \A i \in Mocks : /\ hits'[i] = (IF i \in S THEN hits[i] + 1 ELSE hits[i])
                         /\ hitKeys'[i] = IF i \in S /\ hits[i] = 0
                                          THEN mockHitKey(i, sql[i]) ELSE hitKeys[i]
  PROVE  KeyInv'
<1> SUFFICES ASSUME NEW i \in Mocks
             PROVE  /\ hits'[i] = 0 => sql'[i] = Decl[i].sql
                    /\ hits'[i] > 0 => hitKeys'[i] = mockHitKey(i, Decl[i].sql)
  BY DEF KeyInv
<1>1. hits[i] \in Nat
  BY DEF Inv, StoreOK
<1> QED BY <1>1 DEF KeyInv

LEMMA NextKeys ==
  ASSUME Inv, SpentOnce, KeyInv, [Next]_vars
  PROVE  KeyInv'
<1>1. CASE UNCHANGED <<hits, hitKeys, sql>>
  BY <1>1 DEF KeyInv
<1>2. ASSUME NEW S \in SUBSET ExpectNots, RecordNegatives(S) PROVE KeyInv'
  <2>1. S \subseteq Mocks
    BY DEF ExpectNots
  <2> QED BY <1>2, <2>1, ChargeKeepsKeys DEF RecordNegatives
<1>3. ASSUME NEW i \in Mocks, NEW c, NEW step, NEW failed, Consume(c, i, step, failed)
      PROVE  KeyInv'
  <2>1. \A j \in Mocks :
          /\ hits'[j] = (IF j \in {i} THEN hits[j] + 1 ELSE hits[j])
          /\ hitKeys'[j] = IF j \in {i} /\ hits[j] = 0 THEN mockHitKey(j, sql[j]) ELSE hitKeys[j]
    BY <1>3 DEF Consume, recordHit, Inv, StoreOK
  <2>2. sql' = sql
    BY <1>3 DEF Consume
  <2> QED BY <2>1, <2>2, ChargeKeepsKeys
<1>4. ASSUME NEW c \in Conns, RewriteSQL(c) PROVE KeyInv'
  <2>1. conn[c].mock \in Expects /\ conn[c].mock # NoMock
    BY <1>4, Busy DEF RewriteSQL, At
  <2>2. hits[conn[c].mock] = 1
    BY <2>1 DEF SpentOnce, Owned
  <2>3. \A i \in Mocks \ {conn[c].mock} : sql'[i] = sql[i]
    BY <1>4 DEF RewriteSQL, Inv, StoreOK
  <2>4. hits' = hits /\ hitKeys' = hitKeys
    BY <1>4 DEF RewriteSQL
  <2> QED BY <2>2, <2>3, <2>4 DEF KeyInv
<1>5. ASSUME NEW c \in Conns,
             FindByTables(c) \/ FindByKey(c) \/ FindHTTP(c) \/ FindRPC(c) \/ FindRedis(c)
      PROVE  KeyInv'
  <2> DEFINE q == Request(c)
             Found == FindMockByTables(hits, q) \cup FindMock(hits, order, q)
                        \cup FindHTTPMockWithBody(hits, q.path, q)
                        \cup FindHTTPMockWithBody(hits, q.key, q)
                        \cup FindKafkaMockWithBody(hits, q)
                        \cup FindGRPCMockWithBody(hits, q) \cup FindRedisMock(hits, q)
  <2>1. Found \subseteq Mocks
    BY LookupsFindUnconsumed DEF Unconsumed
  <2>2. \/ \E i \in Found : \E step, failed : Consume(c, i, step, failed)
        \/ \E rejected, step : Miss(c, rejected, step)
    <3>1. FindByTables(c) \/ FindByKey(c) =>
            \/ \E i \in FindMockByTables(hits, q) \cup FindMock(hits, order, q) : \E step, failed :
                  Consume(c, i, step, failed)
            \/ \E rejected, step : Miss(c, rejected, step)
      BY DEF FindByTables, FindByKey
    <3>2. FindHTTP(c) \/ FindRPC(c) \/ FindRedis(c) =>
            \/ \E i \in Found : \E step, failed : Consume(c, i, step, failed)
            \/ \E rejected, step : Miss(c, rejected, step)
      BY DEF FindHTTP, FindRPC, FindRedis
    <3> QED BY <1>5, <3>1, <3>2
  <2> HIDE DEF Found
  <2> QED BY <1>1, <1>3, <2>1, <2>2 DEF Miss
<1>6. ASSUME NEW c \in Conns, Handle(c) PROVE KeyInv'
  <2>1. CASE CheckNegativeTables(c) \/ CheckNegativeKey(c)
               \/ CheckNegativeHTTP(c) \/ CheckNegativeRPC(c)
    BY <1>2, <2>1, ChecksChargeExpectNots
    DEF CheckNegativeTables, CheckNegativeKey, CheckNegativeHTTP, CheckNegativeRPC
  <2>2. CASE Prepare(c) \/ PopSeed(c) \/ Verify(c)
               \/ RecordPassthrough(c) \/ ForwardToUpstream(c) \/ Refuse(c)
    BY <1>1, <2>2 DEF Prepare, PopSeed, Verify, RecordPassthrough, ForwardToUpstream, Refuse
  <2> QED BY <1>4, <1>5, <1>6, <2>1, <2>2 DEF Handle
<1>7. ASSUME NEW c \in Conns, NEW r \in Requests, Receive(c, r) PROVE KeyInv'
  BY <1>1, <1>7 DEF Receive
<1>8. CASE UNCHANGED vars
  BY <1>1, <1>8 DEF vars
<1> QED BY <1>6, <1>7, <1>8 DEF Next

(***************************************************************************)
(* For any spec and any traffic: a statement that was hit is reported      *)
(* under the key the runner computes from its own copy of the spec.  The   *)
(* MySQL proxy rewrites the SQL of the statement it holds, outside the     *)
(* lock; that such a statement was charged before, by the lookup that gave *)
(* it out, is what keeps the key.                                          *)
(***************************************************************************)
THEOREM HostKeyAlways == Spec => []ReportedUnderHostKey
<1>1. Init => Inv /\ SpentOnce /\ KeyInv
  <2>1. Init => KeyInv
    BY DEF Init, KeyInv
  <2> QED BY <2>1, InitInv, InitSpentOnce
<1>2. Inv /\ SpentOnce /\ KeyInv /\ [Next]_vars => (Inv /\ SpentOnce /\ KeyInv)'
  BY NextInv, NextSpentOnce, NextKeys
<1>3. KeyInv => ReportedUnderHostKey
  BY DEF KeyInv, ReportedUnderHostKey, ReportedKey
<1> QED BY <1>1, <1>2, <1>3, PTL DEF Spec

-----------------------------------------------------------------------------
(***************************************************************************)
(* Bypasses.  A count of entries of the history is a count of its places;  *)
(* an entry appended adds one if it is counted.                            *)
(***************************************************************************)
Among(l, S) == {n \in DOMAIN l : l[n] \in S}

LEMMA CountAppended ==
  ASSUME NEW l \in Seq(Entries), NEW e \in Entries, NEW S, IsFiniteSet(Among(l, S))
  PROVE  /\ IsFiniteSet(Among(Append(l, e), S))
         /\ Cardinality(Among(Append(l, e), S)) =
              IF e \in S THEN Cardinality(Among(l, S)) + 1 ELSE Cardinality(Among(l, S))
<1> DEFINE k == Len(l) + 1
<1>1. k \notin Among(l, S)
  BY DEF Among
<1>2. DOMAIN Append(l, e) = DOMAIN l \cup {k} /\ Append(l, e)[k] = e
      /\ \A n \in DOMAIN l : Append(l, e)[n] = l[n]
  OBVIOUS
<1>3. Among(Append(l, e), S) = IF e \in S THEN Among(l, S) \cup {k} ELSE Among(l, S)
  BY <1>2 DEF Among
<1>4. IsFiniteSet(Among(l, S) \cup {k}) /\ Cardinality(Among(l, S) \cup {k}) = Cardinality(Among(l, S)) + 1
  BY <1>1, FS_AddElement
<1> QED BY <1>3, <1>4

LetBy   == {e \in Entries : e.outcome = "bypassed" /\ ~Unrecorded(e)}
Certain == {e \in LetBy : ~Uncertain(e)}

IsEarly(h) == h.at = "negKey" /\ h.req.proto = "MONGODB" /\ h.mock = NoMock

\* What each handler knows: a statement that MySQL intercepts was prepared here,
\* and which requests are recorded.
Passing(h, here) ==
  /\ h.req.proto = "MYSQL_STMT" /\ h.at \notin {"idle", "prepare"} => h.req.text \in here
  /\ h.at = "passthrough" => h.req.proto # "MYSQL_STMT" /\ ~(h.req.proto = "GRPC" /\ GRPCUpstream)
  /\ h.at = "forward" => h.req.proto = "GRPC" /\ GRPCUpstream

Bounded(n) ==
  /\ Cardinality(Among(log, Certain)) + n <= passthroughs
  /\ passthroughs <= Cardinality(Among(log, LetBy)) + n

PassInv ==
  /\ \A c \in Conns : Passing(conn[c], prepared[c])
  /\ IsFiniteSet(RecordedEarly) /\ IsFiniteSet(Among(log, Certain)) /\ IsFiniteSet(Among(log, LetBy))
  /\ Bounded(Cardinality(RecordedEarly))

LEMMA PassInvIsEnough ==
  ASSUME Inv, PassInv
  PROVE  BypassesRecorded
<1>1. \A n \in DOMAIN log : log[n] \in Entries
  BY DEF Inv, ConnOK
<1>2. Bypasses = Among(log, LetBy) /\ CertainBypasses = Among(log, Certain)
  BY <1>1 DEF Bypasses, CertainBypasses, Among, LetBy, Certain
<1> QED BY <1>2 DEF BypassesRecorded, PassInv, Bounded

(***************************************************************************)
(* One handler moves: its place among the requests recorded early is what  *)
(* it was, is taken, or is given up.                                       *)
(***************************************************************************)
LEMMA EarlyMoves ==
  ASSUME Inv, PassInv, NEW c \in Conns, NEW h, conn' = [conn EXCEPT ![c] = h]
  PROVE  /\ IsFiniteSet(RecordedEarly')
         /\ (IsEarly(h) <=> IsEarly(conn[c])) => RecordedEarly' = RecordedEarly
         /\ IsEarly(h) /\ ~IsEarly(conn[c]) =>
              Cardinality(RecordedEarly') = Cardinality(RecordedEarly) + 1
         /\ ~IsEarly(h) /\ IsEarly(conn[c]) =>
              Cardinality(RecordedEarly') = Cardinality(RecordedEarly) - 1
         /\ Cardinality(RecordedEarly) \in Nat
<1>1. \A d \in Conns : conn'[d] = IF d = c THEN h ELSE conn[d]
  BY DEF Inv, ConnOK, Handlers
<1>2. RecordedEarly' = {d \in Conns : IsEarly(conn'[d])} /\ RecordedEarly = {d \in Conns : IsEarly(conn[d])}
  BY DEF RecordedEarly, IsEarly, At, Request
<1>3. IsFiniteSet(RecordedEarly)
  BY DEF PassInv
<1>4. (IsEarly(h) <=> IsEarly(conn[c])) => RecordedEarly' = RecordedEarly
  BY <1>1, <1>2
<1>5. IsEarly(h) /\ ~IsEarly(conn[c]) => RecordedEarly' = RecordedEarly \cup {c} /\ c \notin RecordedEarly
  BY <1>1, <1>2
<1>6. ~IsEarly(h) /\ IsEarly(conn[c]) => RecordedEarly' = RecordedEarly \ {c} /\ c \in RecordedEarly
  BY <1>1, <1>2
<1>7. Cardinality(RecordedEarly) \in Nat
  BY <1>3, FS_CardinalityType
<1>8. /\ IsFiniteSet(RecordedEarly \cup {c}) /\ IsFiniteSet(RecordedEarly \ {c})
      /\ c \notin RecordedEarly => Cardinality(RecordedEarly \cup {c}) = Cardinality(RecordedEarly) + 1
      /\ c \in RecordedEarly => Cardinality(RecordedEarly \ {c}) = Cardinality(RecordedEarly) - 1
  BY <1>3, FS_AddElement, FS_RemoveElement
<1> QED BY <1>3, <1>4, <1>5, <1>6, <1>7, <1>8

LEMMA OthersPass ==
  ASSUME Inv, PassInv, NEW c \in Conns, NEW h, conn' = [conn EXCEPT ![c] = h],
         Passing(h, prepared'[c]), \A d \in Conns \ {c} : prepared'[d] = prepared[d]
  PROVE  \A d \in Conns : Passing(conn'[d], prepared'[d])
<1>1. \A d \in Conns : conn'[d] = IF d = c THEN h ELSE conn[d]
  BY DEF Inv, ConnOK, Handlers
<1> QED BY <1>1 DEF PassInv

\* A handler goes on: it is recorded, if at all, as it takes a place among the early.
LEMMA GoesOn ==
  ASSUME Inv, PassInv, NEW c \in Conns, NEW h, Moves(c, h), ~IsEarly(conn[c]),
         Passing(h, prepared'[c]), \A d \in Conns \ {c} : prepared'[d] = prepared[d],
         passthroughs' = IF IsEarly(h) THEN passthroughs + 1 ELSE passthroughs
  PROVE  PassInv'
<1>1. \A d \in Conns : Passing(conn'[d], prepared'[d])
  BY OthersPass DEF Moves
<1>2. IsFiniteSet(RecordedEarly') /\ Cardinality(RecordedEarly) \in Nat
  BY EarlyMoves DEF Moves
<1>3. Cardinality(RecordedEarly') = IF IsEarly(h) THEN Cardinality(RecordedEarly) + 1 ELSE Cardinality(RecordedEarly)
  BY EarlyMoves DEF Moves
<1>4. Cardinality(Among(log, Certain)) \in Nat /\ Cardinality(Among(log, LetBy)) \in Nat /\ passthroughs \in Nat
  BY FS_CardinalityType DEF PassInv, Inv, StoreOK
<1>5. Bounded(Cardinality(RecordedEarly))'
  BY <1>2, <1>3, <1>4 DEF PassInv, Bounded, Moves, LetBy, Certain, Unrecorded, Uncertain, Entries
<1>6. (\A d \in Conns : Passing(conn[d], prepared[d]))'
  BY <1>1 DEF Passing
<1> QED BY <1>2, <1>5, <1>6 DEF PassInv, Moves, LetBy, Certain, Unrecorded, Uncertain, Entries, Among

\* A handler ends: its request is let by and was recorded early, is recorded now,
\* may be recorded, or is not counted.
LEMMA Ends ==
  ASSUME Inv, PassInv, NEW c \in Conns, conn[c].at # "idle", NEW outcome \in Outcomes,
         Finish(c, outcome), prepared' = prepared, passthroughs' \in {passthroughs, passthroughs + 1},
         LET e == [req |-> Request(c), mock |-> conn[c].mock, outcome |-> outcome]
             k == IF IsEarly(conn[c]) THEN passthroughs' + 1 ELSE passthroughs'
         IN  (e \in Certain => k >= passthroughs + 1) /\ (e \notin LetBy => k <= passthroughs)
             /\ passthroughs <= k /\ k <= passthroughs + 1
  PROVE  PassInv'
<1> DEFINE e == [req |-> Request(c), mock |-> conn[c].mock, outcome |-> outcome]
<1>1. e \in Entries /\ log \in Seq(Entries)
  BY Busy DEF Entries, Inv, ConnOK
<1>2. conn' = [conn EXCEPT ![c] = Idle] /\ log' = Append(log, e)
  BY DEF Finish
<1>3. ~IsEarly(Idle) /\ Passing(Idle, prepared'[c])
  BY DEF IsEarly, Passing, Idle
<1> HIDE DEF e
<1>4. \A d \in Conns : Passing(conn'[d], prepared'[d])
  BY <1>2, <1>3, OthersPass
<1>5. /\ IsFiniteSet(RecordedEarly') /\ Cardinality(RecordedEarly) \in Nat
      /\ Cardinality(RecordedEarly') =
            IF IsEarly(conn[c]) THEN Cardinality(RecordedEarly) - 1 ELSE Cardinality(RecordedEarly)
  BY <1>2, <1>3, EarlyMoves
<1>6. /\ IsFiniteSet(Among(log', Certain)) /\ IsFiniteSet(Among(log', LetBy))
      /\ Cardinality(Among(log', Certain)) =
            IF e \in Certain THEN Cardinality(Among(log, Certain)) + 1 ELSE Cardinality(Among(log, Certain))
      /\ Cardinality(Among(log', LetBy)) =
            IF e \in LetBy THEN Cardinality(Among(log, LetBy)) + 1 ELSE Cardinality(Among(log, LetBy))
  BY <1>1, <1>2, CountAppended DEF PassInv
<1>7. Cardinality(Among(log, Certain)) \in Nat /\ Cardinality(Among(log, LetBy)) \in Nat /\ passthroughs \in Nat
  BY FS_CardinalityType DEF PassInv, Inv, StoreOK
<1>8. Certain' = Certain /\ LetBy' = LetBy
  BY DEF LetBy, Certain, Unrecorded, Uncertain, Entries
<1>9. /\ Cardinality(Among(log', Certain)) + Cardinality(RecordedEarly') <= passthroughs'
      /\ passthroughs' <= Cardinality(Among(log', LetBy)) + Cardinality(RecordedEarly')
  <2>1. Cardinality(Among(log, Certain)) + Cardinality(RecordedEarly) <= passthroughs
        /\ passthroughs <= Cardinality(Among(log, LetBy)) + Cardinality(RecordedEarly)
    BY DEF PassInv, Bounded
  <2>2. e \in Certain => e \in LetBy
    BY DEF Certain
  <2> QED BY <1>5, <1>6, <1>7, <2>1, <2>2 DEF e
<1>10. Bounded(Cardinality(RecordedEarly))'
  BY <1>8, <1>9 DEF Bounded
<1>11. (\A d \in Conns : Passing(conn[d], prepared[d]))'
  BY <1>4 DEF Passing
<1> QED BY <1>5, <1>6, <1>8, <1>10, <1>11 DEF PassInv

LEMMA PassingStays ==
  ASSUME NEW h, NEW here, Passing(h, here), h.at \notin {"idle", "prepare"}, NEW mock,
         NEW step, step \notin {"passthrough", "forward"}
  PROVE  Passing([at |-> step, req |-> h.req, mock |-> mock], here)
BY DEF Passing

LEMMA StaysPassing ==
  ASSUME Inv, PassInv, NEW c \in Conns, conn[c].at \notin {"idle", "prepare"}, ~IsEarly(conn[c]),
         prepared' = prepared, passthroughs' = passthroughs, NEW mock, NEW step,
         step \notin {"passthrough", "forward"},
         ~(step = "negKey" /\ Request(c).proto = "MONGODB" /\ mock = NoMock),
         Proceed(c, step, mock)
  PROVE  PassInv'
<1> DEFINE h == [at |-> step, req |-> Request(c), mock |-> mock]
<1>1. Passing(h, prepared[c])
  BY PassingStays DEF PassInv, Request
<1>2. Moves(c, h) /\ ~IsEarly(h)
  BY ProceedMoves DEF IsEarly
<1> HIDE DEF h
<1> QED BY <1>1, <1>2, GoesOn

\* A request that is answered, or let by without a record, is not counted.
LEMMA EndsUncounted ==
  ASSUME Inv, PassInv, NEW c \in Conns, conn[c].at # "idle", ~IsEarly(conn[c]),
         NEW outcome \in Outcomes, Finish(c, outcome), prepared' = prepared, passthroughs' = passthroughs,
         \/ outcome # "bypassed"
         \/ Request(c).proto \in {"MYSQL_STMT", "ORACLE"}
         \/ Request(c).proto = "MONGODB" /\ conn[c].mock # NoMock
  PROVE  PassInv'
<1> DEFINE e == [req |-> Request(c), mock |-> conn[c].mock, outcome |-> outcome]
<1>1. e \notin LetBy /\ e \notin Certain
  BY DEF LetBy, Certain, Unrecorded
<1>2. passthroughs \in Nat
  BY DEF Inv, StoreOK
<1> QED BY <1>1, <1>2, Ends

LEMMA ReceivePass ==
  ASSUME Inv, PassInv, NEW c \in Conns, NEW r \in Requests, Receive(c, r)
  PROVE  PassInv'
<1>1. PICK step \in {FirstStep(r.proto)} \cup (IF PreparedHere(c, r) THEN {"negTables"} ELSE {}) :
        conn' = [conn EXCEPT ![c] = [at |-> step, req |-> r, mock |-> NoMock]]
  BY DEF Receive
<1> DEFINE h == [at |-> step, req |-> r, mock |-> NoMock]
<1>2. r.proto \in Protocols
  BY RequestsAssumption
<1>3. FirstStep(r.proto) \notin {"passthrough", "forward"}
  BY <1>2 DEF FirstStep, Protocols
<1>4. r.proto = "MYSQL_STMT" => FirstStep(r.proto) = "prepare"
  BY DEF FirstStep
<1>5. r.proto = "MONGODB" => FirstStep(r.proto) = "findKey" /\ ~PreparedHere(c, r)
  BY DEF FirstStep, PreparedHere, IsPrepared
<1>6. Passing(h, prepared'[c])
  <2>1. prepared' = prepared
    BY DEF Receive
  <2> QED BY <1>3, <1>4, <2>1 DEF Passing, PreparedHere
<1>7. ~IsEarly(h)
  BY <1>5 DEF IsEarly
<1>8. Moves(c, h) /\ ~IsEarly(conn[c]) /\ prepared' = prepared /\ passthroughs' = passthroughs
  BY <1>1 DEF Moves, Receive, At, IsEarly
<1> HIDE DEF h
<1> QED BY <1>6, <1>7, <1>8, GoesOn

LEMMA ChecksPass ==
  ASSUME Inv, NegInv, PassInv, NEW c \in Conns,
         \/ CheckNegativeTables(c) \/ CheckNegativeKey(c)
         \/ CheckNegativeHTTP(c) \/ CheckNegativeRPC(c)
  PROVE  PassInv'
<1>1. prepared' = prepared /\ passthroughs' = passthroughs
  BY DEF CheckNegativeTables, CheckNegativeKey, CheckNegativeHTTP, CheckNegativeRPC, RecordNegatives
<1>2. Outcome(c) \in Outcomes
  BY DEF Outcome, Outcomes
<1>3. CASE CheckNegativeTables(c)
  <2>1. conn[c].at = "negTables" /\ ~IsEarly(conn[c])
    BY <1>3 DEF CheckNegativeTables, At, IsEarly
  <2>2. Request(c).proto # "MONGODB"
    <3>1. "negTables" \in Route(Request(c).proto)
      BY <2>1, BusyBehind DEF Behind, Request
    <3>2. "negTables" \notin Route("MONGODB")
      BY DEF Route, SQLProtocols
    <3> QED BY <3>1, <3>2
  <2>3. \/ Request(c).proto = "ORACLE" /\ Finish(c, Outcome(c))
        \/ Proceed(c, "negKey", NoMock)
    BY <1>3 DEF CheckNegativeTables
  <2> QED BY <1>1, <1>2, <2>1, <2>2, <2>3, EndsUncounted, StaysPassing
<1>4. CASE CheckNegativeKey(c)
  <2>1. conn[c].at = "negKey"
    BY <1>4 DEF CheckNegativeKey, At
  <2>2. CASE Request(c).proto = "MONGODB"
    <3>1. Finish(c, Outcome(c))
      BY <1>4, <2>2 DEF CheckNegativeKey
    <3>2. CASE conn[c].mock # NoMock
      <4>1. ~IsEarly(conn[c])
        BY <3>2 DEF IsEarly
      <4> QED BY <1>1, <1>2, <2>1, <2>2, <3>1, <3>2, <4>1, EndsUncounted
    <3>3. CASE conn[c].mock = NoMock
      <4>1. IsEarly(conn[c]) /\ Outcome(c) = "bypassed"
        BY <2>1, <2>2, <3>3 DEF IsEarly, Outcome, Request
      <4> DEFINE e == [req |-> Request(c), mock |-> conn[c].mock, outcome |-> Outcome(c)]
      <4>2. e \in Entries
        BY <1>2, <2>1, Busy DEF Entries
      <4>3. e \in LetBy
        BY <2>2, <3>3, <4>1, <4>2 DEF LetBy, Unrecorded
      <4>4. passthroughs \in Nat
        BY DEF Inv, StoreOK
      <4> QED BY <1>1, <1>2, <2>1, <3>1, <4>1, <4>3, <4>4, Ends
    <3> QED BY <3>2, <3>3
  <2>3. CASE Request(c).proto # "MONGODB"
    <3>1. Proceed(c, "findBody", NoMock) \/ Proceed(c, "findTables", NoMock)
      BY <1>4, <2>3 DEF CheckNegativeKey
    <3>2. ~IsEarly(conn[c])
      BY <2>3 DEF IsEarly, Request
    <3> QED BY <1>1, <2>1, <3>1, <3>2, StaysPassing
  <2> QED BY <2>2, <2>3
<1>5. CASE CheckNegativeHTTP(c) \/ CheckNegativeRPC(c)
  <2>1. conn[c].at \in {"negHTTP", "negHTTPHost", "negRPC", "negRedis"}
    BY <1>5 DEF CheckNegativeHTTP, CheckNegativeRPC, At
  <2>2. \E step \in {"negHTTPHost", "findHTTP", "findBody", "findRedis"} : Proceed(c, step, NoMock)
    BY <1>5 DEF CheckNegativeHTTP, CheckNegativeRPC
  <2>3. ~IsEarly(conn[c])
    BY <2>1 DEF IsEarly
  <2> QED BY <1>1, <2>1, <2>2, <2>3, StaysPassing
<1> QED BY <1>3, <1>4, <1>5

\* A lookup goes on, and is not recorded by it.
LEMMA LooksUp ==
  ASSUME Inv, PassInv, NEW c \in Conns,
         conn[c].at \in {"findTables", "findKey", "findHTTP", "findHTTPHost", "findBody", "findRedis"},
         prepared' = prepared, passthroughs' = passthroughs, NEW mock, NEW step,
         step = "negKey" => mock # NoMock,
         step = "passthrough" => Request(c).proto # "MYSQL_STMT" /\ ~(Request(c).proto = "GRPC" /\ GRPCUpstream),
         step = "forward" => Request(c).proto = "GRPC" /\ GRPCUpstream,
         Proceed(c, step, mock)
  PROVE  PassInv'
<1> DEFINE h == [at |-> step, req |-> Request(c), mock |-> mock]
<1>1. Passing(conn[c], prepared[c]) /\ conn[c].at \notin {"idle", "prepare"}
  BY DEF PassInv
<1>2. Passing(h, prepared[c])
  BY <1>1 DEF Passing, Request
<1>3. Moves(c, h) /\ ~IsEarly(h) /\ ~IsEarly(conn[c])
  BY ProceedMoves DEF IsEarly
<1> HIDE DEF h
<1> QED BY <1>2, <1>3, GoesOn

LEMMA LookupsPass ==
  ASSUME Inv, NegInv, PassInv, NEW c \in Conns,
         FindByTables(c) \/ FindByKey(c) \/ FindHTTP(c) \/ FindRPC(c) \/ FindRedis(c)
  PROVE  PassInv'
<1> DEFINE q == Request(c)
           Found == FindMockByTables(hits, q) \cup FindMock(hits, order, q)
                      \cup FindHTTPMockWithBody(hits, q.path, q)
                      \cup FindHTTPMockWithBody(hits, q.key, q)
                      \cup FindKafkaMockWithBody(hits, q)
                      \cup FindGRPCMockWithBody(hits, q) \cup FindRedisMock(hits, q)
           Looks(step, mock) == /\ prepared' = prepared /\ passthroughs' = passthroughs
                                /\ Proceed(c, step, mock)
<1>1. conn[c].at \in {"findTables", "findKey", "findHTTP", "findHTTPHost", "findBody", "findRedis"}
  BY DEF FindByTables, FindByKey, FindHTTP, FindRPC, FindRedis, At
<1>2. conn[c].at \in Route(q.proto) /\ q.proto \in Protocols /\ q \in Requests
  BY <1>1, BusyBehind DEF Behind, Request
<1>3. \A i \in Found : i # NoMock
  <2>1. Found \subseteq Mocks
    BY <1>2, LookupsFindUnconsumed DEF Unconsumed
  <2>2. NoMock \notin Mocks
    BY DEF Mocks, NoMock
  <2> QED BY <2>1, <2>2
<1> HIDE DEF Found
<1>4. \A i, step, failed : Consume(c, i, step, failed) => Looks(step, i)
  BY DEF Consume
<1>5. \A rejected, step : Miss(c, rejected, step) => Looks(step, NoMock)
  BY DEF Miss
<1>6. \/ \E i \in Found : Looks(AfterSQLMatch(q), i)
      \/ \E i \in Found : Looks("verify", i)
      \/ Looks("negTables", NoMock) \/ Looks("findKey", NoMock) \/ Looks("findHTTPHost", NoMock)
      \/ Looks("refuse", NoMock)
      \/ conn[c].at = "findKey" /\ Looks(AfterSQLMiss(c, q), NoMock)
      \/ conn[c].at # "findKey" /\ q.proto \notin SQLProtocols /\ ~(q.proto = "GRPC" /\ GRPCUpstream)
           /\ Looks("passthrough", NoMock)
      \/ q.proto = "GRPC" /\ GRPCUpstream /\ Looks("forward", NoMock)
  <2> HIDE DEF Looks
  <2>1. CASE FindByTables(c)
    BY <2>1, <1>4, <1>5 DEF FindByTables, Found
  <2>2. CASE FindByKey(c)
    BY <2>2, <1>4, <1>5 DEF FindByKey, Found, At
  <2>3. CASE FindHTTP(c)
    <3>1. conn[c].at \in {"findHTTP", "findHTTPHost"}
      BY <2>3 DEF FindHTTP, At
    <3>2. q.proto = "HTTP"
      BY <1>2, <3>1 DEF Route, Protocols, SQLProtocols
    <3>3. (\E i \in Found : Looks("verify", i)) \/ Looks("findHTTPHost", NoMock) \/ Looks("passthrough", NoMock)
      BY <2>3, <1>4, <1>5 DEF FindHTTP, Found
    <3> QED BY <3>1, <3>2, <3>3 DEF SQLProtocols
  <2>4. CASE FindRPC(c)
    <3>1. conn[c].at = "findBody"
      BY <2>4 DEF FindRPC, At
    <3>2. q.proto \in {"KAFKA", "GRPC"}
      BY <1>2, <3>1 DEF Route, Protocols, SQLProtocols
    <3>3. \/ \E i \in Found : Looks("verify", i)
          \/ Looks(IF q.proto = "GRPC" /\ GRPCUpstream THEN "forward" ELSE "passthrough", NoMock)
      BY <2>4, <1>4, <1>5 DEF FindRPC, Found
    <3> QED BY <3>1, <3>2, <3>3 DEF SQLProtocols
  <2>5. CASE FindRedis(c)
    <3>1. conn[c].at = "findRedis"
      BY <2>5 DEF FindRedis, At
    <3>2. q.proto \in {"REDIS", "REDIS_POP"}
      BY <1>2, <3>1 DEF Route, Protocols, SQLProtocols
    <3>3. (\E i \in Found : Looks("verify", i)) \/ Looks("refuse", NoMock) \/ Looks("passthrough", NoMock)
      BY <2>5, <1>4, <1>5 DEF FindRedis, Found
    <3> QED BY <3>1, <3>2, <3>3 DEF SQLProtocols
  <2> QED BY <2>1, <2>2, <2>3, <2>4, <2>5
<1>7. AfterSQLMatch(q) \in {"rewrite", "negKey", "verify"}
  BY DEF AfterSQLMatch
<1>8. ASSUME conn[c].at = "findKey"
      PROVE  /\ AfterSQLMiss(c, q) \in {"refuse", "passthrough"} /\ q.proto # "GRPC"
             /\ AfterSQLMiss(c, q) = "passthrough" => q.proto # "MYSQL_STMT"
  <2>1. "findKey" \notin Route("GRPC")
    BY DEF Route, SQLProtocols
  <2>2. Passing(conn[c], prepared[c])
    BY DEF PassInv
  <2> QED BY <1>2, <1>8, <2>1, <2>2 DEF AfterSQLMiss, PreparedHere, IsPrepared, Passing, Request
<1>9. "MYSQL_STMT" \in SQLProtocols
  BY DEF SQLProtocols
<1>10. ASSUME NEW mock, NEW step, Looks(step, mock), step = "negKey" => mock # NoMock,
             step = "passthrough" => q.proto # "MYSQL_STMT" /\ ~(q.proto = "GRPC" /\ GRPCUpstream),
             step = "forward" => q.proto = "GRPC" /\ GRPCUpstream
      PROVE  PassInv'
  BY <1>1, <1>10, LooksUp
<1> HIDE DEF q, Looks
<1> QED BY <1>3, <1>6, <1>7, <1>8, <1>9, <1>10

LEMMA OthersPassOn ==
  ASSUME Inv, NegInv, PassInv, NEW c \in Conns,
         \/ Prepare(c) \/ PopSeed(c) \/ RewriteSQL(c) \/ Verify(c)
         \/ RecordPassthrough(c) \/ ForwardToUpstream(c) \/ Refuse(c)
  PROVE  PassInv'
<1>1. conn[c].at \in {"prepare", "pop", "rewrite", "verify", "passthrough", "forward", "refuse"}
  BY DEF Prepare, PopSeed, RewriteSQL, Verify, RecordPassthrough, ForwardToUpstream, Refuse, At
<1>2. ~IsEarly(conn[c]) /\ conn[c].at # "idle" /\ Passing(conn[c], prepared[c])
  BY <1>1 DEF IsEarly, PassInv
<1>3. /\ conn[c].at \in Route(Request(c).proto) /\ Request(c).proto \in Protocols /\ Request(c) \in Requests
      /\ Request(c) = conn[c].req /\ passthroughs \in Nat
  BY <1>2, BusyBehind DEF Behind, Request, Inv, StoreOK
<1>4. CASE Prepare(c)
  <2>1. CASE Proceed(c, "negTables", NoMock)
    <3> DEFINE h == [at |-> "negTables", req |-> Request(c), mock |-> NoMock]
    <3>1. Passing(h, prepared'[c])
      <4>1. Request(c).proto = "MYSQL_STMT" => prepared' = [prepared EXCEPT ![c] = @ \cup {Request(c).text}]
        BY <1>4, <2>1 DEF Prepare, Proceed, Finish
      <4> QED BY <4>1 DEF Passing, Inv, StoreOK
    <3>2. \A d \in Conns \ {c} : prepared'[d] = prepared[d]
      BY <1>4 DEF Prepare, Inv, StoreOK
    <3>3. passthroughs' = passthroughs
      BY <1>4 DEF Prepare
    <3>4. Moves(c, h) /\ ~IsEarly(h)
      BY <2>1, ProceedMoves DEF IsEarly
    <3> HIDE DEF h
    <3> QED BY <1>2, <3>1, <3>2, <3>3, <3>4, GoesOn
  <2>2. CASE Request(c).proto = "MYSQL_STMT" /\ Finish(c, "bypassed") /\ prepared' = prepared
    <3>1. passthroughs' = passthroughs
      BY <1>4 DEF Prepare
    <3> QED BY <1>2, <2>2, <3>1, EndsUncounted DEF Outcomes
  <2> QED BY <1>4, <2>1, <2>2 DEF Prepare
<1>5. CASE PopSeed(c)
  <2>1. conn[c].at = "pop" /\ prepared' = prepared /\ passthroughs' = passthroughs
    BY <1>5 DEF PopSeed, At
  <2>2. Finish(c, "seeded") \/ Proceed(c, "negRedis", NoMock)
    BY <1>5 DEF PopSeed
  <2> QED BY <1>2, <2>1, <2>2, EndsUncounted, StaysPassing DEF Outcomes
<1>6. CASE RewriteSQL(c)
  <2>1. conn[c].at = "rewrite" /\ prepared' = prepared /\ passthroughs' = passthroughs
    BY <1>6 DEF RewriteSQL, At
  <2>2. Proceed(c, "verify", conn[c].mock)
    BY <1>6 DEF RewriteSQL
  <2> QED BY <1>2, <2>1, <2>2, StaysPassing
<1>7. CASE Verify(c)
  <2>1. conn[c].at = "verify" /\ prepared' = prepared /\ passthroughs' = passthroughs
    BY <1>7 DEF Verify, At
  <2>2. Finish(c, "served") \/ Proceed(c, "negTables", conn[c].mock)
    BY <1>7 DEF Verify
  <2> QED BY <1>2, <2>1, <2>2, EndsUncounted, StaysPassing DEF Outcomes
<1>8. CASE Refuse(c)
  <2>1. prepared' = prepared /\ passthroughs' = passthroughs /\ Finish(c, "refused")
    BY <1>8 DEF Refuse
  <2> QED BY <1>2, <2>1, EndsUncounted DEF Outcomes
<1>9. CASE RecordPassthrough(c)
  <2>1. conn[c].at = "passthrough" /\ prepared' = prepared /\ passthroughs' = passthroughs + 1
    BY <1>9 DEF RecordPassthrough, At
  <2>2. CASE Request(c).proto = "MONGODB"
    <3> DEFINE h == [at |-> "negKey", req |-> Request(c), mock |-> NoMock]
    <3>1. Moves(c, h)
      BY <1>9, <2>2, ProceedMoves DEF RecordPassthrough
    <3>2. Passing(h, prepared'[c]) /\ IsEarly(h)
      BY <2>2 DEF Passing, IsEarly
    <3> HIDE DEF h
    <3> QED BY <1>2, <2>1, <3>1, <3>2, GoesOn
  <2>3. CASE Request(c).proto # "MONGODB"
    <3>1. Finish(c, "bypassed")
      BY <1>9, <2>3 DEF RecordPassthrough
    <3>2. Request(c).proto \notin {"MYSQL_STMT", "ORACLE"}
      <4>1. "passthrough" \notin Route("ORACLE")
        BY DEF Route, SQLProtocols
      <4> QED BY <1>2, <1>3, <2>1, <4>1 DEF Passing
    <3> DEFINE e == [req |-> Request(c), mock |-> conn[c].mock, outcome |-> "bypassed"]
    <3>3. e \in Entries
      BY <1>2, Busy DEF Entries, Outcomes
    <3>4. e \in LetBy
      BY <2>3, <3>2, <3>3 DEF LetBy, Unrecorded
    <3>5. "bypassed" \in Outcomes
      BY DEF Outcomes
    <3> QED BY <1>2, <1>3, <2>1, <3>1, <3>4, <3>5, Ends
  <2> QED BY <2>2, <2>3
<1>10. CASE ForwardToUpstream(c)
  <2>1. conn[c].at = "forward" /\ prepared' = prepared /\ passthroughs' \in {passthroughs, passthroughs + 1}
    BY <1>10 DEF ForwardToUpstream, At
  <2>2. Finish(c, "bypassed") /\ Request(c).proto = "GRPC" /\ GRPCUpstream
    BY <1>2, <1>3, <1>10, <2>1 DEF ForwardToUpstream, Passing
  <2> DEFINE e == [req |-> Request(c), mock |-> conn[c].mock, outcome |-> "bypassed"]
  <2>3. e \in Entries
    BY <1>2, Busy DEF Entries, Outcomes
  <2>4. e \in LetBy /\ e \notin Certain
    BY <2>2, <2>3 DEF LetBy, Unrecorded, Certain, Uncertain
  <2>5. "bypassed" \in Outcomes
    BY DEF Outcomes
  <2>6. passthroughs <= passthroughs' /\ passthroughs' <= passthroughs + 1
    BY <1>3, <2>1
  <2> HIDE DEF e
  <2> QED BY <1>2, <2>1, <2>2, <2>4, <2>5, <2>6, Ends DEF e
<1> QED BY <1>4, <1>5, <1>6, <1>7, <1>8, <1>9, <1>10

LEMMA InitPass == Init => PassInv
<1> SUFFICES ASSUME Init PROVE PassInv
  OBVIOUS
<1>1. \A c \in Conns : Passing(conn[c], prepared[c])
  BY DEF Init, Idle, Passing
<1>2. RecordedEarly = {} /\ Among(log, Certain) = {} /\ Among(log, LetBy) = {} /\ passthroughs = 0
  BY DEF Init, Idle, RecordedEarly, At, Among
<1>3. IsFiniteSet({}) /\ Cardinality({}) = 0
  BY FS_EmptySet
<1> QED BY <1>1, <1>2, <1>3 DEF PassInv, Bounded

LEMMA NextPass ==
  ASSUME Inv, NegInv, PassInv, [Next]_vars
  PROVE  PassInv'
<1>1. CASE UNCHANGED vars
  BY <1>1 DEF vars, PassInv, Passing, Bounded, RecordedEarly, At, Request, Among, LetBy, Certain,
              Unrecorded, Uncertain, Entries
<1>2. ASSUME NEW c \in Conns, Handle(c) PROVE PassInv'
  BY <1>2, ChecksPass, LookupsPass, OthersPassOn DEF Handle
<1>3. ASSUME NEW c \in Conns, NEW r \in Requests, Receive(c, r) PROVE PassInv'
  BY <1>3, ReceivePass
<1> QED BY <1>1, <1>2, <1>3 DEF Next

(***************************************************************************)
(* For any spec and any traffic: the passthroughs recorded are, at every   *)
(* moment, the bypasses of the proxies that record them, one each - those  *)
(* in the history and MongoDB's, which are recorded before their check of  *)
(* EXPECT_NOTs.  Only what a gRPC upstream was sent may or may not count.  *)
(***************************************************************************)
THEOREM BypassesAlwaysRecorded == Spec => []BypassesRecorded
<1>1. Init => Inv /\ NegInv /\ PassInv
  <2>1. Init => NegInv
    BY DEF Init, NegInv, HandlersBehind, Idle
  <2> QED BY <2>1, InitInv, InitPass
<1>2. Inv /\ NegInv /\ PassInv /\ [Next]_vars => (Inv /\ NegInv /\ PassInv)'
  BY NextInv, NextNeg, NextPass
<1>3. Inv /\ NegInv /\ PassInv => BypassesRecorded
  BY PassInvIsEnough
<1> QED BY <1>1, <1>2, <1>3, PTL DEF Spec

-----------------------------------------------------------------------------
(***************************************************************************)
(* The order of arrival.  As long as no request came twice, an EXPECT that *)
(* is some request's own waits for it.                                     *)
(***************************************************************************)
AllHTTP == \A r \in ReceivedRequests : r.proto = "HTTP"

Once ==
  /\ \A c, d \in InFlight : conn[c].req = conn[d].req => c = d
  /\ \A m, n \in DOMAIN log : log[m].req = log[n].req => m = n
  /\ \A c \in InFlight, n \in DOMAIN log : conn[c].req # log[n].req

Judged(r) == \/ \E n \in DOMAIN log : log[n].req = r
             \/ \E c \in Conns : conn[c].at = "verify" /\ conn[c].req = r

FanOut ==
  /\ verifyErrors = <<>>
  /\ \A c \in Conns : conn[c].at = "verify" => VerifyHolds(conn[c].mock, conn[c].req)
  /\ \A c \in Conns : conn[c].at = "findHTTPHost" => OnPath(conn[c].req) = {}
  /\ \A r \in Requests, i \in Mocks : IsOwn(i, r) /\ hits[i] > 0 => Judged(r)

FanInv ==
  /\ IsFiniteSet(InFlight)
  /\ AllHTTP /\ Once => FanOut

LEMMA FirstExists ==
  ASSUME NEW S \in SUBSET Nat, S # {}
  PROVE  First(S) # {}
<1>1. PICK n \in S : \A m \in S : ~ (<<m, n>> \in OpToRel(<, Nat))
  BY NatLessThanWellFounded, WFMin
<1>2. \A m \in S : ~(m < n)
  BY <1>1 DEF OpToRel
<1>3. \A m \in S : n <= m
  BY <1>2
<1> QED BY <1>3 DEF First

(***************************************************************************)
(* A step of a handler keeps what was received, or receives one more.      *)
(***************************************************************************)
Stays(c) == /\ conn[c].at # "idle" /\ conn'[c].at # "idle" /\ conn'[c].req = conn[c].req
            /\ \A d \in Conns \ {c} : conn'[d] = conn[d]
            /\ log' = log

Leaves(c) == /\ conn[c].at # "idle" /\ conn'[c] = Idle
             /\ \A d \in Conns \ {c} : conn'[d] = conn[d]
             /\ \E e \in Entries : e.req = conn[c].req /\ log' = Append(log, e)

Arrives(c) == /\ conn[c].at = "idle" /\ conn'[c].at # "idle"
              /\ \A d \in Conns \ {c} : conn'[d] = conn[d]
              /\ log' = log

LEMMA ProceedStays ==
  ASSUME Inv, Inv', NEW c \in Conns, conn[c].at # "idle", NEW step, NEW mock, Proceed(c, step, mock)
  PROVE  Stays(c)
<1>1. /\ conn'[c] = [at |-> step, req |-> Request(c), mock |-> mock] /\ log' = log
      /\ \A d \in Conns \ {c} : conn'[d] = conn[d]
  BY DEF Proceed, Inv, ConnOK, Handlers
<1>2. Request(c) \in Requests
  BY Busy
<1>3. conn'[c] # Idle
  BY <1>1, <1>2, NoRequestAssumption DEF Idle
<1>4. conn'[c].at # "idle"
  BY <1>3 DEF Inv, ConnOK, HandlerInv, HandlerOK, Idle
<1> QED BY <1>1, <1>4 DEF Stays, Request

LEMMA FinishLeaves ==
  ASSUME Inv, NEW c \in Conns, conn[c].at # "idle", NEW outcome \in Outcomes, Finish(c, outcome)
  PROVE  Leaves(c)
<1> DEFINE e == [req |-> Request(c), mock |-> conn[c].mock, outcome |-> outcome]
<1>1. e \in Entries
  BY Busy DEF Entries
<1>2. /\ conn'[c] = Idle /\ log' = Append(log, e)
      /\ \A d \in Conns \ {c} : conn'[d] = conn[d]
  BY DEF Finish, Inv, ConnOK, Handlers
<1> QED BY <1>1, <1>2 DEF Leaves, Request

LEMMA HandleMoves ==
  ASSUME Inv, Inv', NEW c \in Conns, Handle(c)
  PROVE  Stays(c) \/ Leaves(c)
<1> DEFINE Shape == /\ conn[c].at # "idle"
                    /\ \/ \E outcome \in Outcomes : Finish(c, outcome)
                       \/ \E step, mock : Proceed(c, step, mock)
<1> SUFFICES Shape
  BY ProceedStays, FinishLeaves
<1>1. Outcome(c) \in Outcomes
  BY DEF Outcome, Outcomes
<1>2. CASE CheckNegativeTables(c) \/ CheckNegativeKey(c) \/ CheckNegativeHTTP(c) \/ CheckNegativeRPC(c)
  BY <1>1, <1>2 DEF CheckNegativeTables, CheckNegativeKey, CheckNegativeHTTP, CheckNegativeRPC, At
<1>3. CASE FindByTables(c) \/ FindByKey(c) \/ FindHTTP(c) \/ FindRPC(c) \/ FindRedis(c)
  BY <1>3 DEF FindByTables, FindByKey, FindHTTP, FindRPC, FindRedis, At, Consume, Miss
<1>4. CASE Prepare(c) \/ PopSeed(c)
  BY <1>4 DEF Prepare, PopSeed, Outcomes, At
<1>5. CASE RewriteSQL(c)
  BY <1>5 DEF RewriteSQL, At
<1>6. CASE Verify(c) \/ RecordPassthrough(c) \/ ForwardToUpstream(c) \/ Refuse(c)
  BY <1>6 DEF Verify, RecordPassthrough, ForwardToUpstream, Refuse, Outcomes, At
<1> QED BY <1>2, <1>3, <1>4, <1>5, <1>6 DEF Handle

\* Requests that are apart after a step were apart before it.
LEMMA OnceBefore ==
  ASSUME Inv, Inv', NEW c \in Conns, Stays(c) \/ Leaves(c) \/ Arrives(c), AllHTTP', Once'
  PROVE  AllHTTP /\ Once
<1>1. CASE Stays(c)
  <2>1. InFlight' = InFlight /\ \A d \in Conns : conn'[d].req = conn[d].req
    BY <1>1 DEF Stays, InFlight, At
  <2>2. ReceivedRequests' = ReceivedRequests
    BY <1>1, <2>1 DEF Stays, ReceivedRequests, Handled, InFlight
  <2> QED BY <1>1, <2>1, <2>2 DEF Stays, AllHTTP, Once, InFlight
<1>2. CASE Arrives(c)
  <2>1. \A d \in InFlight : d \in InFlight' /\ conn'[d] = conn[d]
    BY <1>2 DEF Arrives, InFlight, At
  <2>2. ReceivedRequests \subseteq ReceivedRequests'
    BY <1>2, <2>1 DEF Arrives, ReceivedRequests, Handled
  <2> QED BY <1>2, <2>1, <2>2 DEF Arrives, AllHTTP, Once
<1>3. CASE Leaves(c)
  <2>1. PICK e \in Entries : e.req = conn[c].req /\ log' = Append(log, e)
    BY <1>3 DEF Leaves
  <2> DEFINE k == Len(log) + 1
  <2>2. /\ DOMAIN log' = DOMAIN log \cup {k} /\ k \notin DOMAIN log
        /\ \A n \in DOMAIN log : log'[n] = log[n]
        /\ log'[k] = e
    BY <2>1, Appended
  <2> HIDE DEF k
  <2>3. InFlight' = InFlight \ {c} /\ \A d \in InFlight' : conn'[d] = conn[d]
    BY <1>3 DEF Leaves, InFlight, At, Idle
  <2>4. ReceivedRequests \subseteq ReceivedRequests'
    <3>1. \A n \in DOMAIN log : log[n].req \in ReceivedRequests'
      BY <2>2 DEF ReceivedRequests, Handled
    <3>2. conn[c].req \in ReceivedRequests'
      BY <2>1, <2>2 DEF ReceivedRequests, Handled
    <3>3. \A d \in InFlight \ {c} : conn[d].req \in ReceivedRequests'
      BY <2>3 DEF ReceivedRequests
    <3> QED BY <3>1, <3>2, <3>3 DEF ReceivedRequests, Handled
  <2>5. AllHTTP
    BY <2>4 DEF AllHTTP
  <2>6. ASSUME NEW a \in InFlight, NEW d \in InFlight, conn[a].req = conn[d].req PROVE a = d
    <3>1. CASE a # c /\ d # c
      BY <2>3, <2>6, <3>1 DEF Once
    <3>2. \A x \in InFlight \ {c} : conn[x].req # conn[c].req
      BY <2>1, <2>2, <2>3 DEF Once
    <3> QED BY <2>6, <3>1, <3>2
  <2>7. \A m, n \in DOMAIN log : log[m].req = log[n].req => m = n
    BY <2>2 DEF Once
  <2>8. ASSUME NEW a \in InFlight, NEW n \in DOMAIN log PROVE conn[a].req # log[n].req
    <3>1. CASE a # c
      BY <2>2, <2>3, <3>1 DEF Once
    <3>2. CASE a = c
      BY <2>1, <2>2, <3>2 DEF Once
    <3> QED BY <3>1, <3>2
  <2> QED BY <2>5, <2>6, <2>7, <2>8 DEF Once
<1> QED BY <1>1, <1>2, <1>3

LEMMA InFlightFinite ==
  ASSUME Inv, IsFiniteSet(InFlight), NEW c \in Conns, \A d \in Conns \ {c} : conn'[d] = conn[d]
  PROVE  IsFiniteSet(InFlight')
<1>1. InFlight' \subseteq InFlight \cup {c}
  BY DEF InFlight, At
<1>2. IsFiniteSet(InFlight \cup {c})
  BY FS_AddElement
<1> QED BY <1>1, <1>2, FS_Subset

(***************************************************************************)
(* What the steps of an HTTP handler do to a fan-out.                      *)
(***************************************************************************)
LEMMA JudgedStays ==
  ASSUME Inv, NEW c \in Conns, (Stays(c) /\ conn[c].at # "verify") \/ Leaves(c), NEW r, Judged(r)
  PROVE  Judged(r)'
<1>1. CASE Stays(c) /\ conn[c].at # "verify"
  BY <1>1 DEF Stays, Judged
<1>2. CASE Leaves(c)
  <2>1. PICK e \in Entries : e.req = conn[c].req /\ log' = Append(log, e)
    BY <1>2 DEF Leaves
  <2>2. /\ DOMAIN log' = DOMAIN log \cup {Len(log) + 1}
        /\ \A n \in DOMAIN log : log'[n] = log[n]
        /\ log'[Len(log) + 1] = e
    BY <2>1, Appended
  <2> QED BY <1>2, <2>1, <2>2 DEF Leaves, Judged
<1> QED BY <1>1, <1>2

LEMMA OwnIsExpect ==
  ASSUME NEW i, NEW r, IsOwn(i, r)
  PROVE  i \in Expects /\ i \in OnPath(r) \cup OnUrl(r)
<1>1. OnPath(r) \cup OnUrl(r) \subseteq Expects
  BY DEF OnPath, OnUrl, HTTPCandidates, Unconsumed, Expects
<1> QED BY <1>1 DEF IsOwn

LEMMA CandidatesShrink ==
  ASSUME Inv, NEW key, NEW q
  PROVE  /\ HTTPCandidates(hits, key, q) \subseteq HTTPCandidates([i \in Mocks |-> 0], key, q)
         /\ \A i \in HTTPCandidates([j \in Mocks |-> 0], key, q) :
               hits[i] = 0 => i \in HTTPCandidates(hits, key, q)
BY DEF HTTPCandidates, Unconsumed, Inv, StoreOK

\* What there is to show of a step, with the statements and requests outside
\* the primes.
LEMMA FanNext ==
  ASSUME verifyErrors' = <<>>,
         \A d \in Conns : /\ (conn'[d].at = "verify" => VerifyHolds(conn'[d].mock, conn'[d].req))
                          /\ (conn'[d].at = "findHTTPHost" => OnPath(conn'[d].req) = {}),
         \A r \in Requests, i \in Mocks : IsOwn(i, r) /\ hits'[i] > 0 => Judged(r)'
  PROVE  FanOut'
<1>1. \A d \in Conns : conn'[d].at = "verify" => VerifyHolds(conn[d].mock, conn[d].req)'
  BY DEF VerifyHolds
<1>2. \A d \in Conns : conn'[d].at = "findHTTPHost" => (OnPath(conn[d].req) = {})'
  BY DEF OnPath, HTTPCandidates, Unconsumed, BodyMatches, Bucket, getExpectKey, Mocks
<1>3. \A r \in Requests, i \in Mocks : IsOwn(i, r)' => IsOwn(i, r)
  BY DEF IsOwn, OnPath, OnUrl, VerifyHolds, HTTPCandidates, Unconsumed, BodyMatches, Bucket, getExpectKey, Mocks
<1> QED BY <1>1, <1>2, <1>3 DEF FanOut

\* A step that charges no EXPECT and judges nothing.
LEMMA FanQuiet ==
  ASSUME Inv, FanOut, NEW c \in Conns, HitsKept, verifyErrors' = verifyErrors,
         (Stays(c) /\ conn[c].at # "verify") \/ Leaves(c),
         conn'[c].at # "verify", conn'[c].at # "findHTTPHost" \/ OnPath(conn[c].req) = {}
  PROVE  FanOut'
<1>1. \A d \in Conns \ {c} : conn'[d] = conn[d]
  BY DEF Stays, Leaves
<1>2. conn'[c].at = "findHTTPHost" => conn'[c].req = conn[c].req
  BY DEF Stays, Leaves, Idle
<1>3. \A d \in Conns : /\ (conn'[d].at = "verify" => VerifyHolds(conn'[d].mock, conn'[d].req))
                        /\ (conn'[d].at = "findHTTPHost" => OnPath(conn'[d].req) = {})
  BY <1>1, <1>2 DEF FanOut
<1>4. ASSUME NEW r \in Requests, NEW i \in Mocks, IsOwn(i, r), hits'[i] > 0 PROVE Judged(r)'
  <2>1. hits'[i] = hits[i]
    BY <1>4, OwnIsExpect DEF HitsKept
  <2> QED BY <1>4, <2>1, JudgedStays DEF FanOut
<1>5. verifyErrors' = <<>>
  BY DEF FanOut
<1> QED BY <1>3, <1>4, <1>5, FanNext

\* A request that finds candidates finds one whose rules it keeps: its own is
\* still there.
LEMMA FoundHolds ==
  ASSUME Inv, Once, FanOut, EachHasItsOwn, NEW c \in Conns, Request(c) \in Requests,
         Request(c).proto = "HTTP", conn[c].at \in {"findHTTP", "findHTTPHost"}, NEW key,
         key = IF conn[c].at = "findHTTP" THEN Request(c).path ELSE Request(c).key
  PROVE  /\ \A i \in FindHTTPMockWithBody(hits, key, Request(c)) :
               VerifyHolds(i, Request(c)) /\ i \in OnPath(Request(c)) \cup OnUrl(Request(c))
         /\ conn[c].at = "findHTTP" /\ FindHTTPMockWithBody(hits, key, Request(c)) = {} =>
               OnPath(Request(c)) = {}
<1> DEFINE q == Request(c)
           all == HTTPCandidates([i \in Mocks |-> 0], key, q)
           candidates == HTTPCandidates(hits, key, q)
           satisfied  == {i \in candidates : VerifyHolds(i, q)}
<1>1. all \subseteq OnPath(q) \cup OnUrl(q) /\ (conn[c].at = "findHTTP" => all = OnPath(q))
  BY DEF OnPath, OnUrl
<1>2. candidates \subseteq all /\ \A i \in all : hits[i] = 0 => i \in candidates
  BY CandidatesShrink
<1>3. conn[c].at = "findHTTPHost" => OnPath(q) = {} /\ all = OnUrl(q)
  BY DEF FanOut, OnUrl, Request
<1>4. ASSUME all # {} PROVE satisfied # {}
  <2>1. PICK i \in Mocks : IsOwn(i, q)
    BY <1>1, <1>4 DEF EachHasItsOwn
  <2>2. i \in all /\ VerifyHolds(i, q)
    BY <1>1, <1>3, <1>4, <2>1 DEF IsOwn
  <2>3. ~ Judged(q)
    <3>1. c \in InFlight
      BY DEF InFlight, At
    <3>2. \A n \in DOMAIN log : log[n].req # q
      BY <3>1 DEF Once, Request
    <3>3. ASSUME NEW d \in Conns, conn[d].at = "verify", conn[d].req = q PROVE FALSE
      <4>1. d \in InFlight
        BY <3>3 DEF InFlight, At
      <4>2. d = c
        BY <3>1, <3>3, <4>1 DEF Once, Request
      <4> QED BY <3>3, <4>2
    <3> QED BY <3>2, <3>3 DEF Judged
  <2>4. ~(hits[i] > 0)
    BY <2>1, <2>3 DEF FanOut
  <2>5. hits[i] = 0
    BY <2>4 DEF Inv, StoreOK
  <2> QED BY <1>2, <2>2, <2>5
<1>5. satisfied \subseteq candidates /\ (candidates # {} => satisfied # {})
  BY <1>2, <1>4
<1>6. FindHTTPMockWithBody(hits, key, q) = First(IF satisfied # {} THEN satisfied ELSE candidates)
  BY DEF FindHTTPMockWithBody
<1>7. satisfied \subseteq Nat
  <2>1. satisfied \subseteq Mocks
    BY DEF HTTPCandidates, Unconsumed
  <2> QED BY <2>1, DeclAssumption DEF Mocks
<1>8. \A i \in satisfied : VerifyHolds(i, q)
  OBVIOUS
<1> HIDE DEF satisfied, candidates, all, q
<1>9. FindHTTPMockWithBody(hits, key, q) = First(satisfied)
  BY <1>5, <1>6
<1>10. First(satisfied) \subseteq satisfied
  BY DEF First
<1>11. satisfied # {} => First(satisfied) # {}
  BY <1>7, FirstExists
<1>12. \A i \in FindHTTPMockWithBody(hits, key, q) : VerifyHolds(i, q) /\ i \in OnPath(q) \cup OnUrl(q)
  BY <1>1, <1>2, <1>5, <1>8, <1>9, <1>10
<1>13. conn[c].at = "findHTTP" /\ FindHTTPMockWithBody(hits, key, q) = {} => OnPath(q) = {}
  BY <1>1, <1>4, <1>9, <1>11
<1> QED BY <1>12, <1>13 DEF q

\* A lookup that finds a mock charges the own one of nobody but its request.
LEMMA FanTakes ==
  ASSUME Inv, Inv', FanOut, NEW c \in Conns, Request(c) \in Requests, Request(c).proto = "HTTP",
         conn[c].at \in {"findHTTP", "findHTTPHost"}, NEW i \in Mocks, Consume(c, i, "verify", FALSE),
         VerifyHolds(i, Request(c)), i \in OnPath(Request(c)) \cup OnUrl(Request(c))
  PROVE  FanOut'
<1>1. /\ conn'[c] = [at |-> "verify", req |-> Request(c), mock |-> i] /\ log' = log
      /\ \A d \in Conns \ {c} : conn'[d] = conn[d]
  BY DEF Consume, Proceed, Inv, ConnOK, Handlers
<1>2. Stays(c)
  BY ProceedStays DEF Consume
<1>3. verifyErrors' = verifyErrors /\ \A j \in Mocks \ {i} : hits'[j] = hits[j]
  BY DEF Consume, recordHit, Inv, StoreOK
<1>4. \A d \in Conns : /\ (conn'[d].at = "verify" => VerifyHolds(conn'[d].mock, conn'[d].req))
                        /\ (conn'[d].at = "findHTTPHost" => OnPath(conn'[d].req) = {})
  BY <1>1 DEF FanOut
<1>5. ASSUME NEW r \in Requests, NEW j \in Mocks, IsOwn(j, r), hits'[j] > 0 PROVE Judged(r)'
  <2>1. CASE j = i
    <3>1. r = Request(c)
      BY <1>5, <2>1 DEF IsOwn
    <3> QED BY <1>1, <3>1 DEF Judged
  <2>2. CASE j # i
    BY <1>2, <1>3, <1>5, <2>2, JudgedStays DEF FanOut
  <2> QED BY <2>1, <2>2
<1>6. verifyErrors' = <<>>
  BY <1>3 DEF FanOut
<1> QED BY <1>4, <1>5, <1>6, FanNext

LEMMA HandleFan ==
  ASSUME Inv, Inv', NegInv, AllHTTP, Once, FanOut, EachHasItsOwn, NEW c \in Conns, Handle(c),
         conn[c].at # "idle"
  PROVE  FanOut'
<1> DEFINE q == Request(c)
<1>1. q \in Requests /\ q.proto = "HTTP" /\ conn[c].at \in Route("HTTP") /\ q = conn[c].req
  <2>1. c \in InFlight
    BY DEF InFlight, At
  <2>2. q.proto = "HTTP"
    BY <2>1 DEF AllHTTP, ReceivedRequests, Request
  <2> QED BY <2>2, BusyBehind DEF Behind, Request
<1>2. conn[c].at \in {"negHTTP", "negHTTPHost", "findHTTP", "findHTTPHost", "verify", "passthrough"}
  <2>1. Route("HTTP") = {"negHTTP", "negHTTPHost", "findHTTP", "findHTTPHost", "verify", "passthrough"}
    BY DEF Route, SQLProtocols
  <2> QED BY <1>1, <2>1
<1>3. CheckNegativeHTTP(c) \/ FindHTTP(c) \/ Verify(c) \/ RecordPassthrough(c)
  <2>1. ~CheckNegativeTables(c) /\ ~CheckNegativeKey(c) /\ ~CheckNegativeRPC(c)
    BY <1>2 DEF CheckNegativeTables, CheckNegativeKey, CheckNegativeRPC, At
  <2>2. ~FindByTables(c) /\ ~FindByKey(c) /\ ~FindRPC(c) /\ ~FindRedis(c)
    BY <1>2 DEF FindByTables, FindByKey, FindRPC, FindRedis, At
  <2>3. ~Prepare(c) /\ ~PopSeed(c) /\ ~RewriteSQL(c) /\ ~ForwardToUpstream(c) /\ ~Refuse(c)
    BY <1>2 DEF Prepare, PopSeed, RewriteSQL, ForwardToUpstream, Refuse, At
  <2> QED BY <2>1, <2>2, <2>3 DEF Handle
<1>4. CASE CheckNegativeHTTP(c)
  <2>1. PICK S \in SUBSET ExpectNots : RecordNegatives(S)
    BY <1>4, ChecksChargeExpectNots DEF CheckNegativeHTTP
  <2>2. HitsKept /\ verifyErrors' = verifyErrors
    BY <2>1, NegativesKeepHits DEF RecordNegatives
  <2>3. \E step \in {"negHTTPHost", "findHTTP"} : Proceed(c, step, NoMock)
    BY <1>4 DEF CheckNegativeHTTP
  <2>4. Stays(c) /\ conn'[c].at \in {"negHTTPHost", "findHTTP"}
    <3>1. PICK step \in {"negHTTPHost", "findHTTP"} : Proceed(c, step, NoMock)
      BY <2>3
    <3>2. conn'[c].at = step
      BY <3>1 DEF Proceed, Inv, ConnOK, Handlers
    <3> QED BY <3>1, <3>2, ProceedStays
  <2>5. conn[c].at # "verify"
    BY <1>4 DEF CheckNegativeHTTP, At
  <2> QED BY <2>2, <2>4, <2>5, FanQuiet
<1>5. CASE FindHTTP(c)
  <2> DEFINE key == IF conn[c].at = "findHTTP" THEN q.path ELSE q.key
             found == FindHTTPMockWithBody(hits, key, q)
  <2>1. conn[c].at \in {"findHTTP", "findHTTPHost"}
    BY <1>5 DEF FindHTTP, At
  <2>2. \/ \E i \in found : Consume(c, i, "verify", FALSE)
        \/ found = {} /\ \E step \in {"findHTTPHost", "passthrough"} :
              Miss(c, {}, step) /\ (step = "findHTTPHost" => conn[c].at = "findHTTP")
    BY <1>5 DEF FindHTTP, At
  <2>3. /\ \A i \in found : VerifyHolds(i, q) /\ i \in OnPath(q) \cup OnUrl(q) /\ i \in Mocks
        /\ conn[c].at = "findHTTP" /\ found = {} => OnPath(q) = {}
    <3>1. OnPath(q) \cup OnUrl(q) \subseteq Mocks
      BY DEF OnPath, OnUrl, HTTPCandidates, Unconsumed
    <3> QED BY <1>1, <2>1, <3>1, FoundHolds
  <2>4. CASE \E i \in found : Consume(c, i, "verify", FALSE)
    BY <1>1, <2>1, <2>3, <2>4, FanTakes
  <2>5. CASE found = {} /\ \E step \in {"findHTTPHost", "passthrough"} :
              Miss(c, {}, step) /\ (step = "findHTTPHost" => conn[c].at = "findHTTP")
    <3>1. PICK step \in {"findHTTPHost", "passthrough"} :
              Miss(c, {}, step) /\ (step = "findHTTPHost" => conn[c].at = "findHTTP")
      BY <2>5
    <3>2. hits' = hits /\ verifyErrors' = verifyErrors /\ Proceed(c, step, NoMock)
      BY <3>1 DEF Miss
    <3>3. conn'[c].at = step
      BY <3>2 DEF Proceed, Inv, ConnOK, Handlers
    <3>5. Stays(c)
      BY <3>2, ProceedStays
    <3>4. step = "findHTTPHost" => OnPath(conn[c].req) = {}
      BY <1>1, <2>3, <2>5, <3>1
    <3> QED BY <2>1, <3>2, <3>3, <3>4, <3>5, SameHits, FanQuiet
  <2> HIDE DEF found
  <2> QED BY <2>2, <2>4, <2>5
<1>6. CASE Verify(c)
  <2>1. verifyErrors' = verifyErrors /\ hits' = hits
    BY <1>6 DEF Verify, At, FanOut, Request
  <2>2. Finish(c, "served")
    BY <1>1, <1>6 DEF Verify
  <2>3. Leaves(c)
    BY <2>2, FinishLeaves DEF Outcomes
  <2> QED BY <2>1, <2>3, SameHits, FanQuiet DEF Leaves, Idle
<1>7. CASE RecordPassthrough(c)
  <2>1. verifyErrors' = verifyErrors /\ hits' = hits /\ Finish(c, "bypassed")
    BY <1>1, <1>7 DEF RecordPassthrough
  <2>2. Leaves(c)
    BY <2>1, FinishLeaves DEF Outcomes
  <2> QED BY <2>1, <2>2, SameHits, FanQuiet DEF Leaves, Idle
<1> QED BY <1>3, <1>4, <1>5, <1>6, <1>7

LEMMA ReceiveArrives ==
  ASSUME Inv, Inv', NEW c \in Conns, NEW r \in Requests, Receive(c, r)
  PROVE  Arrives(c) /\ conn'[c].at \notin {"verify", "findHTTPHost"}
<1>1. PICK step \in {FirstStep(r.proto), "negTables"} :
        conn' = [conn EXCEPT ![c] = [at |-> step, req |-> r, mock |-> NoMock]]
  BY DEF Receive
<1>2. step \notin {"idle", "verify", "findHTTPHost"}
  BY RequestsAssumption DEF FirstStep, Protocols
<1>3. conn'[c].at = step /\ \A d \in Conns \ {c} : conn'[d] = conn[d]
  BY <1>1 DEF Inv, ConnOK, Handlers
<1>4. conn[c].at = "idle" /\ log' = log
  BY DEF Receive, At
<1> QED BY <1>2, <1>3, <1>4 DEF Arrives

LEMMA ReceiveFan ==
  ASSUME Inv, Inv', FanOut, NEW c \in Conns, NEW r \in Requests, Receive(c, r)
  PROVE  FanOut'
<1>1. Arrives(c) /\ conn'[c].at \notin {"verify", "findHTTPHost"}
  BY ReceiveArrives
<1>2. verifyErrors' = <<>> /\ hits' = hits
  BY DEF Receive, FanOut
<1>3. \A d \in Conns : /\ (conn'[d].at = "verify" => VerifyHolds(conn'[d].mock, conn'[d].req))
                        /\ (conn'[d].at = "findHTTPHost" => OnPath(conn'[d].req) = {})
  BY <1>1 DEF Arrives, FanOut
<1>4. ASSUME NEW q, Judged(q) PROVE Judged(q)'
  BY <1>1, <1>4 DEF Arrives, Judged
<1>5. \A q \in Requests, i \in Mocks : IsOwn(i, q) /\ hits'[i] > 0 => Judged(q)'
  BY <1>2, <1>4 DEF FanOut
<1> QED BY <1>2, <1>3, <1>5, FanNext

LEMMA SameFan ==
  ASSUME FanInv, UNCHANGED vars
  PROVE  FanInv'
<1>1. hits' = hits /\ verifyErrors' = verifyErrors /\ conn' = conn /\ log' = log
  BY DEF vars
<1>2. InFlight' = InFlight /\ ReceivedRequests' = ReceivedRequests
  BY <1>1 DEF InFlight, At, ReceivedRequests, Handled
<1>3. AllHTTP' = AllHTTP /\ Once' = Once
  BY <1>1, <1>2 DEF AllHTTP, Once
<1>4. ASSUME FanOut PROVE FanOut'
  <2>1. \A d \in Conns : /\ (conn'[d].at = "verify" => VerifyHolds(conn'[d].mock, conn'[d].req))
                          /\ (conn'[d].at = "findHTTPHost" => OnPath(conn'[d].req) = {})
    BY <1>1, <1>4 DEF FanOut
  <2>2. \A q : Judged(q)' <=> Judged(q)
    BY <1>1 DEF Judged
  <2>3. \A q \in Requests, i \in Mocks : IsOwn(i, q) /\ hits'[i] > 0 => Judged(q)'
    BY <1>1, <1>4, <2>2 DEF FanOut
  <2>4. verifyErrors' = <<>>
    BY <1>1, <1>4 DEF FanOut
  <2> QED BY <2>1, <2>3, <2>4, FanNext
<1> QED BY <1>2, <1>3, <1>4 DEF FanInv

LEMMA NextFan ==
  ASSUME EachHasItsOwn, Inv, Inv', NegInv, FanInv, [Next]_vars
  PROVE  FanInv'
<1>1. CASE UNCHANGED vars
  BY <1>1, SameFan
<1>2. ASSUME NEW c \in Conns, Handle(c) PROVE FanInv'
  <2>1. Stays(c) \/ Leaves(c)
    BY <1>2, HandleMoves
  <2>2. conn[c].at # "idle" /\ \A d \in Conns \ {c} : conn'[d] = conn[d]
    BY <2>1 DEF Stays, Leaves
  <2>3. IsFiniteSet(InFlight')
    BY <2>2, InFlightFinite DEF FanInv
  <2>4. ASSUME AllHTTP', Once' PROVE FanOut'
    <3>1. AllHTTP /\ Once
      BY <2>1, <2>4, OnceBefore
    <3> QED BY <1>2, <2>2, <3>1, HandleFan DEF FanInv
  <2> QED BY <2>3, <2>4 DEF FanInv
<1>3. ASSUME NEW c \in Conns, NEW r \in Requests, Receive(c, r) PROVE FanInv'
  <2>1. Arrives(c)
    BY <1>3, ReceiveArrives
  <2>2. IsFiniteSet(InFlight')
    BY <2>1, InFlightFinite DEF FanInv, Arrives
  <2>3. ASSUME AllHTTP', Once' PROVE FanOut'
    <3>1. AllHTTP /\ Once
      BY <2>1, <2>3, OnceBefore
    <3> QED BY <1>3, <3>1, ReceiveFan DEF FanInv
  <2> QED BY <2>2, <2>3 DEF FanInv
<1> QED BY <1>1, <1>2, <1>3 DEF Next

LEMMA InitFan == Init => FanInv
<1> SUFFICES ASSUME Init PROVE FanInv
  OBVIOUS
<1>1. InFlight = {}
  BY DEF Init, InFlight, At, Idle
<1>2. verifyErrors = <<>> /\ \A c \in Conns : conn[c].at = "idle"
  BY DEF Init, Idle
<1>3. \A i \in Mocks : ~(hits[i] > 0)
  BY DEF Init
<1>4. IsFiniteSet(InFlight)
  BY <1>1, FS_EmptySet
<1> QED BY <1>2, <1>3, <1>4 DEF FanInv, FanOut

\* When as many different requests were received as requests, none came twice.
LEMMA ApartAreOnce ==
  ASSUME Inv, IsFiniteSet(InFlight),
         Cardinality(ReceivedRequests) = Len(log) + Cardinality(InFlight)
  PROVE  Once
<1> DEFINE handled == {log[n].req : n \in DOMAIN log}
           flying  == {conn[c].req : c \in InFlight}
           f == [n \in DOMAIN log |-> log[n].req]
           g == [c \in InFlight |-> conn[c].req]
<1>1. ReceivedRequests = handled \cup flying
  BY DEF ReceivedRequests, Handled
<1>2. DOMAIN log = 1 .. Len(log) /\ Len(log) \in Nat
  <2>1. log \in Seq(Entries)
    BY DEF Inv, ConnOK
  <2> QED BY <2>1
<1>3. IsFiniteSet(DOMAIN log) /\ Cardinality(DOMAIN log) = Len(log)
  <2> DEFINE k == Len(log)
  <2>1. k \in Int
    BY <1>2
  <2> HIDE DEF k
  <2>2. IsFiniteSet(1 .. k) /\ Cardinality(1 .. k) = IF 1 > k THEN 0 ELSE k - 1 + 1
    BY <2>1, FS_Interval
  <2>3. k \in Nat => Cardinality(1 .. k) = k
    BY <2>2
  <2> QED BY <1>2, <2>2, <2>3 DEF k
<1>4. f \in Surjection(DOMAIN log, handled) /\ g \in Surjection(InFlight, flying)
  BY DEF Surjection
<1>5. /\ IsFiniteSet(handled) /\ Cardinality(handled) <= Len(log)
      /\ Cardinality(handled) = Len(log) => f \in Injection(DOMAIN log, handled)
  BY <1>3, <1>4, FS_Surjection
<1>6. /\ IsFiniteSet(flying) /\ Cardinality(flying) <= Cardinality(InFlight)
      /\ Cardinality(flying) = Cardinality(InFlight) => g \in Injection(InFlight, flying)
  BY <1>4, FS_Surjection
<1>7. f \in Injection(DOMAIN log, handled) => \A m, n \in DOMAIN log : log[m].req = log[n].req => m = n
  BY DEF Injection, IsInjective
<1>8. g \in Injection(InFlight, flying) => \A c, d \in InFlight : conn[c].req = conn[d].req => c = d
  BY DEF Injection, IsInjective
<1>9. handled \cap flying = {} => \A c \in InFlight, n \in DOMAIN log : conn[c].req # log[n].req
  OBVIOUS
<1> HIDE DEF handled, flying, f, g
<1>10. IsFiniteSet(handled \cap flying)
  BY <1>5, FS_Intersection
<1>11. Cardinality(handled \cup flying) = Cardinality(handled) + Cardinality(flying) - Cardinality(handled \cap flying)
  BY <1>5, <1>6, FS_Union
<1>12. /\ Cardinality(handled) \in Nat /\ Cardinality(flying) \in Nat
       /\ Cardinality(handled \cap flying) \in Nat /\ Cardinality(InFlight) \in Nat
  BY <1>5, <1>6, <1>10, FS_CardinalityType
<1>13. /\ Cardinality(handled) = Len(log) /\ Cardinality(flying) = Cardinality(InFlight)
       /\ Cardinality(handled \cap flying) = 0
  BY <1>1, <1>2, <1>5, <1>6, <1>11, <1>12
<1>14. handled \cap flying = {}
  BY <1>10, <1>13, FS_EmptySet
<1> QED BY <1>5, <1>6, <1>7, <1>8, <1>9, <1>13, <1>14 DEF Once

(***************************************************************************)
(* For any spec that gives each HTTP request a statement of its own, which *)
(* no other request satisfies: when no request comes twice, no VERIFY      *)
(* fails, in whatever order they come and however their handlers interleave.*)
(***************************************************************************)
THEOREM ArrivalOrderNeverMatters ==
  ASSUME EachHasItsOwn
  PROVE  Spec => []ArrivalOrderIrrelevant
<1>1. Init => Inv /\ NegInv /\ FanInv
  <2>1. Init => NegInv
    BY DEF Init, NegInv, HandlersBehind, Idle
  <2> QED BY <2>1, InitInv, InitFan
<1>2. Inv /\ NegInv /\ FanInv /\ [Next]_vars => (Inv /\ NegInv /\ FanInv)'
  BY NextInv, NextNeg, NextFan
<1>3. Inv /\ NegInv /\ FanInv => ArrivalOrderIrrelevant
  BY ApartAreOnce DEF FanInv, FanOut, AllHTTP, ArrivalOrderIrrelevant
<1> QED BY <1>1, <1>2, <1>3, PTL DEF Spec

=============================================================================
