------------------------------ MODULE PgConnection ------------------------------
(***************************************************************************)
(* The PostgreSQL proxy between a driver and a real server: the two-phase  *)
(* relay of a connection, the loop that intercepts framed messages, and    *)
(* the reset of every connection when a test's registry is reloaded.       *)
(*                                                                         *)
(* A message carries what its handler reads.  A query is a record, and its *)
(* mock, when the registry of the epoch has one, says which bind values it *)
(* matches and what it returns.  "z" is ReadyForQuery, "e" ErrorResponse;  *)
(* the other replies are named by their protocol letters.                  *)
(***************************************************************************)
EXTENDS Naturals, Sequences, FiniteSetsExt

CONSTANTS Conns,    \* connections a driver may open, in turn
          Configs   \* [mocks, scripts, early, budget]: registry by epoch, batches
                    \* a driver sends, whether PostgreSQL may flush early;
                    \* budget bounds steps, refusals and deaths

ASSUME ConnsAssumption == Conns \subseteq Nat

VARIABLES conn,      \* the handler of each connection
          net,       \* the two sockets of each connection
          server,    \* PostgreSQL's session for each connection
          client,    \* the driver
          registry,  \* [epoch, hits, recorded]
          reload,    \* where the reload handler is
          config,
          left       \* what is left of config.budget

vars == <<conn, net, server, client, registry, reload, config, left>>

Mocks == config.mocks[registry.epoch]
Empty == [x \in {} |-> x]
Put(f, x, y) == [z \in DOMAIN f \cup {x} |-> IF z = x THEN y ELSE f[z]]
Drop(f, x) == [z \in DOMAIN f \ {x} |-> f[z]]
Reply(t) == [t |-> t]
Ready(tx) == [t |-> "z", tx |-> tx]
Done(q) == [t |-> "C", q |-> q]

\* departures is a history: which answers that no PostgreSQL would give the
\* handler has given.  "verify": a Bind refused by a VERIFY rule, with the rest
\* of its pipeline forwarded; "simple": a simple query answered with two
\* ReadyForQuery; "unready": one answered with an error and none.
NewConnectionState ==
    [prepared |-> Empty, described |-> {}, portals |-> Empty, justMocked |-> FALSE,
     mockOnly |-> {}, inTransaction |-> FALSE, swallow |-> FALSE, departures |-> {}]
Fresh == [pc |-> "none", ready |-> FALSE, relay |-> "none", forwarder |-> "none", pre |-> << >>, hand |-> << >>,
          born |-> 0, s |-> NewConnectionState]
Unconnected == [c2p |-> << >>, p2c |-> << >>, p2u |-> << >>, u2p |-> << >>, open |-> FALSE, uopen |-> FALSE]
NewSession == [stmts |-> Empty, portals |-> Empty, tx |-> "I", failed |-> FALSE, held |-> << >>, unknown |-> FALSE,
               ran |-> Empty]

Init ==
    /\ config \in Configs
    /\ left = config.budget
    /\ conn = [c \in Conns |-> Fresh]
    /\ net = [c \in Conns |-> Unconnected]
    /\ server = [c \in Conns |-> NewSession]
    /\ client = [pc |-> "out", c |-> 0, pending |-> << >>, failed |-> FALSE, done |-> FALSE,
                 shape |-> Empty, tx |-> "I", confused |-> {}, completed |-> Empty]
    /\ registry = [epoch |-> 1, hits |-> Empty, recorded |-> {}]
    /\ reload = "before"

-----------------------------------------------------------------------------
(***************************************************************************)
(* What the proxy reads off a query and its mock.                          *)
(***************************************************************************)
txStatus(s) == IF s.inTransaction THEN "T" ELSE "I"
TrackTransaction(s, q) ==
    [s EXCEPT !.inTransaction = IF q.verb = "begin" THEN TRUE ELSE IF q.verb = "end" THEN FALSE ELSE @]

isHousekeepingQuery(q) == q.verb \in {"begin", "end", "session"}
queryReturnsRows(q) == q.verb \in {"select", "returning"}
peekMockShape(q) == q \in DOMAIN Mocks
findMock(q, v) == q \in DOMAIN Mocks /\ v \in Mocks[q].values
VerifyFails(q) == Mocks[q].verify = "fails"
parseDisposition(q) == peekMockShape(q) /\ q.oids

recordPassthroughQuery(q) ==
    [registry EXCEPT !.recorded = IF isHousekeepingQuery(q) THEN @ ELSE @ \cup {q}]
Times(bag, q) == IF q \in DOMAIN bag THEN bag[q] ELSE 0
Hit(q) == [registry EXCEPT !.hits = Put(@, q, Times(@, q) + 1)]

(***************************************************************************)
(* The replies made from a mock.                                           *)
(***************************************************************************)
Rows(mock) == IF mock.returns = "rows" THEN <<Reply("D")>> ELSE << >>
Described(mp) == IF mp.described THEN << >> ELSE <<Reply("T")>>

sendMockResultSetForExtended(mp) ==
    CASE mp.mock.channel = "read" /\ mp.mock.returns = "error" -> <<Reply("e")>>
      [] mp.mock.channel = "read" /\ mp.mock.returns # "error" -> Described(mp) \o Rows(mp.mock)
      [] mp.mock.channel = "write" /\ mp.mock.returns = "rows" -> Described(mp) \o <<Reply("D")>>
      [] mp.mock.channel = "write" /\ mp.mock.returns # "rows" ->
            IF mp.mock.returning THEN Described(mp) \o <<Reply("D")>> ELSE <<Reply("n")>>

sendMockExecuteResponse(mp) ==
    (IF mp.mock.channel = "write" /\ mp.query.verb # "returning" THEN << >> ELSE sendMockResultSetForExtended(mp))
        \o <<Done(mp.query)>>

\* SendEmptyResultSet and SendCommandComplete end with a ReadyForQuery of
\* their own, always idle.
SendCommandComplete(q) == <<Done(q), Ready("I")>>
sendMockResultSimple(mock, q, tx) ==
    IF mock.channel = "read" /\ mock.returns = "error" THEN <<Reply("e")>>
    ELSE (IF mock.channel = "write" THEN << >>
          ELSE <<Reply("T")>> \o Rows(mock) \o (IF mock.returns = "none" THEN SendCommandComplete(q) ELSE << >>))
         \o SendCommandComplete(q) \o <<Ready(tx)>>

sendMockResponse(q, tx) ==
    IF VerifyFails(q) THEN <<Reply("e")>> ELSE sendMockResultSimple(Mocks[q], q, tx)

-----------------------------------------------------------------------------
(***************************************************************************)
(* Startup: a connection is accepted, upstream dialled, and bytes relayed  *)
(* both ways until ReadyForQuery has come from upstream.                   *)
(***************************************************************************)
Closed(n) == [n EXCEPT !.open = FALSE, !.uopen = FALSE, !.p2u = << >>, !.u2p = << >>]

Accept(c) ==
    /\ conn[c].pc = "none" /\ net[c].open
    /\ conn' = [conn EXCEPT ![c].pc = "dialing"]
    /\ UNCHANGED <<net, server, client, registry, reload, config, left>>

Dial(c) ==
    /\ conn[c].pc = "dialing"
    /\ conn' = [conn EXCEPT ![c].pc = "startup", ![c].relay = "startup", ![c].forwarder = "reading"]
    /\ net' = [net EXCEPT ![c].uopen = TRUE]
    /\ UNCHANGED <<server, client, registry, reload, config, left>>

\* Upstream refuses, closes or says nothing for ten seconds.
StartupFails(c) ==
    /\ conn[c].pc = "dialing" \/ (conn[c].pc = "startup" /\ ~conn[c].ready)
    /\ left.refusals > 0
    /\ left' = [left EXCEPT !.refusals = @ - 1]
    /\ conn' = [conn EXCEPT ![c].pc = "gone", ![c].relay = "gone", ![c].forwarder = "gone"]
    /\ net' = [net EXCEPT ![c] = Closed(@)]
    /\ UNCHANGED <<server, client, registry, reload, config>>

\* startupReady is closed before the bytes that carry ReadyForQuery are
\* written to the client.
DetectReady(c) ==
    /\ conn[c].relay = "startup" /\ net[c].u2p # << >>
    /\ conn' = [conn EXCEPT ![c].relay = "announce", ![c].ready = TRUE, ![c].hand = <<Head(net[c].u2p)>>]
    /\ net' = [net EXCEPT ![c].u2p = Tail(@)]
    /\ UNCHANGED <<server, client, registry, reload, config, left>>

AnnounceReady(c) ==
    /\ conn[c].relay = "announce"
    /\ conn' = [conn EXCEPT ![c].relay = IF net[c].open THEN "relaying" ELSE "gone", ![c].hand = << >>]
    /\ net' = IF net[c].open THEN [net EXCEPT ![c].p2c = @ \o conn[c].hand] ELSE net
    /\ UNCHANGED <<server, client, registry, reload, config, left>>

Forward(c) ==
    /\ conn[c].forwarder = "reading" /\ net[c].c2p # << >> /\ net[c].open
    /\ IF conn[c].ready
       THEN /\ conn' = [conn EXCEPT ![c].forwarder = "done", ![c].pre = <<Head(net[c].c2p)>>]
            /\ net' = [net EXCEPT ![c].c2p = Tail(@)]
       ELSE /\ net' = [net EXCEPT ![c].c2p = Tail(@), ![c].p2u = Append(@, Head(net[c].c2p))]
            /\ UNCHANGED conn
    /\ UNCHANGED <<server, client, registry, reload, config, left>>

\* The read times out after 100 ms.
ForwardTimeout(c) ==
    /\ conn[c].forwarder = "reading" /\ net[c].c2p = << >> /\ conn[c].ready
    /\ conn' = [conn EXCEPT ![c].forwarder = "done"]
    /\ UNCHANGED <<net, server, client, registry, reload, config, left>>

PhaseTwo(c) ==
    /\ conn[c].pc = "startup" /\ conn[c].ready /\ conn[c].forwarder \in {"done", "gone"}
    /\ conn' = [conn EXCEPT ![c].pc = "phase2", ![c].born = registry.epoch, ![c].pre = << >>]
    /\ net' = [net EXCEPT ![c].c2p = conn[c].pre \o @]
    /\ UNCHANGED <<server, client, registry, reload, config, left>>

Relay(c) ==
    /\ conn[c].relay = "relaying" /\ net[c].u2p # << >> /\ net[c].uopen
    /\ net' = [net EXCEPT ![c].p2c = Append(@, Head(net[c].u2p)), ![c].u2p = Tail(@)]
    /\ UNCHANGED <<conn, server, client, registry, reload, config, left>>

\* A goroutine whose socket was closed ends.
GoroutineEnds(c) ==
    /\ \/ /\ conn[c].relay \in {"startup", "relaying"} /\ ~net[c].uopen
          /\ conn' = [conn EXCEPT ![c].relay = "gone"]
       \/ /\ conn[c].forwarder = "reading" /\ ~net[c].open
          /\ conn' = [conn EXCEPT ![c].forwarder = "gone"]
       \/ /\ conn[c].pc = "startup" /\ ~conn[c].ready /\ conn[c].relay = "gone"
          /\ conn' = [conn EXCEPT ![c].pc = "gone"]
    /\ UNCHANGED <<net, server, client, registry, reload, config, left>>

-----------------------------------------------------------------------------
(***************************************************************************)
(* Phase two: one framed message at a time.  A message already buffered is *)
(* handled even when the sockets are closed; the handler returns at its    *)
(* first failing read or write, and closes both.                           *)
(***************************************************************************)
Next1(c) == Head(net[c].c2p)
Reads(c, types) == conn[c].pc = "phase2" /\ net[c].c2p # << >> /\ Next1(c).t \in types

Handled(c, s, out, up) ==
    LET fails == (out # << >> /\ ~net[c].open) \/ (up # << >> /\ ~net[c].uopen)
    IN  /\ conn' = [conn EXCEPT ![c].s = s, ![c].pc = IF fails THEN "gone" ELSE @]
        /\ net' = [net EXCEPT ![c] =
                IF fails THEN Closed(@)
                ELSE [@ EXCEPT !.c2p = Tail(@), !.p2c = @ \o out, !.p2u = @ \o up]]
        /\ UNCHANGED <<server, client, reload, config, left>>

Locally(c, s, out) == Handled(c, s, out, << >>)
Upstream(c, s) == Handled(c, s, << >>, <<Next1(c)>>)
Passes(c, types) == Reads(c, types) /\ ~conn[c].s.swallow

SwallowAll(c) ==   \* mutant: the Sync is swallowed as well
    /\ Reads(c, {"Describe", "Execute", "Sync"}) /\ conn[c].s.swallow
    /\ Locally(c, [conn[c].s EXCEPT !.swallow = (Next1(c).t # "Sync")], << >>)
    /\ UNCHANGED registry
\* After a Bind answered with an error: only these three are treated so.
Swallow(c) ==
    /\ Reads(c, {"Describe", "Execute", "Sync"}) /\ conn[c].s.swallow
    /\ IF Next1(c).t = "Sync"
       THEN Locally(c, [conn[c].s EXCEPT !.swallow = FALSE], <<Ready(txStatus(conn[c].s))>>)
       ELSE Locally(c, conn[c].s, << >>)
    /\ UNCHANGED registry

Parse(c) ==
    /\ Reads(c, {"Parse"})
    /\ LET m == Next1(c)
           s == TrackTransaction([conn[c].s EXCEPT !.prepared = Put(@, m.stmt, m.q)], m.q)
       IN  IF parseDisposition(m.q)
           THEN Locally(c, [s EXCEPT !.mockOnly = @ \cup {m.stmt}], <<Reply("1")>>)
           ELSE Upstream(c, [s EXCEPT !.mockOnly = @ \ {m.stmt}])
    /\ UNCHANGED registry

DescribeWithAHit(c) ==   \* mutant: Describe looks the mock up with findMock
    /\ Passes(c, {"Describe"}) /\ Next1(c).of = "S" /\ Next1(c).stmt \in conn[c].s.mockOnly
    /\ LET m == Next1(c)
           q == conn[c].s.prepared[m.stmt]
       IN  /\ registry' = IF q \in DOMAIN Mocks THEN Hit(q) ELSE registry
           /\ Locally(c, [conn[c].s EXCEPT !.described = @ \cup {m.stmt}], <<Reply("t"), Reply("T")>>)
DescribeStatement(c) ==
    /\ Passes(c, {"Describe"}) /\ Next1(c).of = "S"
    /\ LET m == Next1(c)
           s == conn[c].s
           seen == [s EXCEPT !.described = @ \cup {m.stmt}]
       IN  CASE m.stmt \notin s.mockOnly -> Upstream(c, seen)
             [] m.stmt \in s.mockOnly /\ queryReturnsRows(s.prepared[m.stmt]) -> Locally(c, seen, <<Reply("t"), Reply("T")>>)
             [] m.stmt \in s.mockOnly /\ ~queryReturnsRows(s.prepared[m.stmt]) -> Locally(c, s, <<Reply("t"), Reply("n")>>)
    /\ UNCHANGED registry

DescribePortal(c) ==
    /\ Passes(c, {"Describe"}) /\ Next1(c).of = "P"
    /\ LET m == Next1(c)
           s == conn[c].s
       IN  CASE m.portal \notin DOMAIN s.portals -> Upstream(c, s)
             [] m.portal \in DOMAIN s.portals /\ s.portals[m.portal].mock.channel = "read" ->
                    Locally(c, [s EXCEPT !.portals[m.portal].described = TRUE], <<Reply("T")>>)
             [] m.portal \in DOMAIN s.portals /\ s.portals[m.portal].mock.channel # "read" -> Locally(c, s, <<Reply("n")>>)
    /\ UNCHANGED registry

\* A local Close forgets nothing.
Close(c) ==
    /\ Reads(c, {"Close"})
    /\ IF \/ Next1(c).of = "S" /\ Next1(c).stmt \in conn[c].s.mockOnly
          \/ Next1(c).of = "P" /\ Next1(c).portal \in DOMAIN conn[c].s.portals
       THEN Locally(c, conn[c].s, <<Reply("3")>>)
       ELSE Upstream(c, conn[c].s)
    /\ UNCHANGED registry

\* Flush, and Terminate and every type without a case.
Others(c) == Reads(c, {"Flush", "Terminate"}) /\ Upstream(c, conn[c].s) /\ UNCHANGED registry

Departs(s, how) == [s EXCEPT !.departures = @ \cup {how}]
Mocked(c, m, q) ==
    Put(conn[c].s.portals, m.portal,
        [mock |-> Mocks[q], query |-> q, described |-> m.stmt \in conn[c].s.described])

BindForwards(c) ==   \* mutant: a Bind no mock matches is forwarded, wherever its Parse went
    /\ Reads(c, {"Bind"})
    /\ LET m == Next1(c)
           q == conn[c].s.prepared[m.stmt]
       IN  IF m.stmt \in DOMAIN conn[c].s.prepared /\ findMock(q, m.v)
           THEN /\ Locally(c, [conn[c].s EXCEPT !.portals = Mocked(c, m, q)], <<Reply("2")>>)
                /\ registry' = Hit(q)
           ELSE Upstream(c, conn[c].s) /\ UNCHANGED registry
Bind(c) ==
    /\ Reads(c, {"Bind"})
    /\ LET m == Next1(c)
           s == conn[c].s
           known == m.stmt \in DOMAIN s.prepared
           q == s.prepared[m.stmt]
       IN  CASE ~known -> Upstream(c, s) /\ UNCHANGED registry
             [] known /\ findMock(q, m.v) /\ VerifyFails(q) ->
                    Locally(c, Departs(s, "verify"), <<Reply("e")>>) /\ registry' = Hit(q)
             [] known /\ findMock(q, m.v) /\ ~VerifyFails(q) ->
                    /\ Locally(c, [s EXCEPT !.portals = Mocked(c, m, q)], <<Reply("2")>>)
                    /\ registry' = Hit(q)
             [] known /\ ~findMock(q, m.v) /\ m.stmt \in s.mockOnly ->
                    Locally(c, [s EXCEPT !.swallow = TRUE], <<Reply("e")>>) /\ UNCHANGED registry
             [] known /\ ~findMock(q, m.v) /\ m.stmt \notin s.mockOnly ->
                    Upstream(c, s) /\ registry' = recordPassthroughQuery(q)

Execute(c) ==
    /\ Passes(c, {"Execute"})
    /\ LET p == Next1(c).portal
           s == conn[c].s
       IN  IF p \in DOMAIN s.portals
           THEN Locally(c, [s EXCEPT !.portals = Drop(@, p), !.justMocked = TRUE], sendMockExecuteResponse(s.portals[p]))
           ELSE Upstream(c, [s EXCEPT !.justMocked = FALSE])
    /\ UNCHANGED registry

SyncSticky(c) ==   \* mutant: the flag is not cleared
    /\ Passes(c, {"Sync"})
    /\ IF conn[c].s.justMocked
       THEN Locally(c, conn[c].s, <<Ready(txStatus(conn[c].s))>>)
       ELSE Upstream(c, conn[c].s)
    /\ UNCHANGED registry
Sync(c) ==
    /\ Passes(c, {"Sync"})
    /\ IF conn[c].s.justMocked
       THEN Locally(c, [conn[c].s EXCEPT !.justMocked = FALSE], <<Ready(txStatus(conn[c].s))>>)
       ELSE Upstream(c, conn[c].s)
    /\ UNCHANGED registry

Query(c) ==
    /\ Reads(c, {"Query"})
    /\ LET m == Next1(c)
           s == TrackTransaction(conn[c].s, m.q)
           out == sendMockResponse(m.q, txStatus(s))
       IN  IF findMock(m.q, m.v)
           THEN /\ Locally(c, Departs(s, IF out = <<Reply("e")>> THEN "unready" ELSE "simple"), out)
                /\ registry' = Hit(m.q)
           ELSE Upstream(c, s) /\ registry' = recordPassthroughQuery(m.q)

HandlerReadsOn(c) ==   \* mutant: only an end of file ends the loop, not a closed socket
    /\ conn[c].pc = "phase2" /\ net[c].c2p = << >> /\ ~net[c].open /\ net[c].uopen
    /\ conn' = [conn EXCEPT ![c].pc = "gone"]
    /\ net' = [net EXCEPT ![c] = Closed(@)]
    /\ UNCHANGED <<server, client, registry, reload, config, left>>
\* The client has gone or the socket was closed: the read fails.
HandlerEnds(c) ==
    /\ conn[c].pc = "phase2" /\ net[c].c2p = << >> /\ ~net[c].open
    /\ conn' = [conn EXCEPT ![c].pc = "gone"]
    /\ net' = [net EXCEPT ![c] = Closed(@)]
    /\ UNCHANGED <<server, client, registry, reload, config, left>>

Handler(c) ==
    \/ Swallow(c) \/ Parse(c) \/ DescribeStatement(c) \/ DescribePortal(c) \/ Close(c) \/ Others(c)
    \/ Bind(c) \/ Execute(c) \/ Sync(c) \/ Query(c) \/ HandlerEnds(c)

-----------------------------------------------------------------------------
(***************************************************************************)
(* PostgreSQL: it answers in order, holds its output back until Sync,      *)
(* Query or Flush (or until a buffer fills), and after an error discards   *)
(* what comes before the next Sync.                                        *)
(***************************************************************************)
Result(q) == IF q.verb \in {"select", "returning", "cte"} THEN <<Reply("D")>> ELSE << >>
RowShape(q) == IF q.verb \in {"select", "returning", "cte"} THEN Reply("T") ELSE Reply("n")
After(tx, q) == IF q.verb = "begin" THEN "T" ELSE IF q.verb = "end" THEN "I" ELSE tx

Ran(v, q) == [v EXCEPT !.tx = After(@, q), !.ran = Put(@, q, Times(@, q) + 1)]

Answers(c, v, out, flush) ==
    /\ server' = [server EXCEPT ![c] = [v EXCEPT !.held = IF flush THEN << >> ELSE @ \o out]]
    /\ net' = [net EXCEPT ![c].p2u = Tail(@), ![c].u2p = IF flush THEN @ \o v.held \o out ELSE @]
    /\ UNCHANGED <<conn, client, registry, reload, config, left>>

Errs(v) == [v EXCEPT !.failed = TRUE, !.tx = IF @ = "I" THEN "I" ELSE "E"]
Refuses(v) == [Errs(v) EXCEPT !.unknown = TRUE]
Ok(v, m) == CASE m.t = "Parse" -> v.tx # "E"
              [] m.t = "Bind" -> v.tx # "E" /\ m.stmt \in DOMAIN v.stmts
              [] m.t = "Describe" /\ m.of = "S" -> m.stmt \in DOMAIN v.stmts
              [] m.t \in {"Describe", "Execute"} /\ m.of = "P" -> m.portal \in DOMAIN v.portals

PgMessage(c) ==
    /\ net[c].uopen /\ net[c].p2u # << >>
    /\ LET m == Head(net[c].p2u)
           v == server[c]
       IN  \/ /\ m.t = "Startup" /\ Answers(c, v, <<Ready("I")>>, TRUE)
           \/ /\ m.t = "Sync"
              /\ Answers(c, [v EXCEPT !.failed = FALSE, !.portals = IF v.tx = "I" THEN Empty ELSE @], <<Ready(v.tx)>>, TRUE)
           \/ /\ m.t = "Terminate"
              /\ net' = [net EXCEPT ![c].p2u = << >>, ![c].uopen = FALSE]
              /\ UNCHANGED <<conn, server, client, registry, reload, config, left>>
           \/ /\ v.failed /\ m.t \notin {"Startup", "Sync", "Query", "Terminate"} /\ Answers(c, v, << >>, FALSE)
           \/ /\ ~v.failed /\ m.t = "Flush" /\ Answers(c, v, << >>, TRUE)
           \/ /\ ~v.failed /\ m.t \in {"Parse", "Bind", "Describe", "Execute"} /\ ~Ok(v, m)
              /\ Answers(c, IF v.tx = "E" /\ m.t \in {"Parse", "Bind"} THEN Errs(v) ELSE Refuses(v), <<Reply("e")>>, FALSE)
           \/ \E flush \in config.early :
              \/ /\ ~v.failed /\ m.t = "Parse" /\ Ok(v, m)
                 /\ Answers(c, [v EXCEPT !.stmts = Put(@, m.stmt, m.q)], <<Reply("1")>>, flush)
              \/ /\ ~v.failed /\ m.t = "Bind" /\ Ok(v, m)
                 /\ Answers(c, [v EXCEPT !.portals = Put(@, m.portal, v.stmts[m.stmt])], <<Reply("2")>>, flush)
              \/ /\ ~v.failed /\ m.t = "Describe" /\ Ok(v, m)
                 /\ Answers(c, v, IF m.of = "S" THEN <<Reply("t"), RowShape(v.stmts[m.stmt])>>
                                  ELSE <<RowShape(v.portals[m.portal])>>, flush)
              \/ /\ ~v.failed /\ m.t = "Close"
                 /\ Answers(c, IF m.of = "S" THEN [v EXCEPT !.stmts = Drop(@, m.stmt)]
                               ELSE [v EXCEPT !.portals = Drop(@, m.portal)], <<Reply("3")>>, flush)
              \/ /\ ~v.failed /\ m.t = "Execute" /\ Ok(v, m)
                 /\ LET q == v.portals[m.portal] IN
                    \/ Answers(c, Ran(v, q), Result(q) \o <<Done(q)>>, flush)
                    \/ q.fails /\ Answers(c, Errs(v), <<Reply("e")>>, flush)
           \/ /\ m.t = "Query"
              /\ LET w == [v EXCEPT !.portals = Empty, !.stmts =
                            IF m.q.verb = "prepare" THEN Put(Drop(@, ""), m.q.name, m.q) ELSE Drop(@, "")] IN
                 \/ /\ v.tx # "E" \/ m.q.verb = "end"
                    /\ Answers(c, Ran(w, m.q),
                               (IF Result(m.q) = << >> THEN << >> ELSE <<Reply("T")>> \o Result(m.q))
                               \o <<Done(m.q), Ready(After(v.tx, m.q))>>, TRUE)
                 \/ /\ (v.tx = "E" /\ m.q.verb # "end") \/ m.q.fails
                    /\ Answers(c, [Errs(v) EXCEPT !.failed = FALSE, !.portals = Empty], <<Reply("e"), Ready(Errs(v).tx)>>, TRUE)

\* The server process dies.
PgDies(c) ==
    /\ conn[c].pc = "phase2" /\ net[c].uopen /\ left.deaths > 0
    /\ left' = [left EXCEPT !.deaths = @ - 1]
    /\ net' = [net EXCEPT ![c].uopen = FALSE, ![c].p2u = << >>, ![c].u2p = << >>]
    /\ UNCHANGED <<conn, server, client, registry, reload, config>>

-----------------------------------------------------------------------------
(***************************************************************************)
(* The driver sends a batch, waits for its ReadyForQuery, and checks every *)
(* reply against the message it is owed for.                               *)
(***************************************************************************)
Connect ==
    /\ client.pc = "out" /\ left.steps > 0
    /\ \E c \in Conns :
        /\ c = client.c + 1
        /\ client' = [client EXCEPT !.pc = "connecting", !.c = c, !.pending = << >>, !.failed = FALSE,
                                    !.done = FALSE, !.shape = Empty, !.tx = "I"]
        /\ net' = [net EXCEPT ![c].open = TRUE, ![c].c2p = <<[t |-> "Startup"]>>]
    /\ UNCHANGED <<conn, server, registry, reload, config, left>>

\* A statement is executed by name only once it has been prepared.
Prepared(b) ==
    \A i \in 1..Len(b) :
        b[i].t = "Bind" /\ b[i].stmt # "" => b[i].stmt \in DOMAIN client.shape
Unprepared(b) ==
    \A i \in 1..Len(b) : b[i].t = "Parse" => b[i].stmt = "" \/ b[i].stmt \notin DOMAIN client.shape
Suits(b) ==
    \A i \in 1..Len(b) :
        /\ b[i].t = "Query" /\ b[i].q.verb = "begin" => client.tx = "I"
        /\ b[i].t = "Query" /\ b[i].q.verb = "end" => client.tx # "I"

Owed(b) == SelectSeq(b, LAMBDA m : m.t # "Flush")

Send(b) ==
    /\ client.pc = "idle" /\ left.steps > 0 /\ net[client.c].open
    /\ b \in config.scripts /\ Prepared(b) /\ Unprepared(b) /\ Suits(b)
    /\ left' = [left EXCEPT !.steps = @ - 1]
    /\ net' = [net EXCEPT ![client.c].c2p = @ \o b]
    /\ client' = [client EXCEPT !.pc = IF b[1].t = "Terminate" THEN "leaving" ELSE "waiting", !.pending = Owed(b),
                                !.failed = FALSE, !.done = FALSE]
    /\ UNCHANGED <<conn, server, registry, reload, config>>

\* The reply belongs to the first message still owed one.
Legal(r) ==
    IF client.pc = "connecting" THEN r.t = "z"
    ELSE /\ client.pc = "waiting"
         /\ LET m == Head(client.pending) IN
            CASE client.failed -> r.t = "z"
              [] ~client.failed /\ r.t = "e" -> m.t # "Sync" /\ ~client.done
              [] ~client.failed /\ r.t = "z" -> m.t = "Sync" \/ (m.t = "Query" /\ client.done)
              [] ~client.failed /\ r.t = "1" -> m.t = "Parse"
              [] ~client.failed /\ r.t = "2" -> m.t = "Bind"
              [] ~client.failed /\ r.t = "3" -> m.t = "Close"
              [] ~client.failed /\ r.t = "t" -> m.t = "Describe" /\ m.of = "S" /\ ~client.done
              [] ~client.failed /\ r.t = "T" -> m.t = "Query" \/ (m.t = "Describe" /\ (client.done <=> m.of = "S"))
              [] ~client.failed /\ r.t = "n" -> m.t = "Describe" /\ (client.done <=> m.of = "S")
              [] ~client.failed /\ r.t = "D" -> m.t = "Query" \/ (m.t = "Execute" /\ <<m.stmt, "T">> \in {<<x, client.shape[x]>> : x \in DOMAIN client.shape})
              [] ~client.failed /\ r.t = "C" -> m.t \in {"Query", "Execute"} /\ r.q = m.q /\ ~client.done

\* done: the query of a simple request is complete, or the parameters of a
\* described statement have come and its row shape is still owed.
Believed(r) ==
    LET m == Head(client.pending)
    IN  CASE r.t = "z" -> [client EXCEPT !.pc = "idle", !.pending = << >>, !.tx = r.tx, !.failed = FALSE, !.done = FALSE]
          [] r.t = "e" -> [client EXCEPT !.failed = TRUE]
          [] r.t \in {"1", "2", "3"} -> [client EXCEPT !.pending = Tail(@), !.shape =
                IF m.t = "Close" /\ m.of = "S" THEN Drop(@, m.stmt) ELSE @]
          [] r.t = "t" -> [client EXCEPT !.done = TRUE]
          [] r.t \in {"T", "n"} -> IF m.t = "Query" THEN client
                ELSE [client EXCEPT !.done = FALSE, !.pending = Tail(@), !.shape = Put(@, m.stmt, r.t)]
          [] r.t = "D" -> client
          [] OTHER ->   \* "C"
                [client EXCEPT !.done = (m.t = "Query"), !.pending = IF m.t = "Query" THEN @ ELSE Tail(@),
                               !.completed = Put(@, r.q, Times(@, r.q) + 1), !.shape =
                               IF r.q.verb = "prepare" THEN Put(@, r.q.name, "n") ELSE @]

Receive ==
    /\ client.pc \in {"connecting", "idle", "waiting"} /\ net[client.c].p2c # << >>
    /\ LET r == Head(net[client.c].p2c) IN
        /\ client' = IF Legal(r) THEN Believed(r) ELSE [client EXCEPT !.pc = "lost", !.confused = @ \cup {client.c}]
    /\ net' = [net EXCEPT ![client.c].p2c = Tail(@)]
    /\ UNCHANGED <<conn, server, registry, reload, config, left>>

\* A driver that lost its place, got an end of file or has sent Terminate
\* leaves the connection; the next request opens another.
Leave ==
    /\ \/ client.pc \in {"leaving", "lost"}
       \/ client.pc \in {"connecting", "idle", "waiting"} /\ ~net[client.c].open /\ net[client.c].p2c = << >>
    /\ client' = [client EXCEPT !.pc = "out", !.pending = << >>]
    /\ net' = [net EXCEPT ![client.c].open = FALSE, ![client.c].p2c = << >>]
    /\ UNCHANGED <<conn, server, registry, reload, config, left>>

-----------------------------------------------------------------------------
(***************************************************************************)
(* The reload handler of the sidecar: the registry is replaced and its     *)
(* state cleared, then every connection is closed.  What a handler had     *)
(* already read of a socket stays readable.                                *)
(***************************************************************************)
Replace ==
    /\ reload = "before" /\ registry.epoch < Len(config.mocks)
    /\ registry' = [epoch |-> registry.epoch + 1, hits |-> Empty, recorded |-> {}]
    /\ reload' = "replaced"
    /\ UNCHANGED <<conn, net, server, client, config, left>>

InStartup(c) == conn[c].pc = "startup"   \* mutant: an entry is deleted when startup is over
Registered(c) == conn[c].pc \in {"startup", "phase2"}

ResetConnections ==
    /\ reload = "replaced"
    /\ \E kept \in [Conns -> 0..Max({Len(net[c].c2p) : c \in Conns})] :
        /\ \A c \in Conns : kept[c] <= IF Registered(c) THEN Len(net[c].c2p) ELSE 0
        /\ net' = [c \in Conns |-> IF Registered(c) THEN [Closed(net[c]) EXCEPT !.c2p = SubSeq(@, 1, kept[c])]
                                   ELSE net[c]]
    /\ reload' = "after"
    /\ UNCHANGED <<conn, server, client, registry, config, left>>

Startup(c) ==
    \/ Accept(c) \/ Dial(c) \/ DetectReady(c) \/ AnnounceReady(c) \/ Forward(c) \/ ForwardTimeout(c)
    \/ PhaseTwo(c) \/ GoroutineEnds(c)

Next ==
    \/ \E c \in Conns : Startup(c) \/ StartupFails(c) \/ Relay(c) \/ Handler(c) \/ PgMessage(c) \/ PgDies(c)
    \/ Connect \/ (\E b \in config.scripts : Send(b)) \/ Receive \/ Leave
    \/ Replace \/ ResetConnections

\* Goroutines, the server and a driver that waits all run on; nothing makes
\* a driver send, a server fail or the runner reload.
Fairness ==
    /\ \A c \in Conns : WF_vars(Startup(c)) /\ WF_vars(Relay(c)) /\ WF_vars(Handler(c)) /\ WF_vars(PgMessage(c))
    /\ WF_vars(Receive) /\ WF_vars(Leave) /\ WF_vars(ResetConnections)

Spec == Init /\ [][Next]_vars /\ Fairness
=============================================================================
