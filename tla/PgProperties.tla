------------------------------ MODULE PgProperties ------------------------------
(***************************************************************************)
(* What a driver behind the PostgreSQL proxy may rely on.                  *)
(***************************************************************************)
EXTENDS PgConnection

\* The connection was set up under the registry now in force.
Current(c) == conn[c].born = registry.epoch
Departures(c) == conn[c].s.departures

-----------------------------------------------------------------------------
(***************************************************************************)
(* Two sources write to the driver's socket, the handler and the relay of  *)
(* the real server; together they answer as one PostgreSQL would: each     *)
(* reply belongs to the oldest message still owed one, and after an error  *)
(* nothing comes but the ReadyForQuery of the Sync.  (Unless the           *)
(* connection has seen a Bind refused by VERIFY, whose pipeline goes on,   *)
(* or a mocked simple query, which brings none or two ReadyForQuery.)      *)
(***************************************************************************)
RepliesAsPostgres == \A c \in client.confused : Current(c) => Departures(c) # {}

(***************************************************************************)
(* A message about a statement or portal the proxy answered for itself is  *)
(* never forwarded: the real server is not asked for a name it has not.    *)
(* (Unless a VERIFY rule refused a Bind on that connection: the handler    *)
(* then does not swallow the rest of the pipeline, as it does after the    *)
(* other Bind error it answers itself.)                                    *)
(***************************************************************************)
ServerKnowsNames == \A c \in Conns : server[c].unknown /\ Current(c) => "verify" \in Departures(c)

(***************************************************************************)
(* Every query a driver saw complete was either a hit of one mock or run   *)
(* once by the real server, and what the server ran is on record unless it *)
(* is housekeeping: Parse and Describe count nothing.  (While the server   *)
(* lives, no reload has cleared the counts, no driver lost its place and   *)
(* the VERIFY rules of the query hold.)                                    *)
(***************************************************************************)
Accounted ==
    client.pc = "idle" /\ registry.epoch = 1 /\ config.budget.deaths = 0 /\ client.confused = {} =>
        LET ran(q) == MapThenSumSet(LAMBDA c : Times(server[c].ran, q), Conns)
            Seen == {q \in DOMAIN client.completed \cup DOMAIN registry.hits \cup UNION {DOMAIN server[c].ran : c \in Conns} :
                        peekMockShape(q) => ~VerifyFails(q)}
        IN  \A q \in Seen :
                /\ Times(client.completed, q) = Times(registry.hits, q) + ran(q)
                /\ ran(q) > 0 => isHousekeepingQuery(q) \/ q \in registry.recorded

(***************************************************************************)
(* Once a reload is over, no connection still open was set up before it:   *)
(* what the handler kept of the previous test's statements is unreachable. *)
(***************************************************************************)
FreshAfterReload ==
    reload = "after" => \A c \in Conns : conn[c].pc = "phase2" /\ net[c].open => Current(c)

-----------------------------------------------------------------------------
(***************************************************************************)
(* A driver that waits is answered, or told that its connection is closed, *)
(* as long as the server process lives and none of its simple queries was  *)
(* answered with an error of a mock, which brings no ReadyForQuery.        *)
(***************************************************************************)
EveryRequestAnswered ==
    (client.pc \in {"waiting", "connecting"} /\ config.budget.deaths = 0) ~>
        (client.pc \in {"idle", "out"} \/ "unready" \in Departures(client.c))

(***************************************************************************)
(* The handler of a connection that was reset returns, whatever it had     *)
(* buffered.                                                               *)
(***************************************************************************)
ResetEndsHandlers ==
    \A c \in Conns : (reload = "after" /\ conn[c].pc = "phase2" /\ ~Current(c)) ~> conn[c].pc = "gone"
=============================================================================
