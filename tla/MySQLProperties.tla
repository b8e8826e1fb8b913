----------------------------- MODULE MySQLProperties -----------------------------
(***************************************************************************)
(* What a driver, and a spec, may rely on of a connection of the MySQL     *)
(* proxy.                                                                  *)
(***************************************************************************)
EXTENDS MySQLConnection

Awaited(s) == Cardinality({k \in DOMAIN s : Awaits(s[k])})
Living == handler.pc = "loop" /\ net.open /\ net.uopen

\* Nothing is under way.
Quiet == Living /\ client.pc = "idle" /\ net.c2p \o net.p2u \o net.u2p \o net.p2c = << >>

-----------------------------------------------------------------------------
(***************************************************************************)
(* Two goroutines write to the driver's socket, and some commands have no  *)
(* answer.  A command that has one is at any moment in exactly one place:  *)
(* on its way to the handler or the server, or answered, once, on the way  *)
(* back; so neither writer overtakes the other and no answer is left over  *)
(* for the next command.                                                   *)
(***************************************************************************)
OneAnswerEach ==
    Living /\ client.pc \in {"idle", "waiting"} =>
        Awaited(net.c2p) + Awaited(net.p2u) + Len(net.u2p) + Len(net.p2c)
            = IF client.pc = "waiting" THEN 1 ELSE 0

(***************************************************************************)
(* The statements a driver has open are those the handler made up and      *)
(* those the server knows, each with its query at its number: closing one  *)
(* forgets it where it was made, and no number leads to another statement. *)
(* (Of a driver that closes a statement before it prepares another.)       *)
(***************************************************************************)
Statements(by, known) == {[id |-> i, q |-> known[i], by |-> by] : i \in DOMAIN known}

StatementsAgree ==
    Quiet =>
        {[id |-> s.id, q |-> s.q, by |-> s.by] : s \in client.stmts}
            = Statements("proxy", handler.preparedStmts) \cup Statements("server", server.stmts)

(***************************************************************************)
(* No EXPECT is passed by: what the handler forwards to be run has no      *)
(* unspent EXPECT in the registry of the moment, unless it is whitelisted, *)
(* the proxy is transparent, or the statement was prepared under an        *)
(* earlier registry or in transparent mode.                                *)
(***************************************************************************)
Means(m) == IF m.t = "execute" THEN m.stmt.q ELSE m.q

Decided(m) == m.t = "query" \/ (m.stmt.epoch = registry.epoch /\ ~m.stmt.transparent)

ForwardsUnexpected ==
    /\ Len(net'.p2u) > Len(net.p2u) /\ Command.t \in {"query", "execute"}
    /\ ~isTransparent /\ Decided(Command) /\ ~isWhitelisted(Means(Command))
    => Spent(Means(Command)) = Len(Expected(Means(Command)))

NoExpectMissed == [][ForwardsUnexpected]_vars

(***************************************************************************)
(* A driver that waits is answered or told that the connection is closed,  *)
(* also when the server dies or cannot be reached: the end of the copy     *)
(* closes the driver's socket.                                             *)
(***************************************************************************)
CommandsAnswered == client.pc \in {"connecting", "waiting"} ~> client.pc \in {"idle", "out"}

-----------------------------------------------------------------------------
(***************************************************************************)
(* "COM_STMT_EXECUTE: if stmtID is one of our synthetic ones, send a mock  *)
(* response. Otherwise forward to upstream." (mysql/proxy.go:302): the     *)
(* answer to an execution is made where the statement was prepared, and of *)
(* its query, however many statements are open.                            *)
(***************************************************************************)
StatementKeepsItsSide ==
    client.pc = "waiting" /\ client.cmd.ask.t = "execute" /\ net.p2c # << >> =>
        LET r == Head(net.p2c)
            s == client.cmd.ask.stmt
        IN  r.by = s.by /\ r.q = s.q
=============================================================================
