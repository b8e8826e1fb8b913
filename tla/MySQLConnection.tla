----------------------------- MODULE MySQLConnection -----------------------------
(***************************************************************************)
(* One connection of the MySQL proxy between a driver and a real server:   *)
(* the handler that reads the driver's commands, the copy of everything    *)
(* the server says, and a registry that may be reloaded meanwhile.  (What  *)
(* connections share is the registry; MockRegistry has several at once.)   *)
(*                                                                         *)
(* A command is [t, q, id, stmt]: its kind, the text it carries, the       *)
(* statement number it carries, and the statement the driver means by it,  *)
(* which nobody else sees.  An answer is [t, q, id, by], where by says who *)
(* made it, which the driver does not see.                                 *)
(***************************************************************************)
EXTENDS Naturals, Sequences, FiniteSets, Functions

CONSTANTS
    Configs,    \* [mocks, queries, keep, transparent, budget]: for each registry in
                \* turn, what the EXPECTs of a query return in CALL order; the queries
                \* of the driver, how many statements it keeps open, whether the
                \* proxy starts transparent; budget bounds commands and deaths
    None

\* What a mock answers with: a result set, an OK packet or an error packet.
Replies == {"rows", "ok", "error"}

ASSUME ConfigsAssumption ==
    \A c \in Configs :
        /\ c.keep \in Nat /\ c.transparent \in BOOLEAN
        /\ Len(c.mocks) \in Nat \ {0} /\ DOMAIN c.mocks = 1..Len(c.mocks)
        /\ \A e \in DOMAIN c.mocks : \A q \in DOMAIN c.mocks[e] : c.mocks[e][q] \in Seq(Replies)

VARIABLES handler, relay, net, server, client, registry, transparent, config, left

vars == <<handler, relay, net, server, client, registry, transparent, config, left>>

Nothing == [x \in {} |-> x]
Put(f, x, y) == [z \in DOMAIN f \cup {x} |-> IF z = x THEN y ELSE f[z]]

Init ==
    /\ config \in Configs
    /\ left = config.budget
    /\ handler = [pc |-> "dialing", preparedStmts |-> Nothing, nextStmtID |-> 1]
    /\ relay = "off"
    /\ net = [c2p |-> << >>, p2c |-> << >>, p2u |-> << >>, u2p |-> << >>, open |-> TRUE, uopen |-> FALSE]
    /\ server = [stmts |-> Nothing, next |-> 1]
    /\ client = [pc |-> "connecting", cmd |-> None, stmts |-> {}]
    /\ registry = [epoch |-> 1, spent |-> Nothing, passthroughs |-> 0]
    /\ transparent = config.transparent

-----------------------------------------------------------------------------
(* What the handler asks of a query and of the registry.                   *)

isTransparent == transparent
isWhitelisted(q) == q.class \in {"session", "fields"}
isShowFullFieldsQuery(q) == q.class = "fields"
Cached(q) == q.cached

Spent(q) == IF q \in DOMAIN registry.spent THEN registry.spent[q] ELSE 0
Expected(q) == IF q \in DOMAIN config.mocks[registry.epoch] THEN config.mocks[registry.epoch][q] ELSE << >>

findMock(q) == Spent(q) < Len(Expected(q))
peekFirst(q) == Spent(q) = 0 /\ Expected(q) # << >>   \* mutant: only the first EXPECT of a query is looked at
peekMock(q) == findMock(q)
Served(q) == Expected(q)[Spent(q) + 1]
Hit(q) == [registry EXCEPT !.spent = Put(@, q, Spent(q) + 1)]

-----------------------------------------------------------------------------
(***************************************************************************)
(* The handler.  Its writes ignore errors; it returns when the driver's    *)
(* socket gives nothing more, and closes both.                             *)
(***************************************************************************)
Dial ==
    /\ handler.pc = "dialing"
    /\ handler' = [handler EXCEPT !.pc = "loop"]
    /\ relay' = "copying"
    /\ net' = [net EXCEPT !.uopen = TRUE, !.u2p = <<[t |-> "greeting", q |-> None, id |-> 0, by |-> "server"]>>]
    /\ UNCHANGED <<server, client, registry, transparent, config, left>>

DialFails ==
    /\ handler.pc = "dialing" /\ left.deaths > 0
    /\ left' = [left EXCEPT !.deaths = @ - 1]
    /\ handler' = [handler EXCEPT !.pc = "gone"]
    /\ net' = [net EXCEPT !.open = FALSE]
    /\ UNCHANGED <<relay, server, client, registry, transparent, config>>

Command == Head(net.c2p)
Reads(types) == handler.pc = "loop" /\ net.open /\ net.c2p # << >> /\ Command.t \in types

Handled(h, out, up, reg) ==
    /\ handler' = h
    /\ net' = [net EXCEPT !.c2p = Tail(@), !.p2c = @ \o out, !.p2u = IF net.uopen THEN @ \o up ELSE @]
    /\ registry' = reg
    /\ UNCHANGED <<relay, server, client, transparent, config, left>>

Forwarded == Handled(handler, << >>, <<Command>>, registry)
Answer(t, q, id) == [t |-> t, q |-> q, id |-> id, by |-> "proxy"]
sendMockResponse(q) == Answer(Served(q), q, 0)
sendErrorResponse(q) == Answer("error", q, 0)

\* Packets of the connection phase, and commands without a case.
Others == Reads({"auth", "ping"}) /\ Forwarded

QueryPasses ==
    /\ Reads({"query"})
    /\ LET q == Command.q IN
        \/ isTransparent
        \/ ~isTransparent /\ isShowFullFieldsQuery(q) /\ ~Cached(q)
        \/ ~isTransparent /\ ~isShowFullFieldsQuery(q) /\ isWhitelisted(q)
    /\ Forwarded

QueryFieldsForwarded ==   \* mutant: a cached description is sent, and the query forwarded as well
    /\ Reads({"query"}) /\ ~isTransparent /\ isShowFullFieldsQuery(Command.q) /\ Cached(Command.q)
    /\ Handled(handler, <<Answer("rows", Command.q, 0)>>, <<Command>>, registry)
QueryFields ==
    /\ Reads({"query"}) /\ ~isTransparent /\ isShowFullFieldsQuery(Command.q) /\ Cached(Command.q)
    /\ Handled(handler, <<Answer("rows", Command.q, 0)>>, << >>, registry)

\* A mock whose VERIFY rules fail is spent, and answered with an error.
Query ==
    /\ Reads({"query"}) /\ ~isTransparent /\ ~isShowFullFieldsQuery(Command.q) /\ ~isWhitelisted(Command.q)
    /\ IF findMock(Command.q)
       THEN Handled(handler, <<sendMockResponse(Command.q)>>, << >>, Hit(Command.q))
       ELSE Handled(handler, << >>, <<Command>>, [registry EXCEPT !.passthroughs = @ + 1])

\* A forwarded Prepare is no passthrough; its answer brings the server's number.
Prepare ==
    /\ Reads({"prepare"})
    /\ IF ~isTransparent /\ ~isWhitelisted(Command.q) /\ peekMock(Command.q)
       THEN Handled([handler EXCEPT !.preparedStmts = Put(@, handler.nextStmtID, Command.q), !.nextStmtID = @ + 1],
                    <<Answer("prepared", Command.q, handler.nextStmtID)>>, << >>, registry)
       ELSE Forwarded

Synthetic == Command.id \in DOMAIN handler.preparedStmts
ForwardsUnknown == Reads({"execute", "longdata", "close", "reset"}) /\ ~Synthetic /\ Forwarded

\* Nothing looks at transparency or the whitelist again.
Execute ==
    /\ Reads({"execute"}) /\ Synthetic
    /\ LET q == handler.preparedStmts[Command.id]
       IN  IF findMock(q) THEN Handled(handler, <<sendMockResponse(q)>>, << >>, Hit(q))
           ELSE Handled(handler, <<sendErrorResponse(q)>>, << >>, registry)

SendLongData == Reads({"longdata"}) /\ Synthetic /\ Handled(handler, << >>, << >>, registry)

CloseKeeps == Reads({"close"}) /\ Synthetic /\ Handled(handler, << >>, << >>, registry)   \* mutant
CloseStatement ==
    /\ Reads({"close"}) /\ Synthetic
    /\ Handled([handler EXCEPT !.preparedStmts = Restrict(@, DOMAIN @ \ {Command.id})], << >>, << >>, registry)

ResetDiscards == Reads({"reset"}) /\ Synthetic /\ Handled(handler, << >>, << >>, registry)   \* mutant
ResetStatement ==
    /\ Reads({"reset"}) /\ Synthetic
    /\ Handled(handler, <<Answer("ok", handler.preparedStmts[Command.id], 0)>>, << >>, registry)

\* The handler forwards COM_QUIT and returns; or its read fails, because the
\* relay closed the socket or the driver did and sent no more.
HandlerReturns ==
    /\ \/ Reads({"quit"})
       \/ handler.pc = "loop" /\ (~net.open \/ (net.c2p = << >> /\ client.pc = "out"))
    /\ handler' = [handler EXCEPT !.pc = "gone"]
    /\ net' = [net EXCEPT !.open = FALSE, !.uopen = FALSE]
    /\ UNCHANGED <<relay, server, client, registry, transparent, config, left>>

Handler ==
    \/ Others \/ QueryPasses \/ QueryFields \/ Query \/ Prepare \/ ForwardsUnknown \/ Execute
    \/ SendLongData \/ CloseStatement \/ ResetStatement \/ HandlerReturns

-----------------------------------------------------------------------------
(* The copy from the server to the driver.                                 *)

Relay ==
    /\ relay = "copying" /\ net.u2p # << >> /\ net.open
    /\ net' = [net EXCEPT !.p2c = Append(@, Head(net.u2p)), !.u2p = Tail(@)]
    /\ UNCHANGED <<handler, relay, server, client, registry, transparent, config, left>>

\* It ends at the server's end of file or at a failing write, and closes the
\* driver's socket.
RelayEnds ==
    /\ relay = "copying" /\ ((~net.uopen /\ net.u2p = << >>) \/ ~net.open)
    /\ relay' = "gone"
    /\ net' = [net EXCEPT !.open = FALSE]
    /\ UNCHANGED <<handler, server, client, registry, transparent, config, left>>

-----------------------------------------------------------------------------
(* The real server: it numbers the statements of a connection from one.    *)

ServerSays(t, q, id) == [t |-> t, q |-> q, id |-> id, by |-> "server"]

ServerAnswers(m) ==
    LET known == m.id \in DOMAIN server.stmts
    IN  CASE m.t \in {"auth", "ping"} -> <<ServerSays("ok", None, 0)>>
          [] m.t = "query" -> <<ServerSays("rows", m.q, 0)>>
          [] m.t = "prepare" -> <<ServerSays("prepared", m.q, server.next)>>
          [] m.t = "execute" -> <<IF known THEN ServerSays("rows", server.stmts[m.id], 0)
                                  ELSE ServerSays("error", None, 0)>>
          [] m.t = "reset" -> <<IF known THEN ServerSays("ok", server.stmts[m.id], 0)
                                ELSE ServerSays("error", None, 0)>>
          [] m.t \in {"longdata", "close"} -> << >>

ServerHandles ==
    /\ net.uopen /\ net.p2u # << >>
    /\ LET m == Head(net.p2u) IN
        /\ server' = CASE m.t = "prepare" -> [stmts |-> Put(server.stmts, server.next, m.q), next |-> server.next + 1]
                       [] m.t = "close" -> [server EXCEPT !.stmts = Restrict(@, DOMAIN @ \ {m.id})]
                       [] m.t \notin {"prepare", "close"} -> server
        /\ net' = [net EXCEPT !.p2u = Tail(@), !.u2p = @ \o ServerAnswers(m)]
    /\ UNCHANGED <<handler, relay, client, registry, transparent, config, left>>

\* What it had sent may be lost with it.
ServerDies ==
    /\ net.uopen /\ left.deaths > 0
    /\ left' = [left EXCEPT !.deaths = @ - 1]
    /\ \E kept \in {<< >>, net.u2p} : net' = [net EXCEPT !.uopen = FALSE, !.p2u = << >>, !.u2p = kept]
    /\ UNCHANGED <<handler, relay, server, client, registry, transparent, config>>

-----------------------------------------------------------------------------
(* The driver: one command at a time, statements prepared, used and closed. *)

Asks(t, q, id, stmt) == [t |-> t, q |-> q, id |-> id, stmt |-> stmt]
Awaits(m) == m.t \notin {"longdata", "close", "quit"}

Commands ==
    [t : {"query"}, q : config.queries, id : {0}, stmt : {None}] \cup {Asks("ping", None, 0, None)}
        \cup {Asks("quit", None, 0, None)}
        \cup (IF Cardinality(client.stmts) < config.keep
              THEN [t : {"prepare"}, q : config.queries, id : {0}, stmt : {None}] ELSE {})
        \cup {Asks(t, None, s.id, s) : t \in {"execute", "longdata", "reset", "close"}, s \in client.stmts}

Send ==
    /\ client.pc = "idle" /\ left.commands > 0 /\ net.open
    /\ left' = [left EXCEPT !.commands = @ - 1]
    /\ \E m \in Commands :
        /\ net' = [net EXCEPT !.c2p = Append(@, m)]
        /\ client' = [client EXCEPT
                !.pc = IF m.t = "quit" THEN "out" ELSE IF Awaits(m) THEN "waiting" ELSE @,
                !.cmd = IF Awaits(m) THEN [ask |-> m, epoch |-> registry.epoch, transparent |-> transparent] ELSE @,
                !.stmts = IF m.t = "close" THEN @ \ {m.stmt} ELSE @]
    /\ UNCHANGED <<handler, relay, server, registry, transparent, config>>

\* What it holds of a statement: its number, and what the properties compare.
Holds(r) == [id |-> r.id, q |-> client.cmd.ask.q, by |-> r.by, epoch |-> client.cmd.epoch,
             transparent |-> client.cmd.transparent]

Receive ==
    /\ client.pc \in {"connecting", "waiting"} /\ net.p2c # << >>
    /\ LET r == Head(net.p2c) IN
       IF r.t = "greeting"
       THEN /\ net' = [net EXCEPT !.p2c = Tail(@), !.c2p = <<Asks("auth", None, 0, None)>>]
            /\ UNCHANGED client
       ELSE /\ net' = [net EXCEPT !.p2c = Tail(@)]
            /\ client' = [client EXCEPT !.pc = "idle", !.cmd = None,
                            !.stmts = IF r.t = "prepared" THEN @ \cup {Holds(r)} ELSE @]
    /\ UNCHANGED <<handler, relay, server, registry, transparent, config, left>>

\* End of file.
Leave ==
    /\ client.pc \in {"connecting", "idle", "waiting"} /\ ~net.open /\ net.p2c = << >>
    /\ client' = [client EXCEPT !.pc = "out"]
    /\ UNCHANGED <<handler, relay, net, server, registry, transparent, config, left>>

-----------------------------------------------------------------------------
\* A reload replaces the registry's mocks and clears its counts; it closes no
\* MySQL connection.
Reload ==
    /\ registry.epoch < Len(config.mocks)
    /\ registry' = [epoch |-> registry.epoch + 1, spent |-> Nothing, passthroughs |-> 0]
    /\ UNCHANGED <<handler, relay, net, server, client, transparent, config, left>>

\* The time the proxy was told to be transparent for is over.
TransparentEnds ==
    /\ transparent
    /\ transparent' = FALSE
    /\ UNCHANGED <<handler, relay, net, server, client, registry, config, left>>

Next ==
    \/ Dial \/ DialFails \/ Handler \/ Relay \/ RelayEnds \/ ServerHandles \/ ServerDies
    \/ Send \/ Receive \/ Leave \/ Reload \/ TransparentEnds

\* The two goroutines, a living server and a waiting driver run on; nothing
\* makes a driver ask, a server die, the runner reload or time pass.
Fairness ==
    /\ WF_vars(Dial) /\ WF_vars(Handler) /\ WF_vars(Relay) /\ WF_vars(RelayEnds)
    /\ WF_vars(ServerHandles) /\ WF_vars(Receive) /\ WF_vars(Leave)

Spec == Init /\ [][Next]_vars /\ Fairness
=============================================================================
