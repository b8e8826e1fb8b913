----------------------------- MODULE MySQLProofs -----------------------------
(***************************************************************************)
(* Theorems about a connection of the MySQL proxy, for any specs, queries, *)
(* budgets and interleavings of the driver, the two goroutines, the server *)
(* and the runner.                                                         *)
(***************************************************************************)
EXTENDS MySQLProperties, FiniteSetTheorems, SequenceTheorems, TLAPS

-----------------------------------------------------------------------------
(***************************************************************************)
(* Types.                                                                  *)
(***************************************************************************)
Queries == UNION {c.queries : c \in Configs}

Open == [id : Nat, q : Queries, by : {"proxy", "server"}, epoch : Nat, transparent : BOOLEAN]

OfStatement == {"execute", "longdata", "reset", "close"}

Asked ==
  [t : {"query", "prepare"}, q : Queries, id : {0}, stmt : {None}]
    \cup [t : {"auth", "ping", "quit"}, q : {None}, id : {0}, stmt : {None}]
    \cup [t : OfStatement, q : {None}, id : Nat, stmt : Open]

Answers ==
  [t : {"greeting", "prepared"} \cup Replies, q : Queries \cup {None}, id : Nat,
   by : {"proxy", "server"}]

Pending == [ask : Asked, epoch : Nat, transparent : BOOLEAN]

IsTable(f) ==
  /\ f = [i \in DOMAIN f |-> f[i]]
  /\ \A i \in DOMAIN f : i \in Nat /\ f[i] \in Queries

HandlerOK(h) ==
  /\ h = [pc |-> h.pc, preparedStmts |-> h.preparedStmts, nextStmtID |-> h.nextStmtID]
  /\ h.pc \in {"dialing", "loop", "gone"}
  /\ IsTable(h.preparedStmts) /\ h.nextStmtID \in Nat

ServerTyped ==
  /\ server = [stmts |-> server.stmts, next |-> server.next]
  /\ IsTable(server.stmts) /\ server.next \in Nat

NetTyped ==
  /\ net \in [c2p : Seq(Asked), p2c : Seq(Answers), p2u : Seq(Asked), u2p : Seq(Answers),
              open : BOOLEAN, uopen : BOOLEAN]
  /\ \A k \in DOMAIN net.p2u : net.p2u[k].t # "quit"

ClientTyped ==
  /\ client \in [pc : {"connecting", "idle", "waiting", "out"}, cmd : Pending \cup {None},
                 stmts : SUBSET Open]
  /\ client.pc = "waiting" => client.cmd \in Pending
  /\ client.pc = "connecting" => client.stmts = {}

RegistryOK(reg) ==
  /\ reg = [epoch |-> reg.epoch, spent |-> reg.spent, passthroughs |-> reg.passthroughs]
  /\ reg.epoch \in DOMAIN config.mocks
  /\ \A q \in DOMAIN reg.spent : reg.spent[q] \in Nat

Typed ==
  /\ HandlerOK(handler) /\ ServerTyped /\ NetTyped /\ ClientTyped /\ RegistryOK(registry)
  /\ config \in Configs /\ transparent \in BOOLEAN

\* Nothing has happened before the proxy has dialled.
Fresh ==
  handler.pc = "dialing" =>
    /\ net.c2p = << >> /\ net.p2c = << >> /\ net.p2u = << >> /\ net.u2p = << >>
    /\ net.open /\ ~net.uopen /\ client.pc = "connecting" /\ relay = "off"
    /\ handler.preparedStmts = Nothing /\ server.stmts = Nothing

-----------------------------------------------------------------------------
(***************************************************************************)
(* One command at a time: where the one that awaits an answer is.          *)
(***************************************************************************)
Silent(s) == \A k \in DOMAIN s : ~Awaits(s[k])

Carried(m, c) == IF c.pc = "waiting" THEN m = c.cmd.ask ELSE m.t = "auth"

Carries(s, c) ==
  /\ s # << >> /\ Awaits(s[Len(s)]) /\ Carried(s[Len(s)], c)
  /\ \A k \in DOMAIN s : k # Len(s) => ~Awaits(s[k])

Fitting(r, c) ==
  IF c.pc = "waiting"
  THEN r.t # "greeting" /\ (r.t = "prepared" => c.cmd.ask.t = "prepare" /\ r.q = c.cmd.ask.q)
  ELSE r.t \in {"greeting", "ok"}

InHand ==
  /\ client.pc \in {"idle", "out"}
  /\ Silent(net.c2p) /\ Silent(net.p2u) /\ net.u2p = << >> /\ net.p2c = << >>

ToProxy  == Carries(net.c2p, client) /\ Silent(net.p2u) /\ net.u2p = << >> /\ net.p2c = << >>
ToServer == net.c2p = << >> /\ Carries(net.p2u, client) /\ net.u2p = << >> /\ net.p2c = << >>
ToRelay  == /\ net.c2p = << >> /\ net.p2u = << >> /\ net.p2c = << >>
            /\ Len(net.u2p) = 1 /\ Fitting(net.u2p[1], client)
ToDriver == /\ net.c2p = << >> /\ Silent(net.p2u) /\ net.u2p = << >>
            /\ Len(net.p2c) = 1 /\ Fitting(net.p2c[1], client)

Underway ==
  client.pc \in {"connecting", "waiting"} /\ (ToProxy \/ ToServer \/ ToRelay \/ ToDriver)

\* A server that dies takes the command with it, and the driver may hear of
\* it only by its socket being closed.
Lost ==
  \/ client.pc = "out" /\ ~net.open
  \/ /\ client.pc \in {"connecting", "waiting"} /\ ~net.uopen
     /\ net.c2p = << >> /\ net.u2p = << >> /\ net.p2c = << >>

OneLane == InHand \/ Underway \/ Lost

-----------------------------------------------------------------------------
(***************************************************************************)
(* The statement a driver has open, for a driver that keeps one at a time: *)
(* until the handler has read its closing, and from the moment the answer  *)
(* to its preparation is under way.                                        *)
(***************************************************************************)
Project(s) == [id |-> s.id, q |-> s.q, by |-> s.by]

Kind(s, types) == {s[k] : k \in {k \in DOMAIN s : s[k].t \in types}}

Closes(s) == Kind(s, {"close"})
PreparedIn(s) == Kind(s, {"prepared"})
Prepares(s) == Kind(s, {"prepare"}) # {}

Current ==
  {Project(s) : s \in client.stmts} \cup {Project(m.stmt) : m \in Closes(net.c2p)}
    \cup {Project(r) : r \in PreparedIn(net.u2p) \cup PreparedIn(net.p2c)}

ClosedUp == {m.id : m \in Closes(net.p2u)}

\* Closing and preparing happen with no statement left open.
NoneOpenWhile ==
  Closes(net.c2p) # {} \/ Prepares(net.c2p) \/ Prepares(net.p2u)
    \/ PreparedIn(net.u2p) # {} \/ PreparedIn(net.p2c) # {} => client.stmts = {}

\* What the handler will read of a statement is of the current one, and
\* nothing after its closing.
Named(m) ==
  /\ m.id = m.stmt.id /\ Project(m.stmt) \in Current
  /\ Closes(net.c2p) = {} => m.stmt \in client.stmts

ClosingLast(s) ==
  \A k, l \in DOMAIN s : s[k].t \in OfStatement /\ s[l].t = "close" => k <= l

OfCurrent == (\A m \in Kind(net.c2p, OfStatement) : Named(m)) /\ ClosingLast(net.c2p)

Agree ==
  /\ \A s, u \in client.stmts : s = u
  /\ \A x, y \in Current : x = y
  /\ Statements("proxy", handler.preparedStmts) = {x \in Current : x.by = "proxy"}
  /\ {x \in Statements("server", server.stmts) : x.id \notin ClosedUp}
       = {x \in Current : x.by = "server"}
  /\ NoneOpenWhile /\ OfCurrent

OneOpen == \A c \in Configs : c.keep <= 1

Agrees == Living => Agree

-----------------------------------------------------------------------------
(***************************************************************************)
(* What was forwarded when it was prepared had no unspent EXPECT then, and *)
(* within one registry an EXPECT that is spent stays spent.                *)
(***************************************************************************)
Exhausted(q) == Spent(q) = Len(Expected(q))

Owed(q, epoch, transp) ==
  epoch = registry.epoch /\ ~transp /\ ~isWhitelisted(q) => Exhausted(q)

WentUp ==
  \/ Prepares(net.p2u) \/ PreparedIn(net.u2p) # {}
  \/ \E r \in PreparedIn(net.p2c) : r.by = "server"

InBounds == \A q \in Queries : Spent(q) <= Len(Expected(q))

OwedStatements ==
  \A s \in client.stmts :
    s.epoch <= registry.epoch /\ (s.by = "server" => Owed(s.q, s.epoch, s.transparent))

OwedAnswer ==
  client.pc = "waiting" =>
    /\ client.cmd.epoch <= registry.epoch /\ (transparent => client.cmd.transparent)
    /\ WentUp => Owed(client.cmd.ask.q, client.cmd.epoch, client.cmd.transparent)

NonePassedBy == InBounds /\ OwedStatements /\ OwedAnswer

-----------------------------------------------------------------------------
(***************************************************************************)
(* Sequences of commands.                                                  *)
(***************************************************************************)
LEMMA SequenceFacts ==
  ASSUME NEW T, NEW s \in Seq(T)
  PROVE  /\ s # << >> => /\ Len(s) \in Nat \ {0} /\ Head(s) = s[1] /\ Head(s) \in T
                         /\ Tail(s) \in Seq(T) /\ Len(Tail(s)) = Len(s) - 1
                         /\ \A k \in 1..(Len(s) - 1) : Tail(s)[k] = s[k + 1]
         /\ \A x \in T : /\ Append(s, x) \in Seq(T) /\ s \o <<x>> \in Seq(T)
                          /\ Append(s, x) = s \o <<x>> /\ Len(Append(s, x)) = Len(s) + 1
                          /\ \A k \in 1..Len(s) : Append(s, x)[k] = s[k]
                          /\ Append(s, x)[Len(s) + 1] = x
         /\ s \o << >> = s /\ DOMAIN s = 1..Len(s) /\ Len(s) \in Nat
         /\ \A k \in DOMAIN s : s[k] \in T
         /\ s = << >> <=> Len(s) = 0
OBVIOUS

LEMMA SingletonFacts ==
  ASSUME NEW T
  PROVE  /\ \A x \in T : <<x>> \in Seq(T) /\ Len(<<x>>) = 1 /\ <<x>>[1] = x /\ Head(<<x>>) = x
         /\ \A s \in Seq(T) : Len(s) = 1 =>
              s[1] \in T /\ s = <<s[1]>> /\ Head(s) = s[1] /\ Tail(s) = << >>
<1>1. \A x \in T : <<x>> \in Seq(T) /\ Len(<<x>>) = 1 /\ <<x>>[1] = x /\ Head(<<x>>) = x
  OBVIOUS
<1>2. ASSUME NEW s \in Seq(T), Len(s) = 1
      PROVE  s[1] \in T /\ s = <<s[1]>> /\ Head(s) = s[1] /\ Tail(s) = << >>
  <2>1. s[1] \in T /\ Head(s) = s[1] /\ Tail(s) \in Seq(T) /\ Len(Tail(s)) = 0
    BY <1>2, SequenceFacts
  <2>2. Tail(s) = << >>
    BY <2>1, SequenceFacts
  <2>3. s = <<s[1]>>
    <3>1. <<s[1]>> \in Seq(T) /\ Len(<<s[1]>>) = Len(s) /\ \A i \in 1..Len(s) : s[i] = <<s[1]>>[i]
      BY <1>2, <2>1
    <3> QED BY <3>1, SeqEqual
  <2> QED BY <2>1, <2>2, <2>3
<1> QED BY <1>1, <1>2

LEMMA NothingSilent == Silent(<< >>)
BY DEF Silent

LEMMA SilentFacts ==
  ASSUME NEW T, NEW s \in Seq(T)
  PROVE  /\ Silent(<< >>)
         /\ Silent(s) /\ s # << >> => ~Awaits(Head(s)) /\ Silent(Tail(s))
         /\ \A x \in T : Silent(s) /\ ~Awaits(x) => Silent(Append(s, x))
<1>1. Silent(<< >>)
  BY DEF Silent
<1>2. ASSUME Silent(s), s # << >> PROVE ~Awaits(Head(s)) /\ Silent(Tail(s))
  <2>1. DOMAIN Tail(s) = 1..(Len(s) - 1) /\ DOMAIN s = 1..Len(s) /\ Len(s) \in Nat \ {0}
    BY <1>2, SequenceFacts
  <2>2. \A k \in DOMAIN Tail(s) : Tail(s)[k] = s[k + 1] /\ k + 1 \in DOMAIN s
    BY <1>2, <2>1, SequenceFacts
  <2> QED BY <1>2, <2>1, <2>2, SequenceFacts DEF Silent
<1>3. ASSUME NEW x \in T, Silent(s), ~Awaits(x) PROVE Silent(Append(s, x))
  <2>1. DOMAIN Append(s, x) = 1..(Len(s) + 1) /\ DOMAIN s = 1..Len(s) /\ Len(s) \in Nat
    BY SequenceFacts
  <2>2. \A k \in DOMAIN Append(s, x) :
          \/ k \in DOMAIN s /\ Append(s, x)[k] = s[k]
          \/ Append(s, x)[k] = x
    BY <2>1, SequenceFacts
  <2> QED BY <1>3, <2>2 DEF Silent
<1> QED BY <1>1, <1>2, <1>3

LEMMA CarriesFacts ==
  ASSUME NEW T, NEW s \in Seq(T), NEW c
  PROVE  /\ Carries(s, c) /\ Awaits(Head(s)) => Tail(s) = << >> /\ Head(s) = s[Len(s)]
         /\ Carries(s, c) /\ ~Awaits(Head(s)) => Carries(Tail(s), c)
         /\ \A x \in T : Silent(s) /\ Awaits(x) /\ Carried(x, c) => Carries(Append(s, x), c)
<1>1. ASSUME Carries(s, c), Awaits(Head(s)) PROVE Tail(s) = << >> /\ Head(s) = s[Len(s)]
  <2>1. s # << >> /\ Len(s) \in Nat \ {0} /\ Head(s) = s[1] /\ DOMAIN s = 1..Len(s)
    BY <1>1, SequenceFacts DEF Carries
  <2>2. Len(s) = 1
    BY <1>1, <2>1 DEF Carries
  <2>3. Len(Tail(s)) = 0 /\ Tail(s) \in Seq(T)
    BY <2>1, <2>2, SequenceFacts
  <2>4. Tail(s) = << >>
    BY <2>3, SequenceFacts
  <2> QED BY <2>1, <2>2, <2>4
<1>2. ASSUME Carries(s, c), ~Awaits(Head(s)) PROVE Carries(Tail(s), c)
  <2>1. s # << >> /\ Len(s) # 1 /\ Len(s) \in Nat \ {0} /\ Len(Tail(s)) = Len(s) - 1
    BY <1>2, SequenceFacts DEF Carries
  <2>2. /\ \A k \in 1..(Len(s) - 1) : Tail(s)[k] = s[k + 1]
        /\ DOMAIN Tail(s) = 1..(Len(s) - 1) /\ DOMAIN s = 1..Len(s)
    BY <2>1, SequenceFacts
  <2> DEFINE n == Len(s) - 1
  <2>3. Tail(s) # << >> /\ Tail(s)[Len(Tail(s))] = s[Len(s)]
    <3>1. n \in 1..n /\ Tail(s)[n] = s[n + 1] /\ n + 1 = Len(s) /\ Len(Tail(s)) = n
      BY <2>1, <2>2
    <3>2. Tail(s) # << >>
      BY <2>1, <3>1, SequenceFacts
    <3> QED BY <3>1, <3>2
  <2>4. \A k \in DOMAIN Tail(s) : k # Len(Tail(s)) => ~Awaits(Tail(s)[k])
    BY <1>2, <2>1, <2>2 DEF Carries
  <2> QED BY <1>2, <2>3, <2>4 DEF Carries
<1>3. ASSUME NEW x \in T, Silent(s), Awaits(x), Carried(x, c) PROVE Carries(Append(s, x), c)
  <2> DEFINE u == Append(s, x)
  <2>1. u \in Seq(T) /\ Len(u) = Len(s) + 1 /\ u[Len(s) + 1] = x /\ Len(s) \in Nat
    BY SequenceFacts
  <2>2. DOMAIN u = 1..(Len(s) + 1) /\ DOMAIN s = 1..Len(s) /\ u # << >>
    BY <2>1, SequenceFacts
  <2>3. \A k \in 1..Len(s) : u[k] = s[k]
    BY SequenceFacts
  <2>4. u # << >> /\ u[Len(u)] = x
    BY <2>1, <2>2
  <2>5. \A k \in DOMAIN u : k # Len(u) => k \in DOMAIN s /\ u[k] = s[k]
    BY <2>1, <2>2, <2>3
  <2> HIDE DEF u
  <2>6. Carries(u, c)
    BY <1>3, <2>4, <2>5 DEF Carries, Silent
  <2> QED BY <2>6 DEF u
<1> QED BY <1>1, <1>2, <1>3

-----------------------------------------------------------------------------
(***************************************************************************)
(* What the handler does with a command: it forwards it, drops one that    *)
(* has no answer, or answers one that has.                                 *)
(***************************************************************************)
Replied(out) ==
  \E r \in Answers :
    /\ out = <<r>> /\ r.by = "proxy" /\ r.t # "greeting"
    /\ r.t = "prepared" => Command.t = "prepare" /\ r.q = Command.q

Serves(h, out, up, reg) ==
  /\ handler.pc = "loop" /\ net.open /\ net.c2p # << >> /\ Command.t # "quit"
  /\ Handled(h, out, up, reg)
  /\ \/ out = << >> /\ up = <<Command>>
     \/ ~Awaits(Command) /\ out = << >> /\ up = << >>
     \/ Awaits(Command) /\ Command.t # "auth" /\ Replied(out) /\ up = << >>

\* What becomes of the handler's statements and of the registry, and what the
\* handler forwards.
Decides(h, out, up, reg) ==
  /\ \/ h = handler /\ Command.t # "close" /\ PreparedIn(out) = {}
     \/ h = handler /\ Command.t = "close" /\ up = <<Command>> /\ ~Synthetic
     \/ /\ Command.t = "close" /\ up = << >> /\ Synthetic
        /\ h.preparedStmts = Restrict(handler.preparedStmts, DOMAIN handler.preparedStmts \ {Command.id})
     \/ /\ Command.t = "prepare" /\ up = << >>
        /\ h.preparedStmts = Put(handler.preparedStmts, handler.nextStmtID, Command.q)
        /\ out = <<Answer("prepared", Command.q, handler.nextStmtID)>>
  /\ up # << >> =>
       /\ Command.t \in OfStatement => ~Synthetic
       /\ Command.t \in {"query", "prepare"} /\ ~isTransparent /\ ~isWhitelisted(Command.q) =>
            ~findMock(Command.q)
  /\ \/ reg.spent = registry.spent /\ reg.epoch = registry.epoch
     \/ \E q \in Queries : findMock(q) /\ reg = Hit(q)

LEMMA CommandTyped ==
  ASSUME Typed, net.c2p # << >>
  PROVE  /\ Command \in Asked
         /\ Command.t \in {"query", "prepare"} => Command.q \in Queries
         /\ Command.t \in OfStatement => Command.id \in Nat /\ Command.stmt \in Open
<1>1. Command \in Asked
  BY SequenceFacts DEF Typed, NetTyped, Command
<1> QED BY <1>1 DEF Asked, OfStatement

LEMMA RegistryFacts ==
  ASSUME Typed, NEW q \in Queries
  PROVE  /\ Spent(q) \in Nat /\ Expected(q) \in Seq(Replies)
         /\ findMock(q) => Served(q) \in Replies /\ RegistryOK(Hit(q))
<1>1. Spent(q) \in Nat
  BY DEF Typed, RegistryOK, Spent
<1>2. Expected(q) \in Seq(Replies)
  <2>1. << >> \in Seq(Replies)
    OBVIOUS
  <2> QED BY <2>1, ConfigsAssumption DEF Typed, RegistryOK, Expected
<1>3. ASSUME findMock(q) PROVE Served(q) \in Replies
  <2>1. Spent(q) + 1 \in 1..Len(Expected(q))
    BY <1>1, <1>2, <1>3 DEF findMock
  <2> QED BY <1>2, <2>1, SequenceFacts DEF Served
<1>4. RegistryOK(Hit(q))
  BY <1>1 DEF Typed, RegistryOK, Hit, Put
<1> QED BY <1>1, <1>2, <1>3, <1>4

LEMMA AnswerReplies ==
  ASSUME NEW t \in Replies \cup {"prepared"}, NEW q \in Queries, NEW id \in Nat,
         t = "prepared" => Command.t = "prepare" /\ q = Command.q
  PROVE  Replied(<<Answer(t, q, id)>>)
<1> DEFINE r == Answer(t, q, id)
<1>1. r \in Answers
  BY DEF Answers, Answer
<1>2. r.by = "proxy" /\ r.t = t /\ r.q = q
  BY DEF Answer
<1>3. t # "greeting"
  BY DEF Replies
<1> HIDE DEF r
<1>4. Replied(<<r>>)
  BY <1>1, <1>2, <1>3 DEF Replied
<1> QED BY <1>4 DEF r

LEMMA PutInTable ==
  ASSUME NEW f, IsTable(f), NEW i \in Nat, NEW q \in Queries
  PROVE  /\ IsTable(Put(f, i, q)) /\ DOMAIN Put(f, i, q) = DOMAIN f \cup {i}
         /\ \A k \in DOMAIN f \cup {i} : Put(f, i, q)[k] = IF k = i THEN q ELSE f[k]
<1>1. Put(f, i, q) = [z \in DOMAIN f \cup {i} |-> IF z = i THEN q ELSE f[z]]
  BY DEF Put
<1> QED BY <1>1 DEF IsTable

LEMMA RestrictTable ==
  ASSUME NEW f, IsTable(f), NEW S
  PROVE  /\ IsTable(Restrict(f, DOMAIN f \ S)) /\ DOMAIN Restrict(f, DOMAIN f \ S) = DOMAIN f \ S
         /\ \A k \in DOMAIN f \ S : Restrict(f, DOMAIN f \ S)[k] = f[k]
<1>1. Restrict(f, DOMAIN f \ S) = [z \in DOMAIN f \ S |-> f[z]]
  BY DEF Restrict
<1> QED BY <1>1 DEF IsTable

LEMMA HandlerServes ==
  ASSUME Typed, Handler
  PROVE  \/ HandlerReturns
         \/ \E h, out, up, reg :
              /\ HandlerOK(h) /\ h.pc = "loop" /\ RegistryOK(reg)
              /\ Serves(h, out, up, reg) /\ Decides(h, out, up, reg)
<1> DEFINE Served1(h, out, up, reg) ==
             /\ HandlerOK(h) /\ h.pc = "loop" /\ RegistryOK(reg)
              /\ Serves(h, out, up, reg) /\ Decides(h, out, up, reg)
           m == Command
<1>1. ASSUME NEW types \in SUBSET {"auth", "ping", "query", "prepare", "execute", "longdata", "close", "reset"},
             Reads(types)
      PROVE  /\ handler.pc = "loop" /\ net.open /\ net.c2p # << >> /\ m.t # "quit" /\ m.t \in types
             /\ HandlerOK(handler) /\ RegistryOK(registry) /\ m \in Asked
  BY <1>1, CommandTyped DEF Reads, Typed
<1>2. ASSUME NEW types \in SUBSET {"auth", "ping", "query", "prepare", "execute", "longdata", "close", "reset"},
             Reads(types), Forwarded,
             m.t \in OfStatement => ~Synthetic,
             m.t \in {"query", "prepare"} /\ ~isTransparent /\ ~isWhitelisted(m.q) => ~findMock(m.q)
      PROVE  Served1(handler, << >>, <<m>>, registry)
  <2>1. PreparedIn(<< >>) = {}
    BY DEF PreparedIn, Kind
  <2>2. Decides(handler, << >>, <<m>>, registry)
    BY <1>1, <1>2, <2>1 DEF Decides, OfStatement
  <2> QED BY <1>1, <1>2, <2>2 DEF Serves, Forwarded
\* An answer that is no statement's number changes nothing of the statements.
<1>20. ASSUME NEW t \in Replies, NEW q, NEW reg, RegistryOK(reg), HandlerOK(handler),
              \/ reg.spent = registry.spent /\ reg.epoch = registry.epoch
              \/ q \in Queries /\ findMock(q) /\ reg = Hit(q),
              m.t # "close"
       PROVE  Decides(handler, <<Answer(t, q, 0)>>, << >>, reg)
  <2>1. PreparedIn(<<Answer(t, q, 0)>>) = {}
    BY DEF PreparedIn, Kind, Answer, Replies
  <2> QED BY <1>20, <2>1 DEF Decides
<1>3. CASE Others
  BY <1>1, <1>2, <1>3 DEF Others, OfStatement
<1>4. CASE QueryPasses
  BY <1>1, <1>2, <1>4 DEF QueryPasses, OfStatement, isShowFullFieldsQuery, isWhitelisted
<1>5. CASE QueryFields
  <2>1. Reads({"query"}) /\ m.t = "query" /\ m.q \in Queries
    BY <1>1, <1>5, CommandTyped DEF QueryFields
  <2>2. Replied(<<Answer("rows", m.q, 0)>>)
    BY <2>1, AnswerReplies DEF Replies
  <2>3. Decides(handler, <<Answer("rows", m.q, 0)>>, << >>, registry)
    BY <1>1, <1>20, <2>1 DEF Replies
  <2> QED BY <1>1, <1>5, <2>1, <2>2, <2>3 DEF QueryFields, Serves, Awaits
<1>6. CASE Query
  <2>1. Reads({"query"}) /\ m.t = "query" /\ m.q \in Queries
    BY <1>1, <1>6, CommandTyped DEF Query
  <2>2. CASE findMock(m.q)
    <3>1. Served(m.q) \in Replies /\ RegistryOK(Hit(m.q))
      BY <2>1, <2>2, RegistryFacts
    <3>2. Replied(<<sendMockResponse(m.q)>>)
      BY <2>1, <3>1, AnswerReplies DEF Replies, sendMockResponse
    <3>3. Decides(handler, <<sendMockResponse(m.q)>>, << >>, Hit(m.q))
      BY <1>1, <1>20, <2>1, <2>2, <3>1 DEF sendMockResponse
    <3> QED BY <1>1, <1>6, <2>1, <2>2, <3>1, <3>2, <3>3 DEF Query, Serves, Awaits
  <2>3. CASE ~findMock(m.q)
    <3> DEFINE reg == [registry EXCEPT !.passthroughs = @ + 1]
    <3>1. RegistryOK(reg) /\ reg.spent = registry.spent /\ reg.epoch = registry.epoch
      BY DEF Typed, RegistryOK
    <3>2. Handled(handler, << >>, <<m>>, reg)
      BY <1>6, <2>3 DEF Query
    <3>3. PreparedIn(<< >>) = {}
      BY DEF PreparedIn, Kind
    <3> HIDE DEF reg
    <3>4. Decides(handler, << >>, <<m>>, reg)
      BY <2>1, <2>3, <3>1, <3>3 DEF Decides, OfStatement
    <3> QED BY <1>1, <2>1, <3>1, <3>2, <3>4 DEF Serves
  <2> QED BY <2>2, <2>3
<1>7. CASE Prepare
  <2>1. Reads({"prepare"}) /\ m.t = "prepare" /\ m.q \in Queries
    BY <1>1, <1>7, CommandTyped DEF Prepare
  <2> DEFINE h == [handler EXCEPT !.preparedStmts = Put(@, handler.nextStmtID, m.q), !.nextStmtID = @ + 1]
             r == Answer("prepared", m.q, handler.nextStmtID)
  <2>2. \/ Forwarded /\ (~isTransparent /\ ~isWhitelisted(m.q) => ~findMock(m.q))
        \/ Handled(h, <<r>>, << >>, registry)
    BY <1>7 DEF Prepare, peekMock
  <2>3. HandlerOK(h) /\ h.pc = handler.pc
    <3> DEFINE known == Put(handler.preparedStmts, handler.nextStmtID, m.q)
    <3>0. handler.nextStmtID \in Nat /\ IsTable(handler.preparedStmts)
      BY DEF Typed, HandlerOK
    <3>1. IsTable(known)
      BY <2>1, <3>0, PutInTable, Zenon
    <3>4. handler.nextStmtID + 1 \in Nat
      BY <3>0
    <3>2. h = [handler EXCEPT !.preparedStmts = known, !.nextStmtID = @ + 1]
      OBVIOUS
    <3> HIDE DEF known, h
    <3>3. h = [pc |-> handler.pc, preparedStmts |-> known, nextStmtID |-> handler.nextStmtID + 1]
      BY <3>2 DEF Typed, HandlerOK
    <3> QED BY <3>1, <3>3, <3>4 DEF Typed, HandlerOK
  <2>4. Replied(<<r>>)
    BY <2>1, AnswerReplies DEF Typed, HandlerOK
  <2>5. Decides(h, <<r>>, << >>, registry)
    <3>1. h.preparedStmts = Put(handler.preparedStmts, handler.nextStmtID, m.q)
      BY DEF Typed, HandlerOK
    <3> QED BY <2>1, <3>1 DEF Decides
  <2> HIDE DEF h, r
  <2> QED BY <1>1, <1>2, <2>1, <2>2, <2>3, <2>4, <2>5 DEF Serves, Awaits, OfStatement
<1>8. CASE ForwardsUnknown
  BY <1>1, <1>2, <1>8 DEF ForwardsUnknown
<1>9. CASE Execute
  <2>1. Reads({"execute"}) /\ m.t = "execute" /\ Synthetic
    BY <1>1, <1>9 DEF Execute
  <2> DEFINE q == handler.preparedStmts[m.id]
  <2>2. q \in Queries
    BY <2>1 DEF Synthetic, Typed, HandlerOK, IsTable
  <2>3. CASE findMock(q)
    <3>1. Served(q) \in Replies /\ RegistryOK(Hit(q))
      BY <2>2, <2>3, RegistryFacts
    <3>2. Replied(<<sendMockResponse(q)>>)
      BY <2>2, <3>1, AnswerReplies DEF Replies, sendMockResponse
    <3>3. Decides(handler, <<sendMockResponse(q)>>, << >>, Hit(q))
      BY <1>1, <1>20, <2>1, <2>2, <2>3, <3>1 DEF sendMockResponse
    <3> QED BY <1>1, <1>9, <2>1, <2>3, <3>1, <3>2, <3>3 DEF Execute, Serves, Awaits
  <2>4. CASE ~findMock(q)
    <3>1. Replied(<<sendErrorResponse(q)>>)
      BY <2>2, AnswerReplies DEF Replies, sendErrorResponse
    <3>2. Decides(handler, <<sendErrorResponse(q)>>, << >>, registry)
      BY <1>1, <1>20, <2>1, <2>2 DEF sendErrorResponse, Replies
    <3> QED BY <1>1, <1>9, <2>1, <2>4, <3>1, <3>2 DEF Execute, Serves, Awaits
  <2> QED BY <2>3, <2>4
<1>10. CASE SendLongData
  <2>1. m.t = "longdata" /\ Handled(handler, << >>, << >>, registry)
    BY <1>1, <1>10 DEF SendLongData
  <2>2. PreparedIn(<< >>) = {}
    BY DEF PreparedIn, Kind
  <2>3. Decides(handler, << >>, << >>, registry)
    BY <2>1, <2>2 DEF Decides
  <2> QED BY <1>1, <1>10, <2>1, <2>3 DEF SendLongData, Serves, Awaits
<1>11. CASE CloseStatement
  <2> DEFINE h == [handler EXCEPT !.preparedStmts = Restrict(@, DOMAIN @ \ {m.id})]
  <2>1. Reads({"close"}) /\ Handled(h, << >>, << >>, registry) /\ Synthetic
    BY <1>11 DEF CloseStatement
  <2>2. HandlerOK(h) /\ h.pc = handler.pc
    <3> DEFINE remaining == Restrict(handler.preparedStmts, DOMAIN handler.preparedStmts \ {m.id})
    <3>1. IsTable(remaining)
      BY RestrictTable DEF Typed, HandlerOK
    <3>2. h = [handler EXCEPT !.preparedStmts = remaining]
      OBVIOUS
    <3> HIDE DEF remaining, h
    <3>3. h = [pc |-> handler.pc, preparedStmts |-> remaining, nextStmtID |-> handler.nextStmtID]
      BY <3>2 DEF Typed, HandlerOK
    <3> QED BY <3>1, <3>3 DEF Typed, HandlerOK
  <2>3. Decides(h, << >>, << >>, registry)
    <3>1. h.preparedStmts = Restrict(handler.preparedStmts, DOMAIN handler.preparedStmts \ {m.id})
      BY DEF Typed, HandlerOK
    <3> QED BY <1>1, <2>1, <3>1 DEF Decides
  <2> HIDE DEF h
  <2> QED BY <1>1, <2>1, <2>2, <2>3 DEF Serves, Awaits
<1>12. CASE ResetStatement
  <2>1. Reads({"reset"}) /\ m.t = "reset" /\ Synthetic
    BY <1>1, <1>12 DEF ResetStatement
  <2>2. Replied(<<Answer("ok", handler.preparedStmts[m.id], 0)>>)
    BY <2>1, AnswerReplies DEF Replies, Synthetic, Typed, HandlerOK, IsTable
  <2>3. Decides(handler, <<Answer("ok", handler.preparedStmts[m.id], 0)>>, << >>, registry)
    BY <1>1, <1>20, <2>1 DEF Replies
  <2> QED BY <1>1, <1>12, <2>1, <2>2, <2>3 DEF ResetStatement, Serves, Awaits
<1> QED
  BY <1>3, <1>4, <1>5, <1>6, <1>7, <1>8, <1>9, <1>10, <1>11, <1>12 DEF Handler

LEMMA HandledNet ==
  ASSUME Typed, NEW h, NEW out, NEW up, NEW reg, Handled(h, out, up, reg)
  PROVE  /\ net'.c2p = Tail(net.c2p) /\ net'.p2c = net.p2c \o out
         /\ net'.p2u = (IF net.uopen THEN net.p2u \o up ELSE net.p2u)
         /\ net'.u2p = net.u2p /\ net'.open = net.open /\ net'.uopen = net.uopen
         /\ net' = [c2p |-> net'.c2p, p2c |-> net'.p2c, p2u |-> net'.p2u, u2p |-> net'.u2p,
                    open |-> net'.open, uopen |-> net'.uopen]
BY DEF Typed, NetTyped, Handled

\* What the server answers: one packet, or none to a command that has no answer.
LEMMA ServerReplies ==
  ASSUME Typed, NEW m \in Asked, m.t # "quit"
  PROVE  /\ ~Awaits(m) => ServerAnswers(m) = << >>
         /\ Awaits(m) => \E r \in Answers :
              /\ ServerAnswers(m) = <<r>> /\ r.by = "server" /\ r.t # "greeting"
              /\ m.t = "auth" => r.t = "ok"
              /\ r.t = "prepared" <=> m.t = "prepare"
              /\ r.t = "prepared" => r.q = m.q /\ r.id = server.next
<1>1. CASE ~Awaits(m)
  BY <1>1 DEF Awaits, ServerAnswers, Asked, OfStatement
<1>2. CASE m.t \in {"auth", "ping"}
  <2>1. ServerAnswers(m) = <<ServerSays("ok", None, 0)>>
    BY <1>2 DEF ServerAnswers
  <2>2. ServerSays("ok", None, 0) \in Answers
    BY DEF ServerSays, Answers, Replies
  <2> QED BY <1>2, <2>1, <2>2 DEF ServerSays, Awaits
<1>3. CASE m.t = "query"
  <2>1. ServerAnswers(m) = <<ServerSays("rows", m.q, 0)>> /\ m.q \in Queries
    BY <1>3 DEF ServerAnswers, Asked, OfStatement
  <2>2. ServerSays("rows", m.q, 0) \in Answers
    BY <2>1 DEF ServerSays, Answers, Replies
  <2> QED BY <1>3, <2>1, <2>2 DEF ServerSays, Awaits
<1>4. CASE m.t = "prepare"
  <2>1. ServerAnswers(m) = <<ServerSays("prepared", m.q, server.next)>> /\ m.q \in Queries
    BY <1>4 DEF ServerAnswers, Asked, OfStatement
  <2>2. ServerSays("prepared", m.q, server.next) \in Answers
    BY <2>1 DEF ServerSays, Answers, Typed, ServerTyped
  <2> QED BY <1>4, <2>1, <2>2 DEF ServerSays, Awaits
<1>5. CASE m.t \in {"execute", "reset"}
  <2> DEFINE said == IF m.id \in DOMAIN server.stmts
                     THEN ServerSays(IF m.t = "execute" THEN "rows" ELSE "ok", server.stmts[m.id], 0)
                     ELSE ServerSays("error", None, 0)
  <2>1. ServerAnswers(m) = <<said>>
    BY <1>5 DEF ServerAnswers
  <2>2. said \in Answers /\ said.by = "server" /\ said.t \in Replies
    BY DEF ServerSays, Answers, Typed, ServerTyped, IsTable, Replies
  <2> HIDE DEF said
  <2> QED BY <1>5, <2>1, <2>2 DEF Awaits, Replies
<1> QED BY <1>1, <1>2, <1>3, <1>4, <1>5 DEF Awaits, Asked, OfStatement

LEMMA SendFacts ==
  ASSUME Typed, Send
  PROVE  \E m \in Asked :
           /\ m.t # "auth" /\ client.pc = "idle" /\ net.open
           /\ net' = [net EXCEPT !.c2p = Append(@, m)]
           /\ client' = [pc |-> IF m.t = "quit" THEN "out" ELSE IF Awaits(m) THEN "waiting" ELSE "idle",
                         cmd |-> IF Awaits(m)
                                 THEN [ask |-> m, epoch |-> registry.epoch, transparent |-> transparent]
                                 ELSE client.cmd,
                         stmts |-> IF m.t = "close" THEN client.stmts \ {m.stmt} ELSE client.stmts]
           /\ m.t \in OfStatement => m.stmt \in client.stmts /\ m.id = m.stmt.id
           /\ m.t = "prepare" => Cardinality(client.stmts) < config.keep
<1>1. PICK m \in Commands :
        /\ net' = [net EXCEPT !.c2p = Append(@, m)]
        /\ client' = [client EXCEPT
                !.pc = IF m.t = "quit" THEN "out" ELSE IF Awaits(m) THEN "waiting" ELSE @,
                !.cmd = IF Awaits(m) THEN [ask |-> m, epoch |-> registry.epoch, transparent |-> transparent] ELSE @,
                !.stmts = IF m.t = "close" THEN @ \ {m.stmt} ELSE @]
  BY DEF Send
<1>2. /\ client.pc = "idle" /\ net.open
      /\ client = [pc |-> client.pc, cmd |-> client.cmd, stmts |-> client.stmts]
      /\ client.stmts \in SUBSET Open /\ config.queries \subseteq Queries
  BY DEF Send, Typed, ClientTyped, Queries
<1>3. /\ m \in Asked /\ m.t # "auth"
      /\ m.t \in OfStatement => m.stmt \in client.stmts /\ m.id = m.stmt.id
      /\ m.t = "prepare" => Cardinality(client.stmts) < config.keep
  <2>0. \/ m \in [t : {"query"}, q : config.queries, id : {0}, stmt : {None}]
        \/ m = Asks("ping", None, 0, None) \/ m = Asks("quit", None, 0, None)
        \/ /\ Cardinality(client.stmts) < config.keep
           /\ m \in [t : {"prepare"}, q : config.queries, id : {0}, stmt : {None}]
        \/ \E t \in {"execute", "longdata", "reset", "close"}, s \in client.stmts :
              m = Asks(t, None, s.id, s)
    BY DEF Commands
  <2>1. CASE m \in [t : {"query"}, q : config.queries, id : {0}, stmt : {None}]
    BY <1>2, <2>1 DEF Asked, OfStatement
  <2>2. CASE m = Asks("ping", None, 0, None) \/ m = Asks("quit", None, 0, None)
    BY <2>2 DEF Asks, Asked, OfStatement
  <2>3. CASE /\ Cardinality(client.stmts) < config.keep
             /\ m \in [t : {"prepare"}, q : config.queries, id : {0}, stmt : {None}]
    BY <1>2, <2>3 DEF Asked, OfStatement
  <2>4. ASSUME NEW t \in {"execute", "longdata", "reset", "close"}, NEW s \in client.stmts,
               m = Asks(t, None, s.id, s)
        PROVE  /\ m \in Asked /\ m.t # "auth" /\ m.t # "prepare"
               /\ m.stmt \in client.stmts /\ m.id = m.stmt.id
    <3>1. s \in Open /\ s.id \in Nat
      BY <1>2 DEF Open
    <3> QED BY <2>4, <3>1 DEF Asks, Asked, OfStatement
  <2> QED BY <2>0, <2>1, <2>2, <2>3, <2>4
<1>4. client' = [pc |-> IF m.t = "quit" THEN "out" ELSE IF Awaits(m) THEN "waiting" ELSE "idle",
                 cmd |-> IF Awaits(m)
                         THEN [ask |-> m, epoch |-> registry.epoch, transparent |-> transparent]
                         ELSE client.cmd,
                 stmts |-> IF m.t = "close" THEN client.stmts \ {m.stmt} ELSE client.stmts]
  BY <1>1, <1>2
<1> QED BY <1>1, <1>2, <1>3, <1>4

LEMMA ReceiveFacts ==
  ASSUME Typed, OneLane, Receive
  PROVE  \E r \in Answers :
           /\ net.p2c = <<r>> /\ Fitting(r, client) /\ ToDriver /\ client.pc \in {"connecting", "waiting"}
           /\ IF r.t = "greeting"
              THEN /\ client.pc = "connecting" /\ client' = client
                   /\ net' = [net EXCEPT !.p2c = << >>, !.c2p = <<Asks("auth", None, 0, None)>>]
              ELSE /\ net' = [net EXCEPT !.p2c = << >>]
                   /\ client' = [pc |-> "idle", cmd |-> None,
                                 stmts |-> IF r.t = "prepared" THEN client.stmts \cup {Holds(r)}
                                           ELSE client.stmts]
           /\ r.t = "prepared" => client.pc = "waiting" /\ Holds(r) \in Open
<1> DEFINE r == net.p2c[1]
<1>1. client.pc \in {"connecting", "waiting"} /\ net.p2c # << >>
  BY DEF Receive
<1>2. ToDriver
  BY <1>1 DEF OneLane, InHand, Lost, Underway, ToProxy, ToServer, ToRelay
<1>3. net.p2c \in Seq(Answers) /\ Len(net.p2c) = 1
  BY <1>2 DEF Typed, NetTyped, ToDriver
<1>4. r \in Answers /\ net.p2c = <<r>> /\ Head(net.p2c) = r /\ Tail(net.p2c) = << >>
  BY <1>3, SingletonFacts
<1>5. Fitting(r, client)
  BY <1>2 DEF ToDriver
<1>6. r.t = "greeting" => client.pc = "connecting"
  BY <1>1, <1>5 DEF Fitting
<1>7. r.t = "prepared" => client.pc = "waiting" /\ Holds(r) \in Open
  <2>1. ASSUME r.t = "prepared" PROVE client.pc = "waiting" /\ r.q = client.cmd.ask.q
    BY <1>5, <2>1 DEF Fitting
  <2>2. ASSUME r.t = "prepared" PROVE client.cmd \in Pending /\ client.cmd.ask.t = "prepare"
    BY <1>5, <2>1, <2>2 DEF Typed, ClientTyped, Fitting
  <2>3. ASSUME r.t = "prepared" PROVE client.cmd.ask.q \in Queries
    BY <2>2, <2>3 DEF Pending, Asked, OfStatement
  <2>4. ASSUME r.t = "prepared" PROVE Holds(r) \in Open
    BY <1>4, <2>2, <2>3, <2>4 DEF Holds, Open, Answers, Pending
  <2> QED BY <2>1, <2>4
<1>8. client = [pc |-> client.pc, cmd |-> client.cmd, stmts |-> client.stmts]
  BY DEF Typed, ClientTyped
<1>9. IF r.t = "greeting"
      THEN /\ client' = client
           /\ net' = [net EXCEPT !.p2c = << >>, !.c2p = <<Asks("auth", None, 0, None)>>]
      ELSE /\ net' = [net EXCEPT !.p2c = << >>]
           /\ client' = [pc |-> "idle", cmd |-> None,
                         stmts |-> IF r.t = "prepared" THEN client.stmts \cup {Holds(r)}
                                   ELSE client.stmts]
  BY <1>4, <1>8 DEF Receive
<1> HIDE DEF r
<1> QED BY <1>1, <1>2, <1>4, <1>5, <1>6, <1>7, <1>9

LEMMA ConnectionRuns ==
  ASSUME Typed, OneLane, [Next]_vars
  PROVE  Typed'
<1>1. ASSUME HandlerOK(handler)', NetTyped', ServerTyped', ClientTyped', RegistryOK(registry)',
             config' = config, transparent' \in BOOLEAN
      PROVE  Typed'
  BY <1>1 DEF Typed
<1>2. ASSUME handler' = handler PROVE HandlerOK(handler)'
  BY <1>2 DEF Typed, HandlerOK, IsTable
<1>3. ASSUME net' = net PROVE NetTyped'
  BY <1>3 DEF Typed, NetTyped
<1>4. ASSUME server' = server PROVE ServerTyped'
  BY <1>4 DEF Typed, ServerTyped, IsTable
<1>5. ASSUME client' = client PROVE ClientTyped'
  BY <1>5 DEF Typed, ClientTyped
<1>6. ASSUME registry' = registry, config' = config PROVE RegistryOK(registry)'
  BY <1>6 DEF Typed, RegistryOK
<1>7. transparent' = transparent => transparent' \in BOOLEAN
  BY DEF Typed
<1>10. CASE Dial
  <2>1. HandlerOK(handler)'
    BY <1>10 DEF Dial, Typed, HandlerOK, IsTable
  <2>2. NetTyped'
    <3> DEFINE greeting == [t |-> "greeting", q |-> None, id |-> 0, by |-> "server"]
    <3>1. greeting \in Answers
      BY DEF Answers
    <3>2. <<greeting>> \in Seq(Answers)
      BY <3>1
    <3>3. net' = [net EXCEPT !.uopen = TRUE, !.u2p = <<greeting>>]
      BY <1>10 DEF Dial
    <3> HIDE DEF greeting
    <3> QED BY <3>2, <3>3 DEF Typed, NetTyped
  <2> QED BY <1>1, <1>4, <1>5, <1>6, <1>7, <1>10, <2>1, <2>2 DEF Dial
<1>11. CASE DialFails \/ HandlerReturns
  <2>1. HandlerOK(handler)'
    BY <1>11 DEF DialFails, HandlerReturns, Typed, HandlerOK, IsTable
  <2>2. NetTyped'
    BY <1>11 DEF DialFails, HandlerReturns, Typed, NetTyped
  <2> QED BY <1>1, <1>4, <1>5, <1>6, <1>7, <1>11, <2>1, <2>2 DEF DialFails, HandlerReturns
<1>12. ASSUME NEW h, NEW out, NEW up, NEW reg,
              HandlerOK(h), RegistryOK(reg), Serves(h, out, up, reg)
       PROVE  Typed'
  <2>1. /\ handler' = h /\ registry' = reg /\ server' = server /\ client' = client
        /\ config' = config /\ transparent' = transparent
    BY <1>12 DEF Serves, Handled
  <2>2. HandlerOK(handler)' /\ RegistryOK(registry)'
    BY <1>12, <2>1 DEF HandlerOK, RegistryOK, IsTable
  <2>3. Command \in Asked /\ Command.t # "quit" /\ net.c2p # << >>
    BY <1>12, CommandTyped DEF Serves
  <2>4. out \in Seq(Answers) /\ up \in {<< >>, <<Command>>}
    <3>1. << >> \in Seq(Answers)
      OBVIOUS
    <3>2. Replied(out) => out \in Seq(Answers)
      BY SingletonFacts DEF Replied
    <3> QED BY <1>12, <3>1, <3>2 DEF Serves
  <2>8. Handled(h, out, up, reg)
    BY <1>12 DEF Serves
  <2>9. net.c2p \in Seq(Asked) /\ net.p2c \in Seq(Answers) /\ net.p2u \in Seq(Asked)
    BY DEF Typed, NetTyped
  <2>5. net'.c2p \in Seq(Asked) /\ net'.p2c \in Seq(Answers)
    <3>1. Tail(net.c2p) \in Seq(Asked) /\ net.p2c \o out \in Seq(Answers)
      BY <2>3, <2>4, <2>9, SequenceFacts, ConcatProperties
    <3> QED BY <2>8, <3>1, HandledNet
  <2>6. net'.p2u \in Seq(Asked) /\ \A k \in DOMAIN net'.p2u : net'.p2u[k].t # "quit"
    <3>1. net'.p2u \in {net.p2u, Append(net.p2u, Command)}
      <4>1. net.p2u \o << >> = net.p2u /\ net.p2u \o <<Command>> = Append(net.p2u, Command)
        BY <2>3, <2>9, SequenceFacts
      <4> QED BY <2>4, <2>8, <4>1, HandledNet
    <3>2. net.p2u \in Seq(Asked) /\ \A k \in DOMAIN net.p2u : net.p2u[k].t # "quit"
      BY DEF Typed, NetTyped
    <3>3. /\ Append(net.p2u, Command) \in Seq(Asked)
          /\ \A k \in DOMAIN Append(net.p2u, Command) : Append(net.p2u, Command)[k].t # "quit"
      BY <2>3, <3>2
    <3> QED BY <3>1, <3>2, <3>3
  <2>7. NetTyped'
    <3>1. net'.u2p \in Seq(Answers) /\ net'.open \in BOOLEAN /\ net'.uopen \in BOOLEAN
      BY <2>8, HandledNet DEF Typed, NetTyped
    <3>2. net' = [c2p |-> net'.c2p, p2c |-> net'.p2c, p2u |-> net'.p2u, u2p |-> net'.u2p,
                  open |-> net'.open, uopen |-> net'.uopen]
      BY <2>8, HandledNet
    <3> QED BY <2>5, <2>6, <3>1, <3>2 DEF NetTyped
  <2> QED BY <1>1, <1>4, <1>5, <1>7, <2>1, <2>2, <2>7
<1>13. CASE Handler
  BY <1>11, <1>12, <1>13, HandlerServes
<1>14. CASE Relay
  <2>1. net'.p2c \in Seq(Answers) /\ net'.u2p \in Seq(Answers)
    BY <1>14, SequenceFacts DEF Relay, Typed, NetTyped
  <2>2. NetTyped'
    BY <1>14, <2>1 DEF Relay, Typed, NetTyped
  <2> QED BY <1>1, <1>2, <1>4, <1>5, <1>6, <1>7, <1>14, <2>2 DEF Relay
<1>15. CASE RelayEnds
  <2>1. NetTyped'
    BY <1>15 DEF RelayEnds, Typed, NetTyped
  <2> QED BY <1>1, <1>2, <1>4, <1>5, <1>6, <1>7, <1>15, <2>1 DEF RelayEnds
<1>16. CASE ServerHandles
  <2> DEFINE m == Head(net.p2u)
  <2>1. /\ net.p2u # << >> /\ net.p2u \in Seq(Asked) /\ m \in Asked /\ m.t # "quit"
        /\ Tail(net.p2u) \in Seq(Asked)
        /\ \A k \in DOMAIN Tail(net.p2u) : Tail(net.p2u)[k].t # "quit"
    BY <1>16, SequenceFacts DEF ServerHandles, Typed, NetTyped
  <2>2. ServerAnswers(m) \in Seq(Answers)
    <3>1. << >> \in Seq(Answers)
      OBVIOUS
    <3> QED BY <2>1, <3>1, ServerReplies, SingletonFacts
  <2>3. net' = [net EXCEPT !.p2u = Tail(@), !.u2p = @ \o ServerAnswers(m)]
    BY <1>16 DEF ServerHandles
  <2>4. NetTyped'
    <3>1. net.u2p \o ServerAnswers(m) \in Seq(Answers)
      BY <2>2, ConcatProperties DEF Typed, NetTyped
    <3> DEFINE said == net.u2p \o ServerAnswers(m)
               pending == Tail(net.p2u)
    <3>2. net' = [net EXCEPT !.p2u = pending, !.u2p = said]
      BY <2>3
    <3>3. /\ pending \in Seq(Asked) /\ said \in Seq(Answers)
          /\ \A k \in DOMAIN pending : pending[k].t # "quit"
      BY <2>1, <3>1
    <3> HIDE DEF said, pending
    <3> QED BY <3>2, <3>3 DEF Typed, NetTyped
  <2>5. ServerTyped'
    <3>1. CASE m.t = "prepare"
      <4>1. m.q \in Queries
        BY <2>1, <3>1 DEF Asked, OfStatement
      <4>2. IsTable(Put(server.stmts, server.next, m.q))
        BY <4>1, PutInTable, Zenon DEF Typed, ServerTyped
      <4>3. server' = [stmts |-> Put(server.stmts, server.next, m.q), next |-> server.next + 1]
        BY <1>16, <3>1 DEF ServerHandles
      <4>4. server.next + 1 \in Nat
        BY DEF Typed, ServerTyped
      <4> QED BY <4>2, <4>3, <4>4 DEF ServerTyped, IsTable
    <3>2. CASE m.t = "close"
      <4>1. IsTable(Restrict(server.stmts, DOMAIN server.stmts \ {m.id}))
        BY RestrictTable DEF Typed, ServerTyped
      <4>2. server' = [server EXCEPT !.stmts = Restrict(server.stmts, DOMAIN server.stmts \ {m.id})]
        BY <1>16, <3>2 DEF ServerHandles
      <4> DEFINE remaining == Restrict(server.stmts, DOMAIN server.stmts \ {m.id})
      <4>3. server' = [stmts |-> remaining, next |-> server.next]
        BY <4>2 DEF Typed, ServerTyped
      <4> HIDE DEF remaining
      <4> QED BY <4>1, <4>3 DEF Typed, ServerTyped, IsTable, remaining
    <3>3. CASE m.t \notin {"prepare", "close"}
      BY <1>4, <1>16, <3>3 DEF ServerHandles
    <3> QED BY <3>1, <3>2, <3>3
  <2> QED BY <1>1, <1>2, <1>5, <1>6, <1>7, <1>16, <2>4, <2>5 DEF ServerHandles
<1>17. CASE ServerDies
  <2>1. NetTyped'
    <3>1. PICK kept \in {<< >>, net.u2p} : net' = [net EXCEPT !.uopen = FALSE, !.p2u = << >>, !.u2p = kept]
      BY <1>17 DEF ServerDies
    <3>2. << >> \in Seq(Answers) /\ << >> \in Seq(Asked) /\ net.u2p \in Seq(Answers)
      BY DEF Typed, NetTyped
    <3>3. kept \in Seq(Answers)
      BY <3>2
    <3>4. net' \in [c2p : Seq(Asked), p2c : Seq(Answers), p2u : Seq(Asked), u2p : Seq(Answers),
                    open : BOOLEAN, uopen : BOOLEAN]
      BY <3>1, <3>2, <3>3 DEF Typed, NetTyped
    <3>5. net'.p2u = << >>
      BY <3>1 DEF Typed, NetTyped
    <3>6. \A k \in DOMAIN net'.p2u : net'.p2u[k].t # "quit"
      BY <3>5
    <3> QED BY <3>4, <3>6 DEF NetTyped
  <2> QED BY <1>1, <1>2, <1>4, <1>5, <1>6, <1>7, <1>17, <2>1 DEF ServerDies
<1>18. CASE Send
  <2>1. PICK m \in Asked :
           /\ net' = [net EXCEPT !.c2p = Append(@, m)]
           /\ client' = [pc |-> IF m.t = "quit" THEN "out" ELSE IF Awaits(m) THEN "waiting" ELSE "idle",
                         cmd |-> IF Awaits(m)
                                 THEN [ask |-> m, epoch |-> registry.epoch, transparent |-> transparent]
                                 ELSE client.cmd,
                         stmts |-> IF m.t = "close" THEN client.stmts \ {m.stmt} ELSE client.stmts]
    BY <1>18, SendFacts
  <2>2. NetTyped'
    BY <2>1, SequenceFacts DEF Typed, NetTyped
  <2>3. registry.epoch \in Nat
    BY ConfigsAssumption DEF Typed, RegistryOK
  <2>4. ClientTyped'
    BY <2>1, <2>3 DEF Typed, ClientTyped, Pending
  <2> QED BY <1>1, <1>2, <1>4, <1>6, <1>7, <1>18, <2>2, <2>4 DEF Send
<1>19. CASE Receive
  <2>1. PICK r \in Answers :
           /\ IF r.t = "greeting"
              THEN /\ client.pc = "connecting" /\ client' = client
                   /\ net' = [net EXCEPT !.p2c = << >>, !.c2p = <<Asks("auth", None, 0, None)>>]
              ELSE /\ net' = [net EXCEPT !.p2c = << >>]
                   /\ client' = [pc |-> "idle", cmd |-> None,
                                 stmts |-> IF r.t = "prepared" THEN client.stmts \cup {Holds(r)}
                                           ELSE client.stmts]
           /\ r.t = "prepared" => client.pc = "waiting" /\ Holds(r) \in Open
    BY <1>19, ReceiveFacts
  <2>2. Asks("auth", None, 0, None) \in Asked
    BY DEF Asks, Asked
  <2>3. NetTyped'
    <3> DEFINE auth == <<Asks("auth", None, 0, None)>>
    <3>1. auth \in Seq(Asked)
      BY <2>2
    <3>2. \/ net' = [net EXCEPT !.p2c = << >>, !.c2p = auth]
          \/ net' = [net EXCEPT !.p2c = << >>]
      BY <2>1
    <3>3. << >> \in Seq(Answers)
      OBVIOUS
    <3> HIDE DEF auth
    <3> QED BY <3>1, <3>2, <3>3 DEF Typed, NetTyped
  <2>4. ClientTyped'
    BY <2>1 DEF Typed, ClientTyped
  <2> QED BY <1>1, <1>2, <1>4, <1>6, <1>7, <1>19, <2>3, <2>4 DEF Receive
<1>20. CASE Leave
  <2>1. ClientTyped'
    BY <1>20 DEF Leave, Typed, ClientTyped
  <2> QED BY <1>1, <1>2, <1>3, <1>4, <1>6, <1>7, <1>20, <2>1 DEF Leave
<1>21. CASE Reload
  <2>1. RegistryOK(registry)'
    BY <1>21, ConfigsAssumption DEF Reload, Typed, RegistryOK, Nothing
  <2> QED BY <1>1, <1>2, <1>3, <1>4, <1>5, <1>7, <1>21, <2>1 DEF Reload
<1>22. CASE TransparentEnds
  BY <1>1, <1>2, <1>3, <1>4, <1>5, <1>6, <1>22 DEF TransparentEnds
<1>23. CASE UNCHANGED vars
  BY <1>1, <1>2, <1>3, <1>4, <1>5, <1>6, <1>7, <1>23 DEF vars
<1> QED
  BY <1>10, <1>11, <1>13, <1>14, <1>15, <1>16, <1>17, <1>18, <1>19, <1>20, <1>21, <1>22, <1>23
  DEF Next

LEMMA HandledLane ==
  ASSUME Typed, OneLane, NEW h, NEW out, NEW up, NEW reg, Serves(h, out, up, reg)
  PROVE  OneLane'
<1>1. /\ net.c2p \in Seq(Asked) /\ net.p2u \in Seq(Asked) /\ net.u2p \in Seq(Answers)
      /\ net.p2c \in Seq(Answers)
  BY DEF Typed, NetTyped
<1>2. /\ Command \in Asked /\ net.c2p # << >> /\ net.open /\ Command = Head(net.c2p)
  BY CommandTyped DEF Serves, Command
<1>3. /\ net'.c2p = Tail(net.c2p) /\ net'.p2c = net.p2c \o out /\ net'.u2p = net.u2p
      /\ net'.p2u = (IF net.uopen THEN net.p2u \o up ELSE net.p2u) /\ net'.uopen = net.uopen
      /\ client' = client
  BY HandledNet DEF Serves, Handled
<1>4. net.p2u \o << >> = net.p2u /\ net.p2u \o <<Command>> = Append(net.p2u, Command)
  BY <1>1, <1>2, SequenceFacts
<1>5. ASSUME ~Awaits(Command), Silent(net.p2u)
      PROVE  net'.p2c = net.p2c /\ Silent(net'.p2u)
  <2>1. out = << >> /\ up \in {<< >>, <<Command>>}
    BY <1>5 DEF Serves
  <2>2. net.p2c \o << >> = net.p2c
    BY <1>1, SequenceFacts
  <2>3. Silent(Append(net.p2u, Command))
    BY <1>1, <1>2, <1>5, SilentFacts
  <2> QED BY <1>3, <1>4, <1>5, <2>1, <2>2, <2>3
<1>6. CASE InHand
  <2>1. ~Awaits(Command) /\ Silent(Tail(net.c2p))
    BY <1>1, <1>2, <1>6, SilentFacts DEF InHand
  <2> QED BY <1>3, <1>5, <1>6, <2>1 DEF OneLane, InHand
<1>7. CASE Underway
  <2>1. ToProxy
    BY <1>2, <1>7 DEF Underway, ToServer, ToRelay, ToDriver
  <2>2. CASE ~Awaits(Command)
    <3>1. Carries(Tail(net.c2p), client)
      BY <1>1, <1>2, <2>1, <2>2, CarriesFacts DEF ToProxy
    <3> QED BY <1>3, <1>5, <1>7, <2>1, <2>2, <3>1 DEF OneLane, Underway, ToProxy
  <2>3. CASE Awaits(Command)
    <3>1. Tail(net.c2p) = << >> /\ Command = net.c2p[Len(net.c2p)]
      BY <1>1, <1>2, <2>1, <2>3, CarriesFacts DEF ToProxy
    <3>2. Carried(Command, client) /\ Silent(net.p2u) /\ net.u2p = << >> /\ net.p2c = << >>
      BY <2>1, <3>1 DEF ToProxy, Carries
    <3>3. CASE out = << >> /\ up = <<Command>>
      <4>1. Carries(Append(net.p2u, Command), client)
        BY <1>1, <1>2, <2>3, <3>2, CarriesFacts
      <4>0. net.p2c \o << >> = net.p2c
        BY <1>1, SequenceFacts
      <4>2. CASE net.uopen
        BY <1>3, <1>4, <1>7, <3>1, <3>2, <3>3, <4>0, <4>1, <4>2 DEF OneLane, Underway, ToServer
      <4>3. CASE ~net.uopen
        BY <1>3, <1>7, <3>1, <3>2, <3>3, <4>0, <4>3 DEF OneLane, Underway, Lost
      <4> QED BY <4>2, <4>3
    <3>4. CASE Command.t # "auth" /\ Replied(out) /\ up = << >>
      <4>1. PICK r \in Answers :
              /\ out = <<r>> /\ r.by = "proxy" /\ r.t # "greeting"
              /\ r.t = "prepared" => Command.t = "prepare" /\ r.q = Command.q
        BY <3>4 DEF Replied
      <4>2. client.pc = "waiting" /\ Command = client.cmd.ask
        BY <3>2, <3>4 DEF Carried
      <4>3. Fitting(r, client)
        BY <4>1, <4>2 DEF Fitting
      <4>4. net'.p2c = <<r>>
        BY <1>3, <3>2, <4>1
      <4>5. Len(net'.p2c) = 1 /\ net'.p2c[1] = r
        BY <4>4, SingletonFacts
      <4> QED BY <1>3, <1>4, <1>7, <3>1, <3>2, <3>4, <4>3, <4>5 DEF OneLane, Underway, ToDriver
    <3> QED BY <2>3, <3>3, <3>4 DEF Serves
  <2> QED BY <2>2, <2>3
<1> QED BY <1>2, <1>6, <1>7 DEF OneLane, Lost

LEMMA ServerLane ==
  ASSUME Typed, OneLane, ServerHandles
  PROVE  OneLane'
<1> DEFINE m == Head(net.p2u)
<1>1. /\ net.p2u \in Seq(Asked) /\ net.u2p \in Seq(Answers) /\ net.p2u # << >> /\ net.uopen
      /\ client' = client
  BY DEF ServerHandles, Typed, NetTyped
<1>2. /\ net'.p2u = Tail(net.p2u) /\ net'.u2p = net.u2p \o ServerAnswers(m)
      /\ net'.c2p = net.c2p /\ net'.p2c = net.p2c /\ net'.open = net.open /\ net'.uopen = net.uopen
  BY DEF ServerHandles, Typed, NetTyped
<1>3. m \in Asked /\ m.t # "quit" /\ m = net.p2u[1]
  BY <1>1, SequenceFacts DEF Typed, NetTyped
<1>4. ASSUME ~Awaits(m) PROVE net'.u2p = net.u2p
  <2>1. net.u2p \o << >> = net.u2p
    BY <1>1, SequenceFacts
  <2> QED BY <1>2, <1>3, <1>4, <2>1, ServerReplies
<1>5. ASSUME Silent(net.p2u) PROVE ~Awaits(m) /\ Silent(net'.p2u) /\ net'.u2p = net.u2p
  BY <1>1, <1>2, <1>4, <1>5, SilentFacts
<1>6. CASE InHand
  BY <1>1, <1>2, <1>5, <1>6 DEF OneLane, InHand
<1>7. CASE Underway /\ (ToProxy \/ ToDriver)
  BY <1>1, <1>2, <1>5, <1>7 DEF OneLane, Underway, ToProxy, ToDriver
<1>8. CASE Underway /\ ToServer
  <2>1. CASE ~Awaits(m)
    <3>1. Carries(net'.p2u, client)
      BY <1>1, <1>2, <1>8, <2>1, CarriesFacts DEF ToServer
    <3> QED BY <1>1, <1>2, <1>4, <1>8, <2>1, <3>1 DEF OneLane, Underway, ToServer
  <2>2. CASE Awaits(m)
    <3>1. Tail(net.p2u) = << >> /\ Carried(m, client)
      BY <1>1, <1>8, <2>2, CarriesFacts DEF ToServer, Carries
    <3>2. PICK r \in Answers :
              /\ ServerAnswers(m) = <<r>> /\ r.by = "server" /\ r.t # "greeting"
              /\ m.t = "auth" => r.t = "ok"
              /\ r.t = "prepared" <=> m.t = "prepare"
              /\ r.t = "prepared" => r.q = m.q /\ r.id = server.next
      BY <1>3, <2>2, ServerReplies
    <3>3. Fitting(r, client)
      BY <3>1, <3>2 DEF Carried, Fitting
    <3>4. net'.u2p = <<r>>
      BY <1>2, <1>8, <3>2 DEF ToServer
    <3>5. Len(net'.u2p) = 1 /\ net'.u2p[1] = r
      BY <3>4, SingletonFacts
    <3> QED BY <1>1, <1>2, <1>8, <3>1, <3>3, <3>5 DEF OneLane, Underway, ToServer, ToRelay
  <2> QED BY <2>1, <2>2
<1>9. CASE Lost
  BY <1>1, <1>2, <1>9 DEF OneLane, Lost
<1> QED BY <1>1, <1>6, <1>7, <1>8, <1>9 DEF OneLane, Underway, ToRelay

LEMMA LaneKept ==
  ASSUME Typed, Fresh, OneLane, [Next]_vars
  PROVE  OneLane'
<1>1. CASE Dial
  <2>1. /\ net.c2p = << >> /\ net.p2c = << >> /\ net.p2u = << >> /\ client.pc = "connecting"
        /\ client' = client
    BY <1>1 DEF Dial, Fresh
  <2> DEFINE greeting == [t |-> "greeting", q |-> None, id |-> 0, by |-> "server"]
  <2>2. net'.u2p = <<greeting>> /\ net'.c2p = net.c2p /\ net'.p2c = net.p2c /\ net'.p2u = net.p2u
    BY <1>1 DEF Dial, Typed, NetTyped
  <2>3. Len(net'.u2p) = 1 /\ net'.u2p[1] = greeting
    BY <2>2
  <2>4. Fitting(greeting, client)
    BY <2>1 DEF Fitting
  <2> HIDE DEF greeting
  <2> QED BY <2>1, <2>2, <2>3, <2>4 DEF OneLane, Underway, ToRelay
<1>2. CASE DialFails \/ HandlerReturns \/ RelayEnds
  <2>1. /\ net'.c2p = net.c2p /\ net'.p2c = net.p2c /\ net'.p2u = net.p2u /\ net'.u2p = net.u2p
        /\ client' = client /\ ~net'.open /\ (net'.uopen => net.uopen)
    BY <1>2 DEF DialFails, HandlerReturns, RelayEnds, Typed, NetTyped
  <2> QED BY <2>1 DEF OneLane, InHand, Underway, ToProxy, ToServer, ToRelay, ToDriver, Lost
<1>3. CASE Handler
  BY <1>2, <1>3, HandlerServes, HandledLane
<1>4. CASE Relay
  <2>1. net.u2p # << >> /\ net.open /\ client' = client
    BY <1>4 DEF Relay
  <2>2. Underway /\ ToRelay
    BY <2>1 DEF OneLane, InHand, Underway, ToProxy, ToServer, ToDriver, Lost
  <2>3. net.u2p \in Seq(Answers) /\ Len(net.u2p) = 1 /\ net.p2c = << >>
    BY <2>2 DEF ToRelay, Typed, NetTyped
  <2>4. Tail(net.u2p) = << >> /\ Head(net.u2p) = net.u2p[1]
    BY <2>3, SingletonFacts
  <2>5. /\ net'.c2p = net.c2p /\ net'.p2u = net.p2u /\ net'.u2p = Tail(net.u2p)
        /\ net'.p2c = Append(net.p2c, Head(net.u2p))
    BY <1>4 DEF Relay, Typed, NetTyped
  <2>6. Len(net'.p2c) = 1 /\ net'.p2c[1] = net.u2p[1]
    BY <2>3, <2>4, <2>5
  <2> QED
    BY <2>1, <2>2, <2>4, <2>5, <2>6, NothingSilent DEF OneLane, Underway, ToRelay, ToDriver
<1>5. CASE ServerHandles
  BY <1>5, ServerLane
<1>6. CASE ServerDies
  <2>1. PICK kept \in {<< >>, net.u2p} : net' = [net EXCEPT !.uopen = FALSE, !.p2u = << >>, !.u2p = kept]
    BY <1>6 DEF ServerDies
  <2>2. /\ net'.c2p = net.c2p /\ net'.p2c = net.p2c /\ net'.p2u = << >> /\ net'.u2p = kept
        /\ net'.open = net.open /\ ~net'.uopen /\ client' = client
    BY <1>6, <2>1 DEF ServerDies, Typed, NetTyped
  <2>3. Silent(<< >>)
    BY NothingSilent
  <2> QED BY <2>2, <2>3 DEF OneLane, InHand, Underway, ToProxy, ToServer, ToRelay, ToDriver, Lost
<1>7. CASE Send
  <2>1. PICK m \in Asked :
           /\ client.pc = "idle" /\ net.open /\ net' = [net EXCEPT !.c2p = Append(@, m)]
           /\ client' = [pc |-> IF m.t = "quit" THEN "out" ELSE IF Awaits(m) THEN "waiting" ELSE "idle",
                         cmd |-> IF Awaits(m)
                                 THEN [ask |-> m, epoch |-> registry.epoch, transparent |-> transparent]
                                 ELSE client.cmd,
                         stmts |-> IF m.t = "close" THEN client.stmts \ {m.stmt} ELSE client.stmts]
    BY <1>7, SendFacts
  <2>2. InHand
    BY <2>1 DEF OneLane, Underway, Lost
  <2>3. /\ net'.c2p = Append(net.c2p, m) /\ net'.p2c = net.p2c /\ net'.p2u = net.p2u
        /\ net'.u2p = net.u2p /\ net.c2p \in Seq(Asked)
    BY <2>1 DEF Typed, NetTyped
  <2>4. CASE Awaits(m)
    <3>1. client'.pc = "waiting" /\ client'.cmd.ask = m
      BY <2>1, <2>4 DEF Awaits
    <3>2. Carries(Append(net.c2p, m), client')
      BY <2>2, <2>3, <2>4, <3>1, CarriesFacts DEF Carried, InHand
    <3> QED BY <2>2, <2>3, <3>1, <3>2 DEF OneLane, InHand, Underway, ToProxy
  <2>5. CASE ~Awaits(m)
    <3>1. client'.pc \in {"idle", "out"}
      BY <2>1, <2>5
    <3>2. Silent(Append(net.c2p, m))
      BY <2>2, <2>3, <2>5, SilentFacts DEF InHand
    <3> QED BY <2>2, <2>3, <3>1, <3>2 DEF OneLane, InHand
  <2> QED BY <2>4, <2>5
<1>8. CASE Receive
  <2>1. PICK r \in Answers :
           /\ ToDriver
           /\ IF r.t = "greeting"
              THEN /\ client.pc = "connecting" /\ client' = client
                   /\ net' = [net EXCEPT !.p2c = << >>, !.c2p = <<Asks("auth", None, 0, None)>>]
              ELSE /\ net' = [net EXCEPT !.p2c = << >>]
                   /\ client' = [pc |-> "idle", cmd |-> None,
                                 stmts |-> IF r.t = "prepared" THEN client.stmts \cup {Holds(r)}
                                           ELSE client.stmts]
    BY <1>8, ReceiveFacts
  <2>2. CASE r.t = "greeting"
    <3> DEFINE m == Asks("auth", None, 0, None)
    <3>1. /\ client.pc = "connecting" /\ client' = client /\ net'.p2c = << >> /\ net'.c2p = <<m>>
          /\ net'.p2u = net.p2u /\ net'.u2p = net.u2p
      BY <2>1, <2>2 DEF Typed, NetTyped
    <3>2. Carries(<<m>>, client)
      BY <3>1 DEF Asks, Carries, Carried, Awaits
    <3> HIDE DEF m
    <3> QED BY <2>1, <3>1, <3>2 DEF OneLane, Underway, ToProxy, ToDriver
  <2>3. CASE r.t # "greeting"
    <3>1. /\ client'.pc = "idle" /\ net'.p2c = << >> /\ net'.c2p = net.c2p
          /\ net'.p2u = net.p2u /\ net'.u2p = net.u2p
      BY <2>1, <2>3 DEF Typed, NetTyped
    <3> QED BY <2>1, <3>1, NothingSilent DEF OneLane, InHand, ToDriver
  <2> QED BY <2>2, <2>3
<1>9. CASE Leave
  BY <1>9 DEF Leave, OneLane, Lost, Typed, ClientTyped
<1>10. CASE Reload \/ TransparentEnds \/ UNCHANGED vars
  BY <1>10 DEF Reload, TransparentEnds, vars, OneLane, InHand, Underway, ToProxy, ToServer, ToRelay,
               ToDriver, Lost
<1> QED BY <1>1, <1>2, <1>3, <1>4, <1>5, <1>6, <1>7, <1>8, <1>9, <1>10 DEF Next

LEMMA FreshKept ==
  ASSUME Typed, Fresh, [Next]_vars
  PROVE  Fresh'
<1>1. SUFFICES ASSUME handler'.pc = "dialing"
               PROVE  /\ net' = net /\ client' = client /\ relay' = relay /\ server' = server
                      /\ handler' = handler
  BY <1>1 DEF Fresh
<1>2. ~Dial /\ ~DialFails /\ ~HandlerReturns
  BY <1>1 DEF Dial, DialFails, HandlerReturns, Typed, HandlerOK
<1>3. ~Handler
  BY <1>1, <1>2, HandlerServes DEF Serves, Handled
<1>4. handler' = handler
  BY <1>2, <1>3 DEF Next, Relay, RelayEnds, ServerHandles, ServerDies, Send, Receive, Leave,
                    Reload, TransparentEnds, vars
<1>5. /\ net.p2c = << >> /\ net.u2p = << >> /\ net.open /\ ~net.uopen
      /\ client.pc = "connecting" /\ relay = "off"
  BY <1>1, <1>4 DEF Fresh
<1>6. Reload \/ TransparentEnds \/ UNCHANGED vars
  BY <1>2, <1>3, <1>5
  DEF Next, Relay, RelayEnds, ServerHandles, ServerDies, Send, Receive, Leave
<1> QED BY <1>6 DEF Reload, TransparentEnds, vars

LEMMA ConnectionStarts == Init => Typed /\ Fresh /\ OneLane
<1> SUFFICES ASSUME Init PROVE Typed /\ Fresh /\ OneLane
  OBVIOUS
<1> USE DEF Init
<1>1. IsTable(Nothing)
  BY DEF IsTable, Nothing
<1>2. HandlerOK(handler) /\ ServerTyped
  BY <1>1 DEF HandlerOK, ServerTyped
<1>3. << >> \in Seq(Asked) /\ << >> \in Seq(Answers)
  OBVIOUS
<1>4. NetTyped
  BY <1>3 DEF NetTyped
<1>5. ClientTyped
  BY DEF ClientTyped
<1>6. RegistryOK(registry) /\ config \in Configs /\ transparent \in BOOLEAN
  BY ConfigsAssumption DEF RegistryOK, Nothing
<1>7. Fresh
  BY DEF Fresh
<1>8. OneLane
  BY DEF OneLane, Lost
<1> QED BY <1>2, <1>4, <1>5, <1>6, <1>7, <1>8 DEF Typed

LEMMA AwaitedFacts ==
  ASSUME NEW T, NEW s \in Seq(T)
  PROVE  /\ Silent(s) => Awaited(s) = 0
         /\ \A c : Carries(s, c) => Awaited(s) = 1
<1> DEFINE awaited == {k \in DOMAIN s : Awaits(s[k])}
<1>1. ASSUME Silent(s) PROVE Awaited(s) = 0
  <2>1. awaited = {}
    BY <1>1 DEF Silent
  <2> QED BY <2>1, FS_EmptySet DEF Awaited
<1>2. ASSUME NEW c, Carries(s, c) PROVE Awaited(s) = 1
  <2>1. Len(s) \in DOMAIN s
    BY <1>2, SequenceFacts DEF Carries
  <2>2. awaited = {Len(s)}
    BY <1>2, <2>1 DEF Carries
  <2> QED BY <2>2, FS_Singleton DEF Awaited
<1> QED BY <1>1, <1>2

LEMMA LaneIsEnough == Typed /\ OneLane => OneAnswerEach
<1> SUFFICES ASSUME Typed, OneLane, Living, client.pc \in {"idle", "waiting"}
             PROVE  Awaited(net.c2p) + Awaited(net.p2u) + Len(net.u2p) + Len(net.p2c)
                      = IF client.pc = "waiting" THEN 1 ELSE 0
  BY DEF OneAnswerEach
<1>1. net.c2p \in Seq(Asked) /\ net.p2u \in Seq(Asked)
  BY DEF Typed, NetTyped
<1>2. ~Lost
  BY DEF Living, Lost
<1>3. /\ Awaited(<< >>) = 0 /\ Len(<< >>) = 0
      /\ Silent(net.c2p) => Awaited(net.c2p) = 0
      /\ Silent(net.p2u) => Awaited(net.p2u) = 0
      /\ Carries(net.c2p, client) => Awaited(net.c2p) = 1
      /\ Carries(net.p2u, client) => Awaited(net.p2u) = 1
  <2>1. << >> \in Seq(Asked) /\ Len(<< >>) = 0
    OBVIOUS
  <2> QED BY <1>1, <2>1, NothingSilent, AwaitedFacts
<1>4. CASE client.pc = "idle"
  <2>1. InHand
    BY <1>2, <1>4 DEF OneLane, Underway
  <2> QED BY <1>3, <1>4, <2>1 DEF InHand
<1>5. CASE client.pc = "waiting"
  <2>1. ToProxy \/ ToServer \/ ToRelay \/ ToDriver
    BY <1>2, <1>5 DEF OneLane, Underway, InHand
  <2>2. CASE ToProxy
    BY <1>3, <1>5, <2>2 DEF ToProxy
  <2>3. CASE ToServer
    BY <1>3, <1>5, <2>3 DEF ToServer
  <2>4. CASE ToRelay
    BY <1>3, <1>5, <2>4 DEF ToRelay
  <2>5. CASE ToDriver
    BY <1>3, <1>5, <2>5 DEF ToDriver
  <2> QED BY <2>1, <2>2, <2>3, <2>4, <2>5
<1> QED BY <1>4, <1>5

(***************************************************************************)
(* For any driver, any registries and any interleaving of the handler, the *)
(* copy and the server: while the connection lives, a command that has an  *)
(* answer is in one place on its way or answered once.  (However many      *)
(* statements the driver keeps open.)                                      *)
(***************************************************************************)
THEOREM OneAnswerAlways == Spec => []OneAnswerEach
<1>1. Init => Typed /\ Fresh /\ OneLane
  BY ConnectionStarts
<1>2. Typed /\ Fresh /\ OneLane /\ [Next]_vars => (Typed /\ Fresh /\ OneLane)'
  BY ConnectionRuns, FreshKept, LaneKept
<1>3. Typed /\ Fresh /\ OneLane => OneAnswerEach
  BY LaneIsEnough
<1> QED BY <1>1, <1>2, <1>3, PTL DEF Spec

-----------------------------------------------------------------------------
(***************************************************************************)
(* The statement a driver has open.                                        *)
(***************************************************************************)
LEMMA KindFacts ==
  ASSUME NEW T, NEW s \in Seq(T), NEW types
  PROVE  Kind(s, types) \subseteq T /\ \A x \in Kind(s, types) : x.t \in types
BY SequenceFacts DEF Kind

LEMMA KindOfOne ==
  ASSUME NEW types
  PROVE  /\ Kind(<< >>, types) = {}
         /\ \A x : Kind(<<x>>, types) = IF x.t \in types THEN {x} ELSE {}
<1>1. Kind(<< >>, types) = {}
  BY DEF Kind
<1>2. ASSUME NEW x PROVE Kind(<<x>>, types) = IF x.t \in types THEN {x} ELSE {}
  <2>1. DOMAIN <<x>> = {1} /\ <<x>>[1] = x
    OBVIOUS
  <2> QED BY <2>1 DEF Kind
<1> QED BY <1>1, <1>2

LEMMA KindTail ==
  ASSUME NEW T, NEW s \in Seq(T), NEW types, s # << >>
  PROVE  Kind(s, types) = Kind(Tail(s), types) \cup (IF Head(s).t \in types THEN {Head(s)} ELSE {})
<1> DEFINE u == Tail(s)
           n == Len(s) - 1
<1>1. /\ DOMAIN s = 1..Len(s) /\ DOMAIN u = 1..n /\ Head(s) = s[1] /\ Len(s) \in Nat \ {0}
      /\ \A k \in 1..n : u[k] = s[k + 1]
  BY SequenceFacts
<1>2. \A k \in DOMAIN s : k = 1 \/ (k - 1 \in DOMAIN u /\ u[k - 1] = s[k])
  BY <1>1
<1>3. \A k \in DOMAIN u : k + 1 \in DOMAIN s /\ s[k + 1] = u[k]
  BY <1>1
<1>4. 1 \in DOMAIN s
  BY <1>1
<1> HIDE DEF u, n
<1>5. \A x \in Kind(s, types) : x \in Kind(u, types) \/ (x = s[1] /\ s[1].t \in types)
  BY <1>2 DEF Kind
<1>6. Kind(u, types) \subseteq Kind(s, types)
  BY <1>3 DEF Kind
<1>7. s[1].t \in types => s[1] \in Kind(s, types)
  BY <1>4 DEF Kind
<1>8. Kind(s, types) = Kind(u, types) \cup (IF s[1].t \in types THEN {s[1]} ELSE {})
  BY <1>5, <1>6, <1>7
<1> QED BY <1>1, <1>8 DEF u

LEMMA KindAppend ==
  ASSUME NEW T, NEW s \in Seq(T), NEW types, NEW x \in T
  PROVE  Kind(Append(s, x), types) = Kind(s, types) \cup (IF x.t \in types THEN {x} ELSE {})
<1> DEFINE u == Append(s, x)
<1>1. /\ DOMAIN s = 1..Len(s) /\ Len(s) \in Nat /\ DOMAIN u = 1..(Len(s) + 1)
      /\ u[Len(s) + 1] = x /\ \A k \in 1..Len(s) : u[k] = s[k]
  BY SequenceFacts
<1>2. \A k \in DOMAIN u : (k \in DOMAIN s /\ u[k] = s[k]) \/ u[k] = x
  BY <1>1
<1>3. \A k \in DOMAIN s : k \in DOMAIN u /\ u[k] = s[k]
  BY <1>1
<1>4. \E k \in DOMAIN u : u[k] = x
  BY <1>1
<1> HIDE DEF u
<1>5. Kind(u, types) = Kind(s, types) \cup (IF x.t \in types THEN {x} ELSE {})
  BY <1>2, <1>3, <1>4 DEF Kind
<1> QED BY <1>5 DEF u

\* A sequence whose only awaited command is at its head is that command.
LEMMA CarriesOne ==
  ASSUME NEW T, NEW s \in Seq(T), NEW c, Carries(s, c), Awaits(Head(s)), NEW types
  PROVE  Tail(s) = << >> /\ Kind(s, types) = IF Head(s).t \in types THEN {Head(s)} ELSE {}
<1>1. s # << >> /\ Tail(s) = << >>
  BY CarriesFacts DEF Carries
<1>2. Kind(s, types) = Kind(Tail(s), types) \cup (IF Head(s).t \in types THEN {Head(s)} ELSE {})
  BY <1>1, KindTail
<1> QED BY <1>1, <1>2, KindOfOne

LEMMA TailFacts ==
  ASSUME NEW T, NEW s \in Seq(T), s # << >>
  PROVE  /\ \A types : Kind(Tail(s), types) \subseteq Kind(s, types)
         /\ ClosingLast(s) => ClosingLast(Tail(s))
         /\ ClosingLast(s) /\ Head(s).t = "close" => Kind(Tail(s), OfStatement) = {}
<1> DEFINE u == Tail(s)
           n == Len(s) - 1
<1>1. /\ DOMAIN s = 1..Len(s) /\ DOMAIN u = 1..n /\ Head(s) = s[1] /\ Len(s) \in Nat \ {0}
      /\ \A k \in 1..n : u[k] = s[k + 1]
  BY SequenceFacts
<1>2. \A k \in DOMAIN u : k \in Nat /\ k + 1 \in DOMAIN s /\ u[k] = s[k + 1]
  BY <1>1
<1>3. 1 \in DOMAIN s
  BY <1>1
<1>4. \A types : Kind(u, types) \subseteq Kind(s, types)
  BY KindTail
<1> HIDE DEF u, n
<1>5. ASSUME ClosingLast(s) PROVE ClosingLast(u)
  <2>1. SUFFICES ASSUME NEW k \in DOMAIN u, NEW l \in DOMAIN u, u[k].t \in OfStatement, u[l].t = "close"
                 PROVE  k <= l
    BY DEF ClosingLast
  <2>2. k + 1 <= l + 1
    BY <1>2, <1>5, <2>1 DEF ClosingLast
  <2> QED BY <1>2, <2>1, <2>2
<1>6. ASSUME ClosingLast(s), Head(s).t = "close" PROVE Kind(u, OfStatement) = {}
  <2>1. SUFFICES ASSUME NEW k \in DOMAIN u, u[k].t \in OfStatement PROVE FALSE
    BY DEF Kind
  <2>2. k + 1 <= 1
    BY <1>1, <1>2, <1>3, <1>6, <2>1 DEF ClosingLast
  <2> QED BY <1>2, <2>1, <2>2
<1> QED BY <1>4, <1>5, <1>6 DEF u

\* While a command is before the handler, nothing is on its way back.
LEMMA BeforeHandler ==
  ASSUME Typed, OneLane, net.open, net.c2p # << >>
  PROVE  /\ net.u2p = << >> /\ net.p2c = << >> /\ Silent(net.p2u)
         /\ Awaits(Command) => /\ Tail(net.c2p) = << >> /\ client.pc \in {"connecting", "waiting"}
                               /\ Carried(Command, client)
                               /\ \A types : Kind(net.c2p, types) =
                                               IF Command.t \in types THEN {Command} ELSE {}
<1>1. net.c2p \in Seq(Asked)
  BY DEF Typed, NetTyped
<1>2. InHand \/ (Underway /\ ToProxy)
  BY DEF OneLane, Lost, Underway, ToServer, ToRelay, ToDriver
<1>3. net.u2p = << >> /\ net.p2c = << >> /\ Silent(net.p2u)
  BY <1>2 DEF InHand, ToProxy
<1>4. ASSUME Awaits(Command) PROVE Carries(net.c2p, client) /\ client.pc \in {"connecting", "waiting"}
  <2>1. ~InHand
    BY <1>1, <1>4, SilentFacts DEF InHand, Command
  <2> QED BY <1>2, <2>1 DEF ToProxy, Underway
<1>5. ASSUME Awaits(Command)
      PROVE  /\ Tail(net.c2p) = << >> /\ Carried(Command, client)
             /\ \A types : Kind(net.c2p, types) = IF Command.t \in types THEN {Command} ELSE {}
  <2>1. Tail(net.c2p) = << >> /\ Command = net.c2p[Len(net.c2p)]
    BY <1>1, <1>4, <1>5, CarriesFacts DEF Command
  <2>2. \A types : Kind(net.c2p, types) = IF Command.t \in types THEN {Command} ELSE {}
    BY <1>1, <1>4, <1>5, CarriesOne DEF Command
  <2> QED BY <1>4, <1>5, <2>1, <2>2 DEF Carries
<1> QED BY <1>3, <1>4, <1>5

LEMMA HandlerAgrees ==
  ASSUME Typed, OneLane, Agree, Living,
         NEW h, NEW out, NEW up, NEW reg, Serves(h, out, up, reg), Decides(h, out, up, reg)
  PROVE  Agree'
<1> DEFINE m == Command
           prep == handler.preparedStmts
           held == {Project(s) : s \in client.stmts}
<1>1. /\ net.c2p \in Seq(Asked) /\ net.p2u \in Seq(Asked) /\ net.p2c \in Seq(Answers)
      /\ net.c2p # << >> /\ m \in Asked /\ m = Head(net.c2p) /\ net.uopen
  BY CommandTyped DEF Typed, NetTyped, Serves, Living, Command
<1>2. net.u2p = << >> /\ net.p2c = << >>
  BY <1>1, BeforeHandler DEF Living
<1>3. /\ net'.c2p = Tail(net.c2p) /\ net'.p2c = net.p2c \o out /\ net'.u2p = net.u2p
      /\ net'.p2u = net.p2u \o up /\ client' = client /\ server' = server /\ handler' = h
  BY <1>1, HandledNet DEF Serves, Handled
<1>4. net'.p2c = out
  BY <1>2, <1>3 DEF Serves, Replied
<1>5. up \in {<< >>, <<m>>} /\ net.p2u \o << >> = net.p2u /\ net.p2u \o <<m>> = Append(net.p2u, m)
  BY <1>1, SequenceFacts DEF Serves
<1>6. PreparedIn(<< >>) = {} /\ PreparedIn(net.u2p) = {} /\ PreparedIn(net.p2c) = {}
      /\ PreparedIn(net'.u2p) = {}
  BY <1>2, <1>3, KindOfOne DEF PreparedIn
<1>7. /\ Current = held \cup {Project(x.stmt) : x \in Closes(net.c2p)}
      /\ Current' = held \cup {Project(x.stmt) : x \in Closes(net'.c2p)}
                      \cup {Project(r) : r \in PreparedIn(out)}
  BY <1>3, <1>4, <1>6 DEF Current
<1>8. /\ Closes(net.c2p) = Closes(net'.c2p) \cup (IF m.t = "close" THEN {m} ELSE {})
      /\ Kind(net.c2p, OfStatement) = Kind(net'.c2p, OfStatement)
                                        \cup (IF m.t \in OfStatement THEN {m} ELSE {})
      /\ Kind(net'.c2p, OfStatement) \subseteq Kind(net.c2p, OfStatement)
      /\ Prepares(net'.c2p) => Prepares(net.c2p)
      /\ m.t = "prepare" => Prepares(net.c2p)
  <2>1. \A types : Kind(net.c2p, types) = Kind(net'.c2p, types) \cup (IF m.t \in types THEN {m} ELSE {})
    BY <1>1, <1>3, KindTail
  <2> QED BY <2>1 DEF Closes, Prepares
<1>9. ClosingLast(net.c2p) /\ ClosingLast(net'.c2p)
  BY <1>1, <1>3, TailFacts DEF Agree, OfCurrent
<1>10. /\ Closes(net'.p2u) = Closes(net.p2u) \cup (IF up # << >> /\ m.t = "close" THEN {m} ELSE {})
       /\ Prepares(net'.p2u) => Prepares(net.p2u) \/ m.t = "prepare"
  <2>1. \A types : Kind(Append(net.p2u, m), types) = Kind(net.p2u, types) \cup (IF m.t \in types THEN {m} ELSE {})
    BY <1>1, KindAppend
  <2>2. CASE up = << >>
    BY <1>3, <1>5, <2>2
  <2>3. CASE up = <<m>>
    <3>1. net'.p2u = Append(net.p2u, m) /\ up # << >>
      BY <1>3, <1>5, <2>3
    <3>2. \A types : Kind(net'.p2u, types) = Kind(net.p2u, types) \cup (IF m.t \in types THEN {m} ELSE {})
      BY <2>1, <3>1
    <3> QED BY <3>1, <3>2 DEF Closes, Prepares
  <2> QED BY <1>5, <2>2, <2>3
<1>11. NoneOpenWhile /\ (m.t \in OfStatement => Named(m))
  BY <1>8 DEF Agree, OfCurrent
<1>12. /\ Statements("proxy", prep) = {x \in Current : x.by = "proxy"}
       /\ {x \in Statements("server", server.stmts) : x.id \notin ClosedUp}
            = {x \in Current : x.by = "server"}
       /\ \A x, y \in Current : x = y
       /\ \A s, u \in client.stmts : s = u
  BY DEF Agree
\* A statement stays what it was.
<1>20. CASE h = handler /\ m.t # "close" /\ PreparedIn(out) = {}
  <2>1. Current' = Current /\ Closes(net'.c2p) = Closes(net.c2p) /\ ClosedUp' = ClosedUp
    BY <1>7, <1>8, <1>10, <1>20 DEF ClosedUp
  <2>2. NoneOpenWhile'
    <3>1. m.t = "prepare" => client.stmts = {}
      BY <1>8, <1>11 DEF NoneOpenWhile
    <3> QED BY <1>3, <1>4, <1>6, <1>8, <1>10, <1>11, <1>20, <2>1, <3>1 DEF NoneOpenWhile
  <2>3. OfCurrent'
    <3>1. ASSUME NEW x \in Kind(net'.c2p, OfStatement)
          PROVE  /\ x.id = x.stmt.id /\ Project(x.stmt) \in Current'
                 /\ Closes(net'.c2p) = {} => x.stmt \in client'.stmts
      BY <1>3, <1>8, <2>1, <3>1 DEF Agree, OfCurrent, Named
    <3> QED BY <1>9, <3>1 DEF OfCurrent, Named
  <2>4. /\ Statements("proxy", handler'.preparedStmts) = {x \in Current' : x.by = "proxy"}
        /\ {x \in Statements("server", server'.stmts) : x.id \notin ClosedUp'}
             = {x \in Current' : x.by = "server"}
    BY <1>3, <1>12, <1>20, <2>1
  <2> QED BY <1>3, <1>12, <2>1, <2>2, <2>3, <2>4 DEF Agree
\* Closing the one there is leaves none, where it was made.
<1>21. CASE m.t = "close"
  <2> DEFINE it == Project(m.stmt)
  <2>1. Kind(net'.c2p, OfStatement) = {} /\ Closes(net'.c2p) = {}
    <3>1. Kind(net'.c2p, OfStatement) = {}
      BY <1>1, <1>3, <1>9, <1>21, TailFacts
    <3>2. Closes(net'.c2p) \subseteq Kind(net'.c2p, OfStatement)
      BY DEF Closes, Kind, OfStatement
    <3> QED BY <3>1, <3>2
  <2>2. Closes(net.c2p) = {m} /\ client.stmts = {}
    BY <1>8, <1>11, <1>21, <2>1 DEF NoneOpenWhile
  <2>3. Current = {it} /\ m.id = m.stmt.id /\ it.id = m.id
    BY <1>7, <1>11, <1>21, <2>2 DEF Named, OfStatement, Project
  <2>4. PreparedIn(out) = {}
    BY <1>6, <1>21 DEF Serves, Awaits
  <2>5. Current' = {}
    BY <1>7, <2>1, <2>2, <2>4
  <2>6. NoneOpenWhile' /\ OfCurrent'
    BY <1>3, <1>9, <2>1, <2>2 DEF NoneOpenWhile, OfCurrent
  <2>7. it.by \in {"proxy", "server"}
    BY <1>1, <1>21, CommandTyped DEF OfStatement, Open, Project
  <2>8. CASE h = handler /\ up = <<m>> /\ ~Synthetic
    <3>1. it.by = "server"
      <4>1. ASSUME it.by = "proxy" PROVE m.id \in DOMAIN prep
        BY <1>12, <2>3, <4>1 DEF Statements
      <4> QED BY <2>7, <2>8, <4>1 DEF Synthetic
    <3>2. Statements("proxy", handler'.preparedStmts) = {}
      BY <1>3, <1>12, <2>3, <2>8, <3>1
    <3>3. ClosedUp' = ClosedUp \cup {m.id}
      BY <1>10, <1>21, <2>8 DEF ClosedUp
    <3>4. {x \in Statements("server", server'.stmts) : x.id \notin ClosedUp'} = {}
      BY <1>3, <1>12, <2>3, <3>3
    <3> QED BY <1>3, <1>12, <2>5, <2>6, <3>2, <3>4 DEF Agree
  <2>9. CASE /\ up = << >> /\ Synthetic
             /\ h.preparedStmts = Restrict(prep, DOMAIN prep \ {m.id})
    <3>1. [id |-> m.id, q |-> prep[m.id], by |-> "proxy"] \in Current
      BY <1>12, <2>9 DEF Statements, Synthetic
    <3>2. it.by = "proxy"
      BY <2>3, <3>1
    <3>3. \A i \in DOMAIN prep : i = m.id
      <4>1. \A i \in DOMAIN prep : [id |-> i, q |-> prep[i], by |-> "proxy"] \in Current
        BY <1>12 DEF Statements
      <4>2. ASSUME NEW i \in DOMAIN prep PROVE i = m.id
        <5> DEFINE x == [id |-> i, q |-> prep[i], by |-> "proxy"]
        <5>1. x \in Current /\ x.id = i
          BY <4>1
        <5> HIDE DEF x, it
        <5> QED BY <2>3, <5>1
      <4> QED BY <4>2
    <3>4. Statements("proxy", handler'.preparedStmts) = {}
      BY <1>3, <2>9, <3>3 DEF Statements, Restrict
    <3>5. ClosedUp' = ClosedUp
      BY <1>10, <2>9 DEF ClosedUp
    <3>6. {x \in Statements("server", server'.stmts) : x.id \notin ClosedUp'} = {}
      BY <1>3, <1>12, <2>3, <3>2, <3>5
    <3> QED BY <1>3, <1>12, <2>5, <2>6, <3>4, <3>6 DEF Agree
  <2> QED BY <1>21, <2>8, <2>9 DEF Decides
\* The handler makes a statement up when there is none.
<1>22. CASE /\ m.t = "prepare" /\ up = << >>
            /\ h.preparedStmts = Put(prep, handler.nextStmtID, m.q)
            /\ out = <<Answer("prepared", m.q, handler.nextStmtID)>>
  <2> DEFINE r == Answer("prepared", m.q, handler.nextStmtID)
             it == [id |-> handler.nextStmtID, q |-> m.q, by |-> "proxy"]
  <2>1. client.stmts = {} /\ Closes(net.c2p) = {} /\ Kind(net.c2p, OfStatement) = {}
    <3>1. \A types : Kind(net.c2p, types) = IF m.t \in types THEN {m} ELSE {}
      BY <1>1, <1>22, BeforeHandler DEF Awaits, Living
    <3> QED BY <1>8, <1>11, <1>22, <3>1 DEF NoneOpenWhile, Closes, OfStatement
  <2>2. Current = {}
    BY <1>7, <2>1
  <2>3. PreparedIn(out) = {r} /\ Project(r) = it
    BY <1>22, KindOfOne DEF PreparedIn, Answer, Project
  <2>4. Closes(net'.c2p) = {} /\ Kind(net'.c2p, OfStatement) = {}
    BY <1>8, <2>1
  <2>5. Current' = {it}
    BY <1>7, <2>1, <2>3, <2>4
  <2>6. DOMAIN prep = {}
    BY <1>12, <2>2 DEF Statements
  <2>7. Statements("proxy", handler'.preparedStmts) = {it}
    BY <1>3, <1>22, <2>6 DEF Statements, Put
  <2>8. ClosedUp' = ClosedUp
    BY <1>10, <1>22 DEF ClosedUp
  <2>9. {x \in Statements("server", server'.stmts) : x.id \notin ClosedUp'} = {}
    BY <1>3, <1>12, <2>2, <2>8
  <2>10. NoneOpenWhile' /\ OfCurrent'
    BY <1>3, <1>9, <2>1, <2>4 DEF NoneOpenWhile, OfCurrent
  <2>11. it.by = "proxy"
    OBVIOUS
  <2> HIDE DEF it
  <2> QED BY <1>3, <1>12, <2>5, <2>7, <2>9, <2>10, <2>11 DEF Agree
<1> QED BY <1>20, <1>21, <1>22 DEF Decides

\* Of the actions that leave the handler and the commands to it alone: the
\* current statement, if any, is what it was.
LEMMA SameCurrent ==
  ASSUME Agree, Current' = Current, client'.stmts = client.stmts, net'.c2p = net.c2p, NoneOpenWhile'
  PROVE  OfCurrent' /\ (\A s, u \in client'.stmts : s = u) /\ (\A x, y \in Current' : x = y)
<1>1. OfCurrent'
  <2>1. \A m \in Kind(net'.c2p, OfStatement) : /\ m.id = m.stmt.id /\ Project(m.stmt) \in Current'
                                               /\ Closes(net'.c2p) = {} => m.stmt \in client'.stmts
    BY DEF Agree, OfCurrent, Named
  <2> QED BY <2>1 DEF Agree, OfCurrent, Named
<1>2. (\A s, u \in client'.stmts : s = u) /\ (\A x, y \in Current' : x = y)
  BY DEF Agree
<1> QED BY <1>1, <1>2

LEMMA ServerAgrees ==
  ASSUME Typed, OneLane, Agree, Living, ServerHandles
  PROVE  Agree'
<1> DEFINE m == Head(net.p2u)
           stmts == server.stmts
<1>1. /\ net.p2u \in Seq(Asked) /\ net.u2p \in Seq(Answers) /\ net.p2u # << >>
      /\ handler' = handler /\ client' = client
  BY DEF ServerHandles, Typed, NetTyped
<1>2. /\ net'.p2u = Tail(net.p2u) /\ net'.u2p = net.u2p \o ServerAnswers(m)
      /\ net'.c2p = net.c2p /\ net'.p2c = net.p2c
  BY DEF ServerHandles, Typed, NetTyped
<1>3. m \in Asked /\ m.t # "quit"
  <2>1. m = net.p2u[1] /\ 1 \in DOMAIN net.p2u
    BY <1>1, SequenceFacts
  <2> QED BY <1>1, <2>1, SequenceFacts DEF Typed, NetTyped
<1>4. \A types : Kind(net.p2u, types) = Kind(net'.p2u, types) \cup (IF m.t \in types THEN {m} ELSE {})
  BY <1>1, <1>2, KindTail
<1>5. ASSUME Awaits(m)
      PROVE  /\ net.c2p = << >> /\ net.u2p = << >> /\ net.p2c = << >>
             /\ net'.u2p = ServerAnswers(m)
             /\ \A types : Kind(net.p2u, types) = IF m.t \in types THEN {m} ELSE {}
  <2>1. ~Silent(net.p2u)
    BY <1>1, <1>5, SilentFacts
  <2>2. ToServer
    BY <1>1, <2>1 DEF OneLane, InHand, Underway, ToProxy, ToRelay, ToDriver, Lost, Living
  <2>3. \A types : Kind(net.p2u, types) = IF m.t \in types THEN {m} ELSE {}
    BY <1>1, <1>5, <2>2, CarriesOne DEF ToServer
  <2>4. ServerAnswers(m) \in Seq(Answers)
    BY <1>3, <1>5, ServerReplies, SingletonFacts
  <2>5. << >> \o ServerAnswers(m) = ServerAnswers(m)
    BY <2>4
  <2> QED BY <1>2, <2>2, <2>3, <2>5 DEF ToServer
<1>6. ASSUME ~Awaits(m) PROVE net'.u2p = net.u2p
  <2>1. net.u2p \o << >> = net.u2p
    BY <1>1, SequenceFacts
  <2> QED BY <1>2, <1>3, <1>6, <2>1, ServerReplies
<1>7. /\ Statements("proxy", handler.preparedStmts) = {x \in Current : x.by = "proxy"}
      /\ {x \in Statements("server", stmts) : x.id \notin ClosedUp} = {x \in Current : x.by = "server"}
      /\ NoneOpenWhile
  BY DEF Agree
\* It closes the statement that is no longer counted.
<1>8. CASE m.t = "close"
  <2>1. net'.u2p = net.u2p
    BY <1>6, <1>8 DEF Awaits
  <2>2. Current' = Current
    BY <1>1, <1>2, <2>1 DEF Current
  <2>3. NoneOpenWhile'
    <3>1. Prepares(net'.p2u) => Prepares(net.p2u)
      BY <1>4 DEF Prepares
    <3> QED BY <1>1, <1>2, <1>7, <2>1, <3>1 DEF NoneOpenWhile
  <2>4. ClosedUp = ClosedUp' \cup {m.id}
    BY <1>4, <1>8 DEF ClosedUp, Closes
  <2>5. server'.stmts = [i \in DOMAIN stmts \ {m.id} |-> stmts[i]]
    BY <1>8 DEF ServerHandles, Typed, ServerTyped, Restrict
  <2>6. {x \in Statements("server", server'.stmts) : x.id \notin ClosedUp'}
          = {x \in Statements("server", stmts) : x.id \notin ClosedUp}
    <3> DEFINE it(i) == [id |-> i, q |-> stmts[i], by |-> "server"]
    <3>1. \A i : it(i).id = i
      OBVIOUS
    <3>2. Statements("server", server'.stmts) = {it(i) : i \in DOMAIN stmts \ {m.id}}
      BY <2>5 DEF Statements
    <3>3. Statements("server", stmts) = {it(i) : i \in DOMAIN stmts}
      BY DEF Statements
    <3> HIDE DEF it
    <3> QED BY <2>4, <3>1, <3>2, <3>3
  <2> QED BY <1>1, <1>2, <1>7, <2>2, <2>3, <2>6, SameCurrent DEF Agree
\* It prepares one when there is none.
<1>9. CASE m.t = "prepare"
  <2> DEFINE it == [id |-> server.next, q |-> m.q, by |-> "server"]
  <2>1. PICK r \in Answers : /\ ServerAnswers(m) = <<r>> /\ r.by = "server"
                             /\ r.t = "prepared" /\ r.q = m.q /\ r.id = server.next
    BY <1>3, <1>9, ServerReplies DEF Awaits
  <2>2. /\ net.c2p = << >> /\ net.u2p = << >> /\ net.p2c = << >> /\ net'.u2p = <<r>>
        /\ Prepares(net.p2u) /\ Closes(net.p2u) = {}
    BY <1>5, <1>9, <2>1 DEF Awaits, Prepares, Closes
  <2>3. client.stmts = {}
    BY <1>7, <2>2 DEF NoneOpenWhile
  <2>4. /\ Closes(<< >>) = {} /\ PreparedIn(<< >>) = {} /\ PreparedIn(<<r>>) = {r}
        /\ Kind(<< >>, OfStatement) = {}
    BY <2>1, KindOfOne DEF Closes, PreparedIn
  <2>5. Current = {}
    BY <2>2, <2>3, <2>4 DEF Current
  <2>6. Current' = {it}
    <3>1. Project(r) = it
      BY <2>1 DEF Project
    <3> QED BY <1>1, <1>2, <2>2, <2>3, <2>4, <3>1 DEF Current
  <2>7. ClosedUp = {} /\ ClosedUp' = {}
    BY <1>4, <2>2 DEF ClosedUp, Closes
  <2>8. Statements("server", stmts) = {}
    BY <1>7, <2>5, <2>7
  <2>9. DOMAIN stmts = {}
    BY <2>8 DEF Statements
  <2>10. server'.stmts = Put(stmts, server.next, m.q)
    BY <1>9 DEF ServerHandles
  <2>11. Statements("server", server'.stmts) = {it}
    BY <2>9, <2>10 DEF Statements, Put
  <2>12. NoneOpenWhile' /\ OfCurrent'
    BY <1>1, <1>2, <2>2, <2>3, <2>4 DEF NoneOpenWhile, OfCurrent, ClosingLast
  <2>13. it.by = "server"
    OBVIOUS
  <2> HIDE DEF it
  <2> QED BY <1>1, <1>7, <2>3, <2>5, <2>6, <2>7, <2>11, <2>12, <2>13 DEF Agree
<1>10. CASE m.t \notin {"prepare", "close"}
  <2>1. server' = server
    BY <1>10 DEF ServerHandles
  <2>2. ClosedUp' = ClosedUp
    BY <1>4, <1>10 DEF ClosedUp, Closes
  <2>3. PreparedIn(net'.u2p) = PreparedIn(net.u2p)
    <3>1. CASE Awaits(m)
      <4>1. PICK r \in Answers : ServerAnswers(m) = <<r>> /\ r.t # "prepared"
        BY <1>3, <1>10, <3>1, ServerReplies
      <4> QED BY <1>5, <3>1, <4>1, KindOfOne DEF PreparedIn
    <3> QED BY <1>6, <3>1
  <2>4. Current' = Current
    BY <1>1, <1>2, <2>3 DEF Current
  <2>5. NoneOpenWhile'
    <3>1. Prepares(net'.p2u) => Prepares(net.p2u)
      BY <1>4 DEF Prepares
    <3> QED BY <1>1, <1>2, <1>7, <2>3, <3>1 DEF NoneOpenWhile
  <2> QED BY <1>1, <1>2, <1>7, <2>1, <2>2, <2>4, <2>5, SameCurrent DEF Agree
<1> QED BY <1>8, <1>9, <1>10

\* A driver that keeps one statement prepares none while it has one.
LEMMA KeepsOne ==
  ASSUME OneOpen, Typed, \A s, u \in client.stmts : s = u,
         Cardinality(client.stmts) < config.keep
  PROVE  client.stmts = {}
<1>1. config.keep \in Nat /\ config.keep <= 1
  BY ConfigsAssumption DEF OneOpen, Typed
<1>2. SUFFICES ASSUME NEW s \in client.stmts PROVE FALSE
  OBVIOUS
<1>3. client.stmts = {s}
  OBVIOUS
<1>4. Cardinality(client.stmts) = 1
  BY <1>3, FS_Singleton
<1> QED BY <1>1, <1>4

LEMMA AppendLast ==
  ASSUME NEW T, NEW s \in Seq(T), NEW x \in T, ClosingLast(s),
         x.t \in OfStatement => Closes(s) = {}
  PROVE  ClosingLast(Append(s, x))
<1> DEFINE u == Append(s, x)
<1>1. /\ DOMAIN s = 1..Len(s) /\ Len(s) \in Nat /\ DOMAIN u = 1..(Len(s) + 1)
      /\ u[Len(s) + 1] = x /\ \A k \in 1..Len(s) : u[k] = s[k]
  BY SequenceFacts
<1> HIDE DEF u
<1>2. SUFFICES ASSUME NEW k \in DOMAIN u, NEW l \in DOMAIN u, u[k].t \in OfStatement, u[l].t = "close"
               PROVE  k <= l
  BY DEF ClosingLast, u
<1>3. CASE k \in DOMAIN s /\ l \in DOMAIN s
  BY <1>1, <1>2, <1>3 DEF ClosingLast
<1>4. CASE k \notin DOMAIN s
  <2>1. x.t \in OfStatement
    BY <1>1, <1>2, <1>4
  <2>2. l \notin DOMAIN s
    BY <1>1, <1>2, <2>1 DEF Closes, Kind
  <2> QED BY <1>1, <1>4, <2>2
<1>5. CASE k \in DOMAIN s /\ l \notin DOMAIN s
  BY <1>1, <1>5
<1> QED BY <1>3, <1>4, <1>5

LEMMA SendAgrees ==
  ASSUME OneOpen, Typed, OneLane, Agree, Send
  PROVE  Agree'
<1> DEFINE held == {Project(s) : s \in client.stmts}
<1>1. PICK m \in Asked :
           /\ client.pc = "idle" /\ net.open /\ net' = [net EXCEPT !.c2p = Append(@, m)]
           /\ client' = [pc |-> IF m.t = "quit" THEN "out" ELSE IF Awaits(m) THEN "waiting" ELSE "idle",
                         cmd |-> IF Awaits(m)
                                 THEN [ask |-> m, epoch |-> registry.epoch, transparent |-> transparent]
                                 ELSE client.cmd,
                         stmts |-> IF m.t = "close" THEN client.stmts \ {m.stmt} ELSE client.stmts]
           /\ m.t \in OfStatement => m.stmt \in client.stmts /\ m.id = m.stmt.id
           /\ m.t = "prepare" => Cardinality(client.stmts) < config.keep
  BY SendFacts
<1>2. /\ net'.c2p = Append(net.c2p, m) /\ net'.p2c = net.p2c /\ net'.p2u = net.p2u
      /\ net'.u2p = net.u2p /\ net.c2p \in Seq(Asked) /\ handler' = handler /\ server' = server
  BY <1>1 DEF Send, Typed, NetTyped
<1>3. \A types : Kind(net'.c2p, types) = Kind(net.c2p, types) \cup (IF m.t \in types THEN {m} ELSE {})
  BY <1>2, KindAppend
<1>4. /\ NoneOpenWhile /\ ClosingLast(net.c2p) /\ (\A x \in Kind(net.c2p, OfStatement) : Named(x))
      /\ (\A s, u \in client.stmts : s = u) /\ (\A x, y \in Current : x = y)
  BY DEF Agree, OfCurrent
<1>5. client'.stmts = IF m.t = "close" THEN client.stmts \ {m.stmt} ELSE client.stmts
  BY <1>1
<1>6. m.t \in OfStatement => Closes(net.c2p) = {}
  BY <1>1, <1>4 DEF NoneOpenWhile
<1>7. Current' = Current
  <2> DEFINE closing == {Project(x.stmt) : x \in Closes(net.c2p)}
             back == {Project(r) : r \in PreparedIn(net.u2p) \cup PreparedIn(net.p2c)}
  <2>1. Current = held \cup closing \cup back
    BY DEF Current
  <2>2. Current' = {Project(s) : s \in client'.stmts} \cup {Project(x.stmt) : x \in Closes(net'.c2p)}
                     \cup back
    BY <1>2 DEF Current
  <2>3. CASE m.t = "close"
    <3>1. client'.stmts = {} /\ held = {Project(m.stmt)}
      BY <1>1, <1>4, <1>5, <2>3 DEF OfStatement
    <3>2. Closes(net'.c2p) = {m} /\ Closes(net.c2p) = {}
      BY <1>3, <1>6, <2>3 DEF Closes, OfStatement
    <3> QED BY <2>1, <2>2, <3>1, <3>2
  <2>4. CASE m.t # "close"
    <3>1. client'.stmts = client.stmts /\ Closes(net'.c2p) = Closes(net.c2p)
      BY <1>3, <1>5, <2>4 DEF Closes
    <3> QED BY <2>1, <2>2, <3>1
  <2> QED BY <2>3, <2>4
<1>8. NoneOpenWhile'
  <2>1. m.t = "prepare" => client.stmts = {}
    BY <1>1, <1>4, KeepsOne
  <2>2. m.t = "close" => client'.stmts = {}
    BY <1>1, <1>4, <1>5 DEF OfStatement
  <2>3. client.stmts = {} => client'.stmts = {}
    BY <1>5
  <2>4. /\ Closes(net'.c2p) # {} => Closes(net.c2p) # {} \/ m.t = "close"
        /\ Prepares(net'.c2p) => Prepares(net.c2p) \/ m.t = "prepare"
    BY <1>3 DEF Closes, Prepares
  <2> QED BY <1>2, <1>4, <2>1, <2>2, <2>3, <2>4 DEF NoneOpenWhile
<1>9. OfCurrent'
  <2>1. ClosingLast(net'.c2p)
    BY <1>2, <1>4, <1>6, AppendLast
  <2>2. ASSUME NEW x \in Kind(net'.c2p, OfStatement)
        PROVE  /\ x.id = x.stmt.id /\ Project(x.stmt) \in Current'
               /\ Closes(net'.c2p) = {} => x.stmt \in client'.stmts
    <3>1. Closes(net'.c2p) = {} => Closes(net.c2p) = {} /\ client'.stmts = client.stmts
      BY <1>3, <1>5 DEF Closes
    <3>2. CASE x \in Kind(net.c2p, OfStatement)
      BY <1>4, <1>7, <3>1, <3>2 DEF Named
    <3>3. CASE x = m /\ m.t \in OfStatement
      <4>1. Project(m.stmt) \in Current
        BY <1>1, <3>3 DEF Current
      <4> QED BY <1>1, <1>7, <3>1, <3>3, <4>1
    <3> QED BY <1>3, <2>2, <3>2, <3>3
  <2> QED BY <2>1, <2>2 DEF OfCurrent, Named
<1>10. ClosedUp' = ClosedUp
  BY <1>2 DEF ClosedUp
<1>11. (\A s, u \in client'.stmts : s = u) /\ (\A x, y \in Current' : x = y)
  BY <1>4, <1>5, <1>7
<1> QED BY <1>2, <1>7, <1>8, <1>9, <1>10, <1>11 DEF Agree

LEMMA ReceiveAgrees ==
  ASSUME Typed, OneLane, Agree, Receive
  PROVE  Agree'
<1>1. PICK r \in Answers :
           /\ net.p2c = <<r>> /\ Fitting(r, client) /\ ToDriver
           /\ client.pc \in {"connecting", "waiting"}
           /\ IF r.t = "greeting"
              THEN /\ client.pc = "connecting" /\ client' = client
                   /\ net' = [net EXCEPT !.p2c = << >>, !.c2p = <<Asks("auth", None, 0, None)>>]
              ELSE /\ net' = [net EXCEPT !.p2c = << >>]
                   /\ client' = [pc |-> "idle", cmd |-> None,
                                 stmts |-> IF r.t = "prepared" THEN client.stmts \cup {Holds(r)}
                                           ELSE client.stmts]
           /\ r.t = "prepared" => client.pc = "waiting" /\ Holds(r) \in Open
  BY ReceiveFacts
<1>2. /\ net.c2p = << >> /\ net.u2p = << >> /\ net'.p2c = << >> /\ net'.u2p = << >>
      /\ net'.p2u = net.p2u /\ handler' = handler /\ server' = server
      /\ net'.c2p \in {<< >>, <<Asks("auth", None, 0, None)>>}
  BY <1>1 DEF ToDriver, Receive, Typed, NetTyped
<1>3. /\ Closes(net.c2p) = {} /\ Closes(net'.c2p) = {} /\ Kind(net'.c2p, OfStatement) = {}
      /\ ~Prepares(net'.c2p) /\ PreparedIn(net.u2p) = {} /\ PreparedIn(net'.u2p) = {}
      /\ PreparedIn(net'.p2c) = {} /\ PreparedIn(net.p2c) = IF r.t = "prepared" THEN {r} ELSE {}
  <2>1. Asks("auth", None, 0, None).t = "auth"
    BY DEF Asks
  <2>2. /\ \A types : Kind(<< >>, types) = {}
        /\ \A types : Kind(net.p2c, types) = IF r.t \in types THEN {r} ELSE {}
        /\ \A types : "auth" \notin types => Kind(net'.c2p, types) = {}
    <3>1. \A types, x : Kind(<<x>>, types) = IF x.t \in types THEN {x} ELSE {}
      BY KindOfOne
    <3>2. \A types : Kind(<< >>, types) = {}
      BY KindOfOne
    <3> DEFINE auth == Asks("auth", None, 0, None)
    <3>3. auth.t = "auth" /\ net'.c2p \in {<< >>, <<auth>>} /\ net.p2c = <<r>>
      BY <1>1, <1>2, <2>1
    <3> HIDE DEF auth
    <3>4. \A types : "auth" \notin types => Kind(net'.c2p, types) = {}
      BY <3>1, <3>2, <3>3
    <3> QED BY <3>1, <3>2, <3>3, <3>4
  <2>3. /\ Kind(net'.c2p, {"close"}) = {} /\ Kind(net'.c2p, {"prepare"}) = {}
        /\ Kind(net'.c2p, OfStatement) = {}
    BY <2>2 DEF OfStatement
  <2> QED BY <1>2, <2>2, <2>3 DEF Closes, Prepares, PreparedIn
<1>4. client'.stmts = IF r.t = "prepared" THEN {Holds(r)} ELSE client.stmts
  <2>1. r.t = "prepared" => client.stmts = {}
    BY <1>3 DEF Agree, NoneOpenWhile
  <2>2. r.t = "greeting" => client'.stmts = client.stmts
    BY <1>1
  <2>3. r.t # "greeting" =>
          client'.stmts = IF r.t = "prepared" THEN client.stmts \cup {Holds(r)} ELSE client.stmts
    BY <1>1
  <2> QED BY <2>1, <2>2, <2>3
<1>5. Current' = Current
  <2>1. r.t = "prepared" => Project(Holds(r)) = Project(r)
    BY <1>1 DEF Project, Holds, Fitting
  <2>2. r.t = "prepared" => client.stmts = {}
    BY <1>3 DEF Agree, NoneOpenWhile
  <2> QED BY <1>3, <1>4, <2>1, <2>2 DEF Current
<1>6. NoneOpenWhile'
  <2>1. Prepares(net.p2u) => r.t # "prepared"
    BY <1>1, KindFacts DEF ToDriver, Silent, Prepares, Kind, Awaits
  <2>2. Prepares(net.p2u) => client.stmts = {}
    BY DEF Agree, NoneOpenWhile
  <2> QED BY <1>2, <1>3, <1>4, <2>1, <2>2 DEF NoneOpenWhile
<1>7. OfCurrent'
  <2>1. ClosingLast(net'.c2p)
    BY <1>3 DEF ClosingLast, Kind
  <2> QED BY <1>3, <2>1 DEF OfCurrent
<1>8. ClosedUp' = ClosedUp
  BY <1>2 DEF ClosedUp
<1>9. (\A s, u \in client'.stmts : s = u) /\ (\A x, y \in Current' : x = y)
  BY <1>4, <1>5 DEF Agree
<1> QED BY <1>2, <1>5, <1>6, <1>7, <1>8, <1>9 DEF Agree

LEMMA RelayAgrees ==
  ASSUME Typed, OneLane, Agree, Relay
  PROVE  Agree'
<1>1. /\ net.u2p # << >> /\ net.open /\ client' = client /\ handler' = handler /\ server' = server
      /\ net'.c2p = net.c2p /\ net'.p2u = net.p2u /\ net'.u2p = Tail(net.u2p)
      /\ net'.p2c = Append(net.p2c, Head(net.u2p))
  BY DEF Relay, Typed, NetTyped
<1>2. Underway /\ ToRelay
  BY <1>1 DEF OneLane, InHand, Underway, ToProxy, ToServer, ToDriver, Lost
<1>3. net.u2p \in Seq(Answers) /\ Len(net.u2p) = 1 /\ net.p2c = << >>
  BY <1>2 DEF ToRelay, Typed, NetTyped
<1>4. Tail(net.u2p) = << >> /\ net.u2p = <<Head(net.u2p)>>
  BY <1>3, SingletonFacts
<1>5. net'.u2p = << >> /\ net'.p2c = net.u2p
  BY <1>1, <1>3, <1>4
<1>6. PreparedIn(<< >>) = {}
  BY KindOfOne DEF PreparedIn
<1>7. Current' = Current
  BY <1>1, <1>3, <1>5, <1>6 DEF Current
<1>8. NoneOpenWhile' /\ ClosedUp' = ClosedUp
  BY <1>1, <1>3, <1>5, <1>6 DEF Agree, NoneOpenWhile, ClosedUp
<1> QED BY <1>1, <1>7, <1>8, SameCurrent DEF Agree

LEMMA DialAgrees ==
  ASSUME Typed, Fresh, Dial
  PROVE  Agree'
<1>1. /\ net'.c2p = << >> /\ net'.p2c = << >> /\ net'.p2u = << >> /\ client'.stmts = {}
      /\ net'.u2p = <<[t |-> "greeting", q |-> None, id |-> 0, by |-> "server"]>>
      /\ handler'.preparedStmts = Nothing /\ server'.stmts = Nothing
  BY DEF Dial, Fresh, Typed, NetTyped, ClientTyped, HandlerOK
<1>2. PreparedIn(net'.u2p) = {}
  BY <1>1, KindOfOne DEF PreparedIn
<1>3. /\ PreparedIn(<< >>) = {} /\ Closes(<< >>) = {} /\ ~Prepares(<< >>)
      /\ Kind(<< >>, OfStatement) = {} /\ ClosingLast(<< >>)
  BY KindOfOne DEF PreparedIn, Closes, Prepares, ClosingLast
<1>4. Current' = {}
  BY <1>1, <1>2, <1>3 DEF Current
<1>5. \A by : Statements(by, Nothing) = {}
  BY DEF Statements, Nothing
<1> QED BY <1>1, <1>2, <1>3, <1>4, <1>5 DEF Agree, NoneOpenWhile, OfCurrent

LEMMA AgreementKept ==
  ASSUME OneOpen, Typed, Fresh, OneLane, Agrees, [Next]_vars
  PROVE  Agrees'
<1> SUFFICES ASSUME Living' PROVE Agree'
  BY DEF Agrees
<1>1. CASE Dial
  BY <1>1, DialAgrees
<1>2. ~(DialFails \/ HandlerReturns \/ RelayEnds \/ ServerDies \/ Leave)
  BY DEF Living, DialFails, HandlerReturns, RelayEnds, ServerDies, Leave, Typed, NetTyped, HandlerOK
<1>3. CASE Handler
  <2>1. PICK h, out, up, reg : Serves(h, out, up, reg) /\ Decides(h, out, up, reg)
    BY <1>2, <1>3, HandlerServes
  <2>2. Living
    BY <2>1, HandledNet DEF Serves, Living
  <2> QED BY <2>1, <2>2, HandlerAgrees DEF Agrees
<1>4. CASE Relay \/ ServerHandles \/ Send \/ Receive \/ Reload \/ TransparentEnds \/ UNCHANGED vars
  <2>1. handler' = handler /\ net'.open = net.open /\ net'.uopen = net.uopen
    BY <1>4, SendFacts DEF Relay, ServerHandles, Send, Receive, Reload, TransparentEnds, vars, Typed, NetTyped
  <2>2. Living /\ Agree
    BY <2>1 DEF Living, Agrees
  <2>3. CASE Reload \/ TransparentEnds \/ UNCHANGED vars
    BY <2>2, <2>3 DEF Reload, TransparentEnds, vars, Agree, NoneOpenWhile, OfCurrent, Named, Current,
                      ClosedUp, Closes, PreparedIn, Prepares
  <2> QED BY <1>4, <2>2, <2>3, RelayAgrees, ServerAgrees, SendAgrees, ReceiveAgrees
<1> QED BY <1>1, <1>2, <1>3, <1>4 DEF Next

LEMMA EmptyParts ==
  ASSUME NEW T, NEW s \in Seq(T), NEW u \in Seq(T), s \o u = << >>
  PROVE  s = << >> /\ u = << >>
<1>1. Len(s) + Len(u) = 0 /\ Len(s) \in Nat /\ Len(u) \in Nat
  BY ConcatProperties, SequenceFacts
<1> QED BY <1>1, SequenceFacts

LEMMA AgreementIsEnough == Typed /\ Agrees => StatementsAgree
<1> SUFFICES ASSUME Typed, Agrees, Quiet
             PROVE  {[id |-> s.id, q |-> s.q, by |-> s.by] : s \in client.stmts}
                      = Statements("proxy", handler.preparedStmts) \cup Statements("server", server.stmts)
  BY DEF StatementsAgree
<1>1. Agree
  BY DEF Quiet, Agrees
<1>2. net.c2p = << >> /\ net.p2u = << >> /\ net.u2p = << >> /\ net.p2c = << >>
  <2> DEFINE T == Asked \cup Answers
  <2>1. net.c2p \in Seq(T) /\ net.p2u \in Seq(T) /\ net.u2p \in Seq(T) /\ net.p2c \in Seq(T)
    BY DEF Typed, NetTyped
  <2> HIDE DEF T
  <2>2. net.c2p \o net.p2u \in Seq(T) /\ (net.c2p \o net.p2u) \o net.u2p \in Seq(T)
    BY <2>1, ConcatProperties
  <2>3. ((net.c2p \o net.p2u) \o net.u2p) \o net.p2c = << >>
    BY DEF Quiet
  <2>4. (net.c2p \o net.p2u) \o net.u2p = << >> /\ net.p2c = << >>
    BY <2>1, <2>2, <2>3, EmptyParts
  <2>5. net.c2p \o net.p2u = << >> /\ net.u2p = << >>
    BY <2>1, <2>2, <2>4, EmptyParts
  <2> QED BY <2>1, <2>4, <2>5, EmptyParts
<1>3. Current = {Project(s) : s \in client.stmts} /\ ClosedUp = {}
  BY <1>2, KindOfOne DEF Current, ClosedUp, Closes, PreparedIn
<1>4. \A x \in Current : x.by \in {"proxy", "server"}
  BY <1>3 DEF Typed, ClientTyped, Open, Project
<1>5. Current = {x \in Current : x.by = "proxy"} \cup {x \in Current : x.by = "server"}
  BY <1>4
<1>6. Current = Statements("proxy", handler.preparedStmts) \cup Statements("server", server.stmts)
  BY <1>1, <1>3, <1>5 DEF Agree
<1> QED BY <1>3, <1>6 DEF Project

(***************************************************************************)
(* For a driver that closes a statement before it prepares another, any    *)
(* registries and any interleaving: when nothing is under way, what the    *)
(* driver has open is what the handler made up and what the server knows.  *)
(***************************************************************************)
THEOREM StatementsAlwaysAgree == ASSUME OneOpen PROVE Spec => []StatementsAgree
<1>1. Init => Typed /\ Fresh /\ OneLane /\ Agrees
  <2>1. Init => Agrees
    BY DEF Init, Agrees, Living
  <2> QED BY <2>1, ConnectionStarts
<1>2. Typed /\ Fresh /\ OneLane /\ Agrees /\ [Next]_vars => (Typed /\ Fresh /\ OneLane /\ Agrees)'
  BY ConnectionRuns, FreshKept, LaneKept, AgreementKept
<1>3. Typed /\ Agrees => StatementsAgree
  BY AgreementIsEnough
<1> QED BY <1>1, <1>2, <1>3, PTL DEF Spec

-----------------------------------------------------------------------------
(***************************************************************************)
(* No EXPECT is passed by.                                                 *)
(***************************************************************************)
SameEpoch ==
  \/ registry'.spent = registry.spent /\ registry'.epoch = registry.epoch
  \/ \E q \in Queries : findMock(q) /\ registry' = Hit(q)

LEMMA SpendFacts ==
  ASSUME Typed, config' = config, SameEpoch, InBounds
  PROVE  /\ registry'.epoch = registry.epoch /\ InBounds'
         /\ \A p : Exhausted(p) => Exhausted(p)'
<1>1. registry'.epoch = registry.epoch
  BY DEF SameEpoch, Hit, Typed, RegistryOK
<1>2. \A p : Expected(p)' = Expected(p)
  BY <1>1 DEF Expected
<1>3. CASE registry'.spent = registry.spent
  <2>1. \A p : Spent(p)' = Spent(p)
    BY <1>3 DEF Spent
  <2> QED BY <1>1, <1>2, <2>1 DEF InBounds, Exhausted
<1>4. ASSUME NEW q \in Queries, findMock(q), registry' = Hit(q)
      PROVE  InBounds' /\ \A p : Exhausted(p) => Exhausted(p)'
  <2>1. registry'.spent = Put(registry.spent, q, Spent(q) + 1)
    BY <1>4 DEF Hit, Typed, RegistryOK
  <2>2. \A p : Spent(p)' = IF p = q THEN Spent(q) + 1 ELSE Spent(p)
    BY <2>1 DEF Spent, Put
  <2>3. Spent(q) + 1 <= Len(Expected(q)) /\ ~Exhausted(q)
    BY <1>4, RegistryFacts DEF findMock, Exhausted
  <2> QED BY <1>2, <2>2, <2>3 DEF InBounds, Exhausted
<1> QED BY <1>1, <1>3, <1>4 DEF SameEpoch

LEMMA OwedStays ==
  ASSUME Typed, InBounds, config' = config, SameEpoch \/ Reload,
         NEW q, NEW e \in Nat, NEW transp, e <= registry.epoch
  PROVE  e <= registry'.epoch /\ (Owed(q, e, transp) => Owed(q, e, transp)')
<1>1. registry.epoch \in Nat
  BY ConfigsAssumption DEF Typed, RegistryOK
<1>2. CASE SameEpoch
  BY <1>2, SpendFacts DEF Owed
<1>3. CASE Reload
  <2>1. registry'.epoch = registry.epoch + 1
    BY <1>3 DEF Reload
  <2> QED BY <1>1, <2>1 DEF Owed
<1> QED BY <1>2, <1>3

LEMMA OwedStatementsStay ==
  ASSUME Typed, InBounds, OwedStatements, config' = config, SameEpoch \/ Reload,
         client'.stmts \subseteq client.stmts
  PROVE  OwedStatements'
<1>1. \A s \in client.stmts : s.epoch \in Nat
  BY DEF Typed, ClientTyped, Open
<1>2. ASSUME NEW s \in client'.stmts
      PROVE  s.epoch <= registry'.epoch /\ (s.by = "server" => Owed(s.q, s.epoch, s.transparent)')
  BY <1>1, <1>2, OwedStays DEF OwedStatements
<1> QED BY <1>2 DEF OwedStatements, Owed, Exhausted, Spent, Expected

LEMMA OwedAnswerStays ==
  ASSUME Typed, InBounds, OwedAnswer, config' = config, SameEpoch \/ Reload, client' = client,
         transparent' => transparent, WentUp' => WentUp
  PROVE  OwedAnswer'
<1>1. SUFFICES ASSUME client.pc = "waiting"
               PROVE  /\ client.cmd.epoch <= registry'.epoch /\ (transparent' => client.cmd.transparent)
                      /\ WentUp' => Owed(client.cmd.ask.q, client.cmd.epoch, client.cmd.transparent)'
  BY DEF OwedAnswer
<1>2. client.cmd.epoch \in Nat
  BY <1>1 DEF Typed, ClientTyped, Pending
<1> QED BY <1>1, <1>2, OwedStays DEF OwedAnswer

LEMMA HandlerPasses ==
  ASSUME Typed, OneLane, NonePassedBy,
         NEW h, NEW out, NEW up, NEW reg, Serves(h, out, up, reg), Decides(h, out, up, reg)
  PROVE  NonePassedBy'
<1> DEFINE m == Command
<1>1. /\ net.p2u \in Seq(Asked) /\ net.p2c \in Seq(Answers) /\ net.c2p # << >> /\ net.open
      /\ m \in Asked /\ config' = config /\ client' = client /\ transparent' = transparent
      /\ registry' = reg /\ up \in {<< >>, <<m>>}
  BY CommandTyped DEF Typed, NetTyped, Serves, Handled
<1>2. SameEpoch
  BY <1>1 DEF Decides, SameEpoch
<1>3. InBounds' /\ OwedStatements'
  BY <1>1, <1>2, SpendFacts, OwedStatementsStay DEF NonePassedBy
<1>4. /\ net.u2p = << >> /\ net.p2c = << >> /\ Silent(net.p2u)
      /\ net'.u2p = << >> /\ net'.p2c = out
      /\ net'.p2u \in {net.p2u, Append(net.p2u, m)}
      /\ net'.p2u # net.p2u => up # << >>
  <2>1. net.u2p = << >> /\ net.p2c = << >> /\ Silent(net.p2u)
    BY <1>1, BeforeHandler
  <2>2. << >> \o out = out
    BY SingletonFacts DEF Serves, Replied
  <2>3. net.p2u \o << >> = net.p2u /\ net.p2u \o <<m>> = Append(net.p2u, m)
    BY <1>1, SequenceFacts
  <2> QED BY <1>1, <2>1, <2>2, <2>3, HandledNet DEF Serves
<1>5. CASE WentUp' => WentUp
  BY <1>1, <1>2, <1>3, <1>5, OwedAnswerStays DEF NonePassedBy
<1>6. CASE WentUp' /\ ~WentUp
  <2>1. \A r \in PreparedIn(out) : r.by = "proxy"
    <3>1. out = << >> \/ \E r \in Answers : out = <<r>> /\ r.by = "proxy"
      BY DEF Serves, Replied
    <3>2. /\ Kind(<< >>, {"prepared"}) = {}
          /\ \A r : Kind(<<r>>, {"prepared"}) \subseteq {r}
      BY KindOfOne
    <3> QED BY <3>1, <3>2 DEF PreparedIn
  <2>2. PreparedIn(<< >>) = {}
    BY KindOfOne DEF PreparedIn
  <2>3. Prepares(net'.p2u) /\ ~Prepares(net.p2u)
    BY <1>4, <1>6, <2>1, <2>2 DEF WentUp
  <2>4. m.t = "prepare" /\ up # << >>
    <3>1. net'.p2u = Append(net.p2u, m)
      BY <1>4, <2>3
    <3>2. Kind(net'.p2u, {"prepare"})
            = Kind(net.p2u, {"prepare"}) \cup (IF m.t \in {"prepare"} THEN {m} ELSE {})
      BY <1>1, <3>1, KindAppend
    <3> QED BY <1>4, <2>3, <3>2 DEF Prepares
  <2>5. PICK q \in Queries : q = m.q
    BY <1>1, <2>4, CommandTyped
  <2>6. ~transparent /\ ~isWhitelisted(q) => ~findMock(q)
    BY <2>4, <2>5 DEF Decides, isTransparent
  <2>7. ~findMock(q) => Exhausted(q)
    <3>1. Spent(q) \in Nat /\ Len(Expected(q)) \in Nat
      BY RegistryFacts
    <3>2. Spent(q) <= Len(Expected(q))
      BY DEF NonePassedBy, InBounds
    <3> QED BY <3>1, <3>2 DEF findMock, Exhausted
  <2>8. client.pc = "waiting" => q = client.cmd.ask.q
    BY <1>1, <2>4, <2>5, BeforeHandler DEF Carried, Awaits
  <2>9. (Exhausted(q) => Exhausted(q)') /\ registry'.epoch = registry.epoch
    BY <1>1, <1>2, SpendFacts DEF NonePassedBy
  <2>10. ~transparent /\ ~isWhitelisted(q) => Exhausted(q)'
    BY <2>6, <2>7, <2>9
  <2>11. OwedAnswer'
    <3>1. SUFFICES ASSUME client.pc = "waiting"
                   PROVE  /\ client.cmd.epoch <= registry'.epoch
                          /\ transparent => client.cmd.transparent
                          /\ Owed(q, client.cmd.epoch, client.cmd.transparent)'
      BY <1>1, <2>8 DEF OwedAnswer
    <3>2. client.cmd.epoch <= registry.epoch /\ (transparent => client.cmd.transparent)
      BY <3>1 DEF NonePassedBy, OwedAnswer
    <3>3. Owed(q, client.cmd.epoch, client.cmd.transparent)'
      BY <1>1, <2>10, <3>2 DEF Owed
    <3> QED BY <2>9, <3>2, <3>3
  <2> QED BY <1>3, <2>11 DEF NonePassedBy
<1> QED BY <1>5, <1>6

LEMMA NonePassedKept ==
  ASSUME Typed, Fresh, OneLane, NonePassedBy, [Next]_vars
  PROVE  NonePassedBy'
<1>1. ASSUME config' = config, SameEpoch \/ Reload, client' = client, transparent' => transparent,
             WentUp' => WentUp
      PROVE  NonePassedBy'
  <2>1. InBounds'
    <3>1. CASE Reload
      <4>1. \A q : Spent(q)' = 0
        BY <3>1 DEF Reload, Spent, Nothing
      <4>2. \A q \in Queries : Len(Expected(q)') \in Nat
        <5>1. RegistryOK(registry)'
          BY <1>1, ConnectionRuns DEF Typed
        <5>2. \A q : Expected(q)' \in Seq(Replies)
          <6>1. << >> \in Seq(Replies)
            OBVIOUS
          <6> QED BY <1>1, <5>1, <6>1, ConfigsAssumption DEF Typed, RegistryOK, Expected
        <5> QED BY <5>2
      <4> QED BY <4>1, <4>2 DEF InBounds
    <3>2. CASE SameEpoch
      BY <1>1, <3>2, SpendFacts DEF NonePassedBy
    <3> QED BY <1>1, <3>1, <3>2
  <2> QED BY <1>1, <2>1, OwedStatementsStay, OwedAnswerStays DEF NonePassedBy
<1>2. registry' = registry => SameEpoch
  BY DEF SameEpoch
<1>3. CASE Dial
  <2>1. client.pc = "connecting" /\ client' = client
    BY <1>3 DEF Dial, Fresh
  <2>2. InBounds' /\ OwedStatements'
    BY <1>2, <1>3, SpendFacts, OwedStatementsStay DEF Dial, NonePassedBy
  <2> QED BY <2>1, <2>2 DEF NonePassedBy, OwedAnswer
<1>4. CASE DialFails \/ HandlerReturns \/ RelayEnds
  <2>1. WentUp' = WentUp
    BY <1>4 DEF DialFails, HandlerReturns, RelayEnds, Typed, NetTyped, WentUp, Prepares, PreparedIn
  <2> QED BY <1>1, <1>2, <1>4, <2>1 DEF DialFails, HandlerReturns, RelayEnds
<1>5. CASE Handler
  BY <1>4, <1>5, HandlerServes, HandlerPasses
<1>6. CASE Relay
  <2>1. /\ net.u2p # << >> /\ net.open /\ net'.p2u = net.p2u /\ net'.u2p = Tail(net.u2p)
        /\ net'.p2c = Append(net.p2c, Head(net.u2p))
    BY <1>6 DEF Relay, Typed, NetTyped
  <2>2. ToRelay
    BY <2>1 DEF OneLane, InHand, Underway, ToProxy, ToServer, ToDriver, Lost
  <2>3. net.u2p \in Seq(Answers) /\ Len(net.u2p) = 1 /\ net.p2c = << >>
    BY <2>2 DEF ToRelay, Typed, NetTyped
  <2>4. Tail(net.u2p) = << >> /\ net.u2p = <<Head(net.u2p)>>
    BY <2>3, SingletonFacts
  <2>5. net'.u2p = << >> /\ net'.p2c = net.u2p
    BY <2>1, <2>3, <2>4
  <2>6. WentUp' => WentUp
    BY <2>1, <2>5, KindOfOne DEF WentUp, PreparedIn, Prepares
  <2> QED BY <1>1, <1>2, <1>6, <2>6 DEF Relay
<1>7. CASE ServerHandles
  <2> DEFINE m == Head(net.p2u)
  <2>1. /\ net.p2u \in Seq(Asked) /\ net.u2p \in Seq(Answers) /\ net.p2u # << >>
        /\ net'.p2u = Tail(net.p2u) /\ net'.u2p = net.u2p \o ServerAnswers(m) /\ net'.p2c = net.p2c
    BY <1>7 DEF ServerHandles, Typed, NetTyped
  <2>2. m \in Asked /\ m.t # "quit"
    <3>1. m = net.p2u[1] /\ 1 \in DOMAIN net.p2u
      BY <2>1, SequenceFacts
    <3> QED BY <2>1, <3>1, SequenceFacts DEF Typed, NetTyped
  <2>3. Kind(net.p2u, {"prepare"}) = Kind(net'.p2u, {"prepare"})
                                      \cup (IF m.t \in {"prepare"} THEN {m} ELSE {})
    BY <2>1, KindTail
  <2>4. CASE m.t = "prepare"
    <3>1. WentUp
      BY <2>3, <2>4 DEF WentUp, Prepares
    <3> QED BY <1>1, <1>2, <1>7, <3>1 DEF ServerHandles
  <2>5. CASE m.t # "prepare"
    <3>1. PreparedIn(net'.u2p) = PreparedIn(net.u2p)
      <4>1. CASE Awaits(m)
        <5>1. PICK r \in Answers : ServerAnswers(m) = <<r>> /\ r.t # "prepared"
          BY <2>2, <2>5, <4>1, ServerReplies
        <5>2. net'.u2p = Append(net.u2p, r)
          <6>1. net.u2p \o <<r>> = Append(net.u2p, r)
            BY <2>1, SequenceFacts
          <6> QED BY <2>1, <5>1, <6>1
        <5>3. Kind(Append(net.u2p, r), {"prepared"})
                = Kind(net.u2p, {"prepared"}) \cup (IF r.t \in {"prepared"} THEN {r} ELSE {})
          BY <2>1, KindAppend
        <5> QED BY <5>1, <5>2, <5>3 DEF PreparedIn
      <4>2. CASE ~Awaits(m)
        <5>1. net.u2p \o << >> = net.u2p
          BY <2>1, SequenceFacts
        <5> QED BY <2>1, <2>2, <4>2, <5>1, ServerReplies
      <4> QED BY <4>1, <4>2
    <3>2. WentUp' => WentUp
      BY <2>1, <2>3, <3>1 DEF WentUp, Prepares
    <3> QED BY <1>1, <1>2, <1>7, <3>2 DEF ServerHandles
  <2> QED BY <2>4, <2>5
<1>8. CASE ServerDies
  <2>1. /\ net'.p2u = << >> /\ net'.u2p \in {<< >>, net.u2p} /\ net'.p2c = net.p2c
    BY <1>8 DEF ServerDies, Typed, NetTyped
  <2>2. WentUp' => WentUp
    BY <2>1, KindOfOne DEF WentUp, Prepares, PreparedIn
  <2> QED BY <1>1, <1>2, <1>8, <2>2 DEF ServerDies
<1>9. CASE Send
  <2>1. PICK m \in Asked :
           /\ client.pc = "idle" /\ net.open /\ net' = [net EXCEPT !.c2p = Append(@, m)]
           /\ client' = [pc |-> IF m.t = "quit" THEN "out" ELSE IF Awaits(m) THEN "waiting" ELSE "idle",
                         cmd |-> IF Awaits(m)
                                 THEN [ask |-> m, epoch |-> registry.epoch, transparent |-> transparent]
                                 ELSE client.cmd,
                         stmts |-> IF m.t = "close" THEN client.stmts \ {m.stmt} ELSE client.stmts]
    BY <1>9, SendFacts
  <2>2. /\ net'.p2c = net.p2c /\ net'.p2u = net.p2u /\ net'.u2p = net.u2p
        /\ registry' = registry /\ config' = config /\ transparent' = transparent
    BY <1>9, <2>1 DEF Send, Typed, NetTyped
  <2>3. client'.stmts \subseteq client.stmts
    BY <2>1
  <2>4. InBounds' /\ OwedStatements'
    BY <1>2, <2>2, <2>3, SpendFacts, OwedStatementsStay DEF NonePassedBy
  <2>5. ~WentUp'
    <3>1. InHand
      BY <2>1 DEF OneLane, Underway, Lost
    <3>2. ~Prepares(net.p2u)
      BY <3>1 DEF InHand, Silent, Prepares, Kind, Awaits
    <3> QED BY <2>2, <3>1, <3>2, KindOfOne DEF WentUp, PreparedIn, InHand
  <2>6. client'.pc = "waiting" => client'.cmd.epoch = registry.epoch /\ client'.cmd.transparent = transparent
    BY <2>1
  <2>7. registry.epoch \in Nat
    BY ConfigsAssumption DEF Typed, RegistryOK
  <2>8. OwedAnswer'
    BY <2>2, <2>5, <2>6, <2>7 DEF OwedAnswer
  <2> QED BY <2>4, <2>8 DEF NonePassedBy
<1>10. CASE Receive
  <2>1. PICK r \in Answers :
           /\ net.p2c = <<r>> /\ Fitting(r, client) /\ ToDriver
           /\ client.pc \in {"connecting", "waiting"}
           /\ IF r.t = "greeting"
              THEN /\ client.pc = "connecting" /\ client' = client
                   /\ net' = [net EXCEPT !.p2c = << >>, !.c2p = <<Asks("auth", None, 0, None)>>]
              ELSE /\ net' = [net EXCEPT !.p2c = << >>]
                   /\ client' = [pc |-> "idle", cmd |-> None,
                                 stmts |-> IF r.t = "prepared" THEN client.stmts \cup {Holds(r)}
                                           ELSE client.stmts]
           /\ r.t = "prepared" => client.pc = "waiting" /\ Holds(r) \in Open
    BY <1>10, ReceiveFacts
  <2>2. registry' = registry /\ config' = config
    BY <1>10 DEF Receive
  <2>3. InBounds'
    BY <1>2, <2>2, SpendFacts DEF NonePassedBy
  <2>4. /\ client'.pc # "waiting"
        /\ \/ client'.stmts = client.stmts
           \/ r.t = "prepared" /\ client'.stmts = client.stmts \cup {Holds(r)}
    <3>1. CASE r.t = "greeting"
      BY <2>1, <3>1
    <3>2. CASE r.t # "greeting"
      <4>1. /\ client'.pc = "idle"
            /\ client'.stmts = IF r.t = "prepared" THEN client.stmts \cup {Holds(r)} ELSE client.stmts
        BY <2>1, <3>2
      <4> QED BY <4>1
    <3> QED BY <3>1, <3>2
  <2>5. OwedStatements'
    <3>1. CASE client'.stmts = client.stmts
      BY <1>2, <2>2, <3>1, OwedStatementsStay DEF NonePassedBy
    <3>2. CASE r.t = "prepared" /\ client'.stmts = client.stmts \cup {Holds(r)}
      <4>1. /\ Holds(r).epoch = client.cmd.epoch /\ Holds(r).transparent = client.cmd.transparent
            /\ Holds(r).q = client.cmd.ask.q /\ Holds(r).by = r.by
        BY DEF Holds
      <4>2. r.by = "server" => WentUp
        <5>1. PreparedIn(net.p2c) = {r}
          BY <2>1, <3>2, KindOfOne DEF PreparedIn
        <5> QED BY <5>1 DEF WentUp
      <4>3. /\ Holds(r).epoch <= registry.epoch
            /\ Holds(r).by = "server" => Owed(Holds(r).q, Holds(r).epoch, Holds(r).transparent)
        BY <2>1, <3>2, <4>1, <4>2 DEF NonePassedBy, OwedAnswer
      <4>4. \A q, e, t : Owed(q, e, t)' <=> Owed(q, e, t)
        BY <2>2 DEF Owed, Exhausted, Spent, Expected
      <4>5. ASSUME NEW s \in client'.stmts
            PROVE  s.epoch <= registry'.epoch /\ (s.by = "server" => Owed(s.q, s.epoch, s.transparent)')
        BY <2>2, <3>2, <4>3, <4>4, <4>5 DEF NonePassedBy, OwedStatements
      <4> QED BY <4>5 DEF OwedStatements, Owed, Exhausted, Spent, Expected
    <3> QED BY <2>4, <3>1, <3>2
  <2> QED BY <2>3, <2>4, <2>5 DEF NonePassedBy, OwedAnswer
<1>11. CASE Leave
  <2>1. client'.stmts = client.stmts /\ client'.pc = "out"
    BY <1>11 DEF Leave, Typed, ClientTyped
  <2>2. InBounds' /\ OwedStatements'
    BY <1>2, <1>11, <2>1, SpendFacts, OwedStatementsStay DEF Leave, NonePassedBy
  <2> QED BY <2>1, <2>2 DEF NonePassedBy, OwedAnswer
<1>12. CASE Reload \/ TransparentEnds \/ UNCHANGED vars
  <2>1. WentUp' = WentUp
    BY <1>12 DEF Reload, TransparentEnds, vars, WentUp, Prepares, PreparedIn
  <2> QED BY <1>1, <1>2, <1>12, <2>1 DEF Reload, TransparentEnds, vars
<1> QED BY <1>3, <1>4, <1>5, <1>6, <1>7, <1>8, <1>9, <1>10, <1>11, <1>12 DEF Next

LEMMA ForwardsSound ==
  ASSUME Typed, OneLane, Agrees, NonePassedBy, [Next]_vars
  PROVE  ForwardsUnexpected
<1> DEFINE m == Command
<1>1. SUFFICES ASSUME Len(net'.p2u) > Len(net.p2u), m.t \in {"query", "execute"},
                      ~isTransparent, Decided(m), ~isWhitelisted(Means(m))
               PROVE  Spent(Means(m)) = Len(Expected(Means(m)))
  BY DEF ForwardsUnexpected
<1>2. net.p2u \in Seq(Asked) /\ Len(net.p2u) \in Nat
  BY SequenceFacts DEF Typed, NetTyped
<1>3. net'.p2u # net.p2u
  BY <1>1, <1>2
<1>4. Handler /\ ~HandlerReturns
  <2>1. ~ServerHandles
    <3>1. ServerHandles => Len(net'.p2u) = Len(net.p2u) - 1
      BY <1>2, SequenceFacts DEF ServerHandles, Typed, NetTyped
    <3> QED BY <1>1, <1>2, <3>1
  <2>2. ~ServerDies
    <3>1. ServerDies => net'.p2u = << >>
      BY DEF ServerDies, Typed, NetTyped
    <3> QED BY <1>1, <1>2, <3>1
  <2>3. ~Send /\ ~Receive
    BY <1>3, SendFacts, ReceiveFacts DEF Typed, NetTyped
  <2>4. ~(Dial \/ DialFails \/ HandlerReturns \/ Relay \/ RelayEnds \/ Leave \/ Reload
            \/ TransparentEnds \/ UNCHANGED vars)
    BY <1>3 DEF Dial, DialFails, HandlerReturns, Relay, RelayEnds, Leave, Reload, TransparentEnds, vars,
                Typed, NetTyped
  <2> QED BY <2>1, <2>2, <2>3, <2>4 DEF Next
<1>5. PICK h, out, up, reg : Serves(h, out, up, reg) /\ Decides(h, out, up, reg)
  BY <1>4, HandlerServes
<1>6. net.uopen /\ up # << >> /\ net.c2p # << >> /\ net.open /\ handler.pc = "loop" /\ m \in Asked
  <2>1. net.p2u \o << >> = net.p2u
    BY <1>2, SequenceFacts
  <2>2. net'.p2u = IF net.uopen THEN net.p2u \o up ELSE net.p2u
    BY <1>5, HandledNet DEF Serves
  <2> QED BY <1>3, <1>5, <2>1, <2>2, CommandTyped DEF Serves
<1>7. CASE m.t = "query"
  <2>1. m.q \in Queries /\ Means(m) = m.q
    BY <1>6, <1>7, CommandTyped DEF Means
  <2>2. ~findMock(m.q)
    BY <1>1, <1>5, <1>6, <1>7, <2>1 DEF Decides
  <2>3. Spent(m.q) <= Len(Expected(m.q))
    BY <2>1 DEF NonePassedBy, InBounds
  <2> QED BY <2>1, <2>2, <2>3, RegistryFacts DEF findMock
<1>8. CASE m.t = "execute"
  <2> DEFINE s == m.stmt
  <2>1. Living /\ Agree
    BY <1>6 DEF Living, Agrees
  <2>2. \A types : Kind(net.c2p, types) = IF m.t \in types THEN {m} ELSE {}
    BY <1>6, <1>8, BeforeHandler DEF Awaits
  <2>3. Closes(net.c2p) = {} /\ m \in Kind(net.c2p, OfStatement)
    BY <1>8, <2>2 DEF Closes, OfStatement
  <2>4. s \in client.stmts /\ m.id = s.id /\ Project(s) \in Current
    BY <2>1, <2>3 DEF Agree, OfCurrent, Named
  <2>5. s \in Open
    BY <2>4 DEF Typed, ClientTyped
  <2>6. ~Synthetic
    BY <1>5, <1>6, <1>8 DEF Decides, OfStatement
  <2>7. s.by = "server"
    <3>1. ASSUME s.by = "proxy" PROVE m.id \in DOMAIN handler.preparedStmts
      <4>1. Project(s).by = "proxy" /\ Project(s).id = m.id
        BY <2>4, <3>1 DEF Project
      <4>2. Project(s) \in Statements("proxy", handler.preparedStmts)
        BY <2>1, <2>4, <4>1 DEF Agree
      <4>3. PICK i \in DOMAIN handler.preparedStmts :
              Project(s) = [id |-> i, q |-> handler.preparedStmts[i], by |-> "proxy"]
        BY <4>2 DEF Statements
      <4>4. Project(s).id = i
        BY <4>3
      <4> QED BY <4>1, <4>4
    <3> QED BY <2>5, <2>6, <3>1 DEF Open, Synthetic
  <2>8. Owed(s.q, s.epoch, s.transparent)
    BY <2>4, <2>7 DEF NonePassedBy, OwedStatements
  <2> QED BY <1>1, <1>8, <2>8 DEF Decided, Means, Owed, Exhausted
<1> QED BY <1>1, <1>7, <1>8

(***************************************************************************)
(* For such a driver, any registries and any interleaving with a reload of *)
(* them or the end of transparency: a query, or the execution of a         *)
(* statement prepared under the same registry, goes to the server only     *)
(* with its EXPECTs all spent.                                             *)
(***************************************************************************)
THEOREM NoExpectEverMissed == ASSUME OneOpen PROVE Spec => NoExpectMissed
<1> DEFINE IInv == Typed /\ Fresh /\ OneLane /\ Agrees /\ NonePassedBy
<1>1. Init => IInv
  <2>1. Init => Agrees
    BY DEF Init, Agrees, Living
  <2>2. Init => NonePassedBy
    <3> SUFFICES ASSUME Init PROVE NonePassedBy
      OBVIOUS
    <3>1. Typed
      BY ConnectionStarts
    <3>2. \A q : Spent(q) = 0
      BY DEF Init, Spent, Nothing
    <3>3. \A q \in Queries : Len(Expected(q)) \in Nat
      BY <3>1, RegistryFacts
    <3> QED BY <3>2, <3>3 DEF NonePassedBy, InBounds, OwedStatements, OwedAnswer, Init
  <2> QED BY <2>1, <2>2, ConnectionStarts
<1>2. IInv /\ [Next]_vars => IInv'
  BY ConnectionRuns, FreshKept, LaneKept, AgreementKept, NonePassedKept
<1>3. IInv /\ [Next]_vars => [ForwardsUnexpected]_vars
  BY ForwardsSound
<1> HIDE DEF IInv
<1> QED BY <1>1, <1>2, <1>3, PTL DEF Spec, NoExpectMissed

=============================================================================
