------------------------------ MODULE PgProofs ------------------------------
(***************************************************************************)
(* A theorem about the connections of the PostgreSQL proxy, for any number *)
(* of them, any registries, batches, budgets and interleavings.            *)
(***************************************************************************)
EXTENDS PgProperties, TLAPS

-----------------------------------------------------------------------------
(***************************************************************************)
(* The fields the argument reads.                                          *)
(***************************************************************************)
Shape ==
  /\ DOMAIN conn = Conns /\ DOMAIN net = Conns
  /\ \A c \in Conns : {"pc", "born", "s", "relay", "forwarder", "ready", "hand", "pre"} \subseteq DOMAIN conn[c]
  /\ \A c \in Conns : {"open", "uopen", "c2p", "p2c", "p2u", "u2p"} \subseteq DOMAIN net[c]
  /\ {"c", "pc"} \subseteq DOMAIN client /\ client.c \in Nat
  /\ "epoch" \in DOMAIN registry

\* A driver opens its connections in turn: one above the last was never used.
Untouched == \A c \in Conns : c > client.c => conn[c].pc = "none" /\ ~net[c].open

\* Only between the two steps of a reload does an open connection outlive the
\* registry it was set up under.
BornNow ==
  reload # "replaced" => \A c \in Conns : conn[c].pc = "phase2" /\ net[c].open => Current(c)

FreshInv == Shape /\ Untouched /\ BornNow

-----------------------------------------------------------------------------
(***************************************************************************)
(* What all steps but those that set a connection up, open one or reload   *)
(* have in common.                                                         *)
(***************************************************************************)
Ordinary ==
  /\ reload' = reload /\ registry'.epoch = registry.epoch /\ client'.c = client.c
  /\ \A c \in Conns :
       /\ net'[c].open => net[c].open
       /\ conn[c].pc = "none" /\ ~net[c].open => conn'[c].pc = "none"
       /\ conn'[c].pc = "phase2" => conn[c].pc = "phase2" /\ conn'[c].born = conn[c].born

LEMMA OrdinaryKeeps == ASSUME FreshInv, Ordinary, Shape' PROVE FreshInv'
<1>1. Untouched'
  BY DEF FreshInv, Ordinary, Untouched
<1>2. BornNow'
  BY DEF FreshInv, Ordinary, BornNow, Current
<1> QED BY <1>1, <1>2 DEF FreshInv

(***************************************************************************)
(* The startup of a connection.                                            *)
(***************************************************************************)
LEMMA StartupOrdinary ==
  ASSUME Shape, NEW c \in Conns,
         \/ Accept(c) \/ Dial(c) \/ StartupFails(c) \/ DetectReady(c) \/ AnnounceReady(c) \/ Forward(c)
         \/ ForwardTimeout(c) \/ GoroutineEnds(c) \/ Relay(c)
  PROVE  Ordinary /\ Shape'
<1>1. CASE Accept(c)
  BY <1>1 DEF Accept, Shape, Ordinary
<1>2. CASE Dial(c)
  BY <1>2 DEF Dial, Shape, Ordinary
<1>3. CASE StartupFails(c)
  BY <1>3 DEF StartupFails, Closed, Shape, Ordinary
<1>4. CASE DetectReady(c)
  BY <1>4 DEF DetectReady, Shape, Ordinary
<1>5. CASE AnnounceReady(c)
  BY <1>5 DEF AnnounceReady, Shape, Ordinary
<1>6. CASE Forward(c)
  <2>1. CASE conn[c].ready
    <3>1. /\ conn' = [conn EXCEPT ![c].forwarder = "done", ![c].pre = <<Head(net[c].c2p)>>]
          /\ net' = [net EXCEPT ![c].c2p = Tail(@)]
          /\ registry' = registry /\ client' = client /\ reload' = reload
      BY <1>6, <2>1 DEF Forward
    <3> QED BY <3>1 DEF Shape, Ordinary
  <2>2. CASE ~conn[c].ready
    BY <1>6, <2>2 DEF Forward, Shape, Ordinary
  <2> QED BY <2>1, <2>2
<1>7. CASE ForwardTimeout(c)
  BY <1>7 DEF ForwardTimeout, Shape, Ordinary
<1>8. CASE GoroutineEnds(c)
  BY <1>8 DEF GoroutineEnds, Shape, Ordinary
<1>9. CASE Relay(c)
  BY <1>9 DEF Relay, Shape, Ordinary
<1> QED BY <1>1, <1>2, <1>3, <1>4, <1>5, <1>6, <1>7, <1>8, <1>9

(***************************************************************************)
(* The message loop: a handler may return, but sets nothing up.            *)
(***************************************************************************)
LEMMA HandledOrdinary ==
  ASSUME Shape, NEW c \in Conns, conn[c].pc = "phase2", NEW s, NEW out, NEW up, Handled(c, s, out, up),
         registry'.epoch = registry.epoch, "epoch" \in DOMAIN registry'
  PROVE  Ordinary /\ Shape'
<1> DEFINE fails == (out # << >> /\ ~net[c].open) \/ (up # << >> /\ ~net[c].uopen)
<1>1. CASE fails
  BY <1>1 DEF Handled, Closed, Shape, Ordinary
<1>2. CASE ~fails
  BY <1>2 DEF Handled, Shape, Ordinary
<1> QED BY <1>1, <1>2

LEMMA HitKeepsEpoch ==
  ASSUME "epoch" \in DOMAIN registry, NEW q
  PROVE  /\ Hit(q).epoch = registry.epoch /\ "epoch" \in DOMAIN Hit(q)
         /\ recordPassthroughQuery(q).epoch = registry.epoch
         /\ "epoch" \in DOMAIN recordPassthroughQuery(q)
BY DEF Hit, recordPassthroughQuery

LEMMA HandlerOrdinary ==
  ASSUME Shape, NEW c \in Conns, Handler(c)
  PROVE  Ordinary /\ Shape'
<1> DEFINE Replied == \E s, out, up : Handled(c, s, out, up)
           Counted == registry' = registry \/ \E q : registry' \in {Hit(q), recordPassthroughQuery(q)}
<1>1. CASE HandlerEnds(c)
  BY <1>1 DEF HandlerEnds, Closed, Shape, Ordinary
<1>2. CASE ~HandlerEnds(c)
  <2>1. conn[c].pc = "phase2"
    BY <1>2 DEF Handler, Swallow, Parse, DescribeStatement, DescribePortal, Close, Others, Bind, Execute,
                Sync, Query, Passes, Reads
  <2>2. Replied /\ Counted
    <3>1. CASE Swallow(c)
      BY <3>1 DEF Swallow, Locally
    <3>2. CASE Parse(c)
      BY <3>2 DEF Parse, Locally, Upstream
    <3>3. CASE DescribeStatement(c)
      BY <3>3 DEF DescribeStatement, Locally, Upstream
    <3>4. CASE DescribePortal(c)
      BY <3>4 DEF DescribePortal, Locally, Upstream
    <3>5. CASE Close(c)
      BY <3>5 DEF Close, Locally, Upstream
    <3>6. CASE Others(c)
      BY <3>6 DEF Others, Upstream
    <3>7. CASE Bind(c)
      BY <3>7 DEF Bind, Locally, Upstream
    <3>8. CASE Execute(c)
      BY <3>8 DEF Execute, Locally, Upstream
    <3>9. CASE Sync(c)
      BY <3>9 DEF Sync, Locally, Upstream
    <3>10. CASE Query(c)
      BY <3>10 DEF Query, Locally, Upstream
    <3> QED BY <1>2, <3>1, <3>2, <3>3, <3>4, <3>5, <3>6, <3>7, <3>8, <3>9, <3>10 DEF Handler
  <2>3. registry'.epoch = registry.epoch /\ "epoch" \in DOMAIN registry'
    BY <2>2, HitKeepsEpoch DEF Shape
  <2> QED BY <2>1, <2>2, <2>3, HandledOrdinary
<1> QED BY <1>1, <1>2

(***************************************************************************)
(* The real server and the driver.                                         *)
(***************************************************************************)
LEMMA PgOrdinary ==
  ASSUME Shape, NEW c \in Conns, PgMessage(c) \/ PgDies(c)
  PROVE  Ordinary /\ Shape'
<1>1. CASE PgDies(c)
  BY <1>1 DEF PgDies, Shape, Ordinary
<1>2. CASE PgMessage(c)
  <2> DEFINE terminated == net' = [net EXCEPT ![c].p2u = << >>, ![c].uopen = FALSE]
             answered(v, out, flush) ==
               net' = [net EXCEPT ![c].p2u = Tail(@), ![c].u2p = IF flush THEN @ \o v.held \o out ELSE @]
             still == conn' = conn /\ client' = client /\ registry' = registry /\ reload' = reload
  <2>1. still /\ (terminated \/ \E v, out, flush : answered(v, out, flush))
    <3>1. \/ still /\ terminated
          \/ \E v, out, flush : Answers(c, v, out, flush)
      BY <1>2 DEF PgMessage
    <3>2. ASSUME NEW v, NEW out, NEW flush, Answers(c, v, out, flush)
          PROVE  still /\ answered(v, out, flush)
      BY <3>2 DEF Answers
    <3> QED BY <3>1, <3>2
  <2>2. ASSUME NEW v, NEW out, NEW flush, answered(v, out, flush), still
        PROVE  Ordinary /\ Shape'
    BY <2>2 DEF Shape, Ordinary
  <2>3. CASE still /\ terminated
    BY <2>3 DEF Shape, Ordinary
  <2> QED BY <2>1, <2>2, <2>3
<1> QED BY <1>1, <1>2

LEMMA DriverOrdinary ==
  ASSUME Shape, Receive \/ Leave \/ \E b \in config.scripts : Send(b)
  PROVE  Ordinary /\ Shape'
<1>1. CASE Receive
  <2>1. ASSUME NEW r
        PROVE  Believed(r).c = client.c /\ {"c", "pc"} \subseteq DOMAIN Believed(r)
    BY DEF Believed, Shape
  <2>2. client'.c = client.c /\ {"c", "pc"} \subseteq DOMAIN client'
    BY <1>1, <2>1 DEF Receive, Shape
  <2> QED BY <1>1, <2>2 DEF Receive, Shape, Ordinary
<1>2. CASE Leave
  BY <1>2 DEF Leave, Shape, Ordinary
<1>3. ASSUME NEW b \in config.scripts, Send(b)
      PROVE  Ordinary /\ Shape'
  <2>1. client'.c = client.c /\ {"c", "pc"} \subseteq DOMAIN client'
    BY <1>3 DEF Send, Shape
  <2>2. /\ net' = [net EXCEPT ![client.c].c2p = @ \o b]
        /\ conn' = conn /\ registry' = registry /\ reload' = reload
    BY <1>3 DEF Send
  <2>3. \A c \in Conns : net'[c].open = net[c].open /\ DOMAIN net'[c] = DOMAIN net[c]
    BY <2>2 DEF Shape
  <2> QED BY <2>1, <2>2, <2>3 DEF Shape, Ordinary
<1> QED BY <1>1, <1>2, <1>3

-----------------------------------------------------------------------------
(***************************************************************************)
(* The steps that are not ordinary: a connection enters phase two under    *)
(* the registry in force, a driver opens the next one, and the reload.     *)
(***************************************************************************)
LEMMA PhaseTwoKeeps ==
  ASSUME FreshInv, NEW c \in Conns, PhaseTwo(c)
  PROVE  FreshInv'
<1>1. Shape'
  BY DEF FreshInv, PhaseTwo, Shape
<1>2. \A d \in Conns : conn[d].pc = "none" /\ ~net[d].open => conn'[d].pc = "none" /\ ~net'[d].open
  BY DEF FreshInv, PhaseTwo, Shape
<1>3. \A d \in Conns : conn'[d].pc = "phase2" /\ net'[d].open =>
        \/ conn'[d].born = registry.epoch
        \/ conn[d].pc = "phase2" /\ net[d].open /\ conn'[d].born = conn[d].born
  BY DEF FreshInv, PhaseTwo, Shape
<1>4. client' = client /\ registry' = registry /\ reload' = reload
  BY DEF PhaseTwo
<1> QED BY <1>1, <1>2, <1>3, <1>4 DEF FreshInv, Untouched, BornNow, Current

LEMMA ConnectKeeps ==
  ASSUME FreshInv, Connect
  PROVE  FreshInv'
<1>1. PICK c \in Conns :
        /\ c = client.c + 1
        /\ client' = [client EXCEPT !.pc = "connecting", !.c = c, !.pending = << >>, !.failed = FALSE,
                                    !.done = FALSE, !.shape = Empty, !.tx = "I"]
        /\ net' = [net EXCEPT ![c].open = TRUE, ![c].c2p = <<[t |-> "Startup"]>>]
  BY DEF Connect
<1>2. conn' = conn /\ registry' = registry /\ reload' = reload
  BY DEF Connect
<1>3. Shape'
  BY <1>1, <1>2 DEF FreshInv, Shape
<1>4. client'.c = c /\ \A d \in Conns : d # c => net'[d].open = net[d].open
  BY <1>1 DEF FreshInv, Shape
<1>5. conn[c].pc = "none"
  BY <1>1, ConnsAssumption DEF FreshInv, Untouched, Shape
<1>6. Untouched'
  BY <1>1, <1>2, <1>4, ConnsAssumption DEF FreshInv, Untouched, Shape
<1>7. BornNow'
  BY <1>2, <1>4, <1>5 DEF FreshInv, BornNow, Current
<1> QED BY <1>3, <1>6, <1>7 DEF FreshInv

LEMMA ReloadKeeps ==
  ASSUME FreshInv, Replace \/ ResetConnections
  PROVE  FreshInv'
<1>1. CASE Replace
  BY <1>1 DEF Replace, FreshInv, Shape, Untouched, BornNow
<1>2. CASE ResetConnections
  <2>1. PICK kept \in [Conns -> 0..Max({Len(net[c].c2p) : c \in Conns})] :
          net' = [c \in Conns |-> IF Registered(c) THEN [Closed(net[c]) EXCEPT !.c2p = SubSeq(@, 1, kept[c])]
                                  ELSE net[c]]
    BY <1>2 DEF ResetConnections
  <2>2. conn' = conn /\ client' = client /\ registry' = registry
    BY <1>2 DEF ResetConnections
  <2>3. \A c \in Conns : Registered(c) => ~net'[c].open
    BY <2>1 DEF Closed, FreshInv, Shape
  <2>4. \A c \in Conns : net'[c].open => net[c].open
    BY <2>1, <2>3
  <2>5. Shape'
    BY <2>1, <2>2 DEF Closed, FreshInv, Shape
  <2>6. Untouched'
    BY <2>2, <2>4 DEF FreshInv, Untouched
  <2>7. BornNow'
    BY <2>2, <2>3 DEF BornNow, Registered
  <2> QED BY <2>5, <2>6, <2>7 DEF FreshInv
<1> QED BY <1>1, <1>2

-----------------------------------------------------------------------------
(***************************************************************************)
(* The invariant holds of every reachable state.                           *)
(***************************************************************************)
LEMMA InitFresh == Init => FreshInv
<1> SUFFICES ASSUME Init PROVE FreshInv
  OBVIOUS
<1>1. Shape
  BY DEF Init, Shape, Fresh, Unconnected
<1>2. Untouched /\ BornNow
  BY DEF Init, Untouched, BornNow, Fresh, Unconnected
<1> QED BY <1>1, <1>2 DEF FreshInv

LEMMA NextFresh == FreshInv /\ [Next]_vars => FreshInv'
<1> SUFFICES ASSUME FreshInv, [Next]_vars PROVE FreshInv'
  OBVIOUS
<1>0. Shape
  BY DEF FreshInv
<1>1. CASE \E c \in Conns : Accept(c) \/ Dial(c) \/ DetectReady(c) \/ AnnounceReady(c) \/ Forward(c)
               \/ ForwardTimeout(c) \/ GoroutineEnds(c) \/ StartupFails(c) \/ Relay(c)
  BY <1>0, <1>1, StartupOrdinary, OrdinaryKeeps
<1>2. CASE \E c \in Conns : PhaseTwo(c)
  BY <1>2, PhaseTwoKeeps
<1>3. CASE \E c \in Conns : Handler(c)
  BY <1>0, <1>3, HandlerOrdinary, OrdinaryKeeps
<1>4. CASE \E c \in Conns : PgMessage(c) \/ PgDies(c)
  BY <1>0, <1>4, PgOrdinary, OrdinaryKeeps
<1>5. CASE Receive \/ Leave \/ \E b \in config.scripts : Send(b)
  BY <1>0, <1>5, DriverOrdinary, OrdinaryKeeps
<1>6. CASE Connect
  BY <1>6, ConnectKeeps
<1>7. CASE Replace \/ ResetConnections
  BY <1>7, ReloadKeeps
<1>8. CASE UNCHANGED vars
  BY <1>8 DEF vars, FreshInv, Shape, Untouched, BornNow, Current
<1> QED BY <1>1, <1>2, <1>3, <1>4, <1>5, <1>6, <1>7, <1>8 DEF Next, Startup

(***************************************************************************)
(* Once a reload is over, no connection still open was set up before it,   *)
(* however many connections are being set up while it runs, and wherever   *)
(* their startup is (Replace and ResetConnections are two steps).          *)
(***************************************************************************)
THEOREM AlwaysFreshAfterReload == Spec => []FreshAfterReload
<1>1. FreshInv => FreshAfterReload
  BY DEF FreshInv, BornNow, FreshAfterReload
<1> QED BY <1>1, InitFresh, NextFresh, PTL DEF Spec
=============================================================================
