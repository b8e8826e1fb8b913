---------------------------- MODULE MCCollection ----------------------------
(***************************************************************************)
(* Specs, and what a service does for them, for model checking             *)
(* HitCollection.  The sidecars are db and http.                           *)
(***************************************************************************)
EXTENDS CollectionProperties, TLC

CONSTANTS db, http

BothSidecars == {db, http}

Http(expects, nots, strict, calls) ==
    [kind |-> "http", expects |-> expects, nots |-> nots, strict |-> strict, calls |-> calls]

Async(expects, nots, calls) ==
    [kind |-> "async", expects |-> expects, nots |-> nots, strict |-> FALSE, calls |-> calls]

Does(s, fits) == [at |-> s, fits |-> fits, bad |-> FALSE, awaited |-> TRUE]

OwnKey == [m \in Mocks |-> m]

-----------------------------------------------------------------------------
(***************************************************************************)
(* Five specs on kept containers, the first two well behaved: what the     *)
(* first expects the second forbids.  The third makes a forbidden call and *)
(* leaves another for later, one that breaks a VERIFY rule.  The fourth    *)
(* never makes a call it should.  The fifth, on fresh containers, makes a  *)
(* call no EXPECT describes under strict_passthrough.                      *)
(***************************************************************************)
SuiteMocks == {"read1", "post1", "read2", "post2", "read3", "drop3", "read4", "post4", "read5"}
SuiteKeys  == [m \in SuiteMocks |->
                 CASE m \in {"post1", "post2", "post4"} -> "post"
                   [] m = "drop3" -> "drop"
                   [] OTHER -> "read"]
SuiteTests == << Http({"read1", "post1"}, {}, TRUE, {"r1", "p1"}),
                 Http({"read2"}, {"post2"}, TRUE, {"r2"}),
                 Http({"read3"}, {"drop3"}, FALSE, {"r3", "d3", "p3"}),
                 Http({"read4", "post4"}, {}, FALSE, {"r4"}),
                 [Http({"read5"}, {}, TRUE, {"r5", "s5"}) EXCEPT !.kind = "event"] >>
SuiteCalls == {"r1", "p1", "r2", "r3", "d3", "p3", "r4", "r5", "s5"}
Read == Does(db, {"read1", "read2", "read3", "read4", "read5"})
Post == Does(http, {"post1", "post2", "post4"})
SuiteCall ==
    [r1 |-> Read, p1 |-> Post, r2 |-> Read, r3 |-> Read, d3 |-> Does(http, {"drop3"}),
     p3 |-> [Post EXCEPT !.awaited = FALSE, !.bad = TRUE], r4 |-> Read,
     r5 |-> Read, s5 |-> Does(http, {})]

(***************************************************************************)
(* Kept containers, then a spec that cannot use them; a sidecar may die.   *)
(***************************************************************************)
FaultMocks == {"read1", "drop1", "read2", "take3"}
FaultKeys  == [read1 |-> "read", drop1 |-> "drop", read2 |-> "read", take3 |-> "take"]
FaultTests == << Http({"read1"}, {"drop1"}, FALSE, {"r1", "x1"}),
                 Http({"read2"}, {}, TRUE, {"r2"}), Async({"take3"}, {}, {"t"}) >>
FaultCalls == {"r1", "x1", "r2", "t"}
FaultCall  == [r1 |-> Does(db, {"read1", "read2"}),
               x1 |-> [Does(http, {"drop1"}) EXCEPT !.awaited = FALSE],
               r2 |-> Does(db, {"read1", "read2"}),
               t  |-> [Does(http, {"take3"}) EXCEPT !.awaited = FALSE]]
=============================================================================
