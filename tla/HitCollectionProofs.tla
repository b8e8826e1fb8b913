------------------------ MODULE HitCollectionProofs ------------------------
(***************************************************************************)
(* What the collection of hits guarantees for every number of specs,       *)
(* sidecars, calls and crashes.  The invariant relates three copies of the *)
(* counts: the sidecars' (box), the answer under way (reading) and the     *)
(* runner's (host).  The second part is about verdicts.                    *)
(***************************************************************************)
EXTENDS CollectionProperties, FiniteSetTheorems, TLAPS

Boxes == [test : TestNo, hits : [Mocks -> Nat], passes : Nat, errors : SUBSET Calls]

(***************************************************************************)
(* Where the runner is: a spec is under way unless it starts one, a reading *)
(* exists only while it collects, its counts are blank while it reloads.   *)
(***************************************************************************)
RunnerOK ==
    /\ step # "start" => test \in TestNo
    /\ reading # NoReading => step = "collect"
    /\ step = "reload" => host.hits = Zero

\* Sidecar s serves the spec that is run, and counted for nothing else.
ServesTest(s) ==
    /\ box[s].test = test
    /\ \A m \in Mocks : box[s].hits[m] > 0 => m \in MocksOf(test)

BoxOK ==
    \A s \in Sidecars :
        /\ step \notin {"start", "reload"} => ServesTest(s)
        /\ step = "reload" /\ reload[s] = "done" => ServesTest(s)
        /\ \A m \in Mocks : box[s].hits[m] > 0 => CountedFor(m)

\* What was read off a sidecar, it counted.
ReadingOK ==
    reading # NoReading =>
        \A k \in Keys : reading.hits[k] > 0 =>
            \E n \in MocksOf(box[reading.from].test) :
                HitKey[n] = k /\ reading.hits[k] <= box[reading.from].hits[n]

Inv == TypeOK /\ RunnerOK /\ BoxOK /\ ReadingOK /\ HostNeverAhead

-----------------------------------------------------------------------------
\* The statements of a spec are statements.
LEMMA MocksOfAreMocks == \A t \in TestNo : MocksOf(t) \subseteq Mocks
BY TestsAssumption DEF MocksOf

\* A fresh registry is a registry, with nothing counted.
LEMMA FreshBoxes ==
  ASSUME NEW t \in TestNo
  PROVE  /\ EmptyBox(t) \in Boxes /\ EmptyBox(t).test = t
         /\ \A m \in Mocks : EmptyBox(t).hits[m] = 0
BY DEF EmptyBox, Boxes, Zero

LEMMA FreshHost ==
  /\ EmptyHost \in [hits : [Mocks -> Nat], passes : Nat, errors : SUBSET Calls]
  /\ EmptyHost.hits = Zero /\ \A m \in Mocks : EmptyHost.hits[m] = 0
BY DEF EmptyHost, Zero

\* A lookup only ever raises counters of the spec the sidecar has loaded,
\* and the history remembers for which mocks.
Raises(c) ==
    LET s == Call[c].at IN
    /\ box' \in [Sidecars -> Boxes]
    /\ \A r \in Sidecars : r # s => box'[r] = box[r]
    /\ box'[s].test = box[s].test
    /\ \A m \in Mocks :
          /\ box[s].hits[m] <= box'[s].hits[m]
          /\ box'[s].hits[m] # box[s].hits[m] => m \in LoadedMocks(s) /\ <<c, m>> \in credit'
    /\ credit \subseteq credit'

LEMMA LookupRaises ==
  ASSUME TypeOK, NEW c \in Calls, Lookup(c)
  PROVE  Raises(c)
<1> DEFINE s == Call[c].at
<1>1. s \in Sidecars /\ Call[c].fits \subseteq Mocks
  BY CallAssumption
<1>2. box \in [Sidecars -> Boxes] /\ box[s] \in Boxes /\ box[s].test \in TestNo
  BY <1>1 DEF TypeOK, Boxes
<1>3. box[s].hits \in [Mocks -> Nat] /\ box[s].passes \in Nat
  BY <1>2 DEF Boxes
<1>4. Charged(c) \subseteq LoadedMocks(s) /\ Offered(c) \subseteq LoadedMocks(s)
  BY DEF Charged, Offered, LoadedMocks, MocksOf
<1>5. CASE \E m \in Offered(c) :
             /\ box' = [box EXCEPT ![s].hits = [n \in Mocks |->
                          IF n = m \/ n \in Charged(c) THEN @[n] + 1 ELSE @[n]]]
             /\ credit' = credit \cup {<<c, n>> : n \in {m} \cup Charged(c)}
  <2>1. PICK m \in Offered(c) :
             /\ box' = [box EXCEPT ![s].hits = [n \in Mocks |->
                          IF n = m \/ n \in Charged(c) THEN @[n] + 1 ELSE @[n]]]
             /\ credit' = credit \cup {<<c, n>> : n \in {m} \cup Charged(c)}
    BY <1>5
  <2> DEFINE new == [n \in Mocks |-> IF n = m \/ n \in Charged(c) THEN box[s].hits[n] + 1
                                     ELSE box[s].hits[n]]
  <2>2. new \in [Mocks -> Nat]
    BY <1>3
  <2>3. box' = [box EXCEPT ![s] = [box[s] EXCEPT !.hits = new]]
    BY <2>1
  <2>4. [box[s] EXCEPT !.hits = new] \in Boxes
    BY <1>2, <2>2 DEF Boxes
  <2>5. \A n \in Mocks : box[s].hits[n] <= new[n]
                         /\ (new[n] # box[s].hits[n] => n \in {m} \cup Charged(c))
    BY <1>3
  <2>6. box'[s].hits = new /\ box'[s].test = box[s].test
    BY <1>1, <1>2, <2>3 DEF Boxes
  <2> HIDE DEF new
  <2>7. \A n \in {m} \cup Charged(c) : n \in LoadedMocks(s) /\ <<c, n>> \in credit'
    BY <1>4, <2>1
  <2> QED BY <1>1, <1>2, <2>1, <2>3, <2>4, <2>5, <2>6, <2>7 DEF Raises
<1>6. CASE /\ box' = [box EXCEPT ![s].passes = @ + 1,
                        ![s].hits = [n \in Mocks |-> IF n \in Charged(c) THEN @[n] + 1 ELSE @[n]]]
           /\ credit' = credit \cup {<<c, n>> : n \in Charged(c)}
  <2> DEFINE new == [n \in Mocks |-> IF n \in Charged(c) THEN box[s].hits[n] + 1
                                     ELSE box[s].hits[n]]
  <2>2. new \in [Mocks -> Nat]
    BY <1>3
  <2> DEFINE next == [box[s] EXCEPT !.passes = @ + 1, !.hits = new]
  <2>3. box' = [box EXCEPT ![s] = next]
    BY <1>6, <1>1, <1>2
  <2>4. next \in Boxes
    <3> HIDE DEF new
    <3>1. [box[s] EXCEPT !.passes = @ + 1] \in Boxes
      BY <1>2, <1>3 DEF Boxes
    <3>2. \A b \in Boxes : [b EXCEPT !.hits = new] \in Boxes
      BY <2>2 DEF Boxes
    <3>3. next = [[box[s] EXCEPT !.passes = @ + 1] EXCEPT !.hits = new]
      BY <1>2 DEF Boxes
    <3> QED BY <3>1, <3>2, <3>3
  <2>5. \A n \in Mocks : box[s].hits[n] <= new[n]
                         /\ (new[n] # box[s].hits[n] => n \in Charged(c))
    BY <1>3
  <2>6. box'[s].hits = new /\ box'[s].test = box[s].test
    BY <1>1, <1>2, <2>3, <2>4 DEF Boxes
  <2> HIDE DEF new, next
  <2>7. \A n \in Charged(c) : n \in LoadedMocks(s) /\ <<c, n>> \in credit'
    BY <1>4, <1>6
  <2> QED BY <1>1, <1>2, <1>6, <2>3, <2>4, <2>5, <2>6, <2>7 DEF Raises
<1> QED BY <1>5, <1>6 DEF Lookup
-----------------------------------------------------------------------------
\* Nothing is counted, read or run to begin with.
LEMMA InitInv == Init => Inv
<1> SUFFICES ASSUME Init PROVE Inv
  OBVIOUS
<1>1. 1 \in TestNo /\ Len(Tests) \in Nat \ {0}
  BY TestsAssumption DEF TestNo
<1>2. \A s \in Sidecars : box[s] = EmptyBox(1)
  BY DEF Init
<1>3. \A s \in Sidecars, m \in Mocks : box[s].hits[m] = 0
  BY <1>1, <1>2, FreshBoxes
<1>4. box \in [Sidecars -> Boxes] /\ \A s \in Sidecars : box[s].test = 1
  BY <1>1, FreshBoxes DEF Init
<1>5. host \in [hits : [Mocks -> Nat], passes : Nat, errors : SUBSET Calls]
      /\ \A m \in Mocks : host.hits[m] = 0
  BY FreshHost DEF Init
<1>6. TypeOK
  <2>1. test \in 1 .. (Len(Tests) + 1) /\ tries \in 0 .. (Attempts - 1) /\ ticks \in 0 .. MaxTicks
    BY <1>1, BoundsAssumption DEF Init
  <2>2. verdict \in [TestNo -> Verdicts] /\ step \in Steps
    BY DEF Init, Verdicts, Steps
  <2>3. /\ status \in [Calls -> {"waiting", "held", "done", "failed", "bypassed"}]
        /\ holds \in [Calls -> Mocks \cup {NoMock}]
        /\ reload \in [Sidecars -> {"idle", "loaded", "failed", "done"}]
    BY DEF Init
  <2> QED BY <1>4, <1>5, <2>1, <2>2, <2>3 DEF Init, TypeOK, Boxes
<1>7. RunnerOK /\ BoxOK
  BY <1>3 DEF Init, RunnerOK, BoxOK
<1>8. ReadingOK /\ HostNeverAhead
  BY <1>5 DEF Init, ReadingOK, HostNeverAhead
<1> QED BY <1>6, <1>7, <1>8 DEF Inv

(***************************************************************************)
(* The steps of the service and of the sidecars leave the runner alone:    *)
(* counters grow, and what was read or merged stays below them.            *)
(***************************************************************************)
LEMMA CountersGrow ==
  ASSUME Inv, UNCHANGED <<runnerVars, reload>>, NEW r \in Sidecars,
         box' \in [Sidecars -> Boxes], credit \subseteq credit',
         \A s \in Sidecars : s # r => box'[s] = box[s],
         box'[r].test = box[r].test,
         \A m \in Mocks :
            /\ box[r].hits[m] <= box'[r].hits[m]
            /\ box'[r].hits[m] # box[r].hits[m] =>
                  m \in LoadedMocks(r) /\ \E c \in Calls : <<c, m>> \in credit'
  PROVE  RunnerOK' /\ BoxOK' /\ ReadingOK' /\ HostNeverAhead'
<1>0. box \in [Sidecars -> Boxes]
  BY DEF Inv, TypeOK, Boxes
<1>1. \A s \in Sidecars :
        /\ box'[s].test = box[s].test
        /\ \A m \in Mocks : /\ box[s].hits[m] \in Nat /\ box'[s].hits[m] \in Nat
                            /\ box[s].hits[m] <= box'[s].hits[m]
  <2> SUFFICES ASSUME NEW s \in Sidecars
               PROVE  /\ box'[s].test = box[s].test
                      /\ \A m \in Mocks : /\ box[s].hits[m] \in Nat /\ box'[s].hits[m] \in Nat
                                          /\ box[s].hits[m] <= box'[s].hits[m]
    OBVIOUS
  <2>1. box[s].hits \in [Mocks -> Nat] /\ box'[s].hits \in [Mocks -> Nat]
    BY <1>0 DEF Boxes
  <2> QED BY <2>1
<1>2. \A s \in Sidecars : box[s].test \in TestNo
  BY DEF Inv, TypeOK
<1>3. \A m \in Mocks : CountedFor(m) => CountedFor(m)'
  BY DEF CountedFor
<1>4. RunnerOK'
  BY DEF Inv, RunnerOK, runnerVars
<1>5. BoxOK'
  <2>1. \A s \in Sidecars : ServesTest(s) => ServesTest(s)'
    <3> SUFFICES ASSUME NEW s \in Sidecars, ServesTest(s),
                        NEW m \in Mocks, box'[s].hits[m] > 0
                 PROVE  m \in MocksOf(test)
      BY <1>1 DEF ServesTest, runnerVars, MocksOf
    <3>1. CASE box'[s].hits[m] = box[s].hits[m]
      BY <3>1 DEF ServesTest
    <3>2. CASE box'[s].hits[m] # box[s].hits[m]
      BY <3>2 DEF ServesTest, LoadedMocks
    <3> QED BY <3>1, <3>2
  <2>2. \A s \in Sidecars, m \in Mocks : box'[s].hits[m] > 0 => CountedFor(m)'
    BY <1>3 DEF Inv, BoxOK, CountedFor
  <2> QED BY <2>1, <2>2 DEF Inv, BoxOK, runnerVars
<1>6. ReadingOK'
  <2> SUFFICES ASSUME reading # NoReading, NEW k \in Keys, reading.hits[k] > 0
               PROVE  \E n \in MocksOf(box'[reading.from].test) :
                         HitKey[n] = k /\ reading.hits[k] <= box'[reading.from].hits[n]
    BY DEF ReadingOK, runnerVars, MocksOf
  <2>1. reading.from \in Sidecars /\ reading.hits[k] \in Nat
    BY DEF Inv, TypeOK
  <2>2. PICK n \in MocksOf(box[reading.from].test) :
             HitKey[n] = k /\ reading.hits[k] <= box[reading.from].hits[n]
    BY DEF Inv, ReadingOK
  <2>3. n \in Mocks
    BY <1>2, <2>1, MocksOfAreMocks
  <2> QED BY <1>1, <2>1, <2>2, <2>3
<1>7. HostNeverAhead'
  <2> SUFFICES ASSUME NEW m \in Mocks, host.hits[m] > 0
               PROVE  \E s \in Sidecars : \E n \in MocksOf(box'[s].test) :
                         HitKey[n] = HitKey[m] /\ host.hits[m] <= box'[s].hits[n]
    BY DEF HostNeverAhead, runnerVars, MocksOf
  <2>1. PICK s \in Sidecars : \E n \in MocksOf(box[s].test) :
             HitKey[n] = HitKey[m] /\ host.hits[m] <= box[s].hits[n]
    BY DEF Inv, HostNeverAhead
  <2>2. PICK n \in MocksOf(box[s].test) : HitKey[n] = HitKey[m] /\ host.hits[m] <= box[s].hits[n]
    BY <2>1
  <2>3. n \in Mocks /\ host.hits[m] \in Nat
    BY <1>2, MocksOfAreMocks DEF Inv, TypeOK
  <2> QED BY <1>1, <2>2, <2>3
<1> QED BY <1>4, <1>5, <1>6, <1>7

LEMMA LookupInv ==
  ASSUME Inv, NEW c \in Calls, Lookup(c)
  PROVE  Inv'
<1> DEFINE r == Call[c].at
<1>1. Raises(c) /\ r \in Sidecars
  BY LookupRaises, CallAssumption DEF Inv
<1>2. RunnerOK' /\ BoxOK' /\ ReadingOK' /\ HostNeverAhead'
  BY <1>1, CountersGrow DEF Raises, Lookup
<1>3. Offered(c) \subseteq Mocks /\ Charged(c) \subseteq Mocks
  BY CallAssumption DEF Offered, Charged
<1>4. credit' \subseteq Calls \X Mocks /\ holds' \in [Calls -> Mocks \cup {NoMock}]
  <2>1. CASE Offered(c) = {} /\ credit' = credit \cup {<<c, n>> : n \in Charged(c)} /\ UNCHANGED holds
    BY <2>1, <1>3 DEF Inv, TypeOK
  <2>2. CASE \E m \in Offered(c) :
               /\ holds' = [holds EXCEPT ![c] = m]
               /\ credit' = credit \cup {<<c, n>> : n \in {m} \cup Charged(c)}
    BY <2>2, <1>3 DEF Inv, TypeOK
  <2> QED BY <2>1, <2>2 DEF Lookup
<1>5. status' \in [Calls -> {"waiting", "held", "done", "failed", "bypassed"}]
  BY DEF Inv, TypeOK, Lookup
<1>6. box' \in [Sidecars -> Boxes]
  BY <1>1 DEF Raises
<1>7. TypeOK'
  BY <1>4, <1>5, <1>6 DEF Inv, TypeOK, Boxes, Lookup, runnerVars
<1> QED BY <1>2, <1>7 DEF Inv

LEMMA VerifyCallInv ==
  ASSUME Inv, NEW c \in Calls, VerifyCall(c)
  PROVE  Inv'
<1> DEFINE s == Call[c].at
<1>1. s \in Sidecars /\ box \in [Sidecars -> Boxes] /\ box[s] \in Boxes
  BY CallAssumption DEF Inv, TypeOK, Boxes
<1>2. /\ box' \in [Sidecars -> Boxes]
      /\ \A r \in Sidecars : r # s => box'[r] = box[r]
      /\ box'[s].test = box[s].test /\ box'[s].hits = box[s].hits
  <2>1. [box[s] EXCEPT !.errors = @ \cup {c}] \in Boxes
    BY <1>1 DEF Boxes
  <2>2. CASE box' = box
    BY <2>2, <1>1
  <2>3. CASE box' = [box EXCEPT ![s].errors = @ \cup {c}]
    BY <2>1, <2>3, <1>1 DEF Boxes
  <2> QED BY <2>2, <2>3 DEF VerifyCall
<1>3. RunnerOK' /\ BoxOK' /\ ReadingOK' /\ HostNeverAhead'
  <2>1. \A m \in Mocks : box[s].hits[m] \in Nat
    BY <1>1 DEF Boxes
  <2> QED BY <1>1, <1>2, <2>1, CountersGrow DEF VerifyCall
<1>4. complaints' \subseteq Calls \X TestNo
  BY <1>1 DEF VerifyCall, Inv, TypeOK, Boxes
<1>5. TypeOK'
  BY <1>2, <1>4 DEF Inv, TypeOK, Boxes, VerifyCall, runnerVars
<1> QED BY <1>3, <1>5 DEF Inv

\* A call that fails and a sidecar that dies leave every counter as it is.
LEMMA FailureInv ==
  ASSUME Inv, (\E c \in Calls : CallFails(c) \/ Stray(c)) \/ \E s \in Sidecars : Crash(s)
  PROVE  Inv'
<1>1. UNCHANGED <<runnerVars, box, reload, live, orphans, holds, credit, complaints>>
  BY DEF CallFails, Stray, Crash
<1>2. TypeOK'
  <2>1. status' \in [Calls -> {"waiting", "held", "done", "failed", "bypassed"}]
        /\ alive' \subseteq Sidecars
    <3>1. ASSUME NEW c \in Calls, NEW end \in {"failed", "done", "bypassed"},
                 status' = [status EXCEPT ![c] = end], UNCHANGED alive
          PROVE  /\ status' \in [Calls -> {"waiting", "held", "done", "failed", "bypassed"}]
                 /\ alive' \subseteq Sidecars
      BY <3>1 DEF Inv, TypeOK
    <3>2. CASE \E s \in Sidecars : Crash(s)
      BY <3>2 DEF Inv, TypeOK, Crash
    <3> QED BY <3>1, <3>2 DEF CallFails, Stray
  <2> QED BY <1>1, <2>1 DEF Inv, TypeOK, runnerVars
<1>3. RunnerOK' /\ BoxOK' /\ ReadingOK' /\ HostNeverAhead'
  BY <1>1 DEF Inv, RunnerOK, BoxOK, ServesTest, ReadingOK, HostNeverAhead, CountedFor,
              runnerVars, MocksOf
<1> QED BY <1>2, <1>3 DEF Inv

-----------------------------------------------------------------------------
\* The runner between two specs: everything it and the sidecars counted is
\* blank before the next one is triggered.
LEMMA FreshStartInv ==
  ASSUME Inv, test \in TestNo, reading = NoReading, NEW b \in BOOLEAN, FreshStart(b)
  PROVE  Inv'
<1>1. \A s \in Sidecars : box'[s] = EmptyBox(test) /\ box'[s].test = test
                          /\ \A m \in Mocks : box'[s].hits[m] = 0
  BY FreshBoxes DEF FreshStart
<1>2. box' \in [Sidecars -> Boxes]
  BY FreshBoxes DEF FreshStart
<1>3. host' \in [hits : [Mocks -> Nat], passes : Nat, errors : SUBSET Calls]
      /\ \A m \in Mocks : host'.hits[m] = 0
  BY FreshHost DEF FreshStart
<1>4. TypeOK'
  <2>1. /\ status' \in [Calls -> {"waiting", "held", "done", "failed", "bypassed"}]
        /\ reload' \in [Sidecars -> {"idle", "loaded", "failed", "done"}]
        /\ live' \subseteq TestNo /\ orphans' \subseteq TestNo /\ step' \in Steps
    BY DEF FreshStart, Inv, TypeOK, Steps
  <2> QED BY <1>2, <1>3, <2>1 DEF FreshStart, Inv, TypeOK, Boxes
<1>5. RunnerOK' /\ ReadingOK'
  BY DEF FreshStart, RunnerOK, ReadingOK, TestNo
<1>6. BoxOK' /\ HostNeverAhead'
  BY <1>1, <1>3 DEF FreshStart, BoxOK, ServesTest, HostNeverAhead
<1> QED BY <1>4, <1>5, <1>6 DEF Inv

LEMMA StartInv ==
  ASSUME Inv, Start
  PROVE  Inv'
<1>1. step = "start" /\ test \in TestNo /\ reading = NoReading
  BY DEF Start, Inv, RunnerOK
<1>2. CASE /\ host' = EmptyHost /\ reused' = TRUE /\ step' = "reload"
           /\ reload' = [s \in Sidecars |-> "idle"]
           /\ UNCHANGED <<test, reason, left, tries, reading, ticks, kept, verdict,
                          serviceVars, box, alive>>
  <2>1. host' \in [hits : [Mocks -> Nat], passes : Nat, errors : SUBSET Calls]
        /\ host'.hits = Zero /\ \A m \in Mocks : host'.hits[m] = 0
    BY <1>2, FreshHost
  <2>2. TypeOK'
    <3>1. reload' \in [Sidecars -> {"idle", "loaded", "failed", "done"}] /\ step' \in Steps
      BY <1>2 DEF Steps
    <3> QED BY <1>2, <2>1, <3>1 DEF Inv, TypeOK, serviceVars
  <2>3. RunnerOK' /\ ReadingOK' /\ HostNeverAhead'
    BY <1>1, <1>2, <2>1 DEF RunnerOK, ReadingOK, HostNeverAhead, TestNo
  <2>4. BoxOK'
    BY <1>2 DEF Inv, BoxOK, CountedFor, serviceVars
  <2> QED BY <2>2, <2>3, <2>4 DEF Inv
<1> QED BY <1>1, <1>2, FreshStartInv DEF Start

LEMMA ReloadInv ==
  ASSUME Inv, NEW s \in Sidecars, Reload(s)
  PROVE  Inv'
<1>1. /\ step = "reload" /\ test \in TestNo /\ reading = NoReading /\ host.hits = Zero
      /\ UNCHANGED <<runnerVars, serviceVars, alive>>
  BY DEF Reload, Inv, RunnerOK
<1>2. box \in [Sidecars -> Boxes] /\ reload \in [Sidecars -> {"idle", "loaded", "failed", "done"}]
  BY DEF Inv, TypeOK, Boxes
<1>3. /\ box' \in [Sidecars -> Boxes] /\ reload' \in [Sidecars -> {"idle", "loaded", "failed", "done"}]
      /\ \A r \in Sidecars : r # s => box'[r] = box[r] /\ reload'[r] = reload[r]
      /\ \A m \in Mocks : box'[s].hits[m] \in {0, box[s].hits[m]}
      /\ reload'[s] = "done" => box'[s].test = test /\ \A m \in Mocks : box'[s].hits[m] = 0
  <2>1. CASE reload' = [reload EXCEPT ![s] = "loaded"] /\ box' = [box EXCEPT ![s].test = test]
    <3>1. [box[s] EXCEPT !.test = test] \in Boxes
      BY <1>1, <1>2 DEF Boxes
    <3>2. box'[s].hits = box[s].hits
      BY <1>2, <2>1 DEF Boxes
    <3> QED BY <1>2, <2>1, <3>1, <3>2
  <2>2. CASE reload' = [reload EXCEPT ![s] = "done"] /\ box' = [box EXCEPT ![s] = EmptyBox(test)]
    BY <1>1, <1>2, <2>2, FreshBoxes
  <2>3. CASE reload' = [reload EXCEPT ![s] = "failed"] /\ UNCHANGED box
    BY <1>2, <2>3
  <2> QED BY <2>1, <2>2, <2>3 DEF Reload
<1>4. TypeOK'
  BY <1>1, <1>3 DEF Inv, TypeOK, Boxes, runnerVars, serviceVars
<1>5. RunnerOK' /\ ReadingOK' /\ HostNeverAhead'
  BY <1>1 DEF RunnerOK, ReadingOK, HostNeverAhead, runnerVars, TestNo, Zero
<1>6. BoxOK'
  <2>1. \A r \in Sidecars : reload'[r] = "done" => ServesTest(r)'
    <3>1. ASSUME NEW r \in Sidecars, r # s, reload'[r] = "done" PROVE ServesTest(r)'
      BY <1>1, <1>3, <3>1 DEF Inv, BoxOK, ServesTest, runnerVars, MocksOf
    <3>2. ASSUME reload'[s] = "done" PROVE ServesTest(s)'
      BY <1>1, <1>3, <3>2 DEF ServesTest, runnerVars
    <3> QED BY <3>1, <3>2
  <2>2. \A r \in Sidecars, m \in Mocks : box'[r].hits[m] > 0 => CountedFor(m)
    <3>1. ASSUME NEW r \in Sidecars, r # s, NEW m \in Mocks, box'[r].hits[m] > 0 PROVE CountedFor(m)
      BY <1>3, <3>1 DEF Inv, BoxOK
    <3>2. ASSUME NEW m \in Mocks, box'[s].hits[m] > 0 PROVE CountedFor(m)
      <4>1. box'[s].hits[m] = box[s].hits[m]
        BY <1>3, <3>2
      <4> QED BY <4>1, <3>2 DEF Inv, BoxOK
    <3> QED BY <3>1, <3>2
  <2> QED BY <1>1, <2>1, <2>2 DEF BoxOK, CountedFor, runnerVars, serviceVars
<1> QED BY <1>4, <1>5, <1>6 DEF Inv

LEMMA ReloadedInv ==
  ASSUME Inv, Reloaded
  PROVE  Inv'
<1>1. step = "reload" /\ test \in TestNo /\ reading = NoReading
  BY DEF Reloaded, Inv, RunnerOK
<1>2. CASE /\ \A s \in Sidecars : reload[s] = "done"
           /\ step' = "trigger"
           /\ UNCHANGED <<test, reason, left, tries, reading, ticks, kept, reused, host, verdict,
                          serviceVars, box, reload, alive>>
  <2>1. TypeOK'
    <3>1. step' \in Steps
      BY <1>2 DEF Steps
    <3> QED BY <1>2, <3>1 DEF Inv, TypeOK, serviceVars
  <2>2. RunnerOK' /\ ReadingOK' /\ HostNeverAhead'
    BY <1>1, <1>2 DEF Inv, RunnerOK, ReadingOK, HostNeverAhead, MocksOf, TestNo
  <2>3. BoxOK'
    BY <1>1, <1>2 DEF Inv, BoxOK, ServesTest, CountedFor, MocksOf, serviceVars
  <2> QED BY <2>1, <2>2, <2>3 DEF Inv
<1> QED BY <1>1, <1>2, FreshStartInv DEF Reloaded

-----------------------------------------------------------------------------
\* While a spec runs only the place of the runner changes, or its verdicts.
LEMMA Onward ==
  ASSUME Inv, TypeOK', UNCHANGED <<reading, host, box, reload, credit>>,
         step' \notin {"start", "reload"}, step \notin {"start", "reload"},
         UNCHANGED test, reading # NoReading => step' = "collect"
  PROVE  Inv'
<1>1. RunnerOK' /\ ReadingOK' /\ HostNeverAhead'
  BY DEF Inv, RunnerOK, ReadingOK, HostNeverAhead, MocksOf, TestNo
<1>2. BoxOK'
  BY DEF Inv, BoxOK, ServesTest, CountedFor, MocksOf
<1> QED BY <1>1, <1>2 DEF Inv

LEMMA EndInv ==
  ASSUME Inv, step \notin {"start", "reload"}, reading = NoReading, NEW v \in Verdicts, End(v)
  PROVE  Inv'
<1>1. test \in TestNo /\ test' \in 1 .. (Len(Tests) + 1)
  BY TestsAssumption DEF Inv, RunnerOK, TestNo, End
<1>2. /\ kept' \in BOOLEAN /\ live' \subseteq TestNo /\ step' \in Steps
      /\ verdict' \in [TestNo -> Verdicts]
  BY <1>1, TestsAssumption DEF Inv, TypeOK, End, Steps, canUsePersistentContainers
<1>3. TypeOK'
  BY <1>1, <1>2 DEF Inv, TypeOK, End
<1>4. RunnerOK' /\ ReadingOK' /\ HostNeverAhead'
  BY DEF Inv, RunnerOK, ReadingOK, HostNeverAhead, MocksOf, End
<1>5. BoxOK'
  BY DEF Inv, BoxOK, CountedFor, End
<1> QED BY <1>3, <1>4, <1>5 DEF Inv

LEMMA TriggerInv ==
  ASSUME Inv, Trigger
  PROVE  Inv'
<1>1. step = "trigger" /\ test \in TestNo /\ reading = NoReading
  BY DEF Trigger, Inv, RunnerOK
<1>2. /\ step' \in {"collect", "await"} /\ reason' \in {"poll", reason}
      /\ left' \subseteq Sidecars /\ live' \subseteq TestNo /\ ticks' \in 0 .. MaxTicks
  BY <1>1, BoundsAssumption DEF Trigger, Collect, Inv, TypeOK
<1>3. TypeOK'
  BY <1>2 DEF Trigger, Inv, TypeOK, Steps
<1> QED BY <1>1, <1>2, <1>3, Onward DEF Trigger

LEMMA RespondInv ==
  ASSUME Inv, Respond
  PROVE  Inv'
<1>1. step = "await" /\ reading = NoReading
  BY DEF Respond, Inv, RunnerOK
<1>2. ASSUME NEW why \in {"final", "mismatch"}, Collect(why),
             UNCHANGED <<test, tries, reading, ticks, kept, reused, host, verdict,
                         serviceVars, box, reload, alive>>
      PROVE  Inv'
  <2>1. TypeOK'
    BY <1>2 DEF Collect, Inv, TypeOK, Steps, serviceVars
  <2> QED BY <1>1, <1>2, <2>1, Onward DEF Collect, serviceVars
<1>3. ASSUME NEW v \in {"body", "error"}, End(v) PROVE Inv'
  BY <1>1, <1>3, EndInv DEF Verdicts
<1> QED BY <1>2, <1>3 DEF Respond

LEMMA ReadHitsInv ==
  ASSUME Inv, ReadHits
  PROVE  Inv'
<1>0. PICK s \in left \cap alive : \E f \in GetHits(s) :
           reading' = [from |-> s, hits |-> f, passes |-> 0, part |-> 1]
  BY DEF ReadHits
<1>1. PICK f \in GetHits(s) : reading' = [from |-> s, hits |-> f, passes |-> 0, part |-> 1]
  BY <1>0
<1>2. s \in Sidecars /\ box[s].test = test /\ step = "collect"
      /\ UNCHANGED <<test, step, host, box, reload, credit>>
  BY DEF ReadHits, Inv, TypeOK, BoxOK, ServesTest, serviceVars
<1>3. \A m \in Mocks : box[s].hits[m] \in Nat
  BY <1>2 DEF Inv, TypeOK
<1>4. \A k \in Keys : /\ f[k] \in Nat
                      /\ f[k] > 0 => \E n \in MocksOf(test) : HitKey[n] = k /\ f[k] <= box[s].hits[n]
  <2> SUFFICES ASSUME NEW k \in Keys
               PROVE  /\ f[k] \in Nat
                      /\ f[k] > 0 => \E n \in MocksOf(test) : HitKey[n] = k /\ f[k] <= box[s].hits[n]
    OBVIOUS
  <2>1. f[k] \in Counts(s, k)
    BY DEF GetHits
  <2>2. f[k] = 0 \/ \E n \in Mocks : HitKey[n] = k /\ box[s].hits[n] > 0 /\ f[k] = box[s].hits[n]
    BY <2>1 DEF Counts
  <2>3. \A n \in Mocks : box[s].hits[n] > 0 => n \in MocksOf(test)
    BY <1>2 DEF Inv, BoxOK, ServesTest
  <2> QED BY <1>3, <2>2, <2>3
<1>5. f \in [Keys -> Nat]
  <2>1. f \in [Keys -> UNION {Counts(s, k) : k \in Keys}]
    BY DEF GetHits
  <2> QED BY <2>1, <1>4
<1>6. reading' \in [from : Sidecars, hits : [Keys -> Nat], passes : Nat, part : {1, 2}]
      /\ reading'.from = s /\ reading'.hits = f
  BY <1>1, <1>2, <1>5
<1>7. TypeOK'
  BY <1>6 DEF ReadHits, Inv, TypeOK, serviceVars
<1>8. RunnerOK' /\ HostNeverAhead'
  BY <1>2 DEF Inv, RunnerOK, HostNeverAhead, MocksOf, TestNo
<1>9. ReadingOK' /\ BoxOK'
  BY <1>2, <1>4, <1>6 DEF Inv, ReadingOK, BoxOK, ServesTest, CountedFor, MocksOf
<1> QED BY <1>7, <1>8, <1>9 DEF Inv

LEMMA ReadPassthroughsInv ==
  ASSUME Inv, ReadPassthroughs
  PROVE  Inv'
<1> DEFINE s == reading.from
<1>1. /\ reading # NoReading /\ step = "collect"
      /\ reading \in [from : Sidecars, hits : [Keys -> Nat], passes : Nat, part : {1, 2}]
      /\ UNCHANGED <<test, step, host, box, reload, credit>>
  BY DEF ReadPassthroughs, Inv, TypeOK, serviceVars
<1>2. box[s].passes \in Nat
  BY <1>1 DEF Inv, TypeOK
<1>3. /\ reading' \in [from : Sidecars, hits : [Keys -> Nat], passes : Nat, part : {1, 2}]
      /\ reading'.from = reading.from /\ reading'.hits = reading.hits
  BY <1>1, <1>2 DEF ReadPassthroughs
<1>4. TypeOK'
  BY <1>3 DEF ReadPassthroughs, Inv, TypeOK, serviceVars
<1>5. RunnerOK' /\ HostNeverAhead' /\ BoxOK'
  BY <1>1 DEF Inv, RunnerOK, HostNeverAhead, BoxOK, ServesTest, CountedFor, MocksOf, TestNo
<1>6. ReadingOK'
  BY <1>1, <1>3 DEF Inv, ReadingOK, MocksOf
<1> QED BY <1>4, <1>5, <1>6 DEF Inv

(***************************************************************************)
(* Merging takes the larger of two counts: nothing is taken back, and what *)
(* is new was read off a sidecar.                                          *)
(***************************************************************************)
LEMMA MergeCounts ==
  ASSUME Inv, Merge
  PROVE  /\ host' \in [hits : [Mocks -> Nat], passes : Nat, errors : SUBSET Calls]
         /\ \A m \in Mocks :
               /\ host.hits[m] <= host'.hits[m]
               /\ host'.hits[m] \in {host.hits[m], reading.hits[HitKey[m]]}
<1>1. /\ reading \in [from : Sidecars, hits : [Keys -> Nat], passes : Nat, part : {1, 2}]
      /\ host.hits \in [Mocks -> Nat] /\ host.passes \in Nat /\ host.errors \subseteq Calls
  BY DEF Merge, Inv, TypeOK
<1>2. box[reading.from].errors \subseteq Calls
  BY <1>1 DEF Inv, TypeOK
<1>3. \A m \in Mocks : HitKey[m] \in Keys /\ reading.hits[HitKey[m]] \in Nat
  BY <1>1 DEF Keys
<1> DEFINE new == SetHits(host.hits, reading.hits)
<1>4. new \in [Mocks -> Nat]
      /\ \A m \in Mocks : host.hits[m] <= new[m] /\ new[m] \in {host.hits[m], reading.hits[HitKey[m]]}
  BY <1>1, <1>3 DEF SetHits
<1>5. /\ host'.hits = new
      /\ host' = [hits |-> new, passes |-> host.passes + reading.passes,
                  errors |-> host.errors \cup box[reading.from].errors]
  BY DEF Merge
<1> HIDE DEF new
<1> QED BY <1>1, <1>2, <1>4, <1>5

LEMMA MergeInv ==
  ASSUME Inv, Merge
  PROVE  Inv'
<1>1. /\ reading # NoReading /\ reading.from \in Sidecars
      /\ reading' = NoReading /\ tries' = 0 /\ left' \subseteq Sidecars
      /\ UNCHANGED <<test, step, reason, ticks, kept, reused, verdict, serviceVars, box, reload, alive>>
  BY DEF Merge, Inv, TypeOK
<1>2. TypeOK'
  BY <1>1, MergeCounts, BoundsAssumption DEF Inv, TypeOK, serviceVars
<1>3. RunnerOK' /\ ReadingOK' /\ BoxOK'
  <2>1. step = "collect"
    BY DEF Merge
  <2> QED BY <1>1, <2>1 DEF Inv, RunnerOK, ReadingOK, BoxOK, ServesTest, CountedFor, MocksOf,
                            serviceVars, TestNo
<1>4. HostNeverAhead'
  <2> SUFFICES ASSUME NEW m \in Mocks, host'.hits[m] > 0
               PROVE  \E s \in Sidecars : \E n \in MocksOf(box[s].test) :
                         HitKey[n] = HitKey[m] /\ host'.hits[m] <= box[s].hits[n]
    BY <1>1 DEF HostNeverAhead, MocksOf
  <2>1. CASE host'.hits[m] = host.hits[m]
    BY <2>1 DEF Inv, HostNeverAhead
  <2>2. CASE host'.hits[m] = reading.hits[HitKey[m]]
    BY <1>1, <2>2 DEF Inv, ReadingOK, Keys
  <2> QED BY <2>1, <2>2, MergeCounts
<1> QED BY <1>2, <1>3, <1>4 DEF Inv

LEMMA GetFailsInv ==
  ASSUME Inv, GetFails
  PROVE  Inv'
<1>1. /\ step = "collect" /\ reading' \in {reading, NoReading}
      /\ UNCHANGED <<test, step, reason, ticks, kept, reused, host, verdict,
                     serviceVars, box, reload, alive>>
  BY DEF GetFails
<1>2. left' \subseteq Sidecars /\ tries' \in 0 .. (Attempts - 1)
  BY BoundsAssumption DEF GetFails, Inv, TypeOK
<1>3. TypeOK'
  BY <1>1, <1>2 DEF Inv, TypeOK, serviceVars
<1>4. RunnerOK' /\ BoxOK' /\ HostNeverAhead'
  BY <1>1 DEF Inv, RunnerOK, BoxOK, ServesTest, CountedFor, HostNeverAhead, MocksOf, serviceVars, TestNo
<1>5. ReadingOK'
  BY <1>1 DEF Inv, ReadingOK, MocksOf
<1> QED BY <1>3, <1>4, <1>5 DEF Inv

LEMMA PollInv ==
  ASSUME Inv, Poll
  PROVE  Inv'
<1>1. step \in {"collect", "tick"} /\ reading = NoReading
  BY DEF Poll, Collected, Inv, RunnerOK
<1>2. CASE End("timeout")
  BY <1>1, <1>2, EndInv DEF Verdicts
<1>3. CASE /\ step' \in {"collect", "tick"} /\ reason' \in {reason, "final", "poll"}
           /\ left' \in {left, Sidecars} /\ ticks' \in 0 .. MaxTicks
           /\ UNCHANGED <<test, tries, reading, kept, reused, host, verdict,
                          serviceVars, box, reload, alive>>
  <2>1. TypeOK'
    BY <1>3 DEF Inv, TypeOK, serviceVars, Steps
  <2> QED BY <1>1, <1>3, <2>1, Onward DEF serviceVars
<1>4. ticks \in 0 .. MaxTicks /\ MaxTicks \in Nat
  BY BoundsAssumption DEF Inv, TypeOK
<1> QED BY <1>2, <1>3, <1>4 DEF Poll, Collect

LEMMA JudgeInv ==
  ASSUME Inv, Judge
  PROVE  Inv'
<1>1. step = "collect" /\ reading = NoReading
  BY DEF Judge, Collected
<1>2. \E v \in Verdicts : End(v)
  BY DEF Judge, Verdicts
<1> QED BY <1>1, <1>2, EndInv

(***************************************************************************)
(* The invariant is inductive.                                             *)
(***************************************************************************)
LEMMA StepInv == Inv /\ [Next]_vars => Inv'
<1> SUFFICES ASSUME Inv, [Next]_vars PROVE Inv'
  OBVIOUS
<1>1. ASSUME NEW c \in Calls, Lookup(c) PROVE Inv'
  BY <1>1, LookupInv
<1>2. ASSUME NEW c \in Calls, VerifyCall(c) PROVE Inv'
  BY <1>2, VerifyCallInv
<1>3. CASE (\E c \in Calls : CallFails(c) \/ Stray(c)) \/ \E s \in Sidecars : Crash(s)
  BY <1>3, FailureInv
<1>4. CASE Start
  BY <1>4, StartInv
<1>5. ASSUME NEW s \in Sidecars, Reload(s) PROVE Inv'
  BY <1>5, ReloadInv
<1>6. CASE Reloaded
  BY <1>6, ReloadedInv
<1>7. CASE Trigger \/ Respond
  BY <1>7, TriggerInv, RespondInv
<1>8. CASE ReadHits \/ ReadPassthroughs \/ Merge \/ GetFails
  BY <1>8, ReadHitsInv, ReadPassthroughsInv, MergeInv, GetFailsInv
<1>9. CASE Poll \/ Judge
  BY <1>9, PollInv, JudgeInv
<1>10. CASE UNCHANGED vars
  BY <1>10 DEF vars, runnerVars, serviceVars, Inv, TypeOK, RunnerOK, BoxOK, ServesTest, ReadingOK,
               HostNeverAhead, CountedFor, MocksOf, TestNo
<1> QED BY <1>1, <1>2, <1>3, <1>4, <1>5, <1>6, <1>7, <1>8, <1>9, <1>10 DEF Next, Runner, Service

\* Every value stays in its type.
THEOREM CollectionTyped == Spec => []TypeOK
<1>1. Inv => TypeOK
  BY DEF Inv
<1> QED BY InitInv, StepInv, <1>1, PTL DEF Spec

\* The runner never believes more of a mock than a sidecar that has the
\* spec loaded counted for a mock of that key.
THEOREM HostNeverAheadAlways == Spec => []HostNeverAhead
<1>1. Inv => HostNeverAhead
  BY DEF Inv
<1> QED BY InitInv, StepInv, <1>1, PTL DEF Spec
-----------------------------------------------------------------------------
\* What was counted stays counted.
LEMMA CreditGrows == [Next]_vars => credit \subseteq credit'
<1> SUFFICES ASSUME [Next]_vars PROVE credit \subseteq credit'
  OBVIOUS
<1>1. CASE \E c \in Calls : Lookup(c)
  BY <1>1 DEF Lookup
<1>2. CASE ~\E c \in Calls : Lookup(c)
  BY <1>2 DEF Next, Runner, Service, vars, serviceVars, VerifyCall, CallFails, Stray, Crash, Start, FreshStart,
              Reload, Reloaded, Trigger, Respond, End, ReadHits, ReadPassthroughs, Merge, GetFails,
              Poll, Judge
<1> QED BY <1>1, <1>2

\* A verdict is only ever given by End, and "pass" only where nothing is missing.
LEMMA OnlyJudgePasses ==
  ASSUME Inv, [Next]_vars, NEW t \in TestNo, verdict'[t] = "pass"
  PROVE  \/ verdict[t] = "pass"
         \/ t = test /\ step = "collect" /\ ~Missing
<1>1. CASE UNCHANGED verdict
  BY <1>1
<1>2. CASE ~UNCHANGED verdict
  <2>0. Respond \/ Poll \/ Judge
    BY <1>2 DEF Next, Runner, Service, vars, runnerVars, Lookup, VerifyCall, CallFails, Stray, Crash, Start,
                FreshStart, Reload, Reloaded, Trigger, ReadHits, ReadPassthroughs, Merge, GetFails
  <2>1. PICK v : End(v) /\ (v = "pass" => step = "collect" /\ ~Missing)
    <3>1. CASE Respond
      BY <1>2, <3>1 DEF Respond
    <3>2. CASE Poll
      BY <1>2, <3>2 DEF Poll
    <3>3. CASE Judge
      <4>1. step = "collect" /\ \E v : End(v) /\ (v = "pass" => ~Missing)
        <5>1. ASSUME NEW v \in {"verify", "status", "forbidden", "never", "bypassed"}, End(v)
              PROVE  \E w : End(w) /\ (w = "pass" => ~Missing)
          <6>1. v # "pass"
            OBVIOUS
          <6> QED BY <5>1, <6>1
        <5>2. ASSUME VerifyAll, End("pass") PROVE \E w : End(w) /\ (w = "pass" => ~Missing)
          BY <5>2 DEF VerifyAll
        <5> QED BY <3>3, <5>1, <5>2 DEF Judge, Collected
      <4> QED BY <4>1
    <3> QED BY <2>0, <3>1, <3>2, <3>3
  <2>2. verdict' = [verdict EXCEPT ![test] = v] /\ verdict \in [TestNo -> Verdicts]
    BY <2>1 DEF End, Inv, TypeOK
  <2>3. CASE t = test
    BY <2>1, <2>2, <2>3
  <2>4. CASE t # test
    BY <2>2, <2>4
  <2> QED BY <2>3, <2>4
<1> QED BY <1>1, <1>2

\* Where keys tell the mocks of a spec apart, a mock that is not missing was
\* counted, under its own name.
LEMMA NotMissingCounted ==
  ASSUME KeysApart, Inv, step = "collect", ~Missing, NEW m \in Tests[test].expects
  PROVE  CountedFor(m)
<1>1. test \in TestNo /\ m \in MocksOf(test) /\ m \in Mocks
  BY MocksOfAreMocks DEF Inv, RunnerOK, MocksOf
<1>2. host.hits[m] > 0
  BY <1>1 DEF Missing, Inv, TypeOK
<1>3. PICK s \in Sidecars : \E n \in MocksOf(box[s].test) :
           HitKey[n] = HitKey[m] /\ host.hits[m] <= box[s].hits[n]
  BY <1>1, <1>2 DEF Inv, HostNeverAhead
<1>4. box[s].test = test
  BY DEF Inv, BoxOK, ServesTest
<1>5. host.hits[m] <= box[s].hits[m]
  BY <1>1, <1>3, <1>4 DEF KeysApart
<1>6. box[s].hits[m] > 0
  BY <1>1, <1>2, <1>5 DEF Inv, TypeOK
<1> QED BY <1>1, <1>6 DEF Inv, BoxOK

(***************************************************************************)
(* If the keys tell the mocks of each spec apart, a spec that passes had   *)
(* each of its EXPECTs called: no report is mistaken for another, taken    *)
(* over from an earlier spec, or made up.                                  *)
(***************************************************************************)
THEOREM PassMeansCalledAlways == KeysApart => (Spec => []PassMeansCalled)
<1> SUFFICES ASSUME KeysApart PROVE Spec => []PassMeansCalled
  OBVIOUS
<1>1. Init => PassMeansCalled
  BY DEF Init, PassMeansCalled, Passed
<1>2. PassMeansCalled /\ Inv /\ [Next]_vars => PassMeansCalled'
  <2> SUFFICES ASSUME PassMeansCalled, Inv, [Next]_vars,
                      NEW t \in TestNo, verdict'[t] = "pass", NEW m \in Tests[t].expects
               PROVE  CountedFor(m)'
    BY DEF PassMeansCalled, Passed, CountedFor
  <2>1. CountedFor(m)
    <3>1. CASE verdict[t] = "pass"
      BY <3>1 DEF PassMeansCalled, Passed
    <3>2. CASE t = test /\ step = "collect" /\ ~Missing
      BY <3>2, NotMissingCounted
    <3> QED BY <3>1, <3>2, OnlyJudgePasses
  <2> QED BY <2>1, CreditGrows DEF CountedFor
<1> QED BY InitInv, StepInv, <1>1, <1>2, PTL DEF Spec

\* Only a merge or the start of the next spec changes what the runner believes.
THEOREM HitsOnlyGrowAlways == Spec => HitsOnlyGrow
<1>1. Inv /\ [Next]_vars => [NothingTakenBack]_vars
  <2> SUFFICES ASSUME Inv, [Next]_vars, step \in {"collect", "tick"}, NEW m \in Mocks
               PROVE  host.hits[m] <= host'.hits[m]
    BY DEF NothingTakenBack
  <2>1. host.hits[m] \in Nat
    BY DEF Inv, TypeOK
  <2>2. CASE Merge
    BY <2>2, MergeCounts
  <2>3. CASE ~Merge
    <3>1. UNCHANGED host
      BY <2>3 DEF Next, Runner, Service, vars, runnerVars, Lookup, VerifyCall, CallFails, Stray, Crash, Start,
                  FreshStart, Reload, Reloaded, Trigger, Respond, End, ReadHits, ReadPassthroughs,
                  GetFails, Poll, Judge
    <3> QED BY <2>1, <3>1
  <2> QED BY <2>2, <2>3
<1> QED BY InitInv, StepInv, <1>1, PTL DEF Spec, HitsOnlyGrow

-----------------------------------------------------------------------------
(***************************************************************************)
(* What a verdict says of the service: a spec that passes made no call it  *)
(* should not have made, and a service that makes exactly the calls of its *)
(* specs passes.  Both follow a call from its lookup over the sidecar's    *)
(* counters and the answer under way into the runner's registry.           *)
(***************************************************************************)
Underway == step \in {"await", "collect", "tick"}

\* The service was asked to do what spec t is about.
Triggered(t) == t < test \/ (t = test /\ Underway)

Answered(c) == status[c] \in {"done", "failed", "bypassed"}

\* Every sidecar of the spec lives, and no older one is about.
Whole == alive = Sidecars /\ orphans = {}

(***************************************************************************)
(* A call is made for a spec that was triggered, and leaves no trace       *)
(* before it is made; a spec is collected once the calls it waits for were *)
(* answered.                                                               *)
(***************************************************************************)
CallsOK ==
    /\ \A t \in live \cup orphans : Triggered(t)
    /\ \A c \in Calls :
          /\ status[c] # "waiting" => \E t \in TestNo : Triggered(t) /\ c \in Tests[t].calls
          /\ status[c] = "waiting" =>
                /\ \A m \in Mocks : <<c, m>> \notin credit
                /\ \A t \in TestNo : <<c, t>> \notin complaints

SettledOK ==
    \A t \in TestNo : t < test \/ (t = test /\ step \in {"collect", "tick"}) =>
        \A c \in AwaitedCalls(t) : Answered(c)

\* What an awaited call of the spec did, its sidecar still says.
TraceOK ==
    Whole /\ Underway => \A c \in AwaitedCalls(test) :
        LET b == box[Call[c].at] IN
        /\ \A m \in MocksOf(test) : <<c, m>> \in credit => b.hits[m] > 0
        /\ <<c, test>> \in complaints => c \in b.errors
        /\ status[c] = "bypassed" => b.passes > 0

\* A sidecar that was asked told the runner, one that is being asked told so far.
ReadOK ==
    Whole /\ step = "collect" => \A c \in AwaitedCalls(test) :
        LET s == Call[c].at IN
        /\ s \notin left =>
             /\ \A m \in MocksOf(test) : <<c, m>> \in credit => host.hits[m] > 0
             /\ <<c, test>> \in complaints => c \in host.errors
             /\ status[c] = "bypassed" => host.passes > 0
        /\ reading # NoReading /\ reading.from = s =>
             /\ \A m \in MocksOf(test) : <<c, m>> \in credit => reading.hits[HitKey[m]] > 0
             /\ reading.part = 2 /\ status[c] = "bypassed" => reading.passes > 0

CleanInv == CallsOK /\ SettledOK /\ TraceOK /\ ReadOK

-----------------------------------------------------------------------------
(***************************************************************************)
(* Facts about the scenario, and about a lookup.                           *)
(***************************************************************************)
\* A call belongs to one spec, a statement too.
LEMMA OneSpecEach ==
  ASSUME NEW t \in TestNo, NEW u \in TestNo
  PROVE  /\ \A c : c \in Tests[t].calls /\ c \in Tests[u].calls => t = u
         /\ \A m : m \in MocksOf(t) /\ m \in MocksOf(u) => t = u
         /\ Tests[t].calls \subseteq Calls /\ AwaitedCalls(t) \subseteq Tests[t].calls
         /\ Tests[t].kind = "async" => AwaitedCalls(t) = {}
BY ServiceAssumption, TestsAssumption DEF AwaitedCalls

\* Of a spec that was not triggered no call was made.
LEMMA NotYetCalled ==
  ASSUME CallsOK, NEW t \in TestNo, ~Triggered(t), NEW c \in Tests[t].calls
  PROVE  /\ status[c] = "waiting"
         /\ \A m \in Mocks : <<c, m>> \notin credit
         /\ \A u \in TestNo : <<c, u>> \notin complaints
<1>1. c \in Calls
  BY OneSpecEach
<1>2. status[c] = "waiting"
  BY <1>1, OneSpecEach DEF CallsOK
<1> QED BY <1>1, <1>2 DEF CallsOK

\* What a lookup leaves at its sidecar besides what it raises: the charge of every
\* mock it is credited for, or a passthrough.
LEMMA LookupLeaves ==
  ASSUME TypeOK, NEW c \in Calls, Lookup(c)
  PROVE  LET s == Call[c].at IN
         /\ \A r \in Sidecars : /\ box'[r].errors = box[r].errors
                                /\ box[r].passes <= box'[r].passes
         /\ \A m \in Mocks : <<c, m>> \in credit' /\ <<c, m>> \notin credit => box'[s].hits[m] > 0
         /\ \A d \in Calls, m \in Mocks : d # c => (<<d, m>> \in credit' <=> <<d, m>> \in credit)
         /\ \A d \in Calls : d # c => status'[d] = status[d]
         /\ status'[c] \in {"held", "bypassed"}
         /\ status'[c] = "bypassed" => Offered(c) = {} /\ box'[s].passes > 0
         /\ status'[c] = "held" =>
               /\ \E m \in Offered(c) : <<c, m>> \in credit'
               /\ \A r \in Sidecars : box'[r].passes = box[r].passes
         /\ \A m \in Mocks : <<c, m>> \in credit' /\ <<c, m>> \notin credit =>
               m \in Call[c].fits /\ m \in LoadedMocks(s)
<1> DEFINE s == Call[c].at
<1>1. s \in Sidecars /\ Call[c].fits \subseteq Mocks
  BY CallAssumption
<1>2. box \in [Sidecars -> Boxes] /\ box[s] \in Boxes /\ status \in [Calls -> {"waiting", "held", "done", "failed", "bypassed"}]
  BY <1>1 DEF TypeOK, Boxes
<1>3. box[s].hits \in [Mocks -> Nat] /\ box[s].passes \in Nat
      /\ \A r \in Sidecars : box[r].passes \in Nat
  BY <1>2 DEF Boxes
<1>4. Charged(c) \subseteq Mocks /\ Offered(c) \subseteq Mocks
  BY <1>1 DEF Charged, Offered
<1>5. \A m \in Charged(c) \cup Offered(c) : m \in Call[c].fits /\ m \in LoadedMocks(s)
  BY DEF Charged, Offered, LoadedMocks, MocksOf
<1>6. CASE \E m \in Offered(c) :
             /\ box' = [box EXCEPT ![s].hits = [n \in Mocks |->
                          IF n = m \/ n \in Charged(c) THEN @[n] + 1 ELSE @[n]]]
             /\ status' = [status EXCEPT ![c] = "held"]
             /\ credit' = credit \cup {<<c, n>> : n \in {m} \cup Charged(c)}
  <2>1. PICK m \in Offered(c) :
             /\ box' = [box EXCEPT ![s].hits = [n \in Mocks |->
                          IF n = m \/ n \in Charged(c) THEN @[n] + 1 ELSE @[n]]]
             /\ status' = [status EXCEPT ![c] = "held"]
             /\ credit' = credit \cup {<<c, n>> : n \in {m} \cup Charged(c)}
    BY <1>6
  <2> DEFINE new == [n \in Mocks |-> IF n = m \/ n \in Charged(c) THEN box[s].hits[n] + 1
                                     ELSE box[s].hits[n]]
  <2>2. \A n \in {m} \cup Charged(c) : new[n] > 0
    BY <1>3, <1>4
  <2>3. box' = [box EXCEPT ![s] = [box[s] EXCEPT !.hits = new]]
    BY <2>1
  <2> HIDE DEF new
  <2>4. box'[s].hits = new /\ \A r \in Sidecars : box'[r].errors = box[r].errors /\ box'[r].passes = box[r].passes
    BY <1>1, <1>2, <2>3 DEF Boxes
  <2>5. status'[c] = "held" /\ \A d \in Calls : d # c => status'[d] = status[d]
    BY <1>2, <2>1
  <2>6. \A d, n : <<d, n>> \in credit' <=> <<d, n>> \in credit \/ (d = c /\ n \in {m} \cup Charged(c))
    BY <2>1
  <2> QED BY <1>3, <1>5, <2>1, <2>2, <2>4, <2>5, <2>6
<1>7. CASE /\ Offered(c) = {}
           /\ box' = [box EXCEPT ![s].passes = @ + 1,
                        ![s].hits = [n \in Mocks |-> IF n \in Charged(c) THEN @[n] + 1 ELSE @[n]]]
           /\ status' = [status EXCEPT ![c] = "bypassed"]
           /\ credit' = credit \cup {<<c, n>> : n \in Charged(c)}
  <2> DEFINE new == [n \in Mocks |-> IF n \in Charged(c) THEN box[s].hits[n] + 1 ELSE box[s].hits[n]]
  <2>1. \A n \in Charged(c) : new[n] > 0
    BY <1>3, <1>4
  <2>2. box' = [box EXCEPT ![s] = [box[s] EXCEPT !.passes = @ + 1, !.hits = new]]
    BY <1>7, <1>1, <1>2
  <2> HIDE DEF new
  <2>3. /\ box'[s].hits = new /\ box'[s].passes = box[s].passes + 1
        /\ \A r \in Sidecars : box'[r].errors = box[r].errors /\ (r # s => box'[r] = box[r])
    BY <1>1, <1>2, <2>2 DEF Boxes
  <2>4. status'[c] = "bypassed" /\ \A d \in Calls : d # c => status'[d] = status[d]
    BY <1>2, <1>7
  <2>5. \A d, n : <<d, n>> \in credit' <=> <<d, n>> \in credit \/ (d = c /\ n \in Charged(c))
    BY <1>7
  <2>6. \A r \in Sidecars : box[r].passes <= box'[r].passes
    BY <1>3, <2>3
  <2>7. box'[s].passes > 0 /\ status'[c] # "held"
    BY <1>3, <2>3, <2>4
  <2> QED BY <1>5, <1>7, <2>1, <2>3, <2>4, <2>5, <2>6, <2>7
<1> QED BY <1>6, <1>7 DEF Lookup

-----------------------------------------------------------------------------
(***************************************************************************)
(* The service and the sidecars.                                           *)
(***************************************************************************)
LEMMA LookupClean ==
  ASSUME Inv, CleanInv, NEW c \in Calls, Lookup(c)
  PROVE  CleanInv'
<1> DEFINE s == Call[c].at
<1>1. /\ status[c] = "waiting" /\ s \in Sidecars
      /\ UNCHANGED <<runnerVars, alive, live, orphans, complaints>>
  BY CallAssumption DEF Lookup, Due
<1>2. PICK u \in live \cup orphans : c \in Tests[u].calls
  BY DEF Lookup, Due
<1>3. u \in TestNo /\ Triggered(u)
  BY DEF Inv, TypeOK, CleanInv, CallsOK
<1>4. /\ \A r \in Sidecars : box'[r].errors = box[r].errors /\ box[r].passes <= box'[r].passes
      /\ \A r \in Sidecars, m \in Mocks : box[r].hits[m] <= box'[r].hits[m]
      /\ \A r \in Sidecars : box[r].passes \in Nat /\ box'[r].passes \in Nat
      /\ \A r \in Sidecars, m \in Mocks : box[r].hits[m] \in Nat /\ box'[r].hits[m] \in Nat
  <2>1. box \in [Sidecars -> Boxes] /\ box' \in [Sidecars -> Boxes] /\ Raises(c)
    BY LookupRaises DEF Inv, TypeOK, Boxes, Raises
  <2>2. \A r \in Sidecars : /\ box[r].hits \in [Mocks -> Nat] /\ box'[r].hits \in [Mocks -> Nat]
                            /\ box[r].passes \in Nat /\ box'[r].passes \in Nat
    BY <2>1 DEF Boxes
  <2>3. ASSUME NEW r \in Sidecars, NEW m \in Mocks PROVE box[r].hits[m] <= box'[r].hits[m]
    <3>1. CASE r = s
      BY <2>1, <3>1 DEF Raises
    <3>2. CASE r # s
      <4>1. box'[r] = box[r]
        BY <2>1, <3>2 DEF Raises
      <4> QED BY <2>2, <4>1
    <3> QED BY <3>1, <3>2
  <2> QED BY <2>2, <2>3, LookupLeaves DEF Inv
<1>5. /\ \A d \in Calls : d # c => status'[d] = status[d]
      /\ status'[c] \in {"held", "bypassed"}
      /\ \A d \in Calls, m \in Mocks : d # c => (<<d, m>> \in credit' <=> <<d, m>> \in credit)
      /\ \A m \in Mocks : <<c, m>> \in credit' /\ <<c, m>> \notin credit => box'[s].hits[m] > 0
      /\ status'[c] = "bypassed" => box'[s].passes > 0
  BY LookupLeaves DEF Inv
<1>6. /\ \A m \in Mocks : <<c, m>> \notin credit
      /\ \A t \in TestNo : <<c, t>> \notin complaints
  BY <1>1 DEF CleanInv, CallsOK
<1>7. \A t : Triggered(t)' <=> Triggered(t)
  BY <1>1 DEF Triggered, Underway, runnerVars
<1>8. CallsOK'
  <2>1. \A t \in (live \cup orphans)' : Triggered(t)'
    BY <1>1, <1>7 DEF CleanInv, CallsOK
  <2>2. \A d \in Calls : status'[d] # "waiting" => \E t \in TestNo : Triggered(t)' /\ d \in Tests[t].calls
    BY <1>2, <1>3, <1>5, <1>7 DEF CleanInv, CallsOK
  <2>3. \A d \in Calls : status'[d] = "waiting" =>
            /\ \A m \in Mocks : <<d, m>> \notin credit'
            /\ \A t \in TestNo : <<d, t>> \notin complaints'
    BY <1>1, <1>5 DEF CleanInv, CallsOK
  <2> QED BY <2>1, <2>2, <2>3 DEF CallsOK, TestNo
<1>9. \A t \in TestNo : \A d \in AwaitedCalls(t) : d \in Calls /\ (Answered(d) => d # c /\ Answered(d)')
  BY <1>1, <1>5, OneSpecEach DEF Answered
<1>10. SettledOK'
  BY <1>1, <1>9 DEF CleanInv, SettledOK, runnerVars, TestNo, AwaitedCalls
<1>11. TraceOK'
  <2> SUFFICES ASSUME Whole, Underway, NEW d \in AwaitedCalls(test)
               PROVE  LET b == box'[Call[d].at] IN
                      /\ \A m \in MocksOf(test) : <<d, m>> \in credit' => b.hits[m] > 0
                      /\ <<d, test>> \in complaints => d \in b.errors
                      /\ status'[d] = "bypassed" => b.passes > 0
    BY <1>1 DEF TraceOK, Whole, Underway, runnerVars, AwaitedCalls, MocksOf
  <2>1. test \in TestNo /\ d \in Calls /\ Call[d].at \in Sidecars /\ MocksOf(test) \subseteq Mocks
    BY OneSpecEach, CallAssumption, MocksOfAreMocks DEF Inv, RunnerOK, Underway
  <2>2. LET b == box[Call[d].at] IN
        /\ \A m \in MocksOf(test) : <<d, m>> \in credit => b.hits[m] > 0
        /\ <<d, test>> \in complaints => d \in b.errors
        /\ status[d] = "bypassed" => b.passes > 0
    BY DEF CleanInv, TraceOK
  <2>3. CASE d = c
    BY <1>5, <1>6, <2>1, <2>3
  <2>4. CASE d # c
    <3>1. \A m \in MocksOf(test) : <<d, m>> \in credit' => box'[Call[d].at].hits[m] > 0
      BY <1>4, <1>5, <2>1, <2>2, <2>4
    <3>2. status'[d] = "bypassed" => box'[Call[d].at].passes > 0
      BY <1>4, <1>5, <2>1, <2>2, <2>4
    <3> QED BY <1>4, <2>1, <2>2, <3>1, <3>2
  <2> QED BY <2>3, <2>4
<1>12. ReadOK'
  <2> SUFFICES ASSUME Whole, step = "collect", NEW d \in AwaitedCalls(test)
               PROVE  /\ d # c /\ status'[d] = status[d]
                      /\ \A m \in MocksOf(test) : <<d, m>> \in credit' <=> <<d, m>> \in credit
    BY <1>1 DEF CleanInv, ReadOK, Whole, runnerVars, AwaitedCalls, MocksOf
  <2>1. test \in TestNo /\ Answered(d)
    BY DEF Inv, RunnerOK, CleanInv, SettledOK
  <2>2. d \in Calls /\ d # c
    BY <1>9, <2>1
  <2> QED BY <1>5, <2>1, <2>2, MocksOfAreMocks
<1> QED BY <1>8, <1>10, <1>11, <1>12 DEF CleanInv

LEMMA VerifyCallClean ==
  ASSUME Inv, CleanInv, NEW c \in Calls, VerifyCall(c)
  PROVE  CleanInv'
<1> DEFINE s == Call[c].at
<1>1. /\ status[c] = "held" /\ s \in Sidecars
      /\ UNCHANGED <<runnerVars, alive, live, orphans, credit>>
  BY CallAssumption DEF VerifyCall
<1>2. /\ \A r \in Sidecars : /\ box'[r].hits = box[r].hits /\ box'[r].passes = box[r].passes
                             /\ box[r].errors \subseteq box'[r].errors
      /\ Call[c].bad => c \in box'[s].errors
  <2>1. box \in [Sidecars -> Boxes]
    BY DEF Inv, TypeOK, Boxes
  <2>2. CASE Call[c].bad
    <3>1. box' = [box EXCEPT ![s].errors = @ \cup {c}]
      BY <2>2 DEF VerifyCall
    <3> QED BY <1>1, <2>1, <3>1 DEF Boxes
  <2>3. CASE ~Call[c].bad
    BY <2>3 DEF VerifyCall
  <2> QED BY <2>2, <2>3
<1>3. \A d \in Calls, t \in TestNo :
         <<d, t>> \in complaints' => <<d, t>> \in complaints \/ (d = c /\ Call[c].bad)
  BY DEF VerifyCall
<1>4. status'[c] = "done" /\ \A d \in Calls : d # c => status'[d] = status[d]
  BY DEF VerifyCall, Inv, TypeOK
<1>5. \A t : Triggered(t)' <=> Triggered(t)
  BY <1>1 DEF Triggered, Underway, runnerVars
<1>6. CallsOK'
  <2>1. \A t \in (live \cup orphans)' : Triggered(t)'
    BY <1>1, <1>5 DEF CleanInv, CallsOK
  <2>2. \A d \in Calls : status'[d] # "waiting" => \E t \in TestNo : Triggered(t)' /\ d \in Tests[t].calls
    BY <1>1, <1>4, <1>5 DEF CleanInv, CallsOK
  <2>3. \A d \in Calls : status'[d] = "waiting" =>
            /\ \A m \in Mocks : <<d, m>> \notin credit'
            /\ \A t \in TestNo : <<d, t>> \notin complaints'
    BY <1>1, <1>3, <1>4 DEF CleanInv, CallsOK
  <2> QED BY <2>1, <2>2, <2>3 DEF CallsOK, TestNo
<1>7. \A t \in TestNo : \A d \in AwaitedCalls(t) : d \in Calls /\ (Answered(d) => d # c /\ Answered(d)')
  BY <1>1, <1>4, OneSpecEach DEF Answered
<1>8. SettledOK'
  BY <1>1, <1>7 DEF CleanInv, SettledOK, runnerVars, TestNo, AwaitedCalls
<1>9. TraceOK'
  <2> SUFFICES ASSUME Whole, Underway, NEW d \in AwaitedCalls(test)
               PROVE  LET b == box'[Call[d].at] IN
                      /\ \A m \in MocksOf(test) : <<d, m>> \in credit => b.hits[m] > 0
                      /\ <<d, test>> \in complaints' => d \in b.errors
                      /\ status'[d] = "bypassed" => b.passes > 0
    BY <1>1 DEF TraceOK, Whole, Underway, runnerVars, AwaitedCalls, MocksOf
  <2>1. test \in TestNo /\ d \in Calls /\ Call[d].at \in Sidecars
    BY OneSpecEach, CallAssumption DEF Inv, RunnerOK, Underway
  <2>2. LET b == box[Call[d].at] IN
        /\ \A m \in MocksOf(test) : <<d, m>> \in credit => b.hits[m] > 0
        /\ <<d, test>> \in complaints => d \in b.errors
        /\ status[d] = "bypassed" => b.passes > 0
    BY DEF CleanInv, TraceOK
  <2> QED BY <1>2, <1>3, <1>4, <2>1, <2>2
<1>10. ReadOK'
  <2> SUFFICES ASSUME Whole, step = "collect", NEW d \in AwaitedCalls(test)
               PROVE  /\ status'[d] = status[d]
                      /\ <<d, test>> \in complaints' => <<d, test>> \in complaints
    BY <1>1 DEF CleanInv, ReadOK, Whole, runnerVars, AwaitedCalls, MocksOf
  <2>1. test \in TestNo /\ Answered(d)
    BY DEF Inv, RunnerOK, CleanInv, SettledOK
  <2>2. d \in Calls /\ d # c
    BY <1>7, <2>1
  <2> QED BY <1>3, <1>4, <2>1, <2>2
<1> QED BY <1>6, <1>8, <1>9, <1>10 DEF CleanInv

\* What fails, strays or dies takes its sidecar or the forgotten ones with it.
LEMMA FailureClean ==
  ASSUME Inv, CleanInv, (\E c \in Calls : CallFails(c) \/ Stray(c)) \/ \E s \in Sidecars : Crash(s)
  PROVE  CleanInv'
<1>1. UNCHANGED <<runnerVars, box, live, orphans, credit, complaints>>
  BY DEF CallFails, Stray, Crash
<1>2. ~Whole'
  BY CallAssumption DEF CallFails, Stray, Crash, Whole
<1>3. \A d \in Calls :
        /\ status'[d] = "waiting" => status[d] = "waiting"
        /\ Answered(d) => Answered(d)'
        /\ status'[d] # "waiting" => status[d] # "waiting" \/ \E t \in live \cup orphans : d \in Tests[t].calls
  BY DEF CallFails, Stray, Crash, Answered, Due, Inv, TypeOK
<1>4. \A t : Triggered(t)' <=> Triggered(t)
  BY <1>1 DEF Triggered, Underway, runnerVars
<1>5. CallsOK'
  <2>1. live \cup orphans \subseteq TestNo
    BY DEF Inv, TypeOK
  <2> QED BY <1>1, <1>3, <1>4, <2>1 DEF CleanInv, CallsOK, TestNo
<1>6. SettledOK'
  BY <1>1, <1>3, OneSpecEach DEF CleanInv, SettledOK, runnerVars, TestNo, AwaitedCalls
<1> QED BY <1>2, <1>5, <1>6 DEF CleanInv, TraceOK, ReadOK

-----------------------------------------------------------------------------
(***************************************************************************)
(* The runner between two specs, and the trigger: the calls of the spec    *)
(* have left no trace yet.                                                 *)
(***************************************************************************)
LEMMA FreshStartClean ==
  ASSUME Inv, CleanInv, step \in {"start", "reload"}, NEW b \in BOOLEAN, FreshStart(b)
  PROVE  CleanInv'
<1>1. /\ step' = "trigger" /\ UNCHANGED <<test, credit, complaints>>
      /\ (live \cup orphans)' \subseteq live \cup orphans
      /\ \A c \in Calls : status'[c] = IF status[c] = "held" THEN "failed" ELSE status[c]
  BY DEF FreshStart, Inv, TypeOK
<1>2. \A t : Triggered(t)' <=> Triggered(t)
  BY <1>1 DEF Triggered, Underway
<1>3. CallsOK'
  BY <1>1, <1>2 DEF CleanInv, CallsOK, TestNo
<1>4. SettledOK'
  BY <1>1, OneSpecEach DEF CleanInv, SettledOK, Answered, TestNo, AwaitedCalls
<1> QED BY <1>1, <1>3, <1>4 DEF CleanInv, TraceOK, ReadOK, Underway

\* Steps on which no call, no trace and no place of the runner depends.
LEMMA BetweenClean ==
  ASSUME Inv, CleanInv, UNCHANGED <<test, live, orphans, status, credit, complaints>>,
         step \in {"start", "reload"}, step' \in {"reload", "trigger"}
  PROVE  CleanInv'
<1>1. \A t : Triggered(t)' <=> Triggered(t)
  BY DEF Triggered, Underway
<1>2. CallsOK'
  BY <1>1 DEF CleanInv, CallsOK, TestNo
<1>3. SettledOK'
  BY DEF CleanInv, SettledOK, Answered, TestNo, AwaitedCalls
<1> QED BY <1>2, <1>3 DEF CleanInv, TraceOK, ReadOK, Underway

LEMMA StartClean ==
  ASSUME Inv, CleanInv, Start \/ Reloaded \/ \E s \in Sidecars : Reload(s)
  PROVE  CleanInv'
<1>1. CASE \E b \in BOOLEAN : step \in {"start", "reload"} /\ FreshStart(b)
  BY <1>1, FreshStartClean
<1>2. CASE /\ step \in {"start", "reload"} /\ step' \in {"reload", "trigger"}
           /\ UNCHANGED <<test, serviceVars>>
  BY <1>2, BetweenClean DEF serviceVars
<1>3. Start => \/ \E b \in BOOLEAN : step = "start" /\ FreshStart(b)
               \/ step = "start" /\ step' = "reload" /\ UNCHANGED <<test, serviceVars>>
  BY DEF Start
<1>4. Reloaded => \/ \E b \in BOOLEAN : step = "reload" /\ FreshStart(b)
                  \/ step = "reload" /\ step' = "trigger" /\ UNCHANGED <<test, serviceVars>>
  BY DEF Reloaded
<1>5. (\E s \in Sidecars : Reload(s)) => step = "reload" /\ step' = step /\ UNCHANGED <<test, serviceVars>>
  BY DEF Reload, runnerVars
<1> QED BY <1>1, <1>2, <1>3, <1>4, <1>5

LEMMA TriggerClean ==
  ASSUME Inv, CleanInv, Trigger
  PROVE  CleanInv'
<1>1. /\ step = "trigger" /\ test \in TestNo /\ live' = live \cup {test}
      /\ step' \in {"collect", "await"} /\ (step' = "collect" => Tests[test].kind = "async")
      /\ UNCHANGED <<test, reading, host, box, alive, orphans, status, credit, complaints>>
  BY DEF Trigger, Collect, Inv, RunnerOK
<1>2. ~Triggered(test)
  BY <1>1 DEF Triggered, Underway, TestNo
<1>3. \A t : Triggered(t)' <=> Triggered(t) \/ t = test
  BY <1>1 DEF Triggered, Underway
<1>4. CallsOK'
  BY <1>1, <1>3 DEF CleanInv, CallsOK, TestNo
<1>5. \A c \in AwaitedCalls(test) :
         /\ step' = "await" /\ status'[c] = "waiting" /\ c \in Calls
         /\ \A m \in Mocks : <<c, m>> \notin credit'
         /\ <<c, test>> \notin complaints'
  <2> SUFFICES ASSUME NEW c \in AwaitedCalls(test)
               PROVE  /\ step' = "await" /\ status'[c] = "waiting" /\ c \in Calls
                      /\ \A m \in Mocks : <<c, m>> \notin credit'
                      /\ <<c, test>> \notin complaints'
    OBVIOUS
  <2>1. c \in Tests[test].calls /\ c \in Calls /\ Tests[test].kind # "async"
    BY <1>1, OneSpecEach
  <2> QED BY <1>1, <1>2, <2>1, NotYetCalled DEF CleanInv
<1>6. SettledOK'
  <2> SUFFICES ASSUME NEW t \in TestNo, t < test \/ (t = test /\ step' = "collect"),
                      NEW c \in AwaitedCalls(t)
               PROVE  Answered(c)'
    BY <1>1 DEF SettledOK, TestNo, AwaitedCalls
  <2>1. t < test
    BY <1>5
  <2> QED BY <1>1, <2>1 DEF CleanInv, SettledOK, Answered
<1>7. TraceOK'
  BY <1>1, <1>5, MocksOfAreMocks DEF TraceOK, AwaitedCalls, MocksOf
<1>8. ReadOK'
  BY <1>1, <1>5 DEF ReadOK, AwaitedCalls
<1> QED BY <1>4, <1>6, <1>7, <1>8 DEF CleanInv

\* The end of a spec, whose awaited calls were answered.
LEMMA EndClean ==
  ASSUME Inv, CleanInv, step \in {"await", "collect", "tick"},
         \A c \in AwaitedCalls(test) : Answered(c), NEW v, End(v)
  PROVE  CleanInv'
<1>1. /\ test \in TestNo /\ test' = test + 1 /\ step' = "start"
      /\ live' \cup orphans' \subseteq live \cup orphans
      /\ UNCHANGED <<status, credit, complaints>>
  BY DEF End, Inv, RunnerOK
<1>2. \A t \in TestNo : Triggered(t) => Triggered(t)'
  BY <1>1 DEF Triggered, TestNo
<1>3. CallsOK'
  <2>1. live \cup orphans \subseteq TestNo
    BY DEF Inv, TypeOK
  <2> QED BY <1>1, <1>2, <2>1 DEF CleanInv, CallsOK, TestNo
<1>4. SettledOK'
  <2> SUFFICES ASSUME NEW t \in TestNo, t < test + 1, NEW c \in AwaitedCalls(t)
               PROVE  Answered(c)
    BY <1>1 DEF SettledOK, Answered, TestNo, AwaitedCalls
  <2>1. CASE t = test
    BY <2>1
  <2>2. CASE t < test
    BY <2>2 DEF CleanInv, SettledOK
  <2> QED BY <1>1, <2>1, <2>2 DEF TestNo
<1> QED BY <1>1, <1>3, <1>4 DEF CleanInv, TraceOK, ReadOK, Underway

-----------------------------------------------------------------------------
(***************************************************************************)
(* Collecting: what the sidecars say of the awaited calls is carried, part *)
(* by part, into the runner's registry.                                    *)
(***************************************************************************)
\* The calls and their traces stay, while the runner goes on within a spec.
LEMMA StillClean ==
  ASSUME Inv, CleanInv, Underway, Underway',
         step' \in {"collect", "tick"} => \A c \in AwaitedCalls(test) : Answered(c),
         UNCHANGED <<test, live, orphans, status, credit, complaints, box, alive>>
  PROVE  CallsOK' /\ SettledOK' /\ TraceOK'
<1>1. \A t : Triggered(t)' <=> Triggered(t)
  BY DEF Triggered
<1>2. CallsOK'
  BY <1>1 DEF CleanInv, CallsOK, TestNo
<1>3. SettledOK'
  BY DEF CleanInv, SettledOK, Answered, TestNo, AwaitedCalls
<1>4. TraceOK'
  BY DEF CleanInv, TraceOK, Whole, AwaitedCalls, MocksOf
<1> QED BY <1>2, <1>3, <1>4

\* A collection starts with all sidecars to be asked.
LEMMA CollectClean ==
  ASSUME Inv, CleanInv, Underway, step' \in {"collect", "tick"}, reading = NoReading,
         step' = "collect" => left' = Sidecars,
         \A c \in AwaitedCalls(test) : Answered(c),
         UNCHANGED <<test, reading, live, orphans, status, credit, complaints, box, alive>>
  PROVE  CleanInv'
<1>1. CallsOK' /\ SettledOK' /\ TraceOK'
  BY StillClean DEF Underway
<1>2. ASSUME step' = "collect", NEW c \in AwaitedCalls(test)
      PROVE  Call[c].at \in left' /\ ~(reading' # NoReading)
  <2>1. test \in TestNo /\ c \in Calls
    BY OneSpecEach DEF Inv, RunnerOK, Underway
  <2> QED BY <1>2, <2>1, CallAssumption
<1>3. ReadOK'
  BY <1>2 DEF ReadOK, AwaitedCalls
<1> QED BY <1>1, <1>3 DEF CleanInv

LEMMA ReadHitsClean ==
  ASSUME Inv, CleanInv, ReadHits
  PROVE  CleanInv'
<1>0. PICK s \in left \cap alive : \E f \in GetHits(s) :
           reading' = [from |-> s, hits |-> f, passes |-> 0, part |-> 1]
  BY DEF ReadHits
<1>1. PICK f \in GetHits(s) : reading' = [from |-> s, hits |-> f, passes |-> 0, part |-> 1]
  BY <1>0
<1>2. /\ step = "collect" /\ test \in TestNo
      /\ UNCHANGED <<test, step, left, host, live, orphans, status, credit, complaints, box, alive>>
  BY DEF ReadHits, serviceVars, Inv, RunnerOK
<1>3. CallsOK' /\ SettledOK' /\ TraceOK'
  BY <1>2, StillClean DEF Underway, CleanInv, SettledOK
<1>4. ASSUME NEW m \in Mocks, box[s].hits[m] > 0 PROVE f[HitKey[m]] > 0
  <2>1. HitKey[m] \in Keys
    BY DEF Keys
  <2>2. f[HitKey[m]] \in Counts(s, HitKey[m])
    BY <2>1 DEF GetHits
  <2> QED BY <1>4, <2>2 DEF Counts
<1>5. ReadOK'
  <2> SUFFICES ASSUME Whole, NEW c \in AwaitedCalls(test), reading'.from = Call[c].at
               PROVE  /\ \A m \in MocksOf(test) : <<c, m>> \in credit => reading'.hits[HitKey[m]] > 0
                      /\ reading'.part # 2
    BY <1>2 DEF CleanInv, ReadOK, Whole, AwaitedCalls, MocksOf
  <2>1. \A m \in MocksOf(test) : <<c, m>> \in credit => box[s].hits[m] > 0
    BY <1>1, <1>2 DEF CleanInv, TraceOK, Underway
  <2> QED BY <1>1, <1>2, <1>4, <2>1, MocksOfAreMocks
<1> QED BY <1>3, <1>5 DEF CleanInv

LEMMA ReadPassthroughsClean ==
  ASSUME Inv, CleanInv, ReadPassthroughs
  PROVE  CleanInv'
<1>1. /\ step = "collect" /\ test \in TestNo /\ reading # NoReading
      /\ UNCHANGED <<test, step, left, host, live, orphans, status, credit, complaints, box, alive>>
  BY DEF ReadPassthroughs, serviceVars, Inv, RunnerOK
<1>2. /\ reading'.from = reading.from /\ reading'.hits = reading.hits
      /\ reading'.passes = box[reading.from].passes
  BY <1>1 DEF ReadPassthroughs, Inv, TypeOK
<1>3. CallsOK' /\ SettledOK' /\ TraceOK'
  BY <1>1, StillClean DEF Underway, CleanInv, SettledOK
<1>4. ReadOK'
  <2> SUFFICES ASSUME Whole, NEW c \in AwaitedCalls(test), reading'.from = Call[c].at
               PROVE  /\ \A m \in MocksOf(test) : <<c, m>> \in credit => reading'.hits[HitKey[m]] > 0
                      /\ status[c] = "bypassed" => reading'.passes > 0
    BY <1>1 DEF CleanInv, ReadOK, Whole, AwaitedCalls, MocksOf
  <2>1. \A m \in MocksOf(test) : <<c, m>> \in credit => reading.hits[HitKey[m]] > 0
    BY <1>1, <1>2 DEF CleanInv, ReadOK
  <2>2. status[c] = "bypassed" => box[reading.from].passes > 0
    BY <1>1, <1>2 DEF CleanInv, TraceOK, Underway
  <2> QED BY <1>2, <2>1, <2>2
<1> QED BY <1>3, <1>4 DEF CleanInv

LEMMA MergeClean ==
  ASSUME Inv, CleanInv, Merge
  PROVE  CleanInv'
<1>1. /\ step = "collect" /\ test \in TestNo /\ reading # NoReading /\ reading.part = 2
      /\ reading' = NoReading /\ left' = left \ {reading.from}
      /\ UNCHANGED <<test, step, live, orphans, status, credit, complaints, box, alive>>
  BY DEF Merge, serviceVars, Inv, RunnerOK
<1>2. CallsOK' /\ SettledOK' /\ TraceOK'
  BY <1>1, StillClean DEF Underway, CleanInv, SettledOK
<1>3. /\ host'.errors = host.errors \cup box[reading.from].errors
      /\ host'.passes = host.passes + reading.passes
      /\ host.passes \in Nat /\ reading.passes \in Nat
  BY <1>1 DEF Merge, Inv, TypeOK
<1>4. ASSUME NEW m \in MocksOf(test)
      PROVE  /\ host.hits[m] > 0 => host'.hits[m] > 0
             /\ reading.hits[HitKey[m]] > 0 => host'.hits[m] > 0
  <2>1. m \in Mocks
    BY <1>1, MocksOfAreMocks
  <2>2. host.hits[m] \in Nat /\ host'.hits[m] \in Nat /\ reading.hits[HitKey[m]] \in Nat
        /\ host.hits[m] <= host'.hits[m]
    BY <1>1, <2>1, MergeCounts DEF Inv, TypeOK, Keys
  <2>3. host'.hits[m] = IF reading.hits[HitKey[m]] > host.hits[m] THEN reading.hits[HitKey[m]]
                        ELSE host.hits[m]
    BY <2>1 DEF Merge, SetHits
  <2> QED BY <2>2, <2>3
<1>5. ReadOK'
  <2> SUFFICES ASSUME Whole, NEW c \in AwaitedCalls(test),
                      Call[c].at \notin left \/ Call[c].at = reading.from
               PROVE  /\ \A m \in MocksOf(test) : <<c, m>> \in credit => host'.hits[m] > 0
                      /\ <<c, test>> \in complaints => c \in host'.errors
                      /\ status[c] = "bypassed" => host'.passes > 0
    BY <1>1 DEF ReadOK, Whole, AwaitedCalls, MocksOf
  <2>1. CASE Call[c].at \notin left
    BY <1>1, <1>3, <1>4, <2>1 DEF CleanInv, ReadOK
  <2>2. CASE Call[c].at = reading.from
    <3>1. /\ \A m \in MocksOf(test) : <<c, m>> \in credit => reading.hits[HitKey[m]] > 0
          /\ status[c] = "bypassed" => reading.passes > 0
      BY <1>1, <2>2 DEF CleanInv, ReadOK
    <3>2. <<c, test>> \in complaints => c \in box[reading.from].errors
      BY <1>1, <2>2 DEF CleanInv, TraceOK, Underway
    <3> QED BY <1>3, <1>4, <3>1, <3>2
  <2> QED BY <2>1, <2>2
<1> QED BY <1>2, <1>5 DEF CleanInv

\* Only a dead sidecar is given up.
LEMMA GetFailsClean ==
  ASSUME Inv, CleanInv, GetFails
  PROVE  CleanInv'
<1>1. /\ step = "collect" /\ test \in TestNo
      /\ UNCHANGED <<test, step, live, orphans, status, credit, complaints, box, alive>>
  BY DEF GetFails, serviceVars, Inv, RunnerOK
<1>2. CallsOK' /\ SettledOK' /\ TraceOK'
  BY <1>1, StillClean DEF Underway, CleanInv, SettledOK
<1>3. ~Whole
  BY DEF GetFails, Whole, Inv, TypeOK
<1> QED BY <1>1, <1>2, <1>3 DEF CleanInv, ReadOK, Whole

LEMMA RespondClean ==
  ASSUME Inv, CleanInv, Respond
  PROVE  CleanInv'
<1>1. step = "await" /\ reading = NoReading /\ \A c \in AwaitedCalls(test) : Answered(c)
  BY DEF Respond, Inv, RunnerOK, Answered
<1>2. CASE \E why : /\ Collect(why)
                    /\ UNCHANGED <<test, tries, reading, ticks, kept, reused, host, verdict,
                                   serviceVars, box, reload, alive>>
  BY <1>1, <1>2, CollectClean DEF Collect, Underway, serviceVars
<1>3. CASE \E v : End(v)
  BY <1>1, <1>3, EndClean
<1> QED BY <1>2, <1>3 DEF Respond

LEMMA PollClean ==
  ASSUME Inv, CleanInv, Poll \/ Judge
  PROVE  CleanInv'
<1>1. /\ step \in {"collect", "tick"} /\ reading = NoReading /\ test \in TestNo
      /\ \A c \in AwaitedCalls(test) : Answered(c)
  BY DEF Poll, Judge, Collected, Inv, RunnerOK, CleanInv, SettledOK
<1>2. CASE \E v : End(v)
  BY <1>1, <1>2, EndClean
<1>3. CASE /\ step' \in {"collect", "tick"} /\ (step' = "collect" => left' = Sidecars)
           /\ UNCHANGED <<test, reading, serviceVars, box, alive>>
  BY <1>1, <1>3, CollectClean DEF Underway, serviceVars
<1> QED BY <1>2, <1>3 DEF Poll, Judge, Collect

LEMMA CleanInit == Init => CleanInv
<1> SUFFICES ASSUME Init PROVE CleanInv
  OBVIOUS
<1>1. test = 1 /\ step = "start" /\ ~Underway
  BY DEF Init, Underway
<1>2. CallsOK
  BY DEF Init, CallsOK
<1>3. SettledOK
  BY <1>1 DEF SettledOK, TestNo
<1> QED BY <1>1, <1>2, <1>3 DEF CleanInv, TraceOK, ReadOK

LEMMA CleanStep == Inv /\ CleanInv /\ [Next]_vars => CleanInv'
<1> SUFFICES ASSUME Inv, CleanInv, [Next]_vars PROVE CleanInv'
  OBVIOUS
<1>1. ASSUME NEW c \in Calls, Lookup(c) PROVE CleanInv'
  BY <1>1, LookupClean
<1>2. ASSUME NEW c \in Calls, VerifyCall(c) PROVE CleanInv'
  BY <1>2, VerifyCallClean
<1>3. CASE (\E c \in Calls : CallFails(c) \/ Stray(c)) \/ \E s \in Sidecars : Crash(s)
  BY <1>3, FailureClean
<1>4. CASE Start \/ Reloaded \/ \E s \in Sidecars : Reload(s)
  BY <1>4, StartClean
<1>5. CASE Trigger \/ Respond
  BY <1>5, TriggerClean, RespondClean
<1>6. CASE ReadHits \/ ReadPassthroughs \/ Merge \/ GetFails
  BY <1>6, ReadHitsClean, ReadPassthroughsClean, MergeClean, GetFailsClean
<1>7. CASE Poll \/ Judge
  BY <1>7, PollClean
<1>8. CASE UNCHANGED vars
  <2>1. UNCHANGED <<test, step, left, reading, host, box, alive, live, orphans, status, credit, complaints>>
    BY <1>8 DEF vars, runnerVars, serviceVars
  <2> QED BY <2>1 DEF CleanInv, CallsOK, SettledOK, TraceOK, ReadOK, Triggered, Underway, Answered, Whole,
                      TestNo, AwaitedCalls, MocksOf
<1> QED BY <1>1, <1>2, <1>3, <1>4, <1>5, <1>6, <1>7, <1>8 DEF Next, Runner, Service

\* A verdict is given by the response, the poll or the judgement, to the spec that is run.
LEMMA VerdictOfTest ==
  ASSUME Inv, [Next]_vars, NEW t \in TestNo, verdict'[t] # verdict[t]
  PROVE  /\ t = test
         /\ \E v : End(v) /\ v = verdict'[t]
         /\ Respond \/ Poll \/ Judge
<1>1. ~UNCHANGED verdict
  OBVIOUS
<1>2. Respond \/ Poll \/ Judge
  BY <1>1 DEF Next, Runner, Service, vars, runnerVars, Lookup, VerifyCall, CallFails, Stray, Crash, Start,
              FreshStart, Reload, Reloaded, Trigger, ReadHits, ReadPassthroughs, Merge, GetFails
<1>3. PICK v : End(v)
  BY <1>1, <1>2 DEF Respond, Poll, Judge
<1>4. verdict' = [verdict EXCEPT ![test] = v] /\ verdict \in [TestNo -> Verdicts]
  BY <1>3 DEF End, Inv, TypeOK
<1> QED BY <1>2, <1>3, <1>4

\* Only the judgement says "pass", when everything was collected and nothing is wrong.
LEMMA PassedByJudge ==
  ASSUME Inv, [Next]_vars, NEW t \in TestNo, verdict'[t] # verdict[t], verdict'[t] = "pass"
  PROVE  /\ t = test /\ Collected /\ VerifyAll
         /\ Tests[test].strict => host.passes = 0
<1>1. t = test /\ (Respond \/ Poll \/ Judge) /\ verdict' = [verdict EXCEPT ![test] = "pass"]
      /\ verdict \in [TestNo -> Verdicts]
  BY VerdictOfTest DEF End, Inv, TypeOK
<1>2. ASSUME NEW v, End(v) PROVE v = "pass"
  BY <1>1, <1>2 DEF End
<1>3. ~Respond
  <2>1. ~UNCHANGED verdict
    OBVIOUS
  <2> QED BY <1>2, <2>1 DEF Respond
<1>4. ~Poll
  <2>1. ~UNCHANGED verdict
    OBVIOUS
  <2> QED BY <1>2, <2>1 DEF Poll
<1>5. Judge
  BY <1>1, <1>3, <1>4
<1>6. /\ ~End(IF host.errors # {} THEN "verify" ELSE "status")
      /\ ~End("verify") /\ ~End("forbidden") /\ ~End("never") /\ ~End("bypassed")
  <2>1. "verify" # "pass" /\ "status" # "pass" /\ "forbidden" # "pass" /\ "never" # "pass" /\ "bypassed" # "pass"
    OBVIOUS
  <2>2. (IF host.errors # {} THEN "verify" ELSE "status") # "pass"
    OBVIOUS
  <2> QED BY <1>2, <2>1, <2>2
<1> QED BY <1>1, <1>5, <1>6 DEF Judge

(***************************************************************************)
(* A spec that passes made no forbidden call, broke no VERIFY rule and     *)
(* bypassed no strict mock, in any call the service waited for: whatever   *)
(* the order of the calls, of the sidecars that are asked and of the three *)
(* reads of an answer, if no sidecar died and none was forgotten.          *)
(***************************************************************************)
THEOREM PassMeansCleanAlways == Spec => PassMeansClean
<1>1. Inv /\ CleanInv /\ [Next]_vars => [PassedClean]_vars
  <2> SUFFICES ASSUME Inv, CleanInv, [Next]_vars, NEW t \in TestNo,
                      verdict'[t] # verdict[t], verdict'[t] = "pass", alive = Sidecars, orphans = {},
                      NEW c \in AwaitedCalls(t)
               PROVE  CleanCall(c, t)
    BY DEF PassedClean
  <2>1. /\ t = test /\ step = "collect" /\ left = {} /\ host.errors = {} /\ ~Forbidden
        /\ Tests[t].strict => host.passes = 0
    BY PassedByJudge DEF Collected, VerifyAll
  <2>2. Whole /\ c \in Calls /\ Call[c].at \notin left
    BY <2>1, OneSpecEach DEF Whole
  <2>3. /\ \A m \in MocksOf(test) : <<c, m>> \in credit => host.hits[m] > 0
        /\ <<c, test>> \in complaints => c \in host.errors
        /\ status[c] = "bypassed" => host.passes > 0
    BY <2>1, <2>2 DEF CleanInv, ReadOK
  <2> QED BY <2>1, <2>3 DEF CleanCall, Forbidden, MocksOf
<1> QED BY InitInv, StepInv, CleanInit, CleanStep, <1>1, PTL DEF Spec, PassMeansClean

-----------------------------------------------------------------------------
(***************************************************************************)
(* A service that behaves.  While all specs so far are well behaved, what  *)
(* is credited is credited within one spec; and on whole containers        *)
(* nothing is bypassed or complained of, and each call that was made was   *)
(* given the EXPECT it fits.                                               *)
(***************************************************************************)
BehavedSoFar == \A u \in TestNo : u <= test => Behaved(u)

CreditOK ==
    BehavedSoFar => \A c \in Calls, m \in Mocks : <<c, m>> \in credit =>
        /\ m \in Call[c].fits
        /\ \E u \in TestNo : u <= test /\ c \in Tests[u].calls /\ m \in MocksOf(u)

\* A sidecar that is ready for the spec.
Ready(s) == step \notin {"start", "reload"} \/ (step = "reload" /\ reload[s] = "done")

QuietOK ==
    BehavedSoFar /\ Whole =>
        /\ \A s \in Sidecars : Ready(s) => box[s].errors = {} /\ box[s].passes = 0
        /\ step # "start" => host.errors = {} /\ host.passes = 0
        /\ reading # NoReading => reading.passes = 0
        /\ step # "tick" /\ (step = "collect" => reason = "final")

ServedOK ==
    BehavedSoFar /\ Whole /\ Underway => \A c \in Tests[test].calls :
        status[c] # "waiting" =>
            /\ status[c] \in {"held", "done"}
            /\ \E m \in Tests[test].expects \cap Call[c].fits : <<c, m>> \in credit

FairInv == CreditOK /\ QuietOK /\ ServedOK

\* The calls of the specs before this one are over: what is due or held is a call
\* of this spec, which is under way.
LEMMA OfThisSpec ==
  ASSUME Inv, CleanInv, BehavedSoFar, NEW c \in Calls, Due(c) \/ status[c] = "held"
  PROVE  Underway /\ test \in TestNo /\ c \in Tests[test].calls
<1>1. PICK u \in TestNo : Triggered(u) /\ c \in Tests[u].calls
  <2>1. CASE Due(c)
    BY <2>1 DEF Due, CleanInv, CallsOK, Inv, TypeOK
  <2>2. CASE status[c] = "held"
    BY <2>2 DEF CleanInv, CallsOK
  <2> QED BY <2>1, <2>2
<1>2. CASE u < test
  <2>1. Behaved(u)
    BY <1>2, TestsAssumption DEF BehavedSoFar, Inv, TypeOK, TestNo
  <2>2. c \in AwaitedCalls(u)
    BY <1>1, <2>1 DEF Behaved, AwaitedCalls
  <2>3. Answered(c)
    BY <1>2, <2>2 DEF CleanInv, SettledOK
  <2> QED BY <2>3 DEF Answered, Due
<1> QED BY <1>1, <1>2 DEF Triggered

\* A call of a behaved spec fits one EXPECT of it and no EXPECT_NOT.
LEMMA FitsOne ==
  ASSUME NEW t \in TestNo, Behaved(t), NEW c \in Tests[t].calls
  PROVE  \E m \in Tests[t].expects :
            /\ Call[c].fits \cap MocksOf(t) = {m} /\ m \notin Tests[t].nots /\ m \in Mocks
            /\ \A d \in Tests[t].calls : m \in Call[d].fits => d = c
<1>1. PICK m \in Tests[t].expects : Call[c].fits \cap MocksOf(t) = {m}
  BY DEF Behaved
<1> DEFINE fitting == {d \in Tests[t].calls : m \in Call[d].fits}
<1>2. m \notin Tests[t].nots /\ m \in Mocks
  BY <1>1, ServiceAssumption, TestsAssumption
<1>3. IsFiniteSet(fitting)
  <2>1. IsFiniteSet(Calls) /\ fitting \subseteq Calls
    BY ServiceAssumption, OneSpecEach
  <2> QED BY <2>1, FS_Subset
<1>4. Cardinality(fitting) = 1
  BY DEF Behaved
<1>5. PICK d : fitting = {d}
  BY <1>3, <1>4, FS_Singleton
<1>6. c \in fitting
  BY <1>1
<1> QED BY <1>1, <1>2, <1>5, <1>6

\* A due call of a behaved spec is offered the EXPECT it fits: no other call took it.
LEMMA AlwaysOffered ==
  ASSUME Inv, CleanInv, FairInv, BehavedSoFar, NEW c \in Calls, Due(c)
  PROVE  Offered(c) # {}
<1>1. Underway /\ test \in TestNo /\ c \in Tests[test].calls /\ Call[c].at \in Sidecars
  BY OfThisSpec, CallAssumption
<1>2. PICK m \in Tests[test].expects :
           /\ Call[c].fits \cap MocksOf(test) = {m} /\ m \in Mocks
           /\ \A d \in Tests[test].calls : m \in Call[d].fits => d = c
  BY <1>1, FitsOne DEF BehavedSoFar, TestNo
<1> DEFINE b == box[Call[c].at]
<1>3. b.test = test /\ b.hits[m] \in Nat
  BY <1>1, <1>2 DEF Inv, BoxOK, ServesTest, Underway, TypeOK
<1>4. ~(b.hits[m] > 0)
  <2> SUFFICES ASSUME b.hits[m] > 0 PROVE FALSE
    OBVIOUS
  <2>1. PICK d \in Calls : <<d, m>> \in credit
    BY <1>1, <1>2 DEF Inv, BoxOK, CountedFor
  <2>2. m \in Call[d].fits /\ \E u \in TestNo : d \in Tests[u].calls /\ m \in MocksOf(u)
    BY <1>2, <2>1 DEF FairInv, CreditOK
  <2>3. d \in Tests[test].calls
    <3>1. PICK u \in TestNo : d \in Tests[u].calls /\ m \in MocksOf(u)
      BY <2>2
    <3>2. m \in MocksOf(test)
      BY <1>2 DEF MocksOf
    <3> QED BY <1>1, <3>1, <3>2, OneSpecEach
  <2>4. d = c
    BY <1>2, <2>2, <2>3
  <2> QED BY <1>2, <2>1, <2>4 DEF Due, CleanInv, CallsOK
<1>5. m \in Offered(c)
  BY <1>2, <1>3, <1>4 DEF Offered
<1> QED BY <1>5

-----------------------------------------------------------------------------
LEMMA LookupFair ==
  ASSUME Inv, CleanInv, FairInv, NEW c \in Calls, Lookup(c)
  PROVE  FairInv'
<1> DEFINE s == Call[c].at
<1>1. /\ UNCHANGED <<runnerVars, reload, alive, orphans>> /\ Due(c) /\ s \in Sidecars
      /\ UNCHANGED <<test, step, reason, reading, host>>
  BY CallAssumption DEF Lookup, runnerVars
<1>2. BehavedSoFar' <=> BehavedSoFar
  BY <1>1 DEF BehavedSoFar, Behaved, TestNo, MocksOf
<1> SUFFICES ASSUME BehavedSoFar PROVE FairInv'
  BY <1>2 DEF FairInv, CreditOK, QuietOK, ServedOK
<1>3. Underway /\ test \in TestNo /\ c \in Tests[test].calls
  BY <1>1, OfThisSpec
<1>4. status'[c] = "held" /\ Offered(c) # {}
  BY <1>1, AlwaysOffered, LookupLeaves DEF Inv
<1>5. /\ \A r \in Sidecars : box'[r].errors = box[r].errors /\ box'[r].passes = box[r].passes
      /\ \A d \in Calls : d # c => status'[d] = status[d]
      /\ \A d \in Calls, m \in Mocks : d # c => (<<d, m>> \in credit' <=> <<d, m>> \in credit)
      /\ \E m \in Offered(c) : <<c, m>> \in credit'
      /\ \A m \in Mocks : <<c, m>> \in credit' /\ <<c, m>> \notin credit =>
               m \in Call[c].fits /\ m \in LoadedMocks(s)
  BY <1>4, LookupLeaves DEF Inv
<1>6. box[s].test = test
  BY <1>1, <1>3 DEF Inv, BoxOK, ServesTest, Underway
<1>7. CreditOK'
  <2> SUFFICES ASSUME NEW d \in Calls, NEW m \in Mocks, <<d, m>> \in credit'
               PROVE  /\ m \in Call[d].fits
                      /\ \E u \in TestNo : u <= test /\ d \in Tests[u].calls /\ m \in MocksOf(u)
    BY <1>1 DEF CreditOK, TestNo, MocksOf
  <2>1. CASE <<d, m>> \in credit
    BY <2>1 DEF FairInv, CreditOK
  <2>2. CASE <<d, m>> \notin credit
    BY <1>3, <1>5, <1>6, <2>2 DEF LoadedMocks, TestNo
  <2> QED BY <2>1, <2>2
<1>8. QuietOK'
  BY <1>1, <1>5 DEF FairInv, QuietOK, Whole, Ready
<1>9. ServedOK'
  <2> SUFFICES ASSUME Whole, NEW d \in Tests[test].calls, status'[d] # "waiting"
               PROVE  /\ status'[d] \in {"held", "done"}
                      /\ \E m \in Tests[test].expects \cap Call[d].fits : <<d, m>> \in credit'
    BY <1>1 DEF ServedOK, Whole
  <2>1. d \in Calls /\ Tests[test].expects \subseteq Mocks
    BY <1>3, OneSpecEach, TestsAssumption
  <2>2. CASE d = c
    BY <1>4, <1>5, <1>6, <2>2 DEF Offered
  <2>3. CASE d # c
    BY <1>3, <1>5, <2>1, <2>3 DEF FairInv, ServedOK
  <2> QED BY <2>2, <2>3
<1> QED BY <1>7, <1>8, <1>9 DEF FairInv

LEMMA VerifyCallFair ==
  ASSUME Inv, CleanInv, FairInv, NEW c \in Calls, VerifyCall(c)
  PROVE  FairInv'
<1>1. /\ UNCHANGED <<test, step, reason, reading, host, reload, alive, orphans, credit>>
      /\ status[c] = "held"
  BY DEF VerifyCall, runnerVars
<1>2. BehavedSoFar' <=> BehavedSoFar
  BY <1>1 DEF BehavedSoFar, Behaved, TestNo, MocksOf
<1> SUFFICES ASSUME BehavedSoFar PROVE FairInv'
  BY <1>2 DEF FairInv, CreditOK, QuietOK, ServedOK
<1>3. test \in TestNo /\ c \in Tests[test].calls
  BY <1>1, OfThisSpec
<1>4. ~Call[c].bad
  BY <1>3 DEF BehavedSoFar, Behaved, TestNo
<1>5. UNCHANGED box /\ status' = [status EXCEPT ![c] = "done"]
  BY <1>4 DEF VerifyCall
<1>6. CreditOK' /\ QuietOK'
  BY <1>1, <1>5 DEF FairInv, CreditOK, QuietOK, Whole, Ready, TestNo, MocksOf
<1>7. ServedOK'
  BY <1>1, <1>3, <1>5, OneSpecEach DEF FairInv, ServedOK, Whole, Underway, Inv, TypeOK
<1> QED BY <1>6, <1>7 DEF FairInv

LEMMA FailureFair ==
  ASSUME Inv, FairInv, (\E c \in Calls : CallFails(c) \/ Stray(c)) \/ \E s \in Sidecars : Crash(s)
  PROVE  FairInv'
<1>1. UNCHANGED <<test, credit>>
  BY DEF CallFails, Stray, Crash, runnerVars
<1>2. ~Whole'
  BY CallAssumption DEF CallFails, Stray, Crash, Whole
<1>3. CreditOK'
  BY <1>1 DEF FairInv, CreditOK, BehavedSoFar, Behaved, TestNo, MocksOf
<1> QED BY <1>2, <1>3 DEF FairInv, QuietOK, ServedOK

LEMMA StartFair ==
  ASSUME Inv, FairInv, Start \/ Reloaded \/ \E s \in Sidecars : Reload(s)
  PROVE  FairInv'
<1>1. /\ step \in {"start", "reload"} /\ step' \in {"reload", "trigger"} /\ test \in TestNo
      /\ reading = NoReading /\ UNCHANGED <<test, reading, credit>>
  BY DEF Start, Reloaded, Reload, FreshStart, serviceVars, runnerVars, Inv, RunnerOK
<1>2. BehavedSoFar' <=> BehavedSoFar
  BY <1>1 DEF BehavedSoFar, Behaved, TestNo, MocksOf
<1>3. CreditOK' /\ ServedOK'
  BY <1>1, <1>2 DEF FairInv, CreditOK, ServedOK, Underway, TestNo, MocksOf
<1>4. \A t \in TestNo : EmptyBox(t).errors = {} /\ EmptyBox(t).passes = 0
  BY DEF EmptyBox
<1>5. EmptyHost.errors = {} /\ EmptyHost.passes = 0
  BY DEF EmptyHost
<1>6. QuietOK'
  <2> SUFFICES ASSUME BehavedSoFar, Whole'
               PROVE  /\ \A s \in Sidecars : Ready(s)' => box'[s].errors = {} /\ box'[s].passes = 0
                      /\ host'.errors = {} /\ host'.passes = 0
    BY <1>1, <1>2 DEF QuietOK
  <2>1. CASE \E b \in BOOLEAN : FreshStart(b)
    BY <1>1, <1>4, <1>5, <2>1 DEF FreshStart
  <2>2. CASE step = "start" /\ step' = "reload" /\ host' = EmptyHost
             /\ reload' = [s \in Sidecars |-> "idle"]
    BY <1>5, <2>2 DEF Ready
  <2>3. CASE step = "reload" /\ UNCHANGED <<test, host, box, alive, orphans>>
             /\ step' = "trigger" /\ \A s \in Sidecars : reload[s] = "done"
    BY <2>3 DEF FairInv, QuietOK, Ready, Whole
  <2>4. ASSUME NEW s \in Sidecars, Reload(s)
        PROVE  /\ \A r \in Sidecars : Ready(r)' => box'[r].errors = {} /\ box'[r].passes = 0
               /\ host'.errors = {} /\ host'.passes = 0
    <3>1. step = "reload" /\ step' = "reload" /\ UNCHANGED <<host, alive, orphans>>
      BY <2>4 DEF Reload, runnerVars, serviceVars
    <3>2. host'.errors = {} /\ host'.passes = 0
      BY <3>1 DEF FairInv, QuietOK, Whole
    <3>3. \A r \in Sidecars : r # s => box'[r] = box[r] /\ reload'[r] = reload[r]
      BY <2>4 DEF Reload, Inv, TypeOK
    <3>4. reload'[s] = "done" => box'[s] = EmptyBox(test)
      BY <2>4 DEF Reload, Inv, TypeOK
    <3>5. \A r \in Sidecars : reload[r] = "done" => box[r].errors = {} /\ box[r].passes = 0
      BY <3>1 DEF FairInv, QuietOK, Ready, Whole
    <3> QED BY <1>1, <1>4, <3>1, <3>2, <3>3, <3>4, <3>5 DEF Ready
  <2>5. Start => (\E b \in BOOLEAN : FreshStart(b))
                 \/ (step = "start" /\ step' = "reload" /\ host' = EmptyHost
                     /\ reload' = [s \in Sidecars |-> "idle"])
    BY DEF Start
  <2>6. Reloaded => (\E b \in BOOLEAN : FreshStart(b))
                    \/ (step = "reload" /\ UNCHANGED <<test, host, box, alive, orphans>>
                        /\ step' = "trigger" /\ \A s \in Sidecars : reload[s] = "done")
    BY DEF Reloaded, serviceVars
  <2> QED BY <2>1, <2>2, <2>3, <2>4, <2>5, <2>6
<1> QED BY <1>3, <1>6 DEF FairInv

LEMMA TriggerFair ==
  ASSUME Inv, CleanInv, FairInv, Trigger
  PROVE  FairInv'
<1>1. /\ step = "trigger" /\ test \in TestNo /\ reading = NoReading
      /\ step' \in {"collect", "await"} /\ (step' = "collect" => Tests[test].kind = "async")
      /\ UNCHANGED <<test, reading, host, box, reload, alive, orphans, status, credit>>
  BY DEF Trigger, Collect, Inv, RunnerOK
<1>2. BehavedSoFar' <=> BehavedSoFar
  BY <1>1 DEF BehavedSoFar, Behaved, TestNo, MocksOf
<1> SUFFICES ASSUME BehavedSoFar PROVE FairInv'
  BY <1>2 DEF FairInv, CreditOK, QuietOK, ServedOK
<1>3. Tests[test].kind = "http"
  BY <1>1 DEF BehavedSoFar, Behaved, TestNo
<1>4. ~Triggered(test)
  BY <1>1 DEF Triggered, Underway, TestNo
<1>5. CreditOK' /\ QuietOK'
  BY <1>1, <1>3 DEF FairInv, CreditOK, QuietOK, Whole, Ready, TestNo, MocksOf
<1>6. \A c \in Tests[test].calls : status'[c] = "waiting"
  BY <1>1, <1>4, NotYetCalled DEF CleanInv
<1> QED BY <1>1, <1>5, <1>6 DEF FairInv, ServedOK

\* A verdict: what was credited stays within the specs so far.
LEMMA EndFair ==
  ASSUME Inv, FairInv, step \notin {"start", "reload"}, reading = NoReading, NEW v, End(v)
  PROVE  FairInv'
<1>1. test \in TestNo /\ test' = test + 1 /\ step' = "start" /\ UNCHANGED <<reading, credit>>
  BY DEF End, Inv, RunnerOK
<1>2. BehavedSoFar' => BehavedSoFar
  BY <1>1 DEF BehavedSoFar, Behaved, TestNo, MocksOf
<1>3. CreditOK'
  <2> SUFFICES ASSUME BehavedSoFar, NEW c \in Calls, NEW m \in Mocks, <<c, m>> \in credit
               PROVE  /\ m \in Call[c].fits
                      /\ \E u \in TestNo : u <= test + 1 /\ c \in Tests[u].calls /\ m \in MocksOf(u)
    BY <1>1, <1>2 DEF CreditOK, TestNo, MocksOf
  <2> QED BY <1>1 DEF FairInv, CreditOK, TestNo
<1> QED BY <1>1, <1>3 DEF FairInv, QuietOK, ServedOK, Ready, Underway

\* The service has no trouble, so it answers as it should.
LEMMA NoTrouble ==
  ASSUME Inv, FairInv, BehavedSoFar, Whole, step = "await"
  PROVE  ~Trouble(test)
<1>1. test \in TestNo
  BY DEF Inv, RunnerOK
<1>2. \A c \in AwaitedCalls(test) : c \in Tests[test].calls /\ ~Call[c].bad
  BY <1>1 DEF BehavedSoFar, Behaved, TestNo, AwaitedCalls
<1>3. \A c \in AwaitedCalls(test) : status[c] \in {"waiting", "held", "done"}
  BY <1>2 DEF FairInv, ServedOK, Underway
<1> QED BY <1>2, <1>3 DEF Trouble

LEMMA RespondFair ==
  ASSUME Inv, FairInv, Respond
  PROVE  FairInv'
<1>1. step = "await" /\ reading = NoReading
  BY DEF Respond, Inv, RunnerOK
<1>2. CASE \E v : End(v)
  BY <1>1, <1>2, EndFair
<1>3. CASE /\ step' = "collect" /\ (reason' = "final" \/ Trouble(test))
           /\ UNCHANGED <<test, reading, host, serviceVars, box, reload, alive>>
  <2>1. BehavedSoFar' <=> BehavedSoFar
    BY <1>3 DEF BehavedSoFar, Behaved, TestNo, MocksOf
  <2>2. CreditOK' /\ ServedOK'
    BY <1>1, <1>3, <2>1 DEF FairInv, CreditOK, ServedOK, Whole, Underway, TestNo, MocksOf, serviceVars
  <2>3. QuietOK'
    BY <1>1, <1>3, <2>1, NoTrouble DEF FairInv, QuietOK, Whole, Ready, serviceVars
  <2> QED BY <2>2, <2>3 DEF FairInv
<1> QED BY <1>2, <1>3 DEF Respond, Collect

\* Reading and merging leave the calls alone; of nothing, nothing is merged.
LEMMA CollectFair ==
  ASSUME Inv, FairInv, ReadHits \/ ReadPassthroughs \/ Merge \/ GetFails
  PROVE  FairInv'
<1>1. /\ step = "collect" /\ test \in TestNo
      /\ UNCHANGED <<test, step, reason, orphans, status, credit, box, reload, alive>>
  BY DEF ReadHits, ReadPassthroughs, Merge, GetFails, serviceVars, Inv, RunnerOK
<1>2. BehavedSoFar' <=> BehavedSoFar
  BY <1>1 DEF BehavedSoFar, Behaved, TestNo, MocksOf
<1>3. CreditOK' /\ ServedOK'
  BY <1>1, <1>2 DEF FairInv, CreditOK, ServedOK, Whole, Underway, TestNo, MocksOf
<1>4. QuietOK'
  <2> SUFFICES ASSUME BehavedSoFar, Whole
               PROVE  /\ host'.errors = {} /\ host'.passes = 0
                      /\ reading' # NoReading => reading'.passes = 0
    BY <1>1, <1>2 DEF FairInv, QuietOK, Whole, Ready
  <2>1. /\ host.errors = {} /\ host.passes = 0 /\ (reading # NoReading => reading.passes = 0)
        /\ \A s \in Sidecars : box[s].errors = {} /\ box[s].passes = 0
    BY <1>1 DEF FairInv, QuietOK, Ready
  <2>2. reading # NoReading => reading.from \in Sidecars
    BY DEF Inv, TypeOK
  <2>3. CASE ReadHits
    BY <2>1, <2>3 DEF ReadHits
  <2>4. CASE ReadPassthroughs
    BY <2>1, <2>2, <2>4 DEF ReadPassthroughs, Inv, TypeOK
  <2>5. CASE Merge
    BY <2>1, <2>2, <2>5 DEF Merge
  <2>6. CASE GetFails
    BY <2>1, <2>6 DEF GetFails
  <2> QED BY <2>3, <2>4, <2>5, <2>6
<1> QED BY <1>3, <1>4 DEF FairInv

LEMMA PollFair ==
  ASSUME Inv, FairInv, Poll \/ Judge
  PROVE  FairInv'
<1>1. step \in {"collect", "tick"} /\ reading = NoReading /\ test \in TestNo
  BY DEF Poll, Judge, Collected, Inv, RunnerOK
<1>2. CASE \E v : End(v)
  BY <1>1, <1>2, EndFair
<1>3. CASE /\ step = "tick" \/ reason = "poll"
           /\ step' \in {"collect", "tick"}
           /\ UNCHANGED <<test, reading, host, serviceVars, box, reload, alive>>
  <2>1. BehavedSoFar' <=> BehavedSoFar
    BY <1>3 DEF BehavedSoFar, Behaved, TestNo, MocksOf
  <2>2. CreditOK' /\ ServedOK'
    BY <1>1, <1>3, <2>1 DEF FairInv, CreditOK, ServedOK, Whole, Underway, TestNo, MocksOf, serviceVars
  <2>3. ~(BehavedSoFar /\ Whole)
    BY <1>1, <1>3 DEF FairInv, QuietOK
  <2>4. QuietOK'
    BY <1>3, <2>1, <2>3 DEF QuietOK, Whole, serviceVars
  <2> QED BY <2>2, <2>4 DEF FairInv
<1> QED BY <1>2, <1>3 DEF Poll, Judge, Collect

LEMMA FairInit == Init => FairInv
<1> SUFFICES ASSUME Init PROVE FairInv
  OBVIOUS
<1>1. credit = {} /\ step = "start" /\ reading = NoReading
  BY DEF Init
<1> QED BY <1>1 DEF FairInv, CreditOK, QuietOK, ServedOK, Ready, Underway

LEMMA FairStep == Inv /\ CleanInv /\ FairInv /\ [Next]_vars => FairInv'
<1> SUFFICES ASSUME Inv, CleanInv, FairInv, [Next]_vars PROVE FairInv'
  OBVIOUS
<1>1. ASSUME NEW c \in Calls, Lookup(c) PROVE FairInv'
  BY <1>1, LookupFair
<1>2. ASSUME NEW c \in Calls, VerifyCall(c) PROVE FairInv'
  BY <1>2, VerifyCallFair
<1>3. CASE (\E c \in Calls : CallFails(c) \/ Stray(c)) \/ \E s \in Sidecars : Crash(s)
  BY <1>3, FailureFair
<1>4. CASE Start \/ Reloaded \/ \E s \in Sidecars : Reload(s)
  BY <1>4, StartFair
<1>5. CASE Trigger \/ Respond
  BY <1>5, TriggerFair, RespondFair
<1>6. CASE ReadHits \/ ReadPassthroughs \/ Merge \/ GetFails
  BY <1>6, CollectFair
<1>7. CASE Poll \/ Judge
  BY <1>7, PollFair
<1>8. CASE UNCHANGED vars
  <2>1. UNCHANGED <<test, step, reason, reading, host, box, reload, alive, orphans, status, credit>>
    BY <1>8 DEF vars, runnerVars, serviceVars
  <2> QED BY <2>1 DEF FairInv, CreditOK, QuietOK, ServedOK, BehavedSoFar, Behaved, Ready, Underway, Whole,
                      TestNo, MocksOf
<1> QED BY <1>1, <1>2, <1>3, <1>4, <1>5, <1>6, <1>7, <1>8 DEF Next, Runner, Service

\* Of a behaved spec that was collected nothing is missing, and nothing forbidden.
LEMMA BehavedIsServed ==
  ASSUME Inv, CleanInv, FairInv, KeysApart, BehavedSoFar, Whole, Collected
  PROVE  VerifyAll /\ host.passes = 0
<1>1. step = "collect" /\ test \in TestNo /\ left = {} /\ Behaved(test)
  BY DEF Collected, Inv, RunnerOK, BehavedSoFar, TestNo
<1>2. host.errors = {} /\ host.passes = 0
  BY <1>1 DEF FairInv, QuietOK
<1>3. ~Forbidden
  <2> SUFFICES ASSUME NEW m \in Tests[test].nots, host.hits[m] > 0 PROVE FALSE
    BY DEF Forbidden
  <2>1. m \in MocksOf(test) /\ m \in Mocks
    BY <1>1, MocksOfAreMocks DEF MocksOf
  <2>2. PICK s \in Sidecars : \E n \in MocksOf(box[s].test) :
             HitKey[n] = HitKey[m] /\ host.hits[m] <= box[s].hits[n]
    BY <2>1 DEF Inv, HostNeverAhead
  <2>3. box[s].test = test
    BY <1>1 DEF Inv, BoxOK, ServesTest
  <2>4. host.hits[m] <= box[s].hits[m]
    BY <1>1, <2>1, <2>2, <2>3 DEF KeysApart
  <2>5. box[s].hits[m] > 0
    BY <2>1, <2>4 DEF Inv, TypeOK
  <2>6. PICK c \in Calls : <<c, m>> \in credit
    BY <2>1, <2>5 DEF Inv, BoxOK, CountedFor
  <2>7. PICK u \in TestNo : c \in Tests[u].calls /\ m \in MocksOf(u)
    BY <2>1, <2>6 DEF FairInv, CreditOK
  <2>8. c \in Tests[test].calls /\ m \in Call[c].fits
    BY <1>1, <2>1, <2>6, <2>7, OneSpecEach DEF FairInv, CreditOK
  <2> QED BY <1>1, <2>1, <2>8, FitsOne
<1>4. ~Missing
  <2> SUFFICES ASSUME NEW m \in Tests[test].expects PROVE host.hits[m] # 0
    BY DEF Missing
  <2>1. m \in MocksOf(test) /\ m \in Mocks
    BY <1>1, MocksOfAreMocks DEF MocksOf
  <2>2. PICK c \in Tests[test].calls : m \in Call[c].fits
    <3> DEFINE fitting == {c \in Tests[test].calls : m \in Call[c].fits}
    <3>1. Cardinality(fitting) = 1
      BY <1>1 DEF Behaved
    <3>2. fitting # {}
      BY <3>1, FS_EmptySet
    <3> QED BY <3>2
  <2>3. c \in AwaitedCalls(test) /\ c \in Calls
    BY <1>1, <2>2, OneSpecEach DEF Behaved, AwaitedCalls
  <2>4. status[c] # "waiting"
    BY <1>1, <2>3 DEF CleanInv, SettledOK, Answered
  <2>5. PICK n \in Tests[test].expects \cap Call[c].fits : <<c, n>> \in credit
    BY <1>1, <2>2, <2>4 DEF FairInv, ServedOK, Underway
  <2>6. n = m
    BY <1>1, <2>1, <2>2, <2>5, FitsOne DEF MocksOf
  <2>7. Call[c].at \notin left
    BY <1>1
  <2>8. host.hits[m] > 0
    BY <1>1, <2>1, <2>3, <2>5, <2>6, <2>7 DEF CleanInv, ReadOK
  <2> QED BY <2>8
<1> QED BY <1>2, <1>3, <1>4 DEF VerifyAll

(***************************************************************************)
(* If keys tell the mocks of each spec apart, a service that made exactly  *)
(* the calls of its specs, each fitting the one EXPECT it is for, passes:  *)
(* on fresh and on kept containers, whatever the order of the calls, the   *)
(* reloads and the collection, as long as no sidecar dies.                 *)
(***************************************************************************)
THEOREM WellBehavedAlwaysPasses == KeysApart => (Spec => WellBehavedPasses)
<1> SUFFICES ASSUME KeysApart PROVE Spec => WellBehavedPasses
  OBVIOUS
<1>1. Inv /\ CleanInv /\ FairInv /\ [Next]_vars => [JudgedFairly]_vars
  <2> SUFFICES ASSUME Inv, CleanInv, FairInv, [Next]_vars, NEW t \in TestNo,
                      verdict'[t] # verdict[t], alive = Sidecars, orphans = {},
                      \A u \in 1 .. t : Behaved(u)
               PROVE  verdict'[t] = "pass"
    BY DEF JudgedFairly
  <2>1. t = test /\ (Respond \/ Poll \/ Judge)
    BY VerdictOfTest
  <2>2. Whole /\ BehavedSoFar
    BY <2>1 DEF Whole, BehavedSoFar, TestNo
  <2>3. ~Respond
    <3>1. ~UNCHANGED verdict
      OBVIOUS
    <3> QED BY <2>2, <3>1, NoTrouble DEF Respond
  <2>4. ~Poll
    <3>1. ~UNCHANGED verdict
      OBVIOUS
    <3> QED BY <2>2, <3>1 DEF Poll, FairInv, QuietOK
  <2>5. Collected /\ reason = "final"
    BY <2>1, <2>2, <2>3, <2>4 DEF Judge, Collected, FairInv, QuietOK
  <2>6. VerifyAll /\ host.passes = 0
    BY <2>2, <2>5, BehavedIsServed
  <2>7. End("pass")
    BY <2>1, <2>3, <2>4, <2>5, <2>6 DEF Judge, VerifyAll
  <2> QED BY <2>1, <2>7 DEF End, Inv, TypeOK
<1> QED BY InitInv, StepInv, CleanInit, CleanStep, FairInit, FairStep, <1>1, PTL DEF Spec, WellBehavedPasses
=============================================================================
