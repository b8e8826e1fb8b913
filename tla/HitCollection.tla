--------------------------- MODULE HitCollection ---------------------------
(***************************************************************************)
(* How a verdict is reached.  The runner of pkg/runner runs one spec after *)
(* another; the proxy sidecars, each with a registry of its own, count     *)
(* what the service under test does; the runner reads the counts through   *)
(* /verify, merges them into its own registry and judges.  Sidecars are    *)
(* reused from one spec to the next by /reload-registry.                   *)
(*                                                                         *)
(* What a sidecar does with a request is MockRegistry; here a call is only *)
(* looked up (one step) and then verified (another), and the runner, the   *)
(* service and the sidecars interleave in every way.                       *)
(***************************************************************************)
EXTENDS Integers, Sequences, FiniteSets

CONSTANTS
    Sidecars,
    Tests,      \* the specs, in the order they are run
    Mocks,      \* every EXPECT and EXPECT_NOT of every spec
    HitKey,     \* HitKey[m]: the key m's hits are reported under
    Calls,      \* what the service does for all the specs
    Call,       \* Call[c]: [at: sidecar, fits: mocks, bad, awaited: BOOLEAN]
    Attempts,   \* how often collectHits asks one sidecar
    MaxTicks,   \* polls before the deadline of an asynchronous spec
    MaxCrashes, \* sidecars that may die
    NoMock, NoReading

TestNo == 1 .. Len(Tests)

\* The statements of a spec.
MocksOf(t) == Tests[t].expects \cup Tests[t].nots

ASSUME TestsAssumption ==
    /\ Len(Tests) \in Nat \ {0}
    /\ \A t \in TestNo :
          /\ Tests[t].kind \in {"http", "event", "async"}
          /\ Tests[t].expects \subseteq Mocks /\ Tests[t].nots \subseteq Mocks
          /\ Tests[t].strict \in BOOLEAN
          /\ Tests[t].calls \subseteq Calls
          /\ \A u \in TestNo \ {t} : MocksOf(t) \cap MocksOf(u) = {}

ASSUME CallAssumption ==
    \A c \in Calls :
        /\ Call[c].at \in Sidecars /\ Call[c].fits \subseteq Mocks
        /\ Call[c].bad \in BOOLEAN /\ Call[c].awaited \in BOOLEAN

\* A call is one event, of one spec; an asynchronous spec gives no answer that
\* could wait for one.  A statement is an EXPECT or an EXPECT_NOT.
ASSUME ServiceAssumption ==
    /\ IsFiniteSet(Calls)
    /\ \A t \in TestNo :
          /\ Tests[t].expects \cap Tests[t].nots = {}
          /\ Tests[t].kind = "async" => \A c \in Tests[t].calls : ~Call[c].awaited
          /\ \A u \in TestNo \ {t} : Tests[t].calls \cap Tests[u].calls = {}

ASSUME BoundsAssumption ==
    /\ Attempts \in Nat \ {0} /\ MaxTicks \in Nat /\ MaxCrashes \in Nat
    /\ NoMock \notin Mocks

Keys == {HitKey[m] : m \in Mocks}

VARIABLES
    test,       \* the spec being run; Len(Tests) + 1 when all were
    step,       \* where the runner is
    reason,     \* why it collects: "poll", "mismatch" or "final"
    left,       \* sidecars still to be asked in this collection
    tries,      \* failed attempts at one sidecar
    reading,    \* the part of a /verify answer that is already made up
    ticks,
    kept,       \* persistentContainers has an entry for the service
    reused,     \* this spec runs on kept containers
    host,       \* the runner's registry: [hits, passes, errors]
    verdict,
    box,        \* box[s]: the registry of sidecar s
    reload,     \* how far /reload-registry is at each sidecar
    alive,      \* the sidecars that still run
    live,       \* the specs whose calls the running service may still make
    orphans,    \* the same of services that were forgotten, and still run
    status,     \* where each call is
    holds,      \* the mock a call was given
    credit,     \* history: <<c, m>>, call c was counted for mock m
    complaints  \* history: <<c, t>>, call c broke a VERIFY rule of spec t

runnerVars  == <<test, step, reason, left, tries, reading, ticks, kept, reused, host, verdict>>
serviceVars == <<live, orphans, status, holds, credit, complaints>>
vars == <<runnerVars, serviceVars, box, reload, alive>>

Zero == [m \in Mocks |-> 0]

EmptyBox(t) == [test |-> t, hits |-> Zero, passes |-> 0, errors |-> {}]

EmptyHost == [hits |-> Zero, passes |-> 0, errors |-> {}]

Verdicts == {"none", "pass", "verify", "never", "forbidden", "bypassed",
             "timeout", "status", "body", "error"}

Steps == {"start", "reload", "trigger", "await", "collect", "tick"}

TypeOK ==
    /\ test \in 1 .. (Len(Tests) + 1) /\ step \in Steps
    /\ reason \in {"poll", "mismatch", "final"}
    /\ left \subseteq Sidecars /\ tries \in 0 .. (Attempts - 1) /\ ticks \in 0 .. MaxTicks
    /\ kept \in BOOLEAN /\ reused \in BOOLEAN
    /\ host \in [hits : [Mocks -> Nat], passes : Nat, errors : SUBSET Calls]
    /\ verdict \in [TestNo -> Verdicts]
    /\ box \in [Sidecars -> [test : TestNo, hits : [Mocks -> Nat], passes : Nat, errors : SUBSET Calls]]
    /\ reload \in [Sidecars -> {"idle", "loaded", "failed", "done"}]
    /\ alive \subseteq Sidecars /\ live \subseteq TestNo /\ orphans \subseteq TestNo
    /\ status \in [Calls -> {"waiting", "held", "done", "failed", "bypassed"}]
    /\ holds \in [Calls -> Mocks \cup {NoMock}]
    /\ credit \subseteq Calls \X Mocks /\ complaints \subseteq Calls \X TestNo
    /\ \/ reading = NoReading
       \/ reading \in [from : Sidecars, hits : [Keys -> Nat], passes : Nat, part : {1, 2}]

Init ==
    /\ test = 1 /\ step = "start" /\ reason = "final"
    /\ left = {} /\ tries = 0 /\ reading = NoReading /\ ticks = 0
    /\ kept = FALSE /\ reused = FALSE
    /\ host = EmptyHost /\ verdict = [t \in TestNo |-> "none"]
    /\ box = [s \in Sidecars |-> EmptyBox(1)]
    /\ reload = [s \in Sidecars |-> "idle"] /\ alive = Sidecars
    /\ live = {} /\ orphans = {} /\ status = [c \in Calls |-> "waiting"]
    /\ holds = [c \in Calls |-> NoMock]
    /\ credit = {} /\ complaints = {}

-----------------------------------------------------------------------------
(***************************************************************************)
(* The service and the sidecars.  A call is possible once its spec was     *)
(* triggered and as long as the service that was triggered runs: a call    *)
(* nobody waits for may come late, in the middle of the next spec.         *)
(***************************************************************************)
Due(c) == status[c] = "waiting" /\ \E t \in live \cup orphans : c \in Tests[t].calls

LoadedMocks(s) == MocksOf(box[s].test)

\* The EXPECT a request is served from: one it fits, without a hit so far.
Offered(c) ==
    {m \in Call[c].fits \cap Tests[box[Call[c].at].test].expects : box[Call[c].at].hits[m] = 0}

Charged(c) == Call[c].fits \cap Tests[box[Call[c].at].test].nots

\* The sidecar looks the request up: EXPECT_NOTs are charged, an EXPECT is
\* consumed or the request recorded as a passthrough and forwarded.
Lookup(c) ==
    /\ Due(c) /\ Call[c].at \in alive
    /\ LET s == Call[c].at IN
       \/ \E m \in Offered(c) :
             /\ box' = [box EXCEPT ![s].hits = [n \in Mocks |->
                          IF n = m \/ n \in Charged(c) THEN @[n] + 1 ELSE @[n]]]
             /\ holds' = [holds EXCEPT ![c] = m]
             /\ status' = [status EXCEPT ![c] = "held"]
             /\ credit' = credit \cup {<<c, n>> : n \in {m} \cup Charged(c)}
       \/ /\ Offered(c) = {}
          /\ box' = [box EXCEPT ![s].passes = @ + 1,
                                ![s].hits = [n \in Mocks |-> IF n \in Charged(c) THEN @[n] + 1 ELSE @[n]]]
          /\ status' = [status EXCEPT ![c] = "bypassed"]
          /\ credit' = credit \cup {<<c, n>> : n \in Charged(c)}
          /\ UNCHANGED holds
    /\ UNCHANGED <<runnerVars, reload, alive, live, orphans, complaints>>

\* The VERIFY rules are evaluated after the lookup returned, before the answer.
VerifyCall(c) ==
    /\ status[c] = "held"
    /\ LET s == Call[c].at IN
       /\ box' = IF Call[c].bad THEN [box EXCEPT ![s].errors = @ \cup {c}] ELSE box
       /\ complaints' = IF Call[c].bad THEN complaints \cup {<<c, box[s].test>>} ELSE complaints
    /\ status' = [status EXCEPT ![c] = "done"]
    /\ UNCHANGED <<runnerVars, reload, alive, live, orphans, holds, credit>>

\* A call to a sidecar that died.
CallFails(c) ==
    /\ Due(c) /\ Call[c].at \notin alive
    /\ status' = [status EXCEPT ![c] = "failed"]
    /\ UNCHANGED <<runnerVars, box, reload, alive, live, orphans, holds, credit, complaints>>

\* Forgotten containers share the network aliases of the fresh ones: a call may
\* be answered by a sidecar nobody asks any more.
Stray(c) ==
    /\ Due(c) /\ orphans # {}
    /\ \E answer \in {"done", "bypassed"} : status' = [status EXCEPT ![c] = answer]
    /\ UNCHANGED <<runnerVars, box, reload, alive, live, orphans, holds, credit, complaints>>

Crash(s) ==
    /\ s \in alive /\ Cardinality(Sidecars \ alive) < MaxCrashes
    /\ alive' = alive \ {s}
    /\ status' = [c \in Calls |-> IF status[c] = "held" /\ Call[c].at = s THEN "failed" ELSE status[c]]
    /\ UNCHANGED <<runnerVars, box, reload, live, orphans, holds, credit, complaints>>

-----------------------------------------------------------------------------
(***************************************************************************)
(* The runner between two specs.                                           *)
(***************************************************************************)
\* Neither jobs and events nor specs that expect an event.
canUsePersistentContainers(t) == Tests[t].kind = "http"

\* New containers, each sidecar with the spec's registry.  The old ones are
\* stopped, or only forgotten: then the service keeps running beside the new one.
FreshStart(stopped) ==
    /\ box' = [s \in Sidecars |-> EmptyBox(test)]
    /\ alive' = Sidecars /\ reload' = [s \in Sidecars |-> "idle"]
    /\ live' = {} /\ orphans' = IF stopped THEN orphans ELSE orphans \cup live
    /\ status' = [c \in Calls |-> IF status[c] = "held" THEN "failed" ELSE status[c]]
    /\ host' = EmptyHost /\ kept' = FALSE /\ reused' = FALSE
    /\ step' = "trigger"
    /\ UNCHANGED <<test, reason, left, tries, reading, ticks, verdict, holds, credit, complaints>>

Start ==
    /\ step = "start" /\ test \in TestNo
    /\ \/ kept /\ canUsePersistentContainers(test)   \* the service answers its health check
          /\ host' = EmptyHost /\ reused' = TRUE /\ step' = "reload"
          /\ reload' = [s \in Sidecars |-> "idle"]
          /\ UNCHANGED <<test, reason, left, tries, reading, ticks, kept, verdict,
                         serviceVars, box, alive>>
       \/ kept /\ canUsePersistentContainers(test) /\ FreshStart(FALSE)   \* or it does not
       \/ kept /\ ~canUsePersistentContainers(test) /\ FreshStart(TRUE)
       \/ ~kept /\ FreshStart(FALSE)

\* mutant: the counters of the last spec stay
ReloadWithoutClear(s) ==
    /\ step = "reload" /\ reload[s] = "idle" /\ s \in alive
    /\ reload' = [reload EXCEPT ![s] = "done"]
    /\ box' = [box EXCEPT ![s].test = test]
    /\ UNCHANGED <<runnerVars, serviceVars, alive>>

\* /reload-registry: LoadFromBytes, then ClearState, at all sidecars in parallel.
Reload(s) ==
    /\ step = "reload"
    /\ \/ /\ reload[s] = "idle" /\ s \in alive
          /\ reload' = [reload EXCEPT ![s] = "loaded"]
          /\ box' = [box EXCEPT ![s].test = test]
       \/ /\ reload[s] = "loaded" /\ s \in alive
          /\ reload' = [reload EXCEPT ![s] = "done"]
          /\ box' = [box EXCEPT ![s] = EmptyBox(test)]
       \/ /\ reload[s] \in {"idle", "loaded"} /\ s \notin alive
          /\ reload' = [reload EXCEPT ![s] = "failed"]
          /\ UNCHANGED box
    /\ UNCHANGED <<runnerVars, serviceVars, alive>>

Reloaded ==
    /\ step = "reload" /\ \A s \in Sidecars : reload[s] \in {"done", "failed"}
    /\ \/ /\ \A s \in Sidecars : reload[s] = "done"
          /\ step' = "trigger"
          /\ UNCHANGED <<test, reason, left, tries, reading, ticks, kept, reused, host, verdict,
                         serviceVars, box, reload, alive>>
       \/ (\E s \in Sidecars : reload[s] = "failed") /\ FreshStart(FALSE)

-----------------------------------------------------------------------------
(***************************************************************************)
(* Trigger, response, polling.                                             *)
(***************************************************************************)
Collect(why) == reason' = why /\ left' = Sidecars /\ step' = "collect"

\* A verdict ends the spec.  Containers of a fresh start are kept only when
\* the spec passed, kept ones whatever the verdict.
End(v) ==
    /\ verdict' = [verdict EXCEPT ![test] = v]
    /\ test' = test + 1 /\ step' = "start"
    /\ kept' = (reused \/ (v = "pass" /\ canUsePersistentContainers(test)))
    /\ live' = IF kept' THEN live ELSE {}
    /\ UNCHANGED <<reason, left, tries, reading, ticks, reused, host, box, reload, alive,
                   orphans, status, holds, credit, complaints>>

Trigger ==
    /\ step = "trigger"
    /\ live' = live \cup {test} /\ ticks' = 0
    /\ IF Tests[test].kind = "async" THEN Collect("poll")
       ELSE step' = "await" /\ UNCHANGED <<reason, left>>
    /\ UNCHANGED <<test, tries, reading, kept, reused, host, verdict, box, reload, alive,
                   orphans, status, holds, credit, complaints>>

AwaitedCalls(t) == {c \in Tests[t].calls : Call[c].awaited}

\* A call went wrong for the service: refused, forwarded or failed.
Trouble(t) ==
    \E c \in AwaitedCalls(t) :
        status[c] \in {"failed", "bypassed"} \/ (status[c] = "done" /\ Call[c].bad)

\* The service answers when the calls it waits for were answered.
Respond ==
    /\ step = "await"
    /\ \A c \in AwaitedCalls(test) : status[c] \in {"done", "failed", "bypassed"}
    /\ \/ /\ Collect("final")
          /\ UNCHANGED <<test, tries, reading, ticks, kept, reused, host, verdict,
                         serviceVars, box, reload, alive>>
       \/ /\ Trouble(test) /\ Collect("mismatch")
          /\ UNCHANGED <<test, tries, reading, ticks, kept, reused, host, verdict,
                         serviceVars, box, reload, alive>>
       \/ Trouble(test) /\ \E v \in {"body", "error"} : End(v)

-----------------------------------------------------------------------------
(***************************************************************************)
(* collectHits: one sidecar after the other (the database sidecars in the  *)
(* order of a Go map).  /verify reads hits, passthroughs and VERIFY errors *)
(* under three separate locks; a sidecar that cannot be reached is given   *)
(* up after some attempts, and nothing is said of it.                      *)
(***************************************************************************)
\* Mocks with one key overwrite each other in the map that GetHits makes.
Counts(s, k) ==
    LET hit == {m \in Mocks : HitKey[m] = k /\ box[s].hits[m] > 0}
    IN  IF hit = {} THEN {0} ELSE {box[s].hits[m] : m \in hit}

GetHits(s) ==
    {f \in [Keys -> UNION {Counts(s, k) : k \in Keys}] : \A k \in Keys : f[k] \in Counts(s, k)}

ReadHits ==
    /\ step = "collect" /\ reading = NoReading
    /\ \E s \in left \cap alive : \E f \in GetHits(s) :
          reading' = [from |-> s, hits |-> f, passes |-> 0, part |-> 1]
    /\ UNCHANGED <<test, step, reason, left, tries, ticks, kept, reused, host, verdict,
                   serviceVars, box, reload, alive>>

ReadPassthroughs ==
    /\ step = "collect" /\ reading # NoReading /\ reading.from \in alive /\ reading.part = 1
    /\ reading' = [reading EXCEPT !.part = 2, !.passes = box[reading.from].passes]
    /\ UNCHANGED <<test, step, reason, left, tries, ticks, kept, reused, host, verdict,
                   serviceVars, box, reload, alive>>

\* mutant: reports are added up
SetHitsSum(hits, reported) ==
    [m \in Mocks |-> IF m \in MocksOf(test) THEN hits[m] + reported[HitKey[m]] ELSE hits[m]]

SetHits(hits, reported) ==
    [m \in Mocks |-> IF m \in MocksOf(test) /\ reported[HitKey[m]] > hits[m]
                     THEN reported[HitKey[m]] ELSE hits[m]]

\* The answer is complete and merged into the runner's registry.
Merge ==
    /\ step = "collect" /\ reading # NoReading /\ reading.from \in alive /\ reading.part = 2
    /\ host' = [hits   |-> SetHits(host.hits, reading.hits),
                passes |-> host.passes + reading.passes,
                errors |-> host.errors \cup box[reading.from].errors]
    /\ reading' = NoReading /\ tries' = 0 /\ left' = left \ {reading.from}
    /\ UNCHANGED <<test, step, reason, ticks, kept, reused, verdict, serviceVars, box, reload, alive>>

\* mutant: a sidecar that does not answer is asked for ever
RetryForever ==
    /\ step = "collect" /\ reading = NoReading /\ left \ alive # {}
    /\ UNCHANGED vars

\* A dead sidecar: http.Get fails, or its answer breaks off.
GetFails ==
    /\ step = "collect"
    /\ \/ /\ reading = NoReading
          /\ \E s \in left \ alive :
                IF tries + 1 = Attempts THEN tries' = 0 /\ left' = left \ {s}
                ELSE tries' = tries + 1 /\ UNCHANGED left
          /\ UNCHANGED reading
       \/ /\ reading # NoReading /\ reading.from \notin alive
          /\ reading' = NoReading /\ tries' = 0 /\ left' = left \ {reading.from}
    /\ UNCHANGED <<test, step, reason, ticks, kept, reused, host, verdict,
                   serviceVars, box, reload, alive>>

-----------------------------------------------------------------------------
(***************************************************************************)
(* Verdicts.                                                               *)
(***************************************************************************)
Collected == step = "collect" /\ left = {} /\ reading = NoReading

Forbidden == \E m \in Tests[test].nots : host.hits[m] > 0

\* mutant: only a spec without any call is missed
MissingAll == \A m \in Tests[test].expects : host.hits[m] = 0

Missing == \E m \in Tests[test].expects : host.hits[m] = 0

VerifyAll == host.errors = {} /\ ~Forbidden /\ ~Missing

\* The poll of an asynchronous spec.
Poll ==
    \/ /\ Collected /\ reason = "poll"
       /\ IF VerifyAll THEN Collect("final") ELSE step' = "tick" /\ UNCHANGED <<reason, left>>
       /\ UNCHANGED <<test, tries, reading, ticks, kept, reused, host, verdict,
                      serviceVars, box, reload, alive>>
    \/ /\ step = "tick" /\ ticks < MaxTicks
       /\ ticks' = ticks + 1 /\ Collect("poll")
       /\ UNCHANGED <<test, tries, reading, kept, reused, host, verdict,
                      serviceVars, box, reload, alive>>
    \/ step = "tick" /\ End("timeout")

\* mutant: strict_passthrough and EXPECT_NOTs are not looked at
JudgeCalled ==
    /\ Collected
    /\ \/ reason = "mismatch" /\ End(IF host.errors # {} THEN "verify" ELSE "status")
       \/ reason = "final" /\ ~Missing /\ host.errors = {} /\ End("pass")
       \/ reason = "final" /\ Missing /\ End("never")

Judge ==
    /\ Collected
    /\ \/ reason = "mismatch" /\ End(IF host.errors # {} THEN "verify" ELSE "status")
       \/ reason = "final" /\ host.errors # {} /\ End("verify")
       \/ reason = "final" /\ host.errors = {} /\ Forbidden /\ End("forbidden")
       \/ reason = "final" /\ host.errors = {} /\ Missing /\ End("never")
       \/ reason = "final" /\ VerifyAll /\ Tests[test].strict /\ host.passes > 0 /\ End("bypassed")
       \/ reason = "final" /\ VerifyAll /\ (Tests[test].strict => host.passes = 0) /\ End("pass")

-----------------------------------------------------------------------------
Runner ==
    \/ Start \/ Reloaded \/ (\E s \in Sidecars : Reload(s)) \/ Trigger
    \/ ReadHits \/ ReadPassthroughs \/ Merge \/ GetFails \/ Poll \/ Judge

Service == Respond \/ \E c \in Calls : Lookup(c) \/ VerifyCall(c) \/ CallFails(c) \/ Stray(c)

Next == Runner \/ Service \/ \E s \in Sidecars : Crash(s)

Spec == Init /\ [][Next]_vars

(***************************************************************************)
(* The runner is one goroutine that never waits for anything but a timer,  *)
(* an answer or the operating system; a service that answers is assumed    *)
(* where a property says so.                                               *)
(***************************************************************************)
RunnerFairSpec == Spec /\ WF_vars(Runner)

FairSpec == RunnerFairSpec /\ WF_vars(Service)
=============================================================================
