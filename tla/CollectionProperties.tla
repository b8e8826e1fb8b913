----------------------- MODULE CollectionProperties -----------------------
(***************************************************************************)
(* What a verdict may rest on.                                             *)
(***************************************************************************)
EXTENDS HitCollection

Passed == {t \in TestNo : verdict[t] = "pass"}

CountedFor(m) == \E c \in Calls : <<c, m>> \in credit

\* Mocks a spec tells apart have keys of their own.
KeysApart ==
    \A t \in TestNo : \A m, n \in MocksOf(t) : HitKey[m] = HitKey[n] => m = n

-----------------------------------------------------------------------------
(***************************************************************************)
(* The runner's counts never run ahead of the sidecars', however often it  *)
(* polls: what it believes of a mock was counted, by one sidecar, for a    *)
(* mock with that key.  (SetHits: adding up "would inflate counts".)       *)
(***************************************************************************)
HostNeverAhead ==
    \A m \in Mocks :
        host.hits[m] > 0 =>
            \E s \in Sidecars : \E n \in MocksOf(box[s].test) :
                HitKey[n] = HitKey[m] /\ host.hits[m] <= box[s].hits[n]

(***************************************************************************)
(* While a spec is judged its counts only grow: a sidecar that reports     *)
(* less than another, or no longer answers, takes nothing back.            *)
(***************************************************************************)
NothingTakenBack ==
    step \in {"collect", "tick"} => \A m \in Mocks : host.hits[m] <= host'.hits[m]

HitsOnlyGrow == [][NothingTakenBack]_vars

(***************************************************************************)
(* "Tests fail if the HTTP mock is defined but not invoked": a spec passes *)
(* only if a call was counted for each of its EXPECTs, by a sidecar that   *)
(* had the spec loaded.                                                    *)
(***************************************************************************)
PassMeansCalled ==
    \A t \in Passed : \A m \in Tests[t].expects : CountedFor(m)

(***************************************************************************)
(* A spec that passed made no forbidden call, broke no VERIFY rule and,    *)
(* under strict_passthrough, bypassed no mock, in any call the service     *)
(* waited for: unless containers were forgotten, or a sidecar is dead by   *)
(* then and what it counted lost with it.                                  *)
(***************************************************************************)
CleanCall(c, t) ==
    /\ \A m \in Tests[t].nots : <<c, m>> \notin credit
    /\ <<c, t>> \notin complaints
    /\ Tests[t].strict => status[c] # "bypassed"

PassedClean ==
    \A t \in TestNo :
        verdict'[t] # verdict[t] /\ verdict'[t] = "pass" /\ alive = Sidecars /\ orphans = {} =>
            \A c \in AwaitedCalls(t) : CleanCall(c, t)

PassMeansClean == [][PassedClean]_vars

(***************************************************************************)
(* A service that so far made exactly the calls of each spec, and waited   *)
(* for them, passes: no verdict reached with all sidecars alive is spoiled *)
(* by the reuse of a sidecar, the order of collection or the interleaving  *)
(* of its calls.                                                           *)
(***************************************************************************)
Behaved(t) ==
    /\ Tests[t].kind = "http"
    /\ \A c \in Tests[t].calls :
          /\ Call[c].awaited /\ ~Call[c].bad
          /\ \E m \in Tests[t].expects : Call[c].fits \cap MocksOf(t) = {m}
    /\ \A m \in Tests[t].expects :
          Cardinality({c \in Tests[t].calls : m \in Call[c].fits}) = 1

JudgedFairly ==
    \A t \in TestNo :
        /\ verdict'[t] # verdict[t]
        /\ alive = Sidecars /\ orphans = {}
        /\ \A u \in 1 .. t : Behaved(u)
        => verdict'[t] = "pass"

WellBehavedPasses == [][JudgedFairly]_vars

(***************************************************************************)
(* Every spec is judged, although sidecars die and answers are lost.       *)
(***************************************************************************)
EveryTestJudged == <>(\A t \in TestNo : verdict[t] # "none")
=============================================================================
