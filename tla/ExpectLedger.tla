---------------------------- MODULE ExpectLedger ----------------------------
(***************************************************************************)
(* What a mock registry promises a spec, whatever the protocols and the    *)
(* interleaving of the requests: every EXPECT is spent at most once, on a  *)
(* request it describes, and stays spent on that request; every EXPECT_NOT  *)
(* that was broken stays broken; a VERIFY failure is never forgotten.      *)
(***************************************************************************)
CONSTANTS
    Expects,        \* the EXPECT statements
    ExpectNots,     \* the EXPECT_NOT statements
    Requests,
    NoRequest,
    Describes(_, _) \* Describes(i, r): statement i describes request r

VARIABLES
    owner,          \* the request each EXPECT was spent on
    broken,         \* the EXPECT_NOTs that a request broke
    failed          \* TRUE once a VERIFY rule failed

vars == <<owner, broken, failed>>

Init ==
    /\ owner = [i \in Expects |-> NoRequest]
    /\ broken = {}
    /\ failed = FALSE

\* An unspent EXPECT is spent on a request; a rule of its own may fail at once.
Spend(i) ==
    /\ owner[i] = NoRequest
    /\ owner'[i] \in Requests /\ Describes(i, owner'[i])
    /\ owner' = [owner EXCEPT ![i] = owner'[i]]
    /\ failed' \in {failed, TRUE}
    /\ UNCHANGED broken

\* One request may break several EXPECT_NOTs in one step.
Break(S) ==
    /\ broken' = broken \cup S
    /\ UNCHANGED <<owner, failed>>

Fail ==
    /\ failed' = TRUE
    /\ UNCHANGED <<owner, broken>>

Next ==
    \/ \E i \in Expects : Spend(i)
    \/ \E S \in SUBSET ExpectNots : Break(S)
    \/ Fail

Spec == Init /\ [][Next]_vars
=============================================================================
