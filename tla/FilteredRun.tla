------------------------------ MODULE FilteredRun ------------------------------
(***************************************************************************)
(* What a filter of test results promises: each test that ends is passed   *)
(* on whole, with the outcome it had and under the tags it had it under,   *)
(* or nothing of it is passed on; tags given outside tests hold for all    *)
(* tests that follow.  Unexpected successes are always passed on.          *)
(***************************************************************************)
CONSTANTS Names, None, Tags, Outcomes,
          Excluded,   \* outcomes that are filtered out
          With,       \* tags a test must have to be passed on
          Without,    \* tags a test must not have
          FixedUp     \* tests expected to fail

VARIABLES running,    \* the test between its startTest and its stopTest
          base,       \* the tags that hold outside tests
          active,     \* the tags that hold now
          given,      \* the running test's report, None before its outcome
          passed      \* the report passed on in the latest step, or None

vars == <<running, base, active, given, passed>>

Report(t, outcome, tags) == [test |-> t, outcome |-> outcome, tags |-> tags]

Init ==
    /\ running = None /\ base = {} /\ active = {} /\ given = None /\ passed = None

\* A known failure is an expected one, and a success of such a test is not.
FixUp(t, outcome) ==
    IF t \notin FixedUp THEN outcome
    ELSE IF outcome \in {"error", "failure"} THEN "xfail"
    ELSE IF outcome = "success" THEN "uxsuccess" ELSE outcome

Passes(report) ==
    \/ report.outcome = "uxsuccess"
    \/ /\ report.outcome \notin Excluded
       /\ With \subseteq report.tags
       /\ Without \cap report.tags = {}

Start(t) ==
    /\ running = None
    /\ running' = t /\ passed' = None
    /\ UNCHANGED <<base, active, given>>

Retag(new, gone) ==
    /\ active' = (active \cup new) \ gone
    /\ base' = IF running = None THEN active' ELSE base
    /\ passed' = None
    /\ UNCHANGED <<running, given>>

Give(outcome) ==
    /\ running # None /\ given = None
    /\ given' = Report(running, FixUp(running, outcome), active)
    /\ passed' = None
    /\ UNCHANGED <<running, base, active>>

Stop ==
    /\ given # None
    /\ passed' = IF Passes(given) THEN given ELSE None
    /\ running' = None /\ given' = None /\ active' = base
    /\ UNCHANGED base

Pause == passed' = None /\ UNCHANGED <<running, base, active, given>>

Next ==
    \/ \E t \in Names : Start(t)
    \/ \E new, gone \in SUBSET Tags : Retag(new, gone)
    \/ \E outcome \in Outcomes : Give(outcome)
    \/ Stop \/ Pause

Spec == Init /\ [][Next]_vars
===============================================================================
