-------------------------------- MODULE TestRun --------------------------------
(***************************************************************************)
(* What a unittest TestResult may rely on, whichever parser feeds it: the  *)
(* tests of one stream never overlap, each started test gets exactly one   *)
(* outcome and is then stopped, both calls naming the test that is running,*)
(* and a stream that ends leaves no test running.                          *)
(***************************************************************************)
EXTENDS Sequences

CONSTANTS Names,     \* the tests
          None,      \* no test
          Outcomes   \* the outcome methods of a TestResult

VARIABLES running,   \* the test between its startTest and its stopTest
          calls,     \* the calls the result got in the latest step, in order
          over       \* the stream has ended

vars == <<running, calls, over>>

Call(op, t) == [op |-> op, test |-> t]

Init == running = None /\ calls = <<>> /\ over = FALSE

Start(t) ==
    /\ ~over /\ running = None
    /\ running' = t
    /\ calls' = <<Call("startTest", t)>>
    /\ UNCHANGED over

Closing(outcome) ==
    /\ running # None
    /\ running' = None
    /\ calls' = <<Call(outcome, running), Call("stopTest", running)>>

Finish(outcome) == ~over /\ Closing(outcome) /\ UNCHANGED over

\* Tags and time concern the stream and not the running test.
Annotate(op) ==
    /\ ~over
    /\ calls' = <<Call(op, None)>>
    /\ UNCHANGED <<running, over>>

Quiet == ~over /\ calls' = <<>> /\ UNCHANGED <<running, over>>

\* The stream ends; a test still running is closed with an error.
End ==
    /\ ~over /\ over'
    /\ \/ Closing("error")
       \/ running = None /\ calls' = <<>> /\ UNCHANGED running

Next ==
    \/ \E t \in Names : Start(t)
    \/ \E outcome \in Outcomes : Finish(outcome)
    \/ \E op \in {"tags", "time"} : Annotate(op)
    \/ Quiet
    \/ End

Spec == Init /\ [][Next]_vars
===============================================================================
