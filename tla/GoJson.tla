--------------------------------- MODULE GoJson ---------------------------------
(***************************************************************************)
(* GoJSON2SubUnit (python/subunit/__init__.py) and the `go test -json` it  *)
(* reads: tests of several packages run in parallel, each may be run more  *)
(* than once (-count), what they print comes as events of its own, and the *)
(* stream may end anywhere.  One action makes and handles one event.       *)
(***************************************************************************)
EXTENDS Naturals, Sequences

CONSTANTS Packages, Tests,
          MaxRuns,     \* bound: times a test is run
          MaxLines     \* bound: lines printed by one run, or by a package

ASSUME BoundsAssumption == MaxRuns \in Nat /\ MaxLines \in Nat
ASSUME NamesAssumption == \A pkg \in Packages : pkg \notin Packages \X Tests

Ids == Packages \X Tests
Sources == Ids \cup Packages   \* what prints: a test, or a package outside its tests
Verdicts == {"pass", "fail", "skip"}

VARIABLES
    running,     \* the tests that run, or did when their package failed
    closed,      \* the packages that have passed or failed
    failed,      \* those that failed
    printed,     \* lines printed: by a test's latest run, by a package
    verdicts,    \* go's verdicts on each test, one a run
    buffers,     \* buffers and pkg_buffers: no line is the absence of the key
    any_failed,
    emitted,     \* the packets the latest event caused
    reported,    \* the final statuses of each test
    over         \* the stream has ended and the function returned

go == <<running, closed, failed, printed, verdicts>>
vars == <<go, buffers, any_failed, emitted, reported, over>>

Packet(of, status, output) == [of |-> of, status |-> status, output |-> output]
StatusOf == [pass |-> "success", fail |-> "fail", skip |-> "skip"]

Init ==
    /\ running = {} /\ closed = {} /\ failed = {}
    /\ printed = [s \in Sources |-> 0] /\ verdicts = [id \in Ids |-> <<>>]
    /\ buffers = [s \in Sources |-> <<>>] /\ any_failed = FALSE
    /\ emitted = {} /\ reported = [id \in Ids |-> <<>>]
    /\ over = FALSE

\* A key is read and removed, as `pop` does.
Peek(source) == UNCHANGED buffers   \* mutant: the key stays
Pop(source) == buffers' = [buffers EXCEPT ![source] = <<>>]

Run(id) ==
    /\ ~over /\ id \notin running /\ id[1] \notin closed /\ Len(verdicts[id]) < MaxRuns
    /\ running' = running \cup {id}
    /\ printed' = [printed EXCEPT ![id] = 0]
    /\ emitted' = {Packet(id, "inprogress", <<>>)}
    /\ UNCHANGED <<closed, failed, verdicts, buffers, any_failed, reported, over>>

Output(source) ==
    /\ ~over
    /\ \/ source \in Packages \ closed
       \/ source \in running /\ source[1] \notin closed
    /\ printed[source] < MaxLines
    /\ printed' = [printed EXCEPT ![source] = @ + 1]
    /\ buffers' = [buffers EXCEPT ![source] = Append(@, <<source, printed'[source]>>)]
    /\ emitted' = {}
    /\ UNCHANGED <<running, closed, failed, verdicts, any_failed, reported, over>>

FailedOnSkip(verdict) == verdict # "pass"   \* mutant
IsFailure(verdict) == verdict = "fail"

Verdict(id, verdict) ==
    /\ ~over /\ id \in running /\ id[1] \notin closed
    /\ running' = running \ {id}
    /\ verdicts' = [verdicts EXCEPT ![id] = Append(@, verdict)]
    /\ Pop(id)
    /\ emitted' = {Packet(id, StatusOf[verdict], buffers[id])}
    /\ reported' = [reported EXCEPT ![id] = Append(@, StatusOf[verdict])]
    /\ any_failed' = (any_failed \/ IsFailure(verdict))
    /\ UNCHANGED <<closed, failed, printed, over>>

\* A package fails: one of its tests did, or its build, or a panic after which
\* nothing more is heard of the tests that run.
PackageFail(pkg) ==
    /\ ~over /\ pkg \notin closed
    /\ closed' = closed \cup {pkg} /\ failed' = failed \cup {pkg}
    /\ Pop(pkg)
    /\ emitted' = {Packet(pkg, "fail", buffers[pkg])}
    /\ any_failed' = TRUE
    /\ UNCHANGED <<running, printed, verdicts, reported, over>>

\* The summary of a package that passed: dropped, and so is what it printed.
PackagePass(pkg) ==
    /\ ~over /\ pkg \notin closed /\ \A id \in running : id[1] # pkg
    /\ closed' = closed \cup {pkg}
    /\ emitted' = {}
    /\ UNCHANGED <<running, failed, printed, verdicts, buffers, any_failed, reported, over>>

Unfinished == {id \in Ids : buffers[id] # <<>>}

\* The end of the stream: tests whose output was never reported are failures.
Eof ==
    /\ ~over /\ over' = TRUE
    /\ emitted' = {Packet(id, "fail", buffers[id]) : id \in Unfinished}
    /\ reported' = [id \in Ids |->
           IF id \in Unfinished THEN Append(reported[id], "fail") ELSE reported[id]]
    /\ any_failed' = (any_failed \/ Unfinished # {})
    /\ UNCHANGED <<go, buffers>>

Next ==
    \/ \E id \in Ids : Run(id) \/ \E verdict \in Verdicts : Verdict(id, verdict)
    \/ \E source \in Sources : Output(source)
    \/ \E pkg \in Packages : PackageFail(pkg) \/ PackagePass(pkg)
    \/ Eof

Spec == Init /\ [][Next]_vars
-------------------------------------------------------------------------------
(* Properties. *)

Statuses == {"success", "fail", "skip"}
Line == Sources \X (1 .. MaxLines)

TypeOK ==
    /\ running \in SUBSET Ids /\ closed \in SUBSET Packages /\ failed \in SUBSET closed
    /\ printed \in [Sources -> 0 .. MaxLines] /\ verdicts \in [Ids -> Seq(Verdicts)]
    /\ buffers \in [Sources -> Seq(Line)] /\ any_failed \in BOOLEAN
    /\ \A packet \in emitted :
          packet.of \in Sources /\ packet.output \in Seq(Line)
    /\ reported \in [Ids -> Seq(Statuses)] /\ over \in BOOLEAN

FirstLines(source, n) == [i \in 1 .. n |-> <<source, i>>]
Lines(source) == FirstLines(source, printed[source])

\* A final packet carries what that run of that test printed, whatever was
\* printed in between by other tests: nothing of another run, nothing twice.
OutputArrives ==
    \A packet \in emitted : packet.status # "inprogress" =>
        packet.output = Lines(packet.of)

\* Every verdict of go is reported, in order and once; the only other report is
\* the failure, at the end, of a test that got no verdict, and one that has printed
\* gets it.  (Of one that has not, nothing is promised: a comment says that none is
\* lost, and the code loses it.)
Translated(said) == [n \in DOMAIN said |-> StatusOf[said[n]]]
AsVerdicts(id) == reported[id] = Translated(verdicts[id])
AsVerdictsThenFailed(id) == reported[id] = Append(Translated(verdicts[id]), "fail")
CutOff(id) == over /\ id \in running

VerdictsArrive ==
    \A id \in Ids :
        \/ AsVerdicts(id) /\ ~(CutOff(id) /\ printed[id] > 0)
        \/ AsVerdictsThenFailed(id) /\ CutOff(id)

\* The exit code is 1 just when a failure was reported.
FailureReported ==
    \/ failed # {}
    \/ \E id \in Ids : \E n \in DOMAIN reported[id] : reported[id][n] = "fail"

ExitTellsFailure == over => (any_failed <=> FailureReported)
===============================================================================
