-------------------------------- MODULE GtkWindow --------------------------------
(***************************************************************************)
(* subunit2gtk (python/subunit/filter_scripts/subunit2gtk.py): a thread    *)
(* reads the stream into a GTKTestResult and leaves callbacks for the main *)
(* loop, which runs them one after the other and writes to the window.     *)
(* The callbacks take no values along: they read the result while the      *)
(* thread goes on changing it.  The user may close the window at any time. *)
(***************************************************************************)
EXTENDS Integers, Sequences, SequencesExt, FiniteSets

CONSTANTS
    None,
    Outcomes,   \* how the tests of a stream end; "inprogress": not at all
    MaxTests    \* bound: tests in the stream

ASSUME OutcomesAssumption == Outcomes \subseteq {"success", "fail", "uxsuccess", "inprogress"}
ASSUME TestsAssumption == MaxTests \in Nat

VARIABLES
    stream,      \* the outcomes in the stream, in the order they are read
    \* the thread
    io,          \* where run_and_finish is
    unread,      \* what is left of stream
    open,        \* tests that have started and not ended
    outcome,     \* of the test that is handed over
    \* the result
    testsRun, bad, unexpected,   \* counts: tests, failures and errors, unexpectedSuccesses
    idle,        \* callbacks for the main loop, oldest first
    \* the main thread
    main,        \* where main is, and within it update_counts
    seen,        \* bad, the local variable of update_counts
    run_label, ok_label, not_ok_label, text,   \* what the window shows
    _tasks,      \* progress_model
    closed,      \* the window has been closed
    exit         \* the exit code

result == <<testsRun, bad, unexpected>>
thread == <<io, unread, open, outcome>>
labels == <<run_label, ok_label, not_ok_label>>
vars == <<stream, thread, result, idle, main, seen, labels, text, _tasks, closed, exit>>

progress_model == INSTANCE ProgressModel

Counted(s, which) == Cardinality({i \in DOMAIN s : s[i] \in which})
-------------------------------------------------------------------------------
(* The thread: run_and_finish. *)

ThreadLives == main # "ended"   \* a daemon thread
Untouched == UNCHANGED <<stream, main, seen, labels, text, _tasks, closed, exit>>

\* The next test that ends is handed over; one that does not is remembered.
ReadsTest ==
    /\ ThreadLives /\ io = "read" /\ unread # <<>>
    /\ unread' = Tail(unread)
    /\ IF Head(unread) = "inprogress"
       THEN open' = open + 1 /\ UNCHANGED <<io, outcome, result>>
       ELSE /\ io' = "outcome" /\ outcome' = Head(unread)
            /\ testsRun' = testsRun + 1
            /\ UNCHANGED <<open, bad, unexpected>>
    /\ UNCHANGED idle /\ Untouched

ReadsEof ==
    /\ ThreadLives /\ io = "read" /\ unread = <<>>
    /\ io' = "flush"
    /\ UNCHANGED <<unread, open, outcome, result, idle>> /\ Untouched

\* The reader raises: the thread ends, and the window stays.
Dies ==
    /\ ThreadLives /\ io = "read"
    /\ io' = "died"
    /\ UNCHANGED <<unread, open, outcome, result, idle>> /\ Untouched

\* When the stream has ended, tests that did not end are handed over as failures.
FlushesTest ==
    /\ ThreadLives /\ io = "flush" /\ open > 0
    /\ open' = open - 1 /\ io' = "outcome" /\ outcome' = "inprogress"
    /\ testsRun' = testsRun + 1
    /\ UNCHANGED <<unread, bad, unexpected, idle>> /\ Untouched

\* The methods of unittest.TestResult come first, ...
addOutcome ==
    /\ ThreadLives /\ io = "outcome"
    /\ bad' = bad + (IF outcome \in {"fail", "inprogress"} THEN 1 ELSE 0)
    /\ unexpected' = unexpected + (IF outcome = "uxsuccess" THEN 1 ELSE 0)
    /\ io' = "announce"
    /\ UNCHANGED <<unread, open, outcome, testsRun, idle>> /\ Untouched

AnnouncesMost == outcome # "uxsuccess"   \* mutant: one method without idle_add
AnnouncesFailures == outcome = "fail"    \* mutant: only what is not OK is announced
Announces == TRUE

\* ... then the callback.
Announce ==
    /\ ThreadLives /\ io = "announce"
    /\ idle' = IF Announces THEN Append(idle, "update_counts") ELSE idle
    /\ io' = "stop"
    /\ UNCHANGED <<unread, open, outcome, result>> /\ Untouched

stopTest ==
    /\ ThreadLives /\ io = "stop"
    /\ idle' = Append(idle, "_stopTest")
    /\ io' = IF outcome = "inprogress" THEN "flush" ELSE "read"
    /\ UNCHANGED <<unread, open, outcome, result>> /\ Untouched

stopTestRun ==
    /\ ThreadLives /\ io = "flush" /\ open = 0
    /\ idle' = Append(idle, "set_text")
    /\ io' = "ended"
    /\ UNCHANGED <<unread, open, outcome, result>> /\ Untouched

Reads == ReadsTest \/ ReadsEof \/ Dies
Reports == FlushesTest \/ addOutcome \/ Announce \/ stopTest \/ stopTestRun
-------------------------------------------------------------------------------
(* The main thread. *)

ThreadRuns == UNCHANGED <<stream, thread, result>>

\* Events that are pending before the thread is there are handled, then the
\* thread is started and the main loop entered.
StartIO ==
    /\ main = "setup"
    /\ main' = "loop" /\ io' = "read"
    /\ UNCHANGED <<stream, unread, open, outcome, result, idle, seen, labels, text, _tasks, closed, exit>>

Dispatches(callback) ==
    /\ main = "loop" /\ idle # <<>> /\ Head(idle) = callback
    /\ idle' = Tail(idle)

\* update_counts, a read or a write at a time.
CountsRun ==
    /\ Dispatches("update_counts")
    /\ run_label' = testsRun /\ main' = "bad"
    /\ UNCHANGED <<seen, ok_label, not_ok_label, text, _tasks, closed, exit>> /\ ThreadRuns

CountsBad ==
    /\ main = "bad"
    /\ seen' = bad /\ main' = "ok"
    /\ UNCHANGED <<idle, labels, text, _tasks, closed, exit>> /\ ThreadRuns

CountsOk ==
    /\ main = "ok"
    /\ ok_label' = testsRun - seen /\ main' = "not ok"
    /\ UNCHANGED <<idle, seen, run_label, not_ok_label, text, _tasks, closed, exit>> /\ ThreadRuns

CountsNotOk ==
    /\ main = "not ok"
    /\ not_ok_label' = seen /\ main' = "loop"
    /\ UNCHANGED <<idle, seen, run_label, ok_label, text, _tasks, closed, exit>> /\ ThreadRuns

_stopTest ==
    /\ Dispatches("_stopTest")
    /\ progress_model!advance
    /\ UNCHANGED <<main, seen, labels, text, closed, exit>> /\ ThreadRuns

ShowFinished ==
    /\ Dispatches("set_text")
    /\ text' = "Finished"
    /\ UNCHANGED <<main, seen, labels, _tasks, closed, exit>> /\ ThreadRuns

\* "destroy" calls Gtk.main_quit, which quits nothing while there is no loop.
\* In the loop it goes before the callbacks that wait.
Closes ==
    /\ ~closed /\ main \in {"setup", "loop"}
    /\ closed' = TRUE
    /\ main' = IF main = "loop" THEN "quit" ELSE main
    /\ UNCHANGED <<idle, seen, labels, text, _tasks, exit>> /\ ThreadRuns

wasSuccessfulAsShown == not_ok_label \in {None, 0}   \* mutant: unexpected successes are OK
wasSuccessful == bad = 0 /\ unexpected = 0

Exits ==
    /\ main = "quit"
    /\ exit' = (IF wasSuccessful THEN 0 ELSE 1) /\ main' = "ended"
    /\ UNCHANGED <<idle, seen, labels, text, _tasks, closed>> /\ ThreadRuns

MainWorks ==
    \/ StartIO \/ CountsRun \/ CountsBad \/ CountsOk \/ CountsNotOk
    \/ _stopTest \/ ShowFinished \/ Exits

Init ==
    /\ stream \in BoundedSeq(Outcomes, MaxTests)
    /\ io = "none" /\ unread = stream /\ open = 0 /\ outcome = None
    /\ testsRun = 0 /\ bad = 0 /\ unexpected = 0 /\ idle = <<>>
    /\ main = "setup" /\ seen = 0
    /\ run_label = None /\ ok_label = None /\ not_ok_label = None /\ text = "Running"
    /\ progress_model!Init
    /\ closed = FALSE /\ exit = None

Next == Reads \/ Reports \/ MainWorks \/ Closes

\* Both threads are scheduled; the stream may stall, and nobody has to close
\* the window.
Spec == Init /\ [][Next]_vars /\ WF_vars(Reports) /\ WF_vars(MainWorks)
-------------------------------------------------------------------------------
(* Properties. *)

\* A window that says Finished shows the counts of the whole stream, the tests
\* that never ended among them, and its bar has moved once for each test.
FinishedMeansCounted ==
    (text = "Finished" /\ stream # <<>>) =>
        LET not_ok == Counted(stream, {"fail", "inprogress"})
        IN  /\ run_label = Len(stream)
            /\ not_ok_label = not_ok /\ ok_label = Len(stream) - not_ok
            /\ progress_model!pos(_tasks) = Len(stream)

\* The exit code is 1 only for a stream with a result that is not OK, and once
\* the window has said Finished for each such stream.  (Closed earlier, the
\* window may exit 0 with failures unread.)
ExitTellsOutcome ==
    LET failing == Counted(stream, {"fail", "inprogress", "uxsuccess"}) > 0
    IN  main = "ended" => /\ exit = 1 => failing
                          /\ text = "Finished" /\ failing => exit = 1

\* What has been counted is shown before long, whether or not the stream ends,
\* stalls or cannot be read, unless the user closes the window.
CountsAreShown ==
    \A n \in 1 .. MaxTests :
        /\ (testsRun >= n /\ io \in {"read", "flush", "ended", "died"}) ~>
              (main = "ended" \/ (run_label # None /\ run_label >= n))
        /\ (bad >= n) ~> (main = "ended" \/ (not_ok_label # None /\ not_ok_label >= n))
===============================================================================
