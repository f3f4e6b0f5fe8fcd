-------------------------------- MODULE GtkProofs --------------------------------
(***************************************************************************)
(* Theorems about GtkWindow, for streams of any length: what the window    *)
(* shows once every callback has run, what it shows when it says Finished, *)
(* and its exit code.  And about ProgressModel, which measures its bar.    *)
(***************************************************************************)
EXTENDS GtkWindow, SequenceTheorems, FiniteSetTheorems, FunctionTheorems, TLAPS

Callbacks == {"update_counts", "_stopTest", "set_text"}
Counting == {"bad", "ok", "not ok"}   \* main is inside update_counts
Handing == {"outcome", "announce", "stop"}

Typed ==
    /\ unread \in Seq(Outcomes) /\ stream \in Seq(Outcomes) /\ idle \in Seq(Callbacks)
    /\ open \in Nat /\ testsRun \in Nat /\ bad \in Nat /\ unexpected \in Nat /\ seen \in Nat
    /\ io \in {"none", "read", "flush", "ended", "died"} \cup Handing
    /\ main \in {"setup", "loop", "quit", "ended"} \cup Counting
    /\ main = "setup" => io = "none"

\* Each test is unread, remembered, or counted; those that are only remembered
\* are counted when all the others have been read.
TestsAddUp ==
    /\ Len(unread) + open + testsRun = Len(stream)
    /\ io \in {"flush", "ended"} => unread = <<>>
    /\ (io \in Handing /\ outcome = "inprogress") => unread = <<>>
    /\ io = "ended" => open = 0

Waiting(callbacks) == \E i \in 1 .. Len(callbacks) : callbacks[i] = "update_counts"

\* The counts have changed and a callback that shows them waits, or is about to.
Due == Waiting(idle) \/ io \in {"outcome", "announce"}

\* What update_counts has written so far is what the result says.
CurrentSoFar ==
    /\ run_label = testsRun
    /\ main \in {"ok", "not ok"} => seen = bad
    /\ main \notin {"bad", "ok"} => ok_label = testsRun - bad
    /\ main \notin Counting => not_ok_label = bad

LabelsFollow == testsRun > 0 => Due \/ CurrentSoFar

\* "Finished" is the last callback.
FinishedIsLast ==
    /\ \A i \in 1 .. Len(idle) : idle[i] = "set_text" => i = Len(idle) /\ io = "ended"
    /\ text = "Finished" => io = "ended" /\ idle = <<>> /\ main \notin Counting

Consistent == Typed /\ TestsAddUp /\ LabelsFollow /\ FinishedIsLast
-------------------------------------------------------------------------------
LEMMA Initially == Init => Consistent
<1> SUFFICES ASSUME Init PROVE Consistent
    OBVIOUS
<1>1. stream \in Seq(Outcomes)
    BY TestsAssumption DEF Init, BoundedSeq, SeqOf
<1>2. Typed
    BY <1>1 DEF Init, Typed, Callbacks, Counting, Handing
<1>3. TestsAddUp
    BY <1>1 DEF Init, TestsAddUp, Handing
<1>4. LabelsFollow /\ FinishedIsLast
    BY DEF Init, LabelsFollow, FinishedIsLast
<1> QED
    BY <1>2, <1>3, <1>4 DEF Consistent

LEMMA AppendWaits ==
    ASSUME NEW callbacks \in Seq(Callbacks), NEW callback \in Callbacks
    PROVE  /\ Append(callbacks, callback) \in Seq(Callbacks)
           /\ Waiting(callbacks) => Waiting(Append(callbacks, callback))
           /\ callback = "update_counts" => Waiting(Append(callbacks, callback))
BY DEF Waiting

\* Only update_counts goes when it is the first to wait.
LEMMA TailWaits ==
    ASSUME NEW callbacks \in Seq(Callbacks), callbacks # <<>>,
           Head(callbacks) # "update_counts", Waiting(callbacks)
    PROVE  Waiting(Tail(callbacks))
<1>1. PICK i \in 1 .. Len(callbacks) : callbacks[i] = "update_counts"
    BY DEF Waiting
<1>2. i - 1 \in 1 .. Len(Tail(callbacks)) /\ Tail(callbacks)[i - 1] = callbacks[i]
    BY <1>1
<1> QED
    BY <1>1, <1>2 DEF Waiting
-------------------------------------------------------------------------------
(* The thread. *)

\* A step of the thread before the stream has ended leaves no callback, or one
\* that is not the last.
LEMMA ThreadKeepsOrder ==
    ASSUME Typed, FinishedIsLast, io # "ended", UNCHANGED <<text, main>>,
           idle' = idle \/ \E callback \in {"update_counts", "_stopTest"} : idle' = Append(idle, callback)
    PROVE  FinishedIsLast'
<1>1. \A i \in 1 .. Len(idle) : idle[i] # "set_text"
    BY DEF FinishedIsLast
<1>2. \A i \in 1 .. Len(idle') : idle'[i] # "set_text"
    <2>1. CASE idle' = idle
        BY <1>1, <2>1
    <2>2. ASSUME NEW callback \in {"update_counts", "_stopTest"}, idle' = Append(idle, callback)
          PROVE  \A i \in 1 .. Len(idle') : idle'[i] # "set_text"
        BY <1>1, <2>2 DEF Typed
    <2> QED
        BY <2>1, <2>2
<1>3. text' # "Finished"
    BY DEF FinishedIsLast
<1> QED
    BY <1>2, <1>3 DEF FinishedIsLast

LEMMA ThreadStep ==
    ASSUME Consistent, Reads \/ Reports
    PROVE  Consistent'
<1> USE DEF Consistent
<1>1. CASE ReadsTest
    <2>1. /\ unread # <<>> /\ io = "read" /\ unread' = Tail(unread)
          /\ UNCHANGED <<stream, main, seen, labels, text, idle, bad, unexpected>>
        BY <1>1 DEF ReadsTest, Untouched, result
    <2>2. \/ open' = open + 1 /\ io' = io /\ UNCHANGED <<outcome, testsRun>>
          \/ open' = open /\ io' = "outcome" /\ outcome' = Head(unread)
             /\ Head(unread) # "inprogress" /\ testsRun' = testsRun + 1
        BY <1>1 DEF ReadsTest, result
    <2>3. Len(unread') = Len(unread) - 1 /\ Len(unread) \in Nat \ {0} /\ unread' \in Seq(Outcomes)
        BY <2>1 DEF Typed
    <2>4. Typed'
        BY <2>1, <2>2, <2>3 DEF Typed, Handing
    <2>5. TestsAddUp'
        BY <2>1, <2>2, <2>3 DEF Typed, TestsAddUp, Handing
    <2>6. LabelsFollow'
        BY <2>1, <2>2 DEF LabelsFollow, Due, CurrentSoFar, labels
    <2> QED
        BY <2>1, <2>4, <2>5, <2>6, ThreadKeepsOrder
<1>2. CASE ReadsEof
    <2>1. Typed' /\ TestsAddUp' /\ LabelsFollow'
        BY <1>2 DEF ReadsEof, Untouched, Typed, TestsAddUp, Handing, LabelsFollow, Due, CurrentSoFar, labels, result
    <2> QED
        BY <1>2, <2>1, ThreadKeepsOrder DEF ReadsEof, Untouched
<1>3. CASE Dies
    <2>1. Typed' /\ TestsAddUp' /\ LabelsFollow'
        BY <1>3 DEF Dies, Untouched, Typed, TestsAddUp, Handing, LabelsFollow, Due, CurrentSoFar, labels, result
    <2> QED
        BY <1>3, <2>1, ThreadKeepsOrder DEF Dies, Untouched
<1>4. CASE FlushesTest
    <2>1. Typed' /\ TestsAddUp' /\ LabelsFollow'
        BY <1>4 DEF FlushesTest, Untouched, Typed, TestsAddUp, Handing, LabelsFollow, Due
    <2> QED
        BY <1>4, <2>1, ThreadKeepsOrder DEF FlushesTest, Untouched
<1>5. CASE addOutcome
    <2>1. bad' \in Nat /\ unexpected' \in Nat
        BY <1>5 DEF addOutcome, Typed
    <2>2. Typed' /\ TestsAddUp' /\ LabelsFollow'
        BY <1>5, <2>1 DEF addOutcome, Untouched, Typed, TestsAddUp, Handing, LabelsFollow, Due
    <2> QED
        BY <1>5, <2>2, ThreadKeepsOrder DEF addOutcome, Untouched
<1>6. CASE Announce
    <2>1. idle' = Append(idle, "update_counts") /\ idle' \in Seq(Callbacks) /\ Waiting(idle')
        BY <1>6, AppendWaits DEF Announce, Announces, Typed, Callbacks
    <2>2. Typed' /\ TestsAddUp' /\ LabelsFollow'
        BY <1>6, <2>1 DEF Announce, Untouched, Typed, TestsAddUp, Handing, LabelsFollow, Due, result
    <2> QED
        BY <1>6, <2>1, <2>2, ThreadKeepsOrder DEF Announce, Untouched
<1>7. CASE stopTest
    <2>1. /\ idle' = Append(idle, "_stopTest") /\ idle' \in Seq(Callbacks)
          /\ Waiting(idle) => Waiting(idle')
        BY <1>7, AppendWaits DEF stopTest, Typed, Callbacks
    <2>2. Typed' /\ TestsAddUp' /\ LabelsFollow'
        BY <1>7, <2>1 DEF stopTest, Untouched, Typed, TestsAddUp, Handing, LabelsFollow, Due, CurrentSoFar, labels, result
    <2> QED
        BY <1>7, <2>1, <2>2, ThreadKeepsOrder DEF stopTest, Untouched
<1>8. CASE stopTestRun
    <2>1. /\ idle' = Append(idle, "set_text") /\ idle' \in Seq(Callbacks)
          /\ Waiting(idle) => Waiting(idle')
        BY <1>8, AppendWaits DEF stopTestRun, Typed, Callbacks
    <2>2. Typed' /\ TestsAddUp' /\ LabelsFollow'
        BY <1>8, <2>1 DEF stopTestRun, Untouched, Typed, TestsAddUp, Handing, LabelsFollow, Due, CurrentSoFar, labels, result
    <2>3. \A i \in 1 .. Len(idle) : idle[i] # "set_text"
        BY <1>8 DEF stopTestRun, FinishedIsLast
    <2>4. \A i \in 1 .. Len(idle') : idle'[i] = "set_text" => i = Len(idle')
        BY <2>1, <2>3 DEF Typed
    <2>5. text' # "Finished" /\ io' = "ended"
        BY <1>8 DEF stopTestRun, Untouched, FinishedIsLast
    <2>6. FinishedIsLast'
        BY <2>4, <2>5 DEF FinishedIsLast
    <2> QED
        BY <2>2, <2>6
<1> QED
    BY <1>1, <1>2, <1>3, <1>4, <1>5, <1>6, <1>7, <1>8 DEF Reads, Reports
-------------------------------------------------------------------------------
(* The main thread. *)

\* A callback is taken: those that stay are in the order they were in.
LEMMA Dispatched ==
    ASSUME Typed, FinishedIsLast, NEW callback, Dispatches(callback)
    PROVE  /\ idle' \in Seq(Callbacks) /\ main = "loop"
           /\ callback # "update_counts" /\ Waiting(idle) => Waiting(idle')
           /\ \A i \in 1 .. Len(idle') : idle'[i] = "set_text" => i = Len(idle') /\ io = "ended"
           /\ callback = "set_text" => idle' = <<>> /\ io = "ended"
           /\ text # "Finished"
<1>1. idle \in Seq(Callbacks) /\ idle # <<>> /\ Head(idle) = callback /\ idle' = Tail(idle)
    BY DEF Typed, Dispatches
<1>2. idle' \in Seq(Callbacks) /\ main = "loop" /\ text # "Finished"
    BY <1>1 DEF Dispatches, FinishedIsLast
<1>3. callback # "update_counts" /\ Waiting(idle) => Waiting(idle')
    BY <1>1, TailWaits
<1>4. ASSUME NEW i \in 1 .. Len(idle'), idle'[i] = "set_text"
      PROVE  i = Len(idle') /\ io = "ended"
    <2>1. i + 1 \in 1 .. Len(idle) /\ idle[i + 1] = "set_text" /\ Len(idle') = Len(idle) - 1
        BY <1>1, <1>4
    <2>2. i + 1 = Len(idle) /\ io = "ended"
        BY <2>1 DEF FinishedIsLast
    <2> QED
        BY <2>1, <2>2, <1>1
<1>5. ASSUME callback = "set_text"
      PROVE  idle' = <<>> /\ io = "ended"
    <2>1. 1 \in 1 .. Len(idle) /\ idle[1] = "set_text"
        BY <1>1, <1>5
    <2>2. 1 = Len(idle) /\ io = "ended"
        BY <2>1 DEF FinishedIsLast
    <2> QED
        BY <2>2, <1>1
<1> QED
    BY <1>2, <1>3, <1>4, <1>5

LEMMA MainStep ==
    ASSUME Consistent, MainWorks \/ Closes
    PROVE  Consistent'
<1> USE DEF Consistent
<1>1. CASE StartIO
    <2>1. /\ io' = "read" /\ main = "setup" /\ main' = "loop"
          /\ UNCHANGED <<stream, unread, open, outcome, testsRun, bad, unexpected, idle, seen, text>>
          /\ UNCHANGED labels
        BY <1>1 DEF StartIO, result
    <2>2. io = "none"
        BY <2>1 DEF Typed
    <2>3. Typed'
        BY <2>1, <2>2 DEF Typed
    <2>4. TestsAddUp'
        BY <2>1, <2>2, <1>1 DEF StartIO, TestsAddUp, Handing
    <2>5. LabelsFollow'
        BY <2>1, <2>2 DEF LabelsFollow, Due, CurrentSoFar, Counting, labels
    <2>6. FinishedIsLast'
        BY <2>1, <2>2 DEF FinishedIsLast
    <2> QED
        BY <2>3, <2>4, <2>5, <2>6
<1>2. CASE CountsRun
    <2>1. Dispatches("update_counts") /\ run_label' = testsRun /\ main' = "bad"
        BY <1>2 DEF CountsRun
    <2>2. UNCHANGED <<stream, thread, result, seen, text>>
        BY <1>2 DEF CountsRun, ThreadRuns
    <2>3. Typed' /\ TestsAddUp'
        BY <2>1, <2>2, Dispatched DEF Typed, TestsAddUp, Counting, thread, result
    <2>4. CurrentSoFar'
        BY <2>1, <2>2 DEF CurrentSoFar, Counting, result
    <2>5. FinishedIsLast'
        BY <2>1, <2>2, Dispatched DEF FinishedIsLast, thread
    <2> QED
        BY <2>3, <2>4, <2>5 DEF LabelsFollow
<1>3. CASE CountsBad \/ CountsOk \/ CountsNotOk
    <2>1. main \in Counting /\ UNCHANGED <<stream, thread, result, idle, text, run_label>>
        BY <1>3 DEF CountsBad, CountsOk, CountsNotOk, ThreadRuns, Counting, labels
    <2>2. /\ main = "bad" => main' = "ok" /\ seen' = bad
          /\ main = "ok" => main' = "not ok" /\ seen' = seen /\ ok_label' = testsRun - seen
          /\ main = "not ok" => main' = "loop" /\ seen' = seen /\ ok_label' = ok_label
                                /\ not_ok_label' = seen
        BY <1>3 DEF CountsBad, CountsOk, CountsNotOk
    <2>3. main' \in {"ok", "not ok", "loop"} /\ seen' \in {seen, bad}
        BY <2>1, <2>2 DEF Counting
    <2>4. Typed' /\ TestsAddUp'
        BY <2>1, <2>3 DEF Typed, TestsAddUp, Counting, thread, result
    <2>5. LabelsFollow'
        BY <2>1, <2>2 DEF LabelsFollow, Due, CurrentSoFar, Counting, thread, result
    <2>6. FinishedIsLast'
        BY <2>1 DEF FinishedIsLast, thread
    <2> QED
        BY <2>4, <2>5, <2>6
<1>4. CASE _stopTest
    <2>1. Dispatches("_stopTest") /\ UNCHANGED <<stream, thread, result, seen, labels, text, main>>
        BY <1>4 DEF _stopTest, ThreadRuns
    <2>2. Typed' /\ TestsAddUp'
        BY <2>1, Dispatched DEF Typed, TestsAddUp, thread, result
    <2>3. LabelsFollow'
        <3>1. Due => Due'
            BY <2>1, Dispatched DEF Due, thread
        <3>2. CurrentSoFar => CurrentSoFar'
            BY <2>1 DEF CurrentSoFar, labels, result
        <3> QED
            BY <2>1, <3>1, <3>2 DEF LabelsFollow, result
    <2>4. FinishedIsLast'
        BY <2>1, Dispatched DEF FinishedIsLast, thread
    <2> QED
        BY <2>2, <2>3, <2>4
<1>5. CASE ShowFinished
    <2>1. Dispatches("set_text") /\ UNCHANGED <<stream, thread, result, seen, labels, main>>
        BY <1>5 DEF ShowFinished, ThreadRuns
    <2>2. Typed' /\ TestsAddUp'
        BY <2>1, Dispatched DEF Typed, TestsAddUp, thread, result
    <2>3. LabelsFollow'
        <3>1. Due => Due'
            BY <2>1, Dispatched DEF Due, thread
        <3>2. CurrentSoFar => CurrentSoFar'
            BY <2>1 DEF CurrentSoFar, labels, result
        <3> QED
            BY <2>1, <3>1, <3>2 DEF LabelsFollow, result
    <2>4. FinishedIsLast'
        BY <2>1, Dispatched DEF FinishedIsLast, thread, Counting
    <2> QED
        BY <2>2, <2>3, <2>4
<1>6. CASE Exits \/ Closes
    <2>1. /\ UNCHANGED <<stream, thread, result, idle, seen, labels, text>>
          /\ main \notin Counting
          /\ main' \in {"setup", "quit", "ended"}
          /\ main' = "setup" => main = "setup"
        BY <1>6 DEF Exits, Closes, ThreadRuns, Counting
    <2>2. Typed' /\ TestsAddUp'
        BY <2>1 DEF Typed, TestsAddUp, thread, result
    <2>3. LabelsFollow'
        BY <2>1 DEF LabelsFollow, Due, CurrentSoFar, Counting, labels, thread, result
    <2>4. FinishedIsLast'
        BY <2>1 DEF FinishedIsLast, Counting, thread
    <2> QED
        BY <2>2, <2>3, <2>4
<1> QED
    BY <1>1, <1>2, <1>3, <1>4, <1>5, <1>6 DEF MainWorks

LEMMA AlwaysConsistent == Spec => []Consistent
<1>1. Consistent /\ UNCHANGED vars => Consistent'
    BY DEF vars, thread, result, labels, Consistent, Typed, TestsAddUp, LabelsFollow,
           FinishedIsLast, Due, CurrentSoFar
<1>2. Consistent /\ [Next]_vars => Consistent'
    BY <1>1, ThreadStep, MainStep DEF Next
<1> QED
    BY Initially, <1>2, PTL DEF Spec
-------------------------------------------------------------------------------
\* The window is never out of date once the callbacks have run: update_counts
\* may read the counts while the thread changes them, but another call of it
\* then waits.
IdleWindowIsCurrent ==
    (main = "loop" /\ idle = <<>> /\ io \notin {"outcome", "announce"} /\ testsRun > 0) =>
        run_label = testsRun /\ not_ok_label = bad /\ ok_label = testsRun - bad

THEOREM LabelsCatchUp == Spec => []IdleWindowIsCurrent
<1>1. Consistent => IdleWindowIsCurrent
    BY DEF Consistent, Typed, LabelsFollow, Due, Waiting, CurrentSoFar, Counting, IdleWindowIsCurrent
<1> QED
    BY <1>1, AlwaysConsistent, PTL

\* A window that says Finished shows how many tests there are in the stream, those
\* that never ended among them, and how many of them the result calls bad: a step
\* towards FinishedMeansCounted.
FinishedShowsAll ==
    (text = "Finished" /\ stream # <<>>) =>
        run_label = Len(stream) /\ not_ok_label = bad /\ ok_label = Len(stream) - bad

LEMMA FinishedShows == Consistent => FinishedShowsAll
<1>1. ASSUME Consistent, text = "Finished", stream # <<>>
      PROVE  run_label = Len(stream) /\ not_ok_label = bad /\ ok_label = Len(stream) - bad
    <2>1. io = "ended" /\ idle = <<>> /\ main \notin Counting
        BY <1>1 DEF Consistent, FinishedIsLast
    <2>2. testsRun = Len(stream) /\ testsRun > 0
        BY <1>1, <2>1 DEF Consistent, Typed, TestsAddUp
    <2>3. ~Due
        BY <2>1 DEF Due, Waiting
    <2>4. CurrentSoFar
        BY <1>1, <2>2, <2>3 DEF Consistent, LabelsFollow
    <2> QED
        BY <2>1, <2>2, <2>4 DEF CurrentSoFar, Counting
<1> QED
    BY <1>1 DEF FinishedShowsAll
-------------------------------------------------------------------------------
(* What has been counted of the stream. *)

Read == Len(stream) - Len(unread)
Among(s, n, which) == Cardinality({i \in 1 .. n : s[i] \in which})

\* The test that is handed over is in testsRun and not yet in the other counts.
Pending(which) == IF io = "outcome" /\ outcome \in which THEN 1 ELSE 0

\* Each outcome that has been read is in its count, or about to be; a test that
\* did not end is remembered before it is bad.
OutcomesAddUp ==
    /\ Read \in 0 .. Len(stream)
    /\ \A i \in 1 .. Len(unread) : unread[i] = stream[Read + i]
    /\ bad + open + Pending({"fail", "inprogress"}) = Among(stream, Read, {"fail", "inprogress"})
    /\ unexpected + Pending({"uxsuccess"}) = Among(stream, Read, {"uxsuccess"})

\* The bar has moved once for each test, but for the callbacks that wait and the
\* one the thread is about to leave.
Moves(callbacks) == Cardinality({i \in 1 .. Len(callbacks) : callbacks[i] = "_stopTest"})
Handed == IF io \in Handing THEN 1 ELSE 0
MovesAddUp ==
    /\ _tasks \in Seq(progress_model!Task) /\ Len(_tasks) = 1
    /\ _tasks[1].pos + Moves(idle) + Handed = testsRun

ExitIsTheResult == main = "ended" => exit = IF wasSuccessful THEN 0 ELSE 1

Counts == OutcomesAddUp /\ MovesAddUp /\ ExitIsTheResult

LEMMA AmongFinite ==
    ASSUME NEW s, NEW n \in Nat, NEW which
    PROVE  IsFiniteSet({i \in 1 .. n : s[i] \in which})
<1>1. IsFiniteSet(1 .. n) /\ {i \in 1 .. n : s[i] \in which} \in SUBSET (1 .. n)
    BY FS_Interval
<1> QED
    BY <1>1, FS_Subset

LEMMA AmongType ==
    ASSUME NEW s, NEW n \in Nat, NEW which
    PROVE  /\ Among(s, n, which) \in Nat
           /\ (Among(s, n, which) = 0) <=> (\A i \in 1 .. n : s[i] \notin which)
<1> DEFINE found == {i \in 1 .. n : s[i] \in which}
<1>1. IsFiniteSet(found)
    BY AmongFinite
<1>2. found = {} <=> (\A i \in 1 .. n : s[i] \notin which)
    OBVIOUS
<1> HIDE DEF found
<1>3. Cardinality(found) \in Nat /\ (Cardinality(found) = 0 <=> found = {})
    BY <1>1, FS_CardinalityType, FS_EmptySet
<1> QED
    BY <1>2, <1>3 DEF Among, found

\* One more position: one more element if it is of the kind that is counted.
LEMMA AmongNext ==
    ASSUME NEW s, NEW n \in Nat, NEW which
    PROVE  Among(s, n + 1, which) = Among(s, n, which) + (IF s[n + 1] \in which THEN 1 ELSE 0)
<1> DEFINE found == {i \in 1 .. n : s[i] \in which}
           more == {i \in 1 .. n + 1 : s[i] \in which}
<1>1. IsFiniteSet(found) /\ Cardinality(found) \in Nat
    BY AmongFinite, AmongType DEF Among
<1>2. CASE s[n + 1] \in which
    <2>1. more = found \cup {n + 1} /\ n + 1 \notin found
        BY <1>2
    <2>2. Cardinality(more) = Cardinality(found) + 1
        BY <1>1, <2>1, FS_AddElement
    <2> QED
        BY <1>2, <2>2 DEF Among
<1>3. CASE s[n + 1] \notin which
    <2>1. more = found
        BY <1>3
    <2> QED
        BY <1>1, <1>3, <2>1 DEF Among
<1> QED
    BY <1>2, <1>3

\* A callback is left at the end of the queue and taken from its front.
LEMMA MovesAppend ==
    ASSUME NEW callbacks \in Seq(Callbacks), NEW callback \in Callbacks
    PROVE  /\ Moves(callbacks) \in Nat
           /\ Moves(Append(callbacks, callback)) =
                 Moves(callbacks) + (IF callback = "_stopTest" THEN 1 ELSE 0)
<1> DEFINE n == Len(callbacks)
           more == Append(callbacks, callback)
<1>1. n \in Nat /\ Len(more) = n + 1 /\ more[n + 1] = callback
      /\ \A i \in 1 .. n : more[i] = callbacks[i]
    OBVIOUS
<1>2. Moves(callbacks) = Among(callbacks, n, {"_stopTest"})
    BY DEF Moves, Among
<1>3. Moves(more) = Among(more, n + 1, {"_stopTest"})
    BY <1>1 DEF Moves, Among
<1>4. Among(more, n, {"_stopTest"}) = Among(callbacks, n, {"_stopTest"})
    <2>1. {i \in 1 .. n : more[i] \in {"_stopTest"}} = {i \in 1 .. n : callbacks[i] \in {"_stopTest"}}
        BY <1>1
    <2> QED
        BY <2>1 DEF Among
<1>5. Among(more, n + 1, {"_stopTest"}) =
          Among(more, n, {"_stopTest"}) + (IF more[n + 1] \in {"_stopTest"} THEN 1 ELSE 0)
    BY <1>1, AmongNext
<1> HIDE DEF more, n
<1>6. Moves(callbacks) \in Nat
    <2>1. n \in Nat
        BY <1>1
    <2>2. Among(callbacks, n, {"_stopTest"}) \in Nat
        BY ONLY <2>1, AmongType
    <2> QED
        BY <1>2, <2>2
<1> QED
    BY <1>1, <1>2, <1>3, <1>4, <1>5, <1>6 DEF more

LEMMA MovesTail ==
    ASSUME NEW callbacks \in Seq(Callbacks), callbacks # <<>>
    PROVE  /\ Moves(Tail(callbacks)) \in Nat
           /\ Moves(callbacks) = Moves(Tail(callbacks))
                                    + (IF Head(callbacks) = "_stopTest" THEN 1 ELSE 0)
<1> DEFINE n == Len(callbacks)
           rest == Tail(callbacks)
           later == {i \in 1 .. n - 1 : rest[i] = "_stopTest"}
           here == {i \in 2 .. n : callbacks[i] = "_stopTest"}
           all == {i \in 1 .. n : callbacks[i] = "_stopTest"}
<1>1. n \in Nat \ {0} /\ Len(rest) = n - 1 /\ Head(callbacks) = callbacks[1]
      /\ \A i \in 1 .. n - 1 : rest[i] = callbacks[i + 1]
    OBVIOUS
<1>2. IsFiniteSet(later)
    <2>1. IsFiniteSet(1 .. n - 1) /\ later \in SUBSET (1 .. n - 1)
        BY <1>1, FS_Interval
    <2> QED
        BY <2>1, FS_Subset
<1>3. ExistsBijection(later, here)
    <2> DEFINE f == [i \in later |-> i + 1]
    <2> HIDE DEF rest, n
    <2>1. f \in [later -> here]
        BY <1>1
    <2>2. \A i, j \in later : f[i] = f[j] => i = j
        BY <1>1
    <2>3. ASSUME NEW k \in here PROVE \E i \in later : f[i] = k
        <3>1. k - 1 \in later /\ f[k - 1] = k
            BY <1>1
        <3> QED
            BY <3>1
    <2> QED
        BY <2>1, <2>2, <2>3, Fun_IsBij DEF ExistsBijection
<1>4. IsFiniteSet(here) /\ Cardinality(here) = Cardinality(later) /\ Cardinality(later) \in Nat
    <2> HIDE DEF here, later
    <2> QED
        BY <1>2, <1>3, FS_Bijection, FS_CardinalityType
<1>5. Moves(rest) = Cardinality(later) /\ Moves(callbacks) = Cardinality(all)
    BY <1>1 DEF Moves
<1>6. CASE callbacks[1] = "_stopTest"
    <2>1. all = here \cup {1} /\ 1 \notin here
        BY <1>1, <1>6
    <2> HIDE DEF all, here, later, rest, n
    <2>2. Cardinality(all) = Cardinality(here) + 1
        BY <1>4, <2>1, FS_AddElement
    <2> QED
        BY <1>1, <1>4, <1>5, <1>6, <2>2 DEF rest
<1>7. CASE callbacks[1] # "_stopTest"
    <2>1. all = here
        BY <1>1, <1>7
    <2> HIDE DEF all, here, later, rest, n
    <2> QED
        BY <1>1, <1>4, <1>5, <1>7, <2>1 DEF rest
<1> QED
    BY <1>6, <1>7

LEMMA CountsInitially == Init => Counts
<1> SUFFICES ASSUME Init PROVE Counts
    OBVIOUS
<1>1. stream \in Seq(Outcomes)
    BY TestsAssumption DEF Init, BoundedSeq, SeqOf
<1>2. Read = 0 /\ Len(stream) \in Nat
    BY <1>1 DEF Init, Read
<1>3. \A which : Among(stream, 0, which) = 0
    BY AmongType
<1>4. OutcomesAddUp
    BY <1>1, <1>2, <1>3 DEF Init, OutcomesAddUp, Pending
<1>5. [pos |-> 0, width |-> 0, num |-> 0, den |-> 0] \in progress_model!Task
    BY DEF progress_model!Task
<1>6. _tasks \in Seq(progress_model!Task) /\ Len(_tasks) = 1 /\ _tasks[1].pos = 0
    BY <1>5 DEF Init, progress_model!Init
<1>7. Moves(idle) = 0
    <2>1. {i \in 1 .. Len(idle) : idle[i] = "_stopTest"} = {}
        BY DEF Init
    <2> QED
        BY <2>1, FS_EmptySet DEF Moves
<1>8. MovesAddUp
    BY <1>6, <1>7 DEF Init, MovesAddUp, Handed, Handing
<1> QED
    BY <1>4, <1>8 DEF Counts, Init, ExitIsTheResult

LEMMA BarType ==
    ASSUME MovesAddUp
    PROVE  _tasks[1].pos \in Nat
<1>1. _tasks \in Seq(progress_model!Task) /\ Len(_tasks) = 1
    BY DEF MovesAddUp
<1>2. _tasks[1] \in progress_model!Task
    BY <1>1
<1> QED
    BY <1>2 DEF progress_model!Task

\* advance moves the bar by one.
LEMMA BarAdvances ==
    ASSUME _tasks \in Seq(progress_model!Task), Len(_tasks) = 1, progress_model!advance
    PROVE  /\ _tasks' \in Seq(progress_model!Task) /\ Len(_tasks') = 1
           /\ _tasks'[1].pos = _tasks[1].pos + 1
<1> DEFINE task == _tasks[1]
           moved == [pos |-> task.pos + 1, width |-> task.width, num |-> task.num, den |-> task.den]
<1>1. task \in progress_model!Task
    OBVIOUS
<1>2. [task EXCEPT !.pos = @ + 1] = moved /\ moved \in progress_model!Task
    BY <1>1 DEF progress_model!Task
<1>3. _tasks' = [_tasks EXCEPT ![1] = [task EXCEPT !.pos = @ + 1]]
    BY DEF progress_model!advance
<1>4. _tasks' = [_tasks EXCEPT ![1] = moved]
    BY <1>2, <1>3
<1>5. moved.pos = task.pos + 1
    OBVIOUS
<1> HIDE DEF moved
<1> QED
    BY <1>2, <1>4, <1>5

\* Reading the next outcome.
LEMMA CountsRead ==
    ASSUME Consistent, Counts, ReadsTest
    PROVE  Counts'
<1>1. /\ stream \in Seq(Outcomes) /\ unread \in Seq(Outcomes) /\ unread # <<>>
      /\ io = "read" /\ unread' = Tail(unread) /\ main # "ended"
      /\ UNCHANGED <<stream, bad, unexpected, idle, _tasks, main>>
      /\ open \in Nat /\ bad \in Nat /\ unexpected \in Nat /\ testsRun \in Nat
    BY DEF Consistent, Typed, ReadsTest, Untouched, ThreadLives, result
<1>2. \/ /\ Head(unread) = "inprogress" /\ open' = open + 1 /\ io' = io /\ testsRun' = testsRun
      \/ /\ Head(unread) # "inprogress" /\ open' = open /\ io' = "outcome"
         /\ outcome' = Head(unread) /\ testsRun' = testsRun + 1
    BY DEF ReadsTest, result
<1>3. /\ Read \in Nat /\ Read' = Read + 1 /\ Read' \in 0 .. Len(stream)
      /\ Head(unread) = stream[Read + 1]
      /\ \A i \in 1 .. Len(unread') : unread'[i] = stream[Read + 1 + i]
    <2>1. Len(unread') = Len(unread) - 1 /\ Len(unread) \in Nat \ {0} /\ Len(stream) \in Nat
        BY <1>1
    <2>2. Read \in 0 .. Len(stream) /\ \A i \in 1 .. Len(unread) : unread[i] = stream[Read + i]
        BY DEF Counts, OutcomesAddUp
    <2>3. Read' = Read + 1
        BY <1>1, <2>1, <2>2 DEF Read
    <2>4. Head(unread) = unread[1] /\ \A i \in 1 .. Len(unread') : unread'[i] = unread[i + 1]
        BY <1>1
    <2>5. \A i \in 1 .. Len(unread') : i + 1 \in 1 .. Len(unread) /\ Read + (i + 1) = Read + 1 + i
        BY <2>1, <2>2
    <2>6. Read' =< Len(stream)
        BY <1>1, <2>1 DEF Read
    <2> QED
        BY <2>1, <2>2, <2>3, <2>4, <2>5, <2>6
<1>4. \A which : Among(stream, Read, which) \in Nat
    BY <1>3, AmongType
<1>5. \A which : Among(stream', Read', which) =
                 Among(stream, Read, which) + (IF Head(unread) \in which THEN 1 ELSE 0)
    BY <1>1, <1>3, AmongNext
<1>6. OutcomesAddUp'
    <2>1. Pending({"fail", "inprogress"}) = 0 /\ Pending({"uxsuccess"}) = 0
        BY <1>1 DEF Pending
    <2>2. /\ bad + open = Among(stream, Read, {"fail", "inprogress"})
          /\ unexpected = Among(stream, Read, {"uxsuccess"})
        BY <1>1, <2>1 DEF Counts, OutcomesAddUp
    <2>3. /\ bad' + open' + Pending({"fail", "inprogress"})'
                = bad + open + (IF Head(unread) \in {"fail", "inprogress"} THEN 1 ELSE 0)
          /\ unexpected' + Pending({"uxsuccess"})'
                = unexpected + (IF Head(unread) \in {"uxsuccess"} THEN 1 ELSE 0)
        <3>1. CASE Head(unread) = "inprogress"
            BY <1>1, <1>2, <3>1 DEF Pending
        <3>2. CASE Head(unread) # "inprogress"
            BY <1>1, <1>2, <3>2 DEF Pending
        <3> QED
            BY <3>1, <3>2
    <2> QED
        BY <1>1, <1>3, <1>5, <2>2, <2>3 DEF OutcomesAddUp
<1>7. MovesAddUp'
    <2>1. _tasks[1].pos + Moves(idle) + 0 = testsRun
        BY <1>1 DEF Counts, MovesAddUp, Handed, Handing
    <2>2. _tasks[1].pos \in Nat /\ Moves(idle) \in Nat
        BY BarType, MovesAppend DEF Counts, Consistent, Typed, Callbacks
    <2>3. _tasks[1].pos + Moves(idle) + Handed' = testsRun'
        BY <1>1, <1>2, <2>1, <2>2 DEF Handed, Handing
    <2> QED
        BY <1>1, <2>3 DEF Counts, MovesAddUp, Moves
<1> QED
    BY <1>1, <1>6, <1>7 DEF Counts, ExitIsTheResult

\* The other steps of the thread read nothing: what is counted moves from one
\* place to another.
LEMMA CountsThread ==
    ASSUME Consistent, Counts, ReadsEof \/ Dies \/ Reports
    PROVE  Counts'
<1>1. /\ open \in Nat /\ bad \in Nat /\ unexpected \in Nat /\ testsRun \in Nat
      /\ idle \in Seq(Callbacks)
    BY DEF Consistent, Typed
<1>2. UNCHANGED <<stream, unread, _tasks, main>> /\ main # "ended"
    BY DEF ReadsEof, Dies, Reports, FlushesTest, addOutcome, Announce, stopTest, stopTestRun,
           Untouched, ThreadLives
<1>3. /\ open' + bad' \in Nat /\ unexpected' \in Nat
      /\ bad' + open' + Pending({"fail", "inprogress"})' = bad + open + Pending({"fail", "inprogress"})
      /\ unexpected' + Pending({"uxsuccess"})' = unexpected + Pending({"uxsuccess"})
    <2>1. CASE FlushesTest
        BY <1>1, <2>1 DEF FlushesTest, Pending
    <2>2. CASE addOutcome
        BY <1>1, <2>2 DEF addOutcome, Pending
    <2>3. CASE ReadsEof \/ Dies \/ Announce \/ stopTest \/ stopTestRun
        <3>1. UNCHANGED <<open, bad, unexpected>> /\ io # "outcome" /\ io' # "outcome"
            BY <2>3 DEF ReadsEof, Dies, Announce, stopTest, stopTestRun, result
        <3> QED
            BY <1>1, <3>1 DEF Pending
    <2> QED
        BY <2>1, <2>2, <2>3 DEF Reports
<1>4. /\ testsRun' \in Nat /\ Moves(idle) \in Nat /\ Moves(idle') \in Nat
      /\ Moves(idle') + Handed' + testsRun = Moves(idle) + Handed + testsRun'
    <2>1. Moves(idle) \in Nat
        BY <1>1, MovesAppend DEF Callbacks
    <2>2. CASE FlushesTest
        BY <1>1, <2>1, <2>2 DEF FlushesTest, Handed, Handing
    <2>3. CASE ReadsEof \/ Dies \/ addOutcome
        BY <1>1, <2>1, <2>3 DEF ReadsEof, Dies, addOutcome, Handed, Handing, result
    <2>4. CASE Announce
        <3>1. Moves(idle') = Moves(idle)
            BY <1>1, <2>1, <2>4, MovesAppend DEF Announce, Announces, Callbacks
        <3> QED
            BY <1>1, <2>1, <2>4, <3>1 DEF Announce, Handed, Handing, result
    <2>5. CASE stopTest
        <3>1. Moves(idle') = Moves(idle) + 1
            BY <1>1, <2>1, <2>5, MovesAppend DEF stopTest, Callbacks
        <3> QED
            BY <1>1, <2>1, <2>5, <3>1 DEF stopTest, Handed, Handing, result
    <2>6. CASE stopTestRun
        <3>1. Moves(idle') = Moves(idle)
            BY <1>1, <2>1, <2>6, MovesAppend DEF stopTestRun, Callbacks
        <3> QED
            BY <1>1, <2>1, <2>6, <3>1 DEF stopTestRun, Handed, Handing, result
    <2> QED
        BY <2>2, <2>3, <2>4, <2>5, <2>6 DEF Reports
<1>5. OutcomesAddUp'
    BY <1>2, <1>3 DEF Counts, OutcomesAddUp, Read
<1>6. MovesAddUp'
    <2>1. _tasks[1].pos \in Nat
        BY BarType DEF Counts
    <2>2. _tasks[1].pos + Moves(idle) + Handed = testsRun
        BY DEF Counts, MovesAddUp
    <2>3. Handed \in Nat /\ Handed' \in Nat
        BY DEF Handed
    <2>4. _tasks[1].pos + Moves(idle') + Handed' = testsRun'
        <3> DEFINE p == _tasks[1].pos
                   m == Moves(idle)
                   h == Handed
        <3>1. p + m + h = testsRun /\ p \in Nat /\ m \in Nat /\ h \in Nat
            BY <1>4, <2>1, <2>2, <2>3
        <3>2. /\ Moves(idle') + Handed' + testsRun = m + h + testsRun'
              /\ Moves(idle') \in Nat /\ Handed' \in Nat /\ testsRun \in Nat /\ testsRun' \in Nat
            BY <1>1, <1>4, <2>3
        <3> HIDE DEF p, m, h
        <3>3. p + Moves(idle') + Handed' = testsRun'
            BY ONLY <3>1, <3>2
        <3> QED
            BY <3>3 DEF p
    <2> QED
        BY <1>2, <2>4 DEF Counts, MovesAddUp, Moves
<1> QED
    BY <1>2, <1>5, <1>6 DEF Counts, ExitIsTheResult

\* The main thread leaves the counts alone and takes the callbacks in turn.
LEMMA CountsMain ==
    ASSUME Consistent, Counts, MainWorks \/ Closes
    PROVE  Counts'
<1>1. /\ testsRun \in Nat /\ idle \in Seq(Callbacks) /\ Moves(idle) \in Nat
      /\ _tasks[1].pos \in Nat
    <2>1. idle \in Seq(Callbacks) /\ testsRun \in Nat
        BY DEF Consistent, Typed
    <2>2. _tasks[1].pos \in Nat
        BY BarType DEF Counts
    <2> QED
        BY <2>1, <2>2, MovesAppend DEF Callbacks
<1>2. /\ UNCHANGED <<stream, unread, open, outcome, testsRun, bad, unexpected>>
      /\ (io' = io \/ (io = "none" /\ io' = "read"))
    BY DEF MainWorks, Closes, StartIO, CountsRun, CountsBad, CountsOk, CountsNotOk, _stopTest,
           ShowFinished, Exits, ThreadRuns, thread, result, Consistent, Typed
<1>3. OutcomesAddUp'
    BY <1>2 DEF Counts, OutcomesAddUp, Read, Pending
<1>4. ExitIsTheResult'
    BY <1>2 DEF Counts, ExitIsTheResult, wasSuccessful, MainWorks, Closes, StartIO, CountsRun,
           CountsBad, CountsOk, CountsNotOk, _stopTest, ShowFinished, Exits, Dispatches
<1>5. Handed' = Handed
    BY <1>2 DEF Handed, Handing
<1>6. MovesAddUp'
    <2>1. CASE _stopTest
        <3>1. /\ idle # <<>> /\ Head(idle) = "_stopTest" /\ idle' = Tail(idle)
              /\ progress_model!advance
            BY <2>1 DEF _stopTest, Dispatches
        <3>2. Moves(idle') \in Nat /\ Moves(idle) = Moves(idle') + 1
            BY <1>1, <3>1, MovesTail
        <3>3. _tasks' \in Seq(progress_model!Task) /\ Len(_tasks') = 1 /\ _tasks'[1].pos = _tasks[1].pos + 1
            BY <3>1, BarAdvances DEF Counts, MovesAddUp
        <3>4. _tasks'[1].pos + Moves(idle') = _tasks[1].pos + Moves(idle)
            BY <1>1, <3>2, <3>3
        <3> QED
            BY <1>2, <1>5, <3>3, <3>4 DEF Counts, MovesAddUp, Moves
    <2>2. ASSUME NEW callback \in {"update_counts", "set_text"}, Dispatches(callback), UNCHANGED _tasks
          PROVE  MovesAddUp'
        <3>1. idle # <<>> /\ Head(idle) # "_stopTest" /\ idle' = Tail(idle)
            BY <2>2 DEF Dispatches
        <3>2. Moves(idle') \in Nat /\ Moves(idle) = Moves(idle') + 0
            BY <1>1, <3>1, MovesTail
        <3>3. Moves(idle') = Moves(idle)
            BY <1>1, <3>2
        <3> QED
            BY <1>2, <1>5, <2>2, <3>3 DEF Counts, MovesAddUp, Moves
    <2>3. CASE UNCHANGED <<idle, _tasks>>
        BY <1>2, <1>5, <2>3 DEF Counts, MovesAddUp, Moves
    <2>4. CASE CountsRun \/ ShowFinished
        BY <2>2, <2>4 DEF CountsRun, ShowFinished
    <2>5. CASE StartIO \/ CountsBad \/ CountsOk \/ CountsNotOk \/ Exits \/ Closes
        BY <2>3, <2>5 DEF StartIO, CountsBad, CountsOk, CountsNotOk, Exits, Closes
    <2> QED
        BY <2>1, <2>4, <2>5 DEF MainWorks
<1> QED
    BY <1>3, <1>4, <1>6 DEF Counts

LEMMA AlwaysCounts == Spec => [](Consistent /\ Counts)
<1>1. Counts /\ UNCHANGED vars => Counts'
    BY DEF vars, thread, result, labels, Counts, OutcomesAddUp, MovesAddUp, ExitIsTheResult,
           Read, Pending, Moves, Handed, wasSuccessful
<1>2. Consistent /\ Counts /\ [Next]_vars => Counts'
    BY <1>1, CountsRead, CountsThread, CountsMain DEF Next, Reads
<1> QED
    BY <1>2, AlwaysConsistent, CountsInitially, PTL DEF Spec
-------------------------------------------------------------------------------
LEMMA CountedIsAmong ==
    ASSUME stream \in Seq(Outcomes), NEW which
    PROVE  Counted(stream, which) = Among(stream, Len(stream), which)
<1>1. DOMAIN stream = 1 .. Len(stream)
    OBVIOUS
<1> QED
    BY <1>1 DEF Counted, Among

\* What the window and the exit code say when it has said Finished is about the
\* whole stream.
LEMMA AtTheEnd ==
    ASSUME Consistent, Counts, text = "Finished"
    PROVE  /\ bad = Counted(stream, {"fail", "inprogress"})
           /\ unexpected = Counted(stream, {"uxsuccess"})
           /\ testsRun = Len(stream) /\ _tasks[1].pos = testsRun /\ Len(_tasks) = 1
<1>1. io = "ended" /\ idle = <<>> /\ unread = <<>> /\ open = 0
    BY DEF Consistent, FinishedIsLast, TestsAddUp
<1>2. /\ stream \in Seq(Outcomes) /\ Read = Len(stream) /\ testsRun = Len(stream)
      /\ bad \in Nat /\ unexpected \in Nat /\ testsRun \in Nat
    BY <1>1 DEF Consistent, Typed, TestsAddUp, Read
<1>3. \A which : Pending(which) = 0
    BY <1>1 DEF Pending
<1>4. /\ bad = Among(stream, Len(stream), {"fail", "inprogress"})
      /\ unexpected = Among(stream, Len(stream), {"uxsuccess"})
    BY <1>1, <1>2, <1>3 DEF Counts, OutcomesAddUp
<1>5. Moves(idle) = 0
    <2>1. {i \in 1 .. Len(idle) : idle[i] = "_stopTest"} = {}
        BY <1>1
    <2> QED
        BY <2>1, FS_EmptySet DEF Moves
<1>6. _tasks[1].pos = testsRun /\ Len(_tasks) = 1
    <2>1. _tasks[1].pos \in Nat
        BY BarType DEF Counts
    <2> QED
        BY <1>1, <1>2, <1>5, <2>1 DEF Counts, MovesAddUp, Handed, Handing
<1> QED
    BY <1>2, <1>4, <1>6, CountedIsAmong

\* A window that says Finished shows the counts of the whole stream, the tests that
\* never ended among them, and its bar has moved once for each test.
THEOREM FinishedIsCounted == Spec => []FinishedMeansCounted
<1>1. ASSUME Consistent, Counts, text = "Finished", stream # <<>>
      PROVE  LET not_ok == Counted(stream, {"fail", "inprogress"})
             IN  /\ run_label = Len(stream)
                 /\ not_ok_label = not_ok /\ ok_label = Len(stream) - not_ok
                 /\ progress_model!pos(_tasks) = Len(stream)
    <2>1. /\ run_label = Len(stream) /\ not_ok_label = bad /\ ok_label = Len(stream) - bad
        BY <1>1, FinishedShows DEF FinishedShowsAll
    <2>2. /\ bad = Counted(stream, {"fail", "inprogress"})
          /\ testsRun = Len(stream) /\ _tasks[1].pos = testsRun /\ Len(_tasks) = 1
        BY <1>1, AtTheEnd
    <2>3. testsRun \in Nat
        BY <1>1 DEF Consistent, Typed
    <2>4. progress_model!pos(_tasks) = _tasks[1].pos + 0
        BY <2>2 DEF progress_model!pos, progress_model!PosAt
    <2> QED
        BY <2>1, <2>2, <2>3, <2>4
<1>2. Consistent /\ Counts => FinishedMeansCounted
    BY <1>1 DEF FinishedMeansCounted
<1> QED
    BY <1>2, AlwaysCounts, PTL

\* The exit code is 1 only for a stream with a result that is not OK, and once the
\* window has said Finished for each such stream.
THEOREM ExitIsTold == Spec => []ExitTellsOutcome
<1> DEFINE failed == {"fail", "inprogress"}
           failing == Counted(stream, {"fail", "inprogress", "uxsuccess"}) > 0
<1>1. ASSUME Consistent, Counts, main = "ended"
      PROVE  (exit = 1 => failing) /\ (text = "Finished" /\ failing => exit = 1)
    <2>1. /\ stream \in Seq(Outcomes) /\ Len(stream) \in Nat /\ Read \in 0 .. Len(stream)
          /\ bad \in Nat /\ unexpected \in Nat /\ open \in Nat
        BY <1>1 DEF Consistent, Typed, Counts, OutcomesAddUp
    <2>2. exit = IF bad = 0 /\ unexpected = 0 THEN 0 ELSE 1
        BY <1>1 DEF Counts, ExitIsTheResult, wasSuccessful
    <2>3. failing <=> \E i \in 1 .. Len(stream) : stream[i] \in {"fail", "inprogress", "uxsuccess"}
        <3>1. Counted(stream, {"fail", "inprogress", "uxsuccess"})
                 = Among(stream, Len(stream), {"fail", "inprogress", "uxsuccess"})
            BY <2>1, CountedIsAmong
        <3> QED
            BY <2>1, <3>1, AmongType
    <2>4. ASSUME exit = 1 PROVE failing
        <3>1. bad > 0 \/ unexpected > 0
            BY <2>1, <2>2, <2>4
        <3>2. Among(stream, Read, failed) # 0 \/ Among(stream, Read, {"uxsuccess"}) # 0
            <4>1. /\ bad + open + Pending(failed) = Among(stream, Read, failed)
                  /\ unexpected + Pending({"uxsuccess"}) = Among(stream, Read, {"uxsuccess"})
                BY <1>1 DEF Counts, OutcomesAddUp
            <4>2. Pending(failed) \in Nat /\ Pending({"uxsuccess"}) \in Nat
                BY DEF Pending
            <4> HIDE DEF failed
            <4> QED
                BY <2>1, <3>1, <4>1, <4>2
        <3>3. \E i \in 1 .. Read : stream[i] \in failed \cup {"uxsuccess"}
            BY <2>1, <3>2, AmongType
        <3> QED
            BY <2>1, <2>3, <3>3
    <2>5. ASSUME text = "Finished", failing PROVE exit = 1
        <3>1. PICK i \in 1 .. Len(stream) : stream[i] \in {"fail", "inprogress", "uxsuccess"}
            BY <2>3, <2>5
        <3>2. Among(stream, Len(stream), failed) # 0 \/ Among(stream, Len(stream), {"uxsuccess"}) # 0
            BY <2>1, <3>1, AmongType
        <3>3. bad # 0 \/ unexpected # 0
            BY <1>1, <2>1, <2>5, <3>2, AtTheEnd, CountedIsAmong
        <3> QED
            BY <2>2, <3>3
    <2> QED
        BY <2>4, <2>5
<1>2. Consistent /\ Counts => ExitTellsOutcome
    BY <1>1 DEF ExitTellsOutcome
<1> QED
    BY <1>2, AlwaysCounts, PTL
-------------------------------------------------------------------------------
(* ProgressModel, for every stack of subtasks: a push is not seen, a pop   *)
(* goes back to where its push was, and a subtask stays within the step it *)
(* stands for.                                                             *)

P == INSTANCE ProgressModel


NewTask(tasks) == [pos |-> 0, width |-> 0, num |-> P!pos(tasks), den |-> P!width(tasks)]

\* Any two calls that change the top of the stack do it in one of these ways.
Moved(task, p, w) == [pos |-> p, width |-> w, num |-> task.num, den |-> task.den]
TopIsMoved(p, w) == _tasks' = [_tasks EXCEPT ![Len(_tasks)] = Moved(P!Top, p, w)]

\* What the summary of some levels is depends on the topmost of them only.
LEMMA SummaryType ==
    ASSUME NEW tasks \in Seq(P!Task), NEW i \in 0 .. Len(tasks)
    PROVE  P!PosAt(tasks, i) \in Int /\ P!WidthAt(tasks, i) \in Int
<1>1. CASE i = 0
    BY <1>1 DEF P!PosAt, P!WidthAt
<1>2. CASE i # 0
    <2>1. tasks[i] \in P!Task
        BY <1>2
    <2>2. /\ tasks[i].pos \in Int /\ tasks[i].width \in Int
          /\ tasks[i].num \in Int /\ tasks[i].den \in Int
        BY <2>1 DEF P!Task
    <2>3. P!Scale(tasks[i]) \in Int
        BY <2>2 DEF P!Scale
    <2>4. tasks[i].num * P!Scale(tasks[i]) \in Int /\ tasks[i].den * P!Scale(tasks[i]) \in Int
        BY <2>2, <2>3
    <2> QED
        BY <1>2, <2>2, <2>4 DEF P!PosAt, P!WidthAt
<1> QED
    BY <1>1, <1>2

LEMMA NewTaskType ==
    ASSUME NEW tasks \in Seq(P!Task)
    PROVE  NewTask(tasks) \in P!Task
<1>1. P!pos(tasks) \in Int /\ P!width(tasks) \in Int
    BY SummaryType DEF P!pos, P!width
<1> QED
    BY <1>1 DEF NewTask, P!Task

\* advance, set_width and adjust_width give the topmost task another position
\* or another width, and do nothing else.
LEMMA TopMoves ==
    ASSUME P!TypeOK, P!advance \/ (\E to \in Nat : P!set_width(to)) \/ (\E offset \in Int : P!adjust_width(offset))
    PROVE  /\ _tasks # <<>>
           /\ \E p \in Nat, w \in Int : TopIsMoved(p, w)
<1>1. _tasks # <<>>
    BY DEF P!advance, P!set_width, P!adjust_width
<1>2. Len(_tasks) \in DOMAIN _tasks /\ P!Top \in P!Task
    BY <1>1 DEF P!TypeOK, P!Top
<1>3. P!Top.pos \in Nat /\ P!Top.width \in Int
    BY <1>2 DEF P!Task
<1>4. CASE P!advance
    <2>1. [P!Top EXCEPT !.pos = @ + 1] = Moved(P!Top, P!Top.pos + 1, P!Top.width)
        BY <1>2 DEF Moved, P!Task
    <2>2. _tasks' = [_tasks EXCEPT ![Len(_tasks)] = [P!Top EXCEPT !.pos = @ + 1]]
        BY <1>4 DEF P!advance, P!Top
    <2>3. TopIsMoved(P!Top.pos + 1, P!Top.width)
        BY <2>1, <2>2 DEF TopIsMoved
    <2>4. P!Top.pos + 1 \in Nat
        BY <1>3
    <2> QED
        BY <1>1, <1>3, <2>3, <2>4
<1>5. ASSUME NEW to \in Nat, P!set_width(to)
      PROVE  \E p \in Nat, w \in Int : TopIsMoved(p, w)
    <2>1. [P!Top EXCEPT !.width = to] = Moved(P!Top, P!Top.pos, to)
        BY <1>2 DEF Moved, P!Task
    <2>2. _tasks' = [_tasks EXCEPT ![Len(_tasks)] = [P!Top EXCEPT !.width = to]]
        BY <1>5 DEF P!set_width, P!Top
    <2>3. TopIsMoved(P!Top.pos, to)
        BY <2>1, <2>2 DEF TopIsMoved
    <2> QED
        BY <1>3, <2>3
<1>6. ASSUME NEW offset \in Int, P!adjust_width(offset)
      PROVE  \E p \in Nat, w \in Int : TopIsMoved(p, w)
    <2>1. [P!Top EXCEPT !.width = @ + offset] = Moved(P!Top, P!Top.pos, P!Top.width + offset)
        BY <1>2 DEF Moved, P!Task
    <2>2. _tasks' = [_tasks EXCEPT ![Len(_tasks)] = [P!Top EXCEPT !.width = @ + offset]]
        BY <1>6 DEF P!adjust_width, P!Top
    <2>3. TopIsMoved(P!Top.pos, P!Top.width + offset)
        BY <2>1, <2>2 DEF TopIsMoved
    <2>4. P!Top.width + offset \in Int
        BY <1>3
    <2> QED
        BY <1>3, <2>3, <2>4
<1> QED
    BY <1>1, <1>4, <1>5, <1>6

LEMMA MovedType ==
    ASSUME NEW task \in P!Task, NEW p \in Nat, NEW w \in Int
    PROVE  Moved(task, p, w) \in P!Task
BY DEF Moved, P!Task

\* Levels that are the same in two stacks have the same summary.
LEMMA SameBelow ==
    ASSUME NEW S \in Seq(P!Task), NEW T \in Seq(P!Task), NEW i \in Nat,
           i # 0 => S[i] = T[i]
    PROVE  P!PosAt(S, i) = P!PosAt(T, i) /\ P!WidthAt(S, i) = P!WidthAt(T, i)
BY DEF P!PosAt, P!WidthAt
-------------------------------------------------------------------------------
StackInv == P!TypeOK /\ P!SavedIsCurrent

LEMMA StackInitially == P!Init => StackInv
<1> SUFFICES ASSUME P!Init PROVE StackInv
    OBVIOUS
<1>1. [pos |-> 0, width |-> 0, num |-> 0, den |-> 0] \in P!Task
    BY DEF P!Task
<1>2. _tasks \in Seq(P!Task) /\ Len(_tasks) = 1
    BY <1>1 DEF P!Init
<1> QED
    BY <1>2 DEF StackInv, P!TypeOK, P!SavedIsCurrent

LEMMA PushInv ==
    ASSUME StackInv, P!push PROVE StackInv'
<1> DEFINE n == Len(_tasks)
<1>1. _tasks \in Seq(P!Task) /\ NewTask(_tasks) \in P!Task
    BY NewTaskType DEF StackInv, P!TypeOK
<1>2. /\ _tasks' \in Seq(P!Task) /\ Len(_tasks') = n + 1
      /\ _tasks'[n + 1] = NewTask(_tasks)
      /\ \A i \in 1 .. n : _tasks'[i] = _tasks[i]
    BY <1>1 DEF P!push, NewTask
<1>3. ASSUME NEW i \in 2 .. n + 1
      PROVE  _tasks'[i].num = P!PosAt(_tasks', i - 1) /\ _tasks'[i].den = P!WidthAt(_tasks', i - 1)
    <2>1. i - 1 \in 1 .. n
        BY <1>1
    <2>2. /\ P!PosAt(_tasks, i - 1) = P!PosAt(_tasks', i - 1)
          /\ P!WidthAt(_tasks, i - 1) = P!WidthAt(_tasks', i - 1)
        BY <1>1, <1>2, <2>1, SameBelow
    <2>3. CASE i = n + 1
        <3>1. _tasks'[i].num = P!pos(_tasks) /\ _tasks'[i].den = P!width(_tasks)
            BY <1>2, <2>3 DEF NewTask
        <3>2. i - 1 = n
            BY <1>1, <2>3
        <3> QED
            BY <2>2, <3>1, <3>2 DEF P!pos, P!width
    <2>4. CASE i \in 2 .. n
        <3>1. _tasks'[i] = _tasks[i]
            BY <1>1, <1>2, <2>4
        <3> QED
            BY <2>2, <2>4, <3>1 DEF StackInv, P!SavedIsCurrent
    <2> QED
        BY <1>1, <2>3, <2>4
<1> QED
    BY <1>2, <1>3 DEF StackInv, P!TypeOK, P!SavedIsCurrent

LEMMA PopInv ==
    ASSUME StackInv, P!pop PROVE StackInv'
<1>1. _tasks \in Seq(P!Task) /\ _tasks # <<>>
    BY DEF StackInv, P!TypeOK, P!pop
<1>2. /\ _tasks' \in Seq(P!Task) /\ Len(_tasks') = Len(_tasks) - 1
      /\ \A i \in 1 .. Len(_tasks) - 1 : _tasks'[i] = _tasks[i]
    <2>1. Len(_tasks) \in Nat /\ Len(_tasks) >= 1
        BY <1>1
    <2>2. \A i \in 1 .. Len(_tasks) - 1 : _tasks[i] \in P!Task
        BY <1>1
    <2> DEFINE n == Len(_tasks) - 1
    <2>3. n \in Int /\ 1 \in Int
        BY <2>1
    <2>4. _tasks' = SubSeq(_tasks, 1, n)
        BY DEF P!pop, P!Below
    <2>5. /\ SubSeq(_tasks, 1, n) \in Seq(P!Task)
          /\ Len(SubSeq(_tasks, 1, n)) = IF 1 <= n THEN n - 1 + 1 ELSE 0
          /\ \A i \in 1 .. n - 1 + 1 : SubSeq(_tasks, 1, n)[i] = _tasks[1 + i - 1]
        <3> HIDE DEF n
        <3>1. \A i \in 1 .. n : _tasks[i] \in P!Task
            BY <2>2 DEF n
        <3> QED
            BY ONLY <2>3, <3>1, SubSeqProperties
    <2>6. n - 1 + 1 = n /\ (IF 1 <= n THEN n - 1 + 1 ELSE 0) = n
        <3>1. n \in Nat
            BY <2>1
        <3> HIDE DEF n
        <3>2. n - 1 + 1 = n /\ (1 <= n \/ n = 0)
            BY <3>1
        <3> QED
            BY <3>2
    <2>7. \A i \in 1 .. n : 1 + i - 1 = i
        BY <2>3
    <2> HIDE DEF n
    <2>8. \A i \in 1 .. n : SubSeq(_tasks, 1, n)[i] = _tasks[i]
        BY <2>5, <2>6, <2>7
    <2> QED
        BY <2>4, <2>5, <2>6, <2>8 DEF n
<1>3. ASSUME NEW i \in 2 .. Len(_tasks')
      PROVE  _tasks'[i].num = P!PosAt(_tasks', i - 1) /\ _tasks'[i].den = P!WidthAt(_tasks', i - 1)
    <2>1. i \in 2 .. Len(_tasks) /\ i - 1 \in 1 .. Len(_tasks) - 1 /\ _tasks'[i] = _tasks[i]
        BY <1>1, <1>2
    <2>2. /\ P!PosAt(_tasks, i - 1) = P!PosAt(_tasks', i - 1)
          /\ P!WidthAt(_tasks, i - 1) = P!WidthAt(_tasks', i - 1)
        BY <1>1, <1>2, <2>1, SameBelow
    <2> QED
        BY <2>1, <2>2 DEF StackInv, P!SavedIsCurrent
<1> QED
    BY <1>2, <1>3 DEF StackInv, P!TypeOK, P!SavedIsCurrent

LEMMA MoveInv ==
    ASSUME StackInv, _tasks # <<>>, NEW p \in Nat, NEW w \in Int,
           TopIsMoved(p, w)
    PROVE  StackInv'
<1> DEFINE n == Len(_tasks)
<1>1. _tasks \in Seq(P!Task) /\ n \in DOMAIN _tasks /\ P!Top \in P!Task
    BY DEF StackInv, P!TypeOK, P!Top
<1>2. Moved(P!Top, p, w) \in P!Task
    BY <1>1, MovedType
<1>3. /\ _tasks' \in Seq(P!Task) /\ Len(_tasks') = n
      /\ _tasks'[n] = Moved(P!Top, p, w)
      /\ \A i \in 1 .. n - 1 : _tasks'[i] = _tasks[i]
    BY <1>1, <1>2 DEF TopIsMoved
<1>4. ASSUME NEW i \in 2 .. n
      PROVE  _tasks'[i].num = P!PosAt(_tasks', i - 1) /\ _tasks'[i].den = P!WidthAt(_tasks', i - 1)
    <2>1. i - 1 \in 1 .. n - 1
        BY <1>1
    <2>2. /\ P!PosAt(_tasks, i - 1) = P!PosAt(_tasks', i - 1)
          /\ P!WidthAt(_tasks, i - 1) = P!WidthAt(_tasks', i - 1)
        <3>1. _tasks'[i - 1] = _tasks[i - 1] /\ i - 1 \in Nat
            BY <1>3, <2>1
        <3> QED
            BY <1>1, <1>3, <3>1, SameBelow
    <2>3. _tasks'[i].num = _tasks[i].num /\ _tasks'[i].den = _tasks[i].den
        <3>1. CASE i = n
            BY <1>3, <3>1 DEF Moved, P!Top
        <3>2. CASE i \in 1 .. n - 1
            BY <1>3, <3>2
        <3> QED
            BY <1>1, <3>1, <3>2
    <2> QED
        BY <2>2, <2>3 DEF StackInv, P!SavedIsCurrent
<1> QED
    BY <1>3, <1>4 DEF StackInv, P!TypeOK, P!SavedIsCurrent

\* What a subtask has saved stays the summary of the tasks below it.
THEOREM SavedStaysCurrent == P!Spec => []StackInv
<1>1. StackInv /\ [P!Next]_<<_tasks>> => StackInv'
    <2> SUFFICES ASSUME StackInv, [P!Next]_<<_tasks>> PROVE StackInv'
        OBVIOUS
    <2>1. CASE P!push
        BY <2>1, PushInv
    <2>2. CASE P!pop
        BY <2>2, PopInv
    <2>3. CASE P!advance \/ (\E to \in Nat : P!set_width(to)) \/ (\E offset \in Int : P!adjust_width(offset))
        <3>1. /\ _tasks # <<>>
              /\ \E p \in Nat, w \in Int : TopIsMoved(p, w)
            BY <2>3, TopMoves DEF StackInv
        <3> QED
            BY <3>1, MoveInv
    <2>4. CASE UNCHANGED <<_tasks>>
        BY <2>4 DEF StackInv, P!TypeOK, P!SavedIsCurrent, P!PosAt, P!WidthAt
    <2> QED
        BY <2>1, <2>2, <2>3, <2>4 DEF P!Next
<1> QED
    BY <1>1, StackInitially, PTL DEF P!Spec

\* Pushing a subtask does not change the summary.
THEOREM PushIsInvisible == P!Spec => P!PushIsNotSeen
<1>1. ASSUME StackInv, P!push
      PROVE  P!pos(_tasks') = P!pos(_tasks) /\ P!width(_tasks') = P!width(_tasks)
    <2> DEFINE n == Len(_tasks)
    <2> DEFINE task == NewTask(_tasks)
    <2>1. _tasks \in Seq(P!Task) /\ n \in Nat
        BY <1>1 DEF StackInv, P!TypeOK
    <2>2. P!pos(_tasks) \in Int /\ P!width(_tasks) \in Int
        BY <2>1, SummaryType DEF P!pos, P!width
    <2>3. Len(_tasks') = n + 1 /\ _tasks'[n + 1] = task
        BY <1>1, <2>1 DEF P!push, NewTask
    <2>4. /\ P!Scale(task) = 1 /\ task.pos = 0 /\ task.width = 0
          /\ task.num = P!pos(_tasks) /\ task.den = P!width(_tasks)
        BY DEF P!Scale, NewTask
    <2>5. task.num * P!Scale(task) = P!pos(_tasks) /\ task.den * P!Scale(task) = P!width(_tasks)
        BY <2>2, <2>4
    <2>6. CASE n = 0
        BY <2>3, <2>4, <2>6 DEF P!pos, P!width, P!PosAt, P!WidthAt
    <2>7. CASE n # 0
        <3>1. n + 1 > 1 /\ n + 1 # 0
            BY <2>1, <2>7
        <3>2. P!pos(_tasks') = 0 + P!pos(_tasks)
            BY <2>3, <2>4, <2>5, <3>1 DEF P!pos, P!PosAt
        <3>3. P!width(_tasks') = P!width(_tasks)
            BY <2>3, <2>4, <2>5, <3>1 DEF P!width, P!WidthAt
        <3> QED
            BY <2>2, <3>2, <3>3
    <2> QED
        BY <2>6, <2>7
<1>2. StackInv /\ [P!Next]_<<_tasks>> =>
          [P!push => P!pos(_tasks') = P!pos(_tasks) /\ P!width(_tasks') = P!width(_tasks)]_<<_tasks>>
    BY <1>1
<1> QED
    BY <1>2, SavedStaysCurrent, PTL DEF P!Spec, P!PushIsNotSeen

\* Popping a subtask shows what was shown when it was pushed.
THEOREM PopGoesBack == P!Spec => P!PopRestores
<1>1. ASSUME StackInv, P!pop, Len(_tasks) > 1
      PROVE  P!pos(_tasks') = P!Top.num /\ P!width(_tasks') = P!Top.den
    <2> DEFINE n == Len(_tasks)
    <2>1. _tasks \in Seq(P!Task) /\ n \in 2 .. n
        BY <1>1 DEF StackInv, P!TypeOK
    <2>2. /\ _tasks' \in Seq(P!Task) /\ Len(_tasks') = n - 1
          /\ _tasks'[n - 1] = _tasks[n - 1]
        BY <1>1, <2>1 DEF P!pop, P!Below
    <2>3. P!PosAt(_tasks', n - 1) = P!PosAt(_tasks, n - 1) /\ P!WidthAt(_tasks', n - 1) = P!WidthAt(_tasks, n - 1)
        BY <2>1, <2>2, SameBelow
    <2>4. P!Top.num = P!PosAt(_tasks, n - 1) /\ P!Top.den = P!WidthAt(_tasks, n - 1)
        BY <1>1, <2>1 DEF StackInv, P!SavedIsCurrent, P!Top
    <2> QED
        BY <2>2, <2>3, <2>4 DEF P!pos, P!width
<1>2. StackInv /\ [P!Next]_<<_tasks>> =>
          [(P!pop /\ Len(_tasks) > 1) =>
              P!pos(_tasks') = P!Top.num /\ P!width(_tasks') = P!Top.den]_<<_tasks>>
    BY <1>1
<1> QED
    BY <1>2, SavedStaysCurrent, PTL DEF P!Spec, P!PopRestores

\* Multiplying by the same number keeps an order.
LEMMA Monotone ==
    ASSUME NEW a \in Int, NEW b \in Int, NEW c \in Nat, a <= b
    PROVE  a * c <= b * c
<1>1. (b - a) * c >= 0
    OBVIOUS
<1>2. (b - a) * c = b * c - a * c
    OBVIOUS
<1> QED
    BY <1>1, <1>2

\* A subtask of which no more is done than there is stays within its step.
THEOREM SubtaskStaysInItsStep == P!Spec => []P!StaysInItsStep
<1>1. ASSUME StackInv PROVE P!StaysInItsStep
    <2> SUFFICES ASSUME Len(_tasks) > 1, P!Top.width > 0, P!Top.pos <= P!Top.width, P!Top.den > 0
                 PROVE  /\ P!Top.num * P!width(_tasks) <= P!pos(_tasks) * P!Top.den
                        /\ P!pos(_tasks) * P!Top.den <= (P!Top.num + 1) * P!width(_tasks)
        BY DEF P!StaysInItsStep
    <2>1. P!Top \in P!Task
        BY <1>1 DEF StackInv, P!TypeOK, P!Top
    <2> DEFINE p == P!Top.pos
               w == P!Top.width
               num == P!Top.num
               den == P!Top.den
    <2>2. p \in Nat /\ w \in Nat /\ num \in Int /\ den \in Nat /\ p <= w
        BY <2>1 DEF P!Task
    <2>3. P!Scale(P!Top) = w
        BY DEF P!Scale
    <2>4. P!pos(_tasks) = p + num * w /\ P!width(_tasks) = den * w
        BY <2>3 DEF P!pos, P!width, P!PosAt, P!WidthAt, P!Top
    <2> HIDE DEF p, w, num, den
    <2>5. (p + num * w) * den = p * den + num * (den * w)
        BY <2>2
    <2>6. (num + 1) * (den * w) = num * (den * w) + w * den
        BY <2>2
    <2>7. 0 <= p * den /\ p * den <= w * den
        BY <2>2, Monotone
    <2>8. num * (den * w) \in Int /\ p * den \in Int /\ w * den \in Int
        BY <2>2
    <2> HIDE DEF p, w, num, den
    <2>9. /\ num * (den * w) <= (p + num * w) * den
          /\ (p + num * w) * den <= (num + 1) * (den * w)
        BY <2>5, <2>6, <2>7, <2>8
    <2> QED
        BY <2>4, <2>9 DEF num, den
<1> QED
    BY <1>1, SavedStaysCurrent, PTL
===============================================================================
