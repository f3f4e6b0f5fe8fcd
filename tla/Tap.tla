----------------------------------- MODULE Tap -----------------------------------
(***************************************************************************)
(* TAP2SubUnit (python/subunit/__init__.py): a TAP script's lines, each an *)
(* action, become the packets of version 2.  A result is held back until   *)
(* the next one, for the comments that follow it.  A line that is nothing  *)
(* TAP knows is passed on at once and changes nothing else.  Descriptions  *)
(* are left out: a test is known by its number.                            *)
(***************************************************************************)
EXTENDS Integers, Sequences, FiniteSets

CONSTANTS None,         \* no test yet, or no number
          Bail,         \* the test that stands for a bail-out
          File,         \* the one that stands for a skipped file
          MaxNumber,    \* bound: numbers in lines
          MaxResults,   \* bound: results and bail-outs read
          MaxRemarks    \* bound: comments read

ASSUME TapBounds == MaxNumber \in Nat /\ MaxResults \in Nat /\ MaxRemarks \in Nat
ASSUME TapNames ==
    /\ \A name \in {None, Bail, File} : name \notin Int
    /\ None # Bail /\ None # File /\ Bail # File

VARIABLES
    state,       \* "before_plan", "after_plan", "skip_stream"
    plan_start,  \* the number the next test gets
    plan_stop,
    test_name,   \* the test held back: its number, Bail or None
    result,      \* its status
    log,         \* the comments to go with it, numbered as they were read
    written,     \* the packets so far
    given,       \* the statuses read so far
    remarks,     \* the test each comment read so far is about
    outcome      \* "open", "done", or an exception has been "raised"

parser == <<state, plan_start, plan_stop, test_name, result, log>>
tapVars == <<parser, written, given, remarks, outcome>>

TapInit ==
    /\ state = "before_plan" /\ plan_start = 1 /\ plan_stop = 0
    /\ test_name = None /\ result = "none" /\ log = <<>>
    /\ written = <<>> /\ given = <<>> /\ remarks = <<>>
    /\ outcome = "open"

TestPacket(test, status, comments) == [test |-> test, status |-> status, log |-> comments]

\* missing_test for each number from first up to last.
Missing(first, last) ==
    [i \in 1 .. last - first + 1 |-> TestPacket(first + i - 1, "missing", <<>>)]

\* _emit_test: what is held back, if anything is.
Emitted == IF test_name = None THEN <<>> ELSE <<TestPacket(test_name, result, log)>>
LogKept == log   \* mutant: the log is not cleared
LogLeft == IF test_name = None THEN log ELSE <<>>

\* A comment is added to those in the log.
Noted(comments, test) ==
    remarks' = Append(remarks, test) /\ log' = Append(comments, Len(remarks'))

PlanLine(stop) ==
    /\ outcome = "open" /\ state = "before_plan"
    /\ stop # 0
    /\ state' = "after_plan" /\ plan_stop' = stop
    /\ UNCHANGED <<plan_start, test_name, result, log, written, given, remarks, outcome>>

\* "1..0": the whole file is skipped, for a reason that must be given.
SkipFile(reason) ==
    /\ outcome = "open" /\ state = "before_plan"
    /\ state' = "skip_stream" /\ plan_stop' = 0
    /\ IF reason
       THEN written' = Append(written, TestPacket(File, "skip", <<>>)) /\ UNCHANGED outcome
       ELSE outcome' = "raised" /\ UNCHANGED written
    /\ UNCHANGED <<plan_start, test_name, result, log, given, remarks>>

StatusFor(ok, directive) ==
    CASE directive = "TODO" -> "xfail"
      [] directive = "SKIP" -> "skip"
      [] OTHER -> IF ok THEN "success" ELSE "fail"

\* The number the test gets: its own, unless that is taken.
OwnNumber(number) == IF number = None THEN plan_start ELSE number   \* mutant
Numbered(number) ==
    IF number # None /\ number > plan_start THEN number ELSE plan_start

ResultLine(ok, number, directive, reason) ==
    LET name == Numbered(number)
        why  == reason /\ directive # "none"
    IN  /\ outcome = "open" /\ Len(given) < MaxResults
        /\ why => Len(remarks) < MaxRemarks
        /\ written' = written \o Emitted \o Missing(plan_start, name - 1)
        /\ result' = StatusFor(ok, directive)
        /\ IF why THEN Noted(LogLeft, name) ELSE log' = LogLeft /\ UNCHANGED remarks
        /\ test_name' = name
        /\ plan_start' = name + 1
        /\ given' = Append(given, result')
        /\ UNCHANGED <<state, plan_stop, outcome>>

\* Results may still follow: nothing looks at "skip_stream".
BailOut ==
    /\ outcome = "open" /\ Len(given) < MaxResults
    /\ written' = written \o Emitted
    /\ test_name' = Bail /\ result' = "fail" /\ log' = LogLeft
    /\ state' = "skip_stream"
    /\ given' = Append(given, "fail")
    /\ UNCHANGED <<plan_start, plan_stop, remarks, outcome>>

Comment ==
    /\ outcome = "open" /\ Len(remarks) < MaxRemarks
    /\ Noted(log, test_name)
    /\ UNCHANGED <<state, plan_start, plan_stop, test_name, result, written, given, outcome>>

ForgetHeld == <<>>   \* mutant: the test held back is not emitted at the end
HeldAtEof == Emitted

EndOfTap ==
    /\ outcome = "open" /\ outcome' = "done"
    /\ written' = written \o HeldAtEof \o Missing(plan_start, plan_stop)
    /\ plan_start' = IF plan_start > plan_stop THEN plan_start ELSE plan_stop + 1
    /\ test_name' = None /\ log' = LogLeft
    /\ UNCHANGED <<state, plan_stop, result, given, remarks>>

TapNext ==
    \/ \E stop \in 1 .. MaxNumber : PlanLine(stop)
    \/ \E reason \in BOOLEAN : SkipFile(reason)
    \/ \E ok, reason \in BOOLEAN, number \in {None} \cup (0 .. MaxNumber),
          directive \in {"none", "TODO", "SKIP"} : ResultLine(ok, number, directive, reason)
    \/ BailOut \/ Comment \/ EndOfTap

TapSpec == TapInit /\ [][TapNext]_tapVars
-------------------------------------------------------------------------------
(* Properties. *)

Counted(test) == test \notin {None, Bail, File}
Held == IF test_name = None THEN <<>> ELSE <<test_name>>
Named == [i \in DOMAIN written |-> written[i].test] \o Held

\* Tests are reported under the numbers 1, 2, 3 and so on, each once, whatever
\* numbers the script gives and wherever its plan comes; and when the stream
\* ends every test of the plan has been reported.
NumberedOnce ==
    /\ {Named[i] : i \in DOMAIN Named} \ {Bail, File} = 1 .. plan_start - 1
    /\ \A i, j \in DOMAIN Named :
          i < j /\ Counted(Named[i]) /\ Counted(Named[j]) => Named[i] < Named[j]
    /\ outcome = "done" => plan_start > plan_stop

Real(packet) == packet.status # "missing" /\ packet.test # File
RealUpTo(i) == Cardinality({j \in 1 .. i : Real(written[j])})

\* Each result read, a bail-out included, is reported once and in order: only
\* the last one is held back, and none when the stream has ended.
ResultsInOrder ==
    /\ RealUpTo(Len(written)) + Len(Held) = Len(given)
    /\ \A i \in DOMAIN written :
          Real(written[i]) => written[i].status = given[RealUpTo(i)]
    /\ test_name # None => result = given[Len(given)]

\* Comments are reported in the order they are read, each once and with the test it
\* follows or gives a reason for; one ahead of all tests goes with the first.  None
\* is lost, save those of a script without a result, which the code drops, and those
\* that wait when it raises.
Logs == [i \in DOMAIN written |-> written[i].log] \o <<log>>
Arrived(n) == \E i \in DOMAIN written : \E k \in DOMAIN written[i].log : written[i].log[k] = n
Waiting(n) == outcome = "open" /\ \E k \in DOMAIN log : log[k] = n
Dropped == outcome = "raised" \/ (outcome = "done" /\ given = <<>>)
CommentsStay ==
    /\ \A i, j \in DOMAIN Logs : \A k \in DOMAIN Logs[i], l \in DOMAIN Logs[j] :
          i < j \/ (i = j /\ k < l) => Logs[i][k] < Logs[j][l]
    /\ \A n \in DOMAIN remarks : Arrived(n) \/ Waiting(n) \/ Dropped
    /\ \A i \in DOMAIN written : \A k \in DOMAIN written[i].log :
          /\ written[i].log[k] \in DOMAIN remarks
          /\ remarks[written[i].log[k]] \in {written[i].test, None}
===============================================================================
