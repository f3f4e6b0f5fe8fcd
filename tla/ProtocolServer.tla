----------------------------- MODULE ProtocolServer -----------------------------
(***************************************************************************)
(* The parser of the version 1 protocol: TestProtocolServer, its state     *)
(* objects (_ParserState and its subclasses) and the two details parsers   *)
(* of details.py, in python/subunit.  One action reads one line, or the    *)
(* end of the stream.                                                      *)
(*                                                                         *)
(* A line is a record: cmd, the class of its first word; name, the test it *)
(* names; arg, what follows.  For a directive that names a test, arg says  *)
(* whether the label is bare ("plain"), ends in " [" ("simple") or in      *)
(* " [ multipart" ("multipart"), or is not UTF-8 ("undecodable").          *)
(* cmd "fragment" is a first word other than "skip" that is a substring of *)
(* "skip": the code tests `cmd in b"skip"`.                                *)
(***************************************************************************)
EXTENDS Naturals, Sequences

CONSTANTS Names,        \* the labels of the tests
          None,         \* no label
          MaxMessage    \* bound: the longest details message the environment sends

ASSUME NoneAssumption == None \notin Names
ASSUME MaxMessageAssumption == MaxMessage \in Nat

VARIABLES
    state,    \* _state: "outside", "in_test", or the outcome whose details are read
    desc,     \* current_test_description
    test,     \* _current_test, by its label
    phase,    \* the details parser: "none", "simple", or the part a multipart one is in
    message,  \* the lines of details collected so far
    raised,   \* an exception has left lineReceived, and so readFrom
    eof,      \* readFrom has seen the end of the stream and returned
    calls,    \* the calls made on the client by the latest line
    reported, \* the details given with the outcome among them
    sink,     \* where the latest line was written
    last      \* the latest line

parserVars == <<state, desc, test, phase, message>>
vars == <<parserVars, raised, eof, calls, reported, sink, last>>

Outcomes == {"error", "failure", "skip", "success", "xfail", "uxsuccess"}
OutcomeWords == Outcomes \cup {"fragment"}
Notes == {"tags", "time", "progress"}
Texts == {"end", "quoted", "field", "header", "last", "other"}

StartLines == [cmd : {"test"}, name : Names, arg : {"plain", "undecodable"}]
OutcomeLines ==
    [cmd : OutcomeWords, name : Names,
     arg : {"plain", "simple", "multipart", "undecodable"}]
NoteLines == [cmd : Notes, name : {None}, arg : {"good", "malformed"}]
TextLines == [cmd : {"text"}, name : {None}, arg : Texts]
Lines == StartLines \cup OutcomeLines \cup NoteLines \cup TextLines

\* How a details parser sees a line: "end" is the line "]", "quoted" starts
\* with " ]", "field" is "Content-Type: a/b", "header" and "last" are chunk
\* headers ("last" is the zero chunk).  Directives are no exception there:
\* they are among the "other" lines, which may be anything else.
Token(line) == IF line.cmd = "text" THEN line.arg ELSE "other"

Phases == {"none", "simple", "field", "name", "header", "body", "garbled"}

Call(op, t) == [op |-> op, test |-> t]

Init ==
    /\ state = "outside" /\ desc = None /\ test = None
    /\ phase = "none" /\ message = <<>>
    /\ raised = FALSE /\ eof = FALSE
    /\ calls = <<>> /\ reported = <<>> /\ sink = "none"
    /\ last = [cmd |-> "text", name |-> None, arg |-> "other"]

InDetails == state \in Outcomes
Reading == ~raised /\ ~eof

\* What a line makes the client hear: nothing, one call, or an outcome with
\* its details followed by stopTest.
Silent == calls' = <<>> /\ reported' = <<>>
Tell(op, t) == calls' = <<Call(op, t)>> /\ reported' = <<>>
CloseWithoutStop(outcome, t, details) ==   \* mutant: no stopTest after the outcome
    calls' = <<Call(outcome, t)>> /\ reported' = details
Close(outcome, t, details) ==
    /\ calls' = <<Call(outcome, t), Call("stopTest", t)>>
    /\ reported' = details

-------------------------------------------------------------------------------
(* Where a line goes. *)

stdOutLineReceived == sink' = "stdout" /\ UNCHANGED raised

LineDropped == sink' = "nowhere" /\ UNCHANGED raised   \* mutant: the write is missing
subunitLineReceived == sink' = "forward" /\ UNCHANGED raised

\* An exception: the line reaches neither stream and nothing more is read.
Raise == raised' = TRUE /\ sink' = "nowhere" /\ Silent
-------------------------------------------------------------------------------
(* Outside a test. *)

startTest(line) ==
    /\ state = "outside" /\ line.cmd = "test" /\ line.arg = "plain"
    /\ state' = "in_test"
    /\ desc' = line.name
    /\ test' = line.name
    /\ Tell("startTest", line.name)
    /\ subunitLineReceived
    /\ UNCHANGED <<phase, message>>

\* _state is switched before the label is decoded.
startTestUndecodable(line) ==
    /\ state = "outside" /\ line.cmd = "test" /\ line.arg = "undecodable"
    /\ Raise
    /\ state' = "in_test"
    /\ UNCHANGED <<desc, test, phase, message>>

\* Every word has a default in _ParserState that passes the line through,
\* except uxsuccess: only _InTest defines addUnexpectedSuccess.
outcomeOutside(line) ==
    /\ state = "outside" /\ line.cmd \in OutcomeWords \ {"uxsuccess"}
    /\ Silent
    /\ stdOutLineReceived
    /\ UNCHANGED parserVars

uxsuccessOutside(line) ==
    /\ state = "outside" /\ line.cmd = "uxsuccess"
    /\ Raise
    /\ UNCHANGED parserVars
-------------------------------------------------------------------------------
(* Inside a test. *)

OutcomeAsRead(line) == line.cmd   \* mutant: the word is taken for the outcome
OutcomeOf(line) == IF line.cmd = "fragment" THEN "skip" ELSE line.cmd

\* An outcome has been reported: current_test_description is reset.
KeepDescription == UNCHANGED desc   \* mutant: it is not
ForgetDescription == desc' = None

\* _outcome, with the label of the current test and nothing else.
outcomePlain(line) ==
    /\ state = "in_test" /\ line.cmd \in OutcomeWords
    /\ line.name = desc /\ line.arg = "plain"
    /\ state' = "outside"
    /\ ForgetDescription
    /\ Close(OutcomeOf(line), test, <<>>)
    /\ test' = None
    /\ subunitLineReceived
    /\ UNCHANGED <<phase, message>>

\* _outcome, opening details: set_simple or set_multipart makes a new parser.
outcomeDetails(line) ==
    /\ state = "in_test" /\ line.cmd \in OutcomeWords
    /\ line.name = desc /\ line.arg \in {"simple", "multipart"}
    /\ state' = OutcomeOf(line)
    /\ phase' = IF line.arg = "simple" THEN "simple" ELSE "field"
    /\ message' = <<>>
    /\ Silent
    /\ subunitLineReceived
    /\ UNCHANGED <<desc, test>>

\* A second test: line, or an outcome for some other label.
passThroughInTest(line) ==
    /\ state = "in_test"
    /\ \/ line.cmd = "test"
       \/ line.cmd \in OutcomeWords /\ line.name # desc /\ line.arg # "undecodable"
    /\ Silent
    /\ stdOutLineReceived
    /\ UNCHANGED parserVars

outcomeUndecodable(line) ==
    /\ state = "in_test" /\ line.cmd \in OutcomeWords /\ line.arg = "undecodable"
    /\ Raise
    /\ UNCHANGED parserVars
-------------------------------------------------------------------------------
(* Inside or outside a test. *)

AnnotatesAnywhere(line) == line.cmd \in Notes   \* mutant: in details too
Annotates(line) == ~InDetails /\ line.cmd \in Notes

\* _handleTags and _handleTime, then the line is forwarded; _handleProgress
\* is not followed by subunitLineReceived.
note(line) ==
    /\ Annotates(line) /\ line.arg = "good"
    /\ Tell(line.cmd, None)
    /\ IF line.cmd = "progress" THEN sink' = "nowhere" /\ UNCHANGED raised
                                ELSE subunitLineReceived
    /\ UNCHANGED parserVars

\* A count, a date or a tag that does not parse.
noteMalformed(line) ==
    /\ Annotates(line) /\ line.arg = "malformed"
    /\ Raise
    /\ UNCHANGED parserVars

unknownLine(line) ==
    /\ ~InDetails /\ line.cmd = "text"
    /\ Silent
    /\ stdOutLineReceived
    /\ UNCHANGED parserVars
-------------------------------------------------------------------------------
(* Inside details, every line goes to the details parser and is forwarded. *)

\* The outcome is the one whose directive opened the details.  _current_test
\* is left as it is.  The parser object is not used again.
endDetails(line) ==
    /\ InDetails /\ Token(line) = "end" /\ phase \in {"simple", "field"}
    /\ state' = "outside"
    /\ ForgetDescription
    /\ Close(state, test, message)
    /\ phase' = "none" /\ message' = <<>>
    /\ subunitLineReceived
    /\ UNCHANGED test

\* SimpleDetailsParser drops the space that quotes a leading bracket.
Unquote(token) == IF token = "quoted" THEN "end" ELSE token

simpleLine(line) ==
    /\ InDetails /\ phase = "simple" /\ Token(line) # "end"
    /\ message' = Append(message, Unquote(Token(line)))
    /\ Silent
    /\ subunitLineReceived
    /\ UNCHANGED <<state, desc, test, phase>>

\* What a multipart parser may do with a line: _look_for_content, _get_name
\* and _feed_chunks.  _look_for_content takes any "x a/b" for the field it
\* looks for, be it a directive, and raises on a line of another form.  How
\* much of a chunk a body line fills is data, and so is what a line the
\* decoder could not read makes of the lines after it ("garbled": it keeps
\* the line): any outcome the decoder can then have is allowed.
MultipartNext(token) ==
    CASE phase = "field"   -> CASE token = "field" -> {"name"}
                                [] token \in {"quoted", "other"} -> {"name", "raise"}
                                [] OTHER            -> {"raise"}
      [] phase = "name"    -> {"header", "raise"}
      [] phase = "header"  -> CASE token = "header" -> {"body"}
                                [] token = "last"   -> {"field"}
                                [] OTHER            -> {"garbled", "raise"}
      [] phase \in {"body", "garbled"} -> {"body", "header", "field", "garbled", "raise"}
      [] OTHER             -> {}

multipartLine(line) ==
    /\ InDetails /\ phase # "simple"
    /\ ~(phase = "field" /\ Token(line) = "end")
    /\ \E next \in MultipartNext(Token(line)) \ {"raise"} :
          /\ phase' = next
          /\ message' = IF phase = "body" THEN Append(message, Token(line)) ELSE message
    /\ Silent
    /\ subunitLineReceived
    /\ UNCHANGED <<state, desc, test>>

multipartRaises(line) ==
    /\ InDetails /\ phase # "simple"
    /\ ~(phase = "field" /\ Token(line) = "end")
    /\ "raise" \in MultipartNext(Token(line))
    /\ Raise
    /\ UNCHANGED parserVars
-------------------------------------------------------------------------------
lineReceived(line) ==
    /\ Reading
    /\ last' = line
    /\ UNCHANGED eof
    /\ \/ startTest(line)
       \/ startTestUndecodable(line)
       \/ outcomeOutside(line)
       \/ uxsuccessOutside(line)
       \/ outcomePlain(line)
       \/ outcomeDetails(line)
       \/ passThroughInTest(line)
       \/ outcomeUndecodable(line)
       \/ note(line)
       \/ noteMalformed(line)
       \/ unknownLine(line)
       \/ endDetails(line)
       \/ simpleLine(line)
       \/ multipartLine(line)
       \/ multipartRaises(line)

\* The message is the parser's own, and not what details it had collected.
_lostConnectionInTest == Close("error", test, <<"lost connection">>)

\* The states whose lostConnection reports the loss: _OutSideTest's does nothing.
LossReportedInTest == {"in_test"}   \* mutant: not while reading details
LossReported == {"in_test"} \cup Outcomes

\* readFrom has consumed the pipe.  No state is reset: the parser is done.
lostConnection ==
    /\ Reading
    /\ eof' = TRUE
    /\ IF state \in LossReported THEN _lostConnectionInTest ELSE Silent
    /\ UNCHANGED <<parserVars, raised, sink, last>>

\* The pipe delivers any line that keeps the message within its bound.
Fits(line) ==
    \/ Len(message) < MaxMessage
    \/ phase = "simple" /\ Token(line) = "end"
    \/ phase \notin {"simple", "body"}

readLine == \E line \in Lines : Fits(line) /\ lineReceived(line)

Next == readLine \/ lostConnection

\* Every pipe ends: the process at its other end terminates.
Fairness == WF_vars(lostConnection)

Spec == Init /\ [][Next]_vars /\ Fairness
-------------------------------------------------------------------------------
(* Properties. *)

\* Every variable keeps its range, whatever is read.
TypeOK ==
    /\ state \in {"outside", "in_test"} \cup Outcomes
    /\ desc \in Names \cup {None}
    /\ test \in Names \cup {None}
    /\ phase \in Phases
    /\ message \in Seq(Texts)
    /\ raised \in BOOLEAN /\ eof \in BOOLEAN
    /\ sink \in {"none", "stdout", "forward", "nowhere"}
    /\ last \in Lines

\* The three places that remember where the parser is agree: _state is not
\* _outside_test exactly when there is a current_test_description, the test
\* the outcome will be reported for is the one described (although
\* endDetails leaves a stale _current_test behind), and a details parser is
\* in use exactly in a details state.
StateAgrees ==
    /\ ~raised => (state = "outside" <=> desc = None)
    /\ desc # None => test = desc
    /\ InDetails <=> phase # "none"

\* forward_stream and stream share the input out between them: every line
\* that is read without an exception is written to exactly one of them, save
\* progress lines, and nothing written to stdout has been acted upon.
LineLandsOnce ==
    /\ sink = "nowhere" => raised \/ last.cmd = "progress"
    /\ sink = "stdout" /\ ~eof => calls = <<>>

\* Details are opaque: until the details end, no line between the brackets,
\* directive or not, reaches the client or the passthrough stream.
DetailsAreOpaque ==
    [][InDetails /\ state' = state /\ ~eof' => calls' = <<>> /\ sink' # "stdout"]_vars

\* The calls TestProtocolServer makes on its client are those of a TestRun:
\* tests do not overlap, and each gets one outcome and one stopTest, at the
\* latest when the connection is lost.  The progress calls are left out: the
\* documentation wants a progress directive inside a test to close that test
\* with an error (README.md), which _handleProgress does not do.
WithoutProgress(list) == IF \E i \in DOMAIN list : list[i].op = "progress" THEN <<>> ELSE list
TR == INSTANCE TestRun WITH running <- IF eof THEN None ELSE desc, over <- eof,
                            calls <- WithoutProgress(calls)
RefinesTestRun == TR!Spec

Told(op, t) == \E i \in DOMAIN calls : calls[i] = Call(op, t)

\* A test that was started is stopped in the end, wherever the stream is cut,
\* unless an exception stops the reading.
EveryTestIsStopped ==
    \A n \in Names : Told("startTest", n) ~> (Told("stopTest", n) \/ raised)
===============================================================================
