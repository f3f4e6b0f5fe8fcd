------------------------------- MODULE IsolatedRun -------------------------------
(***************************************************************************)
(* run_isolated (python/subunit/__init__.py): a forked child runs a suite  *)
(* and reports through TestProtocolClient, the parent's TestProtocolServer *)
(* reads the pipe.  Its state and its actions are those of ProtocolServer, *)
(* which this module extends.  The child may die at any moment; what its   *)
(* buffered stream had not passed on is lost, and the last line may be     *)
(* torn.                                                                   *)
(*                                                                         *)
(* Test names are ASCII and a `test:` line, which finds the buffer empty,  *)
(* is short enough for the pipe to take it whole.                          *)
(***************************************************************************)
EXTENDS ProtocolServer, SequencesExt

CONSTANTS Suite,          \* the tests, in the order they are run
          SimpleContent,  \* the lines of tracebacks and reasons
          MaxParts,       \* bound: parts of a multipart message
          PipeSize        \* bound: lines the pipe holds

ASSUME SuiteAssumption == Suite \in Seq(Names)
ASSUME ContentAssumption == SimpleContent \subseteq Texts
ASSUME MaxPartsAssumption == MaxParts \in Nat
ASSUME PipeSizeAssumption == PipeSize \in Nat \ {0}

VARIABLES   \* besides those of the parent's parser
    child,      \* where the child is
    next,       \* the test it runs or will run, an index of Suite
    buffer,     \* lines its stream has not written to the pipe
    childLog,   \* the outcomes its tests had
    pipe,
    parentLog   \* the outcomes the parent's result got

childVars == <<child, next, buffer, childLog>>
isolatedVars == <<childVars, pipe, vars, parentLog>>

IsolatedInit ==
    /\ child = "idle" /\ next = 1 /\ buffer = <<>> /\ childLog = <<>>
    /\ pipe = <<>>
    /\ Init
    /\ parentLog = <<>>
-------------------------------------------------------------------------------
(* Lines on the wire.  `leads` is the part of a multipart message that     *)
(* comes after the line: what a chunk body line does to the chunk decoder  *)
(* depends on sizes that are not modelled here.                            *)

Entry(line, leads) == [line |-> line, leads |-> leads]
Directive(cmd, name, arg) == Entry([cmd |-> cmd, name |-> name, arg |-> arg], "any")
Text(token, leads) == Entry([cmd |-> "text", name |-> None, arg |-> token], leads)

Noise == Text("other", "any")

\* _addOutcome with an exc_info, addSkip with a reason: nothing is quoted.
SimpleLines(outcome, name, content) ==
    <<Directive(outcome, name, "simple")>>
    \o [i \in DOMAIN content |-> Text(content[i], "any")]
    \o <<Text("end", "any")>>

Contents(tokens) == UNION {[1 .. n -> tokens] : n \in 0 .. MaxMessage}

\* One of the details: the lines of its content, and whether the last of them
\* ends in a newline.  If it does not, what follows is on the same line.
Parts ==
    {part \in [content : Contents({"end", "other"}), terminated : BOOLEAN] :
        part.terminated \/ (part.content # <<>> /\ Last(part.content) = "other")}

\* One round of _write_details' loop: Content-Type, name, one chunk if the
\* content is not empty (it is shorter than the encoder's buffer), and the
\* last chunk, which is on the line that is not terminated, if there is one.
PartLines(part) ==
    LET n == Len(part.content)
        after(i) == IF i < n THEN "body" ELSE IF part.terminated THEN "header" ELSE "field"
    IN  <<Text("field", "name"), Text("other", "header")>>
        \o (IF n = 0 THEN <<>> ELSE <<Text("header", "body")>>)
        \o [i \in 1 .. n |-> Text(part.content[i], after(i))]
        \o (IF n = 0 \/ part.terminated THEN <<Text("last", "field")>> ELSE <<>>)

AllParts(parts) == FlattenSeq([k \in DOMAIN parts |-> PartLines(parts[k])])

MultipartUnended(outcome, name, parts) ==   \* mutant: no bracket at the end
    <<Directive(outcome, name, "multipart")>> \o AllParts(parts)

\* _addOutcome with details, of which there may be none.
MultipartLines(outcome, name, parts) ==
    <<Directive(outcome, name, "multipart")>> \o AllParts(parts) \o <<Text("end", "any")>>

\* The contents of all parts, in the order they are written.
Details(parts) == FlattenSeq([k \in DOMAIN parts |-> parts[k].content])
Messages ==
    {parts \in UNION {[1 .. n -> Parts] : n \in 0 .. MaxParts} : Len(Details(parts)) <= MaxMessage}

\* The ways TestProtocolClient reports an outcome.
PlainLines(outcome, name) == <<Directive(outcome, name, "plain")>>
PlainOutcomes == {"success", "uxsuccess"}
SimpleOutcomes == {"error", "failure", "xfail", "skip"}
-------------------------------------------------------------------------------
(* The child. *)

client_startTest ==
    /\ child = "idle" /\ next <= Len(Suite)
    /\ child' = "in_test"
    /\ buffer' = Append(buffer, Directive("test", Suite[next], "plain"))
    /\ UNCHANGED <<next, childLog, pipe, vars, parentLog>>

Running == child \in {"idle", "in_test", "recorded"}

Room == Len(pipe) < PipeSize

\* A line goes from the buffer to the pipe: it is full, or it is flushed.
Drain ==
    /\ Running /\ buffer # <<>> /\ Room
    /\ buffer' = Tail(buffer)
    /\ pipe' = Append(pipe, Head(buffer))
    /\ UNCHANGED <<child, next, childLog, vars, parentLog>>

\* startTest and stopTest flush the stream, and run_isolated does in the end.
FlushedNever == TRUE   \* mutant: they do not flush
Flushed == buffer = <<>>

\* The test itself writes a line to its standard output, which is the pipe.
WriteNoise ==
    /\ child = "in_test" /\ Flushed /\ pipe = <<>>
    /\ pipe' = <<Noise>>
    /\ UNCHANGED <<childVars, vars, parentLog>>

\* startTest has been called, and has flushed the stream.
Started == child = "in_test" /\ Flushed

_addOutcome(outcome, content, lines) ==
    /\ child' = "recorded"
    /\ buffer' = buffer \o lines
    /\ childLog' = Append(childLog,
                     [test |-> Suite[next], outcome |-> outcome, details |-> content])
    /\ UNCHANGED <<next, pipe, vars, parentLog>>

addPlain ==
    /\ Started
    /\ \E outcome \in PlainOutcomes :
        _addOutcome(outcome, <<>>, PlainLines(outcome, Suite[next]))

addSimple ==
    /\ Started
    /\ \E outcome \in SimpleOutcomes, content \in Contents(SimpleContent) :
        _addOutcome(outcome, content, SimpleLines(outcome, Suite[next], content))

addMultipart ==
    /\ Started
    /\ \E outcome \in PlainOutcomes \cup SimpleOutcomes, parts \in Messages :
        _addOutcome(outcome, Details(parts), MultipartLines(outcome, Suite[next], parts))

client_stopTest ==
    /\ child = "recorded" /\ Flushed
    /\ child' = "idle" /\ next' = next + 1
    /\ UNCHANGED <<buffer, childLog, pipe, vars, parentLog>>

Exit ==
    /\ child = "idle" /\ next > Len(Suite) /\ Flushed
    /\ child' = "exited"
    /\ UNCHANGED <<next, buffer, childLog, pipe, vars, parentLog>>

\* What the parser reads when a line stops short of its end.  It drops the
\* last octet of a directive, taking it for the newline: a space after the
\* label, or the one before "multipart", makes a directive of a shorter form.
TornLeads(entry) ==
    CASE entry.leads \in {"any", "name"} -> "any"
      [] entry.line.arg \in {"header", "last"} -> "garbled"
      [] entry.leads = "field" -> "body"
      [] OTHER -> entry.leads

Torn(entry) ==
    LET line == entry.line
    IN  CASE line.cmd = "text" ->
               {Text("other", TornLeads(entry))}
               \cup (IF entry.leads = "name" THEN {Text("field", "name")} ELSE {})
          [] line.arg = "simple" ->
               {Noise, Directive(line.cmd, line.name, "plain")}
          [] line.arg = "multipart" ->
               {Noise, Directive(line.cmd, line.name, "plain"),
                Directive(line.cmd, line.name, "simple")}
          [] OTHER -> {Noise}

\* The child is killed, or exits without flushing.
Crash ==
    /\ Running
    /\ child' = "crashed"
    /\ buffer' = <<>>
    /\ \/ UNCHANGED pipe
       \/ /\ buffer # <<>> /\ Head(buffer).line.cmd # "test" /\ Room
          /\ \E entry \in Torn(Head(buffer)) : pipe' = Append(pipe, entry)
    /\ UNCHANGED <<next, childLog, vars, parentLog>>

Work ==
    \/ client_startTest \/ Drain \/ addPlain \/ addSimple \/ addMultipart
    \/ client_stopTest \/ Exit
-------------------------------------------------------------------------------
(* The parent. *)

\* The outcome among the calls of this step, if there is one.
Heard ==
    IF calls' = <<>> \/ calls'[1].op \notin Outcomes THEN <<>>
    ELSE <<[test |-> calls'[1].test, outcome |-> calls'[1].op, details |-> reported']>>

ReadLine ==
    /\ pipe # <<>>
    /\ lineReceived(Head(pipe).line)
    /\ Head(pipe).leads # "any" => phase' = Head(pipe).leads /\ ~raised'
    /\ pipe' = Tail(pipe)
    /\ parentLog' = parentLog \o Heard
    /\ UNCHANGED childVars

LostConnection ==
    /\ pipe = <<>> /\ child \in {"exited", "crashed"}
    /\ lostConnection
    /\ parentLog' = parentLog \o Heard
    /\ UNCHANGED <<childVars, pipe>>

IsolatedNext == Work \/ WriteNoise \/ Crash \/ ReadLine \/ LostConnection

\* The parent reads as long as there is something to read.  The tests of the
\* suite end, and what they print ends.
IsolatedSpec ==
    /\ IsolatedInit /\ [][IsolatedNext]_isolatedVars
    /\ WF_isolatedVars(ReadLine) /\ WF_isolatedVars(LostConnection) /\ WF_isolatedVars(Work)
-------------------------------------------------------------------------------
(* Properties. *)

Lost(record) ==
    record.outcome = "error" /\ record.details = <<"lost connection">>

\* The parent's result hears the outcomes of the child's tests, in their order
\* and with their details.  Only the last one may differ, if the child
\* crashed: it may be an error in its place, or have lost its details.
OutcomesAgree ==
    \A i \in DOMAIN parentLog :
        \/ i \in DOMAIN childLog /\ parentLog[i] = childLog[i]
        \/ /\ child = "crashed" /\ i = Len(parentLog)
           /\ i <= next /\ parentLog[i].test = Suite[i]
           /\ \/ Lost(parentLog[i])
              \/ /\ parentLog[i].outcome = childLog[i].outcome
                 /\ parentLog[i].details = <<>>

\* A child that exits has been heard out: nothing its tests reported is lost.
ExitIsComplete == eof /\ child = "exited" => parentLog = childLog

\* Every test that was started gets an outcome in the parent's result, though
\* its process dies: a crash is no silent success.  The exception is a parser
\* that raises: what it makes of a torn message may be an error that ends the
\* reading (README).
EveryTestIsReported ==
    \A i \in DOMAIN Suite :
        (Started /\ next = i) ~> (Len(parentLog) >= i \/ raised)
-------------------------------------------------------------------------------
(* What the documentation says and the code does not do. *)

\* "BRACKETED ::= '[' LF UTF8-lines ']' LF" with " ]..  space is eaten"
\* (README.md), and "now we want to filter it to escape ]'s" (run_isolated):
\* any line may be part of a traceback.
DetailsSurviveBrackets ==
    child = "exited" => \A i \in DOMAIN parentLog : parentLog[i] = childLog[i]
===============================================================================
