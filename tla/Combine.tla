--------------------------------- MODULE Combine ---------------------------------
(***************************************************************************)
(* subunit-combine (python/subunit/filter_scripts/subunit_combine.py): the *)
(* commands of a configuration run one after the other, each a process that*)
(* writes to a bounded pipe while combine reads it, puts the command's     *)
(* prefix in front of the test ids and writes the events to its own output.*)
(*                                                                         *)
(* A command runs python -m subunit.run (TestRunner), subunit-output       *)
(* (OutputAttachment), a program that writes whatever it likes, or a       *)
(* program that is not there.  A test id is a sequence of parts, and so is *)
(* a prefix.                                                               *)
(***************************************************************************)
EXTENDS Integers, Sequences, SequencesExt, FiniteSets

CONSTANTS
    None,
    Parts,       \* of test ids
    Configs,     \* configurations: sequences of commands
    Lists,       \* what --load-list may name: None, or lines, blank ones empty
    Arguments,   \* test ids given on the command line: sequences of ids
    Capacity,    \* bound: items the pipe holds
    MaxWrites    \* bound: items a program that writes what it likes writes

Ids == Seq(Parts)
Outcomes == {"success", "fail", "skip", "xfail", "uxsuccess"}
Tests ==   \* no test has an empty id
    [id : Ids \ {<<>>}, imports : BOOLEAN, prints : BOOLEAN, outcome : Outcomes]

ASSUME IdsAssumption ==
    /\ None \notin Ids /\ None \notin Seq(Ids)
    /\ Lists \subseteq {None} \cup Seq(Ids) /\ Arguments \subseteq Seq(Ids)

\* load_config: the configuration names a list of commands, one at least.
ASSUME ConfigsAssumption ==
    \A config \in Configs :
        /\ Len(config) \in Nat \ {0} /\ DOMAIN config = 1 .. Len(config)
        /\ \A i \in DOMAIN config :
              /\ config[i].prefix \in Ids /\ config[i].takes \in {"file", "words", "nothing"}
              /\ config[i].program = "runner" => config[i].suite \in Seq(Tests)
              /\ config[i].program = "output" =>
                    config[i].line.hunks \in Seq(STRING \ {"nothing"})
ASSUME BoundsAssumption == Capacity \in Nat \ {0} /\ MaxWrites \in Nat

VARIABLES
    \* the invocation
    commands,    \* the configuration
    ids,         \* test_ids: requested ids, None if none were
    listMode,    \* --list
    \* combine
    pc,          \* "next" command, "popen", "read", "swallow", "wait", "ended"
    at,          \* the command whose turn it is
    idfile,      \* the content of the file named by idfile_path, None if there is none
    raised,      \* an exception is on its way out
    failed,      \* failed
    exit,        \* the exit code, None before the end
    broken,      \* whoever reads the output has gone
    \* the command's process, and the pipe to it
    phase, code, \* its state and its exit code
    plan, todo,                       \* those of TestRunner
    line, unread, this, next, first,  \* those of OutputAttachment
    writes,      \* items a program that writes what it likes has written
    pipe,        \* items written and not yet read
    swallowed,   \* a packet of an impossible length has taken what follows it
    \* history
    said,        \* all that the commands have written, as it is to be reported
    merged,      \* what has been written to the output
    codes        \* the commands that have ended, with their exit codes

invocation == <<commands, ids, listMode>>
attachment == <<line, unread, this, next, first>>
child == <<plan, todo, attachment, writes>>
vars == <<invocation, pc, at, idfile, raised, failed, exit, broken,
          phase, code, child, pipe, swallowed, said, merged, codes>>

Runner == INSTANCE TestRunner
Output == INSTANCE OutputAttachment

ASSUME NamesAssumption == None \notin Output!FinalActions /\ Runner!FailedTest \in Parts

Command == commands[at]
-------------------------------------------------------------------------------
(* Test ids on their way to the commands. *)

\* _read_id_list: blank lines and comments are skipped.
NotEmpty(test_ids) == Runner!Keep(test_ids, Range(test_ids) \ {<<>>})
_read_id_list(lines) == NotEmpty(lines)

\* main: the ids of --load-list, then those on the command line.
RequestedIds(lines, arguments) ==
    IF lines = None THEN IF arguments = <<>> THEN None ELSE arguments
    ELSE _read_id_list(lines) \o arguments

Strip(prefix, id) == SubSeq(id, Len(prefix) + 1, Len(id))

SelectAnywhere(cmd, test_ids) ==   \* mutant: any id loses as much as the prefix is long
    IF test_ids = None THEN None
    ELSE [i \in DOMAIN test_ids |-> Strip(cmd.prefix, test_ids[i])]
_select_ids_for_command(cmd, test_ids) ==
    IF test_ids = None THEN None
    ELSE LET own == Runner!Keep(test_ids, {id \in Range(test_ids) : IsPrefix(cmd.prefix, id)})
         IN  [i \in DOMAIN own |-> Strip(cmd.prefix, own[i])]

\* Ids were requested, and none of this command's.
Skipped(cmd, test_ids) ==
    test_ids # None /\ _select_ids_for_command(cmd, test_ids) = <<>>

\* _expand_argv: what argv tells the program.  $IDOPTION names the file; $IDLIST
\* is split into words, and an empty id is none; argv may have neither.
IdOption(cmd, file) == IF cmd.takes = "file" THEN file ELSE None
IdList(cmd) ==
    IF cmd.takes # "words" \/ ids = None THEN None
    ELSE LET words == NotEmpty(_select_ids_for_command(cmd, ids))
         IN  IF words = <<>> THEN None ELSE words
-------------------------------------------------------------------------------
(* What is read from the pipe, and what is written to the output. *)

\* A packet is a record like those of Output!Packet; what else a command may
\* write is told by its name.
Packet(id, status, file, bytes) ==
    [id |-> id, status |-> status, file |-> file, bytes |-> bytes, eof |-> FALSE, head |-> FALSE]
Item(kind, packet) == [kind |-> kind, packet |-> packet]
Other(kind) == Item(kind, Packet(None, None, None, None))

\* _PrefixingStreamResult.
Prefixed(prefix, packet) ==
    [packet EXCEPT !.id = IF @ = None THEN None ELSE prefix \o @]

ParserEvent(status, file) ==
    [Packet(<<"subunit.parser">>, status, file, "octets") EXCEPT !.eof = TRUE]

\* What ByteStreamToStreamResult makes of an item: text goes in a file without
\* a test id, what cannot be parsed in two events of a test of the parser's.
Events(item) ==
    CASE item.kind \in {"packet", "full"} -> <<item.packet>>
      [] item.kind = "text" -> <<Packet(None, None, "stdout", "text")>>
      [] item.kind \in {"damaged", "short"} ->
            <<ParserEvent(None, "Packet data"), ParserEvent("fail", "Parser Error")>>
      [] OTHER -> <<>>

Reported(item) ==
    [i \in DOMAIN Events(item) |->
        [from |-> at, event |-> Prefixed(Command.prefix, Events(item)[i])]]

\* The exceptions of this loop that are not ParseErrors: the length of an
\* unreadable packet is below 5, and read refuses the size computed from it; a
\* full packet is too long once it has the prefix; the output may be gone.
Raises(item) ==
    \/ item.kind = "unreadable"
    \/ item.kind = "full" /\ Command.prefix # <<>>
    \/ broken
-------------------------------------------------------------------------------
(* The command's process. *)

Running == phase \notin {"none", "exited"}

Says(item) ==
    /\ Len(pipe) < Capacity
    /\ pipe' = Append(pipe, item)
    /\ said' = IF swallowed THEN said ELSE said \o Reported(item)
    /\ swallowed' = (swallowed \/ item.kind = "short")

SaysNothing == UNCHANGED <<pipe, said, swallowed>>

combine == <<invocation, pc, at, idfile, raised, failed, exit, broken, merged, codes>>

RunnerWorks ==
    /\ \/ /\ Runner!Load(Command.suite, IdList(Command), IdOption(Command, idfile),
                         listMode /\ Command.lists, Command.failfast)
          /\ SaysNothing
       \/ Runner!ListTest /\ Says(Item("packet", Runner!Event(Head(todo).id, "exists")))
       \/ Runner!ListErrors /\ Says(Item("packet", Runner!ImportErrors))
       \/ (Runner!ListEnds \/ Runner!run \/ Runner!RunEnds) /\ SaysNothing
       \/ Runner!StartTest /\ Says(Item("packet", Runner!Event(Head(todo).id, "inprogress")))
       \/ /\ Runner!AddOutcome
          /\ Says(Item("packet", Runner!Event(Head(todo).id, Runner!OutcomeOf(Head(todo)))))
    /\ UNCHANGED <<attachment, writes, combine>>

RunnerPrints ==
    /\ Runner!TestPrints /\ writes > 0
    /\ Says(Other("text"))
    /\ writes' = writes - 1
    /\ UNCHANGED <<attachment, combine>>

OutputWorks ==
    /\ \/ Output!output_main(Command.line) /\ SaysNothing
       \/ Output!OpenFile /\ SaysNothing
       \/ Output!WritePacket /\ Says(Item("packet", Output!Packet))
    /\ UNCHANGED <<plan, todo, writes, combine>>

\* A program that is no part of subunit: it writes a given number of items and
\* exits with any code.
FreeItems ==
    {Other("text"), Other("damaged"), Other("short"), Other("unreadable"),
     Item("packet", Packet(None, None, "log", "octets")),
     Item("full", Packet(<<"free">>, "success", None, None))}

FreeWrites ==
    /\ phase = "free" /\ writes > 0
    /\ \E item \in FreeItems : Says(item)
    /\ writes' = writes - 1
    /\ UNCHANGED <<phase, code, plan, todo, attachment, combine>>

FreeExits ==
    /\ phase = "free" /\ writes = 0
    /\ \E c \in {0, 1} : Output!Exits(c)
    /\ SaysNothing /\ UNCHANGED <<child, combine>>

ProcessWorks == RunnerWorks \/ RunnerPrints \/ OutputWorks \/ FreeWrites \/ FreeExits

\* The process is killed, perhaps in the middle of a packet.
Killed ==
    /\ Running
    /\ Output!Exits(-9)
    /\ SaysNothing \/ Says(Other("damaged"))
    /\ UNCHANGED <<child, combine>>
-------------------------------------------------------------------------------
(* combine and run_command. *)

NoProcess ==
    /\ phase' = "none" /\ code' = None /\ plan' = None /\ todo' = <<>>
    /\ line' = None /\ unread' = <<>> /\ this' = None /\ next' = None /\ first' = FALSE
    /\ writes' = 0 /\ pipe' = <<>> /\ swallowed' = FALSE

Skip ==
    /\ pc = "next" /\ at <= Len(commands) /\ Skipped(Command, ids)
    /\ at' = at + 1
    /\ UNCHANGED <<invocation, pc, idfile, raised, failed, exit, broken,
                   phase, code, child, pipe, swallowed, said, merged, codes>>

\* _write_idfile.
Start ==
    /\ pc = "next" /\ at <= Len(commands) /\ ~Skipped(Command, ids)
    /\ idfile' = _select_ids_for_command(Command, ids)
    /\ pc' = "popen"
    /\ UNCHANGED <<invocation, at, raised, failed, exit, broken,
                   phase, code, child, pipe, swallowed, said, merged, codes>>

\* _expand_argv and Popen.
Popen ==
    /\ pc = "popen" /\ Command.program # "absent"
    /\ phase' = CASE Command.program = "runner" -> "load"
                  [] Command.program = "output" -> "parse"
                  [] OTHER -> "free"
    /\ writes' \in IF phase' = "free" THEN 0 .. MaxWrites ELSE {MaxWrites}
    /\ pc' = "read"
    /\ UNCHANGED <<invocation, at, idfile, raised, failed, exit, broken, code, plan, todo,
                   attachment, pipe, swallowed, said, merged, codes>>

KeepFile == idfile   \* mutant
\* The file goes once the command has ended, or has not even begun.
RemoveFile == None

\* Nothing else is run.
PopenRaises ==
    /\ pc = "popen" /\ Command.program = "absent"
    /\ idfile' = RemoveFile
    /\ raised' = TRUE /\ pc' = "ended" /\ exit' = 1
    /\ UNCHANGED <<invocation, at, failed, broken,
                   phase, code, child, pipe, swallowed, said, merged, codes>>

process == <<phase, code, child, swallowed, said>>
loop == <<invocation, at, idfile, failed, exit, broken, codes>>

\* ByteStreamToStreamResult.run on the pipe.
Read ==
    /\ pc = "read" /\ pipe # <<>> /\ Head(pipe).kind # "short"
    /\ pipe' = Tail(pipe)
    /\ IF Raises(Head(pipe))
       THEN raised' = TRUE /\ pc' = "wait" /\ UNCHANGED merged
       ELSE merged' = merged \o Reported(Head(pipe)) /\ UNCHANGED <<pc, raised>>
    /\ UNCHANGED <<process, loop>>

\* A packet of length 5: read(-1) takes all that comes until the end.
ReadShort ==
    /\ pc = "read" /\ pipe # <<>> /\ Head(pipe).kind = "short"
    /\ pipe' = Tail(pipe) /\ pc' = "swallow"
    /\ UNCHANGED <<raised, merged, process, loop>>

Swallow ==
    /\ pc = "swallow" /\ pipe # <<>>
    /\ pipe' = Tail(pipe)
    /\ UNCHANGED <<pc, raised, merged, process, loop>>

SwallowEnds ==
    /\ pc = "swallow" /\ pipe = <<>> /\ phase = "exited"
    /\ IF broken
       THEN raised' = TRUE /\ pc' = "wait" /\ UNCHANGED merged
       ELSE merged' = merged \o Reported(Other("short")) /\ pc' = "read" /\ UNCHANGED raised
    /\ UNCHANGED <<pipe, process, loop>>

AtEofEarly == pipe = <<>>   \* mutant: a pause is taken for the end
AtEofNever == FALSE   \* mutant: combine keeps the other end of the pipe open
AtEof == pipe = <<>> /\ phase = "exited"

Eof ==
    /\ pc = "read" /\ AtEof
    /\ pc' = "wait"
    /\ UNCHANGED <<pipe, raised, merged, process, loop>>

FailedByLatest == code # 0   \* mutant: a later command that succeeds hides the failure
Failed == failed \/ code # 0

\* proc.wait, in the way of an exception too.
Wait ==
    /\ pc = "wait" /\ phase = "exited"
    /\ codes' = codes \cup {<<at, code>>}
    /\ idfile' = RemoveFile
    /\ NoProcess
    /\ IF raised
       THEN pc' = "ended" /\ exit' = 1 /\ UNCHANGED <<at, failed>>
       ELSE /\ pc' = "next" /\ at' = at + 1 /\ failed' = Failed
            /\ UNCHANGED exit
    /\ UNCHANGED <<invocation, raised, broken, said, merged>>

Finish ==
    /\ pc = "next" /\ at > Len(commands)
    /\ pc' = "ended" /\ exit' = IF failed THEN 1 ELSE 0
    /\ UNCHANGED <<invocation, at, idfile, raised, failed, broken,
                   phase, code, child, pipe, swallowed, said, merged, codes>>

run_command ==
    \/ Start \/ Popen \/ PopenRaises
    \/ Read \/ ReadShort \/ Swallow \/ SwallowEnds \/ Eof \/ Wait

OutputBreaks ==
    /\ ~broken /\ pc # "ended"
    /\ broken' = TRUE
    /\ UNCHANGED <<invocation, pc, at, idfile, raised, failed, exit,
                   phase, code, child, pipe, swallowed, said, merged, codes>>

Init ==
    /\ commands \in Configs /\ listMode \in BOOLEAN
    /\ \E lines \in Lists, arguments \in Arguments : ids = RequestedIds(lines, arguments)
    /\ pc = "next" /\ at = 1 /\ idfile = None
    /\ raised = FALSE /\ failed = FALSE /\ exit = None /\ broken = FALSE
    /\ phase = "none" /\ code = None /\ plan = None /\ todo = <<>>
    /\ line = None /\ unread = <<>> /\ this = None /\ next = None /\ first = FALSE
    /\ writes = 0 /\ pipe = <<>> /\ swallowed = FALSE
    /\ said = <<>> /\ merged = <<>> /\ codes = {}

Combines == Skip \/ Finish \/ run_command

Next == Combines \/ ProcessWorks \/ Killed \/ OutputBreaks

\* combine and the command are processes that only wait for each other, and the
\* programs end.  Nobody has to be killed, and the output need not break.
Spec == Init /\ [][Next]_vars /\ WF_vars(Combines) /\ WF_vars(ProcessWorks)
-------------------------------------------------------------------------------
(* Properties. *)

\* The output is what the commands have written, each under its prefix, command
\* after command: nothing is lost, repeated or mixed up, and combine returns
\* only when it has written all of it.
Channel == INSTANCE ItemChannel WITH
    sent <- said, got <- merged, over <- (pc = "ended" /\ ~raised)
MergesInOrder == Channel!Spec

\* "The exit code is 0 if all commands exited 0, 1 otherwise": all of those that
\* had to run did.
ExitTellsFailure ==
    pc = "ended" =>
        (exit = 0 <=> /\ ~raised
                      /\ \A i \in DOMAIN commands : Skipped(commands[i], ids) \/ <<i, 0>> \in codes)

\* The ids a command reads from the file are there until it has ended, and no
\* file is left behind, whether the command ends, is killed or cannot be started,
\* and whichever way combine ends.
IdFileOutlivesItsCommand ==
    /\ Running => idfile = _select_ids_for_command(Command, ids)
    /\ pc \in {"next", "ended"} => idfile = None

\* From a request to the report of a result.  A test that is asked for under its
\* prefix has an outcome from the command it belongs to, unless that stops at an
\* earlier failure; one that only lists its tests lists it.  No command that takes
\* ids reports another test, save the failure that stands for a name it does not
\* know.  ($IDLIST cannot say that the empty id is asked for: all tests are run.)
HasTest(cmd, id) ==
    cmd.program = "runner" /\ \E j \in DOMAIN cmd.suite :
        cmd.suite[j].imports /\ cmd.prefix \o cmd.suite[j].id = id
Tells(events, i, id, statuses) ==
    \E j \in DOMAIN events :
        events[j].from = i /\ events[j].event.id = id /\ events[j].event.status \in statuses
StopsEarly(events, i) ==
    /\ commands[i].failfast
    /\ \E j \in DOMAIN events : events[j].from = i /\ events[j].event.status = "fail"
OnlyLists(i) == listMode /\ commands[i].lists
Served(events, i, id) ==
    IF OnlyLists(i) THEN Tells(events, i, id, {"exists"})
    ELSE Tells(events, i, id, Outcomes) \/ StopsEarly(events, i)
RequestedAreRun ==
    (pc = "ended" /\ exit = 0 /\ ids # None) =>
        \A i \in DOMAIN commands, k \in DOMAIN ids :
            HasTest(commands[i], ids[k]) => Served(merged, i, ids[k])

AsksForAll(cmd) == \E k \in DOMAIN ids : ids[k] = cmd.prefix
AsksForUnknown(cmd) ==
    \E k \in DOMAIN ids : IsPrefix(cmd.prefix, ids[k]) /\ ~HasTest(cmd, ids[k])
OnlyRequestedAreRun ==
    ids # None =>
        \A j \in DOMAIN merged :
            LET cmd == commands[merged[j].from]
                id  == merged[j].event.id
            IN  \/ cmd.program # "runner" \/ cmd.takes = "nothing"
                \/ id \in {None, cmd.prefix \o <<"subunit.parser">>}
                \/ \E k \in DOMAIN ids : ids[k] = id
                \/ cmd.takes = "words" /\ AsksForAll(cmd)
                \/ /\ cmd.takes = "words" /\ AsksForUnknown(cmd)
                   /\ id = cmd.prefix \o <<Runner!FailedTest>>
RequestsAreRouted == RequestedAreRun /\ OnlyRequestedAreRun

\* An attachment arrives hunk by hunk, says eof with its last hunk and nowhere
\* else, however many hunks there are; a final status is not there before the
\* end of the attachment, and once the command has succeeded all is there.
HunksOf(args) == IF args.hunks = <<>> THEN <<"nothing">> ELSE args.hunks
ParserFiles == {"Packet data", "Parser Error"}
IsPiece(i, j) == merged[j].from = i /\ merged[j].event.file \notin ParserFiles
NumberOf(i, j) == Cardinality({k \in 1 .. j : IsPiece(i, k)})
AttachmentsArriveWhole ==
    \A i \in DOMAIN commands :
        (commands[i].program = "output" /\ commands[i].line.attach # None) =>
            LET hunks == HunksOf(commands[i].line)
            IN  /\ \A j \in DOMAIN merged : IsPiece(i, j) =>
                      LET event == merged[j].event
                          n     == NumberOf(i, j)
                      IN  /\ n <= Len(hunks) /\ event.bytes = hunks[n]
                          /\ event.eof <=> n = Len(hunks)
                          /\ event.status \in Output!FinalActions => n = Len(hunks)
                /\ <<i, 0>> \in codes /\ ~raised =>
                      /\ NumberOf(i, Len(merged)) = Len(hunks)
                      /\ \E j \in DOMAIN merged :
                            IsPiece(i, j) /\ merged[j].event.status = commands[i].line.action

\* combine ends, unless it raised and waits for a command that has more to write
\* than the pipe holds.
WaitsForABlockedCommand == raised /\ pc = "wait" /\ Running /\ Len(pipe) = Capacity
CombineEnds == <>(pc = "ended") \/ <>[]WaitsForABlockedCommand
===============================================================================
