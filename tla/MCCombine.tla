-------------------------------- MODULE MCCombine --------------------------------
(* Commands, requests and bounds for TLC. *)
EXTENDS Combine

t1 == <<"t1">>
t2 == <<"t2">>
P == <<"p">>

Test(id, outcome, imports, prints) ==
    [id |-> id, outcome |-> outcome, imports |-> imports, prints |-> prints]

RunnerCommand(prefix, suite, takes, failfast) ==
    [program |-> "runner", prefix |-> prefix, suite |-> suite, takes |-> takes,
     lists |-> TRUE, failfast |-> failfast]
OutputCommand(prefix, args) ==
    [program |-> "output", prefix |-> prefix, takes |-> "nothing", lists |-> FALSE, line |-> args]
OtherCommand(prefix, program) ==
    [program |-> program, prefix |-> prefix, takes |-> "nothing", lists |-> FALSE]

Attach(action, hunks) ==
    [action |-> action, again |-> FALSE, id |-> IF action = None THEN None ELSE t1,
     options |-> FALSE, attach |-> "file", hunks |-> hunks]

Good == Test(t1, "success", TRUE, TRUE)
Bad == Test(t2, "fail", TRUE, FALSE)
Missing == Test(<<"p", "t1">>, "success", FALSE, FALSE)

FileRunner == RunnerCommand(P, <<Bad, Good>>, "file", TRUE)
WordsRunner == RunnerCommand(P, <<Bad, Good>>, "words", FALSE)
BareRunner == RunnerCommand(<<>>, <<Good, Missing>>, "file", FALSE)
Free == OtherCommand(<<>>, "free")
PrefixedFree == OtherCommand(P, "free")
Absent == OtherCommand(P, "absent")

Attachments ==
    {Attach(action, hunks) : action \in {None, "fail", "inprogress"},
                             hunks \in {<<>>, <<"h1">>, <<"h1", "h2", "h3">>}}
    \cup {[Attach("fail", <<>>) EXCEPT !.attach = None],
          [Attach("fail", <<"h1">>) EXCEPT !.again = TRUE],
          [Attach("fail", <<"h1">>) EXCEPT !.attach = "stdin"],
          [Attach("fail", <<"h1">>) EXCEPT !.attach = "stdin", !.options = TRUE]}

MCConfigs ==
    {<<FileRunner, BareRunner>>, <<WordsRunner, BareRunner>>, <<BareRunner, Absent, FileRunner>>,
     <<Free, OutputCommand(P, Attach("fail", <<"h1">>))>>, <<PrefixedFree>>}
    \cup {<<OutputCommand(P, args)>> : args \in Attachments}

MCLists == {None, <<>>, <<<<>>, <<"p", "t1">>>>}
\* The last request begins with a test that no command has.
MCArguments == {<<>>, <<t1>>, <<P>>, <<<<"p", "p">>, <<"p", "t2">>>>}
===============================================================================
