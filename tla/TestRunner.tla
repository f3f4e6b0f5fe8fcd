------------------------------- MODULE TestRunner -------------------------------
(***************************************************************************)
(* SubunitTestRunner (python/subunit/run.py), the program python -m        *)
(* subunit.run: it lists the tests of a suite and, unless it is asked only *)
(* to list them, runs them.  A module that cannot be imported is a test    *)
(* that is not listed and fails when it is run.  The module has the actions*)
(* of one run of the program; whoever starts it composes them with the     *)
(* stream it writes to.                                                    *)
(***************************************************************************)
EXTENDS Integers, Sequences, SequencesExt

CONSTANT None

VARIABLES
    phase,     \* "load" the suite, "list", "run", in a "test", "exited"
    code,      \* the exit code, None before the exit
    plan,      \* the tests chosen, whether some module was not imported,
               \* whether only to list, and whether to stop at a failure
    todo       \* tests not yet listed, or not yet run

Exits(c) == phase' = "exited" /\ code' = c

\* The elements of a sequence that are to be kept, in their order.
KeptUpTo(s, kept) ==
    LET upTo[n \in 0 .. Len(s)] ==
          IF n = 0 THEN <<>>
          ELSE IF s[n] \in kept THEN Append(upTo[n - 1], s[n]) ELSE upTo[n - 1]
    IN  upTo
Keep(s, kept) == KeptUpTo(s, kept)[Len(s)]

\* unittest loads the tests that argv names, in its order, or the whole suite.
\* For a name that is nowhere it makes a test, which is said not to be imported.
FailedTest == "unittest.loader._FailedTest"
Unfound == [id |-> <<FailedTest>>, imports |-> FALSE, prints |-> FALSE, outcome |-> "fail"]
Named(suite, name) ==
    LET there == {t \in Range(suite) : t.imports /\ t.id = name}
    IN  IF there = {} THEN Unfound ELSE CHOOSE t \in there : TRUE
Loaded(suite, names) ==
    IF names = None THEN suite ELSE [i \in DOMAIN names |-> Named(suite, names[i])]

\* --load-list keeps those of the tests that it names, in their order.
Chosen(loaded, list) ==
    IF list = None THEN loaded
    ELSE Keep(loaded, {t \in Range(loaded) : \E i \in DOMAIN list : list[i] = t.id})
Importable(suite) == Keep(suite, {t \in Range(suite) : t.imports})

Load(suite, names, list, listOnly, failfast) ==
    /\ phase = "load"
    /\ LET loaded == Loaded(suite, names)
       IN  plan' = [suite |-> Chosen(loaded, list), broken |-> Importable(loaded) # loaded,
                    listOnly |-> listOnly, failfast |-> failfast]
    /\ todo' = Importable(plan'.suite)
    /\ phase' = "list" /\ UNCHANGED code

Event(id, status) ==
    [id |-> id, status |-> status, file |-> None, bytes |-> None,
     eof |-> FALSE, head |-> TRUE]
ImportErrors ==
    [Event(None, None) EXCEPT !.file = "import errors", !.bytes = "errors"]

\* _list: whatever follows, every test is announced first.
ListTest ==
    /\ phase = "list" /\ todo # <<>>
    /\ todo' = Tail(todo)
    /\ UNCHANGED <<phase, code, plan>>

\* list: import errors, those of tests nobody chose too, are reported, and the
\* exit code tells of them.
ListErrors ==
    /\ phase = "list" /\ todo = <<>> /\ plan.listOnly /\ plan.broken
    /\ Exits(2) /\ UNCHANGED <<plan, todo>>
ListEnds ==
    /\ phase = "list" /\ todo = <<>> /\ plan.listOnly /\ ~plan.broken
    /\ Exits(0) /\ UNCHANGED <<plan, todo>>

run ==
    /\ phase = "list" /\ todo = <<>> /\ ~plan.listOnly
    /\ phase' = "run" /\ todo' = plan.suite
    /\ UNCHANGED <<code, plan>>

StartTest ==
    /\ phase = "run" /\ todo # <<>>
    /\ phase' = "test" /\ UNCHANGED <<code, plan, todo>>

\* A test prints; main has made the standard output unbuffered.
TestPrints == phase = "test" /\ Head(todo).prints /\ UNCHANGED <<phase, code, plan, todo>>

OutcomeOf(test) == IF test.imports THEN test.outcome ELSE "fail"

AddOutcome ==
    /\ phase = "test"
    /\ phase' = "run"
    /\ todo' = IF plan.failfast /\ OutcomeOf(Head(todo)) = "fail" THEN <<>> ELSE Tail(todo)
    /\ UNCHANGED <<code, plan>>

\* SubunitTestProgram is called with exit=False: failures do not show in the code.
RunEnds ==
    /\ phase = "run" /\ todo = <<>>
    /\ Exits(0) /\ UNCHANGED <<plan, todo>>
===============================================================================
