------------------------------ MODULE ResultFilter ------------------------------
(***************************************************************************)
(* TestResultFilter (python/subunit/test_results.py) with what it puts in  *)
(* front of the result it filters for: TestResultFilter, _PredicateFilter, *)
(* TimeCollapsingDecorator, TagCollapsingDecorator, sink.  Calls are made  *)
(* on the filter as v1's parser and testtools make them, one action each;  *)
(* an action includes every call it causes, down to the sink.              *)
(***************************************************************************)
EXTENDS Naturals, Sequences

CONSTANTS Names,        \* tests
          None,         \* no test, no report
          Tags,
          Excluded,     \* outcomes whose filter_ argument is true
          With,         \* make_tag_filter's with_tags
          Without,      \* and without_tags
          FixedUp,      \* fixup_expected_failures
          MaxTime,      \* bound: times are 1 .. MaxTime
          MaxBuffered   \* bound: the longest _buffered_calls

ASSUME FilterAssumption ==
    /\ None \notin Names /\ FixedUp \subseteq Names
    /\ With \subseteq Tags /\ Without \subseteq Tags
    /\ MaxTime \in Nat \ {0} /\ MaxBuffered \in Nat

VARIABLES
    \* what the calls so far mean to whoever makes them
    running,       \* the running test, which is also _current_test
    clock,         \* the time, 0 if none was given
    base, active,  \* the tags outside tests, and now
    given,         \* the running test's outcome and tags
    \* _PredicateFilter
    globalTags,    \* _global_tags
    testTags,      \* _test_tags
    filtered,      \* _current_test_filtered
    buffered,      \* _buffered_calls
    down           \* the collapsing decorators and the sink

caller == <<running, clock, base, active, given>>
filter == <<globalTags, testTags, filtered, buffered>>
vars == <<caller, filter, down>>

Outcomes == {"error", "failure", "skip", "success", "xfail", "uxsuccess"}
Times == 1 .. MaxTime

\* A pair of disjoint sets, the arguments of a call of tags.
Changes == {change \in [new : SUBSET Tags, gone : SUBSET Tags] :
               change.new \cap change.gone = {}}
NoChange == [new |-> {}, gone |-> {}]

\* TagsMixin.tags.
Merge(scope, change) ==
    [new |-> (scope.new \cup change.new) \ change.gone,
     gone |-> (scope.gone \cup change.gone) \ change.new]

\* How a result with nested scopes of tags takes them.
Retagged(tags, change) == (tags \cup change.new) \ change.gone

Reports == [test : Names, outcome : Outcomes, tags : SUBSET Tags]
Report(t, outcome, tags) == [test |-> t, outcome |-> outcome, tags |-> tags]

ASSUME NoneAssumption == None \notin Reports

Call(op, t) == [op |-> op, test |-> t]
TimeCall(t) == [op |-> "time", at |-> t]
TagsCall(change) == [op |-> "tags", change |-> change]

Init ==
    /\ running = None /\ clock = 0 /\ base = {} /\ active = {}
    /\ given = None
    /\ globalTags = NoChange /\ testTags = None
    /\ filtered = FALSE /\ buffered = <<>>
    /\ down = [received |-> 0, sent |-> 0, pending |-> NoChange,
               running |-> None, clock |-> 0,
               base |-> {}, active |-> {}, given |-> None,
               passed |-> None, events |-> 0, times |-> 0]
-------------------------------------------------------------------------------
(* The sink, a result that keeps the time and the tags. *)

HearEvent(d, call) ==
    [d EXCEPT !.running = IF call.op = "startTest" THEN call.test
                          ELSE IF call.op = "stopTest" THEN None ELSE @,
              !.given = IF call.op = "stopTest" THEN None
                        ELSE IF call.op \in Outcomes THEN Report(call.test, call.op, d.active) ELSE @,
              !.active = IF call.op = "stopTest" THEN d.base ELSE @,
              !.passed = IF call.op = "stopTest" THEN d.given ELSE @,
              !.events = @ + 1, !.times = 0]

HearTags(d, change) ==
    [d EXCEPT !.active = Retagged(d.active, change),
              !.base = IF d.running = None THEN Retagged(d.active, change) ELSE @]

Hear(d, call) ==
    IF call.op = "time" THEN [d EXCEPT !.clock = call.at, !.times = @ + 1]
    ELSE HearEvent(d, call)

\* TagCollapsingDecorator._before_event: every call but tags flushes the
\* collapsed tags.  It has no scopes: no call of TagsMixin.startTest reaches it.
FlushTags(d) ==
    IF d.pending = NoChange THEN d
    ELSE [HearTags(d, d.pending) EXCEPT !.pending = NoChange]

HearWithoutFlush(d, call) ==   \* mutant: _before_event runs after a call
    IF call.op = "tags" THEN [d EXCEPT !.pending = Merge(@, call.change)]
    ELSE FlushTags(Hear(d, call))
CollapseTags(d, call) ==
    IF call.op = "tags" THEN [d EXCEPT !.pending = Merge(@, call.change)]
    ELSE Hear(FlushTags(d), call)

SendTime(d, t, received) ==
    [CollapseTags(d, TimeCall(t)) EXCEPT !.sent = t, !.received = received]

\* TimeCollapsingDecorator._before_event.
FlushFirstOnly(d) ==   \* mutant: the last time of a run of times is not sent
    [d EXCEPT !.received = 0]
FlushTime(d) ==
    IF d.received \in {0, d.sent} THEN [d EXCEPT !.received = 0]
    ELSE SendTime(d, d.received, 0)

CollapseNoTime(d, t) ==   \* mutant: times are not collapsed
    SendTime(d, t, t)
CollapseTime(d, t) ==
    IF d.received # 0 THEN [d EXCEPT !.received = t] ELSE SendTime(d, t, t)

\* A call on what _PredicateFilter decorates.
Deliver(d, call) ==
    IF call.op = "time" THEN CollapseTime(d, call.at)
    ELSE CollapseTags(IF call.op = "tags" THEN d ELSE FlushTime(d), call)

\* One call after the other.
Replay(d, calls) ==
    LET after[n \in 0 .. Len(calls)] ==
            IF n = 0 THEN d ELSE Deliver(after[n - 1], calls[n])
    IN  after[Len(calls)]

DeliverAll(calls) == down' = Replay([down EXCEPT !.passed = None, !.events = 0], calls)
-------------------------------------------------------------------------------
(* TestResultFilter and _PredicateFilter. *)

\* _failure_expected, and what addError, addFailure and addSuccess do with it.
FixUp(t, outcome) ==
    IF t \notin FixedUp THEN outcome
    ELSE IF outcome \in {"error", "failure"} THEN "xfail"
    ELSE IF outcome = "success" THEN "uxsuccess" ELSE outcome

ActiveForgetsGone == globalTags.new \cup testTags.new   \* mutant
\* _get_active_tags, in a test.
GetActiveTags == (globalTags.new \ testTags.gone) \cup testTags.new

\* The predicate: filter_ arguments and make_tag_filter.  addUnexpectedSuccess
\* does not ask it.
FilterPredicate(outcome) ==
    \/ outcome = "uxsuccess"
    \/ /\ outcome \notin Excluded
       /\ With \subseteq GetActiveTags
       /\ Without \cap GetActiveTags = {}

startTest(t) ==
    /\ running = None
    /\ running' = t
    /\ testTags' = NoChange
    /\ filtered' = FALSE
    /\ buffered' = Append(buffered, Call("startTest", t))
    /\ DeliverAll(<<>>)
    /\ UNCHANGED <<clock, base, active, given, globalTags>>

addOutcome(outcome) ==
    /\ running # None /\ given = None
    /\ given' = Report(running, FixUp(running, outcome), active)
    /\ IF FilterPredicate(FixUp(running, outcome))
       THEN buffered' = Append(buffered, Call(FixUp(running, outcome), running))
            /\ UNCHANGED filtered
       ELSE filtered' = TRUE /\ UNCHANGED buffered
    /\ DeliverAll(<<>>)
    /\ UNCHANGED <<running, clock, base, active, globalTags, testTags>>

stopTest ==
    /\ given # None
    /\ DeliverAll(IF filtered THEN <<>> ELSE Append(buffered, Call("stopTest", running)))
    /\ running' = None /\ given' = None /\ active' = base
    /\ testTags' = None /\ filtered' = FALSE /\ buffered' = <<>>
    /\ UNCHANGED <<clock, base, globalTags>>

tagsInTest(change) ==
    /\ running # None /\ Len(buffered) < MaxBuffered
    /\ active' = Retagged(active, change)
    /\ testTags' = Merge(testTags, change)
    /\ buffered' = Append(buffered, TagsCall(change))
    /\ DeliverAll(<<>>)
    /\ UNCHANGED <<running, clock, base, given, globalTags, filtered>>

tagsOutside(change) ==
    /\ running = None
    /\ active' = Retagged(active, change) /\ base' = active'
    /\ globalTags' = Merge(globalTags, change)
    /\ DeliverAll(<<TagsCall(change)>>)
    /\ UNCHANGED <<running, clock, given, testTags, filtered, buffered>>

\* time is not buffered: it overtakes the calls that are.
time(t) ==
    /\ clock' = t
    /\ DeliverAll(<<TimeCall(t)>>)
    /\ UNCHANGED <<running, base, active, given, filter>>

\* Nor is any of the calls that do not concern a test.
progress ==
    /\ DeliverAll(<<[op |-> "progress"]>>)
    /\ UNCHANGED <<caller, filter>>

Next ==
    \/ \E t \in Names : startTest(t)
    \/ \E outcome \in Outcomes : addOutcome(outcome)
    \/ stopTest
    \/ \E change \in Changes : tagsInTest(change) \/ tagsOutside(change)
    \/ \E t \in Times : time(t)
    \/ progress

Spec == Init /\ [][Next]_vars
-------------------------------------------------------------------------------
(* Properties. *)

\* What the sink hears of each test, through every buffer on the way, is what
\* FilteredRun says: the whole test under its own tags, or nothing.
Promise == INSTANCE FilteredRun WITH passed <- down.passed
ImplementsFilteredRun == Promise!Spec

\* TimeCollapsingDecorator: whatever the sink is told of, other than times and
\* tags, its clock then shows the time the caller's does, though of a sequence of
\* times it is told the first at once and the last only when something follows.
ClockIsCurrent ==
    /\ down.events > 0 => down.clock = clock
    /\ down.times <= 1

\* Nothing of the tags given outside tests is lost on the way, whether the
\* tests between them were passed on or not: what the sink has and what is
\* still collapsed make up what the caller gave.
GlobalTagsArrive == running = None => Retagged(down.active, down.pending) = base
===============================================================================
