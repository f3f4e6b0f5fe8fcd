------------------------------- MODULE FilterProofs -------------------------------
(***************************************************************************)
(* Theorems about ResultFilter, for every set of tags, tests and outcomes: *)
(* collapsing changes of tags loses nothing, the predicate sees the        *)
(* caller's tags, the sink's clock is right, tags given outside tests all  *)
(* arrive, and each test passes whole or not at all.                       *)
(*                                                                         *)
(* A buffered test is worked off call by call.  What a sequence of calls   *)
(* leaves behind is found by induction over the natural numbers, in the    *)
(* form the provers can use: a set of numbers stands for the formula.      *)
(***************************************************************************)
EXTENDS ResultFilter, Integers, WellFoundedInduction, TLAPS
-------------------------------------------------------------------------------
(* Induction. *)

LEMMA LeastOf ==
    ASSUME NEW S \in SUBSET Nat, S # {}
    PROVE  \E n \in S : \A m \in S : n <= m
<1>1. IsWellFoundedOn(OpToRel(<, Nat), Nat)
    BY NatLessThanWellFounded
<1>2. PICK n \in S : \A m \in S : <<m, n>> \notin OpToRel(<, Nat)
    BY <1>1, WFMin
<1>3. \A m \in S : ~(m < n)
    BY <1>2 DEF OpToRel
<1>4. S \subseteq Nat
    OBVIOUS
<1>5. \A m \in S : n <= m
    BY <1>3, <1>4
<1> QED
    BY <1>5

LEMMA Induct ==
    ASSUME NEW S \in SUBSET Nat, 0 \in S, \A n \in S : n + 1 \in S
    PROVE  S = Nat
<1> SUFFICES ASSUME Nat \ S # {} PROVE FALSE
    OBVIOUS
<1>1. PICK n \in Nat \ S : \A m \in Nat \ S : n <= m
    BY LeastOf
<1>2. n # 0 /\ n - 1 \in Nat
    BY <1>1
<1>3. n - 1 \in S
    BY <1>1, <1>2
<1> QED
    BY <1>1, <1>3

\* The values that Step leads to from first, one for each of the first elements
\* of s.
Runs(Step, first, s, last, after) ==
    /\ after[0] = first
    /\ \A n \in 1 .. last : after[n] = Step[<<after[n - 1], s[n]>>]
Steps(States, Step, first, s, after) ==
    after \in [0 .. Len(s) -> States] /\ Runs(Step, first, s, Len(s), after)

LEMMA StepsAreOne ==
    ASSUME NEW Step, NEW first, NEW s, NEW last \in Nat, NEW f, NEW g,
           Runs(Step, first, s, last, f), Runs(Step, first, s, last, g)
    PROVE  \A n \in 0 .. last : f[n] = g[n]
<1> DEFINE S == {n \in Nat : n <= last => f[n] = g[n]}
<1>1. 0 \in S
    BY DEF Runs
<1>2. ASSUME NEW n \in S
      PROVE  n + 1 \in S
    <2>1. n \in Nat /\ (n <= last => f[n] = g[n])
        OBVIOUS
    <2>2. ASSUME n + 1 <= last
          PROVE  f[n + 1] = g[n + 1]
        <3>1. n + 1 \in 1 .. last /\ (n + 1) - 1 = n /\ n <= last
            BY <2>1, <2>2
        <3>2. f[n + 1] = Step[<<f[(n + 1) - 1], s[n + 1]>>] /\ g[n + 1] = Step[<<g[(n + 1) - 1], s[n + 1]>>]
            BY <3>1 DEF Runs
        <3> QED
            BY <2>1, <3>1, <3>2
    <2> QED
        BY <2>1, <2>2
<1>3. S = Nat
    <2> HIDE DEF S
    <2>1. S \in SUBSET Nat
        BY DEF S
    <2> QED
        BY <1>1, <1>2, <2>1, Induct
<1> QED
    BY <1>3

LEMMA StepsExist ==
    ASSUME NEW A, NEW B, NEW Step \in [A \X B -> A], NEW first \in A, NEW s \in Seq(B)
    PROVE  \E f : Steps(A, Step, first, s, f)
<1> DEFINE Ok(f, n) == /\ f \in [0 .. n -> A] /\ f[0] = first
                       /\ \A i \in 1 .. n : f[i] = Step[<<f[i - 1], s[i]>>]
           S == {n \in Nat : n <= Len(s) => \E f \in [0 .. n -> A] : Ok(f, n)}
<1>1. 0 \in S
    <2>1. Ok([i \in 0 .. 0 |-> first], 0)
        OBVIOUS
    <2> QED
        BY <2>1
<1>2. ASSUME NEW n \in S
      PROVE  n + 1 \in S
    <2>1. n \in Nat /\ (n <= Len(s) => \E f \in [0 .. n -> A] : Ok(f, n))
        OBVIOUS
    <2>2. ASSUME n + 1 <= Len(s)
          PROVE  \E f \in [0 .. n + 1 -> A] : Ok(f, n + 1)
        <3>1. PICK f \in [0 .. n -> A] : Ok(f, n)
            BY <2>1, <2>2
        <3> DEFINE next == Step[<<f[n], s[n + 1]>>]
                   g == [i \in 0 .. n + 1 |-> IF i = n + 1 THEN next ELSE f[i]]
        <3>2. next \in A
            BY <2>1, <2>2, <3>1
        <3> HIDE DEF next
        <3>3. g \in [0 .. n + 1 -> A] /\ g[n + 1] = next /\ \A i \in 0 .. n : g[i] = f[i]
            BY <2>1, <3>1, <3>2
        <3> HIDE DEF g
        <3>4. g[0] = first
            BY <2>1, <3>1, <3>3
        <3>5. ASSUME NEW i \in 1 .. n + 1
              PROVE  g[i] = Step[<<g[i - 1], s[i]>>]
            <4>1. CASE i = n + 1
                <5>1. i - 1 = n /\ n \in 0 .. n
                    BY <2>1, <4>1
                <5> QED
                    BY <3>3, <4>1, <5>1 DEF next
            <4>2. CASE i # n + 1
                <5>1. i \in 1 .. n /\ i \in 0 .. n /\ i - 1 \in 0 .. n
                    BY <2>1, <4>2
                <5>2. f[i] = Step[<<f[i - 1], s[i]>>]
                    BY <3>1, <5>1
                <5> QED
                    BY <3>3, <5>1, <5>2
            <4> QED
                BY <4>1, <4>2
        <3> QED
            BY <3>3, <3>4, <3>5
    <2> QED
        BY <2>1, <2>2
<1>3. S = Nat
    <2> HIDE DEF S
    <2>1. S \in SUBSET Nat
        BY DEF S
    <2> QED
        BY <1>1, <1>2, <2>1, Induct
<1>4. Len(s) \in S
    <2>1. Len(s) \in Nat
        OBVIOUS
    <2> HIDE DEF S
    <2> QED
        BY <1>3, <2>1
<1>5. PICK f \in [0 .. Len(s) -> A] : Ok(f, Len(s))
    BY <1>4
<1>6. Steps(A, Step, first, s, f)
    BY <1>5 DEF Steps, Runs
<1> QED
    BY <1>6

Scopes == [new : SUBSET Tags, gone : SUBSET Tags]
-------------------------------------------------------------------------------
(* What _PredicateFilter keeps of the tags, and what the caller has given. *)

TagsAgree ==
    /\ base \in SUBSET Tags /\ active \in SUBSET Tags /\ globalTags \in Scopes
    /\ globalTags.new = base
    /\ running = None => active = base
    /\ running # None => /\ testTags \in Scopes
                         /\ active = (base \ testTags.gone) \cup testTags.new

LEMMA Initially == Init => TagsAgree
BY DEF Init, TagsAgree, Scopes, NoChange

LEMMA StepKeeps == TagsAgree /\ [Next]_vars => TagsAgree'
<1> SUFFICES ASSUME TagsAgree, [Next]_vars PROVE TagsAgree'
    OBVIOUS
<1>1. ASSUME NEW t \in Names, startTest(t)
      PROVE  TagsAgree'
    <2>1. t # None
        BY FilterAssumption
    <2>2. running = None /\ running' = t /\ testTags' = NoChange /\ UNCHANGED <<base, active, globalTags>>
        BY <1>1 DEF startTest
    <2>3. NoChange \in Scopes /\ NoChange.new = {} /\ NoChange.gone = {}
        BY DEF NoChange, Scopes
    <2> QED
        BY <2>1, <2>2, <2>3 DEF TagsAgree
<1>2. ASSUME NEW outcome \in Outcomes, addOutcome(outcome)
      PROVE  TagsAgree'
    BY <1>2 DEF addOutcome, TagsAgree
<1>3. CASE stopTest
    BY <1>3 DEF stopTest, TagsAgree
<1>4. ASSUME NEW change \in Changes, tagsInTest(change)
      PROVE  TagsAgree'
    <2>1. /\ running # None /\ active' = Retagged(active, change) /\ testTags' = Merge(testTags, change)
          /\ UNCHANGED <<running, base, globalTags>>
        BY <1>4 DEF tagsInTest
    <2>2. testTags \in Scopes /\ active = (base \ testTags.gone) \cup testTags.new
        BY <2>1 DEF TagsAgree
    <2>3. /\ change.new \in SUBSET Tags /\ change.gone \in SUBSET Tags
          /\ change.new \cap change.gone = {}
        BY DEF Changes
    <2>4. testTags' \in Scopes /\ active' \in SUBSET Tags
        BY <2>1, <2>2, <2>3 DEF Merge, Retagged, Scopes, TagsAgree
    <2>5. active' = (base \ testTags'.gone) \cup testTags'.new
        BY <2>1, <2>2, <2>3 DEF Merge, Retagged
    <2> QED
        BY <2>1, <2>4, <2>5 DEF TagsAgree
<1>5. ASSUME NEW change \in Changes, tagsOutside(change)
      PROVE  TagsAgree'
    <2>1. /\ running = None /\ active' = Retagged(active, change) /\ base' = active'
          /\ globalTags' = Merge(globalTags, change) /\ UNCHANGED running
        BY <1>5 DEF tagsOutside
    <2>2. active = base /\ globalTags \in Scopes /\ globalTags.new = base
        BY <2>1 DEF TagsAgree
    <2>3. change.new \in SUBSET Tags /\ change.gone \in SUBSET Tags
        BY DEF Changes
    <2>4. globalTags' \in Scopes /\ globalTags'.new = base'
        BY <2>1, <2>2, <2>3 DEF Merge, Retagged, Scopes
    <2> QED
        BY <2>1, <2>4 DEF TagsAgree, Scopes
<1>6. ASSUME NEW t \in Times, time(t)
      PROVE  TagsAgree'
    BY <1>6 DEF time, filter, TagsAgree
<1>7. CASE progress
    BY <1>7 DEF progress, caller, filter, TagsAgree
<1>8. CASE UNCHANGED vars
    BY <1>8 DEF vars, caller, filter, TagsAgree
<1> QED
    BY <1>1, <1>2, <1>3, <1>4, <1>5, <1>6, <1>7, <1>8 DEF Next

\* _PredicateFilter: whether a test passes is decided by the tags its caller has
\* given it, though the filter keeps them as two pairs of changes.
PredicateSeesItsTags == running # None => GetActiveTags = active

THEOREM ActiveTagsAreTheCallers == Spec => []PredicateSeesItsTags
<1>1. TagsAgree => PredicateSeesItsTags
    BY DEF TagsAgree, PredicateSeesItsTags, GetActiveTags
<1> QED
    BY Initially, StepKeeps, <1>1, PTL DEF Spec

\* TagCollapsingDecorator: to collapse one more change into those it holds back is
\* to make it after them, whatever the tags of whoever hears them.
THEOREM CollapsingIsExact ==
    ASSUME NEW tags \in SUBSET Tags, NEW held \in Scopes, NEW change \in Changes
    PROVE  Retagged(tags, Merge(held, change)) = Retagged(Retagged(tags, held), change)
<1>1. /\ held.new \in SUBSET Tags /\ held.gone \in SUBSET Tags
      /\ change.new \in SUBSET Tags /\ change.gone \in SUBSET Tags
      /\ change.new \cap change.gone = {}
    BY DEF Scopes, Changes
<1> QED
    BY <1>1 DEF Merge, Retagged
-------------------------------------------------------------------------------
(* What the collapsing decorators and the sink make of one call. *)

Downs ==
    [received : Nat, sent : Nat, pending : Scopes, running : Names \cup {None}, clock : Nat,
     base : SUBSET Tags, active : SUBSET Tags, given : Reports \cup {None},
     passed : Reports \cup {None}, events : Nat, times : Nat]

Calls ==
    [op : Outcomes \cup {"startTest", "stopTest"}, test : Names] \cup [op : {"progress"}]
    \cup [op : {"time"}, at : Nat] \cup [op : {"tags"}, change : Changes]

\* A step between calls: what is held back may be flushed.
Kept(d, e) ==
    /\ e \in Downs
    /\ e.running = d.running /\ e.given = d.given /\ e.passed = d.passed /\ e.events = d.events
    /\ Retagged(e.active, e.pending) = Retagged(d.active, d.pending)
    /\ d.running # None => e.base = d.base
    /\ d.running = None /\ d.base = d.active => e.base = e.active

\* The times that have arrived and those that are held back are the caller's.
OnTime(d, now) ==
    /\ d.clock = d.sent /\ d.times <= 1
    /\ d.received # 0 => d.received = now
    /\ d.received = 0 => d.sent = now /\ d.times = 0

LEMMA Settled == NoChange \in Scopes /\ \A tags \in SUBSET Tags : Retagged(tags, NoChange) = tags
BY DEF NoChange, Scopes, Retagged

LEMMA RetaggedType ==
    \A tags \in SUBSET Tags, held \in Scopes : Retagged(tags, held) \in SUBSET Tags
BY DEF Scopes, Retagged

LEMMA TagsFlushed ==
    ASSUME NEW d \in Downs
    PROVE  /\ Kept(d, FlushTags(d)) /\ FlushTags(d).pending = NoChange
           /\ FlushTags(d).active = Retagged(d.active, d.pending)
           /\ FlushTags(d).received = d.received /\ FlushTags(d).sent = d.sent
           /\ FlushTags(d).clock = d.clock /\ FlushTags(d).times = d.times
<1> DEFINE tags == Retagged(d.active, d.pending)
           base_ == IF d.running = None THEN tags ELSE d.base
           e == [d EXCEPT !.active = tags, !.base = base_]
           f == [e EXCEPT !.pending = NoChange]
<1>1. d.active \in SUBSET Tags /\ d.base \in SUBSET Tags /\ d.pending \in Scopes
    BY DEF Downs
<1>2. tags \in SUBSET Tags /\ base_ \in SUBSET Tags
    BY <1>1, RetaggedType
<1>3. CASE d.pending = NoChange
    BY <1>1, <1>3, Settled DEF FlushTags, Kept
<1>4. CASE d.pending # NoChange
    <2>1. FlushTags(d) = f
        BY <1>4 DEF FlushTags, HearTags
    <2> HIDE DEF tags
    <2>2. e \in Downs /\ e.active = tags /\ e.base = base_ /\ e.running = d.running
        BY <1>2 DEF Downs
    <2>3. /\ e.given = d.given /\ e.passed = d.passed /\ e.events = d.events
          /\ e.received = d.received /\ e.sent = d.sent /\ e.clock = d.clock /\ e.times = d.times
        BY DEF Downs
    <2> HIDE DEF e
    <2>4. f \in Downs /\ f.pending = NoChange
        BY <2>2, Settled DEF Downs
    <2>5. /\ f.active = e.active /\ f.base = e.base /\ f.running = e.running
          /\ f.given = e.given /\ f.passed = e.passed /\ f.events = e.events
          /\ f.received = e.received /\ f.sent = e.sent /\ f.clock = e.clock /\ f.times = e.times
        BY <2>2 DEF Downs
    <2> HIDE DEF f, base_
    <2>6. Retagged(f.active, f.pending) = tags
        BY <1>2, <2>2, <2>4, <2>5, Settled
    <2>7. Kept(d, f)
        BY <2>2, <2>3, <2>4, <2>5, <2>6 DEF Kept, tags, base_
    <2> QED
        BY <2>1, <2>2, <2>3, <2>4, <2>5, <2>7 DEF tags
<1> QED
    BY <1>3, <1>4

LEMMA TimeForwarded ==
    ASSUME NEW d \in Downs, NEW t \in Nat
    PROVE  LET e == CollapseTags(d, TimeCall(t))
           IN  /\ Kept(d, e) /\ e.received = d.received /\ e.sent = d.sent
               /\ e.clock = t /\ e.times = d.times + 1
<1> DEFINE f == FlushTags(d)
           times == f.times + 1
           e == [f EXCEPT !.clock = t, !.times = times]
<1>1. CollapseTags(d, TimeCall(t)) = e
    BY DEF CollapseTags, TimeCall, Hear
<1>2. /\ Kept(d, f) /\ f \in Downs /\ f.received = d.received /\ f.sent = d.sent
      /\ f.times = d.times /\ times = d.times + 1 /\ times \in Nat
    BY TagsFlushed DEF Kept, Downs
<1> HIDE DEF f, times
<1>3. e \in Downs /\ e.clock = t /\ e.times = times
    BY <1>2 DEF Downs
<1>4. /\ e.running = f.running /\ e.given = f.given /\ e.passed = f.passed /\ e.events = f.events
      /\ e.active = f.active /\ e.pending = f.pending /\ e.base = f.base
      /\ e.received = f.received /\ e.sent = f.sent
    BY <1>2 DEF Downs
<1> HIDE DEF e
<1>5. Kept(d, e)
    BY <1>2, <1>3, <1>4 DEF Kept
<1> QED
    BY <1>1, <1>2, <1>3, <1>4, <1>5

LEMMA TimeSent ==
    ASSUME NEW d \in Downs, NEW t \in Nat, NEW r \in Nat
    PROVE  LET e == SendTime(d, t, r)
           IN  /\ Kept(d, e) /\ e.received = r /\ e.sent = t
               /\ e.clock = t /\ e.times = d.times + 1
<1> DEFINE f == CollapseTags(d, TimeCall(t))
           e == SendTime(d, t, r)
<1>1. Kept(d, f) /\ f \in Downs /\ f.clock = t /\ f.times = d.times + 1
    BY TimeForwarded DEF Kept
<1>0. e = [f EXCEPT !.sent = t, !.received = r]
    BY DEF SendTime
<1> HIDE DEF e, f
<1>2. e \in Downs /\ e.sent = t /\ e.received = r /\ e.clock = f.clock /\ e.times = f.times
    BY <1>0, <1>1 DEF Downs
<1>3. /\ e.running = f.running /\ e.given = f.given /\ e.passed = f.passed /\ e.events = f.events
      /\ e.active = f.active /\ e.pending = f.pending /\ e.base = f.base
    BY <1>0, <1>1 DEF Downs
<1>4. Kept(d, e)
    BY <1>1, <1>2, <1>3 DEF Kept
<1> QED
    BY <1>1, <1>2, <1>4 DEF e

LEMMA TimeFlushed ==
    ASSUME NEW d \in Downs
    PROVE  /\ Kept(d, FlushTime(d)) /\ FlushTime(d).received = 0
           /\ \A now \in Nat : OnTime(d, now) =>
                 FlushTime(d).sent = now /\ FlushTime(d).clock = now
<1>1. d.received \in Nat /\ d.sent \in Nat /\ 0 \in Nat
    BY DEF Downs
<1>2. CASE d.received \in {0, d.sent}
    <2> DEFINE e == [d EXCEPT !.received = 0]
    <2>1. FlushTime(d) = e
        BY <1>2 DEF FlushTime
    <2>2. /\ e \in Downs /\ e.received = 0 /\ e.sent = d.sent /\ e.clock = d.clock
          /\ e.running = d.running /\ e.given = d.given /\ e.passed = d.passed /\ e.events = d.events
          /\ e.active = d.active /\ e.pending = d.pending /\ e.base = d.base
        BY DEF Downs
    <2> HIDE DEF e
    <2> QED
        BY <1>2, <2>1, <2>2 DEF Kept, OnTime
<1>3. CASE d.received \notin {0, d.sent}
    <2> DEFINE e == SendTime(d, d.received, 0)
    <2>1. FlushTime(d) = e
        BY <1>3 DEF FlushTime
    <2>2. Kept(d, e) /\ e.received = 0 /\ e.sent = d.received /\ e.clock = d.received
        BY <1>1, TimeSent
    <2> HIDE DEF e
    <2> QED
        BY <2>1, <1>3, <2>2 DEF OnTime
<1> QED
    BY <1>2, <1>3

LEMMA TimeCollapsed ==
    ASSUME NEW d \in Downs, NEW t \in Nat \ {0}
    PROVE  /\ Kept(d, CollapseTime(d, t))
           /\ \A now \in Nat : OnTime(d, now) => OnTime(CollapseTime(d, t), t)
<1>1. CASE d.received # 0
    <2> DEFINE e == [d EXCEPT !.received = t]
    <2>1. CollapseTime(d, t) = e
        BY <1>1 DEF CollapseTime
    <2>2. /\ e \in Downs /\ e.received = t /\ e.sent = d.sent /\ e.clock = d.clock
          /\ e.running = d.running /\ e.given = d.given /\ e.passed = d.passed /\ e.events = d.events
          /\ e.active = d.active /\ e.pending = d.pending /\ e.base = d.base /\ e.times = d.times
        BY DEF Downs
    <2> HIDE DEF e
    <2> QED
        BY <1>1, <2>1, <2>2 DEF Kept, OnTime
<1>2. CASE d.received = 0
    <2> DEFINE e == SendTime(d, t, t)
    <2>1. CollapseTime(d, t) = e
        BY <1>2 DEF CollapseTime
    <2>2. Kept(d, e) /\ e.received = t /\ e.sent = t /\ e.clock = t /\ e.times = d.times + 1
        BY TimeSent
    <2> HIDE DEF e
    <2> QED
        BY <2>1, <1>2, <2>2 DEF OnTime
<1> QED
    BY <1>1, <1>2

EventCalls == [op : Outcomes \cup {"startTest", "stopTest"}, test : Names] \cup [op : {"progress"}]

LEMMA EventHeard ==
    ASSUME NEW f \in Downs, NEW call \in EventCalls
    PROVE  LET e == HearEvent(f, call)
           IN  /\ e \in Downs /\ e.times = 0 /\ e.events = f.events + 1
               /\ e.received = f.received /\ e.sent = f.sent /\ e.clock = f.clock
               /\ e.pending = f.pending /\ e.base = f.base
               /\ call.op = "startTest" => e.running = call.test
               /\ call.op = "stopTest" => /\ e.running = None /\ e.given = None
                                          /\ e.active = f.base /\ e.passed = f.given
               /\ call.op \in Outcomes => e.given = Report(call.test, call.op, f.active)
               /\ call.op \notin {"startTest", "stopTest"} => e.running = f.running
               /\ call.op # "stopTest" => e.active = f.active /\ e.passed = f.passed
               /\ call.op \notin Outcomes \cup {"stopTest"} => e.given = f.given
<1> DEFINE running_ == IF call.op = "startTest" THEN call.test
                       ELSE IF call.op = "stopTest" THEN None ELSE f.running
           given_ == IF call.op = "stopTest" THEN None
                     ELSE IF call.op \in Outcomes THEN Report(call.test, call.op, f.active) ELSE f.given
           active_ == IF call.op = "stopTest" THEN f.base ELSE f.active
           passed_ == IF call.op = "stopTest" THEN f.given ELSE f.passed
           events_ == f.events + 1
           e == [f EXCEPT !.running = running_, !.given = given_, !.active = active_,
                          !.passed = passed_, !.events = events_, !.times = 0]
<1>1. HearEvent(f, call) = e
    BY DEF HearEvent
<1>2. /\ f.running \in Names \cup {None} /\ f.given \in Reports \cup {None}
      /\ f.active \in SUBSET Tags /\ f.base \in SUBSET Tags
      /\ f.passed \in Reports \cup {None} /\ f.events \in Nat
    BY DEF Downs
<1>3. call.op # "progress" => call.test \in Names
    BY DEF EventCalls
<1>4. call.op \in {"startTest", "stopTest", "progress"} => call.op \notin Outcomes
    BY DEF Outcomes
<1>5. call.op \in Outcomes \cup {"startTest", "stopTest", "progress"}
    BY DEF EventCalls
<1>6. running_ \in Names \cup {None}
    BY <1>2, <1>3
<1>7. given_ \in Reports \cup {None}
    <2>1. call.op \in Outcomes => call.test \in Names
        BY <1>3, <1>4
    <2>2. call.op \in Outcomes => Report(call.test, call.op, f.active) \in Reports
        BY <1>2, <2>1 DEF Report, Reports
    <2> QED
        BY <1>2, <2>2
<1>8. active_ \in SUBSET Tags /\ passed_ \in Reports \cup {None} /\ events_ \in Nat /\ 0 \in Nat
    BY <1>2
<1>9. /\ call.op = "startTest" => running_ = call.test
      /\ call.op = "stopTest" => /\ running_ = None /\ given_ = None
                                 /\ active_ = f.base /\ passed_ = f.given
      /\ call.op \in Outcomes => given_ = Report(call.test, call.op, f.active)
      /\ call.op \notin {"startTest", "stopTest"} => running_ = f.running
      /\ call.op # "stopTest" => active_ = f.active /\ passed_ = f.passed
      /\ call.op \notin Outcomes \cup {"stopTest"} => given_ = f.given
    BY <1>4
<1> HIDE DEF running_, given_, active_, passed_, events_
<1>10. e \in Downs
    BY <1>6, <1>7, <1>8 DEF Downs
<1>11. /\ e.times = 0 /\ e.events = events_ /\ e.running = running_ /\ e.given = given_
       /\ e.active = active_ /\ e.passed = passed_
    BY DEF Downs
<1>12. /\ e.received = f.received /\ e.sent = f.sent /\ e.clock = f.clock
       /\ e.pending = f.pending /\ e.base = f.base
    BY DEF Downs
<1> HIDE DEF e
<1> QED
    BY <1>1, <1>9, <1>10, <1>11, <1>12 DEF events_

\* All that was held back goes before a call that is neither of a time nor of tags.
LEMMA EventDelivered ==
    ASSUME NEW d \in Downs, NEW call \in EventCalls
    PROVE  LET f == FlushTags(FlushTime(d))
           IN  /\ Deliver(d, call) = HearEvent(f, call)
               /\ Kept(d, f) /\ f.pending = NoChange /\ f.received = 0
               /\ f.active = Retagged(d.active, d.pending)
               /\ \A now \in Nat : OnTime(d, now) => f.sent = now /\ f.clock = now
<1> DEFINE e == FlushTime(d)
           f == FlushTags(e)
<1>1. call.op \notin {"time", "tags"}
    BY DEF EventCalls, Outcomes
<1>2. Deliver(d, call) = HearEvent(f, call)
    BY <1>1 DEF Deliver, CollapseTags, Hear
<1>3. Kept(d, e) /\ e \in Downs /\ e.received = 0
    BY TimeFlushed DEF Kept
<1>4. /\ Kept(e, f) /\ f.pending = NoChange /\ f.active = Retagged(e.active, e.pending)
      /\ f.received = e.received /\ f.sent = e.sent /\ f.clock = e.clock
    BY <1>3, TagsFlushed
<1>5. \A now \in Nat : OnTime(d, now) => e.sent = now /\ e.clock = now
    BY TimeFlushed
<1> HIDE DEF e, f
<1>6. Kept(d, f)
    BY <1>3, <1>4 DEF Kept
<1> QED
    BY <1>2, <1>3, <1>4, <1>5, <1>6 DEF Kept, f, e
-------------------------------------------------------------------------------
(* The states between which a test is passed on. *)

Resting(d, tags, now) ==
    /\ d \in Downs /\ d.running = None /\ d.given = None /\ d.base = d.active
    /\ Retagged(d.active, d.pending) = tags /\ OnTime(d, now)

Playing(d, test, outside, tags, report, now) ==
    /\ d \in Downs /\ d.running = test /\ d.given = report /\ d.base = outside
    /\ Retagged(d.active, d.pending) = tags /\ OnTime(d, now)
    /\ d.clock = now /\ d.passed = None /\ d.events > 0

LEMMA StartPlayed ==
    ASSUME NEW d, NEW tags, NEW now \in Nat, Resting(d, tags, now), d.passed = None,
           NEW t \in Names
    PROVE  Playing(Deliver(d, Call("startTest", t)), t, tags, tags, None, now)
<1> DEFINE call == Call("startTest", t)
           f == FlushTags(FlushTime(d))
           e == HearEvent(f, call)
<1>1. d \in Downs /\ OnTime(d, now)
    BY DEF Resting
<1>2. call \in EventCalls /\ call.op = "startTest" /\ call.test = t
    BY DEF EventCalls, Call
<1> HIDE DEF call
<1>3. /\ Deliver(d, call) = e
      /\ Kept(d, f) /\ f.pending = NoChange /\ f.received = 0
      /\ f.active = tags /\ f.sent = now /\ f.clock = now
    BY <1>1, <1>2, EventDelivered DEF Resting
<1> HIDE DEF f
<1>4. f \in Downs /\ f.base = tags /\ f.given = None /\ f.passed = None /\ f.events \in Nat
    BY <1>3 DEF Kept, Resting, Downs
<1>5. "startTest" \notin Outcomes \cup {"stopTest"}
    BY DEF Outcomes
<1>6. /\ e \in Downs /\ e.times = 0 /\ e.events = f.events + 1
      /\ e.received = f.received /\ e.sent = f.sent /\ e.clock = f.clock
      /\ e.pending = f.pending /\ e.base = f.base
      /\ e.running = t /\ e.active = f.active /\ e.passed = f.passed /\ e.given = f.given
    BY <1>2, <1>4, <1>5, EventHeard
<1> HIDE DEF e
<1>7. Retagged(e.active, e.pending) = tags
    BY <1>3, <1>4, <1>6, Settled DEF Downs
<1>8. OnTime(e, now) /\ e.events > 0
    BY <1>3, <1>4, <1>6 DEF OnTime
<1> QED
    BY <1>3, <1>4, <1>6, <1>7, <1>8 DEF Playing, call

LEMMA OutcomePlayed ==
    ASSUME NEW d, NEW t \in Names, NEW outside, NEW tags, NEW report, NEW now \in Nat,
           Playing(d, t, outside, tags, report, now), NEW outcome \in Outcomes
    PROVE  Playing(Deliver(d, Call(outcome, t)), t, outside, tags,
                   Report(t, outcome, tags), now)
<1> DEFINE call == Call(outcome, t)
           f == FlushTags(FlushTime(d))
           e == HearEvent(f, call)
<1>1. d \in Downs /\ OnTime(d, now)
    BY DEF Playing
<1>2. call \in EventCalls /\ call.op = outcome /\ call.test = t
    BY DEF EventCalls, Call
<1> HIDE DEF call
<1>3. /\ Deliver(d, call) = e
      /\ Kept(d, f) /\ f.pending = NoChange /\ f.received = 0
      /\ f.active = tags /\ f.sent = now /\ f.clock = now
    BY <1>1, <1>2, EventDelivered DEF Playing
<1> HIDE DEF f
<1>4. f \in Downs /\ f.base = outside /\ f.running = t /\ f.passed = None /\ f.events \in Nat
    BY <1>3, FilterAssumption DEF Kept, Playing, Downs
<1>5. outcome \notin {"startTest", "stopTest"}
    BY DEF Outcomes
<1>6. /\ e \in Downs /\ e.times = 0 /\ e.events = f.events + 1
      /\ e.received = f.received /\ e.sent = f.sent /\ e.clock = f.clock
      /\ e.pending = f.pending /\ e.base = f.base
      /\ e.running = f.running /\ e.active = f.active /\ e.passed = f.passed
      /\ e.given = Report(t, outcome, f.active)
    BY <1>2, <1>4, <1>5, EventHeard
<1> HIDE DEF e
<1>7. Retagged(e.active, e.pending) = tags
    BY <1>3, <1>4, <1>6, Settled DEF Downs
<1>8. OnTime(e, now) /\ e.events > 0
    BY <1>3, <1>4, <1>6 DEF OnTime
<1> QED
    BY <1>3, <1>4, <1>6, <1>7, <1>8 DEF Playing, call

\* A change of tags is collapsed into those held back.
LEMMA TagsHeard ==
    ASSUME NEW d \in Downs, NEW change \in Changes
    PROVE  LET e == Deliver(d, TagsCall(change))
           IN  /\ e \in Downs /\ e.pending = Merge(d.pending, change) /\ e.active = d.active
               /\ Retagged(e.active, e.pending) = Retagged(Retagged(d.active, d.pending), change)
               /\ e.running = d.running /\ e.given = d.given /\ e.passed = d.passed
               /\ e.events = d.events /\ e.base = d.base /\ e.received = d.received
               /\ e.sent = d.sent /\ e.clock = d.clock /\ e.times = d.times
<1> DEFINE held == Merge(d.pending, change)
           e == [d EXCEPT !.pending = held]
<1>1. Deliver(d, TagsCall(change)) = e
    BY DEF Deliver, CollapseTags, TagsCall
<1>2. d.active \in SUBSET Tags /\ d.pending \in Scopes
    BY DEF Downs
<1>3. held \in Scopes
    BY <1>2 DEF Scopes, Changes, Merge
<1>4. Retagged(d.active, held) = Retagged(Retagged(d.active, d.pending), change)
    BY <1>2, CollapsingIsExact
<1> HIDE DEF held
<1>5. /\ e \in Downs /\ e.pending = held /\ e.active = d.active
      /\ e.running = d.running /\ e.given = d.given /\ e.passed = d.passed
      /\ e.events = d.events /\ e.base = d.base /\ e.received = d.received
      /\ e.sent = d.sent /\ e.clock = d.clock /\ e.times = d.times
    BY <1>3 DEF Downs
<1> HIDE DEF e
<1> QED
    BY <1>1, <1>4, <1>5 DEF held

LEMMA TagsPlayed ==
    ASSUME NEW d, NEW t, NEW outside, NEW tags, NEW report, NEW now \in Nat,
           Playing(d, t, outside, tags, report, now), NEW change \in Changes
    PROVE  Playing(Deliver(d, TagsCall(change)), t, outside, Retagged(tags, change), report, now)
BY TagsHeard DEF Playing, OnTime

LEMMA TagsRest ==
    ASSUME NEW d, NEW tags, NEW now \in Nat, Resting(d, tags, now), NEW change \in Changes
    PROVE  LET e == Deliver(d, TagsCall(change))
           IN  /\ Resting(e, Retagged(tags, change), now)
               /\ e.passed = d.passed /\ e.events = d.events
BY TagsHeard DEF Resting, OnTime

LEMMA StopPlayed ==
    ASSUME NEW d, NEW t \in Names, NEW outside, NEW tags, NEW report, NEW now \in Nat,
           Playing(d, t, outside, tags, report, now)
    PROVE  LET e == Deliver(d, Call("stopTest", t))
           IN  Resting(e, outside, now) /\ e.passed = report /\ e.clock = now
<1> DEFINE call == Call("stopTest", t)
           f == FlushTags(FlushTime(d))
           e == HearEvent(f, call)
<1>1. d \in Downs /\ OnTime(d, now)
    BY DEF Playing
<1>2. call \in EventCalls /\ call.op = "stopTest" /\ call.test = t
    BY DEF EventCalls, Call
<1> HIDE DEF call
<1>3. /\ Deliver(d, call) = e
      /\ Kept(d, f) /\ f.pending = NoChange /\ f.received = 0
      /\ f.sent = now /\ f.clock = now
    BY <1>1, <1>2, EventDelivered
<1> HIDE DEF f
<1>4. f \in Downs /\ f.base = outside /\ f.given = report
    BY <1>3, FilterAssumption DEF Kept, Playing
<1>5. /\ e \in Downs /\ e.times = 0
      /\ e.received = f.received /\ e.sent = f.sent /\ e.clock = f.clock
      /\ e.pending = f.pending /\ e.base = f.base
      /\ e.running = None /\ e.given = None /\ e.active = f.base /\ e.passed = f.given
    BY <1>2, <1>4, EventHeard
<1> HIDE DEF e
<1>6. Retagged(e.active, e.pending) = outside
    BY <1>3, <1>4, <1>5, Settled DEF Downs
<1>7. OnTime(e, now)
    BY <1>3, <1>5 DEF OnTime
<1> QED
    BY <1>3, <1>4, <1>5, <1>6, <1>7 DEF Resting, call

LEMMA ProgressRests ==
    ASSUME NEW d, NEW tags, NEW now \in Nat, Resting(d, tags, now)
    PROVE  LET e == Deliver(d, [op |-> "progress"])
           IN  Resting(e, tags, now) /\ e.passed = d.passed /\ e.clock = now
<1> DEFINE call == [op |-> "progress"]
           f == FlushTags(FlushTime(d))
           e == HearEvent(f, call)
<1>1. d \in Downs /\ OnTime(d, now)
    BY DEF Resting
<1>2. call \in EventCalls /\ call.op = "progress"
    BY DEF EventCalls
<1> HIDE DEF call
<1>3. /\ Deliver(d, call) = e
      /\ Kept(d, f) /\ f.pending = NoChange /\ f.received = 0
      /\ f.active = tags /\ f.sent = now /\ f.clock = now
    BY <1>1, <1>2, EventDelivered DEF Resting
<1> HIDE DEF f
<1>4. f \in Downs /\ f.base = f.active /\ f.given = None /\ f.running = None /\ f.passed = d.passed
    BY <1>3 DEF Kept, Resting
<1>5. "progress" \notin Outcomes \cup {"startTest", "stopTest"}
    BY DEF Outcomes
<1>6. /\ e \in Downs /\ e.times = 0
      /\ e.received = f.received /\ e.sent = f.sent /\ e.clock = f.clock
      /\ e.pending = f.pending /\ e.base = f.base
      /\ e.running = f.running /\ e.active = f.active /\ e.passed = f.passed /\ e.given = f.given
    BY <1>2, <1>4, <1>5, EventHeard
<1> HIDE DEF e
<1>7. Retagged(e.active, e.pending) = tags
    BY <1>3, <1>4, <1>6, Settled DEF Downs
<1>8. OnTime(e, now)
    BY <1>3, <1>6 DEF OnTime
<1> QED
    BY <1>3, <1>4, <1>6, <1>7, <1>8 DEF Resting, call

LEMMA TimeRests ==
    ASSUME NEW d, NEW tags, NEW now \in Nat, Resting(d, tags, now), NEW t \in Times
    PROVE  LET e == Deliver(d, TimeCall(t))
           IN  Resting(e, tags, t) /\ e.passed = d.passed /\ e.events = d.events
<1> DEFINE e == CollapseTime(d, t)
<1>1. Deliver(d, TimeCall(t)) = e
    BY DEF Deliver, TimeCall
<1>2. t \in Nat \ {0} /\ d \in Downs /\ OnTime(d, now)
    BY FilterAssumption DEF Times, Resting
<1>3. Kept(d, e) /\ OnTime(e, t)
    BY <1>2, TimeCollapsed
<1> HIDE DEF e
<1> QED
    BY <1>1, <1>3 DEF Resting, Kept

-------------------------------------------------------------------------------
(* What is buffered is delivered call by call. *)

LEMMA DeliverType == \A d \in Downs, call \in Calls : Deliver(d, call) \in Downs
<1> SUFFICES ASSUME NEW d \in Downs, NEW call \in Calls PROVE Deliver(d, call) \in Downs
    OBVIOUS
<1>1. CASE call \in EventCalls
    <2>1. FlushTags(FlushTime(d)) \in Downs
        BY <1>1, EventDelivered DEF Kept
    <2> QED
        BY <1>1, <2>1, EventDelivered, EventHeard
<1>2. CASE call \in [op : {"time"}, at : Nat]
    <2>1. call.op = "time" /\ call.at \in Nat
        BY <1>2
    <2>2. Deliver(d, call) = CollapseTime(d, call.at)
        BY <2>1 DEF Deliver
    <2>3. CASE d.received # 0
        BY <2>1, <2>2, <2>3 DEF CollapseTime, Downs
    <2>4. CASE d.received = 0
        BY <2>1, <2>2, <2>4, TimeSent DEF CollapseTime, Kept
    <2> QED
        BY <2>3, <2>4
<1>3. CASE call \in [op : {"tags"}, change : Changes]
    <2>1. call.op = "tags" /\ call.change \in Changes
        BY <1>3
    <2>2. Deliver(d, call) = Deliver(d, TagsCall(call.change))
        BY <2>1 DEF Deliver, CollapseTags, TagsCall
    <2> QED
        BY <2>1, <2>2, TagsHeard
<1> QED
    BY <1>1, <1>2, <1>3 DEF Calls, EventCalls

Delivering == [x \in Downs \X Calls |-> Deliver(x[1], x[2])]

LEMMA DeliveringIs ==
    /\ Delivering \in [Downs \X Calls -> Downs]
    /\ \A d \in Downs, call \in Calls : Delivering[<<d, call>>] = Deliver(d, call)
BY DeliverType DEF Delivering

LEMMA ReplayIs ==
    ASSUME NEW d \in Downs, NEW calls \in Seq(Calls), NEW after,
           Steps(Downs, Delivering, d, calls, after)
    PROVE  Replay(d, calls) = after[Len(calls)]
<1> DEFINE Body(g) == [n \in 0 .. Len(calls) |-> IF n = 0 THEN d ELSE Deliver(g[n - 1], calls[n])]
           f == CHOOSE g : g = Body(g)
           S == {n \in Nat : n <= Len(calls) => f[n] = after[n]}
<1>1. Replay(d, calls) = f[Len(calls)]
    BY DEF Replay
<1>2. /\ after \in [0 .. Len(calls) -> Downs] /\ after[0] = d
      /\ \A n \in 1 .. Len(calls) : after[n] = Deliver(after[n - 1], calls[n])
    <2>1. /\ after \in [0 .. Len(calls) -> Downs] /\ after[0] = d
          /\ \A n \in 1 .. Len(calls) : after[n] = Delivering[<<after[n - 1], calls[n]>>]
        BY DEF Steps, Runs
    <2>2. \A n \in 1 .. Len(calls) : after[n - 1] \in Downs /\ calls[n] \in Calls
        BY <2>1
    <2> QED
        BY <2>1, <2>2, DeliveringIs
<1>3. after = Body(after)
    <2> DEFINE b == Body(after)
    <2>1. b = [n \in 0 .. Len(calls) |-> b[n]] /\ after = [n \in 0 .. Len(calls) |-> after[n]]
        BY <1>2
    <2>2. \A n \in 0 .. Len(calls) : b[n] = after[n]
        BY <1>2
    <2> HIDE DEF b
    <2> QED
        BY <2>1, <2>2 DEF b
<1>4. f = Body(f)
    <2> HIDE DEF Body
    <2> QED
        BY <1>3
<1>5. f[0] = d /\ \A n \in 1 .. Len(calls) : f[n] = Deliver(f[n - 1], calls[n])
    <2> HIDE DEF f
    <2>1. \A n \in 0 .. Len(calls) : f[n] = IF n = 0 THEN d ELSE Deliver(f[n - 1], calls[n])
        BY <1>4
    <2> QED
        BY <2>1
<1> HIDE DEF f, Body
<1>6. 0 \in S
    BY <1>2, <1>5
<1>7. ASSUME NEW n \in S
      PROVE  n + 1 \in S
    <2>1. ASSUME n + 1 <= Len(calls)
          PROVE  f[n + 1] = after[n + 1]
        <3>1. n + 1 \in 1 .. Len(calls) /\ (n + 1) - 1 = n /\ f[n] = after[n]
            BY <2>1
        <3>2. /\ f[n + 1] = Deliver(f[(n + 1) - 1], calls[n + 1])
              /\ after[n + 1] = Deliver(after[(n + 1) - 1], calls[n + 1])
            BY <1>2, <1>5, <3>1
        <3> QED
            BY <3>1, <3>2
    <2> QED
        BY <2>1
<1>8. S = Nat
    <2>1. S \in SUBSET Nat
        OBVIOUS
    <2> HIDE DEF S
    <2> QED
        BY <1>6, <1>7, <2>1, Induct
<1>9. f[Len(calls)] = after[Len(calls)]
    <2>1. Len(calls) \in Nat
        OBVIOUS
    <2> QED
        BY <1>8, <2>1
<1> QED
    BY <1>1, <1>9

LEMMA ReplayAppends ==
    ASSUME NEW d \in Downs, NEW calls \in Seq(Calls), NEW call \in Calls
    PROVE  /\ Replay(d, calls) \in Downs
           /\ Replay(d, Append(calls, call)) = Deliver(Replay(d, calls), call)
<1> DEFINE more == Append(calls, call)
           n == Len(calls)
<1>1. /\ more \in Seq(Calls) /\ Len(more) = n + 1 /\ n \in Nat /\ more[n + 1] = call
      /\ \A i \in 1 .. n : more[i] = calls[i]
    OBVIOUS
<1>2. PICK f : Steps(Downs, Delivering, d, calls, f)
    BY DeliveringIs, StepsExist
<1>3. PICK g : Steps(Downs, Delivering, d, more, g)
    BY <1>1, DeliveringIs, StepsExist
<1>4. Replay(d, calls) = f[n] /\ Replay(d, more) = g[n + 1]
    BY <1>1, <1>2, <1>3, ReplayIs
<1> HIDE DEF more, n
<1>5. /\ f[0] = d /\ g[0] = d
      /\ \A i \in 1 .. n : f[i] = Delivering[<<f[i - 1], calls[i]>>]
      /\ \A i \in 1 .. n + 1 : g[i] = Delivering[<<g[i - 1], more[i]>>]
      /\ f \in [0 .. n -> Downs]
    BY <1>1, <1>2, <1>3 DEF Steps, Runs, n
<1>6. \A i \in 1 .. n : g[i] = Delivering[<<g[i - 1], calls[i]>>]
    BY <1>1, <1>5
<1>8. \A i \in 0 .. n : f[i] = g[i]
    <2>1. Runs(Delivering, d, calls, n, f) /\ Runs(Delivering, d, calls, n, g)
        BY <1>5, <1>6 DEF Runs
    <2> QED
        BY <1>1, <2>1, StepsAreOne
<1>9. f[n] \in Downs /\ g[n] = f[n]
    BY <1>1, <1>5, <1>8
<1>10. g[n + 1] = Delivering[<<g[n], call>>]
    <2>1. n + 1 \in 1 .. n + 1 /\ (n + 1) - 1 = n
        BY <1>1
    <2> QED
        BY <1>1, <1>5, <2>1
<1> QED
    BY <1>4, <1>9, <1>10, DeliveringIs DEF more

LEMMA ReplayOfOne ==
    ASSUME NEW d \in Downs, NEW call \in Calls
    PROVE  Replay(d, <<>>) = d /\ Replay(d, <<call>>) = Deliver(d, call)
<1>1. <<>> \in Seq(Calls) /\ Append(<<>>, call) = <<call>> /\ Len(<<>>) = 0
    OBVIOUS
<1>2. PICK f : Steps(Downs, Delivering, d, <<>>, f)
    BY <1>1, DeliveringIs, StepsExist
<1>3. Replay(d, <<>>) = f[0] /\ f[0] = d
    BY <1>1, <1>2, ReplayIs DEF Steps, Runs
<1> QED
    BY <1>1, <1>3, ReplayAppends

-------------------------------------------------------------------------------
(* The filter. *)

\* Whoever hears the buffered calls of the running test in a state of rest is then
\* where the caller is, and has heard nothing of it before.
Buffering ==
    \A now \in Nat, d \in Downs :
        Resting(d, base, now) /\ d.passed = None =>
            Playing(Replay(d, buffered), running, base, active, given, now)

Filtering ==
    /\ running \in Names \cup {None} /\ clock \in Nat /\ buffered \in Seq(Calls)
    /\ Resting(down, base, clock)
    /\ down.events > 0 => down.clock = clock
    /\ running = None => given = None /\ buffered = <<>>
    /\ given = None => filtered = FALSE
    /\ given # None => (filtered <=> ~Promise!Passes(given))
    /\ running # None /\ ~filtered => Buffering

Fresh == [down EXCEPT !.passed = None, !.events = 0]

LEMMA FreshRests ==
    ASSUME Filtering
    PROVE  /\ Fresh \in Downs /\ Resting(Fresh, base, clock) /\ Fresh.passed = None
           /\ Fresh.events = 0
<1>1. down \in Downs /\ Resting(down, base, clock)
    BY DEF Filtering, Resting
<1>2. /\ Fresh \in Downs /\ Fresh.passed = None /\ Fresh.events = 0
      /\ Fresh.received = down.received /\ Fresh.sent = down.sent /\ Fresh.clock = down.clock
      /\ Fresh.pending = down.pending /\ Fresh.base = down.base /\ Fresh.active = down.active
      /\ Fresh.running = down.running /\ Fresh.given = down.given /\ Fresh.times = down.times
    BY <1>1 DEF Fresh, Downs
<1> QED
    BY <1>1, <1>2 DEF Resting, OnTime

LEMMA NothingDelivered ==
    ASSUME Filtering, DeliverAll(<<>>)
    PROVE  /\ Resting(down', base, clock) /\ down'.passed = None /\ down'.events = 0
<1>1. [op |-> "progress"] \in Calls
    BY DEF Calls
<1>2. down' = Fresh
    BY <1>1, FreshRests, ReplayOfOne DEF DeliverAll, Fresh
<1> QED
    BY <1>2, FreshRests

LEMMA CallsAre ==
    /\ \A t \in Names, op \in Outcomes \cup {"startTest", "stopTest"} : Call(op, t) \in Calls
    /\ \A change \in Changes : TagsCall(change) \in Calls
    /\ \A t \in Times : TimeCall(t) \in Calls
    /\ [op |-> "progress"] \in Calls
<1>1. \A t \in Names, op \in Outcomes \cup {"startTest", "stopTest"} : Call(op, t) \in Calls
    BY DEF Call, Calls
<1>2. \A change \in Changes : TagsCall(change) \in Calls
    BY DEF TagsCall, Calls
<1>3. Times \subseteq Nat
    BY DEF Times
<1>4. \A t \in Times : TimeCall(t) \in Calls
    BY <1>3 DEF TimeCall, Calls
<1> QED
    BY <1>1, <1>2, <1>4 DEF Calls

LEMMA FixUpType == \A t \in Names, outcome \in Outcomes : FixUp(t, outcome) \in Outcomes
BY DEF FixUp, Outcomes

\* What is appended to the buffer while a test runs.
LEMMA Buffered ==
    ASSUME Filtering, Buffering, NEW call \in Calls, UNCHANGED <<base, running>>,
           buffered' = Append(buffered, call),
           \A d \in Downs, now \in Nat :
              Playing(d, running, base, active, given, now) =>
                 Playing(Deliver(d, call), running, base, active', given', now)
    PROVE  Buffering'
<1> SUFFICES ASSUME NEW now \in Nat, NEW d \in Downs, Resting(d, base, now), d.passed = None
             PROVE  Playing(Replay(d, buffered'), running, base, active', given', now)
    BY DEF Buffering
<1>1. Playing(Replay(d, buffered), running, base, active, given, now)
    BY DEF Buffering
<1>2. Replay(d, buffered) \in Downs /\ Replay(d, buffered') = Deliver(Replay(d, buffered), call)
    BY ReplayAppends DEF Filtering
<1> QED
    BY <1>1, <1>2

LEMMA FilteringInitially == Init => Filtering
<1> SUFFICES ASSUME Init PROVE Filtering
    OBVIOUS
<1>1. /\ down.received = 0 /\ down.sent = 0 /\ down.pending = NoChange /\ down.running = None
      /\ down.clock = 0 /\ down.base = {} /\ down.active = {} /\ down.given = None
      /\ down.events = 0 /\ down.times = 0
    BY DEF Init
<1>2. down \in Downs
    BY Settled DEF Init, Downs
<1>3. Retagged({}, NoChange) = {}
    BY Settled
<1>4. Resting(down, base, clock)
    BY <1>1, <1>2, <1>3 DEF Init, Resting, OnTime
<1> QED
    BY <1>1, <1>4 DEF Init, Filtering

LEMMA StartKeeps ==
    ASSUME TagsAgree, Filtering, NEW t \in Names, startTest(t)
    PROVE  Filtering'
<1>1. /\ running = None /\ running' = t /\ filtered' = FALSE
      /\ buffered' = Append(buffered, Call("startTest", t)) /\ DeliverAll(<<>>)
      /\ UNCHANGED <<clock, base, active, given>>
    BY DEF startTest
<1>2. given = None /\ buffered = <<>> /\ t # None /\ active = base /\ clock \in Nat
    BY <1>1, FilterAssumption DEF Filtering, TagsAgree
<1>3. Resting(down', base, clock) /\ down'.events = 0
    BY <1>1, NothingDelivered
<1>4. buffered' = <<Call("startTest", t)>> /\ Call("startTest", t) \in Calls
    BY <1>1, <1>2, CallsAre
<1>5. Buffering'
    <2> SUFFICES ASSUME NEW now \in Nat, NEW d \in Downs, Resting(d, base, now), d.passed = None
                 PROVE  Playing(Replay(d, buffered'), t, base, base, None, now)
        BY <1>1, <1>2 DEF Buffering
    <2>1. Replay(d, buffered') = Deliver(d, Call("startTest", t))
        BY <1>4, ReplayOfOne
    <2>2. Playing(Deliver(d, Call("startTest", t)), t, base, base, None, now)
        BY StartPlayed
    <2> QED
        BY <2>1, <2>2
<1>6. buffered' \in Seq(Calls)
    BY <1>4
<1> QED
    BY <1>1, <1>2, <1>3, <1>5, <1>6 DEF Filtering

\* The predicate is asked what the promise says.
LEMMA AskedAsPromised ==
    ASSUME TagsAgree, running # None, NEW outcome
    PROVE  FilterPredicate(outcome) <=> Promise!Passes(Report(running, outcome, active))
<1>1. GetActiveTags = active
    BY DEF TagsAgree, GetActiveTags
<1>2. /\ Report(running, outcome, active).outcome = outcome
      /\ Report(running, outcome, active).tags = active
    BY DEF Report
<1> QED
    BY <1>1, <1>2 DEF FilterPredicate, Promise!Passes

LEMMA OutcomeKeeps ==
    ASSUME TagsAgree, Filtering, NEW outcome \in Outcomes, addOutcome(outcome)
    PROVE  Filtering'
<1> DEFINE fixed == FixUp(running, outcome)
           call == Call(fixed, running)
<1>1. /\ running # None /\ given = None /\ given' = Report(running, fixed, active)
      /\ DeliverAll(<<>>) /\ UNCHANGED <<running, clock, base, active>>
    BY DEF addOutcome
<1>2. IF FilterPredicate(fixed) THEN buffered' = Append(buffered, call) /\ UNCHANGED filtered
      ELSE filtered' = TRUE /\ UNCHANGED buffered
    BY DEF addOutcome
<1>3. running \in Names /\ filtered = FALSE /\ Buffering /\ buffered \in Seq(Calls) /\ clock \in Nat
    BY <1>1 DEF Filtering
<1>4. fixed \in Outcomes /\ call \in Calls
    BY <1>3, FixUpType, CallsAre
<1> HIDE DEF fixed
<1>5. given' \in Reports
    BY <1>1, <1>3, <1>4 DEF Report, Reports, TagsAgree
<1>6. given' # None
    BY <1>5, NoneAssumption
<1>7. FilterPredicate(fixed) <=> Promise!Passes(given')
    BY <1>1, AskedAsPromised
<1>8. Promise!Passes(given') <=> Promise!Passes(given)'
    BY DEF Promise!Passes
<1>9. Resting(down', base, clock) /\ down'.events = 0
    BY <1>1, NothingDelivered
<1>10. CASE FilterPredicate(fixed)
    <2>1. buffered' = Append(buffered, call) /\ filtered' = FALSE
        BY <1>2, <1>3, <1>10
    <2>2. \A d \in Downs, now \in Nat :
              Playing(d, running, base, active, given, now) =>
                 Playing(Deliver(d, call), running, base, active', given', now)
        BY <1>1, <1>3, <1>4, OutcomePlayed
    <2>3. Buffering'
        BY <1>1, <1>3, <1>4, <2>1, <2>2, Buffered
    <2>4. buffered' \in Seq(Calls)
        BY <1>3, <1>4, <2>1
    <2> QED
        BY <1>1, <1>3, <1>6, <1>7, <1>8, <1>9, <1>10, <2>1, <2>3, <2>4 DEF Filtering
<1>11. CASE ~FilterPredicate(fixed)
    BY <1>1, <1>2, <1>3, <1>6, <1>7, <1>8, <1>9, <1>11 DEF Filtering
<1> QED
    BY <1>10, <1>11

LEMMA TagsInTestKeep ==
    ASSUME TagsAgree, Filtering, NEW change \in Changes, tagsInTest(change)
    PROVE  Filtering'
<1>1. /\ running # None /\ active' = Retagged(active, change)
      /\ buffered' = Append(buffered, TagsCall(change))
      /\ DeliverAll(<<>>) /\ UNCHANGED <<running, clock, base, given, filtered>>
    BY DEF tagsInTest
<1>2. running \in Names /\ buffered \in Seq(Calls) /\ clock \in Nat /\ TagsCall(change) \in Calls
    BY <1>1, CallsAre DEF Filtering
<1>3. Resting(down', base, clock) /\ down'.events = 0
    BY <1>1, NothingDelivered
<1>4. ~filtered => Buffering'
    <2>1. \A d \in Downs, now \in Nat :
              Playing(d, running, base, active, given, now) =>
                 Playing(Deliver(d, TagsCall(change)), running, base, active', given', now)
        BY <1>1, TagsPlayed
    <2>2. ~filtered => Buffering
        BY <1>1 DEF Filtering
    <2> QED
        BY <1>1, <1>2, <2>1, <2>2, Buffered
<1>5. Promise!Passes(given)' <=> Promise!Passes(given)
    BY <1>1 DEF Promise!Passes
<1>6. buffered' \in Seq(Calls)
    BY <1>1, <1>2
<1> QED
    BY <1>1, <1>2, <1>3, <1>4, <1>5, <1>6 DEF Filtering

LEMMA StopIs ==
    ASSUME TagsAgree, Filtering, stopTest
    PROVE  /\ Filtering'
           /\ down'.passed = IF Promise!Passes(given) THEN given ELSE None
<1>1. /\ given # None /\ running' = None /\ given' = None /\ buffered' = <<>> /\ filtered' = FALSE
      /\ UNCHANGED <<clock, base>>
      /\ DeliverAll(IF filtered THEN <<>> ELSE Append(buffered, Call("stopTest", running)))
    BY DEF stopTest
<1>2. /\ running \in Names /\ running # None /\ clock \in Nat /\ buffered \in Seq(Calls)
      /\ filtered <=> ~Promise!Passes(given)
    BY <1>1 DEF Filtering
<1>3. CASE filtered
    <2>1. Resting(down', base, clock) /\ down'.passed = None /\ down'.events = 0
        BY <1>1, <1>3, NothingDelivered
    <2> QED
        BY <1>1, <1>2, <1>3, <2>1 DEF Filtering
<1>4. CASE ~filtered
    <2> DEFINE call == Call("stopTest", running)
    <2>1. Buffering /\ call \in Calls
        BY <1>2, <1>4, CallsAre DEF Filtering
    <2>2. Playing(Replay(Fresh, buffered), running, base, active, given, clock)
        BY <1>2, <2>1, FreshRests DEF Buffering
    <2>3. down' = Deliver(Replay(Fresh, buffered), call)
        BY <1>1, <1>2, <1>4, <2>1, FreshRests, ReplayAppends DEF DeliverAll, Fresh
    <2>4. Resting(down', base, clock) /\ down'.passed = given /\ down'.clock = clock
        BY <1>2, <2>2, <2>3, StopPlayed
    <2> QED
        BY <1>1, <1>2, <1>4, <2>4 DEF Filtering
<1> QED
    BY <1>3, <1>4

\* Calls that are passed on at once.
LEMMA AtOnce ==
    ASSUME Filtering, NEW call \in Calls, DeliverAll(<<call>>)
    PROVE  down' = Deliver(Fresh, call)
BY FreshRests, ReplayOfOne DEF DeliverAll, Fresh

LEMMA TagsOutsideKeep ==
    ASSUME Filtering, TagsAgree, NEW change \in Changes, tagsOutside(change)
    PROVE  Filtering' /\ down'.passed = None
<1>1. /\ running = None /\ base' = Retagged(base, change) /\ DeliverAll(<<TagsCall(change)>>)
      /\ UNCHANGED <<running, clock, given, filtered, buffered>>
    BY DEF tagsOutside, TagsAgree
<1>2. down' = Deliver(Fresh, TagsCall(change))
    BY <1>1, AtOnce, CallsAre
<1>3. clock \in Nat /\ given = None /\ buffered = <<>> /\ filtered = FALSE
    BY <1>1 DEF Filtering
<1>4. Resting(down', base', clock) /\ down'.passed = None /\ down'.events = 0
    BY <1>1, <1>2, <1>3, FreshRests, TagsRest
<1> QED
    BY <1>1, <1>3, <1>4 DEF Filtering

LEMMA TimeKeeps ==
    ASSUME Filtering, NEW t \in Times, time(t)
    PROVE  Filtering' /\ down'.passed = None
<1>1. /\ clock' = t /\ DeliverAll(<<TimeCall(t)>>)
      /\ UNCHANGED <<running, base, active, given, filtered, buffered>>
    BY DEF time, filter
<1>2. down' = Deliver(Fresh, TimeCall(t))
    BY <1>1, AtOnce, CallsAre
<1>3. clock \in Nat /\ t \in Nat
    BY DEF Filtering, Times
<1>4. Resting(down', base, t) /\ down'.passed = None /\ down'.events = 0
    BY <1>2, <1>3, FreshRests, TimeRests
<1>5. Promise!Passes(given)' <=> Promise!Passes(given)
    BY <1>1 DEF Promise!Passes
<1>6. Buffering => Buffering'
    BY <1>1 DEF Buffering
<1> QED
    BY <1>1, <1>3, <1>4, <1>5, <1>6 DEF Filtering

LEMMA ProgressKeeps ==
    ASSUME Filtering, progress
    PROVE  Filtering' /\ down'.passed = None
<1>1. /\ DeliverAll(<<[op |-> "progress"]>>)
      /\ UNCHANGED <<running, clock, base, active, given, filtered, buffered>>
    BY DEF progress, caller, filter
<1>2. down' = Deliver(Fresh, [op |-> "progress"])
    BY <1>1, AtOnce, CallsAre
<1>3. Resting(down', base, clock) /\ down'.passed = None /\ down'.clock = clock
    BY <1>2, FreshRests, ProgressRests DEF Filtering
<1>4. Promise!Passes(given)' <=> Promise!Passes(given)
    BY <1>1 DEF Promise!Passes
<1>5. Buffering => Buffering'
    BY <1>1 DEF Buffering
<1> QED
    BY <1>1, <1>3, <1>4, <1>5 DEF Filtering

Keeping == TagsAgree /\ Filtering

LEMMA KeepingStep == Keeping /\ [Next]_vars => Keeping'
<1> SUFFICES ASSUME Keeping, [Next]_vars PROVE Filtering'
    BY StepKeeps DEF Keeping
<1>1. CASE UNCHANGED vars
    <2>1. Promise!Passes(given)' <=> Promise!Passes(given)
        BY <1>1 DEF vars, caller, Promise!Passes
    <2>2. Buffering => Buffering'
        BY <1>1 DEF vars, caller, filter, Buffering
    <2> QED
        BY <1>1, <2>1, <2>2 DEF vars, caller, filter, Keeping, Filtering
<1> QED
    BY <1>1, StartKeeps, OutcomeKeeps, TagsInTestKeep, StopIs, TagsOutsideKeep, TimeKeeps,
       ProgressKeeps DEF Next, Keeping

LEMMA AlwaysKeeping == Spec => []Keeping
<1>1. Init => Keeping
    BY Initially, FilteringInitially DEF Keeping
<1> QED
    BY <1>1, KeepingStep, PTL DEF Spec

\* TimeCollapsingDecorator: whenever the sink has heard of anything but times and
\* tags its clock shows the caller's time, and of the times that follow one another
\* it has heard one only.
THEOREM ClockStaysCurrent == Spec => []ClockIsCurrent
<1>1. Keeping => ClockIsCurrent
    <2> SUFFICES ASSUME Keeping PROVE ClockIsCurrent
        OBVIOUS
    <2>1. down.times <= 1 /\ down.times \in Nat
        BY DEF Keeping, Filtering, Resting, OnTime, Downs
    <2> QED
        BY <2>1 DEF Keeping, Filtering, ClockIsCurrent
<1> QED
    BY <1>1, AlwaysKeeping, PTL

\* TagCollapsingDecorator: the tags the sink has and those still collapsed are, at
\* every point, those given outside tests.
THEOREM TagsArrive == Spec => []GlobalTagsArrive
<1>1. Keeping => GlobalTagsArrive
    BY DEF Keeping, Filtering, Resting, GlobalTagsArrive
<1> QED
    BY <1>1, AlwaysKeeping, PTL

LEMMA StepIsPromised ==
    ASSUME Keeping, [Next]_vars
    PROVE  [Promise!Next]_(Promise!vars)
<1>1. TagsAgree /\ Filtering
    BY DEF Keeping
<1>2. ASSUME NEW t \in Names, startTest(t)
      PROVE  Promise!Start(t)
    <2>1. down'.passed = None
        BY <1>1, <1>2, NothingDelivered DEF startTest
    <2> QED
        BY <1>2, <2>1 DEF startTest, Promise!Start
<1>3. ASSUME NEW outcome \in Outcomes, addOutcome(outcome)
      PROVE  Promise!Give(outcome)
    <2>1. down'.passed = None
        BY <1>1, <1>3, NothingDelivered DEF addOutcome
    <2>2. Promise!Report(running, Promise!FixUp(running, outcome), active)
          = Report(running, FixUp(running, outcome), active)
        BY DEF Promise!Report, Report, Promise!FixUp, FixUp
    <2> QED
        BY <1>3, <2>1, <2>2 DEF addOutcome, Promise!Give
<1>4. CASE stopTest
    BY <1>1, <1>4, StopIs DEF stopTest, Promise!Stop, Promise!Next
<1>5. ASSUME NEW change \in Changes, tagsInTest(change)
      PROVE  Promise!Retag(change.new, change.gone)
    <2>1. down'.passed = None
        BY <1>1, <1>5, NothingDelivered DEF tagsInTest
    <2> QED
        BY <1>5, <2>1 DEF tagsInTest, Retagged, Promise!Retag
<1>6. ASSUME NEW change \in Changes, tagsOutside(change)
      PROVE  Promise!Retag(change.new, change.gone)
    <2>1. down'.passed = None
        BY <1>1, <1>6, TagsOutsideKeep
    <2> QED
        BY <1>6, <2>1 DEF tagsOutside, Retagged, Promise!Retag
<1>7. ASSUME NEW t \in Times, time(t)
      PROVE  Promise!Pause
    BY <1>1, <1>7, TimeKeeps DEF time, Promise!Pause
<1>8. CASE progress
    BY <1>1, <1>8, ProgressKeeps DEF progress, caller, Promise!Pause, Promise!Next
<1>9. \A change \in Changes : change.new \in SUBSET Tags /\ change.gone \in SUBSET Tags
    BY DEF Changes
<1>10. CASE UNCHANGED vars
    BY <1>10 DEF vars, caller, Promise!vars
<1>11. CASE \E change \in Changes : tagsInTest(change) \/ tagsOutside(change)
    <2>1. PICK change \in Changes : Promise!Retag(change.new, change.gone)
        BY <1>5, <1>6, <1>11
    <2> QED
        BY <1>9, <2>1 DEF Promise!Next
<1>12. CASE \E t \in Names : startTest(t)
    BY <1>2, <1>12 DEF Promise!Next
<1>13. CASE \E outcome \in Outcomes : addOutcome(outcome)
    BY <1>3, <1>13 DEF Promise!Next
<1>14. CASE \E t \in Times : time(t)
    BY <1>7, <1>14 DEF Promise!Next
<1> QED
    BY <1>4, <1>8, <1>10, <1>11, <1>12, <1>13, <1>14 DEF Next, Promise!Next

\* TestResultFilter and _PredicateFilter: whatever is called, each test that ends is
\* passed on whole, with the outcome and under the tags it had, or nothing of it is.
THEOREM PassesWholeTests == Spec => ImplementsFilteredRun
<1>1. Init => Promise!Init
    BY DEF Init, Promise!Init
<1>2. Keeping /\ [Next]_vars => [Promise!Next]_(Promise!vars)
    BY StepIsPromised
<1> QED
    BY <1>1, <1>2, AlwaysKeeping, PTL DEF Spec, ImplementsFilteredRun, Promise!Spec
===============================================================================
