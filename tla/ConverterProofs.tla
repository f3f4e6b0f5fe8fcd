------------------------------ MODULE ConverterProofs ------------------------------
(***************************************************************************)
(* Theorems about the two converters.  GoJSON2SubUnit: for every set of    *)
(* packages and tests, any number of runs of a test and any number of      *)
(* lines.  TAP2SubUnit: for every script, whatever numbers it gives and    *)
(* wherever its plan comes.                                                *)
(***************************************************************************)
EXTENDS GoJson, Tap, SequenceTheorems, FiniteSetTheorems, TLAPS

-------------------------------------------------------------------------------
(* GoJSON2SubUnit. *)

\* A function on 1 .. n is a sequence of length n.
LEMMA FunctionIsSequence ==
    ASSUME NEW S, NEW n \in Nat, NEW f \in [1 .. n -> S]
    PROVE  f \in Seq(S) /\ Len(f) = n
<1>1. f \in Seq(S)
  BY SeqDef
<1>2. DOMAIN f = 1 .. Len(f) /\ Len(f) \in Nat
  BY <1>1, LenProperties
<1>3. QED
  BY <1>1, <1>2

\* The lines of a source form a sequence, and one more line is appended to it.
LEMMA LinesGrow ==
    ASSUME NEW source \in Sources, NEW n \in 0 .. MaxLines
    PROVE  /\ FirstLines(source, n) \in Seq(Line)
           /\ FirstLines(source, n) = <<>> <=> n = 0
           /\ n < MaxLines => Append(FirstLines(source, n), <<source, n + 1>>)
                              = FirstLines(source, n + 1)
<1> USE BoundsAssumption
<1>1. \A m \in 0 .. MaxLines :
         FirstLines(source, m) \in Seq(Line) /\ Len(FirstLines(source, m)) = m
  <2> TAKE m \in 0 .. MaxLines
  <2>1. FirstLines(source, m) \in [1 .. m -> Line]
    BY DEF FirstLines, Line
  <2>2. QED
    BY <2>1, FunctionIsSequence
<1>2. FirstLines(source, n) = <<>> <=> n = 0
  <2>1. n = 0 => FirstLines(source, n) = <<>>
    BY DEF FirstLines
  <2>2. n # 0 => FirstLines(source, n) # <<>>
    BY <1>1, EmptySeq
  <2>3. QED
    BY <2>1, <2>2
<1>3. ASSUME n < MaxLines
      PROVE  Append(FirstLines(source, n), <<source, n + 1>>) = FirstLines(source, n + 1)
  <2> DEFINE more == Append(FirstLines(source, n), <<source, n + 1>>)
  <2>1. n + 1 \in 0 .. MaxLines /\ <<source, n + 1>> \in Line
    BY <1>3 DEF Line
  <2>2. /\ more \in Seq(Line) /\ Len(more) = n + 1
        /\ \A i \in 1 .. n : more[i] = FirstLines(source, n)[i]
        /\ more[n + 1] = <<source, n + 1>>
    BY <1>1, <2>1, AppendProperties
  <2>3. \A i \in 1 .. n + 1 : more[i] = FirstLines(source, n + 1)[i]
    BY <2>2 DEF FirstLines
  <2> HIDE DEF more
  <2>4. more = FirstLines(source, n + 1)
    BY <1>1, <2>1, <2>2, <2>3, SeqEqual
  <2>5. QED
    BY <2>4 DEF more
<1>4. QED
  BY <1>1, <1>2, <1>3

\* One more verdict of go is one more status at the end of the translation.
LEMMA TranslatedGrows ==
    ASSUME NEW said \in Seq(Verdicts), NEW verdict \in Verdicts
    PROVE  /\ Translated(said) \in Seq(Statuses)
           /\ Translated(Append(said, verdict))
              = Append(Translated(said), StatusOf[verdict])
<1>1. \A v \in Verdicts : StatusOf[v] \in Statuses
  BY DEF StatusOf, Verdicts, Statuses
<1>2. \A s \in Seq(Verdicts) :
         Translated(s) \in Seq(Statuses) /\ Len(Translated(s)) = Len(s)
  <2> TAKE s \in Seq(Verdicts)
  <2>1. Len(s) \in Nat /\ DOMAIN s = 1 .. Len(s)
    BY LenProperties
  <2>2. \A i \in 1 .. Len(s) : s[i] \in Verdicts
    BY ElementOfSeq
  <2>3. Translated(s) \in [1 .. Len(s) -> Statuses]
    BY <1>1, <2>1, <2>2 DEF Translated
  <2>4. QED
    BY <2>1, <2>3, FunctionIsSequence
<1> DEFINE longer == Append(said, verdict)
           more == Append(Translated(said), StatusOf[verdict])
<1>3. /\ longer \in Seq(Verdicts) /\ Len(longer) = Len(said) + 1
      /\ \A i \in 1 .. Len(said) : longer[i] = said[i]
      /\ longer[Len(said) + 1] = verdict
  BY AppendProperties
<1>4. Len(said) \in Nat /\ DOMAIN said = 1 .. Len(said) /\ DOMAIN longer = 1 .. Len(longer)
  BY <1>3, LenProperties
<1>5. /\ more \in Seq(Statuses) /\ Len(more) = Len(said) + 1
      /\ \A i \in 1 .. Len(said) : more[i] = Translated(said)[i]
      /\ more[Len(said) + 1] = StatusOf[verdict]
  BY <1>1, <1>2, AppendProperties
<1> HIDE DEF longer, more
<1>6. \A i \in 1 .. Len(said) + 1 : more[i] = Translated(longer)[i]
  <2> TAKE i \in 1 .. Len(said) + 1
  <2>1. Translated(longer)[i] = StatusOf[longer[i]]
    BY <1>3, <1>4 DEF Translated
  <2>2. CASE i = Len(said) + 1
    BY <1>3, <1>5, <2>1, <2>2
  <2>3. CASE i # Len(said) + 1
    <3>1. i \in 1 .. Len(said)
      BY <1>4, <2>3
    <3>2. Translated(said)[i] = StatusOf[said[i]]
      BY <1>4, <3>1 DEF Translated
    <3>3. QED
      BY <1>3, <1>5, <2>1, <3>1, <3>2
  <2>4. QED
    BY <2>2, <2>3
<1>7. Translated(longer) = more
  BY <1>2, <1>3, <1>5, <1>6, SeqEqual
<1>8. QED
  BY <1>2, <1>7 DEF longer, more

\* What the state has of each kind of buffer between two events, and what the
\* exit code will tell of the reports made so far.
TestsKeepLines ==
    \A id \in Ids : buffers[id] = IF id \in running THEN Lines(id) ELSE <<>>
PackagesKeepLines == \A pkg \in Packages \ closed : buffers[pkg] = Lines(pkg)
ExitIsKnown == any_failed <=> FailureReported

\* The reports of a test are its verdicts, and then the failure of one that printed
\* and was cut off: those that had not printed have none.
EndedUnfinished(id) == over /\ id \in running /\ printed[id] > 0
ReportsAreKnown ==
    \A id \in Ids :
        reported[id] = IF EndedUnfinished(id)
                       THEN Append(Translated(verdicts[id]), "fail")
                       ELSE Translated(verdicts[id])

Consistent ==
    /\ TypeOK
    /\ TestsKeepLines
    /\ PackagesKeepLines
    /\ ReportsAreKnown
    /\ ExitIsKnown

\* No package is a test.
LEMMA SourcesAreDistinct ==
    /\ \A pkg \in Packages, id \in Ids : pkg # id
    /\ Ids \subseteq Sources /\ Packages \subseteq Sources
    /\ \A id \in Ids : id[1] \in Packages
  BY NamesAssumption DEF Ids, Sources

LEMMA InitConsistent == Init => Consistent /\ OutputArrives
<1> SUFFICES ASSUME Init PROVE Consistent /\ OutputArrives
  OBVIOUS
<1> USE BoundsAssumption DEF Init
<1>1. TypeOK
  <2>1. <<>> \in Seq(Verdicts) /\ <<>> \in Seq(Statuses) /\ <<>> \in Seq(Line)
    BY EmptySeq
  <2>2. 0 \in 0 .. MaxLines
    OBVIOUS
  <2>3. QED
    BY <2>1, <2>2 DEF TypeOK
<1>2. TestsKeepLines /\ PackagesKeepLines
  <2>1. \A source \in Sources : Lines(source) = <<>>
    BY LinesGrow DEF Lines
  <2>2. QED
    BY <2>1, SourcesAreDistinct DEF TestsKeepLines, PackagesKeepLines
<1>3. ReportsAreKnown
  <2>1. Translated(<<>>) = <<>>
    BY DEF Translated
  <2>2. QED
    BY <2>1 DEF ReportsAreKnown, EndedUnfinished
<1>4. ExitIsKnown
  BY DEF ExitIsKnown, FailureReported
<1>5. QED
  BY <1>1, <1>2, <1>3, <1>4 DEF Consistent, OutputArrives

LEMMA RunConsistent ==
    ASSUME Consistent, NEW id \in Ids, Run(id)
    PROVE  Consistent' /\ OutputArrives'
<1> USE BoundsAssumption, SourcesAreDistinct DEF Consistent
<1>1. TypeOK'
  BY DEF Run, TypeOK, Packet
<1>2. TestsKeepLines'
  <2>1. Lines(id)' = <<>>
    <3>1. printed'[id] = 0 /\ id \in Sources /\ 0 \in 0 .. MaxLines
      BY DEF Run, TypeOK
    <3>2. FirstLines(id, 0) = <<>>
      BY <3>1, LinesGrow
    <3>3. QED
      BY <3>1, <3>2 DEF Lines
  <2>2. \A other \in Ids \ {id} : Lines(other)' = Lines(other)
    BY DEF Lines, Run, TypeOK
  <2>3. QED
    BY <2>1, <2>2 DEF TestsKeepLines, Run
<1>3. PackagesKeepLines'
  <2>1. \A pkg \in Packages : Lines(pkg)' = Lines(pkg)
    BY DEF Lines, Run, TypeOK
  <2>2. QED
    BY <2>1 DEF PackagesKeepLines, Run
<1>4. ReportsAreKnown'
  BY DEF ReportsAreKnown, EndedUnfinished, Run
<1>5. ExitIsKnown'
  BY DEF ExitIsKnown, FailureReported, Run
<1>6. OutputArrives'
  BY DEF OutputArrives, Run, Packet
<1>7. QED
  BY <1>1, <1>2, <1>3, <1>4, <1>5, <1>6

LEMMA OutputConsistent ==
    ASSUME Consistent, NEW source \in Sources, Output(source)
    PROVE  Consistent' /\ OutputArrives'
<1> USE BoundsAssumption, SourcesAreDistinct DEF Consistent
<1> DEFINE n == printed[source]
<1>1. /\ n \in 0 .. MaxLines /\ n < MaxLines
      /\ printed'[source] = n + 1
      /\ \A other \in Sources \ {source} : printed'[other] = printed[other]
  BY DEF Output, TypeOK
<1>2. buffers[source] = Lines(source)
  BY DEF Output, TestsKeepLines, PackagesKeepLines, TypeOK
<1>3. buffers'[source] = Lines(source)'
  <2>1. buffers'[source] = Append(FirstLines(source, n), <<source, n + 1>>)
    BY <1>1, <1>2 DEF Output, TypeOK, Lines
  <2>2. QED
    BY <1>1, <2>1, LinesGrow DEF Lines
<1>4. \A other \in Sources \ {source} :
         buffers'[other] = buffers[other] /\ Lines(other)' = Lines(other)
  BY <1>1 DEF Output, TypeOK, Lines
<1>5. TypeOK'
  <2>1. Lines(source)' \in Seq(Line)
    BY <1>1, LinesGrow DEF Lines
  <2>2. buffers' \in [Sources -> Seq(Line)]
    BY <1>3, <2>1 DEF Output, TypeOK
  <2>3. printed' \in [Sources -> 0 .. MaxLines]
    BY <1>1 DEF Output, TypeOK
  <2>4. QED
    BY <2>2, <2>3 DEF Output, TypeOK
<1>6. TestsKeepLines'
  BY <1>3, <1>4 DEF TestsKeepLines, Output
<1>7. PackagesKeepLines'
  BY <1>3, <1>4 DEF PackagesKeepLines, Output
<1>8. ReportsAreKnown'
  BY DEF ReportsAreKnown, EndedUnfinished, Output
<1>9. ExitIsKnown' /\ OutputArrives'
  BY DEF ExitIsKnown, FailureReported, OutputArrives, Output
<1>10. QED
  BY <1>5, <1>6, <1>7, <1>8, <1>9

\* What is appended to the reports adds a failure just when it is one.
LEMMA FailuresAdd ==
    ASSUME NEW old \in Seq(Statuses), NEW status \in Statuses
    PROVE  (\E n \in DOMAIN Append(old, status) : Append(old, status)[n] = "fail")
           <=> (status = "fail" \/ \E n \in DOMAIN old : old[n] = "fail")
<1> DEFINE new == Append(old, status)
<1>1. /\ new \in Seq(Statuses) /\ Len(new) = Len(old) + 1
      /\ \A i \in 1 .. Len(old) : new[i] = old[i]
      /\ new[Len(old) + 1] = status
  BY AppendProperties
<1>2. Len(old) \in Nat /\ DOMAIN old = 1 .. Len(old) /\ DOMAIN new = 1 .. Len(new)
  BY <1>1, LenProperties
<1> HIDE DEF new
<1>3. (\E n \in DOMAIN new : new[n] = "fail")
      <=> (status = "fail" \/ \E n \in DOMAIN old : old[n] = "fail")
  BY <1>1, <1>2
<1>4. QED
  BY <1>3 DEF new

LEMMA VerdictConsistent ==
    ASSUME Consistent, NEW id \in Ids, NEW verdict \in Verdicts, Verdict(id, verdict)
    PROVE  Consistent' /\ OutputArrives'
<1> USE BoundsAssumption, SourcesAreDistinct DEF Consistent
<1>1. StatusOf[verdict] \in Statuses /\ (StatusOf[verdict] = "fail" <=> IsFailure(verdict))
  BY DEF StatusOf, Verdicts, Statuses, IsFailure
<1>2. /\ reported'[id] = Append(reported[id], StatusOf[verdict])
      /\ verdicts'[id] = Append(verdicts[id], verdict)
      /\ buffers'[id] = <<>>
      /\ \A other \in Ids \ {id} :
            reported'[other] = reported[other] /\ verdicts'[other] = verdicts[other]
      /\ \A other \in Sources \ {id} : buffers'[other] = buffers[other]
  BY DEF Verdict, Pop, TypeOK
<1>3. \A source \in Sources : Lines(source)' = Lines(source)
  BY DEF Lines, Verdict
<1>4. buffers[id] = Lines(id) /\ buffers[id] \in Seq(Line)
  BY DEF Verdict, TestsKeepLines, TypeOK
<1>5. TypeOK'
  <2>1. /\ reported' \in [Ids -> Seq(Statuses)]
        /\ verdicts' \in [Ids -> Seq(Verdicts)]
    BY <1>1, AppendProperties DEF Verdict, TypeOK
  <2>2. buffers' \in [Sources -> Seq(Line)]
    BY DEF Verdict, Pop, TypeOK
  <2>3. \A packet \in emitted' : packet.of \in Sources /\ packet.output \in Seq(Line)
    BY <1>4 DEF Verdict, Packet
  <2>4. any_failed' \in BOOLEAN
    BY DEF Verdict
  <2>5. QED
    BY <2>1, <2>2, <2>3, <2>4 DEF Verdict, TypeOK
<1>6. TestsKeepLines'
  BY <1>2, <1>3 DEF TestsKeepLines, Verdict
<1>7. PackagesKeepLines'
  BY <1>2, <1>3 DEF PackagesKeepLines, Verdict
<1>8. ReportsAreKnown'
  <2>1. reported[id] = Translated(verdicts[id]) /\ verdicts[id] \in Seq(Verdicts)
    BY DEF ReportsAreKnown, EndedUnfinished, Verdict, TypeOK
  <2>2. reported'[id] = Translated(verdicts'[id])
    BY <1>2, <2>1, TranslatedGrows
  <2>3. QED
    BY <1>2, <2>2 DEF ReportsAreKnown, EndedUnfinished, Verdict
<1>9. ExitIsKnown'
  <2> DEFINE Failing(r, i) == \E n \in DOMAIN r[i] : r[i][n] = "fail"
  <2>1. Failing(reported', id) <=> (IsFailure(verdict) \/ Failing(reported, id))
    <3>1. reported[id] \in Seq(Statuses)
      BY DEF TypeOK
    <3>2. (\E n \in DOMAIN reported'[id] : reported'[id][n] = "fail")
          <=> \/ StatusOf[verdict] = "fail"
              \/ \E n \in DOMAIN reported[id] : reported[id][n] = "fail"
      <4> HIDE DEF Consistent
      <4>1. StatusOf[verdict] \in Statuses /\ reported'[id] = Append(reported[id], StatusOf[verdict])
        BY <1>1, <1>2
      <4>2. (\E n \in DOMAIN Append(reported[id], StatusOf[verdict]) :
               Append(reported[id], StatusOf[verdict])[n] = "fail")
            <=> \/ StatusOf[verdict] = "fail"
                \/ \E n \in DOMAIN reported[id] : reported[id][n] = "fail"
        BY <3>1, <4>1, FailuresAdd, Zenon
      <4>3. QED
        BY <4>1, <4>2, Zenon
    <3>3. QED
      BY <1>1, <3>2
  <2>2. \A other \in Ids \ {id} : Failing(reported', other) <=> Failing(reported, other)
    BY <1>2
  <2>3. FailureReported <=> (failed # {} \/ \E i \in Ids : Failing(reported, i))
    BY DEF FailureReported
  <2>4. FailureReported' <=> (failed' # {} \/ \E i \in Ids : Failing(reported', i))
    BY DEF FailureReported
  <2> HIDE DEF Failing
  <2>5. FailureReported' <=> (IsFailure(verdict) \/ FailureReported)
    BY <2>1, <2>2, <2>3, <2>4 DEF Verdict
  <2>6. any_failed' <=> (any_failed \/ IsFailure(verdict))
    BY DEF Verdict
  <2>7. QED
    BY <2>5, <2>6 DEF ExitIsKnown
<1>10. OutputArrives'
  BY <1>3, <1>4 DEF OutputArrives, Verdict, Packet
<1>11. QED
  BY <1>5, <1>6, <1>7, <1>8, <1>9, <1>10

LEMMA PackageFailConsistent ==
    ASSUME Consistent, NEW pkg \in Packages, PackageFail(pkg)
    PROVE  Consistent' /\ OutputArrives'
<1> USE BoundsAssumption, SourcesAreDistinct DEF Consistent
<1>1. \A source \in Sources : Lines(source)' = Lines(source)
  BY DEF Lines, PackageFail
<1>2. \A other \in Sources \ {pkg} : buffers'[other] = buffers[other]
  BY DEF PackageFail, Pop, TypeOK
<1>3. buffers[pkg] = Lines(pkg) /\ buffers[pkg] \in Seq(Line)
  BY DEF PackageFail, PackagesKeepLines, TypeOK
<1>4. TypeOK'
  <2>1. buffers' \in [Sources -> Seq(Line)]
    BY DEF PackageFail, Pop, TypeOK
  <2>2. \A packet \in emitted' : packet.of \in Sources /\ packet.output \in Seq(Line)
    BY <1>3 DEF PackageFail, Packet
  <2>3. closed' \in SUBSET Packages /\ failed' \in SUBSET closed'
    BY DEF PackageFail, TypeOK
  <2>4. QED
    BY <2>1, <2>2, <2>3 DEF PackageFail, TypeOK
<1>5. TestsKeepLines'
  BY <1>1, <1>2 DEF TestsKeepLines, PackageFail
<1>6. PackagesKeepLines'
  BY <1>1, <1>2 DEF PackagesKeepLines, PackageFail
<1>7. ReportsAreKnown'
  BY DEF ReportsAreKnown, EndedUnfinished, PackageFail
<1>8. ExitIsKnown'
  BY DEF ExitIsKnown, FailureReported, PackageFail
<1>9. OutputArrives'
  BY <1>1, <1>3 DEF OutputArrives, PackageFail, Packet
<1>10. QED
  BY <1>4, <1>5, <1>6, <1>7, <1>8, <1>9

LEMMA PackagePassConsistent ==
    ASSUME Consistent, NEW pkg \in Packages, PackagePass(pkg)
    PROVE  Consistent' /\ OutputArrives'
<1> USE DEF Consistent, PackagePass
<1>1. TypeOK'
  BY DEF TypeOK
<1>2. TestsKeepLines' /\ PackagesKeepLines'
  BY DEF TestsKeepLines, PackagesKeepLines, Lines
<1>3. ReportsAreKnown' /\ ExitIsKnown'
  BY DEF ReportsAreKnown, EndedUnfinished, ExitIsKnown, FailureReported
<1>4. OutputArrives'
  BY DEF OutputArrives
<1>5. QED
  BY <1>1, <1>2, <1>3, <1>4

LEMMA EofConsistent ==
    ASSUME Consistent, Eof
    PROVE  Consistent' /\ OutputArrives'
<1> USE BoundsAssumption, SourcesAreDistinct DEF Consistent
<1>1. \A source \in Sources : Lines(source)' = Lines(source)
  BY DEF Lines, Eof, go
<1>2. \A id \in Ids : id \in Unfinished <=> id \in running /\ printed[id] > 0
  <2>1. \A id \in Ids : printed[id] \in 0 .. MaxLines
    BY DEF TypeOK
  <2>2. \A id \in Ids : Lines(id) = <<>> <=> printed[id] = 0
    BY <2>1, LinesGrow DEF Lines
  <2>3. QED
    BY <2>1, <2>2 DEF Unfinished, TestsKeepLines
<1>3. \A id \in Unfinished : id \in Ids /\ buffers[id] = Lines(id) /\ buffers[id] \in Seq(Line)
  BY <1>2 DEF Unfinished, TestsKeepLines, TypeOK
<1>4. \A id \in Ids :
         reported'[id] = IF id \in Unfinished THEN Append(reported[id], "fail") ELSE reported[id]
  BY DEF Eof
<1>5. "fail" \in Statuses /\ \A id \in Ids : reported[id] \in Seq(Statuses)
  BY DEF Statuses, TypeOK
<1>6. TypeOK'
  <2>1. reported' \in [Ids -> Seq(Statuses)]
    BY <1>5, AppendProperties DEF Eof
  <2>2. \A packet \in emitted' : packet.of \in Sources /\ packet.output \in Seq(Line)
    BY <1>3 DEF Eof, Packet
  <2>3. any_failed' \in BOOLEAN
    BY DEF Eof
  <2>4. QED
    BY <2>1, <2>2, <2>3 DEF Eof, TypeOK, go
<1>7. TestsKeepLines' /\ PackagesKeepLines'
  BY <1>1 DEF TestsKeepLines, PackagesKeepLines, Eof, go
<1>8. ReportsAreKnown'
  BY <1>2, <1>4 DEF ReportsAreKnown, EndedUnfinished, Eof, go
<1>9. ExitIsKnown'
  <2> DEFINE Failing(r, i) == \E n \in DOMAIN r[i] : r[i][n] = "fail"
  <2>1. \A i \in Ids : Failing(reported', i) <=> (i \in Unfinished \/ Failing(reported, i))
    <3> SUFFICES ASSUME NEW i \in Ids
                 PROVE  Failing(reported', i) <=> (i \in Unfinished \/ Failing(reported, i))
      OBVIOUS
    <3>1. CASE i \in Unfinished
      <4>1. reported'[i] = Append(reported[i], "fail") /\ reported[i] \in Seq(Statuses)
        BY <1>4, <1>5, <3>1
      <4>2. \E n \in DOMAIN reported'[i] : reported'[i][n] = "fail"
        BY <1>5, <4>1, FailuresAdd
      <4>3. QED
        BY <3>1, <4>2
    <3>2. CASE i \notin Unfinished
      BY <1>4, <3>2
    <3>3. QED
      BY <3>1, <3>2
  <2>2. FailureReported <=> (failed # {} \/ \E i \in Ids : Failing(reported, i))
    BY DEF FailureReported
  <2>3. FailureReported' <=> (failed' # {} \/ \E i \in Ids : Failing(reported', i))
    BY DEF FailureReported
  <2> HIDE DEF Failing
  <2>4. FailureReported' <=> (Unfinished # {} \/ FailureReported)
    BY <1>3, <2>1, <2>2, <2>3 DEF Eof, go
  <2>5. any_failed' <=> (any_failed \/ Unfinished # {})
    BY DEF Eof
  <2>6. QED
    BY <2>4, <2>5 DEF ExitIsKnown
<1>10. OutputArrives'
  BY <1>1, <1>3 DEF OutputArrives, Eof, Packet
<1>11. QED
  BY <1>6, <1>7, <1>8, <1>9, <1>10

\* Every step keeps the invariant and emits only the output of the right run.
LEMMA StepConsistent == Consistent /\ OutputArrives /\ [Next]_vars => Consistent' /\ OutputArrives'
<1> SUFFICES ASSUME Consistent, OutputArrives, [Next]_vars PROVE Consistent' /\ OutputArrives'
  OBVIOUS
<1>1. ASSUME NEW id \in Ids, Run(id) PROVE Consistent' /\ OutputArrives'
  BY <1>1, RunConsistent
<1>2. ASSUME NEW id \in Ids, NEW verdict \in Verdicts, Verdict(id, verdict)
      PROVE  Consistent' /\ OutputArrives'
  BY <1>2, VerdictConsistent
<1>3. ASSUME NEW source \in Sources, Output(source) PROVE Consistent' /\ OutputArrives'
  BY <1>3, OutputConsistent
<1>4. ASSUME NEW pkg \in Packages, PackageFail(pkg) \/ PackagePass(pkg)
      PROVE  Consistent' /\ OutputArrives'
  BY <1>4, PackageFailConsistent, PackagePassConsistent
<1>5. CASE Eof
  BY <1>5, EofConsistent
<1>6. CASE UNCHANGED vars
  BY <1>6 DEF vars, go, Consistent, TypeOK, TestsKeepLines, PackagesKeepLines, Lines,
              ReportsAreKnown, EndedUnfinished, ExitIsKnown, FailureReported, OutputArrives
<1>7. QED
  BY <1>1, <1>2, <1>3, <1>4, <1>5, <1>6 DEF Next

\* The invariant holds: the buffers hold what the running tests and the open
\* packages have printed, and the flag what has been reported.
THEOREM ConverterIsConsistent == Spec => [](Consistent /\ OutputArrives)
<1>1. Init => Consistent /\ OutputArrives
  BY InitConsistent
<1>2. Consistent /\ OutputArrives /\ [Next]_vars => Consistent' /\ OutputArrives'
  BY StepConsistent
<1>3. QED
  BY <1>1, <1>2, PTL DEF Spec

\* Every variable keeps its range.
THEOREM TypesAreKept == Spec => []TypeOK
<1>1. Consistent /\ OutputArrives => TypeOK
  BY DEF Consistent
<1>2. QED
  BY <1>1, ConverterIsConsistent, PTL

\* A final packet carries the output of its own run of its own test.
THEOREM OutputGoesWithItsRun == Spec => []OutputArrives
  BY ConverterIsConsistent, PTL

\* go's verdicts are reported in order and once, and nothing else but the
\* failure of a test that was cut off, which those that have printed get.
THEOREM VerdictsAreReported == Spec => []VerdictsArrive
<1>1. Consistent /\ OutputArrives => VerdictsArrive
  BY DEF Consistent, ReportsAreKnown, EndedUnfinished, VerdictsArrive, AsVerdicts,
         AsVerdictsThenFailed, CutOff
<1>2. QED
  BY <1>1, ConverterIsConsistent, PTL

\* The exit code is 1 just when a failure was reported.
THEOREM ExitCodeIsRight == Spec => []ExitTellsFailure
<1>1. Consistent /\ OutputArrives => ExitTellsFailure
  BY DEF Consistent, ExitIsKnown, ExitTellsFailure
<1>2. QED
  BY <1>1, ConverterIsConsistent, PTL
-------------------------------------------------------------------------------
(* TAP2SubUnit. *)

Outcomes == {"success", "fail", "skip", "xfail"}
Names == Nat \cup {Bail}
Packets == [test : Nat \cup {Bail, File}, status : Outcomes \cup {"missing"}, log : Seq(Nat)]

Typed ==
    /\ written \in Seq(Packets) /\ log \in Seq(Nat)
    /\ test_name \in Names \cup {None}
    /\ plan_start \in Nat \ {0} /\ plan_stop \in Nat
    /\ given \in Seq(Outcomes) /\ remarks \in Seq(Names \cup {None})
    /\ test_name # None => result \in Outcomes
    /\ outcome \in {"open", "done", "raised"}

\* The tests of packets, and then the one that is held back, have the numbers up
\* to n, in their order.
NumbersAre(packets, held, n) ==
    /\ n \in Nat
    /\ \A i \in 1 .. Len(packets) : packets[i].test \in {Bail, File} \cup (1 .. n)
    /\ held \in {None, Bail} \cup (1 .. n)
    /\ \A m \in 1 .. n : held = m \/ \E i \in 1 .. Len(packets) : packets[i].test = m
    /\ \A i, j \in 1 .. Len(packets) :
          i < j /\ Counted(packets[i].test) /\ Counted(packets[j].test)
            => packets[i].test < packets[j].test
    /\ \A i \in 1 .. Len(packets) :
          Counted(packets[i].test) /\ Counted(held) => packets[i].test < held

\* The results among packets, and then the one that is held back, are those given.
Reals(packets, i) == Cardinality({j \in 1 .. i : Real(packets[j])})
ResultsAre(packets, held, status, results) ==
    /\ Reals(packets, Len(packets)) + (IF held = None THEN 0 ELSE 1) = Len(results)
    /\ \A i \in 1 .. Len(packets) :
          Real(packets[i]) => /\ Reals(packets, i) \in 1 .. Len(results)
                              /\ packets[i].status = results[Reals(packets, i)]
    /\ held # None => status = results[Len(results)]

\* The comments in packets, and then those in comments, are those up to n in their
\* order.
At(packets, comments, i) == IF i \in 1 .. Len(packets) THEN packets[i].log ELSE comments
InOrder(packets, comments, n) ==
    /\ \A i, j \in 1 .. Len(packets) + 1 :
          \A k \in 1 .. Len(At(packets, comments, i)), l \in 1 .. Len(At(packets, comments, j)) :
             i < j \/ (i = j /\ k < l) => At(packets, comments, i)[k] < At(packets, comments, j)[l]
    /\ \A m \in 1 .. n : \E i \in 1 .. Len(packets) + 1 :
          \E k \in 1 .. Len(At(packets, comments, i)) : At(packets, comments, i)[k] = m

\* Each is about the test it goes with, or was read ahead of all tests.
IsAbout(comments, test, about) ==
    \A k \in 1 .. Len(comments) :
       comments[k] \in 1 .. Len(about) /\ about[comments[k]] \in {test, None}
AllAbout(packets, about) == \A i \in 1 .. Len(packets) : IsAbout(packets[i].log, packets[i].test, about)

Ends ==
    /\ outcome = "done" => plan_start > plan_stop
    /\ outcome = "open" /\ given # <<>> => test_name # None
    /\ outcome = "done" /\ given # <<>> => log = <<>>

TapIsConsistent ==
    /\ Typed /\ Ends
    /\ NumbersAre(written, test_name, plan_start - 1)
    /\ ResultsAre(written, test_name, result, given)
    /\ InOrder(written, log, Len(remarks))
    /\ AllAbout(written, remarks) /\ IsAbout(log, test_name, remarks)

-------------------------------------------------------------------------------
LEMMA Added ==
    ASSUME NEW p \in Seq(Packets), NEW q \in Seq(Packets)
    PROVE  /\ p \o q \in Seq(Packets) /\ Len(p \o q) = Len(p) + Len(q)
           /\ \A i \in 1 .. Len(p) : (p \o q)[i] = p[i]
           /\ \A i \in 1 .. Len(q) : (p \o q)[Len(p) + i] = q[i]
BY ConcatProperties

\* What comes after p in whole is q.
Adds(whole, p, q) ==
    /\ whole \in Seq(Packets) /\ Len(whole) = Len(p) + Len(q)
    /\ \A i \in 1 .. Len(p) : whole[i] = p[i]
    /\ \A i \in 1 .. Len(q) : whole[Len(p) + i] = q[i]

LEMMA Concatenated ==
    ASSUME NEW p \in Seq(Packets), NEW q \in Seq(Packets)
    PROVE  Adds(p \o q, p, q)
BY Added DEF Adds

LEMMA PacketOf ==
    ASSUME NEW whole, NEW p, NEW x, Adds(whole, p, <<x>>), p \in Seq(Packets)
    PROVE  Len(whole) = Len(p) + 1 /\ whole[Len(p) + 1] = x
<1>1. Len(<<x>>) = 1 /\ <<x>>[1] = x
    OBVIOUS
<1> QED
    BY <1>1 DEF Adds

LEMMA Distinct ==
    /\ None \notin Int /\ Bail \notin Int /\ File \notin Int
    /\ None # Bail /\ None # File /\ Bail # File
  BY TapNames

\* A packet about no test in particular.
LEMMA NumbersFile ==
    ASSUME NEW p \in Seq(Packets), NEW x \in Packets, NEW whole,
           Adds(whole, p, <<x>>), NEW held, NEW n, NumbersAre(p, held, n), x.test = File
    PROVE  NumbersAre(whole, held, n)
<1>1. Len(whole) = Len(p) + 1 /\ whole[Len(p) + 1] = x /\ Len(p) \in Nat
    BY PacketOf
<1>2. \A i \in 1 .. Len(whole) : i \in 1 .. Len(p) \/ i = Len(p) + 1
    BY <1>1
<1>3. \A i \in 1 .. Len(p) : whole[i] = p[i] /\ i \in 1 .. Len(whole)
    BY <1>1 DEF Adds
<1>4. \A i \in 1 .. Len(whole) : Counted(whole[i].test) => i \in 1 .. Len(p)
    BY <1>1, <1>2 DEF Counted
<1>5. \A i \in 1 .. Len(whole) : whole[i].test \in {Bail, File} \cup (1 .. n)
    BY <1>1, <1>2, <1>3 DEF NumbersAre
<1>6. \A m \in 1 .. n : held = m \/ \E i \in 1 .. Len(whole) : whole[i].test = m
    BY <1>3 DEF NumbersAre
<1>7. \A i, j \in 1 .. Len(whole) :
          i < j /\ Counted(whole[i].test) /\ Counted(whole[j].test) => whole[i].test < whole[j].test
    BY <1>3, <1>4 DEF NumbersAre
<1>8. \A i \in 1 .. Len(whole) :
          Counted(whole[i].test) /\ Counted(held) => whole[i].test < held
    BY <1>3, <1>4 DEF NumbersAre
<1> QED
    BY <1>5, <1>6, <1>7, <1>8 DEF NumbersAre

\* What was held back is emitted.
LEMMA NumbersEmit ==
    ASSUME NEW p \in Seq(Packets), NEW x \in Packets, NEW whole,
           Adds(whole, p, <<x>>), NEW n, NumbersAre(p, x.test, n)
    PROVE  NumbersAre(whole, None, n)
<1>1. Len(whole) = Len(p) + 1 /\ whole[Len(p) + 1] = x /\ Len(p) \in Nat
    BY PacketOf
<1>2. \A i \in 1 .. Len(whole) : i \in 1 .. Len(p) \/ i = Len(p) + 1
    BY <1>1
<1>3. \A i \in 1 .. Len(p) : whole[i] = p[i] /\ i \in 1 .. Len(whole)
    BY <1>1 DEF Adds
<1>4. ~Counted(None)
    BY DEF Counted
<1>5. \A i \in 1 .. Len(whole) : whole[i].test \in {Bail, File} \cup (1 .. n)
    <2>1. x.test \in {Bail, File} \cup (1 .. n)
        BY Distinct DEF NumbersAre, Packets
    <2> QED
        BY <1>1, <1>2, <1>3, <2>1 DEF NumbersAre
<1>6. \A m \in 1 .. n : \E i \in 1 .. Len(whole) : whole[i].test = m
    <2> SUFFICES ASSUME NEW m \in 1 .. n PROVE \E i \in 1 .. Len(whole) : whole[i].test = m
        OBVIOUS
    <2>1. CASE x.test = m
        BY <1>1, <2>1
    <2>2. CASE \E i \in 1 .. Len(p) : p[i].test = m
        BY <1>3, <2>2
    <2> QED
        BY <2>1, <2>2 DEF NumbersAre
<1>7. ASSUME NEW i \in 1 .. Len(whole), NEW j \in 1 .. Len(whole),
             i < j, Counted(whole[i].test), Counted(whole[j].test)
      PROVE  whole[i].test < whole[j].test
    <2>1. i \in 1 .. Len(p)
        BY <1>1, <1>7
    <2>2. CASE j \in 1 .. Len(p)
        BY <1>3, <1>7, <2>1, <2>2 DEF NumbersAre
    <2>3. CASE j = Len(p) + 1
        BY <1>1, <1>3, <1>7, <2>1, <2>3 DEF NumbersAre
    <2> QED
        BY <1>2, <2>2, <2>3
<1> QED
    BY <1>4, <1>5, <1>6, <1>7 DEF NumbersAre

\* Numbers that the script left out.
LEMMA MissingIs ==
    ASSUME NEW first \in Nat, NEW last \in Int, last >= first - 1
    PROVE  /\ Missing(first, last) \in Seq(Packets) /\ Len(Missing(first, last)) = last - first + 1
           /\ \A i \in 1 .. last - first + 1 :
                 /\ Missing(first, last)[i].test = first + i - 1
                 /\ Missing(first, last)[i].status = "missing"
                 /\ Missing(first, last)[i].log = <<>>
<1> DEFINE size == last - first + 1
<1>1. size \in Nat
    OBVIOUS
<1>2. \A i \in 1 .. size : TestPacket(first + i - 1, "missing", <<>>) \in Packets
    BY DEF TestPacket, Packets
<1>3. Missing(first, last) = [i \in 1 .. size |-> TestPacket(first + i - 1, "missing", <<>>)]
    BY DEF Missing
<1> HIDE DEF size
<1>4. Missing(first, last) \in [1 .. size -> Packets]
    BY <1>2, <1>3
<1>5. Missing(first, last) \in Seq(Packets) /\ Len(Missing(first, last)) = size
    BY <1>1, <1>4
<1>6. \A i \in 1 .. size : Missing(first, last)[i] = TestPacket(first + i - 1, "missing", <<>>)
    BY <1>3
<1>7. ASSUME NEW i \in 1 .. size
      PROVE  /\ Missing(first, last)[i].test = first + i - 1
             /\ Missing(first, last)[i].status = "missing"
             /\ Missing(first, last)[i].log = <<>>
    <2>1. Missing(first, last)[i] = TestPacket(first + i - 1, "missing", <<>>)
        BY <1>6
    <2> QED
        BY <2>1 DEF TestPacket
<1> QED
    BY <1>5, <1>7 DEF size

LEMMA NumbersMissing ==
    ASSUME NEW p \in Seq(Packets), NEW q \in Seq(Packets), NEW whole,
           Adds(whole, p, q), NEW n \in Nat, NEW m \in Nat, NumbersAre(p, None, n),
           Len(q) = m, \A i \in 1 .. m : q[i].test = n + i
    PROVE  NumbersAre(whole, None, n + m)
<1>1. Len(whole) = Len(p) + m /\ Len(p) \in Nat
    BY DEF Adds
<1>2. \A i \in 1 .. Len(p) : whole[i] = p[i] /\ i \in 1 .. Len(whole)
    BY <1>1 DEF Adds
<1>3. ASSUME NEW i \in 1 .. m
      PROVE  whole[Len(p) + i].test = n + i /\ Len(p) + i \in 1 .. Len(whole)
    <2>1. q[i].test = n + i /\ i \in 1 .. Len(q)
        OBVIOUS
    <2>2. whole[Len(p) + i] = q[i]
        BY <2>1 DEF Adds
    <2> QED
        BY <1>1, <2>1, <2>2
<1>4. \A i \in 1 .. Len(whole) : i \notin 1 .. Len(p) => i - Len(p) \in 1 .. m
    BY <1>1
<1>5. \A i \in 1 .. Len(whole) : i \notin 1 .. Len(p) => whole[i].test = n + (i - Len(p))
    <2> TAKE i \in 1 .. Len(whole)
    <2> HAVE i \notin 1 .. Len(p)
    <2>1. i - Len(p) \in 1 .. m /\ Len(p) + (i - Len(p)) = i
        BY <1>1, <1>4
    <2> QED
        BY <1>3, <2>1
<1>6. ASSUME NEW i \in 1 .. Len(whole)
      PROVE  whole[i].test \in {Bail, File} \cup (1 .. n + m)
    <2>1. CASE i \in 1 .. Len(p)
        BY <1>2, <2>1 DEF NumbersAre
    <2>2. CASE i \notin 1 .. Len(p)
        <3>1. i - Len(p) \in 1 .. m /\ whole[i].test = n + (i - Len(p))
            BY <1>4, <1>5, <2>2
        <3>2. n + (i - Len(p)) \in 1 .. n + m
            BY <3>1
        <3> QED
            BY <3>1, <3>2
    <2> QED
        BY <2>1, <2>2
<1>7. ASSUME NEW k \in 1 .. n + m
      PROVE  \E i \in 1 .. Len(whole) : whole[i].test = k
    <2>1. CASE k <= n
        <3>1. \E i \in 1 .. Len(p) : p[i].test = k
            BY <2>1, Distinct DEF NumbersAre
        <3> QED
            BY <1>2, <3>1
    <2>2. CASE k > n
        <3>1. k - n \in 1 .. m /\ n + (k - n) = k
            BY <2>2
        <3> QED
            BY <1>3, <3>1
    <2> QED
        BY <2>1, <2>2
<1>8. ASSUME NEW i \in 1 .. Len(whole), NEW j \in 1 .. Len(whole),
             i < j, Counted(whole[i].test), Counted(whole[j].test)
      PROVE  whole[i].test < whole[j].test
    <2>1. CASE j \in 1 .. Len(p)
        <3>1. i \in 1 .. Len(p)
            BY <1>8, <2>1
        <3> QED
            BY <1>2, <1>8, <2>1, <3>1 DEF NumbersAre
    <2>2. CASE j \notin 1 .. Len(p) /\ i \in 1 .. Len(p)
        <3>1. whole[j].test = n + (j - Len(p)) /\ j - Len(p) \in 1 .. m
            BY <1>4, <1>5, <2>2
        <3>2. whole[i].test \in 1 .. n
            BY <1>2, <1>8, <2>2 DEF NumbersAre, Counted
        <3> QED
            BY <1>1, <3>1, <3>2
    <2>3. CASE j \notin 1 .. Len(p) /\ i \notin 1 .. Len(p)
        BY <1>1, <1>5, <1>8, <2>3
    <2> QED
        BY <2>1, <2>2, <2>3
<1>9. ~Counted(None)
    BY DEF Counted
<1> QED
    BY <1>6, <1>7, <1>8, <1>9 DEF NumbersAre

\* The next test, or a bail-out, is held back.
LEMMA NumbersHeld ==
    ASSUME NEW p \in Seq(Packets), NEW n \in Nat, NumbersAre(p, None, n)
    PROVE  NumbersAre(p, n + 1, n + 1) /\ NumbersAre(p, Bail, n)
<1>1. \A i \in 1 .. Len(p) : Counted(p[i].test) => p[i].test \in 1 .. n
    BY DEF NumbersAre, Counted
<1>2. ASSUME NEW m \in 1 .. n PROVE \E i \in 1 .. Len(p) : p[i].test = m
    <2>1. None # m
        BY Distinct
    <2> QED
        BY <2>1 DEF NumbersAre
<1>3. NumbersAre(p, n + 1, n + 1)
    <2>1. \A i \in 1 .. Len(p) : p[i].test \in {Bail, File} \cup (1 .. n + 1)
        BY DEF NumbersAre
    <2>2. \A m \in 1 .. n + 1 : m = n + 1 \/ m \in 1 .. n
        OBVIOUS
    <2> QED
        BY <1>1, <1>2, <2>1, <2>2 DEF NumbersAre
<1>4. NumbersAre(p, Bail, n)
    BY <1>2 DEF NumbersAre, Counted
<1> QED
    BY <1>3, <1>4

-------------------------------------------------------------------------------
LEMMA RealsAre ==
    ASSUME NEW p \in Seq(Packets), NEW i \in 0 .. Len(p)
    PROVE  /\ IsFiniteSet({j \in 1 .. i : Real(p[j])}) /\ Reals(p, i) \in Nat
           /\ Reals(p, i) <= Reals(p, Len(p))
           /\ i > 0 /\ Real(p[i]) => Reals(p, i) > 0
<1> DEFINE S == {j \in 1 .. i : Real(p[j])}
           All == {j \in 1 .. Len(p) : Real(p[j])}
<1>1. IsFiniteSet(1 .. i) /\ IsFiniteSet(1 .. Len(p))
    BY FS_Interval
<1>2. IsFiniteSet(S) /\ IsFiniteSet(All) /\ S \subseteq All
    BY <1>1, FS_Subset
<1>3. Cardinality(S) \in Nat /\ Cardinality(S) <= Cardinality(All)
    BY <1>2, FS_Subset, FS_CardinalityType
<1>4. ASSUME i > 0, Real(p[i]) PROVE Cardinality(S) > 0
    <2>1. i \in S
        BY <1>4
    <2> HIDE DEF S
    <2>2. Cardinality(S) # 0
        BY <1>2, <2>1, FS_EmptySet
    <2> QED
        BY <1>3, <2>2
<1> QED
    BY <1>2, <1>3, <1>4 DEF Reals

\* Counting in a longer list.
LEMMA RealsOfLonger ==
    ASSUME NEW p \in Seq(Packets), NEW q \in Seq(Packets), NEW whole, Adds(whole, p, q)
    PROVE  /\ \A i \in 0 .. Len(p) : Reals(whole, i) = Reals(p, i)
           /\ (\A i \in 1 .. Len(q) : ~Real(q[i])) => Reals(whole, Len(whole)) = Reals(p, Len(p))
<1>1. ASSUME NEW i \in 0 .. Len(p)
      PROVE  {j \in 1 .. i : Real(whole[j])} = {j \in 1 .. i : Real(p[j])}
    <2>1. \A j \in 1 .. i : whole[j] = p[j]
        BY DEF Adds
    <2> QED
        BY <2>1
<1>2. ASSUME \A i \in 1 .. Len(q) : ~Real(q[i])
      PROVE  {j \in 1 .. Len(whole) : Real(whole[j])} = {j \in 1 .. Len(p) : Real(p[j])}
    <2>1. Len(whole) = Len(p) + Len(q) /\ Len(p) \in Nat /\ Len(q) \in Nat
        BY DEF Adds
    <2>2. \A j \in 1 .. Len(p) : whole[j] = p[j] /\ j \in 1 .. Len(whole)
        BY <2>1 DEF Adds
    <2>3. ASSUME NEW j \in 1 .. Len(whole), j \notin 1 .. Len(p)
          PROVE  ~Real(whole[j])
        <3>1. j - Len(p) \in 1 .. Len(q) /\ Len(p) + (j - Len(p)) = j
            BY <2>1, <2>3
        <3>2. whole[Len(p) + (j - Len(p))] = q[j - Len(p)]
            BY <3>1 DEF Adds
        <3> QED
            BY <1>2, <3>1, <3>2
    <2> QED
        BY <2>2, <2>3
<1> QED
    BY <1>1, <1>2 DEF Reals

LEMMA RealAdded ==
    ASSUME NEW p \in Seq(Packets), NEW x \in Packets, NEW whole, Adds(whole, p, <<x>>), Real(x)
    PROVE  Reals(whole, Len(whole)) = Reals(p, Len(p)) + 1
<1> DEFINE S == {j \in 1 .. Len(p) : Real(p[j])}
<1>1. Len(whole) = Len(p) + 1 /\ whole[Len(p) + 1] = x /\ Len(p) \in Nat
    BY PacketOf
<1>2. \A j \in 1 .. Len(p) : whole[j] = p[j]
    BY DEF Adds
<1>3. {j \in 1 .. Len(whole) : Real(whole[j])} = S \cup {Len(p) + 1}
    BY <1>1, <1>2
<1>4. Len(p) + 1 \notin S
    BY <1>1
<1>5. IsFiniteSet(S) /\ Len(p) \in 0 .. Len(p)
    BY <1>1, RealsAre
<1> HIDE DEF S
<1>6. Cardinality(S \cup {Len(p) + 1}) = Cardinality(S) + 1
    BY <1>4, <1>5, FS_AddElement
<1> QED
    BY <1>3, <1>6 DEF Reals, S

\* What does not come from a result changes nothing.
LEMMA ResultsOthers ==
    ASSUME NEW p \in Seq(Packets), NEW q \in Seq(Packets), NEW whole, Adds(whole, p, q),
           NEW held, NEW status, NEW results, ResultsAre(p, held, status, results),
           \A i \in 1 .. Len(q) : ~Real(q[i])
    PROVE  ResultsAre(whole, held, status, results)
<1>1. Len(whole) = Len(p) + Len(q) /\ Len(p) \in Nat /\ Len(q) \in Nat
    BY DEF Adds
<1>2. \A i \in 0 .. Len(p) : Reals(whole, i) = Reals(p, i)
    BY RealsOfLonger
<1>3. Reals(whole, Len(whole)) = Reals(p, Len(p))
    BY RealsOfLonger
<1>4. ASSUME NEW i \in 1 .. Len(whole), Real(whole[i])
      PROVE  i \in 1 .. Len(p)
    <2> SUFFICES ASSUME i \notin 1 .. Len(p) PROVE FALSE
        OBVIOUS
    <2>1. i - Len(p) \in 1 .. Len(q) /\ Len(p) + (i - Len(p)) = i
        BY <1>1
    <2>2. whole[Len(p) + (i - Len(p))] = q[i - Len(p)]
        BY <2>1 DEF Adds
    <2> QED
        BY <1>4, <2>1, <2>2
<1>5. \A i \in 1 .. Len(p) : whole[i] = p[i]
    BY DEF Adds
<1> QED
    BY <1>2, <1>3, <1>4, <1>5 DEF ResultsAre

\* The result held back is emitted.
LEMMA ResultsEmit ==
    ASSUME NEW p \in Seq(Packets), NEW x \in Packets, NEW whole, Adds(whole, p, <<x>>),
           Real(x), x.test # None, NEW status, NEW results \in Seq(Outcomes),
           ResultsAre(p, x.test, x.status, results)
    PROVE  ResultsAre(whole, None, status, results)
<1>1. Len(whole) = Len(p) + 1 /\ whole[Len(p) + 1] = x /\ Len(p) \in Nat
    BY PacketOf
<1>2. \A i \in 1 .. Len(p) : whole[i] = p[i]
    BY DEF Adds
<1>3. Reals(whole, Len(whole)) = Reals(p, Len(p)) + 1
    BY RealAdded
<1>4. \A i \in 0 .. Len(p) : Reals(whole, i) = Reals(p, i)
    <2>1. <<x>> \in Seq(Packets)
        OBVIOUS
    <2> QED
        BY <2>1, RealsOfLonger
<1>5. Reals(p, Len(p)) + 1 = Len(results) /\ x.status = results[Len(results)]
    BY DEF ResultsAre
<1>6. Len(results) \in 1 .. Len(results)
    <2>1. Len(p) \in 0 .. Len(p)
        BY <1>1
    <2>2. Reals(p, Len(p)) \in Nat
        BY <2>1, RealsAre
    <2> QED
        BY <1>5, <2>2
<1>7. ASSUME NEW i \in 1 .. Len(whole), Real(whole[i])
      PROVE  Reals(whole, i) \in 1 .. Len(results) /\ whole[i].status = results[Reals(whole, i)]
    <2>1. CASE i = Len(whole)
        BY <1>1, <1>3, <1>5, <1>6, <2>1
    <2>2. CASE i # Len(whole)
        <3>1. i \in 1 .. Len(p)
            BY <1>1, <2>2
        <3> QED
            BY <1>2, <1>4, <1>7, <3>1 DEF ResultsAre
    <2> QED
        BY <2>1, <2>2
<1>8. Len(results) \in Nat
    OBVIOUS
<1>9. Reals(whole, Len(whole)) + 0 = Len(results)
    BY <1>3, <1>5, <1>8
<1> QED
    BY <1>7, <1>9 DEF ResultsAre

\* A result is read and held back.
LEMMA ResultsHeld ==
    ASSUME NEW p \in Seq(Packets), NEW old, NEW results \in Seq(Outcomes),
           NEW status \in Outcomes, NEW test, test # None,
           ResultsAre(p, None, old, results)
    PROVE  ResultsAre(p, test, status, Append(results, status))
<1>1. /\ Len(Append(results, status)) = Len(results) + 1 /\ Len(results) \in Nat
      /\ Append(results, status)[Len(results) + 1] = status
      /\ \A i \in 1 .. Len(results) : Append(results, status)[i] = results[i]
    OBVIOUS
<1> DEFINE more == Append(results, status)
<1> HIDE DEF more
<1>2. Len(more) = Len(results) + 1 /\ more[Len(more)] = status
    BY <1>1 DEF more
<1>3. \A i \in 1 .. Len(results) : more[i] = results[i] /\ i \in 1 .. Len(more)
    BY <1>1, <1>2 DEF more
<1>4. Reals(p, Len(p)) + 0 = Len(results)
    BY DEF ResultsAre
<1>5. Reals(p, Len(p)) \in Nat
    <2>1. Len(p) \in 0 .. Len(p)
        OBVIOUS
    <2> QED
        BY <2>1, RealsAre
<1>6. Reals(p, Len(p)) + 1 = Len(more)
    BY <1>1, <1>2, <1>4, <1>5
<1>7. \A i \in 1 .. Len(p) :
          Real(p[i]) => Reals(p, i) \in 1 .. Len(more) /\ p[i].status = more[Reals(p, i)]
    BY <1>3 DEF ResultsAre
<1> QED
    BY <1>2, <1>6, <1>7 DEF ResultsAre, more

-------------------------------------------------------------------------------
\* Where a comment goes does not depend on what is behind it.
LEMMA LogsOfLonger ==
    ASSUME NEW p \in Seq(Packets), NEW q \in Seq(Packets), NEW whole, Adds(whole, p, q),
           NEW comments, NEW others, NEW i \in 1 .. Len(p)
    PROVE  At(whole, others, i) = At(p, comments, i) /\ i \in 1 .. Len(whole)
<1>1. Len(whole) = Len(p) + Len(q) /\ Len(p) \in Nat /\ Len(q) \in Nat /\ whole[i] = p[i]
    BY DEF Adds
<1>2. i \in 1 .. Len(whole)
    BY <1>1
<1> QED
    BY <1>1, <1>2 DEF At

LEMMA LogIsLast ==
    ASSUME NEW p \in Seq(Packets), NEW comments
    PROVE  At(p, comments, Len(p) + 1) = comments
<1>1. Len(p) + 1 \notin 1 .. Len(p)
    OBVIOUS
<1> QED
    BY <1>1 DEF At

\* Packets without a log change nothing.
LEMMA OrderOthers ==
    ASSUME NEW p \in Seq(Packets), NEW q \in Seq(Packets), NEW whole, Adds(whole, p, q),
           NEW comments \in Seq(Nat), NEW n \in Nat, InOrder(p, comments, n),
           \A i \in 1 .. Len(q) : q[i].log = <<>>
    PROVE  InOrder(whole, comments, n)
<1> DEFINE Place(i) == IF i \in 1 .. Len(p) THEN i ELSE Len(p) + 1
<1>1. Len(whole) = Len(p) + Len(q) /\ Len(p) \in Nat /\ Len(q) \in Nat
    BY DEF Adds
<1>2. \A i \in 1 .. Len(p) : At(whole, comments, i) = At(p, comments, i)
    BY LogsOfLonger
<1>3. At(p, comments, Len(p) + 1) = comments /\ At(whole, comments, Len(whole) + 1) = comments
    BY LogIsLast DEF Adds
<1>4. ASSUME NEW i \in 1 .. Len(whole), i \notin 1 .. Len(p)
      PROVE  At(whole, comments, i) = <<>>
    <2>1. i - Len(p) \in 1 .. Len(q) /\ Len(p) + (i - Len(p)) = i
        BY <1>1, <1>4
    <2>2. whole[Len(p) + (i - Len(p))] = q[i - Len(p)]
        BY <2>1 DEF Adds
    <2>3. At(whole, comments, i) = whole[i].log
        BY DEF At
    <2> QED
        BY <2>1, <2>2, <2>3
<1>5. ASSUME NEW i \in 1 .. Len(whole) + 1, NEW k \in 1 .. Len(At(whole, comments, i))
      PROVE  /\ i \in 1 .. Len(p) \/ i = Len(whole) + 1
             /\ At(whole, comments, i) = At(p, comments, Place(i))
             /\ Place(i) \in 1 .. Len(p) + 1
    <2>1. i \in 1 .. Len(p) \/ i = Len(whole) + 1
        <3> SUFFICES ASSUME i \notin 1 .. Len(p), i # Len(whole) + 1 PROVE FALSE
            OBVIOUS
        <3>1. Len(whole) \in Nat
            BY <1>1
        <3>2. i \in 1 .. Len(whole)
            BY <3>1
        <3>3. At(whole, comments, i) = <<>>
            BY <1>4, <3>2
        <3>4. k \in 1 .. 0
            BY <3>3
        <3> QED
            BY <3>4
    <2>2. CASE i \in 1 .. Len(p)
        BY <1>1, <1>2, <2>2
    <2>3. CASE i = Len(whole) + 1
        <3>1. i \notin 1 .. Len(p)
            BY <1>1, <2>3
        <3> QED
            BY <1>1, <1>3, <2>3, <3>1
    <2> QED
        BY <2>1, <2>2, <2>3
<1>6. ASSUME NEW i \in 1 .. Len(whole) + 1, NEW j \in 1 .. Len(whole) + 1,
             NEW k \in 1 .. Len(At(whole, comments, i)), NEW l \in 1 .. Len(At(whole, comments, j)),
             i < j \/ (i = j /\ k < l)
      PROVE  At(whole, comments, i)[k] < At(whole, comments, j)[l]
    <2>1. /\ At(whole, comments, i) = At(p, comments, Place(i)) /\ Place(i) \in 1 .. Len(p) + 1
          /\ At(whole, comments, j) = At(p, comments, Place(j)) /\ Place(j) \in 1 .. Len(p) + 1
        BY <1>5
    <2>2. Place(i) < Place(j) \/ (Place(i) = Place(j) /\ k < l)
        <3>1. (i \in 1 .. Len(p) \/ i = Len(whole) + 1) /\ (j \in 1 .. Len(p) \/ j = Len(whole) + 1)
            BY <1>5
        <3>2. CASE i < j
            BY <1>1, <3>1, <3>2
        <3>3. CASE i = j /\ k < l
            BY <3>3
        <3> QED
            BY <1>6, <3>2, <3>3
    <2> HIDE DEF Place
    <2> QED
        BY <2>1, <2>2 DEF InOrder
<1>7. ASSUME NEW m \in 1 .. n
      PROVE  \E i \in 1 .. Len(whole) + 1 :
                \E k \in 1 .. Len(At(whole, comments, i)) : At(whole, comments, i)[k] = m
    <2>1. PICK i \in 1 .. Len(p) + 1 :
             \E k \in 1 .. Len(At(p, comments, i)) : At(p, comments, i)[k] = m
        BY DEF InOrder
    <2>2. CASE i \in 1 .. Len(p)
        <3>1. i \in 1 .. Len(whole) + 1
            BY <1>1, <2>2
        <3> QED
            BY <1>2, <2>1, <2>2, <3>1
    <2>3. CASE i = Len(p) + 1
        <3>1. Len(whole) + 1 \in 1 .. Len(whole) + 1
            BY <1>1
        <3> QED
            BY <1>3, <2>1, <2>3, <3>1
    <2> QED
        BY <1>1, <2>2, <2>3
<1> QED
    BY <1>6, <1>7 DEF InOrder

\* The comments held back are emitted.
LEMMA OrderEmit ==
    ASSUME NEW p \in Seq(Packets), NEW x \in Packets, NEW whole, Adds(whole, p, <<x>>),
           NEW n \in Nat, InOrder(p, x.log, n)
    PROVE  InOrder(whole, <<>>, n)
<1>1. Len(whole) = Len(p) + 1 /\ whole[Len(p) + 1] = x /\ Len(p) \in Nat
    BY PacketOf
<1>2. ASSUME NEW i \in 1 .. Len(p) + 1
      PROVE  At(whole, <<>>, i) = At(p, x.log, i) /\ i \in 1 .. Len(whole)
    <2>1. i \in 1 .. Len(whole)
        BY <1>1
    <2>2. At(whole, <<>>, i) = whole[i].log
        BY <2>1 DEF At
    <2>3. CASE i \in 1 .. Len(p)
        BY <2>1, <2>2, <2>3 DEF At, Adds
    <2>4. CASE i = Len(p) + 1
        BY <1>1, <2>1, <2>2, <2>4, LogIsLast
    <2> QED
        BY <2>3, <2>4
<1>3. whole \in Seq(Packets) /\ At(whole, <<>>, Len(whole) + 1) = <<>>
    BY LogIsLast DEF Adds
<1>4. ASSUME NEW i \in 1 .. Len(whole) + 1, NEW k \in 1 .. Len(At(whole, <<>>, i))
      PROVE  i \in 1 .. Len(p) + 1
    <2> SUFFICES ASSUME i = Len(whole) + 1 PROVE FALSE
        BY <1>1
    <2> QED
        BY <1>3
<1>5. ASSUME NEW i \in 1 .. Len(whole) + 1, NEW j \in 1 .. Len(whole) + 1,
             NEW k \in 1 .. Len(At(whole, <<>>, i)), NEW l \in 1 .. Len(At(whole, <<>>, j)),
             i < j \/ (i = j /\ k < l)
      PROVE  At(whole, <<>>, i)[k] < At(whole, <<>>, j)[l]
    <2>1. i \in 1 .. Len(p) + 1 /\ j \in 1 .. Len(p) + 1
        BY <1>4
    <2>2. At(whole, <<>>, i) = At(p, x.log, i) /\ At(whole, <<>>, j) = At(p, x.log, j)
        BY <1>2, <2>1
    <2> QED
        BY <1>5, <2>1, <2>2 DEF InOrder
<1>6. ASSUME NEW m \in 1 .. n
      PROVE  \E i \in 1 .. Len(whole) + 1 :
                \E k \in 1 .. Len(At(whole, <<>>, i)) : At(whole, <<>>, i)[k] = m
    <2>1. PICK i \in 1 .. Len(p) + 1 : \E k \in 1 .. Len(At(p, x.log, i)) : At(p, x.log, i)[k] = m
        BY DEF InOrder
    <2>2. At(whole, <<>>, i) = At(p, x.log, i) /\ i \in 1 .. Len(whole) + 1
        BY <1>1, <1>2
    <2> QED
        BY <2>1, <2>2
<1> QED
    BY <1>5, <1>6 DEF InOrder

\* Another comment is read.
LEMMA OrderNoted ==
    ASSUME NEW p \in Seq(Packets), NEW comments \in Seq(Nat), NEW n \in Nat,
           InOrder(p, comments, n), NEW about, Len(about) = n,
           AllAbout(p, about), NEW test, IsAbout(comments, test, about)
    PROVE  InOrder(p, Append(comments, n + 1), n + 1)
<1> DEFINE more == Append(comments, n + 1)
<1>1. /\ Len(more) = Len(comments) + 1 /\ Len(comments) \in Nat /\ more[Len(comments) + 1] = n + 1
      /\ \A k \in 1 .. Len(comments) : more[k] = comments[k]
    OBVIOUS
<1> HIDE DEF more
<1>2. \A i \in 1 .. Len(p) : At(p, more, i) = At(p, comments, i)
    BY DEF At
<1>3. At(p, more, Len(p) + 1) = more /\ At(p, comments, Len(p) + 1) = comments
    BY LogIsLast
<1>4. Len(p) \in Nat
    OBVIOUS
<1>5. ASSUME NEW i \in 1 .. Len(p) + 1, NEW k \in 1 .. Len(At(p, comments, i))
      PROVE  At(p, comments, i)[k] \in 1 .. n
    <2>1. CASE i \in 1 .. Len(p)
        BY <2>1 DEF At, AllAbout, IsAbout
    <2>2. CASE i = Len(p) + 1
        BY <1>3, <2>2 DEF IsAbout
    <2> QED
        BY <1>4, <2>1, <2>2
<1>6. ASSUME NEW i \in 1 .. Len(p) + 1, NEW k \in 1 .. Len(At(p, more, i)),
             ~(i = Len(p) + 1 /\ k = Len(more))
      PROVE  k \in 1 .. Len(At(p, comments, i)) /\ At(p, more, i)[k] = At(p, comments, i)[k]
    <2>1. CASE i \in 1 .. Len(p)
        BY <1>2, <2>1
    <2>2. CASE i = Len(p) + 1
        BY <1>1, <1>3, <1>6, <2>2
    <2> QED
        BY <1>4, <2>1, <2>2
<1>7. ASSUME NEW i \in 1 .. Len(p) + 1, NEW j \in 1 .. Len(p) + 1,
             NEW k \in 1 .. Len(At(p, more, i)), NEW l \in 1 .. Len(At(p, more, j)),
             i < j \/ (i = j /\ k < l)
      PROVE  At(p, more, i)[k] < At(p, more, j)[l]
    <2>1. ~(i = Len(p) + 1 /\ k = Len(more))
        BY <1>1, <1>3, <1>4, <1>7
    <2>2. k \in 1 .. Len(At(p, comments, i)) /\ At(p, more, i)[k] = At(p, comments, i)[k]
        BY <1>6, <2>1
    <2>3. CASE j = Len(p) + 1 /\ l = Len(more)
        <3>1. At(p, more, j)[l] = n + 1
            BY <1>1, <1>3, <2>3
        <3>2. At(p, more, i)[k] \in 1 .. n
            BY <1>5, <2>2
        <3> QED
            BY <3>1, <3>2
    <2>4. CASE ~(j = Len(p) + 1 /\ l = Len(more))
        <3>1. l \in 1 .. Len(At(p, comments, j)) /\ At(p, more, j)[l] = At(p, comments, j)[l]
            BY <1>6, <2>4
        <3> QED
            BY <1>7, <2>2, <3>1 DEF InOrder
    <2> QED
        BY <2>3, <2>4
<1>8. ASSUME NEW m \in 1 .. n + 1
      PROVE  \E i \in 1 .. Len(p) + 1 : \E k \in 1 .. Len(At(p, more, i)) : At(p, more, i)[k] = m
    <2>1. CASE m = n + 1
        <3>1. Len(p) + 1 \in 1 .. Len(p) + 1 /\ Len(more) \in 1 .. Len(more)
            BY <1>1, <1>4
        <3> QED
            BY <1>1, <1>3, <2>1, <3>1
    <2>2. CASE m \in 1 .. n
        <3>1. PICK i \in 1 .. Len(p) + 1 :
                 \E k \in 1 .. Len(At(p, comments, i)) : At(p, comments, i)[k] = m
            BY <2>2 DEF InOrder
        <3>2. PICK k \in 1 .. Len(At(p, comments, i)) : At(p, comments, i)[k] = m
            BY <3>1
        <3>3. k \in 1 .. Len(At(p, more, i)) /\ At(p, more, i)[k] = At(p, comments, i)[k]
            <4>1. CASE i \in 1 .. Len(p)
                BY <1>2, <4>1
            <4>2. CASE i = Len(p) + 1
                BY <1>1, <1>3, <4>2
            <4> QED
                BY <1>4, <4>1, <4>2
        <3> QED
            BY <3>2, <3>3
    <2> QED
        BY <2>1, <2>2
<1> QED
    BY <1>7, <1>8 DEF InOrder, more

LEMMA StaysAbout ==
    ASSUME NEW p \in Seq(Packets), NEW about \in Seq(Names \cup {None}), NEW x,
           NEW comments \in Seq(Nat), NEW test
    PROVE  /\ AllAbout(p, about) => AllAbout(p, Append(about, x))
           /\ IsAbout(comments, test, about) => IsAbout(comments, test, Append(about, x))
           /\ IsAbout(comments, test, about) /\ x \in {test, None} =>
                 IsAbout(Append(comments, Len(about) + 1), test, Append(about, x))
<1> DEFINE more == Append(about, x)
<1>1. /\ Len(more) = Len(about) + 1 /\ Len(about) \in Nat /\ more[Len(about) + 1] = x
      /\ \A k \in 1 .. Len(about) : more[k] = about[k]
    OBVIOUS
<1> HIDE DEF more
<1>2. \A k \in 1 .. Len(about) : k \in 1 .. Len(more) /\ more[k] = about[k]
    BY <1>1
<1>3. ASSUME NEW s, NEW t, IsAbout(s, t, about) PROVE IsAbout(s, t, more)
    BY <1>2, <1>3 DEF IsAbout
<1>4. AllAbout(p, about) => AllAbout(p, more)
    BY <1>3 DEF AllAbout
<1>5. ASSUME IsAbout(comments, test, about), x \in {test, None}
      PROVE  IsAbout(Append(comments, Len(about) + 1), test, more)
    <2> DEFINE longer == Append(comments, Len(about) + 1)
    <2>1. /\ Len(longer) = Len(comments) + 1 /\ Len(comments) \in Nat
          /\ longer[Len(comments) + 1] = Len(about) + 1
          /\ \A k \in 1 .. Len(comments) : longer[k] = comments[k]
        BY <1>1
    <2> HIDE DEF longer
    <2>2. IsAbout(comments, test, more)
        BY <1>3, <1>5
    <2>3. ASSUME NEW k \in 1 .. Len(longer)
          PROVE  longer[k] \in 1 .. Len(more) /\ more[longer[k]] \in {test, None}
        <3>1. CASE k = Len(comments) + 1
            BY <1>1, <1>5, <2>1, <3>1
        <3>2. CASE k \in 1 .. Len(comments)
            BY <2>1, <2>2, <3>2 DEF IsAbout
        <3> QED
            BY <2>1, <3>1, <3>2
    <2> QED
        BY <2>3 DEF IsAbout, longer
<1> QED
    BY <1>3, <1>4, <1>5 DEF more

-------------------------------------------------------------------------------
(* TapIsConsistent is an inductive invariant. *)

LEMMA InitIsConsistent == TapInit => TapIsConsistent
<1> SUFFICES ASSUME TapInit PROVE TapIsConsistent
    OBVIOUS
<1>1. Len(<<>>) = 0 /\ written = <<>> /\ given = <<>> /\ remarks = <<>> /\ log = <<>>
    BY DEF TapInit
<1>2. Typed /\ Ends
    BY DEF TapInit, Typed, Ends
<1>3. NumbersAre(written, test_name, plan_start - 1)
    BY <1>1 DEF TapInit, NumbersAre
<1>4. ResultsAre(written, test_name, result, given)
    <2>1. {j \in 1 .. 0 : Real(written[j])} = {}
        OBVIOUS
    <2>2. Reals(written, Len(written)) = 0
        BY <1>1, <2>1, FS_EmptySet DEF Reals
    <2> QED
        BY <1>1, <2>2 DEF TapInit, ResultsAre
<1>5. InOrder(written, log, Len(remarks))
    BY <1>1 DEF InOrder, At
<1>6. AllAbout(written, remarks) /\ IsAbout(log, test_name, remarks)
    BY <1>1 DEF AllAbout, IsAbout
<1> QED
    BY <1>2, <1>3, <1>4, <1>5, <1>6 DEF TapIsConsistent

\* What it says of the packets.
Tells(packets, held, status, comments, n) ==
    /\ packets \in Seq(Packets) /\ comments \in Seq(Nat)
    /\ NumbersAre(packets, held, n)
    /\ ResultsAre(packets, held, status, given)
    /\ InOrder(packets, comments, Len(remarks))
    /\ AllAbout(packets, remarks) /\ IsAbout(comments, held, remarks)

\* After _emit_test nothing is held back.
LEMMA EmittedTells ==
    ASSUME TapIsConsistent
    PROVE  Tells(written \o Emitted, None, result, LogLeft, plan_start - 1)
<1>1. CASE test_name = None
    <2>1. written \o Emitted = written /\ LogLeft = log
        BY <1>1 DEF Emitted, LogLeft, TapIsConsistent, Typed
    <2> QED
        BY <1>1, <2>1 DEF Tells, TapIsConsistent, Typed
<1>2. CASE test_name # None
    <2> DEFINE x == TestPacket(test_name, result, log)
               whole == written \o <<x>>
    <2>1. x \in Packets /\ x.test = test_name /\ x.status = result /\ x.log = log
        BY <1>2 DEF TestPacket, Packets, TapIsConsistent, Typed, Names
    <2>2. Real(x)
        BY <1>2, <2>1, Distinct DEF Real, TapIsConsistent, Typed, Names, Outcomes
    <2> HIDE DEF x
    <2>3. written \in Seq(Packets) /\ <<x>> \in Seq(Packets)
        BY <2>1 DEF TapIsConsistent, Typed
    <2>4. Adds(whole, written, <<x>>)
        BY <2>3, Concatenated
    <2> HIDE DEF whole
    <2>5. NumbersAre(whole, None, plan_start - 1)
        BY <2>1, <2>3, <2>4, NumbersEmit DEF TapIsConsistent
    <2>6. ResultsAre(whole, None, result, given)
        BY <1>2, <2>1, <2>2, <2>3, <2>4, ResultsEmit DEF TapIsConsistent, Typed
    <2>7. InOrder(whole, <<>>, Len(remarks))
        <3>1. Len(remarks) \in Nat
            BY DEF TapIsConsistent, Typed
        <3> QED
            BY <2>1, <2>3, <2>4, <3>1, OrderEmit DEF TapIsConsistent
    <2>8. AllAbout(whole, remarks) /\ IsAbout(<<>>, None, remarks)
        <3>1. Len(whole) = Len(written) + 1 /\ whole[Len(written) + 1] = x
            BY <2>3, <2>4, PacketOf
        <3>2. \A i \in 1 .. Len(whole) : i \in 1 .. Len(written) \/ i = Len(written) + 1
            BY <2>3, <3>1
        <3>3. \A i \in 1 .. Len(written) : whole[i] = written[i]
            BY <2>4 DEF Adds
        <3>4. IsAbout(x.log, x.test, remarks)
            BY <2>1 DEF TapIsConsistent
        <3>5. AllAbout(whole, remarks)
            BY <3>1, <3>2, <3>3, <3>4 DEF AllAbout, TapIsConsistent
        <3>6. Len(<<>>) = 0
            OBVIOUS
        <3> QED
            BY <3>5, <3>6 DEF IsAbout
    <2>9. whole \in Seq(Packets) /\ <<>> \in Seq(Nat)
        BY <2>4 DEF Adds
    <2>10. written \o Emitted = whole /\ LogLeft = <<>>
        BY <1>2 DEF Emitted, LogLeft, whole, x
    <2> QED
        BY <2>5, <2>6, <2>7, <2>8, <2>9, <2>10 DEF Tells
<1> QED
    BY <1>1, <1>2

\* Tests that are missing fill the numbers up.
LEMMA MissingTells ==
    ASSUME NEW packets, NEW status, NEW comments, NEW n \in Nat, NEW last \in Int,
           last >= n, Typed, Tells(packets, None, status, comments, n)
    PROVE  Tells(packets \o Missing(n + 1, last), None, status, comments, last)
<1> DEFINE q == Missing(n + 1, last)
           whole == packets \o q
<1>1. /\ q \in Seq(Packets) /\ Len(q) = last - n
      /\ \A i \in 1 .. last - n : q[i].test = n + i /\ q[i].status = "missing" /\ q[i].log = <<>>
    <2>1. n + 1 \in Nat /\ last >= (n + 1) - 1 /\ last - (n + 1) + 1 = last - n
        OBVIOUS
    <2>2. \A i \in 1 .. last - n : (n + 1) + i - 1 = n + i
        OBVIOUS
    <2> QED
        BY <2>1, <2>2, MissingIs
<1>2. last - n \in Nat /\ n + (last - n) = last
    OBVIOUS
<1> HIDE DEF q
<1>3. packets \in Seq(Packets) /\ Adds(whole, packets, q)
    BY <1>1, Concatenated DEF Tells
<1> HIDE DEF whole
<1>4. NumbersAre(whole, None, last)
    <2>1. NumbersAre(whole, None, n + (last - n))
        BY <1>1, <1>2, <1>3, NumbersMissing DEF Tells
    <2> QED
        BY <1>2, <2>1
<1>5. \A i \in 1 .. Len(q) : ~Real(q[i]) /\ q[i].log = <<>>
    BY <1>1 DEF Real
<1>6. ResultsAre(whole, None, status, given)
    BY <1>1, <1>3, <1>5, ResultsOthers DEF Tells
<1>7. InOrder(whole, comments, Len(remarks))
    <2>1. Len(remarks) \in Nat
        BY DEF Typed
    <2> QED
        BY <1>1, <1>3, <1>5, <2>1, OrderOthers DEF Tells
<1>8. AllAbout(whole, remarks)
    <2>1. Len(whole) = Len(packets) + Len(q) /\ Len(packets) \in Nat /\ Len(q) \in Nat
        BY <1>1, <1>3 DEF Adds
    <2>2. ASSUME NEW i \in 1 .. Len(whole)
          PROVE  IsAbout(whole[i].log, whole[i].test, remarks)
        <3>1. CASE i \in 1 .. Len(packets)
            BY <1>3, <3>1 DEF Adds, Tells, AllAbout
        <3>2. CASE i \notin 1 .. Len(packets)
            <4>1. i - Len(packets) \in 1 .. Len(q) /\ Len(packets) + (i - Len(packets)) = i
                BY <2>1, <3>2
            <4>2. whole[Len(packets) + (i - Len(packets))] = q[i - Len(packets)]
                BY <1>3, <4>1 DEF Adds
            <4>3. whole[i].log = <<>>
                BY <1>5, <4>1, <4>2
            <4>4. Len(<<>>) = 0
                OBVIOUS
            <4> QED
                BY <4>3, <4>4 DEF IsAbout
        <3> QED
            BY <3>1, <3>2
    <2> QED
        BY <2>2 DEF AllAbout
<1>9. whole \in Seq(Packets)
    BY <1>3 DEF Adds
<1> QED
    BY <1>4, <1>6, <1>7, <1>8, <1>9 DEF Tells, whole, q

LEMMA NumberedType ==
    ASSUME TapIsConsistent, NEW number \in {None} \cup Nat
    PROVE  Numbered(number) \in Nat /\ Numbered(number) >= plan_start
BY DEF TapIsConsistent, Typed, Numbered

LEMMA ResultLineKeeps ==
    ASSUME TapIsConsistent, NEW ok \in BOOLEAN, NEW reason \in BOOLEAN,
           NEW number \in {None} \cup Nat, NEW directive \in {"none", "TODO", "SKIP"},
           ResultLine(ok, number, directive, reason)
    PROVE  TapIsConsistent'
<1> DEFINE name == Numbered(number)
<1>1. name \in Nat /\ name >= plan_start /\ plan_start \in Nat \ {0} /\ plan_start - 1 \in Nat
    BY NumberedType DEF TapIsConsistent, Typed
<1>2. /\ written' = (written \o Emitted) \o Missing(plan_start, name - 1)
      /\ test_name' = name /\ plan_start' = name + 1 /\ plan_stop' = plan_stop /\ outcome = "open"
      /\ given' = Append(given, result') /\ outcome' = outcome
      /\ \/ log' = LogLeft /\ remarks' = remarks
         \/ Noted(LogLeft, name)
    BY DEF ResultLine
<1>3. result' \in Outcomes
    BY DEF ResultLine, StatusFor, Outcomes
<1> HIDE DEF name
<1>4. Tells(written', None, result, LogLeft, name - 1)
    <2>1. Tells(written \o Emitted, None, result, LogLeft, plan_start - 1)
        BY EmittedTells
    <2>2. Typed /\ name - 1 \in Int /\ name - 1 >= plan_start - 1 /\ (plan_start - 1) + 1 = plan_start
        BY <1>1 DEF TapIsConsistent
    <2>3. Tells((written \o Emitted) \o Missing((plan_start - 1) + 1, name - 1), None, result, LogLeft, name - 1)
        BY <1>1, <2>1, <2>2, MissingTells
    <2> QED
        BY <1>2, <2>2, <2>3
<1>5. NumbersAre(written', name, name)
    <2>1. name - 1 \in Nat /\ (name - 1) + 1 = name
        BY <1>1
    <2>2. NumbersAre(written', (name - 1) + 1, (name - 1) + 1)
        BY <1>4, <2>1, NumbersHeld DEF Tells
    <2> QED
        BY <2>1, <2>2
<1>6. ResultsAre(written', name, result', given')
    <2>1. name # None
        BY <1>1, Distinct
    <2> QED
        BY <1>2, <1>3, <1>4, <2>1, ResultsHeld DEF Tells, TapIsConsistent, Typed
<1>7. /\ log' \in Seq(Nat) /\ remarks' \in Seq(Names \cup {None})
      /\ InOrder(written', log', Len(remarks'))
      /\ AllAbout(written', remarks') /\ IsAbout(log', name, remarks')
    <2>1. Len(remarks) \in Nat /\ remarks \in Seq(Names \cup {None})
        BY DEF TapIsConsistent, Typed
    <2>2. IsAbout(LogLeft, name, remarks)
        <3>1. CASE test_name = None
            BY <3>1 DEF LogLeft, IsAbout, TapIsConsistent
        <3>2. CASE test_name # None
            <4>1. LogLeft = <<>> /\ Len(<<>>) = 0
                BY <3>2 DEF LogLeft
            <4> QED
                BY <4>1 DEF IsAbout
        <3> QED
            BY <3>1, <3>2
    <2>3. CASE log' = LogLeft /\ remarks' = remarks
        BY <1>4, <2>1, <2>2, <2>3 DEF Tells
    <2>4. CASE Noted(LogLeft, name)
        <3>1. Len(remarks') = Len(remarks) + 1 /\ remarks' = Append(remarks, name)
            BY <2>1, <2>4 DEF Noted
        <3>2. log' = Append(LogLeft, Len(remarks) + 1)
            BY <2>4, <3>1 DEF Noted
        <3>3. LogLeft \in Seq(Nat) /\ written' \in Seq(Packets) /\ AllAbout(written', remarks)
            BY <1>4 DEF Tells
        <3>4. InOrder(written', log', Len(remarks'))
            <4>1. InOrder(written', Append(LogLeft, Len(remarks) + 1), Len(remarks) + 1)
                BY <1>4, <2>1, <2>2, <3>3, OrderNoted DEF Tells
            <4> QED
                BY <3>1, <3>2, <4>1
        <3>5. AllAbout(written', remarks') /\ IsAbout(log', name, remarks')
            BY <2>1, <2>2, <3>1, <3>2, <3>3, StaysAbout
        <3>6. log' \in Seq(Nat) /\ remarks' \in Seq(Names \cup {None})
            BY <1>1, <2>1, <3>1, <3>2, <3>3 DEF Names
        <3> QED
            BY <3>4, <3>5, <3>6
    <2> QED
        BY <1>2, <2>3, <2>4
<1>8. written' \in Seq(Packets)
    BY <1>4 DEF Tells
<1>9. given' \in Seq(Outcomes)
    BY <1>2, <1>3 DEF TapIsConsistent, Typed
<1>10. Typed'
    BY <1>1, <1>2, <1>3, <1>7, <1>8, <1>9 DEF Typed, TapIsConsistent, Names
<1>11. Ends'
    <2>1. test_name' # None
        BY <1>1, <1>2, Distinct
    <2> QED
        BY <1>2, <2>1 DEF Ends
<1>12. plan_start' - 1 = name
    BY <1>1, <1>2
<1> QED
    BY <1>2, <1>5, <1>6, <1>7, <1>10, <1>11, <1>12 DEF TapIsConsistent

LEMMA BailOutKeeps ==
    ASSUME TapIsConsistent, BailOut
    PROVE  TapIsConsistent'
<1>1. /\ written' = written \o Emitted /\ test_name' = Bail /\ result' = "fail"
      /\ log' = LogLeft /\ given' = Append(given, "fail")
      /\ plan_start' = plan_start /\ plan_stop' = plan_stop /\ remarks' = remarks
      /\ outcome' = outcome /\ outcome = "open"
    BY DEF BailOut
<1>2. Tells(written', None, result, log', plan_start - 1)
    BY <1>1, EmittedTells
<1>3. plan_start - 1 \in Nat /\ "fail" \in Outcomes
    BY DEF TapIsConsistent, Typed, Outcomes
<1>4. NumbersAre(written', Bail, plan_start - 1)
    BY <1>2, <1>3, NumbersHeld DEF Tells
<1>5. ResultsAre(written', Bail, "fail", Append(given, "fail"))
    BY <1>2, <1>3, Distinct, ResultsHeld DEF Tells, TapIsConsistent, Typed
<1>6. IsAbout(log', Bail, remarks)
    <2>1. CASE test_name = None
        BY <1>1, <2>1 DEF LogLeft, IsAbout, TapIsConsistent
    <2>2. CASE test_name # None
        <3>1. log' = <<>> /\ Len(<<>>) = 0
            BY <1>1, <2>2 DEF LogLeft
        <3> QED
            BY <3>1 DEF IsAbout
    <2> QED
        BY <2>1, <2>2
<1>7. Typed'
    BY <1>1, <1>2, <1>3 DEF Typed, Tells, TapIsConsistent, Names
<1>8. Ends'
    BY <1>1, Distinct DEF Ends
<1> QED
    BY <1>1, <1>2, <1>4, <1>5, <1>6, <1>7, <1>8 DEF TapIsConsistent, Tells

LEMMA CommentKeeps ==
    ASSUME TapIsConsistent, Comment
    PROVE  TapIsConsistent'
<1>1. /\ remarks' = Append(remarks, test_name) /\ log' = Append(log, Len(remarks'))
      /\ plan_start' = plan_start /\ plan_stop' = plan_stop /\ test_name' = test_name
      /\ result' = result /\ written' = written /\ given' = given /\ outcome' = outcome
    BY DEF Comment, Noted
<1>2. /\ remarks \in Seq(Names \cup {None}) /\ test_name \in Names \cup {None}
      /\ log \in Seq(Nat) /\ written \in Seq(Packets) /\ Len(remarks) \in Nat
    BY DEF TapIsConsistent, Typed
<1>3. Len(remarks') = Len(remarks) + 1 /\ log' = Append(log, Len(remarks) + 1)
    BY <1>1, <1>2
<1>4. InOrder(written, Append(log, Len(remarks) + 1), Len(remarks) + 1)
    BY <1>2, OrderNoted DEF TapIsConsistent
<1>5. AllAbout(written, remarks') /\ IsAbout(log', test_name, remarks')
    BY <1>1, <1>2, <1>3, StaysAbout DEF TapIsConsistent
<1>6. Typed'
    <2>1. log' \in Seq(Nat) /\ remarks' \in Seq(Names \cup {None})
        BY <1>1, <1>2, <1>3
    <2> QED
        BY <1>1, <2>1 DEF Typed, TapIsConsistent
<1>7. Ends'
    BY <1>1 DEF TapIsConsistent, Ends, Comment
<1> QED
    BY <1>1, <1>3, <1>4, <1>5, <1>6, <1>7 DEF TapIsConsistent

LEMMA SkipFileKeeps ==
    ASSUME TapIsConsistent, NEW reason \in BOOLEAN, SkipFile(reason)
    PROVE  TapIsConsistent'
<1> DEFINE x == TestPacket(File, "skip", <<>>)
<1>1. /\ plan_start' = plan_start /\ plan_stop' = 0 /\ test_name' = test_name /\ log' = log
      /\ result' = result /\ given' = given /\ remarks' = remarks
      /\ outcome = "open" /\ outcome' \in {"open", "raised"}
    BY DEF SkipFile
<1>2. written' = written \/ written' = Append(written, x)
    BY DEF SkipFile
<1>3. written \in Seq(Packets) /\ log \in Seq(Nat) /\ Len(remarks) \in Nat
    BY DEF TapIsConsistent, Typed
<1>4. x \in Packets /\ x.test = File /\ x.log = <<>>
    BY DEF TestPacket, Packets, Outcomes
<1> HIDE DEF x
<1>5. CASE written' = written
    BY <1>1, <1>5 DEF TapIsConsistent, Typed, Ends
<1>6. CASE written' = Append(written, x)
    <2>1. written' = written \o <<x>> /\ <<x>> \in Seq(Packets)
        BY <1>3, <1>4, <1>6, AppendIsConcat
    <2>2. Adds(written', written, <<x>>)
        BY <1>3, <2>1, Concatenated
    <2>3. \A i \in 1 .. Len(<<x>>) : ~Real(<<x>>[i]) /\ <<x>>[i].log = <<>>
        BY <1>4 DEF Real
    <2>4. NumbersAre(written', test_name, plan_start - 1)
        BY <1>3, <1>4, <2>2, NumbersFile DEF TapIsConsistent
    <2>5. ResultsAre(written', test_name, result, given)
        BY <1>3, <2>1, <2>2, <2>3, ResultsOthers DEF TapIsConsistent
    <2>6. InOrder(written', log, Len(remarks))
        BY <1>3, <2>1, <2>2, <2>3, OrderOthers DEF TapIsConsistent
    <2>7. AllAbout(written', remarks)
        <3>1. Len(written') = Len(written) + 1 /\ written'[Len(written) + 1] = x
            BY <1>3, <2>2, PacketOf
        <3>2. \A i \in 1 .. Len(written') : i \in 1 .. Len(written) \/ i = Len(written) + 1
            BY <1>3, <3>1
        <3>3. \A i \in 1 .. Len(written) : written'[i] = written[i]
            BY <2>2 DEF Adds
        <3>4. IsAbout(x.log, x.test, remarks)
            <4>1. Len(<<>>) = 0
                OBVIOUS
            <4> QED
                BY <1>4, <4>1 DEF IsAbout
        <3> QED
            BY <3>1, <3>2, <3>3, <3>4 DEF AllAbout, TapIsConsistent
    <2>8. Typed' /\ Ends'
        BY <1>1, <2>2 DEF Typed, Ends, TapIsConsistent, Adds
    <2> QED
        BY <1>1, <2>4, <2>5, <2>6, <2>7, <2>8 DEF TapIsConsistent
<1> QED
    BY <1>2, <1>5, <1>6

LEMMA EofKeeps ==
    ASSUME TapIsConsistent, EndOfTap
    PROVE  TapIsConsistent'
<1>1. /\ written' = (written \o Emitted) \o Missing(plan_start, plan_stop)
      /\ plan_start' = IF plan_start > plan_stop THEN plan_start ELSE plan_stop + 1
      /\ test_name' = None /\ log' = LogLeft /\ outcome' = "done"
      /\ plan_stop' = plan_stop /\ result' = result /\ given' = given /\ remarks' = remarks
    BY DEF EndOfTap, HeldAtEof
<1>2. plan_start \in Nat \ {0} /\ plan_stop \in Nat /\ plan_start - 1 \in Nat
    BY DEF TapIsConsistent, Typed
<1>3. Tells(written \o Emitted, None, result, LogLeft, plan_start - 1)
    BY EmittedTells
<1>4. Tells(written', None, result, LogLeft, plan_start' - 1)
    <2>1. CASE plan_start > plan_stop
        <3>1. Missing(plan_start, plan_stop) = <<>>
            <4>1. 1 .. plan_stop - plan_start + 1 = {}
                BY <1>2, <2>1
            <4> QED
                BY <4>1 DEF Missing
        <3>2. written' = written \o Emitted
            BY <1>1, <1>3, <3>1 DEF Tells
        <3> QED
            BY <1>1, <1>3, <2>1, <3>2
    <2>2. CASE plan_start <= plan_stop
        <3>1. plan_stop \in Int /\ plan_stop >= plan_start - 1 /\ (plan_start - 1) + 1 = plan_start
            BY <1>2, <2>2
        <3>2. Tells((written \o Emitted) \o Missing((plan_start - 1) + 1, plan_stop), None, result, LogLeft, plan_stop)
            BY <1>2, <1>3, <3>1, MissingTells DEF TapIsConsistent
        <3>3. plan_start' - 1 = plan_stop
            BY <1>1, <1>2, <2>2
        <3> QED
            BY <1>1, <3>1, <3>2, <3>3
    <2> QED
        BY <1>2, <2>1, <2>2
<1>5. Typed'
    BY <1>1, <1>2, <1>4 DEF Typed, Tells, TapIsConsistent
<1>6. Ends'
    <2>1. given # <<>> => LogLeft = <<>>
        BY DEF TapIsConsistent, Ends, LogLeft, EndOfTap
    <2> QED
        BY <1>1, <1>2, <2>1 DEF Ends
<1> QED
    BY <1>1, <1>4, <1>5, <1>6 DEF TapIsConsistent, Tells

LEMMA TapNextKeeps ==
    TapIsConsistent /\ [TapNext]_tapVars => TapIsConsistent'
<1> SUFFICES ASSUME TapIsConsistent, [TapNext]_tapVars PROVE TapIsConsistent'
    OBVIOUS
<1>1. ASSUME NEW stop \in 1 .. MaxNumber, PlanLine(stop) PROVE TapIsConsistent'
    <2>1. stop \in Nat
        BY TapBounds
    <2>2. Typed' /\ Ends'
        BY <1>1, <2>1 DEF PlanLine, TapIsConsistent, Typed, Ends
    <2> QED
        BY <1>1, <2>2 DEF PlanLine, TapIsConsistent
<1>2. ASSUME NEW reason \in BOOLEAN, SkipFile(reason) PROVE TapIsConsistent'
    BY <1>2, SkipFileKeeps
<1>3. ASSUME NEW ok \in BOOLEAN, NEW reason \in BOOLEAN, NEW number \in {None} \cup (0 .. MaxNumber),
             NEW directive \in {"none", "TODO", "SKIP"}, ResultLine(ok, number, directive, reason)
      PROVE  TapIsConsistent'
    <2>1. number \in {None} \cup Nat
        BY TapBounds
    <2> QED
        BY <1>3, <2>1, ResultLineKeeps
<1>4. CASE BailOut
    BY <1>4, BailOutKeeps
<1>5. CASE Comment
    BY <1>5, CommentKeeps
<1>6. CASE EndOfTap
    BY <1>6, EofKeeps
<1>7. CASE UNCHANGED tapVars
    BY <1>7 DEF tapVars, parser, TapIsConsistent, Typed, Ends
<1> QED
    BY <1>1, <1>2, <1>3, <1>4, <1>5, <1>6, <1>7 DEF TapNext

LEMMA TapInvariance ==
    TapSpec => []TapIsConsistent
<1>1. TapInit => TapIsConsistent
    BY InitIsConsistent
<1>2. TapIsConsistent /\ [TapNext]_tapVars => TapIsConsistent'
    BY TapNextKeeps
<1> QED
    BY <1>1, <1>2, PTL DEF TapSpec

-------------------------------------------------------------------------------
(* What the run checks, for scripts of any length. *)

LEMMA NamedIs ==
    ASSUME Typed
    PROVE  /\ Len(written) \in Nat
           /\ \A i \in 1 .. Len(written) : Named[i] = written[i].test
           /\ test_name = None => DOMAIN Named = 1 .. Len(written)
           /\ test_name # None => /\ DOMAIN Named = 1 .. Len(written) + 1
                                  /\ Named[Len(written) + 1] = test_name
<1> DEFINE tests == [i \in DOMAIN written |-> written[i].test]
<1>1. written \in Seq(Packets) /\ Len(written) \in Nat /\ DOMAIN written = 1 .. Len(written)
    BY DEF Typed
<1>2. ASSUME NEW i \in 1 .. Len(written) PROVE written[i].test \in Nat \cup {Bail, File}
    <2>1. written[i] \in Packets
        BY <1>1
    <2> QED
        BY <2>1 DEF Packets
<1>3. tests \in Seq(Nat \cup {Bail, File}) /\ Len(tests) = Len(written)
    BY <1>1, <1>2
<1>4. \A i \in 1 .. Len(written) : tests[i] = written[i].test
    BY <1>1
<1> HIDE DEF tests
<1>5. CASE test_name = None
    <2>1. Named = tests
        BY <1>3, <1>5 DEF Named, Held, tests
    <2> QED
        BY <1>1, <1>3, <1>4, <1>5, <2>1
<1>6. CASE test_name # None
    <2>1. Named = tests \o <<test_name>>
        BY <1>6 DEF Named, Held, tests
    <2>2. tests \in Seq(Nat \cup {Bail, File, test_name}) /\ <<test_name>> \in Seq(Nat \cup {Bail, File, test_name})
        BY <1>3
    <2>3. /\ Len(<<test_name>>) = 1 /\ <<test_name>>[1] = test_name
          /\ 1 \in 1 .. Len(<<test_name>>)
        OBVIOUS
    <2>4. /\ Named \in Seq(Nat \cup {Bail, File, test_name})
          /\ Len(Named) = Len(tests) + 1
          /\ \A i \in 1 .. Len(tests) : Named[i] = tests[i]
          /\ Named[Len(tests) + 1] = test_name
        BY <2>1, <2>2, <2>3, ConcatProperties
    <2>5. DOMAIN Named = 1 .. Len(written) + 1
        BY <1>3, <2>4
    <2> QED
        BY <1>1, <1>3, <1>4, <1>6, <2>4, <2>5
<1> QED
    BY <1>5, <1>6

\* Tests get the numbers 1, 2, 3 and so on, each once, and the plan is filled up.
THEOREM NumbersAreUsedOnce ==
    TapSpec => []NumberedOnce
<1>1. ASSUME TapIsConsistent PROVE NumberedOnce
    <2> USE <1>1 DEF TapIsConsistent
    <2>1. plan_start - 1 \in Nat /\ Len(written) \in Nat
        BY NamedIs DEF Typed
    <2>2. \A i \in DOMAIN Named :
             \/ i \in 1 .. Len(written) /\ Named[i] = written[i].test
             \/ i = Len(written) + 1 /\ test_name # None /\ Named[i] = test_name
        BY <2>1, NamedIs
    <2>3. \A i \in 1 .. Len(written) : i \in DOMAIN Named /\ Named[i] = written[i].test
        BY <2>1, NamedIs
    <2>4. ASSUME NEW i \in DOMAIN Named, Named[i] \notin {Bail, File}
          PROVE  Named[i] \in 1 .. plan_start - 1
        BY <2>2, <2>4 DEF NumbersAre
    <2>5. ASSUME NEW m \in 1 .. plan_start - 1
          PROVE  m \notin {Bail, File} /\ \E i \in DOMAIN Named : Named[i] = m
        <3>1. m \notin {None, Bail, File}
            BY Distinct
        <3>2. CASE test_name = m
            <4>1. Len(written) + 1 \in DOMAIN Named /\ Named[Len(written) + 1] = m
                BY <2>1, <3>1, <3>2, NamedIs
            <4> QED
                BY <3>1, <4>1
        <3>3. CASE \E i \in 1 .. Len(written) : written[i].test = m
            BY <2>3, <3>1, <3>3
        <3> QED
            BY <3>2, <3>3 DEF NumbersAre
    <2>6. {Named[i] : i \in DOMAIN Named} \ {Bail, File} = 1 .. plan_start - 1
        BY <2>4, <2>5
    <2>7. ASSUME NEW i \in DOMAIN Named, NEW j \in DOMAIN Named,
                 i < j, Counted(Named[i]), Counted(Named[j])
          PROVE  Named[i] < Named[j]
        <3>1. i \in 1 .. Len(written) /\ Named[i] = written[i].test
            BY <2>1, <2>2, <2>7
        <3>2. CASE j \in 1 .. Len(written)
            BY <2>3, <2>7, <3>1, <3>2 DEF NumbersAre
        <3>3. CASE Named[j] = test_name
            BY <2>7, <3>1, <3>3 DEF NumbersAre
        <3> QED
            BY <2>2, <3>2, <3>3
    <2> QED
        BY <2>6, <2>7 DEF NumberedOnce, Ends
<1> QED
    BY <1>1, TapInvariance, PTL

\* Each result is written once and in order, but for the one that is held back.
THEOREM ResultsComeInOrder ==
    TapSpec => []ResultsInOrder
<1>1. ASSUME TapIsConsistent PROVE ResultsInOrder
    <2>1. \A i : RealUpTo(i) = Reals(written, i)
        BY DEF RealUpTo, Reals
    <2>2. Len(Held) = IF test_name = None THEN 0 ELSE 1
        BY DEF Held
    <2>3. DOMAIN written = 1 .. Len(written)
        BY <1>1 DEF TapIsConsistent, Typed
    <2> QED
        BY <1>1, <2>1, <2>2, <2>3 DEF TapIsConsistent, ResultsAre, ResultsInOrder
<1> QED
    BY <1>1, TapInvariance, PTL

\* Each comment is written once, in order, with the test it is about, unless the
\* script has no result.
THEOREM CommentsStayWithTheirTest ==
    TapSpec => []CommentsStay
<1>1. ASSUME TapIsConsistent PROVE CommentsStay
    <2> DEFINE logs == [i \in DOMAIN written |-> written[i].log]
    <2>1. /\ written \in Seq(Packets) /\ Len(written) \in Nat /\ log \in Seq(Nat)
          /\ DOMAIN written = 1 .. Len(written) /\ remarks \in Seq(Names \cup {None})
        BY <1>1 DEF TapIsConsistent, Typed
    <2>2. ASSUME NEW i \in 1 .. Len(written) PROVE written[i].log \in Seq(Nat)
        <3>1. written[i] \in Packets
            BY <2>1
        <3> QED
            BY <3>1 DEF Packets
    <2>3. /\ logs \in Seq(Seq(Nat)) /\ Len(logs) = Len(written)
          /\ \A i \in 1 .. Len(written) : logs[i] = written[i].log
        BY <2>1, <2>2
    <2>4. Logs = logs \o <<log>>
        BY DEF Logs
    <2> HIDE DEF logs
    <2>5. <<log>> \in Seq(Seq(Nat)) /\ Len(<<log>>) = 1 /\ <<log>>[1] = log /\ 1 \in 1 .. Len(<<log>>)
        BY <2>1
    <2>6. /\ Logs \in Seq(Seq(Nat)) /\ Len(Logs) = Len(written) + 1
          /\ \A i \in 1 .. Len(written) : Logs[i] = logs[i]
          /\ Logs[Len(written) + 1] = log
        BY <2>3, <2>4, <2>5, ConcatProperties
    <2>7. DOMAIN Logs = 1 .. Len(written) + 1
        BY <2>6
    <2>8. ASSUME NEW i \in DOMAIN Logs
          PROVE  Logs[i] = At(written, log, i) /\ DOMAIN Logs[i] = 1 .. Len(At(written, log, i))
        <3>1. Logs[i] \in Seq(Nat)
            BY <2>6, <2>7
        <3>2. CASE i \in 1 .. Len(written)
            BY <2>3, <2>6, <3>1, <3>2 DEF At
        <3>3. CASE i = Len(written) + 1
            BY <2>1, <2>6, <3>1, <3>3, LogIsLast
        <3> QED
            BY <2>1, <2>7, <3>2, <3>3
    <2>9. \A i, j \in DOMAIN Logs : \A k \in DOMAIN Logs[i], l \in DOMAIN Logs[j] :
             i < j \/ (i = j /\ k < l) => Logs[i][k] < Logs[j][l]
        BY <1>1, <2>7, <2>8 DEF TapIsConsistent, InOrder
    <2>10. ASSUME NEW n \in DOMAIN remarks PROVE Arrived(n) \/ Waiting(n) \/ Dropped
        <3>1. PICK i \in 1 .. Len(written) + 1 :
                 \E k \in 1 .. Len(At(written, log, i)) : At(written, log, i)[k] = n
            <4>1. DOMAIN remarks = 1 .. Len(remarks)
                BY <2>1
            <4> QED
                BY <1>1, <4>1 DEF TapIsConsistent, InOrder
        <3>2. CASE i \in 1 .. Len(written)
            <4>1. DOMAIN written[i].log = 1 .. Len(written[i].log)
                BY <2>2, <3>2
            <4> QED
                BY <2>1, <3>1, <3>2, <4>1 DEF Arrived, At
        <3>3. CASE i \notin 1 .. Len(written)
            <4>1. \E k \in 1 .. Len(log) : log[k] = n
                BY <3>1, <3>3 DEF At
            <4>2. log # <<>> /\ DOMAIN log = 1 .. Len(log)
                BY <2>1, <4>1
            <4>3. outcome \in {"open", "done", "raised"}
                BY <1>1 DEF TapIsConsistent, Typed
            <4> QED
                BY <1>1, <4>1, <4>2, <4>3 DEF TapIsConsistent, Ends, Waiting, Dropped
        <3> QED
            BY <3>2, <3>3
    <2>11. ASSUME NEW i \in DOMAIN written, NEW k \in DOMAIN written[i].log
           PROVE  /\ written[i].log[k] \in DOMAIN remarks
                  /\ remarks[written[i].log[k]] \in {written[i].test, None}
        <3>1. k \in 1 .. Len(written[i].log) /\ DOMAIN remarks = 1 .. Len(remarks)
            BY <2>1, <2>2
        <3> QED
            BY <1>1, <2>1, <3>1 DEF TapIsConsistent, AllAbout, IsAbout
    <2> QED
        BY <2>9, <2>10, <2>11 DEF CommentsStay
<1> QED
    BY <1>1, TapInvariance, PTL
===============================================================================
