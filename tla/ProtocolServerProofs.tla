-------------------------- MODULE ProtocolServerProofs --------------------------
(***************************************************************************)
(* Proofs about the version 1 parser, for every set of test labels and     *)
(* every bound on the details, and about isolated runs of any suite.       *)
(***************************************************************************)
EXTENDS IsolatedRun, SequenceTheorems, WellFoundedInduction, TLAPS

\* The words and the classes of arguments are distinct, and no line class is
\* both a directive and text.
LEMMA LineFacts ==
    ASSUME NEW line \in Lines
    PROVE  /\ Token(line) \in Texts
           /\ line.cmd \in {"test"} \cup OutcomeWords \cup Notes \cup {"text"}
           /\ line.cmd \in {"test"} \cup OutcomeWords => line.name \in Names
  BY DEF Lines, StartLines, OutcomeLines, NoteLines, TextLines, Token, Texts,
         OutcomeWords, Outcomes, Notes

\* An outcome word stands for an outcome.
LEMMA OutcomeOfType ==
    ASSUME NEW line, line.cmd \in OutcomeWords
    PROVE  OutcomeOf(line) \in Outcomes
  BY DEF OutcomeOf, OutcomeWords, Outcomes

\* What a multipart parser goes to next is a phase of a multipart parser.
LEMMA MultipartNextType ==
    ASSUME NEW token, NEW part \in MultipartNext(token) \ {"raise"}
    PROVE  part \in Phases \ {"none", "simple"}
  BY DEF MultipartNext, Phases

\* Every variable keeps its range.
THEOREM TypeCorrect == Spec => []TypeOK
<1>1. Init => TypeOK
  <2> SUFFICES ASSUME Init PROVE TypeOK
    OBVIOUS
  <2>1. last \in TextLines
    BY DEF Init, TextLines, Texts
  <2>2. message \in Seq(Texts)
    BY DEF Init
  <2>3. QED
    BY <2>1, <2>2 DEF Init, TypeOK, Lines, Phases
<1>2. TypeOK /\ [Next]_vars => TypeOK'
  <2> SUFFICES ASSUME TypeOK, [Next]_vars PROVE TypeOK'
    OBVIOUS
  <2>1. CASE readLine
    <3>1. PICK line \in Lines : lineReceived(line)
      BY <2>1 DEF readLine
    <3>2. /\ last' \in Lines /\ eof' \in BOOLEAN
      BY <3>1 DEF lineReceived, TypeOK
    <3>3. line.cmd \in {"test"} \cup OutcomeWords => line.name \in Names
      BY LineFacts
    <3> USE DEF TypeOK, parserVars, stdOutLineReceived, subunitLineReceived, Raise,
                ForgetDescription
    <3>4. CASE startTest(line)
      BY <3>2, <3>3, <3>4 DEF startTest
    <3>5. CASE startTestUndecodable(line)
      BY <3>2, <3>5 DEF startTestUndecodable
    <3>6. CASE outcomeOutside(line) \/ uxsuccessOutside(line) \/ outcomeUndecodable(line)
      BY <3>2, <3>6 DEF outcomeOutside, uxsuccessOutside, outcomeUndecodable
    <3>7. CASE outcomePlain(line)
      BY <3>2, <3>7 DEF outcomePlain
    <3>8. CASE outcomeDetails(line)
      BY <3>2, <3>8, OutcomeOfType DEF outcomeDetails, Phases
    <3>9. CASE passThroughInTest(line) \/ unknownLine(line)
      BY <3>2, <3>9 DEF passThroughInTest, unknownLine
    <3>10. CASE note(line) \/ noteMalformed(line)
      BY <3>2, <3>10 DEF note, noteMalformed
    <3>11. CASE endDetails(line)
      BY <3>2, <3>11 DEF endDetails, Phases
    <3>12. CASE simpleLine(line)
      <4>1. Unquote(Token(line)) \in Texts
        BY LineFacts DEF Unquote, Texts
      <4>2. QED
        BY <3>2, <3>12, <4>1 DEF simpleLine
    <3>13. CASE multipartLine(line)
      <4>1. message' \in Seq(Texts)
        BY <3>13, LineFacts DEF multipartLine
      <4>2. phase' \in Phases
        BY <3>13, MultipartNextType DEF multipartLine
      <4>3. QED
        BY <3>2, <3>13, <4>1, <4>2 DEF multipartLine
    <3>14. CASE multipartRaises(line)
      BY <3>2, <3>14 DEF multipartRaises
    <3>15. QED
      BY <3>1, <3>4, <3>5, <3>6, <3>7, <3>8, <3>9, <3>10, <3>11, <3>12, <3>13, <3>14
         DEF lineReceived
  <2>2. CASE lostConnection
    BY <2>2 DEF lostConnection, TypeOK, parserVars
  <2>3. CASE UNCHANGED vars
    BY <2>3 DEF vars, parserVars, TypeOK
  <2>4. QED
    BY <2>1, <2>2, <2>3 DEF Next
<1>3. QED
  BY <1>1, <1>2, PTL DEF Spec

\* The parser's state, its current description, its current test and its
\* details parser stay in agreement.
THEOREM StateAgreement == Spec => []StateAgrees
<1>1. Init => StateAgrees
  BY DEF Init, StateAgrees, InDetails, Outcomes
<1>2. TypeOK /\ StateAgrees /\ [Next]_vars => StateAgrees'
  <2> SUFFICES ASSUME TypeOK, StateAgrees, [Next]_vars PROVE StateAgrees'
    OBVIOUS
  <2> USE DEF StateAgrees, InDetails, Outcomes
  <2>1. CASE readLine
    <3>1. PICK line \in Lines : lineReceived(line)
      BY <2>1 DEF readLine
    <3>2. ~raised
      BY <3>1 DEF lineReceived, Reading
    <3>3. line.cmd \in {"test"} \cup OutcomeWords => line.name # None
      BY LineFacts, NoneAssumption
    <3> USE DEF parserVars, stdOutLineReceived, subunitLineReceived, Raise, ForgetDescription
    <3>4. CASE startTest(line)
      BY <3>2, <3>3, <3>4 DEF startTest
    <3>5. CASE startTestUndecodable(line)
      BY <3>2, <3>5 DEF startTestUndecodable
    <3>6. CASE outcomeOutside(line) \/ uxsuccessOutside(line) \/ outcomeUndecodable(line)
      BY <3>2, <3>6 DEF outcomeOutside, uxsuccessOutside, outcomeUndecodable
    <3>7. CASE outcomePlain(line)
      BY <3>2, <3>7 DEF outcomePlain
    <3>8. CASE outcomeDetails(line)
      <4>1. OutcomeOf(line) \in Outcomes
        BY <3>8, OutcomeOfType DEF outcomeDetails
      <4>2. QED
        BY <3>2, <3>8, <4>1 DEF outcomeDetails
    <3>9. CASE passThroughInTest(line) \/ unknownLine(line)
      BY <3>2, <3>9 DEF passThroughInTest, unknownLine
    <3>10. CASE note(line) \/ noteMalformed(line)
      BY <3>2, <3>10 DEF note, noteMalformed
    <3>11. CASE endDetails(line)
      BY <3>2, <3>11 DEF endDetails
    <3>12. CASE simpleLine(line)
      BY <3>2, <3>12 DEF simpleLine
    <3>13. CASE multipartLine(line)
      <4>1. phase' # "none"
        BY <3>13, MultipartNextType DEF multipartLine
      <4>2. QED
        BY <3>2, <3>13, <4>1 DEF multipartLine
    <3>14. CASE multipartRaises(line)
      BY <3>2, <3>14 DEF multipartRaises
    <3>15. QED
      BY <3>1, <3>4, <3>5, <3>6, <3>7, <3>8, <3>9, <3>10, <3>11, <3>12, <3>13, <3>14
         DEF lineReceived
  <2>2. CASE lostConnection
    BY <2>2 DEF lostConnection, parserVars
  <2>3. CASE UNCHANGED vars
    BY <2>3 DEF vars, parserVars
  <2>4. QED
    BY <2>1, <2>2, <2>3 DEF Next
<1>3. QED
  BY <1>1, <1>2, TypeCorrect, PTL DEF Spec
-------------------------------------------------------------------------------
\* All calls but the progress calls are those of tests.
LEMMA WithoutProgressIs ==
    /\ WithoutProgress(<<>>) = <<>>
    /\ \A op, t : WithoutProgress(<<Call(op, t)>>) = IF op = "progress" THEN <<>> ELSE <<Call(op, t)>>
    /\ \A t, outcome : outcome \in Outcomes =>
          WithoutProgress(<<Call(outcome, t), Call("stopTest", t)>>)
              = <<Call(outcome, t), Call("stopTest", t)>>
<1>1. WithoutProgress(<<>>) = <<>>
  BY DEF WithoutProgress
<1>2. ASSUME NEW op, NEW t
      PROVE  WithoutProgress(<<Call(op, t)>>) = IF op = "progress" THEN <<>> ELSE <<Call(op, t)>>
  <2> DEFINE list == <<Call(op, t)>>
  <2>1. DOMAIN list = {1} /\ list[1].op = op
    BY DEF Call
  <2>2. (\E i \in DOMAIN list : list[i].op = "progress") <=> op = "progress"
    BY <2>1
  <2> QED
    BY <2>2 DEF WithoutProgress
<1>3. ASSUME NEW t, NEW outcome \in Outcomes
      PROVE  WithoutProgress(<<Call(outcome, t), Call("stopTest", t)>>)
                 = <<Call(outcome, t), Call("stopTest", t)>>
  <2> DEFINE list == <<Call(outcome, t), Call("stopTest", t)>>
  <2>1. DOMAIN list = {1, 2} /\ list[1].op = outcome /\ list[2].op = "stopTest"
    BY DEF Call
  <2>2. outcome # "progress"
    BY DEF Outcomes
  <2>3. ~(\E i \in DOMAIN list : list[i].op = "progress")
    BY <2>1, <2>2
  <2> QED
    BY <2>3 DEF WithoutProgress
<1> QED
  BY <1>1, <1>2, <1>3

\* The client of the parser sees a TestRun: every step of the parser is a step
\* of TestRun or leaves its variables alone.  Progress calls do not show in it.
THEOREM Refinement == Spec => RefinesTestRun
<1>1. Init => TR!Init
  BY WithoutProgressIs DEF Init, TR!Init
<1>2. TypeOK /\ StateAgrees /\ [Next]_vars => [TR!Next]_(TR!vars)
  <2> SUFFICES ASSUME TypeOK, StateAgrees, [Next]_vars PROVE [TR!Next]_(TR!vars)
    OBVIOUS
  <2> USE WithoutProgressIs DEF TR!vars, TR!Call, Call, Silent, Tell, Close
  <2>1. CASE readLine
    <3>1. PICK line \in Lines : lineReceived(line)
      BY <2>1 DEF readLine
    <3>2. ~raised /\ eof = FALSE /\ eof' = FALSE
      BY <3>1 DEF lineReceived, Reading, TypeOK
    <3>3. line.cmd \in {"test"} \cup OutcomeWords => line.name \in Names
      BY LineFacts
    <3>4. ASSUME Silent, UNCHANGED desc PROVE TR!Next
      BY <3>2, <3>4 DEF TR!Next, TR!Quiet
    <3>5. ASSUME NEW outcome \in Outcomes, desc # None, desc' = None,
                 Close(outcome, test, reported') PROVE TR!Next
      <4>1. TR!Finish(outcome)
        BY <3>2, <3>5 DEF TR!Finish, TR!Closing, StateAgrees
      <4>2. QED
        BY <4>1 DEF TR!Next
    <3> USE DEF parserVars, Raise, ForgetDescription
    <3>6. CASE startTest(line)
      <4>1. TR!Start(line.name)
        BY <3>2, <3>3, <3>6 DEF startTest, StateAgrees, TR!Start
      <4>2. QED
        BY <3>3, <3>6, <4>1 DEF startTest, TR!Next
    <3>7. CASE outcomePlain(line)
      BY <3>2, <3>5, <3>7, OutcomeOfType DEF outcomePlain, StateAgrees
    <3>8. CASE endDetails(line)
      BY <3>2, <3>5, <3>8 DEF endDetails, StateAgrees, InDetails, Outcomes
    <3>9. CASE note(line)
      <4>1. CASE line.cmd = "progress"
        BY <3>2, <3>9, <4>1 DEF note, TR!Quiet, TR!Next
      <4>2. CASE line.cmd \in {"tags", "time"}
        <5>1. TR!Annotate(line.cmd)
          BY <3>2, <3>9, <4>2 DEF note, TR!Annotate
        <5> QED
          BY <4>2, <5>1 DEF TR!Next
      <4> QED
        BY <3>9, <4>1, <4>2 DEF note, Annotates, Notes
    <3>10. CASE \/ startTestUndecodable(line) \/ uxsuccessOutside(line)
                \/ outcomeUndecodable(line) \/ noteMalformed(line)
                \/ multipartRaises(line)
      BY <3>4, <3>10 DEF startTestUndecodable, uxsuccessOutside, outcomeUndecodable,
                         noteMalformed, multipartRaises
    <3>11. CASE \/ outcomeOutside(line) \/ outcomeDetails(line)
                \/ passThroughInTest(line) \/ unknownLine(line)
                \/ simpleLine(line) \/ multipartLine(line)
      BY <3>4, <3>11 DEF outcomeOutside, outcomeDetails, passThroughInTest,
                         unknownLine, simpleLine, multipartLine
    <3>12. QED
      BY <3>1, <3>6, <3>7, <3>8, <3>9, <3>10, <3>11 DEF lineReceived
  <2>2. CASE lostConnection
    <3>1. ~raised /\ ~eof /\ eof'
      BY <2>2 DEF lostConnection, Reading
    <3>2. CASE state \in LossReported
      BY <2>2, <3>1, <3>2
         DEF lostConnection, _lostConnectionInTest, LossReported, Outcomes, StateAgrees,
             TR!Next, TR!End, TR!Closing
    <3>3. CASE state \notin LossReported
      BY <2>2, <3>1, <3>3
         DEF lostConnection, LossReported, TypeOK, StateAgrees, parserVars, TR!Next, TR!End
    <3>4. QED
      BY <3>2, <3>3
  <2>3. CASE UNCHANGED vars
    BY <2>3 DEF vars, parserVars
  <2>4. QED
    BY <2>1, <2>2, <2>3 DEF Next
<1>3. QED
  BY <1>1, <1>2, TypeCorrect, StateAgreement, PTL DEF Spec, RefinesTestRun, TR!Spec

\* Nothing a details parser is given reaches the client or stdout before the
\* details end.
THEOREM DetailsOpacity == Spec => DetailsAreOpaque
<1>1. TypeOK /\ StateAgrees /\ [Next]_vars
        => [InDetails /\ state' = state /\ ~eof' => calls' = <<>> /\ sink' # "stdout"]_vars
  <2> SUFFICES ASSUME TypeOK, StateAgrees, [Next]_vars, ~UNCHANGED vars,
                      InDetails, state' = state, ~eof'
               PROVE  calls' = <<>> /\ sink' # "stdout"
    OBVIOUS
  <2>1. PICK line \in Lines : lineReceived(line)
    BY DEF Next, readLine, lostConnection
  <2>2. state # "outside" /\ state # "in_test"
    BY DEF InDetails, Outcomes
  <2>3. CASE simpleLine(line) \/ multipartLine(line) \/ multipartRaises(line)
    BY <2>3 DEF simpleLine, multipartLine, multipartRaises, Raise, Silent,
                subunitLineReceived
  <2>4. CASE endDetails(line)
    BY <2>2, <2>4 DEF endDetails
  <2>5. QED
    BY <2>1, <2>2, <2>3, <2>4
       DEF lineReceived, startTest, startTestUndecodable, outcomeOutside, uxsuccessOutside,
           outcomePlain, outcomeDetails, passThroughInTest, outcomeUndecodable,
           note, noteMalformed, Annotates, unknownLine
<1>2. QED
  BY <1>1, TypeCorrect, StateAgreement, PTL DEF Spec, DetailsAreOpaque

\* Every line is written to one of the two streams, save progress lines and
\* lines that raise, and no line is both acted upon and passed through.
THEOREM LinesLandOnce == Spec => []LineLandsOnce
<1>1. Init => LineLandsOnce
  BY DEF Init, LineLandsOnce
<1>2. TypeOK /\ LineLandsOnce /\ [Next]_vars => LineLandsOnce'
  <2> SUFFICES ASSUME TypeOK, LineLandsOnce, [Next]_vars PROVE LineLandsOnce'
    OBVIOUS
  <2>1. CASE readLine
    <3>1. PICK line \in Lines : lineReceived(line)
      BY <2>1 DEF readLine
    <3>2. CASE sink' = "forward"
      BY <3>2 DEF LineLandsOnce
    <3>3. CASE sink' = "stdout"
      <4>1. Silent
        BY <3>1, <3>3
           DEF lineReceived, startTest, startTestUndecodable, outcomeOutside,
               uxsuccessOutside, outcomePlain, outcomeDetails, passThroughInTest,
               outcomeUndecodable, note, noteMalformed, unknownLine, endDetails,
               simpleLine, multipartLine, multipartRaises, Raise, subunitLineReceived
      <4>2. QED
        BY <3>3, <4>1 DEF Silent, LineLandsOnce
    <3>4. CASE sink' \notin {"forward", "stdout"}
      <4>1. \/ Raise
            \/ note(line) /\ line.cmd = "progress"
        BY <3>1, <3>4
           DEF lineReceived, startTest, startTestUndecodable, outcomeOutside,
               uxsuccessOutside, outcomePlain, outcomeDetails, passThroughInTest,
               outcomeUndecodable, note, noteMalformed, unknownLine, endDetails,
               simpleLine, multipartLine, multipartRaises, subunitLineReceived,
               stdOutLineReceived
      <4>2. QED
        BY <3>1, <3>4, <4>1 DEF Raise, lineReceived, LineLandsOnce
    <3>5. QED
      BY <3>2, <3>3, <3>4
  <2>2. CASE lostConnection
    BY <2>2 DEF lostConnection, LineLandsOnce
  <2>3. CASE UNCHANGED vars
    BY <2>3 DEF vars, LineLandsOnce
  <2>4. QED
    BY <2>1, <2>2, <2>3 DEF Next
<1>3. QED
  BY <1>1, <1>2, TypeCorrect, PTL DEF Spec
-------------------------------------------------------------------------------
(* Induction over the natural numbers, in the form the provers can use: a  *)
(* set of numbers stands for the formula.  And what follows from it for    *)
(* the parts of a message, put together.                                   *)

LEMMA LeastOf ==
    ASSUME NEW S \in SUBSET Nat, S # {}
    PROVE  \E n \in S : \A m \in S : n <= m
<1>1. IsWellFoundedOn(OpToRel(<, Nat), Nat)
  BY NatLessThanWellFounded
<1>2. PICK n \in S : \A m \in S : <<m, n>> \notin OpToRel(<, Nat)
  BY <1>1, WFMin
<1>3. \A m \in S : ~(m < n)
  BY <1>2 DEF OpToRel
<1>4. S \subseteq Nat
  OBVIOUS
<1>5. \A m \in S : n <= m
  BY <1>3, <1>4
<1> QED
  BY <1>5

LEMMA Induct ==
    ASSUME NEW S \in SUBSET Nat, 0 \in S, \A n \in S : n + 1 \in S
    PROVE  S = Nat
<1> SUFFICES ASSUME Nat \ S # {} PROVE FALSE
  OBVIOUS
<1>1. PICK n \in Nat \ S : \A m \in Nat \ S : n <= m
  BY LeastOf
<1>2. n # 0 /\ n - 1 \in Nat
  BY <1>1
<1>3. n - 1 \in S
  BY <1>1, <1>2
<1> QED
  BY <1>1, <1>3

\* The values that Step leads to from first, one for each of the first elements
\* of s.
Runs(Step, first, s, upTo, after) ==
    /\ after[0] = first
    /\ \A n \in 1 .. upTo : after[n] = Step[<<after[n - 1], s[n]>>]
Steps(States, Step, first, s, after) ==
    after \in [0 .. Len(s) -> States] /\ Runs(Step, first, s, Len(s), after)

LEMMA StepsExist ==
    ASSUME NEW A, NEW B, NEW Step \in [A \X B -> A], NEW first \in A, NEW s \in Seq(B)
    PROVE  \E f : Steps(A, Step, first, s, f)
<1> DEFINE Ok(f, n) == /\ f \in [0 .. n -> A] /\ f[0] = first
                       /\ \A i \in 1 .. n : f[i] = Step[<<f[i - 1], s[i]>>]
           S == {n \in Nat : n <= Len(s) => \E f \in [0 .. n -> A] : Ok(f, n)}
<1>1. 0 \in S
  <2>1. Ok([i \in 0 .. 0 |-> first], 0)
    OBVIOUS
  <2> QED
    BY <2>1
<1>2. ASSUME NEW n \in S
      PROVE  n + 1 \in S
  <2>1. n \in Nat /\ (n <= Len(s) => \E f \in [0 .. n -> A] : Ok(f, n))
    OBVIOUS
  <2>2. ASSUME n + 1 <= Len(s)
        PROVE  \E f \in [0 .. n + 1 -> A] : Ok(f, n + 1)
    <3>1. PICK f \in [0 .. n -> A] : Ok(f, n)
      BY <2>1, <2>2
    <3> DEFINE value == Step[<<f[n], s[n + 1]>>]
               g == [i \in 0 .. n + 1 |-> IF i = n + 1 THEN value ELSE f[i]]
    <3>2. value \in A
      BY <2>1, <2>2, <3>1
    <3> HIDE DEF value
    <3>3. g \in [0 .. n + 1 -> A] /\ g[n + 1] = value /\ \A i \in 0 .. n : g[i] = f[i]
      BY <2>1, <3>1, <3>2
    <3> HIDE DEF g
    <3>4. g[0] = first
      BY <2>1, <3>1, <3>3
    <3>5. ASSUME NEW i \in 1 .. n + 1
          PROVE  g[i] = Step[<<g[i - 1], s[i]>>]
      <4>1. CASE i = n + 1
        <5>1. i - 1 = n /\ n \in 0 .. n
          BY <2>1, <4>1
        <5> QED
          BY <3>3, <4>1, <5>1 DEF value
      <4>2. CASE i # n + 1
        <5>1. i \in 1 .. n /\ i \in 0 .. n /\ i - 1 \in 0 .. n
          BY <2>1, <4>2
        <5>2. f[i] = Step[<<f[i - 1], s[i]>>]
          BY <3>1, <5>1
        <5> QED
          BY <3>3, <5>1, <5>2
      <4> QED
        BY <4>1, <4>2
    <3> QED
      BY <3>3, <3>4, <3>5
  <2> QED
    BY <2>1, <2>2
<1>3. S = Nat
  <2> HIDE DEF S
  <2>1. S \in SUBSET Nat
    BY DEF S
  <2> QED
    BY <1>1, <1>2, <2>1, Induct
<1>4. Len(s) \in S
  <2>1. Len(s) \in Nat
    OBVIOUS
  <2> HIDE DEF S
  <2> QED
    BY <1>3, <2>1
<1>5. PICK f \in [0 .. Len(s) -> A] : Ok(f, Len(s))
  BY <1>4
<1>6. Steps(A, Step, first, s, f)
  BY <1>5 DEF Steps, Runs
<1> QED
  BY <1>6

LEMMA Flattens ==
    ASSUME NEW T, NEW seqs \in Seq(Seq(T))
    PROVE  \E g \in [0 .. Len(seqs) -> Seq(T)] :
              /\ g[0] = <<>> /\ g[Len(seqs)] = FlattenSeq(seqs)
              /\ \A n \in 1 .. Len(seqs) : g[n] = g[n - 1] \o seqs[n]
<1> DEFINE n == Len(seqs)
           Joining == [p \in Seq(T) \X Seq(T) |-> p[1] \o p[2]]
           Body(f) == [i \in 1 .. n |-> IF i = 1 THEN seqs[i] ELSE f[i - 1] \o seqs[i]]
           flatten == CHOOSE f : f = Body(f)
<1>1. n \in Nat /\ \A i \in 1 .. n : seqs[i] \in Seq(T)
  BY LenProperties, ElementOfSeq
<1>2. Joining \in [Seq(T) \X Seq(T) -> Seq(T)] /\ <<>> \in Seq(T)
  BY ConcatProperties
<1>3. PICK g : Steps(Seq(T), Joining, <<>>, seqs, g)
  BY <1>2, StepsExist
<1>4. /\ g \in [0 .. n -> Seq(T)] /\ g[0] = <<>>
      /\ \A i \in 1 .. n : g[i] = g[i - 1] \o seqs[i]
  <2>1. g \in [0 .. n -> Seq(T)] /\ Runs(Joining, <<>>, seqs, n, g)
    BY <1>3 DEF Steps
  <2>2. ASSUME NEW i \in 1 .. n PROVE g[i] = g[i - 1] \o seqs[i]
    <3>1. g[i - 1] \in Seq(T) /\ seqs[i] \in Seq(T)
      BY <1>1, <2>1
    <3>2. g[i] = Joining[<<g[i - 1], seqs[i]>>]
      BY <2>1 DEF Runs
    <3> QED
      BY <3>1, <3>2
  <2>3. g[0] = <<>>
    BY <2>1 DEF Runs
  <2> QED
    BY <2>1, <2>2, <2>3
<1> HIDE DEF Joining
<1>5. CASE n = 0
  <2>1. FlattenSeq(seqs) = seqs
    BY <1>5 DEF FlattenSeq
  <2>2. seqs = <<>>
    BY <1>5, EmptySeq
  <2> QED
    BY <1>4, <1>5, <2>1, <2>2
<1>6. CASE n # 0
  <2>1. FlattenSeq(seqs) = flatten[n]
    BY <1>6 DEF FlattenSeq
  <2> DEFINE f == [i \in 1 .. n |-> g[i]]
  <2>2. f = Body(f)
    <3>1. ASSUME NEW i \in 1 .. n
          PROVE  f[i] = IF i = 1 THEN seqs[i] ELSE f[i - 1] \o seqs[i]
      <4>1. f[i] = g[i] /\ g[i] = g[i - 1] \o seqs[i]
        BY <1>4
      <4>2. CASE i = 1
        <5>1. g[i - 1] = <<>>
          BY <1>4, <4>2
        <5>2. <<>> \o seqs[i] = seqs[i]
          BY <1>1, ConcatEmptySeq
        <5> QED
          BY <4>1, <4>2, <5>1, <5>2
      <4>3. CASE i # 1
        <5>1. i - 1 \in 1 .. n
          BY <1>1, <4>3
        <5>2. f[i - 1] = g[i - 1]
          BY <5>1
        <5> QED
          BY <4>1, <4>3, <5>2
      <4> QED
        BY <4>2, <4>3
    <3> QED
      BY <3>1
  <2> HIDE DEF f
  <2>3. flatten = Body(flatten)
    <3> HIDE DEF Body
    <3> QED
      BY <2>2
  <2> HIDE DEF flatten
  <2> DEFINE S == {i \in Nat : i \in 1 .. n => flatten[i] = g[i]}
  <2>4. 0 \in S
    OBVIOUS
  <2>5. ASSUME NEW i \in S PROVE i + 1 \in S
    <3>1. i \in Nat /\ (i \in 1 .. n => flatten[i] = g[i])
      OBVIOUS
    <3>2. ASSUME i + 1 \in 1 .. n PROVE flatten[i + 1] = g[i + 1]
      <4>1. flatten[i + 1] = IF i + 1 = 1 THEN seqs[i + 1] ELSE flatten[(i + 1) - 1] \o seqs[i + 1]
        BY <2>3, <3>2
      <4>2. (i + 1) - 1 = i /\ g[i + 1] = g[i] \o seqs[i + 1] /\ seqs[i + 1] \in Seq(T)
        <5>1. (i + 1) - 1 = i
          BY <3>1
        <5> QED
          BY <1>1, <1>4, <3>2, <5>1
      <4>3. CASE i = 0
        <5>1. <<>> \o seqs[i + 1] = seqs[i + 1]
          BY <4>2, ConcatEmptySeq
        <5>2. g[i] = <<>> /\ i + 1 = 1
          BY <1>4, <4>3
        <5>3. flatten[i + 1] = seqs[i + 1]
          BY <4>1, <5>2
        <5> HIDE DEF S
        <5> QED
          BY <4>2, <5>1, <5>2, <5>3
      <4>4. CASE i # 0
        <5>1. i \in 1 .. n /\ i + 1 # 1
          BY <3>1, <3>2, <4>4
        <5> QED
          BY <3>1, <4>1, <4>2, <5>1
      <4> QED
        BY <4>3, <4>4
    <3> QED
      BY <3>1, <3>2
  <2>6. S = Nat
    <3> HIDE DEF S
    <3>1. S \in SUBSET Nat
      BY DEF S
    <3> QED
      BY <2>4, <2>5, <3>1, Induct
  <2>7. flatten[n] = g[n]
    <3>1. n \in S /\ n \in 1 .. n
      <4> HIDE DEF S
      <4> QED
        BY <1>1, <1>6, <2>6
    <3> QED
      BY <3>1
  <2> HIDE DEF S
  <2> QED
    BY <1>4, <2>1, <2>7
<1> QED
  BY <1>5, <1>6
-------------------------------------------------------------------------------
(* Isolated runs: what is in the pipe and in the child's buffer, read from *)
(* where the parser is, leads to what the child has done.                  *)

Entries == [line : Lines, leads : Phases \cup {"any"}]
Records == [test : Names, outcome : Outcomes, details : Seq(Texts \cup {"lost connection"})]

\* Where the parser is, and what its result has heard so far.
Positions ==
    [state : {"outside", "in_test"} \cup Outcomes, test : Names \cup {None},
     phase : Phases, message : Seq(Texts), log : Seq(Records)]

\* Between tests, in a test, and in the details of its outcome.
Outside(log) ==
    [state |-> "outside", test |-> None, phase |-> "none", message |-> <<>>, log |-> log]
InTest(t, log) ==
    [state |-> "in_test", test |-> t, phase |-> "none", message |-> <<>>, log |-> log]
Reads(outcome, t, part, details, log) ==
    [state |-> outcome, test |-> t, phase |-> part, message |-> details, log |-> log]

\* The parser of the parent is there.
At(p) ==
    /\ state = p.state /\ phase = p.phase /\ message = p.message /\ parentLog = p.log
    /\ p.state = "outside" => desc = None
    /\ p.state # "outside" => desc = p.test /\ test = p.test

\* A test's outcome in a log, and where the parser is once it has reported it.
RecordOf(t, outcome, details) == [test |-> t, outcome |-> outcome, details |-> details]
Closed(p, outcome, details) == Outside(Append(p.log, RecordOf(p.test, outcome, details)))

\* The lines a client writes, and where they lead.
Opens(p, e, q) ==
    /\ p.state = "outside" /\ e.line.cmd = "test" /\ e.line.arg = "plain" /\ e.leads = "any"
    /\ q = InTest(e.line.name, p.log)
Prints(p, e, q) ==
    p.state = "in_test" /\ e.line.cmd = "text" /\ e.leads = "any" /\ q = p
Reports(p, e, q) ==
    /\ p.state = "in_test" /\ e.line.cmd \in Outcomes /\ e.line.name = p.test /\ e.leads = "any"
    /\ \/ e.line.arg = "plain" /\ q = Closed(p, e.line.cmd, <<>>)
       \/ e.line.arg = "simple" /\ q = Reads(e.line.cmd, p.test, "simple", <<>>, p.log)
       \/ e.line.arg = "multipart" /\ q = Reads(e.line.cmd, p.test, "field", <<>>, p.log)
Ends(p, e, q) ==
    /\ p.state \in Outcomes /\ p.phase \in {"simple", "field"}
    /\ e.line.cmd = "text" /\ e.line.arg = "end" /\ e.leads = "any"
    /\ q = Closed(p, p.state, p.message)
Adds(p, e, q) ==
    /\ p.state \in Outcomes /\ p.phase = "simple" /\ e.leads = "any"
    /\ e.line.cmd = "text" /\ e.line.arg \notin {"end", "quoted"}
    /\ q = Reads(p.state, p.test, "simple", Append(p.message, e.line.arg), p.log)
Feeds(p, e, q) ==
    /\ p.state \in Outcomes /\ p.phase \notin {"none", "simple"} /\ e.line.cmd = "text"
    /\ ~(p.phase = "field" /\ e.line.arg = "end")
    /\ e.leads \notin {"any", "none", "simple"}
    /\ q = Reads(p.state, p.test, e.leads,
                 IF p.phase = "body" THEN Append(p.message, e.line.arg) ELSE p.message, p.log)

Follows(p, e, q) ==
    \/ Opens(p, e, q) \/ Prints(p, e, q) \/ Reports(p, e, q)
    \/ Ends(p, e, q) \/ Adds(p, e, q) \/ Feeds(p, e, q)

\* s is the beginning of t.
Begins(s, t) == Len(s) <= Len(t) /\ \A i \in 1 .. Len(s) : s[i] = t[i]

\* Nothing has been heard that the child has not done: it has done what is in
\* this log, in the tests before this one.
Faithful(p, log, limit) ==
    /\ Begins(p.log, log)
    /\ p.state \in {"outside", "in_test"} => p.phase = "none" /\ p.message = <<>>
    /\ p.state \in Outcomes => p.phase # "none"
    /\ p.state # "outside" =>
          Len(p.log) < limit /\ Len(p.log) < Len(Suite) /\ p.test = Suite[Len(p.log) + 1]
    /\ p.state \in Outcomes =>
          Len(p.log) < Len(log) /\ log[Len(p.log) + 1].outcome = p.state

\* These lines take the parser from p to q, by faithful positions.
Leads(p, lines, q, log, limit) ==
    \E path \in [0 .. Len(lines) -> Positions] :
        /\ path[0] = p /\ path[Len(lines)] = q
        /\ \A i \in 0 .. Len(lines) : Faithful(path[i], log, limit)
        /\ \A i \in 1 .. Len(lines) : Follows(path[i - 1], lines[i], path[i])

\* Where all that the child has written leads to.
Done(p) ==
    IF child = "in_test" THEN p = InTest(Suite[next], childLog) ELSE p = Outside(childLog)

\* The entry is what is left of one that would have led on from p.
Shredded(p, entry) ==
    \E e \in Entries, q \in Positions :
        /\ e.line.cmd # "test" /\ entry \in Torn(e)
        /\ Follows(p, e, q) /\ Faithful(q, childLog, next)

\* The parser has read the last line of a child that crashed.
Aftermath ==
    /\ pipe = <<>> /\ OutcomesAgree
    /\ Reading /\ state # "outside" =>
          /\ Begins(parentLog, childLog) /\ Len(parentLog) < next
          /\ Len(parentLog) < Len(Suite) /\ test = Suite[Len(parentLog) + 1]

\* The child has an outcome for each test it is done with, and its stream is empty
\* between tests.
ChildCounts ==
    /\ child \in {"idle", "in_test", "recorded", "exited", "crashed"}
    /\ next \in 1 .. Len(Suite) + 1
    /\ childLog \in Seq(Records) /\ parentLog \in Seq(Records)
    /\ buffer \in Seq(Entries) /\ pipe \in Seq(Entries)
    /\ raised \in BOOLEAN /\ eof \in BOOLEAN
    /\ child \in {"idle", "in_test", "exited"} => Len(childLog) = next - 1
    /\ child = "recorded" => Len(childLog) = next
    /\ child = "crashed" => Len(childLog) \in {next - 1, next}
    /\ child \in {"in_test", "recorded"} => next <= Len(Suite)
    /\ child \in {"idle", "exited", "crashed"} => buffer = <<>>

\* The lines in the pipe and then those in the buffer lead from where the parser is
\* to where the child is.
WhileItLives ==
    child # "crashed" =>
        /\ ~raised
        /\ eof => child = "exited" /\ pipe = <<>> /\ parentLog = childLog
        /\ ~eof => \E p, q, r :
                      /\ At(p) /\ Leads(p, pipe, q, childLog, next)
                      /\ Leads(q, buffer, r, childLog, next) /\ Done(r)

\* Those in the pipe do, or all but the last, which is torn, or it has been read.
AfterCrash ==
    child = "crashed" =>
        \/ Aftermath
        \/ Reading /\ \E p, q : At(p) /\ Leads(p, pipe, q, childLog, next)
        \/ Reading /\ \E p, q : \E s \in Seq(Entries), entry \in Entries :
              /\ pipe = Append(s, entry)
              /\ At(p) /\ Leads(p, s, q, childLog, next) /\ Shredded(q, entry)

Agreed == ChildCounts /\ WhileItLives /\ AfterCrash

\* No line of a traceback or a reason is a bracket, or begins with one that is quoted.
Unbracketed == SimpleContent \cap {"end", "quoted"} = {}

\* What a step lets the parent's result hear.
LEMMA Hearing ==
    /\ Silent => Heard = <<>>
    /\ \A t : Tell("startTest", t) => Heard = <<>>
    /\ \A t, details : \A outcome \in Outcomes :
          Close(outcome, t, details) => Heard = <<RecordOf(t, outcome, details)>>
<1>1. Silent => Heard = <<>>
  BY DEF Silent, Heard
<1>2. ASSUME NEW t, Tell("startTest", t) PROVE Heard = <<>>
  <2>1. calls' = <<Call("startTest", t)>>
    BY <1>2 DEF Tell
  <2>2. calls'[1] = Call("startTest", t)
    BY <2>1
  <2> QED
    BY <2>2 DEF Heard, Call, Outcomes
<1>3. ASSUME NEW outcome \in Outcomes, NEW t, NEW details, Close(outcome, t, details)
      PROVE  Heard = <<RecordOf(t, outcome, details)>>
  <2>1. calls' = <<Call(outcome, t), Call("stopTest", t)>> /\ reported' = details
    BY <1>3 DEF Close
  <2>2. calls'[1] = Call(outcome, t) /\ calls' # <<>>
    BY <2>1
  <2>3. calls'[1].op = outcome /\ calls'[1].test = t
    BY <2>2 DEF Call
  <2> QED
    BY <2>1, <2>2, <2>3 DEF Heard, RecordOf
<1> QED
  BY <1>1, <1>2, <1>3

\* The words of the protocol, told apart.
LEMMA Words ==
    ASSUME NEW line \in Lines
    PROVE  /\ line.cmd = "text" => line.arg \in Texts /\ line.name = None /\ Token(line) = line.arg
           /\ line.cmd # "text" => Token(line) = "other"
           /\ line.cmd \in Outcomes => line.name \in Names /\ OutcomeOf(line) = line.cmd
                                       /\ line.cmd \notin Notes /\ line.cmd \in OutcomeWords
           /\ line.cmd = "test" => line.name \in Names
  BY DEF Lines, StartLines, OutcomeLines, NoteLines, TextLines, Token, Texts,
         OutcomeWords, Outcomes, Notes, OutcomeOf

LEMMA HearsNothing ==
    ASSUME parentLog \in Seq(Records), parentLog' = parentLog \o Heard, Heard = <<>>
    PROVE  parentLog' = parentLog
  BY ConcatEmptySeq

LEMMA Hears ==
    ASSUME NEW r \in Records, parentLog \in Seq(Records), parentLog' = parentLog \o Heard,
           Heard = <<r>>
    PROVE  parentLog' = Append(parentLog, r)
  BY AppendIsConcat

LEMMA Recorded ==
    ASSUME NEW p \in Positions, NEW r, Outside(Append(p.log, r)) \in Positions
    PROVE  r \in Records
<1>1. Append(p.log, r) \in Seq(Records) /\ p.log \in Seq(Records)
  BY DEF Outside, Positions
<1>2. p.log \in Seq(Records \cup {r})
  BY <1>1, SeqMonotonic
<1>3. Len(Append(p.log, r)) = Len(p.log) + 1 /\ Append(p.log, r)[Len(p.log) + 1] = r
  BY <1>2, AppendProperties
<1>4. Append(p.log, r)[Len(p.log) + 1] \in Records
  <2>1. Len(p.log) + 1 \in 1 .. Len(Append(p.log, r))
    BY <1>1, <1>3, LenProperties
  <2> QED
    BY <1>1, <2>1, ElementOfSeq
<1> QED
  BY <1>3, <1>4

\* A line read from where the parser is leads where it is to lead.
LEMMA ReadFollows ==
    ASSUME NEW p \in Positions, NEW e \in Entries, NEW q \in Positions,
           NEW log, NEW limit, At(p), Faithful(p, log, limit), Follows(p, e, q), parentLog \in Seq(Records),
           lineReceived(e.line), e.leads # "any" => phase' = e.leads /\ ~raised',
           parentLog' = parentLog \o Heard
    PROVE  At(q)' /\ ~raised' /\ ~eof'
<1> DEFINE line == e.line
<1>1. line \in Lines /\ e.leads \in Phases \cup {"any"}
  BY DEF Entries
<1>2. /\ state = p.state /\ phase = p.phase /\ message = p.message /\ parentLog = p.log
      /\ p.state = "outside" => desc = None
      /\ p.state # "outside" => desc = p.test /\ test = p.test
  BY DEF At
<1>3. ~raised /\ ~eof /\ eof' = eof
  BY DEF lineReceived, Reading
<1>4. CASE Opens(p, e, q)
  <2>1. state = "outside" /\ line.cmd = "test" /\ line.arg = "plain" /\ q = InTest(line.name, p.log)
    BY <1>2, <1>4 DEF Opens
  <2>2. startTest(line)
    BY <2>1 DEF lineReceived, startTestUndecodable, outcomeOutside, uxsuccessOutside,
          outcomePlain, outcomeDetails, passThroughInTest, outcomeUndecodable, note, noteMalformed,
          Annotates, unknownLine, endDetails, simpleLine, multipartLine, multipartRaises,
          InDetails, Outcomes, OutcomeWords, Notes
  <2>3. Heard = <<>>
    BY <2>2, Hearing DEF startTest
  <2>4. parentLog' = parentLog
    BY <2>3, HearsNothing
  <2>5. p.phase = "none" /\ p.message = <<>>
    BY <1>2, <2>1 DEF Faithful
  <2> QED
    BY <1>2, <1>3, <2>1, <2>2, <2>4, <2>5 DEF startTest, At, InTest, subunitLineReceived
<1>5. CASE Prints(p, e, q)
  <2>1. state = "in_test" /\ line.cmd = "text" /\ q = p
    BY <1>2, <1>5 DEF Prints
  <2>2. unknownLine(line)
    BY <2>1 DEF lineReceived, startTest, startTestUndecodable, outcomeOutside, uxsuccessOutside,
          outcomePlain, outcomeDetails, passThroughInTest, outcomeUndecodable, note, noteMalformed,
          Annotates, endDetails, simpleLine, multipartLine, multipartRaises,
          InDetails, Outcomes, OutcomeWords, Notes
  <2>3. Heard = <<>>
    BY <2>2, Hearing DEF unknownLine
  <2>4. parentLog' = parentLog
    BY <2>3, HearsNothing
  <2> QED
    BY <1>2, <1>3, <2>1, <2>2, <2>4 DEF unknownLine, At, stdOutLineReceived, parserVars
<1>6. CASE Reports(p, e, q)
  <2>1. /\ state = "in_test" /\ line.cmd \in Outcomes /\ line.name = p.test
        /\ line.arg \in {"plain", "simple", "multipart"}
    BY <1>2, <1>6 DEF Reports
  <2>2. p.test \in Names /\ desc = p.test /\ test = p.test /\ OutcomeOf(line) = line.cmd
    BY <1>1, <1>2, <2>1, Words
  <2>3. outcomePlain(line) \/ outcomeDetails(line)
    BY <2>1, <2>2 DEF lineReceived, startTest, startTestUndecodable, outcomeOutside, uxsuccessOutside,
          passThroughInTest, outcomeUndecodable, note, noteMalformed,
          Annotates, unknownLine, endDetails, simpleLine, multipartLine, multipartRaises,
          InDetails, Outcomes, OutcomeWords, Notes
  <2>4. p.phase = "none" /\ p.message = <<>>
    BY <1>2, <2>1 DEF Faithful
  <2>5. CASE line.arg = "plain"
    <3> DEFINE r == RecordOf(p.test, line.cmd, <<>>)
    <3>1. q = Outside(Append(p.log, r))
      BY <1>6, <2>5 DEF Reports, Closed
    <3>2. outcomePlain(line)
      BY <2>3, <2>5 DEF outcomeDetails
    <3>3. Close(line.cmd, p.test, <<>>)
      BY <2>2, <3>2 DEF outcomePlain
    <3>4. Heard = <<r>>
      BY <2>1, <3>3, Hearing
    <3>5. r \in Records
      BY <3>1, Recorded
    <3>6. parentLog' = Append(parentLog, r)
      BY <3>4, <3>5, Hears
    <3> HIDE DEF r
    <3> QED
      BY <1>2, <1>3, <2>4, <3>1, <3>2, <3>6
      DEF outcomePlain, At, Outside, subunitLineReceived, ForgetDescription
  <2>6. CASE line.arg # "plain"
    <3>1. q = Reads(line.cmd, p.test, IF line.arg = "simple" THEN "simple" ELSE "field", <<>>, p.log)
      BY <1>6, <2>6 DEF Reports
    <3>2. outcomeDetails(line)
      BY <2>3, <2>6 DEF outcomePlain
    <3>3. Heard = <<>>
      BY <3>2, Hearing DEF outcomeDetails
    <3>4. parentLog' = parentLog
      BY <3>3, HearsNothing
    <3>5. line.cmd # "outside"
      BY <2>1 DEF Outcomes
    <3> QED
      BY <1>2, <1>3, <2>2, <3>1, <3>2, <3>4, <3>5 DEF outcomeDetails, At, Reads, subunitLineReceived
  <2> QED
    BY <2>5, <2>6
<1>7. CASE Ends(p, e, q)
  <2>1. /\ state \in Outcomes /\ phase \in {"simple", "field"}
        /\ line.cmd = "text" /\ line.arg = "end" /\ q = Outside(Append(p.log, RecordOf(p.test, p.state, p.message)))
    BY <1>2, <1>7 DEF Ends, Closed
  <2>2. Token(line) = "end"
    BY <1>1, <2>1, Words
  <2>3. endDetails(line)
    BY <2>1, <2>2 DEF lineReceived, startTest, startTestUndecodable, outcomeOutside, uxsuccessOutside,
          outcomePlain, outcomeDetails, passThroughInTest, outcomeUndecodable, note, noteMalformed,
          Annotates, unknownLine, simpleLine, multipartLine, multipartRaises,
          InDetails, Outcomes, OutcomeWords, Notes
  <2>4. state # "outside"
    BY <2>1 DEF Outcomes
  <2>5. Close(p.state, p.test, p.message)
    BY <1>2, <2>3, <2>4 DEF endDetails
  <2> DEFINE r == RecordOf(p.test, p.state, p.message)
  <2>6. r \in Records
    BY <2>1, Recorded
  <2>7. Heard = <<r>>
    BY <1>2, <2>1, <2>5, Hearing
  <2>8. parentLog' = Append(parentLog, r)
    BY <2>6, <2>7, Hears
  <2> HIDE DEF r
  <2> QED
    BY <1>2, <1>3, <2>1, <2>3, <2>8
    DEF endDetails, At, Outside, subunitLineReceived, ForgetDescription, r
<1>8. CASE Adds(p, e, q)
  <2>1. /\ state \in Outcomes /\ phase = "simple" /\ line.cmd = "text"
        /\ line.arg \notin {"end", "quoted"}
        /\ q = Reads(p.state, p.test, "simple", Append(p.message, line.arg), p.log)
    BY <1>2, <1>8 DEF Adds
  <2>2. Token(line) = line.arg /\ Unquote(Token(line)) = line.arg
    BY <1>1, <2>1, Words DEF Unquote
  <2>3. simpleLine(line)
    BY <2>1, <2>2 DEF lineReceived, startTest, startTestUndecodable, outcomeOutside, uxsuccessOutside,
          outcomePlain, outcomeDetails, passThroughInTest, outcomeUndecodable, note, noteMalformed,
          Annotates, unknownLine, endDetails, multipartLine, multipartRaises,
          InDetails, Outcomes, OutcomeWords, Notes
  <2>4. Heard = <<>>
    BY <2>3, Hearing DEF simpleLine
  <2>5. parentLog' = parentLog
    BY <2>4, HearsNothing
  <2>6. p.state # "outside"
    BY <1>2, <2>1 DEF Outcomes
  <2> QED
    BY <1>2, <1>3, <2>1, <2>2, <2>3, <2>5, <2>6 DEF simpleLine, At, Reads, subunitLineReceived
<1>9. CASE Feeds(p, e, q)
  <2>1. /\ state \in Outcomes /\ phase \notin {"none", "simple"} /\ line.cmd = "text"
        /\ ~(phase = "field" /\ line.arg = "end") /\ e.leads # "any"
        /\ q = Reads(p.state, p.test, e.leads,
                 IF p.phase = "body" THEN Append(p.message, line.arg) ELSE p.message, p.log)
    BY <1>2, <1>9 DEF Feeds
  <2>2. Token(line) = line.arg
    BY <1>1, <2>1, Words
  <2>3. phase' = e.leads /\ ~raised'
    BY <2>1
  <2>4. multipartLine(line)
    BY <2>1, <2>2, <2>3 DEF lineReceived, startTest, startTestUndecodable, outcomeOutside, uxsuccessOutside,
          outcomePlain, outcomeDetails, passThroughInTest, outcomeUndecodable, note, noteMalformed,
          Annotates, unknownLine, endDetails, simpleLine, multipartRaises, Raise,
          InDetails, Outcomes, OutcomeWords, Notes
  <2>5. Heard = <<>>
    BY <2>4, Hearing DEF multipartLine
  <2>6. parentLog' = parentLog
    BY <2>5, HearsNothing
  <2>7. p.state # "outside"
    BY <1>2, <2>1 DEF Outcomes
  <2>8. message' = IF p.phase = "body" THEN Append(p.message, line.arg) ELSE p.message
    BY <1>2, <2>2, <2>4 DEF multipartLine
  <2> QED
    BY <1>2, <1>3, <2>1, <2>3, <2>4, <2>6, <2>7, <2>8 DEF multipartLine, At, Reads, subunitLineReceived
<1> QED
  BY <1>4, <1>5, <1>6, <1>7, <1>8, <1>9 DEF Follows

\* Lines that lead somewhere, put together and taken apart.
LEMMA NoLines ==
    ASSUME NEW p \in Positions, NEW q, NEW log, NEW limit
    PROVE  /\ Faithful(p, log, limit) => Leads(p, <<>>, p, log, limit)
           /\ Leads(p, <<>>, q, log, limit) => q = p
<1>1. ASSUME Faithful(p, log, limit) PROVE Leads(p, <<>>, p, log, limit)
  <2> DEFINE path == [i \in 0 .. 0 |-> p]
  <2>1. path \in [0 .. Len(<<>>) -> Positions] /\ path[0] = p /\ path[Len(<<>>)] = p
    OBVIOUS
  <2>2. \A i \in 0 .. Len(<<>>) : path[i] = p
    OBVIOUS
  <2> HIDE DEF path
  <2> QED
    BY <1>1, <2>1, <2>2 DEF Leads
<1>2. ASSUME Leads(p, <<>>, q, log, limit) PROVE q = p
  BY <1>2 DEF Leads
<1> QED
  BY <1>1, <1>2

LEMMA OneLine ==
    ASSUME NEW p \in Positions, NEW q \in Positions, NEW e, NEW log, NEW limit,
           Faithful(p, log, limit), Faithful(q, log, limit), Follows(p, e, q)
    PROVE  Leads(p, <<e>>, q, log, limit)
<1> DEFINE path == [i \in 0 .. 1 |-> IF i = 0 THEN p ELSE q]
<1>1. Len(<<e>>) = 1 /\ <<e>>[1] = e
  OBVIOUS
<1>2. path \in [0 .. 1 -> Positions] /\ path[0] = p /\ path[1] = q
  OBVIOUS
<1>3. \A i \in 0 .. 1 : i = 0 \/ i = 1
  OBVIOUS
<1>4. \A i \in 1 .. 1 : i = 1 /\ i - 1 = 0
  OBVIOUS
<1> HIDE DEF path
<1> QED
  BY <1>1, <1>2, <1>3, <1>4 DEF Leads

LEMMA LeadsThrough ==
    ASSUME NEW s \in Seq(Entries), NEW t \in Seq(Entries), NEW log, NEW limit,
           NEW p, NEW q, NEW r, Leads(p, s, q, log, limit), Leads(q, t, r, log, limit)
    PROVE  Leads(p, s \o t, r, log, limit)
<1> DEFINE m == Len(s)
           n == Len(t)
<1>1. m \in Nat /\ n \in Nat
  BY LenProperties
<1>2. /\ Len(s \o t) = m + n
      /\ \A i \in 1 .. m + n : (s \o t)[i] = IF i <= m THEN s[i] ELSE t[i - m]
  BY ConcatProperties
<1>3. PICK f \in [0 .. m -> Positions] :
        /\ f[0] = p /\ f[m] = q
        /\ \A i \in 0 .. m : Faithful(f[i], log, limit)
        /\ \A i \in 1 .. m : Follows(f[i - 1], s[i], f[i])
  BY DEF Leads
<1>4. PICK g \in [0 .. n -> Positions] :
        /\ g[0] = q /\ g[n] = r
        /\ \A i \in 0 .. n : Faithful(g[i], log, limit)
        /\ \A i \in 1 .. n : Follows(g[i - 1], t[i], g[i])
  BY DEF Leads
<1> DEFINE path == [i \in 0 .. m + n |-> IF i <= m THEN f[i] ELSE g[i - m]]
<1> HIDE DEF m, n
<1>5. path \in [0 .. m + n -> Positions]
  <2>1. ASSUME NEW i \in 0 .. m + n PROVE path[i] \in Positions
    BY <1>1, <2>1
  <2> QED
    BY <2>1
<1>6. /\ \A i \in 0 .. m : path[i] = f[i]
      /\ \A i \in 0 .. n : path[m + i] = g[i]
  <2>1. ASSUME NEW i \in 0 .. m PROVE path[i] = f[i]
    BY <1>1
  <2>2. ASSUME NEW i \in 0 .. n PROVE path[m + i] = g[i]
    <3>1. CASE i = 0
      BY <1>1, <1>3, <1>4, <3>1
    <3>2. CASE i # 0
      BY <1>1, <3>2
    <3> QED
      BY <3>1, <3>2
  <2> QED
    BY <2>1, <2>2
<1> HIDE DEF path
<1>7. path[0] = p /\ path[m + n] = r
  BY <1>1, <1>3, <1>4, <1>6
<1>8. ASSUME NEW i \in 0 .. m + n PROVE Faithful(path[i], log, limit)
  <2>1. CASE i <= m
    BY <1>1, <1>3, <1>6, <2>1
  <2>2. CASE ~(i <= m)
    <3>1. i - m \in 0 .. n /\ m + (i - m) = i
      BY <1>1, <2>2
    <3>2. path[i] = g[i - m]
      BY <1>6, <3>1
    <3> QED
      BY <1>4, <3>1, <3>2
  <2> QED
    BY <2>1, <2>2
<1>9. ASSUME NEW i \in 1 .. m + n PROVE Follows(path[i - 1], (s \o t)[i], path[i])
  <2>1. CASE i <= m
    <3>1. i \in 1 .. m /\ i \in 0 .. m /\ i - 1 \in 0 .. m
      BY <1>1, <2>1
    <3>2. path[i] = f[i] /\ path[i - 1] = f[i - 1] /\ (s \o t)[i] = s[i]
      BY <1>2, <1>6, <2>1, <3>1
    <3> QED
      BY <1>3, <3>1, <3>2
  <2>2. CASE ~(i <= m)
    <3>1. i - m \in 1 .. n /\ i - m \in 0 .. n /\ (i - m) - 1 \in 0 .. n
          /\ m + (i - m) = i /\ m + ((i - m) - 1) = i - 1
      BY <1>1, <2>2
    <3>2. path[i] = g[i - m] /\ path[i - 1] = g[(i - m) - 1] /\ (s \o t)[i] = t[i - m]
      BY <1>2, <1>6, <2>2, <3>1
    <3> QED
      BY <1>4, <3>1, <3>2
  <2> QED
    BY <2>1, <2>2
<1> QED
  BY <1>2, <1>5, <1>7, <1>8, <1>9 DEF Leads

LEMMA FirstLine ==
    ASSUME NEW s \in Seq(Entries), s # <<>>, NEW log, NEW limit,
           NEW p, NEW r, Leads(p, s, r, log, limit)
    PROVE  /\ Head(s) \in Entries /\ Tail(s) \in Seq(Entries) /\ p \in Positions
           /\ Faithful(p, log, limit)
           /\ \E q \in Positions :
                 /\ Follows(p, Head(s), q) /\ Leads(q, Tail(s), r, log, limit)
                 /\ Faithful(q, log, limit)
<1> DEFINE n == Len(s)
<1>1. n \in Nat \ {0} /\ Head(s) = s[1] /\ Head(s) \in Entries
  BY LenProperties, EmptySeq, HeadTailProperties, ElementOfSeq
<1>2. /\ Tail(s) \in Seq(Entries) /\ Len(Tail(s)) = n - 1
      /\ \A i \in 1 .. n - 1 : Tail(s)[i] = s[i + 1]
  BY HeadTailProperties
<1>3. PICK f \in [0 .. n -> Positions] :
        /\ f[0] = p /\ f[n] = r
        /\ \A i \in 0 .. n : Faithful(f[i], log, limit)
        /\ \A i \in 1 .. n : Follows(f[i - 1], s[i], f[i])
  BY DEF Leads
<1> DEFINE path == [i \in 0 .. n - 1 |-> f[i + 1]]
<1> HIDE DEF n
<1>4. path \in [0 .. n - 1 -> Positions] /\ \A i \in 0 .. n - 1 : path[i] = f[i + 1]
  <2>1. ASSUME NEW i \in 0 .. n - 1 PROVE f[i + 1] \in Positions
    BY <1>1
  <2> QED
    BY <2>1
<1> HIDE DEF path
<1>5. path[0] = f[1] /\ path[n - 1] = r
  BY <1>1, <1>3, <1>4
<1>6. \A i \in 0 .. n - 1 : Faithful(path[i], log, limit)
  BY <1>1, <1>3, <1>4
<1>7. ASSUME NEW i \in 1 .. n - 1 PROVE Follows(path[i - 1], Tail(s)[i], path[i])
  <2>1. i + 1 \in 1 .. n /\ (i + 1) - 1 = i /\ i \in 0 .. n - 1 /\ i - 1 \in 0 .. n - 1
        /\ (i - 1) + 1 = i
    BY <1>1
  <2>2. path[i - 1] = f[i] /\ path[i] = f[i + 1] /\ Tail(s)[i] = s[i + 1]
    BY <1>2, <1>4, <2>1
  <2>3. Follows(f[(i + 1) - 1], s[i + 1], f[i + 1])
    BY <1>3, <2>1
  <2> QED
    BY <2>1, <2>2, <2>3
<1>8. Leads(f[1], Tail(s), r, log, limit)
  BY <1>2, <1>4, <1>5, <1>6, <1>7 DEF Leads
<1>9. f[1] \in Positions /\ Faithful(f[1], log, limit) /\ Follows(f[0], s[1], f[1])
  <2>1. 1 \in 0 .. n /\ 1 \in 1 .. n /\ 1 - 1 = 0
    BY <1>1
  <2> QED
    BY <1>3, <2>1
<1>10. 0 \in 0 .. n
  BY <1>1
<1> QED
  BY <1>1, <1>2, <1>3, <1>8, <1>9, <1>10

LEMMA LastLine ==
    ASSUME NEW s \in Seq(Entries), NEW e \in Entries, NEW log, NEW limit,
           NEW p, NEW q \in Positions, NEW r \in Positions, Leads(p, s, q, log, limit),
           Follows(q, e, r), Faithful(q, log, limit), Faithful(r, log, limit)
    PROVE  Leads(p, Append(s, e), r, log, limit)
<1>1. Leads(q, <<e>>, r, log, limit)
  BY OneLine
<1>2. Append(s, e) = s \o <<e>> /\ <<e>> \in Seq(Entries)
  BY AppendIsConcat
<1> QED
  BY <1>1, <1>2, LeadsThrough

\* Where lines lead does not change when the child does more.
LEMMA LeadsStill ==
    ASSUME NEW s \in Seq(Entries), NEW p, NEW q, NEW log \in Seq(Records), NEW limit \in Nat,
           NEW log2 \in Seq(Records), NEW limit2 \in Nat,
           Leads(p, s, q, log, limit), Begins(log, log2), limit <= limit2
    PROVE  Leads(p, s, q, log2, limit2)
<1>1. ASSUME NEW o \in Positions, Faithful(o, log, limit) PROVE Faithful(o, log2, limit2)
  <2>1. o.log \in Seq(Records)
    BY DEF Positions
  <2>2. Len(o.log) \in Nat /\ Len(log) \in Nat /\ Len(log2) \in Nat
    BY <2>1, LenProperties
  <2>3. Len(o.log) <= Len(log) /\ \A i \in 1 .. Len(o.log) : o.log[i] = log[i]
    BY <1>1 DEF Faithful, Begins
  <2>4. Len(log) <= Len(log2) /\ \A i \in 1 .. Len(log) : log[i] = log2[i]
    BY DEF Begins
  <2>5. Begins(o.log, log2)
    BY <2>2, <2>3, <2>4 DEF Begins
  <2>6. Len(o.log) < Len(log) => Len(o.log) < Len(log2) /\ log2[Len(o.log) + 1] = log[Len(o.log) + 1]
    BY <2>2, <2>4
  <2>7. Len(o.log) < limit => Len(o.log) < limit2
    BY <2>2
  <2> QED
    BY <1>1, <2>5, <2>6, <2>7 DEF Faithful
<1> QED
  BY <1>1 DEF Leads

LEMMA Endpoints ==
    ASSUME NEW s \in Seq(Entries), NEW p, NEW q, NEW log, NEW limit, Leads(p, s, q, log, limit)
    PROVE  /\ p \in Positions /\ q \in Positions
           /\ Faithful(p, log, limit) /\ Faithful(q, log, limit)
<1>1. Len(s) \in Nat
  BY LenProperties
<1>2. 0 \in 0 .. Len(s) /\ Len(s) \in 0 .. Len(s)
  BY <1>1
<1> QED
  BY <1>2 DEF Leads

\* Entries are lines of the protocol.
LEMMA EntriesOf ==
    /\ \A t \in Names : Directive("test", t, "plain") \in Entries
    /\ \A t \in Names, outcome \in Outcomes, arg \in {"plain", "simple", "multipart"} :
          Directive(outcome, t, arg) \in Entries
    /\ \A token \in Texts, leads \in Phases \cup {"any"} : Text(token, leads) \in Entries
<1>1. ASSUME NEW t \in Names PROVE Directive("test", t, "plain") \in Entries
  BY DEF Directive, Entry, Entries, Lines, StartLines
<1>2. ASSUME NEW t \in Names, NEW outcome \in Outcomes, NEW arg \in {"plain", "simple", "multipart"}
      PROVE  Directive(outcome, t, arg) \in Entries
  <2>1. [cmd |-> outcome, name |-> t, arg |-> arg] \in OutcomeLines
    BY DEF OutcomeLines, OutcomeWords
  <2>2. [cmd |-> outcome, name |-> t, arg |-> arg] \in Lines
    BY <2>1 DEF Lines
  <2> QED
    BY <2>2 DEF Directive, Entry, Entries
<1>3. ASSUME NEW token \in Texts, NEW leads \in Phases \cup {"any"}
      PROVE  Text(token, leads) \in Entries
  <2>1. [cmd |-> "text", name |-> None, arg |-> token] \in Lines
    BY DEF Lines, TextLines
  <2> QED
    BY <2>1 DEF Text, Entry, Entries
<1> QED
  BY <1>1, <1>2, <1>3

\* The first i lines of a content.
LEMMA FirstLines ==
    ASSUME NEW content \in Seq(Texts)
    PROVE  /\ Len(content) \in Nat /\ DOMAIN content = 1 .. Len(content)
           /\ SubSeq(content, 1, 0) = <<>> /\ SubSeq(content, 1, Len(content)) = content
           /\ \A i \in 0 .. Len(content) : SubSeq(content, 1, i) \in Seq(Texts)
           /\ \A i \in 1 .. Len(content) :
                 /\ content[i] \in Texts
                 /\ SubSeq(content, 1, i) = Append(SubSeq(content, 1, i - 1), content[i])
<1> DEFINE n == Len(content)
<1>1. n \in Nat /\ DOMAIN content = 1 .. n /\ \A i \in 1 .. n : content[i] \in Texts
  BY LenProperties, ElementOfSeq
<1>2. ASSUME NEW i \in 0 .. n
      PROVE  /\ SubSeq(content, 1, i) \in Seq(Texts) /\ Len(SubSeq(content, 1, i)) = i
             /\ \A k \in 1 .. i : SubSeq(content, 1, i)[k] = content[k]
  <2>1. /\ SubSeq(content, 1, i) \in Seq(Texts)
        /\ Len(SubSeq(content, 1, i)) = IF 1 <= i THEN i - 1 + 1 ELSE 0
        /\ \A k \in 1 .. i - 1 + 1 : SubSeq(content, 1, i)[k] = content[1 + k - 1]
    <3>1. \A k \in 1 .. i : k \in 1 .. n
      BY <1>1
    <3> QED
      BY <1>1, <3>1, SubSeqProperties
  <2>2. \A k \in 1 .. i : k \in 1 .. i - 1 + 1 /\ 1 + k - 1 = k
    BY <1>1
  <2> QED
    BY <1>1, <2>1, <2>2
<1>3. SubSeq(content, 1, 0) = <<>>
  <2>1. SubSeq(content, 1, 0) \in Seq(Texts) /\ Len(SubSeq(content, 1, 0)) = 0
    BY <1>1, <1>2
  <2> QED
    BY <2>1, EmptySeq
<1>4. SubSeq(content, 1, n) = content
  <2>1. /\ SubSeq(content, 1, n) \in Seq(Texts) /\ Len(SubSeq(content, 1, n)) = n
        /\ \A k \in 1 .. n : SubSeq(content, 1, n)[k] = content[k]
    BY <1>1, <1>2
  <2> QED
    BY <1>1, <2>1, SeqEqual
<1>5. ASSUME NEW i \in 1 .. n
      PROVE  SubSeq(content, 1, i) = Append(SubSeq(content, 1, i - 1), content[i])
  <2>1. i \in 0 .. n /\ i - 1 \in 0 .. n /\ content[i] \in Texts
    BY <1>1
  <2> DEFINE s == SubSeq(content, 1, i)
             t == SubSeq(content, 1, i - 1)
             a == Append(t, content[i])
  <2>2. s \in Seq(Texts) /\ Len(s) = i /\ \A k \in 1 .. i : s[k] = content[k]
    BY <1>2, <2>1
  <2>3. t \in Seq(Texts) /\ Len(t) = i - 1 /\ \A k \in 1 .. i - 1 : t[k] = content[k]
    BY <1>2, <2>1
  <2> HIDE DEF s, t
  <2>4. /\ a \in Seq(Texts) /\ Len(a) = Len(t) + 1 /\ a[Len(t) + 1] = content[i]
        /\ \A k \in 1 .. Len(t) : a[k] = t[k]
    BY <2>1, <2>3, AppendProperties
  <2> HIDE DEF a
  <2>5. Len(a) = i /\ \A k \in 1 .. i : a[k] = content[k]
    BY <2>1, <2>3, <2>4
  <2>6. s = a
    BY <1>1, <2>2, <2>4, <2>5, SeqEqual
  <2> QED
    BY <2>6 DEF s, a, t
<1> QED
  BY <1>1, <1>2, <1>3, <1>4, <1>5

\* What a line of details does.
LEMMA AddsLine ==
    ASSUME NEW outcome \in Outcomes, NEW t, NEW details, NEW past, NEW token,
           token \notin {"end", "quoted"}
    PROVE  Follows(Reads(outcome, t, "simple", details, past), Text(token, "any"),
                   Reads(outcome, t, "simple", Append(details, token), past))
<1> DEFINE more == Append(details, token)
           p == Reads(outcome, t, "simple", details, past)
           e == Text(token, "any")
<1>1. /\ p.state = outcome /\ p.test = t /\ p.phase = "simple" /\ p.message = details /\ p.log = past
      /\ e.line.cmd = "text" /\ e.line.arg = token /\ e.leads = "any"
  BY DEF Reads, Text, Entry
<1> HIDE DEF p, e
<1>2. Adds(p, e, Reads(outcome, t, "simple", more, past))
  BY <1>1 DEF Adds
<1> QED
  BY <1>2 DEF Follows, p, e

LEMMA FeedsLine ==
    ASSUME NEW outcome \in Outcomes, NEW t, NEW details, NEW past, NEW token,
           NEW part \in Phases \ {"none", "simple"}, ~(part = "field" /\ token = "end"),
           NEW following \in Phases \ {"none", "simple"}
    PROVE  Follows(Reads(outcome, t, part, details, past), Text(token, following),
                   Reads(outcome, t, following,
                         IF part = "body" THEN Append(details, token) ELSE details, past))
<1> DEFINE more == IF part = "body" THEN Append(details, token) ELSE details
           p == Reads(outcome, t, part, details, past)
           e == Text(token, following)
<1>1. /\ p.state = outcome /\ p.test = t /\ p.phase = part /\ p.message = details /\ p.log = past
      /\ e.line.cmd = "text" /\ e.line.arg = token /\ e.leads = following
  BY DEF Reads, Text, Entry
<1>2. following \notin {"any", "none", "simple"} /\ part \notin {"none", "simple"}
  BY DEF Phases
<1> HIDE DEF p, e
<1>3. Feeds(p, e, Reads(outcome, t, following, more, past))
  BY <1>1, <1>2 DEF Feeds
<1> QED
  BY <1>3 DEF Follows, p, e

\* The lines of a content, one by one, add up to the content.
LEMMA SimpleBody ==
    ASSUME NEW outcome \in Outcomes, NEW t \in Names, NEW content \in Seq(Texts \ {"end", "quoted"}),
           NEW past \in Seq(Records), NEW log, NEW limit,
           \A details \in Seq(Texts) : Faithful(Reads(outcome, t, "simple", details, past), log, limit)
    PROVE  Leads(Reads(outcome, t, "simple", <<>>, past),
                 [i \in DOMAIN content |-> Text(content[i], "any")],
                 Reads(outcome, t, "simple", content, past), log, limit)
<1> DEFINE n == Len(content)
           lines == [i \in DOMAIN content |-> Text(content[i], "any")]
           path == [i \in 0 .. n |-> Reads(outcome, t, "simple", SubSeq(content, 1, i), past)]
<1>1. content \in Seq(Texts) /\ \A i \in 1 .. n : content[i] \notin {"end", "quoted"}
  <2>1. content \in Seq(Texts)
    BY SeqMonotonic
  <2>2. \A i \in 1 .. n : content[i] \in Texts \ {"end", "quoted"}
    BY ElementOfSeq
  <2> QED
    BY <2>1, <2>2
<1>2. n \in Nat /\ DOMAIN content = 1 .. n
  BY <1>1, FirstLines
<1>3. Len(lines) = n /\ \A i \in 1 .. n : lines[i] = Text(content[i], "any")
  BY <1>2
<1> HIDE DEF lines
<1>4. ASSUME NEW i \in 0 .. n
      PROVE  /\ path[i] = Reads(outcome, t, "simple", SubSeq(content, 1, i), past)
             /\ path[i] \in Positions /\ Faithful(path[i], log, limit)
  <2>1. SubSeq(content, 1, i) \in Seq(Texts)
    BY <1>1, FirstLines
  <2> QED
    BY <2>1 DEF Reads, Positions, Phases
<1>5. path \in [0 .. n -> Positions]
  BY <1>4
<1>6. path[0] = Reads(outcome, t, "simple", <<>>, past)
      /\ path[n] = Reads(outcome, t, "simple", content, past)
  <2>1. 0 \in 0 .. n /\ n \in 0 .. n
    BY <1>2
  <2> QED
    BY <1>1, <1>4, <2>1, FirstLines
<1> HIDE DEF path, n
<1>7. ASSUME NEW i \in 1 .. n PROVE Follows(path[i - 1], lines[i], path[i])
  <2>1. i \in 0 .. n /\ i - 1 \in 0 .. n
    BY <1>2
  <2>2. path[i - 1] = Reads(outcome, t, "simple", SubSeq(content, 1, i - 1), past)
    BY <1>4, <2>1
  <2>3. path[i] = Reads(outcome, t, "simple", Append(SubSeq(content, 1, i - 1), content[i]), past)
    BY <1>1, <1>4, <2>1, FirstLines DEF n
  <2> QED
    BY <1>1, <1>3, <2>2, <2>3, AddsLine
<1>8. Leads(path[0], lines, path[n], log, limit)
  BY <1>3, <1>4, <1>5, <1>7 DEF Leads
<1> QED
  BY <1>6, <1>8 DEF lines

LEMMA AddsTo ==
    ASSUME NEW a \in Seq(Texts), NEW b \in Seq(Texts), NEW x \in Texts
    PROVE  a \o Append(b, x) = Append(a \o b, x)
<1>1. Append(b, x) = b \o <<x>> /\ <<x>> \in Seq(Texts) /\ a \o b \in Seq(Texts)
  BY AppendIsConcat, ConcatProperties
<1>2. (a \o b) \o <<x>> = a \o (b \o <<x>>)
  BY <1>1, ConcatAssociative
<1>3. Append(a \o b, x) = (a \o b) \o <<x>>
  BY <1>1, AppendIsConcat
<1> QED
  BY <1>1, <1>2, <1>3

LEMMA MultipartBody ==
    ASSUME NEW outcome \in Outcomes, NEW t \in Names, NEW content \in Seq(Texts),
           content # <<>>, NEW after \in {"header", "field"}, NEW before \in Seq(Texts),
           NEW past \in Seq(Records), NEW log, NEW limit, NEW lines,
           lines = [i \in 1 .. Len(content) |->
                       Text(content[i], IF i < Len(content) THEN "body" ELSE after)],
           \A details \in Seq(Texts), part \in Phases \ {"none"} :
               Faithful(Reads(outcome, t, part, details, past), log, limit)
    PROVE  Leads(Reads(outcome, t, "body", before, past), lines,
                 Reads(outcome, t, after, before \o content, past), log, limit)
<1> DEFINE n == Len(content)
           part(i) == IF i < n THEN "body" ELSE after
           so(i) == before \o SubSeq(content, 1, i)
           path == [i \in 0 .. n |-> Reads(outcome, t, part(i), so(i), past)]
<1>2. n \in Nat \ {0} /\ DOMAIN content = 1 .. n
  BY FirstLines, EmptySeq
<1>3. Len(lines) = n /\ \A i \in 1 .. n : lines[i] = Text(content[i], part(i))
  BY <1>2
<1>9. /\ \A i \in 0 .. n : so(i) \in Seq(Texts)
      /\ so(0) = before /\ so(n) = before \o content
      /\ \A i \in 1 .. n : so(i) = Append(so(i - 1), content[i])
  <2>1. ASSUME NEW i \in 0 .. n PROVE so(i) \in Seq(Texts)
    <3>1. SubSeq(content, 1, i) \in Seq(Texts)
      BY FirstLines
    <3> QED
      BY <3>1, ConcatProperties
  <2>2. so(0) = before /\ so(n) = before \o content
    BY FirstLines, ConcatEmptySeq
  <2>3. ASSUME NEW i \in 1 .. n PROVE so(i) = Append(so(i - 1), content[i])
    <3>1. i - 1 \in 0 .. n
      BY <1>2
    <3>2. /\ SubSeq(content, 1, i - 1) \in Seq(Texts) /\ content[i] \in Texts
          /\ SubSeq(content, 1, i) = Append(SubSeq(content, 1, i - 1), content[i])
      BY <3>1, FirstLines
    <3> QED
      BY <3>2, AddsTo
  <2> QED
    BY <2>1, <2>2, <2>3
<1> HIDE DEF so
<1>4. ASSUME NEW i \in 0 .. n
      PROVE  /\ path[i] = Reads(outcome, t, part(i), so(i), past)
             /\ path[i] \in Positions /\ Faithful(path[i], log, limit)
  <2>1. so(i) \in Seq(Texts)
    BY <1>9
  <2>2. part(i) \in Phases \ {"none"}
    BY DEF Phases
  <2> QED
    BY <2>1, <2>2 DEF Reads, Positions, Phases
<1>5. path \in [0 .. n -> Positions]
  BY <1>4
<1>6. path[0] = Reads(outcome, t, "body", before, past)
      /\ path[n] = Reads(outcome, t, after, before \o content, past)
  <2>1. 0 \in 0 .. n /\ n \in 0 .. n /\ part(0) = "body" /\ part(n) = after
    BY <1>2
  <2> QED
    BY <1>4, <1>9, <2>1
<1> HIDE DEF path
<1>7. ASSUME NEW i \in 1 .. n PROVE Follows(path[i - 1], lines[i], path[i])
  <2>1. i \in 0 .. n /\ i - 1 \in 0 .. n /\ i - 1 < n
    BY <1>2
  <2>2. path[i - 1] = Reads(outcome, t, "body", so(i - 1), past)
    BY <1>4, <2>1
  <2>3. path[i] = Reads(outcome, t, part(i), Append(so(i - 1), content[i]), past)
    BY <1>4, <1>9, <2>1
  <2>4. lines[i] = Text(content[i], part(i)) /\ part(i) \in Phases \ {"none", "simple"}
    BY <1>3 DEF Phases
  <2> HIDE DEF part, n
  <2>5. "body" \in Phases \ {"none", "simple"}
    BY DEF Phases
  <2> QED
    BY <2>2, <2>3, <2>4, <2>5, FeedsLine
<1> HIDE DEF n
<1>8. Leads(path[0], lines, path[n], log, limit)
  BY <1>3, <1>4, <1>5, <1>7 DEF Leads
<1> QED
  BY <1>6, <1>8

\* A test and its outcome: where the parser is before, amid and after its lines.
LEMMA FaithfulThere ==
    ASSUME NEW past \in Seq(Records), NEW n \in 1 .. Len(Suite), Len(past) = n - 1,
           NEW outcome \in Outcomes, NEW content \in Seq(Texts)
    PROVE  LET t   == Suite[n]
               log == Append(past, RecordOf(t, outcome, content))
           IN  /\ t \in Names /\ log \in Seq(Records) /\ Len(log) = n /\ Begins(past, log)
               /\ Closed(Reads(outcome, t, "simple", content, past), outcome, content) = Outside(log)
               /\ Outside(log) \in Positions /\ Faithful(Outside(log), log, n)
               /\ InTest(t, past) \in Positions /\ Faithful(InTest(t, past), log, n)
               /\ \A details \in Seq(Texts), part \in Phases \ {"none"} :
                     /\ Reads(outcome, t, part, details, past) \in Positions
                     /\ Faithful(Reads(outcome, t, part, details, past), log, n)
<1> DEFINE t   == Suite[n]
           r   == RecordOf(t, outcome, content)
           log == Append(past, r)
<1>1. t \in Names
  BY SuiteAssumption, ElementOfSeq, LenProperties
<1>2. r \in Records /\ r.outcome = outcome
  <2>1. content \in Seq(Texts \cup {"lost connection"})
    BY SeqMonotonic
  <2> QED
    BY <1>1, <2>1 DEF RecordOf, Records
<1>3. Closed(Reads(outcome, t, "simple", content, past), outcome, content) = Outside(log)
  BY DEF Closed, Reads
<1> HIDE DEF t, r
<1>4. /\ log \in Seq(Records) /\ Len(log) = n /\ log[n] = r
      /\ \A i \in 1 .. Len(past) : log[i] = past[i]
  BY <1>2, AppendProperties
<1> HIDE DEF log
<1>5. Begins(past, log) /\ Begins(log, log)
  BY <1>4 DEF Begins
<1>6. "none" \in Phases /\ <<>> \in Seq(Texts)
  BY DEF Phases
<1>7. Outside(log) \in Positions /\ Faithful(Outside(log), log, n)
  BY <1>4, <1>5, <1>6 DEF Outside, Positions, Faithful, Outcomes
<1>8. InTest(t, past) \in Positions /\ Faithful(InTest(t, past), log, n)
  BY <1>1, <1>5, <1>6 DEF InTest, Positions, Faithful, Outcomes, t
<1>9. ASSUME NEW details \in Seq(Texts), NEW part \in Phases \ {"none"}
      PROVE  /\ Reads(outcome, t, part, details, past) \in Positions
             /\ Faithful(Reads(outcome, t, part, details, past), log, n)
  <2>1. Reads(outcome, t, part, details, past) \in Positions
    BY <1>1 DEF Reads, Positions
  <2>2. outcome \notin {"outside", "in_test"}
    BY DEF Outcomes
  <2>3. Len(past) + 1 = n /\ Len(past) < n
    OBVIOUS
  <2> QED
    BY <1>2, <1>4, <1>5, <2>1, <2>2, <2>3 DEF Reads, Faithful, t
<1> QED
  BY <1>1, <1>3, <1>4, <1>5, <1>7, <1>8, <1>9 DEF log, r, t

\* The directive, and the bracket at the end.
LEMMA OpeningLine ==
    ASSUME NEW outcome \in Outcomes, NEW t, NEW past, NEW content
    PROVE  /\ Follows(InTest(t, past), Directive(outcome, t, "plain"),
                      Outside(Append(past, RecordOf(t, outcome, <<>>))))
           /\ Follows(InTest(t, past), Directive(outcome, t, "simple"),
                      Reads(outcome, t, "simple", <<>>, past))
           /\ Follows(InTest(t, past), Directive(outcome, t, "multipart"),
                      Reads(outcome, t, "field", <<>>, past))
<1> DEFINE p == InTest(t, past)
           d(arg) == Directive(outcome, t, arg)
           more == Append(past, RecordOf(t, outcome, <<>>))
<1>1. p.state = "in_test" /\ p.test = t /\ p.log = past
  BY DEF InTest
<1>2. \A arg : d(arg).line.cmd = outcome /\ d(arg).line.name = t /\ d(arg).line.arg = arg
               /\ d(arg).leads = "any"
  BY DEF Directive, Entry
<1>3. Closed(p, outcome, <<>>) = Outside(more)
  BY <1>1 DEF Closed
<1> HIDE DEF p, d, more
<1>4. /\ Reports(p, d("plain"), Outside(more))
      /\ Reports(p, d("simple"), Reads(outcome, t, "simple", <<>>, past))
      /\ Reports(p, d("multipart"), Reads(outcome, t, "field", <<>>, past))
  BY <1>1, <1>2, <1>3 DEF Reports
<1> QED
  BY <1>4 DEF Follows, p, d, more

LEMMA ClosingLine ==
    ASSUME NEW outcome \in Outcomes, NEW t, NEW past, NEW content, NEW part \in {"simple", "field"}
    PROVE  Follows(Reads(outcome, t, part, content, past), Text("end", "any"),
                   Outside(Append(past, RecordOf(t, outcome, content))))
<1> DEFINE p == Reads(outcome, t, part, content, past)
           e == Text("end", "any")
           more == Append(past, RecordOf(t, outcome, content))
<1>1. /\ p.state = outcome /\ p.test = t /\ p.phase = part /\ p.message = content /\ p.log = past
      /\ e.line.cmd = "text" /\ e.line.arg = "end" /\ e.leads = "any"
  BY DEF Reads, Text, Entry
<1>2. Closed(p, p.state, p.message) = Outside(more)
  BY <1>1 DEF Closed
<1> HIDE DEF p, e, more
<1>3. Ends(p, e, Outside(more))
  BY <1>1, <1>2 DEF Ends
<1> QED
  BY <1>3 DEF Follows, p, e, more

LEMMA Triples ==
    ASSUME NEW S, NEW a \in S, NEW b \in S, NEW c \in S
    PROVE  Append(<<a>>, b) = <<a, b>> /\ Append(<<a, b>>, c) = <<a, b, c>>
<1>1. Append(<<a>>, b) = <<a, b>>
  <2>1. /\ Append(<<a>>, b) \in Seq(S) /\ Len(Append(<<a>>, b)) = 2
        /\ Append(<<a>>, b)[1] = a /\ Append(<<a>>, b)[2] = b
    BY AppendProperties
  <2>2. <<a, b>> \in Seq(S) /\ Len(<<a, b>>) = 2 /\ <<a, b>>[1] = a /\ <<a, b>>[2] = b
    OBVIOUS
  <2>3. \A i \in 1 .. 2 : i = 1 \/ i = 2
    OBVIOUS
  <2> QED
    BY <2>1, <2>2, <2>3, SeqEqual
<1>2. Append(<<a, b>>, c) = <<a, b, c>>
  <2>1. /\ Append(<<a, b>>, c) \in Seq(S) /\ Len(Append(<<a, b>>, c)) = 3
        /\ Append(<<a, b>>, c)[1] = a /\ Append(<<a, b>>, c)[2] = b /\ Append(<<a, b>>, c)[3] = c
    BY AppendProperties
  <2>2. /\ <<a, b, c>> \in Seq(S) /\ Len(<<a, b, c>>) = 3
        /\ <<a, b, c>>[1] = a /\ <<a, b, c>>[2] = b /\ <<a, b, c>>[3] = c
    OBVIOUS
  <2>3. \A i \in 1 .. 3 : i = 1 \/ i = 2 \/ i = 3
    OBVIOUS
  <2> QED
    BY <2>1, <2>2, <2>3, SeqEqual
<1> QED
  BY <1>1, <1>2

\* The three ways to report an outcome lead from the test to its end.
LEMMA PlainLeads ==
    ASSUME NEW past \in Seq(Records), NEW n \in 1 .. Len(Suite), Len(past) = n - 1,
           NEW outcome \in Outcomes
    PROVE  LET t   == Suite[n]
               log == Append(past, RecordOf(t, outcome, <<>>))
           IN  /\ PlainLines(outcome, t) \in Seq(Entries)
               /\ Leads(InTest(t, past), PlainLines(outcome, t), Outside(log), log, n)
<1> DEFINE t   == Suite[n]
           log == Append(past, RecordOf(t, outcome, <<>>))
<1>1. <<>> \in Seq(Texts)
  OBVIOUS
<1>2. /\ t \in Names /\ Outside(log) \in Positions /\ Faithful(Outside(log), log, n)
      /\ InTest(t, past) \in Positions /\ Faithful(InTest(t, past), log, n)
  BY <1>1, FaithfulThere
<1>3. Directive(outcome, t, "plain") \in Entries
  BY <1>2, EntriesOf
<1>4. Follows(InTest(t, past), Directive(outcome, t, "plain"), Outside(log))
  BY OpeningLine
<1> HIDE DEF t, log
<1>5. Leads(InTest(t, past), PlainLines(outcome, t), Outside(log), log, n)
  BY <1>2, <1>4, OneLine DEF PlainLines
<1> QED
  BY <1>3, <1>5 DEF PlainLines, t, log

LEMMA SimpleLeads ==
    ASSUME NEW past \in Seq(Records), NEW n \in 1 .. Len(Suite), Len(past) = n - 1,
           NEW outcome \in Outcomes, NEW content \in Seq(Texts \ {"end", "quoted"})
    PROVE  LET t   == Suite[n]
               log == Append(past, RecordOf(t, outcome, content))
           IN  /\ SimpleLines(outcome, t, content) \in Seq(Entries)
               /\ Leads(InTest(t, past), SimpleLines(outcome, t, content), Outside(log), log, n)
<1> DEFINE t   == Suite[n]
           log == Append(past, RecordOf(t, outcome, content))
           opening == <<Directive(outcome, t, "simple")>>
           body    == [i \in DOMAIN content |-> Text(content[i], "any")]
           closing == <<Text("end", "any")>>
<1>1. content \in Seq(Texts)
  BY SeqMonotonic
<1>2. /\ t \in Names /\ Outside(log) \in Positions /\ Faithful(Outside(log), log, n)
      /\ InTest(t, past) \in Positions /\ Faithful(InTest(t, past), log, n)
      /\ \A details \in Seq(Texts), part \in Phases \ {"none"} :
            /\ Reads(outcome, t, part, details, past) \in Positions
            /\ Faithful(Reads(outcome, t, part, details, past), log, n)
  BY <1>1, FaithfulThere
<1>3. /\ Follows(InTest(t, past), Directive(outcome, t, "simple"),
                 Reads(outcome, t, "simple", <<>>, past))
      /\ Follows(Reads(outcome, t, "simple", content, past), Text("end", "any"), Outside(log))
  BY OpeningLine, ClosingLine
<1>4. "simple" \in Phases \ {"none"} /\ <<>> \in Seq(Texts)
  BY DEF Phases
<1> HIDE DEF t, log
<1>5. opening \in Seq(Entries) /\ closing \in Seq(Entries)
  <2>1. Directive(outcome, t, "simple") \in Entries /\ Text("end", "any") \in Entries
    <3>1. "end" \in Texts
      BY DEF Texts
    <3> QED
      BY <1>2, <3>1, EntriesOf
  <2> QED
    BY <2>1
<1>6. body \in Seq(Entries)
  <2>1. Len(content) \in Nat /\ DOMAIN content = 1 .. Len(content)
        /\ \A i \in 1 .. Len(content) : content[i] \in Texts
    BY <1>1, FirstLines
  <2>2. \A i \in 1 .. Len(content) : Text(content[i], "any") \in Entries
    BY <2>1, EntriesOf
  <2>3. body \in [1 .. Len(content) -> Entries]
    BY <2>1, <2>2
  <2> QED
    BY <2>1, <2>3, SeqDef
<1>7. Leads(InTest(t, past), opening, Reads(outcome, t, "simple", <<>>, past), log, n)
  BY <1>2, <1>3, <1>4, OneLine
<1>8. Leads(Reads(outcome, t, "simple", <<>>, past), body,
            Reads(outcome, t, "simple", content, past), log, n)
  BY <1>2, <1>4, SimpleBody
<1>9. Leads(Reads(outcome, t, "simple", content, past), closing, Outside(log), log, n)
  BY <1>1, <1>2, <1>3, <1>4, OneLine
<1>10. SimpleLines(outcome, t, content) = (opening \o body) \o closing
  BY DEF SimpleLines
<1> HIDE DEF opening, body, closing
<1>11. opening \o body \in Seq(Entries) /\ (opening \o body) \o closing \in Seq(Entries)
  BY <1>5, <1>6, ConcatProperties
<1>12. Leads(InTest(t, past), opening \o body, Reads(outcome, t, "simple", content, past), log, n)
  BY <1>5, <1>6, <1>7, <1>8, LeadsThrough
<1>13. Leads(InTest(t, past), (opening \o body) \o closing, Outside(log), log, n)
  BY <1>5, <1>9, <1>11, <1>12, LeadsThrough
<1> QED
  BY <1>10, <1>11, <1>13 DEF t, log

\* What a part of a multipart message may be.
PartsOf == [content : Seq(Texts), terminated : BOOLEAN]

\* The lines of a part lead from one field to the next, and add its content.
LEMMA PartLeads ==
    ASSUME NEW outcome \in Outcomes, NEW t \in Names, NEW piece \in PartsOf,
           NEW before \in Seq(Texts), NEW past \in Seq(Records), NEW log, NEW limit,
           \A details \in Seq(Texts), p \in Phases \ {"none"} :
               /\ Reads(outcome, t, p, details, past) \in Positions
               /\ Faithful(Reads(outcome, t, p, details, past), log, limit)
    PROVE  /\ PartLines(piece) \in Seq(Entries)
           /\ Leads(Reads(outcome, t, "field", before, past), PartLines(piece),
                    Reads(outcome, t, "field", before \o piece.content, past), log, limit)
<1> DEFINE content == piece.content
           terminated == piece.terminated
           whole == before \o content
           m     == Len(content)
           after(i) == IF i < m THEN "body" ELSE IF terminated THEN "header" ELSE "field"
           part(p, details) == Reads(outcome, t, p, details, past)
           two     == Text("field", "name")
           three   == Text("other", "header")
           opening == <<two, three>>
           chunk   == IF m = 0 THEN <<>> ELSE <<Text("header", "body")>>
           body    == [i \in 1 .. m |-> Text(content[i], after(i))]
           zero    == IF m = 0 \/ terminated THEN <<Text("last", "field")>> ELSE <<>>
<1>0. content \in Seq(Texts) /\ terminated \in BOOLEAN
  BY DEF PartsOf
<1>9. PartLines(piece) = ((opening \o chunk) \o body) \o zero
  BY DEF PartLines
<1> HIDE DEF content, terminated
<1>1. /\ \A details \in Seq(Texts), p \in Phases \ {"none"} :
            part(p, details) \in Positions /\ Faithful(part(p, details), log, limit)
      /\ whole \in Seq(Texts)
  BY <1>0, ConcatProperties
<1>3. /\ {"field", "name", "header", "body"} \subseteq Phases \ {"none", "simple"}
      /\ Phases \ {"none", "simple"} \subseteq Phases \ {"none"}
  BY DEF Phases
<1>4. m \in Nat /\ DOMAIN content = 1 .. m /\ (\A i \in 1 .. m : content[i] \in Texts)
      /\ (m = 0 <=> content = <<>>)
  BY <1>0, FirstLines, EmptySeq
<1>5. /\ two \in Entries /\ three \in Entries /\ Text("header", "body") \in Entries
      /\ Text("last", "field") \in Entries
  <2>1. {"field", "other", "header", "last"} \subseteq Texts
    BY DEF Texts
  <2> QED
    BY <1>3, <2>1, EntriesOf
<1>6. /\ Follows(part("field", before), two, part("name", before))
      /\ Follows(part("name", before), three, part("header", before))
      /\ Follows(part("header", before), Text("header", "body"), part("body", before))
      /\ Follows(part("header", whole), Text("last", "field"), part("field", whole))
  <2> HIDE DEF whole
  <2>1. Follows(part("field", before), two, part("name", IF "field" = "body" THEN Append(before, "field") ELSE before))
    BY <1>3, FeedsLine
  <2>2. Follows(part("name", before), three, part("header", IF "name" = "body" THEN Append(before, "other") ELSE before))
    BY <1>3, FeedsLine
  <2>3. Follows(part("header", before), Text("header", "body"),
                part("body", IF "header" = "body" THEN Append(before, "header") ELSE before))
    BY <1>3, FeedsLine
  <2>4. Follows(part("header", whole), Text("last", "field"),
                part("field", IF "header" = "body" THEN Append(whole, "last") ELSE whole))
    BY <1>3, FeedsLine
  <2> HIDE DEF part, two, three
  <2> QED
    BY <2>1, <2>2, <2>3, <2>4
<1>7. opening \in Seq(Entries) /\ Leads(part("field", before), opening, part("header", before), log, limit)
  <2> HIDE DEF two, three
  <2>0. /\ part("field", before) \in Positions /\ Faithful(part("field", before), log, limit)
        /\ part("name", before) \in Positions /\ Faithful(part("name", before), log, limit)
        /\ part("header", before) \in Positions /\ Faithful(part("header", before), log, limit)
    BY <1>1, <1>3
  <2> HIDE DEF part
  <2>1. <<two>> \in Seq(Entries) /\ Leads(part("field", before), <<two>>, part("name", before), log, limit)
    <3>1. <<two>> \in Seq(Entries)
      BY <1>5
    <3> QED
      BY <1>6, <2>0, <3>1, OneLine
  <2>2. Append(<<two>>, three) = opening /\ opening \in Seq(Entries)
    <3>1. opening \in Seq(Entries)
      BY <1>5
    <3>2. Append(<<two>>, three) = opening
      BY <1>5, Triples
    <3> QED
      BY <3>1, <3>2
  <2> HIDE DEF opening
  <2>5. Leads(part("field", before), Append(<<two>>, three), part("header", before), log, limit)
    BY <1>5, <1>6, <2>0, <2>1, LastLine
  <2> QED
    BY <2>2, <2>5
<1> HIDE DEF opening, two, three
<1>10. /\ ((opening \o chunk) \o body) \o zero \in Seq(Entries)
       /\ Leads(part("field", before), ((opening \o chunk) \o body) \o zero, part("field", whole), log, limit)
  <2> DEFINE ending == <<Text("last", "field")>>
  <2>0. ending \in Seq(Entries) /\ Leads(part("header", whole), ending, part("field", whole), log, limit)
    <3>1. ending \in Seq(Entries)
      BY <1>5
    <3>2. /\ part("header", whole) \in Positions /\ Faithful(part("header", whole), log, limit)
          /\ part("field", whole) \in Positions /\ Faithful(part("field", whole), log, limit)
      BY <1>1, <1>3
    <3> HIDE DEF part, whole
    <3> QED
      BY <1>6, <3>1, <3>2, OneLine
  <2>1. CASE m = 0
    <3>1. chunk = <<>> /\ body = <<>> /\ zero = ending /\ whole = before
      BY <1>4, <2>1, ConcatEmptySeq
    <3>2. (opening \o <<>>) \o <<>> = opening
      BY <1>7, ConcatEmptySeq
    <3>3. Leads(part("header", before), ending, part("field", before), log, limit)
      BY <2>0, <3>1
    <3> HIDE DEF chunk, body, zero, part, ending, whole
    <3>4. opening \o ending \in Seq(Entries) /\ Leads(part("field", before), opening \o ending, part("field", before), log, limit)
      BY <1>7, <2>0, <3>3, LeadsThrough, ConcatProperties
    <3> QED
      BY <3>1, <3>2, <3>4
  <2>2. CASE m # 0
    <3> DEFINE to == IF terminated THEN "header" ELSE "field"
               first == <<Text("header", "body")>>
    <3>1. chunk = first /\ first \in Seq(Entries)
          /\ Leads(part("header", before), first, part("body", before), log, limit)
      <4>1. chunk = first
        BY <2>2
      <4>2. first \in Seq(Entries)
        BY <1>5
      <4>3. /\ part("header", before) \in Positions /\ Faithful(part("header", before), log, limit)
            /\ part("body", before) \in Positions /\ Faithful(part("body", before), log, limit)
        BY <1>1, <1>3
      <4> HIDE DEF part, chunk
      <4>4. Leads(part("header", before), first, part("body", before), log, limit)
        BY <1>6, <4>3, OneLine
      <4> QED
        BY <4>1, <4>2, <4>4
    <3>2. body = [i \in 1 .. m |-> Text(content[i], IF i < m THEN "body" ELSE to)]
      OBVIOUS
    <3>3. to \in {"header", "field"} /\ (to = "header" <=> terminated)
      OBVIOUS
    <3> HIDE DEF to
    <3>4. body \in Seq(Entries)
      <4>1. \A i \in 1 .. m : Text(content[i], IF i < m THEN "body" ELSE to) \in Entries
        <5>1. ASSUME NEW i \in 1 .. m PROVE (IF i < m THEN "body" ELSE to) \in Phases \cup {"any"}
          BY <3>3 DEF Phases
        <5> QED
          BY <1>4, <5>1, EntriesOf
      <4>2. body \in [1 .. m -> Entries]
        BY <3>2, <4>1
      <4> QED
        BY <1>4, <4>2, SeqDef
    <3> HIDE DEF chunk
    <3>5. Leads(part("body", before), body, part(to, whole), log, limit)
      <4>1. \A details \in Seq(Texts), p \in Phases \ {"none"} :
                Faithful(Reads(outcome, t, p, details, past), log, limit)
        BY <1>1
      <4> HIDE DEF body
      <4> QED
        BY <1>0, <1>4, <2>2, <3>2, <3>3, <4>1, MultipartBody
    <3> HIDE DEF body, part, first, ending, whole
    <3>6. opening \o first \in Seq(Entries)
          /\ Leads(part("field", before), opening \o first, part("body", before), log, limit)
      BY <1>7, <3>1, LeadsThrough, ConcatProperties
    <3>7. (opening \o first) \o body \in Seq(Entries)
          /\ Leads(part("field", before), (opening \o first) \o body, part(to, whole), log, limit)
      BY <3>4, <3>5, <3>6, LeadsThrough, ConcatProperties
    <3>8. CASE terminated
      <4>1. zero = ending
        BY <3>8 DEF ending
      <4>2. Leads(part(to, whole), ending, part("field", whole), log, limit)
        BY <2>0, <3>3, <3>8
      <4> HIDE DEF zero
      <4>3. ((opening \o first) \o body) \o ending \in Seq(Entries)
            /\ Leads(part("field", before), ((opening \o first) \o body) \o ending, part("field", whole), log, limit)
        BY <2>0, <3>7, <4>2, LeadsThrough, ConcatProperties
      <4> QED
        BY <3>1, <4>1, <4>3
    <3>9. CASE ~terminated
      <4>1. zero = <<>> /\ to = "field"
        BY <2>2, <3>3, <3>9
      <4> HIDE DEF zero
      <4>2. ((opening \o first) \o body) \o <<>> = (opening \o first) \o body
        BY <3>7, ConcatEmptySeq
      <4> QED
        BY <3>1, <3>7, <4>1, <4>2
    <3> QED
      BY <1>0, <3>8, <3>9
  <2> QED
    BY <2>1, <2>2
<1> QED
  BY <1>9, <1>10 DEF content

LEMMA MultipartLeads ==
    ASSUME NEW past \in Seq(Records), NEW n \in 1 .. Len(Suite), Len(past) = n - 1,
           NEW outcome \in Outcomes, NEW parts \in Seq(PartsOf)
    PROVE  LET t   == Suite[n]
               log == Append(past, RecordOf(t, outcome, Details(parts)))
           IN  /\ Details(parts) \in Seq(Texts)
               /\ MultipartLines(outcome, t, parts) \in Seq(Entries)
               /\ Leads(InTest(t, past), MultipartLines(outcome, t, parts), Outside(log), log, n)
<1> DEFINE t   == Suite[n]
           content == Details(parts)
           log == Append(past, RecordOf(t, outcome, content))
           m   == Len(parts)
           part(p, details) == Reads(outcome, t, p, details, past)
           opening == <<Directive(outcome, t, "multipart")>>
           closing == <<Text("end", "any")>>
           contents == [k \in DOMAIN parts |-> parts[k].content]
           lines    == [k \in DOMAIN parts |-> PartLines(parts[k])]
<1>1. m \in Nat /\ DOMAIN parts = 1 .. m /\ \A k \in 1 .. m : parts[k] \in PartsOf
  BY LenProperties, ElementOfSeq
<1>2. contents \in Seq(Seq(Texts)) /\ Len(contents) = m /\ \A k \in 1 .. m : contents[k] = parts[k].content
  <2>1. \A k \in 1 .. m : parts[k].content \in Seq(Texts)
    BY <1>1 DEF PartsOf
  <2>2. contents \in [1 .. m -> Seq(Texts)]
    BY <1>1, <2>1
  <2>3. contents \in Seq(Seq(Texts))
    BY <1>1, <2>2, SeqDef
  <2> QED
    BY <1>1, <2>2, <2>3
<1> HIDE DEF contents
<1>3. PICK h \in [0 .. m -> Seq(Texts)] :
        /\ h[0] = <<>> /\ h[m] = FlattenSeq(contents)
        /\ \A k \in 1 .. m : h[k] = h[k - 1] \o contents[k]
  <2>1. \E h \in [0 .. Len(contents) -> Seq(Texts)] :
          /\ h[0] = <<>> /\ h[Len(contents)] = FlattenSeq(contents)
          /\ \A k \in 1 .. Len(contents) : h[k] = h[k - 1] \o contents[k]
    <3>1. contents \in Seq(Seq(Texts))
      BY <1>2
    <3> HIDE DEF m
    <3> QED
      BY ONLY <3>1, Flattens, Zenon
  <2>2. Len(contents) = m
    BY <1>2
  <2> HIDE DEF m
  <2> QED
    BY <2>1, <2>2, Zenon
<1>4. content = h[m] /\ content \in Seq(Texts)
  <2>1. content = FlattenSeq(contents)
    BY DEF Details, contents
  <2>2. m \in 0 .. m
    BY <1>1
  <2> QED
    BY <1>3, <2>1, <2>2
<1> HIDE DEF content
<1>5. /\ t \in Names /\ Outside(log) \in Positions /\ Faithful(Outside(log), log, n)
      /\ InTest(t, past) \in Positions /\ Faithful(InTest(t, past), log, n)
      /\ \A details \in Seq(Texts), p \in Phases \ {"none"} :
            part(p, details) \in Positions /\ Faithful(part(p, details), log, n)
  BY <1>4, FaithfulThere
<1>6. /\ Follows(InTest(t, past), Directive(outcome, t, "multipart"), part("field", <<>>))
      /\ Follows(part("field", content), Text("end", "any"), Outside(log))
  BY OpeningLine, ClosingLine
<1> HIDE DEF t, log
<1>7. "field" \in Phases \ {"none"} /\ <<>> \in Seq(Texts)
  BY DEF Phases
<1>8. Directive(outcome, t, "multipart") \in Entries /\ Text("end", "any") \in Entries
  <2>1. "end" \in Texts
    BY DEF Texts
  <2> QED
    BY <1>5, <2>1, EntriesOf
<1>9. /\ opening \in Seq(Entries) /\ Leads(InTest(t, past), opening, part("field", <<>>), log, n)
      /\ closing \in Seq(Entries) /\ Leads(part("field", content), closing, Outside(log), log, n)
  <2>1. opening \in Seq(Entries) /\ closing \in Seq(Entries)
    BY <1>8
  <2>2. /\ part("field", <<>>) \in Positions /\ Faithful(part("field", <<>>), log, n)
        /\ part("field", content) \in Positions /\ Faithful(part("field", content), log, n)
    BY <1>4, <1>5, <1>7
  <2> HIDE DEF part
  <2> QED
    BY <1>5, <1>6, <2>1, <2>2, OneLine
<1>10. ASSUME NEW k \in 1 .. m, NEW before \in Seq(Texts)
       PROVE  /\ lines[k] \in Seq(Entries)
              /\ Leads(part("field", before), lines[k], part("field", before \o contents[k]), log, n)
  <2>1. lines[k] = PartLines(parts[k]) /\ parts[k] \in PartsOf /\ contents[k] = parts[k].content
    BY <1>1, <1>2
  <2> HIDE DEF lines
  <2> QED
    BY <1>5, <2>1, PartLeads
<1>11. lines \in Seq(Seq(Entries)) /\ Len(lines) = m
  <2>1. lines \in [1 .. m -> Seq(Entries)]
    BY <1>1, <1>7, <1>10
  <2> HIDE DEF lines
  <2> QED
    BY <1>1, <2>1, SeqDef
<1> HIDE DEF lines
<1>12. PICK g \in [0 .. m -> Seq(Entries)] :
         /\ g[0] = <<>> /\ g[m] = FlattenSeq(lines)
         /\ \A k \in 1 .. m : g[k] = g[k - 1] \o lines[k]
  <2>1. \E g \in [0 .. Len(lines) -> Seq(Entries)] :
          /\ g[0] = <<>> /\ g[Len(lines)] = FlattenSeq(lines)
          /\ \A k \in 1 .. Len(lines) : g[k] = g[k - 1] \o lines[k]
    <3>1. lines \in Seq(Seq(Entries))
      BY <1>11
    <3> HIDE DEF m
    <3> QED
      BY ONLY <3>1, Flattens, Zenon
  <2>2. Len(lines) = m
    BY <1>11
  <2> HIDE DEF m
  <2> QED
    BY <2>1, <2>2, Zenon
<1>13. Leads(part("field", <<>>), g[m], part("field", h[m]), log, n)
  <2> DEFINE S == {k \in Nat : k <= m => Leads(part("field", <<>>), g[k], part("field", h[k]), log, n)}
  <2>1. 0 \in S
    <3>1. part("field", <<>>) \in Positions /\ Faithful(part("field", <<>>), log, n)
      BY <1>5, <1>7
    <3> HIDE DEF part
    <3>2. Leads(part("field", <<>>), <<>>, part("field", <<>>), log, n)
      BY <3>1, NoLines
    <3> QED
      BY <1>3, <1>12, <3>2
  <2>2. ASSUME NEW k \in S PROVE k + 1 \in S
    <3>1. k \in Nat /\ (k <= m => Leads(part("field", <<>>), g[k], part("field", h[k]), log, n))
      OBVIOUS
    <3>2. ASSUME k + 1 <= m PROVE Leads(part("field", <<>>), g[k + 1], part("field", h[k + 1]), log, n)
      <4>1. k + 1 \in 1 .. m /\ (k + 1) - 1 = k /\ k \in 0 .. m /\ k <= m
        BY <1>1, <3>1, <3>2
      <4>2. g[k + 1] = g[k] \o lines[k + 1] /\ h[k + 1] = h[k] \o contents[k + 1]
        <5>1. g[k + 1] = g[(k + 1) - 1] \o lines[k + 1] /\ h[k + 1] = h[(k + 1) - 1] \o contents[k + 1]
          BY <1>3, <1>12, <4>1
        <5> QED
          BY <4>1, <5>1
      <4>3. g[k] \in Seq(Entries) /\ h[k] \in Seq(Texts)
        BY <1>3, <1>12, <4>1
      <4>4. lines[k + 1] \in Seq(Entries)
            /\ Leads(part("field", h[k]), lines[k + 1], part("field", h[k] \o contents[k + 1]), log, n)
        BY <1>10, <4>1, <4>3
      <4> HIDE DEF part
      <4>5. Leads(part("field", <<>>), g[k] \o lines[k + 1], part("field", h[k] \o contents[k + 1]), log, n)
        BY <3>1, <4>1, <4>3, <4>4, LeadsThrough
      <4> QED
        BY <4>2, <4>5
    <3> HIDE DEF part
    <3> QED
      BY <3>1, <3>2
  <2>3. S = Nat
    <3> HIDE DEF S
    <3>1. S \in SUBSET Nat
      BY DEF S
    <3> QED
      BY <2>1, <2>2, <3>1, Induct
  <2>4. m \in S /\ m <= m
    <3> HIDE DEF S
    <3> QED
      BY <1>1, <2>3
  <2> HIDE DEF part
  <2> QED
    BY <2>4
<1> DEFINE middle == AllParts(parts)
<1>14. middle \in Seq(Entries) /\ Leads(part("field", <<>>), middle, part("field", content), log, n)
  <2>1. middle = g[m]
    BY <1>12 DEF AllParts, lines
  <2>2. g[m] \in Seq(Entries)
    BY <1>1, <1>12
  <2> HIDE DEF middle, part
  <2> QED
    BY <1>4, <1>13, <2>1, <2>2
<1>15. MultipartLines(outcome, t, parts) = (opening \o middle) \o closing
  BY DEF MultipartLines
<1> HIDE DEF middle, opening, closing, part
<1>16. opening \o middle \in Seq(Entries)
       /\ Leads(InTest(t, past), opening \o middle, part("field", content), log, n)
  BY <1>9, <1>14, LeadsThrough, ConcatProperties
<1>17. (opening \o middle) \o closing \in Seq(Entries)
       /\ Leads(InTest(t, past), (opening \o middle) \o closing, Outside(log), log, n)
  BY <1>9, <1>16, LeadsThrough, ConcatProperties
<1> QED
  BY <1>4, <1>15, <1>17 DEF t, log, content

\* A log that begins another one agrees with it; one more record may be that of
\* a lost connection, or have lost its details.
LEMMA BeginningsAgree ==
    ASSUME childLog \in Seq(Records), parentLog \in Seq(Records), Begins(parentLog, childLog)
    PROVE  OutcomesAgree
<1>1. /\ Len(parentLog) \in Nat /\ DOMAIN parentLog = 1 .. Len(parentLog)
      /\ Len(childLog) \in Nat /\ DOMAIN childLog = 1 .. Len(childLog)
  BY LenProperties
<1> QED
  BY <1>1 DEF Begins, OutcomesAgree

LEMMA OneMoreAgrees ==
    ASSUME NEW past \in Seq(Records), NEW r \in Records, childLog' \in Seq(Records),
           parentLog' = Append(past, r), Begins(past, childLog'), child' = "crashed",
           Len(past) < next', next' \in Nat, r.test = Suite[Len(past) + 1],
           \/ Lost(r)
           \/ r.outcome = childLog'[Len(past) + 1].outcome /\ r.details = <<>>
    PROVE  OutcomesAgree'
<1> DEFINE n == Len(past)
<1>1. n \in Nat /\ Len(childLog') \in Nat /\ DOMAIN childLog' = 1 .. Len(childLog')
  BY LenProperties
<1>2. /\ parentLog' \in Seq(Records) /\ Len(parentLog') = n + 1 /\ parentLog'[n + 1] = r
      /\ \A i \in 1 .. n : parentLog'[i] = past[i]
  BY AppendProperties
<1>3. DOMAIN parentLog' = 1 .. n + 1
  BY <1>2, LenProperties
<1>4. n <= Len(childLog') /\ \A i \in 1 .. n : past[i] = childLog'[i]
  BY DEF Begins
<1> HIDE DEF n
<1>5. ASSUME NEW i \in 1 .. n PROVE i \in DOMAIN childLog' /\ parentLog'[i] = childLog'[i]
  BY <1>1, <1>2, <1>4
<1>6. n + 1 = Len(parentLog') /\ n + 1 <= next' /\ r.test = Suite[n + 1]
  BY <1>1, <1>2 DEF n
<1>7. \/ Lost(parentLog'[n + 1])
      \/ parentLog'[n + 1].outcome = childLog'[n + 1].outcome /\ parentLog'[n + 1].details = <<>>
  BY <1>2 DEF n
<1>8. ASSUME NEW i \in 1 .. n + 1, i # n + 1 PROVE i \in 1 .. n
  BY <1>1, <1>8
<1> HIDE DEF Lost
<1>9. ASSUME NEW i \in DOMAIN parentLog'
      PROVE  \/ i \in DOMAIN childLog' /\ parentLog'[i] = childLog'[i]
             \/ /\ child' = "crashed" /\ i = Len(parentLog')
                /\ i <= next' /\ parentLog'[i].test = Suite[i]
                /\ \/ Lost(parentLog'[i])
                   \/ /\ parentLog'[i].outcome = childLog'[i].outcome
                      /\ parentLog'[i].details = <<>>
  <2>1. CASE i = n + 1
    BY <1>2, <1>6, <1>7, <2>1
  <2>2. CASE i # n + 1
    BY <1>3, <1>5, <1>8, <2>2
  <2> QED
    BY <2>1, <2>2
<1> QED
  BY <1>9 DEF OutcomesAgree, Lost

\* Where the parser is, as long as it does not move.
LEMMA StaysAt ==
    ASSUME NEW p, At(p), UNCHANGED <<vars, parentLog>>
    PROVE  At(p)' /\ raised' = raised /\ eof' = eof
  BY DEF At, vars, parserVars

\* In the beginning there is nothing to read.
LEMMA StartsAgreed == ASSUME IsolatedInit PROVE Agreed
<1>1. ChildCounts
  <2>1. Len(Suite) \in Nat
    BY SuiteAssumption, LenProperties
  <2>2. /\ child = "idle" /\ next = 1 /\ buffer = <<>> /\ childLog = <<>> /\ pipe = <<>>
        /\ parentLog = <<>> /\ raised = FALSE /\ eof = FALSE
    BY DEF IsolatedInit, Init
  <2>3. <<>> \in Seq(Records) /\ <<>> \in Seq(Entries) /\ Len(<<>>) = 0
    OBVIOUS
  <2>4. /\ childLog \in Seq(Records) /\ parentLog \in Seq(Records)
        /\ buffer \in Seq(Entries) /\ pipe \in Seq(Entries)
    BY <2>2, <2>3
  <2>5. Len(childLog) = next - 1
    BY <2>2, <2>3
  <2>6. 1 \in 1 .. Len(Suite) + 1 /\ FALSE \in BOOLEAN
    BY <2>1
  <2> QED
    BY <2>2, <2>4, <2>5, <2>6 DEF ChildCounts
<1> DEFINE p == Outside(<<>>)
<1>2. p \in Positions /\ Faithful(p, <<>>, 1)
  BY DEF Outside, Positions, Faithful, Begins, Phases, Outcomes
<1>3. Leads(p, <<>>, p, <<>>, 1)
  BY <1>2, NoLines
<1>4. At(p)
  BY DEF IsolatedInit, Init, At, Outside
<1> HIDE DEF p
<1>5. WhileItLives
  BY <1>3, <1>4 DEF IsolatedInit, Init, WhileItLives, Done, p
<1>6. AfterCrash
  BY DEF IsolatedInit, AfterCrash
<1> QED
  BY <1>1, <1>5, <1>6 DEF Agreed

\* What holds while the child runs.
LEMMA Alive ==
    ASSUME Agreed, Running
    PROVE  /\ ~raised /\ ~eof /\ child # "crashed" /\ next \in Nat
           /\ childLog \in Seq(Records) /\ pipe \in Seq(Entries) /\ buffer \in Seq(Entries)
           /\ \E p, q, r : /\ At(p) /\ Leads(p, pipe, q, childLog, next)
                           /\ Leads(q, buffer, r, childLog, next) /\ Done(r)
           /\ buffer = <<>> =>
                 \E p, q : At(p) /\ Leads(p, pipe, q, childLog, next) /\ Done(q)
                           /\ q \in Positions /\ Faithful(q, childLog, next)
<1>1. child \in {"idle", "in_test", "recorded"}
  BY DEF Running
<1>2. ~raised /\ ~eof /\ child # "crashed"
  BY <1>1 DEF Agreed, WhileItLives
<1>3. /\ childLog \in Seq(Records) /\ pipe \in Seq(Entries) /\ buffer \in Seq(Entries)
      /\ next \in Nat
  <2>1. Len(Suite) \in Nat
    BY SuiteAssumption, LenProperties
  <2> QED
    BY <2>1 DEF Agreed, ChildCounts
<1>4. PICK p, q, r : /\ At(p) /\ Leads(p, pipe, q, childLog, next)
                     /\ Leads(q, buffer, r, childLog, next) /\ Done(r)
  BY <1>2 DEF Agreed, WhileItLives
<1>5. q \in Positions /\ Faithful(q, childLog, next)
  BY <1>3, <1>4, Endpoints
<1>6. ASSUME buffer = <<>> PROVE r = q
  BY <1>4, <1>5, <1>6, NoLines
<1> QED
  BY <1>2, <1>3, <1>4, <1>5, <1>6

LEMMA StartTestStep == ASSUME Agreed, client_startTest PROVE Agreed'
<1>1. Running /\ buffer = <<>> /\ child = "idle"
  BY DEF client_startTest, Running, Agreed, ChildCounts
<1>2. PICK p, q : /\ At(p) /\ Leads(p, pipe, q, childLog, next) /\ Done(q)
                  /\ q \in Positions /\ Faithful(q, childLog, next)
  BY <1>1, Alive
<1>3. PICK n, past, t : n = next /\ past = childLog /\ t = Suite[n]
  OBVIOUS
<1>4. /\ n \in 1 .. Len(Suite) /\ Len(past) = n - 1 /\ past \in Seq(Records) /\ t \in Names
      /\ Len(Suite) \in Nat
  <2>1. Len(Suite) \in Nat /\ next \in 1 .. Len(Suite) + 1 /\ next <= Len(Suite)
    BY SuiteAssumption, LenProperties DEF client_startTest, Agreed, ChildCounts
  <2>2. n \in 1 .. Len(Suite)
    BY <1>3, <2>1
  <2> QED
    BY <1>1, <1>3, <2>1, <2>2, SuiteAssumption, ElementOfSeq DEF Agreed, ChildCounts
<1> DEFINE e == Directive("test", t, "plain")
           r == InTest(t, past)
<1>5. q = Outside(past)
  BY <1>1, <1>2, <1>3 DEF Done
<1>6. e \in Entries
  BY <1>4, EntriesOf
<1>7. r \in Positions /\ Faithful(r, past, n)
  <2>1. "none" \in Phases /\ <<>> \in Seq(Texts)
    BY DEF Phases
  <2>2. Begins(past, past)
    BY DEF Begins
  <2> QED
    BY <1>3, <1>4, <2>1, <2>2 DEF InTest, Positions, Faithful, Outcomes
<1>8. Follows(q, e, r)
  <2>1. q.state = "outside" /\ q.log = past
    BY <1>5 DEF Outside
  <2>2. e.line.cmd = "test" /\ e.line.arg = "plain" /\ e.line.name = t /\ e.leads = "any"
    BY DEF Directive, Entry
  <2> QED
    BY <2>1, <2>2 DEF Opens, Follows
<1>9. buffer' = <<e>> /\ <<e>> \in Seq(Entries)
  <2>1. buffer' = Append(<<>>, e)
    BY <1>1, <1>3 DEF client_startTest
  <2> HIDE DEF e
  <2> QED
    BY <1>6, <2>1
<1> HIDE DEF e, r
<1>10. Leads(q, <<e>>, r, past, n)
  BY <1>2, <1>3, <1>7, <1>8, OneLine
<1>11. /\ child' = "in_test" /\ next' = n /\ childLog' = past /\ pipe' = pipe
       /\ parentLog' = parentLog /\ raised' = raised /\ eof' = eof /\ At(p)'
  BY <1>2, <1>3, StaysAt DEF client_startTest, vars
<1>12. ChildCounts'
  BY <1>4, <1>9, <1>11 DEF Agreed, ChildCounts
<1>13. Done(r)'
  BY <1>3, <1>11 DEF Done, r
<1>14. ~raised' /\ ~eof'
  BY <1>1, <1>11, Alive
<1>15. WhileItLives'
  BY <1>2, <1>3, <1>9, <1>10, <1>11, <1>13, <1>14 DEF WhileItLives
<1> QED
  BY <1>11, <1>12, <1>15 DEF Agreed, AfterCrash

LEMMA DrainStep == ASSUME Agreed, Drain PROVE Agreed'
<1>1. Running /\ buffer # <<>>
  BY DEF Drain
<1>2. /\ ~raised /\ ~eof /\ child # "crashed" /\ pipe \in Seq(Entries) /\ buffer \in Seq(Entries)
  BY <1>1, Alive
<1>3. PICK p, q, r : /\ At(p) /\ Leads(p, pipe, q, childLog, next)
                     /\ Leads(q, buffer, r, childLog, next) /\ Done(r)
  BY <1>1, Alive
<1>4. /\ Head(buffer) \in Entries /\ Tail(buffer) \in Seq(Entries) /\ q \in Positions
      /\ Faithful(q, childLog, next)
  BY <1>1, <1>2, <1>3, FirstLine
<1>5. PICK o \in Positions : /\ Follows(q, Head(buffer), o) /\ Faithful(o, childLog, next)
                             /\ Leads(o, Tail(buffer), r, childLog, next)
  BY <1>1, <1>2, <1>3, FirstLine
<1>6. Leads(p, Append(pipe, Head(buffer)), o, childLog, next)
  BY <1>2, <1>3, <1>4, <1>5, LastLine
<1>7. /\ child' = child /\ next' = next /\ childLog' = childLog /\ parentLog' = parentLog
      /\ raised' = raised /\ eof' = eof /\ At(p)'
      /\ pipe' = Append(pipe, Head(buffer)) /\ buffer' = Tail(buffer)
  BY <1>3, StaysAt DEF Drain, vars
<1>8. pipe' \in Seq(Entries)
  BY <1>2, <1>4, <1>7, AppendProperties
<1>9. child \notin {"idle", "exited", "crashed"}
  BY <1>1 DEF Agreed, ChildCounts
<1>10. ChildCounts'
  BY <1>4, <1>7, <1>8, <1>9 DEF Agreed, ChildCounts
<1>11. Done(r)'
  BY <1>3, <1>7 DEF Done
<1>12. WhileItLives'
  BY <1>2, <1>5, <1>6, <1>7, <1>11 DEF WhileItLives
<1> QED
  BY <1>2, <1>7, <1>10, <1>12 DEF Agreed, AfterCrash

LEMMA NoiseStep == ASSUME Agreed, WriteNoise PROVE Agreed'
<1>1. Running /\ buffer = <<>> /\ pipe = <<>> /\ child = "in_test"
  BY DEF WriteNoise, Running, Flushed
<1>2. PICK p, q : /\ At(p) /\ Leads(p, pipe, q, childLog, next) /\ Done(q)
                  /\ q \in Positions /\ Faithful(q, childLog, next)
  BY <1>1, Alive
<1>3. p \in Positions /\ pipe \in Seq(Entries) /\ ~raised /\ ~eof
  BY <1>1, <1>2, Alive, Endpoints
<1>4. q = p
  BY <1>1, <1>2, <1>3, NoLines
<1>5. Noise \in Entries
  BY EntriesOf DEF Noise, Texts
<1>6. Follows(p, Noise, p)
  <2>1. p.state = "in_test"
    BY <1>1, <1>2, <1>4 DEF Done, InTest
  <2>2. Noise.line.cmd = "text" /\ Noise.leads = "any"
    BY DEF Noise, Text, Entry
  <2> QED
    BY <2>1, <2>2 DEF Prints, Follows
<1>7. /\ Leads(p, <<Noise>>, p, childLog, next) /\ Leads(p, <<>>, p, childLog, next)
      /\ <<Noise>> \in Seq(Entries)
  <2>1. <<Noise>> \in Seq(Entries)
    BY <1>5
  <2> QED
    BY <1>2, <1>3, <1>4, <1>6, <2>1, OneLine, NoLines
<1>8. /\ child' = child /\ next' = next /\ childLog' = childLog /\ parentLog' = parentLog
      /\ raised' = raised /\ eof' = eof /\ At(p)' /\ buffer' = <<>> /\ pipe' = <<Noise>>
  BY <1>1, <1>2, StaysAt DEF WriteNoise, vars, childVars
<1>9. ChildCounts'
  BY <1>1, <1>7, <1>8 DEF Agreed, ChildCounts
<1>10. Done(p)'
  BY <1>2, <1>4, <1>8 DEF Done
<1>11. WhileItLives'
  BY <1>3, <1>7, <1>8, <1>10 DEF WhileItLives
<1> QED
  BY <1>1, <1>8, <1>9, <1>11 DEF Agreed, AfterCrash

\* An outcome is written, in lines that lead to it.
LEMMA OutcomeStep ==
    ASSUME Agreed, NEW outcome \in Outcomes, NEW content \in Seq(Texts), NEW lines,
           Started, _addOutcome(outcome, content, lines), lines \in Seq(Entries),
           Leads(InTest(Suite[next], childLog), lines,
                 Outside(Append(childLog, RecordOf(Suite[next], outcome, content))),
                 Append(childLog, RecordOf(Suite[next], outcome, content)), next)
    PROVE  Agreed'
<1>1. Running /\ buffer = <<>> /\ child = "in_test"
  BY DEF Started, Running, Flushed
<1>2. PICK p, q : /\ At(p) /\ Leads(p, pipe, q, childLog, next) /\ Done(q)
                  /\ q \in Positions /\ Faithful(q, childLog, next)
  BY <1>1, Alive
<1>3. PICK n, past, t : n = next /\ past = childLog /\ t = Suite[n]
  OBVIOUS
<1>4. PICK log : log = Append(past, RecordOf(t, outcome, content))
  OBVIOUS
<1>5. /\ n \in 1 .. Len(Suite) /\ Len(past) = n - 1 /\ past \in Seq(Records)
      /\ Len(Suite) \in Nat /\ n \in Nat
  <2>1. Len(Suite) \in Nat /\ next \in 1 .. Len(Suite) + 1 /\ next <= Len(Suite)
    BY <1>1, SuiteAssumption, LenProperties DEF Agreed, ChildCounts
  <2>2. n \in 1 .. Len(Suite) /\ n \in Nat
    BY <1>3, <2>1
  <2> QED
    BY <1>1, <1>3, <2>1, <2>2 DEF Agreed, ChildCounts
<1>6. log \in Seq(Records) /\ Len(log) = n /\ Begins(past, log)
  BY <1>3, <1>4, <1>5, FaithfulThere
<1>7. /\ pipe \in Seq(Entries) /\ ~raised /\ ~eof
  BY <1>1, Alive
<1>8. q = InTest(t, past)
  BY <1>1, <1>2, <1>3 DEF Done
<1>9. Leads(q, lines, Outside(log), log, n)
  BY <1>3, <1>4, <1>8
<1>10. Leads(p, pipe, q, log, n)
  BY <1>2, <1>3, <1>5, <1>6, <1>7, LeadsStill
<1>11. buffer' = lines
  <2>1. buffer' = <<>> \o lines
    BY <1>1 DEF _addOutcome
  <2> QED
    BY <2>1, ConcatEmptySeq
<1>12. /\ child' = "recorded" /\ next' = n /\ childLog' = log /\ parentLog' = parentLog
       /\ raised' = raised /\ eof' = eof /\ At(p)' /\ pipe' = pipe
  BY <1>2, <1>3, <1>4, StaysAt DEF _addOutcome, RecordOf, vars
<1>13. ChildCounts'
  BY <1>5, <1>6, <1>11, <1>12 DEF Agreed, ChildCounts
<1>14. Done(Outside(log))'
  BY <1>12 DEF Done
<1>15. WhileItLives'
  BY <1>7, <1>9, <1>10, <1>11, <1>12, <1>14 DEF WhileItLives
<1> QED
  BY <1>12, <1>13, <1>15 DEF Agreed, AfterCrash

LEMMA ContentsAre ==
    ASSUME NEW tokens, NEW content \in Contents(tokens)
    PROVE  content \in Seq(tokens)
<1>1. PICK n \in 0 .. MaxMessage : content \in [1 .. n -> tokens]
  BY DEF Contents
<1>2. n \in Nat
  BY <1>1, MaxMessageAssumption
<1> QED
  BY <1>1, <1>2, SeqDef

LEMMA AddStep ==
    ASSUME Unbracketed, Agreed, addPlain \/ addSimple \/ addMultipart
    PROVE  Agreed'
<1>1. Started /\ child = "in_test"
  BY DEF addPlain, addSimple, addMultipart, Started
<1>2. /\ next \in 1 .. Len(Suite) /\ Len(childLog) = next - 1 /\ childLog \in Seq(Records)
  <2>1. Len(Suite) \in Nat
    BY SuiteAssumption, LenProperties
  <2> QED
    BY <1>1, <2>1 DEF Agreed, ChildCounts
<1>3. PlainOutcomes \subseteq Outcomes /\ SimpleOutcomes \subseteq Outcomes
  BY DEF PlainOutcomes, SimpleOutcomes, Outcomes
<1>4. CASE addPlain
  <2>1. PICK outcome \in PlainOutcomes : _addOutcome(outcome, <<>>, PlainLines(outcome, Suite[next]))
    BY <1>4 DEF addPlain
  <2>2. outcome \in Outcomes /\ <<>> \in Seq(Texts)
    BY <1>3
  <2> QED
    BY <1>1, <1>2, <2>1, <2>2, PlainLeads, OutcomeStep
<1>5. CASE addSimple
  <2>1. PICK outcome \in SimpleOutcomes, content \in Contents(SimpleContent) :
            _addOutcome(outcome, content, SimpleLines(outcome, Suite[next], content))
    BY <1>5 DEF addSimple
  <2>2. outcome \in Outcomes
    BY <1>3
  <2>3. content \in Seq(Texts \ {"end", "quoted"}) /\ content \in Seq(Texts)
    <3>1. SimpleContent \subseteq Texts \ {"end", "quoted"}
      BY ContentAssumption DEF Unbracketed
    <3>2. content \in Seq(SimpleContent)
      BY ContentsAre
    <3> QED
      BY <3>1, <3>2, ContentAssumption, SeqMonotonic
  <2> QED
    BY <1>1, <1>2, <2>1, <2>2, <2>3, SimpleLeads, OutcomeStep
<1>6. CASE addMultipart
  <2>1. PICK outcome \in PlainOutcomes \cup SimpleOutcomes, parts \in Messages :
            _addOutcome(outcome, Details(parts), MultipartLines(outcome, Suite[next], parts))
    BY <1>6 DEF addMultipart
  <2>2. outcome \in Outcomes
    BY <1>3
  <2>3. parts \in Seq(PartsOf)
    <3>1. PICK n \in 0 .. MaxParts : parts \in [1 .. n -> Parts]
      BY DEF Messages
    <3>2. Parts \subseteq PartsOf
      <4>1. ASSUME NEW content \in Contents({"end", "other"}) PROVE content \in Seq(Texts)
        <5>1. content \in Seq({"end", "other"})
          BY ContentsAre
        <5>2. {"end", "other"} \subseteq Texts
          BY DEF Texts
        <5> QED
          BY <5>1, <5>2, SeqMonotonic
      <4> QED
        BY <4>1 DEF Parts, PartsOf
    <3>3. n \in Nat
      BY <3>1, MaxPartsAssumption
    <3>4. parts \in [1 .. n -> PartsOf]
      BY <3>1, <3>2
    <3> QED
      BY <3>3, <3>4, SeqDef
  <2> QED
    BY <1>1, <1>2, <2>1, <2>2, <2>3, MultipartLeads, OutcomeStep
<1> QED
  BY <1>4, <1>5, <1>6

LEMMA StopTestStep == ASSUME Agreed, client_stopTest PROVE Agreed'
<1>1. Running /\ buffer = <<>> /\ child = "recorded"
  BY DEF client_stopTest, Running, Flushed
<1>2. PICK p, q : /\ At(p) /\ Leads(p, pipe, q, childLog, next) /\ Done(q)
                  /\ q \in Positions /\ Faithful(q, childLog, next)
  BY <1>1, Alive
<1>3. PICK n, log : n = next /\ log = childLog
  OBVIOUS
<1>4. /\ n \in 1 .. Len(Suite) /\ Len(log) = n /\ log \in Seq(Records)
      /\ Len(Suite) \in Nat /\ n \in Nat
  <2>1. Len(Suite) \in Nat
    BY SuiteAssumption, LenProperties
  <2> QED
    BY <1>1, <1>3, <2>1 DEF Agreed, ChildCounts
<1>5. pipe \in Seq(Entries) /\ ~raised /\ ~eof
  BY <1>1, Alive
<1>6. Begins(log, log)
  BY <1>4, LenProperties DEF Begins
<1>7. Leads(p, pipe, q, log, n + 1)
  BY <1>2, <1>3, <1>4, <1>5, <1>6, LeadsStill
<1>8. Leads(q, <<>>, q, log, n + 1)
  BY <1>2, <1>5, <1>7, Endpoints, NoLines
<1>9. /\ child' = "idle" /\ next' = n + 1 /\ childLog' = log /\ parentLog' = parentLog
      /\ raised' = raised /\ eof' = eof /\ At(p)' /\ pipe' = pipe /\ buffer' = <<>>
  BY <1>1, <1>2, <1>3, StaysAt DEF client_stopTest, vars
<1>10. ChildCounts'
  BY <1>4, <1>9 DEF Agreed, ChildCounts
<1>11. Done(q)'
  BY <1>1, <1>2, <1>3, <1>9 DEF Done
<1>12. WhileItLives'
  BY <1>5, <1>7, <1>8, <1>9, <1>11 DEF WhileItLives
<1> QED
  BY <1>9, <1>10, <1>12 DEF Agreed, AfterCrash

LEMMA ExitStep == ASSUME Agreed, Exit PROVE Agreed'
<1>1. Running /\ buffer = <<>> /\ child = "idle"
  BY DEF Exit, Running, Flushed
<1>2. PICK p, q, r : /\ At(p) /\ Leads(p, pipe, q, childLog, next)
                     /\ Leads(q, buffer, r, childLog, next) /\ Done(r)
  BY <1>1, Alive
<1>3. ~raised /\ ~eof
  BY <1>1, Alive
<1>4. /\ child' = "exited" /\ next' = next /\ childLog' = childLog /\ parentLog' = parentLog
      /\ raised' = raised /\ eof' = eof /\ At(p)' /\ pipe' = pipe /\ buffer' = buffer
  BY <1>2, StaysAt DEF Exit, vars
<1>5. ChildCounts'
  BY <1>1, <1>4 DEF Agreed, ChildCounts
<1>6. Done(r)'
  BY <1>1, <1>2, <1>4 DEF Done
<1>7. WhileItLives'
  BY <1>2, <1>3, <1>4, <1>6 DEF WhileItLives
<1> QED
  BY <1>4, <1>5, <1>7 DEF Agreed, AfterCrash

\* What is left of a torn line is a line.
LEMMA TornIsAnEntry ==
    ASSUME NEW e \in Entries, NEW entry \in Torn(e)
    PROVE  entry \in Entries
<1>1. e.line \in Lines /\ e.leads \in Phases \cup {"any"}
  BY DEF Entries
<1>2. TornLeads(e) \in Phases \cup {"any"}
  BY <1>1 DEF TornLeads, Phases
<1>3. {"other", "field"} \subseteq Texts /\ {"any", "name"} \subseteq Phases \cup {"any"}
  BY DEF Texts, Phases
<1>4. Text("other", TornLeads(e)) \in Entries /\ Text("field", "name") \in Entries /\ Noise \in Entries
  BY <1>2, <1>3, EntriesOf DEF Noise
<1>5. CASE e.line.cmd # "text" /\ e.line.arg \in {"simple", "multipart"}
  <2>1. e.line \in OutcomeLines
    BY <1>1, <1>5 DEF Lines, StartLines, NoteLines, TextLines
  <2>2. \A arg \in {"plain", "simple"} : Directive(e.line.cmd, e.line.name, arg) \in Entries
    BY <2>1 DEF Directive, Entry, Entries, Lines, OutcomeLines
  <2> QED
    BY <1>4, <1>5, <2>2 DEF Torn
<1>6. CASE ~(e.line.cmd # "text" /\ e.line.arg \in {"simple", "multipart"})
  <2>1. e.line.cmd = "text" => e.line.arg \notin {"simple", "multipart"}
    BY <1>1, Words DEF Texts
  <2> QED
    BY <1>4, <1>6, <2>1 DEF Torn
<1> QED
  BY <1>5, <1>6

\* What a parser may take a torn line for.
Remnant(q, entry) ==
    \/ q.state = "in_test" /\ entry.line.cmd = "text"
    \/ /\ q.state = "in_test" /\ entry.line.cmd \in Outcomes /\ entry.line.name = q.test
       /\ entry.line.arg \in {"plain", "simple"}
       /\ entry.line.cmd = childLog[Len(q.log) + 1].outcome
    \/ q.state \in Outcomes /\ entry.line.cmd = "text" /\ entry.line.arg # "end"

LEMMA ShreddedIs ==
    ASSUME NEW q \in Positions, NEW entry, Shredded(q, entry)
    PROVE  Remnant(q, entry)
<1>1. PICK e \in Entries, o \in Positions :
          /\ e.line.cmd # "test" /\ entry \in Torn(e)
          /\ Follows(q, e, o) /\ Faithful(o, childLog, next)
  BY DEF Shredded
<1>2. ASSUME e.line.cmd = "text"
      PROVE  entry.line.cmd = "text" /\ entry.line.arg \in {"other", "field"}
  <2>1. e.line \in Lines
    BY DEF Entries
  <2>2. e.line.arg \notin {"simple", "multipart"}
    BY <1>2, <2>1, Words DEF Texts
  <2>3. entry = Text("other", TornLeads(e)) \/ entry = Text("field", "name")
    BY <1>1, <1>2, <2>2 DEF Torn
  <2> QED
    BY <2>3 DEF Text, Entry
<1>3. CASE Prints(q, e, o)
  BY <1>2, <1>3 DEF Prints, Remnant
<1>4. CASE Ends(q, e, o) \/ Adds(q, e, o) \/ Feeds(q, e, o)
  BY <1>2, <1>4 DEF Ends, Adds, Feeds, Remnant
<1>5. CASE Reports(q, e, o)
  <2>1. /\ q.state = "in_test" /\ e.line.cmd \in Outcomes /\ e.line.name = q.test
    BY <1>5 DEF Reports
  <2>2. e.line.cmd # "text"
    BY <2>1 DEF Outcomes
  <2>3. CASE entry = Noise
    BY <2>1, <2>3 DEF Noise, Text, Entry, Remnant
  <2>4. CASE entry # Noise
    <3>1. /\ e.line.arg \in {"simple", "multipart"}
          /\ \E arg \in {"plain", "simple"} : entry = Directive(e.line.cmd, e.line.name, arg)
      BY <1>1, <2>2, <2>4 DEF Torn
    <3>2. o.state = e.line.cmd /\ o.log = q.log
      BY <1>5, <3>1 DEF Reports, Reads
    <3>3. childLog[Len(q.log) + 1].outcome = e.line.cmd
      BY <1>1, <2>1, <3>2 DEF Faithful
    <3>4. /\ entry.line.cmd = e.line.cmd /\ entry.line.name = e.line.name
          /\ entry.line.arg \in {"plain", "simple"}
      BY <3>1 DEF Directive, Entry
    <3> QED
      BY <2>1, <3>3, <3>4 DEF Remnant
  <2> QED
    BY <2>3, <2>4
<1>6. CASE Opens(q, e, o)
  BY <1>1, <1>6 DEF Opens
<1> QED
  BY <1>1, <1>3, <1>4, <1>5, <1>6 DEF Follows

\* Nothing is heard of a torn line, or the outcome without its details.
LEMMA ReadRemnant ==
    ASSUME NEW q \in Positions, NEW entry \in Entries, At(q), Faithful(q, childLog, next),
           Remnant(q, entry), lineReceived(entry.line),
           childLog \in Seq(Records), parentLog \in Seq(Records),
           next \in Nat, child = "crashed", parentLog' = parentLog \o Heard,
           UNCHANGED childVars, pipe' = <<>>
    PROVE  Aftermath' /\ parentLog' \in Seq(Records)
<1> DEFINE line == entry.line
<1>1. line \in Lines
  BY DEF Entries
<1>2. /\ state = q.state /\ parentLog = q.log
      /\ q.state # "outside" => desc = q.test /\ test = q.test
  BY DEF At
<1>3. q.state # "outside" /\ q.state \in {"in_test"} \cup Outcomes
  BY DEF Remnant, Outcomes
<1>4. Begins(parentLog, childLog) /\ Len(parentLog) < next /\ test = Suite[Len(parentLog) + 1]
      /\ Len(parentLog) < Len(Suite)
  BY <1>2, <1>3 DEF Faithful
<1>5. /\ child' = "crashed" /\ childLog' = childLog /\ next' = next /\ buffer' = buffer
  BY DEF childVars
<1>6. ASSUME Silent, test' = test PROVE Aftermath' /\ parentLog' \in Seq(Records)
  <2>1. parentLog' = parentLog
    BY <1>6, Hearing, HearsNothing
  <2>2. OutcomesAgree
    BY <1>4, BeginningsAgree
  <2>3. OutcomesAgree'
    BY <1>5, <2>1, <2>2 DEF OutcomesAgree
  <2> QED
    BY <1>4, <1>5, <1>6, <2>1, <2>3 DEF Aftermath
<1>7. CASE q.state = "in_test" /\ line.cmd = "text"
  <2>1. unknownLine(line)
    BY <1>2, <1>7 DEF lineReceived, startTest, startTestUndecodable, outcomeOutside, uxsuccessOutside,
          outcomePlain, outcomeDetails, passThroughInTest, outcomeUndecodable, note, noteMalformed,
          Annotates, endDetails, simpleLine, multipartLine, multipartRaises,
          InDetails, Outcomes, OutcomeWords, Notes
  <2> QED
    BY <1>6, <2>1 DEF unknownLine, parserVars
<1>8. CASE q.state \in Outcomes /\ line.cmd = "text" /\ line.arg # "end"
  <2>1. Token(line) # "end"
    BY <1>1, <1>8, Words
  <2>2. simpleLine(line) \/ multipartLine(line) \/ multipartRaises(line)
    BY <1>2, <1>8, <2>1 DEF lineReceived, startTest, startTestUndecodable, outcomeOutside,
          uxsuccessOutside, outcomePlain, outcomeDetails, passThroughInTest, outcomeUndecodable, note,
          noteMalformed, Annotates, unknownLine, endDetails, InDetails, Outcomes, OutcomeWords, Notes
  <2>3. Silent /\ test' = test
    BY <2>2 DEF simpleLine, multipartLine, multipartRaises, Raise, parserVars
  <2> QED
    BY <1>6, <2>3
<1>9. CASE /\ q.state = "in_test" /\ line.cmd \in Outcomes /\ line.name = q.test
           /\ line.arg \in {"plain", "simple"} /\ line.cmd = childLog[Len(q.log) + 1].outcome
  <2>1. q.test \in Names /\ desc = q.test /\ OutcomeOf(line) = line.cmd
    BY <1>1, <1>2, <1>3, <1>9, Words
  <2>2. outcomePlain(line) \/ outcomeDetails(line)
    BY <1>2, <1>9, <2>1 DEF lineReceived, startTest, startTestUndecodable, outcomeOutside,
          uxsuccessOutside, passThroughInTest, outcomeUndecodable, note, noteMalformed,
          Annotates, unknownLine, endDetails, simpleLine, multipartLine, multipartRaises,
          InDetails, Outcomes, OutcomeWords, Notes
  <2>3. CASE outcomeDetails(line)
    BY <1>6, <2>3 DEF outcomeDetails
  <2>4. CASE outcomePlain(line)
    <3> DEFINE r == RecordOf(test, line.cmd, <<>>)
    <3>1. Close(line.cmd, test, <<>>) /\ state' = "outside"
      BY <2>1, <2>4 DEF outcomePlain
    <3>2. Heard = <<r>>
      BY <1>9, <3>1, Hearing
    <3>3. r \in Records /\ r.test = test /\ r.outcome = line.cmd /\ r.details = <<>>
      <4>1. <<>> \in Seq(Texts \cup {"lost connection"})
        OBVIOUS
      <4> QED
        BY <1>2, <1>3, <1>9, <2>1, <4>1 DEF RecordOf, Records
    <3> HIDE DEF r
    <3>4. parentLog' = Append(parentLog, r)
      BY <3>2, <3>3, Hears
    <3>5. parentLog' \in Seq(Records)
      BY <3>3, <3>4, AppendProperties
    <3>6. OutcomesAgree'
      <4>1. r.outcome = childLog'[Len(parentLog) + 1].outcome /\ r.details = <<>>
        BY <1>2, <1>5, <1>9, <3>3
      <4>2. r.test = Suite[Len(parentLog) + 1] /\ Begins(parentLog, childLog')
            /\ Len(parentLog) < next' /\ next' \in Nat /\ childLog' \in Seq(Records)
        BY <1>4, <1>5, <3>3
      <4> QED
        BY <1>5, <3>3, <3>4, <4>1, <4>2, OneMoreAgrees
    <3> QED
      BY <3>1, <3>5, <3>6 DEF Aftermath
  <2> QED
    BY <2>2, <2>3, <2>4
<1> QED
  BY <1>7, <1>8, <1>9 DEF Remnant

LEMMA CrashStep == ASSUME Agreed, Crash PROVE Agreed'
<1>1. Running
  BY DEF Crash
<1>2. PICK p, q, r : /\ At(p) /\ Leads(p, pipe, q, childLog, next)
                     /\ Leads(q, buffer, r, childLog, next) /\ Done(r)
  BY <1>1, Alive
<1>3. /\ ~raised /\ ~eof /\ pipe \in Seq(Entries) /\ buffer \in Seq(Entries)
  BY <1>1, Alive
<1>4. /\ child' = "crashed" /\ next' = next /\ childLog' = childLog /\ parentLog' = parentLog
      /\ raised' = raised /\ eof' = eof /\ At(p)' /\ buffer' = <<>>
  BY <1>2, StaysAt DEF Crash, vars
<1>5. Reading'
  BY <1>3, <1>4 DEF Reading
<1>6. Len(childLog) \in {next - 1, next}
  BY <1>1 DEF Running, Agreed, ChildCounts
<1>7. ASSUME pipe' \in Seq(Entries) PROVE ChildCounts'
  BY <1>4, <1>6, <1>7 DEF Agreed, ChildCounts
<1>8. WhileItLives'
  BY <1>4 DEF WhileItLives
<1>9. CASE UNCHANGED pipe
  <2>1. AfterCrash'
    BY <1>2, <1>4, <1>5, <1>9 DEF AfterCrash
  <2> QED
    BY <1>3, <1>7, <1>8, <1>9, <2>1 DEF Agreed
<1>10. CASE ~UNCHANGED pipe
  <2>1. buffer # <<>> /\ Head(buffer).line.cmd # "test"
    BY <1>10 DEF Crash
  <2>2. PICK entry \in Torn(Head(buffer)) : pipe' = Append(pipe, entry)
    BY <1>10 DEF Crash
  <2>3. Head(buffer) \in Entries
    BY <1>2, <1>3, <2>1, FirstLine
  <2>4. entry \in Entries
    BY <2>3, TornIsAnEntry
  <2>5. PICK o \in Positions : Follows(q, Head(buffer), o) /\ Faithful(o, childLog, next)
    BY <1>2, <1>3, <2>1, FirstLine
  <2>6. PICK e \in Entries : e = Head(buffer)
    BY <2>3
  <2>7. Shredded(q, entry)'
    BY <1>4, <2>1, <2>2, <2>5, <2>6 DEF Shredded
  <2>8. PICK s \in Seq(Entries) : s = pipe
    BY <1>3
  <2>9. Append(s, entry) \in Seq(Entries)
    BY <2>4, AppendProperties
  <2>10. AfterCrash'
    BY <1>2, <1>4, <1>5, <2>2, <2>4, <2>7, <2>8 DEF AfterCrash
  <2> QED
    BY <1>7, <1>8, <2>2, <2>8, <2>9, <2>10 DEF Agreed
<1> QED
  BY <1>9, <1>10

\* A parser that has heard nothing wrong and has nothing to read.
LEMMA NothingMore ==
    ASSUME NEW p, At(p), Leads(p, pipe, p, childLog, next), pipe = <<>>,
           childLog \in Seq(Records), parentLog \in Seq(Records)
    PROVE  Aftermath
<1>1. Faithful(p, childLog, next)
  <2>1. <<>> \in Seq(Entries)
    OBVIOUS
  <2> QED
    BY <2>1, Endpoints
<1>2. parentLog = p.log /\ state = p.state /\ (p.state # "outside" => test = p.test)
  BY DEF At
<1>3. Begins(parentLog, childLog)
  BY <1>1, <1>2 DEF Faithful
<1>4. OutcomesAgree
  BY <1>3, BeginningsAgree
<1> QED
  BY <1>1, <1>2, <1>3, <1>4 DEF Aftermath, Faithful

\* Reading raises or it does not.
LEMMA ReadsOn ==
    ASSUME NEW line, lineReceived(line), ~raised
    PROVE  raised' \in BOOLEAN \/ raised' = raised
  BY DEF lineReceived, startTest, startTestUndecodable, outcomeOutside, uxsuccessOutside,
         outcomePlain, outcomeDetails, passThroughInTest, outcomeUndecodable, note, noteMalformed,
         unknownLine, endDetails, simpleLine, multipartLine, multipartRaises, Raise,
         stdOutLineReceived, subunitLineReceived

LEMMA ReadStep == ASSUME Agreed, ReadLine PROVE Agreed'
<1>1. /\ pipe # <<>> /\ ~raised /\ ~eof /\ lineReceived(Head(pipe).line) /\ pipe' = Tail(pipe)
      /\ Head(pipe).leads # "any" => phase' = Head(pipe).leads /\ ~raised'
      /\ parentLog' = parentLog \o Heard /\ UNCHANGED childVars
  BY DEF ReadLine, lineReceived, Reading
<1>2. /\ childLog \in Seq(Records) /\ parentLog \in Seq(Records) /\ buffer \in Seq(Entries)
      /\ pipe \in Seq(Entries) /\ next \in Nat
  <2>1. Len(Suite) \in Nat
    BY SuiteAssumption, LenProperties
  <2> QED
    BY <2>1 DEF Agreed, ChildCounts
<1>3. child' = child /\ next' = next /\ childLog' = childLog /\ buffer' = buffer
  BY <1>1 DEF childVars
<1>4. pipe' \in Seq(Entries) /\ Head(pipe) \in Entries /\ Head(pipe) = pipe[1]
  BY <1>1, <1>2, HeadTailProperties, ElementOfSeq, EmptySeq, LenProperties
<1>5. ASSUME parentLog' \in Seq(Records) PROVE ChildCounts'
  <2>1. eof' \in BOOLEAN /\ raised' \in BOOLEAN
    BY <1>1, ReadsOn DEF lineReceived, Agreed, ChildCounts
  <2> QED
    BY <1>3, <1>4, <1>5, <2>1 DEF Agreed, ChildCounts
<1>6. ASSUME NEW p, NEW q, At(p), Leads(p, pipe, q, childLog, next)
      PROVE  \E o \in Positions :
                /\ At(o)' /\ ~raised' /\ ~eof' /\ Leads(o, Tail(pipe), q, childLog, next)
                /\ parentLog' \in Seq(Records)
  <2>1. p \in Positions /\ Faithful(p, childLog, next)
    BY <1>1, <1>2, <1>6, FirstLine
  <2>2. PICK o \in Positions : /\ Follows(p, Head(pipe), o) /\ Leads(o, Tail(pipe), q, childLog, next)
                               /\ Faithful(o, childLog, next)
    BY <1>1, <1>2, <1>6, FirstLine
  <2>3. At(o)' /\ ~raised' /\ ~eof'
    BY <1>1, <1>2, <1>4, <1>6, <2>1, <2>2, ReadFollows
  <2>4. parentLog' = o.log /\ o.log \in Seq(Records)
    BY <2>3 DEF At, Positions
  <2> QED
    BY <2>2, <2>3, <2>4
<1>7. CASE child # "crashed"
  <2>1. PICK p, q, r : /\ At(p) /\ Leads(p, pipe, q, childLog, next)
                       /\ Leads(q, buffer, r, childLog, next) /\ Done(r)
    BY <1>1, <1>7 DEF Agreed, WhileItLives
  <2>2. PICK o \in Positions :
                /\ At(o)' /\ ~raised' /\ ~eof' /\ Leads(o, Tail(pipe), q, childLog, next)
                /\ parentLog' \in Seq(Records)
    BY <1>6, <2>1
  <2>4. Done(r)'
    BY <1>3, <2>1 DEF Done
  <2>5. WhileItLives'
    BY <1>1, <1>3, <2>1, <2>2, <2>4 DEF WhileItLives
  <2> QED
    BY <1>3, <1>5, <1>7, <2>2, <2>5 DEF Agreed, AfterCrash
<1>8. CASE child = "crashed"
  <2>1. WhileItLives'
    BY <1>3, <1>8 DEF WhileItLives
  <2>2. CASE \E p, q : At(p) /\ Leads(p, pipe, q, childLog, next)
    <3>1. PICK p, q : At(p) /\ Leads(p, pipe, q, childLog, next)
      BY <2>2
    <3>2. PICK o \in Positions :
                /\ At(o)' /\ ~raised' /\ ~eof' /\ Leads(o, Tail(pipe), q, childLog, next)
                /\ parentLog' \in Seq(Records)
      BY <1>6, <3>1
    <3>3. AfterCrash'
      BY <1>1, <1>3, <3>2 DEF AfterCrash, Reading
    <3> QED
      BY <1>5, <2>1, <3>2, <3>3 DEF Agreed
  <2>3. CASE \E p, q : \E s \in Seq(Entries), entry \in Entries :
                /\ pipe = Append(s, entry)
                /\ At(p) /\ Leads(p, s, q, childLog, next) /\ Shredded(q, entry)
    <3>0. PICK p, q : \E s \in Seq(Entries), entry \in Entries :
                /\ pipe = Append(s, entry)
                /\ At(p) /\ Leads(p, s, q, childLog, next) /\ Shredded(q, entry)
      BY <2>3
    <3>1. PICK s \in Seq(Entries), entry \in Entries :
                /\ pipe = Append(s, entry)
                /\ At(p) /\ Leads(p, s, q, childLog, next) /\ Shredded(q, entry)
      BY <3>0
    <3>2. /\ Head(pipe) = IF s = <<>> THEN entry ELSE Head(s)
          /\ Tail(pipe) = IF s = <<>> THEN <<>> ELSE Append(Tail(s), entry)
      BY <3>1, HeadTailAppend
    <3>3. p \in Positions /\ q \in Positions /\ Faithful(p, childLog, next)
          /\ Faithful(q, childLog, next)
      BY <3>1, Endpoints
    <3>4. CASE s = <<>>
      <4>1. q = p
        BY <3>1, <3>3, <3>4, NoLines
      <4>2. Remnant(p, entry)
        BY <3>1, <3>3, <4>1, ShreddedIs
      <4>3. Aftermath' /\ parentLog' \in Seq(Records)
        BY <1>1, <1>2, <1>8, <3>1, <3>2, <3>3, <3>4, <4>2, ReadRemnant
      <4> QED
        BY <1>5, <2>1, <4>3 DEF Agreed, AfterCrash
    <3>5. CASE s # <<>>
      <4>1. Tail(s) \in Seq(Entries)
        BY <3>1, <3>5, FirstLine
      <4>2. PICK o \in Positions : /\ Follows(p, Head(s), o) /\ Leads(o, Tail(s), q, childLog, next)
                                   /\ Faithful(o, childLog, next)
        BY <3>1, <3>5, FirstLine
      <4>3. At(o)' /\ ~raised' /\ ~eof'
        BY <1>1, <1>2, <1>4, <3>1, <3>2, <3>3, <3>5, <4>2, ReadFollows
      <4>4. parentLog' = o.log /\ o.log \in Seq(Records)
        BY <4>3 DEF At, Positions
      <4>5. Shredded(q, entry)'
        BY <1>3, <3>1 DEF Shredded
      <4>6. pipe' = Append(Tail(s), entry)
        BY <1>1, <3>2, <3>5
      <4>7. AfterCrash'
        BY <1>3, <3>1, <4>1, <4>2, <4>3, <4>5, <4>6 DEF AfterCrash, Reading
      <4> QED
        BY <1>5, <2>1, <4>4, <4>7 DEF Agreed
    <3> QED
      BY <3>4, <3>5
  <2> QED
    BY <1>1, <1>8, <2>2, <2>3 DEF Agreed, AfterCrash, Aftermath
<1> QED
  BY <1>7, <1>8

\* The end of the stream: a child that exits has been heard out, and the test a
\* crash has cut short fails.
LEMMA LossStep == ASSUME Agreed, LostConnection PROVE Agreed'
<1>1. /\ pipe = <<>> /\ child \in {"exited", "crashed"} /\ lostConnection /\ pipe' = pipe
      /\ parentLog' = parentLog \o Heard /\ UNCHANGED childVars
  BY DEF LostConnection
<1>2. /\ ~raised /\ ~eof /\ eof' = TRUE /\ raised' = raised /\ state' = state /\ test' = test
      /\ Silent \/ (Close("error", test, <<"lost connection">>) /\ state # "outside")
  BY <1>1 DEF lostConnection, Reading, parserVars, LossReported, _lostConnectionInTest, Outcomes
<1>3. /\ childLog \in Seq(Records) /\ parentLog \in Seq(Records) /\ buffer \in Seq(Entries)
      /\ pipe \in Seq(Entries) /\ next \in Nat /\ buffer = <<>>
  <2>1. Len(Suite) \in Nat
    BY SuiteAssumption, LenProperties
  <2> QED
    BY <1>1, <2>1 DEF Agreed, ChildCounts
<1>4. child' = child /\ next' = next /\ childLog' = childLog /\ buffer' = buffer
  BY <1>1 DEF childVars
<1>5. ASSUME parentLog' \in Seq(Records) PROVE ChildCounts'
  BY <1>1, <1>2, <1>4, <1>5 DEF Agreed, ChildCounts
<1>6. ASSUME Silent PROVE parentLog' = parentLog
  BY <1>1, <1>3, <1>6, Hearing, HearsNothing
<1>7. CASE child = "exited"
  <2>1. PICK p, q, r : /\ At(p) /\ Leads(p, pipe, q, childLog, next)
                       /\ Leads(q, buffer, r, childLog, next) /\ Done(r)
    BY <1>2, <1>7 DEF Agreed, WhileItLives
  <2>2. p \in Positions /\ q \in Positions
    BY <1>3, <2>1, Endpoints
  <2>3. q = p /\ r = q
    BY <1>1, <1>3, <2>1, <2>2, NoLines
  <2>4. state = "outside" /\ parentLog = childLog
    BY <1>7, <2>1, <2>3 DEF Done, At, Outside
  <2>5. parentLog' = parentLog
    BY <1>2, <1>6, <2>4
  <2>6. WhileItLives'
    BY <1>1, <1>2, <1>4, <1>7, <2>4, <2>5 DEF WhileItLives
  <2> QED
    BY <1>3, <1>4, <1>5, <1>7, <2>5, <2>6 DEF Agreed, AfterCrash
<1>8. CASE child = "crashed"
  <2>1. Aftermath
    <3>1. ASSUME NEW p, NEW q, At(p), Leads(p, pipe, q, childLog, next)
          PROVE  Aftermath
      <4>1. p \in Positions
        BY <1>3, <3>1, Endpoints
      <4>2. q = p
        BY <1>1, <3>1, <4>1, NoLines
      <4> QED
        BY <1>1, <1>3, <3>1, <4>2, NothingMore
    <3>2. ASSUME NEW s \in Seq(Entries), NEW entry \in Entries, pipe = Append(s, entry)
          PROVE  FALSE
      <4>1. Len(Append(s, entry)) = Len(s) + 1 /\ Len(s) \in Nat
        BY AppendProperties, LenProperties
      <4>2. Len(<<>>) = 0
        OBVIOUS
      <4> QED
        BY <1>1, <3>2, <4>1, <4>2
    <3> QED
      BY <1>8, <3>1, <3>2 DEF Agreed, AfterCrash
  <2>2. OutcomesAgree' /\ parentLog' \in Seq(Records)
    <3>1. CASE Silent
      <4>1. parentLog' = parentLog
        BY <1>6, <3>1
      <4> QED
        BY <1>3, <1>4, <2>1, <4>1 DEF Aftermath, OutcomesAgree
    <3>2. CASE ~Silent
      <4> DEFINE r == RecordOf(test, "error", <<"lost connection">>)
      <4>1. Close("error", test, <<"lost connection">>) /\ state # "outside"
        BY <1>2, <3>2
      <4>2. Begins(parentLog, childLog) /\ Len(parentLog) < next
            /\ test = Suite[Len(parentLog) + 1]
        BY <1>2, <2>1, <4>1 DEF Aftermath, Reading
      <4>3. Heard = <<r>>
        BY <4>1, Hearing DEF Outcomes
      <4>4. test \in Names
        <5>1. Len(parentLog) \in Nat /\ Len(childLog) \in Nat /\ Len(Suite) \in Nat
              /\ next \in 1 .. Len(Suite) + 1
          BY <1>3, SuiteAssumption, LenProperties DEF Agreed, ChildCounts
        <5>2. Len(parentLog) < Len(Suite)
          BY <1>2, <2>1, <4>1 DEF Aftermath, Reading
        <5>3. Len(parentLog) + 1 \in 1 .. Len(Suite)
          BY <5>1, <5>2
        <5> QED
          BY <4>2, <5>3, SuiteAssumption, ElementOfSeq
      <4>5. r \in Records /\ Lost(r) /\ r.test = test
        <5>1. <<"lost connection">> \in Seq(Texts \cup {"lost connection"})
          OBVIOUS
        <5> QED
          BY <4>4, <5>1 DEF RecordOf, Records, Lost, Outcomes
      <4> HIDE DEF r
      <4>6. parentLog' = Append(parentLog, r)
        BY <1>1, <1>3, <4>3, <4>5, Hears
      <4>7. parentLog' \in Seq(Records)
        BY <1>3, <4>5, <4>6, AppendProperties
      <4> QED
        BY <1>3, <1>4, <1>8, <4>2, <4>5, <4>6, <4>7, OneMoreAgrees
    <3> QED
      BY <3>1, <3>2
  <2>3. Aftermath'
    BY <1>1, <1>2, <2>2 DEF Aftermath, Reading
  <2> QED
    BY <1>4, <1>5, <1>8, <2>2, <2>3 DEF Agreed, AfterCrash, WhileItLives
<1> QED
  BY <1>1, <1>7, <1>8

LEMMA AgreedStep ==
    ASSUME Unbracketed, Agreed, [IsolatedNext]_isolatedVars
    PROVE  Agreed'
<1>1. CASE Work
  BY <1>1, StartTestStep, DrainStep, AddStep, StopTestStep, ExitStep DEF Work
<1>2. CASE UNCHANGED isolatedVars
  <2>1. /\ UNCHANGED <<vars, parentLog>> /\ pipe' = pipe /\ child' = child /\ next' = next
        /\ childLog' = childLog /\ buffer' = buffer
    BY <1>2 DEF isolatedVars, childVars
  <2>2. /\ parentLog' = parentLog /\ state' = state /\ test' = test /\ raised' = raised
        /\ eof' = eof
    BY <2>1 DEF vars, parserVars
  <2>3. ASSUME NEW p, At(p) PROVE At(p)'
    BY <2>1, <2>3, StaysAt
  <2>4. ChildCounts'
    BY <2>1, <2>2 DEF Agreed, ChildCounts
  <2>5. WhileItLives'
    BY <2>1, <2>2, <2>3 DEF Agreed, WhileItLives, Done
  <2>6. Aftermath => Aftermath'
    BY <2>1, <2>2 DEF Aftermath, OutcomesAgree, Reading
  <2>7. ASSUME NEW q, NEW entry, Shredded(q, entry) PROVE Shredded(q, entry)'
    BY <2>1, <2>7 DEF Shredded
  <2>8. AfterCrash'
    BY <2>1, <2>2, <2>3, <2>6, <2>7 DEF Agreed, AfterCrash, Reading
  <2> QED
    BY <2>4, <2>5, <2>8 DEF Agreed
<1> QED
  BY <1>1, <1>2, NoiseStep, CrashStep, ReadStep, LossStep DEF IsolatedNext

\* run_isolated: what the parent has heard and will read is what the child has
\* done, up to where it was cut short.
THEOREM AlwaysAgreed == ASSUME Unbracketed PROVE IsolatedSpec => []Agreed
<1> QED
  BY StartsAgreed, AgreedStep, PTL DEF IsolatedSpec

\* The parent's result hears the outcomes of the child's tests in their order and
\* with their details; only the last may differ, if the child crashed.
THEOREM ParentAndChildAgree == ASSUME Unbracketed PROVE IsolatedSpec => []OutcomesAgree
<1>1. Agreed => OutcomesAgree
  <2> SUFFICES ASSUME Agreed PROVE OutcomesAgree
    OBVIOUS
  <2>1. childLog \in Seq(Records) /\ parentLog \in Seq(Records) /\ pipe \in Seq(Entries)
    BY DEF Agreed, ChildCounts
  <2>2. ASSUME NEW p, NEW s \in Seq(Entries), NEW q, At(p), Leads(p, s, q, childLog, next)
        PROVE  OutcomesAgree
    <3>1. Begins(parentLog, childLog)
      BY <2>2, Endpoints DEF At, Faithful
    <3> QED
      BY <2>1, <3>1, BeginningsAgree
  <2>3. ASSUME parentLog = childLog PROVE OutcomesAgree
    <3>1. Begins(parentLog, childLog)
      BY <2>1, <2>3, LenProperties DEF Begins
    <3> QED
      BY <2>1, <3>1, BeginningsAgree
  <2> QED
    BY <2>1, <2>2, <2>3 DEF Agreed, WhileItLives, AfterCrash, Aftermath
<1> QED
  BY <1>1, AlwaysAgreed, PTL

\* Nothing that a child reported which exited is lost.
THEOREM ExitHearsAll == ASSUME Unbracketed PROVE IsolatedSpec => []ExitIsComplete
<1>1. Agreed => ExitIsComplete
  BY DEF Agreed, WhileItLives, ExitIsComplete
<1> QED
  BY <1>1, AlwaysAgreed, PTL
===============================================================================
