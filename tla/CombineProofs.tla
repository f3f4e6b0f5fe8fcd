------------------------------- MODULE CombineProofs -------------------------------
(***************************************************************************)
(* Theorems about Combine, for all configurations, requests and bounds.    *)
(***************************************************************************)
EXTENDS Combine, SequenceTheorems, FiniteSetTheorems, WellFoundedInduction, TLAPS

Busy == pc \in {"read", "swallow", "wait"}
InRunCommand == pc = "popen" \/ Busy

Settled(i) == Skipped(commands[i], ids) \/ <<i, 0>> \in codes

Sound ==
    /\ Len(commands) \in Nat \ {0} /\ DOMAIN commands = 1 .. Len(commands)
    /\ at \in Nat \ {0} /\ at <= Len(commands) + 1
    /\ pc \in {"next", "popen", "read", "swallow", "wait", "ended"}
    /\ failed \in BOOLEAN

\* There is a process just while combine reads from it or waits for it, and the
\* file it reads its ids from a little longer.
FileIsThere ==
    /\ ~Busy => phase = "none"
    /\ ~InRunCommand => idfile = None
    /\ InRunCommand =>
          /\ at <= Len(commands) /\ ~Skipped(commands[at], ids)
          /\ idfile = _select_ids_for_command(commands[at], ids)

\* failed speaks of the commands so far, and no command has ended twice.
FailedIsKnown ==
    /\ raised => pc \in {"wait", "ended"}
    /\ pc # "ended" =>
          /\ \A i \in Nat : <<i, 0>> \in codes => i < at
          /\ failed <=> \E i \in 1 .. at - 1 : ~Settled(i)

\* What holds between any two steps.
Consistent == Sound /\ FileIsThere /\ FailedIsKnown /\ ExitTellsFailure

LEMMA Initially == Init => Consistent
<1> SUFFICES ASSUME Init PROVE Consistent
  OBVIOUS
<1>1. Sound
  <2>1. commands \in Configs /\ at = 1 /\ pc = "next" /\ failed = FALSE
    BY DEF Init
  <2>2. Len(commands) \in Nat \ {0} /\ DOMAIN commands = 1 .. Len(commands)
    BY <2>1, ConfigsAssumption
  <2>3. at \in Nat \ {0} /\ at <= Len(commands) + 1
    BY <2>1, <2>2, 1 \in Nat
  <2> QED
    BY <2>1, <2>2, <2>3 DEF Sound
<1>2. FileIsThere /\ ExitTellsFailure
  BY DEF Init, FileIsThere, InRunCommand, Busy, ExitTellsFailure
<1>3. FailedIsKnown
  BY DEF Init, FailedIsKnown
<1> QED
  BY <1>1, <1>2, <1>3 DEF Consistent

\* A step of the command's process leaves combine alone and needs a process.
LEMMA ProcessStep ==
  ASSUME ProcessWorks \/ Killed
  PROVE  Running /\ UNCHANGED combine /\ (SaysNothing \/ \E item : Says(item))
<1>1. CASE RunnerWorks
  BY <1>1 DEF RunnerWorks, Running, Runner!Load, Runner!ListTest, Runner!ListErrors,
              Runner!ListEnds, Runner!run, Runner!RunEnds, Runner!StartTest, Runner!AddOutcome
<1>2. CASE RunnerPrints
  BY <1>2 DEF RunnerPrints, Running, Runner!TestPrints
<1>3. CASE OutputWorks
  BY <1>3 DEF OutputWorks, Running, Output!output_main, Output!OpenFile, Output!WritePacket
<1>4. CASE FreeWrites \/ FreeExits \/ Killed
  BY <1>4 DEF FreeWrites, FreeExits, Killed, Running
<1> QED
  BY <1>1, <1>2, <1>3, <1>4 DEF ProcessWorks

\* What a step of the process or of the output's reader leaves alone.
Rest == <<invocation, pc, at, idfile, raised, failed, exit, codes>>

LEMMA NoStep ==
  ASSUME Consistent, UNCHANGED Rest, Running \/ phase' = phase
  PROVE  Consistent'
<1>1. Sound'
  BY DEF Consistent, Rest, invocation, Sound
<1>2. FileIsThere'
  BY DEF Consistent, Rest, invocation, FileIsThere, InRunCommand, Busy, Running
<1>3. FailedIsKnown'
  BY DEF Consistent, Rest, invocation, FailedIsKnown, Settled
<1>4. ExitTellsFailure'
  BY DEF Consistent, Rest, invocation, ExitTellsFailure
<1> QED
  BY <1>1, <1>2, <1>3, <1>4 DEF Consistent

\* Reading moves combine from one busy state to another.
LEMMA ReadStep ==
  ASSUME Consistent, Read \/ ReadShort \/ Swallow \/ SwallowEnds \/ Eof
  PROVE  Consistent'
<1>1. /\ UNCHANGED <<invocation, at, idfile, failed, exit, codes, phase>>
      /\ Busy /\ Busy' /\ (raised' => pc' = "wait")
  BY DEF Read, ReadShort, Swallow, SwallowEnds, Eof, loop, process, Busy,
         Consistent, FailedIsKnown
<1>2. Sound'
  BY <1>1 DEF Consistent, Sound, invocation, Busy
<1>3. FileIsThere'
  BY <1>1 DEF Consistent, FileIsThere, InRunCommand, invocation
<1>4. FailedIsKnown'
  BY <1>1 DEF Consistent, FailedIsKnown, invocation, Busy, Settled
<1>5. ExitTellsFailure'
  BY <1>1 DEF ExitTellsFailure, Busy
<1> QED
  BY <1>2, <1>3, <1>4, <1>5 DEF Consistent

LEMMA StartStep ==
  ASSUME Consistent, Start
  PROVE  Consistent'
<1>1. /\ UNCHANGED <<invocation, at, raised, failed, exit, phase, codes>>
      /\ pc = "next" /\ pc' = "popen" /\ at <= Len(commands)
      /\ ~Skipped(commands[at], ids)
      /\ idfile' = _select_ids_for_command(commands[at], ids)
  BY DEF Start, Command
<1>2. Sound'
  BY <1>1 DEF Consistent, Sound, invocation
<1>3. FileIsThere'
  BY <1>1 DEF Consistent, FileIsThere, invocation, InRunCommand, Busy
<1>4. FailedIsKnown'
  BY <1>1 DEF Consistent, FailedIsKnown, invocation, Settled
<1>5. ExitTellsFailure'
  BY <1>1 DEF ExitTellsFailure
<1> QED
  BY <1>2, <1>3, <1>4, <1>5 DEF Consistent

LEMMA PopenStep ==
  ASSUME Consistent, Popen
  PROVE  Consistent'
<1>1. /\ UNCHANGED <<invocation, at, idfile, raised, failed, exit, codes>>
      /\ pc = "popen" /\ pc' = "read"
  BY DEF Popen
<1>2. Sound'
  BY <1>1 DEF Consistent, Sound, invocation
<1>3. FileIsThere'
  BY <1>1 DEF Consistent, FileIsThere, invocation, InRunCommand, Busy
<1>4. FailedIsKnown'
  BY <1>1 DEF Consistent, FailedIsKnown, invocation, Settled
<1>5. ExitTellsFailure'
  BY <1>1 DEF ExitTellsFailure
<1> QED
  BY <1>2, <1>3, <1>4, <1>5 DEF Consistent

LEMMA PopenRaisesStep ==
  ASSUME Consistent, PopenRaises
  PROVE  Consistent'
<1>1. /\ UNCHANGED <<invocation, at, failed, phase, codes>> /\ idfile' = None
      /\ pc = "popen" /\ pc' = "ended" /\ raised' = TRUE /\ exit' = 1
  BY DEF PopenRaises, RemoveFile
<1>2. Sound'
  BY <1>1 DEF Consistent, Sound, invocation
<1>3. FileIsThere'
  BY <1>1 DEF Consistent, FileIsThere, InRunCommand, Busy
<1>4. FailedIsKnown'
  BY <1>1 DEF FailedIsKnown
<1>5. ExitTellsFailure'
  BY <1>1 DEF ExitTellsFailure
<1> QED
  BY <1>2, <1>3, <1>4, <1>5 DEF Consistent

\* The turn passes on: the command is settled, or failed says that it is not.
LEMMA TurnPasses ==
  ASSUME Consistent, at <= Len(commands), pc # "ended",
         UNCHANGED invocation, at' = at + 1, pc' = "next", raised' = FALSE,
         idfile' = None, phase' = "none",
         \A i \in Nat : i # at => (<<i, 0>> \in codes' <=> <<i, 0>> \in codes),
         failed' <=> failed \/ ~(Skipped(commands[at], ids) \/ <<at, 0>> \in codes'),
         failed' \in BOOLEAN
  PROVE  Consistent'
<1>1. Sound'
  BY DEF Consistent, Sound, invocation
<1>2. FileIsThere'
  BY DEF FileIsThere, InRunCommand, Busy
<1>3. FailedIsKnown'
  <2>1. \A i \in Nat : <<i, 0>> \in codes' => i < at'
    BY DEF Consistent, Sound, FailedIsKnown
  <2>0. at \in Nat \ {0} /\ (failed <=> \E i \in 1 .. at - 1 : ~Settled(i))
    BY DEF Consistent, Sound, FailedIsKnown
  <2>2. ASSUME NEW i \in 1 .. at - 1
        PROVE  Settled(i)' <=> Settled(i)
    <3>1. i \in Nat /\ i # at
      BY <2>0
    <3>2. commands' = commands /\ ids' = ids
      BY DEF invocation
    <3> QED
      BY <3>1, <3>2 DEF Settled
  <2>3. ASSUME NEW i, i = at
        PROVE  Settled(i)' <=> Skipped(commands[at], ids) \/ <<at, 0>> \in codes'
    BY <2>3 DEF Settled, invocation
  <2>4. at' - 1 = at
    BY DEF Consistent, Sound
  <2>5. failed' <=> \E i \in 1 .. at' - 1 : ~Settled(i)'
    <3>1. \A i : i \in 1 .. at' - 1 <=> i \in 1 .. at - 1 \/ i = at
      BY <2>0, <2>4
    <3>2. failed' <=> failed \/ \E i : i = at /\ ~Settled(i)'
      BY <2>3
    <3> QED
      BY <3>1, <3>2, <2>0, <2>2
  <2> QED
    BY <2>1, <2>5 DEF FailedIsKnown
<1>4. ExitTellsFailure'
  BY DEF ExitTellsFailure
<1> QED
  BY <1>1, <1>2, <1>3, <1>4 DEF Consistent

LEMMA SkipStep ==
  ASSUME Consistent, Skip
  PROVE  Consistent'
<1>1. /\ UNCHANGED <<invocation, pc, idfile, raised, failed, phase, codes>>
      /\ pc = "next" /\ at' = at + 1 /\ at <= Len(commands)
      /\ Skipped(commands[at], ids)
  BY DEF Skip, Command
<1>2. raised' = FALSE
  BY <1>1 DEF Consistent, FailedIsKnown
<1> QED
  BY <1>1, <1>2, TurnPasses DEF Consistent, Sound, FileIsThere, InRunCommand, Busy

LEMMA WaitStep ==
  ASSUME Consistent, Wait
  PROVE  Consistent'
<1>1. /\ UNCHANGED <<invocation, raised>> /\ pc = "wait" /\ at <= Len(commands)
      /\ codes' = codes \cup {<<at, code>>} /\ idfile' = None /\ phase' = "none"
  BY DEF Wait, NoProcess, RemoveFile, Consistent, FileIsThere, InRunCommand, Busy
<1>2. CASE raised
  <2>1. pc' = "ended" /\ exit' = 1 /\ UNCHANGED <<at, failed>>
    BY <1>2 DEF Wait
  <2>2. Sound'
    BY <1>1, <2>1 DEF Consistent, Sound, invocation
  <2>3. FileIsThere' /\ FailedIsKnown'
    BY <1>1, <2>1 DEF FileIsThere, FailedIsKnown, InRunCommand, Busy
  <2>4. ExitTellsFailure'
    BY <1>1, <1>2, <2>1 DEF ExitTellsFailure
  <2> QED
    BY <2>2, <2>3, <2>4 DEF Consistent
<1>3. CASE ~raised
  <2>1. pc' = "next" /\ at' = at + 1 /\ failed' = (failed \/ code # 0)
    BY <1>3 DEF Wait, Failed
  <2>2. \A i \in Nat : i # at => (<<i, 0>> \in codes' <=> <<i, 0>> \in codes)
    BY <1>1
  <2>3. <<at, 0>> \in codes' <=> code = 0
    BY <1>1 DEF Consistent, Sound, FailedIsKnown
  <2>4. ~Skipped(commands[at], ids) /\ failed \in BOOLEAN
    BY <1>1 DEF Consistent, Sound, FileIsThere, InRunCommand, Busy
  <2>5. failed' \in BOOLEAN
    BY <2>1, <2>4
  <2>6. failed' <=> failed \/ ~(Skipped(commands[at], ids) \/ <<at, 0>> \in codes')
    BY <2>1, <2>3, <2>4
  <2>7. pc # "ended" /\ raised' = FALSE
    BY <1>1, <1>3 DEF Consistent, FailedIsKnown
  <2> QED
    BY <1>1, <2>1, <2>2, <2>5, <2>6, <2>7, TurnPasses
<1> QED
  BY <1>2, <1>3

LEMMA FinishStep ==
  ASSUME Consistent, Finish
  PROVE  Consistent'
<1>1. /\ UNCHANGED <<invocation, at, idfile, raised, failed, phase, codes>>
      /\ pc = "next" /\ at > Len(commands) /\ pc' = "ended"
      /\ exit' = IF failed THEN 1 ELSE 0
  BY DEF Finish
<1>2. Sound'
  BY <1>1 DEF Consistent, Sound, invocation
<1>3. FileIsThere' /\ FailedIsKnown'
  BY <1>1 DEF Consistent, FileIsThere, FailedIsKnown, InRunCommand, Busy
<1>4. ExitTellsFailure'
  <2>1. ~raised' /\ at - 1 = Len(commands) /\ DOMAIN commands = 1 .. Len(commands)
    BY <1>1 DEF Consistent, Sound, FailedIsKnown
  <2>2. failed <=> \E i \in DOMAIN commands : ~Settled(i)
    BY <1>1, <2>1 DEF Consistent, FailedIsKnown
  <2>3. exit' = 0 <=> ~failed
    BY <1>1
  <2> QED
    BY <1>1, <2>1, <2>2, <2>3 DEF ExitTellsFailure, Settled, invocation
<1> QED
  BY <1>2, <1>3, <1>4 DEF Consistent

LEMMA Inductive == Consistent /\ [Next]_vars => Consistent'
<1> SUFFICES ASSUME Consistent, [Next]_vars PROVE Consistent'
  OBVIOUS
<1>1. CASE Skip \/ Finish \/ Start \/ Popen \/ PopenRaises \/ Wait
  BY <1>1, SkipStep, FinishStep, StartStep, PopenStep, PopenRaisesStep, WaitStep
<1>2. CASE Read \/ ReadShort \/ Swallow \/ SwallowEnds \/ Eof
  BY <1>2, ReadStep
<1>3. CASE ProcessWorks \/ Killed
  BY <1>3, ProcessStep, NoStep DEF combine, Rest
<1>4. CASE OutputBreaks \/ UNCHANGED vars
  BY <1>4, NoStep DEF OutputBreaks, vars, Rest
<1> QED
  BY <1>1, <1>2, <1>3, <1>4 DEF Next, Combines, run_command

THEOREM AlwaysConsistent == Spec => []Consistent
  BY Initially, Inductive, PTL DEF Spec

\* combine's exit code is 0 just when no exception has left it and each command
\* that had to run has run and exited 0.
THEOREM ExitCodeTellsFailure == Spec => []ExitTellsFailure
<1>1. Consistent => ExitTellsFailure
  BY DEF Consistent
<1> QED
  BY <1>1, AlwaysConsistent, PTL

\* While a command runs, the file of its ids is there with just the ids that
\* are its own; none is left when combine has ended, or goes on to the next.
THEOREM IdFileIsSafe == Spec => []IdFileOutlivesItsCommand
<1>1. Consistent => IdFileOutlivesItsCommand
  BY DEF Consistent, Sound, FileIsThere, InRunCommand, Busy, Running, Command,
         IdFileOutlivesItsCommand
<1> QED
  BY <1>1, AlwaysConsistent, PTL
-------------------------------------------------------------------------------
(* Sequences of anything. *)

Sequence(s) == s \in Seq({s[i] : i \in DOMAIN s})

LEMMA SequenceFacts ==
    ASSUME NEW s, Sequence(s)
    PROVE  /\ Len(s) \in Nat /\ DOMAIN s = 1 .. Len(s)
           /\ s # <<>> <=> Len(s) # 0
<1>1. s \in Seq({s[i] : i \in DOMAIN s})
  BY DEF Sequence
<1> QED
  BY <1>1, LenProperties, EmptySeq

LEMMA SequenceOf ==
    ASSUME NEW S, NEW s \in Seq(S)
    PROVE  Sequence(s)
<1>1. Len(s) \in Nat /\ s \in [1 .. Len(s) -> S] /\ DOMAIN s = 1 .. Len(s)
  BY LenProperties
<1>2. s \in [1 .. Len(s) -> {s[i] : i \in DOMAIN s}]
  BY <1>1
<1>3. s \in Seq({s[i] : i \in DOMAIN s})
  BY <1>1, <1>2, SeqDef
<1> QED
  BY <1>3 DEF Sequence

LEMMA CommonSet ==
    ASSUME NEW s, NEW t, Sequence(s), Sequence(t)
    PROVE  \E S : s \in Seq(S) /\ t \in Seq(S)
<1> DEFINE A == {s[i] : i \in DOMAIN s}
           B == {t[i] : i \in DOMAIN t}
<1>1. s \in Seq(A) /\ t \in Seq(B)
  BY DEF Sequence
<1> HIDE DEF A, B
<1>2. A \subseteq A \cup B /\ B \subseteq A \cup B
  OBVIOUS
<1>3. s \in Seq(A \cup B) /\ t \in Seq(A \cup B)
  BY <1>1, <1>2, SeqMonotonic
<1> QED
  BY <1>3

LEMMA Joined ==
    ASSUME NEW s, NEW t, Sequence(s), Sequence(t)
    PROVE  /\ Sequence(s \o t) /\ Len(s \o t) = Len(s) + Len(t)
           /\ \A i \in 1 .. Len(s) : (s \o t)[i] = s[i]
           /\ \A i \in 1 .. Len(t) : (s \o t)[Len(s) + i] = t[i]
<1>1. PICK S : s \in Seq(S) /\ t \in Seq(S)
  BY CommonSet
<1>2. Len(s) \in Nat /\ Len(t) \in Nat
  BY SequenceFacts
<1>3. /\ s \o t \in Seq(S) /\ Len(s \o t) = Len(s) + Len(t)
      /\ \A i \in 1 .. Len(s) + Len(t) :
            (s \o t)[i] = IF i <= Len(s) THEN s[i] ELSE t[i - Len(s)]
  BY <1>1, ConcatProperties
<1>4. ASSUME NEW i \in 1 .. Len(s) PROVE (s \o t)[i] = s[i]
  BY <1>2, <1>3
<1>5. ASSUME NEW i \in 1 .. Len(t) PROVE (s \o t)[Len(s) + i] = t[i]
  <2>1. Len(s) + i \in 1 .. Len(s) + Len(t) /\ ~(Len(s) + i <= Len(s))
        /\ Len(s) + i - Len(s) = i
    BY <1>2
  <2> QED
    BY <1>3, <2>1
<1>6. Sequence(s \o t)
  BY <1>3, SequenceOf
<1> QED
  BY <1>3, <1>4, <1>5, <1>6

LEMMA Appended ==
    ASSUME NEW s, NEW e, Sequence(s)
    PROVE  /\ Sequence(Append(s, e)) /\ Len(Append(s, e)) = Len(s) + 1
           /\ \A i \in 1 .. Len(s) : Append(s, e)[i] = s[i]
           /\ Append(s, e)[Len(s) + 1] = e
<1> DEFINE S == {s[i] : i \in DOMAIN s} \cup {e}
<1>1. s \in Seq(S)
  <2>1. {s[i] : i \in DOMAIN s} \subseteq S
    OBVIOUS
  <2> HIDE DEF S
  <2> QED
    BY <2>1, SeqMonotonic DEF Sequence
<1>2. e \in S
  OBVIOUS
<1> HIDE DEF S
<1>3. /\ Append(s, e) \in Seq(S) /\ Len(Append(s, e)) = Len(s) + 1
      /\ \A i \in 1 .. Len(s) : Append(s, e)[i] = s[i]
      /\ Append(s, e)[Len(s) + 1] = e
  BY <1>1, <1>2, AppendProperties
<1>4. Sequence(Append(s, e))
  BY <1>3, SequenceOf
<1> QED
  BY <1>3, <1>4

LEMMA Tailed ==
    ASSUME NEW s, Sequence(s), s # <<>>
    PROVE  /\ Sequence(Tail(s)) /\ Len(Tail(s)) = Len(s) - 1
           /\ \A i \in 1 .. Len(s) - 1 : Tail(s)[i] = s[i + 1]
           /\ Head(s) = s[1]
<1> DEFINE S == {s[i] : i \in DOMAIN s}
<1>1. s \in Seq(S)
  BY DEF Sequence
<1> HIDE DEF S
<1>2. /\ Tail(s) \in Seq(S) /\ Len(Tail(s)) = Len(s) - 1
      /\ \A i \in 1 .. Len(s) - 1 : Tail(s)[i] = s[i + 1]
  <2>1. /\ Tail(s) \in Seq(S) /\ Len(Tail(s)) = Len(s) - 1
        /\ \A i \in 1 .. Len(Tail(s)) : Tail(s)[i] = s[i + 1]
    BY <1>1, HeadTailProperties
  <2> QED
    BY <2>1
<1>3. Head(s) = s[1]
  BY <1>1
<1> QED
  BY <1>2, <1>3, SequenceOf

LEMMA NothingIsASequence == Sequence(<<>>) /\ Len(<<>>) = 0
<1>1. <<>> \in Seq({}) /\ Len(<<>>) = 0
  BY EmptySeq
<1> QED
  BY <1>1, SequenceOf

LEMMA EqualSequences ==
    ASSUME NEW s, NEW t, Sequence(s), Sequence(t), Len(s) = Len(t),
           \A i \in 1 .. Len(s) : s[i] = t[i]
    PROVE  s = t
<1>1. PICK S : s \in Seq(S) /\ t \in Seq(S)
  BY CommonSet
<1> QED
  BY <1>1, SeqEqual

-------------------------------------------------------------------------------
(* The output is what the commands have written. *)

\* From a to b, s is t.
Lands(s, a, t, b) == b = a + Len(t) /\ \A k \in 1 .. Len(t) : s[a + k] = t[k]

Starts(p, s) == Len(p) <= Len(s) /\ \A k \in 1 .. Len(p) : p[k] = s[k]

\* Reported, for the command a with a prefix.
Report(a, prefix, item) ==
    [i \in DOMAIN Events(item) |->
        [from |-> a, event |-> Prefixed(prefix, Events(item)[i])]]

\* The first n items of the pipe are to be reported as what has been said and
\* not yet merged: the i-th one up to cut[i].
Ahead(n, cut) ==
    /\ cut[0] = Len(merged) /\ cut[n] = Len(said)
    /\ \A i, j \in 0 .. n : i <= j => cut[i] <= cut[j]
    /\ \A i \in 1 .. n : Lands(said, cut[i - 1], Report(at, commands[at].prefix, pipe[i]), cut[i])

IsShort(i) == pipe[i].kind = "short"

\* All the items count, or those up to the first short one, which is to take the
\* others.
Counted(n) ==
    /\ \A i \in 1 .. n - 1 : ~IsShort(i)
    /\ ~swallowed => n = Len(pipe) /\ (n > 0 => ~IsShort(n))
    /\ swallowed /\ n > 0 => IsShort(n)
    /\ swallowed /\ n = 0 => pipe = <<>> /\ phase = "exited"

ReadAhead ==
    \E n \in 0 .. Len(pipe) :
        Counted(n) /\ \E cut \in [0 .. n -> 0 .. Len(said)] : Ahead(n, cut)

Settles == pc \in {"next", "popen"} \/ (pc \in {"wait", "ended"} /\ ~raised)

Ordered ==
    /\ Sequence(said) /\ Sequence(merged) /\ Sequence(pipe) /\ swallowed \in BOOLEAN
    /\ Starts(merged, said)
    /\ Settles => Len(merged) = Len(said)
    /\ pc \in {"next", "popen"} => pipe = <<>> /\ ~swallowed
    /\ pc = "wait" /\ ~raised => phase = "exited"
    /\ pc = "swallow" =>
          swallowed /\ Lands(said, Len(merged), Report(at, commands[at].prefix, Other("short")), Len(said))
    /\ pc = "read" => ReadAhead

LEMMA ReportedIs ==
    ASSUME NEW item
    PROVE  Reported(item) = Report(at, commands[at].prefix, item)
  BY DEF Reported, Report, Command

LEMMA ReportIsASequence ==
    ASSUME NEW a, NEW prefix, NEW item
    PROVE  Sequence(Report(a, prefix, item))
<1> DEFINE e == Events(item)
<1>1. Sequence(e)
  <2>1. ASSUME NEW x, NEW y PROVE Sequence(<<x>>) /\ Sequence(<<x, y>>)
    <3>1. <<x>> \in Seq({x}) /\ <<x, y>> \in Seq({x, y})
      OBVIOUS
    <3> QED
      BY <3>1, SequenceOf
  <2>2. \/ \E x : e = <<x>>
        \/ \E x, y : e = <<x, y>>
        \/ e = <<>>
    BY DEF Events
  <2> QED
    BY <2>1, <2>2, NothingIsASequence
<1> DEFINE f == Report(a, prefix, item)
           S == {f[i] : i \in DOMAIN e}
<1>2. Len(e) \in Nat /\ DOMAIN e = 1 .. Len(e)
  BY <1>1, SequenceFacts
<1>3. f = [i \in DOMAIN e |-> f[i]]
  BY DEF Report
<1> HIDE DEF e, f
<1>4. f \in [1 .. Len(e) -> S]
  BY <1>2, <1>3
<1> HIDE DEF S
<1>5. f \in Seq(S)
  BY <1>2, <1>4, SeqDef
<1> QED
  BY <1>5, SequenceOf DEF f

\* What is said is added at the end.
LEMMA LandsJoined ==
    ASSUME NEW s, NEW t, Sequence(s), Sequence(t)
    PROVE  /\ Sequence(s \o t) /\ Len(s \o t) = Len(s) + Len(t)
           /\ Lands(s \o t, Len(s), t, Len(s \o t)) /\ Starts(s, s \o t)
<1>1. Len(s) \in Nat /\ Len(t) \in Nat
  BY SequenceFacts
<1> QED
  BY <1>1, Joined DEF Lands, Starts

\* What is merged next is what was said next.
LEMMA StartsJoined ==
    ASSUME NEW p, NEW s, NEW t, NEW b \in Nat, Sequence(p), Sequence(s), Sequence(t),
           Starts(p, s), Lands(s, Len(p), t, b), b <= Len(s)
    PROVE  Sequence(p \o t) /\ Len(p \o t) = b /\ Starts(p \o t, s)
<1>1. Len(p) \in Nat /\ Len(t) \in Nat /\ Len(s) \in Nat
  BY SequenceFacts
<1>2. /\ Sequence(p \o t) /\ Len(p \o t) = Len(p) + Len(t) /\ b = Len(p) + Len(t)
      /\ \A i \in 1 .. Len(p) : (p \o t)[i] = p[i]
      /\ \A i \in 1 .. Len(t) : (p \o t)[Len(p) + i] = t[i]
  BY Joined DEF Lands
<1>3. ASSUME NEW k \in 1 .. Len(p \o t) PROVE (p \o t)[k] = s[k]
  <2>1. CASE k <= Len(p)
    BY <1>1, <1>2, <2>1 DEF Starts
  <2>2. CASE k > Len(p)
    <3>1. k - Len(p) \in 1 .. Len(t) /\ Len(p) + (k - Len(p)) = k
      BY <1>1, <1>2, <2>2
    <3>2. (p \o t)[k] = t[k - Len(p)]
      BY <1>2, <3>1
    <3>3. s[k] = t[k - Len(p)]
      BY <3>1 DEF Lands
    <3> QED
      BY <3>2, <3>3
  <2> QED
    BY <1>1, <1>2, <2>1, <2>2
<1> QED
  BY <1>2, <1>3 DEF Starts

LEMMA StartsOn ==
    ASSUME NEW p, NEW s, NEW t, Sequence(p), Sequence(s), Sequence(t), Starts(p, s), Starts(s, t)
    PROVE  Starts(p, t)
<1>1. Len(p) \in Nat /\ Len(s) \in Nat /\ Len(t) \in Nat
  BY SequenceFacts
<1> QED
  BY <1>1 DEF Starts

LEMMA LandsOn ==
    ASSUME NEW s, NEW t, NEW r, NEW a \in Nat, NEW b \in Nat, Sequence(s), Sequence(r),
           Starts(s, t), Lands(s, a, r, b), b <= Len(s)
    PROVE  Lands(t, a, r, b)
<1>1. Len(r) \in Nat /\ Len(s) \in Nat
  BY SequenceFacts
<1>2. ASSUME NEW k \in 1 .. Len(r) PROVE t[a + k] = r[k]
  <2>1. a + k \in 1 .. Len(s)
    BY <1>1 DEF Lands
  <2> QED
    BY <2>1 DEF Lands, Starts
<1> QED
  BY <1>2 DEF Lands

\* One more item in the pipe, and its report among what has been said.
LEMMA AheadGrows ==
    ASSUME NEW item, NEW n \in 0 .. Len(pipe), NEW cut \in [0 .. n -> 0 .. Len(said)],
           Ordered, Ahead(n, cut), Counted(n), ~swallowed, UNCHANGED <<at, commands, merged>>,
           pipe' = Append(pipe, item), said' = said \o Report(at, commands[at].prefix, item),
           swallowed' = (item.kind = "short")
    PROVE  ReadAhead'
<1>1. /\ Len(said) \in Nat /\ Len(said') = Len(said) + Len(Report(at, commands[at].prefix, item)) /\ Sequence(said)
      /\ Len(Report(at, commands[at].prefix, item)) \in Nat /\ Starts(said, said') /\ Sequence(pipe)
      /\ Lands(said', Len(said), Report(at, commands[at].prefix, item), Len(said'))
  BY LandsJoined, ReportIsASequence, SequenceFacts DEF Ordered
<1>2. /\ n = Len(pipe) /\ n \in Nat /\ Len(pipe') = n + 1 /\ pipe'[n + 1] = item
      /\ \A i \in 1 .. n : pipe'[i] = pipe[i]
  BY <1>1, Appended, SequenceFacts DEF Counted
<1>3. \A i \in 0 .. n : cut[i] \in 0 .. Len(said)
  BY <1>2
<1>4. Len(said) <= Len(said') /\ Len(said') \in Nat
  BY <1>1
<1>5. PICK more \in [0 .. n + 1 -> 0 .. Len(said')] :
            (\A i \in 0 .. n : more[i] = cut[i]) /\ more[n + 1] = Len(said')
  <2> DEFINE f == [i \in 0 .. n + 1 |-> IF i <= n THEN cut[i] ELSE Len(said')]
  <2>1. f \in [0 .. n + 1 -> 0 .. Len(said')]
    BY <1>1, <1>3, <1>4
  <2>2. (\A i \in 0 .. n : f[i] = cut[i]) /\ f[n + 1] = Len(said')
    BY <1>2
  <2> QED
    BY <2>1, <2>2
<1>6. /\ \A i \in 0 .. n : more[i] = cut[i]
      /\ more[n + 1] = Len(said')
  BY <1>5
<1>7. Ahead(n + 1, more)'
  <2>1. more[0] = Len(merged') /\ more[n + 1] = Len(said')
    BY <1>2, <1>6 DEF Ahead
  <2>2. ASSUME NEW i \in 0 .. n + 1, NEW j \in 0 .. n + 1, i <= j
        PROVE  more[i] <= more[j]
    <3>1. CASE j <= n
      <4>1. i \in 0 .. n /\ j \in 0 .. n
        BY <1>2, <2>2, <3>1
      <4> QED
        BY <1>6, <2>2, <4>1 DEF Ahead
    <3>2. CASE j = n + 1 /\ i <= n
      <4>1. more[i] = cut[i] /\ cut[i] \in 0 .. Len(said) /\ more[j] = Len(said')
        BY <1>2, <1>3, <1>6, <3>2
      <4> QED
        BY <1>4, <4>1
    <3>3. CASE j = n + 1 /\ i = n + 1
      BY <1>4, <1>6, <3>3
    <3> QED
      BY <1>2, <2>2, <3>1, <3>2, <3>3
  <2>3. ASSUME NEW i \in 1 .. n + 1
        PROVE  Lands(said', more[i - 1], Report(at, commands[at].prefix, pipe'[i]), more[i])
    <3>1. CASE i <= n
      <4>1. /\ pipe'[i] = pipe[i] /\ more[i] = cut[i] /\ more[i - 1] = cut[i - 1]
            /\ cut[i] \in 0 .. Len(said) /\ cut[i - 1] \in 0 .. Len(said)
        BY <1>2, <1>3, <1>6, <3>1
      <4>2. Lands(said, cut[i - 1], Report(at, commands[at].prefix, pipe[i]), cut[i])
        BY <1>2, <3>1 DEF Ahead
      <4>3. Lands(said', cut[i - 1], Report(at, commands[at].prefix, pipe[i]), cut[i])
        BY <1>1, <4>1, <4>2, LandsOn, ReportIsASequence
      <4> QED
        BY <4>1, <4>3
    <3>2. CASE i = n + 1
      <4>1. pipe'[i] = item /\ more[i] = Len(said') /\ more[i - 1] = Len(said)
        BY <1>2, <1>6, <3>2 DEF Ahead
      <4> QED
        BY <1>1, <4>1
    <3> QED
      BY <1>2, <3>1, <3>2
  <2> QED
    BY <2>1, <2>2, <2>3 DEF Ahead
<1>8. Counted(n + 1)'
  <2>1. ASSUME NEW i \in 1 .. n + 1 - 1 PROVE ~IsShort(i)'
    BY <1>2, <2>1 DEF Counted, IsShort
  <2>2. IsShort(n + 1)' <=> swallowed'
    BY <1>2 DEF IsShort
  <2> QED
    BY <1>2, <2>1, <2>2 DEF Counted
<1>9. n + 1 \in 0 .. Len(pipe')
  BY <1>2
<1> QED
  BY <1>5, <1>7, <1>8, <1>9 DEF ReadAhead

LEMMA SaysKeeps ==
    ASSUME NEW item, Consistent, Ordered, Running, UNCHANGED combine, Says(item)
    PROVE  Ordered'
<1>1. /\ UNCHANGED <<at, commands, merged, pc, raised>> /\ pipe' = Append(pipe, item)
      /\ swallowed' \in BOOLEAN
      /\ swallowed => swallowed' /\ said' = said
      /\ ~swallowed => said' = said \o Report(at, commands[at].prefix, item) /\ swallowed' = (item.kind = "short")
  BY ReportedIs DEF Says, combine, invocation, Ordered
<1>2. pc \in {"read", "swallow", "wait"} /\ (pc = "wait" => raised)
  BY DEF Running, Consistent, FileIsThere, Busy, Ordered
<1>3. /\ Sequence(pipe') /\ Len(pipe') = Len(pipe) + 1 /\ Len(pipe) \in Nat
      /\ \A i \in 1 .. Len(pipe) : pipe'[i] = pipe[i]
  BY <1>1, Appended, SequenceFacts DEF Ordered
<1>4. Sequence(said') /\ Starts(merged', said')
  <2>1. CASE swallowed
    BY <1>1, <2>1 DEF Ordered
  <2>2. CASE ~swallowed
    <3>1. Sequence(said') /\ Starts(said, said')
      BY <1>1, <2>2, LandsJoined, ReportIsASequence DEF Ordered
    <3> QED
      BY <1>1, <3>1, StartsOn DEF Ordered
  <2> QED
    BY <2>1, <2>2
<1>5. ASSUME pc = "swallow"
      PROVE  (swallowed /\ Lands(said, Len(merged), Report(at, commands[at].prefix, Other("short")), Len(said)))'
  BY <1>1, <1>5 DEF Ordered
<1>6. ASSUME pc = "read" PROVE ReadAhead'
  <2>1. PICK n \in 0 .. Len(pipe) :
            Counted(n) /\ \E cut \in [0 .. n -> 0 .. Len(said)] : Ahead(n, cut)
    BY <1>6 DEF Ordered, ReadAhead
  <2>2. PICK cut \in [0 .. n -> 0 .. Len(said)] : Ahead(n, cut)
    BY <2>1
  <2>3. CASE swallowed
    <3>1. n # 0
      BY <2>1, <2>3 DEF Counted, Running
    <3>2. n \in 0 .. Len(pipe') /\ said' = said /\ swallowed'
      BY <1>1, <1>3, <2>3
    <3>3. \A i \in 1 .. n : pipe'[i] = pipe[i]
      BY <1>3
    <3>4. Ahead(n, cut)'
      BY <1>1, <2>2, <3>2, <3>3 DEF Ahead
    <3>5. Counted(n)'
      <4>1. n \in Nat /\ n > 0 /\ n \in 1 .. n
        BY <1>3, <3>1
      <4>2. \A i \in 1 .. n : IsShort(i)' <=> IsShort(i)
        BY <3>3 DEF IsShort
      <4>3. IsShort(n)
        BY <2>1, <2>3, <4>1 DEF Counted
      <4>4. \A i \in 1 .. n - 1 : ~IsShort(i)'
        BY <2>1, <4>1, <4>2 DEF Counted
      <4> QED
        BY <3>1, <3>2, <4>1, <4>2, <4>3, <4>4 DEF Counted
    <3> QED
      BY <3>2, <3>4, <3>5 DEF ReadAhead
  <2>4. CASE ~swallowed
    BY <1>1, <2>1, <2>2, <2>4, AheadGrows
  <2> QED
    BY <2>3, <2>4
<1> QED
  BY <1>1, <1>2, <1>3, <1>4, <1>5, <1>6 DEF Ordered, Settles

\* A step that says nothing, of a process that lives.
LEMMA SilenceKeeps ==
    ASSUME Consistent, Ordered, Running, UNCHANGED combine, SaysNothing
    PROVE  Ordered'
<1>1. UNCHANGED <<at, commands, merged, pc, raised, pipe, said, swallowed>>
  BY DEF combine, invocation, SaysNothing
<1>2. pc \in {"read", "swallow", "wait"} /\ (pc = "wait" => raised)
  BY DEF Running, Consistent, FileIsThere, Busy, Ordered
<1>4. ASSUME pc = "read" PROVE ReadAhead'
  <2>1. PICK n \in 0 .. Len(pipe) :
            Counted(n) /\ \E cut \in [0 .. n -> 0 .. Len(said)] : Ahead(n, cut)
    BY <1>4 DEF Ordered, ReadAhead
  <2>2. PICK cut \in [0 .. n -> 0 .. Len(said)] : Ahead(n, cut)
    BY <2>1
  <2>3. Ahead(n, cut)'
    BY <1>1, <2>2 DEF Ahead
  <2>4. Counted(n)'
    BY <1>1, <2>1 DEF Counted, IsShort, Running
  <2> QED
    BY <1>1, <2>3, <2>4 DEF ReadAhead
<1>5. ASSUME pc = "swallow"
      PROVE  (swallowed /\ Lands(said, Len(merged), Report(at, commands[at].prefix, Other("short")), Len(said)))'
  BY <1>1, <1>5 DEF Ordered
<1> QED
  BY <1>1, <1>2, <1>4, <1>5 DEF Ordered, Settles

LEMMA ReadKeeps ==
    ASSUME Consistent, Ordered, Read
    PROVE  Ordered'
<1>1. /\ pc = "read" /\ pipe # <<>> /\ ~(Head(pipe).kind = "short") /\ pipe' = Tail(pipe)
      /\ UNCHANGED <<said, swallowed, phase, at, commands>>
  BY DEF Read, process, loop, invocation
<1>2. /\ Sequence(pipe) /\ Sequence(said) /\ Sequence(merged) /\ swallowed \in BOOLEAN
      /\ Starts(merged, said)
  BY DEF Ordered
<1>3. /\ Sequence(pipe') /\ Len(pipe') = Len(pipe) - 1 /\ Head(pipe) = pipe[1]
      /\ \A i \in 1 .. Len(pipe) - 1 : pipe'[i] = pipe[i + 1]
      /\ Len(pipe) \in Nat /\ Len(pipe) > 0
  BY <1>1, <1>2, Tailed, SequenceFacts
<1>4. CASE Raises(Head(pipe))
  <2>1. raised' = TRUE /\ pc' = "wait" /\ merged' = merged
    BY <1>4 DEF Read
  <2> QED
    BY <1>1, <1>2, <1>3, <2>1 DEF Ordered, Settles
<1>5. CASE ~Raises(Head(pipe))
  <2> DEFINE r == Report(at, commands[at].prefix, pipe[1])
  <2>1. merged' = merged \o r /\ UNCHANGED <<pc, raised>>
    BY <1>3, <1>5, ReportedIs DEF Read
  <2>2. PICK n \in 0 .. Len(pipe) :
            Counted(n) /\ \E cut \in [0 .. n -> 0 .. Len(said)] : Ahead(n, cut)
    BY <1>1 DEF Ordered, ReadAhead
  <2>3. PICK cut \in [0 .. n -> 0 .. Len(said)] : Ahead(n, cut)
    BY <2>2
  <2>4. n \in Nat /\ Len(said) \in Nat /\ \A i \in 0 .. n : cut[i] \in 0 .. Len(said)
    BY <1>2, <1>3, SequenceFacts
  <2>5. n > 0 /\ (swallowed => n > 1)
    <3>1. ~IsShort(1)
      BY <1>1, <1>3 DEF IsShort
    <3>2. n > 0
      <4>1. ASSUME ~swallowed PROVE n = Len(pipe)
        BY <2>2, <4>1 DEF Counted
      <4>2. ASSUME swallowed PROVE n # 0
        BY <1>1, <2>2, <4>2 DEF Counted
      <4> QED
        BY <1>2, <1>3, <2>4, <4>1, <4>2
    <3>3. ASSUME swallowed PROVE n # 1
      BY <2>2, <3>1, <3>2, <3>3 DEF Counted
    <3> QED
      BY <2>4, <3>2, <3>3
  <2>6. Lands(said, Len(merged), r, cut[1]) /\ cut[1] \in 0 .. Len(said)
    BY <2>3, <2>4, <2>5 DEF Ahead
  <2>7. Sequence(merged') /\ Len(merged') = cut[1] /\ Starts(merged', said)
    BY <1>2, <2>1, <2>4, <2>6, StartsJoined, ReportIsASequence
  <2>8. PICK less \in [0 .. n - 1 -> 0 .. Len(said)] : \A i \in 0 .. n - 1 : less[i] = cut[i + 1]
    <3> DEFINE f == [i \in 0 .. n - 1 |-> cut[i + 1]]
    <3>1. f \in [0 .. n - 1 -> 0 .. Len(said)] /\ \A i \in 0 .. n - 1 : f[i] = cut[i + 1]
      BY <2>4, <2>5
    <3> QED
      BY <3>1
  <2>9. Ahead(n - 1, less)'
    <3>1. less[0] = Len(merged') /\ less[n - 1] = Len(said')
      BY <1>1, <2>3, <2>4, <2>5, <2>7, <2>8 DEF Ahead
    <3>2. ASSUME NEW i \in 0 .. n - 1, NEW j \in 0 .. n - 1, i <= j
          PROVE  less[i] <= less[j]
      <4>1. i + 1 \in 0 .. n /\ j + 1 \in 0 .. n /\ i + 1 <= j + 1
        BY <2>4, <3>2
      <4> QED
        BY <2>3, <2>8, <4>1 DEF Ahead
    <3>3. ASSUME NEW i \in 1 .. n - 1
          PROVE  Lands(said', less[i - 1], Report(at, commands[at].prefix, pipe'[i]), less[i])
      <4>1. /\ i + 1 \in 1 .. n /\ i \in 0 .. n - 1 /\ i - 1 \in 0 .. n - 1
            /\ i \in 1 .. Len(pipe) - 1 /\ i - 1 + 1 = i /\ i + 1 - 1 = i
        BY <1>3, <2>4
      <4>2. pipe'[i] = pipe[i + 1] /\ less[i] = cut[i + 1] /\ less[i - 1] = cut[i]
        BY <1>3, <2>8, <4>1
      <4>3. Lands(said, cut[i], Report(at, commands[at].prefix, pipe[i + 1]), cut[i + 1])
        BY <2>3, <4>1 DEF Ahead
      <4> QED
        BY <1>1, <4>2, <4>3
    <3> QED
      BY <1>1, <3>1, <3>2, <3>3 DEF Ahead
  <2>10. Counted(n - 1)'
    <3>1. ASSUME NEW i \in 1 .. n - 1 PROVE IsShort(i)' <=> IsShort(i + 1)
      <4>1. i \in 1 .. Len(pipe) - 1
        BY <1>3, <2>4
      <4>2. pipe'[i] = pipe[i + 1]
        BY <1>3, <4>1
      <4> QED
        BY <4>2 DEF IsShort
    <3>2. ASSUME NEW i \in 1 .. n - 1 - 1 PROVE ~IsShort(i)'
      <4>1. i \in 1 .. n - 1 /\ i + 1 \in 1 .. n - 1
        BY <2>4
      <4>2. ~IsShort(i + 1)
        BY <2>2, <4>1 DEF Counted
      <4> QED
        BY <3>1, <4>1, <4>2
    <3>3. ASSUME swallowed PROVE n - 1 > 0 /\ IsShort(n - 1)'
      <4>1. n - 1 \in 1 .. n - 1 /\ n - 1 + 1 = n /\ IsShort(n)
        BY <2>2, <2>4, <2>5, <3>3 DEF Counted
      <4> QED
        BY <2>4, <3>1, <4>1
    <3>4. ASSUME ~swallowed PROVE n - 1 = Len(pipe') /\ (n - 1 > 0 => ~IsShort(n - 1)')
      <4>1. n = Len(pipe) /\ ~IsShort(n)
        BY <2>2, <2>5, <3>4 DEF Counted
      <4>2. n - 1 > 0 => n - 1 \in 1 .. n - 1 /\ n - 1 + 1 = n
        BY <2>4
      <4> QED
        BY <1>3, <3>1, <4>1, <4>2
    <3> QED
      BY <1>1, <3>2, <3>3, <3>4 DEF Counted
  <2>11. ReadAhead'
    <3>1. n - 1 \in 0 .. Len(pipe')
      BY <1>3, <2>4, <2>5
    <3> QED
      BY <1>1, <2>9, <2>10, <3>1 DEF ReadAhead
  <2> QED
    BY <1>1, <1>2, <1>3, <2>1, <2>7, <2>11 DEF Ordered, Settles
<1> QED
  BY <1>4, <1>5

LEMMA ShortIsShort ==
    ASSUME NEW a, NEW prefix, NEW item, item.kind = "short"
    PROVE  Report(a, prefix, item) = Report(a, prefix, Other("short"))
<1>1. Other("short").kind = "short"
  BY DEF Other, Item
<1>2. Events(item) = Events(Other("short"))
  BY <1>1 DEF Events
<1> QED
  BY <1>2 DEF Report

LEMMA ReadShortKeeps ==
    ASSUME Consistent, Ordered, ReadShort
    PROVE  Ordered'
<1>1. /\ pc = "read" /\ pc' = "swallow" /\ pipe # <<>> /\ Head(pipe).kind = "short"
      /\ pipe' = Tail(pipe) /\ UNCHANGED <<said, merged, raised, swallowed, phase, at, commands>>
  BY DEF ReadShort, process, loop, invocation
<1>2. /\ Sequence(pipe) /\ Sequence(said) /\ Sequence(merged) /\ swallowed \in BOOLEAN
  BY DEF Ordered
<1>3. Sequence(pipe') /\ Head(pipe) = pipe[1] /\ Len(pipe) \in Nat /\ Len(pipe) > 0
  BY <1>1, <1>2, Tailed, SequenceFacts
<1>4. PICK n \in 0 .. Len(pipe) :
          Counted(n) /\ \E cut \in [0 .. n -> 0 .. Len(said)] : Ahead(n, cut)
  BY <1>1 DEF Ordered, ReadAhead
<1>5. PICK cut \in [0 .. n -> 0 .. Len(said)] : Ahead(n, cut)
  BY <1>4
<1>6. n = 1 /\ swallowed
  <2>1. IsShort(1) /\ n \in Nat
    BY <1>1, <1>3 DEF IsShort
  <2> QED
    BY <1>1, <1>2, <1>3, <1>4, <2>1 DEF Counted
<1>7. Lands(said, Len(merged), Report(at, commands[at].prefix, pipe[1]), Len(said))
  BY <1>5, <1>6 DEF Ahead
<1>8. Lands(said, Len(merged), Report(at, commands[at].prefix, Other("short")), Len(said))
  BY <1>1, <1>3, <1>7, ShortIsShort
<1> QED
  BY <1>1, <1>2, <1>3, <1>6, <1>8 DEF Ordered, Settles

LEMMA SwallowKeeps ==
    ASSUME Consistent, Ordered, Swallow
    PROVE  Ordered'
<1>1. /\ pc = "swallow" /\ pc' = "swallow" /\ pipe # <<>>
      /\ pipe' = Tail(pipe) /\ UNCHANGED <<said, merged, raised, swallowed, phase, at, commands>>
  BY DEF Swallow, process, loop, invocation
<1>2. Sequence(pipe')
  BY <1>1, Tailed DEF Ordered
<1> QED
  BY <1>1, <1>2 DEF Ordered, Settles

LEMMA SwallowEndsKeeps ==
    ASSUME Consistent, Ordered, SwallowEnds
    PROVE  Ordered'
<1>1. /\ pc = "swallow" /\ pipe = <<>> /\ phase = "exited"
      /\ UNCHANGED <<said, swallowed, phase, at, commands, pipe>>
  BY DEF SwallowEnds, process, loop, invocation
<1>2. /\ Sequence(pipe) /\ Sequence(said) /\ Sequence(merged) /\ swallowed = TRUE
      /\ Starts(merged, said)
  BY <1>1 DEF Ordered
<1>3. CASE broken
  BY <1>1, <1>2, <1>3 DEF SwallowEnds, Ordered, Settles
<1>4. CASE ~broken
  <2> DEFINE r == Report(at, commands[at].prefix, Other("short"))
  <2>1. merged' = merged \o r /\ pc' = "read" /\ raised' = raised
    BY <1>4, ReportedIs DEF SwallowEnds
  <2>2. Lands(said, Len(merged), r, Len(said)) /\ Len(said) \in Nat
    BY <1>1, <1>2, SequenceFacts DEF Ordered
  <2>3. Sequence(merged') /\ Len(merged') = Len(said) /\ Starts(merged', said)
    BY <1>2, <2>1, <2>2, StartsJoined, ReportIsASequence
  <2>4. PICK cut \in [0 .. 0 -> 0 .. Len(said)] : cut[0] = Len(said)
    <3> DEFINE f == [i \in 0 .. 0 |-> Len(said)]
    <3>1. f \in [0 .. 0 -> 0 .. Len(said)] /\ f[0] = Len(said)
      BY <2>2
    <3> QED
      BY <3>1
  <2>5. Ahead(0, cut)'
    BY <1>1, <2>2, <2>3, <2>4 DEF Ahead
  <2>6. Counted(0)'
    BY <1>1, <1>2 DEF Counted
  <2>7. 0 \in 0 .. Len(pipe')
    BY <1>1, NothingIsASequence
  <2>8. ReadAhead'
    BY <1>1, <2>4, <2>5, <2>6, <2>7 DEF ReadAhead
  <2> QED
    BY <1>1, <1>2, <2>1, <2>3, <2>8 DEF Ordered, Settles
<1> QED
  BY <1>3, <1>4

\* Nothing is in the pipe: all that has been said is merged.
LEMMA EofKeeps ==
    ASSUME Consistent, Ordered, Eof
    PROVE  Ordered'
<1>1. /\ pc = "read" /\ pc' = "wait" /\ pipe = <<>> /\ phase = "exited"
      /\ UNCHANGED <<said, merged, raised, swallowed, phase, pipe, at, commands>>
  BY DEF Eof, AtEof, process, loop, invocation
<1>2. PICK n \in 0 .. Len(pipe) :
          Counted(n) /\ \E cut \in [0 .. n -> 0 .. Len(said)] : Ahead(n, cut)
  BY <1>1 DEF Ordered, ReadAhead
<1>3. n = 0
  BY <1>1, NothingIsASequence
<1>4. Len(merged) = Len(said)
  BY <1>2, <1>3 DEF Ahead
<1> QED
  BY <1>1, <1>4 DEF Ordered, Settles

LEMMA PopenKeeps ==
    ASSUME Consistent, Ordered, Popen
    PROVE  Ordered'
<1>1. /\ pc = "popen" /\ pc' = "read"
      /\ UNCHANGED <<said, merged, raised, swallowed, pipe, at, commands>>
  BY DEF Popen, invocation
<1>2. /\ Len(merged) = Len(said) /\ pipe = <<>> /\ ~swallowed /\ Sequence(said)
  BY <1>1 DEF Ordered, Settles
<1>3. Len(said) \in Nat
  BY <1>2, SequenceFacts
<1>4. PICK cut \in [0 .. 0 -> 0 .. Len(said)] : cut[0] = Len(said)
  <2> DEFINE f == [i \in 0 .. 0 |-> Len(said)]
  <2>1. f \in [0 .. 0 -> 0 .. Len(said)] /\ f[0] = Len(said)
    BY <1>3
  <2> QED
    BY <2>1
<1>5. Ahead(0, cut)'
  BY <1>1, <1>2, <1>3, <1>4 DEF Ahead
<1>6. Counted(0)' /\ 0 \in 0 .. Len(pipe')
  BY <1>1, <1>2, NothingIsASequence DEF Counted
<1>7. ReadAhead'
  BY <1>1, <1>4, <1>5, <1>6 DEF ReadAhead
<1> QED
  BY <1>1, <1>7 DEF Ordered, Settles

LEMMA WaitKeeps ==
    ASSUME Consistent, Ordered, Wait
    PROVE  Ordered'
<1>1. /\ pc = "wait" /\ UNCHANGED <<said, merged, raised>> /\ pipe' = <<>> /\ swallowed' = FALSE
      /\ pc' = IF raised THEN "ended" ELSE "next"
  BY DEF Wait, NoProcess
<1>2. Sequence(pipe')
  BY <1>1, NothingIsASequence
<1> QED
  BY <1>1, <1>2 DEF Ordered, Settles

LEMMA OrderedStep == Consistent /\ Ordered /\ [Next]_vars => Ordered'
<1> SUFFICES ASSUME Consistent, Ordered, [Next]_vars PROVE Ordered'
  OBVIOUS
<1>1. CASE Skip
  BY <1>1 DEF Skip, invocation, Ordered, Settles
<1>2. CASE Finish
  BY <1>2 DEF Finish, invocation, Ordered, Settles
<1>3. CASE Start \/ PopenRaises
  BY <1>3 DEF Start, PopenRaises, invocation, Ordered, Settles
<1>4. CASE Popen \/ Read \/ ReadShort \/ Swallow \/ SwallowEnds \/ Eof \/ Wait
  BY <1>4, PopenKeeps, ReadKeeps, ReadShortKeeps, SwallowKeeps, SwallowEndsKeeps, EofKeeps, WaitKeeps
<1>5. CASE ProcessWorks \/ Killed
  BY <1>5, ProcessStep, SaysKeeps, SilenceKeeps
<1>6. CASE OutputBreaks \/ UNCHANGED vars
  <2>1. UNCHANGED <<said, merged, pipe, swallowed, pc, raised, phase, at, commands>>
    BY <1>6 DEF OutputBreaks, vars, invocation
  <2>2. ReadAhead' <=> ReadAhead
    BY <2>1 DEF ReadAhead, Counted, IsShort, Ahead
  <2> QED
    BY <2>1, <2>2 DEF Ordered, Settles
<1> QED
  BY <1>1, <1>2, <1>3, <1>4, <1>5, <1>6 DEF Next, Combines, run_command

LEMMA InitIsOrdered == Init => Ordered
<1> SUFFICES ASSUME Init PROVE Ordered
  OBVIOUS
<1>1. /\ said = <<>> /\ merged = <<>> /\ pipe = <<>> /\ swallowed = FALSE /\ pc = "next"
  BY DEF Init
<1>2. Starts(merged, said)
  BY <1>1, NothingIsASequence DEF Starts
<1> QED
  BY <1>1, <1>2, NothingIsASequence DEF Ordered

THEOREM AlwaysOrdered == Spec => []Ordered
  BY InitIsOrdered, OrderedStep, AlwaysConsistent, PTL DEF Spec

LEMMA StartsIsSubSeq ==
    ASSUME NEW p, NEW s, Sequence(p), Sequence(s), Starts(p, s)
    PROVE  p = SubSeq(s, 1, Len(p))
<1> DEFINE S == {s[i] : i \in DOMAIN s}
           q == SubSeq(s, 1, Len(p))
<1>1. Len(p) \in Nat /\ Len(s) \in Nat /\ DOMAIN s = 1 .. Len(s) /\ Len(p) <= Len(s)
  BY SequenceFacts DEF Starts
<1>2. \A i \in 1 .. Len(p) : s[i] \in S
  BY <1>1
<1> HIDE DEF S
<1>3. /\ q \in Seq(S) /\ Len(q) = IF 1 <= Len(p) THEN Len(p) - 1 + 1 ELSE 0
      /\ \A i \in 1 .. Len(p) - 1 + 1 : q[i] = s[1 + i - 1]
  <2>1. 1 \in Int /\ Len(p) \in Int
    BY <1>1
  <2> QED
    BY <1>2, <2>1, SubSeqProperties
<1> HIDE DEF q
<1>4. Sequence(q) /\ Len(q) = Len(p)
  BY <1>1, <1>3, SequenceOf
<1>5. \A i \in 1 .. Len(p) : q[i] = p[i]
  BY <1>1, <1>3 DEF Starts
<1>6. p = q
  BY <1>4, <1>5, EqualSequences
<1> QED
  BY <1>6 DEF q

LEMMA SameWhenAsLong ==
    ASSUME NEW p, NEW s, Sequence(p), Sequence(s), Starts(p, s), Len(p) = Len(s)
    PROVE  p = s
  BY EqualSequences DEF Starts

\* The output is a channel for what the commands have written: nothing is lost,
\* repeated or mixed up, and combine returns with all of it written.
THEOREM OutputIsMerged == Spec => MergesInOrder
<1> DEFINE over == pc = "ended" /\ ~raised
           Step == Channel!Next \/ UNCHANGED <<said, merged, over>>
<1>1. Init => Channel!Init
  BY DEF Init, Channel!Init
<1>2. ASSUME Consistent, Ordered, Ordered', ~over, ~over', Starts(said, said'), merged' = merged
      PROVE  Step
  <2>1. CASE Len(said') > Len(said)
    <3>1. SubSeq(said', 1, Len(said)) = said
      BY <1>2, StartsIsSubSeq DEF Ordered
    <3> QED
      BY <1>2, <2>1, <3>1 DEF Channel!Next, Channel!Send
  <2>2. CASE ~(Len(said') > Len(said))
    <3>1. Len(said') \in Nat /\ Len(said) \in Nat
      BY <1>2, SequenceFacts DEF Ordered
    <3>2. said' = said
      BY <1>2, <2>2, <3>1, SameWhenAsLong DEF Ordered, Starts
    <3> QED
      BY <1>2, <3>2
  <2> QED
    BY <2>1, <2>2
<1>3. ASSUME Consistent, Ordered, Ordered', ~over, ~over', Starts(merged, merged'), said' = said
      PROVE  Step
  <2>1. Len(merged') \in Nat /\ Len(merged) \in Nat /\ Len(said) \in Nat
    BY <1>3, SequenceFacts DEF Ordered
  <2>2. merged' = SubSeq(said, 1, Len(merged')) /\ Len(merged') <= Len(said)
    BY <1>3, StartsIsSubSeq DEF Ordered, Starts
  <2>3. CASE Len(merged') > Len(merged)
    <3>1. Len(merged') \in Len(merged) + 1 .. Len(said)
      BY <2>1, <2>2, <2>3
    <3> QED
      BY <1>3, <2>2, <3>1 DEF Channel!Next, Channel!Deliver
  <2>4. CASE ~(Len(merged') > Len(merged))
    <3>1. merged' = merged
      BY <1>3, <2>1, <2>4, SameWhenAsLong DEF Ordered, Starts
    <3> QED
      BY <1>3, <3>1
  <2> QED
    BY <2>3, <2>4
<1>4. ASSUME Consistent, Ordered, Ordered', [Next]_vars
      PROVE  Step
  <2>1. CASE ProcessWorks \/ Killed
    <3>1. Running /\ UNCHANGED combine /\ (SaysNothing \/ \E item : Says(item))
      BY <2>1, ProcessStep
    <3>2. ~over /\ ~over' /\ merged' = merged
      BY <1>4, <3>1 DEF combine, Running, Consistent, FileIsThere, Busy
    <3>3. CASE SaysNothing
      BY <3>2, <3>3 DEF SaysNothing
    <3>4. ASSUME NEW item, Says(item) PROVE Step
      <4>1. said' = said \/ said' = said \o Report(at, commands[at].prefix, item)
        BY <3>4, ReportedIs DEF Says
      <4>2. said' = said \/ Starts(said, said')
        BY <1>4, <4>1, LandsJoined, ReportIsASequence DEF Ordered
      <4> QED
        BY <1>2, <1>4, <3>2, <4>2
    <3> QED
      BY <3>1, <3>3, <3>4
  <2>2. CASE Read \/ SwallowEnds
    <3>1. ~over /\ ~over' /\ said' = said
      BY <2>2 DEF Read, SwallowEnds, process
    <3>2. merged' = merged \/ \E item : merged' = merged \o Report(at, commands[at].prefix, item)
      BY <2>2, ReportedIs DEF Read, SwallowEnds
    <3>3. merged' = merged \/ Starts(merged, merged')
      BY <1>4, <3>2, LandsJoined, ReportIsASequence DEF Ordered
    <3> QED
      BY <1>3, <1>4, <3>1, <3>3
  <2>3. CASE Finish
    <3>1. ~raised /\ merged = said
      BY <1>4, <2>3, SameWhenAsLong DEF Finish, Consistent, FailedIsKnown, Ordered, Settles
    <3> QED
      BY <2>3, <3>1 DEF Finish, Channel!Next, Channel!End
  <2>4. CASE Wait
    BY <2>4 DEF Wait
  <2>5. CASE Skip \/ Start \/ Popen \/ PopenRaises \/ ReadShort \/ Swallow \/ Eof
    BY <2>5 DEF Skip, Start, Popen, PopenRaises, ReadShort, Swallow, Eof, process, loop
  <2>6. CASE OutputBreaks \/ UNCHANGED vars
    BY <2>6 DEF OutputBreaks, vars
  <2> QED
    BY <1>4, <2>1, <2>2, <2>3, <2>4, <2>5, <2>6 DEF Next, Combines, run_command
<1>5. Consistent /\ Ordered /\ Ordered' /\ [Next]_vars => [Channel!Next]_(Channel!vars)
  BY <1>4 DEF Channel!vars
<1> QED
  BY <1>1, <1>5, AlwaysConsistent, AlwaysOrdered, PTL DEF Spec, MergesInOrder, Channel!Spec
-------------------------------------------------------------------------------
(* What is kept of a sequence. *)

LEMMA LeastOf ==
    ASSUME NEW S \in SUBSET Nat, S # {}
    PROVE  \E n \in S : \A m \in S : n <= m
<1>1. IsWellFoundedOn(OpToRel(<, Nat), Nat)
  BY NatLessThanWellFounded
<1>2. PICK n \in S : \A m \in S : <<m, n>> \notin OpToRel(<, Nat)
  BY <1>1, WFMin
<1>3. \A m \in S : ~(m < n)
  BY <1>2 DEF OpToRel
<1>4. S \subseteq Nat
  OBVIOUS
<1> QED
  BY <1>3, <1>4

LEMMA Induct ==
    ASSUME NEW S \in SUBSET Nat, 0 \in S, \A n \in S : n + 1 \in S
    PROVE  S = Nat
<1> SUFFICES ASSUME Nat \ S # {} PROVE FALSE
  OBVIOUS
<1>1. PICK n \in Nat \ S : \A m \in Nat \ S : n <= m
  BY LeastOf
<1>2. n # 0 /\ n - 1 \in Nat
  BY <1>1
<1>3. n - 1 \in S
  BY <1>1, <1>2
<1> QED
  BY <1>1, <1>3

\* The n-th value is what is kept of the first n elements.
KeepsOne(s, kept, f, n) ==
    f[n] = IF s[n] \in kept THEN Append(f[n - 1], s[n]) ELSE f[n - 1]

LEMMA KeepingExists ==
    ASSUME NEW s, NEW kept, Len(s) \in Nat
    PROVE  \E f : /\ f = [n \in 0 .. Len(s) |-> f[n]] /\ f[0] = <<>>
                  /\ \A n \in 1 .. Len(s) : KeepsOne(s, kept, f, n)
<1> DEFINE Ok(f, n) == /\ f = [i \in 0 .. n |-> f[i]] /\ f[0] = <<>>
                       /\ \A i \in 1 .. n : KeepsOne(s, kept, f, i)
           S == {n \in Nat : \E f : Ok(f, n)}
<1>1. 0 \in S
  <2> DEFINE g == [i \in 0 .. 0 |-> <<>>]
  <2>1. Ok(g, 0)
    OBVIOUS
  <2> QED
    BY <2>1
<1>2. ASSUME NEW n \in S PROVE n + 1 \in S
  <2>1. n \in Nat /\ \E f : Ok(f, n)
    OBVIOUS
  <2>2. PICK f : Ok(f, n)
    BY <2>1
  <2> DEFINE last == IF s[n + 1] \in kept THEN Append(f[n], s[n + 1]) ELSE f[n]
             g == [i \in 0 .. n + 1 |-> IF i = n + 1 THEN last ELSE f[i]]
  <2>3. /\ g = [i \in 0 .. n + 1 |-> g[i]] /\ g[n + 1] = last
        /\ \A i \in 0 .. n : g[i] = f[i]
    <3> HIDE DEF last
    <3> QED
      BY <2>1
  <2> HIDE DEF g
  <2>4. g[0] = <<>>
    BY <2>1, <2>2, <2>3
  <2>5. ASSUME NEW i \in 1 .. n + 1 PROVE KeepsOne(s, kept, g, i)
    <3>1. CASE i = n + 1
      <4>1. i - 1 = n /\ n \in 0 .. n
        BY <2>1, <3>1
      <4>2. g[i] = last /\ g[i - 1] = f[n]
        BY <2>3, <3>1, <4>1
      <4> QED
        BY <3>1, <4>2 DEF KeepsOne
    <3>2. CASE i # n + 1
      <4>1. i \in 1 .. n /\ i \in 0 .. n /\ i - 1 \in 0 .. n
        BY <2>1, <3>2
      <4>2. KeepsOne(s, kept, f, i) /\ g[i] = f[i] /\ g[i - 1] = f[i - 1]
        BY <2>2, <2>3, <4>1
      <4> QED
        BY <4>2 DEF KeepsOne
    <3> QED
      BY <3>1, <3>2
  <2>6. Ok(g, n + 1)
    BY <2>3, <2>4, <2>5
  <2> QED
    BY <2>1, <2>6
<1>3. S = Nat
  <2> HIDE DEF S
  <2>1. S \in SUBSET Nat
    BY DEF S
  <2> QED
    BY <1>1, <1>2, <2>1, Induct
<1>4. Len(s) \in S
  <2> HIDE DEF S
  <2> QED
    BY <1>3
<1>5. PICK f : Ok(f, Len(s))
  BY <1>4
<1> QED
  BY <1>5

LEMMA KeepingIs ==
    ASSUME NEW s, NEW kept, Len(s) \in Nat
    PROVE  /\ Runner!KeptUpTo(s, kept)[0] = <<>>
           /\ \A n \in 1 .. Len(s) : KeepsOne(s, kept, Runner!KeptUpTo(s, kept), n)
<1> DEFINE Body(f) ==
              [n \in 0 .. Len(s) |->
                  IF n = 0 THEN <<>>
                  ELSE IF s[n] \in kept THEN Append(f[n - 1], s[n]) ELSE f[n - 1]]
<1>1. PICK f : /\ f = [n \in 0 .. Len(s) |-> f[n]] /\ f[0] = <<>>
               /\ \A n \in 1 .. Len(s) : KeepsOne(s, kept, f, n)
  BY KeepingExists
<1>2. f = Body(f)
  <2>1. ASSUME NEW n \in 0 .. Len(s)
        PROVE  f[n] = IF n = 0 THEN <<>>
                      ELSE IF s[n] \in kept THEN Append(f[n - 1], s[n]) ELSE f[n - 1]
    <3>1. CASE n = 0
      BY <1>1, <3>1
    <3>2. CASE n # 0
      <4>1. n \in 1 .. Len(s)
        BY <3>2
      <4> QED
        BY <1>1, <3>2, <4>1 DEF KeepsOne
    <3> QED
      BY <3>1, <3>2
  <2> QED
    BY <1>1, <2>1
<1>3. Runner!KeptUpTo(s, kept) = CHOOSE g : g = Body(g)
  BY DEF Runner!KeptUpTo
<1> DEFINE g == Runner!KeptUpTo(s, kept)
<1>4. g = Body(g)
  <2> HIDE DEF Body
  <2> QED
    BY <1>2, <1>3
<1>5. g[0] = <<>> /\ \A n \in 1 .. Len(s) : KeepsOne(s, kept, g, n)
  <2> HIDE DEF g
  <2>1. 0 \in 0 .. Len(s)
    OBVIOUS
  <2>2. ASSUME NEW n \in 1 .. Len(s) PROVE KeepsOne(s, kept, g, n)
    <3>1. n \in 0 .. Len(s) /\ n # 0
      OBVIOUS
    <3>2. g[n] = Body(g)[n]
      BY <1>4
    <3> QED
      BY <3>1, <3>2 DEF KeepsOne
  <2>3. g[0] = Body(g)[0]
    BY <1>4
  <2> QED
    BY <2>1, <2>2, <2>3
<1> QED
  BY <1>5

In(x, s) == \E i \in DOMAIN s : s[i] = x

\* Just what is in s and in the set is kept.
LEMMA Kept ==
    ASSUME NEW S, NEW s \in Seq(S), NEW kept
    PROVE  /\ Runner!Keep(s, kept) \in Seq(S)
           /\ \A x : In(x, Runner!Keep(s, kept)) <=> In(x, s) /\ x \in kept
<1> DEFINE g == Runner!KeptUpTo(s, kept)
           Ok(n) == /\ g[n] \in Seq(S)
                    /\ \A x : In(x, g[n]) <=> x \in kept /\ \E i \in 1 .. n : s[i] = x
           T == {n \in Nat : n <= Len(s) => Ok(n)}
<1>1. Len(s) \in Nat /\ DOMAIN s = 1 .. Len(s)
  BY LenProperties
<1>2. g[0] = <<>> /\ \A n \in 1 .. Len(s) : KeepsOne(s, kept, g, n)
  BY <1>1, KeepingIs
<1> HIDE DEF g
<1>3. 0 \in T
  <2>1. g[0] = <<>> /\ g[0] \in Seq(S) /\ DOMAIN g[0] = {}
    BY <1>2, EmptySeq
  <2>2. \A x : ~In(x, g[0])
    BY <2>1 DEF In
  <2>3. \A x : ~(\E i \in 1 .. 0 : s[i] = x)
    OBVIOUS
  <2> QED
    BY <2>1, <2>2, <2>3
<1>4. ASSUME NEW n \in T PROVE n + 1 \in T
  <2>1. n \in Nat
    OBVIOUS
  <2>2. ASSUME n + 1 <= Len(s) PROVE Ok(n + 1)
    <3>1. Ok(n) /\ n + 1 \in 1 .. Len(s) /\ (n + 1) - 1 = n
      BY <1>1, <2>1, <2>2
    <3>2. g[n + 1] = IF s[n + 1] \in kept THEN Append(g[n], s[n + 1]) ELSE g[n]
      BY <1>2, <3>1 DEF KeepsOne
    <3>3. s[n + 1] \in S
      BY <3>1
    <3>4. \A x : (\E i \in 1 .. n + 1 : s[i] = x) <=> s[n + 1] = x \/ \E i \in 1 .. n : s[i] = x
      BY <2>1
    <3>5. CASE s[n + 1] \notin kept
      <4>1. g[n + 1] = g[n]
        BY <3>2, <3>5
      <4>2. ASSUME NEW x
            PROVE  In(x, g[n + 1]) <=> x \in kept /\ \E i \in 1 .. n + 1 : s[i] = x
        <5>1. In(x, g[n]) <=> x \in kept /\ \E i \in 1 .. n : s[i] = x
          BY <3>1
        <5>2. x \in kept => x # s[n + 1]
          BY <3>5
        <5> QED
          BY <3>4, <4>1, <5>1, <5>2
      <4> QED
        BY <3>1, <4>1, <4>2
    <3>6. CASE s[n + 1] \in kept
      <4>1. g[n + 1] = Append(g[n], s[n + 1])
        BY <3>2, <3>6
      <4>2. /\ g[n + 1] \in Seq(S) /\ Len(g[n + 1]) = Len(g[n]) + 1
            /\ \A i \in 1 .. Len(g[n]) : g[n + 1][i] = g[n][i]
            /\ g[n + 1][Len(g[n]) + 1] = s[n + 1]
        BY <3>1, <3>3, <4>1, AppendProperties
      <4>3. /\ Len(g[n]) \in Nat /\ DOMAIN g[n] = 1 .. Len(g[n])
            /\ DOMAIN g[n + 1] = 1 .. Len(g[n]) + 1
        BY <3>1, <4>2, LenProperties
      <4>4. ASSUME NEW x PROVE In(x, g[n + 1]) <=> In(x, g[n]) \/ x = s[n + 1]
        <5>1. In(x, g[n + 1]) <=> \E i \in 1 .. Len(g[n]) + 1 : g[n + 1][i] = x
          BY <4>3 DEF In
        <5>2. In(x, g[n]) <=> \E i \in 1 .. Len(g[n]) : g[n + 1][i] = x
          BY <4>2, <4>3 DEF In
        <5>3. \A i : i \in 1 .. Len(g[n]) + 1 <=> i \in 1 .. Len(g[n]) \/ i = Len(g[n]) + 1
          BY <4>3
        <5> QED
          BY <4>2, <5>1, <5>2, <5>3
      <4>5. ASSUME NEW x
            PROVE  In(x, g[n + 1]) <=> x \in kept /\ \E i \in 1 .. n + 1 : s[i] = x
        <5>1. In(x, g[n]) <=> x \in kept /\ \E i \in 1 .. n : s[i] = x
          BY <3>1
        <5>2. x = s[n + 1] => x \in kept
          BY <3>6
        <5>3. (\E i \in 1 .. n + 1 : s[i] = x) <=> s[n + 1] = x \/ \E i \in 1 .. n : s[i] = x
          BY <3>4
        <5> QED
          BY <4>4, <5>1, <5>2, <5>3
      <4> QED
        BY <4>2, <4>5
    <3> QED
      BY <3>5, <3>6
  <2> QED
    BY <2>1, <2>2
<1>5. T = Nat
  <2> HIDE DEF T
  <2>1. T \in SUBSET Nat
    BY DEF T
  <2> QED
    BY <1>3, <1>4, <2>1, Induct
<1>6. Ok(Len(s))
  <2>1. Len(s) \in T
    <3> HIDE DEF T
    <3> QED
      BY <1>1, <1>5
  <2> QED
    BY <1>1, <2>1
<1>7. Runner!Keep(s, kept) = g[Len(s)]
  BY DEF Runner!Keep, g
<1> QED
  BY <1>1, <1>6, <1>7 DEF In
-------------------------------------------------------------------------------
(* Requests are routed. *)

\* What argv and the file tell a command, and the tests that it then has to run.
Names(i) == IdList(commands[i])
Listed(i) == IdOption(commands[i], _select_ids_for_command(commands[i], ids))
Wanted(i, test) ==
    /\ In(test, Runner!Loaded(commands[i].suite, Names(i)))
    /\ Listed(i) = None \/ In(test.id, Listed(i))

AllServed(i) ==
    \A test \in Tests :
        Wanted(i, test) /\ test.imports => Served(said, i, commands[i].prefix \o test.id)

\* An event with this id may come from the command i.
Allowed(i, id) ==
    ids # None =>
        \/ commands[i].program # "runner" \/ commands[i].takes = "nothing"
        \/ id \in {None, commands[i].prefix \o <<"subunit.parser">>}
        \/ \E k \in DOMAIN ids : ids[k] = id
        \/ commands[i].takes = "words" /\ AsksForAll(commands[i])
        \/ /\ commands[i].takes = "words" /\ AsksForUnknown(commands[i])
           /\ id = commands[i].prefix \o <<Runner!FailedTest>>

Invoked == commands \in Configs /\ (ids = None \/ ids \in Seq(Ids))

PhaseFits ==
    /\ phase \in {"load", "list", "run", "test"} => commands[at].program = "runner" /\ ~swallowed
    /\ phase \in {"parse", "open", "generate"} => commands[at].program = "output"
    /\ phase = "free" => commands[at].program \notin {"runner", "output"}

\* The runner is at tests that it has to list or run, and has done so with the
\* others.
Awaits(i) ==
    \A test \in Tests :
        Wanted(i, test) /\ test.imports =>
            In(test, todo) \/ Served(said, i, commands[i].prefix \o test.id)

RunnerIsRight ==
    /\ phase \in {"list", "run", "test"} =>
          /\ todo \in Seq(Tests) /\ \A test : In(test, todo) => Wanted(at, test)
          /\ plan.suite \in Seq(Tests) /\ \A test : In(test, plan.suite) <=> Wanted(at, test)
          /\ plan.listOnly <=> OnlyLists(at)
          /\ plan.failfast <=> commands[at].failfast
    /\ phase = "test" => todo # <<>>
    /\ phase = "list" /\ OnlyLists(at) => Awaits(at)
    /\ phase \in {"run", "test"} => ~OnlyLists(at) /\ Awaits(at)
    /\ phase = "exited" /\ code = 0 /\ commands[at].program = "runner" => AllServed(at)

HistoryIsRight ==
    /\ \A i \in DOMAIN commands :
          commands[i].program = "runner" /\ <<i, 0>> \in codes => AllServed(i)
    /\ \A j \in DOMAIN said :
          said[j].from \in DOMAIN commands /\ Allowed(said[j].from, said[j].event.id)

Routed == Invoked /\ PhaseFits /\ RunnerIsRight /\ HistoryIsRight

\* An id that starts with the prefix is the prefix and what is left without it.
LEMMA Stripped ==
    ASSUME NEW prefix \in Ids, NEW id \in Ids, IsPrefix(prefix, id)
    PROVE  Strip(prefix, id) \in Ids /\ prefix \o Strip(prefix, id) = id
<1> DEFINE m == Len(prefix)
           n == Len(id)
           rest == Strip(prefix, id)
<1>1. m \in Nat /\ n \in Nat /\ m <= n /\ SubSeq(prefix, 1, m) = SubSeq(id, 1, m)
  BY LenProperties DEF IsPrefix, Ids
<1>2. /\ \A k \in 1 .. m : prefix[k] \in Parts
      /\ \A k \in 1 .. n : id[k] \in Parts
  BY LenProperties, ElementOfSeq DEF Ids
<1>3. ASSUME NEW k \in 1 .. m PROVE prefix[k] = id[k]
  <2>1. SubSeq(prefix, 1, m)[k] = prefix[k]
    <3>1. /\ 1 \in Int /\ m \in Int /\ \A j \in 1 .. m : prefix[j] \in Parts
          /\ k \in 1 .. m - 1 + 1 /\ 1 + k - 1 = k
      BY <1>1, <1>2
    <3>2. \A j \in 1 .. m - 1 + 1 : SubSeq(prefix, 1, m)[j] = prefix[1 + j - 1]
      BY <3>1, SubSeqProperties
    <3> QED
      BY <3>1, <3>2
  <2>2. SubSeq(id, 1, m)[k] = id[k]
    <3>1. /\ 1 \in Int /\ m \in Int /\ \A j \in 1 .. m : id[j] \in Parts
          /\ k \in 1 .. m - 1 + 1 /\ 1 + k - 1 = k
      BY <1>1, <1>2
    <3>2. \A j \in 1 .. m - 1 + 1 : SubSeq(id, 1, m)[j] = id[1 + j - 1]
      BY <3>1, SubSeqProperties
    <3> QED
      BY <3>1, <3>2
  <2> QED
    BY <1>1, <2>1, <2>2
<1>4. /\ rest \in Seq(Parts) /\ Len(rest) = n - m
      /\ \A k \in 1 .. n - m : rest[k] = id[m + k]
  <2>1. /\ m + 1 \in Int /\ n \in Int /\ \A j \in m + 1 .. n : id[j] \in Parts
    BY <1>1, <1>2
  <2> HIDE DEF m, n
  <2>2. /\ SubSeq(id, m + 1, n) \in Seq(Parts)
        /\ Len(SubSeq(id, m + 1, n)) = IF m + 1 <= n THEN n - (m + 1) + 1 ELSE 0
        /\ \A k \in 1 .. n - (m + 1) + 1 : SubSeq(id, m + 1, n)[k] = id[m + 1 + k - 1]
    BY <2>1, SubSeqProperties
  <2>3. rest = SubSeq(id, m + 1, n)
    BY DEF Strip, m, n
  <2> HIDE DEF rest
  <2> QED
    BY <1>1, <2>2, <2>3
<1> HIDE DEF rest
<1>5. prefix \o rest = id
  <2>1. prefix \in Seq(Parts) /\ id \in Seq(Parts)
    BY DEF Ids
  <2>2. /\ prefix \o rest \in Seq(Parts) /\ Len(prefix \o rest) = m + (n - m)
        /\ \A k \in 1 .. m + (n - m) : (prefix \o rest)[k] = IF k <= m THEN prefix[k] ELSE rest[k - m]
    BY <1>4, <2>1, ConcatProperties
  <2> HIDE DEF m, n
  <2>3. ASSUME NEW k \in 1 .. n PROVE (prefix \o rest)[k] = id[k]
    <3>1. k \in 1 .. m + (n - m)
      BY <1>1
    <3>2. CASE k <= m
      BY <1>3, <2>2, <3>1, <3>2
    <3>3. CASE ~(k <= m)
      <4>1. k - m \in 1 .. n - m /\ m + (k - m) = k
        BY <1>1, <3>3
      <4> QED
        BY <1>4, <2>2, <3>1, <3>3, <4>1
    <3> QED
      BY <3>2, <3>3
  <2>4. Len(prefix \o rest) = Len(id)
    BY <1>1, <2>2 DEF n
  <2> QED
    BY <2>1, <2>2, <2>3, <2>4, SeqEqual DEF n
<1> QED
  BY <1>4, <1>5 DEF rest, Ids

LEMMA Prepended ==
    ASSUME NEW prefix \in Ids, NEW own \in Ids
    PROVE  /\ prefix \o own \in Ids /\ IsPrefix(prefix, prefix \o own)
           /\ Strip(prefix, prefix \o own) = own
<1> DEFINE m == Len(prefix)
           l == Len(own)
           id == prefix \o own
<1>1. m \in Nat /\ l \in Nat /\ prefix \in Seq(Parts) /\ own \in Seq(Parts)
  BY LenProperties DEF Ids
<1>2. /\ id \in Seq(Parts) /\ Len(id) = m + l
      /\ \A k \in 1 .. m + l : id[k] = IF k <= m THEN prefix[k] ELSE own[k - m]
  BY <1>1, ConcatProperties
<1> HIDE DEF id
<1>3. /\ \A k \in 1 .. m : prefix[k] \in Parts /\ id[k] = prefix[k]
      /\ \A k \in 1 .. m + l : id[k] \in Parts
      /\ \A k \in 1 .. l : own[k] \in Parts /\ id[m + k] = own[k]
  <2>1. \A k \in 1 .. m + l : id[k] \in Parts
    BY <1>2, ElementOfSeq
  <2>2. ASSUME NEW k \in 1 .. l PROVE own[k] \in Parts /\ id[m + k] = own[k]
    <3>1. m + k \in 1 .. m + l /\ ~(m + k <= m) /\ m + k - m = k
      BY <1>1
    <3>2. own[k] \in Parts
      BY <1>1, ElementOfSeq
    <3> QED
      BY <1>2, <3>1, <3>2
  <2>3. ASSUME NEW k \in 1 .. m PROVE prefix[k] \in Parts /\ id[k] = prefix[k]
    <3>1. k \in 1 .. m + l /\ k <= m
      BY <1>1
    <3>2. prefix[k] \in Parts
      BY <1>1, ElementOfSeq
    <3> QED
      BY <1>2, <3>1, <3>2
  <2> QED
    BY <2>1, <2>2, <2>3
<1> HIDE DEF m, l
<1>4. SubSeq(prefix, 1, m) = SubSeq(id, 1, m)
  <2> DEFINE a == SubSeq(prefix, 1, m)
             b == SubSeq(id, 1, m)
  <2>1. /\ 1 \in Int /\ m \in Int /\ \A j \in 1 .. m : prefix[j] \in Parts /\ id[j] \in Parts
    BY <1>1, <1>3
  <2>2. /\ a \in Seq(Parts) /\ Len(a) = IF 1 <= m THEN m - 1 + 1 ELSE 0
        /\ \A k \in 1 .. m - 1 + 1 : a[k] = prefix[1 + k - 1]
    BY <2>1, SubSeqProperties
  <2>3. /\ b \in Seq(Parts) /\ Len(b) = IF 1 <= m THEN m - 1 + 1 ELSE 0
        /\ \A k \in 1 .. m - 1 + 1 : b[k] = id[1 + k - 1]
    BY <2>1, SubSeqProperties
  <2> HIDE DEF a, b
  <2>4. Len(a) = m /\ Len(b) = m
    BY <1>1, <2>2, <2>3
  <2>5. \A k \in 1 .. m : a[k] = b[k]
    BY <1>1, <1>3, <2>2, <2>3
  <2>6. a = b
    BY <2>2, <2>3, <2>4, <2>5, SeqEqual
  <2> QED
    BY <2>6 DEF a, b
<1>5. IsPrefix(prefix, id)
  BY <1>1, <1>2, <1>4 DEF IsPrefix, m
<1>6. Strip(prefix, id) = own
  <2> DEFINE n == Len(id)
             a == SubSeq(id, m + 1, n)
  <2>0. n = m + l
    BY <1>2
  <2> HIDE DEF n
  <2>1. /\ m + 1 \in Int /\ n \in Int /\ \A j \in m + 1 .. n : id[j] \in Parts
    BY <1>1, <1>3, <2>0
  <2>2. /\ a \in Seq(Parts) /\ Len(a) = IF m + 1 <= n THEN n - (m + 1) + 1 ELSE 0
        /\ \A k \in 1 .. n - (m + 1) + 1 : a[k] = id[m + 1 + k - 1]
    BY <2>1, SubSeqProperties
  <2>3. a = Strip(prefix, id)
    BY DEF Strip, m, n
  <2> HIDE DEF a
  <2>4. Len(a) = l
    BY <1>1, <2>0, <2>2
  <2>5. \A k \in 1 .. l : a[k] = own[k]
    BY <1>1, <1>3, <2>0, <2>2
  <2>6. a = own
    BY <1>1, <2>2, <2>4, <2>5, SeqEqual DEF l
  <2> QED
    BY <2>3, <2>6
<1> QED
  BY <1>2, <1>5, <1>6 DEF id, Ids

LEMMA InASequence ==
    ASSUME NEW S, NEW s \in Seq(S)
    PROVE  /\ \A x : In(x, s) => x \in S
           /\ s = <<>> <=> ~\E x : In(x, s)
<1>1. Len(s) \in Nat /\ DOMAIN s = 1 .. Len(s) /\ (s = <<>> <=> Len(s) = 0)
  BY LenProperties, EmptySeq
<1>2. ASSUME s # <<>> PROVE In(s[1], s)
  BY <1>1, <1>2 DEF In
<1>3. ASSUME s = <<>> PROVE ~\E x : In(x, s)
  BY <1>1, <1>3 DEF In
<1>4. \A x : In(x, s) => x \in S
  BY <1>1, ElementOfSeq DEF In
<1> QED
  BY <1>2, <1>3, <1>4

\* A command is given the ids that are its own, without its prefix.
LEMMA Selected ==
    ASSUME Invoked, ids # None, NEW i \in DOMAIN commands
    PROVE  /\ _select_ids_for_command(commands[i], ids) \in Seq(Ids)
           /\ \A id : In(id, _select_ids_for_command(commands[i], ids)) <=>
                          id \in Ids /\ In(commands[i].prefix \o id, ids)
<1> DEFINE prefix == commands[i].prefix
           kept == {id \in Range(ids) : IsPrefix(prefix, id)}
           own == Runner!Keep(ids, kept)
           selected == [k \in DOMAIN own |-> Strip(prefix, own[k])]
<1>1. ids \in Seq(Ids) /\ prefix \in Ids
  BY ConfigsAssumption DEF Invoked
<1>2. own \in Seq(Ids) /\ \A id : In(id, own) <=> In(id, ids) /\ id \in kept
  BY <1>1, Kept
<1>3. \A id : id \in kept <=> In(id, ids) /\ IsPrefix(prefix, id)
  BY DEF Range, In
<1>4. _select_ids_for_command(commands[i], ids) = selected
  BY DEF _select_ids_for_command
<1> HIDE DEF kept, own
<1>5. Len(own) \in Nat /\ DOMAIN own = 1 .. Len(own)
  BY <1>2, LenProperties
<1>6. ASSUME NEW k \in DOMAIN own
      PROVE  /\ own[k] \in Ids /\ IsPrefix(prefix, own[k]) /\ In(own[k], ids)
             /\ selected[k] \in Ids /\ prefix \o selected[k] = own[k]
  <2>1. own[k] \in Ids /\ In(own[k], own)
    BY <1>2, <1>5, ElementOfSeq DEF In
  <2>2. IsPrefix(prefix, own[k]) /\ In(own[k], ids)
    BY <1>2, <1>3, <2>1
  <2> HIDE DEF prefix
  <2> QED
    BY <1>1, <2>1, <2>2, Stripped
<1>7. selected \in Seq(Ids)
  <2>1. selected \in [1 .. Len(own) -> Ids]
    <3> HIDE DEF prefix
    <3> QED
      BY <1>5, <1>6
  <2> HIDE DEF selected
  <2> QED
    BY <1>5, <2>1, SeqDef
<1>8. ASSUME NEW id PROVE In(id, selected) <=> id \in Ids /\ In(prefix \o id, ids)
  <2>1. DOMAIN selected = DOMAIN own
    OBVIOUS
  <2>2. ASSUME In(id, selected) PROVE id \in Ids /\ In(prefix \o id, ids)
    <3>1. PICK k \in DOMAIN own : selected[k] = id
      BY <2>1, <2>2 DEF In
    <3> HIDE DEF prefix, selected
    <3> QED
      BY <1>6, <3>1
  <2>3. ASSUME id \in Ids, In(prefix \o id, ids) PROVE In(id, selected)
    <3> HIDE DEF prefix
    <3>1. IsPrefix(prefix, prefix \o id) /\ Strip(prefix, prefix \o id) = id
      BY <1>1, <2>3, Prepended
    <3>2. In(prefix \o id, own)
      BY <1>2, <1>3, <2>3, <3>1
    <3>3. PICK k \in DOMAIN own : own[k] = prefix \o id
      BY <3>2 DEF In
    <3>4. selected[k] = id
      BY <3>1, <3>3
    <3> QED
      BY <2>1, <3>4 DEF In
  <2> QED
    BY <2>2, <2>3
<1> QED
  BY <1>4, <1>7, <1>8

LEMMA NotEmptyIs ==
    ASSUME NEW s \in Seq(Ids)
    PROVE  /\ NotEmpty(s) \in Seq(Ids)
           /\ \A id : In(id, NotEmpty(s)) <=> In(id, s) /\ id # <<>>
<1>1. /\ NotEmpty(s) \in Seq(Ids)
      /\ \A id : In(id, NotEmpty(s)) <=> In(id, s) /\ id \in Range(s) \ {<<>>}
  BY Kept DEF NotEmpty
<1>2. \A id : id \in Range(s) <=> In(id, s)
  BY DEF Range, In
<1> QED
  BY <1>1, <1>2

\* When ids were requested, the file holds those that are the command's own.
LEMMA ListedIs ==
    ASSUME Invoked, ids # None, NEW i \in DOMAIN commands, commands[i].takes = "file"
    PROVE  /\ Listed(i) # None
           /\ \A id : In(id, Listed(i)) <=> id \in Ids /\ In(commands[i].prefix \o id, ids)
<1> DEFINE s == _select_ids_for_command(commands[i], ids)
<1>1. /\ s \in Seq(Ids)
      /\ \A id : In(id, s) <=> id \in Ids /\ In(commands[i].prefix \o id, ids)
  BY Selected
<1>2. s # None
  BY <1>1, IdsAssumption
<1>3. Listed(i) = s
  BY DEF Listed, IdOption
<1> HIDE DEF s
<1> QED
  BY <1>1, <1>2, <1>3

\* argv names them too, save the empty id.
LEMMA NamesAre ==
    ASSUME Invoked, ids # None, NEW i \in DOMAIN commands, commands[i].takes = "words"
    PROVE  /\ Names(i) = None \/ Names(i) \in Seq(Ids)
           /\ Names(i) # None =>
                 \A id : In(id, Names(i)) <=>
                            id \in Ids \ {<<>>} /\ In(commands[i].prefix \o id, ids)
           /\ Names(i) = None =>
                 \A id \in Ids \ {<<>>} : ~In(commands[i].prefix \o id, ids)
           /\ Names(i) = None /\ ~Skipped(commands[i], ids) => In(commands[i].prefix, ids)
<1> DEFINE s == _select_ids_for_command(commands[i], ids)
           words == NotEmpty(s)
<1>1. /\ s \in Seq(Ids)
      /\ \A id : In(id, s) <=> id \in Ids /\ In(commands[i].prefix \o id, ids)
  BY Selected
<1>2. (~Skipped(commands[i], ids)) => s # <<>>
  BY DEF Skipped
<1>3. commands[i].prefix \in Ids
  BY ConfigsAssumption DEF Invoked
<1>4. Names(i) = IF words = <<>> THEN None ELSE words
  BY DEF Names, IdList
<1> HIDE DEF s
<1>5. words \in Seq(Ids) /\ \A id : In(id, words) <=> In(id, s) /\ id # <<>>
  BY <1>1, NotEmptyIs
<1> HIDE DEF words
<1>6. words # None
  BY <1>5, IdsAssumption
<1>7. words = <<>> <=> ~\E id : In(id, words)
  BY <1>5, InASequence
<1>8. ASSUME Names(i) = None, ~Skipped(commands[i], ids)
      PROVE  In(commands[i].prefix, ids)
  <2>1. words = <<>> /\ s # <<>>
    BY <1>2, <1>4, <1>6, <1>8
  <2>2. PICK id : In(id, s)
    BY <1>1, <2>1, InASequence
  <2>3. id = <<>>
    BY <1>5, <1>7, <2>1, <2>2
  <2>4. In(commands[i].prefix \o <<>>, ids)
    BY <1>1, <2>2, <2>3
  <2>5. commands[i].prefix \o <<>> = commands[i].prefix
    BY <1>3, ConcatEmptySeq DEF Ids
  <2> QED
    BY <2>4, <2>5
<1> QED
  BY <1>1, <1>4, <1>5, <1>6, <1>7, <1>8

\* A name stands for the test that has it as its id, if there is one.
LEMMA NamedIs ==
    ASSUME NEW suite \in Seq(Tests), NEW name
    PROVE  /\ Runner!Named(suite, name) \in Tests
           /\ \/ /\ In(Runner!Named(suite, name), suite)
                 /\ Runner!Named(suite, name).imports /\ Runner!Named(suite, name).id = name
              \/ /\ Runner!Named(suite, name) = Runner!Unfound
                 /\ ~\E t : In(t, suite) /\ t.imports /\ t.id = name
<1> DEFINE there == {t \in Runner!Range(suite) : t.imports /\ t.id = name}
<1>1. Runner!Named(suite, name) = IF there = {} THEN Runner!Unfound ELSE CHOOSE t \in there : TRUE
  BY DEF Runner!Named
<1>2. \A t : t \in there <=> In(t, suite) /\ t.imports /\ t.id = name
  BY DEF Runner!Range, In
<1>3. Runner!Unfound \in Tests
  <2>1. <<Runner!FailedTest>> \in Ids \ {<<>>}
    BY NamesAssumption DEF Ids
  <2> QED
    BY <2>1 DEF Runner!Unfound, Tests, Outcomes
<1> HIDE DEF there
<1>4. CASE there = {}
  BY <1>1, <1>2, <1>3, <1>4
<1>5. CASE there # {}
  <2>1. Runner!Named(suite, name) \in there
    BY <1>1, <1>5
  <2> QED
    BY <1>2, <2>1, InASequence
<1> QED
  BY <1>4, <1>5

\* The tests that are loaded: all, or those that argv names.
LEMMA LoadedIs ==
    ASSUME Invoked, NEW i \in DOMAIN commands, commands[i].program = "runner"
    PROVE  /\ commands[i].suite \in Seq(Tests)
           /\ Runner!Loaded(commands[i].suite, Names(i)) \in Seq(Tests)
           /\ Names(i) = None => Runner!Loaded(commands[i].suite, Names(i)) = commands[i].suite
           /\ Names(i) # None =>
                 \A test : In(test, Runner!Loaded(commands[i].suite, Names(i))) <=>
                    \E name : In(name, Names(i)) /\ test = Runner!Named(commands[i].suite, name)
<1> DEFINE suite == commands[i].suite
           names == Names(i)
           loaded == [k \in DOMAIN names |-> Runner!Named(suite, names[k])]
<1>1. suite \in Seq(Tests)
  BY ConfigsAssumption DEF Invoked
<1>2. CASE names = None
  BY <1>1, <1>2 DEF Runner!Loaded
<1>3. CASE names # None
  <2>1. names \in Seq(Ids)
    BY <1>3, NamesAre DEF Names, IdList
  <2>2. Len(names) \in Nat /\ DOMAIN names = 1 .. Len(names)
    BY <2>1, LenProperties
  <2>3. Runner!Loaded(suite, names) = loaded
    BY <1>3 DEF Runner!Loaded
  <2> HIDE DEF suite, names
  <2>4. loaded \in [1 .. Len(names) -> Tests]
    BY <1>1, <2>2, NamedIs
  <2>5. \A test : In(test, loaded) <=>
           \E name : In(name, names) /\ test = Runner!Named(suite, name)
    BY DEF In
  <2> HIDE DEF loaded
  <2>6. loaded \in Seq(Tests)
    BY <2>2, <2>4, SeqDef
  <2> QED
    BY <1>1, <1>3, <2>3, <2>5, <2>6 DEF suite, names
<1> QED
  BY <1>2, <1>3

\* A command that is asked for a name that stands for no test.
LEMMA UnknownIs ==
    ASSUME Invoked, NEW i \in DOMAIN commands, commands[i].program = "runner", NEW name \in Ids,
           In(commands[i].prefix \o name, ids),
           ~\E t : In(t, commands[i].suite) /\ t.imports /\ t.id = name
    PROVE  AsksForUnknown(commands[i])
<1> DEFINE prefix == commands[i].prefix
           suite == commands[i].suite
<1>1. prefix \in Ids /\ suite \in Seq(Tests)
  BY ConfigsAssumption DEF Invoked
<1>2. PICK k \in DOMAIN ids : ids[k] = prefix \o name
  BY DEF In
<1>3. IsPrefix(prefix, prefix \o name) /\ Strip(prefix, prefix \o name) = name
  <2> HIDE DEF prefix
  <2> QED
    BY <1>1, Prepended
<1>4. ASSUME NEW j \in DOMAIN suite, suite[j].imports, prefix \o suite[j].id = prefix \o name
      PROVE  FALSE
  <2>1. In(suite[j], suite)
    BY DEF In
  <2>2. suite[j].id \in Ids
    <3>1. suite[j] \in Tests
      BY <1>1, <2>1, InASequence
    <3> QED
      BY <3>1 DEF Tests
  <2>3. Strip(prefix, prefix \o suite[j].id) = suite[j].id
    <3> HIDE DEF prefix, suite
    <3> QED
      BY <1>1, <2>2, Prepended
  <2> QED
    BY <1>3, <1>4, <2>1, <2>3
<1>5. ~HasTest(commands[i], ids[k])
  BY <1>2, <1>4 DEF HasTest
<1> QED
  BY <1>2, <1>3, <1>5 DEF AsksForUnknown

LEMMA WantedIsAllowed ==
    ASSUME Invoked, NEW i \in DOMAIN commands, ~Skipped(commands[i], ids),
           commands[i].program = "runner", NEW test, Wanted(i, test)
    PROVE  Allowed(i, commands[i].prefix \o test.id)
<1> SUFFICES ASSUME ids # None, commands[i].takes # "nothing"
             PROVE  \/ In(commands[i].prefix \o test.id, ids)
                    \/ commands[i].takes = "words" /\ In(commands[i].prefix, ids)
                    \/ /\ commands[i].takes = "words" /\ AsksForUnknown(commands[i])
                       /\ test.id = <<Runner!FailedTest>>
  BY DEF Allowed, AsksForAll, In
<1>1. CASE commands[i].takes = "file"
  BY <1>1, ListedIs DEF Wanted
<1>2. CASE commands[i].takes = "words" /\ Names(i) = None
  BY <1>2, NamesAre
<1>3. CASE commands[i].takes = "words" /\ Names(i) # None
  <2>1. PICK name : In(name, Names(i)) /\ test = Runner!Named(commands[i].suite, name)
    BY <1>3, LoadedIs DEF Wanted
  <2>2. name \in Ids /\ In(commands[i].prefix \o name, ids)
    BY <1>3, <2>1, NamesAre
  <2>3. commands[i].suite \in Seq(Tests)
    BY LoadedIs
  <2>4. CASE test.id = name
    BY <2>2, <2>4
  <2>5. CASE /\ test = Runner!Unfound
             /\ ~\E t : In(t, commands[i].suite) /\ t.imports /\ t.id = name
    <3>1. test.id = <<Runner!FailedTest>>
      BY <2>5 DEF Runner!Unfound
    <3>2. AsksForUnknown(commands[i])
      BY <2>2, <2>5, UnknownIs
    <3> QED
      BY <1>3, <3>1, <3>2
  <2> QED
    BY <2>1, <2>3, <2>4, <2>5, NamedIs
<1>4. commands[i].takes \in {"file", "words"}
  BY ConfigsAssumption DEF Invoked
<1> QED
  BY <1>1, <1>2, <1>3, <1>4

\* All events of the item may come from the command whose turn it is.
Harmless(item) ==
    \A k \in DOMAIN Events(item) : Allowed(at, Prefixed(commands[at].prefix, Events(item)[k]).id)

LEMMA OthersAreHarmless ==
    ASSUME NEW item, commands[at].program # "runner"
    PROVE  Harmless(item)
  BY DEF Harmless, Allowed

LEMMA OnePacket ==
    ASSUME NEW packet, NEW kind, kind \in {"packet", "text"},
           kind = "text" => packet = Packet(None, None, "stdout", "text"), NEW item,
           item = IF kind = "text" THEN Other("text") ELSE Item("packet", packet)
    PROVE  DOMAIN Events(item) = {1} /\ Events(item)[1] = packet
<1>1. Events(item) = <<packet>>
  BY DEF Events, Item, Other
<1> QED
  BY <1>1

LEMMA AnonymousIsHarmless ==
    /\ Harmless(Other("text")) /\ Harmless(Other("damaged"))
    /\ Harmless(Item("packet", Runner!ImportErrors))
<1>1. \A prefix, packet : packet.id = None /\ DOMAIN packet = DOMAIN Packet(None, None, None, None) =>
          Prefixed(prefix, packet).id = None
  <2> TAKE prefix, packet
  <2> HAVE packet.id = None /\ DOMAIN packet = DOMAIN Packet(None, None, None, None)
  <2>1. "id" \in DOMAIN packet
    BY DEF Packet
  <2> QED
    BY <2>1 DEF Prefixed
<1>2. Allowed(at, None) /\ Allowed(at, commands[at].prefix \o <<"subunit.parser">>)
  BY DEF Allowed
<1>3. Harmless(Other("text"))
  <2> DEFINE packet == Packet(None, None, "stdout", "text")
  <2>1. DOMAIN Events(Other("text")) = {1} /\ Events(Other("text"))[1] = packet
    BY OnePacket
  <2>2. packet.id = None /\ DOMAIN packet = DOMAIN Packet(None, None, None, None)
    BY DEF Packet
  <2> QED
    BY <1>1, <1>2, <2>1, <2>2 DEF Harmless
<1>4. Harmless(Item("packet", Runner!ImportErrors))
  <2> DEFINE packet == Runner!ImportErrors
  <2>1. DOMAIN Events(Item("packet", packet)) = {1} /\ Events(Item("packet", packet))[1] = packet
    BY OnePacket
  <2>2. packet.id = None /\ DOMAIN packet = DOMAIN Packet(None, None, None, None)
    BY DEF Packet, Runner!ImportErrors, Runner!Event
  <2> QED
    BY <1>1, <1>2, <2>1, <2>2 DEF Harmless
<1>5. Harmless(Other("damaged"))
  <2> DEFINE a == ParserEvent(None, "Packet data")
             b == ParserEvent("fail", "Parser Error")
  <2>1. Events(Other("damaged")) = <<a, b>>
    BY DEF Events, Other, Item
  <2>2. \A prefix : Prefixed(prefix, a).id \in {None, prefix \o <<"subunit.parser">>}
                    /\ Prefixed(prefix, b).id \in {None, prefix \o <<"subunit.parser">>}
    BY DEF Prefixed, ParserEvent, Packet
  <2> HIDE DEF a, b
  <2>3. DOMAIN Events(Other("damaged")) = {1, 2}
        /\ Events(Other("damaged"))[1] = a /\ Events(Other("damaged"))[2] = b
    BY <2>1
  <2> QED
    BY <1>2, <2>2, <2>3 DEF Harmless
<1> QED
  BY <1>3, <1>4, <1>5

LEMMA PrefixedIs ==
    ASSUME NEW id \in Ids, NEW prefix, NEW status
    PROVE  /\ Prefixed(prefix, Runner!Event(id, status)).id = prefix \o id
           /\ Prefixed(prefix, Runner!Event(id, status)).status = status
  BY IdsAssumption DEF Prefixed, Runner!Event

LEMMA TestIsHarmless ==
    ASSUME Invoked, at \in DOMAIN commands, ~Skipped(commands[at], ids),
           commands[at].program = "runner",
           NEW test \in Tests, Wanted(at, test), NEW status
    PROVE  Harmless(Item("packet", Runner!Event(test.id, status)))
<1> DEFINE packet == Runner!Event(test.id, status)
<1>1. DOMAIN Events(Item("packet", packet)) = {1} /\ Events(Item("packet", packet))[1] = packet
  BY OnePacket
<1>2. test.id \in Ids
  BY DEF Tests
<1>3. Prefixed(commands[at].prefix, packet).id = commands[at].prefix \o test.id
  BY <1>2, PrefixedIs
<1> HIDE DEF packet
<1> QED
  BY <1>1, <1>3, WantedIsAllowed DEF Harmless, packet

LEMMA ServedStays ==
    ASSUME UNCHANGED invocation, Sequence(said), Sequence(said'), Starts(said, said'),
           NEW i, NEW id, Served(said, i, id)
    PROVE  Served(said, i, id)'
<1>1. ASSUME NEW j \in DOMAIN said PROVE j \in DOMAIN said' /\ said'[j] = said[j]
  BY SequenceFacts DEF Starts
<1>2. \A statuses : Tells(said, i, id, statuses) => Tells(said', i, id, statuses)
  BY <1>1 DEF Tells
<1>3. StopsEarly(said, i) => StopsEarly(said, i)'
  BY <1>1 DEF StopsEarly, invocation
<1>4. OnlyLists(i)' <=> OnlyLists(i)
  BY DEF OnlyLists, invocation
<1>5. Tells(said, i, id, {"exists"}) => Tells(said, i, id, {"exists"})'
  BY <1>2 DEF Tells
<1>6. Tells(said, i, id, Outcomes) => Tells(said, i, id, Outcomes)'
  BY <1>2 DEF Tells, Outcomes
<1> QED
  BY <1>3, <1>4, <1>5, <1>6 DEF Served

LEMMA WantedStays ==
    ASSUME UNCHANGED invocation, NEW i, NEW test
    PROVE  Wanted(i, test)' <=> Wanted(i, test)
<1>1. Names(i)' = Names(i) /\ Listed(i)' = Listed(i)
  BY DEF Names, Listed, IdList, IdOption, invocation
<1> QED
  BY <1>1 DEF Wanted, invocation, In

LEMMA AllServedStays ==
    ASSUME UNCHANGED invocation, Sequence(said), Sequence(said'), Starts(said, said'),
           NEW i, AllServed(i)
    PROVE  AllServed(i)'
<1>1. ASSUME NEW test \in Tests, Wanted(i, test)', test.imports
      PROVE  Served(said, i, commands[i].prefix \o test.id)'
  <2>1. Served(said, i, commands[i].prefix \o test.id)
    BY <1>1, WantedStays DEF AllServed
  <2> QED
    BY <2>1, ServedStays DEF invocation
<1> QED
  BY <1>1 DEF AllServed

LEMMA AllowedStays ==
    ASSUME UNCHANGED invocation
    PROVE  \A i, id : Allowed(i, id)' <=> Allowed(i, id)
  BY DEF invocation, Allowed, AsksForAll, AsksForUnknown, HasTest

\* What a step of the process does to what has been said.
LEMMA Spoken ==
    ASSUME Ordered, HistoryIsRight, at \in DOMAIN commands, UNCHANGED combine,
           SaysNothing \/ \E item : Says(item) /\ Harmless(item)
    PROVE  HistoryIsRight' /\ Sequence(said) /\ Sequence(said') /\ Starts(said, said')
<1>0. UNCHANGED <<commands, ids, codes, at>> /\ UNCHANGED invocation /\ Sequence(said)
  BY DEF combine, invocation, Ordered
<1>1. CASE said' = said
  <2>1. Starts(said, said') /\ Sequence(said')
    BY <1>0, <1>1, SequenceFacts DEF Starts
  <2>2. \A i \in DOMAIN commands : AllServed(i) => AllServed(i)'
    BY <1>0, <2>1, AllServedStays
  <2>3. \A i, id : Allowed(i, id)' <=> Allowed(i, id)
    BY <1>0, AllowedStays
  <2>4. HistoryIsRight'
    BY <1>0, <1>1, <2>2, <2>3 DEF HistoryIsRight
  <2> QED
    BY <1>0, <2>1, <2>4
<1>2. ASSUME NEW item, Harmless(item), said' = said \o Reported(item)
      PROVE  HistoryIsRight' /\ Sequence(said') /\ Starts(said, said')
  <2> DEFINE r == Report(at, commands[at].prefix, item)
  <2>1. said' = said \o r
    BY <1>2, ReportedIs
  <2>2. DOMAIN r = DOMAIN Events(item) /\ \A k \in DOMAIN r : r[k].from = at /\ Allowed(at, r[k].event.id)
    BY <1>2 DEF Report, Harmless
  <2>3. Sequence(r)
    BY ReportIsASequence
  <2> HIDE DEF r
  <2>4. /\ Sequence(said') /\ Starts(said, said') /\ Len(said') = Len(said) + Len(r)
        /\ \A k \in 1 .. Len(said) : said'[k] = said[k]
        /\ \A k \in 1 .. Len(r) : said'[Len(said) + k] = r[k]
    BY <1>0, <2>1, <2>3, Joined, LandsJoined
  <2>5. /\ Len(said) \in Nat /\ Len(r) \in Nat /\ DOMAIN said = 1 .. Len(said)
        /\ DOMAIN said' = 1 .. Len(said') /\ DOMAIN r = 1 .. Len(r)
    BY <1>0, <2>3, <2>4, SequenceFacts
  <2>6. ASSUME NEW j \in DOMAIN said'
        PROVE  said'[j].from \in DOMAIN commands /\ Allowed(said'[j].from, said'[j].event.id)
    <3>1. CASE j \in 1 .. Len(said)
      BY <2>4, <2>5, <3>1 DEF HistoryIsRight
    <3>2. CASE j \notin 1 .. Len(said)
      <4>1. j - Len(said) \in 1 .. Len(r) /\ Len(said) + (j - Len(said)) = j
        BY <2>4, <2>5, <3>2
      <4>2. said'[j] = r[j - Len(said)]
        BY <2>4, <4>1
      <4> QED
        BY <2>2, <2>5, <4>1, <4>2
    <3> QED
      BY <3>1, <3>2
  <2>7. \A i \in DOMAIN commands : AllServed(i) => AllServed(i)'
    BY <1>0, <2>4, AllServedStays
  <2>8. \A i, id : Allowed(i, id)' <=> Allowed(i, id)
    BY <1>0, AllowedStays
  <2>9. HistoryIsRight'
    BY <1>0, <2>6, <2>7, <2>8 DEF HistoryIsRight
  <2> QED
    BY <2>4, <2>9
<1>3. said' = said \/ \E item : Harmless(item) /\ said' = said \o Reported(item)
  BY DEF SaysNothing, Says
<1> QED
  BY <1>0, <1>1, <1>2, <1>3

\* The loader chooses the tests that are wanted.
LEMMA ChosenIs ==
    ASSUME Invoked, NEW i \in DOMAIN commands, commands[i].program = "runner"
    PROVE  LET chosen == Runner!Chosen(Runner!Loaded(commands[i].suite, Names(i)), Listed(i))
           IN  chosen \in Seq(Tests) /\ \A test : In(test, chosen) <=> Wanted(i, test)
<1> DEFINE loaded == Runner!Loaded(commands[i].suite, Names(i))
           list == Listed(i)
           kept == {t \in Range(loaded) : \E j \in DOMAIN list : list[j] = t.id}
<1>1. loaded \in Seq(Tests)
  BY LoadedIs
<1>2. \A test : Wanted(i, test) <=> In(test, loaded) /\ (list = None \/ In(test.id, list))
  BY DEF Wanted
<1> HIDE DEF loaded, list
<1>3. CASE list = None
  BY <1>1, <1>2, <1>3 DEF Runner!Chosen, loaded, list
<1>4. CASE list # None
  <2>1. Runner!Chosen(loaded, list) = Runner!Keep(loaded, kept)
    BY <1>4 DEF Runner!Chosen, Runner!Range, Range
  <2>2. \A test : test \in kept <=> In(test, loaded) /\ In(test.id, list)
    BY DEF Range, In
  <2> HIDE DEF kept
  <2>3. /\ Runner!Keep(loaded, kept) \in Seq(Tests)
        /\ \A test : In(test, Runner!Keep(loaded, kept)) <=> In(test, loaded) /\ test \in kept
    BY <1>1, Kept
  <2> QED
    BY <1>2, <1>4, <2>1, <2>2, <2>3 DEF loaded, list
<1> QED
  BY <1>3, <1>4

LEMMA ImportableIs ==
    ASSUME NEW s \in Seq(Tests)
    PROVE  /\ Runner!Importable(s) \in Seq(Tests)
           /\ \A test : In(test, Runner!Importable(s)) <=> In(test, s) /\ test.imports
<1>1. /\ Runner!Importable(s) \in Seq(Tests)
      /\ \A test : In(test, Runner!Importable(s)) <=>
             In(test, s) /\ test \in {t \in Range(s) : t.imports}
  BY Kept DEF Runner!Importable, Runner!Range, Range
<1>2. \A test : test \in Range(s) <=> In(test, s)
  BY DEF Range, In
<1> QED
  BY <1>1, <1>2

LEMMA InTail ==
    ASSUME NEW s \in Seq(Tests), s # <<>>
    PROVE  /\ Head(s) \in Tests /\ In(Head(s), s) /\ Tail(s) \in Seq(Tests)
           /\ \A test : In(test, s) <=> test = Head(s) \/ In(test, Tail(s))
<1>1. Sequence(s) /\ Len(s) \in Nat \ {0} /\ DOMAIN s = 1 .. Len(s)
  <2>1. Sequence(s)
    BY SequenceOf
  <2> QED
    BY <2>1, SequenceFacts
<1>2. /\ Tail(s) \in Seq(Tests) /\ Len(Tail(s)) = Len(s) - 1 /\ Head(s) = s[1]
      /\ \A k \in 1 .. Len(s) - 1 : Tail(s)[k] = s[k + 1]
  <2>1. Tail(s) \in Seq(Tests)
    BY HeadTailProperties
  <2> QED
    BY <1>1, <2>1, Tailed
<1> DEFINE h == Head(s)
           t == Tail(s)
<1>3. DOMAIN t = 1 .. Len(s) - 1
  BY <1>2, LenProperties
<1> HIDE DEF h, t
<1>4. h \in Tests /\ In(h, s)
  BY <1>1, <1>2, ElementOfSeq DEF In, h
<1>5. ASSUME NEW test, In(test, s) PROVE test = h \/ In(test, t)
  <2>1. PICK k \in 1 .. Len(s) : s[k] = test
    BY <1>1, <1>5 DEF In
  <2>2. CASE k = 1
    BY <1>2, <2>1, <2>2 DEF h
  <2>3. CASE k # 1
    <3>1. k - 1 \in 1 .. Len(s) - 1 /\ k - 1 + 1 = k
      BY <1>1, <2>1, <2>3
    <3>2. t[k - 1] = test
      BY <1>2, <2>1, <3>1 DEF t
    <3> QED
      BY <1>3, <3>1, <3>2 DEF In
  <2> QED
    BY <2>2, <2>3
<1>6. ASSUME NEW test, In(test, t) PROVE In(test, s)
  <2>1. PICK k \in 1 .. Len(s) - 1 : t[k] = test
    BY <1>3, <1>6 DEF In
  <2>2. s[k + 1] = test /\ k + 1 \in 1 .. Len(s)
    BY <1>1, <1>2, <2>1 DEF t
  <2> QED
    BY <1>1, <2>2 DEF In
<1> QED
  BY <1>2, <1>4, <1>5, <1>6 DEF h, t

\* A packet tells of its test.
LEMMA PacketTells ==
    ASSUME Ordered, ~swallowed, NEW id \in Ids, NEW status, UNCHANGED <<at, commands>>,
           Says(Item("packet", Runner!Event(id, status)))
    PROVE  \E j \in DOMAIN said' :
               /\ said'[j].from = at /\ said'[j].event.id = commands[at].prefix \o id
               /\ said'[j].event.status = status
<1> DEFINE packet == Runner!Event(id, status)
           r == Report(at, commands[at].prefix, Item("packet", packet))
<1>1. said' = said \o r
  BY ReportedIs DEF Says
<1>2. DOMAIN Events(Item("packet", packet)) = {1} /\ Events(Item("packet", packet))[1] = packet
  BY OnePacket
<1>3. /\ DOMAIN r = {1} /\ r[1].from = at /\ r[1].event.id = commands[at].prefix \o id
      /\ r[1].event.status = status
  <2>1. /\ Prefixed(commands[at].prefix, packet).id = commands[at].prefix \o id
        /\ Prefixed(commands[at].prefix, packet).status = status
    BY PrefixedIs
  <2> HIDE DEF packet
  <2> QED
    BY <1>2, <2>1 DEF Report
<1>4. Sequence(r) /\ Sequence(said)
  BY ReportIsASequence DEF Ordered
<1> HIDE DEF r
<1>5. Len(r) \in Nat /\ Len(said) \in Nat /\ DOMAIN r = 1 .. Len(r) /\ 1 \in 1 .. Len(r)
  BY <1>3, <1>4, SequenceFacts
<1>6. said'[Len(said) + 1] = r[1] /\ Len(said') = Len(said) + Len(r) /\ Sequence(said')
  BY <1>1, <1>4, <1>5, Joined
<1>7. Len(said) + 1 \in DOMAIN said'
  BY <1>5, <1>6, SequenceFacts
<1> QED
  BY <1>3, <1>6, <1>7

\* The facts that every step of a command starts from.
LEMMA Underway ==
    ASSUME Consistent, Running
    PROVE  /\ at \in DOMAIN commands /\ ~Skipped(commands[at], ids)
           /\ idfile = _select_ids_for_command(commands[at], ids)
  BY DEF Consistent, Sound, FileIsThere, InRunCommand, Running

LEMMA StaysAllowed ==
    ASSUME UNCHANGED combine, Invoked
    PROVE  /\ UNCHANGED <<at, commands>> /\ UNCHANGED invocation /\ Invoked'
           /\ \A test : Wanted(at, test)' <=> Wanted(at, test)
<1>1. UNCHANGED invocation /\ at' = at
  BY DEF combine
<1>2. \A test, i : Wanted(i, test)' <=> Wanted(i, test)
  BY <1>1, WantedStays
<1> QED
  BY <1>1, <1>2 DEF invocation, Invoked

\* What is awaited still is, or has been served, as long as todo is the same.
LEMMA AwaitsStill ==
    ASSUME UNCHANGED invocation, Sequence(said), Sequence(said'), Starts(said, said'),
           UNCHANGED <<at, todo>>, Awaits(at)
    PROVE  Awaits(at)'
<1>0. at' = at /\ todo' = todo /\ commands' = commands
  BY DEF invocation
<1>1. ASSUME NEW test \in Tests, Wanted(at, test)', test.imports
      PROVE  In(test, todo) \/ Served(said, at, commands[at].prefix \o test.id)'
  <2>1. In(test, todo) \/ Served(said, at, commands[at].prefix \o test.id)
    BY <1>0, <1>1, WantedStays DEF Awaits
  <2> QED
    BY <1>0, <2>1, ServedStays
<1> QED
  BY <1>0, <1>1 DEF Awaits, In

LEMMA NothingAwaited ==
    ASSUME todo = <<>>, Awaits(at)
    PROVE  AllServed(at)
<1>1. \A test : ~In(test, todo)
  BY EmptySeq DEF In
<1> QED
  BY <1>1 DEF Awaits, AllServed

LEMMA RunnerStep ==
    ASSUME Consistent, Ordered, Routed, RunnerWorks \/ RunnerPrints
    PROVE  Routed'
<1>1. phase \in {"load", "list", "run", "test"} /\ UNCHANGED combine /\ Running
  BY DEF RunnerWorks, RunnerPrints, Runner!Load, Runner!ListTest, Runner!ListErrors,
         Runner!ListEnds, Runner!run, Runner!RunEnds, Runner!StartTest, Runner!TestPrints,
         Runner!AddOutcome, Running
<1>2. /\ at \in DOMAIN commands /\ ~Skipped(commands[at], ids) /\ commands[at].program = "runner"
      /\ idfile = _select_ids_for_command(commands[at], ids) /\ ~swallowed /\ Invoked
  BY <1>1, Underway DEF Routed, PhaseFits
<1>3. /\ UNCHANGED <<at, commands>> /\ UNCHANGED invocation /\ Invoked'
      /\ \A test : Wanted(at, test)' <=> Wanted(at, test)
  BY <1>1, <1>2, StaysAllowed
<1>4. HistoryIsRight /\ RunnerIsRight
  BY DEF Routed
<1>5. ASSUME NEW item, Says(item), Harmless(item), item.kind # "short"
      PROVE  HistoryIsRight' /\ Sequence(said) /\ Sequence(said') /\ Starts(said, said') /\ ~swallowed'
  BY <1>1, <1>2, <1>4, <1>5, Spoken DEF Says
<1>6. ASSUME SaysNothing
      PROVE  HistoryIsRight' /\ Sequence(said) /\ Sequence(said') /\ Starts(said, said')
             /\ ~swallowed' /\ said' = said
  BY <1>1, <1>2, <1>4, <1>6, Spoken DEF SaysNothing
<1>7. ASSUME Sequence(said), Sequence(said'), Starts(said, said')
      PROVE  (AllServed(at) => AllServed(at)')
             /\ \A id : Served(said, at, id) => Served(said, at, id)'
  BY <1>3, <1>7, AllServedStays, ServedStays
<1>8. OnlyLists(at)' <=> OnlyLists(at)
  BY <1>3 DEF OnlyLists, invocation
<1>9. ASSUME Runner!Load(Command.suite, IdList(Command), IdOption(Command, idfile),
                         listMode /\ Command.lists, Command.failfast), SaysNothing
      PROVE  Routed'
  <2> DEFINE chosen == Runner!Chosen(Runner!Loaded(commands[at].suite, Names(at)), Listed(at))
  <2>1. /\ plan'.suite = chosen /\ todo' = Runner!Importable(chosen) /\ phase' = "list"
        /\ plan'.listOnly <=> OnlyLists(at)
        /\ plan'.failfast <=> commands[at].failfast
    BY <1>2, <1>9 DEF Runner!Load, Names, Listed, Command, OnlyLists
  <2>2. chosen \in Seq(Tests) /\ \A test : In(test, chosen) <=> Wanted(at, test)
    BY <1>2, ChosenIs
  <2> HIDE DEF chosen
  <2>3. todo' \in Seq(Tests) /\ \A test : In(test, todo') <=> Wanted(at, test) /\ test.imports
    BY <2>1, <2>2, ImportableIs
  <2>4. RunnerIsRight'
    BY <1>3, <1>8, <2>1, <2>2, <2>3 DEF RunnerIsRight, Awaits
  <2>5. PhaseFits'
    BY <1>2, <1>3, <1>6, <1>9, <2>1 DEF PhaseFits
  <2> QED
    BY <1>3, <1>6, <1>9, <2>4, <2>5 DEF Routed
<1>10. ASSUME Runner!ListTest, Says(Item("packet", Runner!Event(Head(todo).id, "exists")))
       PROVE  Routed'
  <2>0. PICK h : h = Head(todo)
    OBVIOUS
  <2> DEFINE item == Item("packet", Runner!Event(h.id, "exists"))
  <2>1. phase = "list" /\ todo # <<>> /\ todo' = Tail(todo) /\ UNCHANGED <<phase, plan>>
    BY <1>10 DEF Runner!ListTest
  <2>2. /\ todo \in Seq(Tests) /\ \A test : In(test, todo) => Wanted(at, test)
    BY <1>4, <2>1 DEF RunnerIsRight
  <2>3. /\ h \in Tests /\ In(h, todo) /\ todo' \in Seq(Tests) /\ h.id \in Ids
        /\ \A test : In(test, todo) <=> test = h \/ In(test, todo')
    BY <2>0, <2>1, <2>2, InTail DEF Tests
  <2>4. Harmless(item) /\ item.kind # "short" /\ Says(item)
    BY <1>2, <1>10, <2>0, <2>2, <2>3, TestIsHarmless DEF Item
  <2>5. OnlyLists(at) => Served(said, at, commands[at].prefix \o h.id)'
    <3>1. \E j \in DOMAIN said' :
              /\ said'[j].from = at /\ said'[j].event.id = commands[at].prefix \o h.id
              /\ said'[j].event.status = "exists"
      BY <1>2, <1>3, <2>3, <2>4, PacketTells
    <3>2. Tells(said, at, commands[at].prefix \o h.id, {"exists"})'
      BY <1>3, <3>1 DEF Tells
    <3> QED
      BY <1>8, <3>2 DEF Served
  <2> HIDE DEF item
  <2>6. /\ HistoryIsRight' /\ ~swallowed'
        /\ \A id : Served(said, at, id) => Served(said, at, id)'
    BY <1>5, <1>7, <2>4
  <2>7. ASSUME OnlyLists(at), NEW test \in Tests, Wanted(at, test), test.imports
        PROVE  In(test, todo') \/ Served(said, at, commands[at].prefix \o test.id)'
    <3>1. In(test, todo) \/ Served(said, at, commands[at].prefix \o test.id)
      BY <1>4, <2>1, <2>7 DEF RunnerIsRight, Awaits
    <3> QED
      BY <1>3, <2>3, <2>5, <2>6, <2>7, <3>1
  <2>8. OnlyLists(at) => Awaits(at)'
    BY <1>3, <2>7 DEF Awaits
  <2>9. RunnerIsRight'
    BY <1>3, <1>4, <1>8, <2>1, <2>2, <2>3, <2>8 DEF RunnerIsRight
  <2>10. PhaseFits'
    BY <1>2, <1>3, <2>1, <2>6 DEF PhaseFits
  <2> QED
    BY <1>3, <2>6, <2>9, <2>10 DEF Routed
<1>11. ASSUME Runner!ListErrors, Says(Item("packet", Runner!ImportErrors))
       PROVE  Routed'
  <2>1. phase' = "exited" /\ code' = 2
    BY <1>11 DEF Runner!ListErrors, Runner!Exits
  <2>2. HistoryIsRight' /\ ~swallowed'
    BY <1>5, <1>11, AnonymousIsHarmless DEF Item
  <2> QED
    BY <1>3, <2>1, <2>2 DEF Routed, RunnerIsRight, PhaseFits
<1>12. ASSUME Runner!ListEnds, SaysNothing
       PROVE  Routed'
  <2>1. phase' = "exited" /\ phase = "list" /\ todo = <<>> /\ OnlyLists(at)
    BY <1>4, <1>12 DEF Runner!ListEnds, Runner!Exits, RunnerIsRight
  <2>2. AllServed(at)'
    BY <1>4, <1>6, <1>7, <1>12, <2>1, NothingAwaited DEF RunnerIsRight
  <2> QED
    BY <1>3, <1>6, <1>12, <2>1, <2>2 DEF Routed, RunnerIsRight, PhaseFits
<1>13. ASSUME Runner!run, SaysNothing
       PROVE  Routed'
  <2>1. /\ phase' = "run" /\ phase = "list" /\ todo = <<>> /\ todo' = plan.suite /\ plan' = plan
        /\ ~OnlyLists(at)
    BY <1>4, <1>13 DEF Runner!run, RunnerIsRight
  <2>2. Awaits(at)'
    BY <1>3, <1>4, <2>1 DEF RunnerIsRight, Awaits
  <2>3. RunnerIsRight'
    BY <1>3, <1>4, <1>8, <2>1, <2>2 DEF RunnerIsRight
  <2>4. PhaseFits'
    BY <1>2, <1>3, <1>6, <1>13, <2>1 DEF PhaseFits
  <2> QED
    BY <1>3, <1>6, <1>13, <2>3, <2>4 DEF Routed
<1>14. ASSUME Runner!RunEnds, SaysNothing
       PROVE  Routed'
  <2>1. phase' = "exited" /\ phase = "run" /\ todo = <<>>
    BY <1>14 DEF Runner!RunEnds, Runner!Exits
  <2>2. AllServed(at)'
    BY <1>4, <1>6, <1>7, <1>14, <2>1, NothingAwaited DEF RunnerIsRight
  <2> QED
    BY <1>3, <1>6, <1>14, <2>1, <2>2 DEF Routed, RunnerIsRight, PhaseFits
<1>15. ASSUME Runner!StartTest, Says(Item("packet", Runner!Event(Head(todo).id, "inprogress")))
       PROVE  Routed'
  <2> DEFINE item == Item("packet", Runner!Event(Head(todo).id, "inprogress"))
  <2>1. phase = "run" /\ todo # <<>> /\ phase' = "test" /\ UNCHANGED <<todo, plan>>
    BY <1>15 DEF Runner!StartTest
  <2>2. /\ Head(todo) \in Tests /\ Wanted(at, Head(todo))
    BY <1>4, <2>1, InTail DEF RunnerIsRight
  <2>3. Harmless(item) /\ item.kind # "short" /\ Says(item)
    BY <1>2, <1>15, <2>2, TestIsHarmless DEF Item
  <2> HIDE DEF item
  <2>4. HistoryIsRight' /\ ~swallowed' /\ Sequence(said) /\ Sequence(said') /\ Starts(said, said')
    BY <1>5, <2>3
  <2>5. RunnerIsRight'
    BY <1>3, <1>4, <1>8, <2>1, <2>4, AwaitsStill DEF RunnerIsRight
  <2>6. PhaseFits'
    BY <1>2, <1>3, <2>1, <2>4 DEF PhaseFits
  <2> QED
    BY <1>3, <2>4, <2>5, <2>6 DEF Routed
<1>16. ASSUME Runner!AddOutcome,
              Says(Item("packet", Runner!Event(Head(todo).id, Runner!OutcomeOf(Head(todo)))))
       PROVE  Routed'
  <2>0. PICK h : h = Head(todo)
    OBVIOUS
  <2> DEFINE item == Item("packet", Runner!Event(h.id, Runner!OutcomeOf(h)))
  <2>1. /\ phase = "test" /\ phase' = "run" /\ plan' = plan
        /\ todo' = <<>> \/ todo' = Tail(todo)
    BY <1>16 DEF Runner!AddOutcome
  <2>2. /\ todo \in Seq(Tests) /\ todo # <<>> /\ \A test : In(test, todo) => Wanted(at, test)
    BY <1>4, <2>1 DEF RunnerIsRight
  <2>3. h \in Tests /\ Wanted(at, h)
    BY <2>0, <2>2, InTail
  <2>4. Harmless(item) /\ item.kind # "short" /\ Says(item)
    BY <1>2, <1>16, <2>0, <2>3, TestIsHarmless DEF Item
  <2>5. \E j \in DOMAIN said' :
            /\ said'[j].from = at /\ said'[j].event.id = commands[at].prefix \o h.id
            /\ said'[j].event.status = Runner!OutcomeOf(h)
    <3>1. h.id \in Ids
      BY <2>3 DEF Tests
    <3> QED
      BY <1>2, <1>3, <1>16, <2>0, <3>1, PacketTells
  <2>6. Runner!OutcomeOf(h) \in Outcomes
    BY <2>3 DEF Runner!OutcomeOf, Tests, Outcomes
  <2> HIDE DEF item
  <2>7. /\ HistoryIsRight' /\ ~swallowed'
        /\ \A id : Served(said, at, id) => Served(said, at, id)'
    BY <1>5, <1>7, <2>4
  <2>8. todo' \in Seq(Tests) /\ \A test : In(test, todo') => In(test, todo)
    <3>1. CASE todo' = <<>>
      <4>1. todo' \in Seq(Tests)
        BY <3>1, EmptySeq
      <4> QED
        BY <3>1, <4>1, InASequence
    <3>2. CASE todo' = Tail(todo)
      BY <2>2, <3>2, InTail
    <3> QED
      BY <2>1, <3>1, <3>2
  <2>9. Awaits(at)'
    <3>1. ~OnlyLists(at)' /\ ~OnlyLists(at) /\ Awaits(at) /\ (plan.failfast <=> commands[at].failfast)
      BY <1>4, <1>8, <2>1 DEF RunnerIsRight
    <3>2. ASSUME NEW test \in Tests, Wanted(at, test), test.imports, test # h
          PROVE  In(test, Tail(todo)) \/ Served(said, at, commands[at].prefix \o test.id)'
      BY <1>3, <2>0, <2>2, <2>7, <3>1, <3>2, InTail DEF Awaits
    <3>3. Served(said, at, commands[at].prefix \o h.id)'
      <4>1. Tells(said, at, commands[at].prefix \o h.id, Outcomes)'
        BY <1>3, <2>5, <2>6 DEF Tells, Outcomes
      <4> QED
        BY <3>1, <4>1 DEF Served
    <3>4. CASE todo' = Tail(todo)
      <4>1. ASSUME NEW test \in Tests, Wanted(at, test), test.imports
            PROVE  In(test, todo') \/ Served(said, at, commands[at].prefix \o test.id)'
        BY <1>3, <3>2, <3>3, <3>4, <4>1
      <4> QED
        BY <1>3, <4>1 DEF Awaits
    <3>5. CASE todo' # Tail(todo)
      <4>1. plan.failfast /\ Runner!OutcomeOf(h) = "fail"
        BY <1>16, <2>0, <3>5 DEF Runner!AddOutcome
      <4>2. StopsEarly(said, at)'
        BY <1>3, <2>5, <3>1, <4>1 DEF StopsEarly
      <4> QED
        BY <1>3, <3>1, <4>2 DEF Awaits, Served
    <3> QED
      BY <3>4, <3>5
  <2>10. RunnerIsRight'
    BY <1>3, <1>4, <1>8, <2>1, <2>2, <2>8, <2>9 DEF RunnerIsRight
  <2>11. PhaseFits'
    BY <1>2, <1>3, <2>1, <2>7 DEF PhaseFits
  <2> QED
    BY <1>3, <2>7, <2>10, <2>11 DEF Routed
<1>17. ASSUME RunnerPrints PROVE Routed'
  <2>1. phase = "test" /\ UNCHANGED <<phase, todo, plan>> /\ Says(Other("text"))
    BY <1>17 DEF RunnerPrints, Runner!TestPrints
  <2>2. Harmless(Other("text")) /\ Other("text").kind # "short"
    BY AnonymousIsHarmless DEF Other, Item
  <2>3. HistoryIsRight' /\ ~swallowed' /\ Sequence(said) /\ Sequence(said') /\ Starts(said, said')
    BY <1>5, <2>1, <2>2
  <2>4. RunnerIsRight'
    BY <1>3, <1>4, <1>8, <2>1, <2>3, AwaitsStill DEF RunnerIsRight
  <2>5. PhaseFits'
    BY <1>2, <1>3, <2>1, <2>3 DEF PhaseFits
  <2> QED
    BY <1>3, <2>3, <2>4, <2>5 DEF Routed
<1> QED
  BY <1>9, <1>10, <1>11, <1>12, <1>13, <1>14, <1>15, <1>16, <1>17 DEF RunnerWorks

\* A step of another program: nothing it says can be wrong, and nothing that the
\* runner announced is undone.
LEMMA OtherProcessStep ==
    ASSUME Consistent, Ordered, Routed, OutputWorks \/ FreeWrites \/ FreeExits \/ Killed
    PROVE  Routed'
<1>1. Running /\ UNCHANGED combine
  BY ProcessStep DEF ProcessWorks
<1>2. at \in DOMAIN commands /\ Invoked /\ HistoryIsRight
  BY <1>1, Underway DEF Routed
<1>3. UNCHANGED <<at, commands>> /\ Invoked'
  BY <1>1, <1>2, StaysAllowed
<1>4. CASE Killed
  <2>1. SaysNothing \/ (Says(Other("damaged")) /\ Harmless(Other("damaged")))
    BY <1>4, AnonymousIsHarmless DEF Killed
  <2>2. HistoryIsRight'
    BY <1>1, <1>2, <2>1, Spoken
  <2>3. phase' = "exited" /\ code' # 0
    BY <1>4 DEF Killed, Output!Exits
  <2> QED
    BY <1>3, <2>2, <2>3 DEF Routed, RunnerIsRight, PhaseFits
<1>5. CASE OutputWorks \/ FreeWrites \/ FreeExits
  <2>1. phase \in {"parse", "open", "generate", "free"}
    BY <1>5 DEF OutputWorks, FreeWrites, FreeExits, Output!output_main, Output!OpenFile,
                Output!WritePacket
  <2>2. commands[at].program # "runner"
    BY <2>1 DEF Routed, PhaseFits
  <2>3. SaysNothing \/ \E item : Says(item) /\ Harmless(item)
    BY <1>5, <2>2, OthersAreHarmless DEF OutputWorks, FreeWrites, FreeExits
  <2>4. HistoryIsRight'
    BY <1>1, <1>2, <2>3, Spoken
  <2>5. PhaseFits'
    <3>1. CASE OutputWorks
      <4>1. phase \in {"parse", "open", "generate"} /\ phase' \in {"open", "generate", "exited"}
        BY <3>1 DEF OutputWorks, Output!output_main, Output!OpenFile, Output!WritePacket, Output!Exits
      <4>2. commands[at].program = "output"
        BY <4>1 DEF Routed, PhaseFits
      <4> QED
        BY <1>3, <4>1, <4>2 DEF PhaseFits
    <3>2. CASE FreeWrites \/ FreeExits
      <4>1. phase = "free" /\ phase' \in {"free", "exited"}
        BY <3>2 DEF FreeWrites, FreeExits, Output!Exits
      <4> QED
        BY <1>3, <4>1 DEF PhaseFits, Routed
    <3> QED
      BY <1>5, <3>1, <3>2
  <2>6. RunnerIsRight'
    <3>1. phase' \in {"open", "generate", "exited", "free"}
      BY <1>5 DEF OutputWorks, FreeWrites, FreeExits, Output!output_main, Output!OpenFile,
                  Output!WritePacket, Output!Exits
    <3> QED
      BY <1>3, <2>2, <3>1 DEF RunnerIsRight
  <2> QED
    BY <1>3, <2>4, <2>5, <2>6 DEF Routed
<1> QED
  BY <1>4, <1>5

\* What has been said, and by whom, does not depend on combine.
LEMMA HistoryStays ==
    ASSUME Routed, UNCHANGED <<invocation, said>>
    PROVE  /\ Invoked' /\ \A i : AllServed(i)' <=> AllServed(i)
           /\ \A i, test : Wanted(i, test)' <=> Wanted(i, test)
           /\ codes' = codes => HistoryIsRight'
<1>1. \A i, test : Wanted(i, test)' <=> Wanted(i, test)
  <2> TAKE i
  <2> QED
    BY WantedStays
<1>2. \A i : AllServed(i)' <=> AllServed(i)
  <2>1. \A i, id : Served(said, i, id)' <=> Served(said, i, id)
    BY DEF Served, Tells, StopsEarly, OnlyLists, Outcomes, invocation
  <2> QED
    BY <1>1, <2>1 DEF AllServed, invocation
<1>3. \A i, id : Allowed(i, id)' <=> Allowed(i, id)
  BY AllowedStays
<1>4. Invoked'
  BY DEF Routed, Invoked, invocation
<1>5. codes' = codes => HistoryIsRight'
  BY <1>2, <1>3 DEF Routed, HistoryIsRight, invocation
<1> QED
  BY <1>1, <1>2, <1>4, <1>5

LEMMA CombineStep ==
    ASSUME Consistent, Ordered, Routed, Combines \/ OutputBreaks \/ UNCHANGED vars
    PROVE  Routed'
<1>1. UNCHANGED <<invocation, said>> /\ UNCHANGED <<commands, ids>>
  BY DEF Combines, run_command, Skip, Finish, Start, Popen, PopenRaises, Read, ReadShort, Swallow,
         SwallowEnds, Eof, Wait, OutputBreaks, vars, invocation, process, loop
<1>2. /\ Invoked' /\ \A i : AllServed(i)' <=> AllServed(i)
      /\ \A i, test : Wanted(i, test)' <=> Wanted(i, test)
      /\ codes' = codes => HistoryIsRight'
  BY <1>1, HistoryStays
<1>3. CASE Skip \/ Finish \/ Start \/ PopenRaises
  <2>1. phase' = "none" /\ codes' = codes
    BY <1>3 DEF Skip, Finish, Start, PopenRaises, Consistent, FileIsThere, Busy
  <2> QED
    BY <1>2, <2>1 DEF Routed, PhaseFits, RunnerIsRight
<1>4. CASE Popen
  <2>1. /\ codes' = codes /\ pc = "popen" /\ UNCHANGED <<at, swallowed>>
        /\ phase' = CASE commands[at].program = "runner" -> "load"
                      [] commands[at].program = "output" -> "parse"
                      [] OTHER -> "free"
    BY <1>4 DEF Popen, Command
  <2>2. ~swallowed
    BY <2>1 DEF Ordered
  <2> QED
    BY <1>1, <1>2, <2>1, <2>2 DEF Routed, PhaseFits, RunnerIsRight
<1>5. CASE Wait
  <2>1. /\ phase' = "none" /\ phase = "exited" /\ codes' = codes \cup {<<at, code>>}
    BY <1>5 DEF Wait, NoProcess
  <2>2. ASSUME NEW i \in DOMAIN commands, commands[i].program = "runner", <<i, 0>> \in codes'
        PROVE  AllServed(i)
    <3>1. CASE <<i, 0>> \in codes
      BY <2>2, <3>1 DEF Routed, HistoryIsRight
    <3>2. CASE i = at /\ code = 0
      BY <2>1, <2>2, <3>2 DEF Routed, RunnerIsRight
    <3> QED
      BY <2>1, <2>2, <3>1, <3>2
  <2>3. \A i, id : Allowed(i, id)' <=> Allowed(i, id)
    BY <1>1, AllowedStays
  <2>4. HistoryIsRight'
    BY <1>1, <1>2, <2>2, <2>3 DEF Routed, HistoryIsRight
  <2> QED
    BY <1>2, <2>1, <2>4 DEF Routed, PhaseFits, RunnerIsRight
<1>6. CASE Read \/ ReadShort \/ Swallow \/ SwallowEnds \/ Eof \/ OutputBreaks \/ UNCHANGED vars
  <2>1. UNCHANGED <<phase, code, plan, todo, swallowed, codes, at>>
    BY <1>6 DEF Read, ReadShort, Swallow, SwallowEnds, Eof, OutputBreaks, vars, process, loop, child
  <2>2. PhaseFits'
    BY <1>1, <2>1 DEF Routed, PhaseFits
  <2>3. (OnlyLists(at)' <=> OnlyLists(at)) /\ (Awaits(at)' <=> Awaits(at))
    <3>1. OnlyLists(at)' <=> OnlyLists(at)
      BY <1>1, <2>1 DEF OnlyLists, invocation
    <3>2. \A id : Served(said, at, id)' <=> Served(said, at, id)
      BY <1>1, <2>1 DEF Served, Tells, StopsEarly, OnlyLists, Outcomes, invocation
    <3> QED
      BY <1>1, <1>2, <2>1, <3>1, <3>2 DEF Awaits, In
  <2>4. RunnerIsRight'
    BY <1>1, <1>2, <2>1, <2>3 DEF Routed, RunnerIsRight, In
  <2> QED
    BY <1>2, <2>1, <2>2, <2>4 DEF Routed
<1> QED
  BY <1>3, <1>4, <1>5, <1>6 DEF Combines, run_command

LEMMA RoutedStep == Consistent /\ Ordered /\ Routed /\ [Next]_vars => Routed'
  BY RunnerStep, OtherProcessStep, CombineStep DEF Next, ProcessWorks

\* What is requested is a sequence of ids, if anything is.
LEMMA RequestedIs ==
    ASSUME NEW lines \in Lists, NEW arguments \in Arguments
    PROVE  RequestedIds(lines, arguments) = None \/ RequestedIds(lines, arguments) \in Seq(Ids)
<1>1. arguments \in Seq(Ids) /\ (lines = None \/ lines \in Seq(Ids))
  BY IdsAssumption
<1>2. CASE lines # None
  <2>1. _read_id_list(lines) \in Seq(Ids)
    BY <1>1, <1>2, NotEmptyIs DEF _read_id_list
  <2>2. _read_id_list(lines) \o arguments \in Seq(Ids)
    BY <1>1, <2>1, ConcatProperties
  <2> QED
    BY <1>2, <2>2 DEF RequestedIds
<1> QED
  BY <1>1, <1>2 DEF RequestedIds

LEMMA InitIsRouted == Init => Routed
<1> SUFFICES ASSUME Init PROVE Routed
  OBVIOUS
<1>1. Invoked
  BY RequestedIs DEF Init, Invoked
<1>2. phase = "none" /\ codes = {} /\ said = <<>>
  BY DEF Init
<1> QED
  BY <1>1, <1>2 DEF Routed, PhaseFits, RunnerIsRight, HistoryIsRight

THEOREM AlwaysRouted == Spec => []Routed
  BY InitIsRouted, RoutedStep, AlwaysConsistent, AlwaysOrdered, PTL DEF Spec

\* Once combine has succeeded, requested tests have their outcomes from the commands
\* they belong to, or are listed by them, and no command that takes ids reports
\* another test.
THEOREM RequestsReachTheirCommands == Spec => []RequestsAreRouted
<1>1. Consistent /\ Ordered /\ Routed => OnlyRequestedAreRun
  <2> SUFFICES ASSUME Consistent, Ordered, Routed, ids # None, NEW j \in DOMAIN merged
               PROVE  Allowed(merged[j].from, merged[j].event.id)
    BY DEF OnlyRequestedAreRun, Allowed
  <2>1. j \in DOMAIN said /\ said[j] = merged[j]
    BY SequenceFacts DEF Ordered, Starts
  <2> QED
    BY <2>1 DEF Routed, HistoryIsRight
<1>2. Consistent /\ Ordered /\ Routed => RequestedAreRun
  <2> SUFFICES ASSUME Consistent, Ordered, Routed, pc = "ended", exit = 0, ids # None,
                      NEW i \in DOMAIN commands, NEW k \in DOMAIN ids,
                      HasTest(commands[i], ids[k])
               PROVE  Served(merged, i, ids[k])
    BY DEF RequestedAreRun
  <2>1. /\ commands[i].program = "runner" /\ Invoked /\ ~raised
        /\ Skipped(commands[i], ids) \/ <<i, 0>> \in codes
    BY DEF HasTest, Consistent, ExitTellsFailure, Routed
  <2>2. PICK test \in Tests :
            /\ In(test, commands[i].suite) /\ test.imports
            /\ commands[i].prefix \o test.id = ids[k]
    <3>1. PICK n \in DOMAIN commands[i].suite :
              /\ commands[i].suite[n].imports
              /\ commands[i].prefix \o commands[i].suite[n].id = ids[k]
      BY DEF HasTest
    <3>2. commands[i].suite \in Seq(Tests)
      BY <2>1, LoadedIs
    <3>3. In(commands[i].suite[n], commands[i].suite)
      BY DEF In
    <3>4. commands[i].suite[n] \in Tests
      BY <3>2, <3>3, InASequence
    <3> QED
      BY <3>1, <3>3, <3>4
  <2>3. test.id \in Ids \ {<<>>} /\ In(commands[i].prefix \o test.id, ids)
    BY <2>2 DEF Tests, In
  <2>4. ~Skipped(commands[i], ids)
    <3>1. /\ In(test.id, _select_ids_for_command(commands[i], ids))
          /\ _select_ids_for_command(commands[i], ids) \in Seq(Ids)
      BY <2>1, <2>3, Selected
    <3> QED
      BY <3>1, InASequence DEF Skipped
  <2>5. PICK t \in Tests : Wanted(i, t) /\ t.imports /\ t.id = test.id
    <3>1. CASE commands[i].takes # "words"
      <4>1. Names(i) = None
        BY <3>1 DEF Names, IdList
      <4>2. Listed(i) = None \/ In(test.id, Listed(i))
        <5>1. CASE commands[i].takes = "file"
          BY <2>1, <2>3, <5>1, ListedIs
        <5>2. CASE commands[i].takes # "file"
          BY <5>2 DEF Listed, IdOption
        <5> QED
          BY <5>1, <5>2
      <4> QED
        BY <2>1, <2>2, <4>1, <4>2, LoadedIs DEF Wanted
    <3>2. CASE commands[i].takes = "words"
      <4> DEFINE t == Runner!Named(commands[i].suite, test.id)
      <4>1. Names(i) # None /\ In(test.id, Names(i))
        BY <2>1, <2>3, <3>2, NamesAre
      <4>2. Listed(i) = None
        BY <3>2 DEF Listed, IdOption
      <4>3. In(t, Runner!Loaded(commands[i].suite, Names(i)))
        BY <2>1, <4>1, LoadedIs
      <4>4. t \in Tests /\ t.imports /\ t.id = test.id
        BY <2>1, <2>2, LoadedIs, NamedIs
      <4> HIDE DEF t
      <4>5. Wanted(i, t)
        BY <4>2, <4>3 DEF Wanted
      <4> QED
        BY <4>4, <4>5
    <3> QED
      BY <3>1, <3>2
  <2>6. Served(said, i, ids[k])
    BY <2>1, <2>2, <2>4, <2>5 DEF Routed, HistoryIsRight, AllServed
  <2>7. said = merged
    BY <2>1, SameWhenAsLong DEF Ordered, Settles
  <2> QED
    BY <2>6, <2>7
<1> QED
  BY <1>1, <1>2, AlwaysConsistent, AlwaysOrdered, AlwaysRouted, PTL DEF RequestsAreRouted
-------------------------------------------------------------------------------
(* Attachments arrive whole. *)

\* A command that attaches a file.
Attaching(i) ==
    i \in DOMAIN commands /\ commands[i].program = "output" /\ commands[i].line.attach # None
Hunks(i) == HunksOf(commands[i].line)

\* Its packets, and how many there are among the first j events.
Piece(s, i, k) == s[k].from = i /\ s[k].event.file \notin ParserFiles
Count(s, i, j) == Cardinality({k \in 1 .. j : Piece(s, i, k)})

PieceIsRight(s, i, j) ==
    LET n == Count(s, i, j)
    IN  /\ n <= Len(Hunks(i)) /\ s[j].event.bytes = Hunks(i)[n]
        /\ s[j].event.eof <=> n = Len(Hunks(i))
        /\ s[j].event.status \in Output!FinalActions => n = Len(Hunks(i))

TellsAction(s, i) ==
    \E j \in DOMAIN s : Piece(s, i, j) /\ s[j].event.status = commands[i].line.action
Whole(i) == Count(said, i, Len(said)) = Len(Hunks(i)) /\ TellsAction(said, i)

\* The first n hunks have been written: this one and the next are at hand, the
\* others unread.
AtHunk(n) ==
    /\ line = commands[at].line /\ n < Len(Hunks(at)) /\ (first <=> n = 0)
    /\ this = Hunks(at)[n + 1]
    /\ unread \in Seq(STRING \ {Output!Nothing})
    /\ n + 1 = Len(Hunks(at)) => next = Output!Nothing /\ unread = <<>>
    /\ n + 1 < Len(Hunks(at)) =>
          /\ next = Hunks(at)[n + 2] /\ Len(unread) = Len(Hunks(at)) - (n + 2)
          /\ \A k \in 1 .. Len(unread) : unread[k] = Hunks(at)[n + 2 + k]
    /\ commands[at].line.action \notin Output!FinalActions /\ n > 0 => TellsAction(said, at)

\* Who has spoken: nobody out of turn.
TakesTurns ==
    /\ \A j \in DOMAIN said : said[j].from \in Nat /\ said[j].from <= at
    /\ pc \in {"next", "popen"} \/ phase \in {"parse", "open"} =>
          \A j \in DOMAIN said : said[j].from < at
    /\ pc # "ended" => \A j \in DOMAIN said : j > Len(merged) => said[j].from = at

OutputIsRight ==
    /\ phase \in {"parse", "open", "generate"} => commands[at].program = "output" /\ ~swallowed
    /\ Attaching(at) =>
          /\ phase = "open" => line = commands[at].line
          /\ phase = "generate" => AtHunk(Count(said, at, Len(said)))
          /\ phase = "exited" /\ code = 0 => Whole(at)

PiecesAreRight ==
    \A i : Attaching(i) =>
        /\ \A j \in DOMAIN said : Piece(said, i, j) => PieceIsRight(said, i, j)
        /\ <<i, 0>> \in codes => Whole(i)

Delivered == TakesTurns /\ OutputIsRight /\ PiecesAreRight

LEMMA Counted1 ==
    ASSUME NEW s, NEW i, NEW n \in Nat
    PROVE  /\ Count(s, i, n) \in Nat /\ Count(s, i, 0) = 0
           /\ Count(s, i, n + 1) =
                 IF Piece(s, i, n + 1) THEN Count(s, i, n) + 1 ELSE Count(s, i, n)
<1> DEFINE A == {k \in 1 .. n : Piece(s, i, k)}
           B == {k \in 1 .. n + 1 : Piece(s, i, k)}
           Z == {k \in 1 .. 0 : Piece(s, i, k)}
<1>1. IsFiniteSet(A)
  <2>1. IsFiniteSet(1 .. n) /\ A \subseteq 1 .. n
    BY FS_Interval
  <2> QED
    BY <2>1, FS_Subset
<1>2. Cardinality(A) \in Nat
  BY <1>1, FS_CardinalityType
<1>3. Z = {}
  OBVIOUS
<1>4. CASE Piece(s, i, n + 1)
  <2>1. B = A \cup {n + 1} /\ n + 1 \notin A
    BY <1>4
  <2> HIDE DEF A, B
  <2>2. Cardinality(B) = Cardinality(A) + 1
    BY <1>1, <2>1, FS_AddElement
  <2> QED
    BY <1>2, <1>3, <1>4, <2>2, FS_EmptySet DEF Count, A, B
<1>5. CASE ~Piece(s, i, n + 1)
  <2>1. B = A
    BY <1>5
  <2> HIDE DEF A, B
  <2> QED
    BY <1>2, <1>3, <1>5, <2>1, FS_EmptySet DEF Count, A, B
<1> QED
  BY <1>4, <1>5

LEMMA CountAlike ==
    ASSUME NEW s, NEW t, NEW i, NEW n \in Nat, \A k \in 1 .. n : s[k] = t[k]
    PROVE  Count(s, i, n) = Count(t, i, n)
<1>1. {k \in 1 .. n : Piece(s, i, k)} = {k \in 1 .. n : Piece(t, i, k)}
  BY DEF Piece
<1> QED
  BY <1>1 DEF Count

LEMMA CountQuiet ==
    ASSUME NEW s, NEW i, NEW m \in Nat, NEW n \in Nat, m <= n, \A k \in m + 1 .. n : ~Piece(s, i, k)
    PROVE  Count(s, i, n) = Count(s, i, m)
<1>1. \A k \in 1 .. n : Piece(s, i, k) => k \in 1 .. m
  OBVIOUS
<1>2. {k \in 1 .. n : Piece(s, i, k)} = {k \in 1 .. m : Piece(s, i, k)}
  BY <1>1
<1> QED
  BY <1>2 DEF Count

\* A longer sequence with no more pieces of the command i.
LEMMA NothingNew ==
    ASSUME NEW s, NEW t, Sequence(s), Sequence(t), Starts(s, t), NEW i,
           \A k \in Len(s) + 1 .. Len(t) : ~Piece(t, i, k)
    PROVE  /\ Count(t, i, Len(t)) = Count(s, i, Len(s))
           /\ TellsAction(t, i) <=> TellsAction(s, i)
           /\ \A j \in DOMAIN t : Piece(t, i, j) =>
                 j \in DOMAIN s /\ Piece(s, i, j) /\ t[j] = s[j] /\ Count(t, i, j) = Count(s, i, j)
<1>1. /\ Len(s) \in Nat /\ Len(t) \in Nat /\ Len(s) <= Len(t)
      /\ DOMAIN s = 1 .. Len(s) /\ DOMAIN t = 1 .. Len(t) /\ \A k \in 1 .. Len(s) : t[k] = s[k]
  BY SequenceFacts DEF Starts
<1>2. Count(t, i, Len(t)) = Count(s, i, Len(s))
  <2>1. Count(t, i, Len(t)) = Count(t, i, Len(s))
    BY <1>1, CountQuiet
  <2>2. Count(t, i, Len(s)) = Count(s, i, Len(s))
    BY <1>1, CountAlike
  <2> QED
    BY <2>1, <2>2
<1>3. ASSUME NEW j \in DOMAIN t, Piece(t, i, j)
      PROVE  j \in DOMAIN s /\ Piece(s, i, j) /\ t[j] = s[j] /\ Count(t, i, j) = Count(s, i, j)
  <2>1. j \in 1 .. Len(s) /\ j \in Nat
    BY <1>1, <1>3
  <2>2. t[j] = s[j] /\ \A k \in 1 .. j : t[k] = s[k]
    BY <1>1, <2>1
  <2>3. Count(t, i, j) = Count(s, i, j)
    BY <2>1, <2>2, CountAlike
  <2> QED
    BY <1>1, <1>3, <2>1, <2>2, <2>3 DEF Piece
<1>4. ASSUME NEW j \in DOMAIN s, Piece(s, i, j)
      PROVE  j \in DOMAIN t /\ Piece(t, i, j) /\ t[j] = s[j]
  BY <1>1, <1>4 DEF Piece
<1>5. TellsAction(t, i) <=> TellsAction(s, i)
  BY <1>3, <1>4 DEF TellsAction
<1> QED
  BY <1>2, <1>3, <1>5

\* Items without a packet of an attachment.
Unpieced(item) ==
    commands[at].program = "output" =>
        \A k \in DOMAIN Events(item) :
            Prefixed(commands[at].prefix, Events(item)[k]).file \in ParserFiles

LEMMA DamagedIsUnpieced == Unpieced(Other("damaged"))
<1> DEFINE a == ParserEvent(None, "Packet data")
           b == ParserEvent("fail", "Parser Error")
<1>1. Events(Other("damaged")) = <<a, b>>
  BY DEF Events, Other, Item
<1>2. \A prefix : Prefixed(prefix, a).file \in ParserFiles /\ Prefixed(prefix, b).file \in ParserFiles
  BY DEF Prefixed, ParserEvent, Packet, ParserFiles
<1> HIDE DEF a, b
<1>3. /\ DOMAIN Events(Other("damaged")) = {1, 2}
      /\ Events(Other("damaged"))[1] = a /\ Events(Other("damaged"))[2] = b
  BY <1>1
<1> QED
  BY <1>2, <1>3 DEF Unpieced

\* Who has spoken, after a step of the process.
LEMMA SpeaksInTurn ==
    ASSUME Consistent, Ordered, TakesTurns, Running, UNCHANGED combine,
           phase' \notin {"parse", "open"} \/ said' = said,
           phase' \in {"parse", "open"} => phase \in {"parse", "open"},
           SaysNothing \/ \E item : Says(item)
    PROVE  /\ TakesTurns' /\ Sequence(said) /\ Sequence(said') /\ Starts(said, said')
           /\ \A k \in Len(said) + 1 .. Len(said') : said'[k].from = at
<1>0. /\ at' = at /\ merged' = merged /\ pc' = pc /\ at \in Nat /\ pc \notin {"next", "popen", "ended"}
      /\ Sequence(said)
  BY DEF combine, Running, Consistent, Sound, FileIsThere, Busy, Ordered
<1>1. CASE said' = said
  <2>1. Starts(said, said')
    BY <1>0, <1>1, SequenceFacts DEF Starts
  <2>2. TakesTurns'
    BY <1>0, <1>1 DEF TakesTurns
  <2>3. Len(said) \in Nat
    BY <1>0, SequenceFacts
  <2> QED
    BY <1>0, <1>1, <2>1, <2>2, <2>3
<1>2. ASSUME NEW item, said' = said \o Reported(item), phase' \notin {"parse", "open"}
      PROVE  /\ TakesTurns' /\ Sequence(said') /\ Starts(said, said')
             /\ \A k \in Len(said) + 1 .. Len(said') : said'[k].from = at
  <2> DEFINE r == Report(at, commands[at].prefix, item)
  <2>1. said' = said \o r
    BY <1>2, ReportedIs
  <2>2. \A k \in DOMAIN r : r[k].from = at
    BY DEF Report
  <2>3. Sequence(r)
    BY ReportIsASequence
  <2> HIDE DEF r
  <2>4. /\ Sequence(said') /\ Starts(said, said') /\ Len(said') = Len(said) + Len(r)
        /\ \A k \in 1 .. Len(said) : said'[k] = said[k]
        /\ \A k \in 1 .. Len(r) : said'[Len(said) + k] = r[k]
    BY <1>0, <2>1, <2>3, Joined, LandsJoined
  <2>5. /\ Len(said) \in Nat /\ Len(r) \in Nat /\ DOMAIN said = 1 .. Len(said)
        /\ DOMAIN said' = 1 .. Len(said') /\ DOMAIN r = 1 .. Len(r)
    BY <1>0, <2>3, <2>4, SequenceFacts
  <2>6. ASSUME NEW k \in Len(said) + 1 .. Len(said') PROVE said'[k].from = at
    <3>1. k - Len(said) \in 1 .. Len(r) /\ Len(said) + (k - Len(said)) = k
      BY <2>4, <2>5
    <3>2. said'[k] = r[k - Len(said)]
      BY <2>4, <3>1
    <3> QED
      BY <2>2, <2>5, <3>1, <3>2
  <2>7. \A j \in DOMAIN said' : j \in DOMAIN said \/ j \in Len(said) + 1 .. Len(said')
    BY <2>4, <2>5
  <2>8. TakesTurns'
    <3>1. \A j \in DOMAIN said' : said'[j].from \in Nat /\ said'[j].from <= at
      BY <1>0, <2>4, <2>5, <2>6, <2>7 DEF TakesTurns
    <3>2. \A j \in DOMAIN said' : j > Len(merged) => said'[j].from = at
      BY <1>0, <2>4, <2>5, <2>6, <2>7 DEF TakesTurns
    <3> QED
      BY <1>0, <1>2, <3>1, <3>2 DEF TakesTurns
  <2> QED
    BY <2>4, <2>6, <2>8
<1>3. said' = said \/ \E item : said' = said \o Reported(item)
  BY DEF SaysNothing, Says
<1> QED
  BY <1>0, <1>1, <1>2, <1>3

LEMMA NoNewPieces ==
    ASSUME Sequence(said), \A k \in Len(said) + 1 .. Len(said') : said'[k].from = at,
           said' = said \/ \E item : said' = said \o Reported(item) /\ Unpieced(item),
           NEW i, Attaching(i)
    PROVE  \A k \in Len(said) + 1 .. Len(said') : ~Piece(said', i, k)
<1>1. CASE said' = said
  <2>1. Len(said) \in Nat
    BY SequenceFacts
  <2> QED
    BY <1>1, <2>1
<1>2. CASE commands[at].program # "output"
  <2>1. i # at
    BY <1>2 DEF Attaching
  <2> QED
    BY <2>1 DEF Piece
<1>3. ASSUME commands[at].program = "output", NEW item, said' = said \o Reported(item), Unpieced(item)
      PROVE  \A k \in Len(said) + 1 .. Len(said') : ~Piece(said', i, k)
  <2> DEFINE r == Report(at, commands[at].prefix, item)
  <2>1. said' = said \o r /\ Sequence(r)
    BY <1>3, ReportedIs, ReportIsASequence
  <2>2. \A k \in DOMAIN r : r[k].event.file \in ParserFiles
    BY <1>3 DEF Report, Unpieced
  <2> HIDE DEF r
  <2>3. /\ Len(said') = Len(said) + Len(r) /\ \A k \in 1 .. Len(r) : said'[Len(said) + k] = r[k]
        /\ Len(said) \in Nat /\ Len(r) \in Nat /\ DOMAIN r = 1 .. Len(r)
    BY <2>1, Joined, SequenceFacts
  <2>4. ASSUME NEW k \in Len(said) + 1 .. Len(said') PROVE said'[k].event.file \in ParserFiles
    <3>1. k - Len(said) \in 1 .. Len(r) /\ Len(said) + (k - Len(said)) = k
      BY <2>3
    <3>2. said'[k] = r[k - Len(said)]
      BY <2>3, <3>1
    <3> QED
      BY <2>2, <2>3, <3>1, <3>2
  <2> QED
    BY <2>4 DEF Piece
<1> QED
  BY <1>1, <1>2, <1>3

LEMMA SameCommands ==
    ASSUME commands' = commands
    PROVE  \A i : (Attaching(i)' <=> Attaching(i)) /\ Hunks(i)' = Hunks(i)
  BY DEF Attaching, Hunks, HunksOf

LEMMA PiecesStay ==
    ASSUME PiecesAreRight, UNCHANGED <<commands, codes>>,
           Sequence(said), Sequence(said'), Starts(said, said'),
           \A i : Attaching(i) => \A k \in Len(said) + 1 .. Len(said') : ~Piece(said', i, k)
    PROVE  PiecesAreRight' /\ \A i : Attaching(i) => (Whole(i) => Whole(i)')
<1>1. ASSUME NEW i, Attaching(i)
      PROVE  /\ \A j \in DOMAIN said' : Piece(said', i, j) => PieceIsRight(said, i, j)'
             /\ Whole(i) => Whole(i)'
  <2>1. /\ Count(said', i, Len(said')) = Count(said, i, Len(said))
        /\ TellsAction(said', i) <=> TellsAction(said, i)
        /\ \A j \in DOMAIN said' : Piece(said', i, j) =>
              /\ j \in DOMAIN said /\ Piece(said, i, j) /\ said'[j] = said[j]
              /\ Count(said', i, j) = Count(said, i, j)
    BY <1>1, NothingNew
  <2>2. Hunks(i)' = Hunks(i)
    BY SameCommands
  <2>3. TellsAction(said, i)' <=> TellsAction(said', i)
    BY DEF TellsAction
  <2>4. Whole(i) => Whole(i)'
    BY <2>1, <2>2, <2>3 DEF Whole
  <2>5. ASSUME NEW j \in DOMAIN said', Piece(said', i, j)
        PROVE  PieceIsRight(said, i, j)'
    <3>1. PieceIsRight(said, i, j)
      BY <1>1, <2>1, <2>5 DEF PiecesAreRight
    <3> QED
      BY <2>1, <2>2, <2>5, <3>1 DEF PieceIsRight
  <2> QED
    BY <2>4, <2>5
<1>2. PiecesAreRight'
  <2>1. ASSUME NEW i, Attaching(i)', NEW j \in DOMAIN said', Piece(said, i, j)'
        PROVE  PieceIsRight(said, i, j)'
    <3>1. Attaching(i) /\ Piece(said', i, j)
      BY <2>1, SameCommands DEF Piece
    <3> QED
      BY <1>1, <3>1
  <2>2. ASSUME NEW i, Attaching(i)', <<i, 0>> \in codes'
        PROVE  Whole(i)'
    <3>1. Attaching(i) /\ Whole(i)
      BY <2>2, SameCommands DEF PiecesAreRight
    <3> QED
      BY <1>1, <3>1
  <2> QED
    BY <2>1, <2>2 DEF PiecesAreRight
<1> QED
  BY <1>1, <1>2

\* Steps of other programs, and the end of one that is killed.
LEMMA OthersDeliver ==
    ASSUME Consistent, Ordered, Routed, Delivered,
           RunnerWorks \/ RunnerPrints \/ FreeWrites \/ FreeExits \/ Killed
    PROVE  Delivered'
<1>1. Running /\ UNCHANGED combine /\ (SaysNothing \/ \E item : Says(item))
  BY ProcessStep DEF ProcessWorks
<1>2. UNCHANGED <<commands, codes, at>>
  BY <1>1 DEF combine, invocation
<1>3. /\ phase' \notin {"parse", "open", "generate"}
      /\ Killed => phase' = "exited" /\ code' = -9
  BY DEF RunnerWorks, RunnerPrints, FreeWrites, FreeExits, Killed, Runner!Load, Runner!ListTest,
         Runner!ListErrors, Runner!ListEnds, Runner!run, Runner!RunEnds, Runner!StartTest,
         Runner!TestPrints, Runner!AddOutcome, Runner!Exits, Output!Exits
<1>4. /\ TakesTurns' /\ Sequence(said) /\ Sequence(said') /\ Starts(said, said')
      /\ \A k \in Len(said) + 1 .. Len(said') : said'[k].from = at
  BY <1>1, <1>3, SpeaksInTurn DEF Delivered
<1>5. said' = said \/ \E item : said' = said \o Reported(item) /\ Unpieced(item)
  <2>1. CASE Killed
    BY <2>1, DamagedIsUnpieced DEF Killed, SaysNothing, Says
  <2>2. CASE RunnerWorks \/ RunnerPrints \/ FreeWrites \/ FreeExits
    <3>1. phase \in {"load", "list", "run", "test", "free"}
      BY <2>2 DEF RunnerWorks, RunnerPrints, FreeWrites, FreeExits, Runner!Load, Runner!ListTest,
                  Runner!ListErrors, Runner!ListEnds, Runner!run, Runner!RunEnds,
                  Runner!StartTest, Runner!TestPrints, Runner!AddOutcome
    <3>2. commands[at].program # "output"
      BY <3>1 DEF Routed, PhaseFits
    <3> QED
      BY <1>1, <3>2 DEF SaysNothing, Says, Unpieced
  <2> QED
    BY <2>1, <2>2
<1>6. \A i : Attaching(i) => \A k \in Len(said) + 1 .. Len(said') : ~Piece(said', i, k)
  BY <1>4, <1>5, NoNewPieces
<1>7. PiecesAreRight'
  BY <1>2, <1>4, <1>6, PiecesStay DEF Delivered
<1>8. OutputIsRight'
  <2>1. CASE Killed
    BY <1>3, <2>1 DEF OutputIsRight
  <2>2. CASE RunnerWorks \/ RunnerPrints \/ FreeWrites \/ FreeExits
    <3>1. phase \in {"load", "list", "run", "test", "free"}
      BY <2>2 DEF RunnerWorks, RunnerPrints, FreeWrites, FreeExits, Runner!Load, Runner!ListTest,
                  Runner!ListErrors, Runner!ListEnds, Runner!run, Runner!RunEnds,
                  Runner!StartTest, Runner!TestPrints, Runner!AddOutcome
    <3>2. commands[at].program # "output"
      BY <3>1 DEF Routed, PhaseFits
    <3> QED
      BY <1>2, <1>3, <3>2 DEF OutputIsRight, Attaching
  <2> QED
    BY <2>1, <2>2
<1> QED
  BY <1>4, <1>7, <1>8 DEF Delivered

LEMMA HunksAre ==
    ASSUME Invoked, NEW i, Attaching(i)
    PROVE  /\ commands[i].line.hunks \in Seq(STRING \ {Output!Nothing})
           /\ Len(Hunks(i)) \in Nat \ {0}
           /\ commands[i].line.hunks = <<>> =>
                 Len(Hunks(i)) = 1 /\ Hunks(i)[1] = Output!Nothing
           /\ commands[i].line.hunks # <<>> => Hunks(i) = commands[i].line.hunks
           /\ \A k \in 2 .. Len(Hunks(i)) : Hunks(i)[k] # Output!Nothing
<1> DEFINE h == commands[i].line.hunks
<1>1. h \in Seq(STRING \ {Output!Nothing})
  BY ConfigsAssumption DEF Invoked, Attaching, Output!Nothing
<1>2. CASE h = <<>>
  <2>1. Hunks(i) = <<Output!Nothing>>
    BY <1>2 DEF Hunks, HunksOf, Output!Nothing
  <2> QED
    BY <1>1, <1>2, <2>1
<1>3. CASE h # <<>>
  <2>1. Hunks(i) = h
    BY <1>3 DEF Hunks, HunksOf
  <2> HIDE DEF h
  <2>2. Len(h) \in Nat \ {0} /\ \A k \in 1 .. Len(h) : h[k] \in STRING \ {Output!Nothing}
    BY <1>1, <1>3, LenProperties, EmptySeq, ElementOfSeq
  <2>3. \A k \in 2 .. Len(h) : h[k] # Output!Nothing
    BY <2>2
  <2> QED
    BY <1>1, <1>3, <2>1, <2>2, <2>3 DEF h
<1> QED
  BY <1>2, <1>3

\* Head and tail of what is left of a file.
LEMMA ReadOn ==
    ASSUME NEW S, NEW s \in Seq(S)
    PROVE  /\ Output!TailOf(s) \in Seq(S) /\ Len(s) \in Nat
           /\ s = <<>> => Len(s) = 0 /\ Output!HeadOf(s) = Output!Nothing /\ Output!TailOf(s) = <<>>
           /\ s # <<>> => /\ Len(s) > 0 /\ Output!HeadOf(s) = s[1] /\ Len(Output!TailOf(s)) = Len(s) - 1
                          /\ \A k \in 1 .. Len(s) - 1 : Output!TailOf(s)[k] = s[k + 1]
<1>1. CASE s = <<>>
  <2>1. <<>> \in Seq(S) /\ Len(<<>>) = 0
    BY EmptySeq
  <2> QED
    BY <1>1, <2>1 DEF Output!TailOf, Output!HeadOf
<1>2. CASE s # <<>>
  <2>1. Sequence(s)
    BY SequenceOf
  <2>2. Len(s) \in Nat /\ Len(s) # 0
    BY <1>2, <2>1, SequenceFacts
  <2>3. /\ Len(Tail(s)) = Len(s) - 1 /\ Head(s) = s[1]
        /\ \A k \in 1 .. Len(s) - 1 : Tail(s)[k] = s[k + 1]
    BY <1>2, <2>1, Tailed
  <2>4. Tail(s) \in Seq(S)
    BY <1>2, HeadTailProperties
  <2>5. Output!TailOf(s) = Tail(s) /\ Output!HeadOf(s) = Head(s)
    BY <1>2 DEF Output!TailOf, Output!HeadOf
  <2> QED
    BY <1>2, <2>2, <2>3, <2>4, <2>5
<1> QED
  BY <1>1, <1>2

LEMMA MainDelivers ==
    ASSUME Consistent, Ordered, Routed, Delivered, OutputWorks, SaysNothing,
           Output!output_main(Command.line) \/ Output!OpenFile
    PROVE  Delivered'
<1>1. /\ Running /\ UNCHANGED combine /\ said' = said /\ swallowed' = swallowed /\ Invoked
  BY ProcessStep DEF ProcessWorks, SaysNothing, Routed
<1>2. UNCHANGED <<commands, codes, at>> /\ at \in DOMAIN commands
  BY <1>1, Underway DEF combine, invocation
<1>3. /\ phase \in {"parse", "open"} /\ phase' \in {"open", "generate", "exited"}
      /\ phase' = "exited" => code' # 0
  BY DEF Output!output_main, Output!OpenFile, Output!Exits
<1>4. /\ TakesTurns' /\ Sequence(said) /\ Sequence(said') /\ Starts(said, said')
  BY <1>1, <1>3, SpeaksInTurn DEF Delivered
<1>5. Len(said') = Len(said) /\ Len(said) \in Nat /\ DOMAIN said = 1 .. Len(said)
  BY <1>1, <1>4, SequenceFacts
<1>6. PiecesAreRight'
  BY <1>2, <1>4, <1>5, PiecesStay DEF Delivered
<1>7. commands[at].program = "output" /\ ~swallowed
  BY <1>3 DEF Delivered, OutputIsRight
<1>8. ASSUME Attaching(at), Output!output_main(Command.line), phase' = "open"
      PROVE  line' = commands[at].line
  BY <1>8 DEF Output!output_main, Command
<1>9. ASSUME Attaching(at), Output!OpenFile
      PROVE  AtHunk(Count(said, at, Len(said)))'
  <2> DEFINE h == commands[at].line.hunks
             H == Hunks(at)
  <2>1. line = commands[at].line /\ phase = "open"
    BY <1>9 DEF Delivered, OutputIsRight, Output!OpenFile
  <2>2. /\ line' = commands[at].line /\ first' = TRUE
        /\ this' = Output!HeadOf(h) /\ next' = Output!HeadOf(Output!TailOf(h))
        /\ unread' = Output!TailOf(Output!TailOf(h))
    BY <1>9, <2>1 DEF Output!OpenFile
  <2>3. Count(said', at, Len(said')) = 0
    <3>1. \A j \in 1 .. Len(said) : said[j].from < at
      BY <1>3, <1>5 DEF Delivered, TakesTurns
    <3>2. at \in Nat
      BY DEF Consistent, Sound
    <3>3. \A k \in 0 + 1 .. Len(said) : ~Piece(said, at, k)
      BY <3>1, <3>2 DEF Piece
    <3>4. Count(said, at, Len(said)) = Count(said, at, 0)
      BY <1>5, <3>3, CountQuiet
    <3> QED
      BY <1>1, <3>4, Counted1
  <2>4. /\ h \in Seq(STRING \ {Output!Nothing})
        /\ Len(H) \in Nat \ {0}
        /\ h = <<>> => Len(H) = 1 /\ H[1] = Output!Nothing
        /\ h # <<>> => H = h
    BY <1>1, <1>9, HunksAre
  <2>5. Hunks(at)' = H
    BY <1>2, SameCommands
  <2> HIDE DEF h, H
  <2>6. /\ Output!TailOf(h) \in Seq(STRING \ {Output!Nothing})
        /\ unread' \in Seq(STRING \ {Output!Nothing})
    BY <2>2, <2>4, ReadOn
  <2>7. this' = H[1]
    BY <2>2, <2>4, ReadOn
  <2>8. ASSUME Len(H) = 1 PROVE next' = Output!Nothing /\ unread' = <<>>
    <3>1. Output!TailOf(h) = <<>>
      <4>1. CASE h = <<>>
        BY <2>4, <4>1, ReadOn
      <4>2. CASE h # <<>>
        <5>1. Len(Output!TailOf(h)) = 0
          BY <2>4, <2>8, <4>2, ReadOn
        <5> QED
          BY <2>6, <5>1, EmptySeq
      <4> QED
        BY <4>1, <4>2
    <3> QED
      BY <2>2, <2>6, <3>1, ReadOn
  <2>9. ASSUME 1 < Len(H)
        PROVE  /\ next' = H[2] /\ Len(unread') = Len(H) - 2
               /\ \A k \in 1 .. Len(unread') : unread'[k] = H[2 + k]
    <3> DEFINE t == Output!TailOf(h)
    <3>1. h # <<>> /\ H = h
      <4>0. Len(H) \in Nat
        BY <2>4
      <4>1. Len(H) # 1
        <5> DEFINE m == Len(H)
        <5>1. m \in Nat /\ 1 < m
          BY <2>9, <4>0
        <5> HIDE DEF m
        <5>2. m # 1
          BY <5>1
        <5> QED
          BY <5>2 DEF m
      <4>2. h # <<>>
        BY <2>4, <4>1
      <4> QED
        BY <2>4, <4>2
    <3>2. Len(t) = Len(H) - 1 /\ \A k \in 1 .. Len(H) - 1 : t[k] = H[k + 1]
      <4>1. Len(t) = Len(h) - 1 /\ \A k \in 1 .. Len(h) - 1 : t[k] = h[k + 1]
        BY <2>4, <3>1, ReadOn
      <4> HIDE DEF t
      <4> QED
        BY <3>1, <4>1
    <3>3. t \in Seq(STRING \ {Output!Nothing})
      BY <2>6
    <3> HIDE DEF t
    <3>4. t # <<>>
      BY <2>4, <2>9, <3>2, <3>3, ReadOn
    <3>5. /\ next' = t[1] /\ Len(unread') = Len(t) - 1
          /\ \A k \in 1 .. Len(t) - 1 : unread'[k] = t[k + 1]
      BY <2>2, <3>3, <3>4, ReadOn DEF t
    <3> QED
      BY <2>4, <2>9, <3>2, <3>5
  <2>10. AtHunk(0)'
    BY <1>2, <2>2, <2>4, <2>5, <2>6, <2>7, <2>8, <2>9 DEF AtHunk
  <2>11. AtHunk(Count(said, at, Len(said)))' <=> AtHunk(0)'
    BY <1>2, <2>3 DEF AtHunk
  <2> QED
    BY <2>10, <2>11
<1>10. /\ Output!output_main(Command.line) => phase' # "generate"
       /\ Output!OpenFile => phase' = "generate"
  BY DEF Output!output_main, Output!OpenFile, Output!Exits
<1>11. Attaching(at)' <=> Attaching(at)
  BY <1>2, SameCommands
<1>12. OutputIsRight'
  BY <1>1, <1>2, <1>3, <1>7, <1>8, <1>9, <1>10, <1>11 DEF OutputIsRight
<1> QED
  BY <1>4, <1>6, <1>12 DEF Delivered

\* The packet of an attachment, among what has been said.
LEMMA PacketIsAPiece ==
    ASSUME Ordered, ~swallowed, Says(Item("packet", Output!Packet)), Output!Attaches
    PROVE  /\ Sequence(said) /\ Sequence(said') /\ Starts(said, said') /\ Len(said) \in Nat
           /\ Len(said') = Len(said) + 1 /\ said'[Len(said) + 1].from = at
           /\ \A k \in 1 .. Len(said) : said'[k] = said[k]
           /\ LET event == said'[Len(said) + 1].event
              IN  /\ event.file \notin ParserFiles /\ event.bytes = this
                  /\ event.eof = Output!IsLast /\ event.status = Output!Status
<1> DEFINE packet == Output!Packet
           r == Report(at, commands[at].prefix, Item("packet", packet))
<1>1. said' = said \o r
  BY ReportedIs DEF Says
<1>2. DOMAIN Events(Item("packet", packet)) = {1} /\ Events(Item("packet", packet))[1] = packet
  BY OnePacket
<1>3. \A prefix : LET event == Prefixed(prefix, packet)
                  IN  /\ event.file \notin ParserFiles /\ event.bytes = this
                      /\ event.eof = Output!IsLast /\ event.status = Output!Status
  <2>1. packet = [id |-> line.id, status |-> Output!Status, file |-> "attachment",
                  bytes |-> this, eof |-> Output!IsLast, head |-> first]
    BY DEF Output!Packet, Output!Attaches, Output!IsLast
  <2> HIDE DEF packet
  <2>2. "attachment" \notin ParserFiles
    BY DEF ParserFiles
  <2> TAKE prefix
  <2>3. Prefixed(prefix, packet) =
              [packet EXCEPT !.id = IF packet.id = None THEN None ELSE prefix \o packet.id]
    BY DEF Prefixed
  <2>4. /\ Prefixed(prefix, packet).file = "attachment" /\ Prefixed(prefix, packet).bytes = this
        /\ Prefixed(prefix, packet).eof = Output!IsLast
        /\ Prefixed(prefix, packet).status = Output!Status
    BY <2>1, <2>3
  <2> QED
    BY <2>2, <2>4
<1>4. /\ DOMAIN r = {1} /\ r[1].from = at /\ r[1].event = Prefixed(commands[at].prefix, packet)
  <2> HIDE DEF packet
  <2> QED
    BY <1>2 DEF Report
<1>5. Sequence(r) /\ Sequence(said)
  BY ReportIsASequence DEF Ordered
<1> HIDE DEF r, packet
<1>6. Len(r) \in Nat /\ Len(said) \in Nat /\ DOMAIN r = 1 .. Len(r)
  BY <1>5, SequenceFacts
<1>7. Len(r) = 1
  <2>1. 1 \in 1 .. Len(r) /\ \A k \in 1 .. Len(r) : k = 1
    BY <1>4, <1>6
  <2>2. Len(r) \in 1 .. Len(r)
    BY <1>6, <2>1
  <2> QED
    BY <2>1, <2>2
<1>8. /\ Sequence(said') /\ Starts(said, said') /\ Len(said') = Len(said) + 1
      /\ \A k \in 1 .. Len(said) : said'[k] = said[k]
      /\ said'[Len(said) + 1] = r[1]
  <2>1. /\ Sequence(said') /\ Starts(said, said') /\ Len(said') = Len(said) + Len(r)
        /\ \A k \in 1 .. Len(said) : said'[k] = said[k]
        /\ \A k \in 1 .. Len(r) : said'[Len(said) + k] = r[k]
    BY <1>1, <1>5, Joined, LandsJoined
  <2>2. 1 \in 1 .. Len(r)
    BY <1>7
  <2> QED
    BY <1>7, <2>1, <2>2
<1> QED
  BY <1>3, <1>4, <1>5, <1>6, <1>8

LEMMA WriteDelivers ==
    ASSUME Consistent, Ordered, Routed, Delivered, OutputWorks, Output!WritePacket,
           Says(Item("packet", Output!Packet))
    PROVE  Delivered'
<1> DEFINE item == Item("packet", Output!Packet)
<1>0. PICK L \in Nat : L = Len(said)
  BY SequenceFacts DEF Ordered
<1>1. /\ Running /\ UNCHANGED combine /\ Invoked /\ at \in Nat
      /\ phase = "generate" /\ phase' \in {"generate", "exited"}
  BY ProcessStep DEF ProcessWorks, Routed, Output!WritePacket, Output!Exits, Consistent, Sound
<1>2. UNCHANGED <<commands, codes, at>> /\ pc # "ended"
  BY <1>1 DEF combine, invocation, Running, Consistent, FileIsThere, Busy
<1>3. commands[at].program = "output" /\ ~swallowed /\ ~swallowed' /\ said' = said \o Reported(item)
  BY <1>1 DEF Delivered, OutputIsRight, Says, Item
<1>4. /\ TakesTurns' /\ Sequence(said) /\ Sequence(said') /\ Starts(said, said')
      /\ \A k \in L + 1 .. Len(said') : said'[k].from = at
  BY <1>0, <1>1, SpeaksInTurn DEF Delivered
<1>5. \A i : i # at => \A k \in L + 1 .. Len(said') : ~Piece(said', i, k)
  BY <1>4 DEF Piece
<1>6. CASE ~Attaching(at)
  <2>1. PiecesAreRight'
    BY <1>0, <1>2, <1>4, <1>5, <1>6, PiecesStay DEF Delivered
  <2>2. OutputIsRight'
    BY <1>1, <1>2, <1>3, <1>6, SameCommands DEF OutputIsRight
  <2> QED
    BY <1>4, <2>1, <2>2 DEF Delivered
<1>7. CASE Attaching(at)
  <2>0. PICK n : n = Count(said, at, L)
    OBVIOUS
  <2> DEFINE H == Hunks(at)
             m == Len(H)
             event == said'[L + 1].event
             action == commands[at].line.action
  <2>1. AtHunk(n)
    BY <1>0, <1>1, <1>7, <2>0 DEF Delivered, OutputIsRight
  <2>2. line = commands[at].line /\ Output!Attaches
    BY <1>7, <2>1 DEF AtHunk, Attaching, Output!Attaches
  <2>3. /\ Len(said') = L + 1 /\ L \in Nat /\ said'[L + 1].from = at
        /\ \A k \in 1 .. L : said'[k] = said[k]
        /\ event.file \notin ParserFiles /\ event.bytes = this
        /\ event.eof = Output!IsLast /\ event.status = Output!Status
    BY <1>0, <1>3, <2>2, PacketIsAPiece
  <2>4. n \in Nat /\ Count(said', at, L + 1) = n + 1 /\ Piece(said', at, L + 1)
    <3>1. Piece(said', at, L + 1)
      BY <2>3 DEF Piece
    <3>2. Count(said', at, L) = n
      BY <2>0, <2>3, CountAlike
    <3>3. Count(said, at, L) \in Nat
      BY <1>0, Counted1
    <3> QED
      BY <2>0, <2>3, <3>1, <3>2, <3>3, Counted1
  <2>5. m \in Nat \ {0} /\ \A k \in 2 .. m : H[k] # Output!Nothing
    BY <1>1, <1>7, HunksAre
  <2>6. /\ n < m /\ (first <=> n = 0) /\ this = H[n + 1]
        /\ unread \in Seq(STRING \ {Output!Nothing})
        /\ n + 1 = m => next = Output!Nothing /\ unread = <<>>
        /\ n + 1 < m => /\ next = H[n + 2] /\ Len(unread) = m - (n + 2)
                        /\ \A k \in 1 .. Len(unread) : unread[k] = H[n + 2 + k]
        /\ action \notin Output!FinalActions /\ n > 0 => TellsAction(said, at)
    BY <2>1 DEF AtHunk
  <2>7. Hunks(at)' = H /\ (Attaching(at)' <=> Attaching(at))
    BY <1>2, SameCommands
  <2>8. DOMAIN said = 1 .. L /\ DOMAIN said' = 1 .. L + 1
    BY <1>0, <1>4, <2>3, SequenceFacts
  <2> HIDE DEF H, m, event
  <2>9. Output!IsLast <=> next = Output!Nothing
    BY <2>2 DEF Output!IsLast
  <2>10. Output!IsLast <=> n + 1 = m
    <3>1. CASE n + 1 = m
      BY <2>6, <2>9, <3>1
    <3>2. CASE n + 1 # m
      <4>1. n + 1 < m /\ n + 2 \in 2 .. m
        BY <2>4, <2>5, <2>6, <3>2
      <4> QED
        BY <2>5, <2>6, <2>9, <3>2, <4>1
    <3> QED
      BY <3>1, <3>2
  <2>11. Output!Status = IF action \in Output!FinalActions
                         THEN IF Output!IsLast THEN action ELSE None
                         ELSE IF first THEN action ELSE None
    BY <2>2 DEF Output!Status
  <2>12. PieceIsRight(said, at, L + 1)'
    <3>1. n + 1 <= m /\ event.bytes = H[n + 1] /\ (event.eof <=> n + 1 = m)
      <4>1. n + 1 <= m
        BY <2>4, <2>5, <2>6
      <4>2. event.bytes = H[n + 1]
        BY <2>3, <2>6
      <4>3. event.eof <=> n + 1 = m
        BY <2>3, <2>10
      <4> QED
        BY <4>1, <4>2, <4>3
    <3>2. event.status \in Output!FinalActions => n + 1 = m
      BY <2>3, <2>10, <2>11, NamesAssumption
    <3> QED
      BY <1>2, <2>4, <2>7, <3>1, <3>2 DEF PieceIsRight, m, event
  <2>13. ASSUME NEW i, Attaching(i), NEW j \in 1 .. L, Piece(said', i, j)
         PROVE  PieceIsRight(said, i, j)'
    <3>1. j \in Nat /\ said'[j] = said[j] /\ \A k \in 1 .. j : said'[k] = said[k]
      BY <2>3
    <3>2. Count(said', i, j) = Count(said, i, j)
      BY <3>1, CountAlike
    <3>3. PieceIsRight(said, i, j)
      BY <2>8, <2>13, <3>1 DEF Delivered, PiecesAreRight, Piece
    <3> QED
      BY <1>2, <3>1, <3>2, <3>3, SameCommands DEF PieceIsRight
  <2>14. ASSUME NEW i, Attaching(i), <<i, 0>> \in codes PROVE Whole(i)'
    <3>1. i # at
      BY <1>2, <1>1, <2>14 DEF Consistent, FailedIsKnown
    <3>2. Whole(i)
      BY <2>14 DEF Delivered, PiecesAreRight
    <3>3. /\ Count(said', i, Len(said')) = Count(said, i, Len(said))
          /\ TellsAction(said', i) <=> TellsAction(said, i)
      BY <1>0, <1>4, <1>5, <3>1, NothingNew
    <3>4. TellsAction(said, i)' <=> TellsAction(said', i)
      BY <1>2 DEF TellsAction
    <3> QED
      BY <1>2, <3>2, <3>3, <3>4, SameCommands DEF Whole
  <2>15. PiecesAreRight'
    <3>1. ASSUME NEW i, Attaching(i)', NEW j \in DOMAIN said', Piece(said, i, j)'
          PROVE  PieceIsRight(said, i, j)'
      <4>1. Attaching(i) /\ Piece(said', i, j)
        BY <1>2, <3>1, SameCommands DEF Piece
      <4>2. CASE j \in 1 .. L
        BY <2>13, <4>1, <4>2
      <4>3. CASE j = L + 1
        <5>1. i = at
          BY <2>3, <4>1, <4>3 DEF Piece
        <5> QED
          BY <1>2, <2>12, <4>3, <5>1 DEF PieceIsRight, Count, Piece, Hunks
      <4> QED
        BY <2>3, <2>8, <4>2, <4>3
    <3>2. ASSUME NEW i, Attaching(i)', <<i, 0>> \in codes' PROVE Whole(i)'
      BY <1>2, <2>14, <3>2, SameCommands
    <3> QED
      BY <3>1, <3>2 DEF PiecesAreRight
  <2>16. ASSUME Output!IsLast \/ action \notin Output!FinalActions
         PROVE  TellsAction(said, at)'
    <3>1. CASE n > 0 /\ action \notin Output!FinalActions
      <4>1. PICK j \in 1 .. L : Piece(said, at, j) /\ said[j].event.status = action
        BY <2>6, <2>8, <3>1 DEF TellsAction
      <4>2. Piece(said', at, j) /\ said'[j].event.status = action /\ j \in DOMAIN said'
        BY <2>3, <2>8, <4>1 DEF Piece
      <4> QED
        BY <1>2, <4>2 DEF TellsAction, Piece
    <3>2. CASE n = 0 \/ action \in Output!FinalActions
      <4>1. event.status = action
        BY <2>3, <2>6, <2>11, <2>16, <3>2
      <4>2. L + 1 \in DOMAIN said'
        BY <2>3, <2>8
      <4> QED
        BY <1>2, <2>4, <4>1, <4>2 DEF TellsAction, Piece, event
    <3> QED
      BY <2>4, <3>1, <3>2
  <2>17. Count(said', at, Len(said')) = n + 1
    BY <2>3, <2>4
  <2>18. CASE Output!IsLast
    <3>1. phase' = "exited"
      BY <2>18 DEF Output!WritePacket, Output!Exits
    <3>2. Whole(at)'
      BY <1>2, <2>7, <2>10, <2>16, <2>17, <2>18 DEF Whole, m
    <3>3. OutputIsRight'
      BY <1>2, <3>1, <3>2 DEF OutputIsRight
    <3> QED
      BY <1>4, <2>15, <3>3 DEF Delivered
  <2>19. CASE ~Output!IsLast
    <3>1. /\ phase' = "generate" /\ this' = next /\ line' = line /\ first' = FALSE
          /\ next' = Output!HeadOf(unread) /\ unread' = Output!TailOf(unread)
      BY <1>1, <2>19 DEF Output!WritePacket
    <3>2. n + 1 < m
      BY <2>4, <2>5, <2>6, <2>10, <2>19
    <3>3. /\ next = H[n + 2] /\ Len(unread) = m - (n + 2)
          /\ \A k \in 1 .. Len(unread) : unread[k] = H[n + 2 + k]
      BY <2>6, <3>2
    <3>4. /\ unread' \in Seq(STRING \ {Output!Nothing})
          /\ unread = <<>> => Len(unread) = 0 /\ next' = Output!Nothing /\ unread' = <<>>
          /\ unread # <<>> => /\ Len(unread) > 0 /\ next' = unread[1] /\ Len(unread') = Len(unread) - 1
                              /\ \A k \in 1 .. Len(unread) - 1 : unread'[k] = unread[k + 1]
      BY <2>6, <3>1, ReadOn
    <3>5. ASSUME n + 1 + 1 = m PROVE next' = Output!Nothing /\ unread' = <<>>
      BY <2>4, <2>5, <3>3, <3>4, <3>5
    <3>6. ASSUME n + 1 + 1 < m
          PROVE  /\ next' = H[n + 1 + 2] /\ Len(unread') = m - (n + 1 + 2)
                 /\ \A k \in 1 .. Len(unread') : unread'[k] = H[n + 1 + 2 + k]
      <4> DEFINE u == Len(unread)
      <4>1. u = m - (n + 2) /\ u > 0
        BY <2>4, <2>5, <3>3, <3>6
      <4>2. unread # <<>>
        BY <3>4, <4>1
      <4>3. /\ next' = unread[1] /\ Len(unread') = u - 1
            /\ \A k \in 1 .. u - 1 : unread'[k] = unread[k + 1]
        BY <3>4, <4>2
      <4>4. \A k \in 1 .. u : unread[k] = H[n + 2 + k]
        BY <3>3
      <4> HIDE DEF u
      <4>5. next' = H[n + 1 + 2]
        <5>1. 1 \in 1 .. u /\ n + 2 + 1 = n + 1 + 2
          BY <2>4, <2>5, <4>1
        <5>2. unread[1] = H[n + 2 + 1]
          BY <4>4, <5>1
        <5> QED
          BY <4>3, <5>1, <5>2
      <4>6. Len(unread') = m - (n + 1 + 2)
        BY <2>4, <2>5, <4>1, <4>3
      <4>7. ASSUME NEW k \in 1 .. u - 1 PROVE unread'[k] = H[n + 1 + 2 + k]
        <5>1. k + 1 \in 1 .. u /\ n + 2 + (k + 1) = n + 1 + 2 + k
          BY <2>4, <2>5, <4>1
        <5>2. unread[k + 1] = H[n + 2 + (k + 1)]
          BY <4>4, <5>1
        <5> QED
          BY <4>3, <5>1, <5>2
      <4> QED
        BY <4>3, <4>5, <4>6, <4>7
    <3>7. AtHunk(n + 1)'
      <4>1. line' = commands'[at'].line /\ this' = H[n + 1 + 1] /\ n + 1 < m /\ (first' <=> n + 1 = 0)
        BY <1>2, <2>2, <2>4, <3>1, <3>2, <3>3
      <4>2. commands'[at'].line.action \notin Output!FinalActions => TellsAction(said, at)'
        BY <1>2, <2>16
      <4> QED
        BY <1>2, <2>7, <3>4, <3>5, <3>6, <4>1, <4>2 DEF AtHunk, m
    <3>8. AtHunk(Count(said, at, Len(said)))' <=> AtHunk(n + 1)'
      BY <1>2, <2>17 DEF AtHunk
    <3>9. OutputIsRight'
      BY <1>2, <1>3, <3>1, <3>7, <3>8 DEF OutputIsRight
    <3> QED
      BY <1>4, <2>15, <3>9 DEF Delivered
  <2> QED
    BY <2>18, <2>19
<1> QED
  BY <1>6, <1>7

LEMMA OutputDelivers ==
    ASSUME Consistent, Ordered, Routed, Delivered, OutputWorks
    PROVE  Delivered'
  BY MainDelivers, WriteDelivers DEF OutputWorks

\* combine says nothing; what it has merged never gets shorter.
LEMMA CombineDelivers ==
    ASSUME Consistent, Ordered, Delivered, Combines \/ OutputBreaks \/ UNCHANGED vars
    PROVE  Delivered'
<1>1. UNCHANGED <<commands, said>> /\ Sequence(said) /\ Len(said) \in Nat /\ DOMAIN said = 1 .. Len(said)
  <2>1. UNCHANGED <<commands, said>> /\ Sequence(said)
    BY DEF Combines, run_command, Skip, Finish, Start, Popen, PopenRaises, Read, ReadShort, Swallow,
           SwallowEnds, Eof, Wait, OutputBreaks, vars, invocation, process, loop, Ordered
  <2> QED
    BY <2>1, SequenceFacts
<1>2. Len(merged) \in Nat /\ Len(merged') \in Nat /\ Len(merged) <= Len(merged')
  <2>1. Sequence(merged)
    BY DEF Ordered
  <2>2. merged' = merged \/ \E item : merged' = merged \o Report(at, commands[at].prefix, item)
    BY ReportedIs
       DEF Combines, run_command, Skip, Finish, Start, Popen, PopenRaises, Read, ReadShort, Swallow,
           SwallowEnds, Eof, Wait, OutputBreaks, vars
  <2>3. Len(merged) \in Nat
    BY <2>1, SequenceFacts
  <2>4. ASSUME NEW r, Sequence(r), merged' = merged \o r
        PROVE  Len(merged') \in Nat /\ Len(merged) <= Len(merged')
    <3>1. Len(merged') = Len(merged) + Len(r) /\ Len(r) \in Nat
      BY <2>1, <2>4, Joined, SequenceFacts
    <3> QED
      BY <2>3, <3>1
  <2> QED
    BY <2>2, <2>3, <2>4, ReportIsASequence
<1>3. \A i : (Attaching(i)' <=> Attaching(i)) /\ Hunks(i)' = Hunks(i)
  BY <1>1, SameCommands
<1>4. \A i : Whole(i)' <=> Whole(i)
  BY <1>1, <1>3 DEF Whole, TellsAction
<1>5. codes' = codes => PiecesAreRight'
  <2> SUFFICES ASSUME codes' = codes PROVE PiecesAreRight'
    OBVIOUS
  <2>1. ASSUME NEW i, Attaching(i)', NEW j \in DOMAIN said', Piece(said, i, j)'
        PROVE  PieceIsRight(said, i, j)'
    <3>1. PieceIsRight(said, i, j)
      BY <1>1, <1>3, <2>1 DEF Delivered, PiecesAreRight, Piece
    <3> QED
      BY <1>1, <1>3, <3>1 DEF PieceIsRight
  <2>2. ASSUME NEW i, Attaching(i)', <<i, 0>> \in codes' PROVE Whole(i)'
    BY <1>3, <1>4, <2>2 DEF Delivered, PiecesAreRight
  <2> QED
    BY <2>1, <2>2 DEF PiecesAreRight
<1>6. /\ TakesTurns /\ at \in Nat
      /\ pc \in {"next", "popen"} \/ (pc = "wait" /\ ~raised) => Len(merged) = Len(said)
      /\ pc \in {"next", "popen", "ended"} => phase = "none"
  BY DEF Delivered, Consistent, Sound, FileIsThere, Busy, Ordered, Settles
<1>7. CASE Skip \/ Finish \/ Start \/ PopenRaises
  <2>1. /\ phase' = "none" /\ codes' = codes /\ merged' = merged /\ pc \in {"next", "popen"}
        /\ at' = at + 1 \/ (at' = at /\ pc' \in {"popen", "ended"})
    BY <1>6, <1>7 DEF Skip, Finish, Start, PopenRaises
  <2>2. TakesTurns'
    BY <1>1, <1>2, <1>6, <2>1 DEF TakesTurns
  <2> QED
    BY <1>5, <2>1, <2>2 DEF Delivered, OutputIsRight
<1>8. CASE Popen
  <2>1. /\ codes' = codes /\ merged' = merged /\ pc = "popen" /\ pc' = "read"
        /\ UNCHANGED <<at, swallowed>>
        /\ phase' = CASE commands[at].program = "runner" -> "load"
                      [] commands[at].program = "output" -> "parse"
                      [] OTHER -> "free"
    BY <1>8 DEF Popen, Command
  <2>2. ~swallowed
    BY <2>1 DEF Ordered
  <2>3. TakesTurns'
    BY <1>1, <1>2, <1>6, <2>1 DEF TakesTurns
  <2>4. OutputIsRight'
    BY <1>1, <2>1, <2>2 DEF OutputIsRight
  <2> QED
    BY <1>5, <2>1, <2>3, <2>4 DEF Delivered
<1>9. CASE Wait
  <2>1. /\ phase' = "none" /\ phase = "exited" /\ codes' = codes \cup {<<at, code>>}
        /\ merged' = merged /\ pc = "wait"
        /\ (~raised /\ at' = at + 1) \/ (at' = at /\ pc' = "ended")
    BY <1>9 DEF Wait, NoProcess
  <2>2. TakesTurns'
    BY <1>1, <1>2, <1>6, <2>1 DEF TakesTurns
  <2>3. PiecesAreRight'
    <3>1. ASSUME NEW i, Attaching(i)', NEW j \in DOMAIN said', Piece(said, i, j)'
          PROVE  PieceIsRight(said, i, j)'
      <4>1. PieceIsRight(said, i, j)
        BY <1>1, <1>3, <3>1 DEF Delivered, PiecesAreRight, Piece
      <4> QED
        BY <1>1, <1>3, <4>1 DEF PieceIsRight
    <3>2. ASSUME NEW i, Attaching(i)', <<i, 0>> \in codes' PROVE Whole(i)'
      <4>1. <<i, 0>> \in codes \/ (i = at /\ code = 0)
        BY <2>1, <3>2
      <4>2. Whole(i)
        BY <1>3, <2>1, <3>2, <4>1 DEF Delivered, PiecesAreRight, OutputIsRight
      <4> QED
        BY <1>4, <4>2
    <3> QED
      BY <3>1, <3>2 DEF PiecesAreRight
  <2> QED
    BY <2>1, <2>2, <2>3 DEF Delivered, OutputIsRight
<1>10. CASE Read \/ ReadShort \/ Swallow \/ SwallowEnds \/ Eof \/ OutputBreaks \/ UNCHANGED vars
  <2>1. /\ UNCHANGED <<phase, code, line, unread, this, next, first, swallowed, codes, at>>
        /\ pc' = pc \/ (pc \in {"read", "swallow"} /\ pc' \in {"read", "swallow", "wait"})
    BY <1>10 DEF Read, ReadShort, Swallow, SwallowEnds, Eof, OutputBreaks, vars, process, loop,
                 child, attachment
  <2>2. TakesTurns'
    BY <1>1, <1>2, <1>6, <2>1 DEF TakesTurns
  <2>3. AtHunk(Count(said, at, Len(said)))' <=> AtHunk(Count(said, at, Len(said)))
    BY <1>1, <1>3, <2>1 DEF AtHunk, TellsAction
  <2>4. OutputIsRight'
    BY <1>1, <1>3, <1>4, <2>1, <2>3 DEF Delivered, OutputIsRight
  <2> QED
    BY <1>5, <2>1, <2>2, <2>4 DEF Delivered
<1> QED
  BY <1>7, <1>8, <1>9, <1>10 DEF Combines, run_command

LEMMA DeliveredStep == Consistent /\ Ordered /\ Routed /\ Delivered /\ [Next]_vars => Delivered'
  BY OthersDeliver, OutputDelivers, CombineDelivers DEF Next, ProcessWorks

LEMMA InitIsDelivered == Init => Delivered
<1> SUFFICES ASSUME Init PROVE Delivered
  OBVIOUS
<1>1. phase = "none" /\ codes = {} /\ said = <<>>
  BY DEF Init
<1> QED
  BY <1>1 DEF Delivered, TakesTurns, OutputIsRight, PiecesAreRight

THEOREM AlwaysDelivered == Spec => []Delivered
  BY InitIsDelivered, DeliveredStep, AlwaysConsistent, AlwaysOrdered, AlwaysRouted, PTL DEF Spec

\* An attachment arrives hunk by hunk and in order, only its last packet says
\* eof or has a final status, and all of it is there once the command has
\* succeeded.
THEOREM AttachmentsAreWhole == Spec => []AttachmentsArriveWhole
<1>1. Consistent /\ Ordered /\ Routed /\ Delivered => AttachmentsArriveWhole
  <2> SUFFICES ASSUME Consistent, Ordered, Routed, Delivered, NEW i \in DOMAIN commands,
                      commands[i].program = "output", commands[i].line.attach # None
               PROVE  /\ \A j \in DOMAIN merged : Piece(merged, i, j) => PieceIsRight(merged, i, j)
                      /\ <<i, 0>> \in codes /\ ~raised =>
                            /\ Count(merged, i, Len(merged)) = Len(Hunks(i))
                            /\ TellsAction(merged, i)
    BY DEF AttachmentsArriveWhole, IsPiece, NumberOf, Piece, Count, PieceIsRight, TellsAction, Hunks
  <2>1. Attaching(i)
    BY DEF Attaching
  <2>2. /\ Len(merged) \in Nat /\ Len(said) \in Nat /\ Len(merged) <= Len(said)
        /\ DOMAIN merged = 1 .. Len(merged) /\ DOMAIN said = 1 .. Len(said)
        /\ \A k \in 1 .. Len(merged) : merged[k] = said[k]
    BY SequenceFacts DEF Ordered, Starts
  <2>3. ASSUME NEW j \in DOMAIN merged, Piece(merged, i, j) PROVE PieceIsRight(merged, i, j)
    <3>1. j \in Nat /\ j \in DOMAIN said /\ merged[j] = said[j] /\ \A k \in 1 .. j : merged[k] = said[k]
      BY <2>2
    <3>2. Count(merged, i, j) = Count(said, i, j)
      BY <3>1, CountAlike
    <3>3. PieceIsRight(said, i, j)
      BY <2>1, <2>3, <3>1 DEF Delivered, PiecesAreRight, Piece
    <3> QED
      BY <3>1, <3>2, <3>3 DEF PieceIsRight
  <2>4. ASSUME <<i, 0>> \in codes, ~raised
        PROVE  Count(merged, i, Len(merged)) = Len(Hunks(i)) /\ TellsAction(merged, i)
    <3>1. Whole(i)
      BY <2>1, <2>4 DEF Delivered, PiecesAreRight
    <3>2. \A k \in Len(merged) + 1 .. Len(said) : ~Piece(said, i, k)
      <4>1. CASE pc = "ended"
        <5>1. Len(merged) = Len(said)
          BY <2>4, <4>1 DEF Ordered, Settles
        <5> QED
          BY <2>2, <5>1
      <4>2. CASE pc # "ended"
        <5>1. i \in Nat /\ i < at /\ at \in Nat
          BY <2>4, <4>2 DEF Consistent, Sound, FailedIsKnown
        <5>2. \A k \in Len(merged) + 1 .. Len(said) : said[k].from = at
          BY <2>2, <4>2 DEF Delivered, TakesTurns
        <5> QED
          BY <5>1, <5>2 DEF Piece
      <4> QED
        BY <4>1, <4>2
    <3> QED
      BY <3>1, <3>2, NothingNew DEF Ordered, Whole
  <2> QED
    BY <2>3, <2>4
<1> QED
  BY <1>1, AlwaysConsistent, AlwaysOrdered, AlwaysRouted, AlwaysDelivered, PTL
===============================================================================
