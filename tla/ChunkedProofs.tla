------------------------------ MODULE ChunkedProofs ------------------------------
(***************************************************************************)
(* Theorems about Chunked, for every base, buffer size and content, cut    *)
(* into pieces anywhere: the decoder gets what was written, in order, and  *)
(* keeps no more than the beginning of a header; what follows the end      *)
(* marker is handed back; and close tells a short stream.                  *)
(***************************************************************************)
EXTENDS Chunked, SequenceTheorems, WellFoundedInduction, TLAPS

-------------------------------------------------------------------------------
(* Induction over the natural numbers, in the form the provers can use: a  *)
(* set of numbers stands for the formula.  And what follows from it for a  *)
(* value that is worked out element by element.                            *)

LEMMA LeastOf ==
    ASSUME NEW S \in SUBSET Nat, S # {}
    PROVE  \E n \in S : \A m \in S : n <= m
<1>1. IsWellFoundedOn(OpToRel(<, Nat), Nat)
    BY NatLessThanWellFounded
<1>2. PICK n \in S : \A m \in S : <<m, n>> \notin OpToRel(<, Nat)
    BY <1>1, WFMin
<1>3. \A m \in S : ~(m < n)
    BY <1>2 DEF OpToRel
<1>4. S \subseteq Nat
    OBVIOUS
<1>5. \A m \in S : n <= m
    BY <1>3, <1>4
<1> QED
    BY <1>5

LEMMA Induct ==
    ASSUME NEW S \in SUBSET Nat, 0 \in S, \A n \in S : n + 1 \in S
    PROVE  S = Nat
<1> SUFFICES ASSUME Nat \ S # {} PROVE FALSE
    OBVIOUS
<1>1. PICK n \in Nat \ S : \A m \in Nat \ S : n <= m
    BY LeastOf
<1>2. n # 0 /\ n - 1 \in Nat
    BY <1>1
<1>3. n - 1 \in S
    BY <1>1, <1>2
<1> QED
    BY <1>1, <1>3

\* The values that Step leads to from first, one for each of the first elements
\* of s.
Runs(Step, first, s, last, after) ==
    /\ after[0] = first
    /\ \A n \in 1 .. last : after[n] = Step[<<after[n - 1], s[n]>>]
Steps(States, Step, first, s, after) ==
    after \in [0 .. Len(s) -> States] /\ Runs(Step, first, s, Len(s), after)

LEMMA StepsAreOne ==
    ASSUME NEW Step, NEW first, NEW s, NEW last \in Nat, NEW f, NEW g,
           Runs(Step, first, s, last, f), Runs(Step, first, s, last, g)
    PROVE  \A n \in 0 .. last : f[n] = g[n]
<1> DEFINE S == {n \in Nat : n <= last => f[n] = g[n]}
<1>1. 0 \in S
    BY DEF Runs
<1>2. ASSUME NEW n \in S
      PROVE  n + 1 \in S
    <2>1. n \in Nat /\ (n <= last => f[n] = g[n])
        OBVIOUS
    <2>2. ASSUME n + 1 <= last
          PROVE  f[n + 1] = g[n + 1]
        <3>1. n + 1 \in 1 .. last /\ (n + 1) - 1 = n /\ n <= last
            BY <2>1, <2>2
        <3>2. f[n + 1] = Step[<<f[(n + 1) - 1], s[n + 1]>>] /\ g[n + 1] = Step[<<g[(n + 1) - 1], s[n + 1]>>]
            BY <3>1 DEF Runs
        <3> QED
            BY <2>1, <3>1, <3>2
    <2> QED
        BY <2>1, <2>2
<1>3. S = Nat
    <2> HIDE DEF S
    <2>1. S \in SUBSET Nat
        BY DEF S
    <2> QED
        BY <1>1, <1>2, <2>1, Induct
<1> QED
    BY <1>3

LEMMA StepsExist ==
    ASSUME NEW A, NEW B, NEW Step \in [A \X B -> A], NEW first \in A, NEW s \in Seq(B)
    PROVE  \E f : Steps(A, Step, first, s, f)
<1> DEFINE Ok(f, n) == /\ f \in [0 .. n -> A] /\ f[0] = first
                       /\ \A i \in 1 .. n : f[i] = Step[<<f[i - 1], s[i]>>]
           S == {n \in Nat : n <= Len(s) => \E f \in [0 .. n -> A] : Ok(f, n)}
<1>1. 0 \in S
    <2>1. Ok([i \in 0 .. 0 |-> first], 0)
        OBVIOUS
    <2> QED
        BY <2>1
<1>2. ASSUME NEW n \in S
      PROVE  n + 1 \in S
    <2>1. n \in Nat /\ (n <= Len(s) => \E f \in [0 .. n -> A] : Ok(f, n))
        OBVIOUS
    <2>2. ASSUME n + 1 <= Len(s)
          PROVE  \E f \in [0 .. n + 1 -> A] : Ok(f, n + 1)
        <3>1. PICK f \in [0 .. n -> A] : Ok(f, n)
            BY <2>1, <2>2
        <3> DEFINE next == Step[<<f[n], s[n + 1]>>]
                   g == [i \in 0 .. n + 1 |-> IF i = n + 1 THEN next ELSE f[i]]
        <3>2. next \in A
            BY <2>1, <2>2, <3>1
        <3> HIDE DEF next
        <3>3. g \in [0 .. n + 1 -> A] /\ g[n + 1] = next /\ \A i \in 0 .. n : g[i] = f[i]
            BY <2>1, <3>1, <3>2
        <3> HIDE DEF g
        <3>4. g[0] = first
            BY <2>1, <3>1, <3>3
        <3>5. ASSUME NEW i \in 1 .. n + 1
              PROVE  g[i] = Step[<<g[i - 1], s[i]>>]
            <4>1. CASE i = n + 1
                <5>1. i - 1 = n /\ n \in 0 .. n
                    BY <2>1, <4>1
                <5> QED
                    BY <3>3, <4>1, <5>1 DEF next
            <4>2. CASE i # n + 1
                <5>1. i \in 1 .. n /\ i \in 0 .. n /\ i - 1 \in 0 .. n
                    BY <2>1, <4>2
                <5>2. f[i] = Step[<<f[i - 1], s[i]>>]
                    BY <3>1, <5>1
                <5> QED
                    BY <3>3, <5>1, <5>2
            <4> QED
                BY <4>1, <4>2
        <3> QED
            BY <3>3, <3>4, <3>5
    <2> QED
        BY <2>1, <2>2
<1>3. S = Nat
    <2> HIDE DEF S
    <2>1. S \in SUBSET Nat
        BY DEF S
    <2> QED
        BY <1>1, <1>2, <2>1, Induct
<1>4. Len(s) \in S
    <2>1. Len(s) \in Nat
        OBVIOUS
    <2> HIDE DEF S
    <2> QED
        BY <1>3, <2>1
<1>5. PICK f \in [0 .. Len(s) -> A] : Ok(f, Len(s))
    BY <1>4
<1>6. Steps(A, Step, first, s, f)
    BY <1>5 DEF Steps, Runs
<1> QED
    BY <1>6

\* A recursive function makes these steps if it does so while it has the right type.
LEMMA StepsOf ==
    ASSUME NEW A, NEW B, NEW Step \in [A \X B -> A], NEW first \in A, NEW s \in Seq(B), NEW g,
           g = [n \in 0 .. Len(s) |-> g[n]], g[0] = first,
           \A n \in 1 .. Len(s) : g[n - 1] \in A => g[n] = Step[<<g[n - 1], s[n]>>]
    PROVE  Steps(A, Step, first, s, g)
<1> DEFINE S == {n \in Nat : n <= Len(s) => g[n] \in A}
<1>1. 0 \in S
    OBVIOUS
<1>2. ASSUME NEW n \in S
      PROVE  n + 1 \in S
    <2>1. n \in Nat /\ (n <= Len(s) => g[n] \in A)
        OBVIOUS
    <2>2. ASSUME n + 1 <= Len(s)
          PROVE  g[n + 1] \in A
        <3>1. n + 1 \in 1 .. Len(s) /\ (n + 1) - 1 = n /\ g[n] \in A /\ s[n + 1] \in B
            BY <2>1, <2>2
        <3>2. g[n + 1] = Step[<<g[n], s[n + 1]>>]
            BY <3>1
        <3> QED
            BY <3>1, <3>2
    <2> QED
        BY <2>1, <2>2
<1>3. S = Nat
    <2> HIDE DEF S
    <2>1. S \in SUBSET Nat
        BY DEF S
    <2> QED
        BY <1>1, <1>2, <2>1, Induct
<1>4. ASSUME NEW n \in 0 .. Len(s)
      PROVE  g[n] \in A
    <2>1. n \in Nat /\ n <= Len(s)
        OBVIOUS
    <2>2. n \in S
        <3> HIDE DEF S
        <3> QED
            BY <1>3, <2>1
    <2> QED
        BY <2>1, <2>2
<1>5. g \in [0 .. Len(s) -> A]
    BY <1>4
<1>6. \A n \in 1 .. Len(s) : n - 1 \in 0 .. Len(s)
    OBVIOUS
<1> HIDE DEF S
<1> QED
    BY <1>4, <1>5, <1>6 DEF Steps, Runs

-------------------------------------------------------------------------------
(* Lists of strings of octets. *)

Strings == Seq(Octets)

\* \o as a function: how Upto goes from one number of strings to the next.
Joining == [p \in Strings \X Strings |-> p[1] \o p[2]]

LEMMA Concats ==
    /\ <<>> \in Strings
    /\ \A a \in Strings : a \o <<>> = a /\ <<>> \o a = a
    /\ \A a \in Strings, b \in Strings : a \o b \in Strings
    /\ \A a \in Strings, b \in Strings, c \in Strings : (a \o b) \o c = a \o (b \o c)
BY ConcatEmptySeq, ConcatProperties, ConcatAssociative DEF Strings

LEMMA Associates ==
    \A a \in Strings, b \in Strings, c \in Strings : (a \o b) \o c = a \o (b \o c)
BY Concats

MadeOf(octets, front, rest) == octets = front \o rest
Adds(given, passed, body, content, held) == given = ((passed \o body) \o content) \o held

LEMMA Regroup ==
    ASSUME NEW a \in Strings, NEW b \in Strings, NEW c \in Strings,
           NEW ab, MadeOf(ab, a, b), NEW bc, MadeOf(bc, b, c)
    PROVE  ab \o c = a \o bc
<1>1. (a \o b) \o c = a \o (b \o c)
    BY Associates
<1> QED
    BY <1>1 DEF MadeOf

LEMMA RegroupLast ==
    ASSUME NEW a \in Strings, NEW b \in Strings, NEW c \in Strings, NEW d \in Strings,
           NEW rest, MadeOf(rest, b, c), NEW longer, MadeOf(longer, c, d)
    PROVE  (a \o rest) \o d = a \o (b \o longer)
<1>1. rest = b \o c /\ longer = c \o d /\ rest \in Strings
    BY Concats DEF MadeOf
<1>2. (a \o rest) \o d = a \o (rest \o d)
    BY <1>1, Associates
<1>3. (b \o c) \o d = b \o (c \o d)
    BY Associates
<1> QED
    BY <1>1, <1>2, <1>3

LEMMA UptoIs ==
    ASSUME NEW list \in Seq(Strings)
    PROVE  Steps(Strings, Joining, <<>>, list, Upto(list))
<1> DEFINE Body(f) == [n \in 0 .. Len(list) |-> IF n = 0 THEN <<>> ELSE f[n - 1] \o list[n]]
<1>1. Joining \in [Strings \X Strings -> Strings] /\ <<>> \in Strings
    BY DEF Joining, Strings
<1>2. PICK f : Steps(Strings, Joining, <<>>, list, f)
    BY <1>1, StepsExist
<1>3. f = Body(f)
    <2>1. f \in [0 .. Len(list) -> Strings] /\ Runs(Joining, <<>>, list, Len(list), f)
        BY <1>2 DEF Steps
    <2>2. ASSUME NEW n \in 0 .. Len(list)
          PROVE  f[n] = IF n = 0 THEN <<>> ELSE f[n - 1] \o list[n]
        <3>1. CASE n = 0
            BY <2>1, <3>1 DEF Runs
        <3>2. CASE n # 0
            <4>1. n \in 1 .. Len(list) /\ n - 1 \in 0 .. Len(list)
                BY <3>2
            <4>2. f[n] = Joining[<<f[n - 1], list[n]>>]
                BY <2>1, <4>1 DEF Runs
            <4>3. f[n - 1] \in Strings /\ list[n] \in Strings
                BY <2>1, <4>1
            <4> QED
                BY <3>2, <4>2, <4>3 DEF Joining
        <3> QED
            BY <3>1, <3>2
    <2> QED
        BY <2>1, <2>2
<1>4. Upto(list) = CHOOSE g : g = Body(g)
    BY DEF Upto
<1>5. Upto(list) = Body(Upto(list))
    <2> HIDE DEF Body
    <2> QED
        BY <1>3, <1>4
<1> DEFINE g == Upto(list)
<1>6. /\ g = [n \in 0 .. Len(list) |-> g[n]] /\ g[0] = <<>>
      /\ \A n \in 1 .. Len(list) : g[n] = g[n - 1] \o list[n]
    <2>1. \A n \in 1 .. Len(list) : n \in 0 .. Len(list) /\ n # 0
        OBVIOUS
    <2>2. Len(list) \in Nat
        OBVIOUS
    <2> QED
        BY <1>5, <2>1, <2>2
<1> HIDE DEF g
<1>7. ASSUME NEW n \in 1 .. Len(list), g[n - 1] \in Strings
      PROVE  g[n] = Joining[<<g[n - 1], list[n]>>]
    <2>1. list[n] \in Strings /\ g[n] = g[n - 1] \o list[n]
        BY <1>6
    <2> QED
        BY <1>7, <2>1 DEF Joining
<1>8. Steps(Strings, Joining, <<>>, list, g)
    BY <1>1, <1>6, <1>7, StepsOf
<1> QED
    BY <1>8 DEF g

LEMMA UptoFacts ==
    ASSUME NEW list \in Seq(Strings)
    PROVE  /\ Upto(list)[0] = <<>> /\ \A n \in 0 .. Len(list) : Upto(list)[n] \in Strings
           /\ \A n \in 1 .. Len(list) : Upto(list)[n] = Upto(list)[n - 1] \o list[n]
           /\ Join(list) \in Strings
<1> DEFINE g == Upto(list)
<1>1. g \in [0 .. Len(list) -> Strings] /\ Runs(Joining, <<>>, list, Len(list), g)
    BY UptoIs DEF Steps
<1> HIDE DEF g
<1>2. ASSUME NEW n \in 1 .. Len(list)
      PROVE  g[n] = g[n - 1] \o list[n]
    <2>1. g[n - 1] \in Strings /\ list[n] \in Strings
        BY <1>1
    <2>2. g[n] = Joining[<<g[n - 1], list[n]>>]
        BY <1>1 DEF Runs
    <2> QED
        BY <2>1, <2>2 DEF Joining
<1>3. g[0] = <<>>
    BY <1>1 DEF Runs
<1>4. Len(list) \in 0 .. Len(list)
    OBVIOUS
<1> QED
    BY <1>1, <1>2, <1>3, <1>4 DEF g, Join

\* Lists that begin with the same strings are the same up to there.
LEMMA UptoAgrees ==
    ASSUME NEW list \in Seq(Strings), NEW other \in Seq(Strings),
           NEW n \in 0 .. Len(list), n <= Len(other),
           \A i \in 1 .. n : list[i] = other[i]
    PROVE  Upto(list)[n] = Upto(other)[n]
<1> DEFINE f == Upto(list)
           g == Upto(other)
<1>1. Runs(Joining, <<>>, list, Len(list), f) /\ Runs(Joining, <<>>, other, Len(other), g)
    BY UptoIs DEF Steps
<1> HIDE DEF f, g
<1>2. Runs(Joining, <<>>, list, n, f) /\ Runs(Joining, <<>>, list, n, g)
    BY <1>1 DEF Runs
<1>3. \A i \in 0 .. n : f[i] = g[i]
    BY <1>2, StepsAreOne
<1> QED
    BY <1>3 DEF f, g

LEMMA JoinAppend ==
    ASSUME NEW list \in Seq(Strings), NEW string \in Strings
    PROVE  Join(Append(list, string)) = Join(list) \o string
<1> DEFINE longer == Append(list, string)
           n == Len(list)
<1>1. /\ longer \in Seq(Strings) /\ Len(longer) = n + 1 /\ n \in Nat
      /\ longer[n + 1] = string /\ \A i \in 1 .. n : longer[i] = list[i]
    OBVIOUS
<1> HIDE DEF longer
<1>2. Upto(longer)[n] = Upto(list)[n]
    BY <1>1, UptoAgrees
<1>3. n + 1 \in 1 .. Len(longer) /\ (n + 1) - 1 = n
    BY <1>1
<1>4. Upto(longer)[n + 1] = Upto(longer)[n] \o longer[n + 1]
    BY <1>1, <1>3, UptoFacts
<1> QED
    BY <1>1, <1>2, <1>4 DEF Join, longer

LEMMA JoinNone == Join(<<>>) = <<>>
<1>1. <<>> \in Seq(Strings) /\ Len(<<>>) = 0
    OBVIOUS
<1> QED
    BY <1>1, UptoFacts DEF Join

LEMMA JoinOne ==
    ASSUME NEW string \in Strings
    PROVE  Join(<<string>>) = string
<1>1. <<string>> = Append(<<>>, string) /\ <<>> \in Seq(Strings)
    OBVIOUS
<1>2. Join(<<string>>) = <<>> \o string
    BY <1>1, JoinAppend, JoinNone
<1> QED
    BY <1>2, Concats

LEMMA JoinFirst ==
    ASSUME NEW list \in Seq(Strings), list # <<>>
    PROVE  Join(list) = Head(list) \o Join(Tail(list))
<1> DEFINE n == Len(list)
           rest == Tail(list)
           f == Upto(rest)
           g == [i \in 0 .. n |-> IF i = 0 THEN <<>> ELSE list[1] \o f[i - 1]]
<1>1. /\ n \in Nat \ {0} /\ rest \in Seq(Strings) /\ Len(rest) = n - 1
      /\ \A i \in 1 .. n - 1 : rest[i] = list[i + 1]
      /\ list[1] \in Strings /\ Head(list) = list[1] /\ \A i \in 1 .. n : list[i] \in Strings
    OBVIOUS
<1> HIDE DEF rest, n
<1>2. /\ f[0] = <<>> /\ \A i \in 0 .. n - 1 : f[i] \in Strings
      /\ \A i \in 1 .. n - 1 : f[i] = f[i - 1] \o rest[i]
    BY <1>1, UptoFacts
<1> HIDE DEF f
<1>3. g[0] = <<>> /\ \A i \in 1 .. n : g[i] = list[1] \o f[i - 1]
    <2>1. 0 \in 0 .. n /\ \A i \in 1 .. n : i \in 0 .. n /\ i # 0
        BY <1>1
    <2> QED
        BY <2>1
<1> HIDE DEF g
<1>4. ASSUME NEW i \in 1 .. n
      PROVE  g[i] = Joining[<<g[i - 1], list[i]>>]
    <2>1. CASE i = 1
        <3>1. g[i] = list[1] \o <<>> /\ g[i - 1] = <<>>
            <4>1. i - 1 = 0
                BY <2>1
            <4>2. g[i] = list[1] \o f[i - 1]
                BY <1>3
            <4> QED
                BY <1>2, <1>3, <4>1, <4>2
        <3>2. list[1] \o <<>> = <<>> \o list[1]
            BY <1>1, Concats
        <3>3. <<>> \in Strings
            BY Concats
        <3> QED
            BY <1>1, <2>1, <3>1, <3>2, <3>3 DEF Joining
    <2>2. CASE i # 1
        <3>1. i - 1 \in 1 .. n - 1 /\ i - 2 \in 0 .. n - 1 /\ i - 1 \in 1 .. n /\ (i - 1) - 1 = i - 2
            BY <1>1, <2>2
        <3>2. f[i - 1] = f[i - 2] \o list[i]
            <4>1. f[i - 1] = f[(i - 1) - 1] \o rest[i - 1]
                BY <1>2, <3>1
            <4>2. rest[i - 1] = list[(i - 1) + 1] /\ (i - 1) + 1 = i
                BY <1>1, <3>1
            <4> QED
                BY <3>1, <4>1, <4>2
        <3>3. g[i] = list[1] \o f[i - 1] /\ g[i - 1] = list[1] \o f[i - 2]
            <4>1. g[i - 1] = list[1] \o f[(i - 1) - 1]
                BY <1>3, <3>1
            <4> QED
                BY <1>3, <3>1, <4>1
        <3>4. f[i - 2] \in Strings /\ list[i] \in Strings
            BY <1>1, <1>2, <3>1
        <3>5. list[1] \o (f[i - 2] \o list[i]) = (list[1] \o f[i - 2]) \o list[i]
            BY <1>1, <3>4, Concats
        <3>6. g[i - 1] \in Strings
            BY <1>1, <3>3, <3>4, Concats
        <3> QED
            BY <3>2, <3>3, <3>4, <3>5, <3>6 DEF Joining
    <2> QED
        BY <2>1, <2>2
<1>5. Runs(Joining, <<>>, list, n, g)
    BY <1>3, <1>4 DEF Runs
<1> DEFINE h == Upto(list)
<1>6. Runs(Joining, <<>>, list, n, h)
    BY UptoIs DEF Steps, n
<1> HIDE DEF h
<1>7. \A i \in 0 .. n : h[i] = g[i]
    <2>1. n \in Nat
        BY <1>1
    <2> QED
        BY <1>5, <1>6, <2>1, StepsAreOne
<1>8. h[n] = list[1] \o f[n - 1]
    <2>1. n \in 0 .. n /\ n \in 1 .. n
        BY <1>1
    <2>2. g[n] = list[1] \o f[n - 1]
        BY <1>3, <2>1
    <2>3. h[n] = g[n]
        BY <1>7, <2>1
    <2> QED
        BY <2>2, <2>3
<1>9. f[n - 1] = Join(rest)
    BY <1>1 DEF Join, f
<1> QED
    BY <1>1, <1>8, <1>9 DEF Join, n, rest, h

-------------------------------------------------------------------------------
(* Numbers and their digits. *)

Figures == 0 .. Base - 1

LEMMA Divided ==
    ASSUME NEW n \in Nat, n >= Base
    PROVE  /\ n \div Base \in Nat /\ n \div Base < n /\ n % Base \in Figures
           /\ (n \div Base) * Base + (n % Base) = n
<1> DEFINE q == n \div Base
           r == n % Base
<1>1. q \in Int /\ r \in 0 .. Base - 1 /\ r = n - q * Base
    BY BoundsAssumption
<1>2. Base \in Nat /\ Base >= 2
    BY BoundsAssumption
<1> HIDE DEF q, r
<1>3. q * Base \in Int
    BY <1>1, <1>2
<1>4. q >= 0
    <2> SUFFICES ASSUME q <= -1 PROVE FALSE
        BY <1>1
    <2>1. (-1 - q) * Base >= 0
        BY <1>1, <1>2
    <2>2. (-1 - q) * Base = -Base - q * Base
        BY <1>1, <1>2
    <2> QED
        BY <1>1, <1>2, <1>3, <2>1, <2>2
<1>5. q < n
    <2>1. q * (Base - 2) >= 0
        BY <1>1, <1>2, <1>4
    <2>2. q * (Base - 2) = q * Base - q - q
        BY <1>1, <1>2
    <2> QED
        BY <1>1, <1>2, <1>3, <1>4, <2>1, <2>2
<1> QED
    BY <1>1, <1>3, <1>4, <1>5 DEF q, r, Figures

Digit(digits, n) == IF n < Base THEN <<n>> ELSE Append(digits[n \div Base], n % Base)
DigitsUpTo(last, digits) == \A n \in 0 .. last : digits[n] = Digit(digits, n)

LEMMA DigitsAreOne ==
    ASSUME NEW last \in Nat, NEW f, NEW g, DigitsUpTo(last, f), DigitsUpTo(last, g)
    PROVE  \A n \in 0 .. last : f[n] = g[n]
<1> DEFINE S == {n \in Nat : \A i \in 0 .. n : i <= last => f[i] = g[i]}
<1>1. Base \in Nat /\ Base >= 2
    BY BoundsAssumption
<1>2. 0 \in S
    <2>1. 0 \in 0 .. last /\ 0 < Base
        BY <1>1
    <2>2. f[0] = Digit(f, 0) /\ g[0] = Digit(g, 0)
        BY <2>1 DEF DigitsUpTo
    <2>3. f[0] = g[0]
        BY <2>1, <2>2 DEF Digit
    <2>4. \A i \in 0 .. 0 : i = 0
        OBVIOUS
    <2> QED
        BY <2>3, <2>4
<1>3. ASSUME NEW n \in S
      PROVE  n + 1 \in S
    <2>1. n \in Nat /\ \A i \in 0 .. n : i <= last => f[i] = g[i]
        OBVIOUS
    <2> HIDE DEF S
    <2>2. ASSUME n + 1 <= last
          PROVE  f[n + 1] = g[n + 1]
        <3>1. n + 1 \in 0 .. last /\ n + 1 \in Nat
            BY <2>1, <2>2
        <3>2. f[n + 1] = Digit(f, n + 1) /\ g[n + 1] = Digit(g, n + 1)
            BY <3>1 DEF DigitsUpTo
        <3>3. CASE n + 1 < Base
            BY <3>2, <3>3 DEF Digit
        <3>4. CASE ~(n + 1 < Base)
            <4>1. n + 1 >= Base
                BY <1>1, <3>1, <3>4
            <4> DEFINE q == (n + 1) \div Base
            <4>2. q \in Nat /\ q < n + 1
                BY <3>1, <4>1, Divided
            <4> HIDE DEF q
            <4>3. q \in 0 .. n /\ q <= last
                BY <2>1, <2>2, <4>2
            <4>4. f[q] = g[q]
                BY <2>1, <4>3
            <4> QED
                BY <3>2, <3>4, <4>4 DEF Digit, q
        <3> QED
            BY <3>3, <3>4
    <2>3. \A i \in 0 .. n + 1 : i \in 0 .. n \/ i = n + 1
        BY <2>1
    <2>4. \A i \in 0 .. n + 1 : i <= last => f[i] = g[i]
        BY <2>1, <2>2, <2>3
    <2> QED
        BY <2>1, <2>4 DEF S
<1>4. S = Nat
    <2> HIDE DEF S
    <2>1. S \in SUBSET Nat
        BY DEF S
    <2> QED
        BY <1>2, <1>3, <2>1, Induct
<1>5. last \in S
    <2> HIDE DEF S
    <2> QED
        BY <1>4
<1> QED
    BY <1>5

LEMMA DigitsExist ==
    ASSUME NEW last \in Nat
    PROVE  \E f \in [0 .. last -> Seq(Figures)] : DigitsUpTo(last, f)
<1> DEFINE S == {n \in Nat : \E f \in [0 .. n -> Seq(Figures)] : DigitsUpTo(n, f)}
<1>1. Base \in Nat /\ Base >= 2
    BY BoundsAssumption
<1>2. 0 \in S
    <2> DEFINE f == [n \in 0 .. 0 |-> <<n>>]
    <2>1. \A n \in 0 .. 0 : n = 0 /\ <<n>> \in Seq(Figures) /\ n < Base
        BY <1>1 DEF Figures
    <2>2. f \in [0 .. 0 -> Seq(Figures)] /\ DigitsUpTo(0, f)
        BY <2>1 DEF DigitsUpTo, Digit
    <2> QED
        BY <2>2
<1>3. ASSUME NEW n \in S
      PROVE  n + 1 \in S
    <2>1. n \in Nat
        OBVIOUS
    <2>2. PICK f \in [0 .. n -> Seq(Figures)] : DigitsUpTo(n, f)
        OBVIOUS
    <2> DEFINE digit == Digit(f, n + 1)
               g == [i \in 0 .. n + 1 |-> IF i = n + 1 THEN digit ELSE f[i]]
    <2>3. digit \in Seq(Figures)
        <3>1. CASE n + 1 < Base
            BY <1>1, <2>1, <3>1 DEF Digit, Figures
        <3>2. CASE ~(n + 1 < Base)
            <4>1. n + 1 >= Base /\ n + 1 \in Nat
                BY <1>1, <2>1, <3>2
            <4>2. /\ (n + 1) \div Base \in 0 .. n /\ (n + 1) % Base \in Figures
                BY <2>1, <4>1, Divided
            <4>3. f[(n + 1) \div Base] \in Seq(Figures)
                BY <2>2, <4>2
            <4> QED
                BY <3>2, <4>2, <4>3, AppendProperties DEF Digit
        <3> QED
            BY <3>1, <3>2
    <2> HIDE DEF digit
    <2>4. g \in [0 .. n + 1 -> Seq(Figures)] /\ g[n + 1] = digit /\ \A i \in 0 .. n : g[i] = f[i]
        BY <2>1, <2>2, <2>3
    <2> HIDE DEF g
    <2>5. ASSUME NEW i \in 0 .. n + 1
          PROVE  g[i] = Digit(g, i)
        <3>1. i \in Nat
            BY <2>1
        <3>2. g[i] = Digit(f, i)
            <4>1. CASE i = n + 1
                BY <2>4, <4>1 DEF digit
            <4>2. CASE i # n + 1
                <5>1. i \in 0 .. n
                    BY <2>1, <4>2
                <5>2. f[i] = Digit(f, i)
                    BY <2>2, <5>1 DEF DigitsUpTo
                <5> QED
                    BY <2>4, <5>1, <5>2
            <4> QED
                BY <4>1, <4>2
        <3>3. CASE i < Base
            BY <3>2, <3>3 DEF Digit
        <3>4. CASE ~(i < Base)
            <4>1. i >= Base
                BY <1>1, <3>1, <3>4
            <4> DEFINE q == i \div Base
            <4>2. q \in Nat /\ q < i
                BY <3>1, <4>1, Divided
            <4> HIDE DEF q
            <4>3. q \in 0 .. n
                BY <2>1, <4>2
            <4>4. g[q] = f[q]
                BY <2>4, <4>3
            <4> QED
                BY <3>2, <3>4, <4>4 DEF Digit, q
        <3> QED
            BY <3>3, <3>4
    <2>6. DigitsUpTo(n + 1, g)
        BY <2>5 DEF DigitsUpTo
    <2> QED
        BY <2>1, <2>4, <2>6
<1>4. S = Nat
    <2> HIDE DEF S
    <2>1. S \in SUBSET Nat
        BY DEF S
    <2> QED
        BY <1>2, <1>3, <2>1, Induct
<1>5. last \in S
    <2> HIDE DEF S
    <2> QED
        BY <1>4
<1> QED
    BY <1>5

LEMMA DigitsIs ==
    /\ Digits \in [Nat -> Seq(Figures)]
    /\ \A n \in Nat : Digits[n] = Digit(Digits, n)
<1> DEFINE Ok(f, n) == f \in [0 .. n -> Seq(Figures)] /\ DigitsUpTo(n, f)
           upto(n) == CHOOSE f : Ok(f, n)
           F == [n \in Nat |-> upto(n)[n]]
<1>1. ASSUME NEW n \in Nat
      PROVE  Ok(upto(n), n)
    <2>1. \E f : Ok(f, n)
        BY DigitsExist
    <2> HIDE DEF Ok
    <2> QED
        BY <2>1
<1> HIDE DEF upto
<1>2. F \in [Nat -> Seq(Figures)]
    BY <1>1
<1>3. \A n \in Nat : F[n] = upto(n)[n]
    OBVIOUS
<1> HIDE DEF F
<1>4. ASSUME NEW n \in Nat
      PROVE  F[n] = Digit(F, n)
    <2> DEFINE f == upto(n)
    <2>1. DigitsUpTo(n, f)
        BY <1>1
    <2>2. F[n] = Digit(f, n)
        BY <1>3, <2>1 DEF DigitsUpTo
    <2>3. CASE n < Base
        BY <2>2, <2>3 DEF Digit
    <2>4. CASE ~(n < Base)
        <3>1. n >= Base
            BY <2>4, BoundsAssumption
        <3> DEFINE q == n \div Base
        <3>2. q \in Nat /\ q < n
            BY <3>1, Divided
        <3> HIDE DEF q
        <3> DEFINE g == upto(q)
        <3>3. DigitsUpTo(q, g)
            BY <1>1, <3>2
        <3>4. DigitsUpTo(q, f)
            BY <2>1, <3>2 DEF DigitsUpTo
        <3>5. F[q] = g[q]
            BY <1>3, <3>2
        <3> HIDE DEF f, g
        <3>6. f[q] = g[q]
            BY <3>2, <3>3, <3>4, DigitsAreOne
        <3> QED
            BY <2>2, <2>4, <3>5, <3>6 DEF Digit, q, f
    <2> QED
        BY <2>3, <2>4
<1> DEFINE Body(f) == [n \in Nat |-> IF n < Base THEN <<n>> ELSE Append(f[n \div Base], n % Base)]
<1>5. F = Body(F)
    BY <1>2, <1>4 DEF Digit
<1>6. Digits = CHOOSE f : f = Body(f)
    BY DEF Digits
<1>7. Digits = Body(Digits)
    <2> HIDE DEF Body
    <2> QED
        BY <1>5, <1>6
<1> DEFINE S == {n \in Nat : \A i \in 0 .. n : Digits[i] = F[i]}
<1>8. \A n \in Nat : Digits[n] = Digit(Digits, n)
    BY <1>7 DEF Digit
<1>9. ASSUME NEW n \in Nat
      PROVE  Digits[n] = F[n]
    <2>1. DigitsUpTo(n, Digits) /\ DigitsUpTo(n, F)
        BY <1>4, <1>8 DEF DigitsUpTo
    <2>2. \A i \in 0 .. n : Digits[i] = F[i]
        BY <2>1, DigitsAreOne
    <2> QED
        BY <2>2
<1>10. Digits = [n \in Nat |-> Digits[n]]
    BY <1>7
<1>11. \A n \in Nat : Digits[n] \in Seq(Figures)
    BY <1>2, <1>9
<1> QED
    BY <1>8, <1>10, <1>11

\* One more digit, as a function.
Shifting == [p \in Nat \X Figures |-> p[1] * Base + p[2]]

LEMMA NumberIs ==
    ASSUME NEW digits \in Seq(Figures)
    PROVE  \E number \in [0 .. Len(digits) -> Nat] :
              Runs(Shifting, 0, digits, Len(digits), number) /\ Number(digits) = number[Len(digits)]
<1> DEFINE Body(f) == [n \in 0 .. Len(digits) |-> IF n = 0 THEN 0 ELSE f[n - 1] * Base + digits[n]]
<1>1. Shifting \in [Nat \X Figures -> Nat]
    <2>1. \A a \in Nat, b \in Figures : a * Base + b \in Nat
        BY BoundsAssumption DEF Figures
    <2> QED
        BY <2>1 DEF Shifting
<1>2. PICK f : Steps(Nat, Shifting, 0, digits, f)
    BY <1>1, StepsExist
<1>3. f = Body(f)
    <2>1. f \in [0 .. Len(digits) -> Nat] /\ Runs(Shifting, 0, digits, Len(digits), f)
        BY <1>2 DEF Steps
    <2>2. ASSUME NEW n \in 0 .. Len(digits)
          PROVE  f[n] = IF n = 0 THEN 0 ELSE f[n - 1] * Base + digits[n]
        <3>1. CASE n = 0
            BY <2>1, <3>1 DEF Runs
        <3>2. CASE n # 0
            <4>1. n \in 1 .. Len(digits) /\ n - 1 \in 0 .. Len(digits)
                BY <3>2
            <4>2. f[n] = Shifting[<<f[n - 1], digits[n]>>]
                BY <2>1, <4>1 DEF Runs
            <4>3. f[n - 1] \in Nat /\ digits[n] \in Figures
                BY <2>1, <4>1
            <4> QED
                BY <3>2, <4>2, <4>3 DEF Shifting
        <3> QED
            BY <3>1, <3>2
    <2> QED
        BY <2>1, <2>2
<1> DEFINE g == CHOOSE h : h = Body(h)
<1>4. Number(digits) = g[Len(digits)]
    BY DEF Number
<1>5. g = Body(g)
    <2> HIDE DEF Body
    <2> QED
        BY <1>3
<1> HIDE DEF g
<1>6. /\ g = [n \in 0 .. Len(digits) |-> g[n]] /\ g[0] = 0
      /\ \A n \in 1 .. Len(digits) : g[n] = g[n - 1] * Base + digits[n]
    <2>1. DOMAIN g = 0 .. Len(digits) /\ 0 \in 0 .. Len(digits)
        BY <1>5
    <2>2. \A n \in 0 .. Len(digits) : g[n] = IF n = 0 THEN 0 ELSE g[n - 1] * Base + digits[n]
        BY <1>5
    <2>3. g = [n \in 0 .. Len(digits) |-> g[n]]
        BY <1>5, <2>1
    <2>4. \A n \in 1 .. Len(digits) : n \in 0 .. Len(digits) /\ n # 0
        OBVIOUS
    <2> QED
        BY <2>1, <2>2, <2>3, <2>4
<1>7. ASSUME NEW n \in 1 .. Len(digits), g[n - 1] \in Nat
      PROVE  g[n] = Shifting[<<g[n - 1], digits[n]>>]
    <2>1. digits[n] \in Figures
        OBVIOUS
    <2>2. g[n] = g[n - 1] * Base + digits[n]
        BY <1>6
    <2> QED
        BY <1>7, <2>1, <2>2 DEF Shifting
<1>8. Steps(Nat, Shifting, 0, digits, g)
    BY <1>1, <1>6, <1>7, StepsOf
<1> QED
    BY <1>4, <1>8 DEF Steps

LEMMA NumberAppend ==
    ASSUME NEW digits \in Seq(Figures), NEW digit \in Figures
    PROVE  /\ Number(digits) \in Nat
           /\ Number(Append(digits, digit)) = Number(digits) * Base + digit
<1> DEFINE longer == Append(digits, digit)
           n == Len(digits)
<1>1. /\ longer \in Seq(Figures) /\ Len(longer) = n + 1 /\ n \in Nat
      /\ longer[n + 1] = digit /\ \A i \in 1 .. n : longer[i] = digits[i]
    OBVIOUS
<1>2. PICK f \in [0 .. n -> Nat] : Runs(Shifting, 0, digits, n, f) /\ Number(digits) = f[n]
    BY NumberIs
<1> HIDE DEF longer
<1>3. PICK g \in [0 .. Len(longer) -> Nat] :
          Runs(Shifting, 0, longer, Len(longer), g) /\ Number(longer) = g[Len(longer)]
    BY <1>1, NumberIs
<1> HIDE DEF n
<1>4. Runs(Shifting, 0, digits, n, g)
    <2>1. \A i \in 1 .. n : i \in 1 .. Len(longer)
        BY <1>1
    <2> QED
        BY <1>1, <1>3, <2>1 DEF Runs
<1>5. f[n] = g[n]
    <2>1. n \in Nat /\ Runs(Shifting, 0, digits, n, f)
        BY <1>1, <1>2
    <2>2. \A i \in 0 .. n : f[i] = g[i]
        BY <1>4, <2>1, StepsAreOne
    <2> QED
        BY <2>1, <2>2
<1>6. g[n + 1] = Shifting[<<g[n], digit>>]
    <2>1. n + 1 \in 1 .. Len(longer) /\ (n + 1) - 1 = n
        <3>1. n \in Nat /\ Len(longer) = n + 1
            BY <1>1
        <3> QED
            BY <3>1
    <2>2. g[n + 1] = Shifting[<<g[(n + 1) - 1], longer[n + 1]>>]
        BY <1>3, <2>1 DEF Runs
    <2> QED
        BY <1>1, <2>1, <2>2
<1>7. g[n] \in Nat
    BY <1>1, <1>3
<1> QED
    BY <1>1, <1>2, <1>3, <1>5, <1>6, <1>7 DEF Shifting, longer

LEMMA NumberOne ==
    ASSUME NEW digit \in Figures
    PROVE  Number(<<digit>>) = digit
<1>1. <<>> \in Seq(Figures) /\ Len(<<>>) = 0 /\ <<digit>> = Append(<<>>, digit)
    OBVIOUS
<1>2. Number(<<>>) = 0
    BY <1>1, NumberIs DEF Runs
<1>3. Number(<<digit>>) = Number(<<>>) * Base + digit
    BY <1>1, NumberAppend
<1> QED
    BY <1>2, <1>3, BoundsAssumption DEF Figures

\* The decoder reads the number the encoder has written.
LEMMA NumberOfDigits ==
    ASSUME NEW n \in Nat
    PROVE  /\ Digits[n] \in Seq(Figures) /\ Digits[n] # <<>>
           /\ Number(Digits[n]) = n
<1> DEFINE Ok(i) == Digits[i] # <<>> /\ Number(Digits[i]) = i
           S == {m \in Nat : \A i \in 0 .. m : Ok(i)}
<1>1. Base \in Nat /\ Base >= 2
    BY BoundsAssumption
<1>2. ASSUME NEW i \in Nat, i < Base
      PROVE  Ok(i)
    <2>1. i \in Figures
        BY <1>1, <1>2 DEF Figures
    <2>2. Digits[i] = Digit(Digits, i)
        BY DigitsIs
    <2>3. Digits[i] = <<i>>
        BY <1>2, <2>2 DEF Digit
    <2> QED
        BY <2>1, <2>3, NumberOne
<1>3. ASSUME NEW i \in Nat, i >= Base, Ok(i \div Base)
      PROVE  Ok(i)
    <2>1. /\ i \div Base \in Nat /\ i % Base \in Figures
          /\ (i \div Base) * Base + (i % Base) = i
        BY <1>3, Divided
    <2>2. Digits[i] = Append(Digits[i \div Base], i % Base) /\ Digits[i \div Base] \in Seq(Figures)
        <3>1. Digits[i] = Digit(Digits, i) /\ Digits[i \div Base] \in Seq(Figures)
            BY <2>1, DigitsIs
        <3>2. ~(i < Base)
            BY <1>1, <1>3
        <3> QED
            BY <3>1, <3>2 DEF Digit
    <2>3. Number(Digits[i]) = Number(Digits[i \div Base]) * Base + (i % Base)
        BY <2>1, <2>2, NumberAppend
    <2>4. Digits[i] # <<>>
        BY <2>1, <2>2, AppendProperties
    <2> QED
        BY <1>3, <2>1, <2>3, <2>4
<1> HIDE DEF Ok
<1>4. 0 \in S
    BY <1>1, <1>2
<1>5. ASSUME NEW m \in S
      PROVE  m + 1 \in S
    <2>1. m \in Nat /\ \A i \in 0 .. m : Ok(i)
        OBVIOUS
    <2> HIDE DEF S
    <2>2. Ok(m + 1)
        <3>1. m + 1 \in Nat
            BY <2>1
        <3>2. CASE m + 1 < Base
            BY <1>2, <3>1, <3>2
        <3>3. CASE m + 1 >= Base
            <4>1. (m + 1) \div Base \in 0 .. m
                BY <2>1, <3>1, <3>3, Divided
            <4>2. Ok((m + 1) \div Base)
                BY <2>1, <4>1
            <4> QED
                BY <1>3, <3>1, <3>3, <4>2
        <3> QED
            BY <1>1, <3>1, <3>2, <3>3
    <2>3. \A i \in 0 .. m + 1 : i \in 0 .. m \/ i = m + 1
        BY <2>1
    <2>4. \A i \in 0 .. m + 1 : Ok(i)
        BY <2>1, <2>2, <2>3
    <2> QED
        BY <2>1, <2>4 DEF S
<1>6. S = Nat
    <2> HIDE DEF S
    <2>1. S \in SUBSET Nat
        BY DEF S
    <2> QED
        BY <1>4, <1>5, <2>1, Induct
<1>7. Ok(n)
    <2>1. n \in S
        <3> HIDE DEF S
        <3> QED
            BY <1>6
    <2> QED
        BY <2>1
<1> QED
    BY <1>7, DigitsIs DEF Ok

-------------------------------------------------------------------------------
(* Chunks on their way. *)

Bodies == Strings \ {<<>>}

Code(body) == Header(Len(body)) \o body
Codes(chunks) == [i \in 1 .. Len(chunks) |-> Code(chunks[i])]
Coded(chunks) == Join(Codes(chunks))

\* What closes the stream when it is done, and what was written after that.
Closing(done, more) == IF done THEN {<<0, CR, LF>> \o more, <<0, LF>> \o more} ELSE {<<>>}

\* Octets that stand for this content.
Stands(octets, content, done, more) ==
    \E chunks \in Seq(Bodies), end \in Closing(done, more) :
        octets = Coded(chunks) \o end /\ content = Join(chunks)

LEMMA OctetsAre ==
    /\ CR \in Octets /\ LF \in Octets /\ Other \in Octets /\ 0 \in Figures
    /\ Figures \subseteq Octets /\ CR \notin Figures /\ LF \notin Figures /\ Other \notin Figures
    /\ CR # LF /\ CR # Other /\ LF # Other
    /\ <<CR, LF>> \in Strings /\ <<LF>> \in Strings
    /\ <<0, CR, LF>> \in Strings /\ <<0, LF>> \in Strings
<1>1. Base \in Nat /\ Base >= 2
    BY BoundsAssumption
<1>2. CR \in Octets /\ LF \in Octets /\ 0 \in Octets
    BY <1>1 DEF Octets, CR, LF, Other
<1>3. <<CR, LF>> \in Strings /\ <<LF>> \in Strings /\ <<0, CR, LF>> \in Strings /\ <<0, LF>> \in Strings
    BY <1>2 DEF Strings
<1> QED
    BY <1>1, <1>3 DEF Octets, CR, LF, Other, Figures

LEMMA ListsAreLists == Seq(Bodies) \subseteq Seq(Strings)
BY DEF Bodies

LEMMA CodeType ==
    ASSUME NEW body \in Strings
    PROVE  Header(Len(body)) \in Strings /\ Code(body) \in Strings
<1>1. Len(body) \in Nat
    BY DEF Strings
<1>2. Digits[Len(body)] \in Seq(Figures)
    BY <1>1, NumberOfDigits
<1>3. Digits[Len(body)] \in Strings
    BY <1>2, OctetsAre, SeqMonotonic DEF Strings
<1>4. Header(Len(body)) \in Strings
    BY <1>3, OctetsAre, Concats DEF Header
<1> QED
    BY <1>4, Concats DEF Code

LEMMA CodesType ==
    ASSUME NEW chunks \in Seq(Bodies)
    PROVE  /\ Codes(chunks) \in Seq(Strings) /\ Len(Codes(chunks)) = Len(chunks)
           /\ Coded(chunks) \in Strings /\ Join(chunks) \in Strings
<1>1. \A i \in 1 .. Len(chunks) : chunks[i] \in Strings
    BY DEF Bodies
<1>2. \A i \in 1 .. Len(chunks) : Code(chunks[i]) \in Strings
    BY <1>1, CodeType
<1>3. Codes(chunks) \in Seq(Strings) /\ Len(Codes(chunks)) = Len(chunks)
    BY <1>2 DEF Codes
<1>4. chunks \in Seq(Strings)
    BY ListsAreLists
<1> QED
    BY <1>3, <1>4, UptoFacts DEF Coded

LEMMA CodedNone == <<>> \in Seq(Bodies) /\ Coded(<<>>) = <<>>
<1>1. <<>> \in Seq(Bodies) /\ Codes(<<>>) = <<>>
    BY DEF Codes
<1> QED
    BY <1>1, JoinNone DEF Coded

LEMMA CodedAppend ==
    ASSUME NEW chunks \in Seq(Bodies), NEW body \in Bodies
    PROVE  /\ Append(chunks, body) \in Seq(Bodies)
           /\ Coded(Append(chunks, body)) = Coded(chunks) \o Code(body)
           /\ Join(Append(chunks, body)) = Join(chunks) \o body
<1>1. body \in Strings /\ Code(body) \in Strings /\ chunks \in Seq(Strings)
    BY CodeType, ListsAreLists DEF Bodies
<1> DEFINE longer == Append(chunks, body)
           n == Len(chunks)
<1>2. /\ longer \in Seq(Bodies) /\ Len(longer) = n + 1 /\ n \in Nat
      /\ longer[n + 1] = body /\ \A i \in 1 .. n : longer[i] = chunks[i]
    OBVIOUS
<1> HIDE DEF longer
<1>3. Codes(longer) = Append(Codes(chunks), Code(body))
    <2> DEFINE s == Codes(longer)
               t == Append(Codes(chunks), Code(body))
    <2>1. s \in Seq(Strings) /\ Len(s) = n + 1
        BY <1>2, CodesType
    <2>2. t \in Seq(Strings) /\ Len(t) = n + 1 /\ t[n + 1] = Code(body)
          /\ \A i \in 1 .. n : t[i] = Codes(chunks)[i]
        BY <1>1, CodesType
    <2>3. ASSUME NEW i \in 1 .. n + 1
          PROVE  s[i] = t[i]
        <3>1. s[i] = Code(longer[i])
            BY <1>2 DEF Codes
        <3>2. CASE i = n + 1
            BY <1>2, <2>2, <3>1, <3>2
        <3>3. CASE i # n + 1
            <4>1. i \in 1 .. n
                BY <1>2, <3>3
            <4>2. t[i] = Code(chunks[i])
                BY <2>2, <4>1 DEF Codes
            <4> QED
                BY <1>2, <3>1, <4>1, <4>2
        <3> QED
            BY <3>2, <3>3
    <2> HIDE DEF s, t
    <2>4. s = t
        BY <2>1, <2>2, <2>3, SeqEqual
    <2> QED
        BY <2>4 DEF s, t
<1>4. Join(Codes(longer)) = Join(Codes(chunks)) \o Code(body)
    BY <1>1, <1>3, CodesType, JoinAppend
<1> QED
    BY <1>1, <1>2, <1>4, JoinAppend DEF Coded, longer

LEMMA CodedFirst ==
    ASSUME NEW chunks \in Seq(Bodies), chunks # <<>>
    PROVE  /\ Head(chunks) \in Bodies /\ Tail(chunks) \in Seq(Bodies)
           /\ Coded(chunks) = Code(Head(chunks)) \o Coded(Tail(chunks))
           /\ Join(chunks) = Head(chunks) \o Join(Tail(chunks))
<1> DEFINE rest == Tail(chunks)
           n == Len(chunks)
<1>1. /\ Head(chunks) \in Bodies /\ rest \in Seq(Bodies) /\ Len(rest) = n - 1 /\ n \in Nat \ {0}
      /\ Head(chunks) = chunks[1] /\ \A i \in 1 .. n - 1 : rest[i] = chunks[i + 1]
    OBVIOUS
<1> HIDE DEF rest
<1>2. Codes(chunks) \in Seq(Strings) /\ Len(Codes(chunks)) = n
    BY CodesType
<1>3. Codes(chunks) # <<>> /\ Head(Codes(chunks)) = Code(Head(chunks))
    <2>1. Codes(chunks)[1] = Code(chunks[1])
        BY <1>1 DEF Codes
    <2> QED
        BY <1>1, <1>2, <2>1
<1>4. Tail(Codes(chunks)) = Codes(rest)
    <2> DEFINE s == Tail(Codes(chunks))
               t == Codes(rest)
    <2>1. s \in Seq(Strings) /\ Len(s) = n - 1 /\ \A i \in 1 .. n - 1 : s[i] = Codes(chunks)[i + 1]
        BY <1>1, <1>2, <1>3, HeadTailProperties
    <2>2. t \in Seq(Strings) /\ Len(t) = n - 1
        BY <1>1, CodesType
    <2>3. ASSUME NEW i \in 1 .. n - 1
          PROVE  s[i] = t[i]
        <3>1. i + 1 \in 1 .. n
            BY <1>1
        <3>2. s[i] = Code(chunks[i + 1])
            BY <2>1, <3>1 DEF Codes
        <3>3. t[i] = Code(rest[i])
            BY <1>1 DEF Codes
        <3> QED
            BY <1>1, <3>2, <3>3
    <2> HIDE DEF s, t
    <2>4. s = t
        BY <2>1, <2>2, <2>3, SeqEqual
    <2> QED
        BY <2>4 DEF s, t
<1>5. Join(Codes(chunks)) = Code(Head(chunks)) \o Join(Codes(rest))
    BY <1>2, <1>3, <1>4, JoinFirst
<1>6. chunks \in Seq(Strings)
    BY ListsAreLists
<1>7. Join(chunks) = Head(chunks) \o Join(rest)
    BY <1>6, JoinFirst DEF rest
<1> QED
    BY <1>1, <1>5, <1>7 DEF Coded, rest

\* The writer's end: another chunk, the end marker, and what comes after it.
LEMMA ChunkFollows ==
    ASSUME NEW octets \in Strings, NEW content \in Strings, NEW body \in Bodies,
           Stands(octets, content, FALSE, <<>>)
    PROVE  Stands(octets \o Code(body), content \o body, FALSE, <<>>)
<1>1. PICK chunks \in Seq(Bodies) : octets = Coded(chunks) \o <<>> /\ content = Join(chunks)
    BY DEF Stands, Closing
<1>2. Coded(chunks) \in Strings
    BY CodesType
<1>3. octets = Coded(chunks)
    BY <1>1, <1>2, Concats
<1> DEFINE longer == Append(chunks, body)
<1>4. /\ longer \in Seq(Bodies) /\ Coded(longer) = octets \o Code(body)
      /\ Join(longer) = content \o body
    BY <1>1, <1>3, CodedAppend
<1> HIDE DEF longer
<1>5. octets \o Code(body) \in Strings
    BY CodeType, Concats DEF Bodies
<1>6. octets \o Code(body) = Coded(longer) \o <<>>
    BY <1>4, <1>5, Concats
<1> QED
    BY <1>4, <1>6 DEF Stands, Closing

LEMMA EndFollows ==
    ASSUME NEW octets \in Strings, NEW content \in Strings,
           NEW end \in {<<0, CR, LF>>, <<0, LF>>}, Stands(octets, content, FALSE, <<>>)
    PROVE  Stands(octets \o end, content, TRUE, <<>>)
<1>1. PICK chunks \in Seq(Bodies) : octets = Coded(chunks) \o <<>> /\ content = Join(chunks)
    BY DEF Stands, Closing
<1>2. octets = Coded(chunks)
    BY <1>1, CodesType, Concats
<1>3. end \o <<>> = end
    BY OctetsAre, Concats
<1>4. end \in Closing(TRUE, <<>>)
    BY <1>3, OctetsAre, Concats DEF Closing
<1> QED
    BY <1>1, <1>2, <1>4 DEF Stands

Marks == {<<0, CR, LF>>, <<0, LF>>}

LEMMA MoreFollows ==
    ASSUME NEW octets \in Strings, NEW content \in Strings, NEW more \in Strings,
           NEW octet \in Octets, Stands(octets, content, TRUE, more)
    PROVE  Stands(Append(octets, octet), content, TRUE, Append(more, octet))
<1>1. PICK chunks \in Seq(Bodies), end \in Marks :
          octets = Coded(chunks) \o (end \o more) /\ content = Join(chunks)
    BY DEF Stands, Closing, Marks
<1>2. /\ Append(octets, octet) = octets \o <<octet>> /\ Append(more, octet) = more \o <<octet>>
      /\ <<octet>> \in Strings
    BY AppendIsConcat DEF Strings
<1>3. Coded(chunks) \in Strings /\ end \in Strings
    BY CodesType, OctetsAre DEF Marks
<1> DEFINE coded == Coded(chunks)
           one == <<octet>>
<1> HIDE DEF coded, one
<1>4. (coded \o (end \o more)) \o one = coded \o (end \o (more \o one))
    <2> DEFINE rest == end \o more
               longer == more \o one
    <2>1. coded \in Strings /\ one \in Strings /\ end \in Strings
        BY <1>2, <1>3 DEF coded, one
    <2>2. MadeOf(rest, end, more) /\ MadeOf(longer, more, one)
        BY DEF MadeOf
    <2> HIDE DEF rest, longer
    <2>3. (coded \o rest) \o one = coded \o (end \o longer)
        BY <2>1, <2>2, RegroupLast
    <2> QED
        BY <2>3 DEF rest, longer
<1>5. end \o Append(more, octet) \in Closing(TRUE, Append(more, octet))
    BY DEF Closing, Marks
<1>6. Append(octets, octet) = Coded(chunks) \o (end \o Append(more, octet))
    BY <1>1, <1>2, <1>4 DEF coded, one
<1> QED
    BY <1>1, <1>5, <1>6 DEF Stands

\* Of one string split in two ways, the longer front part has the other one as its own.
LEMMA Levi ==
    ASSUME NEW a \in Strings, NEW p \in Strings, NEW b \in Strings, NEW r \in Strings,
           NEW octets, MadeOf(octets, a, p), MadeOf(octets, b, r), Len(a) <= Len(b)
    PROVE  \E c \in Strings : MadeOf(b, a, c) /\ MadeOf(p, c, r)
<1>0. a \o p = b \o r
    BY DEF MadeOf
<1> DEFINE whole == a \o p
           c == SubSeq(b, Len(a) + 1, Len(b))
<1>1. Len(a) \in Nat /\ Len(b) \in Nat /\ Len(p) \in Nat /\ Len(r) \in Nat
    BY DEF Strings
<1>2. \A i \in Len(a) + 1 .. Len(b) : i \in 1 .. Len(b)
    BY <1>1
<1>3. \A i \in Len(a) + 1 .. Len(b) : b[i] \in Octets
    BY <1>2 DEF Strings
<1>4. /\ c \in Strings /\ Len(c) = Len(b) - Len(a)
      /\ \A i \in 1 .. Len(b) - Len(a) : c[i] = b[Len(a) + i]
    <2>1. /\ c \in Seq(Octets)
          /\ Len(c) = IF Len(a) + 1 <= Len(b) THEN Len(b) - (Len(a) + 1) + 1 ELSE 0
          /\ \A i \in 1 .. Len(b) - (Len(a) + 1) + 1 : c[i] = b[Len(a) + 1 + i - 1]
        BY <1>1, <1>3, SubSeqProperties
    <2>2. /\ Len(b) - (Len(a) + 1) + 1 = Len(b) - Len(a)
          /\ (IF Len(a) + 1 <= Len(b) THEN Len(b) - (Len(a) + 1) + 1 ELSE 0) = Len(b) - Len(a)
        BY <1>1
    <2>3. \A i \in Nat : Len(a) + 1 + i - 1 = Len(a) + i
        BY <1>1
    <2>4. \A i \in 1 .. Len(b) - Len(a) : i \in Nat
        BY <1>1
    <2> HIDE DEF c
    <2> QED
        BY <2>1, <2>2, <2>3, <2>4 DEF Strings
<1> HIDE DEF c
<1>5. /\ Len(whole) = Len(a) + Len(p) /\ Len(b \o r) = Len(b) + Len(r)
      /\ \A i \in 1 .. Len(a) + Len(p) : whole[i] = IF i <= Len(a) THEN a[i] ELSE p[i - Len(a)]
      /\ \A i \in 1 .. Len(b) + Len(r) : (b \o r)[i] = IF i <= Len(b) THEN b[i] ELSE r[i - Len(b)]
    BY ConcatProperties DEF Strings
<1> HIDE DEF whole
<1>6. /\ Len(a) + Len(p) = Len(b) + Len(r)
      /\ \A i \in 1 .. Len(b) + Len(r) : whole[i] = IF i <= Len(b) THEN b[i] ELSE r[i - Len(b)]
    BY <1>0, <1>5 DEF whole
<1>7. b = a \o c
    <2>1. a \o c \in Strings
        BY <1>4, Concats
    <2>2. /\ Len(a \o c) = Len(a) + Len(c)
          /\ \A i \in 1 .. Len(a) + Len(c) : (a \o c)[i] = IF i <= Len(a) THEN a[i] ELSE c[i - Len(a)]
        BY <1>4, ConcatProperties DEF Strings
    <2> DEFINE d == a \o c
    <2> HIDE DEF d
    <2>3. Len(d) = Len(b)
        BY <1>1, <1>4, <2>2 DEF d
    <2>4. ASSUME NEW i \in 1 .. Len(b)
          PROVE  b[i] = d[i]
        <3>1. d[i] = IF i <= Len(a) THEN a[i] ELSE c[i - Len(a)]
            BY <1>1, <1>4, <2>2 DEF d
        <3>2. CASE i <= Len(a)
            <4>1. i \in 1 .. Len(a) + Len(p) /\ i \in 1 .. Len(b) + Len(r)
                BY <1>1, <3>2
            <4>2. whole[i] = a[i]
                BY <1>5, <3>2, <4>1
            <4>3. whole[i] = b[i]
                BY <1>6, <4>1
            <4> QED
                BY <3>1, <3>2, <4>2, <4>3
        <3>3. CASE ~(i <= Len(a))
            <4>1. i - Len(a) \in 1 .. Len(b) - Len(a) /\ Len(a) + (i - Len(a)) = i
                BY <1>1, <3>3
            <4> QED
                BY <1>4, <3>1, <3>3, <4>1
        <3> QED
            BY <3>2, <3>3
    <2>5. d \in Seq(Octets) /\ b \in Seq(Octets)
        BY <2>1 DEF d, Strings
    <2>6. b = d
        BY <2>3, <2>4, <2>5, SeqEqual
    <2> QED
        BY <2>6 DEF d
<1>8. p = c \o r
    <2>1. a \o p = a \o (c \o r)
        BY <1>0, <1>4, <1>7, Concats
    <2>2. c \o r \in Strings
        BY <1>4, Concats
    <2> QED
        BY <2>1, <2>2, ConcatSimplifications DEF Strings
<1> QED
    BY <1>4, <1>7, <1>8 DEF MadeOf

-------------------------------------------------------------------------------
(* Headers. *)

LineEnds == {<<CR, LF>>, <<LF>>}
IsHeader(octets, n) ==
    \E digits \in Seq(Figures), eol \in LineEnds :
        digits # <<>> /\ Number(digits) = n /\ MadeOf(octets, digits, eol)

\* Nothing a header could end with, or break off at.
Free(octets) == \A i \in 1 .. Len(octets) : octets[i] \notin {LF, Other}

LEMMA FiguresAreFree ==
    ASSUME NEW digits \in Seq(Figures)
    PROVE  digits \in Strings /\ \A i \in 1 .. Len(digits) : digits[i] \in Figures /\ digits[i] < Base
<1>1. digits \in Strings
    BY OctetsAre, SeqMonotonic DEF Strings
<1>2. \A f \in Figures : f < Base
    BY BoundsAssumption DEF Figures
<1> QED
    BY <1>1, <1>2

LEMMA HeaderShape ==
    ASSUME NEW digits \in Seq(Figures), NEW eol \in LineEnds, digits # <<>>,
           NEW octets, MadeOf(octets, digits, eol)
    PROVE  /\ octets \in Strings /\ Len(octets) = Len(digits) + Len(eol) /\ Len(eol) \in 1 .. 2
           /\ octets[Len(octets)] = LF
           /\ \A i \in 1 .. Len(octets) - 1 : octets[i] \notin {LF, Other}
           /\ \A i \in 1 .. Len(digits) : octets[i] = digits[i]
           /\ \A i \in Len(digits) + 1 .. Len(octets) : octets[i] \in {CR, LF}
<1>1. digits \in Strings /\ \A i \in 1 .. Len(digits) : digits[i] \in Figures
    BY FiguresAreFree
<1>2. /\ eol \in Strings /\ Len(eol) \in 1 .. 2 /\ eol[Len(eol)] = LF
      /\ \A i \in 1 .. Len(eol) : eol[i] \in {CR, LF}
      /\ \A i \in 1 .. Len(eol) - 1 : eol[i] = CR
    <2>1. CASE eol = <<CR, LF>>
        <3>1. Len(eol) = 2 /\ eol[1] = CR /\ eol[2] = LF
            BY <2>1
        <3>2. \A i \in 1 .. 2 : i = 1 \/ i = 2
            OBVIOUS
        <3>3. \A i \in 1 .. 2 - 1 : i = 1
            OBVIOUS
        <3> QED
            BY <2>1, <3>1, <3>2, <3>3, OctetsAre
    <2>2. CASE eol = <<LF>>
        <3>1. Len(eol) = 1 /\ eol[1] = LF
            BY <2>2
        <3> QED
            BY <2>2, <3>1, OctetsAre
    <2> QED
        BY <2>1, <2>2 DEF LineEnds
<1> DEFINE n == Len(digits)
           k == Len(eol)
<1>3. n \in Nat /\ k \in 1 .. 2
    BY <1>2
<1>4. /\ octets \in Strings /\ Len(octets) = n + k
      /\ \A i \in 1 .. n + k : octets[i] = IF i <= n THEN digits[i] ELSE eol[i - n]
    BY <1>1, <1>2, ConcatProperties DEF Strings, MadeOf
<1> HIDE DEF n, k
<1>5. ASSUME NEW i \in 1 .. n + k
      PROVE  /\ i <= n => octets[i] = digits[i] /\ digits[i] \in Figures
             /\ i > n => octets[i] = eol[i - n] /\ i - n \in 1 .. k
    BY <1>1, <1>3, <1>4 DEF n
<1>6. \A i \in n + 1 .. n + k : octets[i] \in {CR, LF}
    <2>1. \A i \in n + 1 .. n + k : i \in 1 .. n + k /\ i > n
        BY <1>3
    <2> QED
        BY <1>2, <1>5, <2>1 DEF k
<1>7. octets[n + k] = LF
    <2>1. n + k \in 1 .. n + k /\ n + k > n /\ (n + k) - n = k
        BY <1>3
    <2>2. octets[n + k] = eol[(n + k) - n]
        BY <1>5, <2>1
    <2> QED
        BY <1>2, <2>1, <2>2 DEF k
<1>8. ASSUME NEW i \in 1 .. (n + k) - 1
      PROVE  octets[i] \notin {LF, Other}
    <2>1. i \in 1 .. n + k /\ (i <= n \/ i > n)
        BY <1>3
    <2>2. CASE i <= n
        BY <1>5, <2>1, <2>2, OctetsAre
    <2>3. CASE i > n
        <3>1. i - n \in 1 .. k - 1
            BY <1>3, <2>3
        <3>2. octets[i] = eol[i - n]
            BY <1>5, <2>1, <2>3
        <3>3. eol[i - n] = CR
            BY <1>2, <3>1 DEF k
        <3> QED
            BY <3>2, <3>3, OctetsAre
    <2> QED
        BY <2>1, <2>2, <2>3
<1>9. \A i \in 1 .. n : octets[i] = digits[i]
    <2>1. \A i \in 1 .. n : i \in 1 .. n + k /\ i <= n
        BY <1>3
    <2> QED
        BY <1>5, <2>1
<1> QED
    BY <1>2, <1>4, <1>6, <1>7, <1>8, <1>9 DEF n, k

LEMMA HeaderIs ==
    ASSUME NEW octets, NEW n, IsHeader(octets, n)
    PROVE  /\ octets \in Strings /\ Len(octets) \in Nat \ {0} /\ n \in Nat
           /\ octets[Len(octets)] = LF
           /\ \A i \in 1 .. Len(octets) - 1 : octets[i] \notin {LF, Other}
<1>1. PICK digits \in Seq(Figures), eol \in LineEnds :
          digits # <<>> /\ Number(digits) = n /\ MadeOf(octets, digits, eol)
    BY DEF IsHeader
<1>2. n \in Nat
    BY <1>1, NumberIs
<1>3. /\ octets \in Strings /\ Len(octets) = Len(digits) + Len(eol) /\ Len(eol) \in 1 .. 2
      /\ octets[Len(octets)] = LF
      /\ \A i \in 1 .. Len(octets) - 1 : octets[i] \notin {LF, Other}
    BY <1>1, HeaderShape
<1>4. Len(octets) \in Nat \ {0}
    <2>1. Len(digits) \in Nat
        OBVIOUS
    <2> QED
        BY <1>3, <2>1
<1> QED
    BY <1>2, <1>3, <1>4

LEMMA AddedFront ==
    ASSUME NEW octets, NEW a \in Strings, NEW b \in Strings, NEW c \in Strings, NEW d \in Strings,
           Adds(octets, a, b, c, d), NEW left, MadeOf(left, c, d)
    PROVE  MadeOf(octets, a, b \o left)
<1>1. octets = ((a \o b) \o c) \o d /\ left = c \o d
    BY DEF Adds, MadeOf
<1> DEFINE ab == a \o b
<1>2. ab \in Strings /\ left \in Strings
    BY <1>1, Concats
<1> HIDE DEF ab
<1>3. (ab \o c) \o d = ab \o (c \o d)
    BY <1>2, Associates
<1>4. (a \o b) \o left = a \o (b \o left)
    BY <1>2, Associates
<1> QED
    BY <1>1, <1>3, <1>4 DEF MadeOf, ab

\* What a header announces: the end, or a chunk.
Announced(n, after, content, done, more) ==
    /\ n = 0 => done /\ content = <<>> /\ after = more
    /\ n # 0 => \E body \in Strings, left \in Strings, rest \in Strings :
                  /\ Len(body) = n /\ MadeOf(after, body, left) /\ MadeOf(content, body, rest)
                  /\ Stands(left, rest, done, more)

LEMMA StreamBegins ==
    ASSUME NEW octets \in Bodies, NEW content \in Strings, NEW done \in BOOLEAN, NEW more \in Strings,
           Stands(octets, content, done, more)
    PROVE  \E header \in Strings, n \in Nat, after \in Strings :
              /\ IsHeader(header, n) /\ MadeOf(octets, header, after)
              /\ Announced(n, after, content, done, more)
<1>1. PICK chunks \in Seq(Bodies), end \in Closing(done, more) :
          octets = Coded(chunks) \o end /\ content = Join(chunks)
    BY DEF Stands
<1>2. end \in Strings
    <2>1. \A mark \in {<<0, CR, LF>>, <<0, LF>>} : mark \o more \in Strings
        BY OctetsAre, Concats
    <2> QED
        BY <2>1, Concats DEF Closing
<1>3. CASE chunks = <<>>
    <2>1. octets = end /\ content = <<>>
        BY <1>1, <1>2, <1>3, CodedNone, JoinNone, Concats
    <2>2. done
        BY <1>1, <2>1 DEF Closing, Bodies
    <2>3. PICK mark \in {<<0, CR, LF>>, <<0, LF>>} : octets = mark \o more
        BY <1>1, <2>1, <2>2 DEF Closing
    <2>4. <<0>> \in Seq(Figures) /\ <<0>> # <<>> /\ Number(<<0>>) = 0
        BY OctetsAre, NumberOne
    <2>5. <<0, CR, LF>> = <<0>> \o <<CR, LF>> /\ <<0, LF>> = <<0>> \o <<LF>>
        OBVIOUS
    <2>6. IsHeader(mark, 0)
        BY <2>4, <2>5 DEF IsHeader, MadeOf, LineEnds
    <2>7. mark \in Strings
        BY OctetsAre
    <2>8. MadeOf(octets, mark, more)
        BY <2>3 DEF MadeOf
    <2>9. Announced(0, more, content, done, more)
        BY <2>1, <2>2 DEF Announced
    <2> QED
        BY <2>6, <2>7, <2>8, <2>9
<1>4. CASE chunks # <<>>
    <2> DEFINE body == Head(chunks)
               left == Coded(Tail(chunks)) \o end
               rest == Join(Tail(chunks))
               n == Len(body)
    <2>1. /\ body \in Bodies /\ Tail(chunks) \in Seq(Bodies)
          /\ Coded(chunks) = Code(body) \o Coded(Tail(chunks))
          /\ content = body \o rest
        BY <1>1, <1>4, CodedFirst
    <2>2. body \in Strings /\ n \in Nat \ {0}
        BY <2>1 DEF Bodies, Strings
    <2>3. Coded(Tail(chunks)) \in Strings /\ rest \in Strings
        BY <2>1, CodesType
    <2>4. left \in Strings
        BY <1>2, <2>3, Concats
    <2>5. Stands(left, rest, done, more)
        BY <2>1 DEF Stands
    <2> DEFINE header == Header(n)
               after == body \o left
               coded == Coded(Tail(chunks))
    <2>6. header \in Strings
        BY <2>2, CodeType
    <2>7. IsHeader(header, n)
        BY <2>2, NumberOfDigits DEF IsHeader, Header, MadeOf, LineEnds
    <2>8. octets = ((header \o body) \o coded) \o end
        BY <1>1, <2>1 DEF Code
    <2>9. coded \in Strings /\ left = coded \o end
        BY <2>3
    <2> HIDE DEF header, body, coded, left, rest
    <2>10. MadeOf(octets, header, body \o left)
        <3>1. Adds(octets, header, body, coded, end) /\ MadeOf(left, coded, end)
            BY <2>8, <2>9 DEF Adds, MadeOf
        <3> QED
            BY <1>2, <2>2, <2>6, <2>9, <3>1, AddedFront
    <2>11. after \in Strings
        BY <2>2, <2>4, Concats
    <2> HIDE DEF n, after
    <2>12. n \in Nat \ {0} /\ Len(body) = n
        BY <2>2 DEF n
    <2>13. MadeOf(after, body, left) /\ MadeOf(content, body, rest)
        BY <2>1 DEF MadeOf, after
    <2>14. Announced(n, after, content, done, more)
        BY <2>2, <2>3, <2>4, <2>5, <2>12, <2>13 DEF Announced
    <2>15. MadeOf(octets, header, after)
        BY <2>10 DEF after
    <2> QED
        BY <2>6, <2>7, <2>11, <2>12, <2>14, <2>15
<1> QED
    BY <1>3, <1>4

-------------------------------------------------------------------------------
(* What the decoder sees of the fragments it has. *)

LEMMA FreeConcat ==
    ASSUME NEW a \in Strings, NEW b \in Strings, Free(a), Free(b)
    PROVE  Free(a \o b)
<1> DEFINE c == a \o b
<1>1. /\ Len(c) = Len(a) + Len(b) /\ Len(a) \in Nat /\ Len(b) \in Nat
      /\ \A i \in 1 .. Len(a) + Len(b) : c[i] = IF i <= Len(a) THEN a[i] ELSE b[i - Len(a)]
    BY ConcatProperties DEF Strings
<1> HIDE DEF c
<1>2. ASSUME NEW i \in 1 .. Len(c)
      PROVE  c[i] \notin {LF, Other}
    <2>1. i \in 1 .. Len(a) + Len(b)
        BY <1>1
    <2>2. CASE i <= Len(a)
        <3>1. i \in 1 .. Len(a) /\ c[i] = a[i]
            BY <1>1, <2>1, <2>2
        <3> QED
            BY <3>1 DEF Free
    <2>3. CASE ~(i <= Len(a))
        <3>1. i - Len(a) \in 1 .. Len(b) /\ c[i] = b[i - Len(a)]
            BY <1>1, <2>1, <2>3
        <3> QED
            BY <3>1 DEF Free
    <2> QED
        BY <2>2, <2>3
<1> QED
    BY <1>2 DEF Free, c

LEMMA UptoFree ==
    ASSUME NEW list \in Seq(Strings), NEW last \in 0 .. Len(list),
           \A i \in 1 .. last : Free(list[i])
    PROVE  Free(Upto(list)[last])
<1> DEFINE f == Upto(list)
           S == {n \in Nat : n <= last => Free(f[n])}
<1>1. /\ f[0] = <<>> /\ \A n \in 0 .. Len(list) : f[n] \in Strings
      /\ \A n \in 1 .. Len(list) : f[n] = f[n - 1] \o list[n]
    BY UptoFacts
<1> HIDE DEF f
<1>2. 0 \in S
    BY <1>1 DEF Free
<1>3. ASSUME NEW n \in S
      PROVE  n + 1 \in S
    <2>1. n \in Nat /\ (n <= last => Free(f[n]))
        OBVIOUS
    <2> HIDE DEF S
    <2>2. ASSUME n + 1 <= last
          PROVE  Free(f[n + 1])
        <3>1. n + 1 \in 1 .. Len(list) /\ (n + 1) - 1 = n /\ n \in 0 .. Len(list) /\ n + 1 \in 1 .. last
            BY <2>1, <2>2
        <3>2. f[n + 1] = f[n] \o list[n + 1]
            BY <1>1, <3>1
        <3>3. f[n] \in Strings /\ Free(f[n]) /\ list[n + 1] \in Strings /\ Free(list[n + 1])
            BY <1>1, <2>1, <3>1
        <3> QED
            BY <3>2, <3>3, FreeConcat
    <2> QED
        BY <2>1, <2>2 DEF S
<1>4. S = Nat
    <2>1. S \in SUBSET Nat
        BY DEF S
    <2> HIDE DEF S
    <2> QED
        BY <1>2, <1>3, <2>1, Induct
<1>5. last \in S
    <2>1. last \in Nat
        OBVIOUS
    <2> HIDE DEF S
    <2> QED
        BY <1>4, <2>1
<1> QED
    BY <1>5 DEF f

LEMMA UptoGrows ==
    ASSUME NEW list \in Seq(Strings), NEW first \in 0 .. Len(list), NEW last \in first .. Len(list)
    PROVE  Len(Upto(list)[first]) <= Len(Upto(list)[last])
<1> DEFINE f == Upto(list)
           S == {n \in Nat : n \in first .. last => Len(f[first]) <= Len(f[n])}
<1>1. /\ \A n \in 0 .. Len(list) : f[n] \in Strings
      /\ \A n \in 1 .. Len(list) : f[n] = f[n - 1] \o list[n]
    BY UptoFacts
<1>2. \A string \in Strings : Len(string) \in Nat
    BY DEF Strings
<1> HIDE DEF f
<1>3. 0 \in S
    <2>1. 0 \in first .. last => first = 0
        OBVIOUS
    <2> QED
        BY <1>1, <1>2, <2>1
<1>4. ASSUME NEW n \in S
      PROVE  n + 1 \in S
    <2>1. n \in Nat /\ (n \in first .. last => Len(f[first]) <= Len(f[n]))
        OBVIOUS
    <2> HIDE DEF S
    <2>2. ASSUME n + 1 \in first .. last
          PROVE  Len(f[first]) <= Len(f[n + 1])
        <3>1. n + 1 \in 0 .. Len(list) /\ first \in 0 .. Len(list)
            BY <2>1, <2>2
        <3>2. Len(f[n + 1]) \in Nat /\ Len(f[first]) \in Nat
            BY <1>1, <1>2, <3>1
        <3>3. CASE n + 1 = first
            BY <3>2, <3>3
        <3>4. CASE n + 1 # first
            <4>1. n \in first .. last /\ n + 1 \in 1 .. Len(list) /\ (n + 1) - 1 = n /\ n \in 0 .. Len(list)
                BY <2>1, <2>2, <3>4
            <4>2. f[n] \in Strings
                BY <1>1, <4>1
            <4>3. list[n + 1] \in Strings
                BY <4>1
            <4>4. f[n + 1] = f[n] \o list[n + 1]
                <5>1. f[n + 1] = f[(n + 1) - 1] \o list[n + 1]
                    BY <1>1, <4>1
                <5> QED
                    BY <4>1, <5>1
            <4>5. Len(f[n + 1]) = Len(f[n]) + Len(list[n + 1])
                BY <4>2, <4>3, <4>4, ConcatProperties DEF Strings
            <4>6. Len(f[n]) \in Nat /\ Len(list[n + 1]) \in Nat
                BY <1>2, <4>2, <4>3
            <4>7. Len(f[first]) <= Len(f[n])
                BY <2>1, <4>1
            <4>8. \A a \in Nat, b \in Nat, c \in Nat, d \in Nat : a <= b /\ d = b + c => a <= d
                OBVIOUS
            <4> HIDE DEF f
            <4> QED
                BY <3>2, <4>5, <4>6, <4>7, <4>8
        <3> QED
            BY <3>3, <3>4
    <2> QED
        BY <2>1, <2>2 DEF S
<1>5. S = Nat
    <2>1. S \in SUBSET Nat
        BY DEF S
    <2> HIDE DEF S
    <2> QED
        BY <1>3, <1>4, <2>1, Induct
<1>6. last \in S /\ last \in first .. last
    <2>1. last \in Nat /\ last \in first .. last
        OBVIOUS
    <2> HIDE DEF S
    <2> QED
        BY <1>5, <2>1
<1> QED
    BY <1>6 DEF f

LEMMA PrefixType ==
    ASSUME NEW string \in Strings, NEW n \in 0 .. Len(string)
    PROVE  /\ SubSeq(string, 1, n) \in Strings /\ Len(SubSeq(string, 1, n)) = n
           /\ \A i \in 1 .. n : SubSeq(string, 1, n)[i] = string[i]
<1>1. Len(string) \in Nat /\ \A i \in 1 .. Len(string) : string[i] \in Octets
    BY DEF Strings
<1>2. \A i \in 1 .. n : string[i] \in Octets
    BY <1>1
<1>3. n \in Int /\ 1 \in Int
    BY <1>1
<1> DEFINE prefix == SubSeq(string, 1, n)
<1>4. /\ prefix \in Seq(Octets) /\ Len(prefix) = IF 1 <= n THEN n - 1 + 1 ELSE 0
      /\ \A i \in 1 .. n - 1 + 1 : prefix[i] = string[1 + i - 1]
    BY <1>2, <1>3, SubSeqProperties
<1> HIDE DEF prefix
<1>5. n - 1 + 1 = n /\ (IF 1 <= n THEN n - 1 + 1 ELSE 0) = n
    BY <1>1
<1>6. \A i \in 1 .. n : 1 + i - 1 = i
    BY <1>1
<1> QED
    BY <1>4, <1>5, <1>6 DEF prefix, Strings

LEMMA CountsAll ==
    ASSUME NEW string \in Strings, Free(string)
    PROVE  CountChars(string) = string
<1>1. DOMAIN string = 1 .. Len(string)
    BY DEF Strings
<1>2. {i \in DOMAIN string : string[i] \in {LF, Other}} = {}
    BY <1>1 DEF Free
<1> QED
    BY <1>2 DEF CountChars

LEMMA CountsTo ==
    ASSUME NEW string \in Strings, NEW n \in 1 .. Len(string), string[n] = LF,
           \A i \in 1 .. n - 1 : string[i] \notin {LF, Other}
    PROVE  CountChars(string) = SubSeq(string, 1, n)
<1>1. DOMAIN string = 1 .. Len(string) /\ Len(string) \in Nat
    BY DEF Strings
<1> DEFINE stops == {i \in DOMAIN string : string[i] \in {LF, Other}}
           first == CHOOSE i \in stops : \A j \in stops : i <= j
<1>2. n \in stops /\ \A j \in stops : n <= j
    <2>1. ASSUME NEW j \in stops, j < n
          PROVE  FALSE
        <3>1. j \in 1 .. n - 1
            BY <1>1, <2>1
        <3> QED
            BY <2>1, <3>1
    <2>2. \A j \in stops : j \in Int
        BY <1>1
    <2> QED
        BY <1>1, <2>1, <2>2
<1>3. \A i \in stops : (\A j \in stops : i <= j) => i = n
    <2>1. \A i \in stops : i \in Int
        BY <1>1
    <2> HIDE DEF stops
    <2> QED
        BY <1>2, <2>1
<1>4. first = n
    <2> HIDE DEF stops
    <2> QED
        BY <1>2, <1>3
<1>5. CountChars(string) = IF stops = {} THEN string
                           ELSE SubSeq(string, 1, IF string[first] = LF THEN first ELSE first - 1)
    BY DEF CountChars
<1>6. stops # {}
    BY <1>2
<1> HIDE DEF stops, first
<1> QED
    BY <1>4, <1>5, <1>6

LEMMA SuffixIs ==
    ASSUME NEW a \in Strings, NEW b \in Strings
    PROVE  SubSeq(a \o b, Len(a) + 1, Len(a \o b)) = b
<1>1. Len(a) \in Nat /\ Len(b) \in Nat /\ b \in Strings
    BY DEF Strings
<1> DEFINE whole == a \o b
           suffix == SubSeq(whole, Len(a) + 1, Len(whole))
<1>2. /\ Len(whole) = Len(a) + Len(b)
      /\ \A i \in 1 .. Len(a) + Len(b) : whole[i] = IF i <= Len(a) THEN a[i] ELSE b[i - Len(a)]
    BY ConcatProperties DEF Strings
<1>3. \A i \in 1 .. Len(b) : b[i] \in Octets
    BY DEF Strings
<1> HIDE DEF whole
<1>4. \A i \in 1 .. Len(b) : whole[Len(a) + i] = b[i]
    <2> TAKE i \in 1 .. Len(b)
    <2>1. Len(a) + i \in 1 .. Len(a) + Len(b) /\ ~(Len(a) + i <= Len(a)) /\ (Len(a) + i) - Len(a) = i
        BY <1>1
    <2> QED
        BY <1>2, <2>1
<1>5. \A i \in Len(a) + 1 .. Len(whole) : whole[i] \in Octets
    <2> TAKE i \in Len(a) + 1 .. Len(whole)
    <2>1. i - Len(a) \in 1 .. Len(b) /\ Len(a) + (i - Len(a)) = i
        BY <1>1, <1>2
    <2> QED
        BY <1>3, <1>4, <2>1
<1>6. Len(a) + 1 \in Int /\ Len(whole) \in Int
    BY <1>1, <1>2
<1>7. /\ suffix \in Seq(Octets)
      /\ Len(suffix) = IF Len(a) + 1 <= Len(whole) THEN Len(whole) - (Len(a) + 1) + 1 ELSE 0
      /\ \A i \in 1 .. Len(whole) - (Len(a) + 1) + 1 : suffix[i] = whole[Len(a) + 1 + i - 1]
    BY <1>5, <1>6, SubSeqProperties
<1> HIDE DEF suffix
<1>8. Len(whole) - (Len(a) + 1) + 1 = Len(b)
    BY <1>1, <1>2
<1>9. Len(suffix) = Len(b)
    BY <1>1, <1>2, <1>7
<1>10. ASSUME NEW i \in 1 .. Len(b)
       PROVE  suffix[i] = b[i]
    <2>1. Len(a) + 1 + i - 1 = Len(a) + i
        BY <1>1
    <2> QED
        BY <1>4, <1>7, <1>8, <2>1
<1>11. suffix = b
    BY <1>1, <1>7, <1>9, <1>10 DEF Strings
<1> QED
    BY <1>11 DEF suffix, whole

LEMMA EndsAreOne ==
    ASSUME NEW list \in Seq(Strings), NEW n \in Nat,
           NEW k \in 0 .. Len(list), EndsIn(n, list, k), NEW j \in 0 .. Len(list), EndsIn(n, list, j)
    PROVE  ~(k < j)
<1> SUFFICES ASSUME k < j PROVE FALSE
    OBVIOUS
<1>1. k < Len(list) /\ k + 1 \in 0 .. Len(list) /\ j \in k + 1 .. Len(list)
    OBVIOUS
<1>2. Len(Upto(list)[k + 1]) <= Len(Upto(list)[j])
    BY <1>1, UptoGrows
<1>3. n < Len(Upto(list)[k + 1]) /\ Len(Upto(list)[j]) <= n
    BY <1>1 DEF EndsIn
<1>4. Upto(list)[k + 1] \in Strings /\ Upto(list)[j] \in Strings
    BY <1>1, UptoFacts
<1>5. Len(Upto(list)[k + 1]) \in Nat /\ Len(Upto(list)[j]) \in Nat
    BY <1>4 DEF Strings
<1>6. \A a \in Nat, b \in Nat : a <= b /\ n < a /\ b <= n => FALSE
    OBVIOUS
<1> QED
    BY <1>2, <1>3, <1>5, <1>6

LEMMA DiscardIs ==
    ASSUME NEW list \in Seq(Strings), NEW n \in Nat, NEW k \in 0 .. Len(list), EndsIn(n, list, k)
    PROVE  Discard(n, list) =
              IF k = Len(list) THEN <<>>
              ELSE <<SubSeq(list[k + 1], n - Len(Upto(list)[k]) + 1, Len(list[k + 1]))>>
                       \o SubSeq(list, k + 2, Len(list))
<1>1. \A j \in 0 .. Len(list) : EndsIn(n, list, j) => j = k
    <2> TAKE j \in 0 .. Len(list)
    <2> HAVE EndsIn(n, list, j)
    <2>1. ~(j < k) /\ ~(k < j)
        BY EndsAreOne
    <2> QED
        BY <2>1
<1>2. k = CHOOSE j \in 0 .. Len(list) : EndsIn(n, list, j)
    BY <1>1
<1> HIDE DEF EndsIn
<1> QED
    BY <1>2, Zenon DEF Discard

\* A prefix that ends in or with the last fragment is discarded: what is left of
\* that one stays.
LEMMA LastDiscarded ==
    ASSUME NEW list \in Seq(Strings), list # <<>>, NEW gone \in Strings, NEW left \in Strings,
           Join(list) = gone \o left, Len(Upto(list)[Len(list) - 1]) <= Len(gone)
    PROVE  Discard(Len(gone), list) = IF left = <<>> THEN <<>> ELSE <<left>>
<1> DEFINE k == Len(list)
           before == Upto(list)[k - 1]
<1>1. k \in Nat \ {0} /\ k - 1 \in 0 .. Len(list) /\ k \in 1 .. Len(list) /\ k \in 0 .. Len(list)
    <2>1. Len(list) \in Nat /\ Len(list) # 0
        BY EmptySeq
    <2> QED
        BY <2>1
<1>2. Upto(list)[k] = before \o list[k] /\ Upto(list)[k] = gone \o left
    BY <1>1, UptoFacts DEF Join
<1>3. before \in Strings /\ list[k] \in Strings
    <2>1. list[k] \in Strings
        BY <1>1
    <2>2. \A n \in 0 .. Len(list) : Upto(list)[n] \in Strings
        BY UptoFacts
    <2> QED
        BY <1>1, <2>1, <2>2
<1>4. Len(gone) \in Nat /\ Len(left) \in Nat
    BY DEF Strings
<1>5. Len(Upto(list)[k]) = Len(gone) + Len(left)
    BY <1>2, ConcatProperties DEF Strings
<1>6. PICK d \in Strings : gone = before \o d /\ list[k] = d \o left
    <2>1. MadeOf(Join(list), before, list[k]) /\ MadeOf(Join(list), gone, left)
        BY <1>2 DEF MadeOf, Join
    <2>2. Len(before) <= Len(gone)
        OBVIOUS
    <2> HIDE DEF before, k
    <2>3. PICK d \in Strings : MadeOf(gone, before, d) /\ MadeOf(list[k], d, left)
        BY <1>3, <2>1, <2>2, Levi
    <2> QED
        BY <2>3 DEF MadeOf
<1>7. CASE left = <<>>
    <2>1. Len(left) = 0
        BY <1>7
    <2>2. EndsIn(Len(gone), list, k)
        BY <1>4, <1>5, <2>1 DEF EndsIn
    <2>3. Discard(Len(gone), list) = <<>>
        BY <1>1, <1>4, <2>2, DiscardIs
    <2> QED
        BY <1>7, <2>3
<1>8. CASE left # <<>>
    <2>1. Len(left) # 0
        BY <1>8, EmptySeq DEF Strings
    <2>2. (k - 1) + 1 = k /\ k - 1 # Len(list)
        BY <1>1
    <2>3. Len(gone) < Len(Upto(list)[k])
        BY <1>4, <1>5, <2>1
    <2>4. EndsIn(Len(gone), list, k - 1)
        BY <2>2, <2>3 DEF EndsIn
    <2>5. Discard(Len(gone), list) =
              <<SubSeq(list[(k - 1) + 1], Len(gone) - Len(Upto(list)[k - 1]) + 1, Len(list[(k - 1) + 1]))>>
                  \o SubSeq(list, (k - 1) + 2, Len(list))
        BY <1>1, <1>4, <2>2, <2>4, DiscardIs
    <2>6. (k - 1) + 2 = k + 1 /\ SubSeq(list, k + 1, Len(list)) = <<>>
        <3>1. k + 1 \in Int /\ Len(list) \in Int /\ Len(list) < k + 1
            BY <1>1
        <3> QED
            BY <1>1, <3>1, SubSeqEmpty
    <2>7. Len(gone) - Len(before) = Len(d)
        <3>1. Len(gone) = Len(before) + Len(d)
            BY <1>3, <1>6, ConcatProperties DEF Strings
        <3>2. Len(before) \in Nat /\ Len(d) \in Nat
            BY <1>3 DEF Strings
        <3> HIDE DEF before
        <3> QED
            BY <3>1, <3>2
    <2>8. SubSeq(list[k], Len(d) + 1, Len(list[k])) = left
        BY <1>6, SuffixIs
    <2>9. Discard(Len(gone), list) = <<left>> \o <<>>
        <3> HIDE DEF k
        <3> QED
            BY <2>2, <2>5, <2>6, <2>7, <2>8
    <2>10. <<left>> \o <<>> = <<left>>
        BY ConcatEmptySeq, <<left>> \in Seq(Strings)
    <2> QED
        BY <1>8, <2>9, <2>10
<1> QED
    BY <1>7, <1>8

\* A header that has been read says what it says.
LEMMA DigitsOfHeader ==
    ASSUME NEW whole, NEW n, IsHeader(whole, n)
    PROVE  Number(Stripped(whole)) = n
<1>1. PICK digits \in Seq(Figures), eol \in LineEnds :
          digits # <<>> /\ Number(digits) = n /\ MadeOf(whole, digits, eol)
    BY DEF IsHeader
<1>2. /\ whole \in Strings /\ Len(whole) = Len(digits) + Len(eol) /\ Len(eol) \in 1 .. 2
      /\ \A i \in 1 .. Len(digits) : whole[i] = digits[i]
      /\ \A i \in Len(digits) + 1 .. Len(whole) : whole[i] \in {CR, LF}
    BY <1>1, HeaderShape
<1>3. Len(digits) \in Nat \ {0} /\ Len(digits) \in 0 .. Len(whole) /\ Len(whole) \in Nat
    <2>1. Len(digits) \in Nat /\ Len(digits) # 0
        BY <1>1, EmptySeq
    <2> QED
        BY <1>2, <2>1
<1> DEFINE Last(m) == /\ m > 0 => whole[m] < Base
                      /\ \A i \in m + 1 .. Len(whole) : whole[i] >= Base
<1>4. digits \in Strings /\ \A i \in 1 .. Len(digits) : digits[i] \in Figures /\ digits[i] < Base
    BY FiguresAreFree
<1>5. \A i \in 1 .. Len(digits) : whole[i] < Base /\ ~(whole[i] >= Base)
    <2> TAKE i \in 1 .. Len(digits)
    <2>1. whole[i] = digits[i] /\ digits[i] \in Figures
        BY <1>2, <1>4
    <2> QED
        BY <2>1, BoundsAssumption DEF Figures
<1>6. \A i \in Len(digits) + 1 .. Len(whole) : whole[i] >= Base /\ ~(whole[i] < Base)
    <2> TAKE i \in Len(digits) + 1 .. Len(whole)
    <2>1. whole[i] \in {CR, LF}
        BY <1>2
    <2> QED
        BY <2>1, BoundsAssumption DEF CR, LF
<1>7. Last(Len(digits))
    BY <1>3, <1>5, <1>6
<1>8. ASSUME NEW m \in 0 .. Len(whole), Last(m)
      PROVE  m = Len(digits)
    <2>1. ASSUME m < Len(digits)
          PROVE  FALSE
        <3>1. Len(digits) \in m + 1 .. Len(whole) /\ Len(digits) \in 1 .. Len(digits)
            BY <1>3, <2>1
        <3> QED
            BY <1>5, <1>8, <3>1
    <2>2. ASSUME m > Len(digits)
          PROVE  FALSE
        <3>1. m \in Len(digits) + 1 .. Len(whole) /\ m > 0
            BY <1>3, <2>2
        <3> QED
            BY <1>6, <1>8, <3>1
    <2> QED
        BY <1>3, <2>1, <2>2
<1>9. Len(digits) = CHOOSE m \in 0 .. Len(whole) : Last(m)
    <2> HIDE DEF Last
    <2> QED
        BY <1>3, <1>7, <1>8
<1>10. Stripped(whole) = SubSeq(whole, 1, Len(digits))
    BY <1>9, Zenon DEF Stripped
<1> DEFINE front == SubSeq(whole, 1, Len(digits))
<1>11. /\ front \in Strings /\ Len(front) = Len(digits)
       /\ \A i \in 1 .. Len(digits) : front[i] = whole[i]
    BY <1>2, <1>3, PrefixType
<1> HIDE DEF front, Last
<1>12. \A i \in 1 .. Len(digits) : front[i] = digits[i]
    BY <1>2, <1>11
<1>13. front = digits
    BY <1>3, <1>4, <1>11, <1>12 DEF Strings
<1> QED
    BY <1>1, <1>10, <1>13 DEF front

\* What is read of octets put together.
LEMMA Parts ==
    ASSUME NEW octets, NEW a \in Strings, NEW b \in Strings, MadeOf(octets, a, b)
    PROVE  /\ octets \in Strings /\ Len(octets) = Len(a) + Len(b)
           /\ Len(a) \in Nat /\ Len(b) \in Nat
           /\ \A i \in 1 .. Len(a) : octets[i] = a[i]
           /\ \A i \in 1 .. Len(b) : octets[Len(a) + i] = b[i]
<1>1. Len(a) \in Nat /\ Len(b) \in Nat
    BY DEF Strings
<1>2. /\ octets \in Strings /\ Len(octets) = Len(a) + Len(b)
      /\ \A i \in 1 .. Len(a) + Len(b) : octets[i] = IF i <= Len(a) THEN a[i] ELSE b[i - Len(a)]
    BY ConcatProperties DEF Strings, MadeOf
<1>3. \A i \in 1 .. Len(a) : octets[i] = a[i]
    <2> TAKE i \in 1 .. Len(a)
    <2>1. i \in 1 .. Len(a) + Len(b) /\ i <= Len(a)
        BY <1>1
    <2> QED
        BY <1>2, <2>1
<1>4. \A i \in 1 .. Len(b) : octets[Len(a) + i] = b[i]
    <2> TAKE i \in 1 .. Len(b)
    <2>1. Len(a) + i \in 1 .. Len(a) + Len(b) /\ ~(Len(a) + i <= Len(a)) /\ (Len(a) + i) - Len(a) = i
        BY <1>1
    <2> QED
        BY <1>2, <2>1
<1> QED
    BY <1>1, <1>2, <1>3, <1>4

LEMMA FreeParts ==
    ASSUME NEW octets, NEW a \in Strings, NEW b \in Strings, MadeOf(octets, a, b), Free(octets)
    PROVE  Free(a) /\ Free(b)
<1>1. /\ Len(octets) = Len(a) + Len(b) /\ Len(a) \in Nat /\ Len(b) \in Nat
      /\ \A i \in 1 .. Len(a) : octets[i] = a[i]
      /\ \A i \in 1 .. Len(b) : octets[Len(a) + i] = b[i]
    BY Parts
<1>2. \A i \in 1 .. Len(a) : i \in 1 .. Len(octets)
    BY <1>1
<1>3. \A i \in 1 .. Len(b) : Len(a) + i \in 1 .. Len(octets)
    BY <1>1
<1>4. \A i \in 1 .. Len(a) : a[i] \notin {LF, Other}
    BY <1>1, <1>2 DEF Free
<1>5. \A i \in 1 .. Len(b) : b[i] \notin {LF, Other}
    BY <1>1, <1>3 DEF Free
<1> QED
    BY <1>4, <1>5 DEF Free

\* A header breaks off before its end, and ends only there.
LEMMA HeaderParts ==
    ASSUME NEW octets, NEW n, IsHeader(octets, n),
           NEW a \in Strings, NEW b \in Strings, MadeOf(octets, a, b), b # <<>>
    PROVE  /\ Free(a) /\ b[Len(b)] = LF /\ Len(b) \in Nat \ {0}
           /\ \A i \in 1 .. Len(b) - 1 : b[i] \notin {LF, Other}
<1>1. /\ octets[Len(octets)] = LF
      /\ \A i \in 1 .. Len(octets) - 1 : octets[i] \notin {LF, Other}
    BY HeaderIs
<1>2. /\ Len(octets) = Len(a) + Len(b) /\ Len(a) \in Nat /\ Len(b) \in Nat
      /\ \A i \in 1 .. Len(a) : octets[i] = a[i]
      /\ \A i \in 1 .. Len(b) : octets[Len(a) + i] = b[i]
    BY Parts
<1>3. Len(b) \in Nat \ {0}
    <2>1. Len(b) # 0
        BY EmptySeq DEF Strings
    <2> QED
        BY <1>2, <2>1
<1>4. \A i \in 1 .. Len(a) : i \in 1 .. Len(octets) - 1
    BY <1>2, <1>3
<1>5. \A i \in 1 .. Len(a) : a[i] \notin {LF, Other}
    BY <1>1, <1>2, <1>4
<1>6. b[Len(b)] = LF
    <2>1. Len(b) \in 1 .. Len(b)
        BY <1>3
    <2> QED
        BY <1>1, <1>2, <2>1
<1>7. \A i \in 1 .. Len(b) - 1 : i \in 1 .. Len(b) /\ Len(a) + i \in 1 .. Len(octets) - 1
    BY <1>2, <1>3
<1>8. \A i \in 1 .. Len(b) - 1 : b[i] \notin {LF, Other}
    BY <1>1, <1>2, <1>7
<1> QED
    BY <1>3, <1>5, <1>6, <1>8 DEF Free

\* What readers count of a list of fragments.
Counted(list) == Join([i \in DOMAIN list |-> CountChars(list[i])])

LEMMA CountedIs == AllCountChars = Counted(fragments)
BY DEF AllCountChars, Counted

LEMMA CountedFree ==
    ASSUME NEW list \in Seq(Strings), \A i \in 1 .. Len(list) : Free(list[i])
    PROVE  Counted(list) = Join(list) /\ Free(Counted(list))
<1>1. Len(list) \in Nat /\ DOMAIN list = 1 .. Len(list)
    OBVIOUS
<1>2. \A i \in 1 .. Len(list) : CountChars(list[i]) = list[i]
    <2> TAKE i \in 1 .. Len(list)
    <2>1. list[i] \in Strings /\ Free(list[i])
        OBVIOUS
    <2> QED
        BY <2>1, CountsAll
<1>3. [i \in DOMAIN list |-> CountChars(list[i])] = [i \in DOMAIN list |-> list[i]]
    BY <1>1, <1>2
<1>4. [i \in DOMAIN list |-> list[i]] = list
    OBVIOUS
<1>5. Counted(list) = Join(list)
    BY <1>3, <1>4, Zenon DEF Counted
<1>6. Free(Upto(list)[Len(list)])
    <2>1. Len(list) \in 0 .. Len(list)
        BY <1>1
    <2> QED
        BY <2>1, UptoFree
<1> QED
    BY <1>5, <1>6 DEF Join

\* A line that is still incomplete.
LEMMA FreeIsIncomplete ==
    ASSUME NEW octets \in Strings, Free(octets)
    PROVE  ~(octets # <<>> /\ octets[Len(octets)] = LF)
<1> SUFFICES ASSUME octets # <<>> PROVE octets[Len(octets)] # LF
    OBVIOUS
<1>1. Len(octets) \in 1 .. Len(octets)
    <2>1. Len(octets) \in Nat /\ Len(octets) # 0
        BY EmptySeq DEF Strings
    <2> QED
        BY <2>1
<1> QED
    BY <1>1 DEF Free

LEMMA JoinLast ==
    ASSUME NEW list \in Seq(Strings), list # <<>>
    PROVE  /\ Len(list) \in Nat \ {0} /\ Len(list) - 1 \in 0 .. Len(list) /\ list[Len(list)] \in Strings
           /\ Upto(list)[Len(list) - 1] \in Strings
           /\ MadeOf(Join(list), Upto(list)[Len(list) - 1], list[Len(list)])
<1>1. Len(list) \in Nat /\ Len(list) # 0
    BY EmptySeq
<1>2. Len(list) \in 1 .. Len(list) /\ Len(list) - 1 \in 0 .. Len(list)
    BY <1>1
<1>3. list[Len(list)] \in Strings
    BY <1>2
<1>4. \A n \in 0 .. Len(list) : Upto(list)[n] \in Strings
    BY UptoFacts
<1>5. \A n \in 1 .. Len(list) : Upto(list)[n] = Upto(list)[n - 1] \o list[n]
    BY UptoFacts
<1>6. Upto(list)[Len(list)] = Upto(list)[Len(list) - 1] \o list[Len(list)]
    BY <1>2, <1>5
<1>7. Upto(list)[Len(list) - 1] \in Strings
    BY <1>2, <1>4
<1>8. MadeOf(Join(list), Upto(list)[Len(list) - 1], list[Len(list)])
    BY <1>6 DEF MadeOf, Join
<1> QED
    BY <1>1, <1>2, <1>3, <1>7, <1>8

\* A header that ends in the last fragment is what is counted.
LEMMA CountedTo ==
    ASSUME NEW list \in Seq(Strings), list # <<>>,
           \A i \in 1 .. Len(list) - 1 : Free(list[i]),
           NEW header, NEW n, IsHeader(header, n), NEW d \in Strings, NEW c \in Strings,
           MadeOf(header, Upto(list)[Len(list) - 1], d), d # <<>>,
           MadeOf(list[Len(list)], d, c)
    PROVE  Counted(list) = header
<1> DEFINE k == Len(list)
           counts == [i \in DOMAIN list |-> CountChars(list[i])]
           before == Upto(list)[k - 1]
           last == list[k]
<1>1. /\ k \in Nat \ {0} /\ k - 1 \in 0 .. k /\ last \in Strings /\ before \in Strings
      /\ k \in 1 .. k /\ k - 1 \in 0 .. Len(list)
    BY JoinLast
<1>2. DOMAIN list = 1 .. k
    OBVIOUS
<1>3. /\ d[Len(d)] = LF /\ Len(d) \in Nat \ {0}
      /\ \A i \in 1 .. Len(d) - 1 : d[i] \notin {LF, Other}
    BY <1>1, HeaderParts
<1>4. /\ Len(last) = Len(d) + Len(c) /\ Len(c) \in Nat
      /\ \A i \in 1 .. Len(d) : last[i] = d[i]
    BY Parts
<1>5. CountChars(last) = d
    <2> HIDE DEF last, k, before, counts
    <2>1. Len(d) \in 1 .. Len(last) /\ Len(d) \in 0 .. Len(last)
        BY <1>3, <1>4
    <2>2. last[Len(d)] = LF
        BY <1>3, <1>4
    <2>3. \A i \in 1 .. Len(d) - 1 : i \in 1 .. Len(d)
        BY <1>3
    <2>4. \A i \in 1 .. Len(d) - 1 : last[i] \notin {LF, Other}
        BY <1>3, <1>4, <2>3
    <2>5. CountChars(last) = SubSeq(last, 1, Len(d))
        BY <1>1, <2>1, <2>2, <2>4, CountsTo
    <2> DEFINE front == SubSeq(last, 1, Len(d))
    <2>6. front \in Strings /\ Len(front) = Len(d) /\ \A i \in 1 .. Len(d) : front[i] = last[i]
        BY <1>1, <2>1, PrefixType
    <2> HIDE DEF front
    <2>7. \A i \in 1 .. Len(d) : front[i] = d[i]
        BY <1>4, <2>6
    <2>8. front = d
        BY <2>6, <2>7, SeqEqual DEF Strings
    <2> QED
        BY <2>5, <2>8 DEF front
<1>6. \A i \in 1 .. k - 1 : CountChars(list[i]) = list[i]
    <2> TAKE i \in 1 .. k - 1
    <2>1. i \in 1 .. Len(list)
        BY <1>1
    <2>2. list[i] \in Strings /\ Free(list[i])
        BY <2>1
    <2> QED
        BY <2>2, CountsAll
<1>7. \A i \in 1 .. k : counts[i] = IF i = k THEN d ELSE list[i]
    <2> TAKE i \in 1 .. k
    <2>1. counts[i] = CountChars(list[i])
        BY <1>2
    <2>2. CASE i = k
        BY <1>5, <2>1, <2>2
    <2>3. CASE i # k
        <3>1. i \in 1 .. k - 1
            BY <1>1, <2>3
        <3> QED
            BY <1>6, <2>1, <2>3, <3>1
    <2> QED
        BY <2>2, <2>3
<1>8. counts = [i \in 1 .. k |-> counts[i]]
    BY <1>2
<1>9. counts \in Seq(Strings) /\ Len(counts) = k
    <2>1. \A i \in 1 .. k : counts[i] \in Strings
        <3> TAKE i \in 1 .. k
        <3>1. list[i] \in Strings
            OBVIOUS
        <3> HIDE DEF counts, k
        <3> QED
            BY <1>7, <3>1
    <2>2. k \in Nat
        BY <1>1
    <2> HIDE DEF counts, k
    <2>3. [i \in 1 .. k |-> counts[i]] \in Seq(Strings)
        BY <2>1, <2>2, IsASeq
    <2>4. Len(counts) = k
        BY <1>8, <2>2, <2>3
    <2> QED
        BY <1>8, <2>3, <2>4
<1>10. Upto(counts)[k - 1] = before
    <2>1. k - 1 <= Len(counts) /\ k - 1 \in 0 .. Len(list)
        BY <1>1, <1>9
    <2>2. \A i \in 1 .. k - 1 : i \in 1 .. k /\ i # k
        BY <1>1
    <2> HIDE DEF counts, k
    <2>3. \A i \in 1 .. k - 1 : list[i] = counts[i]
        BY <1>7, <2>2
    <2> QED
        BY <1>9, <2>1, <2>3, UptoAgrees DEF before
<1>11. MadeOf(Join(counts), Upto(counts)[Len(counts) - 1], counts[Len(counts)])
    <2>1. counts # <<>>
        <3> HIDE DEF counts, k
        <3> QED
            BY <1>1, <1>9
    <2> HIDE DEF counts, k
    <2> QED
        BY <1>9, <2>1, JoinLast
<1>12. counts[k] = d
    BY <1>1, <1>7
<1>13. Join(counts) = header
    <2> HIDE DEF counts, k
    <2>1. Join(counts) = before \o d
        BY <1>9, <1>10, <1>11, <1>12 DEF MadeOf
    <2>2. header = before \o d
        BY DEF MadeOf, before, k
    <2> QED
        BY <2>1, <2>2
<1> QED
    BY <1>13, Zenon DEF Counted

\* Either the fragments are the beginning of the header, or all of it is counted
\* and what follows it stays.
LEMMA HeaderRead ==
    ASSUME NEW list \in Seq(Strings), list # <<>>, NEW unread \in Strings,
           \A i \in 1 .. Len(list) - 1 : Free(list[i]),
           NEW header, NEW n, IsHeader(header, n), NEW after \in Strings,
           NEW octets, MadeOf(octets, Join(list), unread), MadeOf(octets, header, after)
    PROVE  \/ /\ \A i \in 1 .. Len(list) : Free(list[i])
              /\ Free(Counted(list))
           \/ /\ Counted(list) = header
              /\ \E c \in Strings :
                    /\ Discard(Len(header), list) = IF c = <<>> THEN <<>> ELSE <<c>>
                    /\ MadeOf(after, c, unread)
<1> DEFINE k == Len(list)
           before == Upto(list)[k - 1]
           last == list[k]
<1>1. /\ k \in Nat \ {0} /\ last \in Strings /\ before \in Strings /\ MadeOf(Join(list), before, last)
    BY JoinLast
<1>2. header \in Strings /\ Len(header) \in Nat \ {0} /\ header[Len(header)] = LF
    BY HeaderIs
<1>3. Join(list) \in Strings
    BY UptoFacts
<1>4. Len(Join(list)) \in Nat
    BY <1>3 DEF Strings
<1>5. CASE Len(Join(list)) < Len(header)
    <2>1. Len(Join(list)) <= Len(header)
        BY <1>2, <1>4, <1>5
    <2>2. PICK c \in Strings : MadeOf(header, Join(list), c) /\ MadeOf(unread, c, after)
        BY <1>2, <1>3, <2>1, Levi
    <2>3. c # <<>>
        <3>1. Len(header) = Len(Join(list)) + Len(c)
            BY <1>3, <2>2, Parts
        <3>2. Len(c) # 0
            BY <1>2, <1>4, <1>5, <3>1
        <3> QED
            BY <3>2
    <2>4. Free(Join(list))
        BY <1>3, <2>2, <2>3, HeaderParts
    <2>5. Free(last)
        BY <1>1, <2>4, FreeParts
    <2>6. \A i \in 1 .. k : Free(list[i])
        <3> TAKE i \in 1 .. k
        <3>1. CASE i = k
            BY <2>5, <3>1
        <3>2. CASE i # k
            <4>1. i \in 1 .. Len(list) - 1
                BY <1>1, <3>2
            <4> QED
                BY <4>1
        <3> QED
            BY <3>1, <3>2
    <2>7. Free(Counted(list))
        BY <2>6, CountedFree
    <2> QED
        BY <2>6, <2>7
<1>6. CASE ~(Len(Join(list)) < Len(header))
    <2>1. Len(header) <= Len(Join(list))
        BY <1>2, <1>4, <1>6
    <2>2. PICK c \in Strings : MadeOf(Join(list), header, c) /\ MadeOf(after, c, unread)
        BY <1>2, <1>3, <2>1, Levi
    <2>3. Len(before) \in Nat
        BY <1>1 DEF Strings
    <2>4. Free(before)
        <3>1. k - 1 \in 0 .. Len(list)
            BY <1>1
        <3> QED
            BY <3>1, UptoFree DEF before
    <2>5. Len(before) < Len(header)
        <3> SUFFICES ASSUME ~(Len(before) < Len(header)) PROVE FALSE
            OBVIOUS
        <3>1. Len(header) <= Len(before)
            BY <1>2, <2>3
        <3> HIDE DEF before, last, k
        <3>2. PICK d \in Strings : MadeOf(before, header, d) /\ MadeOf(c, d, last)
            BY <1>1, <1>2, <2>2, <3>1, Levi
        <3>3. Free(header)
            BY <1>2, <2>4, <3>2, FreeParts
        <3> QED
            BY <1>2, <3>3 DEF Free
    <2>6. Len(before) <= Len(header)
        BY <1>2, <2>3, <2>5
    <2>7. PICK d \in Strings : MadeOf(header, before, d) /\ MadeOf(last, d, c)
        <3> HIDE DEF before, last, k
        <3> QED
            BY <1>1, <1>2, <2>2, <2>6, Levi
    <2>8. d # <<>>
        <3>1. Len(header) = Len(before) + Len(d)
            <4> HIDE DEF before, last, k
            <4> QED
                BY <1>1, <2>7, Parts
        <3>2. Len(d) # 0
            <4> HIDE DEF before
            <4> QED
                BY <1>2, <2>3, <2>5, <3>1
        <3> QED
            BY <3>2
    <2>9. Counted(list) = header
        BY <2>7, <2>8, CountedTo
    <2>10. Discard(Len(header), list) = IF c = <<>> THEN <<>> ELSE <<c>>
        <3>1. Join(list) = header \o c
            BY <2>2 DEF MadeOf
        <3>2. Len(Upto(list)[Len(list) - 1]) <= Len(header)
            BY <2>6
        <3> QED
            BY <1>2, <3>1, <3>2, LastDiscarded
    <2> QED
        BY <2>2, <2>9, <2>10
<1> QED
    BY <1>5, <1>6

-------------------------------------------------------------------------------
(* What the decoder still has to read. *)

\* Before the end marker: the rest of a chunk, then octets that stand for what the
\* decoder's output has not got yet.
Reads(rest, len, given, passed, held, done, more) ==
    \E body \in Strings, left \in Strings, content \in Strings :
        /\ Len(body) = len /\ MadeOf(rest, body, left) /\ Stands(left, content, done, more)
        /\ Adds(given, passed, body, content, held)

LEMMA MadeLonger ==
    ASSUME NEW octets, NEW a \in Strings, NEW b \in Strings, NEW c \in Strings, MadeOf(octets, a, b)
    PROVE  MadeOf(octets \o c, a, b \o c)
<1>1. (a \o b) \o c = a \o (b \o c)
    BY Associates
<1> QED
    BY <1>1 DEF MadeOf

LEMMA AddsHeld ==
    ASSUME NEW given, NEW passed \in Strings, NEW body \in Strings, NEW content \in Strings,
           NEW held \in Strings, Adds(given, passed, body, content, held),
           NEW octets \in Strings, NEW chunk, MadeOf(chunk, held, octets)
    PROVE  Adds(given \o octets, passed, body, content \o chunk, <<>>)
<1> DEFINE front == passed \o body
<1>1. given = (front \o content) \o held /\ chunk = held \o octets
    BY DEF Adds, MadeOf
<1>2. front \in Strings /\ chunk \in Strings
    BY <1>1, Concats
<1> HIDE DEF front
<1>3. front \o content \in Strings
    BY <1>2, Concats
<1>4. ((front \o content) \o held) \o octets = (front \o content) \o (held \o octets)
    BY <1>3, Associates
<1>5. (front \o content) \o chunk = front \o (content \o chunk)
    <2> DEFINE before == front \o content
               after == content \o chunk
    <2>1. MadeOf(before, front, content) /\ MadeOf(after, content, chunk)
        BY DEF MadeOf
    <2> HIDE DEF before, after
    <2>2. before \o chunk = front \o after
        BY <1>2, <2>1, Regroup
    <2> QED
        BY <2>2 DEF before, after
<1> DEFINE whole == front \o (content \o chunk)
<1>6. given \o octets = whole
    BY <1>1, <1>4, <1>5
<1>7. whole \in Strings
    <2>1. content \o chunk \in Strings
        BY <1>2, Concats
    <2> QED
        BY <1>2, <2>1, Concats
<1> HIDE DEF whole
<1>8. whole \o <<>> = whole
    BY <1>7, Concats
<1>9. given \o octets = whole \o <<>>
    BY <1>6, <1>8
<1> QED
    BY <1>9 DEF Adds, whole, front

LEMMA WritesReachChunk ==
    ASSUME NEW rest \in Strings, NEW len, NEW given \in Strings, NEW passed \in Strings,
           NEW held \in Strings, NEW octets \in Strings, NEW chunk \in Bodies, MadeOf(chunk, held, octets),
           Reads(rest, len, given, passed, held, FALSE, <<>>)
    PROVE  Reads(rest \o Code(chunk), len, given \o octets, passed, <<>>, FALSE, <<>>)
<1>1. PICK body \in Strings, left \in Strings, content \in Strings :
          /\ Len(body) = len /\ MadeOf(rest, body, left) /\ Stands(left, content, FALSE, <<>>)
          /\ Adds(given, passed, body, content, held)
    BY DEF Reads
<1> DEFINE code == Code(chunk)
<1>2. chunk \in Bodies /\ chunk \in Strings
    BY DEF Bodies
<1> HIDE DEF code
<1>3. code \in Strings
    BY <1>2, CodeType DEF code
<1>4. Stands(left \o code, content \o chunk, FALSE, <<>>)
    BY <1>1, <1>2, ChunkFollows DEF code
<1>5. MadeOf(rest \o code, body, left \o code)
    BY <1>1, <1>3, MadeLonger
<1>6. Adds(given \o octets, passed, body, content \o chunk, <<>>)
    BY <1>1, <1>2, AddsHeld
<1>7. left \o code \in Strings /\ content \o chunk \in Strings
    BY <1>2, <1>3, Concats
<1>8. Reads(rest \o code, len, given \o octets, passed, <<>>, FALSE, <<>>)
    BY <1>1, <1>4, <1>5, <1>6, <1>7 DEF Reads
<1> QED
    BY <1>8 DEF code

LEMMA WritesAreHeld ==
    ASSUME NEW rest \in Strings, NEW len, NEW given \in Strings, NEW passed \in Strings,
           NEW held \in Strings, NEW octets \in Strings, NEW done, NEW more,
           Reads(rest, len, given, passed, held, done, more)
    PROVE  Reads(rest, len, given \o octets, passed, held \o octets, done, more)
<1>1. PICK body \in Strings, left \in Strings, content \in Strings :
          /\ Len(body) = len /\ MadeOf(rest, body, left) /\ Stands(left, content, done, more)
          /\ Adds(given, passed, body, content, held)
    BY DEF Reads
<1>2. (passed \o body) \o content \in Strings
    BY Concats
<1>3. Adds(given \o octets, passed, body, content, held \o octets)
    <2> DEFINE front == (passed \o body) \o content
    <2> HIDE DEF front
    <2>1. (front \o held) \o octets = front \o (held \o octets)
        BY <1>2, Associates DEF front
    <2> QED
        BY <1>1, <2>1 DEF Adds, front
<1> QED
    BY <1>1, <1>3 DEF Reads

LEMMA ReadsTheEnd ==
    ASSUME NEW rest \in Strings, NEW len, NEW given, NEW passed, NEW held,
           NEW end \in {<<0, CR, LF>>, <<0, LF>>},
           Reads(rest, len, given, passed, held, FALSE, <<>>)
    PROVE  Reads(rest \o end, len, given, passed, held, TRUE, <<>>)
<1>1. PICK body \in Strings, left \in Strings, content \in Strings :
          /\ Len(body) = len /\ MadeOf(rest, body, left) /\ Stands(left, content, FALSE, <<>>)
          /\ Adds(given, passed, body, content, held)
    BY DEF Reads
<1>2. end \in Strings
    BY OctetsAre
<1>3. Stands(left \o end, content, TRUE, <<>>)
    BY <1>1, EndFollows
<1>4. MadeOf(rest \o end, body, left \o end)
    BY <1>1, <1>2, MadeLonger
<1>5. left \o end \in Strings
    BY <1>2, Concats
<1> QED
    BY <1>1, <1>3, <1>4, <1>5 DEF Reads

LEMMA ReadsMore ==
    ASSUME NEW rest \in Strings, NEW len, NEW given, NEW passed, NEW held,
           NEW more \in Strings, NEW octet \in Octets,
           Reads(rest, len, given, passed, held, TRUE, more)
    PROVE  Reads(Append(rest, octet), len, given, passed, held, TRUE, Append(more, octet))
<1>1. PICK body \in Strings, left \in Strings, content \in Strings :
          /\ Len(body) = len /\ MadeOf(rest, body, left) /\ Stands(left, content, TRUE, more)
          /\ Adds(given, passed, body, content, held)
    BY DEF Reads
<1>2. Append(left, octet) \in Strings
    BY AppendProperties DEF Strings
<1>3. Stands(Append(left, octet), content, TRUE, Append(more, octet))
    BY <1>1, MoreFollows
<1>4. MadeOf(Append(rest, octet), body, Append(left, octet))
    <2>1. <<octet>> \in Strings
        BY DEF Strings
    <2>2. MadeOf(rest \o <<octet>>, body, left \o <<octet>>)
        BY <1>1, <2>1, MadeLonger
    <2>3. Append(rest, octet) = rest \o <<octet>> /\ Append(left, octet) = left \o <<octet>>
        BY AppendIsConcat DEF Strings
    <2> QED
        BY <2>2, <2>3
<1> QED
    BY <1>1, <1>2, <1>3, <1>4 DEF Reads

LEMMA PassedOn ==
    ASSUME NEW given, NEW passed \in Strings, NEW body \in Strings, NEW content \in Strings,
           NEW held \in Strings, Adds(given, passed, body, content, held),
           NEW head \in Strings, NEW next \in Strings, MadeOf(body, head, next)
    PROVE  Adds(given, passed \o head, next, content, held)
<1>1. (passed \o head) \o next = passed \o (head \o next)
    BY Associates
<1>2. body = head \o next
    BY DEF MadeOf
<1>3. passed \o body = (passed \o head) \o next
    BY <1>1, <1>2
<1>4. given = ((passed \o body) \o content) \o held
    BY DEF Adds
<1> QED
    BY <1>3, <1>4 DEF Adds

LEMMA PassedLater ==
    ASSUME NEW given, NEW passed \in Strings, NEW content \in Strings, NEW held \in Strings,
           Adds(given, passed, <<>>, content, held),
           NEW head \in Strings, NEW next \in Strings, MadeOf(content, head, next)
    PROVE  Adds(given, passed, head, next, held)
<1>1. (passed \o head) \o next = passed \o (head \o next)
    BY Associates
<1>2. passed \o <<>> = passed
    BY Concats
<1>3. given = ((passed \o <<>>) \o content) \o held
    BY DEF Adds
<1>4. content = head \o next
    BY DEF MadeOf
<1> QED
    BY <1>1, <1>2, <1>3, <1>4 DEF Adds

\* Octets of the chunk are passed on.
LEMMA ReadsPassed ==
    ASSUME NEW rest \in Strings, NEW len, NEW given, NEW passed \in Strings, NEW held \in Strings,
           NEW done, NEW more, Reads(rest, len, given, passed, held, done, more),
           NEW head \in Strings, NEW next \in Strings, MadeOf(rest, head, next), Len(head) <= len
    PROVE  Reads(next, len - Len(head), given, passed \o head, held, done, more)
<1>1. PICK body \in Strings, left \in Strings, content \in Strings :
          /\ Len(body) = len /\ MadeOf(rest, body, left) /\ Stands(left, content, done, more)
          /\ Adds(given, passed, body, content, held)
    BY DEF Reads
<1>2. PICK tail \in Strings : MadeOf(body, head, tail) /\ MadeOf(next, tail, left)
    <2>1. Len(head) <= Len(body)
        BY <1>1
    <2> QED
        BY <1>1, <2>1, Levi
<1>3. Len(tail) = len - Len(head)
    <2>1. Len(body) = Len(head) + Len(tail) /\ Len(head) \in Nat /\ Len(tail) \in Nat
        BY <1>2, Parts
    <2> QED
        BY <1>1, <2>1
<1>4. Adds(given, passed \o head, tail, content, held)
    BY <1>1, <1>2, PassedOn
<1> QED
    BY <1>1, <1>2, <1>3, <1>4 DEF Reads

\* A header is read, where no octet of a chunk is left.
LEMMA ReadsHeader ==
    ASSUME NEW rest \in Bodies, NEW given, NEW passed \in Strings, NEW held \in Strings,
           NEW done \in BOOLEAN, NEW more \in Strings, Reads(rest, 0, given, passed, held, done, more)
    PROVE  \E header \in Strings, n \in Nat, after \in Strings :
              /\ IsHeader(header, n) /\ MadeOf(rest, header, after)
              /\ n = 0 => done /\ after = more /\ given = passed \o held
              /\ n # 0 => Reads(after, n, given, passed, held, done, more)
<1>1. PICK body \in Strings, left \in Strings, content \in Strings :
          /\ Len(body) = 0 /\ MadeOf(rest, body, left) /\ Stands(left, content, done, more)
          /\ Adds(given, passed, body, content, held)
    BY DEF Reads
<1>2. body = <<>>
    BY <1>1, EmptySeq DEF Strings
<1>3. left = rest
    BY <1>1, <1>2, Concats DEF MadeOf
<1>4. Adds(given, passed, <<>>, content, held)
    BY <1>1, <1>2
<1>5. PICK header \in Strings, n \in Nat, after \in Strings :
          /\ IsHeader(header, n) /\ MadeOf(rest, header, after)
          /\ Announced(n, after, content, done, more)
    BY <1>1, <1>3, StreamBegins
<1>6. ASSUME n = 0
      PROVE  done /\ after = more /\ given = passed \o held
    <2>1. done /\ content = <<>> /\ after = more
        BY <1>5, <1>6 DEF Announced
    <2>2. passed \o <<>> = passed
        BY Concats
    <2> QED
        BY <1>4, <2>1, <2>2 DEF Adds
<1>7. ASSUME n # 0
      PROVE  Reads(after, n, given, passed, held, done, more)
    <2>1. PICK part \in Strings, next \in Strings, other \in Strings :
              /\ Len(part) = n /\ MadeOf(after, part, next) /\ MadeOf(content, part, other)
              /\ Stands(next, other, done, more)
        BY <1>5, <1>7 DEF Announced
    <2>2. Adds(given, passed, part, other, held)
        BY <1>4, <2>1, PassedLater
    <2> QED
        BY <2>1, <2>2 DEF Reads
<1> QED
    BY <1>5, <1>6, <1>7

\* A string in two pieces.
LEMMA SplitAt ==
    ASSUME NEW octets \in Strings, NEW n \in 0 .. Len(octets)
    PROVE  /\ SubSeq(octets, 1, n) \in Strings /\ Len(SubSeq(octets, 1, n)) = n
           /\ SubSeq(octets, n + 1, Len(octets)) \in Strings
           /\ MadeOf(octets, SubSeq(octets, 1, n), SubSeq(octets, n + 1, Len(octets)))
<1> DEFINE front == SubSeq(octets, 1, n)
           rest == SubSeq(octets, n + 1, Len(octets))
<1>1. Len(octets) \in Nat /\ n \in Nat
    BY DEF Strings
<1>2. front \in Strings /\ Len(front) = n /\ \A i \in 1 .. n : front[i] = octets[i]
    BY PrefixType
<1>3. /\ rest \in Strings /\ Len(rest) = Len(octets) - n
      /\ \A i \in 1 .. Len(octets) - n : rest[i] = octets[n + i]
    <2>1. \A i \in n + 1 .. Len(octets) : i \in 1 .. Len(octets)
        BY <1>1
    <2>2. \A i \in n + 1 .. Len(octets) : octets[i] \in Octets
        BY <2>1 DEF Strings
    <2>3. n + 1 \in Int /\ Len(octets) \in Int
        BY <1>1
    <2>4. /\ rest \in Seq(Octets)
          /\ Len(rest) = IF n + 1 <= Len(octets) THEN Len(octets) - (n + 1) + 1 ELSE 0
          /\ \A i \in 1 .. Len(octets) - (n + 1) + 1 : rest[i] = octets[n + 1 + i - 1]
        BY <2>2, <2>3, SubSeqProperties
    <2> HIDE DEF rest
    <2>5. /\ Len(octets) - (n + 1) + 1 = Len(octets) - n
          /\ (IF n + 1 <= Len(octets) THEN Len(octets) - (n + 1) + 1 ELSE 0) = Len(octets) - n
        BY <1>1
    <2>6. \A i \in 1 .. Len(octets) - n : n + 1 + i - 1 = n + i
        BY <1>1
    <2> QED
        BY <2>4, <2>5, <2>6 DEF Strings
<1> DEFINE whole == front \o rest
<1> HIDE DEF front, rest
<1>4. MadeOf(whole, front, rest)
    BY DEF MadeOf
<1> HIDE DEF whole
<1>5. whole \in Strings /\ Len(whole) = Len(front) + Len(rest)
    BY <1>2, <1>3, <1>4, Parts
<1>6. \A i \in 1 .. Len(front) : whole[i] = front[i]
    BY <1>2, <1>3, <1>4, Parts
<1>7. \A i \in 1 .. Len(rest) : whole[Len(front) + i] = rest[i]
    BY <1>2, <1>3, <1>4, Parts
<1>8. Len(whole) = Len(octets)
    BY <1>1, <1>2, <1>3, <1>5
<1>9. ASSUME NEW i \in 1 .. Len(octets)
      PROVE  whole[i] = octets[i]
    <2>1. CASE i <= n
        <3>1. i \in 1 .. n
            BY <2>1
        <3> QED
            BY <1>2, <1>6, <3>1
    <2>2. CASE ~(i <= n)
        <3>1. i - n \in 1 .. Len(octets) - n /\ n + (i - n) = i
            BY <1>1, <2>2
        <3>2. whole[n + (i - n)] = rest[i - n]
            BY <1>2, <1>3, <1>7, <3>1
        <3>3. rest[i - n] = octets[n + (i - n)]
            BY <1>3, <3>1
        <3> QED
            BY <3>1, <3>2, <3>3
    <2> QED
        BY <2>1, <2>2
<1>10. whole = octets
    BY <1>5, <1>8, <1>9, SeqEqual DEF Strings
<1> QED
    BY <1>2, <1>3, <1>4, <1>10 DEF front, rest

-------------------------------------------------------------------------------
(* The inductive invariant. *)

Rest == Join(fragments) \o pipe

Typed ==
    /\ written \in Strings /\ buffered_bytes \in Strings /\ trailer \in Strings
    /\ pipe \in Strings /\ decoded \in Strings
    /\ fragments \in Seq(Bodies) /\ residue \in Seq(Strings)
    /\ ended \in BOOLEAN /\ active \in BOOLEAN /\ body_length \in Nat
    /\ state \in {"length", "body", "finished"}
    /\ ended => buffered_bytes = <<>>
    /\ ~ended => trailer = <<>>

\* What is still to be read makes up for what has not been decoded.
Unread ==
    /\ state = "length" => body_length = 0
    /\ state = "body" => body_length # 0
    /\ state # "finished" =>
          /\ residue = <<>>
          /\ Reads(Rest, body_length, written, decoded, buffered_bytes, ended, trailer)
    /\ state = "finished" =>
          ended /\ decoded = written /\ MadeOf(trailer, Join(residue), Rest)

\* Only the last fragment can hold more than a part of a header.
Kept ==
    /\ state = "length" => \A i \in 1 .. Len(fragments) - 1 : Free(fragments[i])
    /\ state = "length" /\ ~active => \A i \in 1 .. Len(fragments) : Free(fragments[i])
    /\ state # "length" => Len(fragments) <= 1
    /\ state # "length" /\ ~active => fragments = <<>>
    /\ outcome = "closed" => state = "finished"
    /\ state = "finished" /\ ~active => residue # <<>>

Inv == Typed /\ Unread /\ Kept

LEMMA RestType ==
    ASSUME Typed
    PROVE  Rest \in Strings /\ Join(fragments) \in Strings /\ fragments \in Seq(Strings)
<1>1. fragments \in Seq(Strings)
    BY ListsAreLists DEF Typed
<1>2. Join(fragments) \in Strings
    BY <1>1, UptoFacts
<1>3. pipe \in Strings
    BY DEF Typed
<1> QED
    BY <1>1, <1>2, <1>3, Concats DEF Rest

LEMMA InitKeeps == Init => Inv
<1> SUFFICES ASSUME Init PROVE Inv
    OBVIOUS
<1>1. <<>> \in Strings /\ <<>> \in Seq(Bodies) /\ <<>> \in Seq(Strings)
    BY Concats, CodedNone, EmptySeq
<1>2. Typed
    BY <1>1 DEF Init, Typed
<1>3. Rest = <<>>
    BY <1>1, JoinNone, Concats DEF Init, Rest
<1>4. Reads(<<>>, 0, <<>>, <<>>, <<>>, FALSE, <<>>)
    <2>1. <<>> \o <<>> = <<>>
        BY Concats
    <2>2. <<>> \in Closing(FALSE, <<>>) /\ <<>> = Coded(<<>>) \o <<>> /\ <<>> = Join(<<>>)
        BY <2>1, CodedNone, JoinNone DEF Closing
    <2>3. Stands(<<>>, <<>>, FALSE, <<>>)
        BY <1>1, <2>2 DEF Stands
    <2>4. MadeOf(<<>>, <<>>, <<>>) /\ Adds(<<>>, <<>>, <<>>, <<>>, <<>>)
        BY <2>1 DEF MadeOf, Adds
    <2>5. Len(<<>>) = 0
        OBVIOUS
    <2> QED
        BY <1>1, <2>3, <2>4, <2>5 DEF Reads
<1>5. Unread
    BY <1>3, <1>4 DEF Init, Unread
<1>6. Kept
    BY DEF Init, Kept
<1> QED
    BY <1>2, <1>5, <1>6 DEF Inv

LEMMA Flushes ==
    ASSUME NEW before \in Strings, NEW header \in Strings, NEW held \in Strings, NEW octets \in Strings,
           NEW flushed, MadeOf(flushed, header, held), NEW chunk, MadeOf(chunk, held, octets),
           NEW code, MadeOf(code, header, chunk)
    PROVE  (before \o flushed) \o octets = before \o code
<1>1. flushed = header \o held /\ chunk = held \o octets /\ code = header \o chunk
    BY DEF MadeOf
<1>2. header \o held \in Strings
    BY Concats
<1>3. (before \o (header \o held)) \o octets = before \o ((header \o held) \o octets)
    BY <1>2, Associates
<1>4. (header \o held) \o octets = header \o (held \o octets)
    BY Associates
<1> QED
    BY <1>1, <1>3, <1>4

\* What is put into the pipe comes last.
LEMMA RestGrows ==
    ASSUME Typed, NEW more \in Strings, pipe' = pipe \o more, fragments' = fragments
    PROVE  Rest' = Rest \o more /\ pipe' \in Strings
<1>1. Join(fragments) \in Strings /\ pipe \in Strings
    BY RestType DEF Typed
<1>2. (Join(fragments) \o pipe) \o more = Join(fragments) \o (pipe \o more)
    BY <1>1, Associates
<1>3. pipe \o more \in Strings
    BY <1>1, Concats
<1> QED
    BY <1>2, <1>3 DEF Rest

\* What a flush puts into the pipe is a chunk of all that was held and is given now.
LEMMA FlushIsChunk ==
    ASSUME Typed, NEW octets \in Strings, buffered_bytes \o octets # <<>>
    PROVE  pipe \o Flushed(Len(octets)) \o octets = pipe \o Code(buffered_bytes \o octets)
<1> DEFINE held == buffered_bytes
           chunk == held \o octets
           header == Header(Len(chunk))
<1>1. held \in Strings /\ pipe \in Strings
    BY DEF Typed
<1>2. chunk \in Strings
    BY <1>1, Concats
<1>3. Len(chunk) = Len(held) + Len(octets)
    BY <1>1, ConcatProperties DEF Strings
<1>4. header \in Strings
    BY <1>2, CodeType
<1>5. Flushed(Len(octets)) = header \o held
    <2>1. ~(held = <<>> /\ Len(octets) = 0)
        <3> SUFFICES ASSUME held = <<>>, Len(octets) = 0 PROVE FALSE
            OBVIOUS
        <3>1. octets = <<>>
            BY EmptySeq DEF Strings
        <3>2. chunk = <<>>
            BY <3>1, Concats
        <3> QED
            BY <3>2
    <2> QED
        BY <1>3, <2>1 DEF Flushed
<1>6. Code(chunk) = header \o chunk
    BY DEF Code
<1> DEFINE flushed == Flushed(Len(octets))
           code == Code(chunk)
<1>7. MadeOf(flushed, header, held) /\ MadeOf(chunk, held, octets) /\ MadeOf(code, header, chunk)
    BY <1>5, <1>6 DEF MadeOf
<1> HIDE DEF header, flushed, chunk, code, held
<1>8. (pipe \o flushed) \o octets = pipe \o code
    BY <1>1, <1>4, <1>7, Flushes
<1> QED
    BY <1>8 DEF flushed, code, chunk, held

\* While the encoder is open, nothing is over for the decoder.
LEMMA Open ==
    ASSUME Inv, ~ended
    PROVE  /\ state \in {"length", "body"} /\ state # "finished" /\ trailer = <<>> /\ residue = <<>>
           /\ Reads(Rest, body_length, written, decoded, buffered_bytes, FALSE, <<>>)
<1>1. ended \in BOOLEAN /\ state \in {"length", "body", "finished"} /\ trailer = <<>>
    BY DEF Inv, Typed
<1>2. state # "finished"
    BY DEF Inv, Unread
<1>3. ended = FALSE
    BY <1>1
<1>4. residue = <<>> /\ Reads(Rest, body_length, written, decoded, buffered_bytes, ended, trailer)
    BY <1>2 DEF Inv, Unread
<1> QED
    BY <1>1, <1>2, <1>3, <1>4

LEMMA EncoderWriteKeeps ==
    ASSUME Inv, NEW octets \in Strings, EncoderWrite(octets)
    PROVE  Inv'
<1> USE DEF Inv
<1>1. /\ Typed /\ written \in Strings /\ buffered_bytes \in Strings /\ decoded \in Strings
      /\ Rest \in Strings /\ pipe \in Strings
    BY RestType DEF Typed
<1>2. /\ ~ended /\ ended' = ended /\ trailer' = trailer /\ fragments' = fragments /\ state' = state
      /\ body_length' = body_length /\ active' = active /\ decoded' = decoded
      /\ residue' = residue /\ outcome' = outcome /\ written' = written \o octets
    BY DEF EncoderWrite, decoder
<1>3. /\ state \in {"length", "body"} /\ state # "finished" /\ trailer = <<>> /\ residue = <<>>
      /\ Reads(Rest, body_length, written, decoded, buffered_bytes, FALSE, <<>>)
    BY <1>2, Open
<1>4. ended = FALSE
    BY <1>2 DEF Typed
<1> DEFINE chunk == buffered_bytes \o octets
<1>5. chunk \in Strings /\ Len(chunk) = Len(buffered_bytes) + Len(octets)
    BY <1>1, ConcatProperties DEF Strings
<1>6. /\ buffered_bytes' \in Strings /\ pipe' \in Strings
      /\ Reads(Rest', body_length, written \o octets, decoded, buffered_bytes', FALSE, <<>>)
    <2>1. CASE Fills(octets)
        <3>1. pipe' = pipe \o Flushed(Len(octets)) \o octets /\ buffered_bytes' = <<>>
            BY <2>1 DEF EncoderWrite
        <3>2. chunk # <<>>
            <4>1. Len(chunk) # 0
                BY <1>5, <2>1, BoundsAssumption DEF Fills
            <4> QED
                BY <4>1
        <3>3. pipe \o Flushed(Len(octets)) \o octets = pipe \o Code(chunk)
            BY <1>1, <3>2, FlushIsChunk
        <3>4. chunk \in Bodies /\ Code(chunk) \in Strings
            BY <1>5, <3>2, CodeType DEF Bodies
        <3>5. MadeOf(chunk, buffered_bytes, octets)
            BY DEF MadeOf
        <3> HIDE DEF chunk
        <3>6. Rest' = Rest \o Code(chunk) /\ pipe' \in Strings
            BY <1>1, <1>2, <3>1, <3>3, <3>4, RestGrows
        <3>7. Reads(Rest \o Code(chunk), body_length, written \o octets, decoded, <<>>, FALSE, <<>>)
            BY <1>1, <1>3, <3>4, <3>5, WritesReachChunk
        <3> QED
            BY <3>1, <3>6, <3>7, Concats
    <2>2. CASE ~Fills(octets)
        <3>1. pipe' = pipe /\ buffered_bytes' = chunk
            BY <2>2 DEF EncoderWrite
        <3>2. Rest' = Rest
            BY <1>2, <3>1 DEF Rest
        <3>3. Reads(Rest, body_length, written \o octets, decoded, chunk, FALSE, <<>>)
            BY <1>1, <1>3, WritesAreHeld
        <3> QED
            BY <1>1, <1>5, <3>1, <3>2, <3>3
    <2> QED
        BY <2>1, <2>2
<1>7. written \o octets \in Strings
    BY <1>1, Concats
<1>8. Typed'
    BY <1>2, <1>4, <1>6, <1>7 DEF Typed
<1>9. Unread'
    BY <1>2, <1>3, <1>4, <1>6 DEF Unread
<1>10. Kept'
    BY <1>2 DEF Kept
<1> QED
    BY <1>8, <1>9, <1>10

LEMMA CloseKeeps ==
    ASSUME Inv, NEW end \in {<<0, CR, LF>>, <<0, LF>>}, ~ended, ended' = TRUE,
           pipe' = pipe \o Flushed(0) \o end, buffered_bytes' = <<>>,
           UNCHANGED <<written, trailer, strict, decoder>>
    PROVE  Inv'
<1> USE DEF Inv
<1>1. /\ Typed /\ written \in Strings /\ buffered_bytes \in Strings /\ decoded \in Strings
      /\ Rest \in Strings /\ pipe \in Strings /\ Join(fragments) \in Strings
    BY RestType DEF Typed
<1>2. /\ trailer' = trailer /\ fragments' = fragments /\ state' = state
      /\ body_length' = body_length /\ active' = active /\ decoded' = decoded
      /\ residue' = residue /\ outcome' = outcome /\ written' = written
    BY DEF decoder
<1>3. /\ state \in {"length", "body"} /\ state # "finished" /\ trailer = <<>> /\ residue = <<>>
      /\ Reads(Rest, body_length, written, decoded, buffered_bytes, FALSE, <<>>)
    BY Open
<1> DEFINE flushed == pipe \o Flushed(0)
<1>4. /\ flushed \in Strings
      /\ Reads(Join(fragments) \o flushed, body_length, written, decoded, <<>>, FALSE, <<>>)
    <2>1. CASE buffered_bytes = <<>>
        <3>1. flushed = pipe
            BY <1>1, <2>1, Concats DEF Flushed
        <3> QED
            BY <1>1, <1>3, <2>1, <3>1 DEF Rest
    <2>2. CASE buffered_bytes # <<>>
        <3>1. buffered_bytes \o <<>> = buffered_bytes /\ <<>> \in Strings /\ Len(<<>>) = 0
            BY <1>1, Concats
        <3>2. pipe \o Flushed(Len(<<>>)) \o <<>> = pipe \o Code(buffered_bytes \o <<>>)
            BY <1>1, <2>2, <3>1, FlushIsChunk
        <3>3. buffered_bytes \in Bodies /\ Code(buffered_bytes) \in Strings
            BY <1>1, <2>2, CodeType DEF Bodies
        <3>4. flushed = pipe \o Code(buffered_bytes)
            <4>1. Flushed(0) = Header(Len(buffered_bytes)) \o buffered_bytes
                <5>1. Len(buffered_bytes) + 0 = Len(buffered_bytes)
                    BY <1>1 DEF Strings
                <5> QED
                    BY <2>2, <5>1 DEF Flushed
            <4> QED
                BY <4>1 DEF Code
        <3>5. MadeOf(buffered_bytes, buffered_bytes, <<>>) /\ written \o <<>> = written
            BY <1>1, <3>1, Concats DEF MadeOf
        <3>6. Reads(Rest \o Code(buffered_bytes), body_length, written \o <<>>, decoded, <<>>, FALSE, <<>>)
            BY <1>1, <1>3, <3>1, <3>3, <3>5, WritesReachChunk
        <3>7. Rest \o Code(buffered_bytes) = Join(fragments) \o flushed
            <4>1. MadeOf(Rest, Join(fragments), pipe)
                BY DEF MadeOf, Rest
            <4>2. MadeOf(Rest \o Code(buffered_bytes), Join(fragments), pipe \o Code(buffered_bytes))
                BY <1>1, <3>3, <4>1, MadeLonger
            <4> QED
                BY <3>4, <4>2 DEF MadeOf
        <3>8. flushed \in Strings
            BY <1>1, <3>3, <3>4, Concats
        <3> QED
            BY <3>5, <3>6, <3>7, <3>8
    <2> QED
        BY <2>1, <2>2
<1>5. pipe' = flushed \o end
    OBVIOUS
<1> HIDE DEF flushed
<1>6. end \in Strings
    BY OctetsAre
<1>7. Join(fragments) \o flushed \in Strings /\ pipe' \in Strings
    <2>1. Join(fragments) \o flushed \in Strings
        BY <1>1, <1>4, Concats
    <2>2. flushed \o end \in Strings
        BY <1>4, <1>6, Concats
    <2> QED
        BY <1>5, <2>1, <2>2
<1>8. Reads((Join(fragments) \o flushed) \o end, body_length, written, decoded, <<>>, TRUE, <<>>)
    BY <1>4, <1>7, ReadsTheEnd
<1>9. Rest' = (Join(fragments) \o flushed) \o end
    <2>1. MadeOf(Join(fragments) \o flushed, Join(fragments), flushed)
        BY DEF MadeOf
    <2>2. MadeOf((Join(fragments) \o flushed) \o end, Join(fragments), flushed \o end)
        BY <1>1, <1>4, <1>6, <2>1, MadeLonger
    <2> QED
        BY <1>2, <1>5, <2>2 DEF MadeOf, Rest
<1>10. Typed'
    BY <1>2, <1>3, <1>7, Concats DEF Typed
<1>11. Unread'
    BY <1>2, <1>3, <1>8, <1>9 DEF Unread
<1>12. Kept'
    BY <1>2 DEF Kept
<1> QED
    BY <1>10, <1>11, <1>12

LEMMA WriteTrailerKeeps ==
    ASSUME Inv, NEW octet \in Payload, WriteTrailer(octet)
    PROVE  Inv'
<1> USE DEF Inv
<1>1. /\ Typed /\ trailer \in Strings /\ pipe \in Strings /\ decoded \in Strings
      /\ Rest \in Strings /\ Join(fragments) \in Strings
    BY RestType DEF Typed
<1>2. /\ ended /\ ended' = ended /\ written' = written /\ buffered_bytes' = buffered_bytes
      /\ fragments' = fragments /\ state' = state
      /\ body_length' = body_length /\ active' = active /\ decoded' = decoded
      /\ residue' = residue /\ outcome' = outcome
    BY DEF WriteTrailer, decoder
<1>3. ended = TRUE
    BY <1>2 DEF Typed
<1>4. octet \in Octets /\ <<octet>> \in Strings
    BY PayloadAssumption DEF Strings
<1>5. /\ trailer' = Append(trailer, octet) /\ Append(trailer, octet) = trailer \o <<octet>>
      /\ pipe' = pipe \o <<octet>>
    <2>1. trailer' = Append(trailer, octet) /\ pipe' = Append(pipe, octet)
        BY DEF WriteTrailer
    <2> QED
        BY <1>1, <1>4, <2>1, AppendIsConcat DEF Strings
<1>6. Rest' = Rest \o <<octet>> /\ pipe' \in Strings
    BY <1>1, <1>2, <1>4, <1>5, RestGrows
<1>7. Append(Rest, octet) = Rest \o <<octet>>
    BY <1>1, <1>4, AppendIsConcat DEF Strings
<1>8. trailer' \in Strings
    BY <1>1, <1>4, <1>5, Concats
<1>9. ASSUME state # "finished"
      PROVE  Reads(Rest', body_length, written, decoded, buffered_bytes, TRUE, trailer')
    <2>1. Reads(Rest, body_length, written, decoded, buffered_bytes, TRUE, trailer)
        BY <1>3, <1>9 DEF Unread
    <2>2. Reads(Append(Rest, octet), body_length, written, decoded, buffered_bytes, TRUE,
                Append(trailer, octet))
        BY <1>1, <1>4, <2>1, ReadsMore
    <2> QED
        BY <1>5, <1>6, <1>7, <2>2
<1>10. ASSUME state = "finished"
       PROVE  MadeOf(trailer', Join(residue), Rest')
    <2>1. MadeOf(trailer, Join(residue), Rest)
        BY <1>10 DEF Unread
    <2>2. Join(residue) \in Strings
        BY UptoFacts DEF Typed
    <2>3. MadeOf(trailer \o <<octet>>, Join(residue), Rest \o <<octet>>)
        BY <1>1, <1>4, <2>1, <2>2, MadeLonger
    <2> QED
        BY <1>5, <1>6, <2>3
<1>11. Typed'
    BY <1>2, <1>6, <1>8 DEF Typed
<1>12. Unread'
    BY <1>2, <1>3, <1>9, <1>10 DEF Unread
<1>13. Kept'
    BY <1>2 DEF Kept
<1> QED
    BY <1>11, <1>12, <1>13

LEMMA DecoderWriteKeeps ==
    ASSUME Inv, NEW n \in 1 .. Len(pipe), DecoderWrite(n)
    PROVE  Inv'
<1> USE DEF Inv
<1> DEFINE front == SubSeq(pipe, 1, n)
           rest == SubSeq(pipe, n + 1, Len(pipe))
           whole == Join(fragments)
<1>1. /\ Typed /\ pipe \in Strings /\ Len(pipe) \in Nat /\ Rest \in Strings
      /\ whole \in Strings /\ fragments \in Seq(Strings) /\ fragments \in Seq(Bodies)
    BY RestType DEF Typed, Strings
<1>2. /\ ended' = ended /\ written' = written /\ buffered_bytes' = buffered_bytes /\ trailer' = trailer
      /\ state' = state /\ body_length' = body_length /\ decoded' = decoded
      /\ residue' = residue /\ outcome' = outcome /\ active' = TRUE /\ ~active
      /\ fragments' = Append(fragments, front) /\ pipe' = rest
    BY DEF DecoderWrite, encoder
<1>3. n \in 0 .. Len(pipe) /\ n \in Nat \ {0}
    BY <1>1
<1>4. front \in Strings /\ Len(front) = n /\ rest \in Strings /\ MadeOf(pipe, front, rest)
    BY <1>1, <1>3, SplitAt
<1> HIDE DEF front, rest
<1>5. front \in Bodies
    <2>1. Len(front) # 0
        BY <1>3, <1>4
    <2>2. front # <<>>
        BY <2>1
    <2> QED
        BY <1>4, <2>2 DEF Bodies
<1>6. Join(Append(fragments, front)) = whole \o front
    BY <1>1, <1>4, JoinAppend
<1> HIDE DEF whole
<1>7. Rest' = Rest
    <2>1. Rest' = (whole \o front) \o rest
        BY <1>2, <1>6 DEF Rest
    <2>2. (whole \o front) \o rest = whole \o (front \o rest)
        BY <1>1, <1>4, Associates
    <2>3. pipe = front \o rest
        BY <1>4 DEF MadeOf
    <2> QED
        BY <2>1, <2>2, <2>3 DEF Rest, whole
<1>8. /\ fragments' \in Seq(Bodies) /\ Len(fragments') = Len(fragments) + 1 /\ Len(fragments) \in Nat
      /\ \A i \in 1 .. Len(fragments) : fragments'[i] = fragments[i]
    BY <1>1, <1>2, <1>5, AppendProperties
<1>9. Typed'
    BY <1>2, <1>4, <1>8 DEF Typed
<1>10. Unread'
    BY <1>2, <1>7 DEF Unread
<1>11. ASSUME state = "length"
       PROVE  \A i \in 1 .. Len(fragments') - 1 : Free(fragments'[i])
    <2>1. \A i \in 1 .. Len(fragments) : Free(fragments[i])
        BY <1>2, <1>11 DEF Kept
    <2>2. Len(fragments') - 1 = Len(fragments)
        BY <1>8
    <2> QED
        BY <1>8, <2>1, <2>2
<1>12. ASSUME state # "length"
       PROVE  Len(fragments') <= 1
    <2>1. fragments = <<>>
        BY <1>2, <1>12 DEF Kept
    <2>2. Len(fragments) = 0
        BY <2>1
    <2> QED
        BY <1>8, <2>2
<1>13. Kept'
    BY <1>2, <1>11, <1>12 DEF Kept
<1> QED
    BY <1>9, <1>10, <1>13

\* The steps that leave what is read alone.
LEMMA RestKept ==
    ASSUME Inv, UNCHANGED <<encoder, pipe, strict, fragments, state, body_length, decoded, residue>>,
           active' \in BOOLEAN
    PROVE  Typed' /\ Unread'
<1> USE DEF Inv
<1>1. /\ ended' = ended /\ written' = written /\ buffered_bytes' = buffered_bytes /\ trailer' = trailer
      /\ pipe' = pipe /\ fragments' = fragments /\ state' = state /\ body_length' = body_length
      /\ decoded' = decoded /\ residue' = residue
    BY DEF encoder
<1>2. Rest' = Rest
    BY <1>1 DEF Rest
<1>3. Typed'
    BY <1>1 DEF Typed
<1>4. Unread'
    BY <1>1, <1>2 DEF Unread
<1> QED
    BY <1>3, <1>4

LEMMA FreeIsUnread ==
    ASSUME Typed, \A i \in 1 .. Len(fragments) : Free(fragments[i])
    PROVE  ~HeaderComplete
<1>1. fragments \in Seq(Strings)
    BY RestType
<1>2. Counted(fragments) = Join(fragments) /\ Free(Counted(fragments))
    BY <1>1, CountedFree
<1>3. Counted(fragments) \in Strings
    BY <1>1, <1>2, UptoFacts
<1>4. ~(Counted(fragments) # <<>> /\ Counted(fragments)[Len(Counted(fragments))] = LF)
    BY <1>2, <1>3, FreeIsIncomplete
<1> QED
    BY <1>4, CountedIs DEF HeaderComplete

LEMMA RestIsSome ==
    ASSUME Typed, fragments # <<>>
    PROVE  Rest \in Bodies
<1>1. fragments \in Seq(Strings) /\ Rest \in Strings /\ Join(fragments) \in Strings /\ pipe \in Strings
    BY RestType DEF Typed
<1>2. Head(fragments) \in Bodies /\ Tail(fragments) \in Seq(Strings)
    BY <1>1, HeadTailProperties DEF Typed
<1>3. Join(Tail(fragments)) \in Strings
    BY <1>2, UptoFacts
<1>4. MadeOf(Join(fragments), Head(fragments), Join(Tail(fragments)))
    BY <1>1, JoinFirst DEF MadeOf
<1> DEFINE head == Head(fragments)
           next == Join(Tail(fragments))
           whole == Join(fragments)
<1>5. head \in Strings /\ Len(head) \in Nat \ {0}
    <2>1. head \in Strings /\ head # <<>>
        BY <1>2 DEF Bodies
    <2> HIDE DEF head
    <2> QED
        BY <2>1, EmptySeq DEF Strings
<1>6. MadeOf(Rest, whole, pipe)
    BY DEF MadeOf, Rest
<1> HIDE DEF head, next, whole
<1>7. Len(whole) = Len(head) + Len(next) /\ Len(next) \in Nat
    BY <1>3, <1>4, <1>5, Parts DEF head, next, whole
<1>8. Len(Rest) = Len(whole) + Len(pipe) /\ Len(pipe) \in Nat
    <2>1. whole \in Strings
        BY <1>1 DEF whole
    <2> QED
        BY <1>1, <1>6, <2>1, Parts
<1>9. Len(Rest) # 0
    BY <1>5, <1>7, <1>8
<1>10. Rest # <<>>
    BY <1>9
<1> QED
    BY <1>1, <1>10 DEF Bodies

\* What a header that was read means, and what is left of the fragments.
Announces(n, after) ==
    /\ n = 0 => ended /\ after = trailer /\ written = decoded \o buffered_bytes
    /\ n # 0 => Reads(after, n, written, decoded, buffered_bytes, ended, trailer)
Left(list, c) == list = IF c = <<>> THEN <<>> ELSE <<c>>

LEMMA HeaderState ==
    ASSUME Inv, state = "length"
    PROVE  \/ ~HeaderComplete /\ \A i \in 1 .. Len(fragments) : Free(fragments[i])
           \/ HeaderComplete /\ \E n \in Nat, after \in Strings, c \in Strings :
                  /\ Number(Stripped(AllCountChars)) = n /\ Announces(n, after)
                  /\ Left(Discard(Len(AllCountChars), fragments), c) /\ MadeOf(after, c, pipe)
<1> USE DEF Inv
<1>1. /\ Typed /\ fragments \in Seq(Strings) /\ Rest \in Strings /\ Join(fragments) \in Strings
      /\ pipe \in Strings /\ trailer \in Strings /\ decoded \in Strings /\ buffered_bytes \in Strings
      /\ ended \in BOOLEAN
    BY RestType DEF Typed
<1>2. CASE \A i \in 1 .. Len(fragments) : Free(fragments[i])
    BY <1>1, <1>2, FreeIsUnread
<1>3. CASE ~(\A i \in 1 .. Len(fragments) : Free(fragments[i]))
    <2>1. fragments # <<>>
        BY <1>3
    <2>2. Rest \in Bodies
        BY <1>1, <2>1, RestIsSome
    <2>3. Reads(Rest, 0, written, decoded, buffered_bytes, ended, trailer)
        BY DEF Unread
    <2>4. PICK header \in Strings, n \in Nat, after \in Strings :
              /\ IsHeader(header, n) /\ MadeOf(Rest, header, after)
              /\ n = 0 => ended /\ after = trailer /\ written = decoded \o buffered_bytes
              /\ n # 0 => Reads(after, n, written, decoded, buffered_bytes, ended, trailer)
        BY <1>1, <2>2, <2>3, ReadsHeader
    <2>5. Announces(n, after)
        BY <2>4 DEF Announces
    <2>6. \A i \in 1 .. Len(fragments) - 1 : Free(fragments[i])
        BY DEF Kept
    <2>7. MadeOf(Rest, Join(fragments), pipe)
        BY DEF MadeOf, Rest
    <2>8. /\ Counted(fragments) = header
          /\ \E c \in Strings :
                /\ Discard(Len(header), fragments) = IF c = <<>> THEN <<>> ELSE <<c>>
                /\ MadeOf(after, c, pipe)
        BY <1>1, <1>3, <2>1, <2>4, <2>6, <2>7, HeaderRead
    <2>9. AllCountChars = header
        BY <2>8, CountedIs
    <2>10. PICK c \in Strings : Left(Discard(Len(AllCountChars), fragments), c) /\ MadeOf(after, c, pipe)
        BY <2>8, <2>9 DEF Left
    <2>11. HeaderComplete
        <3>1. Len(header) \in Nat \ {0} /\ header[Len(header)] = LF
            BY <2>4, HeaderIs
        <3>2. header # <<>>
            BY <3>1
        <3> QED
            BY <2>9, <3>1, <3>2 DEF HeaderComplete
    <2>12. Number(Stripped(AllCountChars)) = n
        BY <2>4, <2>9, DigitsOfHeader
    <2> QED
        BY <2>5, <2>10, <2>11, <2>12
<1> QED
    BY <1>2, <1>3

LEMMA LeftOver ==
    ASSUME NEW list, NEW c \in Strings, NEW unread \in Strings, NEW after,
           Left(list, c), MadeOf(after, c, unread)
    PROVE  /\ list \in Seq(Bodies) /\ Len(list) <= 1 /\ after = Join(list) \o unread
           /\ \A i \in 1 .. Len(list) - 1 : Free(list[i])
<1>1. after = c \o unread
    BY DEF MadeOf
<1>2. CASE c = <<>>
    <2>1. list = <<>>
        BY <1>2 DEF Left
    <2>2. Join(list) = c
        BY <1>2, <2>1, JoinNone
    <2>3. Len(list) = 0
        BY <2>1
    <2>4. list \in Seq(Bodies)
        BY <2>1, CodedNone
    <2>5. \A i \in 1 .. Len(list) - 1 : FALSE
        BY <2>3
    <2> QED
        BY <1>1, <2>2, <2>3, <2>4, <2>5
<1>3. CASE c # <<>>
    <2>1. list = <<c>>
        BY <1>3 DEF Left
    <2>2. Join(list) = c
        BY <2>1, JoinOne
    <2>3. Len(list) = 1
        BY <2>1
    <2>4. list \in Seq(Bodies)
        <3>1. c \in Bodies
            BY <1>3 DEF Bodies
        <3> QED
            BY <2>1, <3>1
    <2>5. \A i \in 1 .. Len(list) - 1 : FALSE
        BY <2>3
    <2> QED
        BY <1>1, <2>2, <2>3, <2>4, <2>5
<1> QED
    BY <1>2, <1>3

LEMMA ReadLengthMoreKeeps ==
    ASSUME Inv, ReadLengthMore
    PROVE  Inv'
<1> USE DEF Inv
<1>1. /\ state = "length" /\ ~HeaderComplete /\ active' = FALSE /\ outcome' = outcome
      /\ state' = state /\ fragments' = fragments /\ residue' = residue
    BY DEF ReadLengthMore, Return
<1>2. Typed' /\ Unread'
    <2>1. active' \in BOOLEAN
        BY <1>1
    <2>2. UNCHANGED <<encoder, pipe, strict, fragments, state, body_length, decoded, residue>>
        BY DEF ReadLengthMore
    <2> QED
        BY <2>1, <2>2, RestKept
<1>3. \A i \in 1 .. Len(fragments) : Free(fragments[i])
    BY <1>1, HeaderState
<1>4. \A i \in 1 .. Len(fragments) - 1 : Free(fragments[i])
    BY <1>1 DEF Kept
<1>5. Kept'
    BY <1>1, <1>3, <1>4 DEF Kept
<1> QED
    BY <1>2, <1>5

LEMMA ReadLengthRaisesKeeps ==
    ASSUME Inv, ReadLengthRaises
    PROVE  Inv'
<1> USE DEF Inv
<1>1. /\ active' = active /\ outcome' = "invalid header" /\ state' = state /\ fragments' = fragments /\ residue' = residue
    BY DEF ReadLengthRaises
<1>2. Typed' /\ Unread'
    <2>1. active' \in BOOLEAN
        BY <1>1 DEF Typed
    <2>2. UNCHANGED <<encoder, pipe, strict, fragments, state, body_length, decoded, residue>>
        BY DEF ReadLengthRaises
    <2> QED
        BY <2>1, <2>2, RestKept
<1>3. Kept'
    BY <1>1 DEF Kept
<1> QED
    BY <1>2, <1>3

LEMMA DecoderCloseKeeps ==
    ASSUME Inv, DecoderClose
    PROVE  Inv'
<1> USE DEF Inv
<1>1. /\ active' = active /\ outcome' = (IF state = "finished" THEN "closed" ELSE "incomplete stream")
      /\ state' = state /\ fragments' = fragments /\ residue' = residue
    BY DEF DecoderClose, Closable
<1>2. Typed' /\ Unread'
    <2>1. active' \in BOOLEAN
        BY <1>1 DEF Typed
    <2>2. UNCHANGED <<encoder, pipe, strict, fragments, state, body_length, decoded, residue>>
        BY DEF DecoderClose
    <2> QED
        BY <2>1, <2>2, RestKept
<1>3. Kept'
    BY <1>1 DEF Kept
<1> QED
    BY <1>2, <1>3

LEMMA ReadBodyNothingKeeps ==
    ASSUME Inv, ReadBodyNothing
    PROVE  Inv'
<1> USE DEF Inv
<1>1. /\ active' = FALSE /\ state = "body" /\ fragments = <<>> /\ outcome' = outcome
      /\ state' = state /\ fragments' = fragments /\ residue' = residue
    BY DEF ReadBodyNothing, Return
<1>2. Typed' /\ Unread'
    <2>1. active' \in BOOLEAN
        BY <1>1
    <2>2. UNCHANGED <<encoder, pipe, strict, fragments, state, body_length, decoded, residue>>
        BY DEF ReadBodyNothing
    <2> QED
        BY <2>1, <2>2, RestKept
<1>3. Kept'
    BY <1>1 DEF Kept
<1> QED
    BY <1>2, <1>3

LEMMA ReadLengthKeeps ==
    ASSUME Inv, ReadLength
    PROVE  Inv'
<1> USE DEF Inv
<1>1. /\ Typed /\ pipe \in Strings /\ decoded \in Strings /\ written \in Strings
    BY DEF Typed
<1>2. /\ state = "length" /\ HeaderComplete /\ outcome = "open" /\ outcome' = outcome
      /\ body_length' = Number(Stripped(AllCountChars))
      /\ fragments' = Discard(Len(AllCountChars), fragments)
      /\ state' = (IF body_length' = 0 THEN "finished" ELSE "body")
      /\ active' = ~(state' = "finished" /\ fragments' = <<>>)
      /\ residue' = (IF active' THEN residue ELSE Append(residue, <<>>))
    BY DEF ReadLength, Working, CallNext
<1>3. /\ ended' = ended /\ written' = written /\ buffered_bytes' = buffered_bytes /\ trailer' = trailer
      /\ pipe' = pipe /\ decoded' = decoded
    BY DEF ReadLength, encoder
<1>4. PICK n \in Nat, after \in Strings, c \in Strings :
          /\ Number(Stripped(AllCountChars)) = n /\ Announces(n, after)
          /\ Left(Discard(Len(AllCountChars), fragments), c) /\ MadeOf(after, c, pipe)
    BY <1>2, HeaderState
<1>5. body_length' = n /\ Left(fragments', c)
    BY <1>2, <1>4
<1>6. /\ fragments' \in Seq(Bodies) /\ Len(fragments') <= 1 /\ after = Join(fragments') \o pipe
      /\ \A i \in 1 .. Len(fragments') - 1 : Free(fragments'[i])
    BY <1>1, <1>4, <1>5, LeftOver
<1>7. Rest' = after
    BY <1>3, <1>6 DEF Rest
<1>8. residue = <<>>
    BY <1>2 DEF Unread
<1>12. residue' \in Seq(Strings) /\ Join(residue') = <<>> /\ (~active' => residue' # <<>>)
    <2>1. <<>> \in Strings /\ <<>> \in Seq(Strings) /\ Append(<<>>, <<>>) = <<<<>>>>
        BY Concats
    <2>2. residue' = <<>> \/ (residue' = <<<<>>>> /\ ~active')
        BY <1>2, <1>8, <2>1
    <2>3. active' => residue' = <<>>
        BY <1>2, <1>8
    <2>4. ~active' => residue' = <<<<>>>>
        BY <1>2, <1>8, <2>1
    <2>5. <<<<>>>> \in Seq(Strings) /\ <<<<>>>> # <<>>
        BY <2>1
    <2> QED
        BY <2>1, <2>3, <2>4, <2>5, JoinNone, JoinOne
<1>9. Typed'
    <2>1. state' \in {"length", "body", "finished"} /\ active' \in BOOLEAN
        BY <1>2
    <2> QED
        BY <1>3, <1>5, <1>6, <1>12, <2>1 DEF Typed
<1>10. CASE n = 0
    <2>1. state' = "finished"
        BY <1>2, <1>5, <1>10
    <2>2. ended /\ after = trailer /\ written = decoded \o buffered_bytes
        BY <1>4, <1>10 DEF Announces
    <2>3. written = decoded
        <3>1. buffered_bytes = <<>>
            BY <2>2 DEF Typed
        <3> QED
            BY <1>1, <2>2, <3>1, Concats
    <2>4. MadeOf(trailer, Join(residue'), after)
        BY <1>4, <1>12, <2>2, Concats DEF MadeOf
    <2>5. Unread'
        BY <1>3, <1>7, <2>1, <2>2, <2>3, <2>4 DEF Unread
    <2>6. Kept'
        BY <1>2, <1>6, <1>12, <2>1 DEF Kept
    <2> QED
        BY <1>9, <2>5, <2>6
<1>11. CASE n # 0
    <2>1. state' = "body" /\ active' = TRUE
        BY <1>2, <1>5, <1>11
    <2>2. Reads(after, n, written, decoded, buffered_bytes, ended, trailer)
        BY <1>4, <1>11 DEF Announces
    <2>5. residue' = <<>>
        BY <1>2, <1>8, <2>1
    <2>3. Unread'
        BY <1>3, <1>5, <1>7, <1>11, <2>1, <2>2, <2>5 DEF Unread
    <2>4. Kept'
        BY <1>2, <1>6, <2>1 DEF Kept
    <2> QED
        BY <1>9, <2>3, <2>4
<1> QED
    BY <1>10, <1>11

LEMMA HeadFirst ==
    ASSUME Typed, fragments # <<>>
    PROVE  /\ Head(fragments) \in Bodies /\ Head(fragments) \in Strings
           /\ Tail(fragments) \in Seq(Bodies) /\ Len(Tail(fragments)) = Len(fragments) - 1
           /\ Len(fragments) \in Nat
           /\ Join(Tail(fragments)) \o pipe \in Strings
           /\ MadeOf(Rest, Head(fragments), Join(Tail(fragments)) \o pipe)
<1>1. fragments \in Seq(Bodies) /\ fragments \in Seq(Strings) /\ pipe \in Strings
    BY RestType DEF Typed
<1>2. /\ Head(fragments) \in Bodies /\ Tail(fragments) \in Seq(Bodies)
      /\ Len(Tail(fragments)) = Len(fragments) - 1 /\ Len(fragments) \in Nat
    BY <1>1, HeadTailProperties
<1>3. Head(fragments) \in Strings /\ Tail(fragments) \in Seq(Strings)
    BY <1>2, ListsAreLists DEF Bodies
<1>4. Join(Tail(fragments)) \in Strings
    BY <1>3, UptoFacts
<1>5. MadeOf(Join(fragments), Head(fragments), Join(Tail(fragments)))
    BY <1>1, JoinFirst DEF MadeOf
<1> DEFINE head == Head(fragments)
           next == Join(Tail(fragments))
<1> HIDE DEF head, next
<1>6. MadeOf(Join(fragments), head, next) /\ head \in Strings /\ next \in Strings
    BY <1>3, <1>4, <1>5 DEF head, next
<1>7. MadeOf(Rest, head, next \o pipe)
    <2>1. MadeOf(Join(fragments) \o pipe, head, next \o pipe)
        BY <1>1, <1>6, MadeLonger
    <2> QED
        BY <2>1 DEF Rest
<1>8. next \o pipe \in Strings
    BY <1>1, <1>6, Concats
<1> QED
    BY <1>2, <1>3, <1>7, <1>8 DEF head, next

LEMMA ReadBodyFragmentKeeps ==
    ASSUME Inv, ReadBodyFragment
    PROVE  Inv'
<1> USE DEF Inv
<1> DEFINE head == Head(fragments)
           next == Join(Tail(fragments)) \o pipe
<1>1. /\ Typed /\ decoded \in Strings /\ buffered_bytes \in Strings /\ body_length \in Nat
      /\ Rest \in Strings
    BY RestType DEF Typed
<1>2. /\ state = "body" /\ fragments # <<>> /\ body_length >= Len(head)
      /\ decoded' = decoded \o head /\ body_length' = body_length - Len(head)
      /\ fragments' = Tail(fragments)
      /\ state' = (IF body_length' = 0 THEN "length" ELSE "body")
      /\ active' = (body_length' # 0 /\ fragments' # <<>>)
      /\ outcome' = outcome /\ outcome = "open"
    BY DEF ReadBodyFragment, Working, Pass
<1>3. /\ ended' = ended /\ written' = written /\ buffered_bytes' = buffered_bytes /\ trailer' = trailer
      /\ pipe' = pipe /\ residue' = residue
    BY DEF ReadBodyFragment, encoder
<1>4. /\ head \in Strings /\ fragments' \in Seq(Bodies) /\ Len(fragments') = Len(fragments) - 1
      /\ Len(fragments) \in Nat /\ next \in Strings /\ MadeOf(Rest, head, next)
    BY <1>1, <1>2, HeadFirst
<1>5. Rest' = next
    BY <1>2, <1>3 DEF Rest
<1> HIDE DEF head, next
<1>6. Len(head) \in Nat /\ Len(head) <= body_length
    <2>1. Len(head) \in Nat
        BY <1>4 DEF Strings
    <2> QED
        BY <1>1, <1>2, <2>1
<1>7. body_length' \in Nat /\ decoded' \in Strings
    <2>1. body_length' \in Nat
        BY <1>1, <1>2, <1>6
    <2>2. decoded' \in Strings
        BY <1>1, <1>2, <1>4, Concats
    <2> QED
        BY <2>1, <2>2
<1>8. residue = <<>> /\ Reads(Rest, body_length, written, decoded, buffered_bytes, ended, trailer)
    BY <1>2 DEF Unread
<1>9. Reads(next, body_length', written, decoded', buffered_bytes, ended, trailer)
    <2>1. Reads(next, body_length - Len(head), written, decoded \o head, buffered_bytes, ended, trailer)
        BY <1>1, <1>4, <1>6, <1>8, ReadsPassed
    <2> QED
        BY <1>2, <2>1
<1>10. Len(fragments') <= 0
    <2>1. Len(fragments) <= 1
        BY <1>2 DEF Kept
    <2> QED
        BY <1>4, <2>1
<1>11. Typed'
    <2>1. state' \in {"length", "body", "finished"} /\ active' \in BOOLEAN
        BY <1>2
    <2> QED
        BY <1>3, <1>4, <1>7, <2>1 DEF Typed
<1>12. state' \in {"length", "body"} /\ state' # "finished"
    BY <1>2
<1>13. Unread'
    BY <1>2, <1>3, <1>5, <1>8, <1>9, <1>12 DEF Unread
<1>14. fragments' = <<>> /\ \A i \in 1 .. Len(fragments') : FALSE
    <2>1. Len(fragments') = 0
        BY <1>4, <1>10
    <2>2. \A i \in 1 .. Len(fragments') : FALSE
        BY <2>1
    <2> QED
        BY <1>4, <2>1, <2>2, EmptySeq
<1>15. \A i \in 1 .. Len(fragments') - 1 : FALSE
    BY <1>4, <1>10
<1>16. Kept'
    BY <1>2, <1>10, <1>14, <1>15 DEF Kept
<1> QED
    BY <1>11, <1>13, <1>16

LEMMA ReadBodyEndKeeps ==
    ASSUME Inv, ReadBodyEnd
    PROVE  Inv'
<1> USE DEF Inv
<1> DEFINE head == Head(fragments)
           front == SubSeq(head, 1, body_length)
           rest == SubSeq(head, body_length + 1, Len(head))
<1>1. /\ Typed /\ decoded \in Strings /\ buffered_bytes \in Strings /\ body_length \in Nat
      /\ Rest \in Strings /\ pipe \in Strings /\ fragments \in Seq(Strings)
    BY RestType DEF Typed
<1>2. /\ state = "body" /\ fragments # <<>> /\ body_length < Len(head)
      /\ decoded' = decoded \o front /\ body_length' = 0
      /\ fragments' = Discard(body_length, fragments)
      /\ state' = "length" /\ active' = TRUE
      /\ outcome' = outcome /\ outcome = "open"
    BY DEF ReadBodyEnd, Working, Pass, ReadBodyContinues
<1>3. /\ ended' = ended /\ written' = written /\ buffered_bytes' = buffered_bytes /\ trailer' = trailer
      /\ pipe' = pipe /\ residue' = residue
    BY DEF ReadBodyEnd, encoder
<1>4. head \in Strings /\ Len(fragments) \in Nat
    BY <1>1, <1>2, HeadFirst
<1>5. body_length \in 0 .. Len(head)
    <2>1. Len(head) \in Nat
        BY <1>4 DEF Strings
    <2> QED
        BY <1>1, <1>2, <2>1
<1>6. Len(fragments) = 1 /\ fragments = <<head>>
    <2>1. Len(fragments) <= 1
        BY <1>2 DEF Kept
    <2>2. Len(fragments) # 0
        BY <1>1, <1>2, EmptySeq
    <2>3. Len(fragments) = 1
        BY <1>4, <2>1, <2>2
    <2> QED
        BY <1>1, <2>3
<1>7. Join(fragments) = head
    BY <1>4, <1>6, JoinOne
<1> HIDE DEF head
<1>8. front \in Strings /\ Len(front) = body_length /\ rest \in Strings /\ MadeOf(head, front, rest)
    BY <1>4, <1>5, SplitAt
<1> HIDE DEF front, rest
<1>9. Left(fragments', rest)
    <2>1. Join(fragments) = front \o rest
        BY <1>7, <1>8 DEF MadeOf
    <2>2. Upto(fragments)[Len(fragments) - 1] = <<>>
        <3>1. Len(fragments) - 1 = 0
            BY <1>6
        <3> QED
            BY <1>1, <3>1, UptoFacts
    <2>3. Len(Upto(fragments)[Len(fragments) - 1]) <= Len(front)
        BY <1>1, <1>8, <2>2
    <2>4. Discard(Len(front), fragments) = IF rest = <<>> THEN <<>> ELSE <<rest>>
        BY <1>1, <1>2, <1>8, <2>1, <2>3, LastDiscarded
    <2> QED
        BY <1>2, <1>8, <2>4 DEF Left
<1> DEFINE after == rest \o pipe
<1>10. after \in Strings /\ MadeOf(after, rest, pipe)
    BY <1>1, <1>8, Concats DEF MadeOf
<1>11. MadeOf(Rest, front, after)
    <2>1. MadeOf(head \o pipe, front, rest \o pipe)
        BY <1>1, <1>8, MadeLonger
    <2> QED
        BY <1>7, <2>1 DEF Rest
<1> HIDE DEF after
<1>12. /\ fragments' \in Seq(Bodies) /\ Len(fragments') <= 1 /\ after = Join(fragments') \o pipe
       /\ \A i \in 1 .. Len(fragments') - 1 : Free(fragments'[i])
    BY <1>1, <1>8, <1>9, <1>10, LeftOver
<1>13. Rest' = after
    BY <1>3, <1>12 DEF Rest
<1>14. residue = <<>> /\ Reads(Rest, body_length, written, decoded, buffered_bytes, ended, trailer)
    BY <1>2 DEF Unread
<1>15. Reads(after, 0, written, decoded', buffered_bytes, ended, trailer)
    <2>1. Len(front) <= body_length /\ body_length - Len(front) = 0
        BY <1>1, <1>8
    <2>2. Reads(after, body_length - Len(front), written, decoded \o front, buffered_bytes, ended, trailer)
        BY <1>1, <1>8, <1>10, <1>11, <1>14, <2>1, ReadsPassed
    <2> QED
        BY <1>2, <2>1, <2>2
<1>16. decoded' \in Strings
    BY <1>1, <1>2, <1>8, Concats
<1>17. Typed'
    BY <1>2, <1>3, <1>12, <1>16 DEF Typed
<1>18. Unread'
    BY <1>2, <1>3, <1>13, <1>14, <1>15 DEF Unread
<1>19. Kept'
    BY <1>2, <1>12 DEF Kept
<1> QED
    BY <1>17, <1>18, <1>19

LEMMA FinishedKeeps ==
    ASSUME Inv, _finished
    PROVE  Inv'
<1> USE DEF Inv
<1>1. /\ Typed /\ pipe \in Strings /\ Join(fragments) \in Strings /\ residue \in Seq(Strings)
    BY RestType DEF Typed
<1>2. /\ state = "finished" /\ residue' = Append(residue, Join(fragments)) /\ fragments' = <<>>
      /\ active' = FALSE /\ state' = state /\ body_length' = body_length /\ decoded' = decoded
      /\ outcome' = outcome
    BY DEF _finished, Return
<1>3. /\ ended' = ended /\ written' = written /\ buffered_bytes' = buffered_bytes /\ trailer' = trailer
      /\ pipe' = pipe
    BY DEF _finished, encoder
<1>4. residue' \in Seq(Strings) /\ Join(residue') = Join(residue) \o Join(fragments)
    BY <1>1, <1>2, JoinAppend, AppendProperties
<1>5. Rest' = pipe
    BY <1>1, <1>2, <1>3, JoinNone, Concats DEF Rest
<1>6. ended /\ decoded = written /\ MadeOf(trailer, Join(residue), Rest)
    BY <1>2 DEF Unread
<1>7. MadeOf(trailer, Join(residue'), pipe)
    <2>1. Join(residue) \in Strings
        BY <1>1, UptoFacts
    <2>2. (Join(residue) \o Join(fragments)) \o pipe = Join(residue) \o (Join(fragments) \o pipe)
        BY <1>1, <2>1, Associates
    <2> QED
        BY <1>4, <1>6, <2>2 DEF MadeOf, Rest
<1>8. Typed'
    BY <1>2, <1>3, <1>4, CodedNone DEF Typed
<1>9. Unread'
    BY <1>2, <1>3, <1>5, <1>6, <1>7 DEF Unread
<1>11. residue' # <<>>
    BY <1>1, <1>2, AppendProperties, EmptySeq
<1>10. Kept'
    BY <1>2, <1>11 DEF Kept
<1> QED
    BY <1>8, <1>9, <1>10

LEMMA FinishedRaisesKeeps ==
    ASSUME Inv, _finishedRaises
    PROVE  Inv'
<1> USE DEF Inv
<1>1. /\ active' = active /\ outcome' = "stream is finished" /\ state' = state
      /\ fragments' = fragments /\ residue' = residue
    BY DEF _finishedRaises
<1>2. Typed' /\ Unread'
    <2>1. active' \in BOOLEAN
        BY <1>1 DEF Typed
    <2>2. UNCHANGED <<encoder, pipe, strict, fragments, state, body_length, decoded, residue>>
        BY DEF _finishedRaises
    <2> QED
        BY <2>1, <2>2, RestKept
<1>3. Kept'
    BY <1>1 DEF Kept
<1> QED
    BY <1>2, <1>3

LEMMA DecoderWriteNothingKeeps ==
    ASSUME Inv, DecoderWriteNothing
    PROVE  Inv'
<1> USE DEF Inv
<1>1. /\ active' = TRUE /\ outcome' = outcome /\ state' = state /\ fragments' = fragments
    BY DEF DecoderWriteNothing
<1>2. Typed' /\ Unread'
    <2>1. active' \in BOOLEAN
        BY <1>1
    <2>2. UNCHANGED <<encoder, pipe, strict, fragments, state, body_length, decoded, residue>>
        BY DEF DecoderWriteNothing
    <2> QED
        BY <2>1, <2>2, RestKept
<1>3. Kept'
    BY <1>1 DEF Kept
<1> QED
    BY <1>2, <1>3

LEMMA PiecesAreStrings ==
    ASSUME NEW octets \in Pieces
    PROVE  octets \in Strings
<1>1. PICK n \in 0 .. MaxWritten : octets \in [1 .. n -> Payload]
    BY DEF Pieces
<1>2. n \in Nat /\ octets \in [1 .. n -> Octets]
    BY <1>1, BoundsAssumption, PayloadAssumption
<1> QED
    BY <1>2 DEF Strings

LEMMA NextKeeps == Inv /\ [Next]_vars => Inv'
<1> SUFFICES ASSUME Inv, [Next]_vars PROVE Inv'
    OBVIOUS
<1>1. ASSUME NEW octets \in Pieces, EncoderWrite(octets)
      PROVE  Inv'
    <2>1. octets \in Strings
        BY PiecesAreStrings
    <2> QED
        BY <1>1, <2>1, EncoderWriteKeeps
<1>2. ASSUME EncoderClose
      PROVE  Inv'
    <2> DEFINE end == <<0, CR, LF>>
    <2>1. end \in {<<0, CR, LF>>, <<0, LF>>}
        OBVIOUS
    <2>2. /\ ~ended /\ ended' = TRUE /\ pipe' = pipe \o Flushed(0) \o end /\ buffered_bytes' = <<>>
          /\ UNCHANGED <<written, trailer, strict, decoder>>
        BY <1>2 DEF EncoderClose
    <2> HIDE DEF end
    <2> QED
        BY <2>1, <2>2, CloseKeeps
<1>3. ASSUME EncoderCloseUnix
      PROVE  Inv'
    <2> DEFINE end == <<0, LF>>
    <2>1. end \in {<<0, CR, LF>>, <<0, LF>>}
        OBVIOUS
    <2>2. /\ ~ended /\ ended' = TRUE /\ pipe' = pipe \o Flushed(0) \o end /\ buffered_bytes' = <<>>
          /\ UNCHANGED <<written, trailer, strict, decoder>>
        BY <1>3 DEF EncoderCloseUnix
    <2> HIDE DEF end
    <2> QED
        BY <2>1, <2>2, CloseKeeps
<1>4. ASSUME NEW octet \in Payload, WriteTrailer(octet)
      PROVE  Inv'
    BY <1>4, WriteTrailerKeeps
<1>5. ASSUME NEW n \in 1 .. Len(pipe), DecoderWrite(n)
      PROVE  Inv'
    BY <1>5, DecoderWriteKeeps
<1>6. CASE ReadLengthMore
    BY <1>6, ReadLengthMoreKeeps
<1>7. CASE ReadLength
    BY <1>7, ReadLengthKeeps
<1>8. CASE ReadLengthRaises
    BY <1>8, ReadLengthRaisesKeeps
<1>9. CASE ReadBodyFragment
    BY <1>9, ReadBodyFragmentKeeps
<1>10. CASE ReadBodyEnd
    BY <1>10, ReadBodyEndKeeps
<1>11. CASE ReadBodyNothing
    BY <1>11, ReadBodyNothingKeeps
<1>12. CASE _finished
    BY <1>12, FinishedKeeps
<1>13. CASE DecoderClose
    BY <1>13, DecoderCloseKeeps
<1>15. CASE _finishedRaises
    BY <1>15, FinishedRaisesKeeps
<1>16. CASE DecoderWriteNothing
    BY <1>16, DecoderWriteNothingKeeps
<1>14. CASE UNCHANGED vars
    <2>1. /\ ended' = ended /\ written' = written /\ buffered_bytes' = buffered_bytes /\ trailer' = trailer
          /\ pipe' = pipe /\ fragments' = fragments /\ state' = state /\ body_length' = body_length
          /\ active' = active /\ decoded' = decoded /\ residue' = residue /\ outcome' = outcome
        BY <1>14 DEF vars, encoder, decoder
    <2>2. Rest' = Rest
        BY <2>1 DEF Rest
    <2>3. Typed'
        BY <2>1 DEF Inv, Typed
    <2>4. Unread'
        BY <2>1, <2>2 DEF Inv, Unread
    <2>5. Kept'
        BY <2>1 DEF Inv, Kept
    <2> QED
        BY <2>3, <2>4, <2>5 DEF Inv
<1> QED
    BY <1>1, <1>2, <1>3, <1>4, <1>5, <1>6, <1>7, <1>8, <1>9, <1>10, <1>11, <1>12, <1>13, <1>14, <1>15, <1>16
    DEF Next, Encode, Work

LEMMA Invariance == Spec => []Inv
BY InitKeeps, NextKeeps, PTL DEF Spec

-------------------------------------------------------------------------------
(* What the runs check, for all bounds, bases and limits. *)

\* When write returns, a decoder has passed on all it was given but the beginning
\* of a chunk header: _read_body never leaves a part of a chunk in its buffer, nor
\* _read_length a header it could have read.
THEOREM HeadersAreAllThatIsKept == Spec => []OnlyHeadersAreKept
<1>1. Inv => OnlyHeadersAreKept
    <2> SUFFICES ASSUME Inv, ~active, fragments # <<>> PROVE state = "length" /\ ~HeaderComplete
        BY DEF OnlyHeadersAreKept
    <2>1. state = "length"
        BY DEF Inv, Kept
    <2>2. \A i \in 1 .. Len(fragments) : Free(fragments[i])
        BY <2>1 DEF Inv, Kept
    <2>3. ~HeaderComplete
        BY <2>2, FreeIsUnread DEF Inv
    <2> QED
        BY <2>1, <2>3
<1> QED
    BY <1>1, Invariance, PTL

\* What the call of write that met the end marker handed back, and what had not been
\* given to it, is what was written after the end: none of it is lost or taken for
\* content, wherever the stream was cut, and the call returns something even when
\* the marker was the last it was given.
THEOREM TrailerIsHandedBack == Spec => []ResidueIsTheRest
<1>1. Inv => ResidueIsTheRest
    <2> SUFFICES ASSUME Inv, state = "finished", ~active
                 PROVE  residue # <<>> /\ (Len(residue) = 1 => residue[1] \o pipe = trailer)
        BY DEF ResidueIsTheRest
    <2>1. fragments = <<>> /\ pipe \in Strings /\ residue # <<>> /\ residue \in Seq(Strings)
        BY DEF Inv, Kept, Typed
    <2>2. Rest = pipe
        BY <2>1, JoinNone, Concats DEF Rest
    <2>3. Join(residue) \o pipe = trailer
        BY <2>2 DEF Inv, Unread, MadeOf
    <2>4. ASSUME Len(residue) = 1
          PROVE  residue[1] \o pipe = trailer
        <3>1. residue = <<residue[1]>> /\ residue[1] \in Strings
            BY <2>1, <2>4
        <3> QED
            BY <2>3, <3>1, JoinOne
    <2> QED
        BY <2>1, <2>4
<1> QED
    BY <1>1, Invariance, PTL

\* Decoder.close raises on a stream that was cut off: it succeeds only when the
\* encoder was closed and all that was written to it has been decoded.
THEOREM CloseMeansAllDecoded == Spec => []CloseDetectsShortStreams
<1>1. Inv => CloseDetectsShortStreams
    BY DEF Inv, Kept, Unread, CloseDetectsShortStreams
<1> QED
    BY <1>1, Invariance, PTL

LEMMA PrefixIs ==
    ASSUME NEW octets, NEW a \in Strings, NEW b \in Strings, MadeOf(octets, a, b)
    PROVE  SubSeq(octets, 1, Len(a)) = a /\ Len(a) <= Len(octets) /\ Len(octets) \in Nat /\ Len(a) \in Nat
<1>1. /\ octets \in Strings /\ Len(octets) = Len(a) + Len(b) /\ Len(a) \in Nat /\ Len(b) \in Nat
      /\ \A i \in 1 .. Len(a) : octets[i] = a[i]
    BY Parts
<1>2. Len(a) \in 0 .. Len(octets)
    BY <1>1
<1> DEFINE front == SubSeq(octets, 1, Len(a))
<1>3. front \in Strings /\ Len(front) = Len(a) /\ \A i \in 1 .. Len(a) : front[i] = octets[i]
    BY <1>1, <1>2, PrefixType
<1> HIDE DEF front
<1>4. \A i \in 1 .. Len(front) : front[i] = a[i]
    BY <1>1, <1>3
<1>5. front = a
    BY <1>3, <1>4, SeqEqual DEF Strings
<1> QED
    BY <1>1, <1>2, <1>5 DEF front

\* What was decoded is the beginning of what was written.
LEMMA DecodedIsPrefix ==
    ASSUME Inv, state # "finished"
    PROVE  /\ SubSeq(written, 1, Len(decoded)) = decoded /\ Len(decoded) <= Len(written)
           /\ Len(decoded) \in Nat /\ Len(written) \in Nat
<1>1. Reads(Rest, body_length, written, decoded, buffered_bytes, ended, trailer)
    BY DEF Inv, Unread
<1>2. decoded \in Strings /\ buffered_bytes \in Strings
    BY DEF Inv, Typed
<1>3. PICK body \in Strings, content \in Strings : Adds(written, decoded, body, content, buffered_bytes)
    BY <1>1 DEF Reads
<1> DEFINE more == (body \o content) \o buffered_bytes
<1>4. body \o content \in Strings /\ more \in Strings
    BY <1>2, Concats
<1>5. MadeOf(written, decoded, more)
    <2>1. written = ((decoded \o body) \o content) \o buffered_bytes
        BY <1>3 DEF Adds
    <2>2. (decoded \o body) \o content = decoded \o (body \o content)
        BY <1>2, Associates
    <2>3. (decoded \o (body \o content)) \o buffered_bytes = decoded \o more
        BY <1>2, <1>4, Associates
    <2> QED
        BY <2>1, <2>2, <2>3 DEF MadeOf
<1> HIDE DEF more
<1> QED
    BY <1>2, <1>4, <1>5, PrefixIs

LEMMA WritesAreSent ==
    ASSUME Inv, NEW octets \in Strings, EncoderWrite(octets)
    PROVE  [Channel!Next]_Channel!vars
<1>1. /\ ~ended /\ state' = state /\ decoded' = decoded /\ written' = written \o octets
    BY DEF EncoderWrite, decoder
<1>2. state # "finished"
    BY <1>1, Open
<1>3. written \in Strings
    BY DEF Inv, Typed
<1>4. CASE octets = <<>>
    <2>1. written' = written
        BY <1>1, <1>3, <1>4, Concats
    <2> QED
        BY <1>1, <2>1 DEF Channel!vars
<1>5. CASE octets # <<>>
    <2>1. MadeOf(written', written, octets)
        BY <1>1 DEF MadeOf
    <2>2. SubSeq(written', 1, Len(written)) = written
        BY <1>3, <2>1, PrefixIs
    <2>3. Len(written') = Len(written) + Len(octets) /\ Len(written) \in Nat /\ Len(octets) \in Nat
        BY <1>3, <2>1, Parts
    <2>4. Len(octets) # 0
        BY <1>5, EmptySeq DEF Strings
    <2>5. Len(written') > Len(written)
        BY <2>3, <2>4
    <2>6. Channel!Send
        BY <1>1, <1>2, <2>2, <2>5 DEF Channel!Send
    <2> QED
        BY <2>6 DEF Channel!Next
<1> QED
    BY <1>4, <1>5

LEMMA PassesAreDelivered ==
    ASSUME Inv, Inv', state = "body", state' # "finished", written' = written,
           NEW octets \in Strings, octets # <<>>, decoded' = decoded \o octets
    PROVE  Channel!Next
<1>1. decoded \in Strings
    BY DEF Inv, Typed
<1>2. MadeOf(decoded', decoded, octets)
    BY DEF MadeOf
<1>3. Len(decoded') = Len(decoded) + Len(octets) /\ Len(decoded) \in Nat /\ Len(octets) \in Nat
    BY <1>1, <1>2, Parts
<1>4. Len(octets) # 0
    BY EmptySeq DEF Strings
<1>5. (Inv /\ state # "finished")'
    OBVIOUS
<1>6. (Inv /\ state # "finished" => /\ SubSeq(written, 1, Len(decoded)) = decoded
                                    /\ Len(decoded) <= Len(written) /\ Len(written) \in Nat)'
    BY DecodedIsPrefix, PTL
<1>7. SubSeq(written, 1, Len(decoded')) = decoded' /\ Len(decoded') <= Len(written) /\ Len(written) \in Nat
    BY <1>5, <1>6
<1>8. Len(decoded') \in Len(decoded) + 1 .. Len(written)
    BY <1>3, <1>4, <1>7
<1>9. Channel!Deliver
    <2>1. \E n \in Len(decoded) + 1 .. Len(written) : decoded' = SubSeq(written, 1, n)
        BY <1>7, <1>8
    <2> QED
        BY <2>1 DEF Channel!Deliver
<1> QED
    BY <1>9 DEF Channel!Next

\* However a step of the code goes, it sends content, delivers the next part of it,
\* ends the stream after all of it, or does not show.
LEMMA NextIsChannels ==
    ASSUME Inv, Inv', [Next]_vars
    PROVE  [Channel!Next]_Channel!vars
<1>1. ASSUME NEW octets \in Pieces, EncoderWrite(octets)
      PROVE  [Channel!Next]_Channel!vars
    <2>1. octets \in Strings
        BY PiecesAreStrings
    <2> QED
        BY <1>1, <2>1, WritesAreSent
<1>2. CASE EncoderClose \/ EncoderCloseUnix
    BY <1>2 DEF EncoderClose, EncoderCloseUnix, decoder, Channel!vars
<1>3. ASSUME NEW octet \in Payload, WriteTrailer(octet)
      PROVE  [Channel!Next]_Channel!vars
    BY <1>3 DEF WriteTrailer, decoder, Channel!vars
<1>4. ASSUME NEW n \in 1 .. Len(pipe), DecoderWrite(n)
      PROVE  [Channel!Next]_Channel!vars
    BY <1>4 DEF DecoderWrite, encoder, Channel!vars
<1>5. CASE \/ ReadLengthMore \/ ReadLengthRaises \/ ReadBodyNothing
           \/ _finished \/ _finishedRaises \/ DecoderWriteNothing \/ DecoderClose
    BY <1>5 DEF ReadLengthMore, ReadLengthRaises, ReadBodyNothing, _finished, _finishedRaises,
                DecoderWriteNothing, DecoderClose, encoder, Channel!vars
<1>6. CASE ReadLength
    <2>1. /\ state = "length" /\ state' \in {"finished", "body"} /\ written' = written /\ decoded' = decoded
        BY <1>6 DEF ReadLength, encoder
    <2>2. CASE state' = "finished"
        <3>1. decoded' = written'
            BY <2>2 DEF Inv, Unread
        <3>2. Channel!End
            BY <2>1, <2>2, <3>1 DEF Channel!End
        <3> QED
            BY <3>2 DEF Channel!Next
    <2>3. CASE state' # "finished"
        BY <2>1, <2>3 DEF Channel!vars
    <2> QED
        BY <2>2, <2>3
<1>7. CASE ReadBodyFragment
    <2>1. /\ state = "body" /\ state' # "finished" /\ written' = written /\ fragments # <<>>
          /\ decoded' = decoded \o Head(fragments)
        BY <1>7 DEF ReadBodyFragment, Pass, encoder
    <2>2. Head(fragments) \in Strings /\ Head(fragments) # <<>>
        BY <2>1, HeadFirst DEF Inv, Bodies
    <2>3. Channel!Next
        BY <2>1, <2>2, PassesAreDelivered
    <2> QED
        BY <2>3
<1>8. CASE ReadBodyEnd
    <2> DEFINE front == SubSeq(Head(fragments), 1, body_length)
    <2>1. /\ state = "body" /\ state' # "finished" /\ written' = written /\ fragments # <<>>
          /\ body_length < Len(Head(fragments)) /\ decoded' = decoded \o front
        BY <1>8 DEF ReadBodyEnd, Pass, encoder
    <2>2. Head(fragments) \in Strings /\ body_length \in Nat
        BY <2>1, HeadFirst DEF Inv, Typed
    <2>3. body_length \in 0 .. Len(Head(fragments))
        <3>1. Len(Head(fragments)) \in Nat
            BY <2>2 DEF Strings
        <3> QED
            BY <2>1, <2>2, <3>1
    <2>4. front \in Strings /\ Len(front) = body_length
        BY <2>2, <2>3, SplitAt
    <2>5. body_length # 0
        BY <2>1 DEF Inv, Unread
    <2>6. front # <<>>
        <3> HIDE DEF front
        <3> QED
            BY <2>4, <2>5
    <2> HIDE DEF front
    <2>7. Channel!Next
        BY <2>1, <2>4, <2>6, PassesAreDelivered
    <2> QED
        BY <2>7
<1>9. CASE UNCHANGED vars
    BY <1>9 DEF vars, encoder, decoder, Channel!vars
<1> QED
    BY <1>1, <1>2, <1>3, <1>4, <1>5, <1>6, <1>7, <1>8, <1>9 DEF Next, Encode, Work

\* However the encoder buffers what is written, for any size of its buffer, and
\* however its output is cut on the way, the decoder's output gets the content in
\* order, nothing lost, repeated or made up, and the stream is over only after it.
THEOREM ContentArrives == Spec => ImplementsChannel
<1>1. Init => Channel!Init
    BY DEF Init, Channel!Init
<1>2. Inv /\ Inv' /\ [Next]_vars => [Channel!Next]_Channel!vars
    BY NextIsChannels
<1> QED
    BY <1>1, <1>2, Invariance, PTL DEF Spec, ImplementsChannel, Channel!Spec
===============================================================================
