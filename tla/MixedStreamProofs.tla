---------------------------- MODULE MixedStreamProofs ----------------------------
(***************************************************************************)
(* Theorems about MixedStream, for every set of units, every bound and     *)
(* every way the stream arrives: the buffer's bound, that mid_character is *)
(* right as long as the writer finishes its characters, and that run is    *)
(* then a channel, if the units leave out the three it gets wrong.         *)
(***************************************************************************)
EXTENDS MixedStream, SequenceTheorems, TLAPS

Octets == {"ascii", "lead2", "lead3", "cont", "b3", "invalid", "part", "bit"} \cup PacketKinds
Places == {"top", "select", "emit", "packet", "done", "raised", "lost"}

\* The text that run holds back, and where it is held back.
Bounded ==
    /\ wire \in Seq(Octets) /\ buffered \in Seq(Octets) /\ pc \in Places
    /\ Len(buffered) <= MaxBuffered
    /\ pc = "select" => Len(buffered) < MaxBuffered

\* What the decoder can hold, and how many continuations it then waits for.
Partials == {<<>>, <<"lead2">>, <<"lead3">>, <<"lead3", "cont">>, <<"lead3", "b3">>}
Awaits(held) == IF held = <<>> THEN 0 ELSE IF held = <<"lead3">> THEN 2 ELSE 1

Continues(octets, i) == i \in 1 .. Len(octets) /\ IsContinuation(octets[i])

\* Every character that begins in octets ends in them.
Whole(octets) ==
    \A i \in 1 .. Len(octets) :
        /\ octets[i] \in {"lead2", "lead3"} => Continues(octets, i + 1)
        /\ octets[i] = "lead3" => Continues(octets, i + 2)

\* What the decoder waits for is what comes next.  (A reader that has raised has
\* thrown the octet away that made it raise.)
WireGoesOn ==
    /\ Whole(wire)
    /\ \A i \in 1 .. Awaits(codec) : Continues(wire, i)

InStep ==
    /\ codec \in Partials /\ mid \in BOOLEAN
    /\ mid <=> codec # <<>>
    /\ pc = "packet" => codec = <<>>
    /\ pc # "raised" => WireGoesOn

Consistent == Bounded /\ (garbage \/ InStep)
-------------------------------------------------------------------------------
(* Sequences of octets. *)

LEMMA UnitIsWhole ==
    ASSUME NEW u \in Units \cup Garbage
    PROVE  /\ UnitOctets(u) \in Seq(Octets)
           /\ u # "cut" => Whole(UnitOctets(u))
<1>1. CASE u \in PacketKinds
    BY <1>1 DEF UnitOctets, PacketKinds, Octets, Whole, Continues
<1>2. CASE u \notin PacketKinds
    <2>1. u \in {"ascii", "e_acute", "o_acute", "uhorn", "invalid", "cut"}
        BY <1>2, UnitsAssumption DEF Characters
    <2>2. CASE u = "ascii"
        BY <2>2 DEF UnitOctets, PacketKinds, Characters, Octets, Whole, Continues, IsContinuation
    <2>3. CASE u = "e_acute"
        BY <2>3 DEF UnitOctets, PacketKinds, Characters, Octets, Whole, Continues, IsContinuation
    <2>4. CASE u = "o_acute"
        BY <2>4 DEF UnitOctets, PacketKinds, Characters, Octets, Whole, Continues, IsContinuation
    <2>5. CASE u = "uhorn"
        BY <2>5 DEF UnitOctets, PacketKinds, Characters, Octets, Whole, Continues, IsContinuation
    <2>6. CASE u = "invalid"
        BY <2>6 DEF UnitOctets, PacketKinds, Characters, Octets, Whole, Continues, IsContinuation
    <2>7. CASE u = "cut"
        BY <2>7 DEF UnitOctets, PacketKinds, Characters, Octets, Whole, Continues, IsContinuation
    <2> QED
        BY <2>1, <2>2, <2>3, <2>4, <2>5, <2>6, <2>7
<1> QED
    BY <1>1, <1>2

LEMMA RestIsWhole ==
    ASSUME NEW rest \in {<<>>, <<"b3">>, <<"b3", "part">>}, NEW bit \in {<<>>, <<"bit">>}
    PROVE  /\ rest \in Seq(Octets) /\ bit \in Seq(Octets)
           /\ Whole(rest) /\ Whole(bit)
<1>1. rest \in Seq(Octets) /\ Whole(rest)
    <2>1. CASE rest = <<>>
        BY <2>1 DEF Octets, Whole, Continues
    <2>2. CASE rest = <<"b3">>
        BY <2>2 DEF Octets, Whole, Continues
    <2>3. CASE rest = <<"b3", "part">>
        BY <2>3 DEF Octets, Whole, Continues
    <2> QED
        BY <2>1, <2>2, <2>3
<1>2. bit \in Seq(Octets) /\ Whole(bit)
    <2>1. CASE bit = <<>>
        BY <2>1 DEF Octets, Whole, Continues
    <2>2. CASE bit = <<"bit">>
        BY <2>2 DEF Octets, Whole, Continues
    <2> QED
        BY <2>1, <2>2
<1> QED
    BY <1>1, <1>2

\* What follows goes on where the wire stops.
LEMMA WiresJoin ==
    ASSUME NEW s \in Seq(Octets), NEW t \in Seq(Octets)
    PROVE  /\ Whole(s) /\ Whole(t) => Whole(s \o t)
           /\ \A i \in Nat : Continues(s, i) => Continues(s \o t, i)
<1>1. \A i \in Nat : Continues(s, i) => Continues(s \o t, i)
    BY DEF Continues
<1>2. ASSUME Whole(s), Whole(t), NEW i \in 1 .. Len(s \o t)
      PROVE  /\ (s \o t)[i] \in {"lead2", "lead3"} => Continues(s \o t, i + 1)
             /\ (s \o t)[i] = "lead3" => Continues(s \o t, i + 2)
    <2>1. CASE i <= Len(s)
        <3>1. (s \o t)[i] = s[i] /\ i \in 1 .. Len(s)
            BY <2>1
        <3> QED
            BY <3>1, <1>1, <1>2 DEF Whole
    <2>2. CASE i > Len(s)
        <3>1. i - Len(s) \in 1 .. Len(t) /\ (s \o t)[i] = t[i - Len(s)]
            BY <2>2
        <3>2. \A k \in Nat : Continues(t, i - Len(s) + k) => Continues(s \o t, i + k)
            BY <3>1 DEF Continues
        <3> QED
            BY <3>1, <3>2, <1>2 DEF Whole
    <2> QED
        BY <2>1, <2>2
<1> QED
    BY <1>1, <1>2 DEF Whole

\* Nothing is missed when the first octet has been read.
LEMMA WireIsRead ==
    ASSUME NEW s \in Seq(Octets), s # <<>>
    PROVE  /\ Whole(s) => Whole(Tail(s))
           /\ \A i \in Nat : Continues(s, i + 2) => Continues(Tail(s), i + 1)
<1>1. \A i \in Nat : Continues(s, i + 2) => Continues(Tail(s), i + 1)
    BY DEF Continues
<1>2. ASSUME Whole(s), NEW i \in 1 .. Len(Tail(s))
      PROVE  /\ Tail(s)[i] \in {"lead2", "lead3"} => Continues(Tail(s), i + 1)
             /\ Tail(s)[i] = "lead3" => Continues(Tail(s), i + 2)
    <2>1. Tail(s)[i] = s[i + 1] /\ i + 1 \in 1 .. Len(s)
        OBVIOUS
    <2>2. /\ Continues(s, i + 1 + 1) => Continues(Tail(s), i + 1)
          /\ Continues(s, i + 1 + 2) => Continues(Tail(s), i + 2)
        BY <2>1 DEF Continues
    <2> QED
        BY <2>1, <2>2, <1>2 DEF Whole
<1> QED
    BY <1>1, <1>2 DEF Whole

\* What the decoder makes of an octet, given what it holds.
LEMMA OctetIsAdded ==
    ASSUME NEW o \in Octets
    PROVE  /\ \A a \in Octets : <<a>> \o <<o>> = <<a, o>>
           /\ \A a \in Octets, b \in Octets : <<a, b>> \o <<o>> = <<a, b, o>>
<1>1. ASSUME NEW a \in Octets
      PROVE  <<a>> \o <<o>> = <<a, o>>
    <2>1. /\ <<a>> \o <<o>> \in Seq(Octets) /\ <<a, o>> \in Seq(Octets)
          /\ Len(<<a>> \o <<o>>) = 2 /\ Len(<<a, o>>) = 2
        OBVIOUS
    <2>2. \A i \in 1 .. 2 : (<<a>> \o <<o>>)[i] = <<a, o>>[i]
        OBVIOUS
    <2> QED
        BY <2>1, <2>2, SeqEqual
<1>2. ASSUME NEW a \in Octets, NEW b \in Octets
      PROVE  <<a, b>> \o <<o>> = <<a, b, o>>
    <2>1. /\ <<a, b>> \o <<o>> \in Seq(Octets) /\ <<a, b, o>> \in Seq(Octets)
          /\ Len(<<a, b>> \o <<o>>) = 3 /\ Len(<<a, b, o>>) = 3
        OBVIOUS
    <2>2. \A i \in 1 .. 3 : (<<a, b>> \o <<o>>)[i] = <<a, b, o>>[i]
        OBVIOUS
    <2> QED
        BY <2>1, <2>2, SeqEqual
<1> QED
    BY <1>1, <1>2

LEMMA DecodesOctet ==
    ASSUME NEW o \in Octets, NEW held \in Partials
    PROVE  /\ held = <<>> /\ o = "lead2" =>
                  Decoded(held \o <<o>>) = "partial" /\ held \o <<o>> = <<"lead2">>
           /\ held = <<>> /\ o = "lead3" =>
                  Decoded(held \o <<o>>) = "partial" /\ held \o <<o>> = <<"lead3">>
           /\ held = <<>> /\ o \notin {"lead2", "lead3"} =>
                  Decoded(held \o <<o>>) # "partial"
           /\ held = <<"lead3">> /\ IsContinuation(o) =>
                  Decoded(held \o <<o>>) = "partial" /\ held \o <<o>> = <<"lead3", o>>
           /\ held \notin {<<>>, <<"lead3">>} /\ IsContinuation(o) =>
                  Decoded(held \o <<o>>) = "character"
<1>1. "lead2" \in Octets /\ "lead3" \in Octets /\ "cont" \in Octets /\ "b3" \in Octets
    BY DEF Octets
<1>2. CASE held = <<>>
    <2>1. held \o <<o>> = <<o>> /\ Len(<<o>>) = 1 /\ <<o>>[1] = o
        BY <1>2
    <2>2. held # <<"lead3">>
        BY <1>2
    <2> QED
        BY <1>2, <2>1, <2>2 DEF Decoded
<1>3. CASE held = <<"lead3">>
    <2>1. held \o <<o>> = <<"lead3", o>>
        BY <1>1, <1>3, OctetIsAdded
    <2>2. Len(<<"lead3", o>>) = 2 /\ <<"lead3", o>>[1] = "lead3" /\ <<"lead3", o>>[2] = o
        OBVIOUS
    <2>3. held # <<>>
        BY <1>3
    <2> QED
        BY <1>3, <2>1, <2>2, <2>3 DEF Decoded
<1>4. CASE held = <<"lead2">>
    <2>1. held \o <<o>> = <<"lead2", o>>
        BY <1>1, <1>4, OctetIsAdded
    <2>2. Len(<<"lead2", o>>) = 2 /\ <<"lead2", o>>[1] = "lead2" /\ <<"lead2", o>>[2] = o
        OBVIOUS
    <2>3. held # <<>> /\ held # <<"lead3">>
        BY <1>4
    <2> QED
        BY <1>4, <2>1, <2>2, <2>3 DEF Decoded
<1>5. ASSUME NEW b \in {"cont", "b3"}, held = <<"lead3", b>>
      PROVE  /\ held # <<>> /\ held # <<"lead3">>
             /\ IsContinuation(o) => Decoded(held \o <<o>>) = "character"
    <2>1. held \o <<o>> = <<"lead3", b, o>>
        BY <1>1, <1>5, OctetIsAdded
    <2>2. Len(<<"lead3", b, o>>) = 3 /\ <<"lead3", b, o>>[3] = o
        OBVIOUS
    <2>3. held # <<>> /\ held # <<"lead3">>
        BY <1>5
    <2>4. /\ <<"lead3", b, o>> # <<"ascii">> /\ <<"lead3", b, o>> # <<"lead2">>
          /\ <<"lead3", b, o>> # <<"lead3">>
        OBVIOUS
    <2>5. <<"lead3", b, o>> \notin {<<"lead2">>, <<"lead3">>}
        BY <2>4
    <2>6. IsContinuation(o) => Decoded(<<"lead3", b, o>>) = "character"
        BY <2>2, <2>4, <2>5 DEF Decoded
    <2> QED
        BY <2>1, <2>3, <2>6
<1> QED
    BY <1>2, <1>3, <1>4, <1>5 DEF Partials
-------------------------------------------------------------------------------
(* The writer and the reader's calls. *)

LEMMA WriterAppends ==
    ASSUME Consistent, Writer
    PROVE  /\ wire' \in Seq(Octets)
           /\ ~garbage /\ Whole(wire) => Whole(wire')
           /\ \A i \in Nat : Continues(wire, i) => Continues(wire', i)
           /\ UNCHANGED <<garbage, reader>>
<1>1. ASSUME NEW u \in Units \cup (IF garbage THEN Garbage ELSE {}), Write(u)
      PROVE  \E added \in Seq(Octets) : wire' = wire \o added /\ (~garbage => Whole(added))
    <2>1. u \in Units \cup Garbage /\ (~garbage => u \in Units)
        BY <1>1
    <2>2. wire' = wire \o UnitOctets(u)
        BY <1>1 DEF Write
    <2>3. ~garbage => Whole(UnitOctets(u))
        BY <2>1, UnitIsWhole, UnitsAssumption
    <2> QED
        BY <2>1, <2>2, <2>3, UnitIsWhole
<1>2. ASSUME Exit
      PROVE  \E added \in Seq(Octets) : wire' = wire \o added /\ (~garbage => Whole(added))
    <2>1. PICK rest \in {<<>>, <<"b3">>, <<"b3", "part">>}, bit \in {<<>>, <<"bit">>} :
             wire' = wire \o rest \o bit
        BY <1>2 DEF Exit
    <2>2. rest \in Seq(Octets) /\ bit \in Seq(Octets) /\ Whole(rest) /\ Whole(bit)
        BY RestIsWhole
    <2>3. rest \o bit \in Seq(Octets) /\ Whole(rest \o bit)
        BY <2>2, WiresJoin
    <2>4. wire' = wire \o (rest \o bit)
        BY <2>1, <2>2, ConcatAssociative DEF Consistent, Bounded
    <2> QED
        BY <2>3, <2>4
<1>3. \E added \in Seq(Octets) : wire' = wire \o added /\ (~garbage => Whole(added))
    BY <1>1, <1>2 DEF Writer
<1>4. UNCHANGED <<garbage, reader>>
    BY DEF Writer, Write, Exit, setup
<1>5. wire \in Seq(Octets)
    BY DEF Consistent, Bounded
<1> QED
    BY <1>3, <1>4, <1>5, WiresJoin

\* The decoder takes the next octet: it is still waiting for what comes next.
LEMMA DecoderStays ==
    ASSUME Bounded, InStep, WireGoesOn, wire # <<>>, Feed(Head(wire)), wire' = Tail(wire)
    PROVE  /\ codec' \in Partials /\ mid' \in BOOLEAN
           /\ mid' <=> codec' # <<>>
           /\ WireGoesOn'
<1> DEFINE octet == Head(wire)
           data == codec \o <<octet>>
<1>1. wire \in Seq(Octets) /\ octet \in Octets /\ octet = wire[1] /\ 1 \in 1 .. Len(wire)
    BY DEF Bounded
<1>2. Whole(wire) /\ Whole(wire')
    BY <1>1, WireIsRead DEF WireGoesOn
<1>3. Continues(wire, 2) => Continues(wire', 1)
    BY <1>1, WireIsRead
<1>4. /\ mid' = (Decoded(data) = "partial")
      /\ codec' = IF Decoded(data) = "character" THEN <<>>
                  ELSE IF Decoded(data) = "partial" THEN data ELSE codec
    BY DEF Feed, IsMid
<1>5. CASE codec = <<>>
    <2>2. octet \in {"lead2", "lead3"} => Continues(wire, 2)
        BY <1>1, <1>2 DEF Whole
    <2>3. octet = "lead3" => Continues(wire, 3)
        BY <1>1, <1>2 DEF Whole
    <2>4. octet = "lead3" => Continues(wire', 2)
        BY <2>3, <1>1, WireIsRead
    <2>5. CASE octet = "lead2"
        <3>1. codec' = <<"lead2">> /\ mid'
            BY <1>1, <1>4, <1>5, <2>5, DecodesOctet DEF Partials
        <3>2. Awaits(codec') = 1
            BY <3>1 DEF Awaits
        <3> QED
            BY <3>1, <3>2, <2>2, <2>5, <1>2, <1>3 DEF WireGoesOn, Partials
    <2>6. CASE octet = "lead3"
        <3>1. codec' = <<"lead3">> /\ mid'
            BY <1>1, <1>4, <1>5, <2>6, DecodesOctet DEF Partials
        <3>2. Awaits(codec') = 2
            BY <3>1 DEF Awaits
        <3>3. \A i \in 1 .. 2 : Continues(wire', i)
            BY <2>2, <2>4, <2>6, <1>3
        <3>4. WireGoesOn'
            BY <3>2, <3>3, <1>2 DEF WireGoesOn
        <3> QED
            BY <3>1, <3>4 DEF Partials
    <2>7. CASE octet \notin {"lead2", "lead3"}
        <3>1. Decoded(data) # "partial"
            BY <1>1, <1>5, <2>7, DecodesOctet DEF Partials
        <3>2. codec' = <<>> /\ mid' = FALSE
            BY <1>4, <1>5, <3>1
        <3>3. WireGoesOn'
            BY <3>2, <1>2 DEF WireGoesOn, Awaits
        <3> QED
            BY <3>2, <3>3 DEF Partials
    <2> QED
        BY <2>5, <2>6, <2>7
<1>6. CASE codec = <<"lead3">>
    <2>1. Continues(wire, 1) /\ Continues(wire, 2)
        BY <1>6 DEF WireGoesOn, Awaits
    <2>2. octet \in {"cont", "b3"} /\ Continues(wire', 1)
        BY <1>1, <1>3, <2>1 DEF Continues, IsContinuation
    <2>4. Decoded(data) = "partial" /\ data = <<"lead3", octet>>
        BY <1>1, <1>6, <2>2, DecodesOctet DEF IsContinuation, Partials
    <2>5. codec' = <<"lead3", octet>> /\ mid'
        BY <1>4, <2>4
    <2>6. Awaits(codec') = 1
        BY <2>5 DEF Awaits
    <2> QED
        BY <2>2, <2>5, <2>6, <1>2 DEF WireGoesOn, Partials
<1>7. CASE codec \in {<<"lead2">>, <<"lead3", "cont">>, <<"lead3", "b3">>}
    <2>1. Continues(wire, 1)
        BY <1>7 DEF WireGoesOn, Awaits
    <2>2. octet \in {"cont", "b3"}
        BY <1>1, <2>1 DEF Continues, IsContinuation
    <2>3. codec \notin {<<>>, <<"lead3">>} /\ codec \in Partials
        BY <1>7 DEF Partials
    <2>4. IsContinuation(octet)
        BY <2>2 DEF IsContinuation
    <2>5. Decoded(data) = "character"
        BY <1>1, <2>3, <2>4, DecodesOctet
    <2>6. codec' = <<>> /\ mid' = FALSE
        BY <1>4, <2>5
    <2>7. WireGoesOn'
        BY <2>6, <1>2 DEF WireGoesOn, Awaits
    <2> QED
        BY <2>6, <2>7 DEF Partials
<1> QED
    BY <1>5, <1>6, <1>7 DEF InStep, Partials

\* An octet that is no part of a character is read while the decoder holds nothing.
LEMMA IdleDecoderStays ==
    ASSUME Bounded, InStep, WireGoesOn, codec = <<>>, wire # <<>>,
           wire' = Tail(wire), UNCHANGED codec
    PROVE  WireGoesOn'
<1>1. Whole(wire')
    BY WireIsRead DEF Bounded, WireGoesOn
<1>2. Awaits(codec') = 0
    BY DEF Awaits
<1> QED
    BY <1>1, <1>2 DEF WireGoesOn
-------------------------------------------------------------------------------
(* The steps. *)

LEMMA Initially == Init => Consistent
<1> SUFFICES ASSUME Init PROVE Consistent
    OBVIOUS
<1>1. Bounded
    BY MaxAssumption DEF Init, Bounded, Places
<1>2. Whole(wire) /\ Awaits(codec) = 0
    BY DEF Init, Whole, Awaits
<1>3. WireGoesOn
    BY <1>2 DEF WireGoesOn
<1>4. codec = <<>> /\ mid = FALSE /\ pc = "top"
    BY DEF Init
<1>5. InStep
    BY <1>3, <1>4 DEF InStep, Partials
<1> QED
    BY <1>1, <1>5 DEF Consistent

LEMMA WriterKeeps ==
    ASSUME Consistent, Writer
    PROVE  Consistent'
<1>1. Bounded'
    BY WriterAppends DEF Consistent, Bounded, reader
<1>2. ASSUME ~garbage, WireGoesOn
      PROVE  WireGoesOn'
    <2>1. Whole(wire') /\ codec' = codec
        BY <1>2, WriterAppends DEF WireGoesOn, reader
    <2>2. \A i \in 1 .. Awaits(codec) : Continues(wire, i) => Continues(wire', i)
        BY WriterAppends DEF Awaits
    <2> QED
        BY <1>2, <2>1, <2>2 DEF WireGoesOn
<1>3. garbage' = garbage /\ UNCHANGED <<codec, mid, pc>>
    BY WriterAppends DEF reader
<1> QED
    BY <1>1, <1>2, <1>3 DEF Consistent, InStep

\* A step that reads no octet and asks the decoder nothing.
LEMMA QuietStep ==
    ASSUME Consistent, UNCHANGED <<wire, codec, mid, garbage>>, Bounded',
           pc \in {"top", "select", "emit", "packet"},
           pc' = "packet" => codec = <<>> \/ garbage
    PROVE  Consistent'
<1>1. InStep => WireGoesOn'
    BY DEF InStep, WireGoesOn
<1> QED
    BY <1>1 DEF Consistent, InStep

\* A step that reads one octet, or all there is, while the decoder holds nothing.
LEMMA IdleStep ==
    ASSUME Consistent, UNCHANGED <<codec, mid, garbage>>, Bounded',
           pc \in {"top", "select", "emit", "packet"},
           codec = <<>> \/ garbage \/ pc' = "raised",
           pc' = "packet" => codec = <<>> \/ garbage,
           (wire # <<>> /\ wire' = Tail(wire)) \/ wire' = <<>>
    PROVE  Consistent'
<1>1. CASE garbage
    BY <1>1 DEF Consistent
<1>2. CASE ~garbage
    <2>1. InStep /\ WireGoesOn /\ Bounded
        BY <1>2 DEF Consistent, InStep
    <2>2. pc' # "raised" => WireGoesOn'
        <3>1. CASE wire' = <<>>
            BY <3>1, <1>2 DEF WireGoesOn, Whole, Awaits
        <3>2. CASE wire' # <<>>
            BY <3>2, <2>1, <1>2, IdleDecoderStays
        <3> QED
            BY <3>1, <3>2
    <2> QED
        BY <2>1, <2>2, <1>2 DEF Consistent, InStep
<1> QED
    BY <1>1, <1>2

\* A step that feeds the decoder.
LEMMA FedStep ==
    ASSUME Consistent, Feed(Head(wire)), wire # <<>>, wire' = Tail(wire), garbage' = garbage,
           Bounded', pc \in {"top", "select"}, pc' \in {"select", "emit"}
    PROVE  Consistent'
<1>1. CASE garbage
    BY <1>1 DEF Consistent
<1>2. CASE ~garbage
    <2>1. InStep /\ WireGoesOn /\ Bounded
        BY <1>2 DEF Consistent, InStep
    <2> QED
        BY <2>1, DecoderStays DEF Consistent, InStep
<1> QED
    BY <1>1, <1>2

LEMMA ReaderKeeps ==
    ASSUME Consistent, Reader
    PROVE  Consistent'
<1>1. /\ wire \in Seq(Octets) /\ buffered \in Seq(Octets) /\ pc \in Places
      /\ Len(buffered) <= MaxBuffered /\ MaxBuffered \in Nat /\ MaxBuffered >= 2
    BY MaxAssumption DEF Consistent, Bounded
<1>2. wire # <<>> => Head(wire) \in Octets /\ Tail(wire) \in Seq(Octets)
    BY <1>1
<1>3. IsSignature(Head(wire)) => codec = <<>> \/ garbage
    BY DEF IsSignature, Consistent, InStep
<1>4. pc = "packet" => codec = <<>> \/ garbage
    BY DEF Consistent, InStep
<1>5. CASE ReturnAtEof
    <2>1. Bounded'
        BY <1>1, <1>5 DEF ReturnAtEof, TakeNothing, Bounded, Places
    <2> QED
        BY <1>5, <2>1, QuietStep DEF ReturnAtEof, TakeNothing, setup
<1>6. CASE StartPacket
    <2>1. Bounded'
        BY <1>1, <1>2, <1>6 DEF StartPacket, Take, Arrived, Bounded, Places
    <2> QED
        BY <1>3, <1>6, <2>1, IdleStep DEF StartPacket, Take, Arrived, setup
<1>7. CASE RaiseOnText
    <2>1. Bounded'
        BY <1>1, <1>2, <1>7 DEF RaiseOnText, Take, Arrived, Bounded, Places
    <2> QED
        BY <1>7, <2>1, IdleStep DEF RaiseOnText, Take, Arrived, setup
<1>8. CASE StartText
    <2>1. Bounded'
        BY <1>1, <1>2, <1>8 DEF StartText, Take, Arrived, Bounded, Places
    <2> QED
        BY <1>8, <2>1, FedStep DEF StartText, Take, Arrived, setup
<1>9. CASE AggregateText
    <2>1. /\ buffered' \in Seq(Octets) /\ Len(buffered') = Len(buffered) + 1
          /\ Len(buffered) < MaxBuffered
        BY <1>1, <1>2, <1>9 DEF AggregateText, Arrived, Consistent, Bounded
    <2>2. Bounded'
        BY <1>1, <1>2, <1>9, <2>1 DEF AggregateText, Take, Arrived, Full, Bounded, Places
    <2> QED
        BY <1>9, <2>2, FedStep DEF AggregateText, Take, Arrived, setup
<1>10. CASE SignatureAfterText
    <2>1. Bounded'
        BY <1>1, <1>2, <1>10 DEF SignatureAfterText, Take, Arrived, Bounded, Places
    <2> QED
        BY <1>3, <1>10, <2>1, IdleStep DEF SignatureAfterText, Take, Arrived, setup
<1>11. CASE EofAfterText \/ Timeout
    <2>1. Bounded'
        BY <1>1, <1>11 DEF EofAfterText, Timeout, TakeNothing, Bounded, Places
    <2> QED
        BY <1>11, <2>1, QuietStep DEF EofAfterText, Timeout, TakeNothing, setup
<1>12. CASE Emit
    <2>1. Bounded'
        BY <1>1, <1>12 DEF Emit, TakeNothing, Bounded, Places
    <2>2. pc' = "packet" => codec = <<>> \/ garbage
        BY <1>12 DEF Emit, Consistent, InStep
    <2> QED
        BY <1>12, <2>1, <2>2, QuietStep DEF Emit, TakeNothing, setup
<1>13. CASE ParseEvent \/ ParseDamaged
    <2>1. Bounded'
        BY <1>1, <1>2, <1>13 DEF ParseEvent, ParseDamaged, Take, Arrived, Bounded, Places
    <2> QED
        BY <1>4, <1>13, <2>1, IdleStep DEF ParseEvent, ParseDamaged, Take, Arrived, setup
<1>14. CASE ParseTorn \/ ParseShort
    <2>1. wire' = <<>> /\ buffered' = buffered /\ pc' \in {"top", "raised"}
        BY <1>14 DEF ParseTorn, ParseShort
    <2>2. Bounded'
        BY <1>1, <2>1 DEF Bounded, Places
    <2> QED
        BY <1>4, <1>14, <2>1, <2>2, IdleStep DEF ParseTorn, ParseShort, setup
<1>15. CASE ParseText
    <2>1. Bounded'
        BY <1>1, <1>15 DEF ParseText, TakeNothing, Bounded, Places
    <2> QED
        BY <1>15, <2>1, QuietStep DEF ParseText, TakeNothing, setup
<1> QED
    BY <1>5, <1>6, <1>7, <1>8, <1>9, <1>10, <1>11, <1>12, <1>13, <1>14, <1>15
    DEF Reader, _parse_packet

LEMMA StepKeeps == Consistent /\ [Next]_vars => Consistent'
<1> SUFFICES ASSUME Consistent, [Next]_vars PROVE Consistent'
    OBVIOUS
<1>1. CASE UNCHANGED vars
    BY <1>1 DEF vars, setup, reader, Consistent, Bounded, InStep, WireGoesOn
<1> QED
    BY <1>1, WriterKeeps, ReaderKeeps DEF Next

LEMMA AlwaysConsistent == Spec => []Consistent
BY Initially, StepKeeps, PTL DEF Spec

\* ByteStreamToStreamResult.run: no more than MaxBuffered octets of text are held
\* back, however they arrive and whatever they are.
THEOREM HeldBackIsBounded == Spec => []BufferIsBounded
<1>1. Consistent => BufferIsBounded
    BY DEF Consistent, Bounded, BufferIsBounded
<1> QED
    BY <1>1, AlwaysConsistent, PTL

\* run's mid_character: of a writer that finishes its characters it says what the
\* decoder holds, and no packet is parsed while it holds anything.
THEOREM MidCharacterAgrees == Spec => []MidAgrees
<1>1. Consistent => MidAgrees
    BY DEF Consistent, InStep, MidAgrees
<1> QED
    BY <1>1, AlwaysConsistent, PTL
-------------------------------------------------------------------------------
(* What is reported, for a writer that writes none of the units the reader *)
(* is known to get wrong: a character that ends in 0xB3, a packet of       *)
(* another version, one that says it is 5 octets long.                     *)

Sound == Units \cap {"o_acute", "foreign", "short"} = {}

Hows == {"text", "event", "error"}
Item == [as : Hows, octet : Octets]
Seconds == {"packet", "damaged", "part"}
How(second) == IF second = "packet" THEN "event" ELSE "error"

Goes(items, i) == i \in 1 .. Len(items) /\ items[i].as = "text" /\ IsContinuation(items[i].octet)

\* An octet of text, which a character goes on after or is continued by; ...
OfText(items, i) ==
    /\ items[i].as = "text"
    /\ items[i].octet \in {"ascii", "lead2", "lead3", "cont", "b3", "invalid"}
    /\ items[i].octet \in {"lead2", "lead3"} => Goes(items, i + 1)
    /\ items[i].octet = "lead3" => Goes(items, i + 2)
    /\ items[i].octet = "b3" => i > 1 /\ items[i - 1].as = "text" /\ items[i - 1].octet = "lead3"

\* ... the signature of a packet; ...
Starts(items, i) == items[i].as # "text" /\ items[i].octet = "b3"
StartsWell(items, i, ended) ==
    /\ Starts(items, i)
    /\ i = Len(items) => ended /\ items[i].as = "error"
    /\ i < Len(items) => items[i + 1].octet \in Seconds /\ items[i].as = How(items[i + 1].octet)

\* ... and the rest of it.
Follows(items, i) ==
    /\ items[i].octet \in Seconds /\ items[i].as = How(items[i].octet)
    /\ i > 1 /\ Starts(items, i - 1)

Proper(items, ended) ==
    \A i \in 1 .. Len(items) : OfText(items, i) \/ StartsWell(items, i, ended) \/ Follows(items, i)

\* The octets that are to be reported: not those of a read that the end of the
\* stream cuts short.
Torn(octets) == octets # <<>> /\ octets[Len(octets)] = "bit"
Legible(octets) == IF Torn(octets) THEN SubSeq(octets, 1, Len(octets) - 1) ELSE octets

\* How much of what was sent has been read; run may hold a signature that it has
\* read.
Taken == Len(sent) - Len(Legible(wire))
Signed == pc = "packet" \/ (pc = "emit" /\ ~mid /\ content = "b3")

Told == got \in Seq(Item) /\ Len(got) <= Len(sent) /\ \A i \in 1 .. Len(got) : got[i] = sent[i]

OnTheWire ==
    /\ wire \in Seq(Octets) /\ Taken \in Nat
    /\ \A i \in 1 .. Len(Legible(wire)) : sent[Taken + i].octet = Legible(wire)[i]

Holding ==
    /\ buffered \in Seq(Octets)
    /\ Taken = Len(got) + Len(buffered) + (IF Signed THEN 1 ELSE 0)
    /\ \A i \in 1 .. Len(buffered) :
          sent[Len(got) + i].as = "text" /\ sent[Len(got) + i].octet = buffered[i]
    /\ pc \in {"top", "packet"} => buffered = <<>>

\* What the last octet that was read means for the next one.
InPlace ==
    /\ Taken > 0 /\ Starts(sent, Taken) => Signed \/ (closed /\ wire = <<>>)
    /\ Signed => Taken > 0 /\ Starts(sent, Taken)
    /\ Taken > 0 /\ sent[Taken].as = "text" /\ sent[Taken].octet = "lead3" => codec = <<"lead3">>
    /\ \A i \in 1 .. Awaits(codec) : Goes(sent, Taken + i)
    /\ pc = "select" /\ content = "b3" => mid

\* A read is cut short in a packet only, the last that is sent.
TornInPacket ==
    Torn(wire) =>
        /\ closed /\ Len(sent) > 0
        /\ sent[Len(sent)].as = "error" /\ sent[Len(sent)].octet \in {"b3", "part"}
        /\ Legible(wire) = <<>> => Signed

Right ==
    /\ sent \in Seq(Item) /\ Proper(sent, closed) /\ Told
    /\ pc = "done" => closed
    /\ pc # "raised" => OnTheWire /\ Holding /\ InPlace /\ TornInPacket
RightOrGarbage == garbage \/ Right

LEMMA LastDecides ==
    ASSUME NEW r \in Seq(Octets), NEW o \in Octets
    PROVE  /\ Append(r, o) \in Seq(Octets)
           /\ Torn(Append(r, o)) <=> o = "bit"
           /\ o = "bit" => Legible(Append(r, o)) = r
<1> DEFINE s == Append(r, o)
<1>1. /\ s \in Seq(Octets) /\ s # <<>> /\ Len(s) = Len(r) + 1 /\ s[Len(r) + 1] = o
      /\ \A i \in 1 .. Len(r) : s[i] = r[i]
      /\ Len(r) \in Nat
    BY AppendProperties
<1> HIDE DEF s
<1>2. Torn(s) <=> o = "bit"
    BY <1>1 DEF Torn
<1>3. ASSUME o = "bit"
      PROVE  Legible(s) = r
    <2>1. Legible(s) = SubSeq(s, 1, Len(r))
        BY <1>1, <1>2, <1>3 DEF Legible
    <2>2. SubSeq(s, 1, Len(r)) \in Seq(Octets) /\ Len(SubSeq(s, 1, Len(r))) = Len(r)
        BY <1>1
    <2>3. \A i \in 1 .. Len(r) : SubSeq(s, 1, Len(r))[i] = r[i]
        BY <1>1
    <2> QED
        BY <2>1, <2>2, <2>3, SeqEqual
<1> QED
    BY <1>1, <1>2, <1>3 DEF s

LEMMA LegibleIsRead ==
    ASSUME NEW s \in Seq(Octets)
    PROVE  /\ Legible(s) \in Seq(Octets)
           /\ ~Torn(s) => Legible(s) = s
           /\ s = <<>> => ~Torn(s)
           /\ s # <<>> /\ Legible(s) = <<>> => Torn(s) /\ Head(s) = "bit"
           /\ Legible(s) # <<>> =>
                 /\ s # <<>> /\ Head(Legible(s)) = Head(s)
                 /\ Legible(Tail(s)) = Tail(Legible(s)) /\ Torn(Tail(s)) = Torn(s)
<1>1. CASE s = <<>>
    BY <1>1 DEF Legible, Torn
<1>2. CASE s # <<>>
    <2>1. PICK r \in Seq(Octets), o \in Octets : s = Append(r, o)
        BY <1>2, SequenceEmptyOrAppend
    <2>2. /\ Head(s) = IF r = <<>> THEN o ELSE Head(r)
          /\ Tail(s) = IF r = <<>> THEN <<>> ELSE Append(Tail(r), o)
        BY <2>1, HeadTailAppend
    <2>3. Torn(s) <=> o = "bit"
        BY <2>1, LastDecides
    <2>4. r # <<>> => Tail(r) \in Seq(Octets)
        OBVIOUS
    <2>5. r # <<>> => (Torn(Tail(s)) <=> o = "bit")
        BY <2>2, <2>4, LastDecides
    <2>6. Torn(s) \in BOOLEAN /\ Torn(Tail(s)) \in BOOLEAN
        BY DEF Torn
    <2>7. CASE o = "bit"
        <3>1. Legible(s) = r
            BY <2>1, <2>7, LastDecides
        <3>2. r # <<>> => Legible(Tail(s)) = Tail(r)
            BY <2>2, <2>4, <2>7, LastDecides
        <3> QED
            BY <1>2, <2>2, <2>3, <2>5, <2>6, <2>7, <3>1, <3>2
    <2>8. CASE o # "bit"
        <3>1. Legible(s) = s
            BY <2>3, <2>8 DEF Legible
        <3>2. ~Torn(Tail(s))
            BY <2>2, <2>5, <2>8 DEF Torn
        <3>3. Legible(Tail(s)) = Tail(s)
            BY <3>2 DEF Legible
        <3> QED
            BY <1>2, <2>3, <2>6, <2>8, <3>1, <3>2, <3>3
    <2> QED
        BY <2>7, <2>8
<1> QED
    BY <1>1, <1>2

LEMMA AsType ==
    ASSUME NEW how \in Hows, NEW octets \in Seq(Octets)
    PROVE  /\ As(how, octets) \in Seq(Item) /\ Len(As(how, octets)) = Len(octets)
           /\ \A i \in 1 .. Len(octets) :
                 As(how, octets)[i].as = how /\ As(how, octets)[i].octet = octets[i]
<1>1. \A o \in Octets : [as |-> how, octet |-> o] \in Item
    BY DEF Item
<1>2. DOMAIN octets = 1 .. Len(octets)
    OBVIOUS
<1>3. As(how, octets) \in Seq(Item) /\ Len(As(how, octets)) = Len(octets)
    BY <1>1, <1>2 DEF As
<1>4. ASSUME NEW i \in 1 .. Len(octets)
      PROVE  As(how, octets)[i].as = how /\ As(how, octets)[i].octet = octets[i]
    <2>1. As(how, octets)[i] = [as |-> how, octet |-> octets[i]]
        BY <1>2 DEF As
    <2> QED
        BY <2>1
<1> QED
    BY <1>3, <1>4

\* What is proper stays so when more that is proper is written after it.
LEMMA ProperJoin ==
    ASSUME NEW s \in Seq(Item), NEW t \in Seq(Item), NEW before, NEW ended, ~before,
           Proper(s, before), Proper(t, ended)
    PROVE  Proper(s \o t, ended)
<1> DEFINE joined == s \o t
           n == Len(s)
<1>1. /\ n \in Nat /\ Len(t) \in Nat /\ Len(joined) = n + Len(t)
      /\ \A i \in 1 .. n : joined[i] = s[i]
      /\ \A i \in 1 .. Len(t) : joined[n + i] = t[i]
    OBVIOUS
<1> HIDE DEF joined, n
<1>2. ASSUME NEW i \in 1 .. n
      PROVE  OfText(joined, i) \/ StartsWell(joined, i, ended) \/ Follows(joined, i)
    <2>1. \A k \in Nat : Goes(s, k) => Goes(joined, k)
        BY <1>1 DEF Goes, n
    <2>2. joined[i] = s[i] /\ (i > 1 => joined[i - 1] = s[i - 1]) /\ (i < n => joined[i + 1] = s[i + 1])
        BY <1>1
    <2>3. CASE OfText(s, i)
        <3>1. Goes(s, i + 1) => Goes(joined, i + 1)
            BY <2>1
        <3>2. Goes(s, i + 2) => Goes(joined, i + 2)
            BY <2>1
        <3>3. OfText(joined, i)
            BY <2>2, <2>3, <3>1, <3>2 DEF OfText
        <3> QED
            BY <3>3
    <2>4. CASE StartsWell(s, i, before)
        <3>1. i < n
            BY <1>1, <2>4 DEF StartsWell, n
        <3>2. StartsWell(joined, i, ended)
            BY <1>1, <2>2, <2>4, <3>1 DEF StartsWell, Starts, n
        <3> QED
            BY <3>2
    <2>5. CASE Follows(s, i)
        <3>1. Follows(joined, i)
            BY <2>2, <2>5 DEF Follows, Starts
        <3> QED
            BY <3>1
    <2> QED
        BY <2>3, <2>4, <2>5 DEF Proper, n
<1>3. ASSUME NEW i \in 1 .. Len(t)
      PROVE  OfText(joined, n + i) \/ StartsWell(joined, n + i, ended) \/ Follows(joined, n + i)
    <2>1. \A k \in Nat : Goes(t, k) => Goes(joined, n + k)
        BY <1>1 DEF Goes
    <2>2. /\ joined[n + i] = t[i] /\ (i > 1 => joined[n + i - 1] = t[i - 1])
          /\ (i < Len(t) => joined[n + i + 1] = t[i + 1])
        BY <1>1
    <2>3. CASE OfText(t, i)
        <3>1. /\ Goes(t, i + 1) => Goes(joined, n + i + 1)
              /\ Goes(t, i + 2) => Goes(joined, n + i + 2)
              /\ i > 1 => n + i > 1
            BY <1>1, <2>1
        <3>2. OfText(joined, n + i)
            BY <1>1, <2>2, <2>3, <3>1 DEF OfText
        <3> QED
            BY <3>2
    <2>4. CASE StartsWell(t, i, ended)
        <3>1. /\ n + i = Len(joined) <=> i = Len(t)
              /\ n + i < Len(joined) <=> i < Len(t)
            BY <1>1, SMTT(30)
        <3>2. StartsWell(joined, n + i, ended)
            BY <2>2, <2>4, <3>1 DEF StartsWell, Starts
        <3> QED
            BY <3>2
    <2>5. CASE Follows(t, i)
        <3>1. i > 1 => n + i > 1
            BY <1>1
        <3>2. Follows(joined, n + i)
            BY <1>1, <2>2, <2>5, <3>1 DEF Follows, Starts
        <3> QED
            BY <3>2
    <2> QED
        BY <2>3, <2>4, <2>5 DEF Proper
<1>4. ASSUME NEW i \in 1 .. Len(joined), i \notin 1 .. n
      PROVE  i - n \in 1 .. Len(t) /\ n + (i - n) = i
    BY <1>1, <1>4
<1>5. \A i \in 1 .. Len(joined) : OfText(joined, i) \/ StartsWell(joined, i, ended) \/ Follows(joined, i)
    BY <1>2, <1>3, <1>4
<1> QED
    BY <1>5 DEF Proper, joined

LEMMA TornIsProper ==
    ASSUME NEW rest \in {<<>>, <<"b3">>, <<"b3", "part">>}
    PROVE  Proper(As("error", rest), TRUE)
<1>1. CASE rest = <<>>
    BY <1>1 DEF Proper, As
<1>2. CASE rest = <<"b3">>
    BY <1>2 DEF Proper, As, StartsWell, Starts
<1>3. CASE rest = <<"b3", "part">>
    <2>1. /\ Len(As("error", rest)) = 2
          /\ As("error", rest)[1] = [as |-> "error", octet |-> "b3"]
          /\ As("error", rest)[2] = [as |-> "error", octet |-> "part"]
        BY <1>3 DEF As
    <2> QED
        BY <2>1 DEF Proper, StartsWell, Starts, Follows, Seconds, How
<1> QED
    BY <1>1, <1>2, <1>3

LEMMA MeaningIsProper ==
    ASSUME Sound, NEW u \in Units
    PROVE  /\ Meaning(u) \in Seq(Item) /\ Proper(Meaning(u), FALSE)
           /\ Len(Meaning(u)) = Len(UnitOctets(u)) /\ Len(Meaning(u)) > 0
           /\ \A i \in 1 .. Len(UnitOctets(u)) : Meaning(u)[i].octet = UnitOctets(u)[i]
<1> DEFINE how == IF u = "packet" THEN "event" ELSE IF u \in PacketKinds THEN "error" ELSE "text"
<1>1. u \in {"packet", "damaged", "ascii", "e_acute", "uhorn", "invalid"}
    BY UnitsAssumption DEF Sound, PacketKinds, Characters
<1>2. UnitOctets(u) \in Seq(Octets) /\ how \in Hows /\ Meaning(u) = As(how, UnitOctets(u))
    BY UnitIsWhole DEF Hows, Meaning
<1> HIDE DEF how
<1>3. /\ Meaning(u) \in Seq(Item) /\ Len(Meaning(u)) = Len(UnitOctets(u))
      /\ \A i \in 1 .. Len(UnitOctets(u)) :
            Meaning(u)[i].as = how /\ Meaning(u)[i].octet = UnitOctets(u)[i]
    BY <1>2, AsType
<1>4. ASSUME NEW i \in 1 .. Len(UnitOctets(u))
      PROVE  OfText(Meaning(u), i) \/ StartsWell(Meaning(u), i, FALSE) \/ Follows(Meaning(u), i)
    <2> DEFINE octets == UnitOctets(u)
               n == Len(octets)
    <2>1. CASE u \in {"packet", "damaged"}
        <3>1. octets = <<"b3", u>> /\ how = How(u) /\ how # "text"
            BY <2>1 DEF UnitOctets, PacketKinds, how, How
        <3>2. n = 2 /\ octets[1] = "b3" /\ octets[2] = u /\ u \in Seconds
            BY <2>1, <3>1 DEF Seconds
        <3> HIDE DEF octets
        <3>3. i = 1 => StartsWell(Meaning(u), i, FALSE)
            BY <1>3, <3>1, <3>2 DEF StartsWell, Starts, octets
        <3>4. i = 2 => Follows(Meaning(u), i)
            BY <1>3, <3>1, <3>2 DEF Follows, Starts, octets
        <3>5. i = 1 \/ i = 2
            BY <3>2 DEF octets
        <3> QED
            BY <3>3, <3>4, <3>5
    <2>2. CASE u \in {"ascii", "invalid"}
        <3>1. octets = <<u>> /\ how = "text"
            BY <2>2 DEF UnitOctets, Characters, PacketKinds, how
        <3>2. n = 1 /\ octets[1] = u
            BY <3>1
        <3> HIDE DEF octets
        <3>3. i = 1
            BY <3>2 DEF octets
        <3>4. Meaning(u)[i].as = "text" /\ Meaning(u)[i].octet = u
            BY <1>3, <3>1, <3>2, <3>3 DEF octets
        <3> QED
            BY <2>2, <3>4 DEF OfText
    <2>3. CASE u = "e_acute"
        <3>1. octets = <<"lead2", "cont">> /\ how = "text"
            BY <2>3 DEF UnitOctets, Characters, PacketKinds, how
        <3>2. n = 2 /\ octets[1] = "lead2" /\ octets[2] = "cont"
            BY <3>1
        <3> HIDE DEF octets
        <3>3. Goes(Meaning(u), 2)
            BY <1>3, <3>1, <3>2 DEF Goes, IsContinuation, octets
        <3>4. i = 1 => OfText(Meaning(u), i)
            BY <1>3, <3>1, <3>2, <3>3 DEF OfText, octets
        <3>5. i = 2 => OfText(Meaning(u), i)
            BY <1>3, <3>1, <3>2 DEF OfText, octets
        <3>6. i = 1 \/ i = 2
            BY <3>2 DEF octets
        <3> QED
            BY <3>4, <3>5, <3>6
    <2>4. CASE u = "uhorn"
        <3>1. octets = <<"lead3", "b3", "cont">> /\ how = "text"
            BY <2>4 DEF UnitOctets, Characters, PacketKinds, how
        <3>2. n = 3 /\ octets[1] = "lead3" /\ octets[2] = "b3" /\ octets[3] = "cont"
            BY <3>1
        <3> HIDE DEF octets
        <3>3. Goes(Meaning(u), 2) /\ Goes(Meaning(u), 3)
            BY <1>3, <3>1, <3>2 DEF Goes, IsContinuation, octets
        <3>4. i = 1 => OfText(Meaning(u), i)
            BY <1>3, <3>1, <3>2, <3>3 DEF OfText, octets
        <3>5. i = 2 => OfText(Meaning(u), i)
            BY <1>3, <3>1, <3>2 DEF OfText, octets
        <3>6. i = 3 => OfText(Meaning(u), i)
            BY <1>3, <3>1, <3>2 DEF OfText, octets
        <3>7. i = 1 \/ i = 2 \/ i = 3
            BY <3>2 DEF octets
        <3> QED
            BY <3>4, <3>5, <3>6, <3>7
    <2> QED
        BY <1>1, <2>1, <2>2, <2>3, <2>4
<1>5. Len(UnitOctets(u)) > 0
    BY <1>1 DEF UnitOctets, Characters, PacketKinds
<1> QED
    BY <1>3, <1>4, <1>5 DEF Proper
-------------------------------------------------------------------------------
LEMMA SameItem ==
    \A x \in Item, y \in Item : x.as = y.as /\ x.octet = y.octet => x = y
BY DEF Item

\* What is reported as it was sent is told.
LEMMA Reports ==
    ASSUME sent \in Seq(Item), Told, sent' = sent, NEW how \in Hows, NEW octets \in Seq(Octets),
           Len(got) + Len(octets) <= Len(sent), got' = got \o As(how, octets),
           \A i \in 1 .. Len(octets) :
              sent[Len(got) + i].as = how /\ sent[Len(got) + i].octet = octets[i]
    PROVE  Told' /\ Len(got') = Len(got) + Len(octets)
<1> DEFINE items == As(how, octets)
           n == Len(got)
<1>1. /\ items \in Seq(Item) /\ Len(items) = Len(octets)
      /\ \A i \in 1 .. Len(octets) : items[i].as = how /\ items[i].octet = octets[i]
    BY AsType
<1>2. got \in Seq(Item) /\ n \in Nat /\ \A i \in 1 .. n : got[i] = sent[i]
    BY DEF Told
<1> HIDE DEF items
<1>3. /\ got' \in Seq(Item) /\ Len(got') = n + Len(octets)
      /\ \A i \in 1 .. n : got'[i] = got[i]
      /\ \A i \in 1 .. Len(octets) : got'[n + i] = items[i]
    BY <1>1, <1>2 DEF items
<1> HIDE DEF n
<1>4. ASSUME NEW i \in 1 .. Len(octets)
      PROVE  got'[n + i] = sent[n + i]
    <2>1. n + i \in 1 .. Len(sent)
        BY <1>2 DEF n
    <2>2. sent[n + i] \in Item /\ items[i] \in Item
        BY <1>1, <2>1
    <2>3. sent[n + i].as = items[i].as /\ sent[n + i].octet = items[i].octet
        BY <1>1 DEF n
    <2> QED
        BY <1>3, <2>2, <2>3, SameItem
<1>5. ASSUME NEW i \in 1 .. Len(got'), i \notin 1 .. n
      PROVE  i - n \in 1 .. Len(octets) /\ n + (i - n) = i
    BY <1>2, <1>3, <1>5
<1>6. \A i \in 1 .. Len(got') : got'[i] = sent[i]
    BY <1>2, <1>3, <1>4, <1>5
<1> QED
    BY <1>3, <1>6 DEF Told, n

\* One more octet has been read.
LEMMA OneIsRead ==
    ASSUME NEW s \in Seq(Item), NEW w \in Seq(Octets), w # <<>>, NEW n \in Nat,
           n = Len(s) - Len(w), \A i \in 1 .. Len(w) : s[n + i].octet = w[i]
    PROVE  /\ n + 1 \in 1 .. Len(s) /\ s[n + 1].octet = Head(w) /\ n + 1 = Len(s) - Len(Tail(w))
           /\ \A i \in 1 .. Len(Tail(w)) : s[n + 1 + i].octet = Tail(w)[i]
           /\ Tail(w) = <<>> => n + 1 = Len(s)
<1>1. /\ Len(w) \in Nat /\ Len(w) > 0 /\ Len(s) \in Nat /\ Len(Tail(w)) = Len(w) - 1
      /\ Head(w) = w[1]
    OBVIOUS
<1>2. n + 1 \in 1 .. Len(s) /\ s[n + 1].octet = Head(w) /\ n + 1 = Len(s) - Len(Tail(w))
    BY <1>1
<1>3. ASSUME NEW i \in 1 .. Len(Tail(w))
      PROVE  s[n + 1 + i].octet = Tail(w)[i]
    <2>1. i + 1 \in 1 .. Len(w) /\ n + 1 + i = n + (i + 1)
        BY <1>1
    <2>2. Tail(w)[i] = w[i + 1]
        BY HeadTailProperties
    <2> QED
        BY <2>1, <2>2
<1>4. Tail(w) = <<>> => n + 1 = Len(s)
    <2>1. Tail(w) = <<>> => Len(Tail(w)) = 0
        BY EmptySeq
    <2> QED
        BY <1>1, <2>1
<1> QED
    BY <1>2, <1>3, <1>4

LEMMA ReadsOne ==
    ASSUME sent \in Seq(Item), OnTheWire, Legible(wire) # <<>>, wire' \in Seq(Octets),
           Legible(wire') = Tail(Legible(wire)), sent' = sent
    PROVE  /\ OnTheWire' /\ Taken' = Taken + 1 /\ Taken + 1 \in 1 .. Len(sent)
           /\ sent[Taken + 1].octet = Head(Legible(wire))
           /\ Legible(wire') = <<>> => Taken + 1 = Len(sent)
<1> DEFINE n == Taken
           read == Legible(wire)
<1>1. /\ n \in Nat /\ n = Len(sent) - Len(read)
      /\ \A i \in 1 .. Len(read) : sent[n + i].octet = read[i]
    BY DEF OnTheWire, Taken
<1>2. read \in Seq(Octets) /\ read # <<>>
    BY LegibleIsRead DEF OnTheWire
<1>3. Taken' = Len(sent) - Len(Tail(read))
    BY DEF Taken
<1>4. Legible(wire') = Tail(read)
    OBVIOUS
<1> HIDE DEF n, read
<1>5. /\ n + 1 \in 1 .. Len(sent) /\ sent[n + 1].octet = Head(read)
      /\ n + 1 = Len(sent) - Len(Tail(read))
      /\ \A i \in 1 .. Len(Tail(read)) : sent[n + 1 + i].octet = Tail(read)[i]
      /\ Tail(read) = <<>> => n + 1 = Len(sent)
    BY <1>1, <1>2, OneIsRead
<1>6. Taken' = n + 1
    BY <1>3, <1>5
<1>7. \A i \in 1 .. Len(Legible(wire')) : sent'[Taken' + i].octet = Legible(wire')[i]
    <2>1. sent' = sent
        OBVIOUS
    <2> QED
        BY ONLY <1>4, <1>5, <1>6, <2>1
<1>8. OnTheWire'
    BY <1>1, <1>6, <1>7 DEF OnTheWire
<1> QED
    BY <1>4, <1>5, <1>6, <1>8 DEF n, read

\* Outside a packet the next octet is always there to be reported.
LEMMA ReadsNext ==
    ASSUME Right, pc \in {"top", "select", "packet"}, wire # <<>>,
           pc = "packet" => Head(wire) # "bit", wire' = Tail(wire), sent' = sent
    PROVE  /\ OnTheWire' /\ Taken' = Taken + 1 /\ Taken + 1 \in 1 .. Len(sent)
           /\ sent[Taken + 1].octet = Head(wire)
           /\ Legible(wire) # <<>> /\ Head(Legible(wire)) = Head(wire)
           /\ Legible(wire') = Tail(Legible(wire)) /\ wire' \in Seq(Octets)
           /\ Torn(wire') => Torn(wire)
           /\ Legible(wire') = <<>> => Taken + 1 = Len(sent)
<1>1. wire \in Seq(Octets) /\ wire' \in Seq(Octets) /\ sent \in Seq(Item)
      /\ OnTheWire /\ TornInPacket
    BY DEF Right, OnTheWire
<1>2. Legible(wire) # <<>>
    <2>1. Legible(wire) = <<>> => Torn(wire) /\ Head(wire) = "bit"
        BY <1>1, LegibleIsRead
    <2>2. pc # "packet" => ~Signed
        BY DEF Signed
    <2> QED
        BY <1>1, <2>1, <2>2 DEF TornInPacket
<1>3. /\ Head(Legible(wire)) = Head(wire) /\ Legible(wire') = Tail(Legible(wire))
      /\ Torn(wire') = Torn(wire)
    BY <1>1, <1>2, LegibleIsRead
<1> QED
    BY <1>1, <1>2, <1>3, ReadsOne

\* The writer appends to what it has sent as it does to the wire, but for what
\* no read gets whole.
Sends(items, octets) ==
    /\ sent' = sent \o items /\ Len(items) = Len(octets)
    /\ \A i \in 1 .. Len(octets) : items[i].octet = octets[i]
    /\ Proper(items, closed')
    /\ wire \in Seq(Octets) /\ ~Torn(wire) =>
          /\ Legible(wire') = wire \o octets /\ wire' \in Seq(Octets)
          /\ Torn(wire') =>
                /\ closed' /\ Len(items) > 0 /\ items[Len(items)].as = "error"
                /\ items[Len(items)].octet \in {"b3", "part"}

LEMMA NotTorn ==
    ASSUME NEW s \in Seq(Octets), NEW t \in Seq(Octets), ~Torn(s), ~Torn(t)
    PROVE  /\ ~Torn(s \o t) /\ Legible(s \o t) = s \o t
           /\ Torn(s \o t \o <<"bit">>) /\ Legible(s \o t \o <<"bit">>) = s \o t
<1>1. s \o t \in Seq(Octets) /\ "bit" \in Octets
    BY DEF Octets
<1>2. ~Torn(s \o t)
    <2>1. CASE t = <<>>
        BY <2>1 DEF Torn
    <2>2. CASE t # <<>>
        <3>1. (s \o t)[Len(s \o t)] = t[Len(t)]
            BY <2>2
        <3> QED
            BY <2>2, <3>1 DEF Torn
    <2> QED
        BY <2>1, <2>2
<1>3. Torn(s \o t \o <<"bit">>) /\ Legible(s \o t \o <<"bit">>) = s \o t
    <2>1. s \o t \o <<"bit">> = Append(s \o t, "bit")
        BY <1>1, AppendIsConcat
    <2> QED
        BY <1>1, <2>1, LastDecides
<1> QED
    BY <1>2, <1>3 DEF Legible

LEMMA WriterSends ==
    ASSUME Sound, ~garbage, Writer
    PROVE  \E items \in Seq(Item), octets \in Seq(Octets) :
              Sends(items, octets) /\ ~closed /\ UNCHANGED <<reader, got, garbage>>
<1>1. ASSUME NEW u \in Units, Write(u)
      PROVE  \E items \in Seq(Item), octets \in Seq(Octets) : Sends(items, octets)
    <2>1. wire' = wire \o UnitOctets(u) /\ sent' = sent \o Meaning(u) /\ closed' = FALSE
        BY <1>1 DEF Write
    <2>2. UnitOctets(u) \in Seq(Octets)
        BY UnitIsWhole
    <2>3. ~Torn(UnitOctets(u))
        <3>1. u \in {"packet", "damaged", "ascii", "e_acute", "uhorn", "invalid"}
            BY UnitsAssumption DEF Sound, PacketKinds, Characters
        <3>2. UnitOctets(u) \in {<<"b3", "packet">>, <<"b3", "damaged">>, <<"ascii">>,
                                 <<"lead2", "cont">>, <<"lead3", "b3", "cont">>, <<"invalid">>}
            BY <3>1 DEF UnitOctets, PacketKinds, Characters
        <3> QED
            BY <3>2 DEF Torn
    <2>4. wire \in Seq(Octets) /\ ~Torn(wire) =>
             ~Torn(wire') /\ Legible(wire') = wire \o UnitOctets(u) /\ wire' \in Seq(Octets)
        BY <2>1, <2>2, <2>3, NotTorn
    <2>5. Sends(Meaning(u), UnitOctets(u))
        BY <2>1, <2>4, MeaningIsProper DEF Sends
    <2> QED
        BY <2>2, <2>5, MeaningIsProper
<1>2. ASSUME Exit
      PROVE  \E items \in Seq(Item), octets \in Seq(Octets) : Sends(items, octets)
    <2>1. PICK rest \in {<<>>, <<"b3">>, <<"b3", "part">>}, bit \in {<<>>, <<"bit">>} :
             /\ rest = <<>> => bit = <<>>
             /\ wire' = wire \o rest \o bit /\ sent' = sent \o As("error", rest)
        BY <1>2 DEF Exit
    <2>2. rest \in Seq(Octets) /\ "error" \in Hows /\ bit \in Seq(Octets)
        BY RestIsWhole DEF Hows
    <2>3. Proper(As("error", rest), closed') /\ closed'
        BY <1>2, TornIsProper DEF Exit
    <2>4. /\ As("error", rest) \in Seq(Item) /\ Len(As("error", rest)) = Len(rest)
          /\ \A i \in 1 .. Len(rest) :
                As("error", rest)[i].as = "error" /\ As("error", rest)[i].octet = rest[i]
        BY <2>2, AsType
    <2>5. ~Torn(rest) /\ (rest # <<>> => rest[Len(rest)] \in {"b3", "part"})
        BY DEF Torn
    <2>6. ASSUME wire \in Seq(Octets), ~Torn(wire)
          PROVE  /\ Legible(wire') = wire \o rest /\ wire' \in Seq(Octets)
                 /\ Torn(wire') => rest # <<>>
        <3>1. CASE bit = <<>>
            <4>1. wire' = wire \o rest
                BY <2>1, <2>2, <2>6, <3>1
            <4> QED
                BY <2>2, <2>5, <2>6, <4>1, NotTorn
        <3>2. CASE bit = <<"bit">>
            BY <2>1, <2>2, <2>5, <2>6, <3>2, NotTorn
        <3> QED
            BY <3>1, <3>2
    <2>7. Torn(wire') /\ wire \in Seq(Octets) /\ ~Torn(wire) =>
             /\ Len(As("error", rest)) > 0
             /\ As("error", rest)[Len(rest)].as = "error"
             /\ As("error", rest)[Len(rest)].octet \in {"b3", "part"}
        <3>1. rest # <<>> => Len(rest) \in 1 .. Len(rest)
            BY <2>2
        <3> QED
            BY <2>4, <2>5, <2>6, <3>1
    <2>8. Sends(As("error", rest), rest)
        BY <2>1, <2>3, <2>4, <2>6, <2>7 DEF Sends
    <2> QED
        BY <2>2, <2>4, <2>8
<1>3. ~closed /\ UNCHANGED <<reader, got, garbage>>
    BY DEF Writer, Write, Exit, setup
<1> QED
    BY <1>1, <1>2, <1>3 DEF Writer

LEMMA WriterKeepsRight ==
    ASSUME Sound, ~garbage, Right, Writer
    PROVE  Right'
<1>1. PICK items \in Seq(Item), octets \in Seq(Octets) :
         Sends(items, octets) /\ ~closed /\ UNCHANGED <<reader, got, garbage>>
    BY WriterSends
<1>2. /\ sent' = sent \o items /\ Len(items) = Len(octets)
      /\ \A i \in 1 .. Len(octets) : items[i].octet = octets[i]
      /\ Proper(items, closed')
    BY <1>1 DEF Sends
<1>3. sent \in Seq(Item) /\ Proper(sent, closed) /\ Told /\ pc # "done"
    BY <1>1 DEF Right
<1> DEFINE n == Len(sent)
<1>4. /\ sent' \in Seq(Item) /\ Len(sent') = n + Len(items) /\ n \in Nat /\ Len(items) \in Nat
      /\ \A i \in 1 .. n : sent'[i] = sent[i]
      /\ \A i \in 1 .. Len(items) : sent'[n + i] = items[i]
    <2>1. sent' = sent \o items /\ items \in Seq(Item) /\ sent \in Seq(Item)
        BY <1>2, <1>3
    <2>2. sent \o items \in Seq(Item)
        BY ONLY <2>1
    <2>3. /\ Len(sent \o items) = n + Len(items) /\ n \in Nat /\ Len(items) \in Nat
          /\ \A i \in 1 .. n : (sent \o items)[i] = sent[i]
        BY ONLY <2>1
    <2>4. \A i \in 1 .. Len(items) : (sent \o items)[n + i] = items[i]
        BY ONLY <2>1
    <2> QED
        BY ONLY <2>1, <2>2, <2>3, <2>4
<1> HIDE DEF n
<1>5. Proper(sent', closed')
    BY <1>1, <1>2, <1>3, ProperJoin
<1>6. Told'
    <2>1. got' = got
        BY <1>1
    <2> QED
        BY <1>3, <1>4, <2>1 DEF Told, n
<1>7. ASSUME pc # "raised"
      PROVE  (OnTheWire /\ Holding /\ InPlace /\ TornInPacket)'
    <2> DEFINE taken == Taken
               read == Legible(wire')
    <2>1. OnTheWire /\ Holding /\ InPlace /\ TornInPacket
        BY <1>7 DEF Right
    <2>2. wire \in Seq(Octets) /\ ~Torn(wire) /\ Legible(wire) = wire
        BY <1>1, <2>1, LegibleIsRead DEF OnTheWire, TornInPacket
    <2>3. /\ read = wire \o octets /\ wire' \in Seq(Octets)
          /\ Torn(wire') =>
                /\ closed' /\ Len(items) > 0 /\ items[Len(items)].as = "error"
                /\ items[Len(items)].octet \in {"b3", "part"}
        BY <1>1, <2>2 DEF Sends
    <2>4. taken \in Nat /\ Len(wire) \in Nat /\ taken + Len(wire) = n /\ wire \in Seq(Octets)
        BY <1>4, <2>1, <2>2 DEF OnTheWire, Taken, n
    <2>5. \A i \in 1 .. Len(wire) : sent[taken + i].octet = wire[i]
        BY <2>1, <2>2 DEF OnTheWire
    <2> HIDE DEF taken, read
    <2>6. /\ read \in Seq(Octets) /\ Len(read) = Len(wire) + Len(octets)
          /\ \A i \in 1 .. Len(wire) : read[i] = wire[i]
          /\ \A i \in 1 .. Len(octets) : read[Len(wire) + i] = octets[i]
        BY <1>1, <2>4, <2>3
    <2>7. Taken' = taken
        <3>1. Taken' = Len(sent') - Len(read)
            BY DEF Taken, read
        <3> QED
            BY <1>2, <1>4, <2>4, <2>6, <3>1
    <2>8. ASSUME NEW i \in 1 .. Len(read)
          PROVE  sent'[taken + i].octet = read[i]
        <3>1. CASE i <= Len(wire)
            <4>1. i \in 1 .. Len(wire) /\ taken + i \in 1 .. n
                BY <2>4, <3>1
            <4> QED
                BY <4>1, <1>4, <2>6, <2>5
        <3>2. CASE i > Len(wire)
            <4>1. /\ i - Len(wire) \in 1 .. Len(octets) /\ i = Len(wire) + (i - Len(wire))
                  /\ taken + i = n + (i - Len(wire))
                BY <2>4, <2>6, <3>2
            <4> QED
                BY <4>1, <1>2, <1>4, <2>6
        <3> QED
            BY <2>4, <3>1, <3>2
    <2>9. OnTheWire'
        BY <2>3, <2>4, <2>7, <2>8 DEF OnTheWire, read
    <2>10. UNCHANGED <<pc, codec, mid, buffered, content, got>> /\ Signed' = Signed
        BY <1>1 DEF reader, Signed
    <2>11. Holding'
        <3>1. /\ buffered \in Seq(Octets) /\ Len(got) \in Nat /\ Len(buffered) \in Nat
              /\ taken = Len(got) + Len(buffered) + (IF Signed THEN 1 ELSE 0)
              /\ \A i \in 1 .. Len(buffered) :
                    sent[Len(got) + i].as = "text" /\ sent[Len(got) + i].octet = buffered[i]
            BY <1>3, <2>1 DEF Holding, Told, taken
        <3>2. \A i \in 1 .. Len(buffered) : Len(got) + i \in 1 .. n
            BY <2>4, <3>1
        <3>3. \A i \in 1 .. Len(buffered) :
                 sent'[Len(got) + i].as = "text" /\ sent'[Len(got) + i].octet = buffered[i]
            BY <1>4, <3>1, <3>2
        <3> QED
            BY <2>1, <2>7, <2>10, <3>1, <3>3 DEF Holding
    <2>12. InPlace'
        <3>1. taken > 0 => sent'[taken] = sent[taken]
            BY <1>4, <2>4
        <3>2. \A i \in Nat : Goes(sent, taken + i) => Goes(sent', taken + i)
            BY <1>4, <2>4 DEF Goes, n
        <3>3. taken > 0 /\ Starts(sent', taken) <=> taken > 0 /\ Starts(sent, taken)
            BY <3>1 DEF Starts
        <3>4. Awaits(codec') = Awaits(codec) /\ Awaits(codec) \in Nat
            BY <2>10 DEF Awaits
        <3>5. \A i \in 1 .. Awaits(codec) : Goes(sent', taken + i)
            BY <2>1, <3>2, <3>4 DEF InPlace, taken
        <3>6. /\ taken > 0 /\ Starts(sent, taken) => Signed
              /\ Signed => taken > 0 /\ Starts(sent, taken)
              /\ taken > 0 /\ sent[taken].as = "text" /\ sent[taken].octet = "lead3" =>
                    codec = <<"lead3">>
              /\ pc = "select" /\ content = "b3" => mid
            BY <1>1, <2>1 DEF InPlace, taken
        <3> QED
            BY <2>7, <2>10, <3>1, <3>3, <3>4, <3>5, <3>6 DEF InPlace
    <2>13. TornInPacket'
        <3>1. Len(items) > 0 => /\ Len(sent') > 0 /\ sent'[Len(sent')] = items[Len(items)]
                                /\ read # <<>>
            BY <1>2, <1>4, <2>6
        <3> QED
            BY <2>3, <3>1 DEF TornInPacket, read
    <2> QED
        BY <2>9, <2>11, <2>12, <2>13
<1> QED
    BY <1>1, <1>3, <1>4, <1>5, <1>6, <1>7 DEF Right, reader

\* An octet is fed to the decoder: it is text, and what comes next is known again.
LEMMA FeedsText ==
    ASSUME ~garbage, Consistent, Right, pc \in {"top", "select"}, wire # <<>>,
           ~IsSignature(Head(wire)), Feed(Head(wire)), wire' = Tail(wire), sent' = sent
    PROVE  /\ OnTheWire' /\ Taken' = Taken + 1 /\ Taken + 1 \in 1 .. Len(sent)
           /\ sent[Taken'].as = "text" /\ sent[Taken'].octet = Head(wire)
           /\ Head(wire) = "b3" => mid'
           /\ Head(wire) = "lead3" => codec' = <<"lead3">>
           /\ \A i \in 1 .. Awaits(codec') : Goes(sent, Taken' + i)
           /\ Torn(wire') => Torn(wire) /\ Legible(wire') # <<>>
<1> DEFINE octet == Head(wire)
           k == Taken + 1
           data == codec \o <<octet>>
<1>1. /\ OnTheWire' /\ Taken' = k /\ k \in 1 .. Len(sent) /\ sent[k].octet = octet
      /\ Taken \in Nat /\ (Torn(wire') => Torn(wire))
      /\ Legible(wire') = <<>> => k = Len(sent)
    BY ReadsNext DEF Right, OnTheWire
<1>2. /\ octet \in Octets /\ codec \in Partials
      /\ mid <=> codec # <<>>
      /\ InPlace /\ ~Signed
    BY DEF Consistent, InStep, Bounded, Right, Signed
<1>3. /\ mid' = (Decoded(data) = "partial")
      /\ codec' = IF Decoded(data) = "character" THEN <<>>
                  ELSE IF Decoded(data) = "partial" THEN data ELSE codec
    BY DEF Feed, IsMid
<1>4. codec # <<>> => sent[k].as = "text" /\ IsContinuation(octet)
    <2>1. codec # <<>> => 1 \in 1 .. Awaits(codec)
        BY DEF Awaits
    <2>2. codec # <<>> => Goes(sent, k)
        BY <1>2, <2>1 DEF InPlace
    <2> QED
        BY <1>1, <2>2 DEF Goes
<1>5. OfText(sent, k)
    <2>1. OfText(sent, k) \/ StartsWell(sent, k, closed) \/ Follows(sent, k)
        BY <1>1 DEF Right, Proper
    <2>2. ~Follows(sent, k)
        <3>1. ~(Taken > 0 /\ Starts(sent, Taken))
            BY <1>2 DEF InPlace
        <3>2. k > 1 <=> Taken > 0
            BY <1>1
        <3>3. k - 1 = Taken
            BY <1>1
        <3> QED
            BY <3>1, <3>2, <3>3 DEF Follows
    <2>3. ~StartsWell(sent, k, closed)
        <3>1. octet = "b3" => sent[k].as = "text"
            BY <1>2, <1>4 DEF IsSignature
        <3> QED
            BY <1>1, <3>1 DEF StartsWell, Starts
    <2> QED
        BY <2>1, <2>2, <2>3
<1> HIDE DEF octet, data
<1>6. octet \in {"lead2", "lead3"} => codec = <<>>
    BY <1>4 DEF IsContinuation
<1>7. octet = "b3" => mid' /\ codec' = <<"lead3", "b3">>
    <2>1. octet = "b3" => k > 1 /\ sent[k - 1].as = "text" /\ sent[k - 1].octet = "lead3"
        BY <1>1, <1>5 DEF OfText
    <2>2. k - 1 = Taken /\ (k > 1 <=> Taken > 0)
        BY <1>1
    <2>3. octet = "b3" => codec = <<"lead3">>
        BY <1>2, <2>1, <2>2 DEF InPlace
    <2>4. IsContinuation("b3")
        BY DEF IsContinuation
    <2>5. octet = "b3" => Decoded(data) = "partial" /\ data = <<"lead3", octet>>
        BY <1>2, <2>3, <2>4, DecodesOctet DEF data
    <2> QED
        BY <1>3, <2>5
<1>8. octet = "lead3" => codec' = <<"lead3">>
    BY <1>2, <1>3, <1>6, DecodesOctet DEF data
<1>9. ASSUME NEW i \in 1 .. Awaits(codec')
      PROVE  Goes(sent, k + i)
    <2>1. k + 1 = Taken + 2
        BY <1>1
    <2>2. CASE codec = <<>>
        <3>1. CASE octet = "lead2"
            <4>1. codec' = <<"lead2">>
                BY <1>2, <1>3, <2>2, <3>1, DecodesOctet DEF data
            <4>2. i = 1
                BY <4>1 DEF Awaits
            <4> QED
                BY <1>1, <1>5, <3>1, <4>2 DEF OfText
        <3>2. CASE octet = "lead3"
            <4>1. i = 1 \/ i = 2
                BY <1>8, <3>2 DEF Awaits
            <4> QED
                BY <1>1, <1>5, <3>2, <4>1 DEF OfText
        <3>3. CASE octet \notin {"lead2", "lead3"}
            <4>1. Decoded(data) # "partial"
                BY <1>2, <2>2, <3>3, DecodesOctet DEF data
            <4>2. codec' = <<>>
                BY <1>3, <2>2, <4>1
            <4> QED
                BY <4>2 DEF Awaits
        <3> QED
            BY <3>1, <3>2, <3>3
    <2>3. CASE codec = <<"lead3">>
        <3>1. 2 \in 1 .. Awaits(codec)
            BY <2>3 DEF Awaits
        <3>2. Goes(sent, k + 1)
            BY <1>2, <2>1, <3>1 DEF InPlace
        <3>3. IsContinuation(octet)
            BY <1>4, <2>3
        <3>4. Decoded(data) = "partial" /\ data = <<"lead3", octet>>
            BY <1>2, <2>3, <3>3, DecodesOctet DEF data
        <3>5. codec' = <<"lead3", octet>>
            BY <1>3, <3>4
        <3>6. i = 1
            BY <3>5 DEF Awaits
        <3> QED
            BY <3>2, <3>6
    <2>4. CASE codec \notin {<<>>, <<"lead3">>}
        <3>1. Decoded(data) = "character"
            BY <1>2, <1>4, <2>4, DecodesOctet DEF data
        <3>2. codec' = <<>>
            BY <1>3, <3>1
        <3> QED
            BY <3>2 DEF Awaits
    <2> QED
        BY <2>2, <2>3, <2>4
<1>10. Torn(wire') => Legible(wire') # <<>>
    <2>1. Torn(wire) => sent[Len(sent)].as = "error"
        BY DEF Right, TornInPacket
    <2> QED
        BY <1>1, <1>5, <2>1 DEF OfText
<1> QED
    BY <1>1, <1>4, <1>5, <1>7, <1>8, <1>9, <1>10 DEF OfText, octet

\* A signature is read that is one, and the text before it has been read.
LEMMA ReadsSignature ==
    ASSUME ~garbage, Consistent, Right, pc \in {"top", "select"}, wire # <<>>,
           IsSignature(Head(wire)), wire' = Tail(wire), sent' = sent
    PROVE  /\ OnTheWire' /\ Taken' = Taken + 1 /\ Taken + 1 \in 1 .. Len(sent)
           /\ Starts(sent, Taken') /\ (Torn(wire') => Torn(wire))
<1> DEFINE k == Taken + 1
<1>1. /\ OnTheWire' /\ Taken' = k /\ k \in 1 .. Len(sent) /\ sent[k].octet = "b3"
      /\ Taken \in Nat /\ (Torn(wire') => Torn(wire))
    BY ReadsNext DEF Right, OnTheWire, IsSignature
<1>2. codec = <<>> /\ InPlace
    BY DEF Consistent, InStep, IsSignature, Right
<1>3. OfText(sent, k) \/ StartsWell(sent, k, closed) \/ Follows(sent, k)
    BY <1>1 DEF Right, Proper
<1>4. ~OfText(sent, k)
    <2>1. k - 1 = Taken /\ (k > 1 <=> Taken > 0)
        BY <1>1
    <2>2. OfText(sent, k) => Taken > 0 /\ sent[Taken].as = "text" /\ sent[Taken].octet = "lead3"
        BY <1>1, <2>1 DEF OfText
    <2> QED
        BY <1>2, <2>2 DEF InPlace
<1>5. ~Follows(sent, k)
    BY <1>1 DEF Follows, Seconds
<1> QED
    BY <1>1, <1>3, <1>4, <1>5 DEF StartsWell

\* What follows a signature that has been read.
LEMMA ReadsPacket ==
    ASSUME Right, pc = "packet"
    PROVE  /\ Taken \in Nat /\ Taken = Len(got) + 1 /\ Len(got) \in Nat /\ buffered = <<>>
           /\ sent[Taken].octet = "b3" /\ sent[Taken].as # "text" /\ Taken <= Len(sent)
           /\ Legible(wire) = <<>> => sent[Taken].as = "error"
           /\ Legible(wire) # <<>> =>
                 /\ Head(wire) = Head(Legible(wire))
                 /\ Head(wire) \in Seconds /\ Taken + 1 <= Len(sent)
                 /\ sent[Taken + 1].octet = Head(wire)
                 /\ sent[Taken].as = How(Head(wire)) /\ sent[Taken + 1].as = How(Head(wire))
           /\ Legible(wire) = <<>> /\ wire # <<>> => Head(wire) = "bit"
<1> DEFINE n == Taken
           read == Legible(wire)
           second == Head(wire)
<1>1. OnTheWire /\ Holding /\ InPlace /\ Signed /\ sent \in Seq(Item) /\ Proper(sent, closed)
    BY DEF Right, Signed
<1>2. /\ read \in Seq(Octets) /\ (read # <<>> => Head(read) = second)
      /\ read = <<>> /\ wire # <<>> => second = "bit"
    BY <1>1, LegibleIsRead DEF OnTheWire
<1>3. n \in Nat /\ n > 0 /\ Starts(sent, n) /\ n + Len(read) = Len(sent) /\ Len(read) \in Nat
    BY <1>1, <1>2 DEF InPlace, OnTheWire, Taken
<1>4. n = Len(got) + 1 /\ Len(got) \in Nat /\ buffered = <<>>
    BY <1>1 DEF Holding, Right, Told
<1>5. StartsWell(sent, n, closed)
    <2>1. OfText(sent, n) \/ StartsWell(sent, n, closed) \/ Follows(sent, n)
        BY <1>1, <1>3 DEF Proper
    <2> QED
        BY <1>3, <2>1 DEF Starts, OfText, Follows, Seconds
<1>6. ASSUME read = <<>>
      PROVE  sent[n].as = "error"
    BY <1>3, <1>5, <1>6 DEF StartsWell
<1>7. ASSUME read # <<>>
      PROVE  /\ second \in Seconds /\ n + 1 <= Len(sent) /\ sent[n + 1].octet = second
             /\ sent[n].as = How(second) /\ sent[n + 1].as = How(second)
    <2>1. second = read[1] /\ 1 \in 1 .. Len(read)
        BY <1>2, <1>7
    <2>2. sent[n + 1].octet = second
        BY <1>1, <2>1 DEF OnTheWire
    <2>3. n < Len(sent) /\ n + 1 \in 1 .. Len(sent)
        BY <1>3, <2>1
    <2> HIDE DEF n, second
    <2>4. second \in Seconds /\ sent[n].as = How(second)
        BY <1>5, <2>2, <2>3 DEF StartsWell
    <2>5. OfText(sent, n + 1) \/ StartsWell(sent, n + 1, closed) \/ Follows(sent, n + 1)
        BY <1>1, <2>3 DEF Proper
    <2>6. ~OfText(sent, n + 1)
        BY <2>2, <2>4 DEF OfText, Seconds
    <2>7. ~StartsWell(sent, n + 1, closed)
        BY <2>2, <2>4 DEF StartsWell, Starts, Seconds
    <2>8. sent[n + 1].as = How(second)
        BY <2>2, <2>5, <2>6, <2>7 DEF Follows
    <2> QED
        BY <2>2, <2>3, <2>4, <2>8
<1> QED
    BY <1>2, <1>3, <1>4, <1>6, <1>7 DEF Starts

\* A step that reports nothing and leaves the wire as it is.
LEMMA NothingReported ==
    ASSUME Right, UNCHANGED <<wire, closed, garbage, codec, mid, buffered, sent, got>>,
           pc \notin {"raised", "packet"}, pc' # "packet", pc' # "select",
           Signed' = Signed, pc' = "done" => closed,
           pc' = "top" => pc = "top"
    PROVE  Right'
<1>1. OnTheWire /\ Holding /\ InPlace /\ TornInPacket
    BY DEF Right
<1>2. Taken' = Taken
    BY DEF Taken
<1>3. OnTheWire'
    BY <1>1, <1>2 DEF OnTheWire
<1>4. Holding'
    BY <1>1, <1>2 DEF Holding
<1>5. InPlace' /\ TornInPacket'
    BY <1>1, <1>2 DEF InPlace, TornInPacket
<1> QED
    BY <1>3, <1>4, <1>5 DEF Right, Told

LEMMA StartTextKeepsRight ==
    ASSUME ~garbage, Consistent, Right, StartText
    PROVE  Right'
<1> DEFINE octet == Head(wire)
<1>1. /\ pc = "top" /\ wire # <<>> /\ ~IsSignature(octet) /\ Feed(octet)
      /\ buffered' = <<octet>> /\ content' = octet /\ pc' \in {"emit", "select"}
      /\ wire' = Tail(wire) /\ UNCHANGED <<closed, garbage, sent, got>>
    BY DEF StartText, Take, Arrived, setup
<1>2. /\ OnTheWire' /\ Taken' = Taken + 1 /\ Taken + 1 \in 1 .. Len(sent)
      /\ sent[Taken'].as = "text" /\ sent[Taken'].octet = octet
      /\ octet = "b3" => mid'
      /\ octet = "lead3" => codec' = <<"lead3">>
      /\ \A i \in 1 .. Awaits(codec') : Goes(sent, Taken' + i)
      /\ Torn(wire') => Torn(wire) /\ Legible(wire') # <<>>
    BY <1>1, FeedsText
<1>3. octet \in Octets
    BY <1>1 DEF Consistent, Bounded
<1> HIDE DEF octet
<1>4. ~Signed'
    BY <1>1, <1>2 DEF Signed
<1>5. Taken = Len(got) /\ Taken \in Nat
    BY <1>1 DEF Right, Holding, OnTheWire, Signed, Told
<1>6. Holding'
    <2>1. buffered' \in Seq(Octets) /\ Len(buffered') = 1 /\ buffered'[1] = octet
        BY <1>1, <1>3
    <2>2. Taken' = Len(got') + Len(buffered') + (IF Signed' THEN 1 ELSE 0)
        BY <1>1, <1>2, <1>4, <1>5, <2>1
    <2>3. \A i \in 1 .. Len(buffered') :
             sent'[Len(got') + i].as = "text" /\ sent'[Len(got') + i].octet = buffered'[i]
        BY <1>1, <1>2, <1>5, <2>1
    <2> QED
        BY <1>1, <2>1, <2>2, <2>3 DEF Holding
<1>7. InPlace'
    BY <1>1, <1>2, <1>4 DEF InPlace, Starts
<1>8. pc' # "done" /\ sent \in Seq(Item) /\ Proper(sent, closed) /\ Told /\ TornInPacket'
    BY <1>1, <1>2 DEF Right, TornInPacket
<1> QED
    BY <1>1, <1>2, <1>6, <1>7, <1>8 DEF Right, Told

LEMMA AggregateTextKeepsRight ==
    ASSUME ~garbage, Consistent, Right, AggregateText
    PROVE  Right'
<1> DEFINE octet == Head(wire)
           n == Len(got)
<1>1. /\ pc = "select" /\ wire # <<>> /\ ~IsSignature(octet) /\ Feed(octet)
      /\ buffered' = Append(buffered, octet) /\ content' = octet /\ pc' \in {"emit", "select"}
      /\ wire' = Tail(wire) /\ UNCHANGED <<closed, garbage, sent, got>>
    BY DEF AggregateText, Take, Arrived, setup
<1>2. /\ OnTheWire' /\ Taken' = Taken + 1 /\ Taken + 1 \in 1 .. Len(sent)
      /\ sent[Taken'].as = "text" /\ sent[Taken'].octet = octet
      /\ octet = "b3" => mid'
      /\ octet = "lead3" => codec' = <<"lead3">>
      /\ \A i \in 1 .. Awaits(codec') : Goes(sent, Taken' + i)
      /\ Torn(wire') => Torn(wire) /\ Legible(wire') # <<>>
    BY <1>1, FeedsText
<1>3. octet \in Octets
    BY <1>1 DEF Consistent, Bounded
<1> HIDE DEF octet, n
<1>4. ~Signed'
    BY <1>1, <1>2 DEF Signed
<1>5. /\ Taken = n + Len(buffered) /\ n \in Nat /\ buffered \in Seq(Octets)
      /\ \A i \in 1 .. Len(buffered) :
            sent[n + i].as = "text" /\ sent[n + i].octet = buffered[i]
    BY <1>1 DEF Right, Holding, Signed, Told, n
<1>6. Holding'
    <2>1. /\ buffered' \in Seq(Octets) /\ Len(buffered') = Len(buffered) + 1
          /\ buffered'[Len(buffered) + 1] = octet
          /\ \A i \in 1 .. Len(buffered) : buffered'[i] = buffered[i]
          /\ Len(buffered) \in Nat
        BY <1>1, <1>3, <1>5
    <2>2. Taken' = n + Len(buffered') + (IF Signed' THEN 1 ELSE 0)
        BY <1>2, <1>4, <1>5, <2>1
    <2>3. Taken' = n + (Len(buffered) + 1)
        BY <1>2, <1>5, <2>1
    <2>4. \A i \in 1 .. Len(buffered') : sent[n + i].as = "text" /\ sent[n + i].octet = buffered'[i]
        BY <1>2, <1>5, <2>1, <2>3
    <2> QED
        BY <1>1, <2>1, <2>2, <2>4 DEF Holding, n
<1>7. InPlace'
    BY <1>1, <1>2, <1>4 DEF InPlace, Starts
<1>8. pc' # "done" /\ sent \in Seq(Item) /\ Proper(sent, closed) /\ Told /\ TornInPacket'
    BY <1>1, <1>2 DEF Right, TornInPacket
<1> QED
    BY <1>1, <1>2, <1>6, <1>7, <1>8 DEF Right, Told

\* StartPacket, and SignatureAfterText, which reports the text first.
LEMMA SignatureKeepsRight ==
    ASSUME ~garbage, Consistent, Right, StartPacket \/ SignatureAfterText
    PROVE  Right'
<1>1. /\ pc \in {"top", "select"} /\ wire # <<>> /\ IsSignature(Head(wire))
      /\ wire' = Tail(wire) /\ content' = "b3" /\ UNCHANGED <<closed, garbage, sent, got>>
      /\ UNCHANGED <<codec, mid, buffered>> /\ ~mid
      /\ (pc = "top" /\ pc' = "packet") \/ (pc = "select" /\ pc' = "emit")
    BY DEF StartPacket, SignatureAfterText, Take, Arrived, setup, IsSignature
<1>2. /\ OnTheWire' /\ Taken' = Taken + 1 /\ Taken + 1 \in 1 .. Len(sent)
      /\ Starts(sent, Taken') /\ (Torn(wire') => Torn(wire))
    BY <1>1, ReadsSignature
<1>3. Signed' /\ ~Signed
    BY <1>1 DEF Signed
<1>4. codec = <<>>
    BY <1>1 DEF Consistent, InStep
<1>5. Holding /\ Taken \in Nat
    BY <1>1 DEF Right, OnTheWire
<1>6. Holding'
    <2>1. Len(got) \in Nat /\ Len(buffered) \in Nat
        BY <1>5 DEF Right, Told, Holding
    <2>2. Taken' = Len(got') + Len(buffered') + (IF Signed' THEN 1 ELSE 0)
        BY <1>1, <1>2, <1>3, <1>5, <2>1 DEF Holding
    <2> QED
        BY <1>1, <1>5, <2>2 DEF Holding
<1>7. InPlace'
    <2>1. Awaits(codec') = 0
        BY <1>1, <1>4 DEF Awaits
    <2>2. Taken' > 0
        BY <1>2, <1>5
    <2> QED
        BY <1>1, <1>2, <1>3, <2>1, <2>2 DEF InPlace, Starts
<1>8. pc' # "done" /\ sent \in Seq(Item) /\ Proper(sent, closed) /\ Told /\ TornInPacket'
    BY <1>1, <1>2, <1>3 DEF Right, TornInPacket
<1> QED
    BY <1>1, <1>2, <1>6, <1>7, <1>8 DEF Right, Told

LEMMA EmitKeepsRight ==
    ASSUME Right, Emit
    PROVE  Right'
<1> DEFINE n == Len(got)
<1>1. /\ pc = "emit" /\ got' = got \o As("text", buffered) /\ buffered' = <<>>
      /\ pc' = IF mid \/ content # "b3" THEN "top" ELSE "packet"
      /\ UNCHANGED <<wire, closed, garbage, codec, mid, content, sent>>
    BY DEF Emit, TakeNothing, setup
<1>2. /\ OnTheWire /\ Holding /\ InPlace /\ TornInPacket
      /\ sent \in Seq(Item) /\ Proper(sent, closed) /\ Told
    BY <1>1 DEF Right
<1>3. Taken' = Taken /\ OnTheWire' /\ Taken \in Nat /\ Taken <= Len(sent)
    <2>1. Len(Legible(wire)) \in Nat
        BY <1>2, LegibleIsRead DEF OnTheWire
    <2> QED
        BY <1>1, <1>2, <2>1 DEF Taken, OnTheWire
<1>4. Signed' <=> Signed
    BY <1>1 DEF Signed
<1>5. /\ Taken = n + Len(buffered) + (IF Signed THEN 1 ELSE 0) /\ buffered \in Seq(Octets)
      /\ \A i \in 1 .. Len(buffered) :
            sent[n + i].as = "text" /\ sent[n + i].octet = buffered[i]
      /\ n \in Nat /\ Len(buffered) \in Nat /\ Len(sent) \in Nat
    BY <1>2 DEF Holding, Told
<1> HIDE DEF n
<1>6. n + Len(buffered) <= Len(sent)
    BY <1>3, <1>5
<1>7. Told' /\ Len(got') = n + Len(buffered)
    BY <1>1, <1>2, <1>5, <1>6, Reports DEF Hows, n
<1>8. Holding'
    <2>1. Len(buffered') = 0 /\ buffered' \in Seq(Octets)
        BY <1>1
    <2>2. Taken' = Len(got') + Len(buffered') + (IF Signed' THEN 1 ELSE 0)
        BY <1>3, <1>4, <1>5, <1>7, <2>1
    <2> QED
        BY <1>1, <2>1, <2>2 DEF Holding
<1>9. InPlace' /\ TornInPacket'
    BY <1>1, <1>2, <1>3, <1>4 DEF InPlace, TornInPacket
<1> QED
    BY <1>1, <1>2, <1>3, <1>7, <1>8, <1>9 DEF Right

\* A packet, sound or damaged or torn off by the end of the stream, is reported
\* together with its signature.
LEMMA PacketReported ==
    ASSUME ~garbage, Consistent, Right, pc = "packet", pc' = "top",
           UNCHANGED <<closed, garbage, codec, mid, buffered, content, sent>>,
           NEW how \in Hows,
           wire' \in Seq(Octets), Torn(wire') => Torn(wire) /\ Head(wire) \notin {"b3", "part"},
           \/ /\ Legible(wire) # <<>> /\ Legible(wire') = Tail(Legible(wire))
              /\ how = How(Head(wire)) /\ got' = got \o As(how, <<"b3", Head(wire)>>)
           \/ /\ Legible(wire) = <<>> /\ wire' = <<>> /\ how = "error" /\ closed
              /\ got' = got \o As(how, <<"b3">>)
    PROVE  Right'
<1> DEFINE n == Len(got)
<1>1. OnTheWire /\ Holding /\ InPlace /\ TornInPacket /\ sent \in Seq(Item) /\ Proper(sent, closed) /\ Told
    BY DEF Right
<1>2. codec = <<>> /\ ~Signed' /\ Awaits(codec') = 0
    BY DEF Consistent, InStep, Signed, Awaits
<1>3. /\ Taken \in Nat /\ Taken = n + 1 /\ n \in Nat /\ buffered = <<>>
      /\ sent[Taken].octet = "b3" /\ sent[Taken].as # "text" /\ Taken <= Len(sent)
    BY ReadsPacket
<1>4. CASE Legible(wire) # <<>> /\ Legible(wire') = Tail(Legible(wire))
    <2> DEFINE octets == <<"b3", Head(wire)>>
    <2>1. /\ Head(wire) \in Seconds /\ Taken + 1 <= Len(sent)
          /\ sent[Taken + 1].octet = Head(wire)
          /\ sent[Taken].as = How(Head(wire)) /\ sent[Taken + 1].as = How(Head(wire))
        BY <1>4, ReadsPacket
    <2>2. how = How(Head(wire)) /\ got' = got \o As(how, octets)
        BY <1>4
    <2>3. /\ octets \in Seq(Octets) /\ Len(octets) = 2
          /\ octets[1] = "b3" /\ octets[2] = Head(wire)
        BY <2>1 DEF Seconds, Octets, PacketKinds
    <2> HIDE DEF octets, n
    <2>4. \A i \in 1 .. Len(octets) :
             sent[n + i].as = how /\ sent[n + i].octet = octets[i]
        <3>1. Taken + 1 = n + 2 /\ Taken = n + 1
            BY <1>3
        <3> QED
            BY <1>3, <2>1, <2>2, <2>3, <3>1
    <2>5. n + Len(octets) <= Len(sent)
        BY <1>1, <1>3, <2>1, <2>3
    <2>6. Told' /\ Len(got') = n + 2
        BY <1>1, <2>2, <2>3, <2>4, <2>5, Reports DEF n
    <2>7. OnTheWire' /\ Taken' = Taken + 1 /\ (Legible(wire') = <<>> => Taken + 1 = Len(sent))
        BY <1>1, <1>4, ReadsOne
    <2>8. Holding'
        BY <1>2, <1>3, <2>6, <2>7 DEF Holding
    <2>9. sent[Taken'].as # "text" /\ sent[Taken'].octet # "b3"
        BY <2>1, <2>7 DEF Seconds, How
    <2>10. InPlace'
        BY <1>2, <2>9 DEF InPlace, Starts
    <2>11. TornInPacket'
        <3>1. Torn(wire') => Legible(wire') # <<>>
            BY <1>1, <2>1, <2>7 DEF TornInPacket
        <3> QED
            BY <1>1, <3>1 DEF TornInPacket
    <2> QED
        BY <1>1, <2>6, <2>7, <2>8, <2>10, <2>11 DEF Right
<1>5. CASE Legible(wire) = <<>> /\ wire' = <<>>
    <2>1. sent[Taken].as = "error" /\ how = "error" /\ closed /\ got' = got \o As(how, <<"b3">>)
        BY <1>5, ReadsPacket
    <2>2. <<"b3">> \in Seq(Octets) /\ Len(<<"b3">>) = 1 /\ <<"b3">>[1] = "b3"
        BY DEF Octets
    <2> HIDE DEF n
    <2>3. \A i \in 1 .. 1 : sent[n + i].as = how /\ sent[n + i].octet = <<"b3">>[i]
        BY <1>3, <2>1, <2>2
    <2>4. n + Len(<<"b3">>) <= Len(sent)
        BY <1>3, <2>2
    <2>5. Told' /\ Len(got') = n + 1
        BY <1>1, <2>1, <2>2, <2>3, <2>4, Reports DEF n
    <2>6. OnTheWire' /\ Taken' = Taken /\ TornInPacket'
        <3>1. Legible(wire') = <<>> /\ ~Torn(wire')
            BY <1>5, LegibleIsRead DEF Legible, Torn
        <3> QED
            BY <1>1, <1>5, <3>1 DEF OnTheWire, Taken, TornInPacket
    <2>7. Holding'
        BY <1>2, <1>3, <2>5, <2>6 DEF Holding
    <2>8. InPlace'
        BY <1>2, <1>3, <1>5, <2>1, <2>6 DEF InPlace, Starts
    <2> QED
        BY <1>1, <2>5, <2>6, <2>7, <2>8 DEF Right
<1> QED
    BY <1>4, <1>5

LEMMA TornRest ==
    ASSUME NEW rest \in {<<>>, <<"part">>}, NEW bit \in {<<>>, <<"bit">>}
    PROVE  Legible(rest \o bit) = rest /\ (rest # <<>> => Head(rest \o bit) = "part")
<1>1. rest \in Seq(Octets) /\ bit \in Seq(Octets)
    <2>1. rest \in Seq(Octets)
        <3>1. CASE rest = <<>>
            BY <3>1
        <3>2. CASE rest = <<"part">>
            BY <3>2 DEF Octets
        <3> QED
            BY <3>1, <3>2
    <2>2. bit \in Seq(Octets)
        BY RestIsWhole
    <2> QED
        BY <2>1, <2>2
<1>2. ~Torn(rest)
    BY DEF Torn
<1>3. CASE bit = <<>>
    <2>1. rest \o bit = rest
        BY <1>1, <1>3
    <2> QED
        BY <1>2, <2>1 DEF Legible
<1>4. CASE bit = <<"bit">>
    <2>1. rest \o bit = Append(rest, "bit") /\ "bit" \in Octets
        BY <1>1, <1>4, AppendIsConcat DEF Octets
    <2>2. Legible(rest \o bit) = rest
        BY <1>1, <2>1, LastDecides
    <2>3. rest # <<>> => Head(rest \o bit) = Head(rest)
        BY <1>1, <2>1, HeadTailAppend
    <2> QED
        BY <2>2, <2>3
<1> QED
    BY <1>3, <1>4

LEMMA ReaderKeepsRight ==
    ASSUME ~garbage, Consistent, Right, Reader
    PROVE  Right'
<1>1. CASE ReturnAtEof
    <2>1. Signed' = Signed
        BY <1>1 DEF ReturnAtEof, Signed
    <2> QED
        BY <1>1, <2>1, NothingReported DEF ReturnAtEof, AtEof, TakeNothing, setup
<1>2. CASE StartPacket \/ SignatureAfterText
    BY <1>2, SignatureKeepsRight
<1>3. CASE RaiseOnText
    <2>1. pc' = "raised" /\ UNCHANGED <<closed, sent, got>>
        BY <1>3 DEF RaiseOnText, Take
    <2> QED
        BY <2>1 DEF Right, Told
<1>4. CASE StartText
    BY <1>4, StartTextKeepsRight
<1>5. CASE AggregateText
    BY <1>5, AggregateTextKeepsRight
<1>6. CASE EofAfterText
    <2>1. /\ pc = "select" /\ pc' = "emit" /\ content' = "eof"
          /\ UNCHANGED <<wire, closed, garbage, codec, mid, buffered, sent, got>>
        BY <1>6 DEF EofAfterText, TakeNothing, setup
    <2>2. Signed' = Signed
        BY <2>1 DEF Signed
    <2> QED
        BY <2>1, <2>2, NothingReported
<1>7. CASE Timeout
    <2>1. /\ pc = "select" /\ pc' = "emit" /\ content' = content
          /\ UNCHANGED <<wire, closed, garbage, codec, mid, buffered, sent, got>>
        BY <1>7 DEF Timeout, TakeNothing, setup
    <2>2. content = "b3" => mid
        BY <2>1 DEF Right, InPlace
    <2>3. Signed' = Signed
        BY <2>1, <2>2 DEF Signed
    <2> QED
        BY <2>1, <2>3, NothingReported
<1>8. CASE Emit
    BY <1>8, EmitKeepsRight
<1>9. CASE ParseEvent \/ ParseDamaged
    <2>1. pc = "packet" /\ wire # <<>> /\ Head(wire) \in {"packet", "foreign", "damaged"}
        BY <1>9 DEF ParseEvent, ParseDamaged, Arrived, Accepted
    <2>2. /\ Head(wire) \in Seconds /\ Legible(wire) # <<>> /\ wire \in Seq(Octets)
          /\ Head(wire) # "part"
        BY <2>1, ReadsPacket DEF Right, OnTheWire
    <2>3. got' = got \o As(How(Head(wire)), <<"b3", Head(wire)>>)
        BY <1>9, <2>1, <2>2 DEF ParseEvent, ParseDamaged, Accepted, Reported, How, Seconds
    <2>4. How(Head(wire)) \in Hows
        BY DEF How, Hows
    <2>5. /\ pc' = "top" /\ wire' = Tail(wire)
          /\ UNCHANGED <<closed, garbage, codec, mid, buffered, content, sent>>
        BY <1>9 DEF ParseEvent, ParseDamaged, Take, setup
    <2>6. /\ Legible(wire') = Tail(Legible(wire)) /\ wire' \in Seq(Octets)
          /\ Torn(wire') => Torn(wire) /\ Head(wire) \notin {"b3", "part"}
        BY <2>1, <2>2, <2>5, LegibleIsRead
    <2> QED
        BY <2>1, <2>2, <2>3, <2>4, <2>5, <2>6, PacketReported
<1>10. CASE ParseTorn
    <2>1. PICK rest \in {<<>>, <<"part">>}, bit \in {<<>>, <<"bit">>} :
             wire = rest \o bit /\ got' = got \o As("error", <<"b3">> \o rest)
        BY <1>10 DEF ParseTorn, Reported
    <2>2. /\ pc = "packet" /\ closed /\ pc' = "top" /\ wire' = <<>>
          /\ UNCHANGED <<closed, garbage, codec, mid, buffered, content, sent>>
        BY <1>10 DEF ParseTorn, setup
    <2>3. wire' \in Seq(Octets) /\ ~Torn(wire') /\ Legible(wire') = <<>>
        BY <2>2 DEF Legible, Torn
    <2>4. Legible(wire) = rest /\ (rest # <<>> => Head(wire) = "part")
        BY <2>1, TornRest
    <2>5. CASE rest = <<>>
        <3>1. got' = got \o As("error", <<"b3">>)
            BY <2>1, <2>5
        <3> QED
            BY <2>2, <2>3, <2>4, <2>5, <3>1, PacketReported DEF Hows
    <2>6. CASE rest = <<"part">>
        <3>1. Head(wire) = "part" /\ Legible(wire) # <<>> /\ Tail(Legible(wire)) = <<>>
            BY <2>4, <2>6
        <3>2. <<"b3">> \o rest = <<"b3", Head(wire)>>
            BY <2>6, <3>1, OctetIsAdded DEF Octets
        <3>3. How(Head(wire)) = "error"
            BY <3>1 DEF How
        <3>4. got' = got \o As("error", <<"b3", Head(wire)>>)
            BY <2>1, <3>2
        <3> QED
            BY <2>2, <2>3, <3>1, <3>3, <3>4, PacketReported DEF Hows
    <2> QED
        BY <2>5, <2>6
<1>11. CASE ParseShort
    <2>1. pc = "packet" /\ wire # <<>> /\ Head(wire) = "short"
        BY <1>11 DEF ParseShort, Arrived
    <2> QED
        BY <2>1, ReadsPacket DEF Seconds
<1>12. CASE ParseText
    <2>1. pc = "packet" /\ wire # <<>> /\ Head(wire) \notin PacketKinds \cup {"part", "bit"}
        BY <1>12 DEF ParseText, Arrived
    <2> QED
        BY <2>1, ReadsPacket DEF Seconds, PacketKinds
<1> QED
    BY <1>1, <1>2, <1>3, <1>4, <1>5, <1>6, <1>7, <1>8, <1>9, <1>10, <1>11, <1>12
    DEF Reader, _parse_packet

LEMMA InitiallyRight == Init => Right
<1> SUFFICES ASSUME Init PROVE Right
    OBVIOUS
<1>1. /\ wire = <<>> /\ closed = FALSE /\ pc = "top" /\ codec = <<>> /\ mid = FALSE
      /\ buffered = <<>> /\ content = "eof" /\ sent = <<>> /\ got = <<>>
    BY DEF Init
<1>2. sent \in Seq(Item) /\ got \in Seq(Item) /\ Len(sent) = 0 /\ Len(got) = 0
      /\ Legible(wire) = <<>> /\ ~Torn(wire)
    BY <1>1 DEF Legible, Torn
<1>3. Proper(sent, closed) /\ Told
    BY <1>2 DEF Proper, Told
<1>4. Taken = 0 /\ ~Signed /\ Awaits(codec) = 0
    BY <1>1, <1>2 DEF Taken, Signed, Awaits
<1>5. OnTheWire /\ Holding
    BY <1>1, <1>2, <1>4 DEF OnTheWire, Holding
<1>6. InPlace /\ TornInPacket
    BY <1>1, <1>2, <1>4 DEF InPlace, TornInPacket
<1> QED
    BY <1>1, <1>2, <1>3, <1>5, <1>6 DEF Right

LEMMA AlwaysRight == ASSUME Sound PROVE Spec => []RightOrGarbage
<1>1. Init => RightOrGarbage
    BY InitiallyRight DEF RightOrGarbage
<1>2. Consistent /\ RightOrGarbage /\ [Next]_vars => RightOrGarbage'
    <2> SUFFICES ASSUME Consistent, RightOrGarbage, [Next]_vars PROVE RightOrGarbage'
        OBVIOUS
    <2>1. garbage' = garbage
        BY DEF Next, Writer, Write, Exit, Reader, ReturnAtEof, StartPacket, RaiseOnText,
               StartText, AggregateText, SignatureAfterText, EofAfterText, Timeout, Emit,
               _parse_packet, ParseEvent, ParseDamaged, ParseTorn, ParseShort, ParseText,
               Take, TakeNothing, setup, vars
    <2>2. CASE UNCHANGED vars
        <3>1. /\ Taken' = Taken /\ Signed' = Signed /\ Told' = Told
              /\ UNCHANGED <<wire, closed, pc, codec, mid, buffered, content, sent, got>>
            BY <2>2 DEF vars, reader, Taken, Signed, Told
        <3> QED
            BY <2>1, <3>1 DEF RightOrGarbage, Right, OnTheWire, Holding, InPlace, TornInPacket
    <2> QED
        BY <2>1, <2>2, WriterKeepsRight, ReaderKeepsRight DEF RightOrGarbage, Next
<1> QED
    BY <1>1, <1>2, AlwaysConsistent, PTL DEF Spec

-------------------------------------------------------------------------------
(* The channel. *)

LEMMA AsTold ==
    ASSUME sent \in Seq(Item), Told
    PROVE  got = SubSeq(sent, 1, Len(got))
<1>1. SubSeq(sent, 1, Len(got)) \in Seq(Item) /\ Len(SubSeq(sent, 1, Len(got))) = Len(got)
    BY DEF Told
<1>2. \A i \in 1 .. Len(got) : SubSeq(sent, 1, Len(got))[i] = got[i]
    BY DEF Told
<1> QED
    BY <1>1, <1>2, SeqEqual DEF Told

\* run's steps are the channel's: what is written is sent, what is reported is
\* delivered, and run returns when all that was written has been.
LEMMA StepIsChannel ==
    ASSUME Sound, Consistent, RightOrGarbage, RightOrGarbage', [Next]_vars
    PROVE  [Channel!Next]_(Channel!vars)
<1>1. garbage' = garbage
    BY DEF Next, Writer, Write, Exit, Reader, ReturnAtEof, StartPacket, RaiseOnText,
           StartText, AggregateText, SignatureAfterText, EofAfterText, Timeout, Emit,
           _parse_packet, ParseEvent, ParseDamaged, ParseTorn, ParseShort, ParseText,
           Take, TakeNothing, setup, vars
<1>2. CASE garbage
    BY <1>1, <1>2 DEF Channel!vars, Careful
<1>3. CASE ~garbage
    <2>1. Right /\ Right'
        BY <1>1, <1>3 DEF RightOrGarbage
    <2>2. sent \in Seq(Item) /\ got' = SubSeq(sent', 1, Len(got')) /\ got' \in Seq(Item)
        BY <2>1, AsTold DEF Right, Told
    <2>3. Careful(sent) = sent /\ Careful(got) = got /\ Careful(sent)' = sent' /\ Careful(got)' = got'
        BY <1>1, <1>3 DEF Careful
    <2>4. CASE UNCHANGED <<sent, got>> /\ (pc' = "done" <=> pc = "done")
        BY <1>1, <2>3, <2>4 DEF Channel!vars
    <2>5. CASE Writer
        <3>1. PICK items \in Seq(Item), octets \in Seq(Octets) :
                 /\ sent' = sent \o items /\ ~closed /\ UNCHANGED <<reader, got, garbage>>
            BY <1>3, <2>5, WriterSends DEF Sends
        <3>2. pc # "done" /\ pc' # "done"
            BY <2>1, <3>1 DEF Right, reader
        <3>3. CASE items = <<>>
            <4>1. sent' = sent
                BY <2>2, <3>1, <3>3
            <4> QED
                BY <2>4, <3>1, <3>2, <4>1
        <3>4. CASE items # <<>>
            <4>1. Len(sent') > Len(sent)
                BY <2>2, <3>1, <3>4
            <4>2. SubSeq(sent', 1, Len(sent)) = sent
                <5>1. SubSeq(sent', 1, Len(sent)) \in Seq(Item)
                      /\ Len(SubSeq(sent', 1, Len(sent))) = Len(sent)
                    BY <2>2, <3>1
                <5>2. \A i \in 1 .. Len(sent) : SubSeq(sent', 1, Len(sent))[i] = sent[i]
                    BY <2>2, <3>1
                <5> QED
                    BY <2>2, <5>1, <5>2, SeqEqual
            <4>3. Channel!Send
                BY <1>1, <2>3, <3>1, <3>2, <4>1, <4>2 DEF Channel!Send
            <4> QED
                BY <4>3 DEF Channel!Next
        <3> QED
            BY <3>3, <3>4
    <2>6. CASE ReturnAtEof
        <3>1. pc = "top" /\ wire = <<>> /\ closed /\ pc' = "done" /\ UNCHANGED <<sent, got>>
            BY <2>6 DEF ReturnAtEof, AtEof, TakeNothing
        <3>2. Taken = Len(got)
            BY <2>1, <3>1 DEF Right, Holding, Signed, Told
        <3>3. Taken = Len(sent)
            BY <2>2, <3>1 DEF Taken, Legible, Torn
        <3>4. got = sent
            BY <2>2, <3>1, <3>2, <3>3
        <3>5. Channel!End
            BY <1>1, <1>3, <2>3, <3>1, <3>4 DEF Channel!End
        <3> QED
            BY <3>5 DEF Channel!Next
    <2>7. ASSUME NEW how, NEW octets, got' = got \o As(how, octets), sent' = sent,
                 pc \in {"emit", "packet"}, pc' # "done", octets \in Seq(Octets), how \in Hows
          PROVE  [Channel!Next]_(Channel!vars)
        <3>1. As(how, octets) \in Seq(Item) /\ got \in Seq(Item)
            BY <2>1, <2>7, AsType DEF Right, Told
        <3>2. CASE As(how, octets) = <<>>
            <4>1. got' = got
                BY <2>7, <3>1, <3>2
            <4> QED
                BY <2>4, <2>7, <4>1
        <3>3. CASE As(how, octets) # <<>>
            <4>1. Len(got') \in Nat /\ Len(got) \in Nat /\ Len(got') >= Len(got) + 1
                BY <2>7, <3>1, <3>3
            <4>2. Len(got') <= Len(sent) /\ Len(sent) \in Nat
                BY <2>1, <2>2, <2>7 DEF Right, Told
            <4>3. Len(got') \in Len(got) + 1 .. Len(sent) /\ got' = SubSeq(sent, 1, Len(got'))
                BY <2>2, <2>7, <4>1, <4>2
            <4>4. Channel!Deliver
                BY <1>1, <2>3, <2>7, <4>3 DEF Channel!Deliver
            <4> QED
                BY <4>4 DEF Channel!Next
        <3> QED
            BY <3>2, <3>3
    <2>8. CASE Emit
        <3>1. buffered \in Seq(Octets)
            BY DEF Consistent, Bounded
        <3> QED
            BY <2>7, <2>8, <3>1 DEF Emit, TakeNothing, Hows
    <2>9. CASE ParseEvent \/ ParseDamaged
        <3>1. <<"b3", Head(wire)>> \in Seq(Octets)
            BY <2>9 DEF ParseEvent, ParseDamaged, Accepted, Octets, PacketKinds
        <3> QED
            BY <2>7, <2>9, <3>1 DEF ParseEvent, ParseDamaged, Reported, Take, Hows
    <2>10. CASE ParseTorn
        <3>1. PICK rest \in {<<>>, <<"part">>} : got' = got \o As("error", <<"b3">> \o rest)
            BY <2>10 DEF ParseTorn, Reported
        <3>2. <<"b3">> \in Seq(Octets) /\ rest \in Seq(Octets)
            <4>1. CASE rest = <<>>
                BY <4>1 DEF Octets
            <4>2. CASE rest = <<"part">>
                BY <4>2 DEF Octets
            <4> QED
                BY <4>1, <4>2
        <3>3. <<"b3">> \o rest \in Seq(Octets)
            BY <3>2
        <3> QED
            BY <2>7, <2>10, <3>1, <3>3 DEF ParseTorn, Hows
    <2>11. CASE ParseShort
        <3>1. pc = "packet" /\ wire # <<>> /\ Head(wire) = "short"
            BY <2>11 DEF ParseShort, Arrived
        <3> QED
            BY <2>1, <3>1, ReadsPacket DEF Seconds
    <2>12. CASE StartPacket \/ RaiseOnText \/ StartText \/ AggregateText \/ SignatureAfterText
                \/ EofAfterText \/ Timeout \/ ParseText
        BY <2>4, <2>12 DEF StartPacket, RaiseOnText, StartText, AggregateText,
           SignatureAfterText, EofAfterText, Timeout, ParseText, Take, TakeNothing
    <2>13. CASE UNCHANGED vars
        BY <2>4, <2>13 DEF vars, reader
    <2> QED
        BY <2>5, <2>6, <2>8, <2>9, <2>10, <2>11, <2>12, <2>13 DEF Next, Reader, _parse_packet
<1> QED
    BY <1>2, <1>3

\* ByteStreamToStreamResult.run: whatever pieces the stream arrives in, text is
\* reported as text, packets as events and damaged or torn ones as errors, in the
\* order they were written, none lost but the octets of a read that the end of the
\* stream cuts short, and run returns only when all has been reported; for a writer
\* whose text has no character that ends in 0xB3 and whose packets are of version 2
\* and give their length.
THEOREM TextAndPacketsArrive == ASSUME Sound PROVE Spec => ImplementsChannel
<1>1. Init => Channel!Init
    BY DEF Init, Channel!Init, Careful
<1>2. Consistent /\ RightOrGarbage /\ RightOrGarbage' /\ [Next]_vars
      => [Channel!Next]_(Channel!vars)
    BY StepIsChannel
<1> QED
    BY <1>1, <1>2, AlwaysConsistent, AlwaysRight, PTL DEF Spec, ImplementsChannel, Channel!Spec
===============================================================================
