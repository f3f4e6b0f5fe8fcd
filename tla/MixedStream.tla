------------------------------- MODULE MixedStream -------------------------------
(***************************************************************************)
(* The loop of ByteStreamToStreamResult (python/subunit/v2.py), which tells*)
(* version 2 packets from the text they are embedded in, together with the *)
(* process that writes the stream.                                         *)
(*                                                                         *)
(* Text is made of classes of octets: "ascii", the first octets "lead2"    *)
(* and "lead3" of longer characters, "cont" for a continuation, "b3" for   *)
(* the continuation 0xB3 that is also the signature of a packet, and       *)
(* "invalid" for one UTF-8 never uses.  What follows the signature of a    *)
(* packet is one element of the stream:                                    *)
(*   "packet"   a version 2 packet,                                        *)
(*   "damaged"  one whose checksum does not match,                         *)
(*   "foreign"  one of another version, otherwise sound,                   *)
(*   "short"    one that gives a length of 5,                              *)
(*   "part"     the flags and the length of one, and no more that counts,  *)
(*   "bit"      some of what a read waits for, before the stream ends.     *)
(***************************************************************************)
EXTENDS Naturals, Sequences

CONSTANTS Units,         \* what a writer writes: names of units
          Garbage,       \* what one without care writes too
          MaxSent,       \* bound: octets and packet parts written
          MaxBuffered    \* the number of octets aggregated: 1048576

ASSUME MaxAssumption == MaxSent \in Nat /\ MaxBuffered \in Nat /\ MaxBuffered >= 2

PacketKinds == {"packet", "damaged", "foreign", "short"}

\* The octets of a unit.  "o_acute" and "uhorn" stand for the characters
\* whose last and whose middle octet is 0xB3; "cut" ends inside a character.
Characters ==
    [ascii   |-> <<"ascii">>,
     e_acute |-> <<"lead2", "cont">>,
     o_acute |-> <<"lead2", "b3">>,
     uhorn   |-> <<"lead3", "b3", "cont">>,
     invalid |-> <<"invalid">>,
     cut     |-> <<"lead3">>]
UnitOctets(u) == IF u \in PacketKinds THEN <<"b3", u>> ELSE Characters[u]

ASSUME UnitsAssumption ==
    /\ Units \cup Garbage \subseteq PacketKinds \cup DOMAIN Characters
    /\ "cut" \notin Units

As(how, octets) == [i \in DOMAIN octets |-> [as |-> how, octet |-> octets[i]]]

\* What a unit is to be reported as.
Meaning(u) ==
    As(IF u = "packet" THEN "event" ELSE IF u \in PacketKinds THEN "error" ELSE "text",
       UnitOctets(u))

VARIABLES
    wire,       \* octets written and not yet read
    closed,     \* the writer has exited
    garbage,    \* the writer writes garbage too
    mode,       \* "select", "bytewise": source has no fileno; "strict": no non_subunit_name
    pc,         \* where run is
    codec,      \* what the incremental UTF-8 decoder holds
    mid,        \* mid_character
    buffered,   \* text read and not yet reported
    content,    \* the octet read last, "eof" at the end
    sent,       \* what has been written, each octet as it is to be reported
    got         \* what has been reported, each octet as it was

setup == <<mode, garbage>>
reader == <<pc, codec, mid, buffered, content>>
vars == <<wire, closed, setup, reader, sent, got>>

Init ==
    /\ wire = <<>> /\ closed = FALSE
    /\ mode \in {"select", "bytewise", "strict"} /\ garbage \in BOOLEAN
    /\ pc = "top" /\ codec = <<>> /\ mid = FALSE
    /\ buffered = <<>> /\ content = "eof"
    /\ sent = <<>> /\ got = <<>>
-------------------------------------------------------------------------------
(* The writer. *)

Write(u) ==
    /\ ~closed /\ Len(sent) + Len(UnitOctets(u)) <= MaxSent
    /\ wire' = wire \o UnitOctets(u)
    /\ sent' = sent \o Meaning(u)
    /\ UNCHANGED <<closed, setup, reader, got>>

\* The writer exits, possibly in the middle of a packet.  Of a torn packet only
\* what read_exactly has got whole is reported.
Exit ==
    /\ ~closed /\ closed' = TRUE
    /\ \E rest \in {<<>>, <<"b3">>, <<"b3", "part">>}, bit \in {<<>>, <<"bit">>} :
          /\ rest = <<>> => bit = <<>>
          /\ wire' = wire \o rest \o bit
          /\ sent' = sent \o As("error", rest)
    /\ UNCHANGED <<setup, reader, got>>

Writer == (\E u \in Units \cup (IF garbage THEN Garbage ELSE {}) : Write(u)) \/ Exit
-------------------------------------------------------------------------------
(* The decoder: UTF-8's incremental decoder of the Python library. *)

IsContinuation(octet) == octet \in {"cont", "b3"}

Decoded(data) ==
    IF data = <<"ascii">> THEN "character"
    ELSE IF data \in {<<"lead2">>, <<"lead3">>} THEN "partial"
    ELSE IF Len(data) = 2 /\ data[1] = "lead2" /\ IsContinuation(data[2]) THEN "character"
    ELSE IF Len(data) = 2 /\ data[1] = "lead3" /\ IsContinuation(data[2]) THEN "partial"
    ELSE IF Len(data) = 3 /\ IsContinuation(data[3]) THEN "character"
    ELSE "error"

\* A character completes and empties the decoder; an error leaves in it what
\* it held before.
MidOnError(decoded) == decoded # "character"   \* mutant: an error leaves mid_character set
IsMid(decoded) == decoded = "partial"

Feed(octet) ==
    LET data == codec \o <<octet>>
        decoded == Decoded(data)
    IN  /\ mid' = IsMid(decoded)
        /\ codec' = IF decoded = "character" THEN <<>>
                    ELSE IF decoded = "partial" THEN data ELSE codec
-------------------------------------------------------------------------------
(* The reader. *)

Arrived == wire # <<>>
AtEofNever == FALSE   \* mutant: the end of the stream is not noticed
AtEof == wire = <<>> /\ closed

SignatureAnywhere(octet) == octet = "b3"   \* mutant: also inside a character
IsSignature(octet) == octet = "b3" /\ ~mid

Take == wire' = Tail(wire) /\ UNCHANGED <<closed, setup, sent>>
TakeNothing == UNCHANGED <<wire, closed, setup, sent>>

ReturnAtEof ==
    /\ pc = "top" /\ AtEof
    /\ pc' = "done"
    /\ TakeNothing /\ UNCHANGED <<codec, mid, buffered, content, got>>

StartPacket ==
    /\ pc = "top" /\ Arrived /\ IsSignature(Head(wire))
    /\ pc' = "packet" /\ content' = Head(wire)
    /\ Take /\ UNCHANGED <<codec, mid, buffered, got>>

RaiseOnText ==
    /\ pc = "top" /\ Arrived /\ ~IsSignature(Head(wire)) /\ mode = "strict"
    /\ pc' = "raised"
    /\ Take /\ UNCHANGED <<codec, mid, buffered, content, got>>

\* Without a fileno to select on, one octet is reported at a time.
StartText ==
    /\ pc = "top" /\ Arrived /\ ~IsSignature(Head(wire)) /\ mode # "strict"
    /\ Feed(Head(wire))
    /\ buffered' = <<Head(wire)>> /\ content' = Head(wire)
    /\ pc' = IF mode = "bytewise" THEN "emit" ELSE "select"
    /\ Take /\ UNCHANGED got

FullLate(octets) == Len(octets) > MaxBuffered   \* mutant
Full(octets) == Len(octets) >= MaxBuffered

AggregateText ==
    /\ pc = "select" /\ Arrived /\ ~IsSignature(Head(wire))
    /\ Feed(Head(wire))
    /\ buffered' = Append(buffered, Head(wire)) /\ content' = Head(wire)
    /\ pc' = IF Full(buffered') THEN "emit" ELSE "select"
    /\ Take /\ UNCHANGED got

SignatureAfterText ==
    /\ pc = "select" /\ Arrived /\ IsSignature(Head(wire))
    /\ content' = Head(wire)
    /\ pc' = "emit"
    /\ Take /\ UNCHANGED <<codec, mid, buffered, got>>

EofAfterText ==
    /\ pc = "select" /\ AtEof
    /\ content' = "eof"
    /\ pc' = "emit"
    /\ TakeNothing /\ UNCHANGED <<codec, mid, buffered, got>>

\* select times out when nothing has arrived, and also when everything that
\* has is held by the source's own buffer.
Waits == FALSE   \* mutant: no timeout
TimesOut == TRUE

Timeout ==
    /\ pc = "select" /\ TimesOut
    /\ pc' = "emit"
    /\ TakeNothing /\ UNCHANGED <<codec, mid, buffered, content, got>>

\* The text is reported; then the octet read last decides: it may be a
\* signature that ended the text.
Emit ==
    /\ pc = "emit"
    /\ got' = got \o As("text", buffered)
    /\ buffered' = <<>>
    /\ pc' = IF mid \/ content # "b3" THEN "top" ELSE "packet"
    /\ TakeNothing /\ UNCHANGED <<codec, mid, content>>

Reported(how, octets) == got' = got \o As(how, octets)

\* _parse does not look at the version.
Accepted == {"packet", "foreign"}

ParseEvent ==
    /\ pc = "packet" /\ Arrived /\ Head(wire) \in Accepted
    /\ Reported("event", <<"b3", Head(wire)>>)
    /\ pc' = "top"
    /\ Take /\ UNCHANGED <<codec, mid, buffered, content>>

\* A ParseError: the octets of the packet are reported and the loop goes on.
ParseDamaged ==
    /\ pc = "packet" /\ Arrived /\ Head(wire) = "damaged"
    /\ Reported("error", <<"b3", Head(wire)>>)
    /\ pc' = "top"
    /\ Take /\ UNCHANGED <<codec, mid, buffered, content>>

\* read_exactly meets the end of the stream and drops what it has got so far.
ParseTorn ==
    /\ pc = "packet" /\ closed
    /\ \E rest \in {<<>>, <<"part">>}, bit \in {<<>>, <<"bit">>} :
          wire = rest \o bit /\ Reported("error", <<"b3">> \o rest)
    /\ pc' = "top" /\ wire' = <<>>
    /\ UNCHANGED <<closed, setup, codec, mid, buffered, content, sent>>

\* The remainder is length - 6 octets: read(-1) takes all there is until the
\* end of the stream, and the read after it finds none, which is a ParseError,
\* or is refused for its negative size: which kind of source it is decides.
\* What was swallowed is in no report.
ParseShort ==
    /\ pc = "packet" /\ Arrived /\ Head(wire) = "short" /\ closed
    /\ \/ Reported("error", <<"b3", "short">>) /\ pc' = "top"
       \/ UNCHANGED got /\ pc' = "raised"
    /\ wire' = <<>>
    /\ UNCHANGED <<closed, setup, codec, mid, buffered, content, sent>>

\* Text is read as a packet header: the length found in it is arbitrary, and
\* the model does not follow the reader any further.
ParseText ==
    /\ pc = "packet"
    /\ Arrived /\ Head(wire) \notin PacketKinds \cup {"part", "bit"}
    /\ pc' = "lost"
    /\ TakeNothing /\ UNCHANGED <<codec, mid, buffered, content, got>>

_parse_packet == ParseEvent \/ ParseDamaged \/ ParseTorn \/ ParseShort \/ ParseText

Reader ==
    \/ ReturnAtEof \/ StartPacket \/ RaiseOnText \/ StartText
    \/ AggregateText \/ SignatureAfterText \/ EofAfterText \/ Timeout \/ Emit
    \/ _parse_packet

Next == Writer \/ Reader

\* The reader is a process of its own and select has a timeout, so it takes its
\* next step whenever it is not waiting for input.  The writer may stall.
Spec == Init /\ [][Next]_vars /\ WF_vars(Reader)
-------------------------------------------------------------------------------
(* Properties. *)

\* Text is reported as text, packets as events and damaged packets as errors,
\* in the order they were written, none lost (but what a read has got when the
\* stream ends), and run returns only when all that was written has been
\* reported: whatever pieces the input arrives in.
\* Of a writer of garbage nothing is promised.
Careful(reports) == IF garbage THEN <<>> ELSE reports
Channel == INSTANCE ItemChannel WITH
    sent <- Careful(sent), got <- Careful(got), over <- (pc = "done" /\ ~garbage)
ImplementsChannel == Channel!Spec

\* mid_character, by which run decides whether 0xB3 is a signature, says what
\* the decoder knows, and at a signature the decoder is between characters,
\* unless a character was cut: the decoder then holds its beginning for good.
MidAgrees == ~garbage =>
    /\ mid <=> codec # <<>>
    /\ pc = "packet" => codec = <<>>

\* However much text arrives without a pause, no more than MaxBuffered octets
\* are held back.
BufferIsBounded == Len(buffered) <= MaxBuffered

\* Interactivity: text and packets that have been written are reported even if
\* the writer then waits forever, as a debugger's prompt does.
NothingIsHeldBack ==
    \A n \in 1 .. MaxSent :
        (Len(sent) >= n /\ ~closed /\ ~garbage) ~> (Len(got) >= n \/ closed \/ pc = "raised")

\* Whatever is written, garbage included, run ends when the stream does.
ReaderEnds == closed ~> pc \in {"done", "raised", "lost"}
-------------------------------------------------------------------------------
(* What the documentation says and the code does not do. *)

\* "Mixed streams that contain non-subunit content is supported when a
\* non_subunit_name is passed" (ByteStreamToStreamResult): UTF-8 text is never
\* parsed as a packet.
TextIsNeverAPacket == pc # "lost"
===============================================================================
