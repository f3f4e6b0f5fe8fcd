-------------------------------- MODULE V2Packet --------------------------------
(***************************************************************************)
(* The version 2 packet: how StreamResultToBytes._write_packet lays an     *)
(* event out and sizes it, and how ByteStreamToStreamResult._parse takes   *)
(* it apart again (python/subunit/v2.py).                                  *)
(*                                                                         *)
(* Octets matter where their number or their value is counted: the         *)
(* variable length numbers and the packet length.  A string is a model     *)
(* value of a known size, and the CRC of an undamaged packet matches.      *)
(***************************************************************************)
EXTENDS Integers, Sequences, FiniteSets

CONSTANTS
    None,
    Strings,       \* the strings events are made of
    Empty,         \* the empty string among them
    Nul,           \* those with an embedded NUL
    Octets,        \* how many bytes a string takes in UTF-8
    TagOctets,     \* how many bytes a set of strings takes, each with its length
    Timestamps,    \* times, as nanoseconds within a second: a datetime's microseconds
    FileSizes,     \* sizes of file contents
    Statuses       \* values of test_status, None among them

ASSUME StringsAssumption ==
    /\ None \notin Strings
    /\ Octets \in [Strings -> Nat]
    /\ TagOctets \in [SUBSET Strings -> Nat]
    /\ Empty \in Strings /\ Octets[Empty] = 0
    /\ Nul \subseteq Strings \ {Empty}
ASSUME FileSizesAssumption == FileSizes \subseteq Nat
ASSUME TimestampsAssumption == \A t \in Timestamps : t \in Nat /\ t <= 999999000 /\ t \notin Strings
-------------------------------------------------------------------------------
(* Numbers.  For a number in range the bits of the prefix are clear, so     *)
(* `value | 0x4000` adds it.                                                *)

Byte == 0 .. 255
MaxNumber == 1073741823   \* 2^30 - 1

EncodeNumberUnmasked(value) ==   \* mutant: the low bytes are not masked
    IF value < 64 THEN <<value>>
    ELSE IF value < 16384 THEN <<64 + (value \div 256), value % 256>>
    ELSE <<128 + (value \div 65536), value \div 256, value % 256>>

EncodeNumber(value) ==
    IF value < 64 THEN <<value>>
    ELSE IF value < 16384 THEN <<64 + (value \div 256), value % 256>>
    ELSE IF value < 4194304
         THEN <<128 + (value \div 65536), (value \div 256) % 256, value % 256>>
    ELSE <<192 + (value \div 16777216), (value \div 65536) % 256,
           (value \div 256) % 256, value % 256>>

\* _parse_varint, at the start of data: the value and the bytes consumed.
ParseVarint(data) ==
    LET typeenum == data[1] \div 64
        value_0  == data[1] % 64
    IN  IF typeenum = 0 THEN [value |-> value_0, consumed |-> 1]
        ELSE IF typeenum = 1 THEN [value |-> value_0 * 256 + data[2], consumed |-> 2]
        ELSE IF typeenum = 2
             THEN [value |-> value_0 * 65536 + data[2] * 256 + data[3], consumed |-> 3]
        ELSE [value |-> value_0 * 16777216 + data[2] * 65536 + data[3] * 256 + data[4],
              consumed |-> 4]

NumberSize(value) == Len(EncodeNumber(value))
-------------------------------------------------------------------------------
(* The packet length counts the bytes of its own encoding.                  *)

MaxPacket == 4194303   \* 4 MiB - 1, the policy limit

LengthLengthNaive(base_length) ==   \* mutant: the length's own bytes are not counted
    IF base_length <= 63 THEN 1 ELSE IF base_length <= 16383 THEN 2 ELSE 3
LengthLength(base_length) ==
    IF base_length <= 62 THEN 1 ELSE IF base_length <= 16381 THEN 2 ELSE 3

TooLongNaive(base_length) == base_length > 4194303   \* mutant: without the length
TooLong(base_length) == base_length > 4194300
-------------------------------------------------------------------------------
(* Writing. *)

OptionalString == Strings \cup {None}

Events ==
    [timestamp : Timestamps \cup {None}, test_id : OptionalString,
     test_tags : SUBSET Strings, mime_type : OptionalString,
     file_name : OptionalString, file_size : FileSizes, route_code : OptionalString,
     runnable : BOOLEAN, eof : BOOLEAN, test_status : Statuses]

\* The optional sections in the order they are appended to the packet.
WriteOrder == <<"timestamp", "test_id", "tags", "mime_type", "file", "route_code">>
Sections == {WriteOrder[i] : i \in 1 .. 6}

\* A section is written, and its flag set, when its argument is given: the
\* tags and the MIME type only when they are not empty.
FlagsAlways(e) ==   \* mutant: an empty MIME type is written as a section
    {s \in Sections : /\ s = "tags" => e.test_tags # {}
                      /\ s = "file" => e.file_name # None
                      /\ s \notin {"tags", "file"} => e[s] # None}
Flags(e) ==
    {s \in Sections : /\ s = "tags" => e.test_tags # {}
                      /\ s = "mime_type" => e.mime_type \notin {None, Empty}
                      /\ s = "file" => e.file_name # None
                      /\ s \notin {"tags", "mime_type", "file"} => e[s] # None}

Utf8Size(string) == NumberSize(Octets[string]) + Octets[string]
OptionalSize(string) == IF string = None THEN 0 ELSE Utf8Size(string)

TimestampSize(e) == IF e.timestamp = None THEN 0 ELSE 4 + NumberSize(e.timestamp)
TagsSize(e) ==
    IF e.test_tags = {} THEN 0
    ELSE NumberSize(Cardinality(e.test_tags)) + TagOctets[e.test_tags]
MimeSize(e) == IF e.mime_type = Empty THEN 0 ELSE OptionalSize(e.mime_type)
FileSize(e) ==
    IF e.file_name = None THEN 0
    ELSE Utf8Size(e.file_name) + NumberSize(e.file_size) + e.file_size

BodySize(e) ==
    TimestampSize(e) + OptionalSize(e.test_id) + TagsSize(e) + MimeSize(e)
    + FileSize(e) + OptionalSize(e.route_code)

SectionValue(e, s) ==
    IF s = "tags" THEN e.test_tags
    ELSE IF s = "file" THEN <<e.file_name, e.file_size>> ELSE e[s]

\* Signature, flags, sections and checksum, without the length itself.
BaseLength(e) == 1 + 2 + BodySize(e) + 4

\* One section after the other, those that are flagged.
Piece(s, flags) == IF s \in flags THEN <<s>> ELSE <<>>
Present(order, flags) ==
    Piece(order[1], flags) \o Piece(order[2], flags) \o Piece(order[3], flags)
    \o Piece(order[4], flags) \o Piece(order[5], flags) \o Piece(order[6], flags)

WritePacket(e) ==
    LET base_length == BaseLength(e)
        length_length == LengthLength(base_length)
        body == Present(WriteOrder, Flags(e))
    IN  [flags    |-> Flags(e),
         runnable |-> e.runnable, eof |-> e.eof, test_status |-> e.test_status,
         length   |-> EncodeNumber(base_length + length_length),
         body     |-> [i \in DOMAIN body |-> SectionValue(e, body[i])],
         octets   |-> 3 + NumberSize(base_length + length_length) + BodySize(e) + 4]
-------------------------------------------------------------------------------
(* Reading. *)

ReadOrder == <<"timestamp", "test_id", "tags", "mime_type", "file", "route_code">>

\* The values of the flagged sections, read one after the other.
ReadSections(p) ==
    LET order == Present(ReadOrder, p.flags)
    IN  [s \in p.flags |-> p.body[CHOOSE i \in DOMAIN order : order[i] = s]]

StringsOf(p) ==
    LET v == ReadSections(p)
    IN  {v[s] : s \in p.flags \cap {"test_id", "mime_type", "route_code"}}
        \cup (IF "tags" \in p.flags THEN v["tags"] ELSE {})
        \cup (IF "file" \in p.flags THEN {v["file"][1]} ELSE {})

\* _parse reads five bytes after the signature, takes the length from them,
\* and reads length - 6 more: what follows the length field fills the header up.
PacketLength(p) == ParseVarint(p.length \o <<0, 0>>)
ReadOctets(p) == 6 + (PacketLength(p).value - 6)

\* What _parse raises a ParseError for, in an undamaged packet.
ParseError(p) == PacketLength(p).consumed > 3 \/ StringsOf(p) \cap Nul # {}

Parse(p) == [sections |-> ReadSections(p), runnable |-> p.runnable, eof |-> p.eof,
             test_status |-> p.test_status]
-------------------------------------------------------------------------------
(* A writer and a reader that take turns. *)

VARIABLES
    event,     \* the event the writer was given last
    packet,    \* its packet on the wire, or None
    refused,   \* status raised ValueError: nothing was written
    received,  \* the event the reader emitted, or None
    rejected,  \* _parse raised a ParseError, reported as two synthetic events
    taken      \* the bytes the reader took for it

vars == <<event, packet, refused, received, rejected, taken>>

Init ==
    /\ event \in Events
    /\ packet = None /\ refused = FALSE
    /\ received = None /\ rejected = FALSE /\ taken = 0

Write ==
    /\ packet = None /\ ~refused
    /\ IF TooLong(BaseLength(event))
       THEN refused' = TRUE /\ UNCHANGED packet
       ELSE packet' = WritePacket(event) /\ UNCHANGED refused
    /\ UNCHANGED <<event, received, rejected, taken>>

Read ==
    /\ packet # None /\ taken = 0
    /\ IF ParseError(packet)
       THEN rejected' = TRUE /\ UNCHANGED received
       ELSE received' = Parse(packet) /\ UNCHANGED rejected
    /\ taken' = ReadOctets(packet)
    /\ UNCHANGED <<event, packet, refused>>

Next == Write \/ Read

Spec == Init /\ [][Next]_vars
-------------------------------------------------------------------------------
(* Properties. *)

\* The reader finds in each section the argument the writer put there, and
\* reports a section exactly when the argument was given and not empty.
RoundTrip ==
    received # None =>
        /\ received.runnable = event.runnable /\ received.eof = event.eof
        /\ received.test_status = event.test_status
        /\ DOMAIN received.sections
             = {s \in Sections : s # "file" /\ s # "tags" /\ event[s] \notin {None, Empty}}
               \cup {s \in {"test_id", "route_code"} : event[s] = Empty}
               \cup {s \in {"file"} : event.file_name # None}
               \cup {s \in {"tags"} : event.test_tags # {}}
        /\ \A s \in DOMAIN received.sections :
              received.sections[s] = SectionValue(event, s)

\* The length field, whose own size depends on its value, says how many bytes
\* the packet takes: the reader stops where the next packet starts.
ReaderInStep == taken # 0 => taken = packet.octets

\* The length is refused exactly when no packet of at most 4 MiB - 1 holds the
\* event, and a packet that is written has a length the reader decodes from
\* the five bytes of its header.
LengthWithinPolicy ==
    /\ packet # None => packet.octets <= MaxPacket /\ Len(packet.length) <= 3
    /\ refused => BaseLength(event) + 3 > MaxPacket
===============================================================================
