----------------------------- MODULE V2PacketProofs -----------------------------
(***************************************************************************)
(* Proofs about version 2 numbers and packet lengths, for every number up  *)
(* to 2^30 - 1 and every event.                                            *)
(***************************************************************************)
EXTENDS V2Packet, TLAPS

\* An encoded number is one to four bytes, each within its eight bits, and as
\* many as the thresholds say.
LEMMA EncodedBytes ==
    ASSUME NEW value \in Nat, value <= MaxNumber
    PROVE  /\ EncodeNumber(value) \in Seq(Byte)
           /\ Len(EncodeNumber(value)) = NumberSize(value)
           /\ NumberSize(value) = IF value < 64 THEN 1 ELSE IF value < 16384 THEN 2
                                  ELSE IF value < 4194304 THEN 3 ELSE 4
<1> value <= 1073741823
  BY SMT DEF MaxNumber
<1>1. CASE value < 64
  BY SMT, <1>1 DEF EncodeNumber, NumberSize, Byte
<1>2. CASE value >= 64 /\ value < 16384
  <2>1. 64 + (value \div 256) \in Byte /\ value % 256 \in Byte
    BY SMT, <1>2 DEF Byte
  <2>2. EncodeNumber(value) = <<64 + (value \div 256), value % 256>>
    BY SMT, <1>2 DEF EncodeNumber
  <2>3. QED
    BY SMT, <1>2, <2>1, <2>2 DEF NumberSize
<1>3. CASE value >= 16384 /\ value < 4194304
  <2>1. /\ 128 + (value \div 65536) \in Byte
        /\ (value \div 256) % 256 \in Byte /\ value % 256 \in Byte
    BY SMT, <1>3 DEF Byte
  <2>2. EncodeNumber(value) = <<128 + (value \div 65536), (value \div 256) % 256, value % 256>>
    BY SMT, <1>3 DEF EncodeNumber
  <2>3. QED
    BY SMT, <1>3, <2>1, <2>2 DEF NumberSize
<1>4. CASE value >= 4194304
  <2>1. /\ 192 + (value \div 16777216) \in Byte /\ (value \div 65536) % 256 \in Byte
        /\ (value \div 256) % 256 \in Byte /\ value % 256 \in Byte
    BY SMT, <1>4 DEF Byte, MaxNumber
  <2>2. EncodeNumber(value) = <<192 + (value \div 16777216), (value \div 65536) % 256,
                               (value \div 256) % 256, value % 256>>
    BY SMT, <1>4 DEF EncodeNumber
  <2>3. QED
    BY SMT, <1>4, <2>1, <2>2 DEF NumberSize
<1>5. QED
  BY SMT, <1>1, <1>2, <1>3, <1>4 DEF MaxNumber

\* Whatever follows it on the wire, an encoded number is read back as itself,
\* and exactly its own bytes are consumed.
THEOREM NumberRoundTrip ==
    ASSUME NEW value \in Nat, value <= MaxNumber, NEW rest \in Seq(Byte)
    PROVE  ParseVarint(EncodeNumber(value) \o rest)
             = [value |-> value, consumed |-> NumberSize(value)]
<1> DEFINE data == EncodeNumber(value) \o rest
<1> value <= 1073741823
  BY SMT DEF MaxNumber
<1>1. \A i \in 1 .. NumberSize(value) : data[i] = EncodeNumber(value)[i]
  BY SMT, EncodedBytes
<1>2. CASE value < 64
  <2>1. data[1] = value /\ NumberSize(value) = 1
    BY SMT, <1>1, <1>2, EncodedBytes DEF EncodeNumber
  <2>2. value \div 64 = 0 /\ value % 64 = value
    BY SMT, <1>2
  <2>3. QED
    BY SMT, <2>1, <2>2 DEF ParseVarint
<1>3. CASE value >= 64 /\ value < 16384
  <2>1. /\ data[1] = 64 + (value \div 256) /\ data[2] = value % 256
        /\ NumberSize(value) = 2
    BY SMT, <1>1, <1>3, EncodedBytes DEF EncodeNumber
  <2>2. /\ (64 + (value \div 256)) \div 64 = 1
        /\ (64 + (value \div 256)) % 64 = value \div 256
        /\ (value \div 256) * 256 + (value % 256) = value
    BY SMT, <1>3
  <2>3. QED
    BY SMT, <2>1, <2>2 DEF ParseVarint
<1>4. CASE value >= 16384 /\ value < 4194304
  <2>1. /\ data[1] = 128 + (value \div 65536)
        /\ data[2] = (value \div 256) % 256 /\ data[3] = value % 256
        /\ NumberSize(value) = 3
    BY SMT, <1>1, <1>4, EncodedBytes DEF EncodeNumber
  <2>2. /\ (128 + (value \div 65536)) \div 64 = 2
        /\ (128 + (value \div 65536)) % 64 = value \div 65536
        /\ (value \div 65536) * 65536 + ((value \div 256) % 256) * 256 + (value % 256) = value
    BY SMT, <1>4
  <2>3. QED
    BY SMT, <2>1, <2>2 DEF ParseVarint
<1>5. CASE value >= 4194304
  <2>1. /\ data[1] = 192 + (value \div 16777216)
        /\ data[2] = (value \div 65536) % 256
        /\ data[3] = (value \div 256) % 256 /\ data[4] = value % 256
        /\ NumberSize(value) = 4
    BY SMT, <1>1, <1>5, EncodedBytes DEF EncodeNumber
  <2>2. /\ (192 + (value \div 16777216)) \div 64 = 3
        /\ (192 + (value \div 16777216)) % 64 = value \div 16777216
        /\ (value \div 16777216) * 16777216 + ((value \div 65536) % 256) * 65536
             + ((value \div 256) % 256) * 256 + (value % 256) = value
    BY SMT, <1>5 DEF MaxNumber
  <2>3. QED
    BY SMT, <2>1, <2>2 DEF ParseVarint
<1>6. QED
  BY SMT, <1>2, <1>3, <1>4, <1>5 DEF MaxNumber

\* The length field of a packet has the size that was reserved for it, so the
\* length it records is the number of bytes on the wire, and stays within the
\* policy limit.
THEOREM LengthCountsItself ==
    ASSUME NEW base_length \in Nat, ~TooLong(base_length)
    PROVE  /\ NumberSize(base_length + LengthLength(base_length)) = LengthLength(base_length)
           /\ base_length + LengthLength(base_length) <= MaxPacket
<1> DEFINE length == base_length + LengthLength(base_length)
<1>1. base_length <= 4194300 /\ LengthLength(base_length) \in 1 .. 3
  BY SMT DEF TooLong, LengthLength
<1>2. length \in Nat /\ length <= 4194303
  BY SMT, <1>1
<1>3. NumberSize(length) = IF length < 64 THEN 1 ELSE IF length < 16384 THEN 2 ELSE 3
  BY SMT, <1>2, EncodedBytes DEF MaxNumber
<1>4. QED
  BY SMT, <1>1, <1>2, <1>3 DEF LengthLength, MaxPacket
-------------------------------------------------------------------------------
(* Every event. *)

\* A number takes one to four bytes.
LEMMA NumberSizeIsNat == \A value : NumberSize(value) \in 1 .. 4
  BY SMT DEF NumberSize, EncodeNumber

\* The sections of an event take a number of bytes.
LEMMA BodySizeIsNat ==
    ASSUME NEW e \in Events
    PROVE  BodySize(e) \in Nat /\ BaseLength(e) = BodySize(e) + 7
<1>1. \A s \in OptionalString : OptionalSize(s) \in Nat
  BY SMT, NumberSizeIsNat, StringsAssumption DEF OptionalSize, Utf8Size, OptionalString
<1>2. /\ OptionalSize(e.test_id) \in Nat /\ MimeSize(e) \in Nat
      /\ OptionalSize(e.route_code) \in Nat
  BY SMT, <1>1 DEF Events, MimeSize
<1>3. TimestampSize(e) \in Nat
  BY SMT, NumberSizeIsNat DEF TimestampSize
<1>4. TagsSize(e) \in Nat
  <2>1. e.test_tags \in SUBSET Strings
    BY SMT DEF Events
  <2>2. TagOctets[e.test_tags] \in Nat
    BY SMT, <2>1, StringsAssumption
  <2>3. QED
    BY SMT, <2>2, NumberSizeIsNat DEF TagsSize
<1>5. FileSize(e) \in Nat
  <2>1. e.file_name \in OptionalString /\ e.file_size \in FileSizes
    BY DEF Events
  <2>2. e.file_size \in Nat
    BY <2>1, FileSizesAssumption
  <2>3. QED
    BY SMT, <2>1, <2>2, <1>1, NumberSizeIsNat DEF FileSize, OptionalSize
<1>6. QED
  BY SMT, <1>2, <1>3, <1>4, <1>5 DEF BodySize, BaseLength

\* What a written packet says of its own length.
LEMMA PacketSize ==
    ASSUME NEW e \in Events, ~TooLong(BaseLength(e))
    PROVE  /\ WritePacket(e).octets \in Nat /\ WritePacket(e).octets <= MaxPacket
           /\ Len(WritePacket(e).length) <= 3
           /\ PacketLength(WritePacket(e)).value = WritePacket(e).octets
<1> DEFINE base == BaseLength(e)
           length == base + LengthLength(base)
<1>1. base \in Nat /\ BodySize(e) \in Nat /\ base = BodySize(e) + 7
  BY SMT, BodySizeIsNat
<1>2. /\ WritePacket(e).octets = 3 + NumberSize(length) + BodySize(e) + 4
      /\ WritePacket(e).length = EncodeNumber(length)
  BY DEF WritePacket
<1>3. LengthLength(base) \in 1 .. 3
  BY SMT DEF LengthLength
<1>4. NumberSize(length) = LengthLength(base) /\ length <= MaxPacket
  BY <1>1, LengthCountsItself
<1>5. length \in Nat /\ length <= MaxNumber
  BY SMT, <1>1, <1>3, <1>4 DEF MaxPacket, MaxNumber
<1>6. ParseVarint(EncodeNumber(length) \o <<0, 0>>)
        = [value |-> length, consumed |-> NumberSize(length)]
  <2>1. <<0, 0>> \in Seq(Byte)
    BY SMT DEF Byte
  <2>2. QED
    BY <2>1, <1>5, NumberRoundTrip
<1>7. WritePacket(e).octets = length
  BY SMT, <1>1, <1>2, <1>3, <1>4
<1>8. QED
  BY SMT, <1>2, <1>3, <1>4, <1>5, <1>6, <1>7, EncodedBytes DEF PacketLength

\* The event is kept while its packet is on the wire and the packet is its own;
\* only an event that is too long is refused.
Settled ==
    /\ event \in Events
    /\ packet # None => packet = WritePacket(event) /\ ~TooLong(BaseLength(event))
    /\ refused => TooLong(BaseLength(event))
    /\ taken # 0 => packet # None /\ taken = ReadOctets(packet)
    /\ received # None => packet # None /\ received = Parse(packet)

LEMMA AlwaysSettled == Spec => []Settled
<1>1. Init => Settled
  BY DEF Init, Settled
<1>2. Settled /\ [Next]_vars => Settled'
  <2> SUFFICES ASSUME Settled, [Next]_vars PROVE Settled'
    OBVIOUS
  <2>1. CASE Write
    BY <2>1 DEF Settled, Write
  <2>2. CASE Read
    BY <2>2 DEF Settled, Read
  <2>3. CASE UNCHANGED vars
    BY <2>3 DEF Settled, vars
  <2>4. QED
    BY <2>1, <2>2, <2>3 DEF Next
<1>3. QED
  BY <1>1, <1>2, PTL DEF Spec

\* The reader of a packet takes exactly the bytes the writer wrote for it.
THEOREM StaysInStep == Spec => []ReaderInStep
<1>1. Settled => ReaderInStep
  <2> SUFFICES ASSUME Settled, taken # 0 PROVE taken = packet.octets
    BY DEF ReaderInStep
  <2>1. packet = WritePacket(event) /\ ~TooLong(BaseLength(event)) /\ event \in Events
    BY DEF Settled
  <2>2. PacketLength(packet).value = packet.octets /\ packet.octets \in Nat
    BY <2>1, PacketSize
  <2>3. taken = 6 + (PacketLength(packet).value - 6)
    BY DEF Settled, ReadOctets
  <2>4. QED
    BY SMT, <2>2, <2>3
<1>2. QED
  BY <1>1, AlwaysSettled, PTL

\* No packet exceeds the policy limit or needs a length of four bytes, and no
\* event is refused that could have been sent.
THEOREM PolicyHolds == Spec => []LengthWithinPolicy
<1>1. Settled => LengthWithinPolicy
  <2> SUFFICES ASSUME Settled PROVE LengthWithinPolicy
    OBVIOUS
  <2>1. ASSUME packet # None
        PROVE packet.octets <= MaxPacket /\ Len(packet.length) <= 3
    BY <2>1, PacketSize DEF Settled
  <2>2. ASSUME refused PROVE BaseLength(event) + 3 > MaxPacket
    <3>1. BaseLength(event) \in Nat /\ BaseLength(event) > 4194300
      BY SMT, <2>2, BodySizeIsNat DEF Settled, TooLong
    <3>2. QED
      BY SMT, <3>1 DEF MaxPacket
  <2>3. QED
    BY <2>1, <2>2 DEF LengthWithinPolicy
<1>2. QED
  BY <1>1, AlwaysSettled, PTL
-------------------------------------------------------------------------------
(* The sections. *)

Holds(sections, s) == \E i \in DOMAIN sections : sections[i] = s

\* Appending keeps what there is and adds what is new.
LEMMA ConcatHolds ==
    ASSUME NEW left \in Seq(Sections), NEW right \in Seq(Sections), NEW s,
           Holds(left, s) \/ Holds(right, s)
    PROVE  Holds(left \o right, s)
<1>1. CASE Holds(left, s)
  <2>1. PICK i \in DOMAIN left : left[i] = s
    BY <1>1 DEF Holds
  <2>2. i \in DOMAIN (left \o right) /\ (left \o right)[i] = s
    BY SMT, <2>1
  <2>3. QED
    BY <2>2 DEF Holds
<1>2. CASE Holds(right, s)
  <2>1. PICK i \in DOMAIN right : right[i] = s
    BY <1>2 DEF Holds
  <2>2. /\ Len(left) + i \in DOMAIN (left \o right)
        /\ (left \o right)[Len(left) + i] = s
    BY SMT, <2>1
  <2>3. QED
    BY <2>2 DEF Holds
<1>3. QED
  BY <1>1, <1>2

\* A section that is flagged is among those that are written, and read.
LEMMA FlaggedIsPresent ==
    ASSUME NEW flags, NEW s \in Sections, s \in flags
    PROVE  Holds(Present(WriteOrder, flags), s)
<1> DEFINE piece(i) == Piece(WriteOrder[i], flags)
           two == piece(1) \o piece(2)
           three == two \o piece(3)
           four == three \o piece(4)
           five == four \o piece(5)
<1>1. PICK k \in 1 .. 6 : s = WriteOrder[k]
  BY DEF Sections
<1>2. \A i \in 1 .. 6 : piece(i) \in Seq(Sections)
  <2>1. \A t \in Sections : <<t>> \in Seq(Sections)
    BY SMT
  <2>2. \A i \in 1 .. 6 : WriteOrder[i] \in Sections
    BY DEF Sections
  <2>3. QED
    BY <2>1, <2>2 DEF Piece
<1>3. Holds(piece(k), s)
  <2>1. piece(k) = <<s>>
    BY <1>1 DEF Piece
  <2>2. 1 \in DOMAIN <<s>> /\ <<s>>[1] = s
    BY SMT
  <2>3. QED
    BY <2>1, <2>2 DEF Holds
<1>4. Present(WriteOrder, flags) = five \o piece(6)
  BY DEF Present
<1> HIDE DEF piece
<1>5. two \in Seq(Sections) /\ (k \in 1 .. 2 => Holds(two, s))
  BY SMT, <1>2, <1>3, ConcatHolds
<1> HIDE DEF two
<1>6. three \in Seq(Sections) /\ (k \in 1 .. 3 => Holds(three, s))
  BY SMT, <1>2, <1>3, <1>5, ConcatHolds
<1> HIDE DEF three
<1>7. four \in Seq(Sections) /\ (k \in 1 .. 4 => Holds(four, s))
  BY SMT, <1>2, <1>3, <1>6, ConcatHolds
<1> HIDE DEF four
<1>8. five \in Seq(Sections) /\ (k \in 1 .. 5 => Holds(five, s))
  BY SMT, <1>2, <1>3, <1>7, ConcatHolds
<1> HIDE DEF five
<1>9. Holds(five \o piece(6), s)
  BY SMT, <1>2, <1>3, <1>8, ConcatHolds
<1>10. QED
  BY <1>4, <1>9

\* Writer and reader go through the sections in the same order, so each value is
\* read where it was written.
LEMMA SectionsRoundTrip ==
    ASSUME NEW e \in Events
    PROVE  Parse(WritePacket(e)).sections = [s \in Flags(e) |-> SectionValue(e, s)]
<1> DEFINE order == Present(WriteOrder, Flags(e))
           values == [i \in DOMAIN order |-> SectionValue(e, order[i])]
<1>1. ReadOrder = WriteOrder
  BY DEF ReadOrder, WriteOrder
<1>2. WritePacket(e).flags = Flags(e) /\ WritePacket(e).body = values
  BY DEF WritePacket
<1>3. Parse(WritePacket(e)).sections
        = [s \in Flags(e) |-> values[CHOOSE i \in DOMAIN order : order[i] = s]]
  BY <1>1, <1>2 DEF Parse, ReadSections
<1>4. ASSUME NEW s \in Flags(e)
      PROVE  values[CHOOSE i \in DOMAIN order : order[i] = s] = SectionValue(e, s)
  <2>1. s \in Sections
    BY DEF Flags
  <2>2. \E i \in DOMAIN order : order[i] = s
    BY <2>1, FlaggedIsPresent DEF Holds
  <2> DEFINE at == CHOOSE i \in DOMAIN order : order[i] = s
  <2>3. at \in DOMAIN order /\ order[at] = s
    BY <2>2
  <2> HIDE DEF at, order
  <2>4. values[at] = SectionValue(e, order[at])
    BY <2>3
  <2>5. QED
    BY <2>3, <2>4 DEF at
<1> HIDE DEF order, values
<1>5. QED
  BY <1>3, <1>4

\* The reader finds in each section the argument the writer put there, and reports
\* a section exactly when the argument was given and not empty.
THEOREM EventsRoundTrip == Spec => []RoundTrip
<1>1. ASSUME Settled, received # None
      PROVE  /\ received.runnable = event.runnable /\ received.eof = event.eof
             /\ received.test_status = event.test_status
             /\ received.sections = [s \in Flags(event) |-> SectionValue(event, s)]
  <2>1. event \in Events /\ received = Parse(WritePacket(event))
    BY <1>1 DEF Settled
  <2>2. /\ received.runnable = event.runnable /\ received.eof = event.eof
        /\ received.test_status = event.test_status
    BY <2>1 DEF Parse, WritePacket
  <2>3. QED
    BY <2>1, <2>2, SectionsRoundTrip
<1>2. ASSUME Settled
      PROVE  Flags(event) =
               {s \in Sections : s # "file" /\ s # "tags" /\ event[s] \notin {None, Empty}}
               \cup {s \in {"test_id", "route_code"} : event[s] = Empty}
               \cup {s \in {"file"} : event.file_name # None}
               \cup {s \in {"tags"} : event.test_tags # {}}
  <2>1. Sections = {"timestamp", "test_id", "tags", "mime_type", "file", "route_code"}
    BY DEF Sections, WriteOrder
  <2>2. Empty # None
    BY StringsAssumption
  <2>3. event.timestamp # Empty
    <3>1. event.timestamp \in Timestamps \cup {None}
      BY <1>2 DEF Settled, Events
    <3>2. QED
      BY <3>1, <2>2, StringsAssumption, TimestampsAssumption
  <2> DEFINE reported ==
        {s \in Sections : s # "file" /\ s # "tags" /\ event[s] \notin {None, Empty}}
        \cup {s \in {"test_id", "route_code"} : event[s] = Empty}
        \cup {s \in {"file"} : event.file_name # None}
        \cup {s \in {"tags"} : event.test_tags # {}}
  <2>4. ASSUME NEW s \in Sections
        PROVE  s \in Flags(event) <=> s \in reported
    <3>1. CASE s = "timestamp"
      BY <3>1, <2>3 DEF Flags
    <3>2. CASE s \in {"test_id", "route_code"}
      BY <3>2, <2>2 DEF Flags
    <3>3. CASE s = "tags"
      BY <3>3 DEF Flags
    <3>4. CASE s = "mime_type"
      BY <3>4 DEF Flags
    <3>5. CASE s = "file"
      BY <3>5 DEF Flags
    <3>6. QED
      BY <2>1, <3>1, <3>2, <3>3, <3>4, <3>5
  <2>5. Flags(event) \subseteq Sections
    BY DEF Flags
  <2>6. reported \subseteq Sections
    BY <2>1
  <2>7. QED
    BY <2>4, <2>5, <2>6
<1>3. Settled => RoundTrip
  <2> SUFFICES ASSUME Settled, received # None PROVE RoundTrip
    BY DEF RoundTrip
  <2>1. DOMAIN received.sections = Flags(event)
    BY <1>1
  <2>2. \A s \in Flags(event) : received.sections[s] = SectionValue(event, s)
    BY <1>1
  <2>3. QED
    BY <1>1, <1>2, <2>1, <2>2 DEF RoundTrip
<1>4. QED
  BY <1>3, AlwaysSettled, PTL
===============================================================================
