--------------------------------- MODULE Chunked ---------------------------------
(***************************************************************************)
(* HTTP style chunking (python/subunit/chunked.py): an Encoder, the pipe   *)
(* its output goes through, and a Decoder that gets the octets in pieces   *)
(* of any size.  Decoder.write runs its state methods until one returns,   *)
(* each call of one being a step.                                          *)
(*                                                                         *)
(* An octet is a digit, 0 .. Base - 1, or one of three others.  The code   *)
(* has Base 16 and Limit 65536.                                            *)
(***************************************************************************)
EXTENDS Integers, Sequences

CONSTANTS Base,         \* of the numbers in chunk headers
          Limit,        \* the size at which the encoder stops buffering
          Payload,      \* the octets content is made of
          MaxWritten,   \* bound: octets of content
          MaxTrailer    \* bound: octets after the end marker

ASSUME BoundsAssumption ==
    /\ Base \in Nat /\ Base >= 2 /\ Limit \in Nat \ {0}
    /\ MaxWritten \in Nat /\ MaxTrailer \in Nat

CR == Base
LF == Base + 1
Other == Base + 2
Octets == 0 .. Other
ASSUME PayloadAssumption == Payload \subseteq Octets

VARIABLES
    written,        \* the content given to Encoder.write
    buffered_bytes, \* the encoder's buffer; buffer_size is its length
    ended,          \* Encoder.close was called
    trailer,        \* what was written to the same stream after that
    pipe,           \* on its way to the decoder
    strict,         \* the decoder's argument
    fragments,      \* the decoder's buffered_bytes
    state,          \* its state method
    body_length,    \* octets of the chunk still to come
    active,         \* Decoder.write has not returned
    decoded,        \* what the decoder's output got
    residue,        \* what the call of write that met the end marker returned,
                    \* and each call after it
    outcome         \* "open", "closed", or why ValueError was raised

encoder == <<written, buffered_bytes, ended, trailer>>
decoder == <<fragments, state, body_length, active, decoded, residue, outcome>>
vars == <<encoder, pipe, strict, decoder>>

Init ==
    /\ written = <<>> /\ buffered_bytes = <<>> /\ ended = FALSE /\ trailer = <<>>
    /\ pipe = <<>> /\ strict \in BOOLEAN
    /\ fragments = <<>> /\ state = "length" /\ body_length = 0 /\ active = FALSE
    /\ decoded = <<>> /\ residue = <<>> /\ outcome = "open"
-------------------------------------------------------------------------------
\* What the first n members of a list of octet strings are, put together.
Upto(list) ==
    LET octets[n \in 0 .. Len(list)] == IF n = 0 THEN <<>> ELSE octets[n - 1] \o list[n]
    IN  octets
Join(list) == Upto(list)[Len(list)]
-------------------------------------------------------------------------------
(* Encoder. *)

Digits[n \in Nat] ==
    IF n < Base THEN <<n>> ELSE Append(Digits[n \div Base], n % Base)
Number(digits) ==
    LET number[n \in 0 .. Len(digits)] ==
            IF n = 0 THEN 0 ELSE number[n - 1] * Base + digits[n]
    IN  number[Len(digits)]

Header(size) == Digits[size] \o <<CR, LF>>

\* flush: a chunk of what is buffered, its header counting extra_len octets more.
FlushedWithoutExtra(extra_len) ==   \* mutant: extra_len is forgotten
    IF buffered_bytes = <<>> /\ extra_len = 0 THEN <<>>
    ELSE Header(Len(buffered_bytes)) \o buffered_bytes
Flushed(extra_len) ==
    IF buffered_bytes = <<>> /\ extra_len = 0 THEN <<>>
    ELSE Header(Len(buffered_bytes) + extra_len) \o buffered_bytes

Fills(octets) == Len(buffered_bytes) + Len(octets) >= Limit

EncoderWrite(octets) ==
    /\ ~ended /\ Len(written) + Len(octets) <= MaxWritten
    /\ written' = written \o octets
    /\ IF Fills(octets)
       THEN pipe' = pipe \o Flushed(Len(octets)) \o octets /\ buffered_bytes' = <<>>
       ELSE buffered_bytes' = buffered_bytes \o octets /\ UNCHANGED pipe
    /\ UNCHANGED <<ended, trailer, strict, decoder>>

EncoderClose ==
    /\ ~ended /\ ended' = TRUE
    /\ pipe' = pipe \o Flushed(0) \o <<0, CR, LF>>
    /\ buffered_bytes' = <<>>
    /\ UNCHANGED <<written, trailer, strict, decoder>>

\* Another writer, that ends its lines with LF alone.
EncoderCloseUnix ==
    /\ ~ended /\ ended' = TRUE
    /\ pipe' = pipe \o Flushed(0) \o <<0, LF>>
    /\ buffered_bytes' = <<>>
    /\ UNCHANGED <<written, trailer, strict, decoder>>

WriteTrailer(octet) ==
    /\ ended /\ Len(trailer) < MaxTrailer
    /\ trailer' = Append(trailer, octet)
    /\ pipe' = Append(pipe, octet)
    /\ UNCHANGED <<written, buffered_bytes, ended, strict, decoder>>
-------------------------------------------------------------------------------
(* Decoder. *)

Working == active /\ outcome = "open"

\* write is called with the next n octets.
DecoderWrite(n) ==
    /\ ~active /\ outcome = "open"
    /\ n \in 1 .. Len(pipe)
    /\ fragments' = Append(fragments, SubSeq(pipe, 1, n))
    /\ pipe' = SubSeq(pipe, n + 1, Len(pipe))
    /\ active' = TRUE
    /\ UNCHANGED <<encoder, strict, state, body_length, decoded, residue, outcome>>

\* write(b"") adds no fragment.
DecoderWriteNothing ==
    /\ ~active /\ outcome = "open"
    /\ active' = TRUE
    /\ UNCHANGED <<encoder, pipe, strict, fragments, state, body_length, decoded, residue, outcome>>

\* What a fragment adds to count_chars: its octets up to the first that can
\* be in no header, or up to and with the first LF.
CountChars(fragment) ==
    LET stops == {i \in DOMAIN fragment : fragment[i] \in {LF, Other}}
        first == CHOOSE i \in stops : \A j \in stops : i <= j
    IN  IF stops = {} THEN fragment
        ELSE SubSeq(fragment, 1, IF fragment[first] = LF THEN first ELSE first - 1)

AllCountChars == Join([i \in DOMAIN fragments |-> CountChars(fragments[i])])

\* The first n octets of the fragments are gone: all of those that end there and
\* the beginning of the next.
EndsIn(n, list, k) ==
    /\ Len(Upto(list)[k]) <= n
    /\ k < Len(list) => n < Len(Upto(list)[k + 1])
Discard(n, list) ==
    LET whole == CHOOSE k \in 0 .. Len(list) : EndsIn(n, list, k)
        cut == SubSeq(list[whole + 1], n - Len(Upto(list)[whole]) + 1, Len(list[whole + 1]))
    IN  IF whole = Len(list) THEN <<>> ELSE <<cut>> \o SubSeq(list, whole + 2, Len(list))

HeaderComplete == AllCountChars # <<>> /\ AllCountChars[Len(AllCountChars)] = LF

\* What is left when CR and LF are stripped from the end.
Stripped(octets) ==
    LET last == CHOOSE n \in 0 .. Len(octets) :
                    /\ n > 0 => octets[n] < Base
                    /\ \A i \in n + 1 .. Len(octets) : octets[i] >= Base
    IN  SubSeq(octets, 1, last)

\* What strict insists on: one CR, in front of the LF.
Conformant ==
    LET count_str == AllCountChars
    IN  /\ Len(count_str) >= 2 /\ count_str[Len(count_str) - 1] = CR
        /\ \A i \in 1 .. Len(count_str) - 2 : count_str[i] # CR

Retry == active' = TRUE   \* mutant: the state method is called until it has its header
Return == active' = FALSE

ReadLengthMore ==
    /\ Working /\ state = "length" /\ ~HeaderComplete
    /\ Return
    /\ UNCHANGED <<encoder, pipe, strict, fragments, state, body_length, decoded, residue, outcome>>

\* The state method for what follows is called at once, save at the end marker
\* when nothing follows it: then empty is what write returns.
CallBody ==   \* mutant: never at the end marker
    /\ active' = (state' = "body")
    /\ residue' = IF active' THEN residue ELSE Append(residue, <<>>)
CallNext ==
    /\ active' = ~(state' = "finished" /\ fragments' = <<>>)
    /\ residue' = IF active' THEN residue ELSE Append(residue, <<>>)

ReadLength ==
    /\ Working /\ state = "length" /\ HeaderComplete /\ (strict => Conformant)
    /\ body_length' = Number(Stripped(AllCountChars))
    /\ fragments' = Discard(Len(AllCountChars), fragments)
    /\ state' = IF body_length' = 0 THEN "finished" ELSE "body"
    /\ CallNext
    /\ UNCHANGED <<encoder, pipe, strict, decoded, outcome>>

ReadLengthRaises ==
    /\ Working /\ state = "length" /\ HeaderComplete /\ strict /\ ~Conformant
    /\ outcome' = "invalid header"
    /\ UNCHANGED <<encoder, pipe, strict, fragments, state, body_length, active, decoded, residue>>

Pass(octets) == decoded' = decoded \o octets

\* One round of _read_body's loop.
ReadBodyFragment ==
    /\ Working /\ state = "body" /\ fragments # <<>>
    /\ body_length >= Len(Head(fragments))
    /\ Pass(Head(fragments))
    /\ body_length' = body_length - Len(Head(fragments))
    /\ fragments' = Tail(fragments)
    /\ state' = IF body_length' = 0 THEN "length" ELSE "body"
    /\ active' = (body_length' # 0 /\ fragments' # <<>>)
    /\ UNCHANGED <<encoder, pipe, strict, residue, outcome>>

ReadBodyReturns ==   \* mutant: the rest of the fragment waits for the next write
    active' = FALSE
ReadBodyContinues == active' = TRUE

ReadBodyEnd ==
    /\ Working /\ state = "body" /\ fragments # <<>>
    /\ body_length < Len(Head(fragments))
    /\ Pass(SubSeq(Head(fragments), 1, body_length))
    /\ fragments' = Discard(body_length, fragments)
    /\ body_length' = 0
    /\ state' = "length"
    /\ ReadBodyContinues
    /\ UNCHANGED <<encoder, pipe, strict, residue, outcome>>

ReadBodyNothing ==
    /\ Working /\ state = "body" /\ fragments = <<>>
    /\ Return
    /\ UNCHANGED <<encoder, pipe, strict, fragments, state, body_length, decoded, residue, outcome>>

_finished ==
    /\ Working /\ state = "finished" /\ fragments # <<>>
    /\ residue' = Append(residue, Join(fragments))
    /\ fragments' = <<>>
    /\ Return
    /\ UNCHANGED <<encoder, pipe, strict, state, body_length, decoded, outcome>>

_finishedRaises ==
    /\ Working /\ state = "finished" /\ fragments = <<>>
    /\ outcome' = "stream is finished"
    /\ UNCHANGED <<encoder, pipe, strict, fragments, state, body_length, active, decoded, residue>>

ClosableInBody == state \in {"finished", "length"}   \* mutant: between chunks too
Closable == state = "finished"

DecoderClose ==
    /\ ~active /\ outcome = "open"
    /\ outcome' = IF Closable THEN "closed" ELSE "incomplete stream"
    /\ UNCHANGED <<encoder, pipe, strict, fragments, state, body_length, active, decoded, residue>>
-------------------------------------------------------------------------------
Pieces == UNION {[1 .. n -> Payload] : n \in 0 .. MaxWritten}

Encode ==
    \/ \E octets \in Pieces : EncoderWrite(octets)
    \/ EncoderClose \/ EncoderCloseUnix
    \/ \E octet \in Payload : WriteTrailer(octet)

Work ==
    \/ ReadLengthMore \/ ReadLength \/ ReadLengthRaises
    \/ ReadBodyFragment \/ ReadBodyEnd \/ ReadBodyNothing
    \/ _finished \/ _finishedRaises

Next ==
    \/ Encode
    \/ \E n \in 1 .. Len(pipe) : DecoderWrite(n)
    \/ DecoderWriteNothing
    \/ Work \/ DecoderClose

\* Decoder.write runs to its end once it is called.
Spec == Init /\ [][Next]_vars /\ WF_vars(Work)
-------------------------------------------------------------------------------
(* Properties. *)

\* However writes are buffered by the encoder and however its output is split
\* on the way, the decoder's output gets what was written, in order, and the
\* decoder finishes only when it has got all of it.
Channel == INSTANCE ItemChannel WITH
    sent <- written, got <- decoded, over <- (state = "finished")
ImplementsChannel == Channel!Spec

\* "Up to a full write worth of data or a single control line may be buffered"
\* (Decoder): when write returns, all that is kept is the beginning of a header.
OnlyHeadersAreKept ==
    ~active => \/ fragments = <<>>
               \/ state = "length" /\ ~HeaderComplete

\* The call of write that meets the end marker says so: it hands back what it
\* was given beyond it, all of it, be it nothing.  Of calls after that one
\* nothing is promised.  (The docstring says that they raise ValueError; the
\* code raises it for an empty write only, see README.)
ResidueIsTheRest ==
    state = "finished" /\ ~active =>
        /\ residue # <<>>
        /\ Len(residue) = 1 => residue[1] \o pipe = trailer

\* Closing succeeds only when the whole content has been decoded.
CloseDetectsShortStreams == outcome = "closed" => ended /\ decoded = written

\* A call of write returns or raises.
WriteReturns == active ~> ~Working
===============================================================================
