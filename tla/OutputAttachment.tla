---------------------------- MODULE OutputAttachment ----------------------------
(***************************************************************************)
(* subunit-output (python/subunit/_output.py): one test status and one     *)
(* attachment, written as version 2 packets.  A file is read a hunk at a   *)
(* time, one hunk ahead of the packet that is written, because only the    *)
(* last packet may say eof and carry a final status.  The module has the   *)
(* actions of one run of the program; whoever starts it composes them with *)
(* the stream it writes to.                                                *)
(***************************************************************************)
EXTENDS Integers, Sequences

CONSTANT None

VARIABLES
    phase,   \* "parse" the arguments, "open", "generate" packets, "exited"
    code,    \* the exit code, None before the exit
    line,    \* the command line
    unread,  \* hunks of the file not yet read
    this,    \* this_file_hunk
    next,    \* next_file_hunk
    first    \* is_first_packet

FinalActions == {"exists", "fail", "skip", "success", "uxsuccess", "xfail"}

Nothing == "nothing"   \* b"", a read at the end of the file

Exits(c) == phase' = "exited" /\ code' = c

\* What parse_arguments and set_status_cb refuse: a second status, a status
\* without a test, file options without a file, a file that cannot be opened.
UsageError(args) ==
    \/ args.action # None /\ (args.again \/ args.id = None)
    \/ args.options /\ args.attach = None
    \/ args.attach = "unreadable"

\* With --file-name, --attach-file - stays the string "-", which has no read.
NotAFile(args) == args.attach = "stdin" /\ args.options

output_main(args) ==
    /\ phase = "parse"
    /\ line' = args
    /\ IF UsageError(args) THEN Exits(2)
       ELSE IF NotAFile(args) THEN Exits(1)
       ELSE phase' = "open" /\ UNCHANGED code
    /\ UNCHANGED <<unread, this, next, first>>

Attaches == line.attach # None

\* read(_CHUNK_SIZE) returns whole hunks, then what is left, then nothing.
HeadOf(hunks) == IF hunks = <<>> THEN Nothing ELSE Head(hunks)
TailOf(hunks) == IF hunks = <<>> THEN <<>> ELSE Tail(hunks)

OpenFile ==
    /\ phase = "open"
    /\ phase' = "generate" /\ first' = TRUE
    /\ this' = HeadOf(line.hunks)
    /\ next' = HeadOf(TailOf(line.hunks))
    /\ unread' = TailOf(TailOf(line.hunks))
    /\ UNCHANGED <<code, line>>

IsLastNoLookahead == ~Attaches \/ this = Nothing   \* mutant: the end is seen when it is read
IsLast == ~Attaches \/ next = Nothing

\* A final status waits for the last packet, any other goes with the first.
Status == IF line.action \in FinalActions
          THEN IF IsLast THEN line.action ELSE None
          ELSE IF first THEN line.action ELSE None

\* The packet of this round of the loop; "head" stands for the tags, the MIME
\* type and the timestamp, which only the first one has.
Packet ==
    [id |-> line.id, status |-> Status,
     file |-> IF Attaches THEN "attachment" ELSE None,
     bytes |-> IF Attaches THEN this ELSE None,
     eof |-> Attaches /\ IsLast, head |-> first]

WritePacket ==
    /\ phase = "generate"
    /\ first' = FALSE
    /\ IF IsLast
       THEN Exits(0) /\ UNCHANGED <<unread, this, next>>
       ELSE /\ this' = next /\ next' = HeadOf(unread) /\ unread' = TailOf(unread)
            /\ UNCHANGED <<phase, code>>
    /\ UNCHANGED line
===============================================================================
