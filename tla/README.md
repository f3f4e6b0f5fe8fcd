# A verification project for subunit

Subunit is a streaming protocol for test results and a set of tools around it.
This directory holds TLA+ models of its code under `python/`, the TLC runs that
check them and TLAPS proofs about them.

## Inventory: the system and its parts

| part | source | state | operations | talks to |
|---|---|---|---|---|
| v1 parser | `__init__.py` `TestProtocolServer`, `_ParserState`…, `details.py` | `_state`, `current_test_description`, `_current_test`, a details parser | `lineReceived`, `lostConnection`, `readFrom` | calls a TestResult; writes to stdout and a forward stream; uses `chunked.Decoder` |
| v1 writer | `__init__.py` `TestProtocolClient` | the output stream | one method per TestResult event | uses `chunked.Encoder` |
| isolated and exec tests | `__init__.py` `run_isolated`, `ExecTestCase` | a child process, a pipe | fork, run, read, wait | v1 writer in the child, v1 parser in the parent |
| chunking | `chunked.py` | buffers, a three-state decoder | `write`, `flush`, `close` | v1 details |
| v2 writer | `v2.py` `StreamResultToBytes` | none | `status` → one packet | any StreamResult source |
| v2 reader | `v2.py` `ByteStreamToStreamResult` | codec state, buffered text | `run`, `_parse_packet` | a StreamResult; `select` on the source |
| result decorators | `test_results.py` | buffered calls, tags, times | filter, tag collapsing, time collapsing, auto timing | a TestResult below |
| progress model | `progress_model.py` | a stack of subtasks | push, pop, advance, set and adjust the width | GTK window |
| GTK window | `filter_scripts/subunit2gtk.py` | counts in a result, labels, callbacks that wait | a thread reads, the main loop shows | v2 reader, progress model |
| converters | `TAP2SubUnit`, `GoJSON2SubUnit`, `JUnitXML2SubUnit`, `tag_stream` in `__init__.py` | plan and numbering; buffers per test; a clock | one line / record at a time | v2 writer |
| output generation | `_output.py` | a one-hunk lookahead | packets for one test and its attachment | v2 writer |
| test runner | `run.py` | the suite it has loaded | list, run | v2 writer |
| stream combination | `filter_scripts/subunit_combine.py` | requested ids, one child process and its pipe, an id file, the exit code | run each command, route ids to it, prefix its test ids | v2 reader and writer |
| filters and scripts | `filters.py`, the other `filter_scripts/*`, `_to_disk.py` | per script | glue | all of the above |
| emitters | `c/lib/child.c`, `shell/share/subunit.sh`, `c++/SubunitTestProgressListener.cpp` | `last_test_failed` (C++) | print v1 directives | a v1 parser elsewhere |

Behaviour that is hard to test, and what would be correct:

* **v1 parser** – arbitrary lines in arbitrary states, a stream cut anywhere, a
  line that raises. Its client must see non-overlapping tests with one outcome
  each; lines between details brackets must be opaque; input must be shared out
  between the two output streams without loss.
* **isolated tests** – the child dies between any two writes, its buffered
  output is torn at any byte, both processes run concurrently. The parent must
  report what the child recorded, and one error for the test the child died in.
* **chunking** – writes and reads are split at arbitrary places. The decoder must
  return what was encoded, stop at the end marker and hand back the rest.
* **v2 writer** – numbers change width at 64, 16384 and 4194304; the packet
  length counts the bytes of its own encoding.
* **v2 reader** – packets and UTF-8 text share one byte stream, the packet
  signature `0xB3` is a legal UTF-8 continuation byte, and text is aggregated
  under a `select` timeout. Text must come out as text, packets as packets, and
  damaged packets as an error with the reader back in step.
* **decorators** – buffering changes the order of events; each outcome must be
  seen under the tags and the time it had upstream.
* **converters** – input that ends early must not lose tests.
* **stream combination** – three processes, any of which may die or block; an id
  goes through a prefix taken off, a file or an argument list, the selection of
  the child and a prefix put on again. Streams must be merged whole and in order,
  ids must reach the commands they belong to, the exit code must tell of every
  failure, no file may be left.
* **output generation** – whether a hunk is the last is known one read later: one
  packet, the last, must say `eof` and carry a final status.
* **GTK window** – callbacks read what a thread is changing, and the window may
  be closed at any time. It must catch up, and say Finished last.
* **progress model** – widths below a subtask may be unknown or still change; a
  push must not be seen and a pop must undo it.

## Modules

| module | models | composes |
|---|---|---|
| `TestRun` | what a unittest result may rely on, whichever parser feeds it (abstract) | |
| `ProtocolServer` | the v1 parser, one action per case of `lineReceived` and one for the end of the stream | implements `TestRun` |
| `ProtocolServerProofs` | theorems about it and about `IsolatedRun` | |
| `V2Packet` | layout, sizes and parsing of a v2 packet | instantiated for TLC by `MCV2Packet` |
| `V2PacketProofs` | theorems about it | |
| `ItemChannel` | a FIFO channel that loses and invents nothing (abstract) | |
| `MixedStream`, `MixedStreamProofs` | the v2 reader's loop between text and packets, with the writing process; theorems | implements `ItemChannel` |
| `Chunked`, `ChunkedProofs` | chunk encoder, pipe and decoder; theorems | implements `ItemChannel` |
| `IsolatedRun` | a forked child, the v1 writer, the pipe, and the v1 parser in the parent | extends `ProtocolServer`; instantiated for TLC by `MCIsolatedRun` |
| `FilteredRun` | what a filter of tests promises (abstract) | |
| `ResultFilter`, `FilterProofs` | `TestResultFilter` and the three decorators below it, down to the result; theorems | implements `FilteredRun` |
| `GoJson` | `GoJSON2SubUnit`, with the `go test -json` it reads | |
| `Tap` | `TAP2SubUnit` | |
| `ConverterProofs` | theorems about both | |
| `TestRunner` | one run of `python -m subunit.run`, as actions for whoever starts it | |
| `OutputAttachment` | one run of `subunit-output`, likewise | |
| `Combine`, `CombineProofs` | `subunit-combine`, its commands and the pipe between them; theorems | instantiates `TestRunner` and `OutputAttachment`; implements `ItemChannel`; instantiated for TLC by `MCCombine` |
| `ProgressModel` | the stack of subtasks | |
| `GtkWindow` | `subunit2gtk`: the thread, the callbacks, the main loop | instantiates `ProgressModel` |
| `GtkProofs` | theorems about the window and about the stack | |

`PROJECT.json` maps each definition to the lines it translates.  Operators
marked `mutant` are plausible slips: each property fails when its mutant takes
the place of the definition it is written in front of.

### How state and actions correspond to the code

**`ProtocolServer`.**  `state`, `desc` and `test` are `_state`,
`current_test_description` and `_current_test`; `phase` and `message` are the
details parser's state function and the lines it has; `raised` says that an
exception has left `readFrom`.  A line is a record of the class of its first
word, its label and the form of its argument.  Each state class of the code
contributes actions: `_OutSideTest` `startTest`, `outcomeOutside`; `_InTest`
`outcomePlain`, `outcomeDetails`, `passThroughInTest`; `_ReadingDetails` and the
details parsers `endDetails`, `simpleLine`, `multipartLine`; `_ParserState` the
rest.  Methods that raise are actions of their own, with the assignments the
code makes before the exception.  What a line of a multipart body does to the
chunk decoder depends on sizes, so `MultipartNext` allows every outcome; sizes
are `Chunked`'s subject.  The refinement of `TestRun` leaves the `progress` calls
out, about which code and documentation disagree (below).

**`V2Packet`.**  One action of the writer lays an event out, as `_write_packet`
does, and one of the reader takes it apart, as `_parse` does.  Octets are
counted, and have values where the code computes with them: the
variable-length numbers and the length field.  A string is a model value with a size.

**`MixedStream`.**  `pc` is the place in `run`; `codec` and `mid` are the
incremental UTF-8 decoder and `mid_character`; `buffered` and `content` have the
code's names.  Text is made of classes of octets, among them `b3`, which is both
the signature of a packet and a legal continuation octet.  `select` is
`Arrived` or `Timeout`; a timeout may happen with input waiting, because the
buffered source `select` is asked about may already hold it.  `garbage` is
chosen once: a writer of garbage also emits characters that end in `0xB3`, cut
characters, packets of other versions and packets with an impossible length.
`Exit` may tear a packet at any octet: after the signature (`b3`), or after the
flags and the length (`part`), and inside what a read waits for (`bit`), which
`read_exactly` drops.

**`Chunked`.**  Encoder and decoder with the code's fields.  A step is one call of
a state method (`ReadLength…`, `ReadBody…`, `_finished`) and `active` says that
`Decoder.write` has not returned.  Octets are digits of a small base, CR, LF
and one other.  `Join` is `empty.join`, `Stripped` the `rstrip` in front of
`int(..., 16)`, and `Discard` takes off the octets that have been read, by whole
fragments and then by a part of the next, as the loop does.

**`IsolatedRun`.**  `child` is the child's place in a test, `buffer` its buffered
stream and `pipe` the pipe; the parent's parser is that of `ProtocolServer`, its
variables and actions.  An entry of the pipe is a line of `ProtocolServer`
plus `leads`, what follows it in a multipart message: here the writer is known,
so the parser's free choice is resolved to what the chunk decoder would do.
`addMultipart` writes details of any number of parts, empty ones too, each a
content type, a name, a chunk and the end marker.
`Crash` loses the buffer and may tear the line being written; `Torn` says what
the parser takes the fragment for.

**`ResultFilter`.**  `_PredicateFilter`'s fields have variables of their own; the
record `down` is everything below it: the times and tags the collapsing
decorators hold, and what the result at the end has heard.  Each call of the
code is one action, down to the result.

**`GoJson`.**  `buffers` is `buffers` and `pkg_buffers`, with no line for an absent
key.  The first variables are go's: what runs, what has been printed.  `Run`,
`Output`, `Verdict`, `PackageFail`, `PackagePass` and `Eof` are the branches of the
loop and what follows it.

**`Tap`.**  The locals of `TAP2SubUnit` have their names.  One action per form of
line; a test is its number, since descriptions do not steer anything, and a
comment is known by the order they are read in.  `written` is what has been written to
`output_stream`.  The names of the specification are not those of `GoJson`, so that
`ConverterProofs` can extend both.

**`Combine`.**  A test id is a sequence of `Parts`, and a prefix is one too, so
"starts with the prefix" and taking it off are what they are for strings.  `pc` is the
place in `combine` and `run_command`; `idfile` is the content of the file at
`idfile_path`, which `Start` writes before `Popen` starts the child or
`PopenRaises` takes it away again; `raised` says that an exception is on its way through the
`finally` clauses.  `phase` is the state of the child: that of `TestRunner` or of
`OutputAttachment` when it is one of those, "free" when it is a program that writes
what it likes.  Ids reach a runner by its id file (`"file"`), which selects tests in
the order of the suite and drops the ids it does not know, or by its arguments
(`"words"`), which are loaded in their order, an unknown one as a failing test.
The reader of the pipe is `Read`, one item of the stream at a time;
what text and damaged packets become is taken from `v2.py`, whose loop
`MixedStream` has in detail.  `Killed` may tear the last packet; `OutputBreaks`
makes the next write to the output raise.

**`GtkWindow`.**  `io` is the place in `run_and_finish` and in the method of the
result it is in, `idle` the callbacks `GObject.idle_add` has queued.  `update_counts`
is four actions, as it reads the counts without a lock while the thread goes on.
Which outcomes the thread counts as what is decided by testtools' decorator and
`unittest.TestResult`, whose parts in it are marked external.

**`ProgressModel`.**  `_tasks` is the list of four-element lists, as records.

## Runs

Times are for two workers.

| run | what it asks | bounds, and why they suffice |
|---|---|---|
| `server` | any sequence of lines, stream cut anywhere: state consistent (`StateAgrees`), lines shared out (`LineLandsOnce`), details opaque, client sees a `TestRun` and every started test is stopped | two labels (own and foreign), one line of details, since no decision counts them; 87 099 states, 25 s |
| `v2_packet` | packets read back as written, reader in step, limit respected | strings of 0, 3 and 60 bytes; file sizes on both sides of each length width and of the 4 MiB limit; 1 008 040 states, 6 s |
| `mixed` | text, packets and damaged packets in any pieces with any pauses: in order, promptly, `mid_character` right, buffer bounded, and `run` ends | five octets, enough for a three-octet character and a packet in either order, and a torn one after either; a buffer of two, so that it fills inside a character; 343 340 states, 28 s |
| `chunked` | content that looks like headers, split anywhere on both sides, with empty writes between | base 2 and a limit of 2, so that headers have several digits and the encoder fills with three octets; 37 132 states, 34 s |
| `isolated` | child and parent concurrently, the child dying anywhere | two tests, so that a second one meets what the first left in the parser; two lines of message; details of up to two parts (`MaxParts`), so that one follows another; a pipe of two lines, so the child blocks; 610 992 states, 63 s |
| `filter` | buffering and collapsing keep tests, outcomes, tags and the clock | two tests, two tags (one demanded, one forbidden), two times and three buffered calls, the least at which two tag changes come before an outcome; 558 338 states, 10 s |
| `gojson` | parallel and repeated tests of two packages, stream cut anywhere | one test in each of two packages, two runs, two lines; 508 977 states, 5 s |
| `tap` | plan ahead, at the end or missing, numbers in any order | numbers to 3, three results, two comments; 112 471 states, 4 s |
| `combine` | up to three commands that list, run, attach, write garbage, are killed or are not there: output in order, exit code, id file, routing of ids, attachments whole, and `combine` ends | thirteen command lines of `subunit-output`, with files of none to three hunks; a pipe of one item, so that the child blocks on the second; three items from a program that writes what it likes, so that something follows what is swallowed; ids that belong to both, one or none of the commands, one that equals a prefix and a list that begins with an unknown one; a runner that stops at the first failure; 570 656 states, 22 s |
| `gtk` | what is counted is shown, Finished comes with the final counts, the exit code agrees | three tests, so that a callback reads while the next test is counted and another callback waits; 113 550 states, 10 s |
| `mixed_o_acute`, `isolated_brackets` | disagreements between code and documentation, below | small versions of the above |

Deadlock is not checked where the modelled system stops: streams end, calls
return and a window stays open (all runs but that of the filter, whose caller may
always go on).  The type invariant of `ProtocolServer` is
checked and proved, those of `GoJson` and `ProgressModel` are proved.
`ProgressModel` has no run of its own: `gtk` exercises its `advance` and what
follows from `push` and `pop` is proved.

### Fairness

* `EveryTestIsStopped`: weak fairness of `lostConnection` only.  A pipe ends
  because the process that writes it does; a stream that never ends promises
  nothing, and reading more lines needs no fairness.
* `MixedStream`: weak fairness of the reader as a whole.  It is a process of its own and its
  only blocking calls are a `read` when there is input or the end of it, and a `select`
  with a timeout.  The writer has no fairness: it may stall forever, which is
  what `NothingIsHeldBack` is about.
* `Chunked`: weak fairness of `Work`, the state methods within one call of
  `write`.  Nobody has to call `write`.
* `IsolatedRun`: weak fairness of the parent's two actions and of the child's
  `Work`; tests end.  `Crash` and `WriteNoise` have none.
* `Combine`: weak fairness of `Combines` and of `ProcessWorks`.  Both are
  processes that only wait for each other through the pipe, and the commands
  end.  `Killed` and `OutputBreaks` have none.  `CombineEnds` has an exception the
  code has: after an exception `combine` waits for a child that may be blocked on the pipe.
* `GtkWindow`: weak fairness of `Reports`, what the thread does with a test it has
  read, and of `MainWorks`.  The stream may stall, and nobody has to close the window.

The filter and the converters are called by someone else, and only their safety
is stated.

### What the runs found

1. `mixed_o_acute` – after text has been reported because of a timeout, a full
   buffer or for want of a file descriptor, the octet that ended the text is
   compared with the packet signature.  If the text ended in a character whose
   last octet is `0xB3` (`ó`), the text after it is parsed as a packet
   (`v2.py:376`).  With `Units` that avoid such characters `mixed` holds.
2. `isolated_brackets` – tracebacks and skip reasons are written unquoted, so a
   line `]` in one ends the details (`__init__.py:696`).  `isolated` uses
   content without such lines there, and with them in multipart details, which
   are safe.

### Other disagreements met while reading

No run has one of these as its question; the models do what the code does, or
leave the part out.

* `cmd in self._skip_sym` is a substring test, as `_skip_sym` is a bytes object
  and not a tuple: the lines `i A` or `s A` inside test `A` skip it (`__init__.py:271`).
* In a filter `time` overtakes the `startTest` that is buffered
  (`test_results.py:350`), so the result hears tests start when they ended;
  `NEWS:523-525` says that timings are kept.
* `subunit-combine`: an id that equals a prefix leaves the empty id, which `$IDLIST`
  drops, so the command runs every test (`subunit_combine.py:179`); ids with
  spaces are split by `$IDLIST`, and those that begin with `#` are comments in a list file.
  After an exception the child may block for ever on a pipe nobody reads, and
  `wait` with it (`:233`).  A command that cannot be started keeps those after it from
  running (`:227`).
* The length of a packet with a bad header is believed (`v2.py:431`): below 5 `read`
  refuses and the reader raises, at 5 it takes the rest of the stream.
* `subunit-output --attach-file - --file-name x` raises `AttributeError`: the file
  stays the string `-` (`_output.py:125`).
* `python -m subunit.run` exits 0 when tests fail, as `exit=False` leaves the result unread
  (`run.py:132`), and so `subunit-combine`, whose exit code is about commands, does too.
* `README.md:455-456` has a pop advance the progress; `ProgressModel.pop` does not
  (`progress_model.py:64`).  A subtask whose width is not known leaves its step.
* `subunit2gtk`: an unexpected success is OK in the label and fails in the exit code;
  a window closed early may exit 0 with failures unread; one closed before the
  main loop leaves it running with no window; nothing calls `progress`, so the bar only pulses.
* `progress` inside a test "indicates that a previous test was interrupted and did
  not cleanly terminate: it should be implicitly closed with an error"
  (`README.md:456-460`); `_handleProgress` passes it to the client and the test goes
  on.  `RefinesTestRun` leaves these calls out and says nothing of them.  Progress
  lines are not forwarded either (`__init__.py:538`).
* `uxsuccess` outside a test raises `AttributeError` where other outcomes are
  passed through (`__init__.py:283`).
* v2: a string with a NUL is written and then rejected by the reader
  (`v2.py:137`); the version nibble is not looked at (`v2.py:428`).
* A child that dies inside a Content-Type line makes the parent raise
  (`details.py:85`) instead of reporting an error for the test.
* `Decoder.write` has ":raises ValueError: If the stream has already seen the end of
  file marker." (docstring, `chunked.py:130-131`, and
  `test_decode_write_after_finished_errors`).  Of the calls after the one that
  meets it only one without octets does; the others hand their octets back
  (`chunked.py:64-69`).  `ResidueIsTheRest` is about the call that meets the marker.
* `addUnexpectedSuccess` does not ask the filter's predicate
  (`test_results.py:305`); `FilteredRun` has it as an exception.  `addSkip`,
  `addExpectedFailure` and `addUnexpectedSuccess` do not rename the test, the others do (`:430-449`).
* A go test that runs when the stream ends and has printed nothing is not
  reported, as only tests with a buffer are known (`__init__.py:1249`), and the exit
  code may be 0; the comment above says "Surface them as failures so they're not
  silently lost" (`__init__.py:1247-1248`).  `VerdictsArrive` promises the failure to
  the tests that printed and leaves open whether the others get it.  Output for a test that
  comes after its verdict would make it fail at the end; go is not known to do so.
* TAP: comments are written with a result, so those of a script that has none, not
  even a missing one, are lost (`_emit_test` returns, `__init__.py:1017`), and so are
  those that wait when the converter raises.  `1..0` without a comment raises `AttributeError` (`__init__.py:1053`), and
  nothing looks at the state `SKIP_STREAM`.
* Details of the shell and C emitters that do not end in a newline join the closing bracket to their last
  line (`subunit.sh:37`); two failures of one C++ test print two outcomes, and
  the parser passes the second one through.
* An exception that escapes `klass.run` in an isolated child is not caught
  (`__init__.py:964`): the child goes on as a copy of the caller's program.

## Proofs

All theorems hold for every value of the constants; they use only the named
assumptions of the modules, which TLC evaluates in the runs.

**`ProtocolServerProofs`** assumes that `None` is no label.  `StateAgrees` with `TypeOK` is inductive:
it has to say, besides the agreement a reader of the code would state, that the
details parser exists in the details states, and that `_current_test` may be
stale only when there is no description, because `endDetails` leaves it behind.
From it follow `Refinement` (each step of the parser is a step of `TestRun` or
a stutter), `DetailsOpacity` and `LinesLandOnce`.

The same module has the theorems about `IsolatedRun`, for any suite, message and pipe.
`Agreed` is inductive: it relates the parser to all that
is still on its way.  The places the parser can be in are `Positions`; the lines in the
pipe lead (`Leads`) by a path of these from where it is (`At`), and those in the buffer
from there to where the child is (`Done`).  Each place on the path is `Faithful`: no
more has been heard there than the child has done, and the test that is open is the one
that comes next.  That the lines the client writes for an outcome lead on is
`SimpleLeads` and `MultipartLeads`; that the parser goes where a path says is
`ReadFollows`.  After a crash the pipe may end in a line that is torn (`Shredded`), after
which only what has been heard counts (`Aftermath`).  The theorems assume
`Unbracketed`, as content written unquoted is known to go wrong
(`isolated_brackets`), and of the constants only their types.

**`MixedStreamProofs`** assumes that the units are those the model knows and that a
careful writer writes no character without its end.  `Bounded` is the bound and
what makes it inductive: while `run` waits for more there is room for an octet.
`InStep` relates the decoder to what is still on the wire: every character that
begins there ends there, and what the decoder waits for comes next.  Without the
latter `mid_character` could not be known to agree, because an error leaves the
decoder as it was.  `TextAndPacketsArrive` is the refinement of `ItemChannel`.  It
assumes `Sound`: no unit is a character that ends in `0xB3`, after which the code is
known to go wrong (`mixed_o_acute`), and none is a packet of another version or
with an impossible length, which only a writer of garbage sends.  `Right` is
inductive: what has been sent is a proper sequence of characters and packets
(`Proper`), what has been told is its beginning, what is on the wire its end
(`OnTheWire`), between them is what `run` holds (`Holding`), and what the last
octet means for the next is known to the reader (`InPlace`).  Octets of a read that
is cut short are on the wire without having been sent as anything (`Legible`), and only in the
last packet (`TornInPacket`), so that no other read can meet them.

**`ChunkedProofs`** is about any base from two up, any buffer size, any content and
any way of cutting it.  `Inv` is inductive.  `Unread` says that what is on its way
makes up for what has not been decoded: it is the rest of a chunk, whole chunks, and
then the end marker and what follows it, or the encoder's buffer.  `Kept` says
that of the fragments the decoder holds only the last can have more than a part of a
header in it.  That the decoder reads the very header the encoder wrote takes
arithmetic (`NumberOfDigits`: a number is what its digits say), a law about
strings that begin alike (`Levi`), and what `_read_length` gathers over several
fragments (`HeaderRead`).  From `Inv` follow the three invariants of the run and,
as each step of the decoder passes on the next octets, `ContentArrives`, the
refinement of `ItemChannel`.

**`FilterProofs`** assumes that `None` is no test.  `TagsAgree` is inductive: the
tags given outside tests are the `new` half of `_global_tags`, and in a test those of
the test are what the two pairs of changes make of them.  `CollapsingIsExact` is the
law by which changes of tags may be collapsed at all.  `Filtering` adds where the
decorators below the filter are: `Resting` between tests, with what they hold back
being just what the result has not heard, and `Buffering`: whoever is told the
calls that wait, in a state of rest, ends up where the caller is.  Since a buffer
may have any length, the latter is found by induction over it (`Delivering`).
`ClockStaysCurrent`, `TagsArrive` and the refinement `PassesWholeTests` follow.

**`CombineProofs`** assumes that a configuration has a command, that ids are
sequences of parts and no test's is empty (unittest makes none), that what is attached
is a sequence of strings, and that `None` is none of these.  `Consistent` is
inductive: there is a file just from its writing until the child has ended or could not be
started (`FileIsThere`), and
`failed` is about the commands before `at` (`FailedIsKnown`).  Three more rest on it:

* `Ordered`: there are places to cut what has been said and not merged, one
  for each item in the pipe, so that each item is to become what lies between two of
  them; a short packet in the pipe ends this, as it will take whatever follows.
  Hence `OutputIsMerged`, the refinement of `ItemChannel`.
* `Routed`: whatever the runner has still to do it was told to do, what is behind it
  has been announced and, unless it only lists, has an outcome, it stops early only
  after a failure, and no event has an id that it may not have.  That ids come
  out of the trip as they went in is `Stripped` and `Prepended`.
* `Delivered`: the writer has the hunk after those it has written in hand, and the one
  after that or the news that there is none.  For the count of an attachment's
  packets to mean anything nobody may speak out of turn (`TakesTurns`), which needs `Ordered`.
  Killed writers are covered: the promise is about commands that exit 0.

What a selection of ids keeps is `Kept`, by induction over the length of the list.

**`GtkProofs`** assumes that the bound is a number.  `LabelsFollow` is what makes the
unlocked reads harmless: either a callback waits or is about to, or all that
`update_counts` has written so far is what the result says.  `TestsAddUp` and
`FinishedIsLast` give the total at the end.  For `FinishedIsCounted` the outcomes
read so far are counted (`OutcomesAddUp`), where a test that is handed over is in one
count and not yet in the other, and so are the moves of the bar (`MovesAddUp`);
`ExitIsTold` follows from the same counts.  About `ProgressModel`, `StackInv` adds to
the types that what each subtask saved is still the summary of the tasks below it,
which holds because only the top of the stack ever changes.

**`V2PacketProofs`** assumes that strings have sizes, and that sub-second
timestamps are at most 999 999 000 ns.  `NumberRoundTrip` and
`LengthCountsItself` are facts about the arithmetic: three thresholds, and a
length that depends on its own width.  The inductive invariant `Settled` says
that the packet is the one laid out for the event, that an event is refused only
when it is too long, that the reader has taken what the length field tells it
to, and that what it has understood is that packet; `StaysInStep` and `PolicyHolds`
follow with the arithmetic, and `EventsRoundTrip` field by field: each flag is set
just when its section is there.

**`ConverterProofs`** assumes for GoJSON2SubUnit that no package is a pair of a package and a test,
so that a key of one buffer is none of the other.  `Consistent` is inductive: the
buffer of a running test is what its latest run has printed and that of any other test is
empty; the buffer of an open package is what it has printed; reports translate
verdicts; and the flag is set just when a failure has been reported.
`OutputArrives` speaks of the packets of one step and is not inductive: each
step establishes it from `Consistent` before the step.  For TAP2SubUnit it assumes that the
three names are distinct and no numbers.  `TapIsConsistent` says of the packets
and of what is held back together what the run asks of the packets: the numbers
(`NumbersAre`), the results (`ResultsAre`) and the comments (`InOrder`), and that each
comment held back is about the test held back, or there is none yet.  At the end
none is held back, unless there was no result to write it with (`Ends`).

What an induction over a sequence needs is proved from the well-foundedness of the
natural numbers, with a set of numbers in the place of a formula (`Induct`), as the
provers cannot instantiate a theorem that takes an operator.

Only model-checked:

* liveness (`EveryTestIsStopped`, `NothingIsHeldBack`, `ReaderEnds`,
  `WriteReturns`, `EveryTestIsReported`, `CombineEnds`, `CountsAreShown`), which
  the prover does not do under fairness.

## What the models leave out

* `ProtocolServer`: the text of labels, tags, times and progress; encodings are reduced to "is not
  UTF-8".
* `V2Packet`: the loop that retries short writes of the underlying stream; damage
  to a packet is `MixedStream`'s.
* `IsolatedRun`: contents of more than one chunk (64 KiB); lines for tags, time and progress (no test of a suite makes them); `test:` lines too long for
  the pipe; the exit status, which the code ignores; tests that print part of a line.
* `ResultFilter`: one outcome per test; a call of `tags` with a tag in both sets;
  renames; `AutoTimingTestResultDecorator`, which the filter does not use.
* `Combine`: environments, directories and words of `argv` that are no placeholders;
  errors of the configuration file; failures of the file system.
* `TestRunner`: names of modules and classes, which load more than one test (an id is
  that of one test); the wiring of options, `AutoTimingTestResultDecorator`, skipping by
  the loader.  `OutputAttachment`: tags, MIME types and timestamps, one flag here.
* `GtkWindow`: layout; the pulses of the bar; `progress`, which nothing calls.
* `GoJson`: lines that are not JSON and actions that are skipped; output
  events with empty output; output after a verdict; timestamps, which are copied.
* `Tap`: descriptions; lines TAP does not know, which are passed on at once.

Not modelled: `JUnitXML2SubUnit` is one pass over parsed XML whose only state is a
clock, and `tag_stream` has none.  `filters.py`, the other scripts and
`_to_disk.py` connect the modelled parts to files and command lines and keep no
state of their own.  `ProtocolTestCase` is one call of the parser.  The C, shell
and C++ emitters print lines of the v1 protocol, which the parser's models take in
any order.

## Plan for what is left

1. The C++ listener's `last_test_failed` as a writer for `ProtocolServer`; JUnit's clock.
2. Proofs: each invariant and each property of steps that a run checks is a theorem now; what is
   left is about new models.
3. `_to_disk.py`: the search for a free name against another process that writes
   to the same directory.
