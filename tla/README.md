# A TLA+ model of the PSDK video stream check tool

The tool (`src/application`) receives an H.264 stream by UDP or from a file,
cuts it into frames at access unit delimiters (AUD), decodes each frame with
FFmpeg and tests it against the PSDK video standard. It prints after every
frame whether all frames have passed so far. This directory holds TLA+
specifications of its parts, the TLC configurations that check them and
TLAPS proofs about all of them.

## Inventory

| Part | Source (`src/application/`) | State | Operations |
|---|---|---|---|
| Buffer pool | `src/stream_buffer.cpp`, `inc/stream_buffer.h`, `inc/jutils.h` | ten `JBuffer`s, `mEmptyQ`, `mFilledQ`, a mutex for each queue | `makeBuffer`, `getEmptyBuffer`, `putEmptyBuffer`, `getFilledBuffer`, `putFilledBuffer` |
| Receiver thread | `src/receiver_base.cpp` | local `buffer`, the buffer's `mFilledLen` | constructor (starts the thread), `threadRun`, base `recvStream` |
| Checker thread | `src/checker_base.cpp` | local `buffer` | constructor (starts the thread), `threadRun`, base `checkStream` |
| Decoding loop | `src/h264_checker.cpp:111-187` | `mPkt`, `mFrame`, `mParser`, the decoder's own state | `checkStream`, `decode` |
| Frame verdict | `src/h264_checker.cpp:189-363` | `frameCount`, `totalCount`, `framePassedCount` | `checkFrame` |
| File input | `src/file_receiver.cpp` | `mTmpBuffer`, `mFilledSize`, `mFoundBegin`, `mFoundEnd`, the file position | `recvStream`, `getOneFrameStream`, `readStreamFromFile`, `fillStreamBuffer`, `moveTmpBuffer` |
| UDP input | `src/udp_receiver.cpp` | `mInited`, `mSockFd`, `offset` | `recvStream`, `haveAud`, `adjustStreamOffset` |
| Start-up | `src/chk_strm_entry.cpp:272-361` | `chk_info` | `main` |
| AUD insertion | `src/chk_strm_entry.cpp:96-270` | position in the file, remembered lengths, table of frames, `tmp.h264` | `getH264Nalu`, `getFrameInfoOfVideoFile`, `addAudInfoForCustomH264` |

How they interact. `main` builds the pool, the checker and the receiver, in
this order, and then sleeps for ever; between the checker and the receiver it turns a
Custom-H264 file into `tmp.h264`, which the receiver then reads. The base constructors start one thread
each. The receiver thread takes a buffer from `mEmptyQ`, calls the virtual
`recvStream` and puts the buffer on `mFilledQ`; the checker thread takes it
from there, calls the virtual `checkStream` and puts it back on `mEmptyQ`.
A get from an empty queue returns null, and the thread sleeps and polls. The
process ends only by `exit()`, called in the middle of `recvStream`,
`checkStream` or a constructor, whatever the other thread is doing.

What is hard here: the two threads around the pool; `exit()` with frames in
flight; objects that threads use while they are being constructed; frames split
by reads and datagrams at every position; a network that loses, duplicates and
reorders; a decoder that gives pictures back later than their packets; a
verdict reconstructed from counters; and frames located by adding up lengths,
in a file that is read before it has been flushed. The list, each item with its line and the
properties that cover it, is under `hazards` in `PROJECT.json`.

## Modules

| Module | Models | Composition |
|---|---|---|
| `StreamBuffer` | the pool: taking a mutex and the body of an operation are separate steps | |
| `StreamPipeline` | both `threadRun` loops | EXTENDS `StreamBuffer`; implements `FrameChannel` |
| `FrameChannel` | abstract: a bounded FIFO channel of numbered frames that may be closed | |
| `FrameVerdict` | `checkFrame` | |
| `H264Checker` | `checkStream`, `decode` and the part of FFmpeg that decides when a picture comes out | EXTENDS `FrameVerdict` |
| `FileReceiver` | the file input | |
| `UdpReceiver` | the UDP input, a sender and a faulty network | |
| `AudInserter` | the AUD insertion for Custom-H264 files | |
| `CustomFile` | a Custom-H264 file on its way to the checker | EXTENDS `AudInserter`, with an INSTANCE of `FileReceiver` that reads `tmp.h264` |
| `CheckTool` | the tool on a file, from `fread` to the verdict | EXTENDS `StreamPipeline`, with INSTANCEs of `FileReceiver` as its `recvStream` and of `H264Checker` as its `checkStream`; implements all three |
| `Startup` | `main`, the constructors and the virtual calls the threads make meanwhile | |
| `StreamPipelineProofs`, `H264CheckerProofs`, `FileReceiverProofs`, `UdpReceiverProofs`, `CustomFileProofs`, `StartupProofs`, `CheckToolProofs` | theorems | EXTEND the module they are about and `TLAPS`; those about `FrameVerdict` stand at the head of `H264CheckerProofs`, those about `AudInserter` at the head of `CustomFileProofs`; `CustomFileProofs` takes the theorems about the file input from an INSTANCE of `FileReceiverProofs`, `CheckToolProofs` those about the file input and the decoding loop from INSTANCEs of theirs, and EXTENDS `StreamPipelineProofs` |
| `SequenceLemmas` | lemmas about sets of numbers, sequences and `FlattenSeq` | used by the proofs about `UdpReceiver`, `AudInserter` and `CustomFile` |
| `MC...` | the instances TLC checks | EXTEND the module of the name |

Definitions marked `Mutant` are variants of the definition that follows them,
with the kind of mistake the code could have contained. No specification uses
them: each is there to show that a property notices the mistake, by taking the
place of the definition it varies.

### StreamBuffer and StreamPipeline

`pc[t]` is the call a thread is about to make; `...Locked` is the same call
once the mutex is taken. The bodies do not look at the mutex, so mutual
exclusion is a property (`LockDiscipline`) and not a guard. `buffer[t]` is the
local pointer of `threadRun` and keeps its value after the buffer has been
given away, so a use of the stale pointer can be expressed. `recvStream` leaves
any length of `FrameLens` in the buffer or ends the process; a result no
longer than an AUD (6 bytes) goes back to `mEmptyQ`, with its `mFilledLen`
as it is. Frames longer than that are numbered on arrival, `mData` is the
number in each buffer and `checked` the numbers `checkStream` was given. The
error returns of the two virtual calls are left out: the derived functions
return 0 or do not return. The test-and-set of `checkStream` on the buffer is
one step; `StableWhileChecked` says why it may be.

`FrameChannel` is what the three parts promise together. Under the mapping of
`StreamPipeline!Channel` the channel's content is the checker's frame, the
queued ones and the receiver's, in this order.

### FrameVerdict

A frame is a record of the values `checkFrame` reads. `Passes(f, k)` is test
`k` as coded, `Conforms(f)` the standard written independently of it, with the
limits themselves allowed: on this point it follows the tests and not the wording of two
messages (see below). `CheckFrame` is the whole function. The counters are taken modulo `Modulus`
(2^32 in the code) and start with any of `InitialCounts`, because the
constructor does not set them. `Decodable` is the one fact about the decoder the
tests rely on: it rejects an SPS with two different bit depths
(`h264_ps.c:408`), which makes the `&&` of test 4 harmless.

### H264Checker

`inPkt`, `bufferFrame` and `delayedPic` are the packet waiting in the bitstream
filter, the picture in `avci->buffer_frame` and `h->delayed_pic`;
`has_b_frames` may grow up to `Delay`. `SendPacket` is
`avcodec_send_packet`, which decodes at once when no picture is waiting;
`ReceiveFrame` and `ReceiveNothing` are the two outcomes of
`avcodec_receive_frame` in the loop of `decode`. A packet holds one picture.
Which of the delayed pictures is output is left open (the code takes the lowest
picture order count). `judged` records, for each call of `checkFrame`, the
picture received and the packet whose values were tested.

### FileReceiver

A file is a sequence of symbols: `H` a start code `00 00 00 01`, `A` the
`09 10` that makes the start code before it an AUD, `X` anything else. A read
can therefore end between the two halves of an AUD. Reads, offsets and sizes
count symbols, with `sizeof(kAudHex2)` = 2 and `sizeof(kHeaderHex2)` = 1, so
the arithmetic of the two search loops keeps its off-by-ones. `delivered` is
what successive calls of `recvStream` return, `exit` how the process ends. There are
two ways with code 0: `Passed`, with the message "stream TEST PASSED", when the first read of
all is short, and `Ended`, without a message, when a later one is. Only the second can find
frames in the pool, which `CheckTool` is about.
A split inside a start code is not represented; the code treats it like one
between the halves of an AUD (the comparison fails at that offset).

### UdpReceiver

The same abstraction, with `S` for the short start code and `Payload` for every
other symbol. The sender and the network are external. A negative value in the
uninitialised `sockLen` makes `recvfrom` fail (`RecvFails`). `StreamsWellFormed`
says that no frame holds an AUD but the one at its end: `MCUdpReceiver` assumes
it of the streams of the `udp` run (TLC evaluates that), and the theorems about
frames assume it.

### AudInserter and CustomFile

A file is a sequence of symbols: `H` the start code `00 00 00 01`; `SEI`, `SPS`
and `PPS` the header of such a NAL unit; `A` the `09 10` of an AUD; `X` any other
header and payload. `ParseNalu` is one turn of the loop of
`getFrameInfoOfVideoFile`, with the call of `getH264Nalu` it makes. As coded:

- the length of the file's last unit comes out two too large;
- the lengths of parameter sets and SEI are remembered for ever, and added to a
  frame's when a PPS has been seen since the last frame (an SEI before a frame
  without a PPS is dropped);
- `frameCount` is the index of the last frame, so that frame is never copied
  (which also hides the wrong length), and one table entry beyond
  `VIDEO_FRAME_MAX_COUNT` is written;
- a file that cannot be opened with `rb+` is reported and used
  (`WriteCrashes`), a missing one is read like an empty one.

`WriteFrame` is one turn of the loop of `addAudInfoForCustomH264`. In
`CustomFile`, `OpenTmp` hands what stdio has written so far to `FileReceiver`:
up to `StdioBuffer` symbols of the end may be missing, since `fpFileOut` is
neither flushed nor closed. With no frame in `tmp.h264` the run of `FileReceiver`
that follows prints "stream TEST PASSED" at once. NAL units are taken to fit the
buffer of 1 MiB. `Regular` names the files whose units make complete access
units, the only ones for which the sums of lengths are claimed to be right.

### CheckTool

`MODE_FILE_READER` with a file in the right format: what `FileReceiver` does inside
`recvStream`, what `H264Checker` does inside `checkStream`, and the other steps
of the two threads interleave freely. The state is that of the three modules
(`filePc`, `fileExit`, `decoderPc`, `decoderExit` are the `pc` and `exit` of the
inner two), with `data`, the content of each buffer, and `parsed`, all that
`av_parser_parse2` was given. A step of the composition is

- `PoolStep`: a step of `threadRun` outside the virtual calls;
- `RecvRuns`: a read or a search of `recvStream`;
- `RecvReturns`: the frame is found, copied to the buffer, and `recvStream`
  returns. Of its length only the AUD test matters;
- `RecvEnds`: `exit()` in `recvStream`, whatever the checker is doing;
- `CheckStarts`: `checkStream` parses the buffer. Which values `checkFrame` will
  read of the frame is left open;
- `CheckRuns`: a step of `decode`, with the return of `checkStream` at its end.

`AllFrames` are the frames of the file cut at every AUD, `FramesToCheck` those that
are more than an AUD, both defined from the file alone. `Due` counts those that end
before its last `mBufferSize` bytes.

### Startup

One action per part of construction between which a thread can observe a
change: the base constructor (starts the thread), the entry into the derived
constructor (the vtable pointer changes), and the members `recvStream` waits
for, one after the other. `AddAudInfo` is the AUD insertion, of which only
matters here that it returns or ends the process. A member is `Null`, `Good`, or `Junk` when it is not
null and not set. `CallRecvStream` dispatches on the class the vtable pointer
names at that moment.

## Runs

Every run finishes within two minutes.

| Run | Shows |
|---|---|
| `pipeline` | three buffers, five frames, lengths 6 and 7 (both sides of the AUD test), `exit()` with either code at any call of `recvStream`: `Ownership`, `LockDiscipline`, `InOrder`, `CheckerSeesFilled`, `StableWhileChecked`; unless the process ends the receiver is always served; the pipeline implements `FrameChannel`, liveness included: every frame received is checked |
| `file` | all files of up to 8 symbols, buffer of 4: frames are exact, no frame shorter than `kStreamMaxSize` is rejected, less than a buffer is lost at the end, the process ends |
| `udp` | five streams of three frames, up to two faults, whatever `sockLen` holds: without a fault frames arrive whole, all of them; resynchronisation; exits that are justified |
| `checker` | four packets, reordering by up to two pictures, rejections and late pictures: the decoder is drained, every packet is accounted for, `checkStream` returns; the verdict is exact about the packets judged and the count printed is right; when nothing was delayed or rejected a pass covers every frame. On one conforming frame, six at a limit, thirteen beyond one and two the decoder rejects, the tests as coded agree with the standard (`TestsAreTheStandard`, an assumption TLC evaluates) |
| `custom` | all Custom-H264 files of up to seven units, and with odd units (empty, long, an AUD, no start code) of up to four: what is copied lies in the file and is an access unit with its AUD, every frame but the last is copied, the checker is given these access units, and only those at the end of `tmp.h264` are lost |
| `tool` | all files of up to four pieces (frames of two sizes and AUDs alone), and of up to two when data without an AUD are among them, two buffers, a conforming and an oversized frame: the parser is given the frames of the file, at `exit(0)` fewer frames are unchecked than there are buffers besides those in the last buffer of the file, a last "passed" is about all the others, the three parts are implemented, the tool ends |
| `startup` | every command line, three buffers, zeroed memory: the checker is complete when it is first called, the receiver waits for its members, the real `recvStream` is reached |

Deadlock is checked in none of the runs: the process may exit or the input run out.
In its place stand the liveness properties: `ReceiverServed` and `ImplementsChannel`
fail in a pipeline whose threads wait for each other, and `ToolEnds` in a tool that
hangs.

The bounds. In the pipeline the frames outnumber the buffers, so every buffer
is used again, both queues get empty and full and the receiver meets an empty
pool. With a file twice as long as the buffer an AUD falls on every position of
a buffer, on its end, and across two reads. The frame `FrameD` fills the UDP
buffer exactly, its AUD included, and lost datagrams make two frames too long
for it. Four packets exceed a delay of two in each direction. They
are of five kinds: at every limit, failing one test by the resolution or by both bit depths,
failing two tests, and with one wrong depth, which no test would notice and the decoder does
not let through. What the verdict depends on is the number of tests each frame
passes; the proofs cover every frame and every length. Seven
units are two complete access units and a frame, or more frames than the table
of four has room for; the buffer of nine symbols holds the longest regular
access unit with its AUD and less than two of them, and two symbols are the AUD that stdio
may hold back. In `tool`
four frames pass through two buffers, so each is used again while the other is being
checked, and the buffer of five symbols is shorter than most files, so that frames come
from before and from within its last buffer, and data without an AUD can fill it; `MaxFrames` of six is never reached, and a
modulus of 128 leaves room for the tests of all frames. A picture may be held back; refused and late
packets (`MayFail`, `MayDrop`) are left to `checker`. In
`startup` the pool can fill up with buffers of the base `recvStream`.

### Where the code and what it says differ

Each of these runs checks one statement of a comment or message and finds a
behaviour of the code that contradicts it. Details are in `PROJECT.json`.

| Run | Statement | What happens |
|---|---|---|
| `file_passed` | "Read stream end, stream TEST PASSED" | the file does not fill the buffer, and none of it has been looked at |
| `file_limit` | "Stream size should not more than %d bytes" | a frame of exactly that size is rejected |
| `verdict_garbage` | "all frames has passed" | the counters are uninitialised |
| `checker_delayed` | "all frames has passed" | the values tested are those of a later packet than the picture's |
| `udp_coalesced` | "until single complete stream is got" | an AUD inside a datagram is passed over |

The models contain more of the kind, as parameters or as conditions of
properties, that have no run of their own:

- The messages of two tests say "should less than 5.1" and "should less than
  1920*1088" (`h264_checker.cpp:232` and `339`), and level 5.1 and 1920x1088 pass:
  `TestsAreTheStandard` names these frames among those that pass, and `Conforms`
  allows them. What `VerdictExact` and its like say is relative to `Conforms`.
- At the end of a longer file `exit(0)` comes without a message, the one of
  `file_receiver.cpp:114` being commented out, and with frames unchecked: what the last
  verdict is then about is said by `FewUnchecked` and `PassedCoversFile`.
- `mFoundEnd` is uninitialised (`file_receiver.cpp:154`): with other values than
  0 in `InitialFound`, data without an AUD are returned as the first frame.
- `totalCount` wraps after 2^32 / 11 frames (`h264_checker.cpp:344`): `NoWrap`,
  the condition of the verdict's properties.
- A packet the decoder rejects is not counted (`h264_checker.cpp:151`):
  `VerdictCoversPlainStream` speaks of streams without one.
- `sockLen` is uninitialised (`udp_receiver.cpp:115`): `RecvFails`.
- Of a frame that begins with a short start code and holds a long one,
  `adjustStreamOffset` drops the beginning; with a long AUD behind a single
  slice nothing but the AUD is left, which is then ignored
  (`receiver_base.cpp:121`): `Headed`.
- The base `recvStream`, which should never be called ("The real recvStream
  program should be implenmented in the derived-class"), is called when the
  thread is quicker than the constructor. It sets `mFilledLen` to `mSize`, so that a
  whole buffer of whatever `malloc` left there goes to `mFilledQ`: `BaseRecvStream`.
- The last frame of a Custom-H264 file is not checked, nor is what is beyond
  `VIDEO_FRAME_MAX_COUNT`: `EveryFrameWritten`.
- The members that the wait loops of `recvStream` test are uninitialised until
  the derived constructor sets them: with `Junk` in `Memory` the loops are
  passed too early.

## Fairness

- `StreamPipeline`: weak fairness for each thread's steps, because a runnable
  thread keeps running and `checkStream` returns (`CheckStreamReturns` in
  `H264Checker`). Strong fairness for taking a mutex: it is held for one push or
  pop and the other thread sleeps between two polls, so a waiting thread finds
  it free again and again. None for `recvStream`, which waits for input.
- `FileReceiver`: weak fairness of the next step; reading a file does not block.
- `UdpReceiver`: weak fairness of the sender and of `recvfrom`, which returns
  when a datagram is there, with either result. The network need not commit
  faults, and nothing is claimed about liveness once it has.
- `H264Checker`: weak fairness of the steps inside `checkStream`.
- `CheckTool`: that of `StreamPipeline` for the threads, and weak fairness of the
  steps inside each of the two virtual calls: reading a file and decoding do not block.
- `Startup`: weak fairness of `main`'s steps, of the calls of `recvStream` and
  of the checker; none of the derived `recvStream`.

## Proofs

`StreamPipelineProofs` proves for every number of buffers, every set of frame
lengths and exit codes and every bound on the frames that each safety property
of the `pipeline` run is an invariant (`StableWhileChecked` is an action
property). Assumed: `BufferNumber` is a positive number, `FrameLens` a set of
positive numbers, `ExitCodes` a set of numbers below 256. The argument:

- `TypeOK` is inductive, and so is `LockDiscipline` with it.
- `Ownership` is inductive with `TypeOK`: a buffer leaves one place only to
  enter another, by `PushFacts` and `PopFacts` about queues without
  repetitions. The local pointer a thread still has after a put does not count,
  because `Owns` looks at `pc`. Mutual exclusion is not needed, since the
  bodies are single steps.
- `CheckerSeesFilled` is not inductive. `LongFrames` is: every buffer in
  `mFilledQ`, at the receiver on its way there, or at the checker, is longer
  than an AUD. It rests on `Ownership`, since `recvStream` must not shorten a
  buffer that is in `mFilledQ`.
- `InOrder` is inductive with the three before it: `recvStream` renumbers a
  buffer that is neither queued nor the checker's, and a frame is appended to
  `checked` because its buffer is not empty (`LongFrames`).
- `StableWhileChecked` follows from `Ownership`.

The first part of `H264CheckerProofs` proves of `FrameVerdict` `TypeOK` for
every modulus and any initial contents, and, for counters that start at 0
(`InitialCounts = {0}`, an assumption of the theorems), that the verdict is
exact, final and prints the length of the conforming prefix. The inductive
invariant `Counts` ties the counters to the history: `frameCount` is its
length, `totalCount` at most eleven times that and equal exactly when all
frames conform, and `framePassedCount` is the length of the longest prefix that
conforms. `NoWrap` (eleven tests a frame fit into the modulus) bounds it all.

`PipelineIsChannel` adds that every step of the pipeline is a step of
`FrameChannel` or a stutter. The channel's content is the interval of numbers
between the last frame checked and the last received (`InFlightAre`, from
`InOrder`), and it has room for the frame a receiver is filling because
that buffer holds none of them (`RoomForFrame`, a pigeonhole argument from
`Ownership`).

`FileReceiverProofs` covers every file and every buffer size. `Placed` (inductive)
says that `mTmpBuffer` is the part of the file that ends at the file position,
from which types and `BufferIsFilePart` follow, whatever `mFoundEnd` held first. The
types include that `mFoundBegin` and any `mFoundEnd` a search has set lie in what the buffer
is filled to (`SearchStays`).
For `InitialFound = {0}`, `Progress` says that the part consumed so far ends at a
cut and that as many frames have been delivered as there are cuts up to there;
from it follow exactness of the frames, that no frame shorter than `StreamMaxSize` is
rejected, and the bound on the tail. Minima of sets of positions come from the
well-foundedness of the naturals (`WFMin`).

`UdpReceiverProofs` proves for every stream, payload and size of the buffer, and
any number of faults, that types are right and exits justified. `Held`: while the
loop runs, the buffer holds no more than has arrived since the last end of a
frame.

It then proves, for streams of well-formed frames, `FramesIntact` and
`Resynchronises`. Both rest on `OneMore`: if the buffer holds the first
datagrams of a frame and the next one arrives, then the frame is complete and
recognised, or it does not fit, or the buffer holds one datagram more and no AUD
is seen. `RunHeld` (inductive) says that the buffer holds what has arrived of a
frame that began behind the end of another, whatever came before; `InOrder`,
as long as there is no fault, that what is under way follows what has arrived,
which ends amid the frame to be delivered next.

What `FlattenSeq` does is proved from its definition in `SequenceLemmas`
(`FlattenAppend`): two partial results of its recursion agree where their
sequences do, by the least place where they would not. `PrefixGrows` and
`ElementAt` then say where the elements are found in the whole.

`CustomFileProofs` first proves all safety properties of `AudInserter` for every file
and every capacity of the table. `Sound` is inductive and gives `TypeOK` and
`ReadsWithinFile` for every file, regular or not: the remembered lengths belong to
different units before the current position, so their sum cannot exceed it, and
each entry of the table but that of the file's last unit fits the file. What is
written needs more, `Faithful`, the conjunction of `Sound` with

- `Scanned`: the parser stands at a start code or at the end of the file, and there
  are as many entries as frames before it, so the k-th entry is the k-th frame's;
- `Rows`: the k-th entry ends where the k-th frame ends and is no shorter than it;
- `LeadKept`: in a regular file, the units since the last frame are of different
  types, the flags say whether a PPS and an SEI are among them, and the lengths
  remembered for these types add up to the distance from the last frame. Lengths
  of types that are not among them are stale and are not added;
- `Aligned`: in a regular file, every entry but that of the last unit begins where
  its access unit begins. It is this entry whose length is two too large;
- `Copied`: `tmp` is what the entries say, entry by entry, with the AUDs;
- `Ending`: `tmp.h264` is written only when the whole file has been parsed or the
  table is full, and `frameCount` entries of it are copied.

`EveryFrameWritten` follows from `Rows`, `Copied` and `Ending`: that the entry of
the last unit is never among those copied, which makes its length harmless, comes
from `frameCount` being one less than the number of entries. `WritesAccessUnits`
needs `Aligned` besides.

It then composes the two programs on either side of `tmp.h264`. Assumed
are `AudInserter`'s constants as above, a buffer longer than an AUD with
`StreamMaxSize` at most as long, and any number of symbols held back by stdio;
the two theorems about frames assume `InitialFound = {0}`, like those about
`FileReceiver`. The inductive invariant `Composed` is `Faithful`, and, from the
moment `tmp.h264` is opened, `FileReceiver`'s invariant `Placed` and `Progress`
about the file `Opened`, a beginning of what `tmp` flattens to. Neither proof is
repeated: the steps of one program leave the variables of the other alone, and
`FileReceiver`'s lemmas are cited from the instance, whose assumptions are
`ReaderAssumptions`. What is new is how the two notions of a frame meet:

- `EndIsCut`: every piece of `tmp` ends in an AUD, so its end is a cut of the file
  opened, if it is in it. Since there are as many ends as pieces
  (`FirstEndsCount`) and `FileReceiver` delivers all cuts but those in the last
  buffer, `CustomTailBounded` follows, for any file;
- `CutIsEnd`: if the file given holds no AUD, there are no other cuts, so the n-th
  cut is the end of the n-th piece (`NthCutIs`);
- `PieceIsFrame`: if the file is regular besides, every piece begins with a start
  code, where `FileReceiver` therefore begins the frame. With
  `WritesAccessUnits` that gives `CustomFramesFaithful`.

The rest of `H264CheckerProofs` covers any number of packets and any delay. `Drained`: in
`idle` the decoder holds no packet and no finished picture, so a send is never
refused for lack of room. `Places`: the packets parsed are those judged, refused, lost or in one
place of the decoder. `JudgedUpTo`: the last packet tested is no later than
the one in hand. `PlainVerdictIsRight` assumes counters that start at 0 and
`11 * MaxFrames < Modulus`; it combines `JudgedAsSent` (without delay or rejection
the history is the packets in order) with `Counts`.

`CheckerImplementsVerdict`: every step of the decoding loop is a step of `FrameVerdict`
or leaves its variables alone, so the theorems about the verdict hold of it.

`CheckToolProofs` puts the three components together, for every file, every number of
buffers, every size of the file buffer and every stream, under the assumptions on the
constants that the components make. `ToolImplementsParts`: each step of the composition
is a step or a stutter of `StreamPipeline`, of `FileReceiver` and of `H264Checker`. The
only case that needs an invariant is the return of `checkStream`: the decoder cannot
reach its `exit(1)` (`Drained`), and the pipeline has no step for it. By these steps the
invariants of the three parts carry over, and their lemmas are cited and not repeated.
What is new is the invariant `Linked`:

- `Filled`: `received` is the number of frames delivered that are more than an AUD, and
  the number `mData[b]` of a buffer is the number of the frame in `data[b]`
  (`IsLong`). That a buffer is not overwritten while it is in use comes from the numbers:
  `recvStream` changes number and content together;
- `Parsed`: there is one packet of the decoder for each frame the thread was given, the
  k-th sequence parsed is the k-th of the frames delivered that are more than an AUD,
  and the decoder runs only while the thread is in `checkStream`;
- `Exited`: the process runs as long as `FileReceiver` does, and code 0 means
  the end of the file.

`ToolInv`, the conjunction of the four, is inductive. With it:

- `ParsedAreTheFrames`: the frames delivered are the first frames of the file
  (`FramesAreExact`), so numbering the long ones of either gives the same
  (`LongOnesAgree`, `IsToBeChecked`);
- `FewAreUnchecked`: at the end of the file all frames due have been received
  (`DueIsReceived`, from `TailIsBounded`'s argument), and those not checked are in
  buffers, of which one is the receiver's (`RoomForFrame`);
- `PassCoversFile`: the packets whose tests are done conform (`ConformingPackets`, from
  `Counts` and `JudgedAsSent`), and the two theorems above say which frames of the
  file these are.

All three assume `InitialFound = {0}`, as the exactness of the frames does: with another
value the code may deliver data that are no frame. `PassCoversFile` also assumes
counters that start at 0 and `11 * MaxFrames < Modulus`, without which the verdict
itself means nothing (the runs `verdict_garbage` and the condition `NoWrap`).

`StartupProofs` proves for any pool and any unset memory that types are
right and the checker comes first (`Order`: what exists at each step of `main`), and
for zeroed memory that nothing is read unopened (`Opened`).

Every safety property of the passing runs is proved in this way. Only
model-checked is liveness (`ReceiverServed`, `Terminates`,
`EveryFrameDelivered`, `CheckStreamReturns`, `RealRecvStreamReached`, `ToolEnds`) and the
fairness of `FrameChannel`, which are out of the provers' reach.

## Not modelled

- `getopt`, the usage text, logging: no state of interest.
- Destructors and `mIsStop`: never reached.
- FFmpeg (`src/middlewares/FFmpeg`), the vendored decoder, but for what
  `H264Checker` and `FrameVerdict` state about it. It makes up all but about a
  thousand of the repository's lines of C: the tool's own code is modelled
  almost entirely, and is a small share of the whole.
- The dump of the first pictures to files (`pgm_save`).
- Two exits that would add nothing: `exit(1)` in a base constructor that cannot start its
  thread, and in `checkStream` after an error of `av_parser_parse2`, which does not fail on
  complete frames.

## Plan

Done, in this order: the pool and the two threads with their abstract channel
and proofs; the verdict with its proofs; the file input; the UDP input; the
decoding loop; start-up; the AUD insertion and its composition with the file
input; the proofs about both inputs, the decoding loop, start-up, the AUD
insertion and its composition with the file input; the refinement of the channel;
the tool on a file as a whole, with its proofs.

Next:

1. The order in which `h264_select_output_frame` gives delayed pictures back,
   which `H264Checker` leaves open.
2. `CheckTool` with `UdpReceiver` in the place of `FileReceiver`: what a verdict
   says about the frames sent.
