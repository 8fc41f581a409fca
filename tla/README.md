# VideoCore: TLA+ models, checks and proofs

VideoCore (the `src/` of this repository) is a C++ and Objective-C library that
captures audio and video on iOS, mixes and encodes them, and publishes them to
an RTMP server. This directory holds TLA+ modules of the parts of it whose
correctness depends on ordering, on several threads, on how bytes happen to
arrive or on arithmetic at a boundary, the TLC configurations that check them,
and proofs for TLAPS.

## 1. Inventory

| Component | State | Operations | Talks to |
|---|---|---|---|
| `rtmp/RTMPSession` sending | job queue, network queue, `m_bufferSize`, `m_clearing`, `m_sentKeyframe`, `m_outChunkSize`, `m_ending` | `pushBuffer`, `sendPacket`, `sendSetChunkSize`, `sendPong`, `write`, destructor | packetizers call it; it calls `StreamSession::write` and adds throughput samples |
| `rtmp/RTMPSession` receiving | `m_state`, `m_streamInBuffer`, `m_s1`, `m_inChunkSize`, `m_previousChunk`, tracked commands | `streamStatusChanged`, `dataReceived`, `handshake*`, `parseCurrentData`, `handleMessage`, `handleInvoke` | called by `StreamSession` on its run loop; reports its state to the session object; sends commands |
| `system/PreBuffer` | two positions in a block | `ensureCapacityForWrite`, `didWrite`, `didRead`, `reset` | `RTMPSession` |
| `system/Buffer.hpp` | array, two positions, size; AMF writers | `put`, `get`, `unget`, `read`, `put_...` | `RTMPSession` (AMF), `GenericAudioMixer` (created, unused) |
| `stream/Apple/StreamSession` | stream pair, run loop, `m_status` bits | `connect`, `disconnect`, `read`, `write`, stream events | called on the network queue and on its run loop |
| `stream/TCPThroughputAdaptation` | samples, trend, turning points, thread, exit flag | `start`, `add...Sample`, `sampleThread`, destructor | samples come from `RTMPSession`; its thread calls the bandwidth callback |
| `system/JobQueue` | a GCD queue, or a thread with a list of jobs | `enqueue`, `enqueue_sync`, `mark_exiting`, destructor | everything asynchronous |
| `api/iOS/VCSimpleSession` | `_bitrate`, `_bpsCeiling`, graph queue, output session, encoders, packetizers | start, continue, pause, end, setters, state callback, bandwidth callback | the application; owns all of the above |
| `mixers/GenericAudioMixer` | ring of ten windows, mix thread, mix queue | `pushBuffer`, `mixThread`, `resample`, sources and gains | sources push, the audio encoder receives |
| `mixers/Apple/AudioMixer` | converters by format | `resample`, `ioProc` | replaces `resample` of the generic mixer |
| `mixers/iOS/GLESVideoMixer` | textures, layers, matrices, filters, mix thread, GL queue, two frame buffers | `pushBuffer`, `mixThread`, `setSourceFilter`, `mixPaused` | sources push, `Split` receives |
| `filters/` | per filter: program, vertex array, matrix | `initialize`, `bind`, `unbind`, the factory's `filter` | the video mixer |
| `transforms/AspectTransform`, `PositionTransform` | size, mode, scale, dirty flags | setters, `pushBuffer` | between a source and the video mixer |
| encoders, `Split`, packetizers | converter and bit rate; list of outputs; configuration known and sent | `pushBuffer`, `setOutput`, `removeOutput`, `setBitrate` | mixers push, `RTMPSession` receives |
| `sources/iOS/VCWriter` | start times, pause offsets | start, finish, pause, encode | capture callbacks |
| sources, pixel buffers, preview, logger, samples, `MP4Multiplexer`, `h264/Golomb` | device handles and wrappers; the last two are not used | forwarding and drawing | the mixers |

What is hard in this code:

* **Threads without locks.** `m_bufferSize`, `m_clearing`, `m_sentKeyframe` and
  `m_status` are changed by two threads each; `_bitrate` and `m_outputSession`
  by three; the settings of the transforms by one while another reads them; the
  mix thread and the mix queue work on one ring.
* **Destruction and replacement.** The destructors of `RTMPSession`, `JobQueue`
  and `TCPThroughputAdaptation` wait for queues and threads whose work uses the
  object that is being destroyed; `AACEncode::setBitrate` replaces the converter
  the mix thread encodes with.
* **Connecting a running graph.** Encoders, splits and packetizers are connected
  one after the other while the mixers run, and disconnected with each session.
* **Discarding.** When the send buffer is over its limit, queued messages are
  dropped up to the newest keyframe while a message may be half on the wire.
* **Arbitrary cuts of the byte stream**, chunk sizes that change in it, and
  buffers whose positions wrap or are reset.
* **Late blocks.** What a callback enqueues on the graph queue, or a push on the
  GL queue, runs after whatever was enqueued before it.

`PROJECT.json` lists the hazards line by line, with the properties that are
about each.

## 2. Modules

| Module | Models | Needs |
|---|---|---|
| `RTMPSend` | the sending half of `RTMPSession`, with its two GCD queues | |
| `RTMPReceive` | the receiving half | |
| `StreamSession` | events, reads and writes of the socket, and the status word | |
| `AMF` | the command bodies, `put_...`/`get_...`, `parseStatusCode` | |
| `ByteQueue` | what a byte buffer promises (abstract) | |
| `RingBuffer`, `PreBuffer` | the two byte buffers | implement `ByteQueue` |
| `SerialQueue` | what a job queue promises (abstract) | |
| `JobQueue` | the job queue built with a thread | implements `SerialQueue` |
| `TCPThroughputAdaptation` | samples, trend, thread, destructor | |
| `VCSimpleSession` | the session object | |
| `Split` | the list of outputs, as operators | |
| `MediaPath` | encoders, packetizers and how they are connected | extends `Split` |
| `GenericAudioMixer` | the audio mixer's ring and threads | |
| `AudioFormats` | its sample arithmetic; the AudioSpecificConfig | |
| `AppleAudioMixer` | the table of converters and `ioProc` | |
| `VideoFilters` | the filters and what they leave in the OpenGL context | |
| `VideoMixer` | the video mixer | extends `VideoFilters` |
| `VideoTransforms` | the two transforms and their dirty flags | |
| `Calculations` | the inputs of the calculations, and what these promise | extends `AMF`, `AudioFormats`, `VideoFilters` |

`Parts` puts the ones that stand alone (the byte buffers, the stream session, the
transforms, the converters and the throughput adaptation) side by side, one of
them running in each behaviour. `Calculations` does the same for what depends on
its input alone: a behaviour is one calculation. An `MC...` module gives TLC an
instance; `MCParts` is one of both. A `..._proof` module holds the theorems about
a module.

### RTMPSend: the sending half of RTMPSession

State and actions follow the two serial queues. A job thread (`Job...`) takes a
packet, cuts it and runs `write`: load and store of `m_bufferSize`,
`m_sentKeyframe`, `m_clearing`, then the hand-over to the network queue. A
network thread (`Net...`) runs the lambda of `write`: the three tests of the
loop condition, the reset of `m_clearing`, one call of `StreamSession::write`
(any part of what is left, nothing, or -1), the wait on the semaphore, and the
load and store of `m_bufferSize`. A destructor thread (`Dtor...`) runs
`~RTMPSession`. `HasSpaceAvailable` and `StreamFails` are the socket. Each
access to a shared variable is a step of its own. A message is identified with
its `packetTime`, which is its position in the order of `write` calls, because
one thread takes the times from a steady clock.

Left out: payload bytes and timestamps. The bodies of commands are in `AMF`.

### RTMPReceive: the receiving half

Bytes are counted: `arrived`, `written` and `pos` are positions in the server's
byte stream, `base` is where the receive buffer starts in it, so that
`availableSpace`, `availableBytes` and the reset of `didRead` are the code's
arithmetic. The run loop is one thread: `Event...` are what `nsStreamCallback`
passes to `streamStatusChanged`, and `ReadStream`, `ParseEnds`, `ParseS0`,
`ParseS1`, `ParseS2` and `ParseMessage` are the turns of the two loops of
`dataReceived`, with `stop1` and the status bit. The network (`Deliver`) adds
any number of bytes at any time. The server is external: after C0 and C1 it
sends S0 S1 S2, after the connect command messages of any type, length and
header form, cut by the chunk size it announced last; replies follow their
commands.

Left out: a wrong protocol version, messages with a type 3 header, more than
one chunk stream, chunk sizes of 0. An error or the end of the connection is the
last event of a stream pair.

### StreamSession

The run loop is in an event of the system's streams, in `setStatus`, or in the
loop of `dataReceived` with its `read`; the network queue is in `write`. Each
loads `m_status`, changes one flag of what it loaded and stores it, in steps of
its own; between the test of a flag and its change the word may or may not be
loaded again. `lost` remembers that a store overwrote a change. The input stream
reports bytes once and then not before the next read, and a read of an open
stream without bytes waits.

Left out: `connect` and `disconnect`, and a full receive buffer, which is part
of `RTMPReceive`.

### AMF

Bytes are digits to a base that is a constant, 256 in the code; a smaller one
moves the limit between a short and a long string within TLC's reach. The
commands are the sequences of markers, names and values the `send...` functions
write, and `WellFormed` walks them. `parseStatusCode` and
`amfPrimitiveObjectSize` step over the server's answer as the code does,
including the length of a string that is read one byte too early. The two loops
are functions of the position they start at (`FoundObject`, `CodeIn`), and 0
stands for a position outside the answer. Names and texts are copied into arrays
of 128 characters that end with a zero: names of more characters, or with a zero
in them, are not modelled.

### The byte buffers

`RingBuffer` has the array, `m_size`, `m_read` and `m_write`, and transfers in
two stretches around the end of the array (`Filled` and `Emptied` are the array
behind it, `Bytes` what is copied out). `PreBuffer` has the block, which
`ensureCapacityForWrite` grows behind the write pointer, and the two pointers,
which `didRead` resets when all was read. Both number the bytes as they are
written, and map what lies between their positions to `ByteQueue!held`. What
can be put back with `unget` is in the history variable `taken`. `read` with
`advance` moves to the start of the array wherever it ends (a FIXME in the
code says so), so it is an action only where it ends at the end of the array.

### SerialQueue and JobQueue

`JobQueue` is the build without GCD: the worker's turn is `Look` (test and pop
under the mutex), `Run`, `RunNotify`, `LoopTest`, and `Wait`, which is entered
from `toWait`, a place of its own between the test and the wait. `enqueue` is a
push and a notification as two steps, as no mutex spans them; the owner runs
`enqueue_sync`, `mark_exiting` and the destructor likewise. A notification wakes
who waits and is otherwise forgotten; a wait may end by itself. `SerialQueue`
promises that accepted jobs run one at a time, in order and once, and none after
the queue is gone. The GCD build is part of `RTMPSend` and `VCSimpleSession`,
which own such queues.

### TCPThroughputAdaptation

The steps of `sampleThread` between its test of `m_exiting`, its timed wait, the
measurement under the mutexes and the callback; the samples that other threads
add; the destructor with its notification and join. Throughputs are small
numbers, times are ages that stop counting where the code stops comparing them.
`m_buffGrowth` holds three sizes at most, so `Trend` is the sum of three terms.

### VCSimpleSession: the session object

The application (`StartRtmpSession`, `StopRtmpSession` for pause and end, and
the two setters) posts blocks to `_graphManagementQueue`; `Graph...` actions are
the parts of those blocks in their order, down to the release of the session
and the join inside the destructor of its throughput thread. `Client...` are
the calls of the state callback on the run loop of a session, `Bandwidth...`
the parts of the bandwidth callback on the thread of the throughput
adaptation. `Rung` and `Adapted` are the bit rate ladder, with its integer
division and its comparison with the ceiling.

Left out: the file writer, the reported `rtmpSessionState`, and properties that
are only passed on to mixers and sources. The throughput adaptation reports any
direction at any time.

### MediaPath and Split: from the mixers to the session

A round is the life of one output session. `AddEncoders` and `Connect` are the
connections of `addEncodersAndPacketizers` in their order, one step each;
`Release` is the block of pause and end. Meanwhile the mix thread is somewhere
in `AACEncode::pushBuffer` (`Aac...`), VideoToolbox's callback thread puts out
parameter sets and frames (`Vt...`), and the throughput thread exchanges the
converter (`SetBitrate`, `NewConverter`). `AacPacketizer` and `PacketizeSet` are
the `pushBuffer`s of the packetizers, with what they keep and what they have
sent. Histories say what the encoders put out at which step of the connecting,
and what the session got. `Split` is used for the video's two outputs.

### GenericAudioMixer: the audio mixer

The sources (`Push`) take the time and the current window and post a job;
`Job...` is that job on `m_mixQueue`, `JobCopy` one turn of its loop; `Mix...`
are the parts of a turn of `mixThread`, between which the queue may run. Time
is counted in output samples, and `content` says which sample of which source
was mixed into each position of each window, so that a sample that is early,
late or doubled can be told.

No lock is shared by the two threads. What keeps them apart is time, and
`TimingAssumption` says how much of it: a job is done at most `JobDelay` after
its push, the mix thread is at most `MixDelay` late, a source is at most `Lead`
ahead of the clock. These three are the environment's; the code guarantees none
of them, and the passing run says what the code promises if they hold. The
assumption has three parts. A job is done, tolerance included, within a frame of its push, so that
its window has not gone out. A late mix thread and a source ahead together stay
within the ring but for two windows, so that no sample reaches around to the
window on its way out. And a late mix thread and a late job stay below that, so
that the window that was current at a push keeps its start until the job of that
push has read it; this part was found while proving `SamplesOnTime`, as TLC has
a counterexample without it on a ring too short for the delays. The gap
below which a buffer joins the one before it (`Tolerance`) is a quarter of a
frame in the code; the run uses two of three samples, so that buffers can be
shifted.

Left out: gains, the destructor, and the time between the constructor and the
loop of the mix thread.

### AudioFormats and AppleAudioMixer

`AudioFormats` has the conversions of a sample to 16 bits with their wrap, the
mix of two samples, the position `resample` reads for each output sample, with
its mask and strides in bytes, and `makeAsc`. The width of a sample is the
constant `Half`. Offsets of output samples are exact, where the code adds up
floating point numbers. `AppleAudioMixer` keeps a converter for each key and lets the
system's converter call `ioProc` for any number of packets at a time.

### VideoFilters and VideoMixer

`VideoFilters` gives each filter the calls it makes for vertex arrays (of the ES2
extension or of ES3, without effect in an ES2 context), what `initialize` and
`bind` leave in the context, and its pixel kernel as a matrix. `VideoMixer` has
the tables of the mixer and the jobs on the GL queue: make a texture, which may
fail; prune temporary buffers; mix, layer by layer (`MixBegin`, `DrawLayer`,
`MixEnd`). `pushBuffer` is two steps, the posting and the layer with its
matrix, because nothing guards the tables. Two frame buffers take turns.

Left out: what a torn access to a map does, the order of depth, the set-up of
the context, and `unregisterSource` and `sync`, which have no caller.

### VideoTransforms

The application writes size, mode and flag field by field, the source's thread
computes a matrix when its flag is set and then clears the flag; a matrix is a
factor and a translation for each axis, in whole ratios.

### Composition

`RTMPSend` and `RTMPReceive` are the two halves of one object. They meet in the
job queue (the receiving half sends commands with `pushBuffer` and the pong)
and in `m_state` and the semaphore (a space event after the handshake signals
the network thread). Each half models the other as an environment that may do
more than it does: `RTMPSend` is given any packets, pongs and chunk size
announcements in any order, and `RTMPReceive` gets a space event after any of
its writes. `VCSimpleSession` sees a session as a client state that advances,
fails or ends, which is what `StateAdvances` of `RTMPReceive` says of it, and
the throughput adaptation as one that reports anything. `MediaPath` composes
encoders, `Split`, packetizers and the order in which `VCSimpleSession` connects
them; `VideoMixer` composes the mixer with the filters that share its context.

## 3. Checks

Every configuration sets `CHECK_DEADLOCK FALSE`: in each of these systems the
callers may stop calling, and a session that has ended does nothing more.

| Run | Configuration | Bounds | Properties |
|---|---|---|---|
| `send_safety` | `RTMPSendSafety` | 3 messages of 2 units, 2 waiting jobs, a limit below one message | `ResumeAtKeyframe`, `DiscardedForKeyframe`, `ChunkSizeAgreed`, `BufferSizeExact`, `StoppedWhenDestroyed` |
| `send_liveness` | `RTMPSendLiveness` | 2 messages, a limit that changes | `DestructorReturns`, `EveryMessageFinishes` |
| `send_discard` | `RTMPSendDiscard` | as small as needed | violation of `DiscardsAreWhole` |
| `receive_safety` | `RTMPReceiveSafety` | 3 messages, lengths 2 and 3, chunk sizes 2 and 3, signature of 2 bytes, buffer of 10 | `FramesAgree`, `C2AnswersS1`, `StateAdvances` |
| `receive_liveness` | `RTMPReceiveLiveness` | 2 messages, buffer of 8 | `MessagesHandled` |
| `receive_empty` | `RTMPReceiveEmpty` | 1 message | violation of `FalseMeansNotEnough` |
| `simple` | `VCSimpleSession` | 3 calls, 2 sessions, rates 300000 and 1300000 | `RequestKept`, `EncodersFeedPublishedSession`, `NullOnlyInsideDestructor`, `LimitFollowsEncoder`, `EncoderMovesWithThroughput`, `GraphQueueDrains` |
| `mixer_safety` | `GenericAudioMixerSafety` | 4 windows of 3 samples, 3 buffers, 13 samples of time | `SamplesOnTime`, `WindowsApart`, `NothingLate` |
| `queue_thread` | `JobQueueThread` | 2 callers and the owner, 4 jobs | `OneLateStart`, `Implements`, `SleepOnlyThroughWindow`, `OnlyTheWindowBlocks` |
| `media` | `MediaPath` | 2 sessions, 2 windows and 2 frames in each, 2 rates | `AudioConfigFirst`, `AudioInOrder`, `FramesDecodable`, `ConverterInUse`, `VideoSplitExact` |
| `video` | `VideoMixer` | a camera with 2 temporary buffers, an image with 1 buffer, 3 pushes, 3 turns, 2 filters to choose from | `DrawsOwnState`, `PutsOutWholeFrames`, `CurrentTextureExists` |
| `parts` | `Parts` | one part or one calculation in each behaviour; see below | `AMFUnderstood`, `SignalsKept`, `FrameShowsSetting`, `ReadsItsBuffer`, `DownWhenGrowing`, `OnlyLostUpdatesStopReading`, `BuffersAreQueues`, `SamplingDestructorReturns` |

Why the bounds are enough.

* Three messages in `RTMPSend` are a message on the wire, a keyframe that starts
  a discard, and one on either side of it; a size of two units lets a write be
  partial.
* In `RTMPReceive` the lengths and chunk sizes are chosen so that a message is
  shorter than, exactly, and longer than a chunk before and after a change of
  the chunk size, the three replies fit in one behaviour, and the buffer is
  filled by some runs of messages and emptied by others.
* In `VCSimpleSession` three calls replace one session with another; the two
  rates lie below and above the adaptive start of 500000, and the ladder reaches
  all of its steps from them.
* In `GenericAudioMixer` four windows stand for the ten of the code: the current
  one, the one on its way out and the two whose start the mix thread sets; the
  end of time lets the ring turn once and a window be used again.
* Four jobs in `JobQueue` are one that runs, one that waits, a synchronous one
  and one that comes after `m_exiting`.
* Two sessions in `MediaPath` show what the first leaves to the second; two
  windows and two frames are what the configuration is sent for and one that
  follows it, both before and after any of the eight connections.
* In `VideoMixer` the camera's two temporary buffers can replace one another
  while a texture of the first is drawn or fails to be made, and three turns use
  one frame buffer a second time.
* In `parts` the ring has three places and takes seven bytes, so that both
  positions wrap more than once; `PreBuffer` starts with two bytes and grows;
  AMF bytes have 13 values and strings the lengths around the limit of a short
  one; samples have the eight negative values of `Half = 8`, and all pairs of
  them are mixed; the stream session gets two bytes, in reads that are shorter
  than, exactly and longer than what there is; the throughput adaptation sees every
  sequence of sizes 0 to 2 over its three measurements.

### What the violations say

* `DiscardsAreWhole`: the program reports a message as discarded with all its
  bytes although part of it was sent. The peer then takes the next header for
  payload.
* `FalseMeansNotEnough`: the comment above `parseCurrentData` promises `false`
  only when data is missing; a complete message of length 0 also gets `false`,
  and is never consumed.

### What the passing properties say on purpose

Some of them contain the exception that the code has, so that the run shows it
is the only one.

* `BufferSizeExact` holds unless two updates of `m_bufferSize` overlapped.
* `ChunkSizeAgreed` excepts what follows an announcement that was not sent whole:
  a discard that is under way drops it like any message, the chunk size changes
  all the same, and nothing tells the peer. That the discard was one for a keyframe
  is `DiscardedForKeyframe`.
* `C2AnswersS1` holds unless a space event falls between S0 and S1: `handshake`
  then runs `handshake2` before S1 was read, which writes through a null pointer
  (`crashed`).
* `MessagesHandled` holds unless the loop of `dataReceived` is wedged: the buffer
  is full behind an incomplete message, nothing can be read, nothing can be
  parsed, and the status bit that keeps the loop going stays set. The buffer has
  4096 bytes, so this needs a run of messages that never leaves it empty; the
  configuration has such runs.
* `NothingLeftBehind`, the second half of `FramesAgree`, speaks of messages with
  a body; those without are the violation `FalseMeansNotEnough`. `stop1` ends the
  parsing for the rest of the call, but then the loop can read nothing more
  either: the stream has more bytes only when the buffer is full.
* `RequestKept` excludes what the application does that overwrites its own
  request, and `EncodersFeedPublishedSession` the one late block.
* `SamplesOnTime` excepts the windows in `dirty`: they went by while there was no
  output, and only output clears a window, so their samples are heard with the
  first windows of a later session.
* `OnlyTheWindowBlocks` names the window between the worker's test and its wait
  as the only place from which a job, the destructor or a synchronous caller is
  left waiting; `SleepOnlyThroughWindow` says the same of the step with which a
  thread falls asleep.
* `CommandsComplete` has the metadata end behind its tracks, with the audio
  fields outside of any object; `AMFUnderstood` lets the status code follow
  numbers, booleans and nulls, as the size of a string in front of the object is
  read from the wrong place.
* `OneLateStart` allows one job to start after `m_exiting` was set, the code
  testing the flag only behind a job.
* `AudioConfigFirst` and `FramesDecodable` except what was put out before the
  packetizer, or its output, was connected: the encoder is connected to the
  running mixer first. An all-zero configuration is what the decoder then gets.
* `DrawsOwnState` excepts the vertex layout in an ES2 context once a filter
  that makes ES3 calls has been set up in it, and `PutsOutWholeFrames` lets the
  first frame put out be one nothing was drawn into.
* `FrameShowsSetting` excepts a setting made during a frame's push: the flag is
  cleared after the matrix was computed, so the setting is lost until the next.
* `ReadsItsBuffer` excepts a count of output samples that was rounded up, and a
  converter made before the output format changed.
* `OnlyLostUpdatesStopReading` names the overwritten change of the status word as
  the only reason for which bytes are left unread or the run loop waits in a
  read. Both do happen: when `write` stores the word behind `setStatus`, the
  flag for bytes is gone and nothing is read any more; when it stores it behind
  `read`, the flag is back.
* The parts of `SignalsKept` name the widths and channel counts for which the
  conversion is right.

### Fairness

`RTMPSend`: the job thread, the network thread and the destructor are weakly
fair, as GCD runs blocks that were enqueued and the semaphore wait has a
timeout of a second. The socket is fair only as the hypothesis of
`EveryMessageFinishes`; callers never are. `RTMPReceive`: a thread inside
`dataReceived` goes on, the network delivers what was sent, and a run loop with
bytes to report reports them; the server, space events and the end of the
connection may never come. `VCSimpleSession`: the graph queue and the thread
that is inside a callback go on; the application and the network may stop.
`JobQueue`: the worker, an owner inside a call and a caller between its push
and its notification go on; a spurious wake-up may never come, and nobody has
to call. `TCPThroughputAdaptation`: the sampling thread goes on, its wait being
limited in time, and so does a destructor that has begun.

## 4. Proofs

`tlapm` checks every theorem for all values of the constants that satisfy the
named assumptions. Each safety property is proved from an inductive invariant,
which says where every thread stands and what it holds while the property is
true for the moment. Under each module come the theorem, the property of a run
that it states, and what the invariant had to add.

`RTMPSend_proof`
* `TypeCorrect`: `TypeOK`.
* `StreamResumesAtKeyframe`: `ResumeAtKeyframe`. That a message is given up says
  nothing about which message comes next. The invariant (`ResumeInv`) adds that
  every message between one given up and the one `m_sentKeyframe` names has no
  byte sent, and where each thread stands between its store to `m_sentKeyframe`,
  its store to `m_clearing` and its tests.
* `DiscardsAreForKeyframes`: `DiscardedForKeyframe`.
* `DestructorStopsWorkers`: `StoppedWhenDestroyed`, from what each queue can
  still hold after it was marked and drained (`DestroyInv`).
* `PeerKnowsChunkSize`: `ChunkSizeAgreed`. Every message, and not only the
  newest, was cut with the chunk size announced in front of it, sent or not, and
  the job thread holds the one for the message it is at (`ChunkInv`).
* `BytesAreCounted`: `BufferSizeExact`. What each thread loaded is still
  `m_bufferSize` when it stores, unless the updates overlapped; the sum over the
  log is a recursive function, for which the proof shows that it exists and what
  a new message adds (`BufferInv`, `WrittenIsTotal`).

`RTMPReceive_proof`
* `TypeCorrect`: `TypeOK`, which holds the bounds of the receive buffer.
* `MessagesFramed`: `FramesAgree`, for every size of headers, chunks, messages
  and buffer; from `OrderIsKept` and `NothingIsLeft`, its two halves. For the
  first the invariant says that the messages of the server lie one behind the
  other (`StreamInv`) and that the client, having handled the first n of them,
  stands at the end of the n-th with the chunk size and the last header that the
  server used up to there (`HandledInv`). It rests on `SeparatorsAgree`: the loop
  of `tryReadOneMessage` counts the separators the server sends. For the second:
  the stream has more bytes only when the buffer is full, so that a loop that has
  stopped parsing has no room to read into, and one that has not leaves no bytes
  (`RestInv`).
* `SignatureAnswered`: `C2AnswersS1`, from where the client stands in the byte
  stream in each state of the handshake (`PositionInv`, `SignatureInv`).
* `StatesInOrder`: the action property `StateAdvances`. Each state has the reply
  it needs behind it (`StateInv`), and the server answers a command that was sent,
  and once (`AnswersInv`), so the next reply is the one the state waits for.

`VCSimpleSession_proof`
* `TypeCorrect`: `TypeOK`.
* `LadderBounded` and `LadderMoves`: the ladder for every rate and ceiling, not
  only those a run reaches.
* `RequestIsKept`: `RequestKept`. The invariant says which of `_bitrate`,
  `_bpsCeiling` and the register of the start block holds the request at each
  point of that block, and that at most one start block is pending.
* `EncoderFollowsThroughput`: the action property `EncoderMovesWithThroughput`,
  from `LadderMoves`.
* `NullFoundInDestructorOnly`: `NullOnlyInsideDestructor`. The invariant
  (`SessionInv`) says that sessions start in the order of their numbers, what a
  block of the graph queue holds on to at each of its points, and that a callback
  which has not taken `m_outputSession` yet belongs to a session that still has an
  owner, because the destructor waits for it.
* `LimitFollows`: `LimitFollowsEncoder`. A callback under way carries the rate of
  the encoder; outside one the limit is the one for that rate (`LimitInv`).
* `EncodersFeedPublished`: `EncodersFeedPublishedSession`. Until a late block was
  queued, a block that adds encoders has only its like in front of it, and the
  session it was queued for is the current one (`AddInv`).

`JobQueue_proof`
* `TypeCorrect`: `TypeOK`.
* `AtMostOneLateStart`: `OneLateStart`. The invariant `LateInv` says where the
  worker is once a job has started late: on its way out.
* `SleepThroughWindowOnly`: the action property `SleepOnlyThroughWindow`.
* `ImplementsSerialQueue`: `Implements`, every step mapped to a step of
  `SerialQueue` or a stutter. It needs that the numbers of all jobs in the queue
  are those pushed so far (a new job is unknown), and that the queue is gone
  only behind a worker that has left (`KnownInv`).

`MediaPath_proof`
* `ConverterIsInUse`: `ConverterInUse`; `RateInv` adds that `setBitrate` and the
  use of the converter exclude each other.
* `ConfigurationFirst`: `AudioConfigFirst`. `EncoderInv` says the encoder puts
  its configuration out first and that a packetizer which does not know it was
  not connected then; `PacketizerInv` that the session's log begins with what
  the packetizer knows.
* `AudioArrivesInOrder`: `AudioInOrder`. What was put out after the last
  connection is exactly a tail of the encoder's output (`OrderInv`).
* `SplitHoldsRunningEncoder`: `VideoSplitExact`, with what adding and removing do
  to the list of outputs.
* `FramesAreDecodable`: `FramesDecodable`. The parameter sets put out last came
  to a packetizer that was connected, or too early; when both came late enough
  they were sent on (`SetsInv`), and once only.

`VideoMixer_proof`
* `WholeFramesPutOut`: `PutsOutWholeFrames`. The invariant counts the jobs of
  the mix thread in the GL queue (none, or one), says which frame buffer it
  holds and what the two buffers were drawn with (`MixingInv`).
* `CurrentTextureKept`: `CurrentTextureExists` (`TextureInv`). A prune keeps what
  is current when it runs, not what was when it was posted.
* `LayersDrawOwnState`: `DrawsOwnState`, for any layers, filters and order of
  pushes. A filter that has a vertex array holds its own, laid out for it unless
  ES3 calls went without effect (`LaidOut`); the filter of a source has an
  object, and the one in use is initialized (`FiltersMade`); a texture is of its
  own source already while its job waits (`OwnBuffers`).

`GenericAudioMixer_proof`, for any number of windows from four, any frame size,
sources, buffers and jitter that meet the assumptions:
* `QueueKeepsOut`: `WindowsApart`, and `WindowsGoOutComplete`: `NothingLate`. The
  invariant (`ScheduleInv`) counts frames from the start of the mixer; a window
  is a frame's number modulo the ring. `Clock` says which frames' starts are
  known at each point of the mix thread and how late it may be; `QueueInv` that
  each buffer in the queue was pushed in a frame whose window still has its
  start, and that the buffers in front leave room for it; `JobInv` that the job
  under way is in the frame its samples belong to.
* `SamplesAreOnTime`: `SamplesOnTime`. To the schedule `ContentInv` adds that a
  sample lies in one place, that what lies in a window is behind what its source
  has mixed so far, and that a window's samples are where their times put them,
  less than `Tolerance` off.

`Parts_proof`, first for each part alone, then for the calculations, then for
`Parts`. The parts:
* `PointersStayInBlock`: the assertions of `didWrite` and `didRead`.
* `BuffersKeepOrder`: `BuffersAreQueues`, from `ImplementsByteQueue` for
  `PreBuffer` (`BlockInv`, and lemmas on the stretch of a block between two
  positions) and `ImplementsRingQueue` for `RingBuffer`, for every size of the
  array. `RingInv` says that the two positions are as far apart as bytes are held,
  going around the end, and that what `unget` can restore lies in front of them.
* `ReadingStopsOnlyWhenLost`: `OnlyLostUpdatesStopReading`, from `ReadingGoesOn`.
  As long as nothing was overwritten, the flag for bytes is set exactly while the
  loop of `dataReceived` has something to read or is about to take the flag back,
  and the word loaded to take it back has it set (`Reading`): it is flipped, not
  cleared.
* `SettingsShowInFrames`: `FrameShowsSetting`, from `SettingsShow`. Where no
  setter fell into a push, a push has the matrices right that it has passed, and
  the others are right, or a flag or a setter under way says they are not
  (`Orderly`).
* `ConverterReadsItsBuffer`: `ReadsItsBuffer`, from `BufferIsRead`. A converter is
  found under the key of its own format, and the key tells formats apart
  (`KeyTells`); a count of output samples that was not rounded up needs no more
  than the buffer has (`NeedsItsFrames`).
* `DecreaseWhenGrowing`: `DownWhenGrowing`, from `DecreaseIsForGrowth`; `TrendTells`
  says that the trend over three sizes has the sign the property speaks of.

The calculations, for every base and width and every input in `Inputs`:
* `WrittenIsUnderstood`: `AMFUnderstood`. Numbers come from what one digit in
  front of the others adds (`NumberBytes`, `Read32`). For the status code the proof
  first shows that the functions exist that walk over an answer, and that
  concatenate its parts (`WalkExists`, `FlattenIs`); then where each value and each
  property stands, and that a walk at the start of one goes on at the start of the
  next (`SkippedWritten`, `PropertyWritten`); and from there, downward from the last
  to the first, that the walk finds the object (`ObjectFound`) and the first property
  of that name (`CodeFound`). These inductions are over sets of positions, by the
  least element, as induction with an operator is out of the prover's reach.
* `SignalsStay`: `SignalsKept`, from `MixedSamples`, `ConvertedSample`,
  `ResampledInput`, `RateAnnounced` and `FilteredColour`: inequalities between
  products and quotients of unknowns, each brought down to what a quotient is
  (`Floor`) and when a common factor may go (`Cancel`).

The parts together:
* `PartsRun`: a behaviour of `Parts` is, for each part, one of that part's own
  specification, which carries the results over.

Assumed: the named assumptions of the modules. Those that say more than that a
bound is a natural number are, in `RTMPReceive`, that headers, chunks, the
signature and the buffer are not empty; in `RTMPSend`, that the chunk size of the
start is not the one announced; in `VCSimpleSession` and `MediaPath`, that bit
rates are not zero; in `VideoMixer`, that the buffers of a source are numbered
from 1, the filters chosen exist and only sources have them; in `AMF`, that a byte
has room for every marker, the largest being 12; in `AudioFormats`, that a sample
is twice as wide as a byte; in `GenericAudioMixer`, that the ring has four
windows at least, and `TimingAssumption`. The theorems of `Parts_proof` about the
parts name theirs, as `Parts` leaves its constants open: `Sized` and `RingArray` (sizes are natural numbers, the ring has a place), `Roomy` (a
read asks for at least a byte), `TwoSizes` (sizes are pairs of natural numbers),
`Keyed` (rates are positive, and the fields of a format fit into the bytes of the
key) and `Measurable` (buffer sizes are natural numbers). No theorem assumes a
bound on messages, jobs, frames or calls beyond the guards that name it, and each
of these bounds may be any number.

Only model-checked:
* liveness, which together with fairness is beyond the prover used here:
  `DestructorReturns`, `EveryMessageFinishes`, `MessagesHandled`,
  `GraphQueueDrains`, `OnlyTheWindowBlocks`, `SamplingDestructorReturns`;
* `CommandsComplete`, which depends on nothing: `MCParts` states it as an
  assumption, which TLC evaluates, and no theorem uses it.

## 5. Found by reading

These are differences between what the code does and what a comment, a name or a
neighbouring piece of code says; the models contain them as they are.

* A bit rate set during a session is lost (`VCSimpleSession.h:97` against
  `VCSimpleSession.mm:732`).
* The minimum buffer duration is documented as the time a sample stays in the
  mixer (`IAudioMixer.hpp:87`), and unused (`GenericAudioMixer.cpp:435`).
* The metadata object ends behind `trackinfo`, so that the audio fields lie
  outside any object (`RTMPSession.cpp:611`); `amfPrimitiveObjectSize` reads the
  length of a string one byte too early (`RTMPSession.cpp:1093`).
* `makeAsc` cuts the index of the sample rate with `& 0x3`, so rates from 16000
  down would be announced as others (`AACEncode.cpp:209`).
* Of samples wider than 16 bits, the largest of 32 bits wraps to negative, 24
  bits come out 256 times too quiet, and in stereo out of alignment; of stereo
  floating point samples only half are converted.
* The colour of `bgra2yuva` is multiplied with its matrix from the wrong side
  (`BasicVideoFilterBGRAinYUVAout.cpp:66`); glow exchanges red and blue.
* The first frame put out was never drawn into, and each frame put out is drawn
  into again one turn later (`GLESVideoMixer.mm:560`); the current texture can
  go back to an older buffer, as an existing one is chosen at once and a new one
  by a job (`GLESVideoMixer.mm:154`); `m_shouldSync` is not initialized.
* The aspect factor also scales the translation of the position
  (`AspectTransform.cpp:120`, `PositionTransform.cpp:107`), against
  `PositionTransform.h:41`; nothing calls `setPosition`.
* `RingBuffer::read` with `advance` goes to the start of the array wherever it
  ends (the code's own FIXME).
* In the build with a thread, `enqueue_sync` after `mark_exiting` may wait for a
  job that will never run (`JobQueue.hpp:111`, `JobQueue.hpp:138`).

## 6. What is left

* `StreamSession`: `connect` and `disconnect`, and the lifetime of its run loop
  against the destructor of `RTMPSession`, whose callback it calls
  (`RTMPSession.cpp:118`).
* `VCWriter`: the accumulated pause offsets (`VCWriter.m:319`).
* The receiver's type 3 headers (`RTMPSession.cpp:964`) and a chunk size of 0
  (`RTMPSession.cpp:810`); the timestamp deltas of discarded messages
  (`RTMPSession.cpp:183`); the reported session state, which can go from paused
  back to started (`VCSimpleSession.mm:582`).
* A theorem that `RTMPSend` and `RTMPReceive` keep what `VCSimpleSession` assumes
  of a session, as a refinement of a session that both share.

## 7. Not modelled

OpenGL drawing and the set-up of contexts, device set-up and capture, the
system's encoders and converters, logging, the preview and the sample
applications have no state whose order matters outside the calls they make, or
are outside what TLC can evaluate. The file writer shares only the captured
buffers with the streaming path. `MP4Multiplexer` is commented out where it was
used, the Golomb decoder has no caller, and `RingBuffer::advanceWrite` and the
typed readers of `Buffer.hpp` have none either. `connectServer` as a
reconnection is not reachable: it stands in a branch for a header type of two
bits that is none of its four values.
