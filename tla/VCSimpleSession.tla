-------------------------- MODULE VCSimpleSession --------------------------
(***************************************************************************)
(* api/iOS/VCSimpleSession.mm: the object an application drives. Four      *)
(* actors share its ivars without a lock: the application (main thread),   *)
(* the serial graph queue _graphManagementQueue, the run loop thread that  *)
(* delivers the state callback of the RTMPSession, and the sampling thread *)
(* of its TCPThroughputAdaptation, which calls the bandwidth callback.     *)
(*                                                                         *)
(* Kept: every assignment to _bitrate, _bpsCeiling, _useAdaptiveBitrate,   *)
(* rtmpSessionState, m_outputSession and the encoders, and the order of    *)
(* the blocks on the graph queue. Left out: the writer, the delegate, the  *)
(* preview, the sources and the mixers.                                    *)
(***************************************************************************)
EXTENDS Integers, Sequences

CONSTANTS
    Bitrates,       \* the bit rates the application asks for
    MaxCalls,       \* bound: how many calls of the application
    MaxSessions     \* bound: how many RTMPSession objects are made

ASSUME SessionAssumption ==
    /\ Bitrates \subseteq Nat \ {0}
    /\ Bitrates # {}
    /\ MaxCalls \in Nat
    /\ MaxSessions \in Nat

kMinVideoBitrate == 32000
kMaxBufferedDuration == 15
AdaptiveStart == 500000         \* the rate an adaptive session begins with
UnlimitedBuffer == 2147483647   \* RTMPSession's m_maxSendBufferSize at first

Session == 1..MaxSessions
None == 0                       \* a null m_outputSession, or no encoder

VARIABLES
    bitrate,        \* _bitrate
    ceiling,        \* _bpsCeiling
    adaptive,       \* _useAdaptiveBitrate
    state,          \* rtmpSessionState
    app,            \* the stop call the application is in, or "idle"
    calls,          \* calls made so far
    queue,          \* blocks waiting on _graphManagementQueue
    graph,          \* the block the graph queue runs: where, and its locals
    exiting,        \* the session whose sampling thread was told to exit
    output,         \* m_outputSession
    made,           \* sessions started so far, which numbers them
    client,         \* what each RTMPSession has reported
    limit,          \* m_maxSendBufferSize of each RTMPSession
    encoder,        \* m_h264Encoder and the session its packetizer feeds
    sampler,        \* the sampling thread of each session and its locals
    crashed,        \* how the bandwidth callback ended the program, if it did
    request,        \* history: the last bit rate the application asked for
    live,           \* history: the application started and has not stopped
    disturbed,      \* history: see RequestKept
    lateAdd         \* history: see EncodersFeedPublishedSession

vars == <<bitrate, ceiling, adaptive, state, app, calls, queue, graph, exiting,
          output, made, client, limit, encoder, sampler, crashed, request, live, disturbed,
          lateAdd>>

rateVars    == <<bitrate, ceiling, adaptive>>
sessionVars == <<exiting, output, made, client, limit>>
historyVars == <<request, live, disturbed, lateAdd>>

\* The blocks put on the graph queue: startSessionInternal, the resets of a
\* pause or an end, and addEncodersAndPacketizers for a session that started.
Block == [op : {"start", "add"}, for : Session] \cup [op : {"teardown"}, for : {None}]

NoEncoder == [for |-> None, rate |-> 0, status |-> "none"]
Off == [pc |-> "off", rate |-> 0, target |-> None]
At(pc, old) == [pc |-> pc, old |-> old, rate |-> 0]
Idle == At("idle", None)

-----------------------------------------------------------------------------
(* The bit rate ladder of the bandwidth callback. *)

LowerOf(a, b) == IF a < b THEN a ELSE b
HigherOf(a, b) == IF a > b THEN a ELSE b

\* The size of the rung a rate stands on.
Rung(br) ==
    CASE br > 1152000 -> 384000
      [] br > 512000 /\ br <= 1152000 -> 128000
      [] br > 128000 /\ br <= 512000 -> 64000
      [] OTHER -> 32000

\* A defect: the ceiling is forgotten.
AdaptedUncapped(br, vector, top) ==
    LET moved == (br \div Rung(br) + vector) * Rung(br)
    IN IF br > 128000 THEN moved ELSE HigherOf(moved, kMinVideoBitrate)

\* The rate the encoder is given when throughput rose (1) or fell (-1): the
\* whole rungs below the old rate, one more or one less, under the ceiling.
\* Only the lowest branch has a floor.
Adapted(br, vector, top) ==
    LET capped == LowerOf((br \div Rung(br) + vector) * Rung(br), top)
    IN IF br > 128000 THEN capped ELSE HigherOf(capped, kMinVideoBitrate)

SendLimit(br) == (kMaxBufferedDuration * br) \div 8

-----------------------------------------------------------------------------
\* initInternalWithVideoSize: the rate is set, then setUseAdaptiveBitrate:NO
\* copies it to the ceiling.
Init ==
    /\ bitrate \in Bitrates
    /\ ceiling = bitrate
    /\ adaptive = FALSE
    /\ state = "None"
    /\ app = "idle" /\ calls = 0
    /\ queue = <<>> /\ graph = Idle
    /\ exiting = None /\ output = None /\ made = 0
    /\ client = [s \in Session |-> "connecting"]
    /\ limit = [s \in Session |-> UnlimitedBuffer]
    /\ encoder = NoEncoder
    /\ sampler = [s \in Session |-> Off]
    /\ crashed = "no"
    /\ request = bitrate
    /\ live = FALSE /\ disturbed = FALSE /\ lateAdd = FALSE

-----------------------------------------------------------------------------
(* The application. *)

Queued(op) == \E i \in 1..Len(queue) : queue[i].op = op

\* A start block is queued, or has not written _bitrate yet.
StartPending ==
    Queued("start") \/ graph.pc \in {"join start", "load", "ceiling", "rate"}

Call ==
    /\ app = "idle" /\ calls < MaxCalls
    /\ calls' = calls + 1

\* setBitrate:
SetBitrate(b) ==
    /\ Call
    /\ bitrate' = b
    /\ request' = b
    /\ disturbed' = (live \/ StartPending)
    /\ UNCHANGED <<ceiling, adaptive, state, app, queue, graph, sessionVars,
                   encoder, sampler, crashed, live, lateAdd>>

\* setUseAdaptiveBitrate: copies the rate to the ceiling, whatever it is.
SetUseAdaptiveBitrate(on) ==
    /\ Call
    /\ adaptive' = on
    /\ ceiling' = bitrate
    /\ disturbed' = (disturbed \/ live \/ StartPending)
    /\ UNCHANGED <<bitrate, state, app, queue, graph, sessionVars, encoder,
                   sampler, crashed, request, live, lateAdd>>

\* startRtmpSessionWithURL and continueRtmpSessionWithURL
StartRtmpSession ==
    /\ Call
    /\ made < MaxSessions
    /\ made' = made + 1
    /\ queue' = Append(queue, [op |-> "start", for |-> made + 1])
    /\ disturbed' = (disturbed \/ live)
    /\ live' = TRUE
    /\ UNCHANGED <<rateVars, state, app, graph, exiting, output, client, limit,
                   encoder, sampler, crashed, request, lateAdd>>

\* pauseRtmpSession and endRtmpSession: the resets go to the graph queue, then
\* the caller itself writes the rate back and reports the state.
StopRtmpSession(call) ==
    /\ Call
    /\ queue' = Append(queue, [op |-> "teardown", for |-> None])
    /\ app' = call
    /\ disturbed' = (disturbed \/ StartPending \/ ~live)
    /\ live' = FALSE
    /\ UNCHANGED <<rateVars, state, graph, sessionVars, encoder, sampler,
                   crashed, request, lateAdd>>

\* A defect: the rate an adaptive session began with is never taken back.
BitrateKept == bitrate

RestoredBitrate == ceiling

StopRestoresBitrate ==
    /\ app \in {"pause", "end"}
    /\ bitrate' = RestoredBitrate
    /\ app' = IF app = "pause" THEN "Paused" ELSE "Ended"
    /\ UNCHANGED <<ceiling, adaptive, state, calls, queue, graph, sessionVars,
                   encoder, sampler, crashed, historyVars>>

StopReportsState ==
    /\ app \in {"Paused", "Ended"}
    /\ state' = app
    /\ app' = "idle"
    /\ UNCHANGED <<rateVars, calls, queue, graph, sessionVars, encoder, sampler,
                   crashed, historyVars>>

-----------------------------------------------------------------------------
(* The graph queue. *)

NextBlock(op) ==
    /\ graph.pc = "idle"
    /\ queue # <<>> /\ Head(queue).op = op
    /\ queue' = Tail(queue)

\* Where the queue goes when m_outputSession lets go of a session: into
\* ~RTMPSession, unless there is none or the bandwidth callback holds it too.
ReleaseThen(join, after) ==
    IF output = None \/ (\E s \in Session : sampler[s].target = output)
    THEN At(after, None)
    ELSE At(join, output)

\* m_outputSession.reset(new RTMPSession(...)): the new one connects, the old
\* one is destroyed.
GraphStart ==
    /\ NextBlock("start")
    /\ output' = Head(queue).for
    /\ graph' = ReleaseThen("join start", "load")
    /\ UNCHANGED <<rateVars, state, app, calls, exiting, made, client, limit, encoder, sampler,
                   crashed, historyVars>>

\* A defect: ~TCPThroughputAdaptation joins a thread it told nothing.
NotMarkedExiting == None

\* m_exiting = true
MarkedExiting == graph.old

\* ~RTMPSession of the old session: ~TCPThroughputAdaptation tells the sampling
\* thread to exit ...
GraphExits ==
    /\ graph.pc \in {"join start", "join teardown"} /\ exiting = None
    /\ exiting' = MarkedExiting
    /\ UNCHANGED <<rateVars, state, app, calls, queue, graph, output, made,
                   client, limit, encoder, sampler, crashed, historyVars>>

\* A defect: ~TCPThroughputAdaptation does not join its thread.
NotJoined == TRUE

\* ... and joins it: the thread may still be inside the bandwidth callback.
JoinReady == sampler[graph.old].pc \in {"off", "waiting"}

GraphJoin ==
    /\ graph.pc \in {"join start", "join teardown"} /\ exiting # None
    /\ JoinReady
    /\ exiting' = None
    /\ sampler' = [sampler EXCEPT ![graph.old] =
                     IF @.pc = "waiting" THEN Off ELSE @]
    /\ graph' = At(IF graph.pc = "join start" THEN "load" ELSE "idle", None)
    /\ UNCHANGED <<rateVars, state, app, calls, queue, output, made, client,
                   limit, encoder,
                   crashed, historyVars>>

\* _bpsCeiling = _bitrate, a load and a store that the application's own
\* stores can come between.
GraphLoadBitrate ==
    /\ graph.pc = "load"
    /\ graph' = [graph EXCEPT !.pc = "ceiling", !.rate = bitrate]
    /\ UNCHANGED <<rateVars, state, app, calls, queue, sessionVars, encoder,
                   sampler, crashed, historyVars>>

GraphStoreCeiling ==
    /\ graph.pc = "ceiling"
    /\ ceiling' = graph.rate
    /\ graph' = [graph EXCEPT !.pc = "rate"]
    /\ UNCHANGED <<bitrate, adaptive, state, app, calls, queue, sessionVars,
                   encoder, sampler, crashed, historyVars>>

\* An adaptive session begins at its own rate; the bandwidth callback is set.
GraphAdaptiveStart ==
    /\ graph.pc = "rate"
    /\ bitrate' = IF adaptive THEN AdaptiveStart ELSE bitrate
    /\ graph' = Idle
    /\ UNCHANGED <<ceiling, adaptive, state, app, calls, queue, sessionVars,
                   encoder, sampler, crashed, historyVars>>

\* addEncodersAndPacketizers: an encoder at the current rate, whose
\* packetizer feeds the current session, if there is one.
GraphAddEncoders ==
    /\ NextBlock("add")
    /\ encoder' = [for |-> output, rate |-> bitrate, status |-> "fresh"]
    /\ UNCHANGED <<rateVars, state, app, calls, graph, sessionVars, sampler,
                   crashed, historyVars>>

\* A defect: the encoders survive a teardown.
EncoderKept == encoder

TornDownEncoder == NoEncoder

\* The block of a pause or an end.
GraphTeardown ==
    /\ NextBlock("teardown")
    /\ encoder' = TornDownEncoder
    /\ output' = None
    /\ graph' = ReleaseThen("join teardown", "idle")
    /\ UNCHANGED <<rateVars, state, app, calls, exiting, made, client, limit, sampler,
                   crashed, historyVars>>

-----------------------------------------------------------------------------
(* The state callback of a session, on its run loop thread. *)

Alive(s) == s # None /\ s \in {output, graph.old}

ClientConnected(s) ==
    /\ Alive(s) /\ client[s] = "connecting"
    /\ client' = [client EXCEPT ![s] = "connected"]
    /\ state' = "Starting"
    /\ UNCHANGED <<rateVars, app, calls, queue, graph, exiting, output, made, limit,
                   encoder, sampler, crashed, historyVars>>

\* kClientStateSessionStarted: first the encoders are asked for ...
ClientStarted(s) ==
    /\ Alive(s) /\ client[s] = "connected"
    /\ client' = [client EXCEPT ![s] = "starting"]
    /\ queue' = Append(queue, [op |-> "add", for |-> s])
    /\ lateAdd' = (lateAdd \/ output # s \/ Queued("start") \/ Queued("teardown"))
    /\ UNCHANGED <<rateVars, state, app, calls, graph, exiting, output, made, limit,
                   encoder, sampler, crashed, request, live, disturbed>>

\* ... then the state is reported and the sampling thread started. A session
\* destroyed in between has no thread left to start.
ClientReportsStarted(s) ==
    /\ client[s] = "starting"
    /\ client' = [client EXCEPT ![s] = "started"]
    /\ state' = "Started"
    /\ sampler' = [sampler EXCEPT ![s].pc = IF Alive(s) THEN "waiting" ELSE @]
    /\ UNCHANGED <<rateVars, app, calls, queue, graph, exiting, output, made, limit,
                   encoder, crashed, historyVars>>

\* kClientStateNotConnected and kClientStateError, at any time
ClientStops(s, result) ==
    /\ Alive(s) /\ client[s] # "starting"
    /\ state' = result
    /\ UNCHANGED <<rateVars, app, calls, queue, graph, sessionVars, encoder,
                   sampler, crashed, historyVars>>

-----------------------------------------------------------------------------
(* The bandwidth callback of a session, on its sampling thread. *)

\* A defect: the send limit is computed from the rate before the move.
RateBeforeMove(old, new) == old

\* The callback reads the rate back from the encoder once it has moved it.
RateForLimit(old, new) == new

\* The callback holds on to the encoder it found, moves its rate, ...
BandwidthAdapts(s, vector) ==
    /\ sampler[s].pc = "waiting" /\ Alive(s) /\ exiting # s
    /\ ~(output = s /\ graph.pc \in {"join start", "load", "ceiling", "rate"})
    /\ adaptive /\ encoder.status # "none"
    /\ LET rate == Adapted(encoder.rate, vector, ceiling)
       IN /\ encoder' = [encoder EXCEPT !.rate = rate, !.status = "adapted"]
          /\ sampler' = [sampler EXCEPT ![s].pc = "session", ![s].rate = RateForLimit(encoder.rate, rate)]
    /\ UNCHANGED <<rateVars, state, app, calls, queue, graph, sessionVars,
                   crashed, historyVars>>

\* ... takes a reference to m_outputSession, which may be null by now, ...
BandwidthTakesSession(s) ==
    /\ sampler[s].pc = "session"
    /\ IF output = None
       THEN crashed' = "null session" /\ UNCHANGED sampler
       ELSE /\ sampler' = [sampler EXCEPT ![s] =
                         [pc |-> "limit", rate |-> @.rate, target |-> output]]
            /\ UNCHANGED crashed
    /\ UNCHANGED <<rateVars, state, app, calls, queue, graph, sessionVars,
                   encoder, historyVars>>

\* ... and sets its send limit. If m_outputSession was reset meanwhile, the
\* callback drops the last reference: ~RTMPSession runs on this thread and
\* its ~TCPThroughputAdaptation joins the thread it runs on.
BandwidthSetsLimit(s) ==
    /\ sampler[s].pc = "limit"
    /\ limit' = [limit EXCEPT ![sampler[s].target] = SendLimit(sampler[s].rate)]
    /\ sampler' = [sampler EXCEPT ![s].pc = "waiting", ![s].target = None]
    /\ crashed' = IF sampler[s].target \in {output, graph.old} THEN "no" ELSE "self join"
    /\ UNCHANGED <<rateVars, state, app, calls, queue, graph, exiting, output, made,
                   client, encoder, historyVars>>

-----------------------------------------------------------------------------
GraphStep ==
    GraphStart \/ GraphExits \/ GraphJoin \/ GraphLoadBitrate \/ GraphStoreCeiling
    \/ GraphAdaptiveStart \/ GraphAddEncoders \/ GraphTeardown

ClientStep ==
    \E s \in Session :
        ClientConnected(s) \/ ClientStarted(s) \/ ClientReportsStarted(s)
        \/ ClientStops(s, "Ended") \/ ClientStops(s, "Error")

SamplerStep ==
    \E s \in Session :
        (\E v \in {-1, 1} : BandwidthAdapts(s, v))
        \/ BandwidthTakesSession(s) \/ BandwidthSetsLimit(s)

AppStep ==
    \/ \E b \in Bitrates : SetBitrate(b)
    \/ \E on \in BOOLEAN : SetUseAdaptiveBitrate(on)
    \/ StartRtmpSession
    \/ StopRtmpSession("pause") \/ StopRtmpSession("end")
    \/ StopRestoresBitrate \/ StopReportsState

Next ==
    /\ crashed = "no"
    /\ AppStep \/ GraphStep \/ ClientStep \/ SamplerStep

Spec == Init /\ [][Next]_vars

\* The serial queue runs its blocks, a callback that began goes on and a call
\* of the application returns. Nothing makes the server or the network act.
Fairness ==
    /\ WF_vars(GraphStep /\ crashed = "no")
    /\ WF_vars((StopRestoresBitrate \/ StopReportsState) /\ crashed = "no")
    /\ \A s \in Session :
         /\ WF_vars((BandwidthTakesSession(s) \/ BandwidthSetsLimit(s)) /\ crashed = "no")
         /\ WF_vars(ClientReportsStarted(s) /\ crashed = "no")

FairSpec == Spec /\ Fairness

-----------------------------------------------------------------------------
(* Properties. *)

\* Every variable has its type; no rate is negative.
GraphType ==
    [pc : {"idle", "join start", "join teardown", "load", "ceiling", "rate"},
     old : Session \cup {None}, rate : Nat]
EncoderType ==
    [for : Session \cup {None}, rate : Nat, status : {"none", "fresh", "adapted"}]
SamplerType ==
    [pc : {"off", "waiting", "session", "limit"}, rate : Nat, target : Session \cup {None}]

RatesOK == bitrate \in Nat /\ ceiling \in Nat /\ request \in Nat /\ adaptive \in BOOLEAN
HistoryOK == live \in BOOLEAN /\ disturbed \in BOOLEAN /\ lateAdd \in BOOLEAN
AppOK ==
    /\ state \in {"None", "Starting", "Started", "Error", "Paused", "Ended"}
    /\ app \in {"idle", "pause", "end", "Paused", "Ended"}
    /\ calls \in 0..MaxCalls /\ made \in 0..MaxSessions
QueueOK == queue \in Seq(Block)
GraphOK ==
    /\ graph \in GraphType /\ encoder \in EncoderType
    /\ exiting \in Session \cup {None} /\ output \in Session \cup {None}
ClientOK ==
    /\ client \in [Session -> {"connecting", "connected", "starting", "started"}]
    /\ crashed \in {"no", "null session", "self join"}
SamplerOK == limit \in [Session -> Nat] /\ sampler \in [Session -> SamplerType]
TypeOK ==
    RatesOK /\ HistoryOK /\ AppOK /\ QueueOK /\ GraphOK /\ ClientOK /\ SamplerOK

\* The bit rate the application asked for survives its sessions: between two
\* sessions it is _bitrate, and in one it is the ceiling, although _bitrate
\* serves as the working rate and is overwritten on start and written back on
\* stop by two threads. Undisturbed means that the application set rate and
\* adaptivity outside a session, started only from outside one, and stopped
\* only a session whose start block had run.
RequestKept ==
    ~disturbed /\ ~StartPending /\ app = "idle" =>
        (IF live THEN ceiling ELSE bitrate) = request

\* Encoded media goes to no session that has not begun to publish, and
\* nothing encodes once the session is gone, unless the block that adds the
\* encoders was queued behind one that replaces or resets the session.
EncodersFeedPublishedSession ==
    encoder.status # "none" /\ ~lateAdd =>
        /\ output # None
        /\ encoder.for # None
        /\ client[encoder.for] \in {"starting", "started"}

\* The send limit follows the encoder: between two bandwidth callbacks the
\* session an adapted encoder feeds buffers kMaxBufferedDuration seconds of its
\* rate, also when a callback of an older session overlaps a new start.
LimitFollowsEncoder ==
    /\ encoder.status = "adapted" /\ encoder.for = output
    /\ \A s \in Session : sampler[s].pc \in {"off", "waiting"}
    => limit[output] = SendLimit(encoder.rate)

\* The bandwidth callback finds m_outputSession null only while the graph
\* queue is inside the destructor of its session: once the destructor has
\* joined the sampling thread no callback is left to find it so.
NullOnlyInsideDestructor ==
    crashed = "null session" => graph.pc = "join teardown"

\* The bandwidth callback moves the encoder the way the throughput moved: it
\* is not raised on a fall but to the floor, not lowered on a rise but to the
\* ceiling, and never put above a ceiling that is itself above the floor.
EncoderMovesWithThroughput ==
    [][\A s \in Session, v \in {-1, 1} :
         BandwidthAdapts(s, v) /\ ceiling >= kMinVideoBitrate =>
           /\ encoder'.rate \in kMinVideoBitrate..ceiling
           /\ v = 1 => encoder'.rate > encoder.rate \/ encoder'.rate = ceiling
           /\ v = -1 => encoder'.rate < encoder.rate \/ encoder'.rate = kMinVideoBitrate]_vars

\* The graph queue always gets through its blocks: no destructor waits for a
\* callback that waits for the queue. (The application makes finitely many
\* calls; a crash ends the program.)
GraphQueueDrains ==
    <>[](queue = <<>> /\ graph.pc = "idle") \/ <>(crashed # "no")
=============================================================================
