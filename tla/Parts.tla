-------------------------------- MODULE Parts --------------------------------
(***************************************************************************)
(* The parts that stand alone: the two byte buffers, the stream session,   *)
(* the geometry transforms, the resampling with AudioConverter and the     *)
(* throughput adaptation. In each behaviour one of them runs and the       *)
(* others stay where they begin.                                           *)
(***************************************************************************)
EXTENDS Integers

CONSTANTS m_total, MaxOffered
VARIABLES m_buffer, m_size, m_read, m_write, offered, taken
ring == <<m_buffer, m_size, m_read, m_write, offered, taken>>
Ring == INSTANCE RingBuffer WITH MaxBytes <- MaxOffered

CONSTANTS capBytes, WriteSizes, MaxWritten
VARIABLES m_preBuffer, m_readPointer, m_writePointer, ensured, written
pre == <<m_preBuffer, m_readPointer, m_writePointer, ensured, written>>
Pre == INSTANCE PreBuffer WITH Sizes <- WriteSizes, MaxBytes <- MaxWritten

CONSTANTS Rooms, MaxArrived
VARIABLES m_status, opened, arrived, received, closed, over, told, loop, reg, got, net, netReg, lost
stream == <<m_status, opened, arrived, received, closed, over, told, loop, reg, got, net, netReg, lost>>
Stream == INSTANCE StreamSession WITH MaxBytes <- MaxArrived

CONSTANTS FrameSizes, BoxSizes, ImageSizes, Context, Position
VARIABLES bounding, m_aspectMode, m_boundingBoxDirty, m_prev, m_scale, size, m_positionIsDirty, m_matrix,
          push, setter, overlap
video == <<bounding, m_aspectMode, m_boundingBoxDirty, m_prev, m_scale, size, m_positionIsDirty, m_matrix,
           push, setter, overlap>>
Video == INSTANCE VideoTransforms WITH Frames <- FrameSizes, Boundings <- BoxSizes, Sizes <- ImageSizes

CONSTANTS Formats, Outputs, BufferFrames, Field
VARIABLES out, m_converters, call
converter == <<out, m_converters, call>>
Converter == INSTANCE AppleAudioMixer WITH Frames <- BufferFrames

CONSTANTS BufferSizes, SentSizes, Delays, kPivotSamples, kSettlementDelay, kIncreaseDelta
VARIABLES sent, bufferSample, m_buffGrowth, m_turnSamples, turndownAge, increaseAge, m_hasFirstTurndown,
          m_previousVector, m_started, m_exiting, thread, report, owner
adaptation == <<sent, bufferSample, m_buffGrowth, m_turnSamples, turndownAge, increaseAge, m_hasFirstTurndown,
                m_previousVector, m_started, m_exiting, thread, report, owner>>
Adaptation == INSTANCE TCPThroughputAdaptation

VARIABLE part
vars == <<part, ring, pre, stream, video, converter, adaptation>>

Init ==
    /\ part \in {"ring", "pre", "stream", "video", "converter", "adaptation", "none"}
    /\ Ring!Init /\ Pre!Init /\ Stream!Init /\ Video!Init /\ Converter!Init /\ Adaptation!Init

Next ==
    /\ UNCHANGED part
    /\ \/ part = "ring" /\ Ring!Next
          /\ UNCHANGED <<pre, stream, video, converter, adaptation>>
       \/ part = "pre" /\ Pre!Next
          /\ UNCHANGED <<ring, stream, video, converter, adaptation>>
       \/ part = "stream" /\ Stream!Next
          /\ UNCHANGED <<ring, pre, video, converter, adaptation>>
       \/ part = "video" /\ Video!Next
          /\ UNCHANGED <<ring, pre, stream, converter, adaptation>>
       \/ part = "converter" /\ Converter!Next
          /\ UNCHANGED <<ring, pre, stream, video, adaptation>>
       \/ part = "adaptation" /\ Adaptation!Next
          /\ UNCHANGED <<ring, pre, stream, video, converter>>
Spec == Init /\ [][Next]_vars /\ Adaptation!Fairness
-----------------------------------------------------------------------------
(* What the parts promise; each of these is stated in the part's module.   *)

\* The ring buffer implements a byte queue of its size (RingBuffer), the receive
\* buffer one without a limit (PreBuffer).
BuffersAreQueues == Ring!RingIsQueue /\ Pre!PreBufferIsQueue
\* Bytes are left unread, or the run loop waits for more, only after a lost
\* change of the status word (StreamSession).
OnlyLostUpdatesStopReading == Stream!OnlyLostUpdatesStopReading
\* The matrix of a frame shows the settings made before it (VideoTransforms).
FrameShowsSetting == Video!FrameShowsSetting
\* A converter gets the packets of its own buffer (AppleAudioMixer).
ReadsItsBuffer == Converter!ReadsItsBuffer
\* A decrease is reported when the send buffer has grown three times
\* (TCPThroughputAdaptation).
DownWhenGrowing == Adaptation!DownWhenGrowing
\* The destructor of the throughput adaptation returns.
SamplingDestructorReturns == Adaptation!SamplingDestructorReturns
=============================================================================
