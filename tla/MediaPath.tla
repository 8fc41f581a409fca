------------------------------ MODULE MediaPath ------------------------------
(***************************************************************************)
(* From the mixers to the session: AACEncode and H264Encode, Split, the    *)
(* two packetizers, and the order in which addEncodersAndPacketizers       *)
(* connects them while the mixers run (api/iOS/VCSimpleSession.mm). A      *)
(* round is the life of one output session. The graph queue connects and   *)
(* releases, the mix threads push windows and frames, VideoToolbox calls   *)
(* back on a thread of its own, and the throughput thread sets bit rates.  *)
(*                                                                         *)
(* A push goes through Split and packetizer in one step: what it can find  *)
(* unconnected on its way is connected in the order of the way, so the     *)
(* step stands for the moment the packetizer reads its output.             *)
(***************************************************************************)
EXTENDS Naturals, Sequences, FiniteSets, Split
CONSTANTS
    MaxRounds,  \* bound: sessions
    MaxWindows, \* bound: audio windows in a round
    MaxFrames,  \* bound: video frames in a round
    Rates,      \* audio bit rates
    FirstRate   \* the one an encoder starts with
ASSUME MediaAssumption ==
    /\ MaxRounds \in Nat /\ MaxWindows \in Nat /\ MaxFrames \in Nat
    /\ FirstRate \in Rates /\ 0 \notin Rates

VARIABLES
    round,          \* the sessions so far
    step,           \* connections made in this round; 0 before and after it
    videoSplit,     \* m_outputs of m_videoSplit
    audio,          \* where AACEncode::pushBuffer of the mix thread is
    windows,        \* windows pushed in this round
    aacSentConfig,  \* AACEncode::m_sentConfig
    m_asc, m_sentAudioConfig,   \* AACPacketizer
    audioOut,       \* history: what the encoder put out, and the step it was put out in
    audioLog,       \* what the session got
    converter,      \* the rate of m_audioConverter, 0 while there is none
    m_bitrate, setter,          \* AACEncode::m_bitrate; where setBitrate is
    refused,        \* history: the last rate was refused
    frames,         \* frames encoded in this round
    vt, vtQueue,    \* VideoToolbox: where its callback is, the frames to come
    units,          \* history: the steps in which SPS and PPS were put out last
    m_sps, m_pps, m_sentConfig, \* H264Packetizer
    videoLog        \* what the session got
audioVars == <<audio, windows, aacSentConfig, m_asc, m_sentAudioConfig, audioOut, audioLog>>
rateVars == <<converter, m_bitrate, setter, refused>>
videoVars == <<frames, vt, vtQueue, units, m_sps, m_pps, m_sentConfig, videoLog>>
graphVars == <<round, step, videoSplit>>
vars == <<graphVars, audioVars, rateVars, videoVars>>

\* The connections in the order they are made.
MixerToAac == 1
SplitToH264 == 2
AacToSplit == 3
H264ToSplit == 4
SplitToH264Packetizer == 5
SplitToAacPacketizer == 6
H264PacketizerToSession == 7
AacPacketizerToSession == 8
Connected(k) == step >= k

preview == 0
Alive == {preview} \cup (IF step > 0 THEN {round} ELSE {})

Zeros == "zeros"
Asc == "asc"
Config(asc) == [config |-> asc, data |-> 0]
Packet(n) == [config |-> "", data |-> n]

Init ==
    /\ round = 0 /\ step = 0 /\ videoSplit = <<preview>>
    /\ audio = "idle" /\ windows = 0 /\ aacSentConfig = FALSE /\ m_asc = Zeros
    /\ m_sentAudioConfig = FALSE /\ audioOut = <<>> /\ audioLog = <<>>
    /\ converter = FirstRate /\ m_bitrate = FirstRate /\ setter = 0 /\ refused = FALSE
    /\ frames = 0 /\ vt = "idle" /\ vtQueue = <<>> /\ units = [sps |-> 0, pps |-> 0]
    /\ m_sps = FALSE /\ m_pps = FALSE /\ m_sentConfig = FALSE /\ videoLog = <<>>
-----------------------------------------------------------------------------
(* The graph queue.                                                        *)
\* addEncodersAndPacketizers begins: new encoders, the mixer's output first.
\* (The splits and packetizers are made later; nothing reaches them before.)
AddEncoders ==
    /\ step = 0 /\ round < MaxRounds
    /\ round' = round + 1 /\ step' = MixerToAac
    /\ UNCHANGED <<videoSplit, audioVars, rateVars, videoVars>>

Connect ==
    /\ step \in MixerToAac..H264PacketizerToSession
    /\ step' = step + 1
    /\ videoSplit' = IF step' = SplitToH264 THEN setOutput(videoSplit, round, Alive) ELSE videoSplit
    /\ UNCHANGED <<round, audioVars, rateVars, videoVars>>

\* The block of pauseRtmpSession and endRtmpSession. What the encoders and
\* packetizers held goes with them. A push that is under way keeps the old
\* encoder, which finds no packetizer any more; the throughput thread is joined
\* with the session. VideoToolbox is taken to finish its callback before the
\* compression session is invalidated.
Release ==
    /\ step = AacPacketizerToSession /\ vt = "idle" /\ setter = 0
    /\ videoSplit' = removeOutput(videoSplit, round, Alive)
    /\ step' = 0
    /\ audio' = IF audio = "idle" THEN "idle" ELSE "orphan"
    /\ windows' = 0 /\ aacSentConfig' = FALSE /\ m_asc' = Zeros
    /\ m_sentAudioConfig' = FALSE /\ audioOut' = <<>> /\ audioLog' = <<>>
    /\ converter' = FirstRate /\ m_bitrate' = FirstRate /\ refused' = FALSE
    /\ frames' = 0 /\ vtQueue' = <<>> /\ units' = [sps |-> 0, pps |-> 0]
    /\ m_sps' = FALSE /\ m_pps' = FALSE /\ m_sentConfig' = FALSE /\ videoLog' = <<>>
    /\ UNCHANGED <<round, setter, vt>>
-----------------------------------------------------------------------------
(* Audio: the mix thread in AACEncode::pushBuffer.                         *)
\* Mutant: the configuration is kept only when there is an output.
AacPacketizerLate(out) ==
    /\ m_asc' = IF Connected(AacPacketizerToSession) /\ m_asc = Zeros /\ out = Config(Asc) THEN Asc ELSE m_asc
    /\ IF Connected(AacPacketizerToSession)
       THEN /\ m_sentAudioConfig' = TRUE
            /\ audioLog' = Append(audioLog, IF m_sentAudioConfig THEN out ELSE Config(m_asc'))
       ELSE UNCHANGED <<m_sentAudioConfig, audioLog>>

\* Mutant: the packet that the configuration goes out for is sent as well.
AacPacketizerBoth(out) ==
    /\ m_asc' = IF Connected(SplitToAacPacketizer) /\ m_asc = Zeros /\ out = Config(Asc) THEN Asc ELSE m_asc
    /\ IF Connected(AacPacketizerToSession)
       THEN /\ m_sentAudioConfig' = TRUE
            /\ audioLog' = IF m_sentAudioConfig THEN Append(audioLog, out) ELSE audioLog \o <<Config(m_asc'), out>>
       ELSE UNCHANGED <<m_sentAudioConfig, audioLog>>

\* AACPacketizer::pushBuffer. Two bytes are taken for the configuration.
AacPacketizer(out) ==
    /\ m_asc' = IF Connected(SplitToAacPacketizer) /\ m_asc = Zeros /\ out = Config(Asc) THEN Asc ELSE m_asc
    /\ IF Connected(AacPacketizerToSession)
       THEN /\ m_sentAudioConfig' = TRUE
            /\ audioLog' = Append(audioLog, IF m_sentAudioConfig THEN out ELSE Config(m_asc'))
       ELSE UNCHANGED <<m_sentAudioConfig, audioLog>>

PutOut(out) ==
    /\ audioOut' = Append(audioOut, [out |-> out, step |-> step])
    /\ AacPacketizer(out)

\* The samples go through the converter, under m_converterMutex.
AacFill ==
    /\ audio = "idle" /\ Connected(MixerToAac) /\ windows < MaxWindows /\ setter = 0
    /\ windows' = windows + 1
    /\ audio' = "fill"
    /\ UNCHANGED <<graphVars, aacSentConfig, m_asc, m_sentAudioConfig, audioOut, audioLog, rateVars, videoVars>>

\* The converter may keep the samples and give no bytes.
AacFilled ==
    /\ audio = "fill"
    /\ \/ audio' = "idle"
       \/ Connected(AacToSplit) /\ audio' = IF aacSentConfig THEN "data" ELSE "asc"
    /\ UNCHANGED <<graphVars, windows, aacSentConfig, m_asc, m_sentAudioConfig, audioOut, audioLog,
                   rateVars, videoVars>>

AacPushConfig ==
    /\ audio = "asc"
    /\ PutOut(Config(Asc))
    /\ aacSentConfig' = TRUE
    /\ audio' = "data"
    /\ UNCHANGED <<graphVars, windows, rateVars, videoVars>>

AacPushData ==
    /\ audio = "data"
    /\ PutOut(Packet(windows))
    /\ audio' = "idle"
    /\ UNCHANGED <<graphVars, windows, aacSentConfig, rateVars, videoVars>>

AacOrphan ==
    /\ audio = "orphan"
    /\ audio' = "idle"
    /\ UNCHANGED <<graphVars, windows, aacSentConfig, m_asc, m_sentAudioConfig, audioOut, audioLog,
                   rateVars, videoVars>>

\* Mutant: the converter is exchanged without the mutex.
SetBitrateUnlocked(bitrate) ==
    /\ Connected(MixerToAac) /\ setter = 0 /\ m_bitrate # bitrate
    /\ setter' = bitrate /\ converter' = 0
    /\ UNCHANGED <<graphVars, audioVars, m_bitrate, refused, videoVars>>
\* The throughput thread: the old converter is disposed of,
SetBitrate(bitrate) ==
    /\ Connected(MixerToAac) /\ setter = 0 /\ m_bitrate # bitrate
    /\ audio # "fill"
    /\ setter' = bitrate /\ converter' = 0
    /\ UNCHANGED <<graphVars, audioVars, m_bitrate, refused, videoVars>>
\* and a new one is made, which may refuse the rate and keeps any other.
NewConverter ==
    /\ setter # 0
    /\ \/ converter' = setter /\ m_bitrate' = setter /\ refused' = FALSE
       \/ converter' \in Rates /\ refused' = TRUE /\ UNCHANGED m_bitrate
    /\ setter' = 0
    /\ UNCHANGED <<graphVars, audioVars, videoVars>>
-----------------------------------------------------------------------------
(* Video: the mixer's frames, and VideoToolbox's callbacks.                *)
\* The first frame of a compression session is a key frame.
EncodeFrame ==
    /\ frames < MaxFrames
    /\ \E i \in DOMAIN Receivers(videoSplit, Alive) : Receivers(videoSplit, Alive)[i] = round
    /\ round > 0
    /\ frames' = frames + 1
    /\ \E key \in BOOLEAN : (frames = 0 => key) /\ vtQueue' = Append(vtQueue, [n |-> frames + 1, key |-> key])
    /\ UNCHANGED <<graphVars, audioVars, rateVars, vt, units, m_sps, m_pps, m_sentConfig, videoLog>>

VtCallback ==
    /\ vt = "idle" /\ vtQueue # <<>>
    /\ vt' = IF Head(vtQueue).key THEN "sps" ELSE "frame"
    /\ UNCHANGED <<graphVars, audioVars, rateVars, frames, vtQueue, units, m_sps, m_pps, m_sentConfig, videoLog>>

\* Mutant: the sets are sent whenever they come.
PacketizeSetAlways ==
    IF Connected(H264PacketizerToSession) /\ m_sps' /\ m_pps'
    THEN m_sentConfig' = TRUE /\ videoLog' = Append(videoLog, [config |-> TRUE, n |-> 0, units |-> units])
    ELSE UNCHANGED <<m_sentConfig, videoLog>>
\* H264Packetizer::pushBuffer for a parameter set, m_sps' and m_pps' being
\* what it holds afterwards.
PacketizeSet ==
    IF Connected(H264PacketizerToSession) /\ m_sps' /\ m_pps' /\ ~m_sentConfig
    THEN m_sentConfig' = TRUE /\ videoLog' = Append(videoLog, [config |-> TRUE, n |-> 0, units |-> units])
    ELSE UNCHANGED <<m_sentConfig, videoLog>>

\* What the callback puts out reaches the packetizer.
ReachesPacketizer == Connected(SplitToH264Packetizer)

VtSps ==
    /\ vt = "sps"
    /\ units' = [units EXCEPT !.sps = step]
    /\ m_sps' = (m_sps \/ ReachesPacketizer)
    /\ UNCHANGED m_pps
    /\ PacketizeSet
    /\ vt' = "pps"
    /\ UNCHANGED <<graphVars, audioVars, rateVars, frames, vtQueue>>
VtPps ==
    /\ vt = "pps"
    /\ units' = [units EXCEPT !.pps = step]
    /\ m_pps' = (m_pps \/ ReachesPacketizer)
    /\ UNCHANGED m_sps
    /\ PacketizeSet
    /\ vt' = "frame"
    /\ UNCHANGED <<graphVars, audioVars, rateVars, frames, vtQueue>>
\* A frame is sent whether the configuration was or not.
VtFrame ==
    /\ vt = "frame"
    /\ videoLog' = IF Connected(H264PacketizerToSession)
                   THEN Append(videoLog, [config |-> FALSE, n |-> Head(vtQueue).n, units |-> units])
                   ELSE videoLog
    /\ vtQueue' = Tail(vtQueue)
    /\ vt' = "idle"
    /\ UNCHANGED <<graphVars, audioVars, rateVars, frames, units, m_sps, m_pps, m_sentConfig>>

Next ==
    \/ AddEncoders \/ Connect \/ Release
    \/ AacFill \/ AacFilled \/ AacPushConfig \/ AacPushData \/ AacOrphan
    \/ (\E bitrate \in Rates : SetBitrate(bitrate)) \/ NewConverter
    \/ EncodeFrame \/ VtCallback \/ VtSps \/ VtPps \/ VtFrame
Spec == Init /\ [][Next]_vars
-----------------------------------------------------------------------------
(* The session's audio begins with the one configuration, and that is the  *)
(* encoder's, unless the encoder gave it away before the packetizer was    *)
(* connected to it (the encoder is connected to the running mixer first).  *)
AudioConfigFirst ==
    /\ \A i \in DOMAIN audioLog : (audioLog[i].config # "") <=> (i = 1)
    /\ audioLog # <<>> /\ audioLog[1].config = Zeros =>
           \E i \in DOMAIN audioOut :
               audioOut[i].out = Config(Asc) /\ audioOut[i].step < SplitToAacPacketizer

(* The session gets every packet that was put out once all is connected,   *)
(* in order, except that the configuration takes the place of the first.   *)
AudioInOrder ==
    LET early == Len(audioOut) - Len(audioLog)
    IN  /\ early >= 0
        /\ \A i \in DOMAIN audioOut : (audioOut[i].step = AacPacketizerToSession) <=> (i > early)
        /\ \A i \in 2..Len(audioLog) : audioLog[i] = audioOut[early + i].out

(* A frame goes out without the decoder's configuration before it only if  *)
(* the parameter sets of its key frame came before the packetizer had an   *)
(* output or before the packetizer itself; the sets go out once.           *)
FramesDecodable ==
    /\ Cardinality({i \in DOMAIN videoLog : videoLog[i].config}) <= 1
    /\ \A i \in DOMAIN videoLog :
           \/ \E j \in 1..i : videoLog[j].config
           \/ videoLog[i].units.pps < H264PacketizerToSession
           \/ videoLog[i].units.sps < SplitToH264Packetizer

(* The mix thread never encodes with a converter that has been disposed    *)
(* of, and the rate reported is the converter's unless it was refused.     *)
ConverterInUse ==
    /\ audio = "fill" => converter # 0
    /\ setter = 0 /\ ~refused => m_bitrate = converter

(* The video split holds the preview and the encoder of the running        *)
(* session, and nothing of the sessions before.                            *)
VideoSplitExact ==
    videoSplit = IF Connected(SplitToH264) THEN <<preview, round>> ELSE <<preview>>
=============================================================================
