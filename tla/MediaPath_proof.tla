--------------------------- MODULE MediaPath_proof ---------------------------
(***************************************************************************)
(* Theorems about MediaPath, for every value of its constants.             *)
(***************************************************************************)
EXTENDS MediaPath, TLAPS, SequenceTheorems, FiniteSetTheorems, WellFoundedInduction

-----------------------------------------------------------------------------
(* The inductive invariants. *)

\* There is no converter only while setBitrate makes one, and then the mix
\* thread is not in it.
RateInv ==
  /\ converter \in Rates \cup {0} /\ setter \in Rates \cup {0}
  /\ setter = 0 => converter # 0
  /\ audio = "fill" => setter = 0
  /\ setter = 0 /\ ~refused => m_bitrate = converter

Outs == [config : {"", Zeros, Asc}, data : Nat]

AudioType ==
  /\ step \in Nat /\ windows \in Nat
  /\ aacSentConfig \in BOOLEAN /\ m_sentAudioConfig \in BOOLEAN
  /\ m_asc \in {Zeros, Asc}
  /\ audioOut \in Seq([out : Outs, step : Nat])
  /\ audioLog \in Seq(Outs)

\* The encoder puts its configuration out once and first; the packetizer knows
\* it from then on, or was not connected.
EncoderInv ==
  /\ audio = "asc" => ~aacSentConfig
  /\ audio = "data" => aacSentConfig
  /\ ~aacSentConfig => audioOut = <<>> /\ audioLog = <<>> /\ m_asc = Zeros
  /\ aacSentConfig => audioOut # <<>> /\ audioOut[1].out = Config(Asc)
  /\ aacSentConfig /\ m_asc = Zeros => audioOut[1].step < SplitToAacPacketizer

\* The session's log begins with what the packetizer holds.
PacketizerInv ==
  /\ m_sentAudioConfig <=> audioLog # <<>>
  /\ audioLog # <<>> => audioLog[1].config = m_asc
  /\ \A i \in DOMAIN audioLog : (audioLog[i].config # "") <=> (i = 1)

AudioInv == AudioType /\ EncoderInv /\ PacketizerInv

-----------------------------------------------------------------------------
(* The converter. *)

LEMMA InitRate == Init => RateInv
  BY MediaAssumption DEF Init, RateInv

LEMMA StepRate == RateInv /\ [Next]_vars => RateInv'
<1> SUFFICES ASSUME RateInv, [Next]_vars PROVE RateInv'
  OBVIOUS
<1> USE MediaAssumption DEF RateInv
<1>1. CASE AddEncoders \/ Connect
  BY <1>1 DEF AddEncoders, Connect, rateVars, audioVars
<1>2. CASE Release
  BY <1>2 DEF Release
<1>3. CASE AacFill
  BY <1>3 DEF AacFill, rateVars
<1>4. CASE AacFilled
  BY <1>4 DEF AacFilled, rateVars
<1>5. CASE AacPushConfig \/ AacPushData \/ AacOrphan
  BY <1>5 DEF AacPushConfig, AacPushData, AacOrphan, rateVars
<1>6. ASSUME NEW bitrate \in Rates, SetBitrate(bitrate) PROVE RateInv'
  BY <1>6 DEF SetBitrate, audioVars
<1>7. CASE NewConverter
  BY <1>7 DEF NewConverter, audioVars
<1>8. CASE EncodeFrame \/ VtCallback \/ VtSps \/ VtPps \/ VtFrame
  BY <1>8 DEF EncodeFrame, VtCallback, VtSps, VtPps, VtFrame, audioVars, rateVars
<1>9. CASE UNCHANGED vars
  BY <1>9 DEF vars, audioVars, rateVars
<1> QED
  BY <1>1, <1>2, <1>3, <1>4, <1>5, <1>6, <1>7, <1>8, <1>9 DEF Next

\* AACEncode::pushBuffer never uses a converter that setBitrate has disposed of,
\* and bitrate() is the rate of the converter unless that was refused.
THEOREM ConverterIsInUse == Spec => []ConverterInUse
<1>1. RateInv => ConverterInUse
  BY DEF RateInv, ConverterInUse
<1> QED
  BY <1>1, InitRate, StepRate, PTL DEF Spec

-----------------------------------------------------------------------------
(* The configuration of the audio decoder. *)

\* What Init and Release have in common.
LEMMA FreshAudio ==
  ASSUME step \in Nat, windows \in Nat, aacSentConfig = FALSE, m_asc = Zeros, m_sentAudioConfig = FALSE,
         audioOut = <<>>, audioLog = <<>>, audio \in {"idle", "orphan"}
  PROVE  AudioInv
<1>1. audioOut \in Seq([out : Outs, step : Nat]) /\ audioLog \in Seq(Outs) /\ DOMAIN audioLog = {}
  OBVIOUS
<1>2. AudioType
  BY <1>1, Zenon DEF AudioType
<1>3. EncoderInv
  BY Zenon DEF EncoderInv
<1>4. PacketizerInv
  BY <1>1, Zenon DEF PacketizerInv
<1> QED
  BY <1>2, <1>3, <1>4 DEF AudioInv

LEMMA InitAudio == Init => AudioInv
<1> SUFFICES ASSUME Init PROVE AudioInv
  OBVIOUS
<1>1. step \in Nat /\ windows \in Nat
  BY DEF Init
<1> QED
  BY <1>1, FreshAudio, Zenon DEF Init

LEMMA AppendKeepsFirst ==
  ASSUME NEW S, NEW s \in Seq(S), NEW x \in S, s # <<>>
  PROVE  Append(s, x) # <<>> /\ Append(s, x)[1] = s[1]
  OBVIOUS

\* A push that the encoder's state allows, of its configuration or of data.
Pushes(out) ==
  /\ PutOut(out) /\ UNCHANGED <<step, windows>>
  /\ aacSentConfig' /\ aacSentConfig' \in BOOLEAN /\ audio' \in {"idle", "data"}
  /\ (out = Config(Asc) /\ ~aacSentConfig) \/ (out.config = "" /\ aacSentConfig)

\* A step that changes nothing the invariant speaks of but the connections and
\* the mix thread, which does not come to put out anything.
LEMMA OtherAudio ==
  ASSUME AudioInv, step' \in Nat, windows' \in Nat,
         UNCHANGED <<aacSentConfig, m_asc, m_sentAudioConfig, audioOut, audioLog>>,
         audio' = audio \/ audio' \in {"idle", "fill"} \/ (aacSentConfig /\ audio' = "data")
           \/ (~aacSentConfig /\ audio' = "asc")
  PROVE  AudioInv'
<1>1. AudioType'
  BY Zenon DEF AudioInv, AudioType
<1>2. EncoderInv'
  BY Zenon DEF AudioInv, EncoderInv
<1>3. PacketizerInv'
  BY Zenon DEF AudioInv, PacketizerInv
<1> QED
  BY <1>1, <1>2, <1>3, Zenon DEF AudioInv

LEMMA PushAudio ==
  ASSUME AudioInv, NEW out \in Outs, Pushes(out)
  PROVE  AudioInv'
<1> DEFINE o == [out |-> out, step |-> step]
<1>1. Zeros # "" /\ Asc # "" /\ Zeros # Asc
  BY DEF Zeros, Asc
<1>2. \A c \in {Zeros, Asc} : Config(c) \in Outs /\ Config(c).config = c
  BY DEF Config, Outs
<1>3. audioOut' = Append(audioOut, o)
  BY Zenon DEF Pushes, PutOut
<1>4. m_asc' = IF Connected(SplitToAacPacketizer) /\ m_asc = Zeros /\ out = Config(Asc) THEN Asc ELSE m_asc
  BY Zenon DEF Pushes, PutOut, AacPacketizer
<1>5. \/ audioLog' = audioLog /\ m_sentAudioConfig' = m_sentAudioConfig
      \/ m_sentAudioConfig' /\ m_sentAudioConfig' \in BOOLEAN /\ m_sentAudioConfig /\ audioLog' = Append(audioLog, out)
      \/ m_sentAudioConfig' /\ m_sentAudioConfig' \in BOOLEAN /\ ~m_sentAudioConfig /\ audioLog' = Append(audioLog, Config(m_asc'))
  BY Zenon DEF Pushes, PutOut, AacPacketizer
<1>6. AudioType /\ EncoderInv /\ PacketizerInv
  BY DEF AudioInv
<1> HIDE DEF o
<1>7. m_asc' \in {Zeros, Asc} /\ Config(m_asc') \in Outs
  BY <1>2, <1>4, <1>6, Zenon DEF AudioType
<1>8. AudioType'
  <2>1. o \in [out : Outs, step : Nat]
    BY <1>6 DEF AudioType, o
  <2>2. audioOut' \in Seq([out : Outs, step : Nat])
    BY <1>3, <1>6, <2>1, AppendProperties, Zenon DEF AudioType
  <2>3. audioLog' \in Seq(Outs)
    <3>1. \A x \in Outs : Append(audioLog, x) \in Seq(Outs)
      BY <1>6, AppendProperties, Zenon DEF AudioType
    <3> QED
      BY <1>5, <1>6, <1>7, <3>1, Zenon DEF AudioType
  <2>4. m_sentAudioConfig' \in BOOLEAN
    BY <1>5, <1>6, Zenon DEF AudioType
  <2>5. step' \in Nat /\ windows' \in Nat /\ aacSentConfig' \in BOOLEAN
    BY <1>6, Zenon DEF AudioType, Pushes
  <2> QED
    BY <1>7, <2>2, <2>3, <2>4, <2>5, Zenon DEF AudioType
<1>11. aacSentConfig' /\ audio' # "asc"
  BY Zenon DEF Pushes
<1>9. CASE out = Config(Asc) /\ ~aacSentConfig
  <2>1. audioOut = <<>> /\ audioLog = <<>> /\ m_asc = Zeros /\ ~m_sentAudioConfig
    BY <1>6, <1>9, Zenon DEF EncoderInv, PacketizerInv
  <2>2. audioOut' # <<>> /\ audioOut'[1].out = Config(Asc) /\ audioOut'[1].step = step
    BY <1>3, <1>9, <2>1 DEF o
  <2>3. m_asc' = Zeros => ~Connected(SplitToAacPacketizer)
    BY <1>1, <1>4, <1>9, <2>1, Zenon
  <2>4. m_asc' = Zeros => step < SplitToAacPacketizer
    BY <1>6, <2>3 DEF Connected, SplitToAacPacketizer, AudioType
  <2>5. EncoderInv'
    BY <1>11, <2>2, <2>4, Zenon DEF EncoderInv
  <2>6. CASE audioLog' = audioLog /\ m_sentAudioConfig' = m_sentAudioConfig
    <3>1. audioLog' = <<>> /\ ~m_sentAudioConfig'
      BY <2>1, <2>6, Zenon
    <3>2. DOMAIN audioLog' = {}
      BY <3>1
    <3>3. PacketizerInv'
      BY <3>1, <3>2, Zenon DEF PacketizerInv
    <3> QED
      BY <1>8, <2>5, <3>3 DEF AudioInv
  <2>7. CASE m_sentAudioConfig' /\ m_sentAudioConfig' \in BOOLEAN /\ ~m_sentAudioConfig /\ audioLog' = Append(audioLog, Config(m_asc'))
    <3>1. audioLog' = <<Config(m_asc')>>
      BY <2>1, <2>7
    <3>2. audioLog' # <<>> /\ DOMAIN audioLog' = {1} /\ audioLog'[1] = Config(m_asc')
      BY <3>1
    <3>3. audioLog'[1].config = m_asc' /\ m_asc' # ""
      BY <1>1, <1>2, <1>7, <3>2, Zenon
    <3>4. PacketizerInv'
      BY <2>7, <3>2, <3>3, Zenon DEF PacketizerInv
    <3> QED
      BY <1>8, <2>5, <3>4 DEF AudioInv
  <2> QED
    BY <1>5, <2>1, <2>6, <2>7, Zenon
<1>10. CASE out.config = "" /\ aacSentConfig
  <2>1. m_asc' = m_asc
    BY <1>1, <1>2, <1>4, <1>10, Zenon
  <2>2. audioOut # <<>> /\ audioOut[1].out = Config(Asc)
        /\ (m_asc = Zeros => audioOut[1].step < SplitToAacPacketizer)
    BY <1>6, <1>10, Zenon DEF EncoderInv
  <2>3. audioOut' # <<>> /\ audioOut'[1] = audioOut[1]
    <3>1. o \in [out : Outs, step : Nat]
      BY <1>6 DEF AudioType, o
    <3> QED
      BY <1>3, <1>6, <2>2, <3>1, AppendKeepsFirst, Zenon DEF AudioType
  <2>4. EncoderInv'
    BY <1>11, <2>1, <2>2, <2>3, Zenon DEF EncoderInv
  <2>5. CASE audioLog' = audioLog /\ m_sentAudioConfig' = m_sentAudioConfig
    <3>1. PacketizerInv'
      BY <1>6, <2>1, <2>5, Zenon DEF PacketizerInv
    <3> QED
      BY <1>8, <2>4, <3>1 DEF AudioInv
  <2>6. CASE m_sentAudioConfig' /\ m_sentAudioConfig' \in BOOLEAN /\ m_sentAudioConfig /\ audioLog' = Append(audioLog, out)
    <3>1. audioLog # <<>> /\ audioLog[1].config = m_asc
      BY <1>6, <2>6, Zenon DEF PacketizerInv
    <3>2. PICK n \in Nat : n = Len(audioLog) /\ DOMAIN audioLog = 1..n
      BY <1>6 DEF AudioType
    <3>3. /\ DOMAIN audioLog' = 1..(n + 1)
          /\ audioLog'[n + 1] = out
          /\ \A i \in 1..n : audioLog'[i] = audioLog[i]
      BY <1>6, <2>6, <3>2 DEF AudioType
    <3>4. n >= 1
      BY <1>6, <3>1, <3>2 DEF AudioType
    <3>5. \A i \in 1..n : (audioLog[i].config # "") <=> (i = 1)
      BY <1>6, <3>2, Zenon DEF PacketizerInv
    <3>6. ASSUME NEW i \in 1..(n + 1) PROVE (audioLog'[i].config # "") <=> (i = 1)
      <4>1. CASE i = n + 1
        <5>1. audioLog'[i].config = ""
          BY <1>10, <3>3, <4>1, Zenon
        <5>2. i # 1
          BY <3>4, <4>1
        <5> QED
          BY <5>1, <5>2
      <4>2. CASE i \in 1..n
        BY <3>3, <3>5, <4>2, Zenon
      <4>3. i = n + 1 \/ i \in 1..n
        OBVIOUS
      <4> QED
        BY <4>1, <4>2, <4>3
    <3>7. audioLog' # <<>> /\ audioLog'[1] = audioLog[1]
      BY <3>3, <3>4
    <3>8. PacketizerInv'
      BY <2>1, <2>6, <3>1, <3>3, <3>6, <3>7, Zenon DEF PacketizerInv
    <3> QED
      BY <1>8, <2>4, <3>8 DEF AudioInv
  <2>7. CASE m_sentAudioConfig' /\ m_sentAudioConfig' \in BOOLEAN /\ ~m_sentAudioConfig /\ audioLog' = Append(audioLog, Config(m_asc'))
    <3>1. audioLog = <<>>
      BY <1>6, <2>7, Zenon DEF PacketizerInv
    <3>2. audioLog' = <<Config(m_asc')>>
      BY <2>7, <3>1
    <3>3. audioLog' # <<>> /\ DOMAIN audioLog' = {1} /\ audioLog'[1] = Config(m_asc')
      BY <3>2
    <3>4. audioLog'[1].config = m_asc' /\ m_asc' # ""
      BY <1>1, <1>2, <1>7, <3>3, Zenon
    <3>5. PacketizerInv'
      BY <2>7, <3>3, <3>4, Zenon DEF PacketizerInv
    <3> QED
      BY <1>8, <2>4, <3>5 DEF AudioInv
  <2> QED
    BY <1>5, <2>5, <2>6, <2>7, Zenon
<1> QED
  BY <1>9, <1>10, Zenon DEF Pushes

LEMMA StepAudio == AudioInv /\ [Next]_vars => AudioInv'
<1> SUFFICES ASSUME AudioInv, [Next]_vars PROVE AudioInv'
  OBVIOUS
<1>0. step \in Nat /\ step + 1 \in Nat /\ windows \in Nat /\ windows + 1 \in Nat /\ 1 \in Nat
  BY DEF AudioInv, AudioType
<1>1. CASE AddEncoders
  BY <1>0, <1>1, OtherAudio, Zenon DEF AddEncoders, audioVars, MixerToAac
<1>2. CASE Connect
  BY <1>0, <1>2, OtherAudio, Zenon DEF Connect, audioVars
<1>3. CASE Release
  <2>1. /\ step' \in Nat /\ windows' \in Nat /\ aacSentConfig' = FALSE /\ m_asc' = Zeros
        /\ m_sentAudioConfig' = FALSE /\ audioOut' = <<>> /\ audioLog' = <<>> /\ audio' \in {"idle", "orphan"}
    BY <1>3 DEF Release
  <2>2. audioOut' \in Seq([out : Outs, step : Nat]) /\ audioLog' \in Seq(Outs) /\ DOMAIN audioLog' = {}
    BY <2>1
  <2>3. AudioType'
    BY <2>1, <2>2, Zenon DEF AudioType
  <2>4. EncoderInv'
    BY <2>1, Zenon DEF EncoderInv
  <2>5. PacketizerInv'
    BY <2>1, <2>2, Zenon DEF PacketizerInv
  <2> QED
    BY <2>3, <2>4, <2>5 DEF AudioInv
<1>4. CASE AacFill
  BY <1>0, <1>4, OtherAudio, Zenon DEF AacFill, graphVars
<1>5. CASE AacFilled
  BY <1>0, <1>5, OtherAudio, Zenon DEF AacFilled, graphVars
<1>6. CASE AacOrphan
  BY <1>0, <1>6, OtherAudio, Zenon DEF AacOrphan, graphVars
<1>7. CASE AacPushConfig
  <2>1. Config(Asc) \in Outs
    BY DEF Config, Outs
  <2>2. ~aacSentConfig
    BY <1>7, Zenon DEF AacPushConfig, AudioInv, EncoderInv
  <2>3. Pushes(Config(Asc))
    BY <1>7, <2>2, Zenon DEF AacPushConfig, graphVars, Pushes
  <2> QED
    BY <2>1, <2>3, PushAudio, Zenon
<1>8. CASE AacPushData
  <2>1. Packet(windows) \in Outs /\ Packet(windows).config = ""
    BY <1>0 DEF Packet, Outs
  <2>2. aacSentConfig /\ aacSentConfig \in BOOLEAN
    BY <1>8, Zenon DEF AacPushData, AudioInv, AudioType, EncoderInv
  <2>3. Pushes(Packet(windows))
    BY <1>8, <2>1, <2>2, Zenon DEF AacPushData, graphVars, Pushes
  <2> QED
    BY <2>1, <2>3, PushAudio, Zenon
<1>9. ASSUME NEW bitrate \in Rates, SetBitrate(bitrate) PROVE AudioInv'
  BY <1>0, <1>9, OtherAudio, Zenon DEF SetBitrate, graphVars, audioVars
<1>10. CASE NewConverter \/ EncodeFrame \/ VtCallback \/ VtSps \/ VtPps \/ VtFrame \/ UNCHANGED vars
  <2>1. UNCHANGED <<graphVars, audioVars>>
    BY <1>10, Zenon DEF NewConverter, EncodeFrame, VtCallback, VtSps, VtPps, VtFrame, vars
  <2> QED
    BY <1>0, <2>1, OtherAudio, Zenon DEF graphVars, audioVars
<1> QED
  BY <1>1, <1>2, <1>3, <1>4, <1>5, <1>6, <1>7, <1>8, <1>9, <1>10, Zenon DEF Next

\* The first thing the session gets from AACPacketizer, and nothing after it, is
\* a configuration: the encoder's, unless that went out before the packetizer
\* was connected.
THEOREM ConfigurationFirst == Spec => []AudioConfigFirst
<1>1. AudioInv => AudioConfigFirst
  <2> SUFFICES ASSUME AudioInv PROVE AudioConfigFirst
    OBVIOUS
  <2>1. ASSUME audioLog # <<>>, audioLog[1].config = Zeros
        PROVE  \E i \in DOMAIN audioOut :
                  audioOut[i].out = Config(Asc) /\ audioOut[i].step < SplitToAacPacketizer
    <3>1. aacSentConfig /\ m_asc = Zeros
      BY <2>1 DEF AudioInv, EncoderInv, PacketizerInv
    <3>2. audioOut # <<>> /\ audioOut[1].out = Config(Asc) /\ audioOut[1].step < SplitToAacPacketizer
      BY <3>1 DEF AudioInv, EncoderInv
    <3>3. 1 \in DOMAIN audioOut
      BY <3>2, EmptySeq DEF AudioInv, AudioType
    <3> QED
      BY <3>2, <3>3
  <2> QED
    BY <2>1 DEF AudioConfigFirst, AudioInv, PacketizerInv
<1> QED
  BY <1>1, InitAudio, StepAudio, PTL DEF Spec

-----------------------------------------------------------------------------
(* The audio in the session.                                               *)

\* audioLog is what the encoder put out behind its first `early` packets, and
\* those behind are the packets of the time since the last connection.
TailFrom(early) ==
  /\ early >= 0
  /\ \A i \in 1..Len(audioOut) : (audioOut[i].step = AacPacketizerToSession) <=> (i > early)
  /\ \A i \in 2..Len(audioLog) : audioLog[i] = audioOut[early + i].out

OrderInv ==
  /\ step \in 0..AacPacketizerToSession
  /\ step < AacPacketizerToSession => audioLog = <<>>
  /\ TailFrom(Len(audioOut) - Len(audioLog))

LEMMA FreshOrder ==
  ASSUME step \in 0..AacPacketizerToSession, audioOut = <<>>, audioLog = <<>> PROVE OrderInv
BY DEF OrderInv, TailFrom

LEMMA InitOrder == Init => OrderInv
BY FreshOrder DEF Init, AacPacketizerToSession

LEMMA PushOrder ==
  ASSUME AudioInv, OrderInv, NEW out \in Outs, Pushes(out)
  PROVE  OrderInv'
<1> USE DEF AacPacketizerToSession
<1>1. /\ audioOut \in Seq([out : Outs, step : Nat]) /\ audioLog \in Seq(Outs)
      /\ m_asc \in {Zeros, Asc} /\ step \in 0..8
      /\ (m_sentAudioConfig <=> audioLog # <<>>)
  BY DEF AudioInv, AudioType, PacketizerInv, OrderInv
<1>a. PutOut(out) /\ step' = step
  BY Zenon DEF Pushes
<1>2. /\ audioOut' = Append(audioOut, [out |-> out, step |-> step])
      /\ step' = step
      /\ IF step = 8
         THEN audioLog' = Append(audioLog, IF m_sentAudioConfig THEN out ELSE Config(m_asc'))
         ELSE audioLog' = audioLog
  BY <1>1, <1>a DEF PutOut, AacPacketizer, Connected
<1>3. /\ Len(audioOut') = Len(audioOut) + 1
      /\ audioOut'[Len(audioOut) + 1].out = out /\ audioOut'[Len(audioOut) + 1].step = step
      /\ \A i \in 1..Len(audioOut) : audioOut'[i] = audioOut[i]
      /\ Len(audioOut) \in Nat /\ Len(audioLog) \in Nat
  BY <1>1, <1>2
<1>4. CASE step = 8
  <2>1. PICK x : audioLog' = Append(audioLog, x) /\ (audioLog # <<>> => x = out)
    BY <1>1, <1>2, <1>4
  <2>2. /\ Len(audioLog') = Len(audioLog) + 1 /\ audioLog'[Len(audioLog) + 1] = x
        /\ \A i \in 1..Len(audioLog) : audioLog'[i] = audioLog[i]
        /\ Len(audioLog) >= 1 => x = out
    BY <1>1, <2>1
  <2>3. PICK early : early = Len(audioOut) - Len(audioLog)
    OBVIOUS
  <2>5. /\ early \in Nat /\ Len(audioOut') - Len(audioLog') = early
        /\ \A i \in 1..Len(audioOut) : (audioOut[i].step = 8) <=> (i > early)
        /\ \A i \in 2..Len(audioLog) : audioLog[i] = audioOut[early + i].out
    BY <1>3, <2>2, <2>3 DEF OrderInv, TailFrom
  <2>6. \A i \in 1..Len(audioOut') : (audioOut'[i].step = 8) <=> (i > early)
    <3> TAKE i \in 1..Len(audioOut')
    <3>1. CASE i = Len(audioOut) + 1
      BY <3>1, <1>3, <1>4, <2>3
    <3>2. CASE i # Len(audioOut) + 1
      BY <3>2, <1>3, <2>5
    <3> QED
      BY <3>1, <3>2
  <2>7. \A i \in 2..Len(audioLog') : audioLog'[i] = audioOut'[early + i].out
    <3> TAKE i \in 2..Len(audioLog')
    <3>1. CASE i = Len(audioLog) + 1
      <4>1. early + i = Len(audioOut) + 1 /\ Len(audioLog) >= 1
        BY <3>1, <2>3, <1>3
      <4>2. audioLog'[i] = out
        BY <3>1, <4>1, <2>2
      <4> QED
        BY <4>1, <4>2, <1>3
    <3>2. CASE i # Len(audioLog) + 1
      <4>1. i \in 1..Len(audioLog) /\ i \in 2..Len(audioLog) /\ early + i \in 1..Len(audioOut)
        BY <3>2, <1>3, <2>2, <2>3, <2>5
      <4> QED
        BY <4>1, <1>3, <2>2, <2>5
    <3> QED
      BY <3>1, <3>2
  <2>8. TailFrom(early)'
    BY <2>5, <2>6, <2>7 DEF TailFrom
  <2> QED
    BY <1>a, <1>4, <2>5, <2>8 DEF OrderInv
<1>5. CASE step # 8
  <2>1. audioLog = <<>> /\ audioLog' = <<>> /\ step < 8
    BY <1>1, <1>2, <1>5 DEF OrderInv
  <2>2. Len(audioLog) = 0 /\ Len(audioLog') = 0
    BY <2>1
  <2>3. \A i \in 1..Len(audioOut) : audioOut[i].step # 8
    BY <1>1, <1>3, <2>2 DEF OrderInv, TailFrom
  <2>4. \A i \in 1..Len(audioOut') : audioOut'[i].step # 8
    BY <1>3, <1>5, <2>3
  <2> QED
    BY <1>1, <1>2, <1>3, <2>1, <2>2, <2>4 DEF OrderInv, TailFrom
<1> QED
  BY <1>4, <1>5

LEMMA StepOrder == AudioInv /\ OrderInv /\ [Next]_vars => OrderInv'
<1> SUFFICES ASSUME AudioInv, OrderInv, [Next]_vars PROVE OrderInv'
  OBVIOUS
<1> USE DEF AacPacketizerToSession
<1>0. /\ audioOut \in Seq([out : Outs, step : Nat]) /\ audioLog \in Seq(Outs)
      /\ windows \in Nat /\ step \in 0..8
  BY DEF AudioInv, AudioType, OrderInv
<1>1. CASE UNCHANGED <<step, audioOut, audioLog>>
  BY <1>1 DEF OrderInv, TailFrom
<1>2. CASE AddEncoders \/ Connect
  <2>1. step' = step + 1 /\ step < 8 /\ UNCHANGED <<audioOut, audioLog>>
    BY <1>2, <1>0 DEF AddEncoders, Connect, MixerToAac, H264PacketizerToSession, audioVars
  <2>2. Len(audioLog) = 0 /\ audioLog = <<>> /\ Len(audioLog') = 0
    BY <2>1 DEF OrderInv
  <2> QED
    BY <1>0, <2>1, <2>2 DEF OrderInv, TailFrom
<1>3. CASE Release
  <2>1. step' = 0 /\ audioOut' = <<>> /\ audioLog' = <<>>
    BY <1>3 DEF Release
  <2> QED
    BY <2>1 DEF OrderInv, TailFrom
<1>4. CASE AacPushConfig
  <2>1. Config(Asc) \in Outs
    BY DEF Config, Outs
  <2>2. ~aacSentConfig
    BY <1>4, Zenon DEF AacPushConfig, AudioInv, EncoderInv
  <2>3. Pushes(Config(Asc))
    BY <1>4, <2>2, Zenon DEF AacPushConfig, graphVars, Pushes
  <2> QED
    BY <2>1, <2>3, PushOrder, Zenon
<1>5. CASE AacPushData
  <2>1. Packet(windows) \in Outs /\ Packet(windows).config = ""
    BY <1>0 DEF Packet, Outs
  <2>2. aacSentConfig /\ aacSentConfig \in BOOLEAN
    BY <1>5, Zenon DEF AacPushData, AudioInv, AudioType, EncoderInv
  <2>3. Pushes(Packet(windows))
    BY <1>5, <2>1, <2>2, Zenon DEF AacPushData, graphVars, Pushes
  <2> QED
    BY <2>1, <2>3, PushOrder, Zenon
<1>6. ASSUME NEW bitrate \in Rates, SetBitrate(bitrate) PROVE UNCHANGED <<step, audioOut, audioLog>>
  BY <1>6, Zenon DEF SetBitrate, graphVars, audioVars
<1>7. AacFill \/ AacFilled \/ AacOrphan \/ NewConverter \/ EncodeFrame \/ VtCallback
        \/ VtSps \/ VtPps \/ VtFrame \/ UNCHANGED vars => UNCHANGED <<step, audioOut, audioLog>>
  BY Zenon DEF AacFill, AacFilled, AacOrphan, NewConverter, EncodeFrame, VtCallback, VtSps, VtPps,
      VtFrame, vars, graphVars, audioVars
<1> QED
  BY <1>1, <1>2, <1>3, <1>4, <1>5, <1>6, <1>7, Zenon DEF Next

\* The session gets each packet that is put out once all is connected, in order
\* and once, the first of them replaced by the configuration.
THEOREM AudioArrivesInOrder == Spec => []AudioInOrder
<1>1. AudioInv /\ OrderInv => AudioInOrder
  BY DEF AudioInv, AudioType, OrderInv, TailFrom, AudioInOrder
<1> QED
  BY <1>1, InitAudio, StepAudio, InitOrder, StepOrder, PTL DEF Spec

-----------------------------------------------------------------------------
(* The outputs of the video split. Kept is computed by a recursive function: *)
(* what holds of its values is proved by induction over a set of positions,  *)
(* the first position outside of which has none before it.                   *)

LEMMA LeastNatural ==
  ASSUME NEW T, T \subseteq Nat, T # {}
  PROVE  \E x \in T : \A y \in T : x <= y
<1> DEFINE R == OpToRel(<, Nat)
<1>1. IsWellFoundedOn(R, Nat)
  BY NatLessThanWellFounded, Zenon
<1> HIDE DEF R
<1>2. PICK x \in T : \A y \in T : ~(<<y, x>> \in R)
  BY <1>1, WFMin
<1>3. \A y \in T : ~(y < x)
  BY <1>2 DEF R, OpToRel
<1>4. QED
  BY <1>3

LEMMA SetInduction ==
  ASSUME NEW S, 0 \in S, \A k \in Nat : k \in S => k + 1 \in S
  PROVE  Nat \subseteq S
<1> SUFFICES ASSUME Nat \ S # {} PROVE FALSE
  OBVIOUS
<1>1. PICK x \in Nat \ S : \A y \in Nat \ S : x <= y
  BY LeastNatural, Nat \ S \subseteq Nat
<1>2. x # 0 /\ x - 1 \in Nat
  BY <1>1
<1>3. x - 1 \in S
  BY <1>1, <1>2
<1>4. QED
  BY <1>1, <1>2, <1>3

\* upTo[i] is what is kept of the first i elements of s, for i up to n.
KeptUpTo(upTo, s, S, n) ==
  upTo = [i \in 0..n |->
            IF i = 0 THEN <<>>
            ELSE IF s[i] \in S THEN Append(upTo[i - 1], s[i]) ELSE upTo[i - 1]]

LEMMA KeptExists ==
  ASSUME NEW s, NEW S, NEW N \in Nat
  PROVE  \E upTo : KeptUpTo(upTo, s, S, N)
<1> DEFINE K == {n \in Nat : \E upTo : KeptUpTo(upTo, s, S, n)}
<1>1. 0 \in K
  <2>1. KeptUpTo([i \in 0..0 |-> <<>>], s, S, 0)
    BY DEF KeptUpTo
  <2> QED
    BY <2>1
<1>2. ASSUME NEW k \in Nat, k \in K PROVE \E upTo : KeptUpTo(upTo, s, S, k + 1)
  <2> PICK t : t = [i \in 0..k |-> IF i = 0 THEN <<>>
                                   ELSE IF s[i] \in S THEN Append(t[i - 1], s[i]) ELSE t[i - 1]]
    BY <1>2 DEF KeptUpTo
  <2> PICK last : last = IF s[k + 1] \in S THEN Append(t[k], s[k + 1]) ELSE t[k]
    OBVIOUS
  <2> PICK u : u = [i \in 0..(k + 1) |-> IF i = k + 1 THEN last ELSE t[i]]
    OBVIOUS
  <2>1. \A i \in 0..(k + 1) :
           u[i] = IF i = 0 THEN <<>>
                  ELSE IF s[i] \in S THEN Append(u[i - 1], s[i]) ELSE u[i - 1]
    <3> TAKE i \in 0..(k + 1)
    <3>1. CASE i = k + 1
      <4>1. u[i] = last /\ u[k] = t[k] /\ i - 1 = k /\ i # 0
        BY <3>1
      <4> QED
        BY <3>1, <4>1
    <3>2. CASE i = 0
      BY <3>2
    <3>3. CASE i # k + 1 /\ i # 0
      <4>1. i \in 0..k /\ i - 1 \in 0..k /\ i - 1 # k + 1 /\ i - 1 \in 0..(k + 1)
        BY <3>3
      <4>2. u[i] = t[i] /\ u[i - 1] = t[i - 1]
        BY <4>1
      <4> QED
        BY <4>1, <4>2, <3>3
    <3> QED
      BY <3>1, <3>2, <3>3
  <2>2. KeptUpTo(u, s, S, k + 1)
    <3> HIDE <2>1
    <3>1. u = [i \in 0..(k + 1) |-> u[i]]
      OBVIOUS
    <3> QED
      BY <3>1, <2>1 DEF KeptUpTo
  <2> QED
    BY <2>2
<1>3. \A k \in Nat : k \in K => k + 1 \in K
  BY <1>2
<1> HIDE DEF K
<1>4. N \in K
  BY <1>1, <1>3, SetInduction
<1> QED
  BY <1>4 DEF K

LEMMA KeptIs ==
  ASSUME NEW s, NEW S, Len(s) \in Nat
  PROVE  \E t : KeptUpTo(t, s, S, Len(s)) /\ Kept(s, S) = t[Len(s)]
<1> DEFINE Is(u) == KeptUpTo(u, s, S, Len(s))
<1>1. \E u : Is(u)
  BY KeptExists
<1>2. Is(CHOOSE u : Is(u))
  BY <1>1, Zenon
<1>3. Kept(s, S) = (CHOOSE u : Is(u))[Len(s)]
  BY DEF Kept, KeptUpTo
<1> QED
  BY <1>2, <1>3, Zenon

\* The split between a session's connection and its release.
LEMMA KeptOfTwo ==
  ASSUME NEW x, NEW y, NEW S, x \in S, y \notin S
  PROVE  Kept(<<x, y>>, S) = <<x>>
<1> PICK s : s = <<x, y>>
  OBVIOUS
<1>1. Len(s) = 2 /\ s[1] = x /\ s[2] = y
  OBVIOUS
<1>2. PICK t : KeptUpTo(t, s, S, 2) /\ Kept(s, S) = t[2]
  BY <1>1, KeptIs
<1>3. t[0] = <<>> /\ t[1] = Append(t[0], x) /\ t[2] = t[1]
  <2>1. t = [i \in 0..2 |-> IF i = 0 THEN <<>>
                            ELSE IF s[i] \in S THEN Append(t[i - 1], s[i]) ELSE t[i - 1]]
    BY <1>2 DEF KeptUpTo
  <2>2. 0 \in 0..2 /\ 1 \in 0..2 /\ 2 \in 0..2 /\ 1 - 1 = 0 /\ 2 - 1 = 1
    OBVIOUS
  <2>3. t[0] = <<>>
    BY <2>1, <2>2, Zenon
  <2>a. \A i \in 0..2 : i # 0 =>
          t[i] = IF s[i] \in S THEN Append(t[i - 1], s[i]) ELSE t[i - 1]
    BY <2>1, Zenon
  <2>b. 1 # 0 /\ 2 # 0
    OBVIOUS
  <2>4. t[1] = IF s[1] \in S THEN Append(t[1 - 1], s[1]) ELSE t[1 - 1]
    BY <2>2, <2>a, <2>b, Zenon
  <2>5. t[2] = IF s[2] \in S THEN Append(t[2 - 1], s[2]) ELSE t[2 - 1]
    BY <2>2, <2>a, <2>b, Zenon
  <2> QED
    BY <1>1, <2>2, <2>3, <2>4, <2>5, Zenon
<1>4. Append(<<>>, x) = <<x>>
  OBVIOUS
<1> QED
  BY <1>2, <1>3, <1>4

\* A session's encoder is never taken for the preview: rounds count from 1.
SplitInv ==
  /\ step \in 0..AacPacketizerToSession /\ round \in Nat
  /\ step > 0 => round # preview
  /\ VideoSplitExact

LEMMA InitSplit == Init => SplitInv
<1> SUFFICES ASSUME Init PROVE SplitInv
  OBVIOUS
<1> QED
  BY DEF Init, SplitInv, VideoSplitExact, Connected, SplitToH264, AacPacketizerToSession, preview

LEMMA StepSplit == SplitInv /\ [Next]_vars => SplitInv'
<1> SUFFICES ASSUME SplitInv, [Next]_vars PROVE SplitInv'
  OBVIOUS
<1> USE DEF SplitToH264, AacPacketizerToSession, preview, Connected
<1>0. /\ step \in 0..8 /\ round \in Nat /\ (step > 0 => round # 0)
      /\ videoSplit = IF step >= 2 THEN <<0, round>> ELSE <<0>>
  BY DEF SplitInv, VideoSplitExact
<1>1. CASE UNCHANGED graphVars
  BY <1>1 DEF graphVars, SplitInv, VideoSplitExact
<1>2. /\ step' \in 0..8 /\ round' \in Nat /\ (step' > 0 => round' # 0)
      /\ videoSplit' = IF step' >= 2 THEN <<0, round'>> ELSE <<0>>
      => SplitInv'
  BY DEF SplitInv, VideoSplitExact
<1>3. CASE AddEncoders
  BY <1>0, <1>2, <1>3 DEF AddEncoders, MixerToAac
<1>4. CASE Connect
  <2>1. step \in 1..7 /\ step' = step + 1 /\ round' = round
        /\ videoSplit' = IF step' = 2 THEN setOutput(videoSplit, round, Alive) ELSE videoSplit
    BY <1>4 DEF Connect, MixerToAac, H264PacketizerToSession
  <2>2. CASE step' = 2
    <3>1. videoSplit = <<0>> /\ round # 0
      BY <1>0, <2>1, <2>2
    <3>2. videoSplit' = Append(<<0>>, round)
      BY <2>1, <2>2, <3>1 DEF setOutput
    <3> QED
      BY <1>0, <1>2, <2>1, <2>2, <3>2
  <2>3. CASE step' # 2
    BY <1>0, <1>2, <2>1, <2>3
  <2> QED
    BY <2>2, <2>3
<1>5. CASE Release
  <2>0. step = 8 /\ step' = 0 /\ round' = round /\ videoSplit' = removeOutput(videoSplit, round, Alive)
    BY <1>5, Zenon DEF Release
  <2>1. /\ step = 8 /\ step' = 0 /\ round' = round /\ round # 0
        /\ videoSplit' = Kept(videoSplit, {0, round} \ {round})
    BY <1>0, <2>0 DEF removeOutput, Alive
  <2>2. videoSplit = <<0, round>> /\ 0 \in {0, round} \ {round} /\ round \notin {0, round} \ {round}
    BY <1>0, <2>1
  <2>3. videoSplit' = <<0>>
    BY <2>1, <2>2, KeptOfTwo
  <2> QED
    BY <1>0, <1>2, <2>1, <2>3
<1>6. ASSUME NEW bitrate \in Rates, SetBitrate(bitrate) PROVE UNCHANGED graphVars
  BY <1>6, Zenon DEF SetBitrate
<1>7. AacFill \/ AacFilled \/ AacPushConfig \/ AacPushData \/ AacOrphan \/ NewConverter \/ EncodeFrame
        \/ VtCallback \/ VtSps \/ VtPps \/ VtFrame \/ UNCHANGED vars => UNCHANGED graphVars
  BY Zenon DEF AacFill, AacFilled, AacPushConfig, AacPushData, AacOrphan, NewConverter, EncodeFrame,
      VtCallback, VtSps, VtPps, VtFrame, vars
<1> QED
  BY <1>1, <1>3, <1>4, <1>5, <1>6, <1>7, Zenon DEF Next

\* m_videoSplit holds the preview and, from its connection to its release, the
\* encoder of the running session, through any number of sessions.
THEOREM SplitHoldsRunningEncoder == Spec => []VideoSplitExact
<1>1. SplitInv => VideoSplitExact
  BY DEF SplitInv
<1> QED
  BY <1>1, InitSplit, StepSplit, PTL DEF Spec

-----------------------------------------------------------------------------
(* The configuration of the video decoder. *)

VideoUnits == [sps : Nat, pps : Nat]
VideoEntries == [config : BOOLEAN, n : Nat, units : VideoUnits]
VideoFrames == [n : Nat, key : BOOLEAN]

VideoType ==
  /\ step \in 0..AacPacketizerToSession /\ frames \in Nat
  /\ m_sps \in BOOLEAN /\ m_pps \in BOOLEAN /\ m_sentConfig \in BOOLEAN
  /\ units \in VideoUnits
  /\ vtQueue \in Seq(VideoFrames) /\ (vt # "idle" => vtQueue # <<>>)
  /\ videoLog \in Seq(VideoEntries)

\* The parameter sets that were put out last came to a packetizer that was
\* connected, or too early; when both came late enough they were sent on.
SetsInv ==
  /\ units.sps <= step /\ units.pps <= step
  /\ units.sps >= SplitToH264Packetizer => m_sps
  /\ units.pps >= SplitToH264Packetizer => m_pps
  /\ units.sps >= SplitToH264Packetizer /\ units.pps >= H264PacketizerToSession
       => m_sentConfig

Decodable(i) ==
  \/ \E j \in 1..i : videoLog[j].config
  \/ videoLog[i].units.pps < H264PacketizerToSession
  \/ videoLog[i].units.sps < SplitToH264Packetizer

VideoInv ==
  /\ VideoType /\ SetsInv
  /\ m_sentConfig <=> \E i \in 1..Len(videoLog) : videoLog[i].config
  /\ \A i, j \in 1..Len(videoLog) : videoLog[i].config /\ videoLog[j].config => i = j
  /\ \A i \in 1..Len(videoLog) : Decodable(i)

LEMMA FreshVideo ==
  ASSUME step = 0, frames = 0, vt = "idle", vtQueue = <<>>, units = [sps |-> 0, pps |-> 0],
         m_sps = FALSE, m_pps = FALSE, m_sentConfig = FALSE, videoLog = <<>>
  PROVE  VideoInv
<1> USE DEF AacPacketizerToSession, SplitToH264Packetizer, H264PacketizerToSession
<1>1. /\ vtQueue \in Seq(VideoFrames) /\ videoLog \in Seq(VideoEntries) /\ Len(videoLog) = 0
      /\ units \in VideoUnits /\ units.sps = 0 /\ units.pps = 0 /\ step \in 0..8 /\ frames \in Nat
  BY DEF VideoUnits
<1>2. VideoType
  BY <1>1, Zenon DEF VideoType
<1>3. SetsInv
  BY <1>1 DEF SetsInv
<1> QED
  BY <1>1, <1>2, <1>3 DEF VideoInv

LEMMA InitVideo == Init => VideoInv
BY FreshVideo, Zenon DEF Init

videoLogVars == <<units, m_sps, m_pps, m_sentConfig, videoLog>>

\* A step that leaves the log alone, and no connection is undone.
LEMMA OtherVideo ==
  ASSUME VideoInv, VideoType', step' >= step, UNCHANGED videoLogVars
  PROVE  VideoInv'
<1>1. SetsInv'
  BY DEF VideoInv, VideoType, VideoUnits, SetsInv, videoLogVars, AacPacketizerToSession
<1> QED
  BY <1>1 DEF VideoInv, Decodable, videoLogVars

\* A step in which an entry with the current parameter sets is added to the log.
LEMMA LogVideo ==
  ASSUME VideoInv, VideoType', SetsInv', NEW entry \in VideoEntries, videoLog' = Append(videoLog, entry),
         \/ entry.config /\ ~m_sentConfig /\ m_sentConfig'
         \/ ~entry.config /\ m_sentConfig' = m_sentConfig /\ entry.units = units'
  PROVE  VideoInv'
<1> USE DEF SplitToH264Packetizer, H264PacketizerToSession
<1>1. /\ videoLog \in Seq(VideoEntries) /\ m_sentConfig \in BOOLEAN /\ m_sentConfig' \in BOOLEAN
      /\ entry.config \in BOOLEAN /\ entry.units \in VideoUnits
      /\ entry.units.pps \in Nat /\ entry.units.sps \in Nat
  BY DEF VideoInv, VideoType, VideoEntries, VideoUnits
<1>2. /\ Len(videoLog') = Len(videoLog) + 1 /\ videoLog'[Len(videoLog) + 1] = entry
      /\ \A i \in 1..Len(videoLog) : videoLog'[i] = videoLog[i]
      /\ Len(videoLog) \in Nat
  BY <1>1
<1>3. m_sentConfig' <=> \E i \in 1..Len(videoLog') : videoLog'[i].config
  <2>1. m_sentConfig <=> \E i \in 1..Len(videoLog) : videoLog[i].config
    BY Zenon DEF VideoInv
  <2>2. (\E i \in 1..Len(videoLog') : videoLog'[i].config)
          <=> (\E i \in 1..Len(videoLog) : videoLog[i].config) \/ entry.config
    BY <1>2
  <2> QED
    BY <1>1, <2>1, <2>2, Zenon
<1>4. \A i, j \in 1..Len(videoLog') : videoLog'[i].config /\ videoLog'[j].config => i = j
  <2> SUFFICES ASSUME NEW i \in 1..Len(videoLog'), NEW j \in 1..Len(videoLog'),
                      videoLog'[i].config, videoLog'[j].config
               PROVE  i = j
    OBVIOUS
  <2>1. CASE i \in 1..Len(videoLog) /\ j \in 1..Len(videoLog)
    BY <1>2, <2>1 DEF VideoInv
  <2>2. CASE i = Len(videoLog) + 1 \/ j = Len(videoLog) + 1
    <3>1. entry.config => ~m_sentConfig
      BY <1>1, Zenon
    <3>2. entry.config
      BY <1>2, <2>2
    <3>3. \A k \in 1..Len(videoLog) : ~videoLog[k].config
      BY <3>1, <3>2 DEF VideoInv
    <3> QED
      BY <1>2, <3>3
  <2> QED
    BY <1>2, <2>1, <2>2
<1>5. \A i \in 1..Len(videoLog') : Decodable(i)'
  <2> TAKE i \in 1..Len(videoLog')
  <2>1. CASE i \in 1..Len(videoLog)
    <3>1. Decodable(i)
      BY <2>1 DEF VideoInv
    <3>2. \A j \in 1..i : videoLog'[j] = videoLog[j]
      BY <1>2, <2>1
    <3> QED
      BY <2>1, <3>1, <3>2, <1>2 DEF Decodable
  <2>2. CASE i = Len(videoLog) + 1
    <3>1. CASE m_sentConfig'
      <4>1. PICK k \in 1..Len(videoLog') : videoLog'[k].config
        BY <1>3, <3>1
      <4> QED
        BY <2>2, <1>2, <4>1 DEF Decodable
    <3>2. CASE ~m_sentConfig'
      <4>1. entry.units = units'
        BY <3>2, <1>1
      <4>2. ~(units'.sps >= 5 /\ units'.pps >= 7)
        BY <3>2 DEF SetsInv
      <4>3. entry.units.sps < 5 \/ entry.units.pps < 7
        BY <1>1, <4>1, <4>2
      <4> QED
        BY <1>2, <2>2, <4>3 DEF Decodable
    <3> QED
      BY <3>1, <3>2
  <2> QED
    BY <1>2, <2>1, <2>2
<1> QED
  BY <1>3, <1>4, <1>5 DEF VideoInv

\* A parameter set comes: the packetizer keeps it, or sends both.
LEMMA SetVideo ==
  ASSUME VideoInv, VtSps \/ VtPps
  PROVE  VideoInv'
<1> USE DEF SplitToH264Packetizer, H264PacketizerToSession, AacPacketizerToSession, ReachesPacketizer,
            Connected
<1>0. /\ m_sps \in BOOLEAN /\ m_pps \in BOOLEAN /\ m_sentConfig \in BOOLEAN
      /\ step \in 0..8 /\ units \in VideoUnits /\ units.sps \in Nat /\ units.pps \in Nat
      /\ videoLog \in Seq(VideoEntries)
      /\ frames \in Nat /\ vtQueue \in Seq(VideoFrames) /\ vtQueue # <<>>
  BY DEF VideoInv, VideoType, VideoUnits, VtSps, VtPps
<1>1. /\ step' = step /\ UNCHANGED <<frames, vtQueue>> /\ PacketizeSet
      /\ \/ units' = [units EXCEPT !.sps = step] /\ m_sps' = (m_sps \/ step >= 5) /\ m_pps' = m_pps
         \/ units' = [units EXCEPT !.pps = step] /\ m_pps' = (m_pps \/ step >= 5) /\ m_sps' = m_sps
  BY DEF VtSps, VtPps, graphVars
<1>2. m_sps' \in BOOLEAN /\ m_pps' \in BOOLEAN
  <2>1. (m_sps \/ step >= 5) \in BOOLEAN /\ (m_pps \/ step >= 5) \in BOOLEAN
    OBVIOUS
  <2> QED
    BY <1>0, <1>1, <2>1, Zenon
<1>3. units' \in VideoUnits
  BY <1>0, <1>1 DEF VideoUnits
<1> PICK entry : entry = [config |-> TRUE, n |-> 0, units |-> units]
  OBVIOUS
<1>4. entry \in VideoEntries /\ entry.config
  BY <1>0 DEF VideoEntries
<1>5. \/ (step >= 7 /\ m_sps' /\ m_pps') /\ ~m_sentConfig /\ m_sentConfig' = TRUE
            /\ videoLog' = Append(videoLog, entry)
      \/ ~(step >= 7 /\ m_sps' /\ m_pps' /\ ~m_sentConfig)
            /\ m_sentConfig' = m_sentConfig /\ videoLog' = videoLog
  BY <1>1, Zenon DEF PacketizeSet
<1>a. step >= 7 /\ m_sps' /\ m_pps' => m_sentConfig'
  <2> HAVE step >= 7 /\ m_sps' /\ m_pps'
  <2>1. CASE m_sentConfig
    <3>1. m_sentConfig' = TRUE \/ m_sentConfig' = m_sentConfig
      BY <1>5
    <3> QED
      BY <2>1, <3>1
  <2>2. CASE ~m_sentConfig
    BY <1>5, <2>2
  <2> QED
    BY <2>1, <2>2
<1>6. VideoType'
  <2>1. Append(videoLog, entry) \in Seq(VideoEntries)
    BY <1>0, <1>4
  <2>2. videoLog' \in Seq(VideoEntries) /\ m_sentConfig' \in BOOLEAN
    BY <1>0, <1>5, <2>1, Zenon
  <2> QED
    BY <1>0, <1>1, <1>2, <1>3, <2>2, Zenon DEF VideoType
<1>7. SetsInv'
  <2>1. /\ units.sps <= step /\ units.pps <= step
        /\ (units.sps >= 5 => m_sps) /\ (units.pps >= 5 => m_pps)
        /\ (units.sps >= 5 /\ units.pps >= 7 => m_sentConfig)
    BY Zenon DEF VideoInv, SetsInv
  <2>2. CASE units' = [units EXCEPT !.sps = step] /\ m_sps' = (m_sps \/ step >= 5) /\ m_pps' = m_pps
    <3>1. units'.sps = step /\ units'.pps = units.pps
      BY <1>0, <2>2 DEF VideoUnits
    <3>2. (units'.sps >= 5 => m_sps') /\ (units'.pps >= 5 => m_pps')
      BY <2>1, <2>2, <3>1, Zenon
    <3>3. units'.sps >= 5 /\ units'.pps >= 7 => m_sentConfig'
      <4> HAVE units'.sps >= 5 /\ units'.pps >= 7
      <4>1. step >= 7 /\ units'.pps >= 5
        BY <1>0, <2>1, <3>1
      <4>2. m_sps' /\ m_pps'
        BY <3>2, <4>1, Zenon
      <4> QED
        BY <1>a, <4>1, <4>2, Zenon
    <3> QED
      BY <1>0, <1>1, <2>1, <3>1, <3>2, <3>3 DEF SetsInv
  <2>3. CASE units' = [units EXCEPT !.pps = step] /\ m_pps' = (m_pps \/ step >= 5) /\ m_sps' = m_sps
    <3>1. units'.pps = step /\ units'.sps = units.sps
      BY <1>0, <2>3 DEF VideoUnits
    <3>2. (units'.sps >= 5 => m_sps') /\ (units'.pps >= 5 => m_pps')
      BY <2>1, <2>3, <3>1, Zenon
    <3>3. units'.sps >= 5 /\ units'.pps >= 7 => m_sentConfig'
      <4> HAVE units'.sps >= 5 /\ units'.pps >= 7
      <4>1. step >= 7 /\ units'.pps >= 5
        BY <1>0, <3>1
      <4>2. m_sps' /\ m_pps'
        BY <3>2, <4>1, Zenon
      <4> QED
        BY <1>a, <4>1, <4>2, Zenon
    <3> QED
      BY <1>0, <1>1, <2>1, <3>1, <3>2, <3>3 DEF SetsInv
  <2> QED
    BY <1>1, <2>2, <2>3
<1>8. CASE ~m_sentConfig /\ m_sentConfig' = TRUE /\ videoLog' = Append(videoLog, entry)
  BY <1>4, <1>6, <1>7, <1>8, LogVideo, Zenon
<1>9. CASE m_sentConfig' = m_sentConfig /\ videoLog' = videoLog
  BY <1>6, <1>7, <1>9 DEF VideoInv, Decodable
<1> QED
  BY <1>5, <1>8, <1>9, Zenon

LEMMA FrameVideo ==
  ASSUME VideoInv, VtFrame
  PROVE  VideoInv'
<1> USE DEF SplitToH264Packetizer, H264PacketizerToSession, AacPacketizerToSession, Connected
<1>0. /\ step \in 0..8 /\ units \in VideoUnits /\ videoLog \in Seq(VideoEntries)
      /\ vtQueue \in Seq(VideoFrames) /\ vtQueue # <<>>
  BY DEF VideoInv, VideoType, VtFrame
<1> PICK entry : entry = [config |-> FALSE, n |-> Head(vtQueue).n, units |-> units]
  OBVIOUS
<1>1. Head(vtQueue) \in VideoFrames /\ Tail(vtQueue) \in Seq(VideoFrames)
  BY <1>0
<1>2. entry \in VideoEntries /\ ~entry.config /\ entry.units = units
  BY <1>0, <1>1 DEF VideoEntries, VideoFrames
<1>3. /\ vt' = "idle" /\ vtQueue' = Tail(vtQueue) /\ step' = step
      /\ UNCHANGED <<frames, units, m_sps, m_pps, m_sentConfig>>
      /\ videoLog' = Append(videoLog, entry) \/ videoLog' = videoLog
  BY DEF VtFrame, graphVars
<1>4. VideoType'
  <2>1. Append(videoLog, entry) \in Seq(VideoEntries)
    BY <1>0, <1>2
  <2>2. videoLog' \in Seq(VideoEntries)
    BY <1>0, <1>3, <2>1, Zenon
  <2> QED
    BY <1>1, <1>3, <2>2, Zenon DEF VideoInv, VideoType
<1>5. SetsInv'
  BY <1>3, Zenon DEF VideoInv, SetsInv
<1>6. CASE videoLog' = Append(videoLog, entry)
  BY <1>2, <1>3, <1>4, <1>5, <1>6, LogVideo, Zenon
<1>7. CASE videoLog' = videoLog
  BY <1>3, <1>4, <1>5, <1>7 DEF VideoInv, Decodable
<1> QED
  BY <1>3, <1>6, <1>7

LEMMA StepVideo == VideoInv /\ [Next]_vars => VideoInv'
<1> SUFFICES ASSUME VideoInv, [Next]_vars PROVE VideoInv'
  OBVIOUS
<1> USE DEF AacPacketizerToSession
<1>0. VideoType /\ step \in 0..8 /\ frames \in Nat /\ vtQueue \in Seq(VideoFrames)
  BY DEF VideoInv, VideoType
<1>1. CASE UNCHANGED <<step, videoVars>>
  <2>1. VideoType'
    BY <1>0, <1>1, Zenon DEF VideoType, videoVars
  <2> QED
    BY <1>0, <1>1, <2>1, OtherVideo DEF videoVars, videoLogVars
<1>2. CASE AddEncoders \/ Connect
  <2>1. step' = step + 1 /\ step' \in 0..8 /\ UNCHANGED videoVars
    BY <1>0, <1>2 DEF AddEncoders, Connect, MixerToAac, H264PacketizerToSession
  <2>2. VideoType'
    BY <1>0, <2>1, Zenon DEF VideoType, videoVars
  <2> QED
    BY <1>0, <2>1, <2>2, OtherVideo DEF videoVars, videoLogVars
<1>3. CASE Release
  <2>1. /\ step' = 0 /\ frames' = 0 /\ vt' = "idle" /\ vtQueue' = <<>> /\ units' = [sps |-> 0, pps |-> 0]
        /\ m_sps' = FALSE /\ m_pps' = FALSE /\ m_sentConfig' = FALSE /\ videoLog' = <<>>
    BY <1>3 DEF Release
  <2>2. /\ vtQueue' \in Seq(VideoFrames) /\ videoLog' \in Seq(VideoEntries) /\ Len(videoLog') = 0
        /\ units' \in VideoUnits /\ units'.sps = 0 /\ units'.pps = 0 /\ step' \in 0..8 /\ frames' \in Nat
    BY <2>1 DEF VideoUnits
  <2>3. VideoType'
    BY <2>1, <2>2, Zenon DEF VideoType
  <2>4. SetsInv'
    BY <2>1, <2>2 DEF SetsInv, SplitToH264Packetizer, H264PacketizerToSession
  <2> QED
    BY <2>1, <2>2, <2>3, <2>4 DEF VideoInv
<1>4. CASE EncodeFrame
  <2>1. /\ UNCHANGED <<step, vt, units, m_sps, m_pps, m_sentConfig, videoLog>> /\ frames' = frames + 1
        /\ \E key \in BOOLEAN : vtQueue' = Append(vtQueue, [n |-> frames + 1, key |-> key])
    BY <1>4 DEF EncodeFrame, graphVars
  <2>2. vtQueue' \in Seq(VideoFrames) /\ vtQueue' # <<>> /\ frames' \in Nat
    BY <1>0, <2>1 DEF VideoFrames
  <2>3. VideoType'
    BY <1>0, <2>1, <2>2, Zenon DEF VideoType
  <2> QED
    BY <1>0, <2>1, <2>3, OtherVideo DEF videoLogVars
<1>5. CASE VtCallback
  <2>1. UNCHANGED <<step, frames, vtQueue, units, m_sps, m_pps, m_sentConfig, videoLog>> /\ vtQueue # <<>>
    BY <1>5, Zenon DEF VtCallback, graphVars
  <2>2. VideoType'
    BY <1>0, <2>1, Zenon DEF VideoType
  <2> QED
    BY <1>0, <2>1, <2>2, OtherVideo DEF videoLogVars
<1>6. ASSUME NEW bitrate \in Rates, SetBitrate(bitrate) PROVE UNCHANGED <<step, videoVars>>
  BY <1>6, Zenon DEF SetBitrate, graphVars
<1>7. AacFill \/ AacFilled \/ AacPushConfig \/ AacPushData \/ AacOrphan \/ NewConverter
        \/ UNCHANGED vars => UNCHANGED <<step, videoVars>>
  BY Zenon DEF AacFill, AacFilled, AacPushConfig, AacPushData, AacOrphan, NewConverter, vars, graphVars
<1> QED
  BY <1>1, <1>2, <1>3, <1>4, <1>5, <1>6, <1>7, SetVideo, FrameVideo, Zenon DEF Next

\* A frame goes out without the decoder's configuration only when its parameter
\* sets came too early, and the configuration goes out once in a session.
THEOREM FramesAreDecodable == Spec => []FramesDecodable
<1>1. VideoInv => FramesDecodable
  <2> SUFFICES ASSUME VideoInv PROVE FramesDecodable
    OBVIOUS
  <2> PICK C : C = {i \in DOMAIN videoLog : videoLog[i].config}
    OBVIOUS
  <2>1. DOMAIN videoLog = 1..Len(videoLog)
    BY DEF VideoInv, VideoType
  <2>2. \A i, j \in C : i = j
    BY <2>1 DEF VideoInv
  <2>3. C = {} \/ \E i : C = {i}
    BY <2>2
  <2>4. Cardinality(C) <= 1
    BY <2>3, FS_EmptySet, FS_Singleton
  <2> QED
    BY <2>1, <2>4 DEF VideoInv, Decodable, FramesDecodable
<1> QED
  BY <1>1, InitVideo, StepVideo, PTL DEF Spec
=============================================================================
