--------------------------- MODULE AppleAudioMixer ---------------------------
(***************************************************************************)
(* Apple::AudioMixer::resample (mixers/Apple/AudioMixer.cpp): a converter  *)
(* is made for an input format at its first buffer and kept under a key    *)
(* made of the format's fields; to fill an output buffer it calls ioProc   *)
(* for input packets. The output format can be set at any time and is no   *)
(* part of the key. One source's thread calls resample, which is taken to  *)
(* read the output format once, at its start.                              *)
(***************************************************************************)
EXTENDS Integers, FiniteSets
CONSTANTS
    Formats,    \* input formats: [rate, channels, bits, flags, bytes]
    Outputs,    \* output formats: [rate, channels], 16 bits
    Frames,     \* frames of a buffer
    Field       \* values of a field of the key, 2^8 in the code

VARIABLES
    out,            \* m_outFrequencyInHz, m_outChannelCount
    m_converters,   \* [in, out] of the converters, by key
    call            \* resample's: nothing, or [in, out, frames, converter, wanted, handed]
vars == <<out, m_converters, call>>

\* Interleaved integers: kAudioFormatFlagIsFloat is 1, IsNonInterleaved 2^5.
Plain(in) == in.flags % 2 = 0 /\ (in.flags \div (Field \div 8)) % 2 = 0

\* Mutant: the flags are left out.
KeyWithoutFlags(in) == <<in.bytes % Field, in.channels % Field, in.bits % Field, in.rate>>
\* The five fields side by side in 64 bits.
hash(in) == <<in.bytes % Field, in.flags % Field, in.channels % Field, in.bits % Field, in.rate>>

Init == out \in Outputs /\ m_converters = <<>> /\ call = {}

\* setFrequencyInHz, setChannelCount
SetOutput(o) == o # out /\ out' = o /\ UNCHANGED <<m_converters, call>>

SameFormat(in) == in.rate = out.rate /\ in.bits = 16 /\ in.channels = out.channels /\ Plain(in)

outBufferSampleCount(in, frames) == (2 * frames * out.rate + in.rate) \div (2 * in.rate)

Resample(in, frames) ==
    /\ call = {} /\ ~SameFormat(in)
    /\ LET known == hash(in) \in DOMAIN m_converters
           converter == IF known THEN m_converters[hash(in)] ELSE [in |-> in, out |-> out]
       IN  /\ m_converters' = [k \in DOMAIN m_converters \cup {hash(in)} |->
                  IF k = hash(in) THEN converter ELSE m_converters[k]]
           /\ call' = {[in |-> in, out |-> out, frames |-> frames, converter |-> converter,
                        wanted |-> outBufferSampleCount(in, frames), handed |-> 0]}
    /\ UNCHANGED out

\* The input packets the converter needs for the output asked for.
Needed(c) ==
    LET product == c.wanted * c.converter.in.rate
    IN  (product + c.converter.out.rate - 1) \div c.converter.out.rate

\* What a callback hands out: numberPackets stays as it was.
Handed(asked, frames) == IF asked < frames THEN asked ELSE frames
ioProc ==
    \E c \in call :
        /\ c.handed < Needed(c)
        /\ \E asked \in 1..(Needed(c) - c.handed) :
              call' = {[c EXCEPT !.handed = @ + Handed(asked, c.frames)]}
        /\ UNCHANGED <<out, m_converters>>
Return ==
    /\ \E c \in call : c.handed >= Needed(c)
    /\ call' = {}
    /\ UNCHANGED <<out, m_converters>>

Next ==
    \/ \E o \in Outputs : SetOutput(o)
    \/ \E in \in Formats, frames \in Frames : Resample(in, frames)
    \/ ioProc \/ Return
Spec == Init /\ [][Next]_vars
-----------------------------------------------------------------------------
(* A buffer is converted by a converter made for its own format, and the   *)
(* packets handed to it are the buffer's, unless the number of output      *)
(* samples rounds up or the converter was made for another output format:  *)
(* then ioProc, asked again, goes on behind the buffer.                    *)
RoundsDown(c) == 2 * ((c.frames * c.out.rate) % c.in.rate) < c.in.rate
ReadsItsBuffer ==
    \A c \in call :
        /\ c.converter.in = c.in
        /\ c.converter.out = c.out /\ RoundsDown(c) => c.handed <= c.frames
=============================================================================
