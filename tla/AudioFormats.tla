---------------------------- MODULE AudioFormats ----------------------------
(***************************************************************************)
(* The arithmetic of GenericAudioMixer on samples: the conversion of a     *)
(* sample to 16 bits, the mix of two samples, and which sample of the      *)
(* input resample takes for each sample of the output. Divisions round to  *)
(* zero as in C; positions in a buffer are bytes from 0. The offset of an  *)
(* output sample is exact: what a float loses of it is not modelled.       *)
(***************************************************************************)
EXTENDS Integers, FiniteSets, Sequences, SequencesExt
CONSTANT Half   \* 2^15, the size of the negative half of int16_t
HasRoot(x) == \E n \in 1..x : n * n = x
ASSUME HalfAssumption == Half \in Nat /\ Half > 1 /\ HasRoot(2 * Half)

INT16_MAX == Half - 1
INT16_MIN == -Half
Int16 == INT16_MIN..INT16_MAX
Wrap(x) == ((x + Half) % (2 * Half)) - Half
Quotient(a, b) == IF a < 0 THEN -((-a) \div b) ELSE a \div b

\* 2^8: a byte is half as wide as a sample.
Byte == CHOOSE n \in 1..Half : n * n = 2 * Half
b8_to_b16(v) == Wrap(v * (Byte - 1))
b16_to_b16(v) == v
b32_to_b16(v) == Wrap(Quotient(v, 2 * Half - 1))
\* 24 bits are extended to 32 and then converted as 32 bits.
b24_to_b16(v) == b32_to_b16(v)

\* Mutant: positive samples are mixed like negative ones.
MixByMin(a, b) == IF a * b > 0 THEN Wrap(a + b + (a * b) \div Half) ELSE a + b
TPMixSamples(a, b) ==
    IF a < 0 /\ b < 0 THEN Wrap(a + b + (a * b) \div Half)
    ELSE IF a > 0 /\ b > 0 THEN Wrap(a + b - (a * b) \div INT16_MAX)
    ELSE Wrap(a + b)
-----------------------------------------------------------------------------
(* An input: [rate, bits, channels, frames, float]. Output at outRate.     *)
bytesPerChannel(in) == (IF in.float THEN 16 ELSE in.bits) \div 8
bytesPerSample(in) == in.channels * bytesPerChannel(in)
channelStride(in) == IF in.channels > 1 THEN bytesPerChannel(in) ELSE 0
outSampleCount(in, outRate) == (in.frames * outRate) \div in.rate

SharedBit(x, mask, weight) == ((x \div weight) % 2) * ((mask \div weight) % 2) * weight
\* x & ~mask
Without(x, mask) ==
    x - SharedBit(x, mask, 1) - SharedBit(x, mask, 2) - SharedBit(x, mask, 4) - SharedBit(x, mask, 8)
iSample(in, outRate, i) ==
    Without((i * in.rate * bytesPerSample(in)) \div outRate, bytesPerSample(in) - 1)

\* The 16-bit positions deinterleaveDefloat fills of the buffer for the frames.
Defloated(in) ==
    IF in.channels = 2
    THEN {i \in 0..in.frames : \E k \in 0..in.frames : 2 * k < in.frames /\ i \in {2 * k, 2 * k + 1}}
    ELSE 0..(in.frames - 1)
\* The bytes there are to read.
Readable(in) ==
    IF in.float THEN UNION {{2 * i, 2 * i + 1} : i \in Defloated(in)}
    ELSE 0..(in.frames * bytesPerSample(in) - 1)
\* The bytes resample reads for its i-th sample.
BytesRead(in, outRate, i) ==
    UNION {p..(p + bytesPerChannel(in) - 1) :
              p \in {iSample(in, outRate, i), iSample(in, outRate, i) + channelStride(in)}}
-----------------------------------------------------------------------------
(* The encoder's AudioSpecificConfig: two bytes with the object type, the  *)
(* index of the sample rate and the channels.                              *)
Rates == <<96000, 88200, 64000, 48000, 44100, 32000, 24000, 22050, 16000, 12000, 11025, 8000, 7350>>
sampleRateIndex(rate) == IF Contains(Rates, rate) THEN SelectInSeq(Rates, LAMBDA r : r = rate) - 1 ELSE 15
makeAsc(index, channels) == <<16 + ((index \div 2) % 4), ((index % 2) * 128) + ((channels % 16) * 8)>>
-----------------------------------------------------------------------------
(* A sample of 8 or 32 bits keeps its level in 16, but for the largest of  *)
(* 32 bits, which wrap round. (24 bits, taken as 32, keep nothing but the  *)
(* few lowest levels.)                                                     *)
Distance(x, y) == IF x < y THEN y - x ELSE x - y
ConversionKeepsLevel(v) ==
    /\ v \in -(Byte \div 2)..(Byte \div 2 - 1) => Distance(b8_to_b16(v), v * Byte) <= Byte \div 2
    /\ v \in -(2 * Half * Half)..(Half * (2 * Half - 1) - 1) => Distance(b32_to_b16(v), v \div (2 * Half)) <= 1
    /\ v \in -(Byte * Half)..(Byte * Half - 1) => Distance(b24_to_b16(v), 0) <= Byte

(* "the mixed signal must have an amplitude between the lesser of A and B, *)
(* and the minimum permissible negative amplitude", likewise for positive  *)
(* samples, and opposite samples cancel out (comments of TPMixSamples);    *)
(* no mix wraps round.                                                     *)
MixStaysBetween(a, b) ==
    LET mix == TPMixSamples(a, b)
    IN  /\ mix = TPMixSamples(b, a)
        /\ a < 0 /\ b < 0 => INT16_MIN <= mix /\ mix <= a /\ mix <= b
        /\ a > 0 /\ b > 0 => a <= mix /\ b <= mix /\ mix <= INT16_MAX
        /\ a <= 0 /\ 0 <= b => a <= mix /\ mix <= b

(* For integer samples of 8, 16 or 32 bits, and float samples of one       *)
(* channel, every output sample is the input sample at its time, and all   *)
(* that is read has been provided. (24-bit samples are not aligned by the  *)
(* mask; of two float channels only every other sample is provided.)       *)
Aligned(in) == IF in.float THEN in.channels = 1 ELSE in.bits # 24
ResampleReads(in, outRate) ==
    Aligned(in) => \A i \in 0..(outSampleCount(in, outRate) - 1) :
        /\ iSample(in, outRate, i) = ((i * in.rate) \div outRate) * bytesPerSample(in)
        /\ BytesRead(in, outRate, i) \subseteq Readable(in)

(* The configuration announces the rate and the channels of the encoder,   *)
(* for the rates that the comment of its constructor says the system's     *)
(* converter accepts. (Two bits of the index are kept above the lowest:    *)
(* the rates from 16000 down would be announced as others.)                *)
Accepted == {48000, 44100, 22050}
AscAnnounces(rate, channels) ==
    LET asc == makeAsc(sampleRateIndex(rate), channels)
        index == ((asc[1] % 8) * 2) + (asc[2] \div 128)
    IN  rate \in Accepted /\ channels \in 1..2 =>
            Rates[index + 1] = rate /\ ((asc[2] \div 8) % 16) = channels
=============================================================================
