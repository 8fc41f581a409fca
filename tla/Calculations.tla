---------------------------- MODULE Calculations ----------------------------
(***************************************************************************)
(* The calculations of AMF, AudioFormats and VideoFilters, each of which   *)
(* depends on its input alone: a behaviour is one calculation.             *)
(***************************************************************************)
EXTENDS AMF, AudioFormats, VideoFilters
VARIABLE input

\* What AMF values consist of: 2^31 bounds the length of a string, and 128,
\* the room there is for each, the names and texts of an answer.
Strings == {s \in Seq(0..(Base - 1)) : 2 * Len(s) < Base32}
Texts == {s \in Seq(1..(Base - 1)) : 2 * Len(s) < Base}
Skipped ==
    [t : {"number"}, v : 0..(Base32 * Base32 - 1)] \cup [t : {"bool"}, v : {0, 1}] \cup [t : {"null"}, v : {0}]
Property == [name : Texts, value : Skipped \cup [t : {"string"}, v : Texts]]
\* A source of the audio mixer.
Pcm == [rate : Nat \ {0}, bits : {8, 16, 24, 32}, channels : {1, 2}, frames : Nat, float : BOOLEAN]

Inputs ==
    [kind : {"string"}, s : Strings]
    \cup [kind : {"control"}, streamId : 0..(Base32 - 1), value : 0..(Base32 - 1)]
    \cup [kind : {"status"}, before : Seq(Skipped), properties : Seq(Property) \ {<<>>}, code : Texts]
    \cup [kind : {"mix"}, a : Int16, b : Int16] \cup [kind : {"convert"}, v : Int]
    \cup [kind : {"resample"}, in : Pcm, outRate : Nat \ {0}]
    \cup [kind : {"colour"}, colour : [Colour -> 0..Unit]]
    \cup [kind : {"asc"}, rate : Accepted, channels : {1, 2}]

Calculating == input \in Inputs /\ [][UNCHANGED input]_input
-----------------------------------------------------------------------------
(* What the calculations promise; each of these is stated in its module.   *)

\* What the RTMP session writes as AMF and control messages is read back, and
\* the status of an answer is found (AMF).
AMFUnderstood ==
    /\ input.kind = "string" => StringReadBack(input.s)
    /\ input.kind = "control" => ControlReadBack(input.streamId, input.value)
    /\ input.kind = "status" => StatusFound(input.before, input.properties, input.code)
\* Converted samples keep their level, mixed ones do not wrap round, resampling
\* reads the samples of the input at their times, the encoder announces its own
\* rate (AudioFormats), and the filters keep gray and opaque pixels so
\* (VideoFilters).
SignalsKept ==
    /\ input.kind = "mix" => MixStaysBetween(input.a, input.b)
    /\ input.kind = "convert" => ConversionKeepsLevel(input.v)
    /\ input.kind = "resample" => ResampleReads(input.in, input.outRate)
    /\ input.kind = "colour" => ColoursKept(input.colour)
    /\ input.kind = "asc" => AscAnnounces(input.rate, input.channels)
=============================================================================
