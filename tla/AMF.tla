-------------------------------- MODULE AMF --------------------------------
(***************************************************************************)
(* AMF0 as the RTMP session writes it (system/Buffer.hpp, the send...      *)
(* commands of rtmp/RTMPSession.cpp) and reads it (get_string, get_double, *)
(* parseStatusCode). Bytes are digits to the base Base, 256 in the code: a *)
(* smaller base moves the limit of a short string within reach. A double   *)
(* is the eight digits of a number. What the commands consist of is        *)
(* written in items, a value's marker or a key each.                       *)
(***************************************************************************)
EXTENDS Naturals, Sequences, SequencesExt
CONSTANT Base   \* values of a byte
ASSUME BaseAssumption == Base \in Nat /\ Base > 12

kAMFNumber == 0
kAMFBoolean == 1
kAMFString == 2
kAMFObject == 3
kAMFNull == 5
kAMFObjectEnd == 9
kAMFLongString == 12
-----------------------------------------------------------------------------
(* Bytes. Positions start at 1.                                            *)
put_be16(val) == <<(val \div Base) % Base, val % Base>>
put_be24(val) == put_be16(val \div Base) \o <<val % Base>>
put_be32(val) == put_be24(val \div Base) \o <<val % Base>>
get_be16(b, p) == b[p] * Base + b[p + 1]
get_be24(b, p) == get_be16(b, p) * Base + b[p + 2]
get_be32(b, p) == get_be24(b, p) * Base + b[p + 3]
\* The values of two and of four bytes.
Base16 == Base * Base
Base32 == Base16 * Base16

\* Mutant: every string is a short one.
PutShortString(s) == <<kAMFString>> \o put_be16(Len(s)) \o s
put_string(s) ==
    IF Len(s) < Base16 - 1
    THEN <<kAMFString>> \o put_be16(Len(s)) \o s
    ELSE <<kAMFLongString>> \o put_be32(Len(s)) \o s
put_double(val) == <<kAMFNumber>> \o put_be32(val \div Base32) \o put_be32(val)
put_bool(val) == <<kAMFBoolean, val>>
put_name(s) == put_be16(Len(s)) \o s
put_named_string(name, s) == put_name(name) \o put_string(s)
put_named_double(name, val) == put_name(name) \o put_double(val)
put_named_bool(name, val) == put_name(name) \o put_bool(val)

\* bufsize does not count the marker.
get_string(b, p) ==
    LET width == IF b[p] = kAMFString THEN 2 ELSE 4
        len == IF width = 2 THEN get_be16(b, p + 1) ELSE get_be32(b, p + 1)
    IN  [val |-> SubSeq(b, p + 1 + width, p + width + len), bufsize |-> width + len]
get_double(b, p) == get_be32(b, p) * Base32 + get_be32(b, p + 4)
-----------------------------------------------------------------------------
(* Reading the server's answers. Past the end of a message is anything; 0  *)
(* is the position nothing is read from any more. (Names and texts are     *)
(* copied as C strings of up to 127 characters: what follows a zero in one *)
(* is not modelled.)                                                       *)
Within(b, p, next) == IF next \in (p + 1)..Len(b) THEN next ELSE 0

\* The lengths of strings are read at the marker, not after it; -1 (modelled
\* as leaving the message) for what is no primitive.
amfPrimitiveEnd(b, p) ==
    CASE b[p] = kAMFNumber -> p + 9
      [] b[p] = kAMFBoolean -> p + 2
      [] b[p] = kAMFNull -> p + 1
      [] b[p] = kAMFString -> p + 3 + get_be16(b, p)
      [] b[p] = kAMFLongString -> p + 5 + get_be32(b, p)
      [] OTHER -> 0

FoundObject(b) ==
    LET Search[p \in 0..Len(b)] ==
            IF p = 0 THEN 0
            ELSE IF b[p] = kAMFObject THEN Within(b, p, p + 1)
            ELSE Search[Within(b, p, amfPrimitiveEnd(b, p))]
    IN  Search

\* The property at p, and its value at v.
NameAt(b, p) == SubSeq(b, p + 2, p + 1 + get_be16(b, p))
ValueAt(b, p) == p + 2 + get_be16(b, p)
TextAt(b, v) == IF b[v] = kAMFString THEN SubSeq(b, v + 3, v + 2 + get_be16(b, v + 1)) ELSE <<>>
ValueEnd(b, v) == IF b[v] = kAMFString THEN v + 3 + get_be16(b, v + 1) ELSE amfPrimitiveEnd(b, v)
NextProperty(b, p) ==
    LET next == Within(b, p, ValueEnd(b, ValueAt(b, p)))
    IN  IF next = 0 \/ get_be24(b, next) = kAMFObjectEnd THEN 0 ELSE next

CodeIn(b, code) ==
    LET Property[p \in 0..Len(b)] ==
            IF p = 0 THEN <<>>
            ELSE IF NameAt(b, p) = code THEN TextAt(b, ValueAt(b, p))
            ELSE Property[NextProperty(b, p)]
    IN  Property

\* p is where the packet id starts.
parseStatusCode(b, p, code) == CodeIn(b, code)[FoundObject(b)[Within(b, p, p + 9)]]

\* handleInvoke: the answer to createStream at the offsets of "_result".
StreamIdOf(b) ==
    IF b[11] # 0 \/ b[20] # kAMFNull \/ b[21] # 0 THEN {} ELSE {get_double(b, 22)}
-----------------------------------------------------------------------------
(* Control messages: chunk stream 2, timestamp 0, length, type, message    *)
(* stream 0, and the payload.                                              *)
ControlHeader(length, type) == <<2>> \o put_be24(0) \o put_be24(length) \o <<type>> \o <<0, 0, 0, 0>>
sendSetChunkSize(size) == ControlHeader(4, 1) \o put_be32(size)
sendPong == ControlHeader(6, 4) \o put_be16(7) \o put_be16(0) \o put_be16(0)
sendSetBufferTime(streamId, ms) == ControlHeader(10, 4) \o put_be16(3) \o put_be32(streamId) \o put_be32(ms)
-----------------------------------------------------------------------------
(* The commands, in items: [t |-> the kind, k |-> the key or the count].   *)
Item(t) == [t |-> t, k |-> ""]
Key(name) == [t |-> "key", k |-> name]
Str == Item("string")
Num == Item("number")
Null == Item("null")
Object == Item("object")
Array(n) == [t |-> "array", k |-> n]
EmptyKey == Key("")
ObjectEnd == Item("end")
Close == <<EmptyKey, ObjectEnd>>
Named(names, value) == FlattenSeq([i \in 1..Len(names) |-> <<Key(names[i]), value>>])

sendConnectPacket ==
    <<Str, Num, Object>> \o Named(<<"app", "type", "tcUrl">>, Str)
    \o Named(<<"fpad">>, Item("bool"))
    \o Named(<<"capabilities", "audioCodecs", "videoCodecs", "videoFunction">>, Num) \o Close
sendReleaseStream == <<Str, Num, Null, Str>>
sendFCPublish == <<Str, Num, Null, Str>>
sendCreateStream == <<Str, Num, Null>>
sendPublish == <<Str, Num, Null, Str, Str>>
sendDeleteStream == <<Str, Num, Null, Num>>

SampleDescription == <<Key("sampledescription"), Array(1), Object>> \o Named(<<"sampletype">>, Str) \o Close
AudioTrack ==
    <<Object>> \o Named(<<"type", "description">>, Str) \o Named(<<"timescale">>, Num)
    \o SampleDescription \o Named(<<"language">>, Str) \o Close
VideoTrack ==
    <<Object>> \o Named(<<"type">>, Str) \o Named(<<"timescale">>, Num)
    \o Named(<<"language">>, Str) \o SampleDescription \o Close
VideoFields == <<"width", "height", "displaywidth", "displayheight", "framewidth", "frameheight",
                 "videodatarate", "videoframerate">>
AudioFields == <<"audiodatarate", "audiosamplerate", "audiosamplesize", "audiochannels">>
sendHeaderPacket ==
    <<Str, Str, Object>> \o Named(VideoFields, Num) \o Named(<<"videocodecid">>, Str)
    \o <<Key("trackinfo"), Array(2)>> \o AudioTrack \o VideoTrack \o Close
    \o Named(AudioFields, Num) \o Named(<<"audiocodecid">>, Str) \o Close
-----------------------------------------------------------------------------
(* The format: where the value, the properties of an object, or the n      *)
(* elements of an array that start at item p end; 0 if they are cut short. *)
Elements == 0..2
TheValue == 10
TheProperties == 11
EndOf(items) ==
    LET n == Len(items)
        E[k \in Elements \cup {TheValue, TheProperties}, p \in 0..(n + 1)] ==
            IF p = 0 THEN 0
            ELSE IF k = 0 THEN p
            ELSE IF p = n + 1 THEN 0
            ELSE IF k \in Elements THEN E[k - 1, E[TheValue, p]]
            ELSE IF k = TheValue
                 THEN CASE items[p].t \in {"string", "number", "bool", "null"} -> p + 1
                        [] items[p].t = "object" -> E[TheProperties, p + 1]
                        [] items[p].t = "array" -> E[items[p].k, p + 1]
                        [] OTHER -> 0
            ELSE IF items[p] = EmptyKey
                 THEN IF p < n /\ items[p + 1] = ObjectEnd THEN p + 2 ELSE 0
            ELSE IF items[p].t = "key" THEN E[TheProperties, E[TheValue, p + 1]] ELSE 0
    IN  E

\* The items are complete values one after the other.
WellFormed(items) ==
    LET E == EndOf(items)
        Rest[p \in 0..(Len(items) + 1)] ==
            p = Len(items) + 1 \/ (p # 0 /\ Rest[E[TheValue, p]])
    IN  Rest[1]

(* The commands are complete values, except that the metadata object ends  *)
(* behind the tracks, so that the audio fields follow it outside of any    *)
(* object; the tracks in it are complete.                                  *)
CommandsComplete ==
    /\ \A command \in {sendConnectPacket, sendReleaseStream, sendFCPublish, sendCreateStream,
                         sendPublish, sendDeleteStream} : WellFormed(command)
    /\ LET end == EndOf(sendHeaderPacket)[TheValue, 3]
       IN  SubSeq(sendHeaderPacket, end, Len(sendHeaderPacket)) =
               Named(AudioFields, Num) \o Named(<<"audiocodecid">>, Str) \o Close

(* The length a control message announces is that of its payload, and what *)
(* the payload says at its end is read back by the peer.                   *)
ControlReadBack(streamId, value) ==
    /\ \A message \in {sendSetChunkSize(value), sendPong, sendSetBufferTime(streamId, value)} :
          get_be24(message, 5) = Len(message) - 12
    /\ get_be32(sendSetChunkSize(value), 13) = value
    /\ get_be32(sendSetBufferTime(streamId, value), 15) = streamId
    /\ get_be32(sendSetBufferTime(streamId, value), 19) = value

(* What put_string writes get_string reads, on both sides of the limit of  *)
(* a short string, and bufsize is what follows the marker.                 *)
StringReadBack(s) ==
    LET written == put_string(s)
        read == get_string(written, 1)
    IN  read.val = s /\ read.bufsize = Len(written) - 1

(* The status code is found in the server's answer behind any numbers,     *)
(* booleans and nulls, wherever it stands among strings and such values:   *)
(* what the first property of that name says, the empty string if it is no *)
(* string or there is none. (The size of a string in front of the object   *)
(* is read one byte too early.)                                            *)
Bytes(v) ==
    CASE v.t = "number" -> put_double(v.v)
      [] v.t = "bool" -> put_bool(v.v)
      [] v.t = "null" -> <<kAMFNull>>
      [] v.t = "string" -> put_string(v.v)
onStatus(before, properties) ==
    put_double(1) \o FlattenSeq([i \in 1..Len(before) |-> Bytes(before[i])]) \o <<kAMFObject>>
    \o FlattenSeq([i \in 1..Len(properties) |-> put_name(properties[i].name) \o Bytes(properties[i].value)])
    \o <<0, 0, kAMFObjectEnd>>
StatusFound(before, properties, code) ==
    LET first == {i \in 1..Len(properties) :
                    properties[i].name = code /\ \A j \in 1..(i - 1) : properties[j].name # code}
        said == {properties[i].value.v : i \in {j \in first : properties[j].value.t = "string"}}
    IN  parseStatusCode(onStatus(before, properties), 1, code) \in IF said = {} THEN {<<>>} ELSE said
=============================================================================
