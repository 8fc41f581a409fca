---------------------------- MODULE RTMPReceive ----------------------------
(***************************************************************************)
(* rtmp/RTMPSession.cpp, the receiving half: streamStatusChanged,          *)
(* dataReceived, the handshake, parseCurrentData, tryReadOneMessage and    *)
(* the state changes of handleMessage and handleInvoke, over a             *)
(* PreallocBuffer (system/PreBuffer.cpp). All of it runs on the run loop   *)
(* thread of the stream; the network delivers bytes between its steps.     *)
(*                                                                         *)
(* Bytes are counted, not represented: a position in the byte stream of    *)
(* the server stands for the byte there. The server is external. It sends  *)
(* S0 S1 S2, then messages with the three kinds of headers that carry one, *)
(* on one chunk stream, cut into chunks of the size it last announced, and *)
(* answers the commands of the client in their order. An error or the end  *)
(* of the connection is the last event of a stream pair, so a read from    *)
(* the stream returns bytes here.                                          *)
(***************************************************************************)
EXTENDS Integers, Sequences

CONSTANTS
    SignatureSize,      \* kRTMPSignatureSize
    FullHeader,         \* 1 + sizeof(RTMPChunk_0)
    LengthHeader,       \* 1 + sizeof(RTMPChunk_1)
    TimeHeader,         \* 1 + sizeof(RTMPChunk_2)
    InitialChunk,       \* m_inChunkSize at first
    Capacity,           \* the size m_streamInBuffer is made with
    Lengths,            \* message lengths the server uses
    ChunkSizes,         \* chunk sizes the server announces
    MaxMessages         \* bound: how many messages the server sends

ASSUME ReceiveAssumption ==
    /\ SignatureSize \in Nat \ {0}
    /\ FullHeader \in Nat \ {0} /\ LengthHeader \in Nat \ {0} /\ TimeHeader \in Nat \ {0}
    /\ InitialChunk \in Nat \ {0} /\ ChunkSizes \subseteq Nat \ {0}
    /\ Lengths \subseteq Nat
    /\ Capacity \in Nat \ {0}
    /\ MaxMessages \in Nat

VARIABLES
    m_state,        \* the client state
    opens,          \* connected events still to come, one of each stream
    space,          \* an event that the output has space is due
    pc,             \* where dataReceived is: "idle", "read" or "parse"
    hasBytes,       \* kStreamStatusReadBufferHasBytes of the stream
    stop1,          \* dataReceived's local stop1
    s1,             \* m_s1 holds the server's signature
    c2,             \* how often C2 was sent
    crashed,        \* handshake2 ran without the server's signature
    commands,       \* commands sent to the server
    inChunk,        \* m_inChunkSize
    previous,       \* m_previousChunk: type and length of the last message
    handled,        \* history: type and length of the messages handled
    arrived,        \* bytes the network has delivered
    written,        \* of these, bytes read into m_streamInBuffer
    pos,            \* of these, bytes the client has consumed
    base,           \* the position of the first byte of m_streamInBuffer
    stream,         \* the messages the server has sent
    outChunk,       \* the chunk size the server uses
    served          \* bytes the server has sent

loopVars   == <<pc, hasBytes, stop1>>
bufferVars == <<written, pos, base>>
parseVars  == <<inChunk, previous, handled>>
shakeVars  == <<m_state, s1, c2, crashed, commands>>
eventVars  == <<opens, space>>
serverVars == <<stream, outChunk, served>>

vars == <<loopVars, bufferVars, parseVars, shakeVars, eventVars, serverVars, arrived>>

\* ClientState_t with its values.
ClientState == [None |-> 0, Connected |-> 1, Handshake0 |-> 2, Handshake1s0 |-> 3,
                Handshake1s1 |-> 4, Handshake2 |-> 5, HandshakeComplete |-> 6,
                FCPublish |-> 7, Ready |-> 8, SessionStarted |-> 9, Error |-> 10,
                NotConnected |-> 11]
Before(s, t) == ClientState[s] < ClientState[t]
Ended == {"Error", "NotConnected"}

\* The messages the program tells apart. A reply needs its command.
Replies == {"connected", "created", "started"}
Types == {"chunk size", "other"} \cup Replies
CommandOf == [connected |-> "connect", created |-> "createStream", started |-> "publish"]

Kinds == {"full", "length", "time"}
HeaderOf == [full |-> FullHeader, length |-> LengthHeader, time |-> TimeHeader]

\* The server puts a separator before each chunk but the first.
ServerSeparators(length, chunk) ==
    IF length = 0 THEN 0 ELSE (length - 1) \div chunk

\* A defect: a chunk that is exactly full counts as one more.
SeparatorsOfFull(length, chunk) == length \div chunk
\* tryReadOneMessage counts one for each time more than a chunk remains.
Separators(length, chunk) ==
    IF length > chunk THEN (length - 1) \div chunk ELSE 0

HandshakeBytes == 1 + 2 * SignatureSize

-----------------------------------------------------------------------------
Init ==
    /\ m_state = "None" /\ opens = 2 /\ space = FALSE
    /\ pc = "idle" /\ hasBytes = FALSE /\ stop1 = FALSE
    /\ s1 = FALSE /\ c2 = 0 /\ crashed = FALSE /\ commands = {}
    /\ inChunk = InitialChunk
    /\ previous = [type |-> "other", length |-> 0]
    /\ handled = <<>>
    /\ arrived = 0 /\ written = 0 /\ pos = 0 /\ base = 0
    /\ stream = <<>> /\ outChunk = InitialChunk /\ served = 0

-----------------------------------------------------------------------------
(* The server and the network (external).                                  *)

\* C0 and C1 leave together; the server answers with S0, S1 and S2.
ServerHandshake ==
    /\ served = 0 /\ m_state = "Handshake1s0"
    /\ served' = HandshakeBytes
    /\ UNCHANGED <<loopVars, bufferVars, parseVars, shakeVars, eventVars, arrived,
                   stream, outChunk>>

\* A message follows the last one. It can leave out of its header what the
\* message before it had. A chunk size counts for the messages after it.
Record(type, kind, length, chunk) ==
    [type |-> type, kind |-> kind, length |-> length, chunk |-> chunk,
     start |-> served,
     end |-> served + HeaderOf[kind] + length + ServerSeparators(length, outChunk)]

MayFollow(kind, type, length) ==
    \/ kind = "full"
    \/ kind = "length" /\ stream # <<>>
    \/ /\ kind = "time" /\ stream # <<>>
       /\ stream[Len(stream)].type = type /\ stream[Len(stream)].length = length

ServerMessage ==
    /\ commands # {} /\ Len(stream) < MaxMessages
    /\ \E type \in Types, kind \in Kinds, length \in Lengths, chunk \in ChunkSizes :
         /\ type \in Replies => /\ CommandOf[type] \in commands
                                /\ \A i \in DOMAIN stream : stream[i].type # type
         /\ type # "chunk size" => chunk = outChunk
         /\ MayFollow(kind, type, length)
         /\ LET record == Record(type, kind, length, chunk)
            IN  /\ stream' = Append(stream, record)
                /\ served' = record.end
                /\ outChunk' = chunk
    /\ UNCHANGED <<loopVars, bufferVars, parseVars, shakeVars, eventVars, arrived>>

Deliver ==
    /\ m_state \notin Ended
    /\ \E n \in (arrived + 1)..served : arrived' = n
    /\ UNCHANGED <<loopVars, bufferVars, parseVars, shakeVars, eventVars, serverVars>>

-----------------------------------------------------------------------------
(* The events of the stream pair: nsStreamCallback and streamStatusChanged.*)

RunLoopFree == pc = "idle" /\ ~crashed /\ m_state \notin Ended

\* A defect: every event that a stream has opened counts.
ConnectsAgain == TRUE
\* Only the first one counts.
MayConnect == Before(m_state, "Connected")

\* The first space event comes after both streams have opened.
EventConnected ==
    /\ RunLoopFree /\ opens > 0
    /\ opens' = opens - 1
    /\ space' = IF opens = 2 THEN TRUE ELSE space
    /\ hasBytes' = FALSE
    /\ m_state' = IF MayConnect THEN "Connected" ELSE m_state
    /\ UNCHANGED <<pc, stop1, bufferVars, parseVars, s1, c2, crashed, commands,
                   serverVars, arrived>>

\* A defect: the state stays the same.
StayInHandshake1s1 == "Handshake1s1"
\* handshake2 goes on to this state before it writes C2.
AfterC2 == "Handshake2"

\* handshake0 and handshake1: C0 and C1 are written.
SendC0C1 ==
    /\ m_state = "Connected"
    /\ m_state' = "Handshake1s0" /\ space' = TRUE
    /\ UNCHANGED <<s1, c2, crashed>>

\* handshake2 writes through the buffer of m_s1, which must not be empty.
SendC2(hasS1) ==
    /\ m_state' = AfterC2 /\ space' = TRUE
    /\ s1' = hasS1 /\ crashed' = ~hasS1
    /\ c2' = IF hasS1 THEN c2 + 1 ELSE c2

DropSignatures ==
    /\ s1' = FALSE /\ space' = FALSE
    /\ UNCHANGED <<m_state, c2, crashed>>

\* After the handshake the event only wakes a writer.
EventHasSpace ==
    /\ RunLoopFree /\ space /\ Before(m_state, "HandshakeComplete")
    /\ \/ SendC0C1
       \/ m_state = "Handshake1s1" /\ SendC2(s1)
       \/ m_state \notin {"Connected", "Handshake1s1"} /\ DropSignatures
    /\ UNCHANGED <<opens, loopVars, bufferVars, parseVars, commands, serverVars, arrived>>

EventHasBytes ==
    /\ RunLoopFree /\ arrived > written
    /\ pc' = "read" /\ hasBytes' = TRUE /\ stop1' = FALSE
    /\ UNCHANGED <<bufferVars, parseVars, shakeVars, eventVars, serverVars, arrived>>

EventEnds ==
    /\ RunLoopFree
    /\ \E s \in Ended : m_state' = s
    /\ hasBytes' = FALSE
    /\ UNCHANGED <<pc, stop1, bufferVars, parseVars, s1, c2, crashed, commands,
                   eventVars, serverVars, arrived>>

-----------------------------------------------------------------------------
(* PreallocBuffer.                                                         *)

AvailableSpace == Capacity - (written - base)
AvailableBytes == written - pos

\* didRead starts again at the front once everything is read; the buffer is
\* never compacted otherwise.
ResetAt(read) == IF read = written THEN written ELSE base

DidRead(n) ==
    /\ pos' = pos + n
    /\ base' = ResetAt(pos + n)
    /\ UNCHANGED written

-----------------------------------------------------------------------------
(* dataReceived. A short read, or one that takes all there is, clears the  *)
(* status bit.                                                             *)

ReadStream ==
    /\ pc = "read"
    /\ pc' = "parse"
    /\ IF AvailableSpace > 0
         THEN LET taken == IF arrived - written < AvailableSpace
                           THEN arrived - written ELSE AvailableSpace
              IN  /\ written' = written + taken
                  /\ hasBytes' = (written + taken < arrived)
         ELSE UNCHANGED <<written, hasBytes>>
    /\ UNCHANGED <<stop1, pos, base, parseVars, shakeVars, eventVars, serverVars, arrived>>

\* The inner loop ends on stop1, which stays set until dataReceived returns.
ParseEnds ==
    /\ pc = "parse" /\ (stop1 \/ AvailableBytes = 0)
    /\ pc' = IF hasBytes THEN "read" ELSE "idle"
    /\ UNCHANGED <<stop1, hasBytes, bufferVars, parseVars, shakeVars, eventVars,
                   serverVars, arrived>>

Parsing == pc = "parse" /\ ~stop1 /\ AvailableBytes > 0 /\ ~crashed

NotEnough ==
    /\ stop1' = TRUE
    /\ UNCHANGED <<pc, hasBytes, bufferVars, parseVars, shakeVars, eventVars>>

ParseS0 ==
    /\ Parsing /\ m_state = "Handshake1s0"
    /\ m_state' = "Handshake1s1" /\ DidRead(1)
    /\ UNCHANGED <<loopVars, parseVars, s1, c2, crashed, commands, eventVars,
                   serverVars, arrived>>

ParseS1 ==
    /\ Parsing /\ m_state = "Handshake1s1"
    /\ IF AvailableBytes >= SignatureSize
         THEN /\ DidRead(SignatureSize) /\ SendC2(TRUE)
              /\ UNCHANGED <<loopVars, parseVars, commands, opens>>
         ELSE NotEnough
    /\ UNCHANGED <<serverVars, arrived>>

ParseS2 ==
    /\ Parsing /\ m_state = "Handshake2"
    /\ IF AvailableBytes >= SignatureSize
         THEN /\ DidRead(SignatureSize)
              /\ m_state' = "HandshakeComplete" /\ s1' = FALSE
              /\ commands' = {"connect"} /\ space' = TRUE
              /\ UNCHANGED <<loopVars, parseVars, c2, crashed, opens>>
         ELSE NotEnough
    /\ UNCHANGED <<serverVars, arrived>>

-----------------------------------------------------------------------------
(* parseCurrentData and tryReadOneMessage.                                 *)

\* The header at the client's position, if one starts there.
AtHeader(record) == record.start = pos

\* What the client takes the message for: a header that leaves out its type
\* and length stands for those of m_previousChunk.
Decoded(record) ==
    IF record.kind = "time" THEN previous
    ELSE [type |-> record.type, length |-> record.length]

WireLength(record) ==
    Decoded(record).length + Separators(Decoded(record).length, inChunk)

\* A defect: one byte more must be there.
EnoughAndMore(bytes) == AvailableBytes > bytes
\* The availableBytes test of each parsing step.
Enough(bytes) == AvailableBytes >= bytes

\* The header, then the message behind it; a length of zero counts as too few.
MessageThere(record) ==
    /\ Enough(HeaderOf[record.kind])
    /\ Enough(HeaderOf[record.kind] + WireLength(record))
    /\ WireLength(record) > 0

\* handleMessage sets the chunk size of the messages that follow.
ChunkAfter(message, chunk) ==
    IF message.type = "chunk size" THEN chunk ELSE inChunk

\* handleInvoke answers a reply with further commands and moves the session on.
\* The result of any other command changes nothing.
StateAfter == [connected |-> "FCPublish", created |-> "Ready", started |-> "SessionStarted"]
CommandsAfter == [connected |-> {"releaseStream", "FCPublish", "createStream"},
                  created |-> {"publish"}, started |-> {"onMetaData", "setChunkSize"}]

Invoke(message) ==
    IF message.type \in Replies
      THEN /\ commands' = commands \cup CommandsAfter[message.type]
           /\ m_state' = StateAfter[message.type]
      ELSE UNCHANGED <<commands, m_state>>

HandleMessage(record) ==
    LET message == Decoded(record)
    IN  /\ DidRead(HeaderOf[record.kind] + WireLength(record))
        /\ handled' = Append(handled, message)
        /\ inChunk' = ChunkAfter(message, record.chunk)
        /\ previous' = message
        /\ Invoke(message)
        /\ UNCHANGED <<loopVars, s1, c2, crashed, eventVars>>

\* Bytes that are no header of the server's are left where they are.
ParseMessage ==
    /\ Parsing /\ ~Before(m_state, "HandshakeComplete")
    /\ \/ \E i \in DOMAIN stream :
            /\ AtHeader(stream[i]) /\ MessageThere(stream[i])
            /\ HandleMessage(stream[i])
       \/ /\ \A i \in DOMAIN stream : ~(AtHeader(stream[i]) /\ MessageThere(stream[i]))
          /\ NotEnough
    /\ UNCHANGED <<serverVars, arrived>>

-----------------------------------------------------------------------------
DataReceived == ReadStream \/ ParseEnds \/ ParseS0 \/ ParseS1 \/ ParseS2 \/ ParseMessage

Next ==
    \/ ServerHandshake \/ ServerMessage \/ Deliver
    \/ EventConnected \/ EventHasSpace \/ EventHasBytes \/ EventEnds
    \/ DataReceived

Spec == Init /\ [][Next]_vars

\* A thread that is in dataReceived goes on, the network delivers what was
\* sent and the run loop hears of it. The server, the other events and the end
\* of the connection may come or not.
FairSpec ==
    /\ Spec
    /\ WF_vars(DataReceived)
    /\ WF_vars(EventHasBytes)
    /\ WF_vars(arrived' = served /\ Deliver)

-----------------------------------------------------------------------------
LoopOK ==
    /\ pc \in {"idle", "read", "parse"} /\ hasBytes \in BOOLEAN /\ stop1 \in BOOLEAN
    /\ opens \in 0..2 /\ space \in BOOLEAN

ShakeOK ==
    /\ m_state \in DOMAIN ClientState
    /\ s1 \in BOOLEAN /\ c2 \in Nat /\ crashed \in BOOLEAN
    /\ commands \subseteq {"connect", "releaseStream", "FCPublish", "createStream",
                           "publish", "onMetaData", "setChunkSize"}

ParseOK ==
    /\ inChunk \in {InitialChunk} \cup ChunkSizes
    /\ previous.type \in Types /\ previous.length \in Lengths \cup {0}

ServerOK ==
    /\ outChunk \in {InitialChunk} \cup ChunkSizes
    /\ served \in Nat

BufferOK ==
    /\ base \in 0..pos /\ pos \in 0..written
    /\ written \in 0..arrived /\ arrived \in 0..served
    /\ AvailableSpace \in 0..Capacity

TypeOK == LoopOK /\ ShakeOK /\ ParseOK /\ ServerOK /\ BufferOK

\* The position at which the i-th message ends, the handshake for i = 0.
EndOf(i) == IF i = 0 THEN HandshakeBytes ELSE stream[i].end

\* However the bytes are cut into reads, and however chunk sizes change on the
\* way, the messages handled are those sent, in order and once each, and the
\* client stands at a message boundary (parseCurrentData, tryReadOneMessage).
HandledInOrder ==
    /\ Len(handled) <= Len(stream)
    /\ \A i \in DOMAIN handled :
         /\ handled[i].type = stream[i].type
         /\ handled[i].length = stream[i].length
    /\ commands # {} => pos = EndOf(Len(handled))
\* When dataReceived returns it leaves no message behind that is all there,
\* although stop1 ends the parsing for the rest of the call: nothing more can be
\* read in that call either (dataReceived, parseCurrentData).
NothingLeftBehind ==
    pc = "idle" /\ commands # {} =>
        \A i \in DOMAIN stream :
            AtHeader(stream[i]) /\ stream[i].length > 0 => written < stream[i].end
\* The client and the server agree on where messages begin and end.
FramesAgree == HandledInOrder /\ NothingLeftBehind

\* C2 answers the S1 that was read: once, after all of S1, whatever space
\* events fall between the parts of the handshake (handshake, handshake2). The
\* one exception is the state crashed: such an event between S0 and S1.
C2AnswersS1 ==
    /\ c2 <= 1
    /\ c2 = 1 => pos > SignatureSize
    /\ crashed => c2 = 0 /\ pos = 1
    /\ commands # {} => c2 = 1

\* Until the connection ends the client state only advances, and it reaches
\* SessionStarted through each reply of the server (streamStatusChanged,
\* handshake, handleInvoke).
StateAdvances ==
    [][/\ m_state' \notin Ended => ~Before(m_state', m_state)
       /\ m_state' = "Ready" /\ m_state # "Ready" => m_state = "FCPublish"
       /\ m_state' = "SessionStarted" /\ m_state # "SessionStarted" => m_state = "Ready"]_vars

\* The loop of dataReceived is back at its head and has no room to read into:
\* the buffer is full behind a message that is not complete, and nothing ends
\* the loop any more.
Wedged == pc = "read" /\ AvailableSpace = 0

\* A message that was sent is handled, however its bytes arrive, unless the
\* connection ends, the handshake crashed or the full buffer wedged the loop
\* (dataReceived, parseCurrentData).
MessagesHandled ==
    \A i \in 1..MaxMessages :
        (Len(stream) >= i) ~> (Len(handled) >= i \/ m_state \in Ended \/ crashed \/ Wedged)

\* "If data not enough for one message, return false, else return true"
\* (RTMPSession.cpp, above parseCurrentData): it stops the loop only when the
\* message at the client's position is not all there.
FalseMeansNotEnough ==
    \A i \in DOMAIN stream :
        stop1 /\ commands # {} /\ AtHeader(stream[i]) => written < stream[i].end

=============================================================================
