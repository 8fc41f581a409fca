-------------------------- MODULE RTMPReceive_proof --------------------------
(***************************************************************************)
(* Type correctness of RTMPReceive, and its properties C2AnswersS1,        *)
(* StateAdvances and FramesAgree, for every size of headers, chunks,       *)
(* messages and buffer.                                                    *)
(***************************************************************************)
EXTENDS RTMPReceive, SequenceTheorems, TLAPS

-----------------------------------------------------------------------------
(* The inductive invariant.                                                *)

Messages == [type : Types, length : Lengths \cup {0}]
Records  == [type : Types, kind : Kinds, length : Lengths, chunk : ChunkSizes,
             start : Nat, end : Nat]

TypeInv ==
    /\ TypeOK
    /\ previous \in Messages
    /\ handled \in Seq(Messages)
    /\ stream \in Seq(Records)

Early == {"None", "Connected", "Handshake1s0", "Handshake1s1"}
Late  == {"HandshakeComplete", "FCPublish", "Ready", "SessionStarted"}

\* Where the client stands in the byte stream in each state of the handshake,
\* and that nothing but the handshake is sent before its end.
PositionInv ==
    /\ m_state # "Handshake0"
    /\ m_state \in {"None", "Connected", "Handshake1s0"} => pos = 0
    /\ m_state = "Handshake1s1" => pos = 1
    /\ m_state = "Handshake2" /\ ~crashed => pos = 1 + SignatureSize
    /\ m_state \in Early \cup {"Handshake2"} => commands = {}
    /\ m_state \in Late => commands # {}
    /\ pc # "idle" => m_state \notin Ended
    /\ commands = {} => served \in {0, HandshakeBytes}
    /\ commands = {} => stream = <<>>

\* C2 is written once, on the way from Handshake1s1 to Handshake2.
SignatureInv ==
    /\ c2 \in {0, 1}
    /\ m_state \in Early => c2 = 0
    /\ m_state \in Early => s1 = FALSE
    /\ m_state \in Early => crashed = FALSE
    /\ crashed => pc = "idle" /\ c2 = 0 /\ pos = 1 /\ commands = {}
    /\ m_state \in Late \cup {"Handshake2"} /\ ~crashed => c2 = 1
    /\ c2 = 1 => pos > SignatureSize
    /\ commands # {} => c2 = 1

\* The chunk size the i-th message is cut with.
ChunkAt(i) == IF i = 1 THEN InitialChunk ELSE stream[i - 1].chunk

\* The messages of the server lie one behind the other.
StreamInv ==
    /\ \A i \in 1..Len(stream) :
         stream[i].end = stream[i].start + HeaderOf[stream[i].kind] + stream[i].length
                         + ServerSeparators(stream[i].length, ChunkAt(i))
    /\ \A i \in 1..Len(stream) : stream[i].start = EndOf(i - 1)
    /\ \A i \in 1..Len(stream) :
         stream[i].kind = "time" =>
           i > 1 /\ stream[i].type = stream[i - 1].type
                 /\ stream[i].length = stream[i - 1].length
    /\ \A i \in 1..Len(stream) : stream[i].type # "chunk size" => stream[i].chunk = ChunkAt(i)
    /\ \A i \in 1..Len(stream) : stream[i].start < served
    /\ \A i, j \in 1..Len(stream) : i < j => stream[i].start < stream[j].start
    /\ outChunk = ChunkAt(Len(stream) + 1)
    /\ commands # {} => served = EndOf(Len(stream))

\* The client has handled the first messages of the stream and holds what it
\* needs to read the next one: its position, its chunk size, the last header.
HandledInv ==
    /\ Len(handled) <= Len(stream)
    /\ \A i \in 1..Len(handled) :
         handled[i] = [type |-> stream[i].type, length |-> stream[i].length]
    /\ inChunk = ChunkAt(Len(handled) + 1)
    /\ handled # <<>> => previous = handled[Len(handled)]
    /\ commands # {} => pos = EndOf(Len(handled))

Inv == TypeInv /\ PositionInv /\ SignatureInv /\ StreamInv /\ HandledInv

-----------------------------------------------------------------------------
(* The order of the client states, and the sizes.                          *)

LEMMA States ==
    /\ DOMAIN ClientState = Early \cup Late \cup Ended \cup {"Handshake0", "Handshake2"}
    /\ \A s \in DOMAIN ClientState :
         /\ Before(s, "HandshakeComplete") <=> s \in Early \cup {"Handshake0", "Handshake2"}
         /\ Before(s, "Connected") <=> s = "None"
  BY DEF ClientState, Early, Late, Ended, Before

LEMMA SmallQuotient ==
    ASSUME NEW a \in Nat, NEW b \in Nat \ {0}, a < b
    PROVE  a \div b = 0
  BY Z3

LEMMA QuotientNat ==
    ASSUME NEW a \in Nat, NEW b \in Nat \ {0}
    PROVE  a \div b \in Nat
  BY Z3

\* The client counts the separators the server sends.
LEMMA SeparatorsAgree ==
    ASSUME NEW length \in Nat, NEW chunk \in Nat \ {0}
    PROVE  /\ Separators(length, chunk) = ServerSeparators(length, chunk)
           /\ Separators(length, chunk) \in Nat
<1>1. CASE length = 0
  BY <1>1 DEF Separators, ServerSeparators
<1>2. CASE length # 0 /\ length <= chunk
  <2>1. (length - 1) \div chunk = 0
    <3>1. length - 1 \in Nat /\ length - 1 < chunk
      BY <1>2
    <3> QED
      BY <3>1, SmallQuotient
  <2> QED
    BY <1>2, <2>1 DEF Separators, ServerSeparators
<1>3. CASE length > chunk
  <2>1. (length - 1) \div chunk \in Nat
    <3>1. length - 1 \in Nat
      BY <1>3
    <3> QED
      BY <3>1, QuotientNat
  <2> QED
    BY <1>3, <2>1 DEF Separators, ServerSeparators
<1> QED
  BY <1>1, <1>2, <1>3

LEMMA HeaderPositive ==
    ASSUME NEW kind \in Kinds
    PROVE  HeaderOf[kind] \in Nat \ {0}
  BY ReceiveAssumption DEF HeaderOf, Kinds

-----------------------------------------------------------------------------
(* What a message handled does to the buffer.                              *)

LEMMA WireLengthNat ==
    ASSUME TypeInv, NEW record \in Records
    PROVE  /\ Decoded(record) \in Messages
           /\ WireLength(record) \in Nat
           /\ HeaderOf[record.kind] \in Nat \ {0}
<1>1. Decoded(record) \in Messages
  BY DEF TypeInv, Decoded, Messages, Records
<1>2. Decoded(record).length \in Nat
  <2>1. \A n \in Lengths \cup {0} : n \in Nat
    BY ReceiveAssumption
  <2>2. Decoded(record).length \in Lengths \cup {0}
    BY <1>1 DEF Messages
  <2> QED
    BY <2>1, <2>2, Zenon
<1>3. inChunk \in Nat \ {0}
  BY ReceiveAssumption DEF TypeInv, TypeOK, ParseOK
<1>4. WireLength(record) \in Nat
  BY <1>2, <1>3, SeparatorsAgree DEF WireLength
<1>5. HeaderOf[record.kind] \in Nat \ {0}
  BY HeaderPositive DEF Records
<1> QED
  BY <1>1, <1>4, <1>5

LEMMA LoopStep ==
    ASSUME TypeInv, [Next]_vars
    PROVE  LoopOK'
<1> USE DEF TypeInv, TypeOK, LoopOK
<1>1. CASE ServerHandshake
  BY <1>1 DEF ServerHandshake, loopVars, eventVars
<1>2. CASE ServerMessage
  BY <1>2 DEF ServerMessage, loopVars, eventVars
<1>3. CASE Deliver
  BY <1>3 DEF Deliver, loopVars, eventVars
<1>4. CASE EventConnected
  <2>1. opens' \in 0..2
    BY <1>4 DEF EventConnected
  <2>2. hasBytes' \in BOOLEAN
    BY <1>4 DEF EventConnected
  <2>3. space' \in BOOLEAN
    BY <1>4, Zenon DEF EventConnected
  <2> QED
    BY <1>4, <2>1, <2>2, <2>3 DEF EventConnected
<1>5. CASE EventHasSpace
  BY <1>5 DEF EventHasSpace, SendC0C1, SendC2, DropSignatures, loopVars
<1>6. CASE EventHasBytes
  BY <1>6 DEF EventHasBytes, eventVars
<1>7. CASE EventEnds
  BY <1>7 DEF EventEnds, eventVars
<1>8. CASE ReadStream
  <2>1. hasBytes' \in BOOLEAN
    <3>1. CASE AvailableSpace > 0
      <4> DEFINE taken == IF arrived - written < AvailableSpace
                          THEN arrived - written ELSE AvailableSpace
      <4>1. hasBytes' = (written + taken < arrived)
        BY <1>8, <3>1, Zenon DEF ReadStream
      <4> QED
        BY <4>1
    <3>2. CASE ~(AvailableSpace > 0)
      BY <1>8, <3>2 DEF ReadStream
    <3> QED
      BY <3>1, <3>2
  <2> QED
    BY <1>8, <2>1 DEF ReadStream, eventVars
<1>9. CASE ParseEnds
  BY <1>9 DEF ParseEnds, eventVars
<1>10. CASE ParseS0
  BY <1>10 DEF ParseS0, loopVars, eventVars
<1>11. CASE ParseS1
  BY <1>11 DEF ParseS1, SendC2, NotEnough, loopVars, eventVars
<1>12. CASE ParseS2
  BY <1>12 DEF ParseS2, NotEnough, loopVars, eventVars
<1>13. CASE ParseMessage
  BY <1>13 DEF ParseMessage, HandleMessage, NotEnough, loopVars, eventVars
<1>14. CASE UNCHANGED vars
  BY <1>14 DEF vars, loopVars, eventVars
<1> QED
  BY <1>1, <1>2, <1>3, <1>4, <1>5, <1>6, <1>7, <1>8, <1>9, <1>10, <1>11, <1>12, <1>13, <1>14 DEF Next, DataReceived

LEMMA BufferStep ==
    ASSUME TypeInv, [Next]_vars
    PROVE  BufferOK'
<1> USE ReceiveAssumption DEF TypeInv, TypeOK, BufferOK, ServerOK, AvailableSpace
<1>1. CASE ServerHandshake
  BY <1>1 DEF ServerHandshake, bufferVars, HandshakeBytes
<1>2. CASE ServerMessage
  <2>1. PICK type \in Types, kind \in Kinds, length \in Lengths, chunk \in ChunkSizes :
          served' = Record(type, kind, length, chunk).end
    BY <1>2 DEF ServerMessage
  <2>2. served' = served + HeaderOf[kind] + length + ServerSeparators(length, outChunk)
    BY <2>1 DEF Record
  <2>3. length \in Nat /\ outChunk \in Nat \ {0} /\ served \in Nat
    OBVIOUS
  <2>4. ServerSeparators(length, outChunk) \in Nat
    BY <2>3, SeparatorsAgree
  <2>5. HeaderOf[kind] \in Nat
    BY HeaderPositive
  <2>6. served' \in Nat /\ served' >= served
    BY SMTT(30), <2>2, <2>3, <2>4, <2>5
  <2>7. UNCHANGED <<base, pos, written, arrived>>
    BY <1>2 DEF ServerMessage, bufferVars
  <2> QED
    BY <2>6, <2>7
<1>3. CASE Deliver
  BY <1>3 DEF Deliver, bufferVars, serverVars
<1>4. CASE EventConnected
  BY <1>4 DEF EventConnected, bufferVars, serverVars
<1>5. CASE EventHasSpace
  BY <1>5 DEF EventHasSpace, bufferVars, serverVars
<1>6. CASE EventHasBytes
  BY <1>6 DEF EventHasBytes, bufferVars, serverVars
<1>7. CASE EventEnds
  BY <1>7 DEF EventEnds, bufferVars, serverVars
<1>8. CASE ReadStream
  BY <1>8 DEF ReadStream, serverVars
<1>9. CASE ParseEnds
  BY <1>9 DEF ParseEnds, bufferVars, serverVars
<1>10. CASE ParseS0
  BY <1>10 DEF ParseS0, Parsing, AvailableBytes, DidRead, ResetAt, serverVars
<1>11. CASE ParseS1
  <2>1. UNCHANGED <<served, arrived>>
    BY <1>11 DEF ParseS1, serverVars
  <2>2. CASE NotEnough
    BY <2>1, <2>2 DEF NotEnough, bufferVars
  <2>3. CASE DidRead(SignatureSize) /\ AvailableBytes >= SignatureSize
    BY <2>1, <2>3 DEF DidRead, ResetAt, AvailableBytes
  <2> QED
    BY <1>11, <2>2, <2>3 DEF ParseS1
<1>12. CASE ParseS2
  BY <1>12 DEF ParseS2, AvailableBytes, DidRead, ResetAt, NotEnough, bufferVars, serverVars
<1>13. CASE ParseMessage
  <2>1. CASE NotEnough
    BY <1>13, <2>1 DEF ParseMessage, NotEnough, bufferVars, serverVars
  <2>2. CASE \E i \in DOMAIN stream : MessageThere(stream[i]) /\ HandleMessage(stream[i])
    <3>1. PICK i \in DOMAIN stream : MessageThere(stream[i]) /\ HandleMessage(stream[i])
      BY <2>2
    <3>2. stream[i] \in Records
      OBVIOUS
    <3> DEFINE n == HeaderOf[stream[i].kind] + WireLength(stream[i])
    <3>3. n \in Nat
      <4>1. HeaderOf[stream[i].kind] \in Nat /\ WireLength(stream[i]) \in Nat
        BY <3>2, WireLengthNat
      <4> QED
        BY <4>1
    <3>4. DidRead(n) /\ AvailableBytes >= n
      BY <3>1 DEF HandleMessage, MessageThere, Enough
    <3> HIDE DEF n
    <3> QED
      BY <1>13, <3>3, <3>4 DEF ParseMessage, DidRead, ResetAt, AvailableBytes, serverVars
  <2> QED
    BY <1>13, <2>1, <2>2 DEF ParseMessage
<1>14. CASE UNCHANGED vars
  BY <1>14 DEF vars, bufferVars, serverVars
<1> QED
  BY <1>1, <1>2, <1>3, <1>4, <1>5, <1>6, <1>7, <1>8, <1>9, <1>10, <1>11, <1>12, <1>13, <1>14 DEF Next, DataReceived

LEMMA ShakeStep ==
    ASSUME TypeInv, [Next]_vars
    PROVE  ShakeOK'
<1> USE DEF TypeInv, TypeOK, ShakeOK
<1>1. CASE ServerHandshake
  BY <1>1 DEF ServerHandshake, shakeVars
<1>2. CASE ServerMessage
  BY <1>2 DEF ServerMessage, shakeVars
<1>3. CASE Deliver
  BY <1>3 DEF Deliver, shakeVars
<1>4. CASE EventConnected
  BY <1>4 DEF EventConnected, ClientState
<1>5. CASE EventHasSpace
  <2>1. UNCHANGED commands
    BY <1>5 DEF EventHasSpace
  <2>2. CASE SendC0C1
    BY <2>1, <2>2 DEF SendC0C1, ClientState
  <2>3. CASE SendC2(s1)
    <3>1. crashed' \in BOOLEAN /\ s1' \in BOOLEAN
      BY <2>3, Zenon DEF SendC2
    <3> QED
      BY <2>1, <2>3, <3>1 DEF SendC2, AfterC2, ClientState
  <2>4. CASE DropSignatures
    BY <2>1, <2>4 DEF DropSignatures
  <2> QED
    BY <1>5, <2>2, <2>3, <2>4 DEF EventHasSpace
<1>6. CASE EventHasBytes
  BY <1>6 DEF EventHasBytes, shakeVars
<1>7. CASE EventEnds
  BY <1>7 DEF EventEnds, Ended, ClientState
<1>8. CASE ReadStream
  BY <1>8 DEF ReadStream, shakeVars
<1>9. CASE ParseEnds
  BY <1>9 DEF ParseEnds, shakeVars
<1>10. CASE ParseS0
  BY <1>10 DEF ParseS0, ClientState
<1>11. CASE ParseS1
  <2>1. CASE NotEnough
    BY <2>1 DEF NotEnough, shakeVars
  <2>2. CASE SendC2(TRUE) /\ UNCHANGED commands
    <3>1. crashed' \in BOOLEAN /\ s1' \in BOOLEAN
      BY <2>2, Zenon DEF SendC2
    <3> QED
      BY <2>2, <3>1 DEF SendC2, AfterC2, ClientState
  <2> QED
    BY <1>11, <2>1, <2>2 DEF ParseS1, parseVars
<1>12. CASE ParseS2
  BY <1>12 DEF ParseS2, NotEnough, shakeVars, ClientState
<1>13. CASE ParseMessage
  <2>1. CASE NotEnough
    BY <2>1 DEF NotEnough, shakeVars
  <2>2. CASE \E i \in DOMAIN stream : HandleMessage(stream[i])
    <3>1. PICK i \in DOMAIN stream : HandleMessage(stream[i])
      BY <2>2
    <3>2. UNCHANGED <<s1, c2, crashed>> /\ Invoke(Decoded(stream[i]))
      BY <3>1 DEF HandleMessage
    <3> DEFINE message == Decoded(stream[i])
    <3>3. CASE message.type \in Replies
      <4>1. m_state' = StateAfter[message.type] /\ commands' = commands \cup CommandsAfter[message.type]
        BY <3>2, <3>3 DEF Invoke
      <4>2. message.type \in {"connected", "created", "started"}
        BY <3>3 DEF Replies
      <4> HIDE DEF message
      <4>3. m_state' \in DOMAIN ClientState
        BY <4>1, <4>2 DEF StateAfter, ClientState
      <4>4. commands' \subseteq {"connect", "releaseStream", "FCPublish", "createStream",
                                 "publish", "onMetaData", "setChunkSize"}
        <5>1. CommandsAfter[message.type] \subseteq
                {"connect", "releaseStream", "FCPublish", "createStream",
                 "publish", "onMetaData", "setChunkSize"}
          BY <4>2 DEF CommandsAfter
        <5> QED
          BY <4>1, <5>1
      <4>5. s1' \in BOOLEAN /\ c2' \in Nat /\ crashed' \in BOOLEAN
        BY <3>2
      <4> QED
        BY <4>3, <4>4, <4>5, Zenon
    <3>4. CASE message.type \notin Replies
      BY <3>2, <3>4 DEF Invoke
    <3> QED
      BY <3>3, <3>4
  <2> QED
    BY <1>13, <2>1, <2>2 DEF ParseMessage
<1>14. CASE UNCHANGED vars
  BY <1>14 DEF vars, shakeVars
<1> QED
  BY <1>1, <1>2, <1>3, <1>4, <1>5, <1>6, <1>7, <1>8, <1>9, <1>10, <1>11, <1>12, <1>13, <1>14 DEF Next, DataReceived

\* Only a message handled changes what the client keeps for the next one.
LEMMA ParseVarsStay ==
    ASSUME [Next]_vars,
           ~\E i \in DOMAIN stream : AtHeader(stream[i]) /\ MessageThere(stream[i])
                                     /\ ParseMessage /\ HandleMessage(stream[i])
    PROVE  UNCHANGED parseVars
<1>1. CASE ParseMessage
  BY <1>1 DEF ParseMessage, NotEnough
<1>2. CASE DataReceived /\ ~ParseMessage
  BY <1>2 DEF DataReceived, ReadStream, ParseEnds, ParseS0, ParseS1, ParseS2, NotEnough
<1>3. CASE ServerHandshake \/ ServerMessage \/ Deliver
  BY <1>3 DEF ServerHandshake, ServerMessage, Deliver
<1>4. CASE EventConnected \/ EventHasSpace \/ EventHasBytes \/ EventEnds
  BY <1>4 DEF EventConnected, EventHasSpace, EventHasBytes, EventEnds
<1> QED
  BY <1>1, <1>2, <1>3, <1>4 DEF Next, vars

LEMMA ParseStep ==
    ASSUME TypeInv, [Next]_vars
    PROVE  ParseOK' /\ previous' \in Messages /\ handled' \in Seq(Messages)
<1> USE DEF TypeInv, TypeOK, ParseOK
<1>1. CASE \E i \in DOMAIN stream : HandleMessage(stream[i])
  <2>1. PICK i \in DOMAIN stream : HandleMessage(stream[i])
    BY <1>1
  <2>2. stream[i] \in Records
    OBVIOUS
  <2>3. Decoded(stream[i]) \in Messages
    BY <2>2, WireLengthNat
  <2>4. previous' \in Messages /\ handled' \in Seq(Messages)
    BY <2>1, <2>3 DEF HandleMessage
  <2>5. inChunk' \in {InitialChunk} \cup ChunkSizes
    BY <2>1, <2>2 DEF HandleMessage, ChunkAfter, Records
  <2> QED
    BY <2>4, <2>5 DEF Messages
<1>2. CASE UNCHANGED parseVars
  BY <1>2 DEF parseVars
<1> QED
  BY <1>1, <1>2, ParseVarsStay

\* Only the server changes what it has sent.
LEMMA ServerVarsStay ==
    ASSUME [Next]_vars, ~ServerMessage
    PROVE  UNCHANGED <<stream, outChunk>>
<1>1. CASE DataReceived
  BY <1>1 DEF DataReceived, ReadStream, ParseEnds, ParseS0, ParseS1, ParseS2, ParseMessage, serverVars
<1>2. CASE ServerHandshake \/ Deliver
  BY <1>2 DEF ServerHandshake, Deliver, serverVars
<1>3. CASE EventConnected \/ EventHasSpace \/ EventHasBytes \/ EventEnds
  BY <1>3 DEF EventConnected, EventHasSpace, EventHasBytes, EventEnds, serverVars
<1> QED
  BY <1>1, <1>2, <1>3 DEF Next, vars, serverVars

LEMMA ServedStays ==
    ASSUME [Next]_vars, ~ServerMessage, ~ServerHandshake
    PROVE  UNCHANGED served
<1>1. CASE DataReceived
  BY <1>1 DEF DataReceived, ReadStream, ParseEnds, ParseS0, ParseS1, ParseS2, ParseMessage, serverVars
<1>2. CASE Deliver
  BY <1>2 DEF Deliver, serverVars
<1>3. CASE EventConnected \/ EventHasSpace \/ EventHasBytes \/ EventEnds
  BY <1>3 DEF EventConnected, EventHasSpace, EventHasBytes, EventEnds, serverVars
<1> QED
  BY <1>1, <1>2, <1>3 DEF Next, vars, serverVars

\* A message that is sent starts where the last one ended.
LEMMA Sent ==
    ASSUME TypeInv, ServerMessage
    PROVE  \E record \in Records :
             /\ stream' = Append(stream, record)
             /\ served' = record.end /\ outChunk' = record.chunk
             /\ record.start = served
             /\ record.end = served + HeaderOf[record.kind] + record.length
                             + ServerSeparators(record.length, outChunk)
             /\ record.end > served
             /\ record.type # "chunk size" => record.chunk = outChunk
             /\ MayFollow(record.kind, record.type, record.length)
<1> USE DEF TypeInv, TypeOK, ServerOK
<1>1. PICK type \in Types, kind \in Kinds, length \in Lengths, chunk \in ChunkSizes :
        /\ type # "chunk size" => chunk = outChunk
        /\ MayFollow(kind, type, length)
        /\ stream' = Append(stream, Record(type, kind, length, chunk))
        /\ served' = Record(type, kind, length, chunk).end
        /\ outChunk' = chunk
  BY DEF ServerMessage
<1> DEFINE bytes == HeaderOf[kind] + length + ServerSeparators(length, outChunk)
<1>2. length \in Nat /\ outChunk \in Nat \ {0} /\ served \in Nat
  BY ReceiveAssumption
<1>3. ServerSeparators(length, outChunk) \in Nat
  BY <1>2, SeparatorsAgree
<1>4. HeaderOf[kind] \in Nat \ {0}
  BY HeaderPositive
<1>5. served + HeaderOf[kind] + length + ServerSeparators(length, outChunk) \in Nat
      /\ served + HeaderOf[kind] + length + ServerSeparators(length, outChunk) > served
  BY SMTT(30), <1>2, <1>3, <1>4
<1>6. Record(type, kind, length, chunk) \in Records
  BY <1>2, <1>5 DEF Record, Records
<1>7. Record(type, kind, length, chunk).end > served
  BY <1>5 DEF Record
<1> QED
  BY <1>1, <1>6, <1>7 DEF Record

LEMMA ServerStep ==
    ASSUME TypeInv, [Next]_vars
    PROVE  ServerOK' /\ stream' \in Seq(Records)
<1> USE DEF TypeInv, TypeOK, ServerOK
<1>1. CASE ServerMessage
  <2>1. PICK record \in Records : stream' = Append(stream, record)
                                 /\ served' = record.end /\ outChunk' = record.chunk
    BY <1>1, Sent
  <2> QED
    BY <2>1 DEF Records
<1>2. CASE ServerHandshake
  BY <1>2, ReceiveAssumption DEF ServerHandshake, HandshakeBytes
<1>3. CASE ~ServerMessage /\ ~ServerHandshake
  BY <1>3, ServerVarsStay, ServedStays
<1> QED
  BY <1>1, <1>2, <1>3

LEMMA TypeStep ==
    ASSUME TypeInv, [Next]_vars
    PROVE  TypeInv'
  BY LoopStep, ShakeStep, ParseStep, ServerStep, BufferStep DEF TypeInv, TypeOK

-----------------------------------------------------------------------------
(* The handshake.                                                          *)

\* An event only runs when the run loop is free, a parsing step only on a
\* connection that has not ended.
LEMMA ParsingState ==
    ASSUME TypeInv, PositionInv, Parsing
    PROVE  /\ m_state \in Early \cup Late \cup {"Handshake2"}
           /\ ~Before(m_state, "HandshakeComplete") => m_state \in Late
<1>1. m_state \in DOMAIN ClientState /\ m_state \notin Ended /\ m_state # "Handshake0"
  BY DEF TypeInv, TypeOK, ShakeOK, PositionInv, Parsing
<1> QED
  BY <1>1, States DEF Early, Late, Ended

LEMMA ReplyState ==
    ASSUME NEW message, Invoke(message), m_state \in Late, commands # {}
    PROVE  m_state' \in Late /\ commands' # {}
<1>1. CASE message.type \in Replies
  <2>1. m_state' = StateAfter[message.type] /\ commands' = commands \cup CommandsAfter[message.type]
    BY <1>1 DEF Invoke
  <2>2. message.type \in {"connected", "created", "started"}
    BY <1>1 DEF Replies
  <2> QED
    BY <2>1, <2>2 DEF StateAfter, Late
<1>2. CASE message.type \notin Replies
  BY <1>2 DEF Invoke
<1> QED
  BY <1>1, <1>2

LEMMA SignatureNat == SignatureSize \in Nat /\ SignatureSize > 0
  BY ReceiveAssumption

LEMMA ShakeInvStep ==
    ASSUME Inv, [Next]_vars
    PROVE  PositionInv' /\ SignatureInv'
<1> USE DEF PositionInv, SignatureInv, Early, Late, Ended
<1>t. TypeInv /\ PositionInv /\ SignatureInv /\ pos \in Nat /\ c2 \in Nat
      /\ served \in Nat /\ arrived \in Nat /\ arrived <= served
      /\ written \in Nat /\ written <= arrived
  BY DEF Inv, TypeInv, TypeOK, ShakeOK, BufferOK, ServerOK
<1>1. CASE ServerHandshake
  BY <1>1, <1>t DEF ServerHandshake, loopVars, bufferVars, shakeVars
<1>2. CASE ServerMessage
  BY <1>2, <1>t DEF ServerMessage, loopVars, bufferVars, shakeVars
<1>3. CASE Deliver
  BY <1>3, <1>t DEF Deliver, loopVars, bufferVars, shakeVars, serverVars
<1>4. CASE EventConnected
  <2>1. m_state \in DOMAIN ClientState
    BY <1>t DEF TypeInv, TypeOK, ShakeOK
  <2>2. MayConnect => m_state = "None"
    BY <2>1, States DEF MayConnect
  <2>3. UNCHANGED <<pc, pos, s1, c2, crashed, commands, served, stream>> /\ pc = "idle" /\ ~crashed
    BY <1>4 DEF EventConnected, bufferVars, serverVars, RunLoopFree
  <2>4. m_state' = m_state \/ (m_state = "None" /\ m_state' = "Connected")
    BY <1>4, <2>2 DEF EventConnected
  <2> QED
    BY <1>t, <2>3, <2>4
<1>5. CASE EventHasSpace
  <2>1. UNCHANGED <<pc, pos, commands, served, stream>> /\ pc = "idle" /\ ~crashed
    BY <1>5 DEF EventHasSpace, loopVars, bufferVars, serverVars, RunLoopFree
  <2>2. CASE SendC0C1
    BY <1>t, <2>1, <2>2 DEF SendC0C1
  <2>3. CASE m_state = "Handshake1s1" /\ SendC2(s1)
    BY <1>t, <2>1, <2>3 DEF SendC2, AfterC2
  <2>4. CASE m_state \notin {"Connected", "Handshake1s1"} /\ DropSignatures
    BY <1>t, <2>1, <2>4 DEF DropSignatures
  <2> QED
    BY <1>5, <2>2, <2>3, <2>4 DEF EventHasSpace
<1>6. CASE EventHasBytes
  BY <1>6, <1>t DEF EventHasBytes, bufferVars, shakeVars, serverVars, RunLoopFree
<1>7. CASE EventEnds
  BY <1>7, <1>t DEF EventEnds, bufferVars, serverVars, RunLoopFree
<1>8. CASE ReadStream
  BY <1>8, <1>t DEF ReadStream, shakeVars, serverVars
<1>9. CASE ParseEnds
  BY <1>9, <1>t DEF ParseEnds, bufferVars, shakeVars, serverVars
<1>10. CASE ParseS0
  BY <1>10, <1>t DEF ParseS0, Parsing, DidRead, loopVars, serverVars
<1>11. CASE ParseS1
  <2>1. UNCHANGED <<served, stream>> /\ pc = "parse" /\ m_state = "Handshake1s1"
    BY <1>11 DEF ParseS1, serverVars, Parsing
  <2>2. CASE NotEnough
    BY <1>t, <2>1, <2>2 DEF NotEnough, bufferVars, shakeVars
  <2>3. CASE DidRead(SignatureSize) /\ SendC2(TRUE) /\ UNCHANGED <<loopVars, commands>>
    <3>1. m_state' = "Handshake2" /\ ~crashed' /\ c2' = c2 + 1 /\ UNCHANGED <<pc, commands>>
      BY <2>3 DEF SendC2, AfterC2, loopVars
    <3>2. pos' = 1 + SignatureSize /\ c2' = 1
      BY <1>t, <2>1, <2>3, <3>1, SignatureNat DEF DidRead
    <3> QED
      BY <1>t, <2>1, <3>1, <3>2, SignatureNat
  <2> QED
    BY <1>11, <2>2, <2>3 DEF ParseS1
<1>12. CASE ParseS2
  <2>1. UNCHANGED <<served, stream>> /\ pc = "parse" /\ m_state = "Handshake2" /\ ~crashed
    BY <1>12 DEF ParseS2, serverVars, Parsing
  <2>2. CASE NotEnough
    BY <1>t, <2>1, <2>2 DEF NotEnough, bufferVars, shakeVars
  <2>3. CASE DidRead(SignatureSize) /\ m_state' = "HandshakeComplete" /\ commands' = {"connect"}
             /\ UNCHANGED <<loopVars, c2, crashed>>
    <3>1. commands' # {} /\ UNCHANGED pc
      BY <2>3 DEF loopVars
    <3>2. pos' = 1 + SignatureSize + SignatureSize
      BY <1>t, <2>1, <2>3, SignatureNat DEF DidRead
    <3> QED
      BY <1>t, <2>1, <2>3, <3>1, <3>2, SignatureNat
  <2> QED
    BY <1>12, <2>2, <2>3 DEF ParseS2
<1>13. CASE ParseMessage
  <2>1. UNCHANGED <<served, stream>> /\ pc = "parse" /\ m_state \in Late /\ ~crashed /\ commands # {}
    <3>1. Parsing /\ ~Before(m_state, "HandshakeComplete") /\ UNCHANGED serverVars
      BY <1>13 DEF ParseMessage
    <3>2. m_state \in Late
      BY <1>t, <3>1, ParsingState
    <3> QED
      BY <1>t, <3>1, <3>2 DEF Parsing, serverVars
  <2>2. CASE NotEnough
    BY <1>t, <2>1, <2>2 DEF NotEnough, bufferVars, shakeVars
  <2>3. CASE \E i \in DOMAIN stream : HandleMessage(stream[i])
    <3>1. PICK i \in DOMAIN stream : HandleMessage(stream[i])
      BY <2>3
    <3>2. Invoke(Decoded(stream[i])) /\ UNCHANGED <<pc, s1, c2, crashed>>
      BY <3>1 DEF HandleMessage, loopVars
    <3>3. m_state' \in Late /\ commands' # {}
      BY <2>1, <3>2, ReplyState
    <3>4. pos' >= pos
      <4>1. stream[i] \in Records
        BY <1>t DEF TypeInv
      <4>2. WireLength(stream[i]) \in Nat /\ HeaderOf[stream[i].kind] \in Nat
        BY <1>t, <4>1, WireLengthNat
      <4>3. pos' = pos + (HeaderOf[stream[i].kind] + WireLength(stream[i]))
        BY <3>1 DEF HandleMessage, DidRead
      <4> QED
        BY <1>t, <4>2, <4>3
    <3>5. c2 = 1 /\ pos > SignatureSize /\ pos' > SignatureSize
      <4>1. pos' \in Int
        BY BufferStep, <1>t DEF Inv, BufferOK
      <4> QED
        BY <1>t, <2>1, <3>4, <4>1, SignatureNat
    <3> QED
      BY <1>t, <2>1, <3>2, <3>3, <3>5
  <2> QED
    BY <1>13, <2>2, <2>3 DEF ParseMessage
<1>14. CASE UNCHANGED vars
  BY <1>14, <1>t DEF vars, loopVars, bufferVars, shakeVars, serverVars
<1> QED
  BY <1>1, <1>2, <1>3, <1>4, <1>5, <1>6, <1>7, <1>8, <1>9, <1>10, <1>11, <1>12, <1>13, <1>14 DEF Next, DataReceived

-----------------------------------------------------------------------------
(* The messages.                                                           *)

\* The server only speaks on a connection whose handshake is done.
LEMMA SentLate ==
    ASSUME Inv, ServerMessage
    PROVE  commands # {} /\ served = EndOf(Len(stream)) /\ outChunk = ChunkAt(Len(stream) + 1)
           /\ commands' = commands
  BY DEF ServerMessage, Inv, StreamInv, shakeVars

\* The commands of the client only grow; the first is sent with all of the
\* handshake read.
LEMMA CommandsStep ==
    ASSUME Inv, [Next]_vars, commands = {}, commands' # {}
    PROVE  /\ served' = HandshakeBytes /\ pos' = HandshakeBytes
           /\ stream = <<>> /\ UNCHANGED <<stream, outChunk, parseVars>>
<1>t. TypeInv /\ PositionInv /\ pos \in Nat /\ served \in Nat /\ arrived \in Nat
      /\ arrived <= served /\ written \in Nat /\ written <= arrived
  BY DEF Inv, TypeInv, TypeOK, BufferOK, ServerOK
<1>1. ParseS2 \/ ParseMessage
  <2>1. CASE DataReceived
    BY <2>1 DEF DataReceived, ReadStream, ParseEnds, ParseS0, ParseS1, NotEnough, shakeVars
  <2>2. CASE ServerHandshake \/ ServerMessage \/ Deliver
    BY <2>2 DEF ServerHandshake, ServerMessage, Deliver, shakeVars
  <2>3. CASE EventConnected \/ EventHasSpace \/ EventHasBytes \/ EventEnds
    BY <2>3 DEF EventConnected, EventHasSpace, EventHasBytes, EventEnds, shakeVars
  <2> QED
    BY <2>1, <2>2, <2>3 DEF Next, vars, shakeVars
<1>2. ~ParseMessage
  <2>1. SUFFICES ASSUME ParseMessage PROVE FALSE
    OBVIOUS
  <2>2. m_state \in Late
    BY <1>t, <2>1, ParsingState DEF ParseMessage
  <2> QED
    BY <1>t, <2>2 DEF PositionInv
<1>3. ParseS2 /\ ~NotEnough
  BY <1>1, <1>2 DEF NotEnough, shakeVars
<1>4. /\ AvailableBytes >= SignatureSize /\ DidRead(SignatureSize)
      /\ m_state = "Handshake2" /\ ~crashed
      /\ UNCHANGED <<served, stream, outChunk, parseVars>>
  BY <1>3 DEF ParseS2, Parsing, serverVars
<1>5. pos = 1 + SignatureSize /\ served \in {0, HandshakeBytes} /\ stream = <<>>
  BY <1>4, <1>t DEF PositionInv
<1>6. served = HandshakeBytes
  BY <1>4, <1>5, <1>t, SignatureNat DEF AvailableBytes
<1>7. pos' = HandshakeBytes
  BY <1>4, <1>5, SignatureNat DEF DidRead, HandshakeBytes
<1> QED
  BY <1>4, <1>5, <1>6, <1>7

\* Without a message, a step leaves the stream as it was.
LEMMA StreamStays ==
    ASSUME Inv, [Next]_vars, ~ServerMessage
    PROVE  StreamInv'
<1>t. TypeInv /\ PositionInv /\ StreamInv /\ served \in Nat
  BY DEF Inv, TypeInv, TypeOK, ServerOK
<1>1. UNCHANGED <<stream, outChunk>>
  BY ServerVarsStay
<1>2. \A i : ChunkAt(i)' = ChunkAt(i) /\ EndOf(i)' = EndOf(i)
  BY <1>1 DEF ChunkAt, EndOf
<1>3. served' >= served
  <2>1. CASE ServerHandshake
    BY <2>1, <1>t, SignatureNat DEF ServerHandshake, HandshakeBytes
  <2>2. CASE ~ServerHandshake
    BY <2>2, <1>t, ServedStays
  <2> QED
    BY <2>1, <2>2
<1>4. \A i \in 1..Len(stream) : stream[i].start < served'
  <2> SUFFICES ASSUME NEW i \in 1..Len(stream) PROVE stream[i].start < served'
    OBVIOUS
  <2>1. stream[i] \in Records
    BY <1>t DEF TypeInv
  <2>2. stream[i].start \in Nat
    BY <2>1 DEF Records
  <2>3. served' \in Nat
    BY ServerStep, <1>t DEF ServerOK
  <2>4. stream[i].start < served
    BY <1>t, <1>2 DEF StreamInv
  <2> QED
    BY <1>t, <1>3, <2>2, <2>3, <2>4
<1>5. commands' # {} => served' = EndOf(Len(stream))
  <2>1. CASE commands = {} /\ commands' # {}
    BY <2>1, CommandsStep DEF EndOf
  <2>2. CASE commands # {}
    <3>1. ~ServerHandshake
      BY <2>2, <1>t DEF ServerHandshake, PositionInv, Early
    <3> QED
      BY <2>2, <3>1, <1>t, ServedStays DEF StreamInv
  <2> QED
    BY <2>1, <2>2
<1>6. stream' = stream /\ Len(stream') = Len(stream)
  BY <1>1
<1> QED
  BY <1>t, <1>1, <1>2, <1>4, <1>5, <1>6, Zenon DEF StreamInv

LEMMA StreamGrows ==
    ASSUME Inv, ServerMessage
    PROVE  StreamInv'
<1>t. TypeInv /\ StreamInv /\ served \in Nat /\ stream \in Seq(Records)
      /\ Len(stream) \in Nat
  BY DEF Inv, TypeInv, TypeOK, ServerOK
<1>1. PICK record \in Records :
             /\ stream' = Append(stream, record)
             /\ served' = record.end /\ outChunk' = record.chunk
             /\ record.start = served
             /\ record.end = served + HeaderOf[record.kind] + record.length
                             + ServerSeparators(record.length, outChunk)
             /\ record.end > served
             /\ record.type # "chunk size" => record.chunk = outChunk
             /\ MayFollow(record.kind, record.type, record.length)
  BY <1>t, Sent
<1>n. PICK n \in Nat : n = Len(stream)
  BY <1>t
<1>2. n = Len(stream) /\ Len(stream') = n + 1
      /\ stream'[n + 1] = record /\ \A i \in 1..n : stream'[i] = stream[i]
  <2>1. /\ Len(Append(stream, record)) = Len(stream) + 1
        /\ Append(stream, record)[Len(stream) + 1] = record
        /\ \A i \in 1..Len(stream) : Append(stream, record)[i] = stream[i]
    BY <1>t, AppendProperties
  <2> QED
    BY <1>n, <1>1, <2>1, Zenon
<1>3. served = EndOf(n) /\ outChunk = ChunkAt(n + 1)
  BY <1>n, SentLate
<1>4. ChunkAt(n + 1)' = ChunkAt(n + 1) /\ EndOf(n)' = EndOf(n)
  BY <1>2 DEF ChunkAt, EndOf
<1>5. \A i \in 1..n : ChunkAt(i)' = ChunkAt(i) /\ EndOf(i - 1)' = EndOf(i - 1)
  BY <1>2 DEF ChunkAt, EndOf
<1>6. \A i \in 1..n : stream[i] \in Records
  BY <1>t, <1>2
<1>7. outChunk' = ChunkAt(n + 2)' /\ served' = EndOf(n + 1)'
  <2>1. n + 2 # 1 /\ (n + 2) - 1 = n + 1 /\ n + 1 # 0
    OBVIOUS
  <2> QED
    BY <1>1, <1>2, <2>1 DEF ChunkAt, EndOf
<1>8. record.start \in Nat /\ record.end \in Nat
  BY DEF Records
<1>9. ASSUME NEW i \in 1..n
      PROVE  /\ i \in 1..Len(stream)
             /\ stream[i] \in Records /\ stream[i].start \in Nat
             /\ stream'[i] = stream[i]
             /\ ChunkAt(i)' = ChunkAt(i) /\ EndOf(i - 1)' = EndOf(i - 1)
             /\ stream[i].start < served
  <2>1. stream[i] \in Records /\ i \in 1..Len(stream)
    BY <1>2, <1>6
  <2>2. stream[i].start < served
    BY <1>t, <2>1 DEF StreamInv
  <2> QED
    BY <1>2, <1>5, <2>1, <2>2 DEF Records
<1>10. ASSUME NEW i \in 1..Len(stream')
       PROVE  stream'[i].end = stream'[i].start + HeaderOf[stream'[i].kind] + stream'[i].length
                               + ServerSeparators(stream'[i].length, ChunkAt(i)')
  <2>1. CASE i = n + 1
    BY <1>1, <1>2, <1>3, <1>4, <2>1
  <2>2. CASE i \in 1..n
    BY <1>9, <1>t, <2>2 DEF StreamInv
  <2> QED
    BY <1>2, <2>1, <2>2
<1>11. ASSUME NEW i \in 1..Len(stream')
       PROVE  stream'[i].start = EndOf(i - 1)'
  <2>1. CASE i = n + 1
    <3>1. (n + 1) - 1 = n
      OBVIOUS
    <3> QED
      BY <1>1, <1>2, <1>3, <1>4, <2>1, <3>1
  <2>2. CASE i \in 1..n
    BY <1>9, <1>t, <2>2 DEF StreamInv
  <2> QED
    BY <1>2, <2>1, <2>2
<1>12. ASSUME NEW i \in 1..Len(stream'), stream'[i].kind = "time"
       PROVE  /\ i > 1 /\ stream'[i].type = stream'[i - 1].type
              /\ stream'[i].length = stream'[i - 1].length
  <2>1. CASE i = n + 1
    <3>1. record.kind = "time"
      BY <1>2, <1>12, <2>1
    <3>2. stream # <<>> /\ record.type = stream[n].type /\ record.length = stream[n].length
      BY <1>1, <1>2, <3>1 DEF MayFollow
    <3>3. n \in 1..n /\ i > 1 /\ i - 1 = n
      BY <1>t, <1>2, <2>1, <3>2
    <3>4. stream'[i] = record /\ stream'[i - 1] = stream[n]
      BY <1>2, <2>1, <3>3
    <3> QED
      BY <3>2, <3>3, <3>4
  <2>2. CASE i \in 1..n
    <3>1. i > 1 /\ stream[i].type = stream[i - 1].type /\ stream[i].length = stream[i - 1].length
      BY <1>9, <1>12, <1>t, <2>2 DEF StreamInv
    <3>2. i - 1 \in 1..n
      BY <2>2, <3>1
    <3> QED
      BY <1>2, <2>2, <3>1, <3>2
  <2> QED
    BY <1>2, <2>1, <2>2
<1>13. ASSUME NEW i \in 1..Len(stream'), stream'[i].type # "chunk size"
       PROVE  stream'[i].chunk = ChunkAt(i)'
  <2>1. CASE i = n + 1
    BY <1>1, <1>2, <1>3, <1>4, <1>13, <2>1
  <2>2. CASE i \in 1..n
    BY <1>9, <1>13, <1>t, <2>2 DEF StreamInv
  <2> QED
    BY <1>2, <2>1, <2>2
<1>14. ASSUME NEW i \in 1..Len(stream')
       PROVE  stream'[i].start < served'
  <2>1. CASE i = n + 1
    BY <1>1, <1>2, <2>1
  <2>2. CASE i \in 1..n
    <3>1. stream'[i].start \in Nat /\ stream'[i].start < served
      BY <1>9, <2>2
    <3>2. served' \in Nat /\ served < served'
      BY <1>1, <1>8
    <3> QED
      BY <3>1, <3>2, <1>t
  <2> QED
    BY <1>2, <2>1, <2>2
<1>15. ASSUME NEW i \in 1..Len(stream'), NEW j \in 1..Len(stream'), i < j
       PROVE  stream'[i].start < stream'[j].start
  <2>1. i \in 1..n /\ stream'[i].start < served
    <3>1. i \in 1..n
      BY <1>2, <1>15
    <3> QED
      BY <1>9, <3>1
  <2>2. CASE j = n + 1
    BY <1>1, <1>2, <2>1, <2>2
  <2>3. CASE j \in 1..n
    BY <1>9, <1>15, <1>t, <2>1, <2>3 DEF StreamInv
  <2> QED
    BY <1>2, <2>2, <2>3
<1>16. outChunk' = ChunkAt(Len(stream) + 1)'
  <2>1. Len(stream') + 1 = n + 2
    BY <1>2
  <2> QED
    BY <1>7, <2>1 DEF ChunkAt
<1>17. served' = EndOf(Len(stream))'
  BY <1>2, <1>7 DEF EndOf
<1> QED
  BY <1>10, <1>11, <1>12, <1>13, <1>14, <1>15, <1>16, <1>17 DEF StreamInv

\* Past the handshake only a message handled moves the client on.
LEMMA PositionStays ==
    ASSUME Inv, [Next]_vars, commands # {}, UNCHANGED parseVars
    PROVE  pos' = pos
<1>t. TypeInv /\ PositionInv /\ handled \in Seq(Messages)
  BY DEF Inv, TypeInv
<1>1. m_state \notin Early \cup {"Handshake2"}
  BY <1>t DEF PositionInv
<1>2. CASE ParseMessage
  <2>1. CASE NotEnough
    BY <2>1 DEF NotEnough, bufferVars
  <2>2. CASE \E i \in DOMAIN stream : HandleMessage(stream[i])
    <3>1. PICK i \in DOMAIN stream : HandleMessage(stream[i])
      BY <2>2
    <3>2. handled' = Append(handled, Decoded(stream[i])) /\ handled' = handled
      BY <3>1 DEF HandleMessage, parseVars
    <3>3. Decoded(stream[i]) \in Messages
      BY <1>t, WireLengthNat DEF TypeInv
    <3>4. Len(Append(handled, Decoded(stream[i]))) = Len(handled) + 1 /\ Len(handled) \in Nat
      BY <1>t, <3>3, AppendProperties
    <3> QED
      BY <3>2, <3>4
  <2> QED
    BY <1>2, <2>1, <2>2 DEF ParseMessage
<1>3. CASE ReadStream \/ ParseEnds
  BY <1>3 DEF ReadStream, ParseEnds, bufferVars
<1>4. CASE ParseS0 \/ ParseS1 \/ ParseS2
  BY <1>1, <1>4 DEF ParseS0, ParseS1, ParseS2, Early
<1>5. CASE ServerHandshake \/ ServerMessage \/ Deliver
  BY <1>5 DEF ServerHandshake, ServerMessage, Deliver, bufferVars
<1>6. CASE EventConnected \/ EventHasSpace \/ EventHasBytes \/ EventEnds
  BY <1>6 DEF EventConnected, EventHasSpace, EventHasBytes, EventEnds, bufferVars
<1> QED
  BY <1>2, <1>3, <1>4, <1>5, <1>6 DEF Next, DataReceived, vars, bufferVars

\* The only message at the client's position is the next one to handle, and the
\* client reads it as the server wrote it.
LEMMA NextMessage ==
    ASSUME Inv, commands # {}, NEW i \in DOMAIN stream, AtHeader(stream[i])
    PROVE  /\ i = Len(handled) + 1
           /\ Decoded(stream[i]) = [type |-> stream[i].type, length |-> stream[i].length]
           /\ pos + HeaderOf[stream[i].kind] + WireLength(stream[i]) = stream[i].end
<1>t. /\ TypeInv /\ StreamInv /\ HandledInv
      /\ stream \in Seq(Records) /\ handled \in Seq(Messages)
      /\ Len(stream) \in Nat /\ Len(handled) \in Nat
  BY DEF Inv, TypeInv
<1>n. PICK n \in Nat : n = Len(handled)
  BY <1>t
<1>1. i \in 1..Len(stream) /\ stream[i] \in Records /\ n <= Len(stream)
  BY <1>t, <1>n DEF HandledInv
<1>2. pos = EndOf(n) /\ stream[i].start = pos
  BY <1>t, <1>n DEF HandledInv, AtHeader
<1>3. i = n + 1
  <2>1. CASE n = Len(stream)
    <3>1. pos = served
      BY <1>2, <1>t, <2>1 DEF StreamInv
    <3>2. stream[i].start < served /\ stream[i].start \in Nat
      BY <1>1, <1>t DEF StreamInv, Records
    <3> QED
      BY <1>2, <3>1, <3>2
  <2>2. CASE n < Len(stream)
    <3>1. n + 1 \in 1..Len(stream) /\ (n + 1) - 1 = n
      BY <1>t, <2>2
    <3>2. stream[n + 1].start = stream[i].start
      BY <1>2, <1>t, <3>1 DEF StreamInv
    <3>3. stream[n + 1].start \in Nat
      <4>1. stream[n + 1] \in Records
        BY <1>t, <3>1
      <4> QED
        BY <4>1 DEF Records
    <3>4. \A a, b \in 1..Len(stream) : a < b => stream[a].start < stream[b].start
      BY <1>t DEF StreamInv
    <3>5. ~(i < n + 1)
      BY <1>1, <3>1, <3>2, <3>3, <3>4
    <3>6. ~(n + 1 < i)
      BY <1>1, <3>1, <3>2, <3>3, <3>4
    <3> QED
      BY <1>1, <3>5, <3>6
  <2> QED
    BY <1>1, <1>t, <2>1, <2>2
<1>4. Decoded(stream[i]) = [type |-> stream[i].type, length |-> stream[i].length]
  <2>1. CASE stream[i].kind = "time"
    <3>1. i > 1 /\ stream[i].type = stream[i - 1].type /\ stream[i].length = stream[i - 1].length
      BY <1>1, <1>t, <2>1 DEF StreamInv
    <3>2. n \in 1..Len(handled) /\ i - 1 = n
      BY <1>3, <1>n, <3>1
    <3>3. handled # <<>> => previous = handled[n]
      BY <1>t, <1>n DEF HandledInv
    <3>4. handled # <<>>
      BY <1>t, <3>2
    <3>5. handled[n] = [type |-> stream[n].type, length |-> stream[n].length]
      BY <1>t, <3>2 DEF HandledInv
    <3> QED
      BY <2>1, <3>1, <3>2, <3>3, <3>4, <3>5 DEF Decoded
  <2>2. CASE stream[i].kind # "time"
    BY <2>2 DEF Decoded
  <2> QED
    BY <2>1, <2>2
<1>5. pos + HeaderOf[stream[i].kind] + WireLength(stream[i]) = stream[i].end
  <2>1. inChunk = ChunkAt(i)
    BY <1>t, <1>n, <1>3 DEF HandledInv
  <2>2. stream[i].end = stream[i].start + HeaderOf[stream[i].kind] + stream[i].length
                        + ServerSeparators(stream[i].length, inChunk)
    BY <1>1, <1>t, <2>1 DEF StreamInv
  <2>3. inChunk \in Nat \ {0}
    BY <1>t, ReceiveAssumption DEF TypeInv, TypeOK, ParseOK
  <2>4. stream[i].length \in Nat
    <3>1. \A k \in Lengths : k \in Nat
      BY ReceiveAssumption
    <3>2. stream[i].length \in Lengths
      BY <1>1 DEF Records
    <3> QED
      BY <3>1, <3>2, Zenon
  <2>5. ServerSeparators(stream[i].length, inChunk) = Separators(stream[i].length, inChunk)
        /\ Separators(stream[i].length, inChunk) \in Nat
    BY <2>3, <2>4, SeparatorsAgree
  <2>6. WireLength(stream[i]) = stream[i].length + Separators(stream[i].length, inChunk)
    BY <1>4 DEF WireLength
  <2>7. HeaderOf[stream[i].kind] \in Nat
    BY <1>1, HeaderPositive DEF Records
  <2>8. pos \in Nat
    BY <1>t DEF TypeInv, TypeOK, BufferOK, ServerOK
  <2> QED
    BY <1>2, <2>2, <2>4, <2>5, <2>6, <2>7, <2>8
<1> QED
  BY <1>3, <1>4, <1>5, <1>n

LEMMA HandledStep ==
    ASSUME Inv, [Next]_vars
    PROVE  HandledInv'
<1>t. /\ TypeInv /\ StreamInv /\ HandledInv /\ PositionInv
      /\ stream \in Seq(Records) /\ handled \in Seq(Messages)
      /\ Len(stream) \in Nat /\ Len(handled) \in Nat
  BY DEF Inv, TypeInv
<1>n. PICK n \in Nat : n = Len(handled)
  BY <1>t
<1>1. CASE \E i \in DOMAIN stream : AtHeader(stream[i]) /\ MessageThere(stream[i])
                                    /\ ParseMessage /\ HandleMessage(stream[i])
  <2>1. PICK i \in DOMAIN stream : AtHeader(stream[i]) /\ HandleMessage(stream[i])
    BY <1>1
  <2>2. m_state \in Late /\ commands # {} /\ UNCHANGED stream
    <3>1. Parsing /\ ~Before(m_state, "HandshakeComplete")
      BY <1>1 DEF ParseMessage
    <3>2. m_state \in Late
      BY <1>t, <3>1, ParsingState
    <3> QED
      BY <1>1, <1>t, <3>2 DEF PositionInv, ParseMessage, serverVars
  <2> DEFINE message == [type |-> stream[i].type, length |-> stream[i].length]
  <2>3. i = n + 1 /\ Decoded(stream[i]) = message
        /\ pos + HeaderOf[stream[i].kind] + WireLength(stream[i]) = stream[i].end
    BY <1>n, <2>1, <2>2, NextMessage
  <2>4. i \in 1..Len(stream) /\ stream[i] \in Records
    BY <1>t
  <2>5. /\ handled' = Append(handled, message) /\ previous' = message
        /\ inChunk' = ChunkAfter(message, stream[i].chunk)
        /\ pos' = pos + (HeaderOf[stream[i].kind] + WireLength(stream[i]))
    BY <2>1, <2>3 DEF HandleMessage, DidRead
  <2>6. message \in Messages
    BY <2>3, <2>4, <1>t, WireLengthNat
  <2>7. /\ Len(handled') = n + 1 /\ handled'[n + 1] = message
        /\ \A k \in 1..n : handled'[k] = handled[k]
    <3>1. /\ Len(Append(handled, message)) = Len(handled) + 1
          /\ Append(handled, message)[Len(handled) + 1] = message
          /\ \A k \in 1..Len(handled) : Append(handled, message)[k] = handled[k]
      BY <1>t, <2>6, AppendProperties
    <3> QED
      BY <1>n, <2>5, <3>1, Zenon
  <2>8. ASSUME NEW k \in 1..Len(handled')
        PROVE  handled'[k] = [type |-> stream'[k].type, length |-> stream'[k].length]
    <3>1. CASE k = n + 1
      BY <2>2, <2>3, <2>7, <3>1
    <3>2. CASE k \in 1..n
      BY <1>n, <1>t, <2>2, <2>7, <3>2 DEF HandledInv
    <3> QED
      BY <2>7, <3>1, <3>2
  <2>9. inChunk' = ChunkAt(Len(handled) + 1)'
    <3>1. inChunk' = stream[i].chunk
      <4>1. CASE message.type = "chunk size"
        BY <2>5, <4>1 DEF ChunkAfter
      <4>2. CASE message.type # "chunk size"
        <5>1. inChunk' = inChunk /\ inChunk = ChunkAt(i)
          BY <1>n, <1>t, <2>3, <2>5, <4>2 DEF ChunkAfter, HandledInv
        <5>2. stream[i].chunk = ChunkAt(i)
          BY <1>t, <2>4, <4>2 DEF StreamInv
        <5> QED
          BY <5>1, <5>2
      <4> QED
        BY <4>1, <4>2
    <3>2. Len(handled') + 1 = n + 2 /\ n + 2 # 1 /\ (n + 2) - 1 = i
      BY <2>3, <2>7
    <3> QED
      BY <2>2, <3>1, <3>2 DEF ChunkAt
  <2>10. pos' = EndOf(Len(handled))'
    <3>1. pos' = stream[i].end
      <4>1. pos \in Nat /\ HeaderOf[stream[i].kind] \in Nat /\ WireLength(stream[i]) \in Nat
        BY <1>t, <2>4, WireLengthNat DEF TypeInv, TypeOK, BufferOK, ServerOK
      <4> QED
        BY <2>3, <2>5, <4>1
    <3> QED
      BY <2>2, <2>3, <2>7, <3>1 DEF EndOf
  <2>11. Len(handled') <= Len(stream')
    BY <1>n, <2>2, <2>3, <2>4, <2>7
  <2>12. previous' = handled'[Len(handled')]
    BY <2>5, <2>7
  <2> QED
    BY <2>8, <2>9, <2>10, <2>11, <2>12 DEF HandledInv
<1>2. CASE UNCHANGED parseVars
  <2>1. UNCHANGED <<handled, inChunk, previous>>
    BY <1>2 DEF parseVars
  <2>2. Len(stream') \in Nat /\ Len(stream) <= Len(stream')
        /\ \A k \in 1..Len(stream) : stream'[k] = stream[k]
    <3>1. CASE ServerMessage
      <4>1. PICK record \in Records : stream' = Append(stream, record)
        BY <1>t, <3>1, Sent
      <4>2. /\ Len(Append(stream, record)) = Len(stream) + 1
            /\ \A k \in 1..Len(stream) : Append(stream, record)[k] = stream[k]
        BY <1>t, AppendProperties
      <4>3. Len(stream') = Len(stream) + 1 /\ \A k \in 1..Len(stream) : stream'[k] = stream[k]
        BY <4>1, <4>2, Zenon
      <4> QED
        BY <1>t, <4>3
    <3>2. CASE ~ServerMessage
      BY <1>t, <3>2, ServerVarsStay
    <3> QED
      BY <3>1, <3>2
  <2>3. n <= Len(stream)
    BY <1>n, <1>t DEF HandledInv
  <2>4. \A k \in 1..n : k \in 1..Len(stream) /\ stream'[k] = stream[k]
    BY <1>t, <2>2, <2>3
  <2>5. ChunkAt(n + 1)' = ChunkAt(n + 1) /\ EndOf(n)' = EndOf(n)
    <3>1. (n + 1) - 1 = n /\ (n + 1 # 1 => n \in 1..n) /\ (n # 0 => n \in 1..n)
      OBVIOUS
    <3> QED
      BY <2>4, <3>1 DEF ChunkAt, EndOf
  <2>6. commands' # {} => pos' = EndOf(n)'
    <3>1. CASE commands = {} /\ commands' # {}
      <4>1. pos' = HandshakeBytes /\ stream = <<>>
        BY <3>1, CommandsStep
      <4>2. n = 0
        BY <1>t, <2>3, <4>1
      <4> QED
        BY <4>1, <4>2 DEF EndOf
    <3>2. CASE commands # {} /\ commands' # {}
      <4>1. pos' = pos
        BY <1>2, <3>2, <1>t, PositionStays
      <4> QED
        BY <1>n, <1>t, <2>5, <3>2, <4>1 DEF HandledInv
    <3> QED
      BY <3>1, <3>2
  <2>7. Len(handled)' = n /\ handled' = handled
    BY <1>n, <2>1
  <2>8. \A k \in 1..n : handled'[k] = [type |-> stream'[k].type, length |-> stream'[k].length]
    BY <1>n, <1>t, <2>4, <2>7 DEF HandledInv
  <2>9. inChunk' = ChunkAt(n + 1)' /\ (handled' # <<>> => previous' = handled'[n])
    BY <1>n, <1>t, <2>1, <2>5 DEF HandledInv
  <2>10. n <= Len(stream')
    BY <1>t, <2>2, <2>3
  <2>11. ChunkAt(Len(handled) + 1)' = ChunkAt(n + 1)' /\ EndOf(Len(handled))' = EndOf(n)'
    BY <2>7 DEF ChunkAt, EndOf
  <2> QED
    BY <2>6, <2>7, <2>8, <2>9, <2>10, <2>11 DEF HandledInv
<1> QED
  BY <1>1, <1>2, ParseVarsStay

-----------------------------------------------------------------------------
(* The theorems.                                                           *)

LEMMA InitInv == Init => Inv
<1> SUFFICES ASSUME Init PROVE Inv
  OBVIOUS
<1>1. TypeInv
  <2>1. LoopOK
    <3>1. opens \in 0..2 /\ pc = "idle"
      BY DEF Init
    <3> QED
      BY <3>1, Zenon DEF Init, LoopOK
  <2>2. ShakeOK
    <3>1. m_state \in DOMAIN ClientState /\ commands = {} /\ c2 \in Nat
      BY DEF Init, ClientState
    <3> QED
      BY <3>1, Zenon DEF Init, ShakeOK
  <2>3. previous \in Messages /\ handled \in Seq(Messages) /\ stream \in Seq(Records)
    BY DEF Init, Messages, Types
  <2>4. ParseOK /\ ServerOK
    BY <2>3 DEF Init, ParseOK, ServerOK, Messages
  <2>5. BufferOK
    BY ReceiveAssumption DEF Init, BufferOK, AvailableSpace
  <2> QED
    BY <2>1, <2>2, <2>3, <2>4, <2>5 DEF TypeInv, TypeOK
<1>2. PositionInv /\ SignatureInv
  BY DEF Init, PositionInv, SignatureInv, Early, Late, Ended
<1>3. StreamInv /\ HandledInv
  BY DEF Init, StreamInv, HandledInv, ChunkAt, EndOf
<1> QED
  BY <1>1, <1>2, <1>3 DEF Inv

LEMMA NextInv == Inv /\ [Next]_vars => Inv'
<1> SUFFICES ASSUME Inv, [Next]_vars PROVE Inv'
  OBVIOUS
<1>1. StreamInv'
  BY StreamStays, StreamGrows
<1> QED
  BY <1>1, TypeStep, ShakeInvStep, HandledStep DEF Inv

LEMMA InvIsInvariant == Spec => []Inv
  BY InitInv, NextInv, PTL DEF Spec

\* Type correctness, and with it the bounds of the buffer: the client never
\* consumes more than was read, nor reads more than the buffer holds.
THEOREM TypeCorrect == Spec => []TypeOK
<1>1. Inv => TypeOK
  BY DEF Inv, TypeInv
<1> QED
  BY <1>1, InvIsInvariant, PTL

\* The messages the client handles are those the server sent, in order and once
\* each, for every size of chunks and however the bytes are cut into reads.
THEOREM OrderIsKept == Spec => []HandledInOrder
<1>1. Inv => HandledInOrder
  <2> SUFFICES ASSUME Inv PROVE HandledInOrder
    OBVIOUS
  <2>1. DOMAIN handled = 1..Len(handled)
    BY DEF Inv, TypeInv
  <2> QED
    BY <2>1 DEF Inv, HandledInv, HandledInOrder
<1> QED
  BY <1>1, InvIsInvariant, PTL

\* C2 is sent at most once, and only for an S1 that was read.
THEOREM SignatureAnswered == Spec => []C2AnswersS1
<1>1. Inv => C2AnswersS1
  BY DEF Inv, SignatureInv, C2AnswersS1
<1> QED
  BY <1>1, InvIsInvariant, PTL

-----------------------------------------------------------------------------
(* The order of the client states.                                         *)

\* The server answers a command that was sent, and each once.
AnswersInv ==
    /\ \A i \in 1..Len(stream) : stream[i].type \in Replies => CommandOf[stream[i].type] \in commands
    /\ \A i, j \in 1..Len(stream) : stream[i].type \in Replies /\ i # j => stream[i].type # stream[j].type

Answered(messages, type) == \E i \in 1..Len(messages) : messages[i].type = type

\* What a state of the session has behind it, and what it has not asked for yet.
StateInv ==
    /\ m_state = "HandshakeComplete" => commands = {"connect"}
    /\ m_state = "FCPublish" => "publish" \notin commands
    /\ m_state \in {"FCPublish", "Ready", "SessionStarted"} => Answered(handled, "connected")
    /\ m_state \in {"Ready", "SessionStarted"} => Answered(handled, "created")
    /\ m_state = "SessionStarted" => Answered(handled, "started")

SessionInv == AnswersInv /\ StateInv

Handles(i) == AtHeader(stream[i]) /\ MessageThere(stream[i]) /\ ParseMessage /\ HandleMessage(stream[i])

\* The next reply is the one that the state waits for.
LEMMA ReplyInOrder ==
    ASSUME Inv, SessionInv, NEW i \in DOMAIN stream, AtHeader(stream[i]), m_state \in Late,
           stream[i].type \in Replies
    PROVE  /\ stream[i].type = "connected" => m_state = "HandshakeComplete"
           /\ stream[i].type = "created" => m_state = "FCPublish"
           /\ stream[i].type = "started" => m_state = "Ready"
<1>t. /\ TypeInv /\ HandledInv /\ PositionInv /\ AnswersInv /\ StateInv
      /\ stream \in Seq(Records) /\ handled \in Seq(Messages) /\ Len(handled) \in Nat /\ Len(stream) \in Nat
  BY DEF Inv, TypeInv, SessionInv
<1>n. PICK n \in Nat : n = Len(handled)
  BY <1>t
<1>1. commands # {}
  BY <1>t DEF PositionInv
<1>2. i = n + 1 /\ i \in 1..Len(stream) /\ n <= Len(stream)
  BY <1>t, <1>n, <1>1, NextMessage DEF HandledInv
<1>3. ASSUME NEW k \in 1..n PROVE handled[k].type # stream[i].type
  <2>1. handled[k].type = stream[k].type
    <3>1. handled[k] = [type |-> stream[k].type, length |-> stream[k].length]
      BY <1>t, <1>n, Zenon DEF HandledInv
    <3> QED
      BY <3>1
  <2>2. k \in 1..Len(stream) /\ k # i
    BY <1>t, <1>2
  <2> QED
    BY <1>t, <1>2, <2>1, <2>2, Zenon DEF AnswersInv
<1>4. ~Answered(handled, stream[i].type)
  BY <1>n, <1>3, Zenon DEF Answered
<1>5. CommandOf[stream[i].type] \in commands
  BY <1>t, <1>2, Zenon DEF AnswersInv
<1>6. stream[i].type = "connected" => m_state = "HandshakeComplete"
  BY <1>t, <1>4, Zenon DEF StateInv, Late
<1>7. stream[i].type = "created" => m_state = "FCPublish"
  <2> SUFFICES ASSUME stream[i].type = "created" PROVE m_state = "FCPublish"
    OBVIOUS
  <2>1. "createStream" \in commands
    BY <1>5 DEF CommandOf
  <2>2. m_state # "HandshakeComplete"
    BY <1>t, <2>1 DEF StateInv
  <2> QED
    BY <1>t, <1>4, <2>2, Zenon DEF StateInv, Late
<1>8. stream[i].type = "started" => m_state = "Ready"
  <2> SUFFICES ASSUME stream[i].type = "started" PROVE m_state = "Ready"
    OBVIOUS
  <2>1. "publish" \in commands
    BY <1>5 DEF CommandOf
  <2>2. m_state # "HandshakeComplete" /\ m_state # "FCPublish"
    BY <1>t, <2>1 DEF StateInv
  <2> QED
    BY <1>t, <1>4, <2>2, Zenon DEF StateInv, Late
<1> QED
  BY <1>6, <1>7, <1>8

\* Besides a message, only the handshake and the end change the state.
LEMMA StateMoves ==
    ASSUME Inv, [Next]_vars, ~\E i \in DOMAIN stream : Handles(i)
    PROVE  \/ UNCHANGED <<m_state, commands>>
           \/ m_state' \in Ended /\ UNCHANGED commands
           \/ m_state = "Handshake2" /\ m_state' = "HandshakeComplete" /\ commands' = {"connect"}
           \/ /\ <<m_state, m_state'>> \in {<<"None", "Connected">>, <<"Connected", "Handshake1s0">>,
                                            <<"Handshake1s0", "Handshake1s1">>, <<"Handshake1s1", "Handshake2">>}
              /\ UNCHANGED commands
<1>t. m_state \in DOMAIN ClientState
  BY DEF Inv, TypeInv, TypeOK, ShakeOK
<1>1. CASE ServerHandshake \/ ServerMessage \/ Deliver
  BY <1>1 DEF ServerHandshake, ServerMessage, Deliver, shakeVars
<1>2. CASE EventConnected
  <2>1. m_state' = (IF MayConnect THEN "Connected" ELSE m_state) /\ UNCHANGED commands
    BY <1>2 DEF EventConnected
  <2>2. MayConnect => m_state = "None"
    BY <1>t, States DEF MayConnect
  <2> QED
    BY <2>1, <2>2
<1>3. CASE EventHasSpace
  BY <1>3 DEF EventHasSpace, SendC0C1, SendC2, DropSignatures, AfterC2
<1>4. CASE EventHasBytes \/ ReadStream \/ ParseEnds
  BY <1>4 DEF EventHasBytes, ReadStream, ParseEnds, shakeVars
<1>5. CASE EventEnds
  BY <1>5 DEF EventEnds
<1>6. CASE ParseS0
  BY <1>6 DEF ParseS0
<1>7. CASE ParseS1
  BY <1>7 DEF ParseS1, NotEnough, SendC2, AfterC2, shakeVars
<1>8. CASE ParseS2
  BY <1>8 DEF ParseS2, NotEnough, shakeVars
<1>9. CASE ParseMessage
  BY <1>9 DEF ParseMessage, NotEnough, shakeVars, Handles
<1>10. CASE UNCHANGED vars
  BY <1>10 DEF vars, shakeVars
<1> QED
  BY <1>1, <1>2, <1>3, <1>4, <1>5, <1>6, <1>7, <1>8, <1>9, <1>10 DEF Next, DataReceived

\* A message moves the session on by its reply, or not at all.
LEMMA HandlesMoves ==
    ASSUME Inv, SessionInv, NEW i \in DOMAIN stream, Handles(i)
    PROVE  /\ m_state \in Late /\ UNCHANGED stream
           /\ handled' = Append(handled, [type |-> stream[i].type, length |-> stream[i].length])
           /\ \/ UNCHANGED <<m_state, commands>>
              \/ /\ stream[i].type = "connected" /\ m_state = "HandshakeComplete" /\ m_state' = "FCPublish"
                 /\ commands' = commands \cup CommandsAfter["connected"]
              \/ /\ stream[i].type = "created" /\ m_state = "FCPublish" /\ m_state' = "Ready"
                 /\ commands' = commands \cup CommandsAfter["created"]
              \/ /\ stream[i].type = "started" /\ m_state = "Ready" /\ m_state' = "SessionStarted"
                 /\ commands' = commands \cup CommandsAfter["started"]
<1>1. AtHeader(stream[i]) /\ HandleMessage(stream[i]) /\ Parsing /\ ~Before(m_state, "HandshakeComplete")
      /\ UNCHANGED stream
  BY DEF Handles, ParseMessage, serverVars
<1>2. m_state \in Late /\ commands # {}
  BY <1>1, ParsingState DEF Inv, PositionInv
<1> DEFINE message == Decoded(stream[i])
<1>3. message = [type |-> stream[i].type, length |-> stream[i].length] /\ message.type = stream[i].type
  BY <1>1, <1>2, NextMessage
<1>4. handled' = Append(handled, message) /\ Invoke(message)
  BY <1>1 DEF HandleMessage
<1> HIDE DEF message
<1>5. CASE message.type \notin Replies
  BY <1>1, <1>2, <1>3, <1>4, <1>5 DEF Invoke
<1>6. CASE message.type \in Replies
  <2>1. m_state' = StateAfter[message.type] /\ commands' = commands \cup CommandsAfter[message.type]
    BY <1>4, <1>6, Zenon DEF Invoke
  <2>2. message.type \in {"connected", "created", "started"}
    BY <1>6 DEF Replies
  <2>3. /\ stream[i].type = "connected" => m_state = "HandshakeComplete"
        /\ stream[i].type = "created" => m_state = "FCPublish"
        /\ stream[i].type = "started" => m_state = "Ready"
    BY <1>1, <1>2, <1>3, <1>6, ReplyInOrder
  <2>4. StateAfter["connected"] = "FCPublish" /\ StateAfter["created"] = "Ready"
        /\ StateAfter["started"] = "SessionStarted"
    BY DEF StateAfter
  <2> QED
    BY <1>1, <1>2, <1>3, <1>4, <2>1, <2>2, <2>3, <2>4, Zenon
<1> QED
  BY <1>5, <1>6

LEMMA AnswersStep ==
    ASSUME Inv, SessionInv, [Next]_vars
    PROVE  AnswersInv'
<1>t. TypeInv /\ PositionInv /\ AnswersInv /\ stream \in Seq(Records) /\ Len(stream) \in Nat
  BY DEF Inv, TypeInv, SessionInv
<1>1. CASE ServerMessage
  <2>1. PICK type \in Types, kind \in Kinds, length \in Lengths, chunk \in ChunkSizes :
          /\ type \in Replies => /\ CommandOf[type] \in commands
                                 /\ \A i \in DOMAIN stream : stream[i].type # type
          /\ stream' = Append(stream, Record(type, kind, length, chunk))
    BY <1>1 DEF ServerMessage
  <2>n. PICK n \in Nat : n = Len(stream)
    BY <1>t
  <2>2. Record(type, kind, length, chunk).type = type
    BY DEF Record
  <2>3. /\ Len(stream') = n + 1 /\ stream'[n + 1].type = type
        /\ \A k \in 1..n : stream'[k] = stream[k]
    BY <1>t, <2>1, <2>2, <2>n
  <2>4. commands' = commands
    BY <1>1 DEF ServerMessage, shakeVars
  <2>5. ASSUME NEW k \in 1..(n + 1), k # n + 1
        PROVE  k \in 1..n /\ k \in DOMAIN stream /\ stream'[k] = stream[k]
    BY <1>t, <2>n, <2>3, <2>5
  <2>6. ASSUME NEW k \in 1..(n + 1), stream'[k].type \in Replies
        PROVE  CommandOf[stream'[k].type] \in commands'
    BY <1>t, <2>1, <2>n, <2>3, <2>4, <2>5, <2>6, ZenonT(60) DEF AnswersInv
  <2>7. ASSUME NEW k \in 1..(n + 1), NEW j \in 1..(n + 1), stream'[k].type \in Replies, k # j
        PROVE  stream'[k].type # stream'[j].type
    <3>1. CASE k # n + 1 /\ j # n + 1
      BY <1>t, <2>n, <2>5, <2>7, <3>1, Zenon DEF AnswersInv
    <3>2. CASE k = n + 1
      BY <2>1, <2>3, <2>5, <2>7, <3>2, Zenon
    <3>3. CASE j = n + 1
      BY <2>1, <2>3, <2>5, <2>7, <3>3, Zenon
    <3> QED
      BY <3>1, <3>2, <3>3
  <2> QED
    BY <2>3, <2>6, <2>7, Zenon DEF AnswersInv
<1>2. CASE ~ServerMessage
  <2>1. UNCHANGED stream
    BY <1>2, ServerVarsStay
  <2>2. stream = <<>> \/ commands \subseteq commands'
    <3>1. CASE \E i \in DOMAIN stream : Handles(i)
      BY <3>1, HandlesMoves
    <3>2. CASE ~\E i \in DOMAIN stream : Handles(i)
      <4>1. m_state = "Handshake2" => stream = <<>>
        BY <1>t DEF PositionInv
      <4> QED
        BY <3>2, <4>1, StateMoves
    <3> QED
      BY <3>1, <3>2
  <2>3. CASE stream = <<>>
    <3>1. stream' = <<>> /\ 1..Len(stream') = {}
      BY <2>1, <2>3
    <3> QED
      BY <3>1, Zenon DEF AnswersInv
  <2>4. CASE commands \subseteq commands'
    BY <1>t, <2>1, <2>4, Zenon DEF AnswersInv
  <2> QED
    BY <2>2, <2>3, <2>4
<1> QED
  BY <1>1, <1>2

LEMMA StateStep ==
    ASSUME Inv, SessionInv, [Next]_vars
    PROVE  StateInv'
<1>t. TypeInv /\ StateInv /\ handled \in Seq(Messages) /\ Len(handled) \in Nat
  BY DEF Inv, TypeInv, SessionInv
<1>1. CASE \E i \in DOMAIN stream : Handles(i)
  <2>1. PICK i \in DOMAIN stream : Handles(i)
    BY <1>1
  <2> DEFINE message == [type |-> stream[i].type, length |-> stream[i].length]
  <2>2. handled' = Append(handled, message)
    BY <2>1, HandlesMoves
  <2>3. /\ Len(handled') = Len(handled) + 1 /\ handled'[Len(handled) + 1] = message
        /\ \A k \in 1..Len(handled) : handled'[k] = handled[k] /\ k \in 1..(Len(handled) + 1)
        /\ Len(handled) + 1 \in 1..(Len(handled) + 1)
    BY <1>t, <2>2
  <2>4. message.type = stream[i].type
    OBVIOUS
  <2> HIDE DEF message
  <2>5. \A type : Answered(handled, type) => Answered(handled', type)
    BY <2>3, Zenon DEF Answered
  <2>6. Answered(handled', stream[i].type)
    BY <2>3, <2>4, Zenon DEF Answered
  <2>7. CASE UNCHANGED <<m_state, commands>>
    BY <1>t, <2>5, <2>7, Zenon DEF StateInv
  <2>8. CASE /\ stream[i].type = "connected" /\ m_state = "HandshakeComplete" /\ m_state' = "FCPublish"
             /\ commands' = commands \cup CommandsAfter["connected"]
    <3>1. "publish" \notin commands'
      BY <1>t, <2>8 DEF StateInv, CommandsAfter
    <3>2. Answered(handled', "connected")
      BY <2>6, <2>8
    <3> QED
      BY <2>8, <3>1, <3>2 DEF StateInv
  <2>9. CASE stream[i].type = "created" /\ m_state = "FCPublish" /\ m_state' = "Ready"
    <3>1. Answered(handled', "connected") /\ Answered(handled', "created")
      BY <1>t, <2>5, <2>6, <2>9 DEF StateInv
    <3> QED
      BY <2>9, <3>1 DEF StateInv
  <2>10. CASE stream[i].type = "started" /\ m_state = "Ready" /\ m_state' = "SessionStarted"
    <3>1. Answered(handled', "connected") /\ Answered(handled', "created") /\ Answered(handled', "started")
      BY <1>t, <2>5, <2>6, <2>10 DEF StateInv
    <3> QED
      BY <2>10, <3>1 DEF StateInv
  <2> QED
    BY <2>1, <2>7, <2>8, <2>9, <2>10, HandlesMoves
<1>2. CASE ~\E i \in DOMAIN stream : Handles(i)
  <2>1. UNCHANGED handled
    BY <1>2, ParseVarsStay DEF parseVars, Handles
  <2>2. \A type : Answered(handled', type) <=> Answered(handled, type)
    BY <2>1, Zenon DEF Answered
  <2>3. CASE UNCHANGED <<m_state, commands>>
    BY <1>t, <2>2, <2>3, Zenon DEF StateInv
  <2>4. CASE m_state' \in Ended \cup {"Connected", "Handshake1s0", "Handshake1s1", "Handshake2"}
    BY <2>4 DEF StateInv, Ended
  <2>5. CASE m_state' = "HandshakeComplete" /\ commands' = {"connect"}
    BY <2>5 DEF StateInv
  <2> QED
    BY <1>2, <2>3, <2>4, <2>5, StateMoves
<1> QED
  BY <1>1, <1>2

LEMMA SessionIsInvariant == Spec => []SessionInv
<1>1. Init => SessionInv
  BY DEF Init, SessionInv, AnswersInv, StateInv
<1>2. Inv /\ SessionInv /\ [Next]_vars => SessionInv'
  BY AnswersStep, StateStep DEF SessionInv
<1> QED
  BY <1>1, <1>2, InvIsInvariant, PTL DEF Spec

\* The client state never goes back until the connection ends, and each state
\* of the session is reached by the reply to the command that the state before
\* it sent: no order of replies and other messages makes handleInvoke skip one.
THEOREM StatesInOrder == Spec => StateAdvances
<1> DEFINE Advances ==
        /\ m_state' \notin Ended => ~Before(m_state', m_state)
        /\ m_state' = "Ready" /\ m_state # "Ready" => m_state = "FCPublish"
        /\ m_state' = "SessionStarted" /\ m_state # "SessionStarted" => m_state = "Ready"
<1>1. Inv /\ SessionInv /\ [Next]_vars => [Advances]_vars
  <2> SUFFICES ASSUME Inv, SessionInv, [Next]_vars PROVE Advances
    OBVIOUS
  <2>t. m_state \in DOMAIN ClientState
    BY DEF Inv, TypeInv, TypeOK, ShakeOK
  <2>1. CASE UNCHANGED m_state
    BY <2>t, <2>1 DEF Before, ClientState
  <2>2. CASE m_state' \in Ended
    BY <2>2 DEF Ended
  <2>3. CASE <<m_state, m_state'>> \in
               {<<"None", "Connected">>, <<"Connected", "Handshake1s0">>, <<"Handshake1s0", "Handshake1s1">>,
                <<"Handshake1s1", "Handshake2">>, <<"Handshake2", "HandshakeComplete">>,
                <<"HandshakeComplete", "FCPublish">>, <<"FCPublish", "Ready">>, <<"Ready", "SessionStarted">>}
    BY <2>3 DEF Before, ClientState
  <2> QED
    <3>1. CASE \E i \in DOMAIN stream : Handles(i)
      BY <2>1, <2>3, <3>1, HandlesMoves
    <3>2. CASE ~\E i \in DOMAIN stream : Handles(i)
      BY <2>1, <2>2, <2>3, <3>2, StateMoves
    <3> QED
      BY <3>1, <3>2
<1> QED
  BY <1>1, InvIsInvariant, SessionIsInvariant, PTL DEF Spec, StateAdvances
-----------------------------------------------------------------------------
(* What dataReceived leaves behind.                                        *)

NoneThere ==
    \A i \in DOMAIN stream :
        AtHeader(stream[i]) /\ stream[i].length > 0 => written < stream[i].end

\* The stream has more bytes only when the buffer is full of what is not read
\* yet; so a loop that has stopped parsing reads nothing more, and one that has
\* not leaves nothing.
RestInv ==
    /\ pc = "parse" /\ hasBytes => AvailableSpace = 0 \/ AvailableBytes = 0
    /\ pc # "idle" /\ stop1 => AvailableBytes > 0
    /\ pc = "read" /\ stop1 => AvailableSpace = 0
    /\ pc = "idle" /\ ~stop1 => AvailableBytes = 0
    /\ stop1 /\ commands # {} => NoneThere

LEMMA BufferType ==
    ASSUME TypeInv
    PROVE  /\ base \in Nat /\ pos \in Nat /\ written \in Nat /\ arrived \in Nat /\ served \in Nat
           /\ base <= pos /\ pos <= written /\ written <= arrived /\ arrived <= served
           /\ AvailableSpace \in Nat /\ AvailableBytes \in Nat
           /\ stream \in Seq(Records) /\ DOMAIN stream = 1..Len(stream) /\ Len(stream) \in Nat
  BY ReceiveAssumption DEF TypeInv, TypeOK, BufferOK, ServerOK, AvailableBytes

\* tryReadOneMessage finds every message that is all there, but an empty one.
LEMMA NotThere ==
    ASSUME Inv, commands # {}, NEW i \in DOMAIN stream, AtHeader(stream[i]),
           ~MessageThere(stream[i]), stream[i].length > 0
    PROVE  written < stream[i].end
<1>t. TypeInv /\ stream[i] \in Records
  BY DEF Inv, TypeInv
<1>1. /\ pos + HeaderOf[stream[i].kind] + WireLength(stream[i]) = stream[i].end
      /\ Decoded(stream[i]).length = stream[i].length
  BY NextMessage
<1>2. WireLength(stream[i]) \in Nat /\ HeaderOf[stream[i].kind] \in Nat
  BY <1>t, WireLengthNat
<1>3. WireLength(stream[i]) > 0
  <2>1. stream[i].length \in Nat
    BY <1>t, ReceiveAssumption DEF Records
  <2>2. inChunk \in Nat \ {0}
    BY <1>t, ReceiveAssumption DEF TypeInv, TypeOK, ParseOK
  <2>3. Separators(stream[i].length, inChunk) \in Nat
    BY <2>1, <2>2, SeparatorsAgree
  <2>4. WireLength(stream[i]) = stream[i].length + Separators(stream[i].length, inChunk)
    BY <1>1 DEF WireLength
  <2> QED
    BY <2>1, <2>3, <2>4
<1>4. ~Enough(HeaderOf[stream[i].kind] + WireLength(stream[i]))
  BY SMTT(30), <1>t, <1>2, <1>3, BufferType DEF MessageThere, Enough
<1> QED
  BY SMTT(30), <1>t, <1>1, <1>2, <1>4, BufferType DEF Enough, AvailableBytes

\* What the server sends begins behind what was read.
LEMMA NoneThereStays ==
    ASSUME Inv, [Next]_vars, NoneThere, UNCHANGED <<written, pos>>
    PROVE  NoneThere'
<1>t. TypeInv
  BY DEF Inv
<1>1. CASE ServerMessage
  <2>1. PICK record \in Records :
          /\ stream' = Append(stream, record)
          /\ record.start = served /\ record.end > served
    BY <1>t, <1>1, Sent
  <2>2. ASSUME NEW i \in DOMAIN stream', stream'[i].start = pos', stream'[i].length > 0
        PROVE  written' < stream'[i].end
    <3>1. CASE i \in DOMAIN stream
      <4>1. stream'[i] = stream[i]
        BY <1>t, <2>1, <3>1, BufferType
      <4> QED
        BY <2>2, <3>1, <4>1 DEF NoneThere, AtHeader
    <3>2. CASE i \notin DOMAIN stream
      <4>1. stream'[i] = record
        BY <1>t, <2>1, <2>2, <3>2, BufferType
      <4>2. record.end \in Nat
        BY DEF Records
      <4> QED
        BY <1>t, <2>1, <4>1, <4>2, BufferType
    <3> QED
      BY <3>1, <3>2
  <2> QED
    BY <2>2 DEF NoneThere, AtHeader
<1>2. CASE ~ServerMessage
  BY <1>2, ServerVarsStay DEF NoneThere, AtHeader
<1> QED
  BY <1>1, <1>2

\* A step of the loop that takes n bytes from the buffer.
LEMMA TakesBytes ==
    ASSUME TypeInv, RestInv, Parsing, NEW n \in Nat, n <= AvailableBytes, DidRead(n),
           UNCHANGED loopVars
    PROVE  RestInv'
<1>1. pc' = "parse" /\ ~stop1' /\ hasBytes' = hasBytes /\ AvailableBytes > 0
  BY DEF Parsing, loopVars
<1>2. hasBytes => AvailableSpace = 0
  BY <1>1, BufferType DEF RestInv, Parsing
<1>3. written' = written /\ pos' = pos + n /\ base' = (IF pos + n = written THEN written ELSE base)
  BY DEF DidRead, ResetAt
<1>4. AvailableBytes' = 0 \/ AvailableSpace' = AvailableSpace
  BY <1>3, BufferType DEF AvailableBytes, AvailableSpace
<1> QED
  BY <1>1, <1>2, <1>4 DEF RestInv

\* A step of the loop that finds too few bytes for its part.
LEMMA TooFew ==
    ASSUME Inv, RestInv, Parsing, NotEnough, [Next]_vars, commands # {} => NoneThere
    PROVE  RestInv'
<1>1. /\ UNCHANGED <<pc, hasBytes, written, pos, base, commands>>
      /\ stop1' /\ pc = "parse" /\ AvailableBytes > 0
  BY DEF NotEnough, bufferVars, shakeVars, Parsing
<1>2. AvailableBytes' = AvailableBytes /\ AvailableSpace' = AvailableSpace
  BY <1>1 DEF AvailableBytes, AvailableSpace
<1>3. commands' # {} => NoneThere'
  BY <1>1, NoneThereStays
<1> QED
  BY <1>1, <1>2, <1>3 DEF RestInv

LEMMA RestStep ==
    ASSUME Inv, RestInv, [Next]_vars
    PROVE  RestInv'
<1>t. TypeInv /\ PositionInv
  BY DEF Inv
<1>s. UNCHANGED <<written, pos, commands>> /\ (stop1' => stop1) => (stop1' /\ commands' # {} => NoneThere')
  BY NoneThereStays DEF RestInv
<1>b. UNCHANGED bufferVars => AvailableBytes' = AvailableBytes /\ AvailableSpace' = AvailableSpace
  BY DEF bufferVars, AvailableBytes, AvailableSpace
<1>1. CASE ServerHandshake \/ ServerMessage \/ Deliver
  <2>1. UNCHANGED <<loopVars, bufferVars, commands>>
    BY <1>1 DEF ServerHandshake, ServerMessage, Deliver, shakeVars
  <2> QED
    BY <1>s, <1>b, <2>1 DEF RestInv, loopVars, bufferVars
<1>2. CASE EventConnected \/ EventHasSpace \/ EventEnds
  <2>1. UNCHANGED <<pc, stop1, bufferVars, commands>> /\ pc = "idle"
    BY <1>2 DEF EventConnected, EventHasSpace, EventEnds, RunLoopFree, loopVars
  <2> QED
    BY <1>s, <1>b, <2>1 DEF RestInv, bufferVars
<1>3. CASE EventHasBytes
  <2>1. pc' = "read" /\ ~stop1'
    BY <1>3 DEF EventHasBytes
  <2> QED
    BY <2>1 DEF RestInv
<1>4. CASE ReadStream
  <2>1. pc = "read" /\ pc' = "parse" /\ UNCHANGED <<stop1, pos, base, commands, arrived>>
    BY <1>4 DEF ReadStream, shakeVars
  <2>2. CASE AvailableSpace > 0
    <3>1. ~stop1
      BY <2>1, <2>2 DEF RestInv
    <3> DEFINE taken == IF arrived - written < AvailableSpace
                        THEN arrived - written ELSE AvailableSpace
    <3>2. written' = written + taken /\ hasBytes' = (written + taken < arrived)
      BY <1>4, <2>2, Zenon DEF ReadStream
    <3>3. written + taken < arrived => taken = AvailableSpace
      BY <1>t, BufferType
    <3>4. taken = AvailableSpace => AvailableSpace' = 0
      <4>1. AvailableSpace = Capacity - (written - base) /\ Capacity \in Nat
        BY ReceiveAssumption DEF AvailableSpace
      <4>2. AvailableSpace' = Capacity - ((written + taken) - base)
        BY <2>1, <3>2 DEF AvailableSpace
      <4> HIDE DEF taken
      <4> QED
        BY SMTT(30), <1>t, <4>1, <4>2, BufferType
    <3> QED
      BY <2>1, <3>1, <3>2, <3>3, <3>4 DEF RestInv
  <2>3. CASE ~(AvailableSpace > 0)
    <3>1. UNCHANGED <<written, hasBytes>>
      BY <1>4, <2>3 DEF ReadStream
    <3>2. AvailableSpace = 0 /\ AvailableSpace' = 0 /\ AvailableBytes' = AvailableBytes
      BY <1>t, <2>1, <2>3, <3>1, BufferType DEF AvailableSpace, AvailableBytes
    <3> QED
      BY <1>s, <2>1, <3>1, <3>2 DEF RestInv
  <2> QED
    BY <2>2, <2>3
<1>5. CASE ParseEnds
  <2>1. /\ pc = "parse" /\ (stop1 \/ AvailableBytes = 0)
        /\ pc' = (IF hasBytes THEN "read" ELSE "idle")
        /\ UNCHANGED <<stop1, hasBytes, bufferVars, commands>>
    BY <1>5 DEF ParseEnds, shakeVars
  <2> QED
    BY <1>t, <1>s, <1>b, <2>1, BufferType DEF RestInv, bufferVars
<1>6. CASE ParseS0
  <2>1. Parsing /\ DidRead(1) /\ UNCHANGED loopVars
    BY <1>6 DEF ParseS0
  <2>2. 1 <= AvailableBytes
    BY <1>t, <2>1, BufferType DEF Parsing
  <2> QED
    BY <1>t, <2>1, <2>2, TakesBytes
<1>7. CASE ParseS1 \/ ParseS2
  <2>1. Parsing /\ m_state \in {"Handshake1s1", "Handshake2"}
    BY <1>7 DEF ParseS1, ParseS2
  <2>2. commands = {}
    BY <1>t, <2>1 DEF PositionInv, Early
  <2>3. CASE NotEnough
    BY <2>1, <2>2, <2>3, TooFew
  <2>4. CASE ~NotEnough
    <3>1. DidRead(SignatureSize) /\ SignatureSize <= AvailableBytes /\ UNCHANGED loopVars
      BY <1>t, <1>7, <2>4, BufferType, SignatureNat DEF ParseS1, ParseS2
    <3> QED
      BY <1>t, <2>1, <3>1, TakesBytes, SignatureNat
  <2> QED
    BY <2>3, <2>4
<1>8. CASE ParseMessage
  <2>1. Parsing /\ ~Before(m_state, "HandshakeComplete")
    BY <1>8 DEF ParseMessage
  <2>2. commands # {}
    BY <1>t, <2>1, ParsingState DEF PositionInv
  <2>3. CASE \E i \in DOMAIN stream : MessageThere(stream[i]) /\ HandleMessage(stream[i])
    <3>1. PICK i \in DOMAIN stream : MessageThere(stream[i]) /\ HandleMessage(stream[i])
      BY <2>3
    <3>2. stream[i] \in Records
      BY <1>t DEF TypeInv
    <3> DEFINE n == HeaderOf[stream[i].kind] + WireLength(stream[i])
    <3>3. n \in Nat
      <4>1. HeaderOf[stream[i].kind] \in Nat /\ WireLength(stream[i]) \in Nat
        BY <1>t, <3>2, WireLengthNat
      <4> QED
        BY <4>1
    <3>4. DidRead(n) /\ AvailableBytes >= n /\ UNCHANGED loopVars
      BY <3>1 DEF HandleMessage, MessageThere, Enough
    <3> HIDE DEF n
    <3>5. n <= AvailableBytes
      BY <1>t, <3>3, <3>4, BufferType
    <3> QED
      BY <1>t, <2>1, <3>3, <3>4, <3>5, TakesBytes
  <2>4. CASE /\ \A i \in DOMAIN stream : ~(AtHeader(stream[i]) /\ MessageThere(stream[i]))
             /\ NotEnough
    <3>1. NoneThere
      BY <2>2, <2>4, NotThere DEF NoneThere
    <3> QED
      BY <2>1, <2>4, <3>1, TooFew
  <2> QED
    BY <1>8, <2>3, <2>4 DEF ParseMessage
<1>9. CASE UNCHANGED vars
  <2>1. UNCHANGED <<loopVars, bufferVars, commands>>
    BY <1>9 DEF vars, shakeVars
  <2> QED
    BY <1>s, <1>b, <2>1 DEF RestInv, loopVars, bufferVars
<1> QED
  BY <1>1, <1>2, <1>3, <1>4, <1>5, <1>6, <1>7, <1>8, <1>9 DEF Next, DataReceived

\* However messages are cut into reads and whatever the size of the buffer,
\* dataReceived returns only from a message that is not all there: what stop1
\* leaves unparsed waits for bytes that are still to come.
THEOREM NothingIsLeft == Spec => []NothingLeftBehind
<1>1. Init => RestInv
  BY DEF Init, RestInv, AvailableBytes
<1>2. Inv /\ RestInv /\ [Next]_vars => RestInv'
  BY RestStep
<1>3. Inv /\ RestInv => NothingLeftBehind
  <2> SUFFICES ASSUME Inv, RestInv, pc = "idle", commands # {}, NEW i \in DOMAIN stream,
                      AtHeader(stream[i]), stream[i].length > 0
               PROVE  written < stream[i].end
    BY DEF NothingLeftBehind
  <2>t. TypeInv /\ stream[i] \in Records
    BY DEF Inv, TypeInv
  <2>1. CASE stop1
    BY <2>1 DEF RestInv, NoneThere
  <2>2. CASE ~stop1
    <3>1. written = pos
      BY <2>t, <2>2, BufferType DEF RestInv, AvailableBytes
    <3>2. stream[i].end > pos
      <4>1. pos + HeaderOf[stream[i].kind] + WireLength(stream[i]) = stream[i].end
        BY NextMessage
      <4> QED
        BY SMTT(30), <2>t, <4>1, WireLengthNat, BufferType
    <3> QED
      BY <2>t, <3>1, <3>2, BufferType DEF Records
  <2> QED
    BY <2>1, <2>2
<1> QED
  BY <1>1, <1>2, <1>3, InvIsInvariant, PTL DEF Spec

\* The client and the server agree on where messages begin and end: what is
\* handled is what was sent, and what is all there is handled.
THEOREM MessagesFramed == Spec => []FramesAgree
BY OrderIsKept, NothingIsLeft, PTL DEF FramesAgree
=============================================================================
