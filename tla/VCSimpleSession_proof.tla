----------------------- MODULE VCSimpleSession_proof -----------------------
(***************************************************************************)
(* Proofs about VCSimpleSession, for every set of bit rates, number of     *)
(* calls and number of sessions.                                           *)
(***************************************************************************)
EXTENDS VCSimpleSession, TLAPS, SequenceTheorems

-----------------------------------------------------------------------------
(* The ladder. *)

\* The callback leaves a rate between the floor and a ceiling above it, and
\* even under a lower ceiling never a rate that is zero or negative.
THEOREM LadderBounded ==
    ASSUME NEW br \in Nat, NEW vector \in {-1, 1}, NEW top \in Nat \ {0}
    PROVE  /\ Adapted(br, vector, top) \in Nat \ {0}
           /\ top >= kMinVideoBitrate => Adapted(br, vector, top) \in kMinVideoBitrate..top
<1>1. CASE br > 1152000
  BY <1>1, SMT DEF Adapted, Rung, LowerOf, HigherOf, kMinVideoBitrate
<1>2. CASE br > 512000 /\ br <= 1152000
  BY <1>2, SMT DEF Adapted, Rung, LowerOf, HigherOf, kMinVideoBitrate
<1>3. CASE br > 128000 /\ br <= 512000
  BY <1>3, SMT DEF Adapted, Rung, LowerOf, HigherOf, kMinVideoBitrate
<1>4. CASE br <= 128000
  BY <1>4, SMT DEF Adapted, Rung, LowerOf, HigherOf, kMinVideoBitrate
<1>5. QED
  BY <1>1, <1>2, <1>3, <1>4, SMT

\* The encoder is moved the way the throughput moved: a rise raises its rate
\* or stops at the ceiling, a fall lowers it or stops at the floor.
THEOREM LadderMoves ==
    ASSUME NEW br \in Nat, NEW top \in Nat \ {0}, top >= kMinVideoBitrate
    PROVE  /\ Adapted(br, 1, top) > br \/ Adapted(br, 1, top) = top
           /\ Adapted(br, -1, top) < br \/ Adapted(br, -1, top) = kMinVideoBitrate
<1>1. CASE br > 1152000
  BY <1>1, SMT DEF Adapted, Rung, LowerOf, HigherOf, kMinVideoBitrate
<1>2. CASE br > 512000 /\ br <= 1152000
  BY <1>2, SMT DEF Adapted, Rung, LowerOf, HigherOf, kMinVideoBitrate
<1>3. CASE br > 128000 /\ br <= 512000
  BY <1>3, SMT DEF Adapted, Rung, LowerOf, HigherOf, kMinVideoBitrate
<1>4. CASE br <= 128000
  BY <1>4, SMT DEF Adapted, Rung, LowerOf, HigherOf, kMinVideoBitrate
<1>5. QED
  BY <1>1, <1>2, <1>3, <1>4, SMT

-----------------------------------------------------------------------------
(* The graph queue as a sequence. *)

\* Every element of a queue of blocks is a block.
LEMMA HeadIsBlock ==
    ASSUME queue \in Seq(Block), queue # <<>>
    PROVE  /\ Head(queue) \in Block
           /\ Tail(queue) \in Seq(Block)
           /\ Len(Tail(queue)) = Len(queue) - 1
           /\ Head(queue) = queue[1]
           /\ \A i \in 1..Len(queue) - 1 : Tail(queue)[i] = queue[i + 1]
           /\ Len(queue) \in Nat \ {0}
BY HeadTailProperties, EmptySeq, LenProperties, ElementOfSeq

\* Appending a block keeps the earlier ones where they are.
LEMMA AppendedBlock ==
    ASSUME queue \in Seq(Block), NEW b \in Block
    PROVE  /\ Append(queue, b) \in Seq(Block)
           /\ Len(Append(queue, b)) = Len(queue) + 1
           /\ \A i \in 1..Len(queue) : Append(queue, b)[i] = queue[i]
           /\ Append(queue, b)[Len(queue) + 1] = b
           /\ Len(queue) \in Nat
BY AppendProperties, LenProperties

\* The number of a session in a start or add block is a session.
LEMMA BlockSession ==
    ASSUME NEW b \in Block
    PROVE  /\ b.for \in Session \cup {None}
           /\ b.op \in {"start", "add"} => b.for \in Session
BY SMT DEF Block

-----------------------------------------------------------------------------
(* Type correctness. *)

\* The sizes the session is made from are rates.
LEMMA Rates ==
    /\ UnlimitedBuffer \in Nat
    /\ AdaptiveStart \in Nat
    /\ \A r \in Nat : SendLimit(r) \in Nat
BY SMT DEF UnlimitedBuffer, AdaptiveStart, SendLimit, kMaxBufferedDuration

\* The idle values have their types.
LEMMA IdleTypes ==
    /\ NoEncoder \in EncoderType
    /\ Off \in SamplerType
    /\ \A p \in {"idle", "load"} : At(p, None) \in GraphType
    /\ \A p \in {"join start", "join teardown"}, s \in Session \cup {None} :
          At(p, s) \in GraphType
BY SMT DEF NoEncoder, EncoderType, Off, SamplerType, At, GraphType, None

\* The blocks the actors queue are blocks.
LEMMA BlockTypes ==
    /\ [op |-> "teardown", for |-> None] \in Block
    /\ \A s \in Session : /\ [op |-> "start", for |-> s] \in Block
                         /\ [op |-> "add", for |-> s] \in Block
BY DEF Block

\* What ReleaseThen returns is a state of the graph queue.
LEMMA ReleaseType ==
    ASSUME TypeOK, NEW join \in {"join start", "join teardown"},
           NEW after \in {"load", "idle"}
    PROVE  ReleaseThen(join, after) \in GraphType
BY IdleTypes DEF ReleaseThen, TypeOK, GraphOK

\* The initial state is well typed.
LEMMA InitTypeOK == Init => TypeOK
<1> SUFFICES ASSUME Init PROVE TypeOK
  OBVIOUS
<1>1. RatesOK
  BY SessionAssumption DEF Init, RatesOK
<1>2. HistoryOK
  BY DEF Init, HistoryOK
<1>3. AppOK
  BY SessionAssumption DEF Init, AppOK
<1>4. QueueOK
  BY EmptySeq DEF Init, QueueOK
<1>5. GraphOK
  BY IdleTypes DEF Init, Idle, GraphOK
<1>6. ClientOK
  BY DEF Init, ClientOK
<1>7. SamplerOK
  BY IdleTypes, Rates DEF Init, SamplerOK
<1>8. QED
  BY <1>1, <1>2, <1>3, <1>4, <1>5, <1>6, <1>7 DEF TypeOK

\* A session that may be started has a number.
LEMMA NewSession == TypeOK /\ made < MaxSessions => made + 1 \in Session
BY SessionAssumption DEF TypeOK, AppOK, Session

\* A call stays within the bound on calls.
LEMMA CallsBounded == TypeOK /\ Call => calls' \in 0..MaxCalls
BY SessionAssumption DEF TypeOK, AppOK, Call

\* A step of the application keeps the types.
LEMMA AppTypeOK == TypeOK /\ AppStep => TypeOK'
<1> SUFFICES ASSUME TypeOK, AppStep PROVE TypeOK'
  OBVIOUS
<1> USE DEF TypeOK
<1>1. ASSUME NEW b \in Bitrates, SetBitrate(b) PROVE TypeOK'
  <2>1. RatesOK'
    BY <1>1, SessionAssumption DEF SetBitrate, RatesOK
  <2>2. HistoryOK'
    BY <1>1 DEF SetBitrate, HistoryOK
  <2>3. AppOK'
    BY <1>1, CallsBounded DEF SetBitrate, AppOK, sessionVars
  <2>4. QueueOK' /\ GraphOK' /\ ClientOK' /\ SamplerOK'
    BY <1>1 DEF SetBitrate, QueueOK, GraphOK, ClientOK, SamplerOK, rateVars, sessionVars, historyVars
  <2>5. QED
    BY <2>1, <2>2, <2>3, <2>4 DEF TypeOK
<1>2. ASSUME NEW on \in BOOLEAN, SetUseAdaptiveBitrate(on) PROVE TypeOK'
  <2>1. RatesOK'
    BY <1>2 DEF SetUseAdaptiveBitrate, RatesOK
  <2>2. HistoryOK'
    BY <1>2 DEF SetUseAdaptiveBitrate, HistoryOK
  <2>3. AppOK'
    BY <1>2, CallsBounded DEF SetUseAdaptiveBitrate, AppOK, sessionVars
  <2>4. QueueOK' /\ GraphOK' /\ ClientOK' /\ SamplerOK'
    BY <1>2 DEF SetUseAdaptiveBitrate, QueueOK, GraphOK, ClientOK, SamplerOK, rateVars, sessionVars, historyVars
  <2>5. QED
    BY <2>1, <2>2, <2>3, <2>4 DEF TypeOK
<1>3. CASE StartRtmpSession
  <2>1. HistoryOK'
    BY <1>3 DEF StartRtmpSession, HistoryOK
  <2>2. AppOK'
    BY <1>3, CallsBounded, SessionAssumption DEF StartRtmpSession, AppOK
  <2>3. QueueOK'
    BY <1>3, NewSession, BlockTypes, AppendedBlock DEF StartRtmpSession, QueueOK
  <2>4. RatesOK' /\ GraphOK' /\ ClientOK' /\ SamplerOK'
    BY <1>3 DEF StartRtmpSession, RatesOK, GraphOK, ClientOK, SamplerOK, rateVars, sessionVars, historyVars
  <2>5. QED
    BY <2>1, <2>2, <2>3, <2>4 DEF TypeOK
<1>4. ASSUME NEW call \in {"pause", "end"}, StopRtmpSession(call) PROVE TypeOK'
  <2>1. HistoryOK'
    BY <1>4 DEF StopRtmpSession, HistoryOK
  <2>2. AppOK'
    BY <1>4, CallsBounded DEF StopRtmpSession, AppOK, sessionVars
  <2>3. QueueOK'
    BY <1>4, BlockTypes, AppendedBlock DEF StopRtmpSession, QueueOK
  <2>4. RatesOK' /\ GraphOK' /\ ClientOK' /\ SamplerOK'
    BY <1>4 DEF StopRtmpSession, RatesOK, GraphOK, ClientOK, SamplerOK, rateVars, sessionVars, historyVars
  <2>5. QED
    BY <2>1, <2>2, <2>3, <2>4 DEF TypeOK
<1>5. CASE StopRestoresBitrate
  <2>1. RatesOK'
    BY <1>5 DEF StopRestoresBitrate, RatesOK, RestoredBitrate, historyVars
  <2>2. AppOK'
    BY <1>5 DEF StopRestoresBitrate, AppOK, sessionVars
  <2>3. HistoryOK' /\ QueueOK' /\ GraphOK' /\ ClientOK' /\ SamplerOK'
    BY <1>5 DEF StopRestoresBitrate, HistoryOK, QueueOK, GraphOK, ClientOK, SamplerOK, rateVars, sessionVars, historyVars
  <2>4. QED
    BY <2>1, <2>2, <2>3 DEF TypeOK
<1>6. CASE StopReportsState
  <2>1. AppOK'
    BY <1>6 DEF StopReportsState, AppOK, sessionVars
  <2>2. RatesOK' /\ HistoryOK' /\ QueueOK' /\ GraphOK' /\ ClientOK' /\ SamplerOK'
    BY <1>6 DEF StopReportsState, RatesOK, HistoryOK, QueueOK, GraphOK, ClientOK, SamplerOK, rateVars, sessionVars, historyVars
  <2>3. QED
    BY <2>1, <2>2 DEF TypeOK
<1>7. QED
  BY <1>1, <1>2, <1>3, <1>4, <1>5, <1>6 DEF AppStep

\* A step of the graph queue keeps the types.
LEMMA GraphTypeOK == TypeOK /\ GraphStep => TypeOK'
<1> SUFFICES ASSUME TypeOK, GraphStep PROVE TypeOK'
  OBVIOUS
<1> USE DEF TypeOK
<1>1. CASE GraphStart
  <2>1. QueueOK'
    BY <1>1, HeadIsBlock DEF GraphStart, QueueOK, NextBlock
  <2>2. GraphOK'
    BY <1>1, HeadIsBlock, BlockSession, ReleaseType DEF GraphStart, GraphOK, NextBlock, QueueOK
  <2>3. RatesOK' /\ HistoryOK' /\ AppOK' /\ ClientOK' /\ SamplerOK'
    BY <1>1, ZenonT(60) DEF GraphStart, RatesOK, HistoryOK, AppOK, ClientOK, SamplerOK, rateVars, sessionVars, historyVars
  <2>4. QED
    BY <2>1, <2>2, <2>3 DEF TypeOK
<1>2. CASE GraphExits
  <2>1. GraphOK'
    BY <1>2 DEF GraphExits, GraphOK, MarkedExiting, GraphType
  <2>2. RatesOK' /\ HistoryOK' /\ AppOK' /\ QueueOK' /\ ClientOK' /\ SamplerOK'
    BY <1>2, ZenonT(60) DEF GraphExits, RatesOK, HistoryOK, AppOK, QueueOK, ClientOK, SamplerOK, rateVars, sessionVars, historyVars
  <2>3. QED
    BY <2>1, <2>2 DEF TypeOK
<1>3. CASE GraphJoin
  <2>1. GraphOK'
    BY <1>3, IdleTypes DEF GraphJoin, GraphOK
  <2>2. SamplerOK'
    BY <1>3, IdleTypes DEF GraphJoin, SamplerOK, SamplerType
  <2>3. RatesOK' /\ HistoryOK' /\ AppOK' /\ QueueOK' /\ ClientOK'
    BY <1>3, ZenonT(60) DEF GraphJoin, RatesOK, HistoryOK, AppOK, QueueOK, ClientOK, rateVars, sessionVars, historyVars
  <2>4. QED
    BY <2>1, <2>2, <2>3 DEF TypeOK
<1>4. CASE GraphLoadBitrate
  <2>1. GraphOK'
    BY <1>4 DEF GraphLoadBitrate, GraphOK, GraphType, sessionVars, RatesOK
  <2>2. RatesOK' /\ HistoryOK' /\ AppOK' /\ QueueOK' /\ ClientOK' /\ SamplerOK'
    BY <1>4, ZenonT(60) DEF GraphLoadBitrate, RatesOK, HistoryOK, AppOK, QueueOK, ClientOK, SamplerOK, rateVars, sessionVars, historyVars
  <2>3. QED
    BY <2>1, <2>2 DEF TypeOK
<1>5. CASE GraphStoreCeiling
  <2>1. RatesOK'
    BY <1>5 DEF GraphStoreCeiling, RatesOK, GraphType, GraphOK, historyVars
  <2>2. GraphOK'
    BY <1>5 DEF GraphStoreCeiling, GraphOK, GraphType, sessionVars
  <2>3. HistoryOK' /\ AppOK' /\ QueueOK' /\ ClientOK' /\ SamplerOK'
    BY <1>5 DEF GraphStoreCeiling, HistoryOK, AppOK, QueueOK, ClientOK, SamplerOK, rateVars, sessionVars, historyVars
  <2>4. QED
    BY <2>1, <2>2, <2>3 DEF TypeOK
<1>6. CASE GraphAdaptiveStart
  <2>1. RatesOK'
    BY <1>6, Rates DEF GraphAdaptiveStart, RatesOK, historyVars
  <2>2. GraphOK'
    BY <1>6, IdleTypes DEF GraphAdaptiveStart, GraphOK, Idle, sessionVars
  <2>3. HistoryOK' /\ AppOK' /\ QueueOK' /\ ClientOK' /\ SamplerOK'
    BY <1>6 DEF GraphAdaptiveStart, HistoryOK, AppOK, QueueOK, ClientOK, SamplerOK, rateVars, sessionVars, historyVars
  <2>4. QED
    BY <2>1, <2>2, <2>3 DEF TypeOK
<1>7. CASE GraphAddEncoders
  <2>1. QueueOK'
    BY <1>7, HeadIsBlock DEF GraphAddEncoders, QueueOK, NextBlock
  <2>2. GraphOK'
    BY <1>7 DEF GraphAddEncoders, GraphOK, EncoderType, sessionVars, RatesOK
  <2>3. RatesOK' /\ HistoryOK' /\ AppOK' /\ ClientOK' /\ SamplerOK'
    BY <1>7, ZenonT(60) DEF GraphAddEncoders, RatesOK, HistoryOK, AppOK, ClientOK, SamplerOK, rateVars, sessionVars, historyVars
  <2>4. QED
    BY <2>1, <2>2, <2>3 DEF TypeOK
<1>8. CASE GraphTeardown
  <2>1. QueueOK'
    BY <1>8, HeadIsBlock DEF GraphTeardown, QueueOK, NextBlock
  <2>2. GraphOK'
    BY <1>8, IdleTypes, ReleaseType DEF GraphTeardown, GraphOK, TornDownEncoder
  <2>3. RatesOK' /\ HistoryOK' /\ AppOK' /\ ClientOK' /\ SamplerOK'
    BY <1>8, ZenonT(60) DEF GraphTeardown, RatesOK, HistoryOK, AppOK, ClientOK, SamplerOK, rateVars, sessionVars, historyVars
  <2>4. QED
    BY <2>1, <2>2, <2>3 DEF TypeOK
<1>9. QED
  BY <1>1, <1>2, <1>3, <1>4, <1>5, <1>6, <1>7, <1>8 DEF GraphStep

\* A step of the state callback keeps the types.
LEMMA ClientTypeOK == TypeOK /\ ClientStep => TypeOK'
<1> SUFFICES ASSUME TypeOK, ClientStep PROVE TypeOK'
  OBVIOUS
<1> USE DEF TypeOK
<1>1. ASSUME NEW s \in Session, ClientConnected(s) PROVE TypeOK'
  <2>1. AppOK'
    BY <1>1 DEF ClientConnected, AppOK
  <2>2. ClientOK'
    BY <1>1 DEF ClientConnected, ClientOK
  <2>3. RatesOK' /\ HistoryOK' /\ QueueOK' /\ GraphOK' /\ SamplerOK'
    BY <1>1 DEF ClientConnected, RatesOK, HistoryOK, QueueOK, GraphOK, SamplerOK, rateVars, sessionVars, historyVars
  <2>4. QED
    BY <2>1, <2>2, <2>3 DEF TypeOK
<1>2. ASSUME NEW s \in Session, ClientStarted(s) PROVE TypeOK'
  <2>1. HistoryOK'
    BY <1>2 DEF ClientStarted, HistoryOK
  <2>2. QueueOK'
    BY <1>2, BlockTypes, AppendedBlock DEF ClientStarted, QueueOK
  <2>3. ClientOK'
    BY <1>2 DEF ClientStarted, ClientOK
  <2>4. RatesOK' /\ AppOK' /\ GraphOK' /\ SamplerOK'
    BY <1>2 DEF ClientStarted, RatesOK, AppOK, GraphOK, SamplerOK, rateVars, sessionVars, historyVars
  <2>5. QED
    BY <2>1, <2>2, <2>3, <2>4 DEF TypeOK
<1>3. ASSUME NEW s \in Session, ClientReportsStarted(s) PROVE TypeOK'
  <2>1. AppOK'
    BY <1>3 DEF ClientReportsStarted, AppOK
  <2>2. ClientOK'
    BY <1>3 DEF ClientReportsStarted, ClientOK
  <2>3. SamplerOK'
    BY <1>3 DEF ClientReportsStarted, SamplerOK, SamplerType
  <2>4. RatesOK' /\ HistoryOK' /\ QueueOK' /\ GraphOK'
    BY <1>3 DEF ClientReportsStarted, RatesOK, HistoryOK, QueueOK, GraphOK, rateVars, sessionVars, historyVars
  <2>5. QED
    BY <2>1, <2>2, <2>3, <2>4 DEF TypeOK
<1>4. ASSUME NEW s \in Session, NEW r \in {"Ended", "Error"}, ClientStops(s, r) PROVE TypeOK'
  <2>1. AppOK'
    BY <1>4 DEF ClientStops, AppOK, sessionVars
  <2>2. RatesOK' /\ HistoryOK' /\ QueueOK' /\ GraphOK' /\ ClientOK' /\ SamplerOK'
    BY <1>4 DEF ClientStops, RatesOK, HistoryOK, QueueOK, GraphOK, ClientOK, SamplerOK, rateVars, sessionVars, historyVars
  <2>3. QED
    BY <2>1, <2>2 DEF TypeOK
<1>5. QED
  BY <1>1, <1>2, <1>3, <1>4 DEF ClientStep

\* Under any ceiling the ladder gives a rate.
LEMMA LadderType ==
    ASSUME NEW br \in Nat, NEW vector \in {-1, 1}, NEW top \in Nat
    PROVE  Adapted(br, vector, top) \in Nat
<1>1. CASE br > 1152000
  BY <1>1, SMT DEF Adapted, Rung, LowerOf, HigherOf, kMinVideoBitrate
<1>2. CASE br > 512000 /\ br <= 1152000
  BY <1>2, SMT DEF Adapted, Rung, LowerOf, HigherOf, kMinVideoBitrate
<1>3. CASE br > 128000 /\ br <= 512000
  BY <1>3, SMT DEF Adapted, Rung, LowerOf, HigherOf, kMinVideoBitrate
<1>4. CASE br <= 128000
  BY <1>4, SMT DEF Adapted, Rung, LowerOf, HigherOf, kMinVideoBitrate
<1>5. QED
  BY <1>1, <1>2, <1>3, <1>4, SMT

\* A step of the bandwidth callback keeps the types.
LEMMA SamplerTypeOK == TypeOK /\ SamplerStep => TypeOK'
<1> SUFFICES ASSUME TypeOK, SamplerStep PROVE TypeOK'
  OBVIOUS
<1> USE DEF TypeOK
<1>1. ASSUME NEW s \in Session, NEW v \in {-1, 1}, BandwidthAdapts(s, v) PROVE TypeOK'
  <2>1. GraphOK'
    BY <1>1, LadderType DEF BandwidthAdapts, GraphOK, EncoderType, RatesOK, sessionVars
  <2>2. SamplerOK'
    BY <1>1, LadderType, ZenonT(60) DEF BandwidthAdapts, SamplerOK, GraphOK, EncoderType, RatesOK, RateForLimit, SamplerType, sessionVars
  <2>3. RatesOK' /\ HistoryOK' /\ AppOK' /\ QueueOK' /\ ClientOK'
    BY <1>1 DEF BandwidthAdapts, RatesOK, HistoryOK, AppOK, QueueOK, ClientOK, rateVars, sessionVars, historyVars
  <2>4. QED
    BY <2>1, <2>2, <2>3 DEF TypeOK
<1>2. ASSUME NEW s \in Session, BandwidthTakesSession(s) PROVE TypeOK'
  <2>1. ClientOK'
    BY <1>2 DEF BandwidthTakesSession, ClientOK, sessionVars
  <2>2. SamplerOK'
    <3>1. CASE output = None
      BY <1>2, <3>1 DEF BandwidthTakesSession, SamplerOK, sessionVars
    <3>2. CASE output # None
      BY <1>2, <3>2 DEF BandwidthTakesSession, SamplerOK, GraphOK, SamplerType, sessionVars
    <3>3. QED
      BY <3>1, <3>2
  <2>3. RatesOK' /\ HistoryOK' /\ AppOK' /\ QueueOK' /\ GraphOK'
    BY <1>2, ZenonT(60) DEF BandwidthTakesSession, RatesOK, HistoryOK, AppOK, QueueOK, GraphOK, rateVars, sessionVars, historyVars
  <2>4. QED
    BY <2>1, <2>2, <2>3 DEF TypeOK
<1>3. ASSUME NEW s \in Session, BandwidthSetsLimit(s) PROVE TypeOK'
  <2>1. ClientOK'
    BY <1>3 DEF BandwidthSetsLimit, ClientOK
  <2>2. SamplerOK'
    BY <1>3, Rates DEF BandwidthSetsLimit, SamplerOK, SamplerType
  <2>3. RatesOK' /\ HistoryOK' /\ AppOK' /\ QueueOK' /\ GraphOK'
    BY <1>3, ZenonT(60) DEF BandwidthSetsLimit, RatesOK, HistoryOK, AppOK, QueueOK, GraphOK, rateVars, sessionVars, historyVars
  <2>4. QED
    BY <2>1, <2>2, <2>3 DEF TypeOK
<1>4. QED
  BY <1>1, <1>2, <1>3 DEF SamplerStep

\* Every reachable state of the session object is well typed.
THEOREM TypeCorrect == Spec => []TypeOK
<1>1. TypeOK /\ [Next]_vars => TypeOK'
  <2> SUFFICES ASSUME TypeOK, [Next]_vars PROVE TypeOK'
    OBVIOUS
  <2>1. CASE UNCHANGED vars
    <3>1. RatesOK' /\ HistoryOK'
      BY <2>1 DEF vars, TypeOK, RatesOK, HistoryOK
    <3>2. AppOK' /\ QueueOK' /\ ClientOK'
      BY <2>1 DEF vars, TypeOK, AppOK, QueueOK, ClientOK
    <3>3. GraphOK' /\ SamplerOK'
      BY <2>1 DEF vars, TypeOK, GraphOK, SamplerOK
    <3>4. QED
      BY <3>1, <3>2, <3>3 DEF TypeOK
  <2>2. QED
    BY <2>1, AppTypeOK, GraphTypeOK, ClientTypeOK, SamplerTypeOK DEF Next
<1>2. QED
  BY InitTypeOK, <1>1, PTL DEF Spec

-----------------------------------------------------------------------------
(* The requested bit rate is kept. *)

\* The graph queue is inside a start block that has not yet written _bitrate.
Starting == graph.pc \in {"join start", "load", "ceiling", "rate"}

IsStart(i) == queue[i].op = "start"

\* While the application is undisturbed at most one start block is pending, and
\* where the request is depends on how far that block has come.
OneStart ==
    /\ \A i, j \in 1..Len(queue) : IsStart(i) /\ IsStart(j) => i = j
    /\ \A i \in 1..Len(queue) : IsStart(i) => ~Starting /\ live

RequestInv ==
    ~disturbed =>
      /\ OneStart
      /\ Starting => live
      /\ live => app = "idle"
      /\ live /\ (Queued("start") \/ graph.pc \in {"join start", "load"}) => bitrate = request
      /\ live /\ graph.pc = "ceiling" => graph.rate = request
      /\ live /\ ~Queued("start") /\ graph.pc \notin {"join start", "load", "ceiling"} =>
           ceiling = request
      /\ ~live /\ app \in {"pause", "end"} => ceiling = request
      /\ ~live /\ app \notin {"pause", "end"} => bitrate = request

requestVars == <<bitrate, ceiling, app, queue, graph, request, live, disturbed>>

\* Queueing a block that is no start block pends no start.
LEMMA AppendOther ==
    ASSUME queue \in Seq(Block), NEW b \in Block, b.op # "start",
           queue' = Append(queue, b), graph' = graph
    PROVE  /\ Queued("start")' <=> Queued("start")
           /\ Starting' <=> Starting
           /\ OneStart /\ live' = live => OneStart'
<1>1. /\ Len(queue') = Len(queue) + 1 /\ Len(queue) \in Nat
      /\ \A i \in 1..Len(queue) : queue'[i] = queue[i]
      /\ queue'[Len(queue) + 1] = b
  BY AppendedBlock
<1>2. \A i \in 1..Len(queue') : IsStart(i)' => i \in 1..Len(queue) /\ IsStart(i)
  BY <1>1 DEF IsStart
<1>3. \A i \in 1..Len(queue) : i \in 1..Len(queue') /\ (IsStart(i) => IsStart(i)')
  BY <1>1 DEF IsStart
<1>4. Starting' <=> Starting
  BY DEF Starting
<1>5. Queued("start")' <=> Queued("start")
  BY <1>2, <1>3 DEF Queued, IsStart
<1>6. OneStart /\ live' = live => OneStart'
  BY <1>2, <1>4 DEF OneStart
<1>7. QED
  BY <1>4, <1>5, <1>6

\* Taking a block that is no start block from the queue leaves a pending one.
LEMMA TakeOther ==
    ASSUME queue \in Seq(Block), queue # <<>>, Head(queue).op # "start",
           queue' = Tail(queue), ~Starting, ~Starting'
    PROVE  /\ Queued("start")' <=> Queued("start")
           /\ OneStart /\ live' = live => OneStart'
<1>1. /\ Len(queue') = Len(queue) - 1 /\ Len(queue) \in Nat \ {0}
      /\ \A i \in 1..Len(queue') : queue'[i] = queue[i + 1]
      /\ queue[1] = Head(queue)
  BY HeadIsBlock
<1>2. \A i \in 1..Len(queue') : i + 1 \in 1..Len(queue) /\ (IsStart(i)' <=> IsStart(i + 1))
  BY <1>1 DEF IsStart
<1>3. \A i \in 1..Len(queue) : IsStart(i) => i # 1 /\ i - 1 \in 1..Len(queue') /\ i = (i - 1) + 1
  BY <1>1 DEF IsStart
<1>4. Queued("start")' <=> Queued("start")
  BY <1>2, <1>3 DEF Queued, IsStart
<1>5. OneStart /\ live' = live => OneStart'
  <2> SUFFICES ASSUME OneStart, live' = live PROVE OneStart'
    OBVIOUS
  <2>1. ASSUME NEW i \in 1..Len(queue'), NEW j \in 1..Len(queue'), IsStart(i)', IsStart(j)'
        PROVE  i = j
    <3>1. i + 1 = j + 1
      BY <1>2, <2>1 DEF OneStart
    <3>2. QED
      BY <1>1, <3>1
  <2>2. ASSUME NEW i \in 1..Len(queue'), IsStart(i)' PROVE ~Starting' /\ live'
    BY <1>2, <2>2 DEF OneStart
  <2>3. QED
    BY <2>1, <2>2 DEF OneStart
<1>6. QED
  BY <1>4, <1>5

\* With no start pending, OneStart holds.
LEMMA NoStart ==
    ASSUME ~StartPending
    PROVE  OneStart /\ ~Queued("start") /\ ~Starting
BY DEF StartPending, OneStart, Queued, IsStart, Starting

\* Whoever leaves rates, queue and calls alone keeps the request.
LEMMA RequestFrame == RequestInv /\ UNCHANGED requestVars => RequestInv'
<1> SUFFICES ASSUME RequestInv, UNCHANGED requestVars PROVE RequestInv'
  OBVIOUS
<1>1. UNCHANGED <<bitrate, ceiling, app, queue, graph, request, live, disturbed>>
  BY DEF requestVars
<1>2. Starting' <=> Starting
  BY <1>1 DEF Starting
<1>3. Queued("start")' <=> Queued("start")
  BY <1>1 DEF Queued
<1>4. OneStart => OneStart'
  BY <1>1, <1>2 DEF OneStart, IsStart
<1>5. QED
  BY <1>1, <1>2, <1>3, <1>4 DEF RequestInv

\* The application keeps the request, or is disturbed.
LEMMA AppKeepsRequest == TypeOK /\ RequestInv /\ AppStep => RequestInv'
<1> SUFFICES ASSUME TypeOK, RequestInv, AppStep PROVE RequestInv'
  OBVIOUS
<1>0. queue \in Seq(Block) /\ Len(queue) \in Nat
  BY LenProperties DEF TypeOK, QueueOK
<1>1. ASSUME NEW b \in Bitrates, SetBitrate(b) PROVE RequestInv'
  <2>1. CASE live \/ StartPending
    BY <1>1, <2>1 DEF SetBitrate, RequestInv
  <2>2. CASE ~live /\ ~StartPending
    <3>1. /\ UNCHANGED <<queue, graph, live, app>>
          /\ app = "idle" /\ bitrate' = b /\ request' = b
      BY <1>1 DEF SetBitrate, Call
    <3>2. OneStart' /\ ~Queued("start")' /\ ~Starting'
      BY <2>2, <3>1, NoStart DEF OneStart, IsStart, Queued, Starting
    <3>3. QED
      BY <2>2, <3>1, <3>2 DEF RequestInv
  <2>3. QED
    BY <2>1, <2>2
<1>2. ASSUME NEW on \in BOOLEAN, SetUseAdaptiveBitrate(on) PROVE RequestInv'
  <2>1. CASE disturbed \/ live \/ StartPending
    BY <1>2, <2>1 DEF SetUseAdaptiveBitrate, RequestInv
  <2>2. CASE ~disturbed /\ ~live /\ ~StartPending
    <3>1. /\ UNCHANGED <<queue, graph, live, app, bitrate, request>>
          /\ app = "idle"
      BY <1>2 DEF SetUseAdaptiveBitrate, Call
    <3>2. OneStart' /\ ~Queued("start")' /\ ~Starting'
      BY <2>2, <3>1, NoStart DEF OneStart, IsStart, Queued, Starting
    <3>3. bitrate = request
      BY <2>2, <3>1 DEF RequestInv
    <3>4. QED
      BY <2>2, <3>1, <3>2, <3>3 DEF RequestInv
  <2>3. QED
    BY <2>1, <2>2
<1>3. CASE StartRtmpSession
  <2>1. CASE disturbed \/ live
    BY <1>3, <2>1 DEF StartRtmpSession, RequestInv
  <2>2. CASE ~disturbed /\ ~live
    <3>1. /\ UNCHANGED <<graph, app, bitrate, request>>
          /\ app = "idle" /\ live'
          /\ queue' = Append(queue, [op |-> "start", for |-> made + 1])
          /\ [op |-> "start", for |-> made + 1] \in Block
      BY <1>3, NewSession, BlockTypes DEF StartRtmpSession, Call, rateVars
    <3>2. /\ \A i \in 1..Len(queue) : ~IsStart(i)
          /\ ~Starting
          /\ bitrate = request
      BY <2>2, <3>1 DEF RequestInv, OneStart
    <3>3. /\ Len(queue') = Len(queue) + 1
          /\ \A i \in 1..Len(queue) : queue'[i] = queue[i]
          /\ queue'[Len(queue) + 1].op = "start"
      BY <1>0, <3>1, AppendedBlock
    <3>4. \A i \in 1..Len(queue') : IsStart(i)' <=> i = Len(queue) + 1
      BY <1>0, <3>2, <3>3 DEF IsStart
    <3>5. ~Starting' /\ graph' = graph
      BY <3>1, <3>2 DEF Starting
    <3>6. OneStart'
      BY <3>1, <3>4, <3>5 DEF OneStart
    <3>7. Queued("start")'
      BY <1>0, <3>3 DEF Queued
    <3>8. graph.pc # "ceiling"
      BY <3>2 DEF Starting
    <3>9. QED
      BY <3>1, <3>2, <3>5, <3>6, <3>7, <3>8 DEF RequestInv
  <2>3. QED
    BY <2>1, <2>2
<1>4. ASSUME NEW call \in {"pause", "end"}, StopRtmpSession(call) PROVE RequestInv'
  <2>1. CASE disturbed \/ StartPending \/ ~live
    BY <1>4, <2>1 DEF StopRtmpSession, RequestInv
  <2>2. CASE ~disturbed /\ ~StartPending /\ live
    <3>1. /\ UNCHANGED <<graph, ceiling, request>> /\ ~live' /\ app' \in {"pause", "end"}
          /\ queue' = Append(queue, [op |-> "teardown", for |-> None])
      BY <1>4 DEF StopRtmpSession, rateVars
    <3>2. ~Queued("start")' /\ ~Starting'
      BY <1>0, <2>2, <3>1, NoStart, AppendOther, BlockTypes
    <3>3. OneStart'
      BY <3>2 DEF OneStart, Queued, IsStart
    <3>4. ceiling = request
      BY <2>2, NoStart DEF RequestInv, Starting
    <3>5. QED
      BY <3>1, <3>2, <3>3, <3>4 DEF RequestInv
  <2>3. QED
    BY <2>1, <2>2
<1>5. CASE StopRestoresBitrate
  <2>1. /\ UNCHANGED <<ceiling, queue, graph, request, live, disturbed>>
        /\ app \in {"pause", "end"} /\ app' \in {"Paused", "Ended"} /\ bitrate' = ceiling
    BY <1>5 DEF StopRestoresBitrate, RestoredBitrate, historyVars
  <2>2. (OneStart <=> OneStart') /\ (Starting <=> Starting')
    BY <2>1 DEF OneStart, IsStart, Starting
  <2>3. ~disturbed => ~live
    BY <2>1 DEF RequestInv
  <2>4. QED
    BY <2>1, <2>2, <2>3 DEF RequestInv
<1>6. CASE StopReportsState
  <2>1. /\ UNCHANGED <<bitrate, ceiling, queue, graph, request, live, disturbed>>
        /\ app \in {"Paused", "Ended"} /\ app' = "idle"
    BY <1>6 DEF StopReportsState, rateVars, historyVars
  <2>2. (OneStart <=> OneStart') /\ (Starting <=> Starting')
    BY <2>1 DEF OneStart, IsStart, Starting
  <2>3. ~disturbed => ~live
    BY <2>1 DEF RequestInv
  <2>4. QED
    BY <2>1, <2>2, <2>3 DEF RequestInv
<1>7. QED
  BY <1>1, <1>2, <1>3, <1>4, <1>5, <1>6 DEF AppStep

\* The graph queue carries the request from _bitrate to the ceiling.
LEMMA GraphKeepsRequest == TypeOK /\ RequestInv /\ GraphStep => RequestInv'
<1> SUFFICES ASSUME TypeOK, RequestInv, GraphStep PROVE RequestInv'
  OBVIOUS
<1>0. queue \in Seq(Block) /\ Len(queue) \in Nat
  BY LenProperties DEF TypeOK, QueueOK
<1>1. CASE GraphStart
  <2>1. /\ queue # <<>> /\ Head(queue).op = "start" /\ queue' = Tail(queue)
        /\ UNCHANGED <<bitrate, ceiling, app, request, live, disturbed>>
        /\ graph' = ReleaseThen("join start", "load")
    BY <1>1 DEF GraphStart, NextBlock, rateVars, historyVars
  <2>2. graph'.pc \in {"join start", "load"}
    BY <2>1 DEF ReleaseThen, At
  <2>3. /\ Len(queue') = Len(queue) - 1 /\ Len(queue) \in Nat \ {0}
        /\ \A i \in 1..Len(queue') : queue'[i] = queue[i + 1]
        /\ queue[1] = Head(queue)
    BY <1>0, <2>1, HeadIsBlock
  <2>4. IsStart(1) /\ 1 \in 1..Len(queue)
    <3>1. queue[1].op = "start"
      BY <2>1, <2>3, Zenon
    <3>2. QED
      BY <2>3, <3>1 DEF IsStart
  <2>5. \A i \in 1..Len(queue') : i + 1 \in 1..Len(queue) /\ i + 1 # 1 /\ (IsStart(i)' <=> IsStart(i + 1))
    BY <2>3 DEF IsStart
  <2>6. Queued("start")
    BY <2>4 DEF Queued, IsStart
  <2>7. CASE ~disturbed
    <3>1. \A i \in 1..Len(queue') : ~IsStart(i)'
      BY <2>4, <2>5, <2>7 DEF RequestInv, OneStart
    <3>2. OneStart' /\ ~Queued("start")'
      BY <3>1 DEF OneStart, Queued, IsStart
    <3>3. live /\ app = "idle" /\ bitrate = request
      BY <2>4, <2>6, <2>7 DEF RequestInv, OneStart
    <3>4. QED
      BY <2>1, <2>2, <3>2, <3>3 DEF RequestInv
  <2>8. QED
    BY <2>1, <2>7 DEF RequestInv
<1>2. CASE GraphExits
  BY <1>2, RequestFrame DEF GraphExits, requestVars, rateVars, historyVars
<1>3. CASE GraphJoin
  <2>1. /\ UNCHANGED <<bitrate, ceiling, app, queue, request, live, disturbed>>
        /\ \/ graph.pc = "join start" /\ graph'.pc = "load"
           \/ graph.pc = "join teardown" /\ graph'.pc = "idle"
    BY <1>3 DEF GraphJoin, At, rateVars, historyVars
  <2>2. (Queued("start")' <=> Queued("start")) /\ (Starting' <=> Starting)
    <3>1. Queued("start")' <=> Queued("start")
      BY <2>1 DEF Queued
    <3>2. Starting' <=> Starting
      BY <2>1 DEF Starting
    <3>3. QED
      BY <3>1, <3>2
  <2>3. OneStart => OneStart'
    BY <2>1, <2>2 DEF OneStart, IsStart
  <2>4. QED
    BY <2>1, <2>2, <2>3 DEF RequestInv
<1>4. CASE GraphLoadBitrate
  <2>1. /\ UNCHANGED <<bitrate, ceiling, app, queue, request, live, disturbed>>
        /\ graph.pc = "load" /\ graph'.pc = "ceiling" /\ graph'.rate = bitrate
    BY <1>4 DEF GraphLoadBitrate, TypeOK, GraphOK, GraphType, rateVars, historyVars
  <2>2. (Queued("start")' <=> Queued("start")) /\ Starting /\ Starting'
    BY <2>1 DEF Queued, Starting
  <2>3. (OneStart => OneStart') /\ (OneStart => ~Queued("start"))
    BY <2>1, <2>2 DEF OneStart, IsStart, Queued
  <2>4. QED
    BY <2>1, <2>2, <2>3 DEF RequestInv
<1>5. CASE GraphStoreCeiling
  <2>1. /\ UNCHANGED <<bitrate, app, queue, request, live, disturbed>>
        /\ graph.pc = "ceiling" /\ graph'.pc = "rate" /\ ceiling' = graph.rate
    BY <1>5 DEF GraphStoreCeiling, TypeOK, GraphOK, GraphType, historyVars
  <2>2. (Queued("start")' <=> Queued("start")) /\ Starting /\ Starting'
    BY <2>1 DEF Queued, Starting
  <2>3. (OneStart => OneStart') /\ (OneStart => ~Queued("start"))
    BY <2>1, <2>2 DEF OneStart, IsStart, Queued
  <2>4. QED
    BY <2>1, <2>2, <2>3 DEF RequestInv
<1>6. CASE GraphAdaptiveStart
  <2>1. /\ UNCHANGED <<ceiling, app, queue, request, live, disturbed>>
        /\ graph.pc = "rate" /\ graph'.pc = "idle"
    BY <1>6 DEF GraphAdaptiveStart, Idle, At, historyVars
  <2>2. (Queued("start")' <=> Queued("start")) /\ Starting /\ ~Starting'
    BY <2>1 DEF Queued, Starting
  <2>3. (OneStart => OneStart') /\ (OneStart => ~Queued("start"))
    BY <2>1, <2>2 DEF OneStart, IsStart, Queued
  <2>4. QED
    BY <2>1, <2>2, <2>3 DEF RequestInv
<1>7. ASSUME \E op \in {"add", "teardown"} : NextBlock(op),
             UNCHANGED <<bitrate, ceiling, app, request, live, disturbed>>,
             graph'.pc \in {"idle", "join teardown"}
      PROVE  RequestInv'
  <2>1. /\ graph.pc = "idle" /\ queue # <<>> /\ queue' = Tail(queue)
        /\ Head(queue).op # "start"
    BY <1>7 DEF NextBlock
  <2>2. ~Starting /\ ~Starting'
    BY <1>7, <2>1 DEF Starting
  <2>3. (Queued("start")' <=> Queued("start")) /\ (OneStart => OneStart')
    BY <1>0, <1>7, <2>1, <2>2, TakeOther
  <2>4. QED
    BY <1>7, <2>1, <2>2, <2>3 DEF RequestInv
<1>8. CASE GraphAddEncoders
  <2>1. NextBlock("add") /\ graph'.pc = "idle"
    BY <1>8 DEF GraphAddEncoders, NextBlock
  <2>2. QED
    BY <1>7, <1>8, <2>1 DEF GraphAddEncoders, rateVars, historyVars
<1>9. CASE GraphTeardown
  <2>1. NextBlock("teardown") /\ graph'.pc \in {"idle", "join teardown"}
    BY <1>9 DEF GraphTeardown, ReleaseThen, At
  <2>2. QED
    BY <1>7, <1>9, <2>1 DEF GraphTeardown, rateVars, historyVars
<1>10. QED
  BY <1>1, <1>2, <1>3, <1>4, <1>5, <1>6, <1>8, <1>9 DEF GraphStep

\* The callbacks of a session do not touch the request.
LEMMA CallbacksKeepRequest == TypeOK /\ RequestInv /\ (ClientStep \/ SamplerStep) => RequestInv'
<1> SUFFICES ASSUME TypeOK, RequestInv, ClientStep \/ SamplerStep PROVE RequestInv'
  OBVIOUS
<1>0. queue \in Seq(Block)
  BY DEF TypeOK, QueueOK
<1>1. ASSUME NEW s \in Session, ClientStarted(s) PROVE RequestInv'
  <2>1. /\ UNCHANGED <<bitrate, ceiling, app, graph, request, live, disturbed>>
        /\ queue' = Append(queue, [op |-> "add", for |-> s])
    BY <1>1 DEF ClientStarted, rateVars
  <2>2. /\ Queued("start")' <=> Queued("start")
        /\ Starting' <=> Starting
        /\ OneStart => OneStart'
    BY <1>0, <2>1, AppendOther, BlockTypes
  <2>3. QED
    BY <2>1, <2>2 DEF RequestInv
<1>2. ASSUME NEW s \in Session,
             \/ ClientConnected(s) \/ ClientReportsStarted(s)
             \/ ClientStops(s, "Ended") \/ ClientStops(s, "Error")
      PROVE  RequestInv'
  BY <1>2, RequestFrame
  DEF ClientConnected, ClientReportsStarted, ClientStops, requestVars, rateVars, historyVars
<1>3. CASE SamplerStep
  BY <1>3, RequestFrame
  DEF SamplerStep, BandwidthAdapts, BandwidthTakesSession, BandwidthSetsLimit, requestVars,
      rateVars, historyVars
<1>4. QED
  BY <1>1, <1>2, <1>3 DEF ClientStep

\* The bit rate the application asked for survives its sessions, for any
\* number of calls and sessions: it is in _bitrate between sessions, travels
\* through the start block, and is in _bpsCeiling until the stop writes it back.
THEOREM RequestIsKept == Spec => []RequestKept
<1>1. Init => RequestInv
  BY DEF Init, RequestInv, OneStart, IsStart, Starting, Idle, At, Queued
<1>2. TypeOK /\ RequestInv /\ [Next]_vars => RequestInv'
  <2> SUFFICES ASSUME TypeOK, RequestInv, [Next]_vars PROVE RequestInv'
    OBVIOUS
  <2>1. CASE UNCHANGED vars
    BY <2>1, RequestFrame DEF vars, requestVars
  <2>2. QED
    BY <2>1, AppKeepsRequest, GraphKeepsRequest, CallbacksKeepRequest DEF Next
<1>3. RequestInv => RequestKept
  BY NoStart DEF RequestInv, RequestKept, StartPending, Starting
<1>4. QED
  BY <1>1, <1>2, <1>3, TypeCorrect, PTL DEF Spec
-----------------------------------------------------------------------------
(* The ladder, as the callback climbs it. *)

\* Every move of the encoder's rate by the bandwidth callback follows the
\* throughput and stays between the floor and a ceiling above it.
THEOREM EncoderFollowsThroughput == Spec => EncoderMovesWithThroughput
<1>1. ASSUME TypeOK, NEW s \in Session, NEW v \in {-1, 1}, BandwidthAdapts(s, v),
             ceiling >= kMinVideoBitrate
      PROVE  /\ encoder'.rate \in kMinVideoBitrate..ceiling
             /\ v = 1 => encoder'.rate > encoder.rate \/ encoder'.rate = ceiling
             /\ v = -1 => encoder'.rate < encoder.rate \/ encoder'.rate = kMinVideoBitrate
  <2>1. encoder'.rate = Adapted(encoder.rate, v, ceiling)
    BY <1>1 DEF BandwidthAdapts, TypeOK, GraphOK, EncoderType
  <2>2. encoder.rate \in Nat /\ ceiling \in Nat \ {0}
    BY <1>1 DEF TypeOK, GraphOK, EncoderType, RatesOK, kMinVideoBitrate
  <2>3. Adapted(encoder.rate, v, ceiling) \in kMinVideoBitrate..ceiling
    BY <1>1, <2>2, LadderBounded
  <2>4. CASE v = 1
    BY <1>1, <2>1, <2>2, <2>3, <2>4, LadderMoves
  <2>5. CASE v = -1
    BY <1>1, <2>1, <2>2, <2>3, <2>5, LadderMoves
  <2> QED
    BY <2>4, <2>5
<1> DEFINE Moves == \A s \in Session, v \in {-1, 1} :
         BandwidthAdapts(s, v) /\ ceiling >= kMinVideoBitrate =>
           /\ encoder'.rate \in kMinVideoBitrate..ceiling
           /\ v = 1 => encoder'.rate > encoder.rate \/ encoder'.rate = ceiling
           /\ v = -1 => encoder'.rate < encoder.rate \/ encoder'.rate = kMinVideoBitrate
<1>2. TypeOK /\ [Next]_vars => [Moves]_vars
  BY <1>1
<1>3. [][Moves]_vars => EncoderMovesWithThroughput
  BY DEF EncoderMovesWithThroughput
<1> HIDE DEF Moves
<1> QED
  BY <1>2, <1>3, TypeCorrect, PTL DEF Spec

-----------------------------------------------------------------------------
(* Sessions, their numbers and their sampling threads. *)

Joining == graph.pc \in {"join start", "join teardown"}
Reference(s) == s \in {output, graph.old}

\* No one has heard of session t yet but the block that is to start it.
Fresh(t) ==
    /\ t <= made
    /\ output < t /\ graph.old < t /\ encoder.for < t
    /\ client[t] = "connecting"
    /\ \A s \in Session : sampler[s].target < t

\* Sessions are started in the order of their numbers.
StartsInOrder ==
    /\ \A i \in 1..Len(queue) : IsStart(i) => Fresh(queue[i].for)
    /\ \A i, j \in 1..Len(queue) : i < j /\ IsStart(i) /\ IsStart(j) => queue[i].for < queue[j].for

Numbered ==
    /\ output <= made /\ graph.old <= made /\ encoder.for <= made
    /\ \A s \in Session : /\ sampler[s].target <= made
                          /\ s > made => client[s] = "connecting"

\* What the graph queue holds on to in the middle of a block.
BlockPlace ==
    /\ graph.old # None <=> Joining
    /\ Starting => output # None
    /\ graph.pc = "join start" => encoder.for # output /\ graph.old # output
    /\ graph.pc = "join teardown" => output = None /\ encoder.status = "none"

\* A callback that has not taken m_outputSession yet belongs to a session that
\* still has an owner. One that has taken a session holds the current one only
\* if its own session has an owner, and its own if that is the current one.
CallbackPlace ==
    \A s \in Session :
      /\ client[s] # "started" => sampler[s] = Off
      /\ sampler[s].pc = "session" => Reference(s)
      /\ sampler[s].pc = "limit" <=> sampler[s].target # None
      /\ sampler[s].pc = "limit" /\ sampler[s].target = output => Reference(s)
      /\ sampler[s].pc = "limit" /\ s = output => sampler[s].target = s

SessionInv == StartsInOrder /\ Numbered /\ BlockPlace /\ CallbackPlace

sessionInvVars == <<queue, made, output, graph, encoder, sampler, client>>

\* The types the proofs about sessions need, in one place.
LEMMA SessionTypes ==
    ASSUME TypeOK
    PROVE  /\ queue \in Seq(Block) /\ Len(queue) \in Nat
           /\ made \in Nat /\ output \in Nat /\ graph.old \in Nat /\ encoder.for \in Nat
           /\ output \in Session \cup {None} /\ graph.old \in Session \cup {None}
           /\ encoder.for \in Session \cup {None}
           /\ sampler \in [Session -> SamplerType]
           /\ client \in [Session -> {"connecting", "connected", "starting", "started"}]
           /\ \A s \in Session : /\ s \in Nat \ {0} /\ s # None
                                 /\ sampler[s].target \in Session \cup {None}
                                 /\ sampler[s].target \in Nat
           /\ graph \in GraphType
<1>1. \A s \in Session \cup {None} : s \in Nat /\ (s \in Session => s # None /\ s \in Nat \ {0})
  BY SessionAssumption DEF Session, None
<1>2. queue \in Seq(Block) /\ Len(queue) \in Nat
  BY LenProperties DEF TypeOK, QueueOK
<1>3. made \in Nat
  BY SessionAssumption DEF TypeOK, AppOK
<1>4. output \in Session \cup {None} /\ graph.old \in Session \cup {None} /\ encoder.for \in Session \cup {None}
      /\ graph \in GraphType
  BY DEF TypeOK, GraphOK, GraphType, EncoderType
<1>5. /\ sampler \in [Session -> SamplerType]
      /\ client \in [Session -> {"connecting", "connected", "starting", "started"}]
      /\ \A s \in Session : sampler[s].target \in Session \cup {None}
  BY DEF TypeOK, ClientOK, SamplerOK, SamplerType
<1> QED
  BY <1>1, <1>2, <1>3, <1>4, <1>5

\* The first block of the queue, when it is a start block, and the rest.
LEMMA StartTaken ==
    ASSUME TypeOK, SessionInv, NextBlock("start")
    PROVE  /\ Head(queue).for \in Session /\ Fresh(Head(queue).for)
           /\ \A i \in 1..Len(queue') : IsStart(i)' =>
                /\ Fresh(queue'[i].for) /\ queue'[i].for \in Session
                /\ Head(queue).for < queue'[i].for
           /\ \A i, j \in 1..Len(queue') : i < j /\ IsStart(i)' /\ IsStart(j)' =>
                queue'[i].for < queue'[j].for
<1>1. queue \in Seq(Block) /\ queue # <<>> /\ queue' = Tail(queue) /\ Head(queue).op = "start"
  BY SessionTypes DEF NextBlock
<1>2. /\ Len(queue') = Len(queue) - 1 /\ Len(queue) \in Nat \ {0}
      /\ \A i \in 1..Len(queue') : queue'[i] = queue[i + 1]
      /\ queue[1] = Head(queue) /\ Head(queue) \in Block /\ queue' \in Seq(Block)
  BY <1>1, HeadIsBlock
<1>3. IsStart(1) /\ 1 \in 1..Len(queue)
  BY <1>1, <1>2 DEF IsStart
<1>4. \A i \in 1..Len(queue') : i + 1 \in 1..Len(queue) /\ 1 < i + 1 /\ (IsStart(i)' => IsStart(i + 1))
  BY <1>2 DEF IsStart
<1>5. \A i \in 1..Len(queue') : queue'[i] \in Block
  BY <1>2, ElementOfSeq
<1>6. ASSUME NEW i \in 1..Len(queue'), IsStart(i)'
      PROVE  /\ Fresh(queue'[i].for) /\ queue'[i].for \in Session
             /\ Head(queue).for < queue'[i].for
  <2>1. queue'[i].for \in Session
    BY <1>5, <1>6, BlockSession DEF IsStart
  <2>2. Fresh(queue[i + 1].for) /\ queue[1].for < queue[i + 1].for
    BY <1>3, <1>4, <1>6 DEF SessionInv, StartsInOrder
  <2> QED
    BY <1>2, <2>1, <2>2
<1>7. ASSUME NEW i \in 1..Len(queue'), NEW j \in 1..Len(queue'), i < j, IsStart(i)', IsStart(j)'
      PROVE  queue'[i].for < queue'[j].for
  <2>1. i + 1 < j + 1
    BY <1>2, <1>7
  <2>2. queue[i + 1].for < queue[j + 1].for
    BY <1>4, <1>7, <2>1 DEF SessionInv, StartsInOrder
  <2> QED
    BY <1>2, <2>2
<1>8. Head(queue).for \in Session /\ Fresh(Head(queue).for)
  BY <1>1, <1>2, <1>3, BlockSession DEF SessionInv, StartsInOrder
<1> QED
  BY <1>6, <1>7, <1>8

\* The blocks that remain, or come, when no start block comes or goes.
LEMMA OrderKept ==
    ASSUME TypeOK, StartsInOrder, \A t \in Session : Fresh(t) => Fresh(t)',
           \/ queue' = queue
           \/ \E b \in Block : b.op # "start" /\ queue' = Append(queue, b)
           \/ queue # <<>> /\ queue' = Tail(queue)
    PROVE  StartsInOrder'
<1>1. queue \in Seq(Block) /\ Len(queue) \in Nat
  BY SessionTypes
<1>2. ASSUME NEW i \in 1..Len(queue), IsStart(i) PROVE queue[i].for \in Session
  BY <1>1, <1>2, ElementOfSeq, BlockSession DEF IsStart
<1>3. \A i \in 1..Len(queue), t \in Session : IsStart(i) /\ queue[i].for = t => Fresh(t)'
  BY DEF StartsInOrder
<1> DEFINE Kept == \A i \in 1..Len(queue') : IsStart(i)' =>
                 \E k \in 1..Len(queue) :
                   /\ IsStart(k) /\ queue'[i] = queue[k]
                   /\ \A j \in 1..Len(queue') : i < j /\ IsStart(j)' => queue'[i].for < queue'[j].for
<1>7. ASSUME Kept PROVE StartsInOrder'
  <2>1. \A i \in 1..Len(queue'), t \in Session : IsStart(i)' /\ queue'[i].for = t => Fresh(t)'
    BY <1>3, <1>7
  <2>2. \A i \in 1..Len(queue') : IsStart(i)' => queue'[i].for \in Session
    BY <1>2, <1>7
  <2>3. \A i \in 1..Len(queue') : IsStart(i)' => Fresh(queue[i].for)'
    BY <2>1, <2>2 DEF Fresh
  <2> QED
    BY <1>7, <2>3 DEF StartsInOrder
<1>4. ASSUME queue' = queue PROVE Kept
  BY <1>4 DEF StartsInOrder, IsStart
<1>5. ASSUME NEW b \in Block, b.op # "start", queue' = Append(queue, b) PROVE Kept
  <2>1. /\ Len(queue') = Len(queue) + 1
        /\ \A i \in 1..Len(queue) : queue'[i] = queue[i]
        /\ queue'[Len(queue) + 1] = b
    BY <1>1, <1>5, AppendedBlock
  <2>2. \A i \in 1..Len(queue') : IsStart(i)' => i \in 1..Len(queue) /\ IsStart(i) /\ queue'[i] = queue[i]
    BY <1>1, <1>5, <2>1 DEF IsStart
  <2> QED
    BY <2>2 DEF StartsInOrder
<1>6. ASSUME queue # <<>>, queue' = Tail(queue) PROVE Kept
  <2>1. /\ Len(queue') = Len(queue) - 1 /\ Len(queue) \in Nat \ {0}
        /\ \A i \in 1..Len(queue') : queue'[i] = queue[i + 1]
    BY <1>1, <1>6, HeadIsBlock
  <2>2. \A i \in 1..Len(queue') : i + 1 \in 1..Len(queue) /\ (IsStart(i)' => IsStart(i + 1))
    BY <2>1 DEF IsStart
  <2>3. \A i, j \in 1..Len(queue') : i < j => i + 1 < j + 1
    BY <2>1
  <2>5. \A i, j \in 1..Len(queue') : i < j /\ IsStart(i)' /\ IsStart(j)' => queue'[i].for < queue'[j].for
    BY <2>1, <2>2, <2>3 DEF StartsInOrder
  <2> QED
    BY <2>1, <2>2, <2>5
<1> QED
  BY <1>7, <1>4, <1>5, <1>6

\* Whoever leaves the queue, the sessions and their users alone.
LEMMA SessionFrame == SessionInv /\ UNCHANGED sessionInvVars => SessionInv'
<1> SUFFICES ASSUME SessionInv, UNCHANGED sessionInvVars PROVE SessionInv'
  OBVIOUS
<1>1. UNCHANGED <<queue, made, output, graph, encoder, sampler, client>>
  BY DEF sessionInvVars
<1>2. StartsInOrder'
  BY <1>1 DEF SessionInv, StartsInOrder, IsStart, Fresh
<1>3. Numbered'
  BY <1>1 DEF SessionInv, Numbered
<1>4. BlockPlace'
  BY <1>1 DEF SessionInv, BlockPlace, Joining, Starting
<1>5. CallbackPlace'
  BY <1>1 DEF SessionInv, CallbackPlace, Reference
<1> QED
  BY <1>2, <1>3, <1>4, <1>5 DEF SessionInv

\* Calls of the application: a new session is numbered after all others.
LEMMA AppKeepsSessions == TypeOK /\ SessionInv /\ AppStep => SessionInv'
<1> SUFFICES ASSUME TypeOK, SessionInv, AppStep PROVE SessionInv'
  OBVIOUS
<1>1. ASSUME \/ \E b \in Bitrates : SetBitrate(b)
             \/ \E on \in BOOLEAN : SetUseAdaptiveBitrate(on)
             \/ StopRestoresBitrate \/ StopReportsState
      PROVE  SessionInv'
  <2>1. UNCHANGED sessionInvVars
    BY <1>1 DEF SetBitrate, SetUseAdaptiveBitrate, StopRestoresBitrate, StopReportsState,
                sessionInvVars, sessionVars
  <2> QED
    BY <2>1, SessionFrame
<1>2. CASE StartRtmpSession
  <2>1. /\ UNCHANGED <<output, graph, encoder, sampler, client>>
        /\ made' = made + 1 /\ made < MaxSessions
        /\ queue' = Append(queue, [op |-> "start", for |-> made + 1])
    BY <1>2 DEF StartRtmpSession
  <2>15. PICK n : n = made + 1
    OBVIOUS
  <2>2. n \in Session /\ made \in Nat /\ made < n /\ made' = n
    BY <2>1, <2>15, NewSession, SessionTypes
  <2>3. /\ Len(queue') = Len(queue) + 1 /\ Len(queue) \in Nat
        /\ \A i \in 1..Len(queue) : queue'[i] = queue[i]
        /\ queue'[Len(queue) + 1] = [op |-> "start", for |-> n]
    BY <2>1, <2>2, <2>15, SessionTypes, BlockTypes, AppendedBlock
  <2>4. \A i \in 1..Len(queue') :
          \/ i \in 1..Len(queue) /\ queue'[i] = queue[i] /\ (IsStart(i)' <=> IsStart(i))
          \/ i = Len(queue) + 1 /\ queue'[i].for = n
    BY <2>3 DEF IsStart
  <2>5. ASSUME NEW t \in Session, Fresh(t) PROVE Fresh(t)' /\ t < n
    BY <2>1, <2>2, <2>5, SessionTypes DEF Fresh, Session
  <2>6. Fresh(n)'
    BY <2>1, <2>2, SessionTypes DEF Fresh, SessionInv, Numbered
  <2>7. \A i \in 1..Len(queue) : IsStart(i) => queue[i].for \in Session
    BY SessionTypes, ElementOfSeq, BlockSession DEF IsStart
  <2>8. \A i \in 1..Len(queue'), t \in Session : IsStart(i)' /\ queue'[i].for = t => Fresh(t)'
    BY <2>4, <2>5, <2>6 DEF SessionInv, StartsInOrder
  <2>9. \A i \in 1..Len(queue') : IsStart(i)' => queue'[i].for \in Session
    BY <2>2, <2>4, <2>7
  <2>10. \A i \in 1..Len(queue') : IsStart(i)' => Fresh(queue[i].for)'
    BY <2>8, <2>9 DEF Fresh
  <2>11. \A i, j \in 1..Len(queue') : i < j /\ IsStart(i)' /\ IsStart(j)' => queue'[i].for < queue'[j].for
    <3> SUFFICES ASSUME NEW i \in 1..Len(queue'), NEW j \in 1..Len(queue'), i < j, IsStart(i)', IsStart(j)'
                 PROVE  queue'[i].for < queue'[j].for
      OBVIOUS
    <3>1. i \in 1..Len(queue) /\ queue'[i] = queue[i] /\ IsStart(i)
      BY <2>3, <2>4
    <3>2. CASE j \in 1..Len(queue) /\ queue'[j] = queue[j] /\ IsStart(j)
      BY <3>1, <3>2 DEF SessionInv, StartsInOrder
    <3>3. CASE queue'[j].for = n
      BY <2>5, <2>7, <3>1, <3>3 DEF SessionInv, StartsInOrder
    <3> QED
      BY <2>4, <3>2, <3>3
  <2>12. StartsInOrder'
    BY <2>10, <2>11 DEF StartsInOrder
  <2>13. Numbered'
    BY <2>1, <2>2, SessionTypes DEF SessionInv, Numbered, Session
  <2>14. BlockPlace' /\ CallbackPlace'
    BY <2>1 DEF SessionInv, BlockPlace, Joining, Starting, CallbackPlace, Reference
  <2> QED
    BY <2>12, <2>13, <2>14 DEF SessionInv
<1>3. ASSUME NEW call \in {"pause", "end"}, StopRtmpSession(call) PROVE SessionInv'
  <2>1. /\ UNCHANGED <<made, output, graph, encoder, sampler, client>>
        /\ queue' = Append(queue, [op |-> "teardown", for |-> None])
    BY <1>3 DEF StopRtmpSession, sessionVars
  <2>2. \A t \in Session : Fresh(t) => Fresh(t)'
    BY <2>1 DEF Fresh
  <2>3. StartsInOrder'
    BY <2>1, <2>2, BlockTypes, OrderKept DEF SessionInv
  <2>4. Numbered' /\ BlockPlace' /\ CallbackPlace'
    BY <2>1 DEF SessionInv, Numbered, BlockPlace, Joining, Starting, CallbackPlace, Reference
  <2> QED
    BY <2>3, <2>4 DEF SessionInv
<1> QED
  BY <1>1, <1>2, <1>3 DEF AppStep

\* The graph queue: a start block hands m_outputSession to a session that no
\* callback has heard of.
LEMMA StartKeepsSessions == TypeOK /\ SessionInv /\ GraphStart => SessionInv'
<1> SUFFICES ASSUME TypeOK, SessionInv, GraphStart PROVE SessionInv'
  OBVIOUS
<1>12. PICK n : n = Head(queue).for
  OBVIOUS
<1>1. /\ NextBlock("start") /\ graph.pc = "idle"
      /\ output' = n /\ graph' = ReleaseThen("join start", "load")
      /\ UNCHANGED <<made, encoder, sampler, client>>
  BY <1>12 DEF GraphStart, NextBlock
<1>2. /\ n \in Session /\ Fresh(n)
      /\ \A i \in 1..Len(queue') : IsStart(i)' =>
            Fresh(queue'[i].for) /\ queue'[i].for \in Session /\ n < queue'[i].for
      /\ \A i, j \in 1..Len(queue') : i < j /\ IsStart(i)' /\ IsStart(j)' =>
            queue'[i].for < queue'[j].for
  BY <1>1, <1>12, StartTaken
<1>3. graph.old = None /\ None \in Nat /\ None = 0
  BY <1>1 DEF SessionInv, BlockPlace, Joining, None
<1>4. /\ \/ graph'.pc = "load" /\ graph'.old = None
         \/ graph'.pc = "join start" /\ graph'.old = output
      /\ graph'.pc = "load" => output = None \/ \E s \in Session : sampler[s].target = output
      /\ graph'.pc = "join start" => output # None
  BY <1>1 DEF ReleaseThen, At
<1>5. output < n /\ encoder.for < n /\ n <= made /\ \A s \in Session : sampler[s].target < n
  BY <1>2 DEF Fresh
<1>6. n \in Nat \ {0} /\ n # None
  BY <1>2, SessionTypes
<1>7. ASSUME NEW t \in Session, Fresh(t), n < t PROVE Fresh(t)'
  BY <1>1, <1>3, <1>4, <1>7, SessionTypes DEF Fresh
<1>8. StartsInOrder'
  <2>1. \A i \in 1..Len(queue'), t \in Session : IsStart(i)' /\ queue'[i].for = t => Fresh(t)'
    BY <1>2, <1>7
  <2>2. \A i \in 1..Len(queue') : IsStart(i)' => Fresh(queue[i].for)'
    BY <1>2, <2>1 DEF Fresh
  <2> QED
    BY <1>2, <2>2 DEF StartsInOrder
<1>9. Numbered'
  <2>1. output' <= made' /\ graph'.old <= made'
    BY <1>1, <1>3, <1>4, <1>5, SessionTypes DEF SessionInv, Numbered
  <2> QED
    BY <1>1, <2>1 DEF SessionInv, Numbered
<1>10. BlockPlace'
  <2>1. graph'.old # None <=> Joining'
    BY <1>4 DEF Joining
  <2>3. \A x \in Nat : x < n => x # n
    BY <1>6
  <2>2. output' # None /\ encoder.for # n /\ output # n
    BY <1>1, <1>5, <1>6, <1>12, <2>3, SessionTypes, Zenon
  <2> QED
    BY <1>1, <1>4, <2>1, <2>2 DEF BlockPlace
<1>11. CallbackPlace'
  <2> SUFFICES ASSUME NEW s \in Session
               PROVE  /\ client[s] # "started" => sampler[s] = Off
                      /\ sampler[s].pc = "session" => s \in {n, graph'.old}
                      /\ sampler[s].pc = "limit" <=> sampler[s].target # None
                      /\ sampler[s].pc = "limit" /\ sampler[s].target = n => s \in {n, graph'.old}
                      /\ sampler[s].pc = "limit" /\ s = n => sampler[s].target = s
    BY <1>1 DEF CallbackPlace, Reference
  <2>1. (client[s] # "started" => sampler[s] = Off) /\ (sampler[s].pc = "limit" <=> sampler[s].target # None)
    BY DEF SessionInv, CallbackPlace
  <2>2. sampler[s].target # n
    BY <1>5, <1>6, SessionTypes
  <2>3. s = n => sampler[s].pc = "off"
    BY <1>2, <2>1 DEF Fresh, Off
  <2>4. ASSUME sampler[s].pc = "session" PROVE s = graph'.old
    <3>1. s = output /\ s # None
      BY <1>3, <2>4, SessionTypes DEF SessionInv, CallbackPlace, Reference
    <3>2. ASSUME NEW r \in Session, sampler[r].target = output PROVE FALSE
      <4>1. sampler[r].pc = "limit" /\ Reference(r)
        BY <3>1, <3>2 DEF SessionInv, CallbackPlace
      <4>2. r = s
        BY <1>3, <3>1, <4>1, SessionTypes DEF Reference
      <4> QED
        BY <2>4, <4>1, <4>2
    <3> QED
      BY <1>4, <3>1, <3>2
  <2> QED
    BY <2>1, <2>2, <2>3, <2>4
<1> QED
  BY <1>8, <1>9, <1>10, <1>11 DEF SessionInv

\* The other steps of the graph queue: a join leaves a session that no callback
\* runs for, a teardown takes the encoder and the session.
LEMMA GraphKeepsSessions == TypeOK /\ SessionInv /\ GraphStep => SessionInv'
<1> SUFFICES ASSUME TypeOK, SessionInv, GraphStep PROVE SessionInv'
  OBVIOUS
<1>0. None \in Nat /\ None = 0
  BY DEF None
<1>1. CASE GraphExits
  BY <1>1, SessionFrame DEF GraphExits, sessionInvVars
<1>2. CASE GraphLoadBitrate \/ GraphStoreCeiling \/ GraphAdaptiveStart
  <2>1. /\ UNCHANGED <<queue, made, output, encoder, sampler, client>>
        /\ ~Joining
    BY <1>2 DEF GraphLoadBitrate, GraphStoreCeiling, GraphAdaptiveStart, sessionVars, Joining
  <2>2. graph'.old = graph.old /\ ~Joining' /\ Starting
    <3>1. CASE GraphLoadBitrate
      BY <3>1, SessionTypes DEF GraphLoadBitrate, GraphType, Joining, Starting
    <3>2. CASE GraphStoreCeiling
      BY <3>2, SessionTypes DEF GraphStoreCeiling, GraphType, Joining, Starting
    <3>3. CASE GraphAdaptiveStart
      BY <2>1, <3>3 DEF GraphAdaptiveStart, Idle, At, Joining, Starting, SessionInv, BlockPlace
    <3> QED
      BY <1>2, <3>1, <3>2, <3>3
  <2>3. StartsInOrder' /\ Numbered' /\ CallbackPlace'
    BY <2>1, <2>2 DEF SessionInv, StartsInOrder, IsStart, Fresh, Numbered, CallbackPlace, Reference
  <2>4. BlockPlace'
    BY <2>1, <2>2 DEF SessionInv, BlockPlace, Joining
  <2> QED
    BY <2>3, <2>4 DEF SessionInv
<1>3. CASE GraphJoin
  <2>1. /\ UNCHANGED <<queue, made, output, encoder, client>>
        /\ Joining /\ graph'.old = None /\ graph'.pc \in {"load", "idle"}
        /\ graph'.pc = "load" => graph.pc = "join start"
        /\ sampler[graph.old].pc \in {"off", "waiting"}
        /\ sampler' = [sampler EXCEPT ![graph.old] = IF @.pc = "waiting" THEN Off ELSE @]
    BY <1>3 DEF GraphJoin, JoinReady, At, Joining
  <2>2. graph.old \in Session
    BY <2>1, SessionTypes DEF SessionInv, BlockPlace
  <2>3. \A s \in Session :
          \/ s # graph.old /\ sampler'[s] = sampler[s]
          \/ s = graph.old /\ sampler'[s] \in {sampler[s], Off}
    BY <2>1, <2>2, SessionTypes
  <2>4. Off.target = None /\ Off.pc = "off"
    BY DEF Off
  <2>5. sampler[graph.old].target = None
    BY <2>1, <2>2 DEF SessionInv, CallbackPlace
  <2>6. \A s \in Session : sampler'[s].target = sampler[s].target
    BY <2>3, <2>4, <2>5
  <2>7. ASSUME NEW t \in Session, Fresh(t) PROVE Fresh(t)'
    <3>1. None < t
      BY <1>0, SessionTypes
    <3> QED
      BY <2>1, <2>6, <2>7, <3>1 DEF Fresh
  <2>8. StartsInOrder'
    BY <2>1, <2>7, OrderKept DEF SessionInv
  <2>9. Numbered'
    <3>1. None <= made
      BY <1>0, SessionTypes
    <3> QED
      BY <2>1, <2>6, <3>1 DEF SessionInv, Numbered
  <2>10. BlockPlace'
    BY <2>1 DEF SessionInv, BlockPlace, Joining, Starting
  <2>11. CallbackPlace'
    <3> SUFFICES ASSUME NEW s \in Session
                 PROVE  /\ client[s] # "started" => sampler'[s] = Off
                        /\ sampler'[s].pc = "session" => s \in {output, None}
                        /\ sampler'[s].pc = "limit" <=> sampler'[s].target # None
                        /\ sampler'[s].pc = "limit" /\ sampler'[s].target = output => s \in {output, None}
                        /\ sampler'[s].pc = "limit" /\ s = output => sampler'[s].target = s
      BY <2>1 DEF CallbackPlace, Reference
    <3>1. CASE s # graph.old /\ sampler'[s] = sampler[s]
      BY <3>1 DEF SessionInv, CallbackPlace, Reference
    <3>2. CASE s = graph.old /\ sampler'[s] \in {sampler[s], Off}
      BY <2>1, <2>4, <2>5, <3>2 DEF SessionInv, CallbackPlace
    <3> QED
      BY <2>3, <3>1, <3>2
  <2> QED
    BY <2>8, <2>9, <2>10, <2>11 DEF SessionInv
<1>4. CASE GraphAddEncoders
  <2>1. /\ UNCHANGED <<made, output, graph, sampler, client>>
        /\ queue # <<>> /\ queue' = Tail(queue) /\ graph.pc = "idle"
        /\ encoder'.for = output
    BY <1>4 DEF GraphAddEncoders, NextBlock, sessionVars
  <2>2. \A t \in Session : Fresh(t) => Fresh(t)'
    BY <2>1 DEF Fresh
  <2>3. StartsInOrder'
    BY <2>1, <2>2, OrderKept DEF SessionInv
  <2>4. Numbered' /\ BlockPlace' /\ CallbackPlace'
    BY <2>1 DEF SessionInv, Numbered, BlockPlace, Joining, Starting, CallbackPlace, Reference
  <2> QED
    BY <2>3, <2>4 DEF SessionInv
<1>5. CASE GraphTeardown
  <2>1. /\ UNCHANGED <<made, sampler, client>>
        /\ queue # <<>> /\ queue' = Tail(queue) /\ graph.pc = "idle"
        /\ encoder'.for = None /\ encoder'.status = "none"
        /\ output' = None /\ graph' = ReleaseThen("join teardown", "idle")
    BY <1>5 DEF GraphTeardown, NextBlock, TornDownEncoder, NoEncoder
  <2>2. /\ \/ graph'.pc = "idle" /\ graph'.old = None
           \/ graph'.pc = "join teardown" /\ graph'.old = output
        /\ graph'.pc = "idle" => output = None \/ \E s \in Session : sampler[s].target = output
        /\ graph'.pc = "join teardown" => output # None
    BY <2>1 DEF ReleaseThen, At
  <2>3. graph.old = None
    BY <2>1 DEF SessionInv, BlockPlace, Joining
  <2>4. ASSUME NEW t \in Session, Fresh(t) PROVE Fresh(t)'
    <3>1. None < t
      BY <1>0, SessionTypes
    <3> QED
      BY <2>1, <2>2, <2>3, <2>4, <3>1 DEF Fresh
  <2>5. StartsInOrder'
    BY <2>1, <2>4, OrderKept DEF SessionInv
  <2>6. Numbered'
    <3>1. None <= made
      BY <1>0, SessionTypes
    <3> QED
      BY <2>1, <2>2, <3>1 DEF SessionInv, Numbered
  <2>7. BlockPlace'
    BY <2>1, <2>2 DEF BlockPlace, Joining, Starting
  <2>8. CallbackPlace'
    <3> SUFFICES ASSUME NEW s \in Session
                 PROVE  /\ client[s] # "started" => sampler[s] = Off
                        /\ sampler[s].pc = "session" => s = graph'.old
                        /\ sampler[s].pc = "limit" <=> sampler[s].target # None
                        /\ ~(sampler[s].pc = "limit" /\ sampler[s].target = None)
                        /\ s # None
      BY <2>1 DEF CallbackPlace, Reference
    <3>1. /\ client[s] # "started" => sampler[s] = Off
          /\ sampler[s].pc = "limit" <=> sampler[s].target # None
          /\ s # None
      BY SessionTypes DEF SessionInv, CallbackPlace
    <3>2. ASSUME sampler[s].pc = "session" PROVE s = graph'.old
      <4>1. s = output
        BY <2>3, <3>1, <3>2 DEF SessionInv, CallbackPlace, Reference
      <4>2. ASSUME NEW r \in Session, sampler[r].target = output PROVE FALSE
        <5>1. sampler[r].pc = "limit" /\ Reference(r) /\ r # None
          BY <3>1, <4>1, <4>2, SessionTypes DEF SessionInv, CallbackPlace
        <5>2. r = s
          BY <2>3, <4>1, <5>1 DEF Reference
        <5> QED
          BY <3>2, <5>1, <5>2
      <4> QED
        BY <2>2, <3>1, <4>1, <4>2
    <3> QED
      BY <3>1, <3>2
  <2> QED
    BY <2>5, <2>6, <2>7, <2>8 DEF SessionInv
<1> QED
  BY <1>1, <1>2, <1>3, <1>4, <1>5, StartKeepsSessions DEF GraphStep

\* The state callback of a session: its sampling thread is started once, and
\* only while the session has an owner.
LEMMA ClientKeepsSessions == TypeOK /\ SessionInv /\ ClientStep => SessionInv'
<1> SUFFICES ASSUME TypeOK, SessionInv, ClientStep PROVE SessionInv'
  OBVIOUS
<1>1. ASSUME NEW s \in Session, NEW c \in {"connected", "starting", "started"},
             client[s] # "started", c # "started" => sampler' = sampler,
             client' = [client EXCEPT ![s] = c],
             UNCHANGED <<made, output, graph, encoder>>,
             client[s] = "connecting" => Alive(s),
             \/ queue' = queue
             \/ \E b \in Block : b.op # "start" /\ queue' = Append(queue, b),
             \A r \in Session : sampler'[r] = sampler[r] \/ (r = s /\ sampler'[r].pc = "waiting"),
             \A r \in Session : sampler'[r].target = sampler[r].target
      PROVE  SessionInv'
  <2>1. \A r \in Session : client'[r] = IF r = s THEN c ELSE client[r]
    BY <1>1, SessionTypes
  <2>2. client[s] = "connecting" => s <= output \/ s <= graph.old
    BY <1>1, SessionTypes DEF Alive
  <2>3. ASSUME NEW t \in Session, Fresh(t) PROVE Fresh(t)'
    <3>1. t # s
      BY <2>2, <2>3, SessionTypes DEF Fresh
    <3> QED
      BY <1>1, <2>1, <2>3, <3>1 DEF Fresh
  <2>4. StartsInOrder'
    BY <1>1, <2>3, OrderKept DEF SessionInv
  <2>5. s <= made
    BY <2>2, SessionTypes DEF SessionInv, Numbered
  <2>6. Numbered'
    BY <1>1, <2>1, <2>5, SessionTypes DEF SessionInv, Numbered
  <2>7. BlockPlace'
    BY <1>1 DEF SessionInv, BlockPlace, Joining, Starting
  <2>8. sampler[s].target = None
    BY <1>1 DEF SessionInv, CallbackPlace, Off
  <2>9. CallbackPlace'
    <3> SUFFICES ASSUME NEW r \in Session
                 PROVE  /\ client'[r] # "started" => sampler'[r] = Off
                        /\ sampler'[r].pc = "session" => r \in {output, graph.old}
                        /\ sampler'[r].pc = "limit" <=> sampler'[r].target # None
                        /\ sampler'[r].pc = "limit" /\ sampler'[r].target = output => r \in {output, graph.old}
                        /\ sampler'[r].pc = "limit" /\ r = output => sampler'[r].target = r
      BY <1>1 DEF CallbackPlace, Reference
    <3>1. CASE r # s
      BY <1>1, <2>1, <3>1 DEF SessionInv, CallbackPlace, Reference
    <3>2. CASE r = s /\ sampler'[r] = sampler[r]
      BY <1>1, <2>1, <3>2 DEF SessionInv, CallbackPlace, Reference
    <3>3. CASE r = s /\ sampler'[r].pc = "waiting" /\ sampler'[r] # sampler[r]
      BY <1>1, <2>1, <2>8, <3>3
    <3> QED
      BY <1>1, <3>1, <3>2, <3>3
  <2> QED
    BY <2>4, <2>6, <2>7, <2>9 DEF SessionInv
<1>2. ASSUME NEW s \in Session, ClientConnected(s) PROVE SessionInv'
  <2>1. /\ Alive(s) /\ client[s] = "connecting" /\ client' = [client EXCEPT ![s] = "connected"]
        /\ UNCHANGED <<queue, made, output, graph, encoder, sampler>>
    BY <1>2 DEF ClientConnected
  <2> QED
    BY <1>1, <2>1
<1>3. ASSUME NEW s \in Session, ClientStarted(s) PROVE SessionInv'
  <2>1. [op |-> "add", for |-> s] \in Block /\ [op |-> "add", for |-> s].op # "start"
    BY BlockTypes
  <2>2. /\ Alive(s) /\ client[s] = "connected" /\ client' = [client EXCEPT ![s] = "starting"]
        /\ queue' = Append(queue, [op |-> "add", for |-> s])
        /\ UNCHANGED <<made, output, graph, encoder, sampler>>
    BY <1>3 DEF ClientStarted
  <2> QED
    BY <1>1, <2>1, <2>2
<1>4. ASSUME NEW s \in Session, ClientReportsStarted(s) PROVE SessionInv'
  <2>1. /\ client[s] = "starting" /\ client' = [client EXCEPT ![s] = "started"]
        /\ UNCHANGED <<queue, made, output, graph, encoder>>
        /\ sampler' = [sampler EXCEPT ![s].pc = IF Alive(s) THEN "waiting" ELSE @]
    BY <1>4 DEF ClientReportsStarted
  <2>2. /\ sampler'[s] = [sampler[s] EXCEPT !.pc = IF Alive(s) THEN "waiting" ELSE @]
        /\ \A r \in Session : r # s => sampler'[r] = sampler[r]
    BY <2>1, SessionTypes
  <2>3. sampler[s] \in SamplerType
    BY SessionTypes
  <2>4. sampler'[s].target = sampler[s].target /\ (sampler'[s] = sampler[s] \/ sampler'[s].pc = "waiting")
    BY <2>2, <2>3 DEF SamplerType
  <2>5. /\ \A r \in Session : sampler'[r] = sampler[r] \/ (r = s /\ sampler'[r].pc = "waiting")
        /\ \A r \in Session : sampler'[r].target = sampler[r].target
    BY <2>2, <2>4
  <2> QED
    BY <1>1, <2>1, <2>5
<1>5. ASSUME NEW s \in Session, NEW r \in {"Ended", "Error"}, ClientStops(s, r) PROVE SessionInv'
  BY <1>5, SessionFrame DEF ClientStops, sessionInvVars, sessionVars
<1> QED
  BY <1>2, <1>3, <1>4, <1>5 DEF ClientStep

\* The bandwidth callback: it takes m_outputSession while its own session has
\* an owner, and lets go of it again.
LEMMA CallbackKeepsSessions == TypeOK /\ SessionInv /\ SamplerStep => SessionInv'
<1> SUFFICES ASSUME TypeOK, SessionInv, SamplerStep PROVE SessionInv'
  OBVIOUS
<1>1. ASSUME NEW s \in Session,
             UNCHANGED <<queue, made, output, graph, client>>,
             encoder'.for = encoder.for,
             encoder'.status = encoder.status \/ (encoder'.status = "adapted" /\ encoder.status # "none"),
             client[s] = "started",
             \A r \in Session : r # s => sampler'[r] = sampler[r],
             sampler'[s].target \in {None, output},
             sampler'[s].pc \in {"session", "waiting"} => sampler'[s].target = None,
             sampler'[s].pc = "session" => Reference(s),
             sampler'[s].pc = "limit" => output # None /\ sampler'[s].target = output /\ Reference(s),
             sampler'[s].pc \in {"session", "waiting", "limit"}
      PROVE  SessionInv'
  <2>1. None <= made /\ output <= made
    BY SessionTypes DEF None, SessionInv, Numbered
  <2>2. ASSUME NEW t \in Session, Fresh(t) PROVE Fresh(t)'
    <3>1. None < t /\ output < t
      BY <2>2, SessionTypes DEF None, Fresh
    <3>2. \A r \in Session : sampler'[r].target < t
      BY <1>1, <2>2, <3>1 DEF Fresh
    <3> QED
      BY <1>1, <2>2, <3>2 DEF Fresh
  <2>3. StartsInOrder'
    BY <1>1, <2>2, OrderKept DEF SessionInv
  <2>4. Numbered'
    <3>1. \A r \in Session : sampler'[r].target <= made
      BY <1>1, <2>1 DEF SessionInv, Numbered
    <3> QED
      BY <1>1, <3>1 DEF SessionInv, Numbered
  <2>5. BlockPlace'
    <3>1. (Joining' <=> Joining) /\ (Starting' <=> Starting)
      BY <1>1 DEF Joining, Starting
    <3> QED
      BY <1>1, <3>1 DEF SessionInv, BlockPlace
  <2>6. CallbackPlace'
    <3> SUFFICES ASSUME NEW r \in Session
                 PROVE  /\ client[r] # "started" => sampler'[r] = Off
                        /\ sampler'[r].pc = "session" => Reference(r)
                        /\ sampler'[r].pc = "limit" <=> sampler'[r].target # None
                        /\ sampler'[r].pc = "limit" /\ sampler'[r].target = output => Reference(r)
                        /\ sampler'[r].pc = "limit" /\ r = output => sampler'[r].target = r
      BY <1>1 DEF CallbackPlace, Reference
    <3>1. CASE r # s
      BY <1>1, <3>1 DEF SessionInv, CallbackPlace
    <3>2. CASE r = s
      BY <1>1, <3>2
    <3> QED
      BY <3>1, <3>2
  <2> QED
    BY <2>3, <2>4, <2>5, <2>6 DEF SessionInv
<1>2. ASSUME NEW s \in Session, sampler[s].pc # "off" PROVE client[s] = "started"
  BY <1>2 DEF SessionInv, CallbackPlace, Off
<1>3. ASSUME NEW s \in Session, NEW v \in {-1, 1}, BandwidthAdapts(s, v) PROVE SessionInv'
  <2> DEFINE rate == Adapted(encoder.rate, v, ceiling)
  <2>1. /\ sampler[s].pc = "waiting" /\ Alive(s) /\ encoder.status # "none"
        /\ UNCHANGED <<queue, made, output, graph, client>>
        /\ encoder' = [encoder EXCEPT !.rate = rate, !.status = "adapted"]
        /\ sampler' = [sampler EXCEPT ![s].pc = "session", ![s].rate = rate]
    BY <1>3, Zenon DEF BandwidthAdapts, sessionVars, RateForLimit
  <2>2. encoder'.for = encoder.for /\ encoder'.status = "adapted"
    BY <2>1 DEF TypeOK, GraphOK, EncoderType
  <2>3. /\ \A r \in Session : r # s => sampler'[r] = sampler[r]
        /\ sampler'[s] = [[sampler[s] EXCEPT !.pc = "session"] EXCEPT !.rate = rate]
    BY <2>1, SessionTypes
  <2>4. sampler[s] \in SamplerType
    BY SessionTypes
  <2>5. sampler'[s].pc = "session" /\ sampler'[s].target = sampler[s].target
    BY <2>3, <2>4 DEF SamplerType
  <2>6. sampler'[s].target = None
    BY <2>1, <2>5 DEF SessionInv, CallbackPlace
  <2>7. Reference(s) /\ client[s] = "started"
    BY <1>2, <2>1 DEF Alive, Reference
  <2> QED
    BY <1>1, <2>1, <2>2, <2>3, <2>5, <2>6, <2>7
<1>4. ASSUME NEW s \in Session, BandwidthTakesSession(s) PROVE SessionInv'
  <2>1. sampler[s].pc = "session" /\ UNCHANGED <<queue, made, output, graph, client, encoder>>
    BY <1>4 DEF BandwidthTakesSession, sessionVars
  <2>2. CASE output = None
    BY <1>4, <2>1, <2>2, SessionFrame DEF BandwidthTakesSession, sessionInvVars
  <2>3. CASE output # None
    <3>1. sampler' = [sampler EXCEPT ![s] = [pc |-> "limit", rate |-> @.rate, target |-> output]]
      BY <1>4, <2>3 DEF BandwidthTakesSession
    <3>2. /\ \A r \in Session : r # s => sampler'[r] = sampler[r]
          /\ sampler'[s].pc = "limit" /\ sampler'[s].target = output
      BY <3>1, SessionTypes
    <3>3. Reference(s) /\ client[s] = "started"
      BY <1>2, <2>1 DEF SessionInv, CallbackPlace
    <3> QED
      BY <1>1, <2>1, <2>3, <3>2, <3>3
  <2> QED
    BY <2>2, <2>3
<1>5. ASSUME NEW s \in Session, BandwidthSetsLimit(s) PROVE SessionInv'
  <2>1. /\ sampler[s].pc = "limit" /\ UNCHANGED <<queue, made, output, graph, client, encoder>>
        /\ sampler' = [sampler EXCEPT ![s].pc = "waiting", ![s].target = None]
    BY <1>5 DEF BandwidthSetsLimit
  <2>2. /\ \A r \in Session : r # s => sampler'[r] = sampler[r]
        /\ sampler'[s] = [[sampler[s] EXCEPT !.pc = "waiting"] EXCEPT !.target = None]
    BY <2>1, SessionTypes
  <2>3. sampler[s] \in SamplerType
    BY SessionTypes
  <2>4. sampler'[s].pc = "waiting" /\ sampler'[s].target = None
    BY <2>2, <2>3 DEF SamplerType
  <2>5. client[s] = "started"
    BY <1>2, <2>1
  <2> QED
    BY <1>1, <2>1, <2>2, <2>4, <2>5
<1> QED
  BY <1>3, <1>4, <1>5 DEF SamplerStep

\* Sessions keep their order and their users their place.
LEMMA SessionsKept == Spec => [](TypeOK /\ SessionInv)
<1>1. Init => SessionInv
  <2> SUFFICES ASSUME Init PROVE SessionInv
    OBVIOUS
  <2>1. /\ queue = <<>> /\ graph.pc = "idle" /\ graph.old = None /\ output = None /\ made = 0
        /\ encoder.for = None
        /\ \A s \in Session : client[s] = "connecting" /\ sampler[s] = Off
    BY DEF Init, Idle, At, NoEncoder
  <2>2. Off.target = None /\ Off.pc = "off" /\ None = 0
    BY DEF Off, None
  <2>3. StartsInOrder
    BY <2>1 DEF StartsInOrder
  <2>4. Numbered
    BY <2>1, <2>2 DEF Numbered
  <2>5. BlockPlace
    BY <2>1 DEF BlockPlace, Joining, Starting
  <2>6. CallbackPlace
    BY <2>1, <2>2 DEF CallbackPlace
  <2> QED
    BY <2>3, <2>4, <2>5, <2>6 DEF SessionInv
<1>2. TypeOK /\ SessionInv /\ [Next]_vars => SessionInv'
  <2>1. SessionInv /\ UNCHANGED vars => SessionInv'
    BY SessionFrame DEF vars, sessionInvVars
  <2> QED
    BY <2>1, AppKeepsSessions, GraphKeepsSessions, ClientKeepsSessions, CallbackKeepsSessions DEF Next
<1> QED
  BY <1>1, <1>2, TypeCorrect, PTL DEF Spec

\* The program ends on a null m_outputSession only while the graph queue is
\* inside ~RTMPSession of the session whose callback it is: a callback has an
\* owner until it has taken its reference, and the destructor waits for it.
THEOREM NullFoundInDestructorOnly == Spec => []NullOnlyInsideDestructor
<1>1. Init => NullOnlyInsideDestructor
  BY DEF Init, NullOnlyInsideDestructor
<1>2. TypeOK /\ SessionInv /\ NullOnlyInsideDestructor /\ [Next]_vars => NullOnlyInsideDestructor'
  <2> SUFFICES ASSUME TypeOK, SessionInv, NullOnlyInsideDestructor, [Next]_vars
               PROVE  NullOnlyInsideDestructor'
    OBVIOUS
  <2>1. CASE UNCHANGED vars
    BY <2>1 DEF vars, NullOnlyInsideDestructor
  <2>2. CASE Next /\ crashed' = crashed
    BY <2>2 DEF Next, NullOnlyInsideDestructor
  <2>3. ASSUME NEW s \in Session, BandwidthTakesSession(s) PROVE NullOnlyInsideDestructor'
    <3>1. CASE output = None
      <4>1. sampler[s].pc = "session" /\ graph' = graph
        BY <2>3 DEF BandwidthTakesSession
      <4>2. s = graph.old /\ s # None
        BY <3>1, <4>1, SessionTypes DEF SessionInv, CallbackPlace, Reference
      <4>3. Joining /\ graph.pc # "join start"
        BY <3>1, <4>2 DEF SessionInv, BlockPlace, Starting
      <4> QED
        BY <4>1, <4>3 DEF Joining, NullOnlyInsideDestructor
    <3>2. CASE output # None
      BY <2>3, <3>2 DEF BandwidthTakesSession, NullOnlyInsideDestructor
    <3> QED
      BY <3>1, <3>2
  <2>4. ASSUME NEW s \in Session, BandwidthSetsLimit(s) PROVE NullOnlyInsideDestructor'
    BY <2>4 DEF BandwidthSetsLimit, NullOnlyInsideDestructor
  <2>5. AppStep \/ GraphStep \/ ClientStep => crashed' = crashed
    BY DEF AppStep, SetBitrate, SetUseAdaptiveBitrate, StartRtmpSession, StopRtmpSession,
           StopRestoresBitrate, StopReportsState, GraphStep, GraphStart, GraphExits, GraphJoin,
           GraphLoadBitrate, GraphStoreCeiling, GraphAdaptiveStart, GraphAddEncoders, GraphTeardown,
           ClientStep, ClientConnected, ClientStarted, ClientReportsStarted, ClientStops
  <2>6. ASSUME NEW s \in Session, NEW v \in {-1, 1}, BandwidthAdapts(s, v) PROVE crashed' = crashed
    BY <2>6, Zenon DEF BandwidthAdapts
  <2> QED
    BY <2>1, <2>2, <2>3, <2>4, <2>5, <2>6 DEF Next, SamplerStep
<1> QED
  BY <1>1, <1>2, SessionsKept, PTL DEF Spec

-----------------------------------------------------------------------------
(* The send limit follows the encoder. *)

\* While the current session's callback is under way it carries the rate of the
\* encoder that feeds the session; otherwise the limit is the one for that rate.
LimitInv ==
    /\ output = None => encoder.status # "adapted"
    /\ encoder.status = "adapted" /\ encoder.for = output =>
         IF sampler[output].pc \in {"session", "limit"}
         THEN sampler[output].rate = encoder.rate
         ELSE limit[output] = SendLimit(encoder.rate)

limitInvVars == <<output, encoder, sampler, limit>>

LEMMA LimitFrame == LimitInv /\ UNCHANGED limitInvVars => LimitInv'
BY DEF LimitInv, limitInvVars

\* A callback that runs for the session an adapted encoder feeds, or is about
\* to set its limit, is that session's own.
LEMMA OwnCallback ==
    ASSUME TypeOK, SessionInv, NEW s \in Session, Reference(s),
           output # None, encoder.for = output
    PROVE  s = output
BY SessionTypes DEF SessionInv, BlockPlace, Joining, Reference

LEMMA CallbackKeepsLimit == TypeOK /\ SessionInv /\ LimitInv /\ SamplerStep => LimitInv'
<1> SUFFICES ASSUME TypeOK, SessionInv, LimitInv, SamplerStep PROVE LimitInv'
  OBVIOUS
<1>1. ASSUME NEW s \in Session, NEW v \in {-1, 1}, BandwidthAdapts(s, v) PROVE LimitInv'
  <2> DEFINE rate == Adapted(encoder.rate, v, ceiling)
  <2>1. /\ Alive(s) /\ encoder.status # "none"
        /\ UNCHANGED <<output, graph>>
        /\ encoder' = [encoder EXCEPT !.rate = rate, !.status = "adapted"]
        /\ sampler' = [sampler EXCEPT ![s].pc = "session", ![s].rate = rate]
    BY <1>1, Zenon DEF BandwidthAdapts, sessionVars, RateForLimit
  <2>2. encoder'.for = encoder.for /\ encoder'.rate = rate
    BY <2>1 DEF TypeOK, GraphOK, EncoderType
  <2>3. sampler[s] \in SamplerType /\ sampler'[s] = [[sampler[s] EXCEPT !.pc = "session"] EXCEPT !.rate = rate]
    BY <2>1, SessionTypes
  <2>4. sampler'[s].pc = "session" /\ sampler'[s].rate = rate
    BY <2>3 DEF SamplerType
  <2>5. Reference(s)
    BY <2>1 DEF Alive, Reference
  <2>6. output # None
    BY <2>1, <2>5, SessionTypes DEF SessionInv, BlockPlace, Joining, Reference, Starting
  <2>7. encoder.for = output => s = output
    BY <2>1, <2>5, <2>6, OwnCallback
  <2> QED
    BY <2>1, <2>2, <2>4, <2>6, <2>7 DEF LimitInv
<1>2. ASSUME NEW s \in Session, BandwidthTakesSession(s) PROVE LimitInv'
  <2>1. sampler[s].pc = "session" /\ UNCHANGED <<output, encoder, limit>>
    BY <1>2 DEF BandwidthTakesSession, sessionVars
  <2>2. CASE output = None
    BY <1>2, <2>1, <2>2, LimitFrame DEF BandwidthTakesSession, limitInvVars
  <2>3. CASE output # None
    <3>1. sampler' = [sampler EXCEPT ![s] = [pc |-> "limit", rate |-> @.rate, target |-> output]]
      BY <1>2, <2>3 DEF BandwidthTakesSession
    <3>2. /\ \A r \in Session : r # s => sampler'[r] = sampler[r]
          /\ sampler'[s].pc = "limit" /\ sampler'[s].rate = sampler[s].rate
      BY <3>1, SessionTypes
    <3>3. output \in Session
      BY <2>3, SessionTypes
    <3> QED
      BY <2>1, <2>3, <3>2, <3>3 DEF LimitInv
  <2> QED
    BY <2>2, <2>3
<1>3. ASSUME NEW s \in Session, BandwidthSetsLimit(s) PROVE LimitInv'
  <2>1. /\ sampler[s].pc = "limit" /\ UNCHANGED <<output, encoder>>
        /\ sampler' = [sampler EXCEPT ![s].pc = "waiting", ![s].target = None]
        /\ limit' = [limit EXCEPT ![sampler[s].target] = SendLimit(sampler[s].rate)]
    BY <1>3 DEF BandwidthSetsLimit
  <2>2. /\ \A r \in Session : r # s => sampler'[r] = sampler[r]
        /\ sampler'[s] = [[sampler[s] EXCEPT !.pc = "waiting"] EXCEPT !.target = None]
        /\ sampler[s] \in SamplerType
    BY <2>1, SessionTypes
  <2>3. sampler'[s].pc = "waiting"
    BY <2>2 DEF SamplerType
  <2>4. \A r \in Session : limit'[r] = IF r = sampler[s].target THEN SendLimit(sampler[s].rate) ELSE limit[r]
    BY <2>1 DEF TypeOK, SamplerOK
  <2> SUFFICES ASSUME encoder.status = "adapted", encoder.for = output
               PROVE  IF sampler'[output].pc \in {"session", "limit"}
                      THEN sampler'[output].rate = encoder.rate
                      ELSE limit'[output] = SendLimit(encoder.rate)
    BY <2>1 DEF LimitInv
  <2>5. output \in Session /\ output # None
    BY SessionTypes DEF LimitInv
  <2>6. sampler[s].target = output => s = output
    BY <2>1, <2>5, OwnCallback DEF SessionInv, CallbackPlace
  <2>7. s = output => sampler[s].target = output
    BY <2>1 DEF SessionInv, CallbackPlace
  <2>8. CASE s = output
    <3>1. sampler[s].rate = encoder.rate
      BY <2>1, <2>8 DEF LimitInv
    <3> QED
      BY <2>3, <2>4, <2>5, <2>7, <2>8, <3>1
  <2>9. CASE s # output
    BY <2>2, <2>4, <2>5, <2>6, <2>9 DEF LimitInv
  <2> QED
    BY <2>8, <2>9
<1> QED
  BY <1>1, <1>2, <1>3 DEF SamplerStep

LEMMA GraphKeepsLimit == TypeOK /\ SessionInv /\ LimitInv /\ GraphStep => LimitInv'
<1> SUFFICES ASSUME TypeOK, SessionInv, LimitInv, GraphStep PROVE LimitInv'
  OBVIOUS
<1>1. CASE GraphExits \/ GraphLoadBitrate \/ GraphStoreCeiling \/ GraphAdaptiveStart
  BY <1>1, LimitFrame DEF GraphExits, GraphLoadBitrate, GraphStoreCeiling, GraphAdaptiveStart,
                          limitInvVars, sessionVars
<1>2. CASE GraphStart
  <2>1. output' = Head(queue).for /\ encoder' = encoder /\ NextBlock("start")
    BY <1>2 DEF GraphStart
  <2>2. Head(queue).for \in Session /\ Fresh(Head(queue).for)
    BY <2>1, StartTaken
  <2>3. encoder.for < output' /\ output' # None /\ output' \in Nat
    BY <2>1, <2>2, SessionTypes DEF Fresh
  <2>4. encoder.for # output'
    BY <2>3, SessionTypes
  <2> QED
    BY <2>1, <2>3, <2>4 DEF LimitInv
<1>3. CASE GraphJoin
  <2>1. /\ Joining /\ UNCHANGED <<output, encoder, limit>>
        /\ sampler' = [sampler EXCEPT ![graph.old] = IF @.pc = "waiting" THEN Off ELSE @]
    BY <1>3 DEF GraphJoin, Joining
  <2>2. output # None => output # graph.old
    BY <2>1 DEF SessionInv, BlockPlace, Joining
  <2>3. output # None => sampler'[output] = sampler[output]
    BY <2>1, <2>2, SessionTypes
  <2> QED
    BY <2>1, <2>3 DEF LimitInv
<1>4. CASE GraphAddEncoders
  BY <1>4 DEF GraphAddEncoders, LimitInv
<1>5. CASE GraphTeardown
  BY <1>5 DEF GraphTeardown, LimitInv, TornDownEncoder, NoEncoder
<1> QED
  BY <1>1, <1>2, <1>3, <1>4, <1>5 DEF GraphStep

\* Between callbacks the session that an adapted encoder feeds has the send
\* limit of its rate, whatever callbacks, starts and teardowns overlap.
THEOREM LimitFollows == Spec => []LimitFollowsEncoder
<1>1. Init => LimitInv
  BY DEF Init, LimitInv, NoEncoder
<1>2. TypeOK /\ SessionInv /\ LimitInv /\ [Next]_vars => LimitInv'
  <2> SUFFICES ASSUME TypeOK, SessionInv, LimitInv, [Next]_vars PROVE LimitInv'
    OBVIOUS
  <2>1. CASE UNCHANGED vars
    BY <2>1, LimitFrame DEF vars, limitInvVars
  <2>2. CASE AppStep
    <3>1. UNCHANGED limitInvVars
      BY <2>2 DEF AppStep, SetBitrate, SetUseAdaptiveBitrate, StartRtmpSession, StopRtmpSession,
                  StopRestoresBitrate, StopReportsState, limitInvVars, sessionVars
    <3> QED
      BY <3>1, LimitFrame
  <2>3. ASSUME NEW s \in Session, ClientReportsStarted(s) PROVE LimitInv'
    <3>1. /\ client[s] = "starting" /\ UNCHANGED <<output, encoder, limit>>
          /\ sampler' = [sampler EXCEPT ![s].pc = IF Alive(s) THEN "waiting" ELSE @]
      BY <2>3 DEF ClientReportsStarted
    <3>2. /\ \A r \in Session : r # s => sampler'[r] = sampler[r]
          /\ sampler'[s] = [sampler[s] EXCEPT !.pc = IF Alive(s) THEN "waiting" ELSE @]
          /\ sampler[s] \in SamplerType /\ sampler[s] = Off
      BY <3>1, SessionTypes DEF SessionInv, CallbackPlace
    <3>3. sampler'[s].pc \in {"off", "waiting"} /\ sampler[s].pc = "off"
      BY <3>2 DEF SamplerType, Off
    <3>4. output # None => output \in Session
      BY SessionTypes
    <3> QED
      BY <3>1, <3>2, <3>3, <3>4 DEF LimitInv
  <2>4. ASSUME NEW s \in Session, \/ ClientConnected(s) \/ ClientStarted(s)
                                  \/ ClientStops(s, "Ended") \/ ClientStops(s, "Error")
        PROVE  LimitInv'
    BY <2>4, LimitFrame DEF ClientConnected, ClientStarted, ClientStops, limitInvVars, sessionVars
  <2> QED
    BY <2>1, <2>2, <2>3, <2>4, GraphKeepsLimit, CallbackKeepsLimit DEF Next, ClientStep
<1>3. TypeOK /\ LimitInv => LimitFollowsEncoder
  <2> SUFFICES ASSUME TypeOK, LimitInv, encoder.status = "adapted", encoder.for = output,
                      \A s \in Session : sampler[s].pc \in {"off", "waiting"}
               PROVE  limit[output] = SendLimit(encoder.rate)
    BY DEF LimitFollowsEncoder
  <2>1. output \in Session
    BY SessionTypes DEF LimitInv
  <2> QED
    BY <2>1 DEF LimitInv
<1> QED
  BY <1>1, <1>2, <1>3, SessionsKept, PTL DEF Spec

-----------------------------------------------------------------------------
(* Encoders feed a session that publishes. *)

IsAdd(i) == queue[i].op = "add"
Publishing(s) == client[s] \in {"starting", "started"}

\* Unless a block that adds encoders was queued behind one that replaces or
\* resets the session, such a block has only its like in front of it, and the
\* session it was queued for is still the current one.
AddInv ==
    ~lateAdd =>
      /\ \A i \in 1..Len(queue) : IsAdd(i) =>
           /\ queue[i].for = output
           /\ \A j \in 1..i : IsAdd(j)
      /\ (\E i \in 1..Len(queue) : IsAdd(i)) => Publishing(output)
      /\ encoder.status # "none" => output # None /\ encoder.for # None /\ Publishing(encoder.for)

LEMMA AddFrame == AddInv /\ UNCHANGED <<lateAdd, queue, output, client, encoder>> => AddInv'
BY DEF AddInv, IsAdd, Publishing

\* Blocks that are not for encoders may come; what has begun to publish stays so.
LEMMA AppendToAdds ==
    ASSUME TypeOK, AddInv, UNCHANGED <<lateAdd, output, encoder, client>>,
           NEW b \in Block, b.op # "add", queue' = Append(queue, b)
    PROVE  AddInv'
<1>1. /\ Len(queue') = Len(queue) + 1 /\ Len(queue) \in Nat
      /\ \A i \in 1..Len(queue) : queue'[i] = queue[i]
      /\ queue'[Len(queue) + 1] = b
  BY SessionTypes, AppendedBlock
<1>2. \A i \in 1..Len(queue') : IsAdd(i)' => i \in 1..Len(queue) /\ IsAdd(i) /\ queue'[i] = queue[i]
  BY <1>1 DEF IsAdd
<1>3. \A i \in 1..Len(queue) : (IsAdd(i)' <=> IsAdd(i)) /\ \A j \in 1..i : j \in 1..Len(queue)
  BY <1>1 DEF IsAdd
<1> QED
  BY <1>2, <1>3 DEF AddInv, Publishing

\* The first block goes; when it adds no encoders, none of the others does.
LEMMA TakeFromAdds ==
    ASSUME TypeOK, AddInv, ~lateAdd, queue # <<>>, queue' = Tail(queue)
    PROVE  /\ Head(queue).op # "add" => \A i \in 1..Len(queue') : ~IsAdd(i)'
           /\ Head(queue).op = "add" => Publishing(output) /\ output # None
           /\ \A i \in 1..Len(queue') : IsAdd(i)' =>
                queue'[i].for = output /\ \A j \in 1..i : IsAdd(j)'
           /\ (\E i \in 1..Len(queue') : IsAdd(i)') => Publishing(output)
<1>1. /\ Len(queue') = Len(queue) - 1 /\ Len(queue) \in Nat \ {0}
      /\ \A i \in 1..Len(queue') : queue'[i] = queue[i + 1]
      /\ queue[1] = Head(queue) /\ Head(queue) \in Block
  BY SessionTypes, HeadIsBlock
<1>2. \A i \in 1..Len(queue') : i + 1 \in 1..Len(queue) /\ 1 \in 1..(i + 1) /\ (IsAdd(i)' <=> IsAdd(i + 1))
  BY <1>1 DEF IsAdd
<1>3. (IsAdd(1) <=> Head(queue).op = "add") /\ 1 \in 1..Len(queue)
  BY <1>1 DEF IsAdd
<1>4. ASSUME NEW i \in 1..Len(queue'), IsAdd(i)'
      PROVE  IsAdd(1) /\ queue'[i].for = output /\ \A j \in 1..i : IsAdd(j)'
  <2>1. queue[i + 1].for = output /\ \A j \in 1..(i + 1) : IsAdd(j)
    BY <1>2, <1>4 DEF AddInv
  <2>2. \A j \in 1..i : j \in 1..Len(queue') /\ j + 1 \in 1..(i + 1)
    BY <1>1
  <2> QED
    BY <1>1, <1>2, <1>4, <2>1, <2>2
<1>5. Head(queue).op = "add" => Publishing(output) /\ output # None
  <2>1. IsAdd(1) => Publishing(output) /\ Head(queue).for = output
    BY <1>1, <1>3 DEF AddInv
  <2> QED
    BY <1>1, <1>3, <2>1, BlockSession, SessionTypes
<1>6. (\E i \in 1..Len(queue') : IsAdd(i)') => Publishing(output)
  BY <1>2 DEF AddInv
<1> QED
  BY <1>3, <1>4, <1>5, <1>6

LEMMA GraphKeepsAdds == TypeOK /\ SessionInv /\ AddInv /\ GraphStep => AddInv'
<1> SUFFICES ASSUME TypeOK, SessionInv, AddInv, GraphStep PROVE AddInv'
  OBVIOUS
<1>1. CASE GraphExits \/ GraphJoin \/ GraphLoadBitrate \/ GraphStoreCeiling \/ GraphAdaptiveStart
  BY <1>1, AddFrame DEF GraphExits, GraphJoin, GraphLoadBitrate, GraphStoreCeiling, GraphAdaptiveStart,
                        sessionVars, historyVars
<1>2. CASE GraphStart
  <2>1. /\ queue # <<>> /\ Head(queue).op = "start" /\ queue' = Tail(queue) /\ NextBlock("start")
        /\ UNCHANGED <<lateAdd, client, encoder>> /\ output' = Head(queue).for
    BY <1>2 DEF GraphStart, NextBlock, historyVars
  <2>2. output' # None
    BY <2>1, StartTaken, SessionTypes
  <2>3. ~lateAdd => \A i \in 1..Len(queue') : ~IsAdd(i)'
    BY <2>1, TakeFromAdds
  <2> QED
    BY <2>1, <2>2, <2>3 DEF AddInv, Publishing
<1>3. CASE GraphAddEncoders
  <2>1. /\ queue # <<>> /\ Head(queue).op = "add" /\ queue' = Tail(queue)
        /\ UNCHANGED <<lateAdd, client, output>> /\ encoder'.for = output
    BY <1>3 DEF GraphAddEncoders, NextBlock, sessionVars, historyVars
  <2> SUFFICES ASSUME ~lateAdd
               PROVE  /\ \A i \in 1..Len(queue') : IsAdd(i)' => queue'[i].for = output /\ \A j \in 1..i : IsAdd(j)'
                      /\ (\E i \in 1..Len(queue') : IsAdd(i)') => Publishing(output)
                      /\ output # None /\ Publishing(output)
    BY <2>1 DEF AddInv, Publishing
  <2> QED
    BY <2>1, TakeFromAdds
<1>4. CASE GraphTeardown
  <2>1. /\ queue # <<>> /\ Head(queue).op = "teardown" /\ queue' = Tail(queue)
        /\ UNCHANGED <<lateAdd, client>> /\ encoder'.status = "none"
    BY <1>4 DEF GraphTeardown, NextBlock, TornDownEncoder, NoEncoder, historyVars
  <2>2. ~lateAdd => \A i \in 1..Len(queue') : ~IsAdd(i)'
    BY <2>1, TakeFromAdds
  <2> QED
    BY <2>1, <2>2 DEF AddInv
<1> QED
  BY <1>1, <1>2, <1>3, <1>4 DEF GraphStep

LEMMA ClientKeepsAdds == TypeOK /\ AddInv /\ ClientStep => AddInv'
<1> SUFFICES ASSUME TypeOK, AddInv, ClientStep PROVE AddInv'
  OBVIOUS
<1>1. ASSUME NEW s \in Session, UNCHANGED <<lateAdd, queue, output, encoder>>,
             \/ client' = client
             \/ client[s] = "connecting" /\ client' = [client EXCEPT ![s] = "connected"]
             \/ client' = [client EXCEPT ![s] = "started"]
      PROVE  AddInv'
  <2>1. \A r \in Session : Publishing(r) => Publishing(r)'
    BY <1>1, SessionTypes DEF Publishing
  <2>2. output # None => output \in Session
    BY SessionTypes
  <2>3. encoder.for # None => encoder.for \in Session
    BY SessionTypes
  <2>4. ASSUME NEW i \in 1..Len(queue), IsAdd(i) PROVE queue[i].for \in Session
    BY <2>4, SessionTypes, ElementOfSeq, BlockSession DEF IsAdd
  <2>5. ~lateAdd /\ (\E i \in 1..Len(queue) : IsAdd(i)) => output \in Session /\ Publishing(output)
    BY <2>4 DEF AddInv
  <2> QED
    BY <1>1, <2>1, <2>3, <2>5 DEF AddInv, IsAdd, Publishing
<1>2. ASSUME NEW s \in Session, ClientConnected(s) PROVE AddInv'
  BY <1>1, <1>2 DEF ClientConnected, historyVars
<1>3. ASSUME NEW s \in Session, ClientReportsStarted(s) PROVE AddInv'
  BY <1>1, <1>3 DEF ClientReportsStarted, historyVars
<1>4. ASSUME NEW s \in Session, NEW r \in {"Ended", "Error"}, ClientStops(s, r) PROVE AddInv'
  BY <1>4, AddFrame DEF ClientStops, sessionVars, historyVars
<1>5. ASSUME NEW s \in Session, ClientStarted(s) PROVE AddInv'
  <2>1. /\ client[s] = "connected" /\ client' = [client EXCEPT ![s] = "starting"]
        /\ queue' = Append(queue, [op |-> "add", for |-> s])
        /\ lateAdd' = (lateAdd \/ output # s \/ Queued("start") \/ Queued("teardown"))
        /\ UNCHANGED <<output, encoder>>
    BY <1>5 DEF ClientStarted
  <2> SUFFICES ASSUME ~lateAdd' PROVE AddInv'
    BY DEF AddInv
  <2>2. ~lateAdd /\ output = s /\ ~Queued("start") /\ ~Queued("teardown")
    BY <2>1
  <2>3. /\ Len(queue') = Len(queue) + 1 /\ Len(queue) \in Nat
        /\ \A i \in 1..Len(queue) : queue'[i] = queue[i]
        /\ queue'[Len(queue) + 1] = [op |-> "add", for |-> s]
    BY <2>1, SessionTypes, BlockTypes, AppendedBlock
  <2>4. ASSUME NEW i \in 1..Len(queue) PROVE IsAdd(i)
    <3>1. queue[i] \in Block
      BY SessionTypes, ElementOfSeq
    <3>2. queue[i].op # "start" /\ queue[i].op # "teardown"
      BY <2>2 DEF Queued
    <3> QED
      BY <3>1, <3>2 DEF Block, IsAdd
  <2>5. \A i \in 1..Len(queue) : queue[i].for = s
    BY <2>2, <2>4 DEF AddInv
  <2>6. \A i \in 1..Len(queue') : IsAdd(i)' /\ queue'[i].for = s /\ \A j \in 1..i : j \in 1..Len(queue')
    BY <2>3, <2>4, <2>5 DEF IsAdd
  <2>7. Publishing(s)' /\ \A r \in Session : Publishing(r) => Publishing(r)'
    BY <2>1, SessionTypes DEF Publishing
  <2>8. encoder.for # None => encoder.for \in Session
    BY SessionTypes
  <2> QED
    BY <2>1, <2>2, <2>6, <2>7, <2>8 DEF AddInv, Publishing
<1> QED
  BY <1>2, <1>3, <1>4, <1>5 DEF ClientStep

\* Media goes to a session that has begun to publish, unless the block that
\* adds the encoders was queued behind one that replaces or resets the session.
THEOREM EncodersFeedPublished == Spec => []EncodersFeedPublishedSession
<1>1. Init => AddInv
  BY DEF Init, AddInv, NoEncoder
<1>2. TypeOK /\ SessionInv /\ AddInv /\ [Next]_vars => AddInv'
  <2> SUFFICES ASSUME TypeOK, SessionInv, AddInv, [Next]_vars PROVE AddInv'
    OBVIOUS
  <2>1. CASE UNCHANGED vars
    BY <2>1, AddFrame DEF vars
  <2>2. ASSUME \/ \E b \in Bitrates : SetBitrate(b)
               \/ \E on \in BOOLEAN : SetUseAdaptiveBitrate(on)
               \/ StopRestoresBitrate \/ StopReportsState
        PROVE  AddInv'
    BY <2>2, AddFrame DEF SetBitrate, SetUseAdaptiveBitrate, StopRestoresBitrate, StopReportsState,
                          sessionVars, historyVars
  <2>3. CASE StartRtmpSession
    <3>1. /\ queue' = Append(queue, [op |-> "start", for |-> made + 1]) /\ made < MaxSessions
          /\ UNCHANGED <<lateAdd, output, encoder, client>>
      BY <2>3 DEF StartRtmpSession
    <3> QED
      BY <3>1, NewSession, BlockTypes, AppendToAdds
  <2>4. ASSUME NEW call \in {"pause", "end"}, StopRtmpSession(call) PROVE AddInv'
    <3>1. /\ queue' = Append(queue, [op |-> "teardown", for |-> None])
          /\ UNCHANGED <<lateAdd, output, encoder, client>>
      BY <2>4 DEF StopRtmpSession, sessionVars
    <3> QED
      BY <3>1, BlockTypes, AppendToAdds
  <2>5. ASSUME NEW s \in Session, NEW v \in {-1, 1}, BandwidthAdapts(s, v) PROVE AddInv'
    <3>1. /\ encoder.status # "none"
          /\ UNCHANGED <<lateAdd, queue, output, client>>
          /\ encoder' = [encoder EXCEPT !.rate = Adapted(encoder.rate, v, ceiling), !.status = "adapted"]
      BY <2>5, Zenon DEF BandwidthAdapts, sessionVars, historyVars
    <3>2. encoder'.for = encoder.for
      BY <3>1 DEF TypeOK, GraphOK, EncoderType
    <3> QED
      BY <3>1, <3>2 DEF AddInv, IsAdd, Publishing
  <2>6. ASSUME NEW s \in Session, BandwidthTakesSession(s) \/ BandwidthSetsLimit(s) PROVE AddInv'
    BY <2>6, AddFrame DEF BandwidthTakesSession, BandwidthSetsLimit, sessionVars, historyVars
  <2> QED
    BY <2>1, <2>2, <2>3, <2>4, <2>5, <2>6, GraphKeepsAdds, ClientKeepsAdds DEF Next, AppStep, SamplerStep
<1>3. AddInv => EncodersFeedPublishedSession
  BY DEF AddInv, EncodersFeedPublishedSession, Publishing
<1> QED
  BY <1>1, <1>2, <1>3, SessionsKept, PTL DEF Spec
=============================================================================
